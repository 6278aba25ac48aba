----------------------------- MODULE ControlPlane -----------------------------
(***************************************************************************)
(* The process of the control plane from start to end: main builds the     *)
(* notifiers behind the egress guard, starts the dispatcher, the flusher   *)
(* and the listener, and stops them again; the dispatcher calls the        *)
(* modules and then every notifier, one after the other.                   *)
(*                                                                         *)
(* What the modules do to the store is in EventPipeline and                *)
(* FindingLifecycle; here an observation is applied in one step and may    *)
(* publish one finding.                                                    *)
(***************************************************************************)
EXTENDS Naturals, SequencesExt

CONSTANTS
  Configs,     \* the configurations the process may be started with
  Names,       \* the destinations net.ParseIP does not read: host names, and
               \* an IPv6 address in brackets without a port
  Fixed,       \* Fixed[d]: what the IP address d is, "internal" or "external"
  Severities,  \* the severities a finding may have
  QueueCap,    \* capacity of the queue of the bus
  MaxEvents    \* bound: observations that come in

sevRank == [info |-> 0, low |-> 1, medium |-> 2, high |-> 3, critical |-> 4]

Kinds == <<"webhook", "syslog", "smtp", "telegram">>

Dests == Names \cup DOMAIN Fixed

ASSUME DestAssumption ==
  /\ Names \cap DOMAIN Fixed = {}
  /\ \A d \in DOMAIN Fixed : Fixed[d] \in {"internal", "external"}
ASSUME ConfigAssumption ==
  \A c \in Configs :
    /\ {c.onPrem, c.allowExternal} \subseteq BOOLEAN
    /\ c.minSeverity \in DOMAIN sevRank
    /\ c.channels \in Seq(ToSet(c.channels))
    /\ \A i \in DOMAIN c.channels :
         /\ c.channels[i].kind \in ToSet(Kinds)
         /\ c.channels[i].dest \in Dests \/ c.channels[i] \in
              [kind : {"webhook", "telegram"}, dest : {"malformed"}]
ASSUME BoundsAssumption ==
  /\ Severities \subseteq DOMAIN sevRank
  /\ QueueCap \in Nat \ {0}
  /\ MaxEvents \in Nat

VARIABLES
  config,     \* the configuration
  main,       \* where main() is
  cancelled,  \* a signal has arrived
  server,     \* the listener
  notifiers,  \* the channels of the manager
  loop,       \* Bus.Run: the event it is at and the notifier it has come to
  queue,      \* the queue of the bus
  flusher,    \* RunAutoFlush
  mem,        \* how many observations have been applied
  disk,       \* how many of them the snapshot holds
  events,     \* history: how many observations came in
  accepted,   \* history: the findings the queue took
  taken,      \* history: the findings the dispatcher took from the queue
  tried       \* history: tried[n]: the findings Send of notifier n was given

process == <<config, main, cancelled, server, notifiers>>
bus == <<loop, queue, events, accepted, taken, tried>>
saving == <<flusher, mem, disk>>
vars == <<process, bus, saving>>

-----------------------------------------------------------------------------
(***************************************************************************)
(* The egress guard.  It looks at a destination once, when the process     *)
(* starts.  Where an alert goes later is up to what the name stands for by *)
(* then, to redirects the server answers with and to a proxy, and none of  *)
(* it comes back to the guard: Send says only which channel was given what.*)
(***************************************************************************)
\* What LookupIP may find: nothing, for a name that does not resolve, or
\* addresses of one kind or of both.
Answers == SUBSET {"internal", "external"}

Lookup(d) == IF d \in DOMAIN Fixed THEN {{Fixed[d]}} ELSE Answers

\* EgressGuard.Check: all addresses found must be internal; if there are none
\* the destination passes.
Check(c, found) == ~ c.onPrem \/ c.allowExternal \/ found \subseteq {"internal"}

-----------------------------------------------------------------------------
(***************************************************************************)
(* main: start.                                                            *)
(***************************************************************************)
\* The elements of s that are in S, in order.
Among(s, S) ==
  LET part[n \in 0 .. Len(s)] ==
        IF n = 0 THEN << >>
        ELSE IF s[n] \in S THEN Append(part[n - 1], s[n]) ELSE part[n - 1]
  IN  part[Len(s)]

\* NewManager goes through webhooks, syslog, mail and Telegram in this order.
InOrder(channels) ==
  LET OfKind(k) == {c \in ToSet(channels) : c.kind = k}
  IN  FlattenSeq([k \in DOMAIN Kinds |-> Among(channels, OfKind(Kinds[k]))])

\* One channel, with the lookup of its name; a destination that is malformed
\* or refused ends the process.
AddNotifier ==
  LET c == InOrder(config.channels)[Len(notifiers) + 1]
  IN  /\ main = "init"
      /\ Len(notifiers) < Len(config.channels)
      /\ \E found \in Lookup(c.dest) :
           IF c.dest # "malformed" /\ Check(config, found)
           THEN notifiers' = Append(notifiers, c) /\ UNCHANGED main
           ELSE main' = "exit" /\ UNCHANGED notifiers
      /\ tried' = [n \in DOMAIN notifiers' |-> << >>]
      /\ UNCHANGED <<config, cancelled, server, loop, queue, events,
                     accepted, taken, saving>>

\* go b.Run, go st.RunAutoFlush, srv.Run.
Start ==
  /\ main = "init"
  /\ Len(notifiers) = Len(config.channels)
  /\ main' = "serve"
  /\ server' = "listening"
  /\ loop' = [loop EXCEPT !.pc = "select"]
  /\ flusher' = "on"
  /\ UNCHANGED <<config, cancelled, notifiers, queue, events, accepted,
                 taken, tried, mem, disk>>

-----------------------------------------------------------------------------
(***************************************************************************)
(* Ingest, dispatcher and notifiers.                                       *)
(***************************************************************************)
\* Faulty variant: an off-by-one in the capacity.
RoomForOneMore == Len(queue) <= QueueCap

Room == Len(queue) < QueueCap

\* A handler publishes an observation; one that is dropped is EventPipeline's
\* matter.  Handlers may outlive the listener.
Ingest ==
  /\ server \in {"listening", "closed"}
  /\ main \in {"serve", "drain"}
  /\ events < MaxEvents
  /\ events' = events + 1
  /\ queue' = IF Room THEN Append(queue, [type |-> "observation"]) ELSE queue
  /\ UNCHANGED <<process, loop, accepted, taken, tried, saving>>

Finding == [type : {"finding"}, severity : Severities, muted : BOOLEAN]

TakeObservation ==
  /\ loop.pc = "select"
  /\ queue # << >>
  /\ Head(queue).type = "observation"
  /\ queue' = Tail(queue)
  /\ loop' = [loop EXCEPT !.pc = "module"]
  /\ UNCHANGED <<process, events, accepted, taken, tried, saving>>

\* PublishFinding, from inside the dispatcher: the queue may be full again.
PublishFinding(f) ==
  IF Room
  THEN queue' = Append(queue, f) /\ accepted' = Append(accepted, f)
  ELSE UNCHANGED <<queue, accepted>>

\* The modules apply the observation; a finding may change by it.
Handle ==
  /\ loop.pc = "module"
  /\ mem' = mem + 1
  /\ \/ UNCHANGED <<queue, accepted>>
     \/ \E f \in Finding : PublishFinding(f)
  /\ loop' = [loop EXCEPT !.pc = "select"]
  /\ UNCHANGED <<process, events, taken, tried, flusher, disk>>

\* Manager.Notify: what is below the threshold or whitelisted goes to nobody.
Announced(f) == sevRank[f.severity] >= sevRank[config.minSeverity] /\ ~ f.muted

TakeFinding ==
  LET f == Head(queue)
  IN  /\ loop.pc = "select"
      /\ queue # << >>
      /\ f.type = "finding"
      /\ queue' = Tail(queue)
      /\ taken' = Append(taken, f)
      /\ loop' = IF Announced(f) THEN [pc |-> "notify", at |-> 1] ELSE loop
      /\ UNCHANGED <<process, events, accepted, tried, saving>>

\* Faulty variant: the first notifier that fails ends the fan-out.
SendOrStop(n) ==
  /\ tried' = [tried EXCEPT ![n] = Append(@, Last(taken))]
  /\ loop' \in {[loop EXCEPT !.at = @ + 1], [pc |-> "select", at |-> 0]}

\* Send of notifier n is given the finding; it gets it through or fails, which
\* is logged, and the next notifier is called either way.
Send(n) ==
  /\ tried' = [tried EXCEPT ![n] = Append(@, Last(taken))]
  /\ loop' = [loop EXCEPT !.at = @ + 1]

SendNext(mail) ==
  /\ loop.pc = "notify"
  /\ loop.at \in DOMAIN notifiers
  /\ mail = (notifiers[loop.at].kind = "smtp")
  /\ Send(loop.at)
  /\ UNCHANGED <<process, queue, events, accepted, taken, saving>>

\* Faulty variant: the client of the webhooks has no timeout.
SendWebhookForever == SendNext(FALSE) /\ notifiers[loop.at].kind # "webhook"

\* Webhooks and Telegram give up after 10 s, syslog after 5 s.
SendWithTimeout == SendNext(FALSE)

\* smtp.SendMail has no timeout: it returns when the mail server lets it.
SendMail == SendNext(TRUE)

EndNotify ==
  /\ loop.pc = "notify"
  /\ loop.at > Len(notifiers)
  /\ loop' = [pc |-> "select", at |-> 0]
  /\ UNCHANGED <<process, queue, events, accepted, taken, tried, saving>>

\* select: once the context is cancelled the loop may end, events or not.
EndLoop ==
  /\ loop.pc = "select"
  /\ cancelled
  /\ loop' = [loop EXCEPT !.pc = "done"]
  /\ UNCHANGED <<process, queue, events, accepted, taken, tried, saving>>

-----------------------------------------------------------------------------
(***************************************************************************)
(* main: stop.                                                             *)
(***************************************************************************)
Signal ==
  /\ main \in {"serve", "drain"}
  /\ ~ cancelled
  /\ cancelled' = TRUE
  /\ UNCHANGED <<config, main, server, notifiers, bus, saving>>

\* Shutdown closes the listener, and srv.Run returns.
Shutdown ==
  /\ server = "listening"
  /\ cancelled
  /\ server' = "closed"
  /\ UNCHANGED <<config, main, cancelled, notifiers, bus, saving>>

\* The port is taken, or a certificate cannot be read.
ServerFails ==
  /\ server = "listening"
  /\ events = 0
  /\ ~ cancelled
  /\ server' = "failed"
  /\ UNCHANGED <<config, main, cancelled, notifiers, bus, saving>>

\* Either way main goes on with close(stopFlush) and b.Drain.
StopFlusher ==
  /\ main = "serve"
  /\ server \in {"closed", "failed"}
  /\ main' = "drain"
  /\ flusher' = "stopping"
  /\ UNCHANGED <<config, cancelled, server, notifiers, bus, mem, disk>>

\* Drain has returned; the last flush may fail, which is logged.
FinalFlush ==
  /\ main = "drain"
  /\ loop.pc = "done"
  /\ \/ main' = "flushed" /\ disk' = mem
     \/ main' = "unsaved" /\ UNCHANGED disk
  /\ UNCHANGED <<config, cancelled, server, notifiers, bus, flusher, mem>>

\* main returns, and every goroutine ends with it.
Return ==
  /\ main = "flushed"
  /\ main' = "ended"
  /\ UNCHANGED <<config, cancelled, server, notifiers, bus, saving>>

Running == main \in {"serve", "drain", "flushed"}

\* RunAutoFlush: every 5 s, and once more when it is told to stop.
AutoFlush ==
  /\ Running
  /\ flusher \in {"on", "stopping"}
  /\ disk' \in {disk, mem}
  /\ flusher' = IF flusher = "on" THEN "on" ELSE "off"
  /\ UNCHANGED <<process, bus, mem>>

-----------------------------------------------------------------------------
Init ==
  /\ config \in Configs
  /\ main = "init"
  /\ cancelled = FALSE
  /\ server = "off"
  /\ notifiers = << >>
  /\ loop = [pc |-> "off", at |-> 0]
  /\ queue = << >>
  /\ flusher = "off"
  /\ mem = 0 /\ disk = 0
  /\ events = 0
  /\ accepted = << >> /\ taken = << >> /\ tried = << >>

\* The goroutines of the process end with main.
Dispatcher ==
  Running /\ (TakeObservation \/ Handle \/ TakeFinding \/ SendWithTimeout \/ EndNotify \/ EndLoop)

Main ==
  AddNotifier \/ Start \/ Shutdown \/ StopFlusher \/ FinalFlush \/ Return

Next ==
  \/ Main
  \/ Ingest
  \/ Dispatcher
  \/ (Running /\ SendMail)
  \/ Signal
  \/ ServerFails
  \/ AutoFlush

\* Main and the dispatcher go on whenever they can.  select chooses at random,
\* so that the dispatcher does not pass over the cancelled context for ever.
\* Nothing makes a mail server answer, an agent report or an operator stop the
\* process.
Spec ==
  /\ Init
  /\ [][Next]_vars
  /\ WF_vars(Main)
  /\ WF_vars(Dispatcher)
  /\ SF_vars(Running /\ EndLoop)

-----------------------------------------------------------------------------
TypeOK ==
  /\ config \in Configs
  /\ main \in {"init", "exit", "serve", "drain", "flushed", "ended", "unsaved"}
  /\ cancelled \in BOOLEAN
  /\ server \in {"off", "listening", "closed", "failed"}
  /\ IsPrefix(notifiers, InOrder(config.channels))
  /\ loop \in [pc : {"off", "select", "module", "notify", "done"}, at : 0 .. Len(notifiers) + 1]
  /\ Len(queue) <= QueueCap
  /\ \A e \in ToSet(queue) : e = [type |-> "observation"] \/ e \in Finding
  /\ flusher \in {"off", "on", "stopping"}
  /\ disk <= mem /\ mem <= events /\ events <= MaxEvents

\* The announced findings among those taken from the queue that notifier n is
\* past: all of them, but for the last one while the fan-out has not come to n.
Due(n) ==
  LET announced == Among(taken, {f \in Finding : Announced(f)})
  IN  IF loop.pc = "notify" /\ n >= loop.at THEN Front(announced) ELSE announced

\* No finding is lost between the queue and the channels, and no channel
\* stands in the way of another: the findings the queue took are those the
\* dispatcher took and those still queued, in order, and every notifier was
\* given each announced one exactly once and in that order, whichever of the
\* others failed (Manager.Attach and Manager.Notify).
EveryChannelIsGivenAll ==
  /\ accepted = taken \o Among(queue, Finding)
  /\ \A n \in DOMAIN notifiers : tried[n] = Due(n)

NoMail == \A n \in DOMAIN notifiers : notifiers[n].kind # "smtp"

\* When a signal arrives the process comes to an end, whatever its channels
\* are at, unless one of them is mail (Run, Drain and the timeouts of the
\* channels).
SignalEndsProcess == cancelled /\ NoMail ~> main \in {"ended", "unsaved"}

\* Every handler returns: the dispatcher never stays in a notifier ("Handlers
\* must not block for long", bus.Handler).
HandlersReturn == (loop.pc = "notify") ~> (loop.pc # "notify")
=============================================================================
