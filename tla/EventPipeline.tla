---------------------------- MODULE EventPipeline ----------------------------
(***************************************************************************)
(* The way of an observation from an agent's disk spool to the inventory   *)
(* of the control plane:                                                   *)
(*                                                                         *)
(*   agent loop  --POST-->  ingest handlers  --bus-->  dispatcher          *)
(*   (agent.go, spool.go)   (ingest.go)       (bus.go)  (runtime.go)       *)
(*                                |                         |              *)
(*                                +------> store <----------+              *)
(*                                     (store.go, snapshot on disk)        *)
(*                                                                         *)
(* Every agent is one goroutine.  Every request has a handler goroutine of *)
(* its own, which outlives the client that gave up on it.  The bus is a    *)
(* bounded channel read by one dispatcher.  The store is guarded by one    *)
(* lock, so each store call is one step; the snapshot is the whole store.  *)
(***************************************************************************)
EXTENDS Naturals, Sequences, FiniteSets

CONSTANTS
  Agents,       \* the sensor hosts
  NoAgent,      \* the client of a handler whose agent has given up
  Slots,        \* bound: ingest requests served at one time
  MaxScans,     \* bound: scans of an agent that find something
  BatchSizes,   \* numbers of observations a batch may hold
  Validity,     \* {TRUE}, or {TRUE, FALSE} if some batch is answered 400
  SpoolCap,     \* batches a spool retains (1000 in the code)
  BusCap,       \* capacity of the bus (8192 in the code)
  MaxDerived,   \* bound: events one handled observation gives rise to
  DedupLimit,   \* dedup records kept before old ones are pruned (200000)
  DedupWindow,  \* age from which a dedup record may be pruned (24 h)
  MaxTime,      \* bound: the clock
  FaultKinds,   \* the faults that may happen
  MaxFaults     \* bound: their number

ASSUME AgentsAssumption == NoAgent \notin Agents
ASSUME BoundsAssumption ==
  /\ MaxScans \in Nat /\ SpoolCap \in Nat \ {0} /\ BusCap \in Nat \ {0}
  /\ MaxDerived \in Nat /\ MaxTime \in Nat /\ MaxFaults \in Nat
ASSUME DedupAssumption == DedupLimit \in Nat /\ DedupWindow \in Nat
ASSUME BatchAssumption == BatchSizes \subseteq Nat \ {0} /\ Validity \subseteq BOOLEAN
ASSUME FaultsAssumption ==
  FaultKinds \subseteq {"ship", "reply", "agent", "disk", "stop", "server"}

VARIABLES
  spool,     \* spool[a]: the batch files in the spool directory of agent a
  agent,     \* agent[a]: where the agent's loop is, and the files left to flush
  scans,     \* scans[a]: the number of batches agent a has collected
  handler,   \* handler[h]: the ingest request in slot h
  bus,       \* the queue of the event bus
  disp,      \* the dispatch loop: the event in its hands
  mem,       \* the store in memory
  disk,      \* the snapshot file
  dirty,     \* whether memory may differ from the snapshot
  server,    \* "up", "stopping", "flushed" or "unsaved", "down"
  now,       \* the clock of the control plane
  faults,    \* the faults so far
  forgotten  \* history: observations whose dedup record was pruned

agentVars  == <<spool, agent, scans>>
storeVars  == <<mem, dirty, forgotten>>
vars == <<spool, agent, scans, handler, bus, disp, mem, disk, dirty, server,
          now, faults, forgotten>>

-----------------------------------------------------------------------------
(***************************************************************************)
(* Data.  A batch is known by its agent and the number of the scan that    *)
(* collected it (its file name starts with the time, so names sort in that *)
(* order); an observation by its batch and its place in it, which stands   *)
(* for the random identifier drawn when it is collected.                   *)
(***************************************************************************)
Batch == [agent : Agents, num : Nat, size : BatchSizes, valid : BOOLEAN]

Observation == [agent : Agents, num : Nat, idx : Nat]

Obs(b, i) == [agent |-> b.agent, num |-> b.num, idx |-> i]

ObservationsOf(b) == {Obs(b, i) : i \in 1 .. b.size}

Event == [type : {"observation", "finding"}, obs : Observation]

\* A dedup record: the observation and the time its handler started.
SeenEntry == [id : Observation, at : Nat]

SeenIds(seen) == {e.id : e \in seen}

\* The store.  The log stands for the inventory: what the observations made
\* of it is a function of which were applied and in which order.
Store == [hosts : SUBSET Agents, seen : SUBSET SeenEntry, log : Seq(Observation)]

EmptyStore == [hosts |-> {}, seen |-> {}, log |-> << >>]

Elements(s) == {s[i] : i \in DOMAIN s}

Fault(kind) ==
  /\ kind \in FaultKinds
  /\ faults < MaxFaults
  /\ faults' = faults + 1

-----------------------------------------------------------------------------
(***************************************************************************)
(* The agent's loop.                                                       *)
(***************************************************************************)
AgentPCs == {"idle", "flush", "wait", "acked"}

Idle == [pc |-> "idle", todo |-> {}]

\* The file whose name sorts first, as a set: empty if there is no file.
Oldest(files) == {b \in files : \A c \in files : b.num <= c.num}

\* Faulty variant: the newest files go.
TrimNewest(files) ==
  {b \in files : Cardinality({c \in files : c.num < b.num}) < SpoolCap}

\* Spool.trim: the oldest files go until at most SpoolCap are left.
Trim(files) ==
  {b \in files : Cardinality({c \in files : c.num > b.num}) < SpoolCap}

\* flushSpool begins by listing the files; the listing is not read again.
StartFlush(a) == agent' = [agent EXCEPT ![a] = [pc |-> "flush", todo |-> spool'[a]]]

\* A scan that found something: the batch is spooled, then the flush begins.
Scan(a) ==
  /\ agent[a].pc = "idle"
  /\ scans[a] < MaxScans
  /\ scans' = [scans EXCEPT ![a] = @ + 1]
  /\ \E size \in BatchSizes, ok \in Validity :
       spool' = [spool EXCEPT ![a] =
         Trim(@ \cup {[agent |-> a, num |-> scans[a] + 1, size |-> size, valid |-> ok]})]
  /\ StartFlush(a)
  /\ UNCHANGED <<handler, bus, disp, mem, disk, dirty, server, now, faults, forgotten>>

\* Enqueue failed: the error is logged, the batch is gone, the flush begins.
ScanNotSpooled(a) ==
  /\ agent[a].pc = "idle"
  /\ scans[a] < MaxScans
  /\ Fault("disk")
  /\ scans' = [scans EXCEPT ![a] = @ + 1]
  /\ UNCHANGED spool
  /\ StartFlush(a)
  /\ UNCHANGED <<handler, bus, disp, mem, disk, dirty, server, now, forgotten>>

\* A scan that found nothing still flushes the spool.
QuietScan(a) ==
  /\ agent[a].pc = "idle"
  /\ UNCHANGED spool
  /\ StartFlush(a)
  /\ UNCHANGED <<scans, handler, bus, disp, mem, disk, dirty, server, now, faults, forgotten>>

FinishFlush(a) ==
  /\ agent[a].pc = "flush"
  /\ agent[a].todo = {}
  /\ agent' = [agent EXCEPT ![a] = Idle]
  /\ UNCHANGED <<spool, scans, handler, bus, disp, mem, disk, dirty, server, now, faults, forgotten>>

\* The file cannot be read: it is dropped, unless that fails too (its error
\* is ignored), and the flush goes on.
LoadFails(a) ==
  /\ agent[a].pc = "flush"
  /\ Fault("disk")
  /\ \E b \in Oldest(agent[a].todo) :
       /\ \/ spool' = [spool EXCEPT ![a] = @ \ {b}]
          \/ UNCHANGED spool
       /\ agent' = [agent EXCEPT ![a].todo = @ \ {b}]
  /\ UNCHANGED <<scans, handler, bus, disp, mem, disk, dirty, server, now, forgotten>>

Free == [pc |-> "free", client |-> NoAgent, batch |-> << >>, next |-> 1, at |-> 0]

\* The request reaches the server, which gives it a handler.
Ship(a) ==
  /\ agent[a].pc = "flush"
  /\ server = "up"
  /\ \E h \in Slots, b \in Oldest(agent[a].todo) :
       /\ handler[h] = Free
       /\ handler' = [handler EXCEPT ![h] =
            [pc |-> "received", client |-> a, batch |-> b, next |-> 1, at |-> 0]]
  /\ agent' = [agent EXCEPT ![a].pc = "wait"]
  /\ UNCHANGED <<spool, scans, bus, disp, mem, disk, dirty, server, now, faults, forgotten>>

NoConnection ==
  \/ server # "up" /\ UNCHANGED faults
  \/ Fault("ship")

\* Faulty variants of ShipFails: the flush goes on with the next file, and the
\* file that was not delivered is dropped like one that cannot be read.
ShipFailsGoesOn(a) ==
  /\ agent[a].pc = "flush"
  /\ agent[a].todo # {}
  /\ NoConnection
  /\ agent' = [agent EXCEPT ![a].todo = @ \ Oldest(@)]
  /\ UNCHANGED <<spool, scans, handler, bus, disp, mem, disk, dirty, server, now, forgotten>>

ShipFailsDrops(a) ==
  /\ agent[a].pc = "flush"
  /\ agent[a].todo # {}
  /\ NoConnection
  /\ spool' = [spool EXCEPT ![a] = @ \ Oldest(agent[a].todo)]
  /\ agent' = [agent EXCEPT ![a] = Idle]
  /\ UNCHANGED <<scans, handler, bus, disp, mem, disk, dirty, server, now, forgotten>>

\* No connection: the flush stops at the first failure.
ShipFails(a) ==
  /\ agent[a].pc = "flush"
  /\ agent[a].todo # {}
  /\ NoConnection
  /\ agent' = [agent EXCEPT ![a] = Idle]
  /\ UNCHANGED <<spool, scans, handler, bus, disp, mem, disk, dirty, server, now, forgotten>>

\* The handlers whose client is agent a; Detach leaves them without one.
Serving(a) == {h \in Slots : handler[h].client = a}

\* Faulty variant: the handlers of a client that is gone are cancelled.
DetachCancels(a) ==
  handler' = [h \in Slots |-> IF h \in Serving(a) THEN Free ELSE handler[h]]

Detach(a) ==
  handler' = [h \in Slots |-> IF h \in Serving(a)
                              THEN [handler[h] EXCEPT !.client = NoAgent]
                              ELSE handler[h]]

\* The client gives up after 30 s.  The handler does not notice.
ClientTimeout(a) ==
  /\ agent[a].pc = "wait"
  /\ Serving(a) # {}
  /\ Fault("reply")
  /\ Detach(a)
  /\ agent' = [agent EXCEPT ![a] = Idle]
  /\ UNCHANGED <<spool, scans, bus, disp, mem, disk, dirty, server, now, forgotten>>

\* The server went down under the request.
ConnectionReset(a) ==
  /\ agent[a].pc = "wait"
  /\ Serving(a) = {}
  /\ agent' = [agent EXCEPT ![a] = Idle]
  /\ UNCHANGED <<spool, scans, handler, bus, disp, mem, disk, dirty, server, now, faults, forgotten>>

\* The batch was acknowledged: its file goes and the flush continues.
Remove(a) ==
  /\ agent[a].pc = "acked"
  /\ \E b \in Oldest(agent[a].todo) :
       /\ spool' = [spool EXCEPT ![a] = @ \ {b}]
       /\ agent' = [agent EXCEPT ![a] = [pc |-> "flush", todo |-> @.todo \ {b}]]
  /\ UNCHANGED <<scans, handler, bus, disp, mem, disk, dirty, server, now, faults, forgotten>>

\* The error of Remove is ignored: the file stays for the next flush.
RemoveFails(a) ==
  /\ agent[a].pc = "acked"
  /\ Fault("disk")
  /\ agent' = [agent EXCEPT ![a] = [pc |-> "flush", todo |-> @.todo \ Oldest(@.todo)]]
  /\ UNCHANGED <<spool, scans, handler, bus, disp, mem, disk, dirty, server, now, forgotten>>

\* The agent process dies and is started again; only its spool survives.
AgentCrash(a) ==
  /\ agent[a].pc # "idle"
  /\ Fault("agent")
  /\ Detach(a)
  /\ agent' = [agent EXCEPT ![a] = Idle]
  /\ UNCHANGED <<spool, scans, bus, disp, mem, disk, dirty, server, now, forgotten>>

-----------------------------------------------------------------------------
(***************************************************************************)
(* The ingest handlers.  The steps of two handlers interleave at every     *)
(* store call and every Publish.                                           *)
(***************************************************************************)
HandlerPCs == {"free", "received", "mark", "publish"}

\* The answer: the slot is free, and a client still there goes on from pc.
Reply(h, pc) ==
  /\ handler' = [handler EXCEPT ![h] = Free]
  /\ agent' = [a \in Agents |->
       IF a # handler[h].client THEN agent[a]
       ELSE IF pc = "idle" THEN Idle ELSE [agent[a] EXCEPT !.pc = pc]]

\* 401 for a token that is not known; 400 for a body over 16 MiB or one that
\* does not decode, and for an empty agent or host name.
Reject(h) ==
  /\ handler[h].pc = "received"
  /\ ~ handler[h].batch.valid
  /\ Reply(h, "idle")
  /\ UNCHANGED <<spool, scans, bus, disp, mem, disk, dirty, server, now, faults, forgotten>>

\* A host is created or refreshed; either way the store has changed.
UpsertHost(a) ==
  /\ mem' = [mem EXCEPT !.hosts = @ \cup {a}]
  /\ dirty' = TRUE

\* The time is read once, then the host is upserted.
RegisterHost(h) ==
  /\ handler[h].pc = "received"
  /\ handler[h].batch.valid
  /\ handler' = [handler EXCEPT ![h].pc = "mark", ![h].at = now]
  /\ UpsertHost(handler[h].batch.agent)
  /\ UNCHANGED <<spool, agent, scans, bus, disp, disk, server, now, faults, forgotten>>

Current(h) == Obs(handler[h].batch, handler[h].next)

\* Faulty variant: the last observation of a batch is left out.
MoreBeforeLast(h) == handler[h].next < handler[h].batch.size

MoreToDo(h) == handler[h].next <= handler[h].batch.size

\* The records MarkEventSeen prunes: none below the limit, and above it the
\* records older than the window, counted from the time of this handler.
Expired(seen, at) ==
  IF Cardinality(seen) > DedupLimit
  THEN {e \in seen : e.at + DedupWindow < at}
  ELSE {}

\* Faulty variant: the mark is left to the next Flush without the dirty flag.
MarkStaysClean(h) ==
  LET marked == mem.seen \cup {[id |-> Current(h), at |-> handler[h].at]}
      old    == Expired(marked, handler[h].at)
  IN  /\ mem' = [mem EXCEPT !.seen = marked \ old]
      /\ forgotten' = forgotten \cup SeenIds(old)
      /\ UNCHANGED dirty

\* MarkEventSeen of an observation that is new.  An observation without ID or
\* type is skipped before this; an agent's own always have both (collect.go).
MarkEventSeen(h) ==
  LET marked == mem.seen \cup {[id |-> Current(h), at |-> handler[h].at]}
      old    == Expired(marked, handler[h].at)
  IN  /\ mem' = [mem EXCEPT !.seen = marked \ old]
      /\ forgotten' = forgotten \cup SeenIds(old)
      /\ dirty' = TRUE

\* Faulty variant: the answer of MarkEventSeen is not looked at.
MarkAgain(h) ==
  /\ handler[h].pc = "mark"
  /\ MoreToDo(h)
  /\ MarkEventSeen(h)
  /\ handler' = [handler EXCEPT ![h].pc = "publish"]
  /\ UNCHANGED <<spool, agent, scans, bus, disp, disk, server, now, faults>>

MarkNew(h) ==
  /\ handler[h].pc = "mark"
  /\ MoreToDo(h)
  /\ Current(h) \notin SeenIds(mem.seen)
  /\ MarkEventSeen(h)
  /\ handler' = [handler EXCEPT ![h].pc = "publish"]
  /\ UNCHANGED <<spool, agent, scans, bus, disp, disk, server, now, faults>>

SkipDuplicate(h) ==
  /\ handler[h].pc = "mark"
  /\ MoreToDo(h)
  /\ Current(h) \in SeenIds(mem.seen)
  /\ handler' = [handler EXCEPT ![h].next = @ + 1]
  /\ UNCHANGED <<spool, agent, scans, bus, disp, mem, disk, dirty, server, now, faults, forgotten>>

\* Bus.Publish never waits: an event that finds the queue full is dropped.
Publish(ev) == bus' = IF Len(bus) < BusCap THEN Append(bus, ev) ELSE bus

PublishObservation(h) ==
  /\ handler[h].pc = "publish"
  /\ Publish([type |-> "observation", obs |-> Current(h)])
  /\ handler' = [handler EXCEPT ![h].pc = "mark", ![h].next = @ + 1]
  /\ UNCHANGED <<spool, agent, scans, disp, mem, disk, dirty, server, now, faults, forgotten>>

\* 200: every observation of the batch was accepted or is a duplicate.
Acknowledge(h) ==
  /\ handler[h].pc = "mark"
  /\ ~ MoreToDo(h)
  /\ Reply(h, "acked")
  /\ UNCHANGED <<spool, scans, bus, disp, mem, disk, dirty, server, now, faults, forgotten>>

-----------------------------------------------------------------------------
(***************************************************************************)
(* The dispatcher.  Modules and notifiers run inside it, one event at a    *)
(* time; what they publish goes to the end of the same queue.              *)
(***************************************************************************)
Waiting == [pc |-> "idle", ev |-> << >>, left |-> 0]

Take ==
  /\ server \in {"up", "stopping"}
  /\ disp.pc = "idle"
  /\ bus # << >>
  /\ disp' = [pc |-> "busy", ev |-> Head(bus), left |-> 0]
  /\ bus' = Tail(bus)
  /\ UNCHANGED <<spool, agent, scans, handler, mem, disk, dirty, server, now, faults, forgotten>>

\* The discovery module brings the inventory up to date; 0 .. MaxDerived
\* events (asset created, finding created) are then to be published.
Apply ==
  /\ disp.pc = "busy"
  /\ disp.ev.type = "observation"
  /\ mem' = [mem EXCEPT !.log = Append(@, disp.ev.obs)]
  /\ dirty' = TRUE
  /\ \E n \in 0 .. MaxDerived :
       disp' = IF n = 0 THEN Waiting ELSE [disp EXCEPT !.pc = "emit", !.left = n]
  /\ UNCHANGED <<spool, agent, scans, handler, bus, disk, server, now, faults, forgotten>>

\* Faulty variant: one event more than there is to publish.
EmitOneMore ==
  /\ disp.pc = "emit"
  /\ Publish([type |-> "finding", obs |-> disp.ev.obs])
  /\ disp' = IF disp.left = 0 THEN Waiting ELSE [disp EXCEPT !.left = @ - 1]
  /\ UNCHANGED <<spool, agent, scans, handler, mem, disk, dirty, server, now, faults, forgotten>>

Emit ==
  /\ disp.pc = "emit"
  /\ Publish([type |-> "finding", obs |-> disp.ev.obs])
  /\ disp' = IF disp.left = 1 THEN Waiting ELSE [disp EXCEPT !.left = @ - 1]
  /\ UNCHANGED <<spool, agent, scans, handler, mem, disk, dirty, server, now, faults, forgotten>>

\* A finding event goes to the notifiers, which do not touch the store.
NotifyFinding ==
  /\ disp.pc = "busy"
  /\ disp.ev.type = "finding"
  /\ disp' = Waiting
  /\ UNCHANGED <<spool, agent, scans, handler, bus, mem, disk, dirty, server, now, faults, forgotten>>

-----------------------------------------------------------------------------
(***************************************************************************)
(* The life of the control plane process and of its snapshot.              *)
(***************************************************************************)

\* Faulty variant: the dedup records are not part of the snapshot.
FlushWithoutSeen ==
  /\ server \in {"up", "stopping", "flushed", "unsaved"}
  /\ dirty
  /\ disk' = [mem EXCEPT !.seen = {}]
  /\ dirty' = FALSE
  /\ UNCHANGED <<spool, agent, scans, handler, bus, disp, mem, server, now, faults, forgotten>>

\* Store.Flush, every 5 s and once more when the server stops.  One that fails
\* leaves store, snapshot and flag as they were, for the next one.
Flush ==
  /\ server \in {"up", "stopping", "flushed", "unsaved"}
  /\ dirty
  /\ disk' = mem
  /\ dirty' = FALSE
  /\ UNCHANGED <<spool, agent, scans, handler, bus, disp, mem, server, now, faults, forgotten>>

\* SIGTERM: the listener closes; running handlers are not waited for.
Terminate ==
  /\ server = "up"
  /\ Fault("stop")
  /\ server' = "stopping"
  /\ UNCHANGED <<spool, agent, scans, handler, bus, disp, mem, disk, dirty, now, forgotten>>

\* Bus.Run sees the cancelled context between two events; what is still in
\* the queue stays there.
StopDispatch ==
  /\ server = "stopping"
  /\ disp.pc = "idle"
  /\ disp' = [Waiting EXCEPT !.pc = "stopped"]
  /\ UNCHANGED <<spool, agent, scans, handler, bus, mem, disk, dirty, server, now, faults, forgotten>>

\* Faulty variant: the final Flush does not wait for the dispatcher.
FinalFlushAtOnce ==
  /\ server = "stopping"
  /\ disk' = mem
  /\ dirty' = FALSE
  /\ server' = "flushed"
  /\ UNCHANGED <<spool, agent, scans, handler, bus, disp, mem, now, faults, forgotten>>

\* main: Drain has returned, then the final Flush.
FinalFlush ==
  /\ server = "stopping"
  /\ disp.pc = "stopped"
  /\ disk' = mem
  /\ dirty' = FALSE
  /\ server' = "flushed"
  /\ UNCHANGED <<spool, agent, scans, handler, bus, disp, mem, now, faults, forgotten>>

\* The final Flush fails: main logs the error and goes on to its end.
FinalFlushFails ==
  /\ server = "stopping"
  /\ disp.pc = "stopped"
  /\ dirty
  /\ Fault("disk")
  /\ server' = "unsaved"
  /\ UNCHANGED <<spool, agent, scans, handler, bus, disp, mem, disk, dirty, now, forgotten>>

\* Faulty variant: a queue that outlives the process, beside a snapshot that
\* does not know what was queued.
ProcessGoneKeepsQueue ==
  /\ server' = "down"
  /\ handler' = [h \in Slots |-> Free]
  /\ disp' = Waiting
  /\ mem' = disk
  /\ dirty' = FALSE
  /\ UNCHANGED <<spool, agent, scans, bus, disk, now, forgotten>>

\* The process is gone, with its handlers, its queue and its memory; the
\* next one starts from the snapshot.
ProcessGone ==
  /\ server' = "down"
  /\ handler' = [h \in Slots |-> Free]
  /\ bus' = << >>
  /\ disp' = Waiting
  /\ mem' = disk
  /\ dirty' = FALSE
  /\ UNCHANGED <<spool, agent, scans, disk, now, forgotten>>

Exit ==
  /\ server \in {"flushed", "unsaved"}
  /\ ProcessGone
  /\ UNCHANGED faults

Crash ==
  /\ server # "down"
  /\ Fault("server")
  /\ ProcessGone

Restart ==
  /\ server = "down"
  /\ server' = "up"
  /\ UNCHANGED <<spool, agent, scans, handler, bus, disp, mem, disk, dirty, now, faults, forgotten>>

Tick ==
  /\ now < MaxTime
  /\ now' = now + 1
  /\ UNCHANGED <<spool, agent, scans, handler, bus, disp, mem, disk, dirty, server, faults, forgotten>>

-----------------------------------------------------------------------------
Init ==
  /\ spool = [a \in Agents |-> {}]
  /\ agent = [a \in Agents |-> Idle]
  /\ scans = [a \in Agents |-> 0]
  /\ handler = [h \in Slots |-> Free]
  /\ bus = << >>
  /\ disp = Waiting
  /\ mem = EmptyStore
  /\ disk = EmptyStore
  /\ dirty = FALSE
  /\ server = "up"
  /\ now = 0
  /\ faults = 0
  /\ forgotten = {}

\* What the agent's loop does by itself, and what happens to it.
AgentStep(a) ==
  \/ QuietScan(a) \/ FinishFlush(a) \/ Ship(a) \/ ShipFails(a)
  \/ ConnectionReset(a) \/ Remove(a)

AgentEvent(a) ==
  \/ Scan(a) \/ ScanNotSpooled(a) \/ LoadFails(a) \/ ClientTimeout(a)
  \/ RemoveFails(a) \/ AgentCrash(a)

HandlerStep(h) ==
  \/ Reject(h) \/ RegisterHost(h) \/ MarkNew(h) \/ SkipDuplicate(h)
  \/ PublishObservation(h) \/ Acknowledge(h)

DispatchStep == Take \/ Apply \/ Emit \/ NotifyFinding

ServerStep == StopDispatch \/ FinalFlush \/ Exit \/ Restart

Next ==
  \/ \E a \in Agents : AgentStep(a) \/ AgentEvent(a)
  \/ \E h \in Slots : HandlerStep(h)
  \/ DispatchStep
  \/ Flush
  \/ ServerStep
  \/ Terminate \/ FinalFlushFails \/ Crash
  \/ Tick

Spec == Init /\ [][Next]_vars

\* The agent's ticker fires and its loop runs; handlers and the dispatcher
\* are runnable goroutines; the flush timer fires; a stopped control plane
\* is started again.  Faults are bounded, so none of them needs fairness.
Fairness ==
  /\ \A a \in Agents : WF_vars(AgentStep(a))
  /\ \A h \in Slots : WF_vars(HandlerStep(h))
  /\ WF_vars(DispatchStep)
  /\ WF_vars(Flush)
  /\ WF_vars(ServerStep)

FairSpec == Spec /\ Fairness

-----------------------------------------------------------------------------
(***************************************************************************)
(* Properties.                                                             *)
(***************************************************************************)
AgentState == [pc : AgentPCs, todo : SUBSET Batch]

HandlerState ==
  [pc : HandlerPCs, client : Agents \cup {NoAgent}, batch : Batch \cup {<< >>},
   next : Nat, at : Nat]

DispState == [pc : {"idle", "busy", "emit", "stopped"}, ev : Event \cup {<< >>}, left : Nat]

\* Type invariant: the values the variables of agent, server, bus and store
\* range over; a handler in use has a batch, a busy dispatcher an event.
TypeOK ==
  /\ spool \in [Agents -> SUBSET Batch]
  /\ agent \in [Agents -> AgentState]
  /\ scans \in [Agents -> Nat]
  /\ handler \in [Slots -> HandlerState]
  /\ \A h \in Slots : handler[h].pc # "free" => handler[h].batch \in Batch
  /\ bus \in Seq(Event)
  /\ disp \in DispState
  /\ disp.pc \in {"busy", "emit"} => disp.ev \in Event
  /\ disp.pc = "emit" => disp.left # 0
  /\ mem \in Store
  /\ disk \in Store
  /\ dirty \in BOOLEAN
  /\ server \in {"up", "stopping", "flushed", "unsaved", "down"}
  /\ now \in Nat
  /\ faults \in Nat
  /\ forgotten \subseteq Observation

\* No observation is applied twice to one inventory, whatever is retried,
\* timed out or crashed, unless its dedup record was pruned: the idempotency
\* MarkEventSeen and the snapshot give together (TZ 8.2).
NoneTwice(log) ==
  \A i, j \in DOMAIN log : i # j /\ log[i] = log[j] => log[i] \in forgotten

AppliedAtMostOnce == NoneTwice(mem.log) /\ NoneTwice(disk.log)

\* Whatever a store has applied it also remembers as seen, with the host it
\* came from.  On disk this is what makes a retry after a crash harmless.
Closed(store) ==
  \A o \in Elements(store.log) :
    /\ o \in SeenIds(store.seen) \cup forgotten
    /\ o.agent \in store.hosts

StoresClosed == Closed(mem) /\ Closed(disk)

\* A store that is not dirty is the one on disk: every mutation sets the
\* flag that Flush tests, so no change is left out of all later snapshots.
CleanMeansSaved == ~ dirty => mem = disk

\* When an agent is told its batch is accepted, and so deletes the only copy,
\* every observation of the batch has been taken in by the running process
\* (or its dedup record was pruned since).
AckedIsSeen ==
  [][\A a \in Agents :
       agent[a].pc = "wait" /\ agent'[a].pc = "acked" =>
         \A b \in Oldest(agent[a].todo) :
           ObservationsOf(b) \subseteq SeenIds(mem.seen) \cup forgotten]_vars

\* Log s is a beginning of log t.
Begins(s, t) == \A i \in DOMAIN s : i \in DOMAIN t /\ s[i] = t[i]

\* What a snapshot lacks is the end of the log, and an orderly stop whose
\* final Flush succeeds lacks nothing: the dispatcher has stopped before it,
\* so no event is applied between that Flush and the end of the process.  If
\* the final Flush fails, which main only logs, the end of the log is lost as
\* in a crash (main.go:104-108).
StopKeepsLog ==
  /\ Begins(disk.log, mem.log)
  /\ server = "flushed" => mem.log = disk.log

\* The pipeline implements ObservationLog: what the module, the bus, the
\* handlers and the snapshot do together looks, from the inventory, like
\* applying each observation at most once and falling back to a snapshot.
Promise == INSTANCE ObservationLog
             WITH log <- mem.log, saved <- disk.log, exempt <- forgotten

AppliesAsPromised == Promise!Spec

\* Where an accepted observation can be on its way to the inventory.
UnderWay(o) ==
  \/ \E h \in Slots : handler[h].pc = "publish" /\ Current(h) = o
  \/ \E i \in DOMAIN bus : bus[i].type = "observation" /\ bus[i].obs = o
  \/ disp.pc = "busy" /\ disp.ev.type = "observation" /\ disp.ev.obs = o

\* An observation the control plane has marked as seen, which no retry will
\* bring back, is in the inventory or on its way there (bus.go:60-61: an
\* event dropped from a full queue is resent by the agent).
NothingSeenIsLost ==
  \A o \in SeenIds(mem.seen) : o \in Elements(mem.log) \/ UnderWay(o)

\* The observations of one agent are applied in the order it collected them
\* (agent.go:173-174).
AppliedInOrder ==
  \A i, j \in DOMAIN mem.log :
    i < j /\ mem.log[i].agent = mem.log[j].agent =>
      \/ mem.log[i].num < mem.log[j].num
      \/ mem.log[i].num = mem.log[j].num /\ mem.log[i].idx < mem.log[j].idx

\* A batch in the spool has every later batch of its agent in the spool
\* behind it: what a full spool gives up is always the oldest, and nothing is
\* delivered before what was collected earlier (spool.go:1-4, agent.go:173-174).
SpoolIsTail ==
  \A a \in Agents : \A b \in spool[a] : \A n \in b.num .. scans[a] :
    \E c \in spool[a] : c.num = n

\* The batches that the control plane accepts.
Deliverable ==
  [agent : Agents, num : 1 .. MaxScans, size : BatchSizes, valid : {TRUE}]

\* A batch in the spool is in the end applied in full and is durable: the
\* agent retries, the handler publishes, the dispatcher applies, and the
\* flush writes (spool.go:1-4: replayed once connectivity returns).
SpooledIsDelivered ==
  \A b \in Deliverable :
    b \in spool[b.agent] ~> ObservationsOf(b) \subseteq Elements(disk.log)
=============================================================================
