-------------------------------- MODULE Plugins --------------------------------
(***************************************************************************)
(* The module runtime: modules register at the start, the bus hands every  *)
(* event to the subscriptions that match, and the handlers store findings  *)
(* whose announcement is an event again.  Modules M2 and M3 are modelled   *)
(* by the identity they give to a finding; what matters of M1 here is that *)
(* it reports the same finding for the same object.                        *)
(***************************************************************************)
EXTENDS Naturals, Sequences, FiniteSets, SequencesExt

CONSTANTS
  Menus,      \* sequences of modules that main may register: their names,
              \* subscriptions, and how each identifies the finding it makes
  Outside,    \* the types of events that come from outside the runtime
  Objects,    \* what an event is about: an instance, a decoy, a workflow
  Capacity,   \* of the queue (8192)
  MaxEvents,  \* bound: events from outside
  MaxTime     \* bound: of the clock, in seconds

\* Assumed of the constants by the modules that give them values.
CapacityAssumption == Capacity \in Nat \ {0}
BoundAssumption == MaxEvents \in Nat /\ MaxTime \in Nat
MenusAssumption ==
  \A menu \in Menus :
    /\ menu \in Seq(Range(menu))
    /\ \A n \in DOMAIN menu : menu[n].patterns \in Seq(Range(menu[n].patterns))

VARIABLES
  offered,    \* the modules main registers
  registered, \* the names of the modules, in order
  subs,       \* the subscriptions of the bus: pairs of pattern and module
  main,       \* "starting", "running" or "exited"
  queue,      \* the events that wait
  at,         \* the event that is dispatched and the subscriptions to come
  findings,   \* the identifiers of the findings in the store
  clock,      \* seconds
  sent,       \* how many events have come from outside
  handled     \* history: which module has handled which event, in order, and
              \* whether it could not read it

vars == <<offered, registered, subs, main, queue, at, findings, clock, sent, handled>>

-----------------------------------------------------------------------------
\* Types and patterns are sequences; a pattern is open if it ends with "*".
Exactly(type) == [pre |-> type, open |-> FALSE]
AnyAfter(type) == [pre |-> type, open |-> TRUE]

Match(pattern, type) ==
  \/ pattern.pre = type
  \/ pattern.open /\ IsPrefix(pattern.pre, type)

Announcement == <<"finding.", "created">>

Idle == [ev |-> << >>, rest |-> << >>]

-----------------------------------------------------------------------------
(***************************************************************************)
(* Register.                                                               *)
(***************************************************************************)
\* A duplicate name is refused before anything is subscribed, and main exits.
Register ==
  /\ main = "starting"
  /\ Len(registered) < Len(offered)
  /\ LET m == offered[Len(registered) + 1]
     IN  IF m.name \in Range(registered)
         THEN main' = "exited" /\ UNCHANGED <<offered, registered, subs>>
         ELSE /\ registered' = Append(registered, m.name)
              /\ subs' = subs \o [n \in 1 .. Len(m.patterns) |-> <<m.patterns[n], m.name>>]
              /\ UNCHANGED main
  /\ UNCHANGED <<offered, queue, at, findings, clock, sent, handled>>

Start ==
  /\ main = "starting"
  /\ Len(registered) = Len(offered)
  /\ main' = "running"
  /\ UNCHANGED <<offered, registered, subs, queue, at, findings, clock, sent, handled>>

-----------------------------------------------------------------------------
(***************************************************************************)
(* The bus.                                                                *)
(***************************************************************************)
Room == Len(queue) < Capacity

\* An event from outside; it may be malformed, and is dropped without room.
Publish(type, obj, bad) ==
  /\ main = "running"
  /\ sent < MaxEvents
  /\ sent' = sent + 1
  /\ queue' = IF Room THEN Append(queue, [type |-> type, obj |-> obj, bad |-> bad, id |-> sent'])
              ELSE queue
  /\ UNCHANGED <<offered, registered, subs, main, at, findings, clock, handled>>

Take ==
  /\ at = Idle
  /\ queue # << >>
  /\ at' = [ev |-> <<Head(queue)>>, rest |-> subs]
  /\ queue' = Tail(queue)
  /\ UNCHANGED <<offered, registered, subs, main, findings, clock, sent, handled>>

\* The next subscription does not match, or there is none left.
Skip ==
  /\ at # Idle
  /\ at.rest # << >>
  /\ ~ Match(at.rest[1][1], at.ev[1].type)
  /\ at' = [at EXCEPT !.rest = Tail(@)]
  /\ UNCHANGED <<offered, registered, subs, main, queue, findings, clock, sent, handled>>

Dispatched ==
  /\ at # Idle
  /\ at.rest = << >>
  /\ at' = Idle
  /\ UNCHANGED <<offered, registered, subs, main, queue, findings, clock, sent, handled>>

-----------------------------------------------------------------------------
(***************************************************************************)
(* The handlers.                                                           *)
(***************************************************************************)
Matching == at # Idle /\ at.rest # << >> /\ Match(at.rest[1][1], at.ev[1].type)

Handling(name) == handled' = Append(handled, <<at.ev[1].id, name, at.ev[1].bad>>)

\* Faulty variant: the error of one module ends the dispatch.
HandlerStops ==
  /\ Matching
  /\ at.ev[1].bad
  /\ at' = [at EXCEPT !.rest = << >>]
  /\ Handling(at.rest[1][2])
  /\ UNCHANGED <<offered, registered, subs, main, queue, findings, clock, sent>>

\* A payload no handler can read: the error is logged, the next one is called.
HandlerFails ==
  /\ Matching
  /\ at.ev[1].bad
  /\ at' = [at EXCEPT !.rest = Tail(@)]
  /\ Handling(at.rest[1][2])
  /\ UNCHANGED <<offered, registered, subs, main, queue, findings, clock, sent>>

\* How module name identifies its finding for an object: by the object
\* (discovery, self-healing), by the object and the second in which the event
\* is handled (honeynodes), or not at all (autodoc makes none).
FindingOf(name, obj) ==
  LET by == (CHOOSE n \in DOMAIN offered : offered[n].name = name)
  IN  CASE offered[by].by = "object" -> {<<name, obj>>}
        [] offered[by].by = "time"   -> {<<name, obj, clock>>}
        [] OTHER                     -> {}

\* Faulty variant: what is stored is announced, changed or not.
PublishEvery(found, obj) ==
  /\ findings' = findings \cup found
  /\ queue' = IF found # {} /\ Room
              THEN Append(queue, [type |-> Announcement, obj |-> obj, bad |-> FALSE, id |-> 0])
              ELSE queue

\* The severity of what these modules find never changes, so that a finding is
\* announced when it is new.
PublishFinding(found, obj) ==
  /\ findings' = findings \cup found
  /\ queue' = IF ~ (found \subseteq findings) /\ Room
              THEN Append(queue, [type |-> Announcement, obj |-> obj, bad |-> FALSE, id |-> 0])
              ELSE queue

Handle ==
  /\ Matching
  /\ ~ at.ev[1].bad
  /\ PublishFinding(FindingOf(at.rest[1][2], at.ev[1].obj), at.ev[1].obj)
  /\ at' = [at EXCEPT !.rest = Tail(@)]
  /\ IF at.ev[1].id = 0 THEN UNCHANGED handled ELSE Handling(at.rest[1][2])
  /\ UNCHANGED <<offered, registered, subs, main, clock, sent>>

Tick ==
  /\ main = "running"
  /\ clock < MaxTime
  /\ clock' = clock + 1
  /\ UNCHANGED <<offered, registered, subs, main, queue, at, findings, sent, handled>>

-----------------------------------------------------------------------------
Init ==
  /\ offered \in Menus
  /\ registered = << >>
  /\ subs = << >>
  /\ main = "starting"
  /\ queue = << >>
  /\ at = Idle
  /\ findings = {}
  /\ clock = 0
  /\ sent = 0
  /\ handled = << >>

Dispatch == Take \/ Skip \/ Dispatched \/ HandlerFails \/ Handle

Next ==
  \/ Register \/ Start \/ Tick
  \/ \E t \in Outside, o \in Objects, bad \in BOOLEAN : Publish(t, o, bad)
  \/ Dispatch

Spec == Init /\ [][Next]_vars

\* The loop of the bus goes on as long as there is something in the queue.
FairSpec == Spec /\ WF_vars(Dispatch)

-----------------------------------------------------------------------------
Offered == {offered[n].name : n \in DOMAIN offered}

TypeOK ==
  /\ Range(registered) \subseteq Offered
  /\ \A n, k \in DOMAIN registered : registered[n] = registered[k] => n = k
  /\ \A n \in DOMAIN subs : subs[n][2] \in Range(registered)
  /\ main \in {"starting", "running", "exited"}
  /\ Len(queue) <= Capacity
  /\ at # Idle => Len(at.ev) = 1 /\ IsSuffix(at.rest, subs)
  /\ clock \in 0 .. MaxTime
  /\ sent \in 0 .. MaxEvents

\* The names of the modules whose subscriptions match a type, one for each of
\* those subscriptions, in their order.
Meant(type) ==
  FlattenSeq([n \in DOMAIN offered |->
    FlattenSeq([k \in DOMAIN offered[n].patterns |->
      IF Match(offered[n].patterns[k], type) THEN <<offered[n].name>> ELSE << >>])])

\* The modules that handled an event, in order.
HandlersOf(id) ==
  FlattenSeq([n \in DOMAIN handled |-> IF handled[n][1] = id THEN <<handled[n][2]>> ELSE << >>])

\* When an event has been dispatched, each subscription of a module that
\* matches it has been served once, in the order of registration, even if
\* another handler failed on it (Register, dispatch).
ServedAsSubscribed ==
  at # Idle /\ at.rest = << >> /\ at.ev[1].id # 0 =>
    HandlersOf(at.ev[1].id) = Meant(at.ev[1].type)

\* Findings announce themselves through the bus the modules listen to; since
\* what is known already is not announced again, every cascade ends, and the
\* queue is empty in the end (PublishFinding, UpsertFinding).
CascadesEnd == <>[](queue = << >> /\ at = Idle)
=============================================================================
