---------------------------- MODULE PipelineProofs ---------------------------
(***************************************************************************)
(* Proofs about EventPipeline, for every value of its constants: types,    *)
(* at-most-once and the refinement, what a process remembers, what is not  *)
(* lost, the order of application, and what a spool holds.                 *)
(***************************************************************************)
EXTENDS EventPipeline, FiniteSetTheorems, TLAPS

\* An observation of a batch is an observation; so is a handler's current one.
LEMMA ObsType ==
  ASSUME NEW b \in Batch, NEW i \in Nat
  PROVE  Obs(b, i) \in Observation
BY DEF Obs, Batch, Observation

\* The events the handlers and the dispatcher publish are events, and the
\* queue keeps its type whether or not there is room.
LEMMA PublishType ==
  ASSUME bus \in Seq(Event), NEW ev \in Event, Publish(ev)
  PROVE  bus' \in Seq(Event)
BY DEF Publish

\* What the actions do to one record of each kind keeps its type.
LEMMA AgentEdit ==
  ASSUME NEW r \in AgentState, NEW pc \in AgentPCs
  PROVE  [r EXCEPT !.pc = pc] \in AgentState
BY DEF AgentState

\* What the steps of a handler do to its record.
LEMMA HandlerEdits ==
  ASSUME NEW r \in HandlerState, NEW pc \in HandlerPCs, NEW t \in Nat
  PROVE  /\ [r EXCEPT !.pc = pc] \in HandlerState
         /\ [r EXCEPT !.pc = pc, !.at = t] \in HandlerState
         /\ [r EXCEPT !.next = @ + 1] \in HandlerState
         /\ [r EXCEPT !.pc = pc, !.next = @ + 1] \in HandlerState
         /\ [r EXCEPT !.client = NoAgent] \in HandlerState
<1> DEFINE C == Agents \cup {NoAgent}
           D == Batch \cup {<< >>}
<1>1. /\ HandlerState = [pc : HandlerPCs, client : C, batch : D, next : Nat, at : Nat]
      /\ NoAgent \in C
  BY DEF HandlerState
<1> HIDE DEF C, D
<1>2. \A q \in HandlerState : [q EXCEPT !.pc = pc] \in HandlerState
  BY <1>1
<1>3. \A q \in HandlerState : [q EXCEPT !.at = t] \in HandlerState
  BY <1>1
<1>4. \A q \in HandlerState : [q EXCEPT !.next = q.next + 1] \in HandlerState
  BY <1>1
<1>5. [r EXCEPT !.client = NoAgent] \in HandlerState
  BY <1>1
<1> DEFINE q == [r EXCEPT !.pc = pc]
<1>6. q \in HandlerState /\ q.next = r.next
  BY <1>1
<1>7. /\ [r EXCEPT !.pc = pc, !.at = t] = [q EXCEPT !.at = t]
      /\ [r EXCEPT !.pc = pc, !.next = @ + 1] = [q EXCEPT !.next = r.next + 1]
  OBVIOUS
<1> HIDE DEF q
<1>8. /\ [q EXCEPT !.at = t] \in HandlerState
      /\ [q EXCEPT !.next = q.next + 1] \in HandlerState
  BY <1>3, <1>4, <1>6
<1> QED
  BY <1>2, <1>4, <1>5, <1>6, <1>7, <1>8

\* ... and leaves the fields alone that it does not name.
LEMMA HandlerKeeps ==
  ASSUME NEW r \in HandlerState, NEW pc, NEW t
  PROVE  /\ [r EXCEPT !.pc = pc].batch = r.batch
         /\ [r EXCEPT !.pc = pc, !.at = t].batch = r.batch
         /\ [r EXCEPT !.next = @ + 1].batch = r.batch
         /\ [r EXCEPT !.pc = pc, !.next = @ + 1].batch = r.batch
         /\ [r EXCEPT !.client = NoAgent].batch = r.batch
         /\ [r EXCEPT !.client = NoAgent].pc = r.pc
         /\ [r EXCEPT !.client = NoAgent].next = r.next
BY DEF HandlerState

\* What the steps of the dispatcher do to its record.
LEMMA DispEdits ==
  ASSUME NEW r \in DispState, NEW n \in Nat
  PROVE  /\ [r EXCEPT !.pc = "emit", !.left = n] \in DispState
         /\ [r EXCEPT !.pc = "emit", !.left = n].ev = r.ev
         /\ [r EXCEPT !.pc = "emit", !.left = n].left = n
         /\ [r EXCEPT !.left = n] \in DispState
         /\ [r EXCEPT !.left = n].ev = r.ev
         /\ [r EXCEPT !.left = n].left = n
BY DEF DispState

\* Replacing a handler in use by one with the same batch keeps the types.
LEMMA HandlerUpdate ==
  ASSUME TypeOK, NEW h \in Slots, handler[h].pc # "free",
         NEW r \in HandlerState, r.batch = handler[h].batch,
         handler' = [handler EXCEPT ![h] = r]
  PROVE  /\ handler' \in [Slots -> HandlerState]
         /\ \A g \in Slots : handler'[g].pc # "free" => handler'[g].batch \in Batch
BY DEF TypeOK

\* What is applied is appended to the log of a store.
LEMMA StoreEdits ==
  ASSUME NEW m \in Store, NEW o \in Observation
  PROVE  [m EXCEPT !.log = Append(@, o)] \in Store
<1>1. Append(m.log, o) \in Seq(Observation)
  BY DEF Store
<1> QED
  BY <1>1 DEF Store

\* Marking keeps the type of the store and of what was forgotten.
LEMMA MarkType ==
  ASSUME TypeOK, NEW h \in Slots, handler[h].pc # "free", MarkEventSeen(h)
  PROVE  /\ mem' \in Store
         /\ forgotten' \subseteq Observation
         /\ dirty' = TRUE
<1>1. Current(h) \in Observation
  BY ObsType DEF TypeOK, Current, HandlerState
<1>2. [id |-> Current(h), at |-> handler[h].at] \in SeenEntry
  BY <1>1 DEF TypeOK, HandlerState, SeenEntry
<1> DEFINE marked == mem.seen \cup {[id |-> Current(h), at |-> handler[h].at]}
           old == Expired(marked, handler[h].at)
<1>3. marked \subseteq SeenEntry
  BY <1>2 DEF TypeOK, Store
<1>4. old \subseteq marked
  BY DEF Expired
<1>5. SeenIds(old) \subseteq Observation
  BY <1>3, <1>4 DEF SeenIds, SeenEntry
<1> QED
  BY <1>3, <1>4, <1>5 DEF MarkEventSeen, TypeOK, Store

\* The values a slot, the dispatcher and an agent rest at have their types.
LEMMA RestTypes ==
  /\ Free \in HandlerState /\ Free.pc = "free"
  /\ Waiting \in DispState /\ Waiting.pc = "idle"
  /\ Idle \in AgentState
BY DEF Free, HandlerState, HandlerPCs, Waiting, DispState, Idle, AgentState, AgentPCs

\* Leaving the handlers of an agent without a client keeps their types.
LEMMA DetachType ==
  ASSUME TypeOK, NEW a \in Agents, Detach(a)
  PROVE  /\ handler' \in [Slots -> HandlerState]
         /\ \A h \in Slots : handler'[h].pc # "free" => handler'[h].batch \in Batch
<1>1. ASSUME NEW h \in Slots
      PROVE  /\ [handler[h] EXCEPT !.client = NoAgent] \in HandlerState
             /\ [handler[h] EXCEPT !.client = NoAgent].pc = handler[h].pc
             /\ [handler[h] EXCEPT !.client = NoAgent].batch = handler[h].batch
  BY HandlerEdits, HandlerKeeps DEF TypeOK, HandlerPCs
<1> QED
  BY <1>1, Zenon DEF TypeOK, Detach

\* Answering a request keeps the types of the slots and of the agents.
LEMMA ReplyType ==
  ASSUME TypeOK, NEW h \in Slots, NEW pc \in AgentPCs, Reply(h, pc)
  PROVE  /\ handler' \in [Slots -> HandlerState]
         /\ \A g \in Slots : handler'[g].pc # "free" => handler'[g].batch \in Batch
         /\ agent' \in [Agents -> AgentState]
<1>1. /\ handler' \in [Slots -> HandlerState]
      /\ \A g \in Slots : handler'[g] = Free \/ handler'[g] = handler[g]
  BY RestTypes DEF Reply, TypeOK
<1>2. \A g \in Slots : handler'[g].pc # "free" => handler'[g].batch \in Batch
  BY <1>1, RestTypes DEF TypeOK
<1>3. \A a \in Agents : [agent[a] EXCEPT !.pc = pc] \in AgentState
  BY AgentEdit DEF TypeOK
<1>4. agent' \in [Agents -> AgentState]
  BY <1>3, RestTypes DEF Reply, TypeOK
<1> QED
  BY <1>1, <1>2, <1>4

\* Every reachable state has the types of TypeOK.
THEOREM TypeCorrect == Spec => []TypeOK
<1>1. Init => TypeOK
  <2> SUFFICES ASSUME Init PROVE TypeOK
    OBVIOUS
  <2>1. EmptyStore \in Store
    BY DEF EmptyStore, Store
  <2>2. spool \in [Agents -> SUBSET Batch] /\ scans \in [Agents -> Nat]
    BY DEF Init
  <2>3. bus \in Seq(Event)
    BY DEF Init
  <2>4. /\ handler \in [Slots -> HandlerState]
        /\ \A h \in Slots : handler[h].pc # "free" => handler[h].batch \in Batch
    BY RestTypes DEF Init
  <2>5. /\ disp \in DispState
        /\ disp.pc \in {"busy", "emit"} => disp.ev \in Event
        /\ disp.pc = "emit" => disp.left # 0
    BY RestTypes DEF Init
  <2>6. agent \in [Agents -> AgentState]
    BY RestTypes DEF Init
  <2>7. /\ dirty \in BOOLEAN /\ server \in {"up", "stopping", "flushed", "down"}
        /\ now \in Nat /\ faults \in Nat /\ forgotten \subseteq Observation
        /\ mem = EmptyStore /\ disk = EmptyStore
    BY DEF Init
  <2> QED
    BY <2>1, <2>2, <2>3, <2>4, <2>5, <2>6, <2>7 DEF TypeOK
<1>2. TypeOK /\ [Next]_vars => TypeOK'
  <2> SUFFICES ASSUME TypeOK, [Next]_vars PROVE TypeOK'
    OBVIOUS
  <2>1. ASSUME NEW a \in Agents, AgentStep(a) PROVE TypeOK'
    <3>1. CASE QuietScan(a)
      BY <3>1 DEF QuietScan, StartFlush, TypeOK, AgentState, AgentPCs
    <3>2. CASE FinishFlush(a)
      BY <3>2 DEF FinishFlush, Idle, TypeOK, AgentState, AgentPCs
    <3>3. CASE Ship(a)
      <4> PICK h \in Slots, b \in Oldest(agent[a].todo) :
                 handler' = [handler EXCEPT ![h] =
                   [pc |-> "received", client |-> a, batch |-> b, next |-> 1, at |-> 0]]
        BY <3>3 DEF Ship
      <4>1. b \in Batch
        BY DEF Oldest, TypeOK, AgentState
      <4>2. [pc |-> "received", client |-> a, batch |-> b, next |-> 1, at |-> 0] \in HandlerState
        BY <4>1 DEF HandlerState, HandlerPCs
      <4>3. /\ handler' \in [Slots -> HandlerState]
            /\ \A g \in Slots : handler'[g].pc # "free" => handler'[g].batch \in Batch
        BY <4>1, <4>2 DEF TypeOK
      <4>4. agent' \in [Agents -> AgentState]
        <5>1. agent' = [agent EXCEPT ![a] = [agent[a] EXCEPT !.pc = "wait"]]
          BY <3>3 DEF Ship, TypeOK
        <5> QED
          BY <5>1, AgentEdit DEF TypeOK, AgentPCs
      <4> QED
        BY <3>3, <4>3, <4>4 DEF Ship, TypeOK
    <3>4. CASE ShipFails(a)
      BY <3>4 DEF ShipFails, NoConnection, Fault, Idle, TypeOK, AgentState, AgentPCs
    <3>5. CASE ConnectionReset(a)
      BY <3>5 DEF ConnectionReset, Idle, TypeOK, AgentState, AgentPCs
    <3>6. CASE Remove(a)
      BY <3>6 DEF Remove, Oldest, TypeOK, AgentState, AgentPCs
    <3> QED
      BY <2>1, <3>1, <3>2, <3>3, <3>4, <3>5, <3>6 DEF AgentStep
  <2>2. ASSUME NEW a \in Agents, AgentEvent(a) PROVE TypeOK'
    <3>1. CASE Scan(a)
      <4>1. PICK size \in BatchSizes, ok \in Validity :
              spool' = [spool EXCEPT ![a] =
                Trim(@ \cup {[agent |-> a, num |-> scans[a] + 1, size |-> size, valid |-> ok]})]
        BY <3>1 DEF Scan
      <4>2. [agent |-> a, num |-> scans[a] + 1, size |-> size, valid |-> ok] \in Batch
        BY BatchAssumption DEF TypeOK, Batch
      <4>3. spool' \in [Agents -> SUBSET Batch]
        BY <4>1, <4>2 DEF TypeOK, Trim
      <4> QED
        <5>1. [pc |-> "flush", todo |-> spool'[a]] \in AgentState
          BY <4>3 DEF AgentState, AgentPCs
        <5>2. agent' \in [Agents -> AgentState] /\ scans' \in [Agents -> Nat]
          BY <3>1, <5>1 DEF Scan, StartFlush, TypeOK
        <5> QED
          BY <3>1, <4>3, <5>2 DEF Scan, TypeOK
    <3>2. CASE ScanNotSpooled(a)
      BY <3>2 DEF ScanNotSpooled, Fault, StartFlush, TypeOK, AgentState, AgentPCs
    <3>3. CASE LoadFails(a)
      BY <3>3 DEF LoadFails, Fault, Oldest, TypeOK, AgentState, AgentPCs
    <3>4. CASE ClientTimeout(a)
      BY <3>4, DetachType, RestTypes DEF ClientTimeout, Fault, TypeOK
    <3>5. CASE RemoveFails(a)
      BY <3>5 DEF RemoveFails, Fault, Oldest, TypeOK, AgentState, AgentPCs
    <3>6. CASE AgentCrash(a)
      BY <3>6, DetachType, RestTypes DEF AgentCrash, Fault, TypeOK
    <3> QED
      BY <2>2, <3>1, <3>2, <3>3, <3>4, <3>5, <3>6 DEF AgentEvent
  <2>3. ASSUME NEW h \in Slots, HandlerStep(h) PROVE TypeOK'
    <3>1. CASE Reject(h)
      BY <3>1, ReplyType DEF Reject, AgentPCs, TypeOK
    <3>2. CASE RegisterHost(h)
      <4> DEFINE r == [handler[h] EXCEPT !.pc = "mark", !.at = now]
      <4>1. /\ handler' = [handler EXCEPT ![h] = r]
            /\ handler[h].pc # "free"
        BY <3>2 DEF RegisterHost, UpsertHost, TypeOK
      <4>5. r \in HandlerState /\ r.batch = handler[h].batch
        <5>1. handler[h] \in HandlerState /\ "mark" \in HandlerPCs /\ now \in Nat
          BY DEF TypeOK, HandlerPCs
        <5> QED
          <6>1. r \in HandlerState
            BY <5>1, HandlerEdits
          <6>2. r.batch = handler[h].batch
            BY <5>1, HandlerKeeps
          <6> QED
            BY <6>1, <6>2
      <4> HIDE DEF r
      <4>2. /\ handler' \in [Slots -> HandlerState]
            /\ \A g \in Slots : handler'[g].pc # "free" => handler'[g].batch \in Batch
        BY <4>1, <4>5, HandlerUpdate
      <4>3. handler[h].batch.agent \in Agents
        BY <3>2 DEF RegisterHost, UpsertHost, TypeOK, Batch
      <4>4. mem' \in Store
        BY <3>2, <4>3 DEF RegisterHost, UpsertHost, TypeOK, Store
      <4> QED
        BY <3>2, <4>2, <4>4 DEF RegisterHost, UpsertHost, TypeOK
    <3>3. CASE MarkNew(h)
      <4>1. /\ handler' \in [Slots -> HandlerState]
            /\ \A g \in Slots : handler'[g].pc # "free" => handler'[g].batch \in Batch
        BY <3>3 DEF MarkNew, TypeOK, HandlerState, HandlerPCs
      <4> QED
        BY <3>3, <4>1, MarkType DEF MarkNew, TypeOK
    <3>4. CASE SkipDuplicate(h)
      <4> DEFINE r == [handler[h] EXCEPT !.next = @ + 1]
      <4>1. /\ handler' = [handler EXCEPT ![h] = r]
            /\ handler[h].pc # "free"
        BY <3>4 DEF SkipDuplicate, TypeOK
      <4>5. r \in HandlerState /\ r.batch = handler[h].batch
        BY HandlerEdits, HandlerKeeps DEF HandlerPCs, TypeOK
      <4> HIDE DEF r
      <4>2. /\ handler' \in [Slots -> HandlerState]
            /\ \A g \in Slots : handler'[g].pc # "free" => handler'[g].batch \in Batch
        BY <4>1, <4>5, HandlerUpdate
      <4> QED
        BY <3>4, <4>2 DEF SkipDuplicate, TypeOK
    <3>5. CASE PublishObservation(h)
      <4>1. [type |-> "observation", obs |-> Current(h)] \in Event
        BY <3>5, ObsType DEF PublishObservation, TypeOK, Current, HandlerState, Event
      <4>2. bus' \in Seq(Event)
        BY <3>5, <4>1, PublishType DEF PublishObservation, TypeOK
      <4>3. /\ handler' \in [Slots -> HandlerState]
            /\ \A g \in Slots : handler'[g].pc # "free" => handler'[g].batch \in Batch
        <5> DEFINE r == [handler[h] EXCEPT !.pc = "mark", !.next = @ + 1]
        <5>1. /\ handler' = [handler EXCEPT ![h] = r]
              /\ handler[h].pc # "free"
          BY <3>5 DEF PublishObservation, TypeOK
        <5>2. r \in HandlerState /\ r.batch = handler[h].batch
          BY HandlerEdits, HandlerKeeps DEF HandlerPCs, TypeOK
        <5> HIDE DEF r
        <5> QED
          BY <5>1, <5>2, HandlerUpdate
      <4> QED
        BY <3>5, <4>2, <4>3 DEF PublishObservation, TypeOK
    <3>6. CASE Acknowledge(h)
      BY <3>6, ReplyType DEF Acknowledge, AgentPCs, TypeOK
    <3> QED
      BY <2>3, <3>1, <3>2, <3>3, <3>4, <3>5, <3>6 DEF HandlerStep
  <2>4. CASE DispatchStep
    <3>1. CASE Take
      BY <3>1 DEF Take, TypeOK, DispState
    <3>2. CASE Apply
      <4>1. disp.ev \in Event /\ disp.ev.obs \in Observation
        BY <3>2 DEF Apply, TypeOK, Event
      <4>2. mem' \in Store
        BY <3>2, <4>1, StoreEdits DEF Apply, TypeOK
      <4>3. PICK n \in 0 .. MaxDerived :
              disp' = IF n = 0 THEN Waiting ELSE [disp EXCEPT !.pc = "emit", !.left = n]
        BY <3>2 DEF Apply
      <4>4. /\ disp' \in DispState
            /\ disp'.pc \in {"busy", "emit"} => disp'.ev \in Event
            /\ disp'.pc = "emit" => disp'.left # 0
        <5>1. CASE n = 0
          BY <4>3, <5>1, RestTypes
        <5>2. CASE n # 0
          <6>1. n \in Nat /\ disp' = [disp EXCEPT !.pc = "emit", !.left = n]
            BY <4>3, <5>2, BoundsAssumption
          <6>2. /\ disp' \in DispState /\ disp'.ev = disp.ev /\ disp'.left = n
            BY <6>1, DispEdits DEF TypeOK
          <6> QED
            BY <4>1, <5>2, <6>2
        <5> QED
          BY <5>1, <5>2
      <4> QED
        BY <3>2, <4>2, <4>4 DEF Apply, TypeOK
    <3>3. CASE Emit
      <4>1. [type |-> "finding", obs |-> disp.ev.obs] \in Event
        BY <3>3 DEF Emit, TypeOK, Event
      <4>2. bus' \in Seq(Event)
        BY <3>3, <4>1, PublishType DEF Emit, TypeOK
      <4>3. /\ disp' \in DispState
            /\ disp'.pc \in {"busy", "emit"} => disp'.ev \in Event
            /\ disp'.pc = "emit" => disp'.left # 0
        <5>1. CASE disp.left = 1
          BY <3>3, <5>1, RestTypes DEF Emit
        <5>2. CASE disp.left # 1
          <6>1. disp.left - 1 \in Nat \ {0}
            BY <3>3, <5>2 DEF Emit, TypeOK, DispState
          <6>2. disp' = [disp EXCEPT !.left = disp.left - 1]
            BY <3>3, <5>2 DEF Emit, TypeOK, DispState
          <6> QED
            <7>1. /\ disp' \in DispState /\ disp'.ev = disp.ev
                  /\ disp'.left = disp.left - 1
              BY <6>1, <6>2, DispEdits DEF TypeOK
            <7> QED
              BY <3>3, <6>1, <7>1 DEF Emit, TypeOK
        <5> QED
          BY <5>1, <5>2
      <4> QED
        BY <3>3, <4>2, <4>3 DEF Emit, TypeOK
    <3>4. CASE NotifyFinding
      BY <3>4 DEF NotifyFinding, Waiting, TypeOK, DispState
    <3> QED
      BY <2>4, <3>1, <3>2, <3>3, <3>4 DEF DispatchStep
  <2>5. CASE Flush
    BY <2>5 DEF Flush, TypeOK
  <2>6. CASE ServerStep \/ Terminate \/ FinalFlushFails \/ Crash
    <3>1. CASE StopDispatch
      BY <3>1 DEF StopDispatch, Waiting, TypeOK, DispState
    <3>2. CASE FinalFlush
      BY <3>2 DEF FinalFlush, TypeOK
    <3>3. CASE Exit \/ Crash
      <4>1. faults' \in Nat
        BY <3>3 DEF Exit, Crash, Fault, TypeOK
      <4>2. ProcessGone
        BY <3>3 DEF Exit, Crash
      <4>3. bus' \in Seq(Event)
        BY <4>2 DEF ProcessGone
      <4>4. /\ handler' \in [Slots -> HandlerState]
            /\ \A h \in Slots : handler'[h].pc # "free" => handler'[h].batch \in Batch
        BY <4>2, RestTypes DEF ProcessGone
      <4> QED
        BY <4>1, <4>2, <4>3, <4>4, RestTypes DEF ProcessGone, TypeOK
    <3>4. CASE Restart \/ Terminate \/ FinalFlushFails
      BY <3>4 DEF Restart, Terminate, FinalFlushFails, Fault, TypeOK
    <3> QED
      BY <2>6, <3>1, <3>2, <3>3, <3>4 DEF ServerStep
  <2>7. CASE Tick
    BY <2>7 DEF Tick, TypeOK
  <2>8. CASE UNCHANGED vars
    BY <2>8 DEF vars, TypeOK, Current
  <2> QED
    BY <2>1, <2>2, <2>3, <2>4, <2>5, <2>6, <2>7, <2>8 DEF Next
<1> QED
  BY <1>1, <1>2, PTL DEF Spec

-----------------------------------------------------------------------------
(***************************************************************************)
(* The proof that no inventory holds an observation twice, and that an     *)
(* orderly stop keeps what was applied.  AppliedAtMostOnce is not          *)
(* inductive: it holds because an observation that is seen is in one place *)
(* at most on its way from the handler to the log, and one that is not     *)
(* seen is nowhere.  Once says this of the running process, SavedOnce of   *)
(* the snapshot that the next process starts from.                         *)
(***************************************************************************)

\* The places where an observation can be: in the hands of a handler that is
\* about to publish it, in the queue, in the dispatcher's hands, in a log.
InHandlers(o) == {h \in Slots : handler[h].pc = "publish" /\ Current(h) = o}

InQueue(o) == {i \in DOMAIN bus : bus[i].type = "observation" /\ bus[i].obs = o}

InHand(o) == disp.pc = "busy" /\ disp.ev.type = "observation" /\ disp.ev.obs = o

PlacesIn(log, o) == {i \in DOMAIN log : log[i] = o}

Single(S) == \A x, y \in S : x = y

\* An observation is in at most one place of the running process, and in none
\* unless it has been marked.
Once(o) ==
  /\ Single(InHandlers(o)) /\ Single(InQueue(o)) /\ Single(PlacesIn(mem.log, o))
  /\ InHandlers(o) # {} => InQueue(o) = {} /\ ~ InHand(o) /\ PlacesIn(mem.log, o) = {}
  /\ InQueue(o) # {} => ~ InHand(o) /\ PlacesIn(mem.log, o) = {}
  /\ InHand(o) => PlacesIn(mem.log, o) = {}
  /\ (InHandlers(o) # {} \/ InQueue(o) # {} \/ InHand(o) \/ PlacesIn(mem.log, o) # {})
       => o \in SeenIds(mem.seen)

SavedOnce(o) ==
  /\ Single(PlacesIn(disk.log, o))
  /\ PlacesIn(disk.log, o) # {} => o \in SeenIds(disk.seen)

OnceInv == \A o \in Observation \ forgotten : Once(o) /\ SavedOnce(o)

-----------------------------------------------------------------------------
\* No handler comes to hold an observation it did not hold before.
NoneStarts ==
  \A g \in Slots : handler'[g].pc = "publish" =>
    /\ handler[g].pc = "publish"
    /\ handler'[g].batch = handler[g].batch
    /\ handler'[g].next = handler[g].next

\* If none starts, no more handlers hold an observation than before.
LEMMA HandlersShrink ==
  ASSUME NoneStarts, NEW o PROVE InHandlers(o)' \subseteq InHandlers(o)
BY DEF NoneStarts, InHandlers, Current

\* A step that starts no handler and leaves queue, log and marks alone keeps
\* Once, provided the dispatcher's hands keep what they hold.
LEMMA OnceFrame ==
  ASSUME NEW o, Once(o), NoneStarts, bus' = bus,
         disp' = disp \/ (~ InHand(o) /\ ~ InHand(o)'),
         mem'.log = mem.log, mem'.seen = mem.seen
  PROVE  Once(o)'
<1>1. InHandlers(o)' \subseteq InHandlers(o)
  BY HandlersShrink
<1>2. InQueue(o)' = InQueue(o)
  BY DEF InQueue
<1>3. InHand(o)' <=> InHand(o)
  BY DEF InHand
<1>4. PlacesIn(mem.log, o)' = PlacesIn(mem.log, o)
  BY DEF PlacesIn
<1>5. SeenIds(mem.seen)' = SeenIds(mem.seen)
  BY DEF SeenIds
<1> QED
  BY <1>1, <1>2, <1>3, <1>4, <1>5 DEF Once, Single

\* A handler that publishes moves the observation to the queue or drops it.
LEMMA OncePublish ==
  ASSUME TypeOK, NEW o, Once(o), NEW h \in Slots, PublishObservation(h)
  PROVE  Once(o)'
<1>1. InHandlers(o)' = InHandlers(o) \ {h}
  BY DEF PublishObservation, TypeOK, InHandlers, Current, HandlerState
<1>2. /\ InHand(o)' <=> InHand(o)
      /\ PlacesIn(mem.log, o)' = PlacesIn(mem.log, o)
      /\ SeenIds(mem.seen)' = SeenIds(mem.seen)
  BY DEF PublishObservation, InHand, PlacesIn, SeenIds
<1>3. CASE Current(h) = o
  <2>1. h \in InHandlers(o)
    BY <1>3 DEF PublishObservation, InHandlers
  <2>2. InHandlers(o)' = {} /\ InQueue(o) = {}
    BY <1>1, <2>1 DEF Once, Single
  <2>3. InQueue(o)' \subseteq {Len(bus) + 1}
    BY <2>2 DEF PublishObservation, Publish, InQueue, TypeOK
  <2> QED
    BY <1>2, <2>1, <2>2, <2>3 DEF Once, Single
<1>4. CASE Current(h) # o
  <2>1. InQueue(o)' = InQueue(o)
    BY <1>4 DEF PublishObservation, Publish, InQueue, TypeOK
  <2>2. InHandlers(o)' = InHandlers(o)
    BY <1>1, <1>4 DEF InHandlers
  <2> QED
    BY <1>2, <2>1, <2>2 DEF Once, Single
<1> QED
  BY <1>3, <1>4

\* A handler that marks takes an observation that is nowhere.
LEMMA OnceMark ==
  ASSUME TypeOK, NEW o, o \notin forgotten', Once(o), NEW h \in Slots, MarkNew(h)
  PROVE  Once(o)'
<1> DEFINE marked == mem.seen \cup {[id |-> Current(h), at |-> handler[h].at]}
           old == Expired(marked, handler[h].at)
<1>1. /\ mem' = [mem EXCEPT !.seen = marked \ old]
      /\ forgotten' = forgotten \cup SeenIds(old)
  BY DEF MarkNew, MarkEventSeen
<1>2. mem'.seen = marked \ old /\ mem'.log = mem.log
  BY <1>1 DEF TypeOK, Store
<1> HIDE DEF old
<1>3. /\ o \in SeenIds(mem.seen) => o \in SeenIds(mem.seen)'
      /\ o = Current(h) => o \in SeenIds(mem.seen)'
  <2>1. \A e \in marked : e.id = o => e \in mem'.seen
    BY <1>1, <1>2 DEF SeenIds
  <2>2. \A e \in mem.seen : e.id = o => e \in mem'.seen
    BY <2>1
  <2>3. o = Current(h) => \E e \in mem'.seen : e.id = o
    <3> DEFINE new == [id |-> Current(h), at |-> handler[h].at]
    <3>1. new \in marked /\ new.id = Current(h)
      OBVIOUS
    <3> QED
      BY <2>1, <3>1
  <2> QED
    BY <2>2, <2>3 DEF SeenIds
<1>4. /\ InQueue(o)' = InQueue(o)
      /\ InHand(o)' <=> InHand(o)
      /\ PlacesIn(mem.log, o)' = PlacesIn(mem.log, o)
  BY <1>2 DEF MarkNew, InQueue, InHand, PlacesIn
<1>5. \A g \in Slots :
        /\ g # h => handler'[g] = handler[g]
        /\ g = h => /\ handler'[g].pc = "publish" /\ handler[g].pc = "mark"
                    /\ handler'[g].batch = handler[g].batch
                    /\ handler'[g].next = handler[g].next
  BY DEF MarkNew, TypeOK, HandlerState
<1>6. CASE o = Current(h)
  <2>1. o \notin SeenIds(mem.seen)
    BY <1>6 DEF MarkNew
  <2>2. /\ InHandlers(o) = {} /\ InQueue(o) = {} /\ ~ InHand(o)
        /\ PlacesIn(mem.log, o) = {}
    BY <2>1 DEF Once
  <2>3. InHandlers(o)' \subseteq {h}
    BY <1>5, <2>2 DEF InHandlers, Current
  <2> QED
    BY <1>3, <1>4, <1>6, <2>2, <2>3 DEF Once, Single
<1>7. CASE o # Current(h)
  <2>1. InHandlers(o)' = InHandlers(o)
    BY <1>5, <1>7 DEF InHandlers, Current
  <2> QED
    BY <1>3, <1>4, <2>1 DEF Once, Single
<1> QED
  BY <1>6, <1>7

\* The dispatcher takes the head of the queue.
LEMMA OnceTake ==
  ASSUME TypeOK, NEW o, Once(o), Take
  PROVE  Once(o)'
<1>1. /\ InHandlers(o)' = InHandlers(o)
      /\ PlacesIn(mem.log, o)' = PlacesIn(mem.log, o)
      /\ SeenIds(mem.seen)' = SeenIds(mem.seen)
  BY DEF Take, InHandlers, Current, PlacesIn, SeenIds
<1>2. ~ InHand(o)
  BY DEF Take, InHand
<1>3. InHand(o)' <=> 1 \in InQueue(o)
  BY DEF Take, InHand, InQueue, TypeOK
<1>4. \A i \in InQueue(o)' : i + 1 \in InQueue(o) /\ i \in Nat \ {0}
  BY DEF Take, InQueue, TypeOK
<1>5. Single(InQueue(o)') /\ (InHand(o)' => InQueue(o)' = {})
  BY <1>3, <1>4 DEF Once, Single
<1>6. InQueue(o)' # {} => InQueue(o) # {}
  BY <1>4
<1> QED
  BY <1>1, <1>2, <1>3, <1>5, <1>6 DEF Once

\* The dispatcher applies what is in its hands.
LEMMA OnceApply ==
  ASSUME TypeOK, NEW o, Once(o), Apply
  PROVE  Once(o)'
<1>1. /\ InHandlers(o)' = InHandlers(o)
      /\ InQueue(o)' = InQueue(o)
  BY DEF Apply, InHandlers, Current, InQueue
<1>2. mem'.log = Append(mem.log, disp.ev.obs) /\ mem'.seen = mem.seen
  BY DEF Apply, TypeOK, Store
<1>3. SeenIds(mem.seen)' = SeenIds(mem.seen)
  BY <1>2 DEF SeenIds
<1>4. ~ InHand(o)'
  BY DEF Apply, Waiting, InHand, TypeOK, DispState
<1>5. mem.log \in Seq(Observation)
  BY DEF TypeOK, Store
<1>6. CASE InHand(o)
  <2>1. PlacesIn(mem.log, o) = {}
    BY <1>6 DEF Once
  <2>2. PlacesIn(mem.log, o)' \subseteq {Len(mem.log) + 1}
    BY <1>2, <1>5, <2>1 DEF PlacesIn
  <2> QED
    BY <1>1, <1>3, <1>4, <1>6, <2>2 DEF Once, Single
<1>7. CASE ~ InHand(o)
  <2>1. disp.ev.obs # o
    BY <1>7 DEF Apply, InHand
  <2>2. PlacesIn(mem.log, o)' = PlacesIn(mem.log, o)
    BY <1>2, <1>5, <2>1 DEF PlacesIn
  <2> QED
    BY <1>1, <1>3, <1>4, <1>7, <2>2 DEF Once, Single
<1> QED
  BY <1>6, <1>7

\* What the dispatcher emits is a finding, whatever place it takes in the queue.
LEMMA OnceEmit ==
  ASSUME TypeOK, NEW o, Once(o), Emit
  PROVE  Once(o)'
<1>1. /\ InHandlers(o)' = InHandlers(o)
      /\ PlacesIn(mem.log, o)' = PlacesIn(mem.log, o)
      /\ SeenIds(mem.seen)' = SeenIds(mem.seen)
  BY DEF Emit, InHandlers, Current, PlacesIn, SeenIds
<1>2. InQueue(o)' = InQueue(o)
  BY DEF Emit, Publish, InQueue, TypeOK
<1>3. ~ InHand(o) /\ ~ InHand(o)'
  BY DEF Emit, Waiting, InHand, TypeOK, DispState
<1> QED
  BY <1>1, <1>2, <1>3 DEF Once

-----------------------------------------------------------------------------
\* A snapshot is a running store: what holds of one when it is taken holds of
\* the other when it is read back.
LEMMA OnceFlush ==
  ASSUME NEW o, Once(o), disk' = mem
  PROVE  SavedOnce(o)'
BY DEF Once, SavedOnce, PlacesIn, SeenIds

\* When a process is gone an observation is where the snapshot has it, or nowhere.
LEMMA OnceGone ==
  ASSUME NEW o, SavedOnce(o), ProcessGone
  PROVE  Once(o)'
<1>1. InHandlers(o)' = {} /\ InQueue(o)' = {} /\ ~ InHand(o)'
  BY DEF ProcessGone, InHandlers, InQueue, InHand, Free, Waiting
<1>2. /\ PlacesIn(mem.log, o)' = PlacesIn(disk.log, o)
      /\ SeenIds(mem.seen)' = SeenIds(disk.seen)
  BY DEF ProcessGone, PlacesIn, SeenIds
<1> QED
  BY <1>1, <1>2 DEF Once, SavedOnce, Single

\* A snapshot that stays as it is keeps what it has once.
LEMMA SavedFrame ==
  ASSUME NEW o, SavedOnce(o), disk' = disk
  PROVE  SavedOnce(o)'
BY DEF SavedOnce, PlacesIn, SeenIds

\* Nothing that was forgotten is remembered again.
LEMMA ForgottenGrows ==
  ASSUME [Next]_vars
  PROVE  forgotten \subseteq forgotten'
<1>1. CASE \E a \in Agents : AgentStep(a) \/ AgentEvent(a)
  BY <1>1 DEF AgentStep, AgentEvent, QuietScan, FinishFlush, Ship, ShipFails,
     ConnectionReset, Remove, Scan, ScanNotSpooled, LoadFails, ClientTimeout,
     RemoveFails, AgentCrash
<1>2. CASE \E h \in Slots : HandlerStep(h)
  BY <1>2 DEF HandlerStep, Reject, RegisterHost, UpsertHost, MarkNew, MarkEventSeen,
     SkipDuplicate, PublishObservation, Acknowledge
<1>3. CASE DispatchStep \/ Flush \/ ServerStep \/ Terminate \/ FinalFlushFails \/ Crash \/ Tick
  BY <1>3 DEF DispatchStep, Take, Apply, Emit, NotifyFinding, Flush, ServerStep,
     StopDispatch, FinalFlush, Exit, ProcessGone, Restart, Terminate, FinalFlushFails, Crash, Tick
<1> QED
  BY <1>1, <1>2, <1>3 DEF Next, vars

\* Every step keeps Once and SavedOnce of an observation not forgotten by it.
LEMMA OnceStep ==
  ASSUME TypeOK, [Next]_vars, NEW o, o \notin forgotten', Once(o), SavedOnce(o)
  PROVE  Once(o)' /\ SavedOnce(o)'
<1>1. ASSUME NEW a \in Agents, AgentStep(a) \/ AgentEvent(a)
      PROVE  Once(o)' /\ SavedOnce(o)'
  <2>1. /\ bus' = bus /\ disp' = disp /\ mem' = mem /\ disk' = disk
    BY <1>1 DEF AgentStep, AgentEvent, QuietScan, FinishFlush, Ship, ShipFails,
       ConnectionReset, Remove, Scan, ScanNotSpooled, LoadFails, ClientTimeout,
       RemoveFails, AgentCrash
  <2>2. NoneStarts
    <3>1. CASE Ship(a)
      BY <3>1 DEF Ship, NoneStarts, TypeOK
    <3>2. CASE ClientTimeout(a) \/ AgentCrash(a)
      <4>1. ASSUME NEW g \in Slots
            PROVE  LET q == [handler[g] EXCEPT !.client = NoAgent]
                   IN  q.pc = handler[g].pc /\ q.batch = handler[g].batch
                       /\ q.next = handler[g].next
        BY HandlerKeeps DEF TypeOK
      <4>2. Detach(a)
        BY <3>2 DEF ClientTimeout, AgentCrash
      <4> QED
        BY <4>1, <4>2, Zenon DEF Detach, NoneStarts
    <3>3. CASE handler' = handler
      BY <3>3 DEF NoneStarts
    <3> QED
      BY <1>1, <3>1, <3>2, <3>3 DEF AgentStep, AgentEvent, QuietScan, FinishFlush,
         ShipFails, ConnectionReset, Remove, Scan, ScanNotSpooled, LoadFails, RemoveFails
  <2> QED
    BY <2>1, <2>2, OnceFrame, SavedFrame
<1>2. ASSUME NEW h \in Slots, HandlerStep(h) PROVE Once(o)' /\ SavedOnce(o)'
  <2>1. disk' = disk
    BY <1>2 DEF HandlerStep, Reject, RegisterHost, UpsertHost, MarkNew, SkipDuplicate,
       PublishObservation, Acknowledge
  <2>2. CASE Reject(h) \/ Acknowledge(h)
    <3>1. NoneStarts
      BY <2>2 DEF Reject, Acknowledge, Reply, Free, NoneStarts, TypeOK
    <3> QED
      BY <2>1, <2>2, <3>1, OnceFrame, SavedFrame DEF Reject, Acknowledge
  <2>3. CASE RegisterHost(h)
    <3>1. NoneStarts
      BY <2>3 DEF RegisterHost, UpsertHost, NoneStarts, TypeOK, HandlerState
    <3>2. mem'.log = mem.log /\ mem'.seen = mem.seen
      BY <2>3 DEF RegisterHost, UpsertHost, TypeOK, Store
    <3>3. bus' = bus /\ disp' = disp
      BY <2>3 DEF RegisterHost, UpsertHost
    <3> QED
      BY <2>1, <3>1, <3>2, <3>3, OnceFrame, SavedFrame
  <2>4. CASE SkipDuplicate(h)
    <3>1. NoneStarts
      BY <2>4 DEF SkipDuplicate, NoneStarts, TypeOK, HandlerState
    <3> QED
      BY <2>1, <2>4, <3>1, OnceFrame, SavedFrame DEF SkipDuplicate
  <2>5. CASE MarkNew(h)
    BY <2>1, <2>5, OnceMark, SavedFrame
  <2>6. CASE PublishObservation(h)
    BY <2>1, <2>6, OncePublish, SavedFrame
  <2> QED
    BY <1>2, <2>2, <2>3, <2>4, <2>5, <2>6 DEF HandlerStep
<1>3. CASE DispatchStep
  <2>1. disk' = disk
    BY <1>3 DEF DispatchStep, Take, Apply, Emit, NotifyFinding
  <2>2. CASE NotifyFinding
    <3>1. ~ InHand(o) /\ ~ InHand(o)'
      BY <2>2 DEF NotifyFinding, InHand, Waiting
    <3>2. NoneStarts /\ bus' = bus /\ mem' = mem
      BY <2>2 DEF NotifyFinding, NoneStarts
    <3> QED
      BY <2>1, <3>1, <3>2, OnceFrame, SavedFrame
  <2> QED
    BY <1>3, <2>1, <2>2, OnceTake, OnceApply, OnceEmit, SavedFrame DEF DispatchStep
<1>4. CASE Flush \/ FinalFlush
  <2>1. /\ NoneStarts /\ bus' = bus /\ disp' = disp /\ mem' = mem /\ disk' = mem
    BY <1>4 DEF Flush, FinalFlush, NoneStarts
  <2> QED
    BY <2>1, OnceFrame, OnceFlush
<1>5. CASE StopDispatch
  <2>1. ~ InHand(o) /\ ~ InHand(o)'
    BY <1>5 DEF StopDispatch, InHand, Waiting
  <2>2. NoneStarts /\ bus' = bus /\ mem' = mem /\ disk' = disk
    BY <1>5 DEF StopDispatch, NoneStarts
  <2> QED
    BY <2>1, <2>2, OnceFrame, SavedFrame
<1>6. CASE Exit \/ Crash
  <2>1. ProcessGone
    BY <1>6 DEF Exit, Crash
  <2>2. disk' = disk
    BY <2>1 DEF ProcessGone
  <2> QED
    BY <2>1, <2>2, OnceGone, SavedFrame
<1>7. CASE Restart \/ Terminate \/ FinalFlushFails \/ Tick \/ UNCHANGED vars
  <2>1. /\ NoneStarts /\ bus' = bus /\ disp' = disp /\ mem' = mem /\ disk' = disk
    BY <1>7 DEF Restart, Terminate, FinalFlushFails, Tick, vars, NoneStarts
  <2> QED
    BY <2>1, OnceFrame, SavedFrame
<1> QED
  BY <1>1, <1>2, <1>3, <1>4, <1>5, <1>6, <1>7 DEF Next, ServerStep

\* The invariant says what AppliedAtMostOnce asks of both logs.
LEMMA OnceImplies ==
  ASSUME TypeOK, OnceInv
  PROVE  AppliedAtMostOnce
<1>1. ASSUME NEW log \in Seq(Observation),
             \A o \in Observation \ forgotten : Single(PlacesIn(log, o))
      PROVE  NoneTwice(log)
  BY <1>1 DEF NoneTwice, Single, PlacesIn
<1>2. mem.log \in Seq(Observation) /\ disk.log \in Seq(Observation)
  BY DEF TypeOK, Store
<1> QED
  BY <1>1, <1>2 DEF OnceInv, Once, SavedOnce, AppliedAtMostOnce

\* The inductive invariant holds in every reachable state.
LEMMA OnceAlways == Spec => [](TypeOK /\ OnceInv)
<1>1. Init => OnceInv
  BY DEF Init, OnceInv, Once, SavedOnce, Single, InHandlers, InQueue, InHand,
     PlacesIn, EmptyStore, Free, Waiting
<1>2. TypeOK /\ OnceInv /\ [Next]_vars => OnceInv'
  BY OnceStep, ForgottenGrows DEF OnceInv
<1> QED
  BY <1>1, <1>2, TypeCorrect, PTL DEF Spec

\* No inventory, in memory or on disk, ever holds the effect of an observation
\* twice, unless its dedup record has been pruned.
THEOREM AtMostOnce == Spec => []AppliedAtMostOnce
<1>1. TypeOK /\ OnceInv => AppliedAtMostOnce
  BY OnceImplies
<1> QED
  BY <1>1, OnceAlways, PTL

\* The pipeline implements ObservationLog: an Apply of the dispatcher is an
\* Apply of the abstract log, since what is in its hands and not forgotten is
\* in no other place; a snapshot is a Save, the end of a process a Restore.
THEOREM Implements == Spec => AppliesAsPromised
<1>1. Init => Promise!Init
  BY DEF Init, EmptyStore, Promise!Init
<1>2. TypeOK /\ OnceInv /\ [Next]_vars => [Promise!Next]_(Promise!vars)
  <2> SUFFICES ASSUME TypeOK, OnceInv, [Next]_vars
               PROVE  [Promise!Next]_(Promise!vars)
    OBVIOUS
  <2>1. CASE \E a \in Agents : AgentStep(a) \/ AgentEvent(a)
    BY <2>1 DEF Promise!vars, AgentStep, AgentEvent, QuietScan, FinishFlush, Ship,
       ShipFails, ConnectionReset, Remove, Scan, ScanNotSpooled, LoadFails,
       ClientTimeout, RemoveFails, AgentCrash
  <2>2. ASSUME NEW h \in Slots, HandlerStep(h)
        PROVE  [Promise!Next]_(Promise!vars)
    <3>1. mem'.log = mem.log
      BY <2>2 DEF HandlerStep, Reject, RegisterHost, UpsertHost, MarkNew, MarkEventSeen,
         SkipDuplicate, PublishObservation, Acknowledge, TypeOK, Store
    <3>2. disk' = disk
      BY <2>2 DEF HandlerStep, Reject, RegisterHost, UpsertHost, MarkNew, SkipDuplicate,
         PublishObservation, Acknowledge
    <3> QED
      BY <3>1, <3>2, ForgottenGrows DEF Promise!Next, Promise!Exempt
  <2>3. CASE Apply
    <3> DEFINE o == disp.ev.obs
    <3>1. InHand(o) /\ o \in Observation
      BY <2>3 DEF Apply, InHand, TypeOK, Event
    <3>2. o \in forgotten \/ \A i \in DOMAIN mem.log : mem.log[i] # o
      BY <3>1 DEF OnceInv, Once, PlacesIn
    <3>3. /\ mem.log \in Seq(Observation) /\ mem'.log = Append(mem.log, o)
          /\ disk' = disk /\ forgotten' = forgotten
      BY <2>3 DEF Apply, TypeOK, Store
    <3>4. /\ Len(mem.log) + 1 \in DOMAIN mem'.log
          /\ mem'.log[Len(mem.log) + 1] = o
      BY <3>1, <3>3
    <3> HIDE DEF o
    <3>5. Promise!Apply(mem'.log[Len(mem.log) + 1])
      BY <3>2, <3>3, <3>4 DEF Promise!Apply
    <3> QED
      BY <3>4, <3>5 DEF Promise!Next
  <2>4. CASE Take \/ Emit \/ NotifyFinding
    BY <2>4 DEF Take, Emit, NotifyFinding, Promise!vars
  <2>5. CASE Flush \/ FinalFlush
    BY <2>5 DEF Flush, FinalFlush, Promise!Next, Promise!Save
  <2>6. CASE Exit \/ Crash
    BY <2>6 DEF Exit, Crash, ProcessGone, Promise!Next, Promise!Restore
  <2>7. CASE StopDispatch \/ Restart \/ Terminate \/ FinalFlushFails \/ Tick \/ UNCHANGED vars
    BY <2>7 DEF StopDispatch, Restart, Terminate, FinalFlushFails, Tick, vars, Promise!vars
  <2> QED
    BY <2>1, <2>2, <2>3, <2>4, <2>5, <2>6, <2>7 DEF Next, ServerStep, DispatchStep
<1> QED
  BY <1>1, <1>2, OnceAlways, PTL DEF Spec, AppliesAsPromised, Promise!Spec

-----------------------------------------------------------------------------
\* A log that begins with another still does when it is appended to.
LEMMA BeginsAppend ==
  ASSUME NEW S, NEW s, NEW t \in Seq(S), NEW x, Begins(s, t)
  PROVE  Begins(s, Append(t, x))
BY DEF Begins

\* Once the final Flush is done nothing is in the dispatcher's hands, so the
\* log cannot grow again before the process is gone.
StopInv ==
  /\ Begins(disk.log, mem.log)
  /\ server = "flushed" => mem.log = disk.log /\ disp.pc # "busy"

\* What a snapshot lacks is the end of the log, and an orderly stop whose
\* final Flush succeeds lacks nothing of what was applied.
THEOREM StopIsSafe == Spec => []StopKeepsLog
<1>1. Init => StopInv
  BY DEF Init, StopInv, Begins
<1>2. TypeOK /\ StopInv /\ [Next]_vars => StopInv'
  <2> SUFFICES ASSUME TypeOK, StopInv, [Next]_vars PROVE StopInv'
    OBVIOUS
  <2>1. CASE \E a \in Agents : AgentStep(a) \/ AgentEvent(a)
    BY <2>1 DEF StopInv, AgentStep, AgentEvent, QuietScan, FinishFlush, Ship, ShipFails,
       ConnectionReset, Remove, Scan, ScanNotSpooled, LoadFails, ClientTimeout,
       RemoveFails, AgentCrash
  <2>2. ASSUME NEW h \in Slots, HandlerStep(h) PROVE StopInv'
    <3>1. mem'.log = mem.log
      BY <2>2 DEF HandlerStep, Reject, RegisterHost, UpsertHost, MarkNew, MarkEventSeen,
         SkipDuplicate, PublishObservation, Acknowledge, TypeOK, Store
    <3>2. server' = server /\ disp' = disp /\ disk' = disk
      BY <2>2 DEF HandlerStep, Reject, RegisterHost, UpsertHost, MarkNew, SkipDuplicate,
         PublishObservation, Acknowledge
    <3> QED
      BY <3>1, <3>2 DEF StopInv
  <2>3. CASE DispatchStep
    <3>1. CASE Take \/ NotifyFinding
      BY <3>1 DEF StopInv, Take, NotifyFinding, Waiting
    <3>2. CASE Apply
      <4>1. mem'.log = Append(mem.log, disp.ev.obs) /\ mem.log \in Seq(Observation)
        BY <3>2 DEF Apply, TypeOK, Store
      <4>2. Begins(disk'.log, mem'.log)
        BY <3>2, <4>1, BeginsAppend DEF Apply, StopInv
      <4> QED
        BY <3>2, <4>2 DEF StopInv, Apply
    <3>3. CASE Emit
      <4>1. disp'.pc # "busy"
        BY <3>3 DEF Emit, Waiting, TypeOK, DispState
      <4> QED
        BY <3>3, <4>1 DEF StopInv, Emit
    <3> QED
      BY <2>3, <3>1, <3>2, <3>3 DEF DispatchStep
  <2>4. CASE Flush \/ FinalFlush
    BY <2>4 DEF StopInv, Begins, Flush, FinalFlush
  <2>5. CASE StopDispatch \/ Restart \/ Terminate \/ FinalFlushFails \/ Tick \/ UNCHANGED vars
    BY <2>5 DEF StopInv, StopDispatch, Restart, Terminate, FinalFlushFails, Tick, vars
  <2>6. CASE Exit \/ Crash
    BY <2>6 DEF StopInv, Begins, Exit, Crash, ProcessGone, Waiting
  <2> QED
    BY <2>1, <2>2, <2>3, <2>4, <2>5, <2>6 DEF Next, ServerStep
<1>3. StopInv => StopKeepsLog
  BY DEF StopInv, StopKeepsLog
<1> QED
  BY <1>1, <1>2, <1>3, TypeCorrect, PTL DEF Spec

-----------------------------------------------------------------------------
\* A store that is not dirty is the one on disk: every action that changes the
\* store sets the flag, and the two that clear it write the snapshot.
THEOREM CleanIsSaved == Spec => []CleanMeansSaved
<1>1. Init => CleanMeansSaved
  BY DEF Init, CleanMeansSaved
<1>2. CleanMeansSaved /\ [Next]_vars => CleanMeansSaved'
  <2> SUFFICES ASSUME CleanMeansSaved, [Next]_vars PROVE CleanMeansSaved'
    OBVIOUS
  <2>1. CASE \E a \in Agents : AgentStep(a) \/ AgentEvent(a)
    BY <2>1 DEF CleanMeansSaved, AgentStep, AgentEvent, QuietScan, FinishFlush, Ship,
       ShipFails, ConnectionReset, Remove, Scan, ScanNotSpooled, LoadFails,
       ClientTimeout, RemoveFails, AgentCrash
  <2>2. CASE \E h \in Slots : HandlerStep(h)
    BY <2>2 DEF CleanMeansSaved, HandlerStep, Reject, RegisterHost, UpsertHost, MarkNew,
       MarkEventSeen, SkipDuplicate, PublishObservation, Acknowledge
  <2>3. CASE DispatchStep
    BY <2>3 DEF CleanMeansSaved, DispatchStep, Take, Apply, Emit, NotifyFinding
  <2>4. CASE Flush \/ ServerStep \/ Terminate \/ FinalFlushFails \/ Crash \/ Tick \/ UNCHANGED vars
    BY <2>4 DEF CleanMeansSaved, Flush, ServerStep, StopDispatch, FinalFlush, Exit,
       ProcessGone, Restart, Terminate, FinalFlushFails, Crash, Tick, vars
  <2> QED
    BY <2>1, <2>2, <2>3, <2>4 DEF Next
<1> QED
  BY <1>1, <1>2, PTL DEF Spec

-----------------------------------------------------------------------------
(***************************************************************************)
(* The proofs about what is remembered: a store has seen all that it has   *)
(* applied, and a batch that was acknowledged has been taken in.           *)
(***************************************************************************)
\* An observation the running process has taken in: it is remembered, or its
\* dedup record was pruned since.
TakenIn(o) == o \in SeenIds(mem.seen) \cup forgotten

\* The process has taken in an observation and knows the host it came from.
Settled(o) == TakenIn(o) /\ o.agent \in mem.hosts

\* What handler h has taken in of its batch.
Progress(h) ==
  /\ handler[h].pc = "received" => handler[h].next = 1
  /\ handler[h].pc \in {"mark", "publish"} =>
       /\ handler[h].batch.agent \in mem.hosts
       /\ \A i \in 1 .. handler[h].next - 1 : TakenIn(Obs(handler[h].batch, i))
  /\ handler[h].pc = "publish" => TakenIn(Current(h))

SettledQueue ==
  \A i \in DOMAIN bus : bus[i].type = "observation" => Settled(bus[i].obs)

SettledInHand ==
  disp.pc = "busy" /\ disp.ev.type = "observation" => Settled(disp.ev.obs)

\* The invariant behind StoresClosed and AckedIsSeen: an observation is taken
\* in, and its host known, before it is published, and so wherever it is on
\* its way to the log.
SeenInv ==
  /\ StoresClosed
  /\ SettledQueue
  /\ SettledInHand
  /\ \A h \in Slots : Progress(h)

\* What a process has settled stays settled as long as the process lives.
Remembers ==
  /\ forgotten \subseteq forgotten'
  /\ mem.hosts \subseteq mem'.hosts
  /\ SeenIds(mem.seen) \subseteq SeenIds(mem'.seen) \cup forgotten'

\* What is taken in stays so, and what is settled stays so.
LEMMA SettledStays ==
  ASSUME Remembers, NEW o
  PROVE  /\ TakenIn(o) => TakenIn(o)'
         /\ Settled(o) => Settled(o)'
BY DEF Remembers, TakenIn, Settled

\* A log that stays as it is stays closed, and so does the snapshot.
LEMMA ClosedStays ==
  ASSUME StoresClosed, Remembers
  PROVE  /\ mem'.log = mem.log => Closed(mem)'
         /\ disk' = disk => Closed(disk)'
BY DEF Remembers, StoresClosed, Closed

\* A queue that stays as it is stays settled.
LEMMA QueueStays ==
  ASSUME SettledQueue, Remembers, bus' = bus
  PROVE  SettledQueue'
BY SettledStays DEF SettledQueue

\* What is put at the end of a settled queue, if there is room.
LEMMA QueueGrows ==
  ASSUME TypeOK, SettledQueue, Remembers, NEW ev, Publish(ev),
         ev.type = "observation" => Settled(ev.obs)
  PROVE  SettledQueue'
<1>1. bus \in Seq(Event)
  BY DEF TypeOK
<1>2. \A i \in DOMAIN bus' : (i \in DOMAIN bus /\ bus'[i] = bus[i]) \/ bus'[i] = ev
  BY <1>1 DEF Publish
<1> QED
  BY <1>2, SettledStays DEF SettledQueue

\* So does what the dispatcher has in hand.
LEMMA InHandStays ==
  ASSUME SettledInHand, Remembers, disp' = disp
  PROVE  SettledInHand'
BY SettledStays DEF SettledInHand

\* The handlers that go on from where they were.
LEMMA ProgressStays ==
  ASSUME NEW h, Progress(h), Remembers, handler'[h].pc = handler[h].pc,
         handler'[h].batch = handler[h].batch, handler'[h].next = handler[h].next
  PROVE  Progress(h)'
BY SettledStays DEF Progress, Current, Remembers

\* A process that only adds to its memory remembers.
LEMMA GrowthRemembers ==
  ASSUME mem.hosts \subseteq mem'.hosts, mem.seen \subseteq mem'.seen,
         forgotten \subseteq forgotten'
  PROVE  Remembers
BY DEF Remembers, SeenIds

\* Marking takes an observation in, and what it prunes it has forgotten.
LEMMA MarkRemembers ==
  ASSUME TypeOK, NEW h \in Slots, MarkEventSeen(h)
  PROVE  /\ Remembers
         /\ Current(h) \in SeenIds(mem'.seen) \cup forgotten'
         /\ mem'.log = mem.log
<1> DEFINE new == [id |-> Current(h), at |-> handler[h].at]
           marked == mem.seen \cup {new}
           old == Expired(marked, handler[h].at)
<1>1. /\ mem' = [mem EXCEPT !.seen = marked \ old]
      /\ forgotten' = forgotten \cup SeenIds(old)
  BY DEF MarkEventSeen
<1>2. mem'.seen = marked \ old /\ mem'.log = mem.log /\ mem'.hosts = mem.hosts
  BY <1>1 DEF TypeOK, Store
<1> HIDE DEF old
<1>3. \A e \in marked : e.id \in SeenIds(mem'.seen) \cup forgotten'
  BY <1>1, <1>2 DEF SeenIds
<1>4. new \in marked /\ new.id = Current(h)
  OBVIOUS
<1>5. SeenIds(mem.seen) \subseteq SeenIds(mem'.seen) \cup forgotten'
  BY <1>3 DEF SeenIds
<1> QED
  BY <1>1, <1>2, <1>3, <1>4, <1>5 DEF Remembers

\* What the steps of an agent do to the requests: one may be received, or lose
\* its client, and every other handler is as it was.
LEMMA AgentKeepsProgress ==
  ASSUME TypeOK, SeenInv, NEW a \in Agents, AgentStep(a) \/ AgentEvent(a)
  PROVE  \A h \in Slots : Progress(h)'
<1>1. Remembers
  BY DEF Remembers, AgentStep, AgentEvent, QuietScan, FinishFlush, Ship, ShipFails,
     ConnectionReset, Remove, Scan, ScanNotSpooled, LoadFails, ClientTimeout,
     RemoveFails, AgentCrash
<1>2. CASE Ship(a)
  <2> PICK h \in Slots, b \in Oldest(agent[a].todo) :
             handler' = [handler EXCEPT ![h] =
               [pc |-> "received", client |-> a, batch |-> b, next |-> 1, at |-> 0]]
    BY <1>2 DEF Ship
  <2>1. handler'[h].pc = "received" /\ handler'[h].next = 1
    BY DEF TypeOK
  <2>2. \A g \in Slots : g # h => handler'[g] = handler[g]
    BY DEF TypeOK
  <2>3. Progress(h)'
    BY <2>1 DEF Progress
  <2> QED
    BY <1>1, <2>2, <2>3, ProgressStays DEF SeenInv
<1>3. CASE ClientTimeout(a) \/ AgentCrash(a)
  <2>1. ASSUME NEW g \in Slots
        PROVE  LET q == [handler[g] EXCEPT !.client = NoAgent]
               IN  q.pc = handler[g].pc /\ q.batch = handler[g].batch
                   /\ q.next = handler[g].next
    BY HandlerKeeps DEF TypeOK
  <2>2. Detach(a)
    BY <1>3 DEF ClientTimeout, AgentCrash
  <2>3. \A g \in Slots : /\ handler'[g].pc = handler[g].pc
                         /\ handler'[g].batch = handler[g].batch
                         /\ handler'[g].next = handler[g].next
    BY <2>1, <2>2, Zenon DEF Detach
  <2> QED
    BY <1>1, <2>3, ProgressStays DEF SeenInv
<1>4. CASE handler' = handler
  BY <1>1, <1>4, ProgressStays DEF SeenInv
<1> QED
  BY <1>2, <1>3, <1>4 DEF AgentStep, AgentEvent, QuietScan, FinishFlush, ShipFails,
     ConnectionReset, Remove, Scan, ScanNotSpooled, LoadFails, RemoveFails

\* A handler that goes on leaves the others where they are.
LEMMA OthersProgress ==
  ASSUME TypeOK, SeenInv, Remembers, NEW h \in Slots, Progress(h)',
         \A g \in Slots : g # h => handler'[g] = handler[g]
  PROVE  \A g \in Slots : Progress(g)'
BY ProgressStays DEF SeenInv

\* A handler marks an observation, and has its host, before it publishes it.
LEMMA SeenHandler ==
  ASSUME TypeOK, SeenInv, NEW h \in Slots, HandlerStep(h)
  PROVE  SeenInv'
<1>1. handler[h] \in HandlerState /\ Progress(h)
  BY DEF TypeOK, SeenInv
<1>2. ASSUME Remembers, mem'.log = mem.log, disk' = disk, disp' = disp
      PROVE  StoresClosed' /\ SettledInHand'
  BY <1>2, ClosedStays, InHandStays DEF SeenInv, StoresClosed
<1>3. CASE Reject(h) \/ Acknowledge(h)
  <2>1. /\ handler' = [handler EXCEPT ![h] = Free]
        /\ mem' = mem /\ disk' = disk /\ disp' = disp /\ bus' = bus /\ forgotten' = forgotten
    BY <1>3 DEF Reject, Acknowledge, Reply
  <2>2. Remembers
    BY <2>1, GrowthRemembers
  <2>3. Progress(h)'
    BY <2>1, RestTypes DEF Progress, TypeOK
  <2>4. \A g \in Slots : Progress(g)'
    BY <2>1, <2>2, <2>3, OthersProgress DEF TypeOK
  <2> QED
    BY <1>2, <2>1, <2>2, <2>4, QueueStays DEF SeenInv
<1>4. CASE RegisterHost(h)
  <2> DEFINE r == [handler[h] EXCEPT !.pc = "mark", !.at = now]
  <2>1. r.pc = "mark" /\ r.batch = handler[h].batch /\ r.next = 1
    BY <1>1, <1>4 DEF HandlerState, RegisterHost, Progress
  <2>2. handler' = [handler EXCEPT ![h] = r]
    BY <1>4 DEF RegisterHost
  <2> HIDE DEF r
  <2>3. /\ mem'.log = mem.log /\ mem'.seen = mem.seen
        /\ mem'.hosts = mem.hosts \cup {handler[h].batch.agent}
    BY <1>4 DEF RegisterHost, UpsertHost, TypeOK, Store
  <2>4. disk' = disk /\ disp' = disp /\ bus' = bus /\ forgotten' = forgotten
    BY <1>4 DEF RegisterHost
  <2>5. Remembers
    BY <2>3, <2>4, GrowthRemembers
  <2>6. handler'[h] = r /\ \A g \in Slots : g # h => handler'[g] = handler[g]
    BY <2>2 DEF TypeOK
  <2>7. Progress(h)'
    BY <2>1, <2>3, <2>6 DEF Progress
  <2>8. \A g \in Slots : Progress(g)'
    BY <2>5, <2>6, <2>7, OthersProgress
  <2> QED
    BY <1>2, <2>3, <2>4, <2>5, <2>8, QueueStays DEF SeenInv
<1>5. CASE MarkNew(h)
  <2> DEFINE r == [handler[h] EXCEPT !.pc = "publish"]
  <2>1. /\ r.pc = "publish" /\ r.batch = handler[h].batch /\ r.next = handler[h].next
    BY <1>1 DEF HandlerState
  <2>2. handler' = [handler EXCEPT ![h] = r] /\ handler[h].pc = "mark"
    BY <1>5 DEF MarkNew
  <2> HIDE DEF r
  <2>3. handler'[h] = r /\ \A g \in Slots : g # h => handler'[g] = handler[g]
    BY <2>2 DEF TypeOK
  <2>4. disk' = disk /\ disp' = disp /\ bus' = bus
    BY <1>5 DEF MarkNew
  <2>5. /\ Remembers /\ mem'.log = mem.log
        /\ Current(h) \in SeenIds(mem'.seen) \cup forgotten'
    BY <1>5, MarkRemembers DEF MarkNew
  <2>6. Progress(h)'
    <3>1. /\ handler'[h].batch.agent \in mem'.hosts
          /\ \A i \in 1 .. handler'[h].next - 1 : TakenIn(Obs(handler[h].batch, i))
      BY <1>1, <2>1, <2>2, <2>3, <2>5 DEF Progress, Remembers
    <3>2. \A i \in 1 .. handler'[h].next - 1 :
            Obs(handler'[h].batch, i) \in SeenIds(mem'.seen) \cup forgotten'
      BY <2>1, <2>3, <2>5, <3>1 DEF TakenIn, Remembers
    <3>3. Obs(handler'[h].batch, handler'[h].next) \in SeenIds(mem'.seen) \cup forgotten'
      BY <2>1, <2>3, <2>5 DEF Current
    <3> QED
      BY <2>1, <2>3, <3>1, <3>2, <3>3 DEF Progress, TakenIn, Current
  <2>7. \A g \in Slots : Progress(g)'
    BY <2>3, <2>5, <2>6, OthersProgress
  <2> QED
    BY <1>2, <2>4, <2>5, <2>7, QueueStays DEF SeenInv
<1>6. ASSUME NEW r, r.pc = "mark", r.batch = handler[h].batch, r.next = handler[h].next + 1,
             handler' = [handler EXCEPT ![h] = r], handler[h].pc \in {"mark", "publish"},
             TakenIn(Current(h)), mem' = mem, forgotten' = forgotten
      PROVE  \A g \in Slots : Progress(g)'
  <2>1. handler'[h] = r /\ \A g \in Slots : g # h => handler'[g] = handler[g]
    BY <1>6 DEF TypeOK
  <2>2. Remembers
    BY <1>6, GrowthRemembers
  <2>3. handler[h].next \in Nat
    BY <1>1 DEF HandlerState
  <2>4. \A i \in 1 .. r.next - 1 : i \in 1 .. handler[h].next - 1 \/ i = handler[h].next
    BY <1>6, <2>3
  <2>5. \A i \in 1 .. r.next - 1 : TakenIn(Obs(r.batch, i))
    BY <1>1, <1>6, <2>4 DEF Progress, Current
  <2>6. Progress(h)'
    BY <1>1, <1>6, <2>1, <2>5 DEF Progress, TakenIn
  <2> QED
    BY <2>1, <2>2, <2>6, OthersProgress
<1>7. CASE SkipDuplicate(h)
  <2> DEFINE r == [handler[h] EXCEPT !.next = @ + 1]
  <2>1. r.pc = "mark" /\ r.batch = handler[h].batch /\ r.next = handler[h].next + 1
    BY <1>1, <1>7 DEF HandlerState, SkipDuplicate
  <2>2. handler' = [handler EXCEPT ![h] = r] /\ handler[h].pc = "mark"
    BY <1>7 DEF SkipDuplicate
  <2> HIDE DEF r
  <2>3. /\ TakenIn(Current(h))
        /\ mem' = mem /\ forgotten' = forgotten /\ bus' = bus /\ disp' = disp /\ disk' = disk
    BY <1>7 DEF SkipDuplicate, TakenIn
  <2>4. Remembers
    BY <2>3, GrowthRemembers
  <2> QED
    BY <1>2, <1>6, <2>1, <2>2, <2>3, <2>4, QueueStays DEF SeenInv
<1>8. CASE PublishObservation(h)
  <2> DEFINE r == [handler[h] EXCEPT !.pc = "mark", !.next = @ + 1]
  <2>1. r.pc = "mark" /\ r.batch = handler[h].batch /\ r.next = handler[h].next + 1
    BY <1>1 DEF HandlerState
  <2>2. handler' = [handler EXCEPT ![h] = r] /\ handler[h].pc = "publish"
    BY <1>8 DEF PublishObservation
  <2> HIDE DEF r
  <2>3. /\ TakenIn(Current(h))
        /\ mem' = mem /\ forgotten' = forgotten /\ disp' = disp /\ disk' = disk
    BY <1>1, <1>8 DEF PublishObservation, Progress
  <2>4. Remembers
    BY <2>3, GrowthRemembers
  <2> DEFINE ev == [type |-> "observation", obs |-> Current(h)]
  <2>5. Publish(ev)
    BY <1>8 DEF PublishObservation
  <2>6. Settled(ev.obs)
    BY <1>1, <2>2, <2>3 DEF Progress, Settled, Current, Obs
  <2> HIDE DEF ev
  <2>7. SettledQueue'
    BY <2>4, <2>5, <2>6, QueueGrows DEF SeenInv
  <2> QED
    BY <1>2, <1>6, <2>1, <2>2, <2>3, <2>4, <2>7 DEF SeenInv
<1> QED
  BY <1>3, <1>4, <1>5, <1>7, <1>8 DEF HandlerStep

\* The dispatcher applies what is settled.
LEMMA SeenDispatcher ==
  ASSUME TypeOK, SeenInv, DispatchStep
  PROVE  SeenInv'
<1>1. handler' = handler /\ disk' = disk /\ forgotten' = forgotten
  BY DEF DispatchStep, Take, Apply, Emit, NotifyFinding
<1>2. mem'.hosts = mem.hosts /\ mem'.seen = mem.seen
  BY DEF DispatchStep, Take, Apply, Emit, NotifyFinding, TypeOK, Store
<1>3. Remembers
  BY <1>1, <1>2, GrowthRemembers
<1>4. \A h \in Slots : Progress(h)'
  BY <1>1, <1>3, ProgressStays DEF SeenInv
<1>5. Closed(disk)'
  BY <1>1, <1>3, ClosedStays DEF SeenInv
<1>6. CASE Take
  <2>1. bus \in Seq(Event) /\ bus # << >> /\ mem' = mem
    BY <1>6 DEF Take, TypeOK
  <2>2. /\ disp'.pc = "busy" /\ disp'.ev = bus[1] /\ 1 \in DOMAIN bus
        /\ \A i \in DOMAIN bus' : i + 1 \in DOMAIN bus /\ bus'[i] = bus[i + 1]
    BY <1>6, <2>1 DEF Take
  <2>3. SettledInHand'
    BY <1>3, <2>2, SettledStays DEF SeenInv, SettledQueue, SettledInHand
  <2>4. SettledQueue'
    BY <1>3, <2>2, SettledStays DEF SeenInv, SettledQueue
  <2>5. Closed(mem)'
    BY <1>3, <2>1, ClosedStays DEF SeenInv
  <2> QED
    BY <1>4, <1>5, <2>3, <2>4, <2>5 DEF SeenInv, StoresClosed
<1>7. CASE Apply
  <2>1. mem.log \in Seq(Observation) /\ mem'.log = Append(mem.log, disp.ev.obs)
    BY <1>7 DEF Apply, TypeOK, Store
  <2>2. Settled(disp.ev.obs)
    BY <1>7 DEF Apply, SeenInv, SettledInHand
  <2>3. \A o \in Elements(mem'.log) : o \in Elements(mem.log) \/ o = disp.ev.obs
    BY <2>1 DEF Elements
  <2>4. Closed(mem)'
    BY <1>1, <1>2, <2>2, <2>3 DEF SeenInv, StoresClosed, Closed, Settled, TakenIn
  <2>5. SettledInHand'
    BY <1>7 DEF Apply, Waiting, SettledInHand, TypeOK, DispState
  <2>6. SettledQueue'
    BY <1>3, <1>7, QueueStays DEF SeenInv, Apply
  <2> QED
    BY <1>4, <1>5, <2>4, <2>5, <2>6 DEF SeenInv, StoresClosed
<1>8. CASE Emit
  <2>1. SettledInHand'
    BY <1>8 DEF Emit, Waiting, SettledInHand, TypeOK, DispState
  <2> DEFINE ev == [type |-> "finding", obs |-> disp.ev.obs]
  <2>2. Publish(ev) /\ ev.type # "observation"
    BY <1>8 DEF Emit
  <2> HIDE DEF ev
  <2>3. SettledQueue'
    BY <1>3, <2>2, QueueGrows DEF SeenInv
  <2>4. Closed(mem)'
    BY <1>3, <1>8, ClosedStays DEF SeenInv, Emit
  <2> QED
    BY <1>4, <1>5, <2>1, <2>3, <2>4 DEF SeenInv, StoresClosed
<1>9. CASE NotifyFinding
  <2>1. SettledInHand'
    BY <1>9 DEF NotifyFinding, Waiting, SettledInHand
  <2>2. SettledQueue' /\ Closed(mem)'
    BY <1>3, <1>9, QueueStays, ClosedStays DEF SeenInv, NotifyFinding
  <2> QED
    BY <1>4, <1>5, <2>1, <2>2 DEF SeenInv, StoresClosed
<1> QED
  BY <1>6, <1>7, <1>8, <1>9 DEF DispatchStep

\* A process that is gone leaves nothing in the queue, and the snapshot is closed.
LEMMA SeenGone ==
  ASSUME SeenInv, ProcessGone
  PROVE  SeenInv'
<1>1. /\ mem' = disk /\ disk' = disk /\ forgotten' = forgotten /\ bus' = << >>
      /\ disp'.pc = "idle" /\ \A h \in Slots : handler'[h].pc = "free"
  BY RestTypes DEF ProcessGone
<1>2. StoresClosed'
  BY <1>1 DEF SeenInv, StoresClosed, Closed
<1> QED
  BY <1>1, <1>2 DEF SeenInv, SettledQueue, SettledInHand, Progress

\* Every step keeps SeenInv.
LEMMA SeenStep ==
  ASSUME TypeOK, SeenInv, [Next]_vars
  PROVE  SeenInv'
<1>1. ASSUME mem' = mem, forgotten' = forgotten
      PROVE  Remembers
  BY <1>1, GrowthRemembers
<1>2. ASSUME mem' = mem, disk' \in {mem, disk}, forgotten' = forgotten, bus' = bus
      PROVE  StoresClosed' /\ SettledQueue'
  <2>1. StoresClosed'
    BY <1>2 DEF SeenInv, StoresClosed, Closed
  <2> QED
    BY <1>1, <1>2, <2>1, QueueStays DEF SeenInv
<1>3. ASSUME NEW a \in Agents, AgentStep(a) \/ AgentEvent(a) PROVE SeenInv'
  <2>1. /\ mem' = mem /\ disk' = disk /\ forgotten' = forgotten
        /\ bus' = bus /\ disp' = disp
    BY <1>3 DEF AgentStep, AgentEvent, QuietScan, FinishFlush, Ship, ShipFails,
       ConnectionReset, Remove, Scan, ScanNotSpooled, LoadFails, ClientTimeout,
       RemoveFails, AgentCrash
  <2> QED
    BY <1>1, <1>2, <1>3, <2>1, AgentKeepsProgress, InHandStays DEF SeenInv
<1>4. CASE Flush \/ FinalFlush
  <2>1. /\ mem' = mem /\ disk' = mem /\ forgotten' = forgotten
        /\ bus' = bus /\ disp' = disp /\ handler' = handler
    BY <1>4 DEF Flush, FinalFlush
  <2> QED
    BY <1>1, <1>2, <2>1, ProgressStays, InHandStays DEF SeenInv
<1>5. CASE StopDispatch
  <2>1. /\ mem' = mem /\ disk' = disk /\ forgotten' = forgotten
        /\ bus' = bus /\ handler' = handler /\ disp'.pc = "stopped"
    BY <1>5 DEF StopDispatch, Waiting
  <2>2. SettledInHand'
    BY <2>1 DEF SettledInHand
  <2> QED
    BY <1>1, <1>2, <2>1, <2>2, ProgressStays DEF SeenInv
<1>6. CASE Restart \/ Terminate \/ FinalFlushFails \/ Tick \/ UNCHANGED vars
  <2>1. /\ mem' = mem /\ disk' = disk /\ forgotten' = forgotten
        /\ bus' = bus /\ disp' = disp /\ handler' = handler
    BY <1>6 DEF Restart, Terminate, FinalFlushFails, Tick, vars
  <2> QED
    BY <1>1, <1>2, <2>1, ProgressStays, InHandStays DEF SeenInv
<1> QED
  BY <1>3, <1>4, <1>5, <1>6, SeenHandler, SeenDispatcher, SeenGone
  DEF Next, ServerStep, Exit, Crash

\* SeenInv holds always.
LEMMA SeenAlways == Spec => [](TypeOK /\ SeenInv)
<1>1. Init => SeenInv
  BY RestTypes DEF Init, SeenInv, StoresClosed, Closed, EmptyStore, Elements, SettledQueue,
     SettledInHand, Progress
<1>2. TypeOK /\ SeenInv /\ [Next]_vars => SeenInv'
  BY SeenStep
<1> QED
  BY <1>1, <1>2, TypeCorrect, PTL DEF Spec

\* Whatever is in an inventory, in memory or on disk, is remembered there as
\* seen, with its host: a retry after a crash finds its dedup record.
THEOREM AppliedIsSeen == Spec => []StoresClosed
<1>1. SeenInv => StoresClosed
  BY DEF SeenInv
<1> QED
  BY <1>1, SeenAlways, PTL

-----------------------------------------------------------------------------
\* An agent that waits is served by at most one handler, which has the batch
\* the agent is at; a handler with a client has one that waits.
Links ==
  /\ \A h \in Slots : handler[h].client \in Agents =>
       /\ agent[handler[h].client].pc = "wait"
       /\ handler[h].batch \in Oldest(agent[handler[h].client].todo)
  /\ \A g, h \in Slots :
       handler[g].client \in Agents /\ handler[g].client = handler[h].client => g = h

\* No two files of an agent are of the same scan, nor of a later one.
Distinct(files) == \A b, c \in files : b.num = c.num => b = c

Files ==
  \A a \in Agents :
    /\ Distinct(spool[a])
    /\ Distinct(agent[a].todo)
    /\ \A b \in spool[a] : b.num <= scans[a]

\* An agent's loop runs in its own process.
LEMMA OtherAgents ==
  ASSUME TypeOK, NEW a \in Agents, AgentStep(a) \/ AgentEvent(a),
         NEW c \in Agents, c # a
  PROVE  agent'[c] = agent[c] /\ spool'[c] = spool[c] /\ scans'[c] = scans[c]
BY DEF AgentStep, AgentEvent, QuietScan, FinishFlush, Ship, ShipFails, ConnectionReset,
   Remove, Scan, ScanNotSpooled, LoadFails, ClientTimeout, RemoveFails, AgentCrash,
   StartFlush, TypeOK

\* A step of an agent that no handler serves.
LEMMA LinksElsewhere ==
  ASSUME Links, NEW a \in Agents, handler' = handler, Serving(a) = {},
         \A c \in Agents : c # a => agent'[c] = agent[c]
  PROVE  Links'
BY DEF Links, Serving

\* A request that is sent is linked to the batch its agent is waiting for.
LEMMA LinksShip ==
  ASSUME TypeOK, Links, NEW a \in Agents, Ship(a)
  PROVE  Links'
<1>1. PICK h \in Slots, b \in Oldest(agent[a].todo) :
        /\ handler[h] = Free
        /\ handler' = [handler EXCEPT ![h] =
             [pc |-> "received", client |-> a, batch |-> b, next |-> 1, at |-> 0]]
  BY DEF Ship
<1>2. /\ handler'[h].client = a /\ handler'[h].batch = b
      /\ \A g \in Slots : g # h => handler'[g] = handler[g]
  BY <1>1 DEF TypeOK
<1>3. \A g \in Slots : handler[g].client # a
  BY DEF Links, Ship
<1>4. agent'[a].pc = "wait" /\ agent'[a].todo = agent[a].todo
  BY DEF Ship, TypeOK, AgentState
<1>5. \A c \in Agents : c # a => agent'[c] = agent[c]
  BY DEF Ship, TypeOK
<1>6. b \in Oldest(agent'[a].todo)
  BY <1>4
<1> QED
  BY <1>2, <1>3, <1>4, <1>5, <1>6 DEF Links

\* A client that gives up takes its link away.
LEMMA LinksDetach ==
  ASSUME TypeOK, Links, NEW a \in Agents, Detach(a),
         \A c \in Agents : c # a => agent'[c] = agent[c]
  PROVE  Links'
<1>1. ASSUME NEW h \in Slots
      PROVE  LET q == [handler[h] EXCEPT !.client = NoAgent]
             IN  q.client = NoAgent /\ q.batch = handler[h].batch
  BY DEF TypeOK, HandlerState
<1>2. \A h \in Slots : IF handler[h].client = a THEN handler'[h].client = NoAgent
                       ELSE handler'[h] = handler[h]
  BY <1>1, Zenon DEF Detach, Serving
<1> QED
  BY <1>2, AgentsAssumption DEF Links

\* An answer takes the link away.
LEMMA LinksReply ==
  ASSUME TypeOK, Links, NEW h \in Slots, NEW pc, Reply(h, pc)
  PROVE  Links'
<1>1. /\ handler'[h].client = NoAgent
      /\ \A g \in Slots : g # h => handler'[g] = handler[g]
  BY DEF Reply, Free, TypeOK
<1>2. \A a \in Agents : a # handler[h].client => agent'[a] = agent[a]
  BY DEF Reply
<1> QED
  BY <1>1, <1>2, AgentsAssumption DEF Links

\* A handler that goes on with its batch and its client.
LEMMA LinksGoOn ==
  ASSUME Links, agent' = agent,
         \A g \in Slots : handler'[g].client = handler[g].client /\ handler'[g].batch = handler[g].batch
  PROVE  Links'
BY DEF Links

\* Every step keeps Links.
LEMMA LinksStep ==
  ASSUME TypeOK, Links, [Next]_vars
  PROVE  Links'
<1>1. ASSUME NEW a \in Agents, AgentStep(a) \/ AgentEvent(a) PROVE Links'
  <2>1. CASE ~ Ship(a)
    <3>1. \A c \in Agents : c # a => agent'[c] = agent[c]
      BY <1>1, OtherAgents
    <3>2. CASE ClientTimeout(a) \/ AgentCrash(a)
      BY <3>1, <3>2, LinksDetach DEF ClientTimeout, AgentCrash
    <3>3. CASE ConnectionReset(a)
      BY <3>1, <3>3, LinksElsewhere DEF ConnectionReset
    <3>4. CASE ~ (ClientTimeout(a) \/ AgentCrash(a) \/ ConnectionReset(a))
      <4>1. handler' = handler /\ agent[a].pc # "wait"
        BY <1>1, <2>1, <3>4 DEF AgentStep, AgentEvent, QuietScan, FinishFlush, ShipFails,
           Remove, Scan, ScanNotSpooled, LoadFails, RemoveFails
      <4>2. Serving(a) = {}
        BY <4>1 DEF Links, Serving
      <4> QED
        BY <3>1, <4>1, <4>2, LinksElsewhere
    <3> QED
      BY <3>2, <3>3, <3>4
  <2> QED
    BY <2>1, LinksShip
<1>2. ASSUME NEW h \in Slots, HandlerStep(h) PROVE Links'
  <2>1. CASE Reject(h) \/ Acknowledge(h)
    BY <2>1, LinksReply DEF Reject, Acknowledge
  <2>2. ASSUME NEW r, handler' = [handler EXCEPT ![h] = r], agent' = agent,
               r.client = handler[h].client, r.batch = handler[h].batch
        PROVE  Links'
    BY <2>2, LinksGoOn DEF TypeOK
  <2>3. handler[h] \in HandlerState
    BY DEF TypeOK
  <2>4. CASE RegisterHost(h)
    <3> DEFINE r == [handler[h] EXCEPT !.pc = "mark", !.at = now]
    <3>1. r.client = handler[h].client /\ r.batch = handler[h].batch
      BY <2>3 DEF HandlerState
    <3> QED
      BY <2>2, <2>4, <3>1 DEF RegisterHost
  <2>5. CASE MarkNew(h)
    <3> DEFINE r == [handler[h] EXCEPT !.pc = "publish"]
    <3>1. r.client = handler[h].client /\ r.batch = handler[h].batch
      BY <2>3 DEF HandlerState
    <3> QED
      BY <2>2, <2>5, <3>1 DEF MarkNew
  <2>6. CASE SkipDuplicate(h)
    <3> DEFINE r == [handler[h] EXCEPT !.next = @ + 1]
    <3>1. r.client = handler[h].client /\ r.batch = handler[h].batch
      BY <2>3 DEF HandlerState
    <3> QED
      BY <2>2, <2>6, <3>1 DEF SkipDuplicate
  <2>7. CASE PublishObservation(h)
    <3> DEFINE r == [handler[h] EXCEPT !.pc = "mark", !.next = @ + 1]
    <3>1. r.client = handler[h].client /\ r.batch = handler[h].batch
      BY <2>3 DEF HandlerState
    <3> QED
      BY <2>2, <2>7, <3>1 DEF PublishObservation
  <2> QED
    BY <1>2, <2>1, <2>4, <2>5, <2>6, <2>7 DEF HandlerStep
<1>3. CASE Exit \/ Crash
  BY <1>3, AgentsAssumption DEF Exit, Crash, ProcessGone, Free, Links
<1>4. ASSUME handler' = handler, agent' = agent PROVE Links'
  BY <1>4, LinksGoOn
<1>5. CASE DispatchStep \/ Flush \/ FinalFlush \/ StopDispatch \/ Restart \/ Terminate \/ FinalFlushFails \/ Tick
           \/ UNCHANGED vars
  BY <1>4, <1>5 DEF DispatchStep, Take, Apply, Emit, NotifyFinding, Flush, FinalFlush,
     StopDispatch, Restart, Terminate, FinalFlushFails, Tick, vars
<1> QED
  BY <1>1, <1>2, <1>3, <1>5 DEF Next, ServerStep

\* Every step keeps Files.
LEMMA FilesStep ==
  ASSUME TypeOK, Files, [Next]_vars
  PROVE  Files'
<1>1. ASSUME NEW a \in Agents, AgentStep(a) \/ AgentEvent(a) PROVE Files'
  <2>1. \A c \in Agents : c # a =>
          agent'[c] = agent[c] /\ spool'[c] = spool[c] /\ scans'[c] = scans[c]
    BY <1>1, OtherAgents
  <2> SUFFICES /\ Distinct(spool'[a]) /\ Distinct(agent'[a].todo)
               /\ \A b \in spool'[a] : b.num <= scans'[a]
    BY <2>1 DEF Files
  <2>2. /\ Distinct(spool[a]) /\ Distinct(agent[a].todo)
        /\ \A b \in spool[a] : b.num <= scans[a] /\ b.num \in Nat
        /\ scans[a] \in Nat
    BY DEF Files, TypeOK, Batch
  <2>3. CASE Scan(a)
    <3>1. PICK size \in BatchSizes, ok \in Validity :
            spool' = [spool EXCEPT ![a] =
              Trim(@ \cup {[agent |-> a, num |-> scans[a] + 1, size |-> size, valid |-> ok]})]
      BY <2>3 DEF Scan
    <3> DEFINE new == [agent |-> a, num |-> scans[a] + 1, size |-> size, valid |-> ok]
    <3>2. spool'[a] \subseteq spool[a] \cup {new} /\ new.num = scans[a] + 1
      BY <3>1 DEF TypeOK, Trim
    <3>3. agent'[a].todo = spool'[a] /\ scans'[a] = scans[a] + 1
      BY <2>3 DEF Scan, StartFlush, TypeOK
    <3> HIDE DEF new
    <3>4. Distinct(spool'[a])
      BY <2>2, <3>2 DEF Distinct
    <3>5. \A b \in spool'[a] : b.num <= scans'[a]
      BY <2>2, <3>2, <3>3
    <3> QED
      BY <3>3, <3>4, <3>5
  <2>4. CASE ~ Scan(a)
    <3>1. spool'[a] \subseteq spool[a]
      BY <1>1, <2>4 DEF AgentStep, AgentEvent, QuietScan, FinishFlush, Ship, ShipFails,
         ConnectionReset, Remove, ScanNotSpooled, LoadFails, ClientTimeout,
         RemoveFails, AgentCrash, TypeOK
    <3>2. scans'[a] \in {scans[a], scans[a] + 1}
      BY <1>1, <2>4 DEF AgentStep, AgentEvent, QuietScan, FinishFlush, Ship, ShipFails,
         ConnectionReset, Remove, ScanNotSpooled, LoadFails, ClientTimeout,
         RemoveFails, AgentCrash, TypeOK
    <3>3. agent'[a].todo \subseteq agent[a].todo \/ agent'[a].todo = spool'[a]
      <4>1. CASE QuietScan(a) \/ ScanNotSpooled(a)
        BY <4>1 DEF QuietScan, ScanNotSpooled, StartFlush, TypeOK
      <4> DEFINE Less == agent'[a].todo \subseteq agent[a].todo
      <4>2. agent \in [Agents -> AgentState]
        BY DEF TypeOK
      <4>3. ASSUME agent' = [agent EXCEPT ![a] = Idle] PROVE Less
        BY <4>2, <4>3 DEF Idle
      <4>4. CASE FinishFlush(a) \/ ShipFails(a) \/ ConnectionReset(a) \/ ClientTimeout(a) \/ AgentCrash(a)
        BY <4>3, <4>4 DEF FinishFlush, ShipFails, ConnectionReset, ClientTimeout, AgentCrash
      <4>5. CASE Ship(a)
        BY <4>2, <4>5 DEF Ship, AgentState
      <4>6. CASE LoadFails(a)
        <5>1. PICK b \in Oldest(agent[a].todo) :
                agent' = [agent EXCEPT ![a].todo = @ \ {b}]
          BY <4>6 DEF LoadFails
        <5> QED
          BY <4>2, <5>1 DEF AgentState
      <4>7. CASE Remove(a) \/ RemoveFails(a)
        BY <4>2, <4>7 DEF Remove, RemoveFails
      <4> QED
        BY <1>1, <2>4, <4>1, <4>4, <4>5, <4>6, <4>7 DEF AgentStep, AgentEvent
    <3> QED
      BY <2>2, <3>1, <3>2, <3>3 DEF Distinct
  <2> QED
    BY <2>3, <2>4
<1>2. ASSUME NEW h \in Slots, HandlerStep(h) PROVE Files'
  <2>1. spool' = spool /\ scans' = scans
    BY <1>2 DEF HandlerStep, Reject, RegisterHost, MarkNew, SkipDuplicate,
       PublishObservation, Acknowledge
  <2>2. \A a \in Agents : agent'[a].todo \subseteq agent[a].todo
    <3>1. CASE Reject(h) \/ Acknowledge(h)
      <4>1. PICK pc : Reply(h, pc)
        BY <3>1 DEF Reject, Acknowledge
      <4>2. \A a \in Agents : [agent[a] EXCEPT !.pc = pc].todo = agent[a].todo
        BY DEF TypeOK, AgentState
      <4>3. \A a \in Agents : agent'[a] \in {agent[a], Idle, [agent[a] EXCEPT !.pc = pc]}
        BY <4>1, Zenon DEF Reply
      <4>4. Idle.todo = {}
        BY DEF Idle
      <4> QED
        BY <4>2, <4>3, <4>4
    <3>2. CASE agent' = agent
      BY <3>2
    <3> QED
      BY <1>2, <3>1, <3>2 DEF HandlerStep, RegisterHost, MarkNew, SkipDuplicate,
         PublishObservation
  <2> QED
    BY <2>1, <2>2 DEF Files, Distinct
<1>3. CASE DispatchStep \/ Flush \/ ServerStep \/ Terminate \/ FinalFlushFails \/ Crash \/ Tick \/ UNCHANGED vars
  <2>1. spool' = spool /\ scans' = scans /\ agent' = agent
    BY <1>3 DEF DispatchStep, Take, Apply, Emit, NotifyFinding, Flush, ServerStep,
       StopDispatch, FinalFlush, Exit, ProcessGone, Restart, Terminate, FinalFlushFails, Crash, Tick, vars
  <2> QED
    BY <2>1 DEF Files
<1> QED
  BY <1>1, <1>2, <1>3 DEF Next

\* Of files that are all of different scans one is the oldest.
LEMMA OneOldest ==
  ASSUME NEW files, Distinct(files), \A b \in files : b.num \in Nat,
         NEW b \in Oldest(files), NEW c \in Oldest(files)
  PROVE  b = c
BY DEF Oldest, Distinct

\* Only the answer to the request of an agent that waits sets it to "acked".
LEMMA OnlyAcknowledgeAcks ==
  ASSUME TypeOK, [Next]_vars, NEW a \in Agents,
         agent[a].pc = "wait", agent'[a].pc = "acked"
  PROVE  \E h \in Slots : Acknowledge(h) /\ handler[h].client = a
<1>1. ASSUME NEW c \in Agents, AgentStep(c) \/ AgentEvent(c)
      PROVE  FALSE
  <2>1. c = a
    BY <1>1, OtherAgents
  <2>2. agent' = [agent EXCEPT ![a] = Idle]
    BY <1>1, <2>1 DEF AgentStep, AgentEvent, QuietScan, FinishFlush, Ship, ShipFails,
       ConnectionReset, Remove, Scan, ScanNotSpooled, LoadFails, ClientTimeout,
       RemoveFails, AgentCrash
  <2> QED
    BY <2>2 DEF Idle, TypeOK
<1>2. ASSUME NEW h \in Slots, HandlerStep(h)
      PROVE  Acknowledge(h) /\ handler[h].client = a
  BY <1>2 DEF HandlerStep, Reject, RegisterHost, MarkNew, SkipDuplicate,
     PublishObservation, Acknowledge, Reply, Idle
<1>3. CASE DispatchStep \/ Flush \/ ServerStep \/ Terminate \/ FinalFlushFails \/ Crash \/ Tick \/ UNCHANGED vars
  BY <1>3 DEF DispatchStep, Take, Apply, Emit, NotifyFinding, Flush, ServerStep,
     StopDispatch, FinalFlush, Exit, ProcessGone, Restart, Terminate, FinalFlushFails, Crash, Tick, vars
<1> QED
  BY <1>1, <1>2, <1>3 DEF Next

\* An agent that is told its batch was accepted, and so deletes the only copy,
\* is told so by the handler of that batch, which has taken all of it in.
THEOREM AckedBatchIsSeen == Spec => AckedIsSeen
<1>1. Init => Links /\ Files
  BY AgentsAssumption DEF Init, Links, Files, Distinct, Free, Idle
<1>2. TypeOK /\ Links /\ Files /\ [Next]_vars => Links' /\ Files'
  BY LinksStep, FilesStep
<1>3. TypeOK /\ SeenInv /\ Links /\ Files /\ [Next]_vars =>
        [\A a \in Agents :
           agent[a].pc = "wait" /\ agent'[a].pc = "acked" =>
             \A b \in Oldest(agent[a].todo) :
               ObservationsOf(b) \subseteq SeenIds(mem.seen) \cup forgotten]_vars
  <2> SUFFICES ASSUME TypeOK, SeenInv, Links, Files, [Next]_vars, NEW a \in Agents,
                      agent[a].pc = "wait", agent'[a].pc = "acked",
                      NEW b \in Oldest(agent[a].todo)
               PROVE  ObservationsOf(b) \subseteq SeenIds(mem.seen) \cup forgotten
    OBVIOUS
  <2>1. PICK h \in Slots : Acknowledge(h) /\ handler[h].client = a
    BY OnlyAcknowledgeAcks
  <2>2. handler[h].batch \in Oldest(agent[a].todo)
    BY <2>1 DEF Links
  <2>3. Distinct(agent[a].todo) /\ \A c \in agent[a].todo : c \in Batch /\ c.num \in Nat
    BY DEF Files, TypeOK, AgentState, Batch
  <2>4. handler[h].batch = b /\ b \in Batch
    BY <2>2, <2>3, OneOldest DEF Oldest
  <2>5. handler[h].pc = "mark" /\ ~ (handler[h].next <= b.size) /\ handler[h].next \in Nat
    BY <2>1, <2>4 DEF Acknowledge, MoreToDo, TypeOK, HandlerState
  <2>6. b.size \in Nat
    BY <2>4, BatchAssumption DEF Batch
  <2>7. \A i \in 1 .. b.size : i \in 1 .. handler[h].next - 1
    BY <2>5, <2>6
  <2>8. \A i \in 1 .. b.size : TakenIn(Obs(b, i))
    BY <2>4, <2>5, <2>7 DEF SeenInv, Progress
  <2> QED
    BY <2>8 DEF ObservationsOf, TakenIn
<1> QED
  BY <1>1, <1>2, <1>3, SeenAlways, PTL DEF Spec, AckedIsSeen

-----------------------------------------------------------------------------
(***************************************************************************)
(* The proof that what is marked as seen is not lost on its way, as long   *)
(* as the process lives and its queue has room: the handler publishes what *)
(* it marked, the queue keeps it, and the dispatcher applies what it takes.*)
(***************************************************************************)
\* The process is never told to stop, and does not crash.
LivesAssumption == FaultKinds \cap {"stop", "server"} = {}

\* What is in the queue, and what a handler is about to publish.
Queued(o) == \E i \in DOMAIN bus : bus[i].type = "observation" /\ bus[i].obs = o

Publishing(o) == \E h \in Slots : handler[h].pc = "publish" /\ Current(h) = o

\* What an observation under way is.
LEMMA UnderWayIs ==
  ASSUME NEW o PROVE UnderWay(o) <=> Publishing(o) \/ Queued(o) \/ InHand(o)
BY DEF UnderWay, Publishing, Queued, InHand

\* What is published goes to the end of the queue if there is room.
LEMMA PublishQueues ==
  ASSUME TypeOK, NEW ev, Publish(ev), NEW o
  PROVE  /\ Queued(o) => Queued(o)'
         /\ Queued(o)' => Queued(o) \/ (ev.type = "observation" /\ ev.obs = o)
         /\ Len(bus) < BusCap /\ ev.type = "observation" /\ ev.obs = o => Queued(o)'
<1>1. bus \in Seq(Event) /\ Len(bus) \in Nat /\ DOMAIN bus = 1 .. Len(bus)
  BY DEF TypeOK
<1>2. CASE Len(bus) < BusCap
  <2>1. bus' = Append(bus, ev)
    BY <1>2 DEF Publish
  <2>2. /\ DOMAIN bus' = DOMAIN bus \cup {Len(bus) + 1}
        /\ \A i \in DOMAIN bus : bus'[i] = bus[i]
        /\ bus'[Len(bus) + 1] = ev
    BY <1>1, <2>1
  <2> QED
    BY <2>2 DEF Queued
<1>3. CASE ~ (Len(bus) < BusCap)
  BY <1>3 DEF Publish, Queued
<1> QED
  BY <1>2, <1>3

\* What the dispatcher takes was queued, and the rest stays queued.
LEMMA TakeMoves ==
  ASSUME TypeOK, Take, NEW o
  PROVE  /\ Queued(o) => Queued(o)' \/ InHand(o)'
         /\ Queued(o)' \/ InHand(o)' => Queued(o)
<1>1. bus \in Seq(Event) /\ bus # << >> /\ disp'.pc = "busy" /\ disp'.ev = Head(bus) /\ bus' = Tail(bus)
  BY DEF Take, TypeOK
<1>2. /\ 1 \in DOMAIN bus /\ disp'.ev = bus[1]
      /\ \A i \in DOMAIN bus' : i + 1 \in DOMAIN bus /\ bus'[i] = bus[i + 1]
      /\ \A i \in DOMAIN bus : i # 1 => i - 1 \in DOMAIN bus' /\ bus'[i - 1] = bus[i]
  BY <1>1
<1>3. Queued(o) => Queued(o)' \/ InHand(o)'
  <2> SUFFICES ASSUME NEW i \in DOMAIN bus, bus[i].type = "observation", bus[i].obs = o
               PROVE  Queued(o)' \/ InHand(o)'
    BY DEF Queued
  <2>1. CASE i = 1
    BY <1>1, <1>2, <2>1 DEF InHand
  <2>2. CASE i # 1
    BY <1>2, <2>2 DEF Queued
  <2> QED
    BY <2>1, <2>2
<1>4. Queued(o)' => Queued(o)
  BY <1>2 DEF Queued
<1>5. InHand(o)' => Queued(o)
  BY <1>2 DEF Queued, InHand
<1> QED
  BY <1>3, <1>4, <1>5

\* What is in hand is applied, and nothing else.
LEMMA ApplyMoves ==
  ASSUME TypeOK, Apply, NEW o
  PROVE  /\ Elements(mem'.log) = Elements(mem.log) \cup {disp.ev.obs}
         /\ InHand(disp.ev.obs) /\ ~ InHand(o)'
         /\ mem'.seen = mem.seen /\ bus' = bus
<1>1. mem.log \in Seq(Observation) /\ mem'.log = Append(mem.log, disp.ev.obs) /\ mem'.seen = mem.seen
  BY DEF Apply, TypeOK, Store
<1>2. disp.ev.obs \in Observation
  BY DEF Apply, TypeOK, Event
<1>3. Elements(mem'.log) = Elements(mem.log) \cup {disp.ev.obs}
  <2> DEFINE t == Append(mem.log, disp.ev.obs)
             n == Len(mem.log) + 1
  <2>1. /\ DOMAIN t = DOMAIN mem.log \cup {n}
        /\ \A i \in DOMAIN mem.log : t[i] = mem.log[i]
        /\ t[n] = disp.ev.obs
    BY <1>1, <1>2
  <2>2. mem'.log = t
    BY <1>1
  <2> HIDE DEF t, n
  <2> QED
    BY <2>1, <2>2 DEF Elements
<1>4. InHand(disp.ev.obs) /\ ~ InHand(o)' /\ bus' = bus
  BY DEF Apply, InHand, Waiting, TypeOK, DispState
<1> QED
  BY <1>1, <1>3, <1>4

\* The handlers that publish go on publishing, and what is marked is published.
LEMMA AgentsLeavePublishing ==
  ASSUME TypeOK, NEW a \in Agents, AgentStep(a) \/ AgentEvent(a), NEW o
  PROVE  Publishing(o)' <=> Publishing(o)
<1>1. CASE Ship(a)
  <2> PICK h \in Slots, b \in Oldest(agent[a].todo) :
             /\ handler[h] = Free
             /\ handler' = [handler EXCEPT ![h] =
                  [pc |-> "received", client |-> a, batch |-> b, next |-> 1, at |-> 0]]
    BY <1>1 DEF Ship
  <2>1. /\ handler'[h].pc # "publish" /\ handler[h].pc # "publish"
        /\ \A g \in Slots : g # h => handler'[g] = handler[g]
    BY DEF TypeOK, Free
  <2> QED
    BY <2>1 DEF Publishing, Current
<1>2. CASE ClientTimeout(a) \/ AgentCrash(a)
  <2>1. ASSUME NEW g \in Slots
        PROVE  LET q == [handler[g] EXCEPT !.client = NoAgent]
               IN  q.pc = handler[g].pc /\ q.batch = handler[g].batch
                   /\ q.next = handler[g].next
    BY HandlerKeeps DEF TypeOK
  <2>2. Detach(a)
    BY <1>2 DEF ClientTimeout, AgentCrash
  <2>3. \A g \in Slots : /\ handler'[g].pc = handler[g].pc
                         /\ handler'[g].batch = handler[g].batch
                         /\ handler'[g].next = handler[g].next
    BY <2>1, <2>2, Zenon DEF Detach
  <2> QED
    BY <2>3 DEF Publishing, Current
<1>3. CASE handler' = handler
  BY <1>3 DEF Publishing, Current
<1> QED
  BY <1>1, <1>2, <1>3 DEF AgentStep, AgentEvent, QuietScan, FinishFlush, ShipFails,
     ConnectionReset, Remove, Scan, ScanNotSpooled, LoadFails, RemoveFails

\* A handler that marks nothing and publishes nothing.
LEMMA HandlerLeavesPublishing ==
  ASSUME TypeOK, NEW h \in Slots, handler[h].pc # "publish", NEW o,
         NEW r, r.pc # "publish", handler' = [handler EXCEPT ![h] = r]
  PROVE  Publishing(o)' <=> Publishing(o)
<1>1. handler'[h] = r /\ \A g \in Slots : g # h => handler'[g] = handler[g]
  BY DEF TypeOK
<1> QED
  BY <1>1 DEF Publishing, Current

\* What a step of a handler does to what is published.
LEMMA HandlerPublishes ==
  ASSUME TypeOK, NEW h \in Slots, HandlerStep(h), NEW o
  PROVE  /\ MarkNew(h) => (Publishing(o)' <=> Publishing(o) \/ o = Current(h))
         /\ PublishObservation(h) => (Publishing(o) => Publishing(o)' \/ o = Current(h))
                                     /\ (Publishing(o)' => Publishing(o))
         /\ ~ MarkNew(h) /\ ~ PublishObservation(h) => (Publishing(o)' <=> Publishing(o))
<1>1. handler[h] \in HandlerState
  BY DEF TypeOK
<1>2. CASE MarkNew(h)
  <2> DEFINE r == [handler[h] EXCEPT !.pc = "publish"]
  <2>1. r.pc = "publish" /\ r.batch = handler[h].batch /\ r.next = handler[h].next
    BY <1>1 DEF HandlerState
  <2>2. /\ handler' = [handler EXCEPT ![h] = r] /\ handler[h].pc = "mark"
    BY <1>2 DEF MarkNew
  <2> HIDE DEF r
  <2>3. handler'[h] = r /\ \A g \in Slots : g # h => handler'[g] = handler[g]
    BY <2>2 DEF TypeOK
  <2>4. Publishing(o)' <=> Publishing(o) \/ o = Current(h)
    BY <2>1, <2>2, <2>3 DEF Publishing, Current
  <2>5. ~ PublishObservation(h)
    BY <2>2 DEF PublishObservation
  <2> QED
    BY <1>2, <2>4, <2>5
<1>3. CASE PublishObservation(h)
  <2> DEFINE r == [handler[h] EXCEPT !.pc = "mark", !.next = @ + 1]
  <2>1. r.pc = "mark"
    BY <1>1 DEF HandlerState
  <2>2. /\ handler' = [handler EXCEPT ![h] = r] /\ handler[h].pc = "publish"
    BY <1>3 DEF PublishObservation
  <2> HIDE DEF r
  <2>3. handler'[h] = r /\ \A g \in Slots : g # h => handler'[g] = handler[g]
    BY <2>2 DEF TypeOK
  <2>4. /\ Publishing(o) => Publishing(o)' \/ o = Current(h)
        /\ Publishing(o)' => Publishing(o)
    BY <2>1, <2>2, <2>3 DEF Publishing, Current
  <2>5. ~ MarkNew(h)
    BY <2>2 DEF MarkNew
  <2> QED
    BY <1>3, <2>4, <2>5
<1>4. CASE Reject(h) \/ Acknowledge(h)
  <2>1. handler' = [handler EXCEPT ![h] = Free] /\ handler[h].pc \in {"received", "mark"}
    BY <1>4 DEF Reject, Acknowledge, Reply
  <2>2. ~ PublishObservation(h) /\ ~ MarkNew(h)
    <3>1. ~ PublishObservation(h)
      BY <2>1 DEF PublishObservation
    <3>2. MarkNew(h) => handler'[h].pc = "publish"
      BY <1>1 DEF MarkNew, TypeOK, HandlerState
    <3> QED
      BY <2>1, <3>1, <3>2, RestTypes DEF TypeOK
  <2> QED
    BY <2>1, <2>2, RestTypes, HandlerLeavesPublishing
<1>5. CASE RegisterHost(h)
  <2> DEFINE r == [handler[h] EXCEPT !.pc = "mark", !.at = now]
  <2>1. r.pc = "mark"
    BY <1>1 DEF HandlerState
  <2>2. /\ handler' = [handler EXCEPT ![h] = r] /\ handler[h].pc = "received"
    BY <1>5 DEF RegisterHost
  <2>3. ~ PublishObservation(h) /\ ~ MarkNew(h)
    BY <2>2 DEF PublishObservation, MarkNew
  <2> HIDE DEF r
  <2> QED
    BY <2>1, <2>2, <2>3, HandlerLeavesPublishing
<1>6. CASE SkipDuplicate(h)
  <2> DEFINE r == [handler[h] EXCEPT !.next = @ + 1]
  <2>1. r.pc = "mark"
    BY <1>1, <1>6 DEF HandlerState, SkipDuplicate
  <2>2. /\ handler' = [handler EXCEPT ![h] = r] /\ handler[h].pc = "mark"
    BY <1>6 DEF SkipDuplicate
  <2>3. ~ PublishObservation(h) /\ ~ MarkNew(h)
    BY <1>6, <2>2 DEF PublishObservation, MarkNew, SkipDuplicate
  <2> HIDE DEF r
  <2> QED
    BY <2>1, <2>2, <2>3, HandlerLeavesPublishing
<1> QED
  BY <1>2, <1>3, <1>4, <1>5, <1>6 DEF HandlerStep

\* Marking makes one observation seen, and no other.
LEMMA MarkAdds ==
  ASSUME TypeOK, NEW h \in Slots, MarkEventSeen(h)
  PROVE  /\ SeenIds(mem'.seen) \subseteq SeenIds(mem.seen) \cup {Current(h)}
         /\ mem'.log = mem.log
<1> DEFINE new == [id |-> Current(h), at |-> handler[h].at]
           marked == mem.seen \cup {new}
<1>1. mem'.seen \subseteq marked /\ mem'.log = mem.log
  BY DEF MarkEventSeen, TypeOK, Store
<1>2. new.id = Current(h)
  OBVIOUS
<1> HIDE DEF new
<1> QED
  BY <1>1, <1>2 DEF SeenIds

\* Where an observation can be: applied, or on its way.
Kept(o) == o \in Elements(mem.log) \/ Publishing(o) \/ Queued(o) \/ InHand(o)

\* Every step keeps what was kept, and keeps what it marks.
LEMMA LostStep ==
  ASSUME LivesAssumption, TypeOK, server = "up", Len(bus) < BusCap, [Next]_vars,
         NEW o, o \in SeenIds(mem.seen) => Kept(o)
  PROVE  server' = "up" /\ (o \in SeenIds(mem.seen)' => Kept(o)')
<1>1. ASSUME NEW a \in Agents, AgentStep(a) \/ AgentEvent(a)
      PROVE  server' = "up" /\ (o \in SeenIds(mem.seen)' => Kept(o)')
  <2>1. server' = server /\ bus' = bus /\ disp' = disp /\ mem' = mem
    BY <1>1 DEF AgentStep, AgentEvent, QuietScan, FinishFlush, Ship, ShipFails,
       ConnectionReset, Remove, Scan, ScanNotSpooled, LoadFails, ClientTimeout,
       RemoveFails, AgentCrash
  <2>2. Publishing(o)' <=> Publishing(o)
    BY <1>1, AgentsLeavePublishing
  <2> QED
    BY <2>1, <2>2 DEF Kept, Queued, InHand
<1>2. ASSUME NEW h \in Slots, HandlerStep(h)
      PROVE  server' = "up" /\ (o \in SeenIds(mem.seen)' => Kept(o)')
  <2>1. server' = server /\ disp' = disp
    BY <1>2 DEF HandlerStep, Reject, RegisterHost, MarkNew, SkipDuplicate,
       PublishObservation, Acknowledge
  <2>2. InHand(o)' <=> InHand(o)
    BY <2>1 DEF InHand
  <2>3. CASE MarkNew(h)
    <3>1. bus' = bus /\ MarkEventSeen(h)
      BY <2>3 DEF MarkNew
    <3>2. Queued(o)' <=> Queued(o)
      BY <3>1 DEF Queued
    <3>3. Publishing(o)' <=> Publishing(o) \/ o = Current(h)
      BY <1>2, <2>3, HandlerPublishes
    <3>4. /\ o \in SeenIds(mem'.seen) => o \in SeenIds(mem.seen) \/ o = Current(h)
          /\ mem'.log = mem.log
      BY <3>1, MarkAdds
    <3> QED
      BY <2>1, <2>2, <3>2, <3>3, <3>4 DEF Kept
  <2>4. CASE PublishObservation(h)
    <3> DEFINE ev == [type |-> "observation", obs |-> Current(h)]
    <3>1. Publish(ev) /\ mem' = mem
      BY <2>4 DEF PublishObservation
    <3>2. ev.type = "observation" /\ ev.obs = Current(h)
      OBVIOUS
    <3> HIDE DEF ev
    <3>3. (Queued(o) => Queued(o)') /\ (o = Current(h) => Queued(o)')
      BY <3>1, <3>2, PublishQueues
    <3>4. Publishing(o) => Publishing(o)' \/ o = Current(h)
      BY <1>2, <2>4, HandlerPublishes
    <3> QED
      BY <2>1, <2>2, <3>1, <3>3, <3>4 DEF Kept
  <2>5. CASE ~ MarkNew(h) /\ ~ PublishObservation(h)
    <3>1. bus' = bus /\ mem'.log = mem.log /\ mem'.seen = mem.seen
      BY <1>2, <2>5 DEF HandlerStep, Reject, RegisterHost, UpsertHost, SkipDuplicate,
         Acknowledge, TypeOK, Store
    <3>2. Publishing(o)' <=> Publishing(o)
      BY <1>2, <2>5, HandlerPublishes
    <3> QED
      BY <2>1, <2>2, <3>1, <3>2 DEF Kept, Queued
  <2> QED
    BY <2>3, <2>4, <2>5
<1>3. CASE DispatchStep
  <2>1. server' = server /\ handler' = handler
    BY <1>3 DEF DispatchStep, Take, Apply, Emit, NotifyFinding
  <2>2. Publishing(o)' <=> Publishing(o)
    BY <2>1 DEF Publishing, Current
  <2>3. CASE Take
    <3>1. mem' = mem /\ ~ InHand(o)
      BY <2>3 DEF Take, InHand
    <3> QED
      BY <2>1, <2>2, <2>3, <3>1, TakeMoves DEF Kept
  <2>4. CASE Apply
    <3>1. /\ Elements(mem'.log) = Elements(mem.log) \cup {disp.ev.obs}
          /\ mem'.seen = mem.seen /\ bus' = bus
      BY <2>4, ApplyMoves
    <3>2. InHand(o) => o = disp.ev.obs
      BY DEF InHand
    <3>3. Queued(o)' <=> Queued(o)
      BY <3>1 DEF Queued
    <3> QED
      BY <2>1, <2>2, <3>1, <3>2, <3>3 DEF Kept
  <2>5. CASE Emit
    <3> DEFINE ev == [type |-> "finding", obs |-> disp.ev.obs]
    <3>1. Publish(ev) /\ mem' = mem /\ ~ InHand(o)
      BY <2>5 DEF Emit, InHand
    <3> HIDE DEF ev
    <3>2. Queued(o) => Queued(o)'
      BY <3>1, PublishQueues
    <3> QED
      BY <2>1, <2>2, <3>1, <3>2 DEF Kept
  <2>6. CASE NotifyFinding
    <3>1. mem' = mem /\ bus' = bus /\ ~ InHand(o)
      BY <2>6 DEF NotifyFinding, InHand
    <3> QED
      BY <2>1, <2>2, <3>1 DEF Kept, Queued
  <2> QED
    BY <1>3, <2>3, <2>4, <2>5, <2>6 DEF DispatchStep
<1>4. CASE Flush \/ Tick \/ UNCHANGED vars
  <2>1. server' = server /\ handler' = handler /\ bus' = bus /\ disp' = disp /\ mem' = mem
    BY <1>4 DEF Flush, Tick, vars
  <2> QED
    BY <2>1 DEF Kept, Publishing, Current, Queued, InHand
<1>5. ~ (ServerStep \/ Terminate \/ FinalFlushFails \/ Crash)
  BY DEF LivesAssumption, ServerStep, StopDispatch, FinalFlush, Exit, Restart, Terminate, FinalFlushFails,
     Crash, Fault
<1> QED
  BY <1>1, <1>2, <1>3, <1>4, <1>5 DEF Next

\* What was marked as seen, and so is not sent again, is in the inventory or on
\* its way there, as long as the process lives and the queue is not full.
THEOREM NothingIsLost ==
  ASSUME LivesAssumption
  PROVE  Spec /\ [](Len(bus) < BusCap) => []NothingSeenIsLost
<1> DEFINE LostInv == server = "up" /\ \A o \in SeenIds(mem.seen) : Kept(o)
<1>1. Init => LostInv
  BY DEF Init, EmptyStore, SeenIds
<1>2. TypeOK /\ LostInv /\ Len(bus) < BusCap /\ [Next]_vars => LostInv'
  <2> SUFFICES ASSUME TypeOK, LostInv, Len(bus) < BusCap, [Next]_vars PROVE LostInv'
    OBVIOUS
  <2>1. server' = "up"
    BY LostStep
  <2>2. ASSUME NEW o \in SeenIds(mem.seen)' PROVE Kept(o)'
    BY LostStep
  <2> QED
    BY <2>1, <2>2
<1>3. LostInv => NothingSeenIsLost
  BY UnderWayIs DEF NothingSeenIsLost, Kept
<1> QED
  BY <1>1, <1>2, <1>3, TypeCorrect, PTL DEF Spec

-----------------------------------------------------------------------------
(***************************************************************************)
(* The proof that the observations of an agent are applied in the order it *)
(* collected them.  It holds while no client gives up on a request that is *)
(* still served, every file can be read and removed, and no dedup record   *)
(* is pruned: an orphaned handler would go on beside the one that serves   *)
(* the retry, and a file that stays would be sent after later ones.        *)
(***************************************************************************)
OrderAssumption ==
  FaultKinds \cap {"reply", "agent", "disk"} = {} /\ MaxTime <= DedupWindow

\* Of two observations of one agent, the first was collected first.
Before(o, p) ==
  o.agent = p.agent => o.num < p.num \/ (o.num = p.num /\ o.idx < p.idx)

InOrder(log) == \A i, j \in DOMAIN log : i < j => Before(log[i], log[j])

QueueInOrder ==
  \A i, j \in DOMAIN bus :
    i < j /\ bus[i].type = "observation" /\ bus[j].type = "observation" =>
      Before(bus[i].obs, bus[j].obs)

\* What has been published and is not lost.
Published(o) == Queued(o) \/ InHand(o) \/ o \in Elements(mem.log)

\* The log, what is in hand, the queue, and what a handler is about to publish
\* come in this order.
LineInOrder ==
  /\ InOrder(mem.log) /\ InOrder(disk.log) /\ QueueInOrder
  /\ \A o \in Elements(mem.log) : \A p : InHand(p) \/ Queued(p) => Before(o, p)
  /\ \A o, p : InHand(o) /\ Queued(p) => Before(o, p)
  /\ \A o, p : Published(o) /\ Publishing(p) => Before(o, p)

\* What was seen is of no later scan than what is still in the spool, and of a
\* batch the observations were seen one after the other.
Frontier(seen) ==
  \A o \in SeenIds(seen) :
    /\ o.idx # 0 /\ o.num <= scans[o.agent]
    /\ \A b \in spool[o.agent] : o.num <= b.num
    /\ \A i \in 1 .. o.idx : Obs(o, i) \in SeenIds(seen)

\* A handler has its client still, and an agent that flushes has all of its
\* spool before it.
Attached ==
  /\ \A h \in Slots : handler[h].pc # "free" =>
       handler[h].client \in Agents /\ handler[h].next # 0 /\ handler[h].at <= MaxTime
  /\ \A a \in Agents : agent[a].pc # "idle" => agent[a].todo = spool[a]
  /\ \A a \in Agents : \A b \in spool[a] : b.agent = a

NothingPruned == now <= MaxTime /\ forgotten = {}

-----------------------------------------------------------------------------
\* The faults that are left out.
LEMMA NoSuchFaults ==
  ASSUME OrderAssumption, NEW a
  PROVE  ~ (ScanNotSpooled(a) \/ LoadFails(a) \/ ClientTimeout(a) \/ RemoveFails(a) \/ AgentCrash(a))
BY DEF OrderAssumption, ScanNotSpooled, LoadFails, ClientTimeout, RemoveFails, AgentCrash, Fault

\* A scan adds one batch, of a later scan than all others.
LEMMA ScanAdds ==
  ASSUME TypeOK, NEW a \in Agents, Scan(a)
  PROVE  /\ \A b \in spool'[a] : b \in spool[a] \/ (b.num = scans[a] + 1 /\ b.agent = a)
         /\ agent'[a].todo = spool'[a] /\ scans'[a] = scans[a] + 1
<1>1. PICK size \in BatchSizes, ok \in Validity :
        spool' = [spool EXCEPT ![a] =
          Trim(@ \cup {[agent |-> a, num |-> scans[a] + 1, size |-> size, valid |-> ok]})]
  BY DEF Scan
<1> DEFINE new == [agent |-> a, num |-> scans[a] + 1, size |-> size, valid |-> ok]
<1>2. spool'[a] \subseteq spool[a] \cup {new} /\ new.num = scans[a] + 1 /\ new.agent = a
  BY <1>1 DEF TypeOK, Trim
<1>3. agent'[a].todo = spool'[a] /\ scans'[a] = scans[a] + 1
  BY DEF Scan, StartFlush, TypeOK
<1> HIDE DEF new
<1> QED
  BY <1>2, <1>3

\* What the other steps of an agent do to its spool and to its loop.
LEMMA AgentMoves ==
  ASSUME OrderAssumption, TypeOK, Attached, NEW a \in Agents, AgentStep(a) \/ AgentEvent(a), ~ Scan(a)
  PROVE  /\ spool'[a] \subseteq spool[a] /\ scans'[a] = scans[a]
         /\ agent'[a].pc # "idle" => agent'[a].todo = spool'[a]
<1>1. QuietScan(a) \/ FinishFlush(a) \/ Ship(a) \/ ShipFails(a) \/ ConnectionReset(a) \/ Remove(a)
  BY NoSuchFaults DEF AgentStep, AgentEvent
<1>2. spool'[a] \subseteq spool[a] /\ scans'[a] = scans[a]
  BY <1>1 DEF QuietScan, FinishFlush, Ship, ShipFails, ConnectionReset, Remove, TypeOK
<1>3. CASE QuietScan(a)
  BY <1>3 DEF QuietScan, StartFlush, TypeOK
<1>4. CASE FinishFlush(a) \/ ShipFails(a) \/ ConnectionReset(a)
  BY <1>4 DEF FinishFlush, ShipFails, ConnectionReset, Idle, TypeOK
<1>5. CASE Ship(a)
  <2>1. agent'[a].todo = agent[a].todo /\ spool' = spool /\ agent[a].pc = "flush"
    BY <1>5 DEF Ship, TypeOK, AgentState
  <2> QED
    BY <1>2, <2>1 DEF Attached
<1>6. CASE Remove(a)
  <2>1. PICK b \in Oldest(agent[a].todo) :
          /\ spool' = [spool EXCEPT ![a] = @ \ {b}]
          /\ agent' = [agent EXCEPT ![a] = [pc |-> "flush", todo |-> @.todo \ {b}]]
    BY <1>6 DEF Remove
  <2>2. agent[a].todo = spool[a]
    BY <1>6 DEF Remove, Attached
  <2>3. spool'[a] = spool[a] \ {b} /\ agent'[a].todo = agent[a].todo \ {b}
    BY <2>1 DEF TypeOK
  <2> QED
    BY <1>2, <2>2, <2>3
<1> QED
  BY <1>1, <1>2, <1>3, <1>4, <1>5, <1>6

\* Every step keeps Attached.
LEMMA AttachedStep ==
  ASSUME OrderAssumption, TypeOK, Links, Attached, NothingPruned, [Next]_vars
  PROVE  Attached'
<1>1. ASSUME NEW a \in Agents, AgentStep(a) \/ AgentEvent(a) PROVE Attached'
  <2>1. \A c \in Agents : c # a =>
          agent'[c] = agent[c] /\ spool'[c] = spool[c] /\ scans'[c] = scans[c]
    BY <1>1, OtherAgents
  <2>2. agent'[a].pc # "idle" => agent'[a].todo = spool'[a]
    BY <1>1, AgentMoves, ScanAdds
  <2>3. \A b \in spool'[a] : b.agent = a
    BY <1>1, AgentMoves, ScanAdds DEF Attached
  <2>4. \A h \in Slots : handler'[h].pc # "free" =>
          handler'[h].client \in Agents /\ handler'[h].next # 0 /\ handler'[h].at <= MaxTime
    <3>1. CASE Ship(a)
      <4> PICK h \in Slots, b \in Oldest(agent[a].todo) :
                 handler' = [handler EXCEPT ![h] =
                   [pc |-> "received", client |-> a, batch |-> b, next |-> 1, at |-> 0]]
        BY <3>1 DEF Ship
      <4>1. handler'[h].client = a /\ handler'[h].next = 1 /\ handler'[h].at = 0
        BY DEF TypeOK
      <4>2. \A g \in Slots : g # h => handler'[g] = handler[g]
        BY DEF TypeOK
      <4>3. 0 <= MaxTime
        BY BoundsAssumption
      <4> QED
        BY <4>1, <4>2, <4>3 DEF Attached
    <3>2. CASE ~ Ship(a)
      <4>1. handler' = handler
        BY <1>1, <3>2, NoSuchFaults DEF AgentStep, AgentEvent, QuietScan, FinishFlush,
           ShipFails, ConnectionReset, Remove, Scan
      <4> QED
        BY <4>1 DEF Attached
    <3> QED
      BY <3>1, <3>2
  <2> QED
    BY <2>1, <2>2, <2>3, <2>4 DEF Attached
<1>2. ASSUME NEW h \in Slots, HandlerStep(h) PROVE Attached'
  <2>1. spool' = spool /\ handler[h].pc # "free" /\ handler[h] \in HandlerState
    BY <1>2 DEF HandlerStep, Reject, RegisterHost, MarkNew, SkipDuplicate,
       PublishObservation, Acknowledge, TypeOK
  <2>2. CASE Reject(h) \/ Acknowledge(h)
    <3>1. PICK pc : Reply(h, pc)
      BY <2>2 DEF Reject, Acknowledge
    <3>2. /\ handler'[h].pc = "free" /\ \A g \in Slots : g # h => handler'[g] = handler[g]
      BY <3>1, RestTypes DEF Reply, TypeOK
    <3>3. \A a \in Agents : [agent[a] EXCEPT !.pc = pc].todo = agent[a].todo
      BY DEF TypeOK, AgentState
    <3>4. \A a \in Agents : a = handler[h].client =>
            agent'[a] = Idle \/ agent'[a] = [agent[a] EXCEPT !.pc = pc]
      BY <3>1, Zenon DEF Reply
    <3>5. \A a \in Agents : a # handler[h].client => agent'[a] = agent[a]
      BY <3>1 DEF Reply
    <3>6. handler[h].client \in Agents => agent[handler[h].client].pc = "wait"
      BY DEF Links
    <3>7. ASSUME NEW a \in Agents, agent'[a].pc # "idle" PROVE agent'[a].todo = spool[a]
      <4>1. CASE a # handler[h].client
        BY <3>5, <3>7, <4>1 DEF Attached
      <4>2. CASE a = handler[h].client
        <5>1. agent[a].todo = spool[a]
          BY <3>6, <4>2 DEF Attached
        <5>2. Idle.pc = "idle"
          BY DEF Idle
        <5> QED
          BY <3>3, <3>4, <3>7, <4>2, <5>1, <5>2
      <4> QED
        BY <4>1, <4>2
    <3> QED
      BY <2>1, <3>2, <3>7 DEF Attached
  <2>3. ASSUME NEW r, handler' = [handler EXCEPT ![h] = r], agent' = agent,
               r.client = handler[h].client, r.next # 0, r.at <= MaxTime
        PROVE  Attached'
    <3>1. handler'[h] = r /\ \A g \in Slots : g # h => handler'[g] = handler[g]
      BY <2>3 DEF TypeOK
    <3> QED
      BY <2>1, <2>3, <3>1 DEF Attached
  <2>4. handler[h].client \in Agents /\ handler[h].next # 0 /\ handler[h].at <= MaxTime
    BY <2>1 DEF Attached
  <2>5. handler[h].next + 1 # 0
    BY <2>1 DEF HandlerState
  <2>6. CASE RegisterHost(h)
    <3> DEFINE r == [handler[h] EXCEPT !.pc = "mark", !.at = now]
    <3>1. r.client = handler[h].client /\ r.next = handler[h].next /\ r.at = now
      BY <2>1 DEF HandlerState
    <3>2. handler' = [handler EXCEPT ![h] = r] /\ agent' = agent
      BY <2>6 DEF RegisterHost
    <3> HIDE DEF r
    <3> QED
      BY <2>3, <2>4, <3>1, <3>2 DEF NothingPruned
  <2>7. CASE MarkNew(h)
    <3> DEFINE r == [handler[h] EXCEPT !.pc = "publish"]
    <3>1. r.client = handler[h].client /\ r.next = handler[h].next /\ r.at = handler[h].at
      BY <2>1 DEF HandlerState
    <3>2. handler' = [handler EXCEPT ![h] = r] /\ agent' = agent
      BY <2>7 DEF MarkNew
    <3> HIDE DEF r
    <3> QED
      BY <2>3, <2>4, <3>1, <3>2
  <2>8. CASE SkipDuplicate(h)
    <3> DEFINE r == [handler[h] EXCEPT !.next = @ + 1]
    <3>1. r.client = handler[h].client /\ r.next = handler[h].next + 1 /\ r.at = handler[h].at
      BY <2>1 DEF HandlerState
    <3>2. handler' = [handler EXCEPT ![h] = r] /\ agent' = agent
      BY <2>8 DEF SkipDuplicate
    <3> HIDE DEF r
    <3> QED
      BY <2>3, <2>4, <2>5, <3>1, <3>2
  <2>9. CASE PublishObservation(h)
    <3> DEFINE r == [handler[h] EXCEPT !.pc = "mark", !.next = @ + 1]
    <3>1. r.client = handler[h].client /\ r.next = handler[h].next + 1 /\ r.at = handler[h].at
      BY <2>1 DEF HandlerState
    <3>2. handler' = [handler EXCEPT ![h] = r] /\ agent' = agent
      BY <2>9 DEF PublishObservation
    <3> HIDE DEF r
    <3> QED
      BY <2>3, <2>4, <2>5, <3>1, <3>2
  <2> QED
    BY <1>2, <2>2, <2>6, <2>7, <2>8, <2>9 DEF HandlerStep
<1>3. CASE Exit \/ Crash
  <2>1. /\ \A h \in Slots : handler'[h].pc = "free"
        /\ agent' = agent /\ spool' = spool
    BY <1>3, RestTypes DEF Exit, Crash, ProcessGone
  <2> QED
    BY <2>1 DEF Attached
<1>4. CASE DispatchStep \/ Flush \/ FinalFlush \/ StopDispatch \/ Restart \/ Terminate \/ FinalFlushFails \/ Tick
           \/ UNCHANGED vars
  <2>1. handler' = handler /\ agent' = agent /\ spool' = spool
    BY <1>4 DEF DispatchStep, Take, Apply, Emit, NotifyFinding, Flush, FinalFlush,
       StopDispatch, Restart, Terminate, FinalFlushFails, Tick, vars
  <2> QED
    BY <2>1 DEF Attached
<1> QED
  BY <1>1, <1>2, <1>3, <1>4 DEF Next, ServerStep

\* No record grows old enough to be pruned.
LEMMA NonePruned ==
  ASSUME OrderAssumption, TypeOK, Attached, NothingPruned, NEW h \in Slots, MarkNew(h)
  PROVE  /\ forgotten' = {}
         /\ SeenIds(mem'.seen) = SeenIds(mem.seen) \cup {Current(h)}
<1> DEFINE new == [id |-> Current(h), at |-> handler[h].at]
           marked == mem.seen \cup {new}
           old == Expired(marked, handler[h].at)
<1>1. /\ mem' = [mem EXCEPT !.seen = marked \ old]
      /\ forgotten' = forgotten \cup SeenIds(old)
  BY DEF MarkNew, MarkEventSeen
<1>2. mem'.seen = marked \ old
  BY <1>1 DEF TypeOK, Store
<1>3. new.id = Current(h) /\ new.at = handler[h].at
  OBVIOUS
<1>4. handler[h].at <= MaxTime /\ handler[h].at \in Nat
  BY DEF MarkNew, Attached, TypeOK, HandlerState
<1>5. \A e \in marked : e.at \in Nat
  BY <1>3, <1>4 DEF TypeOK, Store, SeenEntry
<1> HIDE DEF new
<1>6. old = {}
  <2>1. DedupWindow \in Nat /\ MaxTime \in Nat /\ MaxTime <= DedupWindow
    BY BoundsAssumption, DedupAssumption DEF OrderAssumption
  <2>2. \A e \in marked : ~ (e.at + DedupWindow < handler[h].at)
    BY <1>4, <1>5, <2>1
  <2> HIDE DEF marked
  <2> QED
    BY <2>2 DEF Expired
<1>7. SeenIds(marked) = SeenIds(mem.seen) \cup {Current(h)}
  BY <1>3 DEF SeenIds
<1> HIDE DEF old, marked
<1> QED
  BY <1>1, <1>2, <1>6, <1>7 DEF NothingPruned, SeenIds

\* Every step keeps NothingPruned.
LEMMA PrunedStep ==
  ASSUME OrderAssumption, TypeOK, Attached, NothingPruned, [Next]_vars
  PROVE  NothingPruned'
<1>1. CASE \E a \in Agents : AgentStep(a) \/ AgentEvent(a)
  BY <1>1 DEF NothingPruned, AgentStep, AgentEvent, QuietScan, FinishFlush, Ship, ShipFails,
     ConnectionReset, Remove, Scan, ScanNotSpooled, LoadFails, ClientTimeout,
     RemoveFails, AgentCrash
<1>2. ASSUME NEW h \in Slots, HandlerStep(h) PROVE NothingPruned'
  <2>1. now' = now
    BY <1>2 DEF HandlerStep, Reject, RegisterHost, MarkNew, SkipDuplicate,
       PublishObservation, Acknowledge
  <2>2. CASE MarkNew(h)
    BY <2>1, <2>2, NonePruned DEF NothingPruned
  <2>3. CASE ~ MarkNew(h)
    BY <1>2, <2>1, <2>3 DEF NothingPruned, HandlerStep, Reject, RegisterHost, SkipDuplicate,
       PublishObservation, Acknowledge
  <2> QED
    BY <2>2, <2>3
<1>3. CASE Tick
  <2>1. now \in Nat /\ MaxTime \in Nat /\ now < MaxTime /\ now' = now + 1 /\ forgotten' = forgotten
    BY <1>3, BoundsAssumption DEF Tick, TypeOK
  <2> QED
    BY <2>1 DEF NothingPruned
<1>4. CASE DispatchStep \/ Flush \/ ServerStep \/ Terminate \/ FinalFlushFails \/ Crash \/ UNCHANGED vars
  BY <1>4 DEF NothingPruned, DispatchStep, Take, Apply, Emit, NotifyFinding, Flush, ServerStep,
     StopDispatch, FinalFlush, Exit, ProcessGone, Restart, Terminate, FinalFlushFails, Crash, vars
<1> QED
  BY <1>1, <1>2, <1>3, <1>4 DEF Next

-----------------------------------------------------------------------------
\* The batch of a handler is the oldest in the spool of its client.
LEMMA BatchIsOldest ==
  ASSUME TypeOK, Links, Files, Attached, NEW h \in Slots, handler[h].pc # "free"
  PROVE  LET b == handler[h].batch
             a == handler[h].client
         IN  /\ a \in Agents /\ b.agent = a /\ b \in Batch
             /\ b.num <= scans[a] /\ \A c \in spool[a] : b.num <= c.num
<1> DEFINE b == handler[h].batch
           a == handler[h].client
<1>1. a \in Agents
  BY DEF Attached
<1>2. agent[a].pc = "wait" /\ b \in Oldest(agent[a].todo)
  BY <1>1 DEF Links
<1>3. agent[a].todo = spool[a]
  BY <1>1, <1>2 DEF Attached
<1>4. b \in spool[a] /\ \A c \in spool[a] : b.num <= c.num
  BY <1>2, <1>3 DEF Oldest
<1> QED
  BY <1>1, <1>4 DEF Attached, Files, TypeOK

\* No two handlers are at batches of one agent.
LEMMA OneHandler ==
  ASSUME TypeOK, Links, Files, Attached, NEW g \in Slots, NEW h \in Slots, g # h,
         handler[g].pc # "free", handler[h].pc # "free"
  PROVE  Current(g).agent # Current(h).agent
<1>1. /\ handler[g].client \in Agents /\ handler[g].batch.agent = handler[g].client
      /\ handler[h].client \in Agents /\ handler[h].batch.agent = handler[h].client
  BY BatchIsOldest
<1>2. handler[g].client # handler[h].client
  BY <1>1 DEF Links
<1> QED
  BY <1>1, <1>2 DEF Current, Obs

\* What is marked comes after all that its agent has been seen to send.
LEMMA MarkedIsLast ==
  ASSUME TypeOK, Links, Files, Attached, Frontier(mem.seen), NEW h \in Slots, MarkNew(h),
         NEW o \in SeenIds(mem.seen)
  PROVE  Before(o, Current(h))
<1> DEFINE b == handler[h].batch
           n == handler[h].next
<1>1. b \in Batch /\ handler[h].client \in Agents /\ b.agent = handler[h].client
      /\ b \in spool[b.agent]
  <2>1. handler[h].pc # "free"
    BY DEF MarkNew
  <2>2. b \in Batch /\ handler[h].client \in Agents /\ b.agent = handler[h].client
    BY <2>1, BatchIsOldest
  <2>3. agent[b.agent].pc = "wait" /\ b \in Oldest(agent[b.agent].todo)
    BY <2>2 DEF Links
  <2> QED
    BY <2>2, <2>3 DEF Attached, Oldest
<1>2. n \in Nat /\ n # 0 /\ Current(h) = Obs(b, n) /\ Current(h) \notin SeenIds(mem.seen)
  BY DEF MarkNew, Attached, TypeOK, HandlerState, Current
<1>3. o \in Observation
  BY DEF TypeOK, Store, SeenEntry, SeenIds
<1> SUFFICES ASSUME o.agent = b.agent PROVE o.num < b.num \/ (o.num = b.num /\ o.idx < n)
  BY <1>2 DEF Before, Obs
<1>4. o.num <= b.num /\ o.num \in Nat /\ b.num \in Nat /\ o.idx \in Nat
  BY <1>1, <1>3 DEF Frontier, Observation, Batch
<1>5. ASSUME o.num = b.num, ~ (o.idx < n) PROVE FALSE
  <2>1. n \in 1 .. o.idx
    BY <1>2, <1>4, <1>5
  <2>2. Obs(o, n) \in SeenIds(mem.seen)
    BY <2>1 DEF Frontier
  <2>3. Obs(o, n) = Obs(b, n)
    BY <1>5 DEF Obs
  <2> QED
    BY <1>2, <2>2, <2>3
<1> QED
  BY <1>4, <1>5

\* What was seen stays within the frontier while agents scan and send.
LEMMA FrontierStays ==
  ASSUME NEW seen, Frontier(seen), SeenIds(seen) \subseteq Observation,
         \A a \in Agents : scans[a] \in Nat /\ scans[a] <= scans'[a] /\ scans'[a] \in Nat,
         \A a \in Agents : \A b \in spool'[a] : b \in spool[a] \/ b.num = scans[a] + 1
  PROVE  Frontier(seen)'
<1> SUFFICES ASSUME NEW o \in SeenIds(seen)
             PROVE  /\ o.idx # 0 /\ o.num <= scans'[o.agent]
                    /\ \A b \in spool'[o.agent] : o.num <= b.num
                    /\ \A i \in 1 .. o.idx : Obs(o, i) \in SeenIds(seen)
  BY DEF Frontier
<1>1. o.agent \in Agents /\ o.num \in Nat
  BY DEF Observation
<1>2. /\ o.idx # 0 /\ o.num <= scans[o.agent]
      /\ \A b \in spool[o.agent] : o.num <= b.num
      /\ \A i \in 1 .. o.idx : Obs(o, i) \in SeenIds(seen)
  BY DEF Frontier
<1>3. o.num <= scans'[o.agent] /\ o.num <= scans[o.agent] + 1
  BY <1>1, <1>2
<1> QED
  BY <1>1, <1>2, <1>3

\* What is marked moves the frontier of memory by one observation.
LEMMA FrontierMark ==
  ASSUME OrderAssumption, TypeOK, SeenInv, Links, Files, Attached, NothingPruned,
         Frontier(mem.seen), NEW h \in Slots, MarkNew(h)
  PROVE  Frontier(mem.seen)'
<1> DEFINE b == handler[h].batch
           n == handler[h].next
           c == Current(h)
<1>1. /\ SeenIds(mem'.seen) = SeenIds(mem.seen) \cup {c}
      /\ spool' = spool /\ scans' = scans
  BY NonePruned DEF MarkNew
<1>2. /\ b.agent \in Agents /\ b \in Batch /\ b.num <= scans[b.agent]
      /\ \A e \in spool[b.agent] : b.num <= e.num
  <2>1. handler[h].pc # "free"
    BY DEF MarkNew
  <2> QED
    BY <2>1, BatchIsOldest
<1>3. n \in Nat /\ n # 0 /\ c = Obs(b, n)
  BY DEF MarkNew, Attached, TypeOK, HandlerState, Current
<1>4. \A i \in 1 .. n - 1 : Obs(b, i) \in SeenIds(mem.seen)
  BY DEF MarkNew, SeenInv, Progress, TakenIn, NothingPruned
<1>5. c.agent = b.agent /\ c.num = b.num /\ c.idx = n
  BY <1>3 DEF Obs
<1> HIDE DEF b, n, c
<1>6. \A i \in 1 .. n : Obs(c, i) \in SeenIds(mem'.seen)
  <2> SUFFICES ASSUME NEW i \in 1 .. n PROVE Obs(c, i) \in SeenIds(mem'.seen)
    OBVIOUS
  <2>1. Obs(c, i) = Obs(b, i)
    BY <1>5 DEF Obs
  <2>2. i = n \/ i \in 1 .. n - 1
    BY <1>3
  <2> QED
    BY <1>1, <1>3, <1>4, <2>1, <2>2
<1> SUFFICES ASSUME NEW o \in SeenIds(mem'.seen)
             PROVE  /\ o.idx # 0 /\ o.num <= scans[o.agent]
                    /\ \A e \in spool[o.agent] : o.num <= e.num
                    /\ \A i \in 1 .. o.idx : Obs(o, i) \in SeenIds(mem'.seen)
  BY <1>1 DEF Frontier
<1>7. CASE o = c
  BY <1>2, <1>3, <1>5, <1>6, <1>7
<1>8. CASE o # c
  BY <1>1, <1>8 DEF Frontier
<1> QED
  BY <1>7, <1>8

\* The frontiers of memory and of the snapshot.
Frontiers == Frontier(mem.seen) /\ Frontier(disk.seen)

\* Every step keeps both frontiers.
LEMMA FrontierStep ==
  ASSUME OrderAssumption, TypeOK, SeenInv, Links, Files, Attached, NothingPruned, Frontiers,
         [Next]_vars
  PROVE  Frontiers'
<1>1. SeenIds(mem.seen) \subseteq Observation /\ SeenIds(disk.seen) \subseteq Observation
  BY DEF TypeOK, Store, SeenEntry, SeenIds
<1>2. ASSUME spool' = spool, scans' = scans, mem'.seen \in {mem.seen, disk.seen},
             disk'.seen \in {mem.seen, disk.seen}
      PROVE  Frontiers'
  BY <1>2 DEF Frontiers, Frontier
<1>3. ASSUME NEW a \in Agents, AgentStep(a) \/ AgentEvent(a) PROVE Frontiers'
  <2>1. mem' = mem /\ disk' = disk
    BY <1>3 DEF AgentStep, AgentEvent, QuietScan, FinishFlush, Ship, ShipFails,
       ConnectionReset, Remove, Scan, ScanNotSpooled, LoadFails, ClientTimeout,
       RemoveFails, AgentCrash
  <2>2. \A c \in Agents : scans[c] \in Nat
    BY DEF TypeOK
  <2>3. \A c \in Agents : scans'[c] = scans[c] \/ scans'[c] = scans[c] + 1
    BY <1>3, OtherAgents, AgentMoves, ScanAdds
  <2>4. \A c \in Agents : \A b \in spool'[c] : b \in spool[c] \/ b.num = scans[c] + 1
    BY <1>3, OtherAgents, AgentMoves, ScanAdds
  <2>5. \A c \in Agents : scans[c] \in Nat /\ scans[c] <= scans'[c] /\ scans'[c] \in Nat
    BY <2>2, <2>3
  <2>6. Frontier(mem.seen)' /\ Frontier(disk.seen)'
    BY <1>1, <2>1, <2>4, <2>5, FrontierStays DEF Frontiers, Frontier
  <2> QED
    BY <2>6 DEF Frontiers
<1>4. ASSUME NEW h \in Slots, HandlerStep(h) PROVE Frontiers'
  <2>1. spool' = spool /\ scans' = scans /\ disk' = disk
    BY <1>4 DEF HandlerStep, Reject, RegisterHost, MarkNew, SkipDuplicate,
       PublishObservation, Acknowledge
  <2>2. CASE MarkNew(h)
    <3>1. Frontier(mem.seen)'
      BY <2>2, FrontierMark DEF Frontiers
    <3>2. Frontier(disk.seen)'
      BY <2>1 DEF Frontiers, Frontier
    <3> QED
      BY <3>1, <3>2 DEF Frontiers
  <2>3. CASE ~ MarkNew(h)
    <3>1. mem'.seen = mem.seen
      BY <1>4, <2>3 DEF HandlerStep, Reject, RegisterHost, UpsertHost, SkipDuplicate,
         PublishObservation, Acknowledge, TypeOK, Store
    <3> QED
      BY <1>2, <2>1, <3>1
  <2> QED
    BY <2>2, <2>3
<1>5. CASE DispatchStep
  <2>1. spool' = spool /\ scans' = scans /\ disk' = disk /\ mem'.seen = mem.seen
    BY <1>5 DEF DispatchStep, Take, Apply, Emit, NotifyFinding, TypeOK, Store
  <2> QED
    BY <1>2, <2>1
<1>6. CASE Flush \/ ServerStep \/ Terminate \/ FinalFlushFails \/ Crash \/ Tick \/ UNCHANGED vars
  <2>1. /\ spool' = spool /\ scans' = scans
        /\ mem' \in {mem, disk} /\ disk' \in {mem, disk}
    BY <1>6 DEF Flush, ServerStep, StopDispatch, FinalFlush, Exit, ProcessGone, Restart,
       Terminate, FinalFlushFails, Crash, Tick, vars
  <2> QED
    BY <1>2, <2>1
<1> QED
  BY <1>3, <1>4, <1>5, <1>6 DEF Next

-----------------------------------------------------------------------------
\* What is published has been seen.
LEMMA PublishedIsSeen ==
  ASSUME SeenInv, NothingPruned, NEW o, Published(o)
  PROVE  o \in SeenIds(mem.seen)
<1>1. CASE Queued(o)
  BY <1>1 DEF Queued, SeenInv, SettledQueue, Settled, TakenIn, NothingPruned
<1>2. CASE InHand(o)
  BY <1>2 DEF InHand, SeenInv, SettledInHand, Settled, TakenIn, NothingPruned
<1>3. CASE o \in Elements(mem.log)
  BY <1>3 DEF SeenInv, StoresClosed, Closed, NothingPruned
<1> QED
  BY <1>1, <1>2, <1>3 DEF Published

\* A step that leaves the logs and the queue alone, and gives neither the
\* dispatcher nor a handler anything new.
LEMMA LineFrame ==
  ASSUME LineInOrder, mem'.log = mem.log, disk'.log \in {mem.log, disk.log}, bus' = bus,
         \A o : InHand(o)' => InHand(o), \A o : Publishing(o)' => Publishing(o)
  PROVE  LineInOrder'
<1>1. \A o : Queued(o)' <=> Queued(o)
  BY DEF Queued
<1>2. InOrder(mem.log)' /\ InOrder(disk.log)' /\ QueueInOrder'
  BY DEF LineInOrder, InOrder, QueueInOrder
<1>3. \A o : Published(o)' => Published(o)
  BY <1>1 DEF Published, Elements
<1>4. Elements(mem.log)' = Elements(mem.log)
  BY DEF Elements
<1>5. /\ \A o \in Elements(mem.log)' : \A p : InHand(p)' \/ Queued(p)' => Before(o, p)
      /\ \A o, p : InHand(o)' /\ Queued(p)' => Before(o, p)
      /\ \A o, p : Published(o)' /\ Publishing(p)' => Before(o, p)
  BY <1>1, <1>3, <1>4 DEF LineInOrder
<1> QED
  BY <1>2, <1>5 DEF LineInOrder

\* What a handler marks comes after all that was published.
LEMMA LineMark ==
  ASSUME OrderAssumption, TypeOK, SeenInv, Links, Files, Attached, NothingPruned, Frontiers,
         LineInOrder, NEW h \in Slots, MarkNew(h)
  PROVE  LineInOrder'
<1>1. mem'.log = mem.log /\ disk' = disk /\ bus' = bus /\ disp' = disp
  BY MarkAdds DEF MarkNew
<1>2. \A o : (Queued(o)' <=> Queued(o)) /\ (InHand(o)' <=> InHand(o))
  BY <1>1 DEF Queued, InHand
<1>3. InOrder(mem.log)' /\ InOrder(disk.log)' /\ QueueInOrder'
  BY <1>1 DEF LineInOrder, InOrder, QueueInOrder
<1>4. Elements(mem.log)' = Elements(mem.log)
  BY <1>1 DEF Elements
<1>5. \A o : Published(o)' <=> Published(o)
  BY <1>2, <1>4 DEF Published
<1>6. \A p : Publishing(p)' => Publishing(p) \/ p = Current(h)
  BY HandlerPublishes DEF HandlerStep
<1>7. \A o : Published(o) => Before(o, Current(h))
  BY PublishedIsSeen, MarkedIsLast DEF Frontiers
<1>8. /\ \A o \in Elements(mem.log)' : \A p : InHand(p)' \/ Queued(p)' => Before(o, p)
      /\ \A o, p : InHand(o)' /\ Queued(p)' => Before(o, p)
      /\ \A o, p : Published(o)' /\ Publishing(p)' => Before(o, p)
  BY <1>2, <1>4, <1>5, <1>6, <1>7 DEF LineInOrder
<1> QED
  BY <1>3, <1>8 DEF LineInOrder

\* What is put at the end of the queue comes after what is in it.
LEMMA QueueOrderGrows ==
  ASSUME TypeOK, QueueInOrder, NEW ev, Publish(ev),
         ev.type = "observation" => \A o : Queued(o) => Before(o, ev.obs)
  PROVE  QueueInOrder'
<1>1. bus \in Seq(Event) /\ Len(bus) \in Nat /\ DOMAIN bus = 1 .. Len(bus)
  BY DEF TypeOK
<1>2. CASE Len(bus) < BusCap
  <2>1. bus' = Append(bus, ev)
    BY <1>2 DEF Publish
  <2>2. /\ DOMAIN bus' = DOMAIN bus \cup {Len(bus) + 1}
        /\ \A i \in DOMAIN bus : bus'[i] = bus[i]
        /\ bus'[Len(bus) + 1] = ev
    BY <1>1, <2>1
  <2> SUFFICES ASSUME NEW i \in DOMAIN bus', NEW j \in DOMAIN bus', i < j,
                      bus'[i].type = "observation", bus'[j].type = "observation"
               PROVE  Before(bus'[i].obs, bus'[j].obs)
    BY DEF QueueInOrder
  <2>3. i \in DOMAIN bus
    BY <1>1, <2>2
  <2>4. CASE j \in DOMAIN bus
    BY <2>2, <2>3, <2>4 DEF QueueInOrder
  <2>5. CASE j = Len(bus) + 1
    <3>1. Queued(bus[i].obs)
      BY <2>2, <2>3 DEF Queued
    <3> QED
      BY <2>2, <2>3, <2>5, <3>1
  <2> QED
    BY <2>2, <2>4, <2>5
<1>3. CASE ~ (Len(bus) < BusCap)
  BY <1>3 DEF Publish, QueueInOrder
<1> QED
  BY <1>2, <1>3

\* A handler publishes what comes after all that was published before.
LEMMA LinePublish ==
  ASSUME TypeOK, Links, Files, Attached, LineInOrder, NEW h \in Slots, PublishObservation(h)
  PROVE  LineInOrder'
<1> DEFINE c == Current(h)
           ev == [type |-> "observation", obs |-> c]
<1>1. mem' = mem /\ disk' = disk /\ disp' = disp /\ Publish(ev) /\ handler[h].pc = "publish"
  BY DEF PublishObservation
<1>2. ev.type = "observation" /\ ev.obs = c
  OBVIOUS
<1>3. Publishing(c)
  BY <1>1 DEF Publishing
<1>4. \A o : Published(o) => Before(o, c)
  BY <1>3 DEF LineInOrder
<1>5. \A p : Publishing(p)' => Publishing(p) /\ Before(c, p)
  <2>1. handler' = [handler EXCEPT ![h] = [handler[h] EXCEPT !.pc = "mark", !.next = @ + 1]]
    BY DEF PublishObservation
  <2>2. [handler[h] EXCEPT !.pc = "mark", !.next = @ + 1].pc = "mark"
    BY DEF TypeOK, HandlerState
  <2>3. handler'[h].pc = "mark" /\ \A g \in Slots : g # h => handler'[g] = handler[g]
    BY <2>1, <2>2 DEF TypeOK
  <2> SUFFICES ASSUME NEW p, Publishing(p)' PROVE Publishing(p) /\ Before(c, p)
    OBVIOUS
  <2>4. PICK g \in Slots : handler'[g].pc = "publish" /\ Current(g)' = p
    BY DEF Publishing
  <2>5. g # h /\ handler[g].pc = "publish" /\ Current(g) = p
    BY <2>3, <2>4 DEF Current
  <2>6. Current(g).agent # Current(h).agent
    BY <1>1, <2>5, OneHandler
  <2> QED
    BY <2>5, <2>6 DEF Publishing, Before
<1> HIDE DEF ev, c
<1>6. \A o : Queued(o)' => Queued(o) \/ o = c
  BY <1>1, <1>2, PublishQueues
<1>7. QueueInOrder'
  BY <1>1, <1>2, <1>4, QueueOrderGrows DEF LineInOrder, Published
<1>8. \A o : InHand(o)' <=> InHand(o)
  BY <1>1 DEF InHand
<1>9. Elements(mem.log)' = Elements(mem.log) /\ InOrder(mem.log)' /\ InOrder(disk.log)'
  BY <1>1 DEF Elements, LineInOrder, InOrder
<1>10. \A o : Published(o)' => Published(o) \/ o = c
  BY <1>6, <1>8, <1>9 DEF Published
<1>11. \A o \in Elements(mem.log)' : \A p : InHand(p)' \/ Queued(p)' => Before(o, p)
  BY <1>4, <1>6, <1>8, <1>9 DEF LineInOrder, Published
<1>12. \A o, p : InHand(o)' /\ Queued(p)' => Before(o, p)
  BY <1>4, <1>6, <1>8 DEF LineInOrder, Published
<1>13. \A o, p : Published(o)' /\ Publishing(p)' => Before(o, p)
  BY <1>5, <1>10 DEF LineInOrder
<1> QED
  BY <1>7, <1>9, <1>11, <1>12, <1>13 DEF LineInOrder

\* The dispatcher takes what comes before the rest of the queue.
LEMMA LineTake ==
  ASSUME TypeOK, LineInOrder, Take
  PROVE  LineInOrder'
<1>1. mem' = mem /\ disk' = disk /\ handler' = handler
  BY DEF Take
<1>2. bus \in Seq(Event) /\ bus # << >> /\ disp'.pc = "busy" /\ disp'.ev = Head(bus) /\ bus' = Tail(bus)
  BY DEF Take, TypeOK
<1>3. /\ 1 \in DOMAIN bus /\ disp'.ev = bus[1]
      /\ \A i \in DOMAIN bus' : i \in Nat /\ 1 < i + 1 /\ i + 1 \in DOMAIN bus /\ bus'[i] = bus[i + 1]
  BY <1>2
<1>4. QueueInOrder'
  <2> SUFFICES ASSUME NEW i \in DOMAIN bus', NEW j \in DOMAIN bus', i < j,
                      bus'[i].type = "observation", bus'[j].type = "observation"
               PROVE  Before(bus'[i].obs, bus'[j].obs)
    BY DEF QueueInOrder
  <2>1. i + 1 < j + 1 /\ i + 1 \in DOMAIN bus /\ j + 1 \in DOMAIN bus
    BY <1>3
  <2> QED
    BY <1>3, <2>1 DEF LineInOrder, QueueInOrder
<1>5. \A o : Queued(o)' \/ InHand(o)' => Queued(o)
  BY TakeMoves
<1>6. \A o, p : InHand(o)' /\ Queued(p)' => Before(o, p)
  <2> SUFFICES ASSUME NEW o, NEW p, InHand(o)', Queued(p)' PROVE Before(o, p)
    OBVIOUS
  <2>1. bus[1].type = "observation" /\ bus[1].obs = o
    BY <1>3 DEF InHand
  <2>2. PICK i \in DOMAIN bus' : bus'[i].type = "observation" /\ bus'[i].obs = p
    BY DEF Queued
  <2>3. 1 < i + 1 /\ i + 1 \in DOMAIN bus /\ bus[i + 1].type = "observation" /\ bus[i + 1].obs = p
    BY <1>3, <2>2
  <2> QED
    BY <1>3, <2>1, <2>3 DEF LineInOrder, QueueInOrder
<1>7. \A o : (Publishing(o)' <=> Publishing(o)) /\ (Published(o)' => Published(o))
  BY <1>1, <1>5 DEF Publishing, Current, Published, Elements
<1>8. Elements(mem.log)' = Elements(mem.log) /\ InOrder(mem.log)' /\ InOrder(disk.log)'
  BY <1>1 DEF Elements, LineInOrder, InOrder
<1>9. /\ \A o \in Elements(mem.log)' : \A p : InHand(p)' \/ Queued(p)' => Before(o, p)
      /\ \A o, p : Published(o)' /\ Publishing(p)' => Before(o, p)
  BY <1>5, <1>7, <1>8 DEF LineInOrder
<1> QED
  BY <1>4, <1>6, <1>8, <1>9 DEF LineInOrder

\* What the dispatcher applies comes after all that was applied.
LEMMA LineApply ==
  ASSUME TypeOK, LineInOrder, Apply
  PROVE  LineInOrder'
<1> DEFINE d == disp.ev.obs
<1>1. disk' = disk /\ handler' = handler /\ bus' = bus
  BY DEF Apply
<1>2. /\ mem.log \in Seq(Observation) /\ mem'.log = Append(mem.log, d) /\ d \in Observation
  BY DEF Apply, TypeOK, Store, Event
<1>3. Elements(mem'.log) = Elements(mem.log) \cup {d} /\ InHand(d) /\ \A o : ~ InHand(o)'
  BY ApplyMoves
<1> HIDE DEF d
<1>4. InOrder(mem'.log)
  <2>1. /\ DOMAIN mem'.log = DOMAIN mem.log \cup {Len(mem.log) + 1}
        /\ \A i \in DOMAIN mem.log : mem'.log[i] = mem.log[i]
        /\ mem'.log[Len(mem.log) + 1] = d
        /\ DOMAIN mem.log = 1 .. Len(mem.log) /\ Len(mem.log) \in Nat
    BY <1>2
  <2> SUFFICES ASSUME NEW i \in DOMAIN mem'.log, NEW j \in DOMAIN mem'.log, i < j
               PROVE  Before(mem'.log[i], mem'.log[j])
    BY DEF InOrder
  <2>2. i \in DOMAIN mem.log
    BY <2>1
  <2>3. CASE j \in DOMAIN mem.log
    BY <2>1, <2>2, <2>3 DEF LineInOrder, InOrder
  <2>4. CASE j = Len(mem.log) + 1
    <3>1. mem.log[i] \in Elements(mem.log)
      BY <2>2 DEF Elements
    <3> QED
      BY <1>3, <2>1, <2>2, <2>4, <3>1 DEF LineInOrder
  <2> QED
    BY <2>1, <2>3, <2>4
<1>5. InOrder(disk.log)' /\ QueueInOrder'
  BY <1>1 DEF LineInOrder, InOrder, QueueInOrder
<1>6. \A o : (Queued(o)' <=> Queued(o)) /\ (Publishing(o)' <=> Publishing(o))
  BY <1>1 DEF Queued, Publishing, Current
<1>7. \A o : Published(o)' => Published(o)
  BY <1>3, <1>6 DEF Published
<1>8. /\ \A o \in Elements(mem'.log) : \A p : InHand(p)' \/ Queued(p)' => Before(o, p)
      /\ \A o, p : InHand(o)' /\ Queued(p)' => Before(o, p)
      /\ \A o, p : Published(o)' /\ Publishing(p)' => Before(o, p)
  BY <1>3, <1>6, <1>7 DEF LineInOrder
<1> QED
  BY <1>4, <1>5, <1>8 DEF LineInOrder

\* A finding in the queue changes nothing about the observations in it.
LEMMA LineEmit ==
  ASSUME TypeOK, LineInOrder, Emit
  PROVE  LineInOrder'
<1> DEFINE ev == [type |-> "finding", obs |-> disp.ev.obs]
<1>1. mem' = mem /\ disk' = disk /\ handler' = handler /\ Publish(ev) /\ \A o : ~ InHand(o)'
  BY DEF Emit, Waiting, InHand, TypeOK, DispState
<1>2. ev.type # "observation"
  OBVIOUS
<1> HIDE DEF ev
<1>3. QueueInOrder'
  BY <1>1, <1>2, QueueOrderGrows DEF LineInOrder
<1>4. \A o : Queued(o)' => Queued(o)
  BY <1>1, <1>2, PublishQueues
<1>5. Elements(mem.log)' = Elements(mem.log) /\ InOrder(mem.log)' /\ InOrder(disk.log)'
  BY <1>1 DEF Elements, LineInOrder, InOrder
<1>6. \A o : (Publishing(o)' <=> Publishing(o)) /\ (Published(o)' => Published(o))
  BY <1>1, <1>4, <1>5 DEF Publishing, Current, Published
<1>7. /\ \A o \in Elements(mem.log)' : \A p : InHand(p)' \/ Queued(p)' => Before(o, p)
      /\ \A o, p : InHand(o)' /\ Queued(p)' => Before(o, p)
      /\ \A o, p : Published(o)' /\ Publishing(p)' => Before(o, p)
  BY <1>1, <1>4, <1>5, <1>6 DEF LineInOrder
<1> QED
  BY <1>3, <1>5, <1>7 DEF LineInOrder

\* A process that is gone leaves the log of the snapshot, and nothing else.
LEMMA LineGone ==
  ASSUME LineInOrder, ProcessGone
  PROVE  LineInOrder'
<1>1. /\ mem' = disk /\ disk' = disk /\ bus' = << >>
      /\ disp'.pc # "busy" /\ \A h \in Slots : handler'[h].pc # "publish"
  BY DEF ProcessGone, Waiting, Free
<1>2. \A o : ~ Queued(o)' /\ ~ InHand(o)' /\ ~ Publishing(o)'
  BY <1>1 DEF Queued, InHand, Publishing
<1>3. InOrder(mem.log)' /\ InOrder(disk.log)' /\ QueueInOrder'
  BY <1>1 DEF LineInOrder, InOrder, QueueInOrder
<1> QED
  BY <1>2, <1>3 DEF LineInOrder

\* Every step keeps LineInOrder.
LEMMA LineStep ==
  ASSUME OrderAssumption, TypeOK, SeenInv, Links, Files, Attached, NothingPruned, Frontiers,
         LineInOrder, [Next]_vars
  PROVE  LineInOrder'
<1>1. ASSUME NEW a \in Agents, AgentStep(a) \/ AgentEvent(a) PROVE LineInOrder'
  <2>1. mem' = mem /\ disk' = disk /\ bus' = bus /\ disp' = disp
    BY <1>1 DEF AgentStep, AgentEvent, QuietScan, FinishFlush, Ship, ShipFails,
       ConnectionReset, Remove, Scan, ScanNotSpooled, LoadFails, ClientTimeout,
       RemoveFails, AgentCrash
  <2>2. \A o : Publishing(o)' => Publishing(o)
    BY <1>1, AgentsLeavePublishing
  <2>3. \A o : InHand(o)' => InHand(o)
    BY <2>1 DEF InHand
  <2> QED
    BY <2>1, <2>2, <2>3, LineFrame
<1>2. ASSUME NEW h \in Slots, HandlerStep(h) PROVE LineInOrder'
  <2>1. CASE ~ MarkNew(h) /\ ~ PublishObservation(h)
    <3>1. mem'.log = mem.log /\ disk' = disk /\ bus' = bus /\ disp' = disp
      BY <1>2, <2>1 DEF HandlerStep, Reject, RegisterHost, UpsertHost, SkipDuplicate,
         Acknowledge, TypeOK, Store
    <3>2. \A o : Publishing(o)' => Publishing(o)
      BY <1>2, <2>1, HandlerPublishes
    <3>3. \A o : InHand(o)' => InHand(o)
      BY <3>1 DEF InHand
    <3> QED
      BY <3>1, <3>2, <3>3, LineFrame
  <2> QED
    BY <2>1, LineMark, LinePublish
<1>3. CASE DispatchStep
  <2>1. CASE NotifyFinding
    <3>1. mem' = mem /\ disk' = disk /\ bus' = bus /\ handler' = handler
      BY <2>1 DEF NotifyFinding
    <3>2. \A o : ~ InHand(o)'
      BY <2>1 DEF NotifyFinding, InHand, Waiting
    <3>3. \A o : Publishing(o)' => Publishing(o)
      BY <3>1 DEF Publishing, Current
    <3> QED
      BY <3>1, <3>2, <3>3, LineFrame
  <2> QED
    BY <1>3, <2>1, LineTake, LineApply, LineEmit DEF DispatchStep
<1>4. CASE Flush \/ FinalFlush \/ StopDispatch \/ Restart \/ Terminate \/ FinalFlushFails \/ Tick \/ UNCHANGED vars
  <2>1. /\ mem' = mem /\ disk' \in {mem, disk} /\ bus' = bus /\ handler' = handler
        /\ disp' = disp \/ disp'.pc # "busy"
    BY <1>4 DEF Flush, FinalFlush, StopDispatch, Waiting, Restart, Terminate, FinalFlushFails, Tick, vars
  <2>2. \A o : (InHand(o)' => InHand(o)) /\ (Publishing(o)' => Publishing(o))
    BY <2>1 DEF InHand, Publishing, Current
  <2> QED
    BY <2>1, <2>2, LineFrame
<1>5. CASE Exit \/ Crash
  BY <1>5, LineGone DEF Exit, Crash
<1> QED
  BY <1>1, <1>2, <1>3, <1>4, <1>5 DEF Next, ServerStep

\* The observations of one agent are applied in the order it collected them,
\* whatever crashes, restarts, refusals and full queues come in between.
THEOREM AppliedInOrderAlways ==
  ASSUME OrderAssumption
  PROVE  Spec => []AppliedInOrder
<1> DEFINE Known == TypeOK /\ SeenInv /\ Links /\ Files
           Inv == LineInOrder /\ Frontiers /\ Attached /\ NothingPruned
<1>1. Init => Links /\ Files /\ Inv
  <2> SUFFICES ASSUME Init PROVE Links /\ Files /\ Inv
    OBVIOUS
  <2>1. Links /\ Files
    BY AgentsAssumption DEF Init, Links, Files, Distinct, Free, Idle
  <2>2. Attached
    BY RestTypes DEF Init, Attached, Idle
  <2>3. Frontiers /\ NothingPruned
    BY BoundsAssumption DEF Init, Frontiers, Frontier, EmptyStore, SeenIds, NothingPruned
  <2>4. \A o : ~ Queued(o) /\ ~ InHand(o) /\ ~ Publishing(o)
    BY RestTypes DEF Init, Queued, InHand, Publishing
  <2>5. LineInOrder
    BY <2>4 DEF Init, LineInOrder, InOrder, QueueInOrder, EmptyStore
  <2> QED
    BY <2>1, <2>2, <2>3, <2>5
<1>2. Known /\ Inv /\ [Next]_vars => Links' /\ Files' /\ Inv'
  BY LinksStep, FilesStep, LineStep, FrontierStep, AttachedStep, PrunedStep
<1>3. Inv => AppliedInOrder
  BY DEF LineInOrder, InOrder, Before, AppliedInOrder
<1> HIDE DEF Inv
<1> QED
  BY <1>1, <1>2, <1>3, SeenAlways, PTL DEF Spec

-----------------------------------------------------------------------------
(***************************************************************************)
(* The proof that a spool holds the latest batches of its agent, without a *)
(* gap, as long as its directory can be read and written.  The loop        *)
(* removes what it has listed from the oldest on, and its listing is the   *)
(* whole spool, since only the loop itself adds to it.                     *)
(***************************************************************************)
TailAssumption == "disk" \notin FaultKinds

\* An agent that flushes has all of its spool before it.
AllListed == \A a \in Agents : agent[a].pc # "idle" => agent[a].todo = spool[a]

SpoolsFinite == \A a \in Agents : IsFiniteSet(spool[a])

\* What a trim keeps it keeps with everything later.
LEMMA TrimKeepsLater ==
  ASSUME NEW files, IsFiniteSet(files), \A b \in files : b.num \in Nat,
         NEW b \in Trim(files), NEW c \in files, b.num <= c.num
  PROVE  c \in Trim(files)
<1> DEFINE B == {d \in files : d.num > b.num}
           C == {d \in files : d.num > c.num}
<1>1. b \in files /\ Cardinality(B) < SpoolCap
  BY DEF Trim
<1>2. C \in SUBSET B
  BY <1>1
<1>3. IsFiniteSet(B) /\ B \subseteq files
  BY FS_Subset
<1> HIDE DEF B
<1>4. Cardinality(C) <= Cardinality(B) /\ IsFiniteSet(C)
  BY <1>2, <1>3, FS_Subset
<1>5. Cardinality(C) \in Nat /\ Cardinality(B) \in Nat /\ SpoolCap \in Nat
  BY <1>3, <1>4, FS_CardinalityType, BoundsAssumption
<1>6. Cardinality(C) < SpoolCap
  BY <1>1, <1>4, <1>5
<1> QED
  BY <1>6 DEF Trim

\* A scan puts a batch behind the others and trims from the front.
LEMMA TailScan ==
  ASSUME TypeOK, Files, SpoolIsTail, SpoolsFinite, NEW a \in Agents, Scan(a)
  PROVE  /\ \A b \in spool'[a] : \A n \in b.num .. scans'[a] :
              \E c \in spool'[a] : c.num = n
         /\ IsFiniteSet(spool'[a])
<1>1. PICK size \in BatchSizes, ok \in Validity :
        spool' = [spool EXCEPT ![a] =
          Trim(@ \cup {[agent |-> a, num |-> scans[a] + 1, size |-> size, valid |-> ok]})]
  BY DEF Scan
<1> DEFINE new == [agent |-> a, num |-> scans[a] + 1, size |-> size, valid |-> ok]
           files == spool[a] \cup {new}
<1>2. spool'[a] = Trim(files) /\ new.num = scans[a] + 1 /\ scans'[a] = scans[a] + 1
  BY <1>1 DEF Scan, TypeOK
<1>3. /\ \A b \in spool[a] : b.num \in Nat /\ b.num <= scans[a]
      /\ scans[a] \in Nat
  BY DEF TypeOK, Files, Batch
<1> HIDE DEF new
<1>4. IsFiniteSet(files)
  BY FS_AddElement DEF SpoolsFinite
<1>5. \A b \in files : b.num \in Nat
  BY <1>2, <1>3
<1>6. Trim(files) \subseteq files /\ IsFiniteSet(Trim(files))
  <2>1. Trim(files) \in SUBSET files
    BY DEF Trim
  <2> HIDE DEF files
  <2> QED
    BY <1>4, <2>1, FS_Subset
<1>7. ASSUME NEW b \in Trim(files), NEW n \in b.num .. scans'[a]
      PROVE  \E c \in Trim(files) : c.num = n
  <2>1. b \in files /\ b.num \in Nat /\ n \in Nat /\ b.num <= n /\ n <= scans[a] + 1
    <3>1. b \in files /\ b.num \in Nat
      BY <1>5, <1>6
    <3>2. n \in b.num .. (scans[a] + 1)
      BY <1>2
    <3> HIDE DEF files
    <3> QED
      BY <1>3, <3>1, <3>2
  <2>2. \E c \in files : c.num = n
    <3>1. CASE n = scans[a] + 1
      BY <1>2, <3>1
    <3>2. CASE n # scans[a] + 1
      <4>1. n <= scans[a] /\ b # new
        BY <1>2, <1>3, <2>1, <3>2
      <4> QED
        BY <1>3, <2>1, <4>1 DEF SpoolIsTail
    <3> QED
      BY <3>1, <3>2
  <2> HIDE DEF files
  <2> QED
    BY <1>4, <1>5, <2>1, <2>2, TrimKeepsLater
<1> QED
  BY <1>2, <1>6, <1>7

\* What is removed after an acknowledgement is the oldest of the whole spool.
LEMMA TailRemove ==
  ASSUME TypeOK, Files, SpoolIsTail, SpoolsFinite, AllListed, NEW a \in Agents, Remove(a)
  PROVE  /\ \A b \in spool'[a] : \A n \in b.num .. scans'[a] :
              \E c \in spool'[a] : c.num = n
         /\ IsFiniteSet(spool'[a])
         /\ agent'[a].todo = spool'[a]
<1>1. PICK b \in Oldest(agent[a].todo) :
        /\ spool' = [spool EXCEPT ![a] = @ \ {b}]
        /\ agent' = [agent EXCEPT ![a] = [pc |-> "flush", todo |-> @.todo \ {b}]]
  BY DEF Remove
<1>2. agent[a].todo = spool[a] /\ scans' = scans
  BY DEF Remove, AllListed
<1>3. spool'[a] = spool[a] \ {b} /\ agent'[a].todo = agent[a].todo \ {b}
  BY <1>1 DEF TypeOK
<1>4. IsFiniteSet(spool'[a])
  BY <1>3, FS_RemoveElement DEF SpoolsFinite
<1>5. ASSUME NEW d \in spool'[a], NEW n \in d.num .. scans'[a]
      PROVE  \E c \in spool'[a] : c.num = n
  <2>1. d \in spool[a] /\ d # b /\ b \in spool[a] /\ b.num <= d.num
    BY <1>1, <1>2, <1>3 DEF Oldest
  <2>2. PICK c \in spool[a] : c.num = n
    BY <1>2, <2>1 DEF SpoolIsTail
  <2>3. d.num \in Nat /\ b.num \in Nat /\ n \in Nat /\ d.num <= n
    BY <1>2, <1>5, <2>1 DEF TypeOK, Batch
  <2>4. c # b
    <3>1. ASSUME c = b PROVE FALSE
      <4>1. b.num = d.num
        BY <2>1, <2>2, <2>3, <3>1
      <4> QED
        BY <2>1, <4>1 DEF Files, Distinct
    <3> QED
      BY <3>1
  <2> QED
    BY <1>3, <2>2, <2>4
<1> QED
  BY <1>2, <1>3, <1>4, <1>5

\* Every step keeps the spools without a gap.
LEMMA TailStep ==
  ASSUME TailAssumption, TypeOK, Links, Files, SpoolIsTail, SpoolsFinite, AllListed, [Next]_vars
  PROVE  SpoolIsTail' /\ SpoolsFinite' /\ AllListed'
<1>1. ASSUME spool' = spool, scans' = scans
      PROVE  SpoolIsTail' /\ SpoolsFinite'
  BY <1>1 DEF SpoolIsTail, SpoolsFinite
<1>2. ASSUME NEW a \in Agents, AgentStep(a) \/ AgentEvent(a)
      PROVE  SpoolIsTail' /\ SpoolsFinite' /\ AllListed'
  <2>1. \A c \in Agents : c # a =>
          agent'[c] = agent[c] /\ spool'[c] = spool[c] /\ scans'[c] = scans[c]
    BY <1>2, OtherAgents
  <2> SUFFICES /\ \A b \in spool'[a] : \A n \in b.num .. scans'[a] :
                    \E c \in spool'[a] : c.num = n
               /\ IsFiniteSet(spool'[a])
               /\ agent'[a].pc # "idle" => agent'[a].todo = spool'[a]
    <3>1. SpoolIsTail'
      BY <2>1 DEF SpoolIsTail
    <3>2. SpoolsFinite' /\ AllListed'
      BY <2>1 DEF SpoolsFinite, AllListed
    <3> QED
      BY <3>1, <3>2
  <2>2. ~ (ScanNotSpooled(a) \/ LoadFails(a) \/ RemoveFails(a))
    BY DEF TailAssumption, ScanNotSpooled, LoadFails, RemoveFails, Fault
  <2>3. CASE Scan(a)
    <3>1. agent'[a].todo = spool'[a]
      BY <2>3, ScanAdds
    <3> QED
      BY <2>3, <3>1, TailScan
  <2>4. CASE Remove(a)
    BY <2>4, TailRemove
  <2>5. CASE ~ (Scan(a) \/ Remove(a))
    <3>1. spool' = spool /\ scans' = scans
      BY <1>2, <2>2, <2>5 DEF AgentStep, AgentEvent, QuietScan, FinishFlush, Ship, ShipFails,
         ConnectionReset, ClientTimeout, AgentCrash
    <3>2. agent'[a].pc # "idle" => agent'[a].todo = spool'[a]
      <4>1. CASE QuietScan(a)
        BY <4>1 DEF QuietScan, StartFlush, TypeOK
      <4>2. CASE Ship(a)
        <5>1. agent'[a].todo = agent[a].todo /\ agent[a].pc = "flush"
          BY <4>2 DEF Ship, TypeOK, AgentState
        <5> QED
          BY <3>1, <5>1 DEF AllListed
      <4>3. CASE ~ (QuietScan(a) \/ Ship(a))
        <5>1. agent' = [agent EXCEPT ![a] = Idle]
          BY <1>2, <2>2, <2>5, <4>3 DEF AgentStep, AgentEvent, FinishFlush, ShipFails,
             ConnectionReset, ClientTimeout, AgentCrash
        <5> QED
          BY <5>1 DEF TypeOK, Idle
      <4> QED
        BY <4>1, <4>2, <4>3
    <3>3. SpoolIsTail' /\ SpoolsFinite'
      BY <1>1, <3>1
    <3> QED
      BY <3>2, <3>3 DEF SpoolIsTail, SpoolsFinite
  <2> QED
    BY <2>3, <2>4, <2>5
<1>3. ASSUME NEW h \in Slots, HandlerStep(h)
      PROVE  SpoolIsTail' /\ SpoolsFinite' /\ AllListed'
  <2>1. spool' = spool /\ scans' = scans
    BY <1>3 DEF HandlerStep, Reject, RegisterHost, MarkNew, SkipDuplicate,
       PublishObservation, Acknowledge
  <2>2. AllListed'
    <3>1. CASE Reject(h) \/ Acknowledge(h)
      <4>1. PICK pc : Reply(h, pc)
        BY <3>1 DEF Reject, Acknowledge
      <4>2. \A a \in Agents : [agent[a] EXCEPT !.pc = pc].todo = agent[a].todo
        BY DEF TypeOK, AgentState
      <4>3. \A a \in Agents : a = handler[h].client =>
              agent'[a] = Idle \/ agent'[a] = [agent[a] EXCEPT !.pc = pc]
        BY <4>1, Zenon DEF Reply
      <4>4. \A a \in Agents : a # handler[h].client => agent'[a] = agent[a]
        BY <4>1 DEF Reply
      <4>5. handler[h].client \in Agents => agent[handler[h].client].pc = "wait"
        BY DEF Links
      <4>6. Idle.pc = "idle"
        BY DEF Idle
      <4> QED
        BY <2>1, <4>2, <4>3, <4>4, <4>5, <4>6 DEF AllListed
    <3>2. CASE agent' = agent
      BY <2>1, <3>2 DEF AllListed
    <3> QED
      BY <1>3, <3>1, <3>2 DEF HandlerStep, RegisterHost, MarkNew, SkipDuplicate,
         PublishObservation
  <2> QED
    BY <1>1, <2>1, <2>2
<1>4. CASE DispatchStep \/ Flush \/ ServerStep \/ Terminate \/ FinalFlushFails \/ Crash \/ Tick
           \/ UNCHANGED vars
  <2>1. spool' = spool /\ scans' = scans /\ agent' = agent
    BY <1>4 DEF DispatchStep, Take, Apply, Emit, NotifyFinding, Flush, ServerStep,
       StopDispatch, FinalFlush, Exit, ProcessGone, Restart, Terminate, FinalFlushFails, Crash,
       Tick, vars
  <2> QED
    BY <1>1, <2>1 DEF AllListed
<1> QED
  BY <1>2, <1>3, <1>4 DEF Next

\* A spool holds the latest batches of its agent without a gap, whatever is
\* refused, times out, crashes or overflows: what a full spool gives up is the
\* oldest, and a flush delivers nothing before what was collected earlier.
THEOREM SpoolIsTailAlways ==
  ASSUME TailAssumption
  PROVE  Spec => []SpoolIsTail
<1> DEFINE Inv == SpoolIsTail /\ SpoolsFinite /\ AllListed
<1>1. Init => Links /\ Files /\ Inv
  <2> SUFFICES ASSUME Init PROVE Links /\ Files /\ Inv
    OBVIOUS
  <2>1. Links /\ Files
    BY AgentsAssumption DEF Init, Links, Files, Distinct, Free, Idle
  <2>2. SpoolIsTail /\ SpoolsFinite /\ AllListed
    BY FS_EmptySet DEF Init, SpoolIsTail, SpoolsFinite, AllListed, Idle
  <2> QED
    BY <2>1, <2>2
<1>2. TypeOK /\ Links /\ Files /\ Inv /\ [Next]_vars => Links' /\ Files' /\ Inv'
  BY LinksStep, FilesStep, TailStep
<1>3. Inv => SpoolIsTail
  OBVIOUS
<1> HIDE DEF Inv
<1> QED
  BY <1>1, <1>2, <1>3, TypeCorrect, PTL DEF Spec

=============================================================================
