---------------------------- MODULE ServerProofs ----------------------------
(***************************************************************************)
(* What the server keeps and shows: the store, its snapshot and the        *)
(* reports (ReportSnapshot), the audit trail (AuditTrail), and the text of *)
(* the report (ReportText).                                                *)
(***************************************************************************)
EXTENDS RiskProofs

-----------------------------------------------------------------------------
(***************************************************************************)
(* For any hosts and instances and any number of crashes: the store and    *)
(* its snapshot are closed, reports and documents show what the containers *)
(* they show reach, and a report misses at most one finding, and one more  *)
(* for each crash.                                                         *)
(*                                                                         *)
(* The invariant follows the one instance the dispatcher is at.  Every     *)
(* other instance in the store without a finding was left behind by a      *)
(* crash, so that there are at most as many as crashes; and once a report  *)
(* has read the instances, findings are only added.                        *)
(***************************************************************************)

\* The instances without a finding.
Missing(s) == s.inst \ s.find

\* The dispatcher is at one instance, whose host is registered; it is in the
\* store from UpsertInstance on, which comes before or after its edges.
AtHand ==
  /\ disp.pc = "idle" => disp.at = {}
  /\ disp.at = {} \/ \E i \in Instances : disp.at = {i}
  /\ \A i \in disp.at : HostOf[i] \in store.hosts
  /\ disp.pc = "score" => disp.at \subseteq store.inst
  /\ disp.pc = "edges" => disp.at \subseteq EdgesFirst \/ disp.at \subseteq store.inst

\* The kind of a report decides what is read after the instances.
Walk ==
  /\ rep.pc \in {"findings", "edges"} => rep.kind = "report"
  /\ rep.pc = "walk" => rep.kind = "document"

ClosedInv == RS!TypeOK /\ RS!StoreClosed /\ AtHand /\ Walk

\* Instances that lack their finding, apart from the one at hand, lost it to a
\* crash; so does what a report has read, or will read.
LeftBehind ==
  /\ Cardinality(Missing(store) \ disp.at) <= crashes
  /\ Cardinality(Missing(disk)) <= 1 + crashes
  /\ rep.pc = "findings" => Cardinality(rep.data.inst \ store.find) <= 1 + crashes
  /\ rep.pc \in {"edges", "done"} /\ rep.kind = "report" =>
       Cardinality(RS!Unscored) <= 1 + crashes

-----------------------------------------------------------------------------
\* An empty store is closed.
LEMMA InitClosed == ASSUME RS!CrashAssumption, RS!Init PROVE ClosedInv
  BY DEF RS!Init, RS!CrashAssumption, ClosedInv, RS!TypeOK, RS!StoreClosed, RS!Closed, AtHand,
     Walk, RS!Store,
     RS!EmptyStore, RS!Idle, RS!NoReport

\* The dispatcher writes an instance after its host, and a finding after its
\* instance.
LEMMA WriteClosed ==
  ASSUME RS!HostAssumption, ClosedInv, RS!Write
  PROVE  ClosedInv'
<1> USE DEF ClosedInv, RS!TypeOK, RS!StoreClosed, RS!Closed, RS!Store, RS!HostAssumption
<1>1. UNCHANGED <<disk, rep, crashes>>
  BY DEF RS!Write, RS!UpsertHost, RS!Handle, RS!AddReachability, RS!UpsertInstance, RS!StoreFinding
<1>2. Walk'
  BY <1>1 DEF Walk
<1>3. ASSUME NEW h \in Hosts, RS!UpsertHost(h) PROVE ClosedInv'
  BY <1>1, <1>2, <1>3 DEF RS!UpsertHost, AtHand
<1>4. ASSUME NEW i \in Instances, RS!Handle(i) PROVE ClosedInv'
  BY <1>1, <1>2, <1>4 DEF RS!Handle, RS!EdgesLead, AtHand, RS!Idle
<1>5. CASE RS!AddReachability
  BY <1>1, <1>2, <1>5 DEF RS!AddReachability, RS!EdgesLead, AtHand
<1>6. CASE RS!UpsertInstance
  BY <1>1, <1>2, <1>6 DEF RS!UpsertInstance, RS!EdgesLead, AtHand
<1>7. CASE RS!StoreFinding
  BY <1>1, <1>2, <1>7 DEF RS!StoreFinding, AtHand, RS!Idle
<1>8. QED
  BY <1>3, <1>4, <1>5, <1>6, <1>7 DEF RS!Write

\* A document reads hosts before instances, and edges of the instances it has.
LEMMA ReadClosed ==
  ASSUME RS!HostAssumption, ClosedInv, RS!Read
  PROVE  ClosedInv'
<1> USE DEF ClosedInv, RS!TypeOK, RS!StoreClosed, RS!Closed, RS!Store
<1>1. UNCHANGED <<store, disk, disp, crashes>>
  BY DEF RS!Read, RS!Begin, RS!ReadHosts, RS!ReadInstances, RS!ReadFindings, RS!ReadEdges,
     RS!WriteInstance,
         RS!EndDocument
<1>2. AtHand'
  BY <1>1 DEF AtHand
<1>3. ASSUME NEW k \in {"report", "document"}, RS!Begin(k) PROVE ClosedInv'
  BY <1>1, <1>2, <1>3 DEF RS!Begin, RS!NoReport, RS!EmptyStore, Walk
<1>4. CASE RS!ReadHosts
  BY <1>1, <1>2, <1>4 DEF RS!ReadHosts, Walk
<1>5. CASE RS!ReadInstances
  BY <1>1, <1>2, <1>5 DEF RS!ReadInstances, Walk
<1>6. CASE RS!ReadFindings
  <2>1. RS!TypeOK'
    BY <1>1, <1>6 DEF RS!ReadFindings
  <2>2. RS!StoreClosed'
    BY <1>1
  <2>3. Walk'
    BY <1>6 DEF RS!ReadFindings, Walk
  <2> QED
    BY <1>2, <2>1, <2>2, <2>3 DEF ClosedInv
<1>7. CASE RS!ReadEdges
  <2>1. RS!TypeOK'
    BY <1>1, <1>7 DEF RS!ReadEdges
  <2>2. RS!StoreClosed'
    BY <1>1
  <2>3. Walk'
    BY <1>7 DEF RS!ReadEdges, Walk
  <2> QED
    BY <1>2, <2>1, <2>2, <2>3 DEF ClosedInv
<1>8. ASSUME NEW i \in Instances, RS!WriteInstance(i) PROVE ClosedInv'
  <2>1. RS!TypeOK'
    BY <1>1, <1>8 DEF RS!WriteInstance
  <2>2. RS!StoreClosed'
    BY <1>1
  <2>3. Walk'
    BY <1>8 DEF RS!WriteInstance, Walk
  <2> QED
    BY <1>2, <2>1, <2>2, <2>3 DEF ClosedInv
<1>9. CASE RS!EndDocument
  <2>1. RS!TypeOK'
    BY <1>1, <1>9 DEF RS!EndDocument
  <2>2. RS!StoreClosed'
    BY <1>1
  <2>3. Walk'
    BY <1>9 DEF RS!EndDocument, Walk
  <2> QED
    BY <1>2, <2>1, <2>2, <2>3 DEF ClosedInv
<1>10. QED
  BY <1>3, <1>4, <1>5, <1>6, <1>7, <1>8, <1>9 DEF RS!Read

\* What a flush saves and a crash restores is closed, too.
LEMMA StepClosed ==
  ASSUME RS!HostAssumption, RS!CrashAssumption, ClosedInv, [RS!Next]_(RS!vars)
  PROVE  ClosedInv'
<1>1. CASE RS!Flush
  BY <1>1 DEF RS!Flush, ClosedInv, RS!TypeOK, RS!StoreClosed, RS!Closed, AtHand, Walk
<1>2. CASE RS!Crash
  BY <1>2 DEF RS!Crash, RS!CrashAssumption, ClosedInv, RS!TypeOK, RS!StoreClosed, RS!Closed,
     AtHand, Walk,
              RS!Store, RS!EmptyStore, RS!Idle, RS!NoReport
<1>3. CASE UNCHANGED RS!vars
  BY <1>3 DEF RS!vars, ClosedInv, RS!TypeOK, RS!StoreClosed, RS!Closed, AtHand, Walk
<1>4. QED
  BY <1>1, <1>2, <1>3, WriteClosed, ReadClosed DEF RS!Next

\* The invariant about closed stores holds in every behaviour.
LEMMA ClosedAlways ==
  ASSUME RS!HostAssumption, RS!CrashAssumption
  PROVE  RS!Spec => []ClosedInv
<1>1. RS!Init => ClosedInv
  BY InitClosed
<1>2. ClosedInv /\ [RS!Next]_(RS!vars) => ClosedInv'
  BY StepClosed
<1>3. QED
  BY <1>1, <1>2, PTL DEF RS!Spec

\* Type correctness of ReportSnapshot, for any hosts, instances and crashes.
THEOREM ReportTypeCorrect ==
  ASSUME RS!HostAssumption, RS!CrashAssumption
  PROVE  RS!Spec => []RS!TypeOK
<1>1. ClosedInv => RS!TypeOK
  BY DEF ClosedInv
<1>2. QED
  BY <1>1, ClosedAlways, PTL

\* Neither the store nor a snapshot ever holds a finding without its instance,
\* or an instance without its host.
THEOREM StoreClosedAlways ==
  ASSUME RS!HostAssumption, RS!CrashAssumption
  PROVE  RS!Spec => []StoreClosed
<1>1. ClosedInv => StoreClosed
  BY DEF ClosedInv, StoreClosed
<1>2. QED
  BY <1>1, ClosedAlways, PTL

-----------------------------------------------------------------------------
\* The containers that reach something, of a set of instances.
Talkers(S) == S \cap Reaching \cap EdgesFirst

\* A store that has such a container has its edges.
Linked(s) == Talkers(s.inst) \subseteq s.edges

\* The edges of a container are there before it is: in the store, in the
\* snapshot, and for the container the dispatcher is about to store.  A report
\* has read instances whose edges are in the store, which only gains some; and
\* a document has the edges of what it shows, or has them to do.
Led ==
  /\ Linked(store) /\ Linked(disk)
  /\ disp.pc = "instance" => Talkers(disp.at) \subseteq store.edges
  /\ rep.pc \in {"findings", "edges", "walk"} => Talkers(rep.data.inst) \subseteq store.edges
  /\ rep.pc = "walk" => Talkers(RS!Shown) \subseteq rep.data.edges \cup rep.todo
  /\ rep.pc = "done" => Talkers(RS!Shown) \subseteq rep.data.edges

LEMMA InitLed == ASSUME RS!Init PROVE Led
BY DEF RS!Init, RS!EmptyStore, RS!Idle, RS!NoReport, Led, Linked, Talkers

\* The dispatcher takes the edges of a container before the container, and
\* takes no edge away.
LEMMA WriteLed == ASSUME ClosedInv, Led, RS!Write PROVE Led'
<1>1. UNCHANGED <<disk, rep, crashes>>
  BY DEF RS!Write, RS!UpsertHost, RS!Handle, RS!AddReachability, RS!UpsertInstance, RS!StoreFinding
<1>2. store \in RS!Store /\ disp \in [pc : {"idle", "edges", "instance", "score"}, at : SUBSET Instances]
  BY DEF ClosedInv, RS!TypeOK
<1>3. store.edges \subseteq store'.edges /\ Linked(store')
      /\ (disp'.pc = "instance" => Talkers(disp'.at) \subseteq store'.edges)
  <2>1. ASSUME NEW h \in Hosts, RS!UpsertHost(h) PROVE <1>3
    <3>1. store'.inst = store.inst /\ store'.edges = store.edges /\ disp' = disp
      BY <1>2, <2>1 DEF RS!UpsertHost, RS!Store
    <3> QED
      BY <3>1 DEF Led, Linked
  <2>2. ASSUME NEW i \in Instances, RS!Handle(i) PROVE <1>3
    <3>1. store' = store /\ disp'.at = {i} /\ (disp'.pc = "instance" => ~ ({i} \subseteq EdgesFirst))
      BY <2>2 DEF RS!Handle, RS!EdgesLead
    <3> QED
      BY <3>1 DEF Led, Linked, Talkers
  <2>3. CASE RS!AddReachability
    <3>1. /\ store'.inst = store.inst /\ store.edges \subseteq store'.edges /\ disp'.at = disp.at
          /\ disp.at \subseteq Reaching => disp.at \subseteq store'.edges
          /\ disp'.pc = "instance" => disp.at \subseteq EdgesFirst
      BY <1>2, <2>3 DEF RS!AddReachability, RS!EdgesLead, RS!Store
    <3>2. \A x \in disp.at : disp.at = {x}
      BY DEF ClosedInv, AtHand
    <3> QED
      BY <3>1, <3>2 DEF Led, Linked, Talkers
  <2>4. CASE RS!UpsertInstance
    <3>1. /\ store'.inst = store.inst \cup disp.at /\ store'.edges = store.edges
          /\ disp.pc = "instance" /\ disp'.pc # "instance"
      BY <1>2, <2>4 DEF RS!UpsertInstance, RS!Store
    <3> QED
      BY <3>1 DEF Led, Linked, Talkers
  <2>5. CASE RS!StoreFinding
    <3>1. store'.inst = store.inst /\ store'.edges = store.edges /\ disp'.pc = "idle"
      BY <1>2, <2>5 DEF RS!StoreFinding, RS!Store, RS!Idle
    <3> QED
      BY <3>1 DEF Led, Linked
  <2> QED
    BY <2>1, <2>2, <2>3, <2>4, <2>5 DEF RS!Write
<1>4. RS!Shown' = RS!Shown
  BY <1>1 DEF RS!Shown
<1> QED
  BY <1>1, <1>3, <1>4 DEF Led

\* A report reads the edges after the instances.
LEMMA ReadLed == ASSUME ClosedInv, Led, RS!Read PROVE Led'
<1>1. UNCHANGED <<store, disk, disp, crashes>>
  BY DEF RS!Read, RS!Begin, RS!ReadHosts, RS!ReadInstances, RS!ReadFindings, RS!ReadEdges,
     RS!WriteInstance, RS!EndDocument
<1>2. /\ store \in RS!Store /\ rep.data \in RS!Store
      /\ rep \in [pc : {"none", "hosts", "instances", "findings", "edges", "walk", "done"},
                  kind : {"report", "document"}, data : RS!Store, todo : SUBSET Instances]
  BY DEF ClosedInv, RS!TypeOK
<1>3. Linked(store') /\ Linked(disk')
      /\ (disp'.pc = "instance" => Talkers(disp'.at) \subseteq store'.edges)
  BY <1>1 DEF Led, Linked
<1> DEFINE Report ==
  /\ rep.pc \in {"findings", "edges", "walk"} => Talkers(rep.data.inst) \subseteq store.edges
  /\ rep.pc = "walk" => Talkers(RS!Shown) \subseteq rep.data.edges \cup rep.todo
  /\ rep.pc = "done" => Talkers(RS!Shown) \subseteq rep.data.edges
<1>4. Report'
  <2>1. ASSUME NEW k \in {"report", "document"}, RS!Begin(k) PROVE Report'
    <3>1. rep'.pc = "hosts"
      BY <2>1 DEF RS!Begin, RS!NoReport
    <3> QED
      BY <3>1
  <2>2. CASE RS!ReadHosts
    <3>1. rep'.pc = "instances"
      BY <1>2, <2>2 DEF RS!ReadHosts
    <3> QED
      BY <3>1
  <2>3. CASE RS!ReadInstances
    <3>1. /\ rep'.data.inst = store.inst /\ rep'.data.hosts = rep.data.hosts /\ rep'.kind = rep.kind
          /\ rep'.pc \in {"findings", "walk"} /\ (rep'.pc = "walk" => rep.kind # "report")
          /\ rep.kind # "report" => rep'.todo = {i \in store.inst : HostOf[i] \in rep.data.hosts}
      BY <1>2, <2>3 DEF RS!ReadInstances, RS!Store
    <3>2. rep'.pc = "walk" => Talkers(RS!Shown') \subseteq rep'.todo
      BY <3>1 DEF RS!Shown, Talkers
    <3> QED
      BY <1>1, <3>1, <3>2 DEF Led, Linked
  <2>4. CASE RS!ReadFindings
    <3>1. rep'.data.inst = rep.data.inst /\ rep'.pc = "edges" /\ rep.pc = "findings"
      BY <1>2, <2>4 DEF RS!ReadFindings, RS!Store
    <3> QED
      BY <1>1, <3>1 DEF Led
  <2>5. CASE RS!ReadEdges
    <3>1. rep'.data.inst = rep.data.inst /\ rep'.data.edges = store.edges
          /\ rep'.pc = "done" /\ rep.pc = "edges"
      BY <1>2, <2>5 DEF RS!ReadEdges, RS!Store
    <3>2. Talkers(RS!Shown') \subseteq Talkers(rep.data.inst)
      BY <3>1 DEF RS!Shown, Talkers
    <3> QED
      BY <3>1, <3>2 DEF Led
  <2>6. ASSUME NEW i \in Instances, RS!WriteInstance(i) PROVE Report'
    <3>1. /\ rep'.data.inst = rep.data.inst /\ rep'.data.hosts = rep.data.hosts
          /\ rep'.kind = rep.kind /\ rep'.pc = "walk" /\ rep.pc = "walk"
          /\ rep'.data.edges = rep.data.edges \cup ({i} \cap store.edges)
          /\ rep'.todo = rep.todo \ {i}
      BY <1>2, <2>6 DEF RS!WriteInstance, RS!Store
    <3>2. RS!Shown' = RS!Shown
      BY <3>1 DEF RS!Shown
    <3>3. Talkers(RS!Shown) \subseteq Talkers(rep.data.inst)
      BY DEF RS!Shown, Talkers
    <3>4. /\ Talkers(rep.data.inst) \subseteq store.edges
          /\ Talkers(RS!Shown) \subseteq rep.data.edges \cup rep.todo
      BY <3>1 DEF Led
    <3>5. Talkers(RS!Shown) \subseteq rep'.data.edges \cup rep'.todo
      BY <3>1, <3>3, <3>4
    <3> QED
      BY <1>1, <3>1, <3>2, <3>4, <3>5
  <2>7. CASE RS!EndDocument
    <3>1. rep'.data = rep.data /\ rep'.kind = rep.kind /\ rep'.pc = "done"
          /\ rep.pc = "walk" /\ rep.todo = {}
      BY <1>2, <2>7 DEF RS!EndDocument
    <3>2. RS!Shown' = RS!Shown
      BY <3>1 DEF RS!Shown
    <3>3. Talkers(RS!Shown) \subseteq rep.data.edges
      BY <3>1 DEF Led
    <3> QED
      BY <3>1, <3>2, <3>3
  <2> HIDE DEF Report
  <2> QED
    BY <2>1, <2>2, <2>3, <2>4, <2>5, <2>6, <2>7 DEF RS!Read
<1> QED
  BY <1>3, <1>4 DEF Led

\* A snapshot is of one moment, and a crash goes back to it.
LEMMA StepLed == ASSUME ClosedInv, Led, [RS!Next]_(RS!vars) PROVE Led'
<1>1. CASE RS!Flush
  <2>1. disk' = store /\ UNCHANGED <<store, disp, rep>> /\ RS!Shown' = RS!Shown
    BY <1>1 DEF RS!Flush, RS!Shown
  <2> QED
    BY <2>1 DEF Led
<1>2. CASE RS!Crash
  <2>1. store' = disk /\ disk' = disk /\ disp'.pc = "idle" /\ rep'.pc = "none"
    BY <1>2 DEF RS!Crash, RS!Idle, RS!NoReport
  <2> QED
    BY <2>1 DEF Led
<1>3. CASE UNCHANGED RS!vars
  <2>1. UNCHANGED <<store, disk, disp, rep>> /\ RS!Shown' = RS!Shown
    BY <1>3 DEF RS!vars, RS!Shown
  <2> QED
    BY <2>1 DEF Led
<1> QED
  BY <1>1, <1>2, <1>3, WriteLed, ReadLed DEF RS!Next

\* Whatever the dispatcher does between the readings of a report or document,
\* and however often the control plane crashes, a container that is shown is
\* shown with what it reaches: for any hosts, instances and crashes.
THEOREM ReachIsShownAlways ==
  ASSUME RS!HostAssumption, RS!CrashAssumption
  PROVE  RS!Spec => []ReachIsShown
<1>1. RS!Init => Led
  BY InitLed
<1>2. ClosedInv /\ Led /\ [RS!Next]_(RS!vars) => Led'
  BY StepLed
<1>3. Led => ReachIsShown
  BY DEF Led, Talkers, ReachIsShown, RS!ReachIsShown
<1>4. QED
  BY <1>1, <1>2, <1>3, ClosedAlways, PTL DEF RS!Spec

-----------------------------------------------------------------------------
\* ReportSnapshot counts as the library does.
LEMMA SameSizes == \A S : RS!Cardinality(S) = Cardinality(S) /\ RS!IsFiniteSet(S) = IsFiniteSet(S)
BY DEF RS!Cardinality, Cardinality, RS!IsFiniteSet, IsFiniteSet

\* A part of a set of instances has no more elements than the set.
LEMMA PartIsLess ==
  ASSUME RS!FiniteAssumption, NEW S \in SUBSET Instances, NEW T \in SUBSET S
  PROVE  /\ Cardinality(S) \in Nat /\ Cardinality(T) \in Nat
         /\ Cardinality(T) <= Cardinality(S)
<1>1. IsFiniteSet(S)
  BY FS_Subset, SameSizes DEF RS!FiniteAssumption
<1>2. QED
  BY <1>1, FS_Subset, FS_CardinalityType

\* Putting the instance at hand back in adds one at most.
LEMMA AtHandIsOne ==
  ASSUME RS!FiniteAssumption, RS!TypeOK, AtHand, NEW S \in SUBSET Instances
  PROVE  Cardinality(S) <= 1 + Cardinality(S \ disp.at)
<1>1. CASE disp.at = {}
  <2>1. S \ disp.at = S
    BY <1>1
  <2>2. Cardinality(S) \in Nat
    BY PartIsLess
  <2>3. QED
    BY <2>1, <2>2
<1>2. ASSUME NEW i \in Instances, disp.at = {i}
      PROVE  Cardinality(S) <= 1 + Cardinality(S \ disp.at)
  <2>1. IsFiniteSet(S)
    BY FS_Subset, SameSizes DEF RS!FiniteAssumption
  <2>2. Cardinality(S \ {i}) = IF i \in S THEN Cardinality(S) - 1 ELSE Cardinality(S)
    BY <2>1, FS_RemoveElement
  <2>3. Cardinality(S) \in Nat
    BY PartIsLess
  <2>4. QED
    BY <1>2, <2>2, <2>3
<1>3. QED
  BY <1>1, <1>2 DEF AtHand

\* At first nothing lacks its finding.
LEMMA InitLeft == ASSUME RS!Init PROVE LeftBehind
<1>1. Missing(store) \ disp.at = {} /\ Missing(disk) = {} /\ crashes = 0
  BY DEF RS!Init, Missing, RS!EmptyStore
<1>2. Cardinality({}) = 0
  BY FS_EmptySet
<1>3. rep.pc = "none"
  BY DEF RS!Init, RS!NoReport
<1>4. QED
  BY <1>1, <1>2, <1>3 DEF LeftBehind

\* The dispatcher leaves no instance without its finding but the one at hand.
LEMMA WriteLeft ==
  ASSUME RS!FiniteAssumption, RS!HostAssumption, ClosedInv, LeftBehind, RS!Write
  PROVE  LeftBehind'
<1>1. UNCHANGED <<disk, rep, crashes>> /\ crashes \in Nat
  <2>1. UNCHANGED <<disk, rep, crashes>>
    BY DEF RS!Write, RS!UpsertHost, RS!Handle, RS!AddReachability, RS!UpsertInstance, RS!StoreFinding
  <2>2. crashes \in Nat
    BY DEF ClosedInv, RS!TypeOK
  <2> QED
    BY <2>1, <2>2
<1>2. store \in RS!Store /\ store' \in RS!Store /\ disp.at \in SUBSET Instances
      /\ disp'.at \in SUBSET Instances /\ rep.data \in RS!Store
  BY WriteClosed DEF ClosedInv, RS!TypeOK
<1>3. Missing(store)' \ disp'.at \subseteq Missing(store) \ disp.at
  <2>1. Missing(store)' = store'.inst \ store'.find /\ Missing(store) = store.inst \ store.find
    BY DEF Missing
  <2>2. ASSUME NEW h \in Hosts, RS!UpsertHost(h)
        PROVE  store'.inst = store.inst /\ store'.find = store.find /\ disp' = disp
    BY <1>2, <2>2 DEF RS!UpsertHost, RS!Store
  <2>3. ASSUME NEW i \in Instances, RS!Handle(i) PROVE store' = store /\ disp.at = {}
    BY <2>3 DEF RS!Handle, RS!Idle
  <2>4. CASE RS!AddReachability
    <3>1. store'.inst = store.inst /\ store'.find = store.find /\ disp'.at = disp.at
      BY <1>2, <2>4 DEF RS!AddReachability, RS!Store, ClosedInv, RS!TypeOK
    <3>2. QED
      BY <2>1, <3>1
  <2>5. CASE RS!UpsertInstance
    <3>1. store'.inst = store.inst \cup disp.at /\ store'.find = store.find /\ disp'.at = disp.at
      BY <1>2, <2>5 DEF RS!UpsertInstance, RS!Store, ClosedInv, RS!TypeOK
    <3>2. QED
      BY <2>1, <3>1
  <2>6. CASE RS!StoreFinding
    <3>1. store'.inst = store.inst /\ store'.find = store.find \cup disp.at
      BY <1>2, <2>6 DEF RS!StoreFinding, RS!Store
    <3>2. QED
      BY <2>1, <3>1
  <2>7. QED
    BY <2>1, <2>2, <2>3, <2>4, <2>5, <2>6 DEF RS!Write
<1>4. store.find \subseteq store'.find
  BY <1>2 DEF RS!Write, RS!UpsertHost, RS!Handle, RS!AddReachability, RS!UpsertInstance,
     RS!StoreFinding, RS!Store
<1>5. Cardinality(Missing(store)' \ disp'.at) <= Cardinality(Missing(store) \ disp.at)
  BY <1>2, <1>3, PartIsLess DEF Missing, RS!Store
<1>6. Cardinality(rep.data.inst \ store'.find) <= Cardinality(rep.data.inst \ store.find)
  BY <1>2, <1>4, PartIsLess DEF RS!Store
<1>7. /\ Cardinality(Missing(store)' \ disp'.at) \in Nat
      /\ Cardinality(Missing(store) \ disp.at) \in Nat
      /\ Cardinality(rep.data.inst \ store'.find) \in Nat
      /\ Cardinality(rep.data.inst \ store.find) \in Nat
  BY <1>2, PartIsLess DEF Missing, RS!Store
<1>8. Missing(disk)' = Missing(disk) /\ RS!Unscored' = RS!Unscored
  BY <1>1 DEF Missing, RS!Unscored
<1>9. QED
  BY <1>1, <1>5, <1>6, <1>7, <1>8 DEF LeftBehind

\* A report that has read the instances misses no more than the store did then.
LEMMA ReadLeft ==
  ASSUME RS!FiniteAssumption, ClosedInv, LeftBehind, RS!Read
  PROVE  LeftBehind'
<1>0. crashes \in Nat
  BY DEF ClosedInv, RS!TypeOK
<1>1. UNCHANGED <<store, disk, disp, crashes>>
  BY DEF RS!Read, RS!Begin, RS!ReadHosts, RS!ReadInstances, RS!ReadFindings, RS!ReadEdges,
     RS!WriteInstance,
         RS!EndDocument
<1>2. Missing(store)' = Missing(store) /\ Missing(disk)' = Missing(disk)
  BY <1>1 DEF Missing
<1>3. Cardinality(store.inst \ store.find) <= 1 + crashes
  <2>1. Missing(store) \in SUBSET Instances
    BY DEF ClosedInv, RS!TypeOK, Missing, RS!Store
  <2>2. Cardinality(Missing(store)) <= 1 + Cardinality(Missing(store) \ disp.at)
    BY <2>1, AtHandIsOne DEF ClosedInv
  <2>3. Cardinality(Missing(store)) \in Nat /\ Cardinality(Missing(store) \ disp.at) \in Nat
    BY <2>1, PartIsLess
  <2>4. QED
    BY <1>0, <2>2, <2>3 DEF LeftBehind, Missing
<1>4. rep'.pc = "findings" => Cardinality(rep'.data.inst \ store'.find) <= 1 + crashes'
  <2>1. CASE RS!ReadInstances
    <3>1. rep'.data.inst = store.inst
      BY <2>1 DEF RS!ReadInstances, ClosedInv, RS!TypeOK, RS!Store
    <3>2. QED
      BY <1>1, <1>3, <3>1
  <2>2. CASE ~ RS!ReadInstances
    <3>1. rep'.pc # "findings"
      BY <2>2 DEF RS!Read, RS!Begin, RS!ReadHosts, RS!ReadFindings, RS!ReadEdges, RS!WriteInstance,
         RS!EndDocument,
                  ClosedInv, RS!TypeOK, RS!NoReport
    <3>2. QED
      BY <3>1
  <2>3. QED
    BY <2>1, <2>2
<1>5. rep'.pc \in {"edges", "done"} /\ rep'.kind = "report" =>
        Cardinality(RS!Unscored') <= 1 + crashes'
  <2>1. CASE RS!ReadFindings
    <3>1. RS!Unscored' = rep.data.inst \ store.find /\ rep.pc = "findings"
      BY <2>1 DEF RS!ReadFindings, RS!Unscored, ClosedInv, RS!TypeOK, RS!Store
    <3>2. QED
      BY <1>1, <3>1 DEF LeftBehind
  <2>2. CASE RS!ReadEdges
    <3>1. RS!Unscored' = RS!Unscored /\ rep.pc = "edges" /\ rep.kind = "report"
      BY <2>2 DEF RS!ReadEdges, RS!Unscored, ClosedInv, Walk, RS!TypeOK, RS!Store
    <3>2. QED
      BY <1>1, <3>1 DEF LeftBehind
  <2>3. CASE RS!EndDocument
    <3>1. RS!Unscored' = RS!Unscored /\ rep'.kind = rep.kind /\ rep.pc = "walk"
      BY <2>3 DEF RS!EndDocument, RS!Unscored, ClosedInv, RS!TypeOK
    <3>2. rep.kind = "document"
      BY <3>1 DEF ClosedInv, Walk
    <3>3. QED
      BY <3>1, <3>2
  <2>4. CASE ~ (RS!ReadFindings \/ RS!ReadEdges \/ RS!EndDocument)
    <3>1. rep'.pc \notin {"edges", "done"}
      BY <2>4 DEF RS!Read, RS!Begin, RS!ReadHosts, RS!ReadInstances, RS!WriteInstance, ClosedInv,
         RS!TypeOK, RS!NoReport
    <3>2. QED
      BY <3>1
  <2>5. QED
    BY <2>1, <2>2, <2>3, <2>4
<1>6. QED
  BY <1>1, <1>2, <1>4, <1>5 DEF LeftBehind

\* A snapshot may be of the moment between an instance and its finding, and a
\* crash makes that one more left behind.
LEMMA StepLeft ==
  ASSUME RS!FiniteAssumption, RS!HostAssumption, RS!CrashAssumption, ClosedInv, LeftBehind, [RS!Next]_(RS!vars)
  PROVE  LeftBehind'
<1>0. crashes \in Nat /\ Missing(store) \in SUBSET Instances /\ Missing(disk) \in SUBSET Instances
  BY DEF ClosedInv, RS!TypeOK, Missing, RS!Store
<1>1. CASE RS!Flush
  <2>1. /\ Missing(disk)' = Missing(store) /\ Missing(store)' = Missing(store)
        /\ UNCHANGED <<store, disp, rep, crashes>> /\ RS!Unscored' = RS!Unscored
    BY <1>1 DEF RS!Flush, Missing, RS!Unscored
  <2>2. Cardinality(Missing(store)) <= 1 + Cardinality(Missing(store) \ disp.at)
    BY <1>0, AtHandIsOne DEF ClosedInv
  <2>3. Cardinality(Missing(store)) \in Nat /\ Cardinality(Missing(store) \ disp.at) \in Nat
    BY <1>0, PartIsLess
  <2>4. QED
    BY <1>0, <2>1, <2>2, <2>3 DEF LeftBehind
<1>2. CASE RS!Crash
  <2>1. /\ Missing(store)' \ disp'.at = Missing(disk) /\ Missing(disk)' = Missing(disk)
        /\ crashes' = crashes + 1 /\ rep'.pc = "none"
    BY <1>2 DEF RS!Crash, Missing, RS!Idle, RS!NoReport
  <2>2. Cardinality(Missing(disk)) \in Nat
    BY <1>0, PartIsLess
  <2>3. Cardinality(Missing(disk)) <= 1 + crashes /\ crashes \in Nat
    BY <1>0 DEF LeftBehind
  <2>4. Cardinality(Missing(disk)) <= crashes' /\ Cardinality(Missing(disk)) <= 1 + crashes'
    BY <2>1, <2>2, <2>3
  <2>5. /\ Cardinality(Missing(store)' \ disp'.at) <= crashes'
        /\ Cardinality(Missing(disk)') <= 1 + crashes'
    BY <2>1, <2>4
  <2>6. QED
    BY <2>1, <2>5 DEF LeftBehind
<1>3. CASE UNCHANGED RS!vars
  BY <1>3 DEF RS!vars, LeftBehind, Missing, RS!Unscored
<1>4. QED
  BY <1>1, <1>2, <1>3, WriteLeft, ReadLeft DEF RS!Next

\* However the four readings of a report fall between the steps of the
\* dispatcher, it misses the finding of one instance at most, and of one more
\* for each crash: for any number of instances and crashes.
THEOREM ReportMissesFew ==
  ASSUME RS!FiniteAssumption, RS!HostAssumption, RS!CrashAssumption
  PROVE  RS!Spec => []ReportMissesAtMostOne
<1>1. RS!Init => LeftBehind
  BY InitLeft
<1>2. ClosedInv /\ LeftBehind /\ [RS!Next]_(RS!vars) => LeftBehind'
  BY StepLeft
<1>3. LeftBehind => ReportMissesAtMostOne
  BY SameSizes DEF LeftBehind, ReportMissesAtMostOne, RS!ReportMissesAtMostOne
<1>4. QED
  BY <1>1, <1>2, <1>3, ClosedAlways, PTL DEF RS!Spec

-----------------------------------------------------------------------------
(***************************************************************************)
(* For any number of requests, callers, failed writes and crashes: what is *)
(* changed has its entry in the audit file, or is among the entries that   *)
(* could not be written; edges are shown to analysts and admins only; and  *)
(* who reads the trail finds the entry of that very request.               *)
(*                                                                         *)
(* All follow a request from the check of its role to its handler: the     *)
(* entry is there before the handler is called, and nothing is ever taken  *)
(* out of the file; and a handler is called for nobody whose role ranks    *)
(* below that of the endpoint.                                             *)
(***************************************************************************)
\* AuditTrail counts as the library does.
LEMMA SameCount == \A S : AT!Cardinality(S) = Cardinality(S)
BY DEF AT!Cardinality, Cardinality, AT!IsFiniteSet, IsFiniteSet

\* The tail, counted so.
LEMMA TailIs ==
  ASSUME NEW s
  PROVE  LET shown == {n \in 1 .. Len(s) : AT!IsEntry(s, n) /\ AT!LineOf(s, n) + Window >= AT!Lines(s)}
         IN  AT!TailAudit(s) = [k \in 1 .. Cardinality(shown) |->
                                  s[CHOOSE n \in shown : Cardinality({m \in shown : m <= n}) = k]]
<1> DEFINE shown == {n \in 1 .. Len(s) : AT!IsEntry(s, n) /\ AT!LineOf(s, n) + Window >= AT!Lines(s)}
<1>1. AT!TailAudit(s) = [k \in 1 .. AT!Cardinality(shown) |->
                           s[CHOOSE n \in shown : AT!Cardinality({m \in shown : m <= n}) = k]]
  BY DEF AT!TailAudit
<1> HIDE DEF shown
<1>2. \A k : (CHOOSE n \in shown : AT!Cardinality({m \in shown : m <= n}) = k)
               = (CHOOSE n \in shown : Cardinality({m \in shown : m <= n}) = k)
  BY SameCount
<1>3. AT!TailAudit(s) = [k \in 1 .. Cardinality(shown) |->
                           s[CHOOSE n \in shown : Cardinality({m \in shown : m <= n}) = k]]
  BY <1>1, <1>2, SameCount
<1> QED
  BY <1>3 DEF shown

\* What a sequence holds is the same everywhere.
LEMMA SameRange == \A f : AT!Range(f) = Range(f)
BY DEF AT!Range, Range

\* The record of a request with these fields.
Request(at, who, what, got, tail) ==
  [pc |-> at, who |-> who, what |-> what, got |-> got, tail |-> tail]

\* A record has the fields of a request.
IsRequest(x) == x = Request(x.pc, x.who, x.what, x.got, x.tail)

\* The requests are such records, the trail is a sequence.
Shape ==
  /\ req = [r \in AT!Requests |-> req[r]]
  /\ \A r \in AT!Requests : IsRequest(req[r])
  /\ \A r \in AT!Requests : req[r].pc \in {"check", "permitted", "denied", "handle"} =>
       req[r].who \in Callers /\ req[r].what \in Asked
  /\ trail \in Seq(Int)
  /\ mem \subseteq AT!Requests /\ saved \subseteq AT!Requests

OnFile(r) == r \in Range(trail) \cup lost

\* A request has its entry from the call of its handler on, and a change from
\* then to the snapshot and back.
Entered ==
  /\ \A r \in AT!Requests : req[r].pc = "handle" => OnFile(r)
  /\ \A r \in mem \cup saved : OnFile(r)

\* A request whose role has been checked ranks high enough.
Admitted ==
  \A r \in AT!Requests :
    req[r].pc \in {"permitted", "handle"} => AT!Ranked(r, AT!MinRole[req[r].what])

AuditInv == Shape /\ Entered /\ Admitted /\ AT!ReachabilityIsGated

-----------------------------------------------------------------------------
\* Writing at the end of the file takes nothing out of it.
LEMMA Grows ==
  ASSUME NEW s \in Seq(Int), NEW t \in Seq(Int)
  PROVE  s \o t \in Seq(Int) /\ Range(s \o t) = Range(s) \cup Range(t)
<1>1. s \o t \in Seq(Int)
  OBVIOUS
<1>2. Range(s) \subseteq Range(s \o t)
  BY <1>1 DEF Range
<1>3. ASSUME NEW x \in Range(t) PROVE x \in Range(s \o t)
  <2>1. PICK n \in 1 .. Len(t) : x = t[n]
    BY <1>3 DEF Range
  <2>2. Len(s) + n \in 1 .. Len(s \o t) /\ (s \o t)[Len(s) + n] = x
    BY <2>1
  <2>3. QED
    <3>1. DOMAIN (s \o t) = 1 .. Len(s \o t)
      BY <1>1
    <3>2. QED
      BY <2>2, <3>1 DEF Range
<1>4. Range(s \o t) \subseteq Range(s) \cup Range(t)
  BY DEF Range
<1>5. QED
  BY <1>1, <1>2, <1>3, <1>4

\* What a request is made of is what it has.
LEMMA Fields ==
  ASSUME NEW at, NEW who, NEW what, NEW got, NEW tail
  PROVE  /\ IsRequest(Request(at, who, what, got, tail))
         /\ Request(at, who, what, got, tail).pc = at
         /\ Request(at, who, what, got, tail).who = who
         /\ Request(at, who, what, got, tail).what = what
         /\ Request(at, who, what, got, tail).got = got
         /\ Request(at, who, what, got, tail).tail = tail
  BY DEF Request, IsRequest

\* A record with these fields and no others is that request.
LEMMA HasFields ==
  ASSUME NEW at, NEW who, NEW what, NEW got, NEW tail, NEW x,
         x \in [pc : {at}, who : {who}, what : {what}, got : {got}, tail : {tail}]
  PROVE  x = Request(at, who, what, got, tail)
  BY DEF Request

\* A request before it arrives, as it arrives and when it is cut.
LEMMA FreshFields ==
  /\ AT!Fresh = Request("none", "", "", {}, << >>)
  /\ \A c, e : [AT!Fresh EXCEPT !.pc = "check", !.who = c, !.what = e]
                 = Request("check", c, e, {}, << >>)
  /\ [AT!Fresh EXCEPT !.pc = "cut"] = Request("cut", "", "", {}, << >>)
<1>1. AT!Fresh \in [pc : {"none"}, who : {""}, what : {""}, got : {{}}, tail : {<< >>}]
  BY DEF AT!Fresh
<1>2. ASSUME NEW c, NEW e
      PROVE  [AT!Fresh EXCEPT !.pc = "check", !.who = c, !.what = e]
               \in [pc : {"check"}, who : {c}, what : {e}, got : {{}}, tail : {<< >>}]
  BY DEF AT!Fresh
<1>3. [AT!Fresh EXCEPT !.pc = "cut"]
        \in [pc : {"cut"}, who : {""}, what : {""}, got : {{}}, tail : {<< >>}]
  BY DEF AT!Fresh
<1>4. AT!Fresh = Request("none", "", "", {}, << >>)
  BY <1>1, HasFields
<1>5. [AT!Fresh EXCEPT !.pc = "cut"] = Request("cut", "", "", {}, << >>)
  BY <1>3, HasFields
<1>6. ASSUME NEW c, NEW e
      PROVE  [AT!Fresh EXCEPT !.pc = "check", !.who = c, !.what = e]
               = Request("check", c, e, {}, << >>)
  <2>1. [AT!Fresh EXCEPT !.pc = "check", !.who = c, !.what = e]
          \in [pc : {"check"}, who : {c}, what : {e}, got : {{}}, tail : {<< >>}]
    BY <1>2
  <2>2. QED
    BY <2>1, HasFields
<1>7. QED
  BY <1>4, <1>5, <1>6

\* What becomes of a request in a step keeps the fields it does not name.
LEMMA Edited ==
  ASSUME NEW x, IsRequest(x), NEW at, NEW new
  PROVE  /\ [x EXCEPT !.pc = at] = Request(at, x.who, x.what, x.got, x.tail)
         /\ [x EXCEPT !.pc = at, !.got = new] = Request(at, x.who, x.what, new, x.tail)
<1>1. x \in [pc : {x.pc}, who : {x.who}, what : {x.what}, got : {x.got}, tail : {x.tail}]
  BY DEF IsRequest, Request
<1>2. [x EXCEPT !.pc = at]
        \in [pc : {at}, who : {x.who}, what : {x.what}, got : {x.got}, tail : {x.tail}]
  BY <1>1
<1>3. [x EXCEPT !.pc = at, !.got = new]
        \in [pc : {at}, who : {x.who}, what : {x.what}, got : {new}, tail : {x.tail}]
  BY <1>1
<1>4. QED
  BY <1>2, <1>3, HasFields

\* So does a request that is shown the tail of the file.
LEMMA Shown ==
  ASSUME NEW x, IsRequest(x), NEW at, NEW new
  PROVE  [x EXCEPT !.pc = at, !.tail = new] = Request(at, x.who, x.what, x.got, new)
<1>1. x \in [pc : {x.pc}, who : {x.who}, what : {x.what}, got : {x.got}, tail : {x.tail}]
  BY DEF IsRequest, Request
<1>2. [x EXCEPT !.pc = at, !.tail = new]
        \in [pc : {at}, who : {x.who}, what : {x.what}, got : {x.got}, tail : {new}]
  BY <1>1
<1>3. QED
  BY <1>2, HasFields

\* A move changes where one request is, and nothing else of any.
LEMMA Moves ==
  ASSUME Shape, NEW r \in AT!Requests, NEW at, AT!Move(r, at)
  PROVE  /\ req' = [q \in AT!Requests |-> req'[q]]
         /\ \A q \in AT!Requests \ {r} : req'[q] = req[q]
         /\ IsRequest(req'[r]) /\ req'[r].pc = at
         /\ req'[r].who = req[r].who /\ req'[r].what = req[r].what /\ req'[r].got = req[r].got
<1>1. req' = [q \in AT!Requests |-> IF q = r THEN [req[r] EXCEPT !.pc = at] ELSE req[q]]
  BY DEF AT!Move, Shape
<1>2. [req[r] EXCEPT !.pc = at] = Request(at, req[r].who, req[r].what, req[r].got, req[r].tail)
  BY Edited DEF Shape
<1>3. QED
  BY <1>1, <1>2, Fields

\* Before anybody asks, there is nothing to be on file.
LEMMA InitAudit == ASSUME AT!Init PROVE AuditInv
<1> DEFINE New == Request("none", "", "", {}, << >>)
<1>1. req = [r \in AT!Requests |-> New] /\ mem = {} /\ saved = {} /\ trail = << >>
  BY FreshFields DEF AT!Init
<1>2. IsRequest(New) /\ New.pc = "none" /\ New.got = {}
  BY DEF Request, IsRequest
<1> HIDE DEF New
<1>3. trail \in Seq(Int)
  BY <1>1
<1>4. req = [r \in AT!Requests |-> req[r]]
  BY <1>1
<1>5. Shape
  BY <1>1, <1>2, <1>3, <1>4 DEF Shape
<1>6. Entered /\ Admitted /\ AT!ReachabilityIsGated
  BY <1>1, <1>2 DEF Entered, Admitted, AT!ReachabilityIsGated
<1>7. QED
  BY <1>5, <1>6 DEF AuditInv

\* A request keeps its entry whatever is written, or not written, after it.
LEMMA FileStays ==
  ASSUME NEW q, OnFile(q), Range(trail) \subseteq Range(trail)', lost \subseteq lost'
  PROVE  OnFile(q)'
  BY DEF OnFile

\* A request that arrives is at no handler yet.
LEMMA ArriveAudit ==
  ASSUME AuditInv, NEW r \in AT!Requests, NEW c \in Callers, NEW e \in Asked, AT!Arrive(r, c, e)
  PROVE  AuditInv'
<1>1. req' = [q \in AT!Requests |->
                IF q = r THEN Request("check", c, e, {}, << >>)
                         ELSE req[q]]
  BY FreshFields DEF AT!Arrive, AuditInv, Shape
<1>2. Shape'
  BY <1>1, Fields DEF AT!Arrive, AuditInv, Shape
<1>3. Entered'
  BY <1>1, Fields DEF AT!Arrive, AuditInv, Entered, OnFile
<1>4. Admitted' /\ AT!ReachabilityIsGated'
  BY <1>1, Fields DEF AuditInv, Admitted, AT!ReachabilityIsGated, AT!Ranked
<1>5. QED
  BY <1>2, <1>3, <1>4 DEF AuditInv

\* The check of the role calls a handler for nobody.
LEMMA CheckAudit ==
  ASSUME AuditInv, NEW r \in AT!Requests, AT!Unauthorized(r) \/ AT!Permit(r)
  PROVE  AuditInv'
<1>1. UNCHANGED <<mem, saved, trail, lost>> /\ req[r].pc = "check"
  BY DEF AT!Unauthorized, AT!Permit
<1>2. PICK to \in {"answered", "permitted", "denied"} :
        AT!Move(r, to) /\ (to = "permitted" => AT!Ranked(r, AT!MinRole[req[r].what]))
  BY DEF AT!Unauthorized, AT!Permit
<1>3. /\ req' = [q \in AT!Requests |-> req'[q]]
      /\ \A q \in AT!Requests \ {r} : req'[q] = req[q]
      /\ IsRequest(req'[r]) /\ req'[r].pc = to
      /\ req'[r].who = req[r].who /\ req'[r].what = req[r].what /\ req'[r].got = req[r].got
  BY <1>2, Moves DEF AuditInv
<1>4. Shape'
  BY <1>1, <1>2, <1>3 DEF AuditInv, Shape
<1>5. Entered'
  BY <1>1, <1>2, <1>3 DEF AuditInv, Entered, OnFile
<1>6. Admitted' /\ AT!ReachabilityIsGated'
  BY <1>2, <1>3 DEF AuditInv, Admitted, AT!ReachabilityIsGated, AT!Ranked
<1>7. QED
  BY <1>4, <1>5, <1>6 DEF AuditInv

\* The entry is in the file, or known to be lost, when the handler is called.
LEMMA RecordAudit ==
  ASSUME AuditInv, NEW r \in AT!Requests, AT!Record(r) \/ AT!RecordFails(r)
  PROVE  AuditInv'
<1>1. UNCHANGED <<mem, saved>> /\ req[r].pc \in {"permitted", "denied"} /\ AT!Audited(r)
  BY DEF AT!Record, AT!RecordFails
<1>2. trail' \in Seq(Int) /\ Range(trail) \subseteq Range(trail)' /\ lost \subseteq lost' /\ OnFile(r)'
  <2>1. r \in Int
    BY DEF AT!Requests
  <2>2. CASE AT!Record(r)
    <3>1. <<r, AT!LineEnd>> \in Seq(Int) /\ r \in Range(<<r, AT!LineEnd>>)
      BY <2>1 DEF AT!LineEnd, Range
    <3>2. QED
      BY <2>2, <3>1, Grows DEF AT!Record, AuditInv, Shape, OnFile
  <2>3. CASE AT!RecordFails(r)
    <3>1. PICK piece \in {<< >>, <<AT!Piece>>, <<r>>} : trail' = trail \o piece
      BY <2>3 DEF AT!RecordFails
    <3>2. piece \in Seq(Int)
      <4>1. AT!Piece \in Int
        BY DEF AT!Piece
      <4>2. << >> \in Seq(Int) /\ <<AT!Piece>> \in Seq(Int) /\ <<r>> \in Seq(Int)
        BY <2>1, <4>1
      <4>3. QED
        BY <3>1, <4>2
    <3>3. QED
      BY <2>3, <3>1, <3>2, Grows DEF AT!RecordFails, AuditInv, Shape, OnFile
  <2>4. QED
    BY <2>2, <2>3
<1>3. PICK to \in {"answered", "handle"} :
        AT!Move(r, to) /\ (to = "handle" => req[r].pc = "permitted")
  BY <1>1 DEF AT!Audited
<1>4. /\ req' = [q \in AT!Requests |-> req'[q]]
      /\ \A q \in AT!Requests \ {r} : req'[q] = req[q]
      /\ IsRequest(req'[r]) /\ req'[r].pc = to
      /\ req'[r].who = req[r].who /\ req'[r].what = req[r].what /\ req'[r].got = req[r].got
  BY <1>3, Moves DEF AuditInv
<1>5. Shape'
  BY <1>1, <1>2, <1>4 DEF AuditInv, Shape
<1>6. Entered'
  BY <1>1, <1>2, <1>4, FileStays DEF AuditInv, Entered
<1>7. Admitted' /\ AT!ReachabilityIsGated'
  BY <1>3, <1>4 DEF AuditInv, Admitted, AT!ReachabilityIsGated, AT!Ranked
<1>8. QED
  BY <1>5, <1>6, <1>7 DEF AuditInv

-----------------------------------------------------------------------------
\* Who ranks with an analyst is one, or an admin.
LEMMA AnalystRank ==
  ASSUME NEW r \in AT!Requests, AT!Ranked(r, "analyst") \/ AT!Ranked(r, "admin")
  PROVE  Role[req[r].who] \in {"analyst", "admin"}
  BY DEF AT!Ranked, AT!roleRank

\* What a handler shows, it shows to a caller whose role was checked.
LEMMA ShowAdmitted ==
  ASSUME AuditInv, NEW r \in AT!Requests, AT!Show(r)
  PROVE  AuditInv'
<1>1. UNCHANGED <<mem, saved, trail, lost>> /\ req[r].pc = "handle"
  BY DEF AT!Show
<1>2. req' = [q \in AT!Requests |->
                IF q = r THEN Request("answered", req[r].who, req[r].what, AT!Contents(r), req[r].tail)
                         ELSE req[q]]
  <2>1. req' = [q \in AT!Requests |->
                  IF q = r THEN [req[r] EXCEPT !.pc = "answered", !.got = AT!Contents(r)]
                           ELSE req[q]]
    BY DEF AT!Show, AuditInv, Shape
  <2>2. IsRequest(req[r])
    BY DEF AuditInv, Shape
  <2>3. QED
    BY <2>1, <2>2, Edited
<1>3. Shape'
  BY <1>1, <1>2, Fields DEF AuditInv, Shape
<1>4. Entered'
  BY <1>1, <1>2, Fields DEF AuditInv, Entered, OnFile
<1>5. Admitted'
  BY <1>2, Fields DEF AuditInv, Admitted, AT!Ranked
<1>6. ASSUME "edges" \in AT!Contents(r) PROVE Role[req[r].who] \in {"analyst", "admin"}
  <2>1. AT!Ranked(r, AT!MinRole[req[r].what])
    BY <1>1 DEF AuditInv, Admitted
  <2>2. CASE req[r].what = "instance"
    <3>1. AT!Ranked(r, "analyst")
      BY <1>6, <2>2 DEF AT!Contents
    <3>2. QED
      BY <3>1, AnalystRank
  <2>3. CASE req[r].what \in {"reachability", "infra", "export"}
    <3>1. AT!MinRole[req[r].what] \in {"analyst", "admin"}
      BY <2>3 DEF AT!MinRole
    <3>2. QED
      BY <2>1, <3>1, AnalystRank
  <2>4. req[r].what = "instance" \/ req[r].what \in {"reachability", "infra", "export"}
    BY <1>6 DEF AT!Contents
  <2>5. QED
    BY <2>2, <2>3, <2>4
<1>7. AT!ReachabilityIsGated'
  BY <1>2, <1>6, Fields DEF AuditInv, AT!ReachabilityIsGated
<1>8. QED
  BY <1>3, <1>4, <1>5, <1>7 DEF AuditInv

\* The entry of a change is there already.
LEMMA ChangeAudit ==
  ASSUME AuditInv, NEW r \in AT!Requests, AT!Change(r)
  PROVE  AuditInv'
<1>1. UNCHANGED <<saved, trail, lost>> /\ req[r].pc = "handle" /\ mem' \subseteq mem \cup {r}
  BY DEF AT!Change
<1>2. /\ req' = [q \in AT!Requests |-> req'[q]]
      /\ \A q \in AT!Requests \ {r} : req'[q] = req[q]
      /\ IsRequest(req'[r]) /\ req'[r].pc = "answered"
      /\ req'[r].who = req[r].who /\ req'[r].what = req[r].what /\ req'[r].got = req[r].got
  BY Moves DEF AT!Change, AuditInv
<1>3. Shape'
  BY <1>1, <1>2 DEF AuditInv, Shape
<1>4. Entered'
  BY <1>1, <1>2 DEF AuditInv, Entered, OnFile
<1>5. Admitted' /\ AT!ReachabilityIsGated'
  BY <1>2 DEF AuditInv, Admitted, AT!ReachabilityIsGated, AT!Ranked
<1>6. QED
  BY <1>3, <1>4, <1>5 DEF AuditInv

\* The tail of the file, whatever it holds, is neither a change nor an edge.
LEMMA ShowAuditAudit ==
  ASSUME AuditInv, NEW r \in AT!Requests, AT!ShowAudit(r)
  PROVE  AuditInv'
<1>1. UNCHANGED <<mem, saved, trail, lost>>
  BY DEF AT!ShowAudit
<1>2. PICK shown : req' = [req EXCEPT ![r].pc = "answered", ![r].tail = shown]
  BY DEF AT!ShowAudit
<1>3. req' = [q \in AT!Requests |->
                IF q = r THEN Request("answered", req[r].who, req[r].what, req[r].got, shown)
                         ELSE req[q]]
  <2>1. req' = [q \in AT!Requests |->
                  IF q = r THEN [req[r] EXCEPT !.pc = "answered", !.tail = shown] ELSE req[q]]
    BY <1>2 DEF AuditInv, Shape
  <2>2. IsRequest(req[r])
    BY DEF AuditInv, Shape
  <2>3. [req[r] EXCEPT !.pc = "answered", !.tail = shown]
          = Request("answered", req[r].who, req[r].what, req[r].got, shown)
    BY <2>2, Shown
  <2>4. QED
    BY <2>1, <2>3
<1>4. Shape'
  BY <1>1, <1>3, Fields DEF AuditInv, Shape
<1>5. Entered'
  BY <1>1, <1>3, Fields DEF AuditInv, Entered, OnFile
<1>6. Admitted' /\ AT!ReachabilityIsGated'
  BY <1>3, Fields DEF AuditInv, Admitted, AT!ReachabilityIsGated, AT!Ranked
<1>7. QED
  BY <1>4, <1>5, <1>6 DEF AuditInv

\* A crash ends what is being served and takes back changes, never entries.
LEMMA CrashAudit == ASSUME AuditInv, AT!Crash PROVE AuditInv'
<1> DEFINE Gone == Request("cut", "", "", {}, << >>)
<1>1. UNCHANGED <<saved, trail, lost>> /\ mem' = saved
  BY DEF AT!Crash
<1>2. req' = [r \in AT!Requests |->
                IF req[r].pc \in {"none", "answered"} THEN req[r] ELSE Gone]
  BY FreshFields DEF AT!Crash
<1>3. IsRequest(Gone) /\ Gone.pc = "cut" /\ Gone.got = {}
  BY DEF Request, IsRequest
<1> HIDE DEF Gone
<1>4. Shape'
  BY <1>1, <1>2, <1>3 DEF AuditInv, Shape
<1>5. Entered'
  BY <1>1, <1>2, <1>3 DEF AuditInv, Entered, OnFile
<1>6. Admitted' /\ AT!ReachabilityIsGated'
  BY <1>2, <1>3 DEF AuditInv, Admitted, AT!ReachabilityIsGated, AT!Ranked
<1>7. QED
  BY <1>4, <1>5, <1>6 DEF AuditInv

\* Every step of the API keeps the invariant.
LEMMA StepAudit == ASSUME AuditInv, [AT!Next]_(AT!vars) PROVE AuditInv'
<1>1. ASSUME NEW r \in AT!Requests, AT!Serve(r) PROVE AuditInv'
  BY <1>1, ArriveAudit, CheckAudit, RecordAudit, ShowAdmitted, ChangeAudit,
     ShowAuditAudit DEF AT!Serve
<1>2. CASE AT!Flush
  BY <1>2 DEF AT!Flush, AuditInv, Shape, Entered, OnFile, Admitted, AT!Ranked,
     AT!ReachabilityIsGated
<1>3. CASE UNCHANGED AT!vars
  BY <1>3 DEF AT!vars, AuditInv, Shape, Entered, OnFile, Admitted, AT!Ranked, AT!ReachabilityIsGated
<1>4. QED
  BY <1>1, <1>2, <1>3, CrashAudit DEF AT!Next

-----------------------------------------------------------------------------
\* Whatever requests meet, whatever fails: a change that is in the store or in
\* the snapshot has its entry in the audit file, unless the file could not be
\* written (requireRole, appendJSONL).
THEOREM ChangeIsOnFileAlways == AT!Spec => []ChangeIsOnFile
<1>1. AT!Init => AuditInv
  BY InitAudit
<1>2. AuditInv /\ [AT!Next]_(AT!vars) => AuditInv'
  BY StepAudit
<1>3. AuditInv => ChangeIsOnFile
  BY SameRange DEF AuditInv, Entered, OnFile, ChangeIsOnFile, AT!ChangeIsOnFile
<1>4. QED
  BY <1>1, <1>2, <1>3, PTL DEF AT!Spec

\* Records of edges and credentials are shown to analysts and admins only, by
\* whichever endpoint (requireRole, apiInstanceDetail).
THEOREM ReachabilityIsGatedAlways == AT!Spec => []ReachabilityIsGated
<1>1. AT!Init => AuditInv
  BY InitAudit
<1>2. AuditInv /\ [AT!Next]_(AT!vars) => AuditInv'
  BY StepAudit
<1>3. AuditInv => ReachabilityIsGated
  BY DEF AuditInv, ReachabilityIsGated
<1>4. QED
  BY <1>1, <1>2, <1>3, PTL DEF AT!Spec

-----------------------------------------------------------------------------
(***************************************************************************)
(* The proof that who reads the trail finds the entry of that very         *)
(* request.  While no write fails the file is a sequence of lines with one *)
(* entry each, so that the line of an entry is its rank among them.        *)
(***************************************************************************)
\* k lines, each with one entry and its end.
WholeLines(s, k) ==
  /\ s \in Seq(Int) /\ Len(s) = 2 * k
  /\ \A n \in 1 .. k : s[2 * n - 1] \in AT!Requests /\ s[2 * n] = AT!LineEnd

\* The entries after the n-th place of a file.
After(s, n) == {m \in DOMAIN s : m > n /\ s[m] # AT!LineEnd}

Pushed(s, r) == \E n \in DOMAIN s : s[n] = r /\ Cardinality(After(s, n)) >= Window

\* Each second number, from the one after 2 * lo to 2 * hi, or one less.
Alternate(lo, hi, d) == {2 * j - d : j \in lo + 1 .. hi}

\* How many these are.
LEMMA Spaced ==
  ASSUME NEW lo \in Nat, NEW hi \in Nat, lo <= hi, NEW d \in {0, 1}
  PROVE  Cardinality(Alternate(lo, hi, d)) = hi - lo
<1> DEFINE S == lo + 1 .. hi
           T == Alternate(lo, hi, d)
           f == [j \in S |-> 2 * j - d]
<1>1. f \in Bijection(S, T)
  <2>1. f \in [S -> T] /\ \A t \in T : \E j \in S : f[j] = t
    BY DEF Alternate
  <2>2. \A i, j \in S : f[i] = f[j] => i = j
    OBVIOUS
  <2> QED
    BY <2>1, <2>2 DEF Bijection, Injection, IsInjective, Surjection
<1>2. IsFiniteSet(S) /\ Cardinality(S) = hi - lo
  <2>1. lo + 1 \in Int /\ hi \in Int
    OBVIOUS
  <2>2. IsFiniteSet(S) /\ Cardinality(S) = IF lo + 1 > hi THEN 0 ELSE hi - (lo + 1) + 1
    BY <2>1, FS_Interval
  <2> HIDE DEF S
  <2> QED
    BY <2>2
<1>3. ExistsBijection(S, T)
  BY <1>1 DEF ExistsBijection
<1> HIDE DEF S, T
<1>4. IsFiniteSet(T) /\ Cardinality(T) = Cardinality(S)
  BY <1>2, <1>3, FS_Bijection
<1> QED
  BY <1>2, <1>4 DEF T

\* A place of such a file is an entry or an end.
LEMMA Places ==
  ASSUME NEW s, NEW k \in Nat, WholeLines(s, k)
  PROVE  /\ DOMAIN s = 1 .. 2 * k
         /\ \A m \in DOMAIN s : \E j \in 1 .. k : m = 2 * j - 1 \/ m = 2 * j
         /\ \A j \in 1 .. k :
              2 * j - 1 \in DOMAIN s /\ 2 * j \in DOMAIN s /\ s[2 * j] = AT!LineEnd
              /\ s[2 * j - 1] \in AT!Requests /\ s[2 * j - 1] \notin {AT!LineEnd, AT!Piece}
<1>1. DOMAIN s = 1 .. 2 * k
  BY DEF WholeLines
<1>2. ASSUME NEW m \in 1 .. 2 * k PROVE \E j \in 1 .. k : m = 2 * j - 1 \/ m = 2 * j
  <2>1. (m + 1) \div 2 \in 1 .. k
    OBVIOUS
  <2>2. m = 2 * ((m + 1) \div 2) - 1 \/ m = 2 * ((m + 1) \div 2)
    OBVIOUS
  <2> QED
    BY <2>1, <2>2
<1>3. \A x \in AT!Requests : x \notin {AT!LineEnd, AT!Piece}
  BY DEF AT!LineEnd, AT!Piece, AT!Requests
<1>4. ASSUME NEW j \in 1 .. k PROVE 2 * j - 1 \in 1 .. 2 * k /\ 2 * j \in 1 .. 2 * k
  OBVIOUS
<1>5. \A j \in 1 .. k : s[2 * j] = AT!LineEnd /\ s[2 * j - 1] \in AT!Requests
  BY DEF WholeLines
<1> QED
  BY <1>1, <1>2, <1>3, <1>4, <1>5

\* The entry of the n-th line and its end have n - 1 line ends before them.
LEMMA LineIs ==
  ASSUME NEW s, NEW k \in Nat, WholeLines(s, k), NEW n \in 1 .. k
  PROVE  AT!LineOf(s, 2 * n - 1) = n - 1 /\ AT!LineOf(s, 2 * n) = n - 1
<1>1. Cardinality(Alternate(0, n - 1, 0)) = n - 1
  <2>1. n - 1 \in Nat /\ 0 \in Nat /\ 0 <= n - 1 /\ 0 \in {0, 1} /\ n - 1 - 0 = n - 1
    OBVIOUS
  <2> QED
    BY <2>1, Spaced
<1>2. AT!Ends(s) = {m \in DOMAIN s : s[m] = AT!LineEnd}
  BY DEF AT!Ends, WholeLines
<1>3. ASSUME NEW m \in AT!Ends(s) PROVE \E j \in 1 .. k : m = 2 * j
  <2>1. PICK j \in 1 .. k : m = 2 * j - 1 \/ m = 2 * j
    BY <1>2, Places
  <2> QED
    BY <1>2, <2>1, Places
<1>4. \A j \in 1 .. k : 2 * j \in AT!Ends(s)
  BY <1>2, Places
<1>5. \A m : m \in Alternate(0, n - 1, 0) <=> \E j \in 1 .. n - 1 : m = 2 * j
  BY DEF Alternate
<1>6. \A m \in AT!Ends(s) : m < 2 * n <=> m \in Alternate(0, n - 1, 0)
  BY <1>3, <1>5
<1>7. \A m \in AT!Ends(s) : m < 2 * n - 1 <=> m \in Alternate(0, n - 1, 0)
  BY <1>3, <1>5
<1>8. Alternate(0, n - 1, 0) \subseteq AT!Ends(s)
  BY <1>4, <1>5
<1> QED
  BY <1>1, <1>6, <1>7, <1>8, SameCount DEF AT!LineOf

\* There are k lines.
LEMMA LinesAre ==
  ASSUME NEW s, NEW k \in Nat, WholeLines(s, k)
  PROVE  AT!Lines(s) = k
<1>1. \A n \in 1 .. Len(s) : AT!LineOf(s, n) \in 0 .. k - 1
  <2>0. DOMAIN s = 1 .. Len(s)
    BY DEF WholeLines
  <2> SUFFICES ASSUME NEW n \in DOMAIN s PROVE AT!LineOf(s, n) \in 0 .. k - 1
    BY <2>0, Zenon
  <2>1. \A m \in DOMAIN s : \E j \in 1 .. k : m = 2 * j - 1 \/ m = 2 * j
    BY Places, ZenonT(30)
  <2>2. PICK j \in 1 .. k : n = 2 * j - 1 \/ n = 2 * j
    BY <2>1, Zenon
  <2>3. AT!LineOf(s, 2 * j - 1) = j - 1 /\ AT!LineOf(s, 2 * j) = j - 1
    BY LineIs
  <2>4. AT!LineOf(s, n) = j - 1
    BY <2>2, <2>3, Zenon
  <2> QED
    BY <2>4
<1>2. \A l \in 0 .. k - 1 : \E n \in 1 .. Len(s) : AT!LineOf(s, n) = l
  <2> SUFFICES ASSUME NEW l \in 0 .. k - 1 PROVE \E n \in 1 .. Len(s) : AT!LineOf(s, n) = l
    OBVIOUS
  <2>1. PICK j \in 1 .. k : j - 1 = l
    <3>1. l + 1 \in 1 .. k /\ l + 1 - 1 = l
      OBVIOUS
    <3> QED
      BY <3>1
  <2>2. AT!LineOf(s, 2 * j) = l /\ 2 * j \in 1 .. Len(s)
    <3>1. AT!LineOf(s, 2 * j) = j - 1
      BY LineIs
    <3>2. 2 * j \in 1 .. Len(s)
      BY DEF WholeLines
    <3> QED
      BY <2>1, <3>1, <3>2
  <2>3. PICK n \in 1 .. Len(s) : n = 2 * j
    BY <2>2
  <2>4. AT!LineOf(s, n) = l
    BY <2>2, <2>3
  <2> QED
    BY <2>4
<1>3. {AT!LineOf(s, n) : n \in 1 .. Len(s)} = 0 .. k - 1
  BY <1>1, <1>2
<1>4. Cardinality(0 .. k - 1) = k
  BY FS_Interval
<1> QED
  BY <1>3, <1>4, SameCount DEF AT!Lines

\* The entry of a whole line is one.
LEMMA EntryIs ==
  ASSUME NEW s, NEW k \in Nat, WholeLines(s, k), NEW n \in 1 .. k
  PROVE  AT!IsEntry(s, 2 * n - 1)
<1>1. ASSUME NEW m \in 1 .. Len(s), AT!LineOf(s, m) = AT!LineOf(s, 2 * n - 1)
      PROVE  m = 2 * n - 1 \/ s[m] = AT!LineEnd
  <2>1. m \in DOMAIN s
    BY DEF WholeLines
  <2>2. PICK j \in 1 .. k : m = 2 * j - 1 \/ m = 2 * j
    BY <2>1, Places
  <2>3. AT!LineOf(s, 2 * j - 1) = j - 1 /\ AT!LineOf(s, 2 * j) = j - 1
    BY LineIs
  <2>4. AT!LineOf(s, m) = j - 1
    BY <2>2, <2>3, Zenon
  <2>5. AT!LineOf(s, 2 * n - 1) = n - 1
    BY LineIs
  <2>6. j - 1 = n - 1
    BY <1>1, <2>4, <2>5, Zenon
  <2>7. j = n
    BY <2>6
  <2>8. s[2 * n] = AT!LineEnd
    BY Places, Zenon
  <2> QED
    BY <2>2, <2>7, <2>8, Zenon
<1> QED
  BY <1>1, Places DEF AT!IsEntry

\* Whose entry is in the file is shown it, or finds a window of others after it.
LEMMA TailShows ==
  ASSUME AT!WindowAssumption, NEW s, NEW k \in Nat, WholeLines(s, k), NEW r, r \in AT!Requests, r \in Range(s)
  PROVE  r \in Range(AT!TailAudit(s)) \/ Pushed(s, r)
<1>1. PICK p \in DOMAIN s : s[p] = r
  BY DEF Range
<1>2. PICK n \in 1 .. k : p = 2 * n - 1
  <2>1. r # AT!LineEnd
    BY DEF AT!Requests, AT!LineEnd
  <2> QED
    BY <1>1, <2>1, Places
<1>3. AT!LineOf(s, p) = n - 1 /\ AT!Lines(s) = k /\ AT!IsEntry(s, p)
  BY <1>2, LineIs, LinesAre, EntryIs
<1>4. CASE n - 1 + Window >= k
  <2> DEFINE shown == {m \in 1 .. Len(s) : AT!IsEntry(s, m) /\ AT!LineOf(s, m) + Window >= AT!Lines(s)}
             rank(x) == Cardinality({m \in shown : m <= x})
  <2>1. p \in shown
    BY <1>1, <1>3, <1>4 DEF WholeLines
  <2>2. shown \in SUBSET Nat /\ IsFiniteSet(shown)
    <3>1. Len(s) \in Nat
      BY DEF WholeLines
    <3>2. shown \in SUBSET (1 .. Len(s)) /\ IsFiniteSet(1 .. Len(s))
      BY <3>1, FS_Interval
    <3>3. shown \in SUBSET Nat
      BY <3>1
    <3> HIDE DEF shown
    <3> QED
      BY <3>2, <3>3, FS_Subset
  <2>3. AT!TailAudit(s) =
          [i \in 1 .. Cardinality(shown) |-> s[CHOOSE m \in shown : rank(m) = i]]
    BY TailIs
  <2> HIDE DEF shown
  <2>4. rank(p) \in 1 .. Cardinality(shown) /\ \A x \in shown : rank(x) = rank(p) => x = p
    BY <2>1, <2>2, Ranks
  <2> HIDE DEF rank
  <2>5. (CHOOSE m \in shown : rank(m) = rank(p)) = p
    BY <2>1, <2>4
  <2>6. AT!TailAudit(s)[rank(p)] = r /\ rank(p) \in DOMAIN AT!TailAudit(s)
    BY <1>1, <2>3, <2>4, <2>5
  <2> QED
    BY <2>6 DEF Range
<1>5. CASE ~ (n - 1 + Window >= k)
  <2> DEFINE Later == Alternate(n, k, 1)
  <2>1. Later \in SUBSET After(s, p)
    <3>1. \A j \in n + 1 .. k : 2 * j - 1 \in After(s, p)
      BY <1>2, Places DEF After
    <3> QED
      BY <3>1 DEF Alternate
  <2>2. IsFiniteSet(After(s, p)) /\ Cardinality(After(s, p)) \in Nat
    <3>1. After(s, p) \in SUBSET (1 .. 2 * k)
      BY Places DEF After
    <3>2. IsFiniteSet(1 .. 2 * k)
      BY FS_Interval
    <3>3. IsFiniteSet(After(s, p))
      BY <3>1, <3>2, FS_Subset
    <3> QED
      BY <3>3, FS_CardinalityType
  <2>3. Cardinality(Later) = k - n
    <3>1. n \in Nat /\ n <= k
      OBVIOUS
    <3> QED
      BY <3>1, Spaced
  <2> HIDE DEF Later
  <2>4. Cardinality(Later) <= Cardinality(After(s, p))
    BY <2>1, <2>2, FS_Subset
  <2>5. Cardinality(After(s, p)) >= Window
    BY <1>5, <2>2, <2>3, <2>4 DEF AT!WindowAssumption
  <2> QED
    BY <1>1, <2>5 DEF Pushed
<1> QED
  BY <1>4, <1>5

\* A request whose answer has to show it its entry.
Watched(x) == x.pc = "answered" /\ x.what = "audit" /\ Role[x.who] = "admin"

\* The file of whole lines, the denied, and those that were shown the trail.
SelfInv ==
  /\ lost = {} => \E k \in Nat : WholeLines(trail, k)
  /\ \A r \in AT!Requests : req[r].pc = "denied" => ~ AT!Ranked(r, AT!MinRole[req[r].what])
  /\ lost = {} => \A r \in AT!Requests :
       Watched(req[r]) => r \in Range(req[r].tail) \/ Pushed(trail, r)

\* What is where in two sequences, one after the other.
LEMMA Joined ==
  ASSUME NEW s \in Seq(Int), NEW t \in Seq(Int)
  PROVE  /\ s \o t \in Seq(Int) /\ Len(s \o t) = Len(s) + Len(t)
         /\ \A n \in 1 .. Len(s) : (s \o t)[n] = s[n]
         /\ \A n \in 1 .. Len(t) : (s \o t)[Len(s) + n] = t[n]
<1>1. s \o t \in Seq(Int) /\ Len(s \o t) = Len(s) + Len(t)
  OBVIOUS
<1>2. ASSUME NEW n \in 1 .. Len(s) PROVE (s \o t)[n] = s[n]
  OBVIOUS
<1>3. ASSUME NEW n \in 1 .. Len(t) PROVE (s \o t)[Len(s) + n] = t[n]
  OBVIOUS
<1> QED
  BY <1>1, <1>2, <1>3

\* An entry more is a whole line more, and pushes out no less.
LEMMA LineMore ==
  ASSUME NEW s, NEW k \in Nat, WholeLines(s, k), NEW r \in AT!Requests
  PROVE  /\ WholeLines(s \o <<r, AT!LineEnd>>, k + 1)
         /\ AT!WindowAssumption => \A q : Pushed(s, q) => Pushed(s \o <<r, AT!LineEnd>>, q)
<1> DEFINE t == s \o <<r, AT!LineEnd>>
<1>1. s \in Seq(Int) /\ Len(s) = 2 * k /\ r \in Int
  BY DEF WholeLines, AT!Requests
<1>2. /\ t \in Seq(Int) /\ Len(t) = 2 * k + 2
      /\ \A n \in 1 .. 2 * k : t[n] = s[n]
      /\ t[2 * k + 1] = r /\ t[2 * k + 2] = AT!LineEnd
  <2> DEFINE line == <<r, AT!LineEnd>>
  <2>1. line \in Seq(Int) /\ Len(line) = 2 /\ line[1] = r /\ line[2] = AT!LineEnd
    BY <1>1 DEF AT!LineEnd
  <2> HIDE DEF line
  <2>2. /\ s \o line \in Seq(Int) /\ Len(s \o line) = 2 * k + 2
        /\ \A n \in 1 .. 2 * k : (s \o line)[n] = s[n]
        /\ \A n \in 1 .. 2 : (s \o line)[2 * k + n] = line[n]
    <3>1. /\ s \o line \in Seq(Int) /\ Len(s \o line) = Len(s) + Len(line)
          /\ \A n \in 1 .. Len(s) : (s \o line)[n] = s[n]
          /\ \A n \in 1 .. Len(line) : (s \o line)[Len(s) + n] = line[n]
      BY <1>1, <2>1, Joined, Zenon
    <3> QED
      BY <1>1, <2>1, <3>1
  <2>3. (s \o line)[2 * k + 1] = r /\ (s \o line)[2 * k + 2] = AT!LineEnd
    BY <2>1, <2>2
  <2> QED
    BY <2>2, <2>3 DEF line
<1>3. DOMAIN s = 1 .. 2 * k /\ DOMAIN t = 1 .. 2 * k + 2
  BY <1>1, <1>2
<1> HIDE DEF t
<1>4. WholeLines(t, k + 1)
  <2>1. ASSUME NEW n \in 1 .. k + 1 PROVE t[2 * n - 1] \in AT!Requests /\ t[2 * n] = AT!LineEnd
    <3>1. CASE n = k + 1
      BY <1>2, <3>1
    <3>2. CASE n # k + 1
      <4>1. n \in 1 .. k /\ 2 * n - 1 \in 1 .. 2 * k /\ 2 * n \in 1 .. 2 * k
        BY <3>2
      <4>2. s[2 * n - 1] \in AT!Requests /\ s[2 * n] = AT!LineEnd
        BY <4>1 DEF WholeLines
      <4>3. t[2 * n - 1] = s[2 * n - 1] /\ t[2 * n] = s[2 * n]
        BY <1>2, <4>1
      <4> QED
        BY <4>2, <4>3
    <3> QED
      BY <3>1, <3>2
  <2> QED
    BY <1>2, <2>1 DEF WholeLines
<1>5. ASSUME AT!WindowAssumption, NEW q, Pushed(s, q) PROVE Pushed(t, q)
  <2>1. PICK n \in DOMAIN s : s[n] = q /\ Cardinality(After(s, n)) >= Window
    BY <1>5 DEF Pushed
  <2>2. After(s, n) \in SUBSET After(t, n)
    BY <1>2, <1>3 DEF After
  <2>3. After(t, n) \in SUBSET (1 .. 2 * k + 2) /\ After(s, n) \in SUBSET (1 .. 2 * k + 2)
    BY <1>3 DEF After
  <2>4. IsFiniteSet(1 .. 2 * k + 2)
    BY FS_Interval
  <2>5. IsFiniteSet(After(t, n)) /\ IsFiniteSet(After(s, n))
    BY <2>3, <2>4, FS_Subset
  <2>6. Cardinality(After(t, n)) \in Nat /\ Cardinality(After(s, n)) \in Nat
    BY <2>5, FS_CardinalityType
  <2>7. Cardinality(After(s, n)) <= Cardinality(After(t, n))
    BY <2>2, <2>5, FS_Subset
  <2>8. Cardinality(After(t, n)) >= Window
    BY <1>5, <2>1, <2>6, <2>7 DEF AT!WindowAssumption
  <2>9. n \in DOMAIN t /\ t[n] = q
    BY <1>2, <1>3, <2>1
  <2> QED
    BY <2>8, <2>9 DEF Pushed
<1> QED
  BY <1>4, <1>5 DEF t

\* What a step does to the file as long as no write fails.
LEMMA FileStep ==
  ASSUME [AT!Next]_(AT!vars)
  PROVE  /\ lost' = {} => lost = {}
         /\ lost' = {} => trail' = trail \/ \E r \in AT!Requests : trail' = trail \o <<r, AT!LineEnd>>
<1>1. ASSUME NEW r \in AT!Requests, AT!RecordFails(r) PROVE lost' # {}
  BY <1>1 DEF AT!RecordFails
<1>2. ASSUME NEW r \in AT!Requests, AT!Record(r)
      PROVE  lost' = lost /\ trail' = trail \o <<r, AT!LineEnd>>
  BY <1>2 DEF AT!Record
<1>3. ASSUME NEW r \in AT!Requests, AT!Serve(r), ~ AT!RecordFails(r), ~ AT!Record(r)
      PROVE  lost' = lost /\ trail' = trail
  BY <1>3 DEF AT!Serve, AT!Arrive, AT!Unauthorized, AT!Permit, AT!Show, AT!Change, AT!ShowAudit
<1>4. CASE AT!Flush \/ AT!Crash \/ UNCHANGED AT!vars
  BY <1>4 DEF AT!Flush, AT!Crash, AT!vars
<1> QED
  BY <1>1, <1>2, <1>3, <1>4 DEF AT!Next

\* Who is denied the trail is no admin.
LEMMA NoAdmin ==
  ASSUME NEW r \in AT!Requests, ~ AT!Ranked(r, AT!MinRole[req[r].what]), req[r].what = "audit"
  PROVE  Role[req[r].who] # "admin"
BY DEF AT!Ranked, AT!MinRole, AT!roleRank

\* What a step makes of a request: the answer it waited for only once it has
\* been shown the trail, and a denial only if its role ranks too low.
LEMMA RequestStep ==
  ASSUME AuditInv, SelfInv, [AT!Next]_(AT!vars), NEW q \in AT!Requests
  PROVE  /\ \/ req'[q] = req[q]
            \/ ~ Watched(req'[q])
            \/ req'[q].tail = AT!TailAudit(trail) /\ trail' = trail /\ OnFile(q)
         /\ \/ req'[q] = req[q]
            \/ req'[q].pc # "denied"
            \/ ~ AT!Ranked(q, AT!MinRole[req[q].what]) /\ req'[q].what = req[q].what /\ req'[q].who = req[q].who
<1> DEFINE Goal == /\ \/ req'[q] = req[q]
                      \/ ~ Watched(req'[q])
                      \/ req'[q].tail = AT!TailAudit(trail) /\ trail' = trail /\ OnFile(q)
                   /\ \/ req'[q] = req[q]
                      \/ req'[q].pc # "denied"
                      \/ ~ AT!Ranked(q, AT!MinRole[req[q].what]) /\ req'[q].what = req[q].what
                         /\ req'[q].who = req[q].who
<1>1. Shape
  BY DEF AuditInv
<1>2. ASSUME NEW r \in AT!Requests, NEW c \in Callers, NEW e \in Asked, AT!Arrive(r, c, e) PROVE Goal
  <2>1. req' = [p \in AT!Requests |-> IF p = r THEN Request("check", c, e, {}, << >>) ELSE req[p]]
    BY <1>1, <1>2, FreshFields DEF AT!Arrive, Shape
  <2> QED
    BY <2>1, Fields DEF Watched
<1>3. ASSUME NEW r \in AT!Requests, NEW to, AT!Move(r, to),
             to = "answered" => req[r].what # "audit" \/ Role[req[r].who] # "admin",
             to = "denied" => ~ AT!Ranked(r, AT!MinRole[req[r].what])
      PROVE  Goal
  <2>1. q # r => req'[q] = req[q]
    BY <1>1, <1>3, Moves
  <2>2. req'[r].pc = to /\ req'[r].who = req[r].who /\ req'[r].what = req[r].what
    BY <1>1, <1>3, Moves
  <2> QED
    BY <1>3, <2>1, <2>2 DEF Watched
<1>4. ASSUME NEW r \in AT!Requests, AT!Unauthorized(r) PROVE Goal
  BY <1>3, <1>4 DEF AT!Unauthorized
<1>5. ASSUME NEW r \in AT!Requests, AT!Permit(r) PROVE Goal
  BY <1>3, <1>5 DEF AT!Permit
<1>6. ASSUME NEW r \in AT!Requests, AT!Record(r) \/ AT!RecordFails(r) PROVE Goal
  <2>1. CASE req[r].pc = "denied"
    <3>1. AT!Move(r, "answered")
      BY <1>6, <2>1 DEF AT!Record, AT!RecordFails, AT!Audited
    <3>2. req[r].what = "audit" => Role[req[r].who] # "admin"
      BY <2>1, NoAdmin DEF SelfInv
    <3> QED
      BY <1>3, <3>1, <3>2
  <2>2. CASE req[r].pc # "denied"
    <3>1. AT!Move(r, "handle")
      BY <1>6, <2>2 DEF AT!Record, AT!RecordFails, AT!Audited
    <3> QED
      BY <1>3, <3>1
  <2> QED
    BY <2>1, <2>2
<1>7. ASSUME NEW r \in AT!Requests, AT!Show(r) PROVE Goal
  <2>1. req' = [p \in AT!Requests |->
                  IF p = r THEN [req[r] EXCEPT !.pc = "answered", !.got = AT!Contents(r)] ELSE req[p]]
    BY <1>1, <1>7 DEF AT!Show, Shape
  <2>2. [req[r] EXCEPT !.pc = "answered", !.got = AT!Contents(r)]
          = Request("answered", req[r].who, req[r].what, AT!Contents(r), req[r].tail)
    BY <1>1, Edited DEF Shape
  <2>3. req[r].what # "audit"
    BY <1>7 DEF AT!Show
  <2> QED
    BY <2>1, <2>2, <2>3, Fields DEF Watched
<1>8. ASSUME NEW r \in AT!Requests, AT!Change(r) PROVE Goal
  <2>1. AT!Move(r, "answered") /\ req[r].what # "audit"
    BY <1>8 DEF AT!Change, AT!Changing
  <2> QED
    BY <1>3, <2>1
<1>9. ASSUME NEW r \in AT!Requests, AT!ShowAudit(r) PROVE Goal
  <2>1. req' = [p \in AT!Requests |->
                  IF p = r THEN [req[r] EXCEPT !.pc = "answered", !.tail = AT!TailAudit(trail)] ELSE req[p]]
    BY <1>1, <1>9 DEF AT!ShowAudit, Shape
  <2>2. [req[r] EXCEPT !.pc = "answered", !.tail = AT!TailAudit(trail)]
          = Request("answered", req[r].who, req[r].what, req[r].got, AT!TailAudit(trail))
    BY <1>1, Shown DEF Shape
  <2>3. trail' = trail /\ OnFile(r)
    BY <1>9 DEF AT!ShowAudit, AuditInv, Entered
  <2> QED
    BY <2>1, <2>2, <2>3, Fields
<1>10. ASSUME AT!Crash PROVE Goal
  <2> DEFINE Gone == Request("cut", "", "", {}, << >>)
  <2>1. req' = [r \in AT!Requests |->
                 IF req[r].pc \in {"none", "answered"} THEN req[r] ELSE Gone]
    BY <1>10, FreshFields DEF AT!Crash
  <2>2. Gone.pc = "cut"
    BY DEF Request
  <2> HIDE DEF Gone
  <2>3. req'[q] = req[q] \/ req'[q] = Gone
    BY <2>1
  <2>4. req'[q] = req[q] \/ req'[q].pc = "cut"
    BY <2>2, <2>3
  <2> QED
    BY <2>4 DEF Watched
<1>11. ASSUME AT!Flush \/ UNCHANGED AT!vars PROVE Goal
  BY <1>11 DEF AT!Flush, AT!vars
<1> HIDE DEF Goal
<1>12. ASSUME NEW r \in AT!Requests, AT!Serve(r) PROVE Goal
  <2>1. CASE \E c \in Callers, e \in Asked : AT!Arrive(r, c, e)
    BY <1>2, <2>1
  <2>2. CASE ~ \E c \in Callers, e \in Asked : AT!Arrive(r, c, e)
    BY <1>4, <1>5, <1>6, <1>7, <1>8, <1>9, <1>12, <2>2 DEF AT!Serve
  <2> QED
    BY <2>1, <2>2
<1>13. Goal
  BY <1>10, <1>11, <1>12 DEF AT!Next
<1> QED
  BY <1>13 DEF Goal

\* Every step keeps the invariant of the readers.
LEMMA SelfStep ==
  ASSUME AT!WindowAssumption, AuditInv, SelfInv, [AT!Next]_(AT!vars)
  PROVE  SelfInv'
<1>1. lost' = {} => \E k \in Nat : WholeLines(trail', k)
  <2> SUFFICES ASSUME lost' = {} PROVE \E k \in Nat : WholeLines(trail', k)
    OBVIOUS
  <2>1. PICK k \in Nat : WholeLines(trail, k)
    BY FileStep DEF SelfInv
  <2>2. CASE trail' = trail
    BY <2>1, <2>2
  <2>3. CASE trail' # trail
    <3>1. PICK r \in AT!Requests : trail' = trail \o <<r, AT!LineEnd>>
      BY <2>3, FileStep
    <3>2. WholeLines(trail', k + 1) /\ k + 1 \in Nat
      BY <2>1, <3>1, LineMore
    <3> QED
      BY <3>2
  <2> QED
    BY <2>2, <2>3
<1>2. ASSUME NEW q \in AT!Requests PROVE (req[q].pc = "denied" => ~ AT!Ranked(q, AT!MinRole[req[q].what]))'
  BY RequestStep DEF SelfInv, AT!Ranked
<1>3. ASSUME lost' = {}, NEW q \in AT!Requests, Watched(req'[q])
      PROVE  q \in Range(req'[q].tail) \/ Pushed(trail', q)
  <2>1. lost = {}
    BY <1>3, FileStep
  <2>2. PICK k \in Nat : WholeLines(trail, k)
    BY <2>1 DEF SelfInv
  <2>3. CASE req'[q] = req[q]
    <3>1. q \in Range(req'[q].tail) \/ Pushed(trail, q)
      BY <1>3, <2>1, <2>3 DEF SelfInv
    <3>2. Pushed(trail, q) => Pushed(trail', q)
      BY <1>3, <2>2, FileStep, LineMore
    <3> QED
      BY <3>1, <3>2
  <2>4. CASE req'[q] # req[q]
    <3>1. req'[q].tail = AT!TailAudit(trail) /\ trail' = trail /\ q \in Range(trail)
      BY <1>3, <2>1, <2>4, RequestStep DEF OnFile
    <3> QED
      BY <2>2, <3>1, TailShows
  <2> QED
    BY <2>3, <2>4
<1> QED
  BY <1>1, <1>2, <1>3 DEF SelfInv, Watched, Pushed, After

\* Of an admin who reads the trail, while no write fails, the entry of that
\* very request is shown, unless a window of later ones has pushed it out,
\* however many requests are served beside it (requireRole, TailAudit).
THEOREM ReaderSeesItselfAlways ==
  ASSUME AT!WindowAssumption
  PROVE  AT!Spec => []ReaderSeesItself
<1>1. AT!Init => AuditInv /\ SelfInv
  <2> SUFFICES ASSUME AT!Init PROVE SelfInv
    BY InitAudit
  <2>1. WholeLines(trail, 0) /\ 0 \in Nat
    <3>1. trail = << >> /\ << >> \in Seq(Int) /\ Len(<< >>) = 0
      BY DEF AT!Init
    <3>2. Len(trail) = 2 * 0 /\ trail \in Seq(Int) /\ 0 \in Nat
      BY <3>1
    <3>3. \A n \in 1 .. 0 : FALSE
      OBVIOUS
    <3> QED
      BY <3>2, <3>3 DEF WholeLines
  <2>2. \A r \in AT!Requests : req[r].pc = "none"
    BY DEF AT!Init, AT!Fresh
  <2> QED
    BY <2>1, <2>2 DEF SelfInv, Watched
<1>2. AuditInv /\ SelfInv /\ [AT!Next]_(AT!vars) => AuditInv' /\ SelfInv'
  BY StepAudit, SelfStep
<1>3. SelfInv => ReaderSeesItself
  BY SameCount, SameRange DEF SelfInv, Watched, Pushed, After, ReaderSeesItself,
     AT!ReaderSeesItself
<1> QED
  BY <1>1, <1>2, <1>3, PTL DEF AT!Spec

-----------------------------------------------------------------------------
(***************************************************************************)
(* Types.                                                                  *)
(***************************************************************************)
\* What a request holds at each place.
TypedRequest(x) ==
  /\ x.pc \in {"none", "check", "permitted", "denied", "handle", "answered", "cut"}
  /\ x.pc \notin {"none", "cut"} => x.who \in Callers /\ x.what \in Asked
  /\ x.got \subseteq {"inventory", "edges"}
  /\ \A n \in DOMAIN x.tail : x.tail[n] \in AT!Requests

\* What the file is made of, and the conjuncts of TypeOK.
Entries(s) == \A n \in DOMAIN s : s[n] \in AT!Requests \cup {AT!LineEnd, AT!Piece}

Typed ==
  /\ \A r \in AT!Requests : TypedRequest(req[r])
  /\ mem \subseteq AT!Requests /\ saved \subseteq mem
  /\ Entries(trail)
  /\ lost \subseteq AT!Requests

\* The tail of the file shows entries, whatever the file holds.
LEMMA TailType ==
  ASSUME NEW s \in Seq(Int), Entries(s)
  PROVE  \A i \in DOMAIN AT!TailAudit(s) : AT!TailAudit(s)[i] \in AT!Requests
<1> DEFINE shown == {n \in 1 .. Len(s) : AT!IsEntry(s, n) /\ AT!LineOf(s, n) + Window >= AT!Lines(s)}
           rank(n) == Cardinality({m \in shown : m <= n})
<1>1. AT!TailAudit(s) = [i \in 1 .. Cardinality(shown) |-> s[CHOOSE n \in shown : rank(n) = i]]
  BY TailIs
<1>2. shown \in SUBSET Nat /\ IsFiniteSet(shown)
  <2>1. Len(s) \in Nat
    OBVIOUS
  <2>2. shown \in SUBSET (1 .. Len(s)) /\ IsFiniteSet(1 .. Len(s))
    BY <2>1, FS_Interval
  <2>3. shown \in SUBSET Nat
    BY <2>1
  <2> HIDE DEF shown
  <2> QED
    BY <2>2, <2>3, FS_Subset
<1>3. \A n \in shown : s[n] \in AT!Requests
  <2> SUFFICES ASSUME NEW n \in 1 .. Len(s), AT!IsEntry(s, n) PROVE s[n] \in AT!Requests
    OBVIOUS
  <2>1. n \in DOMAIN s
    OBVIOUS
  <2> QED
    BY <2>1 DEF AT!IsEntry, Entries
<1> HIDE DEF shown
<1>4. ASSUME NEW i \in 1 .. Cardinality(shown) PROVE s[CHOOSE n \in shown : rank(n) = i] \in AT!Requests
  <2>1. \E n \in shown : rank(n) = i
    BY <1>2, RankOnto
  <2> HIDE DEF rank
  <2>2. (CHOOSE n \in shown : rank(n) = i) \in shown
    BY <2>1
  <2> QED
    BY <1>3, <2>2
<1> HIDE DEF rank
<1> QED
  BY <1>1, <1>4

\* What is written keeps the file one of entries, pieces and line ends.
LEMMA EntriesGrow ==
  ASSUME NEW s \in Seq(Int), NEW t \in Seq(Int), Entries(s), Entries(t)
  PROVE  Entries(s \o t)
<1>1. Range(s) \cup Range(t) \subseteq AT!Requests \cup {AT!LineEnd, AT!Piece}
  BY DEF Entries, Range
<1>2. Range(s \o t) \subseteq AT!Requests \cup {AT!LineEnd, AT!Piece}
  BY <1>1, Grows
<1> QED
  BY <1>2 DEF Entries, Range

\* What a step makes of a request.
LEMMA TypedStep ==
  ASSUME AuditInv, Typed, [AT!Next]_(AT!vars), NEW q \in AT!Requests
  PROVE  TypedRequest(req'[q])
<1> DEFINE Goal == TypedRequest(req'[q])
<1>1. Shape /\ TypedRequest(req[q])
  BY DEF AuditInv, Typed
<1>2. ASSUME NEW r \in AT!Requests, NEW c \in Callers, NEW e \in Asked, AT!Arrive(r, c, e) PROVE Goal
  <2> DEFINE New == Request("check", c, e, {}, << >>)
  <2>1. req' = [p \in AT!Requests |-> IF p = r THEN New ELSE req[p]]
    BY <1>1, <1>2, FreshFields DEF AT!Arrive, Shape
  <2>2. TypedRequest(New)
    <3>1. New.pc = "check" /\ New.who = c /\ New.what = e /\ New.got = {} /\ New.tail = << >>
      BY DEF Request
    <3> HIDE DEF New
    <3> QED
      BY <3>1 DEF TypedRequest
  <2> HIDE DEF New
  <2>3. req'[q] = New \/ req'[q] = req[q]
    BY <2>1
  <2> QED
    BY <1>1, <2>2, <2>3
<1>3. ASSUME NEW r \in AT!Requests, NEW to \in {"permitted", "denied", "handle", "answered"},
             AT!Move(r, to), req[r].pc \notin {"none", "cut"}
      PROVE  Goal
  <2>1. q # r => req'[q] = req[q]
    BY <1>1, <1>3, Moves
  <2>2. req'[r].pc = to /\ req'[r].who = req[r].who /\ req'[r].what = req[r].what /\ req'[r].got = req[r].got
    BY <1>1, <1>3, Moves
  <2>3. req'[r].tail = req[r].tail
    <3>1. req'[r] = [req[r] EXCEPT !.pc = to]
      BY <1>1, <1>3 DEF AT!Move, Shape
    <3>2. [req[r] EXCEPT !.pc = to] = Request(to, req[r].who, req[r].what, req[r].got, req[r].tail)
      BY <1>1, Edited DEF Shape
    <3> QED
      BY <3>1, <3>2, Fields
  <2>4. TypedRequest(req[r])
    BY DEF Typed
  <2>5. CASE q = r
    BY <1>3, <2>2, <2>3, <2>4, <2>5 DEF TypedRequest
  <2> QED
    BY <1>1, <2>1, <2>5
<1>4. ASSUME NEW r \in AT!Requests, AT!Unauthorized(r) \/ AT!Permit(r) PROVE Goal
  BY <1>3, <1>4 DEF AT!Unauthorized, AT!Permit
<1>5. ASSUME NEW r \in AT!Requests, AT!Record(r) \/ AT!RecordFails(r) PROVE Goal
  BY <1>3, <1>5 DEF AT!Record, AT!RecordFails, AT!Audited
<1>6. ASSUME NEW r \in AT!Requests, AT!Change(r) PROVE Goal
  BY <1>3, <1>6 DEF AT!Change
<1>7. ASSUME NEW r \in AT!Requests, NEW got, got \subseteq {"inventory", "edges"}, NEW tail,
             \A n \in DOMAIN tail : tail[n] \in AT!Requests, req[r].pc = "handle",
             req' = [p \in AT!Requests |-> IF p = r
                       THEN Request("answered", req[r].who, req[r].what, got, tail) ELSE req[p]]
      PROVE  Goal
  <2> DEFINE New == Request("answered", req[r].who, req[r].what, got, tail)
  <2>1. New.pc = "answered" /\ New.who = req[r].who /\ New.what = req[r].what /\ New.got = got
        /\ New.tail = tail
    BY DEF Request
  <2>2. req'[q] = New \/ req'[q] = req[q]
    BY <1>7
  <2> HIDE DEF New
  <2>3. TypedRequest(New)
    BY <1>7, <2>1 DEF Typed, TypedRequest
  <2> QED
    BY <1>1, <2>2, <2>3
<1>8. ASSUME NEW r \in AT!Requests, AT!Show(r) PROVE Goal
  <2>1. req' = [p \in AT!Requests |->
                  IF p = r THEN [req[r] EXCEPT !.pc = "answered", !.got = AT!Contents(r)] ELSE req[p]]
    BY <1>1, <1>8 DEF AT!Show, Shape
  <2>2. [req[r] EXCEPT !.pc = "answered", !.got = AT!Contents(r)]
          = Request("answered", req[r].who, req[r].what, AT!Contents(r), req[r].tail)
    BY <1>1, Edited DEF Shape
  <2>3. AT!Contents(r) \subseteq {"inventory", "edges"}
    BY DEF AT!Contents
  <2>4. req[r].pc = "handle" /\ \A n \in DOMAIN req[r].tail : req[r].tail[n] \in AT!Requests
    BY <1>8 DEF AT!Show, Typed, TypedRequest
  <2> QED
    BY <1>7, <2>1, <2>2, <2>3, <2>4
<1>9. ASSUME NEW r \in AT!Requests, AT!ShowAudit(r) PROVE Goal
  <2> DEFINE t == AT!TailAudit(trail)
  <2>1. req' = [p \in AT!Requests |->
                  IF p = r THEN [req[r] EXCEPT !.pc = "answered", !.tail = t] ELSE req[p]]
    BY <1>1, <1>9 DEF AT!ShowAudit, Shape
  <2>2. [req[r] EXCEPT !.pc = "answered", !.tail = t]
          = Request("answered", req[r].who, req[r].what, req[r].got, t)
    BY <1>1, Shown DEF Shape
  <2>3. \A n \in DOMAIN t : t[n] \in AT!Requests
    BY <1>1, TailType DEF Shape, Typed
  <2>4. req[r].pc = "handle" /\ req[r].got \subseteq {"inventory", "edges"}
    BY <1>9 DEF AT!ShowAudit, Typed, TypedRequest
  <2> HIDE DEF t
  <2>5. req' = [p \in AT!Requests |-> IF p = r
                  THEN Request("answered", req[r].who, req[r].what, req[r].got, t) ELSE req[p]]
    BY <2>1, <2>2
  <2> QED
    BY <1>7, <2>3, <2>4, <2>5
<1>10. ASSUME AT!Crash PROVE Goal
  <2> DEFINE Gone == Request("cut", "", "", {}, << >>)
  <2>1. req' = [r \in AT!Requests |->
                 IF req[r].pc \in {"none", "answered"} THEN req[r] ELSE Gone]
    BY <1>10, FreshFields DEF AT!Crash
  <2>2. Gone.pc = "cut" /\ Gone.got = {} /\ Gone.tail = << >>
    BY DEF Request
  <2> HIDE DEF Gone
  <2>3. req'[q] = req[q] \/ req'[q] = Gone
    BY <2>1
  <2>4. TypedRequest(Gone)
    BY <2>2 DEF TypedRequest
  <2> QED
    BY <1>1, <2>3, <2>4
<1>11. ASSUME AT!Flush \/ UNCHANGED AT!vars PROVE Goal
  BY <1>1, <1>11 DEF AT!Flush, AT!vars
<1> HIDE DEF Goal
<1>12. ASSUME NEW r \in AT!Requests, AT!Serve(r) PROVE Goal
  <2>1. CASE \E c \in Callers, e \in Asked : AT!Arrive(r, c, e)
    BY <1>2, <2>1
  <2>2. CASE ~ \E c \in Callers, e \in Asked : AT!Arrive(r, c, e)
    BY <1>4, <1>5, <1>6, <1>8, <1>9, <1>12, <2>2 DEF AT!Serve
  <2> QED
    BY <2>1, <2>2
<1>13. Goal
  BY <1>10, <1>11, <1>12 DEF AT!Next
<1> QED
  BY <1>13 DEF Goal

\* What a step makes of the store, the file and the entries that were lost.
LEMMA FilesTyped ==
  ASSUME AuditInv, Typed, [AT!Next]_(AT!vars)
  PROVE  mem' \subseteq AT!Requests /\ saved' \subseteq mem' /\ Entries(trail') /\ lost' \subseteq AT!Requests
<1>1. mem \subseteq AT!Requests /\ saved \subseteq mem /\ Entries(trail) /\ lost \subseteq AT!Requests
      /\ trail \in Seq(Int)
  BY DEF AuditInv, Shape, Typed
<1>2. ASSUME NEW r \in AT!Requests, AT!Record(r) \/ AT!RecordFails(r) PROVE Entries(trail')
  <2>1. r \in Int /\ AT!LineEnd \in Int /\ AT!Piece \in Int
    BY DEF AT!Requests, AT!LineEnd, AT!Piece
  <2>2. << >> \in Seq(Int) /\ <<AT!Piece>> \in Seq(Int) /\ <<r>> \in Seq(Int) /\ <<r, AT!LineEnd>> \in Seq(Int)
    BY <2>1
  <2>3. Entries(<< >>)
    BY DEF Entries
  <2>4. Entries(<<AT!Piece>>) /\ Entries(<<r>>)
    BY DEF Entries
  <2>5. Entries(<<r, AT!LineEnd>>)
    BY DEF Entries
  <2>6. ASSUME NEW piece \in Seq(Int), Entries(piece), trail' = trail \o piece PROVE Entries(trail')
    BY <1>1, <2>6, EntriesGrow
  <2>7. CASE AT!Record(r)
    <3>1. trail' = trail \o <<r, AT!LineEnd>>
      BY <2>7 DEF AT!Record
    <3> QED
      BY <2>2, <2>5, <2>6, <3>1
  <2>8. CASE AT!RecordFails(r)
    <3>1. trail' = trail \o << >> \/ trail' = trail \o <<AT!Piece>> \/ trail' = trail \o <<r>>
      BY <2>8 DEF AT!RecordFails
    <3> QED
      BY <2>2, <2>3, <2>4, <2>6, <3>1
  <2> QED
    BY <1>2, <2>7, <2>8
<1>3. ASSUME NEW r \in AT!Requests, AT!Record(r) \/ AT!RecordFails(r)
      PROVE  mem' = mem /\ saved' = saved /\ lost' \subseteq AT!Requests
  BY <1>1, <1>3 DEF AT!Record, AT!RecordFails
<1>4. ASSUME NEW r \in AT!Requests, AT!Serve(r), ~ AT!Record(r), ~ AT!RecordFails(r)
      PROVE  trail' = trail /\ lost' = lost /\ saved' = saved /\ (mem' = mem \/ mem' = mem \cup {r})
  BY <1>4 DEF AT!Serve, AT!Arrive, AT!Unauthorized, AT!Permit, AT!Show, AT!Change, AT!ShowAudit
<1>5. CASE AT!Flush \/ AT!Crash \/ UNCHANGED AT!vars
  BY <1>1, <1>5 DEF AT!Flush, AT!Crash, AT!vars
<1>6. ASSUME NEW r \in AT!Requests, AT!Serve(r)
      PROVE  mem' \subseteq AT!Requests /\ saved' \subseteq mem' /\ Entries(trail') /\ lost' \subseteq AT!Requests
  BY <1>1, <1>2, <1>3, <1>4, <1>6
<1> QED
  BY <1>5, <1>6 DEF AT!Next

LEMMA AuditTypedStart ==
  ASSUME AT!Init
  PROVE  AuditInv /\ Typed
<1> DEFINE New == Request("none", "", "", {}, << >>)
<1>1. /\ req = [r \in AT!Requests |-> New] /\ mem = {} /\ saved = {} /\ trail = << >>
      /\ lost = {}
  BY FreshFields DEF AT!Init
<1>2. New.pc = "none" /\ New.got = {} /\ New.tail = << >>
  BY DEF Request
<1> HIDE DEF New
<1>3. TypedRequest(New)
  BY <1>2 DEF TypedRequest
<1> QED
  BY <1>1, <1>3, InitAudit DEF Typed, Entries

LEMMA AuditTypedStep ==
  ASSUME AuditInv, Typed, [AT!Next]_(AT!vars)
  PROVE  AuditInv' /\ Typed'
<1>1. AuditInv'
  BY StepAudit
<1>2. Typed'
  BY TypedStep, FilesTyped DEF Typed, TypedRequest, Entries
<1> QED
  BY <1>1, <1>2

LEMMA AuditTypes ==
  ASSUME Typed
  PROVE  AT!TypeOK
BY DEF Typed, TypedRequest, Entries, AT!TypeOK

\* Requests are at a place of their course, with a caller and an endpoint; the
\* file holds entries, pieces and line ends, and a reader is shown entries
\* only; the snapshot holds no change that the store does not.
THEOREM AuditTypeCorrect == AT!Spec => []AT!TypeOK
BY AuditTypedStart, AuditTypedStep, AuditTypes, PTL DEF AT!Spec

\* Whichever part a behaviour of ServerData belongs to, the three parts that
\* have types keep them.
THEOREM PartsTypeCorrect ==
  ASSUME PayloadAssumption, KeywordsAssumption, RS!HostAssumption, RS!CrashAssumption
  PROVE  DataSpec => []PartsTypeOK
<1> DEFINE Inv == RiskInv /\ ClosedInv /\ AuditInv /\ Typed
<1>1. DataInit => Inv
  BY RiskInit, InitClosed, AuditTypedStart DEF DataInit
<1>2. [DataNext]_dataVars => [Next]_vars /\ [RS!Next]_(RS!vars) /\ [AT!Next]_(AT!vars)
  BY DEF DataNext, dataVars, riskVars, reportVars, auditVars, RS!vars, AT!vars
<1>3. Inv /\ [DataNext]_dataVars => Inv'
  BY <1>2, RiskStep, StepClosed, AuditTypedStep
<1>4. Inv => PartsTypeOK
  BY RiskTypes, AuditTypes DEF ClosedInv, PartsTypeOK
<1> QED
  BY <1>1, <1>3, <1>4, PTL DEF DataSpec

-----------------------------------------------------------------------------
(***************************************************************************)
(* The PDF of a report, for any findings, instances and sizes: no word of  *)
(* an explanation is lost when it is wrapped, and a reader who follows the *)
(* references from the root of the document finds every line.              *)
(*                                                                         *)
(* The lines are followed through the words that those about one finding   *)
(* have together, and through what has been put out after each word (wrap).*)
(* The pages are followed through the numbers they get: the k-th page is   *)
(* object 3 + 2k and refers to the one before it, and the texts of the     *)
(* pages in a row are the lines so far.                                    *)
(***************************************************************************)
\* ReportText flattens as the library does.
LEMMA SameRow == \A s : RT!FlattenSeq(s) = FlattenSeq(s)
BY DEF RT!FlattenSeq, FlattenSeq

\* The smaller of two numbers.
LEMMA SmallerOf ==
  ASSUME NEW a \in Nat, NEW b \in Nat
  PROVE  RT!Min({a, b}) = IF a <= b THEN a ELSE b
<1> DEFINE m == IF a <= b THEN a ELSE b
<1>1. m \in {a, b} /\ \A y \in {a, b} : m <= y
  OBVIOUS
<1>2. \A x \in {a, b} : (\A y \in {a, b} : x <= y) => x = m
  OBVIOUS
<1> HIDE DEF m
<1>3. RT!Min({a, b}) = CHOOSE x \in {a, b} : \A y \in {a, b} : x <= y
  BY DEF RT!Min
<1>4. RT!Min({a, b}) = m
  BY <1>1, <1>2, <1>3
<1> QED
  BY <1>4 DEF m

\* The bytes of each word and of what separates it from the next.
Ones(c) == [k \in DOMAIN c |-> c[k] + 1]

\* The bytes of a line, as a sum.
LEMMA BytesIs ==
  ASSUME NEW c \in Seq(Nat)
  PROVE  RT!Bytes(c) = IF c = << >> THEN 0 ELSE SumOver(Ones(c), 1 .. Len(c)) - 1
<1> DEFINE S == DOMAIN c
           F == Ones(c)
<1>1. \A k \in S : F[k] = c[k] + 1
  BY DEF Ones
<1> DEFINE Lib(f) == f = [s \in SUBSET S |-> IF s = {} THEN 0
                            ELSE LET x == CHOOSE x \in s : TRUE IN (c[x] + 1) + f[s \ {x}]]
<1>2. RT!Bytes(c) = IF c = << >> THEN 0 ELSE (CHOOSE f : Lib(f))[S] - 1
  BY DEF RT!Bytes, RT!MapThenSumSet, RT!MapThenFoldSet
<1> HIDE DEF S, F
<1>3. \A f : Lib(f) <=> IsSum(f, F, S)
  <2> SUFFICES ASSUME NEW f PROVE Lib(f) <=> IsSum(f, F, S)
    OBVIOUS
  <2>1. ASSUME NEW s \in SUBSET S
        PROVE  NextSum(f, F, s) = IF s = {} THEN 0
                 ELSE LET x == CHOOSE x \in s : TRUE IN (c[x] + 1) + f[s \ {x}]
    <3>1. CASE s = {}
      BY <3>1 DEF NextSum
    <3>2. CASE s # {}
      <4> DEFINE x == CHOOSE x \in s : TRUE
      <4>1. x \in S
        BY <3>2
      <4>2. F[x] = c[x] + 1
        BY <1>1, <4>1
      <4> QED
        BY <3>2, <4>2 DEF NextSum
    <3> QED
      BY <3>1, <3>2
  <2> QED
    BY <2>1 DEF IsSum
<1>4. SumOver(F, S) = (CHOOSE f : IsSum(f, F, S))[S]
  BY DEF SumOver, MapThenSumSet, MapThenFoldSet, IsSum, NextSum
<1>5. (CHOOSE f : Lib(f)) = (CHOOSE f : IsSum(f, F, S))
  <2> HIDE DEF Lib
  <2> QED
    BY <1>3
<1>6. RT!Bytes(c) = IF c = << >> THEN 0 ELSE SumOver(F, S) - 1
  BY <1>2, <1>4, <1>5
<1>7. S = 1 .. Len(c)
  BY DEF S
<1> QED
  BY <1>6, <1>7 DEF F

\* One more word, and what separates it from the others.
LEMMA BytesNext ==
  ASSUME NEW c \in Seq(Nat), NEW w \in Nat
  PROVE  /\ RT!Bytes(c) \in Int
         /\ RT!Bytes(Append(c, w)) = IF c = << >> THEN w ELSE RT!Bytes(c) + w + 1
<1> DEFINE d == Append(c, w)
           n == Len(c)
           m == n + 1
           D == 1 .. m
           C == 1 .. n
           F == Ones(d)
           G == Ones(c)
<1>1. n \in Nat /\ d \in Seq(Nat) /\ Len(d) = m /\ d # << >> /\ d[m] = w /\ \A k \in C : d[k] = c[k]
  OBVIOUS
<1>2. IsFiniteSet(D) /\ IsFiniteSet(C)
  BY <1>1, FS_Interval
<1>3. F \in [D -> Nat] /\ G \in [C -> Nat] /\ F[m] = w + 1 /\ \A k \in C : F[k] = G[k]
  BY <1>1 DEF Ones
<1>4. C \in SUBSET D /\ m \in D /\ D \ {m} = C /\ D \in SUBSET D /\ C \in SUBSET C
  BY <1>1
<1>5. RT!Bytes(d) = SumOver(F, D) - 1 /\ RT!Bytes(c) = IF c = << >> THEN 0 ELSE SumOver(G, C) - 1
  BY <1>1, BytesIs
<1>6. c = << >> => C = {}
  BY <1>1
<1> HIDE DEF d, D, C, F, G, m, n
<1>7. SumOver(F, D) = F[m] + SumOver(F, C) /\ SumOver(F, C) \in Nat
  BY <1>2, <1>3, <1>4, SumNext
<1>8. SumOver(F, C) = SumOver(G, C)
  BY <1>2, <1>3, SumSame
<1>9. c = << >> => SumOver(F, C) = 0
  BY <1>6, SumNone
<1>10. RT!Bytes(d) = IF c = << >> THEN w ELSE RT!Bytes(c) + w + 1
  BY <1>3, <1>5, <1>7, <1>8, <1>9
<1> QED
  BY <1>5, <1>7, <1>8, <1>10 DEF d

-----------------------------------------------------------------------------
\* What a line may be: short enough, or one word.
InWidth(c) == RT!Bytes(c) <= Width \/ Len(c) = 1

\* What wrap makes of one more word.
AfterWord(s, w) ==
  IF RT!Bytes(s.cur) + w + 1 > Width
  THEN [out |-> Append(s.out, s.cur), cur |-> <<w>>]
  ELSE [s EXCEPT !.cur = Append(@, w)]

\* f has what wrap has made after each of the first k words.
IsWrap(f, words, k) ==
  f = [n \in 0 .. k |-> IF n = 0 THEN [out |-> << >>, cur |-> << >>] ELSE AfterWord(f[n - 1], words[n])]

\* There is such a function: the recursive definition in wrap is sound.
LEMMA WrapExists ==
  ASSUME NEW words, NEW k \in Nat
  PROVE  \E f : IsWrap(f, words, k)
<1> DEFINE Good == {n \in Nat : \E f : IsWrap(f, words, n)}
<1>1. 0 \in Good
  <2> DEFINE f == [n \in 0 .. 0 |-> [out |-> << >>, cur |-> << >>]]
  <2>1. IsWrap(f, words, 0)
    BY DEF IsWrap
  <2> QED
    BY <2>1
<1>2. \A n \in Nat : n \in Good => n + 1 \in Good
  <2> SUFFICES ASSUME NEW n \in Nat, n \in Good PROVE n + 1 \in Good
    OBVIOUS
  <2>1. PICK e : IsWrap(e, words, n)
    OBVIOUS
  <2> DEFINE piece(h, i) == IF i = 0 THEN [out |-> << >>, cur |-> << >>] ELSE AfterWord(h[i - 1], words[i])
             g == [i \in 0 .. n + 1 |-> IF i <= n THEN e[i] ELSE piece(e, i)]
             h == [i \in 0 .. n + 1 |-> piece(g, i)]
  <2>2. \A i \in 0 .. n + 1 : g[i] = h[i]
    <3> SUFFICES ASSUME NEW i \in 0 .. n + 1 PROVE g[i] = piece(g, i)
      OBVIOUS
    <3>1. CASE i = 0
      BY <2>1, <3>1 DEF IsWrap
    <3>2. CASE i # 0
      <4>1. i - 1 \in 0 .. n + 1 /\ i - 1 <= n
        BY <3>2
      <4>2. g[i - 1] = e[i - 1]
        BY <4>1
      <4>3. CASE i <= n
        <5>1. i \in 0 .. n
          BY <4>3
        <5>2. e[i] = piece(e, i)
          BY <2>1, <5>1 DEF IsWrap
        <5> QED
          BY <3>2, <4>2, <4>3, <5>2
      <4> QED
        BY <3>2, <4>2, <4>3
    <3> QED
      BY <3>1, <3>2
  <2>3. g = h
    BY <2>2
  <2>4. IsWrap(g, words, n + 1)
    BY <2>3 DEF IsWrap
  <2> QED
    BY <2>4
<1>3. Nat \subseteq Good
  <2> HIDE DEF Good
  <2> QED
    BY <1>1, <1>2, NatSetInduction
<1> QED
  BY <1>3

\* wrap is what has been put out after the last word, and the line at hand.
LEMMA WrapParts ==
  ASSUME NEW words \in Seq(Nat)
  PROVE  \E f : /\ IsWrap(f, words, Len(words))
                /\ RT!wrap(words) = LET end == f[Len(words)]
                                    IN  IF end.cur = << >> THEN end.out ELSE Append(end.out, end.cur)
<1> DEFINE f == CHOOSE g : IsWrap(g, words, Len(words))
<1>1. IsWrap(f, words, Len(words))
  <2>1. Len(words) \in Nat
    OBVIOUS
  <2> QED
    BY <2>1, WrapExists
<1>2. RT!wrap(words) = LET end == f[Len(words)]
                       IN  IF end.cur = << >> THEN end.out ELSE Append(end.out, end.cur)
  BY DEF RT!wrap, IsWrap, AfterWord
<1> QED
  BY <1>1, <1>2

\* What has been put out and the line at hand, after some words, hold these.
Holds(s, words) ==
  /\ s = [out |-> s.out, cur |-> s.cur]
  /\ s.out \in Seq(Seq(Nat)) /\ s.cur \in Seq(Nat)
  /\ FlattenSeq(s.out) \o s.cur = words
  /\ InWidth(s.cur) /\ \A k \in 1 .. Len(s.out) : InWidth(s.out[k])

\* As Holds, for what is put together.
LEMMA HoldsIf ==
  ASSUME NEW o \in Seq(Seq(Nat)), NEW c \in Seq(Nat), InWidth(c), \A k \in 1 .. Len(o) : InWidth(o[k])
  PROVE  Holds([out |-> o, cur |-> c], FlattenSeq(o) \o c)
<1> DEFINE r == [out |-> o, cur |-> c]
<1>1. r.out = o /\ r.cur = c /\ r = [out |-> o, cur |-> c]
  OBVIOUS
<1> HIDE DEF r
<1>2. Holds(r, FlattenSeq(o) \o c)
  BY <1>1 DEF Holds
<1> QED
  BY <1>2 DEF r

\* An empty line is short.
LEMMA NoBytes ==
  ASSUME Width \in Nat
  PROVE  InWidth(<< >>) /\ << >> \in Seq(Nat) /\ << >> \in Seq(Seq(Nat))
<1>1. << >> \in Seq(Nat) /\ << >> \in Seq(Seq(Nat))
  OBVIOUS
<1>2. RT!Bytes(<< >>) = 0
  BY DEF RT!Bytes
<1> QED
  BY <1>1, <1>2 DEF InWidth

\* One more word: it goes on the line at hand if there is room.
LEMMA WordKeeps ==
  ASSUME Width \in Nat, NEW words \in Seq(Nat), NEW w \in Nat, NEW s, Holds(s, words)
  PROVE  Holds(AfterWord(s, w), Append(words, w))
<1> DEFINE o == s.out
           c == s.cur
<1>1. /\ s = [out |-> o, cur |-> c] /\ o \in Seq(Seq(Nat)) /\ c \in Seq(Nat)
      /\ FlattenSeq(o) \o c = words
      /\ InWidth(c) /\ \A k \in 1 .. Len(o) : InWidth(o[k])
  BY DEF Holds
<1>2. FlattenSeq(o) \in Seq(Nat)
  BY <1>1, FlatType
<1>3. CASE RT!Bytes(c) + w + 1 > Width
  <2> DEFINE p == Append(o, c)
  <2>1. AfterWord(s, w) = [out |-> p, cur |-> <<w>>]
    BY <1>3 DEF AfterWord
  <2>2. FlattenSeq(p) = words
    BY <1>1, FlatAppend
  <2>3. <<w>> \in Seq(Nat) /\ words \o <<w>> = Append(words, w) /\ Len(<<w>>) = 1
    OBVIOUS
  <2>4. p \in Seq(Seq(Nat)) /\ \A k \in 1 .. Len(p) : InWidth(p[k])
    <3> DEFINE E == Seq(Nat)
    <3>1. o \in Seq(E) /\ c \in E
      BY <1>1
    <3> HIDE DEF E
    <3>2. p \in Seq(E) /\ \A k \in 1 .. Len(p) : p[k] = c \/ (k \in 1 .. Len(o) /\ p[k] = o[k])
      BY <3>1
    <3> QED
      BY <1>1, <3>2 DEF E
  <2> HIDE DEF p
  <2>5. InWidth(<<w>>)
    BY <2>3 DEF InWidth
  <2>6. Holds([out |-> p, cur |-> <<w>>], FlattenSeq(p) \o <<w>>)
    BY <2>3, <2>4, <2>5, HoldsIf
  <2> QED
    BY <2>1, <2>2, <2>3, <2>6
<1>4. CASE ~ (RT!Bytes(c) + w + 1 > Width)
  <2> DEFINE d == Append(c, w)
  <2>1. AfterWord(s, w) = [out |-> o, cur |-> d]
    <3>1. AfterWord(s, w) = [s EXCEPT !.cur = d]
      BY <1>4 DEF AfterWord
    <3> HIDE DEF o, c
    <3>2. s = [out |-> o, cur |-> c]
      BY <1>1
    <3> QED
      BY <3>1, <3>2
  <2>2. d \in Seq(Nat)
    BY <1>1
  <2>3. FlattenSeq(o) \o d = Append(words, w)
    <3> HIDE DEF o, c
    <3>1. FlattenSeq(o) \in Seq(Nat) /\ c \in Seq(Nat) /\ FlattenSeq(o) \o c = words
      BY <1>1, <1>2
    <3> DEFINE x == FlattenSeq(o)
    <3> HIDE DEF x
    <3>2. x \in Seq(Nat) /\ x \o c = words
      BY <3>1 DEF x
    <3>3. x \o Append(c, w) = Append(x \o c, w)
      <4> DEFINE E == Nat
      <4>1. x \in Seq(E) /\ c \in Seq(E) /\ w \in E
        BY <3>1, <3>2
      <4> HIDE DEF E
      <4> QED
        BY <4>1, AppendLast
    <3>4. x \o d = Append(words, w)
      BY <3>2, <3>3
    <3> HIDE DEF d
    <3> QED
      BY <3>4 DEF x
  <2>4. RT!Bytes(c) \in Int /\ RT!Bytes(d) = IF c = << >> THEN w ELSE RT!Bytes(c) + w + 1
    BY <1>1, BytesNext
  <2>5. c = << >> => RT!Bytes(c) = 0
    BY DEF RT!Bytes
  <2>6. RT!Bytes(d) <= Width
    <3> DEFINE b == RT!Bytes(c)
    <3>1. b \in Int /\ ~ (b + w + 1 > Width) /\ (c = << >> => b = 0)
      BY <1>4, <2>4, <2>5
    <3>2. RT!Bytes(d) = IF c = << >> THEN w ELSE b + w + 1
      BY <2>4
    <3> HIDE DEF b, d, c
    <3> QED
      BY <3>1, <3>2
  <2> HIDE DEF d, o, c
  <2>7. InWidth(d)
    BY <2>6 DEF InWidth
  <2>8. Holds([out |-> o, cur |-> d], FlattenSeq(o) \o d)
    BY <1>1, <2>2, <2>7, HoldsIf
  <2> QED
    BY <2>1, <2>3, <2>8
<1> QED
  BY <1>3, <1>4

\* Wrapping an explanation loses no word, and a long line is one word.
LEMMA WrapIsWhole ==
  ASSUME Width \in Nat, NEW words \in Seq(Nat)
  PROVE  /\ RT!wrap(words) \in Seq(Seq(Nat))
         /\ FlattenSeq(RT!wrap(words)) = words
         /\ \A k \in 1 .. Len(RT!wrap(words)) : InWidth(RT!wrap(words)[k])
<1> DEFINE l == Len(words)
<1>1. PICK f : /\ IsWrap(f, words, l)
               /\ RT!wrap(words) = LET end == f[l]
                                   IN  IF end.cur = << >> THEN end.out ELSE Append(end.out, end.cur)
  BY WrapParts
<1>2. l \in Nat
  OBVIOUS
<1> DEFINE Good == {n \in Nat : n <= l => Holds(f[n], SubSeq(words, 1, n))}
<1>3. 0 \in Good
  <2>1. 0 \in 0 .. l
    BY <1>2
  <2>2. f[0] = [out |-> << >>, cur |-> << >>]
    BY <1>1, <2>1 DEF IsWrap
  <2>3. SubSeq(words, 1, 0) = << >> /\ << >> \o << >> = << >>
    OBVIOUS
  <2>4. Holds(f[0], << >>)
    BY <2>2, <2>3, NoBytes, FlatEmpty DEF Holds
  <2> QED
    BY <2>3, <2>4
<1>4. \A n \in Nat : n \in Good => n + 1 \in Good
  <2> SUFFICES ASSUME NEW n \in Nat, n \in Good, n + 1 <= l
               PROVE  Holds(f[n + 1], SubSeq(words, 1, n + 1))
    OBVIOUS
  <2> DEFINE m == n + 1
  <2>1. m \in 0 .. l /\ m # 0 /\ m - 1 = n /\ n <= l /\ m \in 1 .. l
    BY <1>2
  <2>2. Holds(f[n], SubSeq(words, 1, n))
    BY <2>1
  <2> HIDE DEF m
  <2>3. f[m] = AfterWord(f[n], words[m])
    BY <1>1, <2>1 DEF IsWrap
  <2>4. /\ SubSeq(words, 1, n) \in Seq(Nat) /\ words[m] \in Nat
        /\ SubSeq(words, 1, m) = Append(SubSeq(words, 1, n), words[m])
    BY <2>1 DEF m
  <2>5. Holds(f[m], SubSeq(words, 1, m))
    BY <2>2, <2>3, <2>4, WordKeeps
  <2> QED
    BY <2>5 DEF m
<1>5. Nat \subseteq Good
  <2> HIDE DEF Good
  <2> QED
    BY <1>3, <1>4, NatSetInduction
<1>6. SubSeq(words, 1, l) = words /\ l <= l
  BY <1>2
<1>7. Holds(f[l], words)
  BY <1>2, <1>5, <1>6
<1> DEFINE o == f[l].out
           c == f[l].cur
<1>8. /\ o \in Seq(Seq(Nat)) /\ c \in Seq(Nat) /\ FlattenSeq(o) \o c = words
      /\ InWidth(c) /\ \A k \in 1 .. Len(o) : InWidth(o[k])
  BY <1>7 DEF Holds
<1>9. RT!wrap(words) = IF c = << >> THEN o ELSE Append(o, c)
  BY <1>1
<1>10. FlattenSeq(o) \in Seq(Nat)
  BY <1>8, FlatType
<1> HIDE DEF o, c
<1>11. CASE c = << >>
  <2>1. FlattenSeq(o) \o << >> = FlattenSeq(o)
    BY <1>10
  <2> QED
    BY <1>8, <1>9, <1>11, <2>1
<1>12. CASE c # << >>
  <2> DEFINE p == Append(o, c)
  <2>1. FlattenSeq(p) = words
    BY <1>8, FlatAppend
  <2>2. p \in Seq(Seq(Nat)) /\ \A k \in 1 .. Len(p) : InWidth(p[k])
    <3> DEFINE E == Seq(Nat)
    <3>1. o \in Seq(E) /\ c \in E
      BY <1>8
    <3> HIDE DEF E
    <3>2. p \in Seq(E) /\ \A k \in 1 .. Len(p) : p[k] = c \/ (k \in 1 .. Len(o) /\ p[k] = o[k])
      BY <3>1
    <3> QED
      BY <1>8, <3>2 DEF E
  <2>3. RT!wrap(words) = p
    BY <1>9, <1>12
  <2> QED
    BY <2>1, <2>2, <2>3
<1> QED
  BY <1>11, <1>12

-----------------------------------------------------------------------------
Kinds == {"head", "title", "text", "blank", "instance"}

Texts == [kind : Kinds, of : Nat, words : Seq(Nat)]

\* The words of a line, if it is about the n-th finding.
WordsOf(n, t) == IF t.kind = "text" /\ t.of = n THEN t.words ELSE << >>

\* The words of the lines s about the n-th finding.
Words(n, s) == FlattenSeq([k \in DOMAIN s |-> WordsOf(n, s[k])])

\* No line is too long.
AllInWidth(s) == \A k \in DOMAIN s : s[k].kind = "text" => InWidth(s[k].words)

\* Each line has some words, or none.
LEMMA WordsType ==
  ASSUME NEW s \in Seq(Texts), NEW n
  PROVE  /\ [k \in DOMAIN s |-> WordsOf(n, s[k])] \in Seq(Seq(Nat))
         /\ Words(n, s) \in Seq(Nat)
<1> DEFINE E == Seq(Nat)
           v == [k \in DOMAIN s |-> WordsOf(n, s[k])]
<1>1. \A t \in Texts : WordsOf(n, t) \in E
  <2> SUFFICES ASSUME NEW t \in Texts PROVE WordsOf(n, t) \in E
    OBVIOUS
  <2>1. t.words \in E /\ << >> \in E
    BY DEF Texts
  <2> HIDE DEF E
  <2> QED
    BY <2>1 DEF WordsOf
<1>2. v \in Seq(E)
  <2> HIDE DEF E
  <2> QED
    BY <1>1
<1>3. v \in Seq(Seq(Nat))
  BY <1>2
<1>4. FlattenSeq(v) \in Seq(Nat)
  <2> HIDE DEF v
  <2> QED
    BY <1>3, FlatType
<1> QED
  BY <1>3, <1>4 DEF Words

\* The words of lines in a row are those of the first ones and of the others.
LEMMA WordsConcat ==
  ASSUME NEW s \in Seq(Texts), NEW t \in Seq(Texts), NEW n
  PROVE  /\ s \o t \in Seq(Texts)
         /\ Words(n, s \o t) = Words(n, s) \o Words(n, t)
         /\ AllInWidth(s) /\ AllInWidth(t) => AllInWidth(s \o t)
<1> DEFINE u == s \o t
           x == [k \in DOMAIN s |-> WordsOf(n, s[k])]
           y == [k \in DOMAIN t |-> WordsOf(n, t[k])]
           z == [k \in DOMAIN u |-> WordsOf(n, u[k])]
<1>1. /\ u \in Seq(Texts) /\ Len(u) = Len(s) + Len(t)
      /\ Len(s) \in Nat /\ Len(t) \in Nat
      /\ DOMAIN s = 1 .. Len(s) /\ DOMAIN t = 1 .. Len(t) /\ DOMAIN u = 1 .. Len(u)
      /\ \A k \in 1 .. Len(u) : u[k] = IF k <= Len(s) THEN s[k] ELSE t[k - Len(s)]
  OBVIOUS
<1>2. x \in Seq(Seq(Nat)) /\ y \in Seq(Seq(Nat)) /\ z \in Seq(Seq(Nat))
  BY <1>1, WordsType
<1> HIDE DEF u
<1>3. z = x \o y
  <2> DEFINE E == Seq(Nat)
  <2>1. x \in Seq(E) /\ y \in Seq(E) /\ z \in Seq(E)
    BY <1>2
  <2>2. Len(x) = Len(s) /\ Len(y) = Len(t) /\ Len(z) = Len(u)
    BY <1>1, <2>1
  <2>3. \A k \in 1 .. Len(u) : z[k] = IF k <= Len(s) THEN x[k] ELSE y[k - Len(s)]
    <3> SUFFICES ASSUME NEW k \in 1 .. Len(u) PROVE z[k] = IF k <= Len(s) THEN x[k] ELSE y[k - Len(s)]
      OBVIOUS
    <3>1. CASE k <= Len(s)
      BY <1>1, <3>1
    <3>2. CASE ~ (k <= Len(s))
      <4>1. k - Len(s) \in 1 .. Len(t)
        BY <1>1, <3>2
      <4> QED
        BY <1>1, <3>2, <4>1
    <3> QED
      BY <3>1, <3>2
  <2> HIDE DEF E, x, y, z
  <2> DEFINE c == x \o y
  <2>4. /\ c \in Seq(E) /\ Len(c) = Len(u)
        /\ \A k \in 1 .. Len(u) : c[k] = IF k <= Len(s) THEN x[k] ELSE y[k - Len(s)]
    <3>1. c \in Seq(E) /\ Len(c) = Len(x) + Len(y)
      BY <2>1, Longer
    <3>2. \A k \in 1 .. Len(x) + Len(y) : c[k] = IF k <= Len(x) THEN x[k] ELSE y[k - Len(x)]
      BY ONLY <2>1
    <3> HIDE DEF c
    <3> QED
      BY <1>1, <2>2, <3>1, <3>2
  <2> HIDE DEF c
  <2>5. z = [k \in 1 .. Len(u) |-> z[k]] /\ c = [k \in 1 .. Len(u) |-> c[k]]
    BY <2>1, <2>2, <2>4
  <2>6. \A k \in 1 .. Len(u) : z[k] = c[k]
    BY <2>3, <2>4
  <2>7. z = c
    BY <2>5, <2>6
  <2> QED
    BY <2>7 DEF c
<1>4. FlattenSeq(z) = FlattenSeq(x) \o FlattenSeq(y)
  <2> HIDE DEF x, y, z
  <2> QED
    BY <1>2, <1>3, FlatConcat
<1>5. AllInWidth(s) /\ AllInWidth(t) => AllInWidth(u)
  <2> SUFFICES ASSUME AllInWidth(s), AllInWidth(t), NEW k \in DOMAIN u, u[k].kind = "text"
               PROVE  InWidth(u[k].words)
    BY DEF AllInWidth
  <2>1. CASE k <= Len(s)
    <3>1. u[k] = s[k] /\ k \in DOMAIN s
      BY <1>1, <2>1
    <3> QED
      BY <3>1 DEF AllInWidth
  <2>2. CASE ~ (k <= Len(s))
    <3>1. u[k] = t[k - Len(s)] /\ k - Len(s) \in DOMAIN t
      BY <1>1, <2>2
    <3> QED
      BY <3>1 DEF AllInWidth
  <2> QED
    BY <2>1, <2>2
<1> QED
  BY <1>1, <1>4, <1>5 DEF u, Words

\* Lines that are not about a finding have no words of it.
LEMMA NoWords ==
  ASSUME NEW s \in Seq(Texts), NEW n, \A k \in DOMAIN s : ~ (s[k].kind = "text" /\ s[k].of = n)
  PROVE  Words(n, s) = << >>
<1> DEFINE v == [k \in DOMAIN s |-> WordsOf(n, s[k])]
<1>1. \A k \in DOMAIN v : v[k] = << >>
  BY DEF WordsOf
<1>2. DOMAIN v = DOMAIN s /\ DOMAIN s = 1 .. Len(s) /\ Len(s) \in Nat
  OBVIOUS
<1>3. v \in Seq(Seq(Nat))
  BY WordsType
<1>4. Len(v) \in Nat /\ DOMAIN v = 1 .. Len(v)
  <2> DEFINE E == Seq(Nat)
  <2>1. v \in Seq(E)
    BY <1>3
  <2> HIDE DEF E, v
  <2> QED
    BY <2>1
<1>5. v = [k \in DOMAIN v |-> v[k]]
  OBVIOUS
<1> HIDE DEF v
<1>6. FlattenSeq(v) = << >>
  BY <1>1, <1>4, <1>5, FlatNone
<1> QED
  BY <1>6 DEF v, Words

\* The lines about the m-th finding: its title, then its explanation.
Block(m) ==
  <<RT!Text("title", m, << >>)>>
    \o [k \in DOMAIN RT!wrap(found[m]) |-> RT!Text("text", m, RT!wrap(found[m])[k])]

\* They have the words of this finding, and of no other.
LEMMA BlockIs ==
  ASSUME Width \in Nat, found \in Seq(Seq(Nat)), NEW m \in 1 .. Len(found)
  PROVE  /\ Block(m) \in Seq(Texts) /\ AllInWidth(Block(m))
         /\ Words(m, Block(m)) = found[m]
         /\ \A n : n # m => Words(n, Block(m)) = << >>
<1> DEFINE w == RT!wrap(found[m])
           a == <<RT!Text("title", m, << >>)>>
           b == [k \in DOMAIN w |-> RT!Text("text", m, w[k])]
           v(n) == [k \in DOMAIN b |-> WordsOf(n, b[k])]
<1>1. found[m] \in Seq(Nat) /\ m \in Nat
  <2> DEFINE E == Seq(Nat)
  <2>1. found \in Seq(E)
    OBVIOUS
  <2> HIDE DEF E
  <2>2. found[m] \in E /\ m \in Nat
    BY <2>1
  <2> QED
    BY <2>2 DEF E
<1>2. w \in Seq(Seq(Nat)) /\ FlattenSeq(w) = found[m] /\ \A k \in 1 .. Len(w) : InWidth(w[k])
  BY <1>1, WrapIsWhole
<1> HIDE DEF w
<1>3. DOMAIN w = 1 .. Len(w) /\ Len(w) \in Nat /\ \A k \in DOMAIN w : w[k] \in Seq(Nat)
  <2> DEFINE E == Seq(Nat)
  <2>1. w \in Seq(E)
    BY <1>2
  <2> HIDE DEF E
  <2>2. DOMAIN w = 1 .. Len(w) /\ Len(w) \in Nat /\ \A k \in DOMAIN w : w[k] \in E
    BY <2>1
  <2> QED
    BY <2>2 DEF E
<1>4. \A k \in DOMAIN w : /\ b[k] \in Texts
                          /\ b[k].kind = "text" /\ b[k].of = m /\ b[k].words = w[k]
  <2> SUFFICES ASSUME NEW k \in DOMAIN w
               PROVE  /\ b[k] \in Texts
                      /\ b[k].kind = "text" /\ b[k].of = m /\ b[k].words = w[k]
    OBVIOUS
  <2>1. b[k] = [kind |-> "text", of |-> m, words |-> w[k]]
    BY DEF RT!Text
  <2>2. w[k] \in Seq(Nat) /\ "text" \in Kinds
    BY <1>3 DEF Kinds
  <2> HIDE DEF b
  <2> QED
    BY <1>1, <2>1, <2>2 DEF Texts
<1>5. b \in Seq(Texts) /\ DOMAIN b = DOMAIN w
  BY <1>3, <1>4
<1>6. a \in Seq(Texts) /\ Len(a) = 1 /\ a[1].kind = "title" /\ DOMAIN a = {1}
  <2> DEFINE t == RT!Text("title", m, << >>)
  <2>1. t = [kind |-> "title", of |-> m, words |-> << >>]
    BY DEF RT!Text
  <2>2. << >> \in Seq(Nat) /\ "title" \in Kinds
    BY DEF Kinds
  <2> HIDE DEF t
  <2>3. t \in Texts /\ t.kind = "title"
    BY <1>1, <2>1, <2>2 DEF Texts
  <2>4. a = <<t>>
    BY DEF t
  <2> HIDE DEF a
  <2>5. <<t>> \in Seq(Texts) /\ Len(<<t>>) = 1 /\ <<t>>[1] = t /\ DOMAIN <<t>> = 1 .. 1
    BY <2>3
  <2>6. \A k \in 1 .. 1 : k = 1
    OBVIOUS
  <2> QED
    BY <2>3, <2>4, <2>5, <2>6
<1>7. Block(m) = a \o b
  BY DEF Block, w
<1> HIDE DEF a, b
<1>8. \A n : Words(n, a) = << >>
  <2> SUFFICES ASSUME NEW n PROVE Words(n, a) = << >>
    OBVIOUS
  <2>1. \A k \in DOMAIN a : ~ (a[k].kind = "text" /\ a[k].of = n)
    BY <1>6
  <2> QED
    BY <1>6, <2>1, NoWords
<1>9. Words(m, b) = found[m]
  <2>1. v(m) = w
    <3> DEFINE E == Seq(Nat)
    <3>1. \A k \in DOMAIN w : v(m)[k] = w[k]
      BY <1>4, <1>5 DEF WordsOf
    <3>2. w \in Seq(E)
      BY <1>2
    <3>3. DOMAIN v(m) = DOMAIN w /\ v(m) = [k \in DOMAIN w |-> v(m)[k]]
      BY <1>5
    <3> HIDE DEF E, v
    <3>4. w = [k \in DOMAIN w |-> w[k]]
      BY <3>2
    <3> QED
      BY <3>1, <3>3, <3>4
  <2> QED
    BY <1>2, <2>1 DEF Words
<1>10. \A n : n # m => Words(n, b) = << >>
  <2> SUFFICES ASSUME NEW n, n # m PROVE Words(n, b) = << >>
    OBVIOUS
  <2>1. \A k \in DOMAIN b : ~ (b[k].kind = "text" /\ b[k].of = n)
    BY <1>4, <1>5
  <2> QED
    BY <1>5, <2>1, NoWords
<1>11. AllInWidth(a) /\ AllInWidth(b)
  BY <1>2, <1>3, <1>4, <1>5, <1>6 DEF AllInWidth
<1>12. << >> \o << >> = << >> /\ << >> \o found[m] = found[m]
  BY <1>1
<1>13. /\ a \o b \in Seq(Texts) /\ AllInWidth(a \o b)
       /\ \A n : Words(n, a \o b) = Words(n, a) \o Words(n, b)
  BY <1>5, <1>6, <1>11, WordsConcat
<1> QED
  BY <1>7, <1>8, <1>9, <1>10, <1>12, <1>13

\* The lines about the first k findings.
Blocks(k) == [m \in 1 .. k |-> Block(m)]

\* They have the words of each of these.
LEMMA BlocksAre ==
  ASSUME Width \in Nat, found \in Seq(Seq(Nat)), NEW l \in Nat, l <= Len(found)
  PROVE  /\ FlattenSeq(Blocks(l)) \in Seq(Texts) /\ AllInWidth(FlattenSeq(Blocks(l)))
         /\ \A n : Words(n, FlattenSeq(Blocks(l))) = IF n \in 1 .. l THEN found[n] ELSE << >>
<1> DEFINE Fine(k) == /\ Blocks(k) \in Seq(Seq(Texts))
                      /\ FlattenSeq(Blocks(k)) \in Seq(Texts) /\ AllInWidth(FlattenSeq(Blocks(k)))
                      /\ \A n : Words(n, FlattenSeq(Blocks(k))) = IF n \in 1 .. k THEN found[n] ELSE << >>
           Good == {k \in Nat : k <= l => Fine(k)}
<1>0. Len(found) \in Nat
  <2> DEFINE E == Seq(Nat)
  <2>1. found \in Seq(E)
    OBVIOUS
  <2> HIDE DEF E
  <2> QED
    BY <2>1
<1>1. 0 \in Good
  <2>1. Blocks(0) = << >> /\ << >> \in Seq(Texts) /\ << >> \in Seq(Seq(Texts)) /\ DOMAIN << >> = {}
    BY DEF Blocks
  <2>2. FlattenSeq(Blocks(0)) = << >>
    BY <2>1, FlatEmpty
  <2>3. AllInWidth(<< >>)
    BY <2>1 DEF AllInWidth
  <2>4. \A n : Words(n, << >>) = << >>
    BY <2>1, NoWords
  <2>5. \A n : ~ (n \in 1 .. 0)
    OBVIOUS
  <2>6. Fine(0)
    BY <2>1, <2>2, <2>3, <2>4, <2>5
  <2> QED
    BY <2>6
<1>2. ASSUME NEW k \in Nat, Fine(k), k + 1 <= l PROVE Fine(k + 1)
  <2> DEFINE m == k + 1
             s == Blocks(k)
             t == Blocks(m)
             b == Block(m)
  <2>1. m \in 1 .. Len(found) /\ k \in Nat /\ ~ (m \in 1 .. k) /\ 1 .. m = (1 .. k) \cup {m}
    BY <1>0, <1>2
  <2>2. /\ b \in Seq(Texts) /\ AllInWidth(b) /\ Words(m, b) = found[m]
        /\ \A n : n # m => Words(n, b) = << >>
    BY <2>1, BlockIs
  <2>3. /\ s \in Seq(Seq(Texts)) /\ FlattenSeq(s) \in Seq(Texts) /\ AllInWidth(FlattenSeq(s))
        /\ \A n : Words(n, FlattenSeq(s)) = IF n \in 1 .. k THEN found[n] ELSE << >>
    BY <1>2
  <2>4. t = Append(s, b) /\ t \in Seq(Seq(Texts))
    <3> DEFINE E == Seq(Texts)
    <3>1. /\ DOMAIN s = 1 .. k /\ \A i \in 1 .. k : s[i] = Block(i)
          /\ t = [i \in 1 .. m |-> IF i <= k THEN s[i] ELSE b]
      BY <2>1 DEF Blocks
    <3>2. s \in Seq(E) /\ b \in E
      BY <2>2, <2>3
    <3> HIDE DEF s, t, b, E
    <3>3. Len(s) = k
      BY <3>1, <3>2
    <3>4. t = Append(s, b) /\ Append(s, b) \in Seq(E)
      BY <2>1, <3>1, <3>2, <3>3
    <3> QED
      BY <3>4 DEF E
  <2> DEFINE f == FlattenSeq(s)
  <2> HIDE DEF s, t, b, m
  <2>5. FlattenSeq(t) = f \o b
    BY <2>2, <2>3, <2>4, FlatAppend
  <2>6. /\ f \o b \in Seq(Texts) /\ AllInWidth(f \o b)
        /\ \A n : Words(n, f \o b) = Words(n, f) \o Words(n, b)
    BY <2>2, <2>3, WordsConcat
  <2>7. ASSUME NEW n PROVE Words(n, f \o b) = IF n \in 1 .. m THEN found[n] ELSE << >>
    <3>0. Words(n, f) \in Seq(Nat) /\ Words(n, b) \in Seq(Nat)
      BY <2>2, <2>3, WordsType
    <3>1. Words(n, f) \o << >> = Words(n, f) /\ << >> \o Words(n, b) = Words(n, b)
      BY <3>0
    <3>2. CASE n = m
      <4>1. Words(n, f) = << >> /\ Words(n, b) = found[m] /\ n \in 1 .. m
        BY <2>1, <2>2, <2>3, <3>2
      <4> QED
        BY <2>6, <3>1, <3>2, <4>1
    <3>3. CASE n # m
      <4>1. Words(n, b) = << >> /\ (n \in 1 .. m <=> n \in 1 .. k)
        BY <2>1, <2>2, <3>3
      <4> QED
        BY <2>3, <2>6, <3>1, <4>1
    <3> QED
      BY <3>2, <3>3
  <2>8. Fine(m)
    BY <2>4, <2>5, <2>6, <2>7 DEF t
  <2> QED
    BY <2>8 DEF m
<1>3. Nat \subseteq Good
  <2>1. \A k \in Nat : k \in Good => k + 1 \in Good
    <3> HIDE DEF Fine
    <3> SUFFICES ASSUME NEW k \in Nat, k \in Good, k + 1 <= l PROVE Fine(k + 1)
      OBVIOUS
    <3>1. k <= l
      OBVIOUS
    <3> QED
      BY <1>2, <3>1
  <2> HIDE DEF Good
  <2> QED
    BY <1>1, <2>1, NatSetInduction
<1>4. Fine(l)
  <2> HIDE DEF Fine
  <2> QED
    BY <1>3
<1> QED
  BY <1>4

-----------------------------------------------------------------------------
\* The findings that are shown are found.
LEMMA ShownAre ==
  ASSUME RT!SizeAssumption, found \in Seq(Seq(Nat))
  PROVE  RT!Shown \in Nat /\ RT!Shown <= Len(found)
<1>1. Len(found) \in Nat
  <2> DEFINE E == Seq(Nat)
  <2>1. found \in Seq(E)
    OBVIOUS
  <2> HIDE DEF E
  <2> QED
    BY <2>1
<1>2. RT!Shown = IF Len(found) <= MaxShown THEN Len(found) ELSE MaxShown
  BY <1>1, SmallerOf DEF RT!Shown, RT!SizeAssumption
<1> QED
  BY <1>1, <1>2 DEF RT!SizeAssumption

\* What the lines of the report say of the findings, once they are written.
TextInv ==
  /\ writing \in {"findings", "instances", "pages", "done"}
  /\ found \in Seq(Seq(Nat)) /\ instances \in Nat
  /\ lines \in Seq(Texts) /\ AllInWidth(lines)
  /\ writing = "findings" => \A n : Words(n, lines) = << >>
  /\ writing # "findings" => \A n \in 1 .. RT!Shown : Words(n, lines) = found[n]

\* Lines that are no explanation add none.
LEMMA Plain ==
  ASSUME NEW s \in Seq(Texts), \A k \in DOMAIN s : s[k].kind # "text"
  PROVE  AllInWidth(s) /\ \A n : Words(n, s) = << >>
<1>1. \A n : Words(n, s) = << >>
  BY NoWords
<1> QED
  BY <1>1 DEF AllInWidth

\* A text of one of the kinds.
LEMMA TextIs ==
  ASSUME NEW kind \in Kinds, NEW n \in Nat
  PROVE  RT!Text(kind, n, << >>) \in Texts /\ RT!Text(kind, n, << >>).kind = kind
<1>1. << >> \in Seq(Nat)
  OBVIOUS
<1> QED
  BY <1>1 DEF RT!Text, Texts

\* The first lines are heads.
LEMMA TextStarts ==
  ASSUME RT!SizeAssumption, RT!BoundAssumption, RT!WordsAssumption, RT!Init
  PROVE  TextInv
<1>1. writing = "findings" /\ instances \in 0 .. MaxInstances
  BY DEF RT!Init
<1>2. found \in Seq(Seq(Nat))
  <2> DEFINE E == Seq(Nat)
  <2>1. PICK n \in 0 .. MaxFindings : found \in [1 .. n -> Explanations]
    BY DEF RT!Init
  <2>2. Explanations \subseteq E
    BY DEF RT!WordsAssumption
  <2> HIDE DEF E
  <2>3. found \in Seq(E)
    BY <2>1, <2>2 DEF RT!BoundAssumption
  <2> QED
    BY <2>3 DEF E
<1>3. lines \in Seq(Texts) /\ \A k \in DOMAIN lines : lines[k].kind # "text"
  <2> DEFINE h(k) == RT!Text("head", k, << >>)
  <2>1. Heads \in Nat /\ lines = [k \in 1 .. Heads |-> h(k)]
    BY DEF RT!Init, RT!SizeAssumption
  <2>2. \A k \in Nat : h(k) \in Texts /\ h(k).kind = "head"
    BY TextIs DEF Kinds
  <2> HIDE DEF h
  <2>3. lines \in Seq(Texts) /\ \A k \in DOMAIN lines : lines[k].kind = "head"
    BY <2>1, <2>2
  <2> QED
    BY <2>3
<1> QED
  BY <1>1, <1>2, <1>3, Plain DEF TextInv, RT!BoundAssumption

\* Every step keeps what the lines say.
LEMMA TextStep ==
  ASSUME RT!SizeAssumption, TextInv, [RT!Next]_(RT!vars)
  PROVE  TextInv'
<1>0. /\ found \in Seq(Seq(Nat)) /\ instances \in Nat
      /\ lines \in Seq(Texts) /\ AllInWidth(lines)
      /\ Width \in Nat
  BY DEF TextInv, RT!SizeAssumption
<1>1. CASE RT!WriteFindings
  <2> DEFINE b == FlattenSeq(Blocks(RT!Shown))
  <2>1. /\ writing = "findings" /\ writing' = "instances" /\ found' = found /\ instances' = instances
        /\ lines' = lines \o b
    BY <1>1, SameRow DEF RT!WriteFindings, Blocks, Block
  <2>2. RT!Shown \in Nat /\ RT!Shown <= Len(found)
    BY <1>0, ShownAre
  <2>3. /\ b \in Seq(Texts) /\ AllInWidth(b)
        /\ \A n : Words(n, b) = IF n \in 1 .. RT!Shown THEN found[n] ELSE << >>
    BY <1>0, <2>2, BlocksAre
  <2> HIDE DEF b
  <2>4. \A n : Words(n, lines) = << >>
    BY <2>1 DEF TextInv
  <2>5. /\ lines' \in Seq(Texts) /\ AllInWidth(lines')
        /\ \A n : Words(n, lines') = Words(n, lines) \o Words(n, b)
    BY <1>0, <2>1, <2>3, WordsConcat
  <2>6. \A n \in 1 .. RT!Shown : Words(n, lines') = found[n]
    <3> SUFFICES ASSUME NEW n \in 1 .. RT!Shown PROVE Words(n, lines') = found[n]
      OBVIOUS
    <3>1. Words(n, b) \in Seq(Nat) /\ Words(n, b) = found[n]
      BY <2>3, WordsType
    <3>2. << >> \o Words(n, b) = Words(n, b)
      BY <3>1
    <3> QED
      BY <2>4, <2>5, <3>1, <3>2
  <2>7. RT!Shown' = RT!Shown
    BY <2>1 DEF RT!Shown
  <2> QED
    BY <1>0, <2>1, <2>5, <2>6, <2>7 DEF TextInv
<1>2. CASE RT!WriteInstances
  <2> DEFINE h == <<RT!Text("blank", 0, << >>), RT!Text("head", 0, << >>)>>
             t(n) == RT!Text("instance", n, << >>)
             i == [n \in 1 .. instances |-> t(n)]
  <2>1. /\ writing = "instances" /\ writing' = "pages" /\ found' = found /\ instances' = instances
        /\ lines' = (lines \o h) \o i
    BY <1>2 DEF RT!WriteInstances
  <2>2. h \in Seq(Texts) /\ \A k \in DOMAIN h : h[k].kind # "text"
    <3> DEFINE x == RT!Text("blank", 0, << >>)
               y == RT!Text("head", 0, << >>)
    <3>1. x \in Texts /\ x.kind = "blank" /\ y \in Texts /\ y.kind = "head"
      BY TextIs DEF Kinds
    <3>2. h = <<x, y>>
      OBVIOUS
    <3> HIDE DEF x, y, h
    <3>3. <<x, y>> \in Seq(Texts) /\ DOMAIN <<x, y>> = 1 .. 2 /\ <<x, y>>[1] = x /\ <<x, y>>[2] = y
      BY <3>1
    <3>4. \A k \in 1 .. 2 : k = 1 \/ k = 2
      OBVIOUS
    <3> QED
      BY <3>1, <3>2, <3>3, <3>4
  <2>3. i \in Seq(Texts) /\ \A k \in DOMAIN i : i[k].kind # "text"
    <3>1. \A n \in Nat : t(n) \in Texts /\ t(n).kind = "instance"
      BY TextIs DEF Kinds
    <3> HIDE DEF t
    <3> QED
      BY <1>0, <3>1
  <2> HIDE DEF h, i
  <2>4. /\ AllInWidth(h) /\ AllInWidth(i)
        /\ \A n : Words(n, h) = << >> /\ Words(n, i) = << >>
    BY <2>2, <2>3, Plain
  <2> DEFINE j == lines \o h
  <2>5. /\ j \in Seq(Texts) /\ AllInWidth(j)
        /\ \A n : Words(n, j) = Words(n, lines) \o Words(n, h)
    BY <1>0, <2>2, <2>4, WordsConcat
  <2> HIDE DEF j
  <2>6. /\ j \o i \in Seq(Texts) /\ AllInWidth(j \o i)
        /\ \A n : Words(n, j \o i) = Words(n, j) \o Words(n, i)
    BY <2>3, <2>4, <2>5, WordsConcat
  <2>7. \A n : Words(n, j \o i) = Words(n, lines)
    <3> SUFFICES ASSUME NEW n PROVE Words(n, j \o i) = Words(n, lines)
      OBVIOUS
    <3>1. Words(n, lines) \in Seq(Nat)
      BY <1>0, WordsType
    <3>2. Words(n, lines) \o << >> = Words(n, lines)
      BY <3>1
    <3> QED
      BY <2>4, <2>5, <2>6, <3>2
  <2>8. RT!Shown' = RT!Shown
    BY <2>1 DEF RT!Shown
  <2>9. lines' = j \o i
    BY <2>1 DEF j
  <2>10. \A n \in 1 .. RT!Shown : Words(n, lines) = found[n]
    BY <2>1 DEF TextInv
  <2>11. \A n \in 1 .. RT!Shown : Words(n, lines') = found[n]
    BY <2>7, <2>9, <2>10
  <2> QED
    BY <1>0, <2>1, <2>6, <2>8, <2>9, <2>11 DEF TextInv
<1>3. CASE RT!AddPage \/ RT!Finish \/ UNCHANGED RT!vars
  <2>1. /\ lines' = lines /\ found' = found /\ instances' = instances
        /\ writing' = writing \/ (writing = "pages" /\ writing' = "done")
    BY <1>3 DEF RT!AddPage, RT!Finish, RT!vars
  <2>2. RT!Shown' = RT!Shown
    BY <2>1 DEF RT!Shown
  <2> QED
    BY <2>1, <2>2 DEF TextInv
<1> QED
  BY <1>1, <1>2, <1>3 DEF RT!Next

\* The lines about a finding have all words of its explanation, and a line that
\* is longer than wrap's width is one word (WritePDF, wrap), for any widths,
\* findings and words.
THEOREM ExplanationsAreWholeAlways ==
  ASSUME RT!SizeAssumption, RT!BoundAssumption, RT!WordsAssumption
  PROVE  RT!Spec => []ExplanationsAreWhole
<1>1. RT!Init => TextInv
  BY TextStarts
<1>2. TextInv /\ [RT!Next]_(RT!vars) => TextInv'
  BY TextStep
<1>3. TextInv => ExplanationsAreWhole
  <2> SUFFICES ASSUME TextInv, writing = "done"
               PROVE  /\ \A n \in 1 .. RT!Shown : RT!WordsAbout(n) = found[n]
                      /\ \A k \in DOMAIN lines : lines[k].kind = "text" =>
                           RT!Bytes(lines[k].words) <= Width \/ Len(lines[k].words) = 1
    BY DEF ExplanationsAreWhole, RT!ExplanationsAreWhole, RT!Done
  <2>1. \A n : RT!WordsAbout(n) = Words(n, lines)
    BY SameRow DEF RT!WordsAbout, Words, WordsOf
  <2> QED
    BY <2>1 DEF TextInv, AllInWidth, InWidth
<1> QED
  BY <1>1, <1>2, <1>3, PTL DEF RT!Spec

-----------------------------------------------------------------------------
ObjectKinds == {"catalog", "pages", "font", "content", "page"}

Objects == [kind : ObjectKinds, text : Seq(Texts), refs : Seq(Nat)]

\* The text of each page.
PageTexts == [k \in 1 .. Len(pageNums) |-> objects[pageNums[k] - 1].text]

\* How many lines are on pages.
Upto == IF RT!Paged <= Len(lines) THEN RT!Paged ELSE Len(lines)

\* Pages and contents come in pairs, and the contents are the lines so far.
PagesInv ==
  /\ objects \in Seq(Objects) /\ pageNums \in Seq(Nat)
  /\ Len(objects) = 3 + 2 * Len(pageNums)
  /\ objects[3].kind = "font"
  /\ \A k \in 1 .. Len(pageNums) :
       /\ pageNums[k] = 3 + 2 * k
       /\ objects[pageNums[k]].kind = "page"
       /\ objects[pageNums[k]].refs = <<2, pageNums[k] - 1, 3>>
       /\ Len(objects[pageNums[k] - 1].text) \in 1 .. PerPage
  /\ FlattenSeq(PageTexts) = SubSeq(lines, 1, Upto)

PdfInv ==
  /\ writing \in {"findings", "instances"} =>
       objects = <<RT!Object("catalog"), RT!Object("pages"), RT!Object("font")>> /\ pageNums = << >>
  /\ writing = "pages" => PagesInv
  /\ RT!PdfIsWhole

\* An object of one of the kinds.
LEMMA ObjectIs ==
  ASSUME NEW kind \in ObjectKinds
  PROVE  LET o == RT!Object(kind)
         IN  o \in Objects /\ o.kind = kind /\ o = [kind |-> kind, text |-> << >>, refs |-> << >>]
<1>1. << >> \in Seq(Nat) /\ << >> \in Seq(Texts)
  OBVIOUS
<1> QED
  BY <1>1 DEF RT!Object, Objects

\* The numbers of the first objects.
LEMMA Numbers == RT!CatalogNum = 1 /\ RT!PagesNum = 2 /\ RT!FontNum = 3
BY DEF RT!CatalogNum, RT!PagesNum, RT!FontNum

\* There are no pages to begin with.
LEMMA PagesStart ==
  ASSUME RT!SizeAssumption, lines' \in Seq(Texts), pageNums' = << >>,
         objects' = <<RT!Object("catalog"), RT!Object("pages"), RT!Object("font")>>
  PROVE  PagesInv'
<1> DEFINE a == RT!Object("catalog")
           b == RT!Object("pages")
           c == RT!Object("font")
<1>1. a \in Objects /\ b \in Objects /\ c \in Objects /\ c.kind = "font" /\ objects' = <<a, b, c>>
  BY ObjectIs DEF ObjectKinds
<1> HIDE DEF a, b, c
<1>2. objects' \in Seq(Objects) /\ Len(objects') = 3 /\ objects'[3].kind = "font"
  BY <1>1
<1>3. pageNums' \in Seq(Nat) /\ Len(pageNums') = 0
  OBVIOUS
<1>4. RT!Paged' = 0
  BY <1>3 DEF RT!Paged, RT!SizeAssumption
<1>5. Len(lines') \in Nat
  OBVIOUS
<1>6. Upto' = 0 /\ SubSeq(lines', 1, 0) = << >>
  BY <1>4, <1>5 DEF Upto
<1>7. PageTexts' = << >>
  BY <1>3 DEF PageTexts
<1>8. FlattenSeq(PageTexts') = << >>
  BY <1>7, FlatEmpty
<1>9. Len(objects') = 3 + 2 * Len(pageNums') /\ \A k \in 1 .. Len(pageNums') : FALSE
  BY <1>2, <1>3
<1> QED
  BY <1>2, <1>3, <1>6, <1>8, <1>9 DEF PagesInv

\* The texts of the pages are made of lines.
LEMMA PageTextsAre ==
  ASSUME PagesInv
  PROVE  PageTexts \in Seq(Seq(Texts)) /\ Len(PageTexts) = Len(pageNums) /\ Len(pageNums) \in Nat
<1> DEFINE E == Seq(Texts)
           l == Len(pageNums)
<1>1. /\ objects \in Seq(Objects) /\ l \in Nat /\ Len(objects) = 3 + 2 * l
      /\ \A k \in 1 .. l : pageNums[k] = 3 + 2 * k
  BY DEF PagesInv
<1>2. \A k \in 1 .. l : objects[pageNums[k] - 1].text \in E
  <2> SUFFICES ASSUME NEW k \in 1 .. l PROVE objects[pageNums[k] - 1].text \in E
    OBVIOUS
  <2>1. pageNums[k] - 1 \in 1 .. Len(objects)
    BY <1>1
  <2>2. objects[pageNums[k] - 1] \in Objects
    BY <1>1, <2>1
  <2> QED
    BY <2>2 DEF Objects
<1> HIDE DEF E
<1>3. PageTexts \in Seq(E) /\ Len(PageTexts) = l
  BY <1>1, <1>2 DEF PageTexts
<1> QED
  BY <1>1, <1>3 DEF E

\* One more page takes the lines that come next.
LEMMA PageKeeps ==
  ASSUME RT!SizeAssumption, lines \in Seq(Texts), PagesInv, RT!AddPage
  PROVE  PagesInv'
<1> DEFINE p == Len(pageNums)
           l == Len(objects)
           num == l + 1
           paged == RT!Paged
           upto == IF paged + PerPage <= Len(lines) THEN paged + PerPage ELSE Len(lines)
           text == SubSeq(lines, paged + 1, upto)
           c == [RT!Object("content") EXCEPT !.text = text]
           g == [RT!Object("page") EXCEPT !.refs = <<2, num, 3>>]
<1>1. /\ objects \in Seq(Objects) /\ pageNums \in Seq(Nat) /\ l = 3 + 2 * p /\ objects[3].kind = "font"
      /\ \A k \in 1 .. p :
           /\ pageNums[k] = 3 + 2 * k
           /\ objects[pageNums[k]].kind = "page"
           /\ objects[pageNums[k]].refs = <<2, pageNums[k] - 1, 3>>
           /\ Len(objects[pageNums[k] - 1].text) \in 1 .. PerPage
      /\ FlattenSeq(PageTexts) = SubSeq(lines, 1, Upto)
  BY DEF PagesInv
<1>2. p \in Nat /\ l \in Nat /\ Len(lines) \in Nat
  BY <1>1
<1>3. PerPage \in Nat \ {0} /\ paged \in Nat /\ paged < Len(lines) /\ RT!Paged' = paged + PerPage
  <2>1. PerPage \in Nat \ {0} /\ RT!Paged = PerPage * p /\ RT!Paged' = PerPage * Len(pageNums')
    BY DEF RT!SizeAssumption, RT!Paged
  <2>2. Len(pageNums') = p + 1
    BY <1>1 DEF RT!AddPage
  <2>3. PerPage * p \in Nat /\ PerPage * (p + 1) = PerPage * p + PerPage
    BY <1>2, <2>1
  <2> QED
    BY <2>1, <2>2, <2>3 DEF RT!AddPage
<1>4. lines' = lines /\ objects' = objects \o <<c, g>> /\ pageNums' = Append(pageNums, num + 1)
  <2>1. RT!Min({paged + PerPage, Len(lines)}) = upto
    BY <1>2, <1>3, SmallerOf
  <2> QED
    BY <2>1, Numbers DEF RT!AddPage
<1>18. num = l + 1 /\ num \in Nat
  BY <1>2
<1> HIDE DEF paged, num
<1>5. upto \in Nat /\ paged < upto /\ upto <= Len(lines) /\ upto - paged <= PerPage
  BY <1>2, <1>3
<1> HIDE DEF upto
<1>6. text \in Seq(Texts) /\ Len(text) \in 1 .. PerPage
  BY <1>2, <1>3, <1>5
<1>7. SubSeq(lines, 1, paged) \o text = SubSeq(lines, 1, upto)
  BY <1>2, <1>3, <1>5
<1> HIDE DEF text
<1>8. c \in Objects /\ c.text = text
  <2>1. RT!Object("content") = [kind |-> "content", text |-> << >>, refs |-> << >>]
    BY ObjectIs DEF ObjectKinds
  <2>2. c = [kind |-> "content", text |-> text, refs |-> << >>]
    BY <2>1
  <2>3. "content" \in ObjectKinds /\ << >> \in Seq(Nat)
    BY DEF ObjectKinds
  <2> HIDE DEF c
  <2> QED
    BY <1>6, <2>2, <2>3 DEF Objects
<1>9. g \in Objects /\ g.kind = "page" /\ g.refs = <<2, num, 3>>
  <2>1. RT!Object("page") = [kind |-> "page", text |-> << >>, refs |-> << >>]
    BY ObjectIs DEF ObjectKinds
  <2>2. g = [kind |-> "page", text |-> << >>, refs |-> <<2, num, 3>>]
    BY <2>1
  <2>3. "page" \in ObjectKinds /\ << >> \in Seq(Texts) /\ <<2, num, 3>> \in Seq(Nat)
    BY <1>18 DEF ObjectKinds
  <2> HIDE DEF g
  <2> QED
    BY <2>2, <2>3 DEF Objects
<1> HIDE DEF c, g
<1>10. /\ objects' \in Seq(Objects) /\ Len(objects') = l + 2
       /\ \A n \in 1 .. l : objects'[n] = objects[n]
       /\ objects'[l + 1] = c /\ objects'[l + 2] = g
  <2> DEFINE e == <<c, g>>
  <2>1. e \in Seq(Objects) /\ Len(e) = 2 /\ e[1] = c /\ e[2] = g
    BY <1>8, <1>9
  <2> HIDE DEF e
  <2>2. objects' = objects \o e
    BY <1>4 DEF e
  <2>3. \A n \in 1 .. Len(objects) + 2 :
          (objects \o e)[n] = IF n <= Len(objects) THEN objects[n] ELSE e[n - Len(objects)]
    <3> DEFINE E == Objects
               o == objects
    <3>1. o \in Seq(E) /\ e \in Seq(E) /\ Len(e) = 2
      BY <1>1, <2>1
    <3> HIDE DEF E, o
    <3>2. \A n \in 1 .. Len(o) + Len(e) : (o \o e)[n] = IF n <= Len(o) THEN o[n] ELSE e[n - Len(o)]
      BY <3>1, Concatenated
    <3> QED
      BY <3>1, <3>2 DEF o
  <2>4. objects \o e \in Seq(Objects) /\ Len(objects \o e) = Len(objects) + 2
    <3> DEFINE E == Objects
               o == objects
    <3>1. o \in Seq(E) /\ e \in Seq(E) /\ Len(e) = 2
      BY <1>1, <2>1
    <3> HIDE DEF E, o
    <3>2. o \o e \in Seq(E) /\ Len(o \o e) = Len(o) + Len(e)
      BY <3>1, Longer
    <3> QED
      BY <3>1, <3>2 DEF o, E
  <2>5. /\ l + 1 \in 1 .. l + 2 /\ l + 2 \in 1 .. l + 2 /\ ~ (l + 1 <= l) /\ ~ (l + 2 <= l)
        /\ (l + 1) - l = 1 /\ (l + 2) - l = 2
        /\ \A n \in 1 .. l : n \in 1 .. l + 2 /\ n <= l
    BY <1>2
  <2> QED
    BY <2>1, <2>2, <2>3, <2>4, <2>5
<1>11. /\ pageNums' \in Seq(Nat) /\ Len(pageNums') = p + 1
       /\ \A k \in 1 .. p : pageNums'[k] = pageNums[k]
       /\ pageNums'[p + 1] = l + 2
  BY <1>1, <1>2, <1>4, <1>18
<1>12. \A k \in 1 .. p : pageNums[k] \in 1 .. l /\ pageNums[k] - 1 \in 1 .. l
  BY <1>1, <1>2
<1>13. 3 \in 1 .. l /\ l + 2 = 3 + 2 * (p + 1) /\ l + 2 - 1 = l + 1
  BY <1>1, <1>2
<1>14. ASSUME NEW k \in 1 .. p + 1
       PROVE  /\ pageNums'[k] = 3 + 2 * k
              /\ objects'[pageNums'[k]].kind = "page"
              /\ objects'[pageNums'[k]].refs = <<2, pageNums'[k] - 1, 3>>
              /\ Len(objects'[pageNums'[k] - 1].text) \in 1 .. PerPage
  <2>1. CASE k \in 1 .. p
    <3>1. pageNums'[k] = pageNums[k] /\ pageNums[k] \in 1 .. l /\ pageNums[k] - 1 \in 1 .. l
      BY <1>11, <1>12, <2>1
    <3>2. objects'[pageNums'[k]] = objects[pageNums[k]] /\ objects'[pageNums'[k] - 1] = objects[pageNums[k] - 1]
      BY <1>10, <3>1
    <3> QED
      BY <1>1, <2>1, <3>1, <3>2
  <2>2. CASE k = p + 1
    <3>1. pageNums'[k] = l + 2 /\ pageNums'[k] - 1 = l + 1 /\ l + 2 = 3 + 2 * k
      BY <1>2, <1>11, <1>13, <2>2
    <3> QED
      BY <1>6, <1>8, <1>9, <1>10, <1>18, <3>1
  <2> QED
    BY <1>2, <2>1, <2>2
<1>15. PageTexts' = Append(PageTexts, text)
  <2>1. PageTexts \in Seq(Seq(Texts)) /\ Len(PageTexts) = p
    BY PageTextsAre
  <2>2. \A k \in 1 .. p : objects'[pageNums'[k] - 1].text = PageTexts[k]
    BY <1>10, <1>11, <1>12 DEF PageTexts
  <2>3. objects'[pageNums'[p + 1] - 1].text = text
    BY <1>8, <1>10, <1>11, <1>13
  <2>4. PageTexts' = [k \in 1 .. p + 1 |-> objects'[pageNums'[k] - 1].text]
    BY <1>11 DEF PageTexts
  <2>5. PageTexts' = [k \in 1 .. p + 1 |-> IF k <= p THEN PageTexts[k] ELSE text]
    BY <1>2, <2>2, <2>3, <2>4
  <2> DEFINE E == Seq(Texts)
             s == PageTexts
  <2>6. s \in Seq(E) /\ text \in E /\ Len(s) = p
    BY <1>6, <2>1
  <2> HIDE DEF E, s, p
  <2>7. Append(s, text) = [k \in 1 .. p + 1 |-> IF k <= p THEN s[k] ELSE text]
    BY <2>6, Appended
  <2> QED
    BY <2>5, <2>7 DEF s
<1>16. FlattenSeq(PageTexts') = SubSeq(lines, 1, upto)
  <2>1. PageTexts \in Seq(Seq(Texts))
    BY PageTextsAre
  <2>2. FlattenSeq(PageTexts') = FlattenSeq(PageTexts) \o text
    BY <1>6, <1>15, <2>1, FlatAppend
  <2>3. Upto = paged
    BY <1>2, <1>3 DEF Upto, paged
  <2> QED
    BY <1>1, <1>7, <2>2, <2>3
<1>17. Upto' = upto
  BY <1>3, <1>4 DEF Upto, upto
<1> QED
  BY <1>4, <1>10, <1>11, <1>13, <1>14, <1>16, <1>17, <1>1 DEF PagesInv

\* When all lines are on pages, what is filled in leads to all of them.
LEMMA FinishKeeps ==
  ASSUME RT!SizeAssumption, lines \in Seq(Texts), PagesInv, RT!Finish
  PROVE  RT!PdfIsWhole'
<1> DEFINE p == Len(pageNums)
           l == Len(objects)
<1>1. /\ objects \in Seq(Objects) /\ pageNums \in Seq(Nat) /\ l = 3 + 2 * p /\ objects[3].kind = "font"
      /\ \A k \in 1 .. p :
           /\ pageNums[k] = 3 + 2 * k
           /\ objects[pageNums[k]].kind = "page"
           /\ objects[pageNums[k]].refs = <<2, pageNums[k] - 1, 3>>
           /\ Len(objects[pageNums[k] - 1].text) \in 1 .. PerPage
      /\ FlattenSeq(PageTexts) = SubSeq(lines, 1, Upto)
  BY DEF PagesInv
<1>2. p \in Nat /\ l \in Nat /\ Len(lines) \in Nat /\ DOMAIN objects = 1 .. l /\ DOMAIN pageNums = 1 .. p
  BY <1>1
<1>3. /\ lines' = lines /\ pageNums' = pageNums
      /\ objects' = [objects EXCEPT ![1].refs = <<2>>, ![2].refs = pageNums]
      /\ RT!Paged >= Len(lines)
  BY Numbers DEF RT!Finish
<1>4. /\ DOMAIN objects' = 1 .. l
      /\ \A n \in 1 .. l : n # 1 /\ n # 2 => objects'[n] = objects[n]
      /\ objects'[1].refs = <<2>> /\ objects'[2].refs = pageNums
  <2>1. 1 \in 1 .. l /\ 2 \in 1 .. l /\ objects[1] \in Objects /\ objects[2] \in Objects
    BY <1>1, <1>2
  <2>2. DOMAIN objects' = 1 .. l /\ \A n \in 1 .. l : n # 1 /\ n # 2 => objects'[n] = objects[n]
    BY <1>2, <1>3
  <2>3. objects'[1] = [objects[1] EXCEPT !.refs = <<2>>] /\ objects'[2] = [objects[2] EXCEPT !.refs = pageNums]
    BY <1>2, <1>3, <2>1
  <2> QED
    BY <2>1, <2>2, <2>3 DEF Objects
<1>5. FlattenSeq(PageTexts) = lines
  <2>1. RT!Paged \in Nat
    <3>1. PerPage \in Nat
      BY DEF RT!SizeAssumption
    <3>2. PerPage * p \in Nat
      BY <1>2, <3>1
    <3> QED
      BY <3>2 DEF RT!Paged
  <2>2. Upto = Len(lines)
    BY <1>2, <1>3, <2>1 DEF Upto
  <2>3. SubSeq(lines, 1, Len(lines)) = lines
    OBVIOUS
  <2> QED
    BY <1>1, <2>2, <2>3
<1>6. \A k \in 1 .. p :
        /\ pageNums[k] \in 1 .. l /\ pageNums[k] # 1 /\ pageNums[k] # 2
        /\ pageNums[k] - 1 \in 1 .. l /\ pageNums[k] - 1 # 1 /\ pageNums[k] - 1 # 2
  BY <1>1, <1>2
<1>7. 3 \in 1 .. l /\ 3 # 1 /\ 3 # 2
  BY <1>1, <1>2
<1>8. \A k \in 1 .. p :
        /\ objects'[pageNums[k]] = objects[pageNums[k]]
        /\ objects'[pageNums[k] - 1] = objects[pageNums[k] - 1]
        /\ objects'[pageNums[k]].refs[2] = pageNums[k] - 1
        /\ objects'[pageNums[k]].refs[3] = 3
        /\ objects'[objects'[pageNums[k]].refs[2]].text = PageTexts[k]
  <2> SUFFICES ASSUME NEW k \in 1 .. p
               PROVE  /\ objects'[pageNums[k]] = objects[pageNums[k]]
                      /\ objects'[pageNums[k] - 1] = objects[pageNums[k] - 1]
                      /\ objects'[pageNums[k]].refs[2] = pageNums[k] - 1
                      /\ objects'[pageNums[k]].refs[3] = 3
                      /\ objects'[objects'[pageNums[k]].refs[2]].text = PageTexts[k]
    OBVIOUS
  <2>1. objects'[pageNums[k]] = objects[pageNums[k]] /\ objects'[pageNums[k] - 1] = objects[pageNums[k] - 1]
    BY <1>4, <1>6
  <2>2. objects'[pageNums[k]].refs = <<2, pageNums[k] - 1, 3>>
    BY <1>1, <2>1
  <2>3. objects'[pageNums[k]].refs[2] = pageNums[k] - 1 /\ objects'[pageNums[k]].refs[3] = 3
    BY <2>2
  <2> QED
    BY <2>1, <2>3 DEF PageTexts
<1>9. RT!Reading' = PageTexts
  <2> DEFINE kids == objects'[objects'[RT!CatalogNum].refs[1]].refs
  <2>1. objects'[1].refs[1] = 2
    BY <1>4
  <2>2. kids = pageNums
    BY <1>4, <2>1, Numbers
  <2>3. RT!Reading' = [n \in DOMAIN kids |-> objects'[objects'[kids[n]].refs[2]].text]
    BY DEF RT!Reading, RT!CatalogNum
  <2> HIDE DEF kids
  <2> QED
    BY <1>2, <1>8, <2>2, <2>3 DEF PageTexts
<1>10. RT!FlattenSeq(RT!Reading') = lines'
  BY <1>3, <1>5, <1>9, SameRow
<1>11. \A n \in DOMAIN RT!Reading' : Len(RT!Reading'[n]) \in 1 .. PerPage
  BY <1>1, <1>9 DEF PageTexts
<1>12. \A n \in DOMAIN pageNums' :
         /\ objects'[pageNums'[n]].kind = "page"
         /\ objects'[objects'[pageNums'[n]].refs[3]].kind = "font"
  <2> SUFFICES ASSUME NEW n \in 1 .. p
               PROVE  /\ objects'[pageNums[n]].kind = "page"
                      /\ objects'[objects'[pageNums[n]].refs[3]].kind = "font"
    BY <1>2, <1>3
  <2>1. objects'[pageNums[n]] = objects[pageNums[n]] /\ objects'[pageNums[n]].refs[3] = 3
    BY <1>8
  <2>2. objects'[3] = objects[3]
    BY <1>4, <1>7
  <2> QED
    BY <1>1, <2>1, <2>2
<1>13. \A n \in DOMAIN objects' :
         offsets'[n] = RT!MapThenSumSet(LAMBDA k : RT!Size(objects'[k]), 1 .. n - 1)
  <2>1. DOMAIN objects' = DOMAIN objects
    BY <1>2, <1>4
  <2> QED
    BY <2>1 DEF RT!Finish, RT!MapThenSumSet, RT!MapThenFoldSet
<1> QED
  BY <1>10, <1>11, <1>12, <1>13 DEF RT!PdfIsWhole, RT!MapThenSumSet, RT!MapThenFoldSet

\* Every step keeps the numbers of the objects right.
LEMMA PdfStep ==
  ASSUME RT!SizeAssumption, TextInv, PdfInv, [RT!Next]_(RT!vars)
  PROVE  PdfInv'
<1>0. lines \in Seq(Texts) /\ lines' \in Seq(Texts)
  BY TextStep DEF TextInv
<1>1. CASE RT!WriteFindings
  BY <1>1 DEF RT!WriteFindings, PdfInv, RT!PdfIsWhole, RT!Done
<1>2. CASE RT!WriteInstances
  <2>1. writing' = "pages" /\ objects' = objects /\ pageNums' = pageNums
    BY <1>2 DEF RT!WriteInstances
  <2>2. pageNums = << >> /\ objects = <<RT!Object("catalog"), RT!Object("pages"), RT!Object("font")>>
    BY <1>2 DEF RT!WriteInstances, PdfInv
  <2>3. PagesInv'
    BY <1>0, <2>1, <2>2, PagesStart
  <2> QED
    BY <2>1, <2>3 DEF PdfInv, RT!PdfIsWhole, RT!Done
<1>3. CASE RT!AddPage
  <2>1. writing = "pages" /\ writing' = "pages"
    BY <1>3 DEF RT!AddPage
  <2>2. PagesInv'
    BY <1>0, <1>3, <2>1, PageKeeps DEF PdfInv
  <2> QED
    BY <2>1, <2>2 DEF PdfInv, RT!PdfIsWhole, RT!Done
<1>4. CASE RT!Finish
  <2>1. writing = "pages" /\ writing' = "done"
    BY <1>4 DEF RT!Finish
  <2>2. RT!PdfIsWhole'
    BY <1>0, <1>4, <2>1, FinishKeeps DEF PdfInv
  <2> QED
    BY <2>1, <2>2 DEF PdfInv
<1>5. CASE UNCHANGED RT!vars
  <2>1. /\ writing' = writing /\ objects' = objects /\ pageNums' = pageNums
        /\ lines' = lines /\ offsets' = offsets
    BY <1>5 DEF RT!vars
  <2>2. RT!PdfIsWhole' <=> RT!PdfIsWhole
    BY <2>1 DEF RT!PdfIsWhole, RT!Done, RT!Reading, RT!CatalogNum, RT!Size,
       RT!MapThenSumSet, RT!MapThenFoldSet
  <2>3. PagesInv' <=> PagesInv
    BY <2>1 DEF PagesInv, PageTexts, Upto, RT!Paged
  <2> QED
    BY <2>1, <2>2, <2>3 DEF PdfInv
<1> QED
  BY <1>1, <1>2, <1>3, <1>4, <1>5 DEF RT!Next

\* A reader of the PDF who follows its references from the root finds all lines,
\* in order and once, on pages that are not too long, and each object is where
\* the table says (writePDFLines), for any report.
THEOREM PdfIsWholeAlways ==
  ASSUME RT!SizeAssumption, RT!BoundAssumption, RT!WordsAssumption
  PROVE  RT!Spec => []PdfIsWhole
<1>1. RT!Init => TextInv /\ PdfInv
  <2> SUFFICES ASSUME RT!Init PROVE TextInv /\ PdfInv
    OBVIOUS
  <2>1. /\ writing = "findings" /\ pageNums = << >>
        /\ objects = <<RT!Object("catalog"), RT!Object("pages"), RT!Object("font")>>
    BY DEF RT!Init
  <2> QED
    BY <2>1, TextStarts DEF PdfInv, RT!PdfIsWhole, RT!Done
<1>2. TextInv /\ PdfInv /\ [RT!Next]_(RT!vars) => TextInv' /\ PdfInv'
  BY TextStep, PdfStep
<1>3. PdfInv => PdfIsWhole
  BY DEF PdfInv, PdfIsWhole
<1> QED
  BY <1>1, <1>2, <1>3, PTL DEF RT!Spec
=============================================================================
