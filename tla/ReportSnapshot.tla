---------------------------- MODULE ReportSnapshot ----------------------------
(***************************************************************************)
(* Reports read the store while the ingest handlers and the dispatcher     *)
(* write it.  report.Build takes hosts, instances, findings and edges with *)
(* one lock each; autodoc.Generate takes hosts and instances and then the  *)
(* edges of one instance after the other.  Between two locks anything may  *)
(* happen.                                                                 *)
(***************************************************************************)
EXTENDS Naturals, FiniteSets

CONSTANTS
  Hosts,
  Instances,   \* the automation instances on the hosts
  HostOf,      \* HostOf[i]: the host of instance i
  EdgesFirst,  \* instances whose edges are stored before they are (containers)
  Reaching,    \* instances that have edges for certain: what a container reaches
               \* is read off its environment, which it keeps for life
  MaxCrashes   \* bound: crashes of the control plane

\* Assumed of the constants by the modules that give them values.
HostAssumption == HostOf \in [Instances -> Hosts]
FiniteAssumption == IsFiniteSet(Instances)
EdgesAssumption == EdgesFirst \subseteq Instances
ReachingAssumption == Reaching \subseteq Instances
CrashAssumption == MaxCrashes \in Nat

VARIABLES
  store,   \* the store in memory
  disk,    \* the snapshot file
  disp,    \* the dispatcher: the instance it is at, and what comes next
  rep,     \* the report that is being built, or was built last
  crashes  \* how many crashes there have been

vars == <<store, disk, disp, rep, crashes>>

-----------------------------------------------------------------------------
\* Keys of the maps of the store: instances have one finding each, and edges
\* are told apart by their instance only.
Store == [hosts : SUBSET Hosts, inst : SUBSET Instances, find : SUBSET Instances,
          edges : SUBSET Instances]

EmptyStore == [hosts |-> {}, inst |-> {}, find |-> {}, edges |-> {}]

Idle == [pc |-> "idle", at |-> {}]

NoReport == [pc |-> "none", kind |-> "report", data |-> EmptyStore, todo |-> {}]

-----------------------------------------------------------------------------
(***************************************************************************)
(* The writers.                                                            *)
(***************************************************************************)
\* Faulty variant: every instance is stored before its edges, as an n8n is.
EdgesNeverLead(at) == FALSE

\* handleDocker stores the edges before the instance they are of.
EdgesLead(at) == at \subseteq EdgesFirst

\* handleIngest registers the host of a batch.
UpsertHost(h) ==
  /\ store' = [store EXCEPT !.hosts = @ \cup {h}]
  /\ UNCHANGED <<disk, disp, rep, crashes>>

\* Faulty variant: an observation is handled whether its host is known or not.
HandleUnregistered(i) ==
  /\ disp = Idle
  /\ disp' = [pc |-> IF EdgesLead({i}) THEN "edges" ELSE "instance", at |-> {i}]
  /\ UNCHANGED <<store, disk, rep, crashes>>

\* The dispatcher takes an observation; the handler that published it has
\* registered the host before.
Handle(i) ==
  /\ disp = Idle
  /\ HostOf[i] \in store.hosts
  /\ disp' = [pc |-> IF EdgesLead({i}) THEN "edges" ELSE "instance", at |-> {i}]
  /\ UNCHANGED <<store, disk, rep, crashes>>

\* addReachability, for what there is to reach: before the upsert for a
\* container, after it for the workflows of an n8n.  Calls for several edges
\* are one step: they are all on the same side of the upsert.
AddReachability ==
  /\ disp.pc = "edges"
  /\ \/ store' = [store EXCEPT !.edges = @ \cup disp.at]
     \/ ~ (disp.at \subseteq Reaching) /\ UNCHANGED store
  /\ disp' = [disp EXCEPT !.pc = IF EdgesLead(disp.at) THEN "instance" ELSE "score"]
  /\ UNCHANGED <<disk, rep, crashes>>

UpsertInstance ==
  /\ disp.pc = "instance"
  /\ store' = [store EXCEPT !.inst = @ \cup disp.at]
  /\ disp' = [disp EXCEPT !.pc = IF EdgesLead(disp.at) THEN "score" ELSE "edges"]
  /\ UNCHANGED <<disk, rep, crashes>>

\* Faulty variant: instances are scored when they are seen for the second time.
ScoreLater ==
  /\ disp.pc = "score"
  /\ \/ UNCHANGED store
     \/ store' = [store EXCEPT !.find = @ \cup disp.at]
  /\ disp' = Idle
  /\ UNCHANGED <<disk, rep, crashes>>

\* rescore stores the finding of the instance.
StoreFinding ==
  /\ disp.pc = "score"
  /\ store' = [store EXCEPT !.find = @ \cup disp.at]
  /\ disp' = Idle
  /\ UNCHANGED <<disk, rep, crashes>>

\* Bound: the snapshot is not written once no crash can follow.
Flush ==
  /\ crashes < MaxCrashes
  /\ disk' = store
  /\ UNCHANGED <<store, disp, rep, crashes>>

\* A crash ends the request that builds a report with everything else.
Crash ==
  /\ crashes < MaxCrashes
  /\ crashes' = crashes + 1
  /\ store' = disk
  /\ disp' = Idle
  /\ rep' = NoReport
  /\ UNCHANGED disk

-----------------------------------------------------------------------------
(***************************************************************************)
(* The readers.                                                            *)
(***************************************************************************)
Begin(kind) ==
  /\ rep.pc \in {"none", "done"}
  /\ rep' = [NoReport EXCEPT !.pc = "hosts", !.kind = kind]
  /\ UNCHANGED <<store, disk, disp, crashes>>

ReadHosts ==
  /\ rep.pc = "hosts"
  /\ rep' = [rep EXCEPT !.pc = "instances", !.data.hosts = store.hosts]
  /\ UNCHANGED <<store, disk, disp, crashes>>

ReadInstances ==
  /\ rep.pc = "instances"
  /\ rep' = [rep EXCEPT
       !.pc = IF rep.kind = "report" THEN "findings" ELSE "walk",
       !.data.inst = store.inst,
       !.todo = IF rep.kind = "report" THEN {}
                ELSE {i \in store.inst : HostOf[i] \in rep.data.hosts}]
  /\ UNCHANGED <<store, disk, disp, crashes>>

ReadFindings ==
  /\ rep.pc = "findings"
  /\ rep' = [rep EXCEPT !.pc = "edges", !.data.find = store.find]
  /\ UNCHANGED <<store, disk, disp, crashes>>

ReadEdges ==
  /\ rep.pc = "edges"
  /\ rep' = [rep EXCEPT !.pc = "done", !.data.edges = store.edges]
  /\ UNCHANGED <<store, disk, disp, crashes>>

\* Generate goes through hosts and their instances, and reads the edges of each.
WriteInstance(i) ==
  /\ rep.pc = "walk"
  /\ i \in rep.todo
  /\ rep' = [rep EXCEPT !.todo = @ \ {i}, !.data.edges = @ \cup ({i} \cap store.edges)]
  /\ UNCHANGED <<store, disk, disp, crashes>>

EndDocument ==
  /\ rep.pc = "walk"
  /\ rep.todo = {}
  /\ rep' = [rep EXCEPT !.pc = "done"]
  /\ UNCHANGED <<store, disk, disp, crashes>>

-----------------------------------------------------------------------------
Init ==
  /\ store = EmptyStore
  /\ disk = EmptyStore
  /\ disp = Idle
  /\ rep = NoReport
  /\ crashes = 0

Write ==
  \/ \E h \in Hosts : UpsertHost(h)
  \/ \E i \in Instances : Handle(i)
  \/ AddReachability \/ UpsertInstance \/ StoreFinding

Read ==
  \/ \E k \in {"report", "document"} : Begin(k)
  \/ ReadHosts \/ ReadInstances \/ ReadFindings \/ ReadEdges
  \/ \E i \in Instances : WriteInstance(i)
  \/ EndDocument

Next == Write \/ Read \/ Flush \/ Crash

Spec == Init /\ [][Next]_vars

-----------------------------------------------------------------------------
TypeOK ==
  /\ store \in Store
  /\ disk \in Store
  /\ disp \in [pc : {"idle", "edges", "instance", "score"}, at : SUBSET Instances]
  /\ rep \in [pc : {"none", "hosts", "instances", "findings", "edges", "walk", "done"},
              kind : {"report", "document"}, data : Store, todo : SUBSET Instances]
  /\ crashes \in 0 .. MaxCrashes

\* Findings belong to instances and instances to hosts.
Closed(s) ==
  /\ s.find \subseteq s.inst
  /\ \A i \in s.inst : HostOf[i] \in s.hosts

\* At every moment the store, and the snapshot, is closed: a report made of
\* one state of it would be.
StoreClosed == Closed(store) /\ Closed(disk)

Unscored == rep.data.inst \ rep.data.find

\* For all the locks that are taken between its two readings, a report shows
\* at most one instance without its finding, and one more for each crash that
\* cut an instance off from its finding: instances are read before findings,
\* and the one dispatcher finishes an instance before it takes the next
\* (Build, upsertAndScore, rescore).
ReportMissesAtMostOne ==
  rep.pc = "done" /\ rep.kind = "report" => Cardinality(Unscored) <= 1 + crashes

\* The instances a report or a document shows: a document has a section for
\* each that is on a host it has read.
Shown == {i \in rep.data.inst : rep.kind = "report" \/ HostOf[i] \in rep.data.hosts}

\* A finished report, and a finished document, that shows a container which
\* reaches something shows that it does: the edges are stored before the
\* container, and read after it, whatever runs between the readings
\* (handleDocker, Build, Generate).
ReachIsShown ==
  rep.pc = "done" => Shown \cap Reaching \cap EdgesFirst \subseteq rep.data.edges
=============================================================================
