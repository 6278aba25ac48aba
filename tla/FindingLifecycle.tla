--------------------------- MODULE FindingLifecycle ---------------------------
(***************************************************************************)
(* What happens to an automation instance and its finding once an          *)
(* observation of it has reached the dispatcher: the discovery module      *)
(* matches it against the whitelist, merges it into the inventory, scores  *)
(* it and stores the finding, one store call after the other; requests of  *)
(* administrators add and delete whitelist rules and sweep over all        *)
(* instances; analysts set the status of a finding; findings that changed  *)
(* go through the bus to the notifiers.                                    *)
(*                                                                         *)
(* The dispatcher is one goroutine and every request one of its own.  Each *)
(* store call holds the lock of the store; between two calls anything may  *)
(* happen.  EventPipeline shows that a store that is not dirty is the one  *)
(* on disk, so Flush is modelled here without the dirty flag.              *)
(***************************************************************************)
EXTENDS Naturals, Sequences

CONSTANTS
  Instances,    \* the automation instances on the hosts
  Rules,        \* the whitelist rules an administrator may add
  Matches,      \* the pairs <<rule, instance>> where the pattern matches
  Requests,     \* bound: whitelist requests served at one time
  Risks,        \* the severities the risk engine may come to
  MinSeverity,  \* the threshold of the notifiers
  AlertCap,     \* bound: finding events waiting in the queue of the bus
  MaxRequests,  \* bound: requests of administrators and analysts
  MaxCrashes    \* bound: crashes of the control plane

sevRank == [info |-> 0, low |-> 1, medium |-> 2, high |-> 3, critical |-> 4]

ASSUME MatchesAssumption == Matches \subseteq Rules \X Instances
ASSUME SeverityAssumption ==
  Risks \subseteq DOMAIN sevRank /\ MinSeverity \in DOMAIN sevRank
ASSUME LimitsAssumption ==
  AlertCap \in Nat \ {0} /\ MaxRequests \in Nat /\ MaxCrashes \in Nat

VARIABLES
  store,     \* the store in memory
  disk,      \* the snapshot file
  disp,      \* the dispatcher: the instance it is at, and what it has read
  req,       \* req[q]: the whitelist request q and its sweep
  alerts,    \* the finding events in the queue of the bus
  requests,  \* how many requests there have been
  crashes,   \* how many crashes there have been
  sent,      \* history: instances a notification was sent for
  exposed,   \* history: instances that were in the inventory unlisted
  last       \* history: the severity last announced for an instance since
             \* it was last scored as listed and since the start, or "none"

vars == <<store, disk, disp, req, alerts, requests, crashes, sent, exposed, last>>

-----------------------------------------------------------------------------
(***************************************************************************)
(* Data.                                                                   *)
(***************************************************************************)
\* What is stored of an instance, as far as whitelisting goes.
Listing == {"absent", "plain", "whitelisted"}

\* FindingStatus of the model package; "" is the zero value of the Go type.
FindingStatus == {"new", "acked", "resolved", "whitelisted"}

NoFinding == [status |-> "none", severity |-> "none"]

Finding == [status : FindingStatus \cup {""}, severity : DOMAIN sevRank]

Store == [inst : [Instances -> Listing],
          find : [Instances -> Finding \cup {NoFinding}],
          rules : SUBSET Rules]

EmptyStore == [inst |-> [i \in Instances |-> "absent"],
               find |-> [i \in Instances |-> NoFinding],
               rules |-> {}]

Event == [inst : Instances, status : FindingStatus \cup {""}, severity : DOMAIN sevRank]

Known(s) == {i \in Instances : s.inst[i] # "absent"}

\* MatchWhitelist: some rule of the store matches the instance.
MatchWhitelist(i) == \E r \in store.rules : <<r, i>> \in Matches

Muted(s, i) == s.find[i].status = "whitelisted"

-----------------------------------------------------------------------------
(***************************************************************************)
(* The dispatcher in the discovery module.                                 *)
(***************************************************************************)
AtRest == [pc |-> "idle", inst |-> << >>, listed |-> FALSE]

\* upsertAndScore reads the rules before it merges the instance.
ApplyRules(i) ==
  /\ disp.pc = "idle"
  /\ disp' = [pc |-> "upsert", inst |-> i, listed |-> MatchWhitelist(i)]
  /\ UNCHANGED <<store, disk, req, alerts, requests, crashes, sent, exposed, last>>

\* An observation of the n8n API does not go through upsertAndScore.
ReadAPI(i) ==
  /\ disp.pc = "idle"
  /\ disp' = [pc |-> "upsert", inst |-> i, listed |-> FALSE]
  /\ UNCHANGED <<store, disk, req, alerts, requests, crashes, sent, exposed, last>>

\* UpsertInstance: a new instance is stored as it is; the merge into one that
\* is there refreshes it but leaves the whitelist flag alone.
UpsertInstance ==
  LET i == disp.inst
      listing == IF disp.listed THEN "whitelisted" ELSE "plain"
  IN  /\ disp.pc = "upsert"
      /\ store' = [store EXCEPT !.inst[i] = IF @ = "absent" THEN listing ELSE @]
      /\ exposed' = IF store'.inst[i] = "plain" THEN exposed \cup {i} ELSE exposed
      /\ disp' = [disp EXCEPT !.pc = "read"]
      /\ UNCHANGED <<disk, req, alerts, requests, crashes, sent, last>>

\* rescore begins by reading the instance back.
ReadInstance ==
  /\ disp.pc = "read"
  /\ disp' = [disp EXCEPT !.pc = "score", !.listed = store.inst[disp.inst] = "whitelisted"]
  /\ UNCHANGED <<store, disk, req, alerts, requests, crashes, sent, exposed, last>>

\* Faulty variant: the queue takes any number of events.
PublishAlways(i, f) ==
  /\ alerts' = Append(alerts, [inst |-> i, status |-> f.status, severity |-> f.severity])
  /\ last' = [last EXCEPT ![i] = f.severity]

\* PublishFinding publishes a finding that changed.  Other events share the
\* queue, so it may be full for this one whatever the number of alerts.
PublishChanged(i, f) ==
  /\ \/ /\ Len(alerts) < AlertCap
        /\ alerts' = Append(alerts, [inst |-> i, status |-> f.status, severity |-> f.severity])
     \/ UNCHANGED alerts
  /\ last' = [last EXCEPT ![i] = f.severity]

\* UpsertFinding of a finding that is not there yet: it has changed.
CreateFinding(i, f) ==
  LET stored == [f EXCEPT !.status = IF @ = "" THEN "new" ELSE @]
  IN  /\ store.find[i] = NoFinding
      /\ store' = [store EXCEPT !.find[i] = stored]
      /\ PublishChanged(i, stored)

\* Faulty variants of UpdateFinding: every rescan of an unlisted instance is a
\* change; and what was muted once stays so.
UpdateAlwaysPublishes(i, f) ==
  LET old    == store.find[i]
      listed == "whitelisted" \in {f.status, old.status}
      stored == [f EXCEPT !.status = IF listed THEN @ ELSE old.status]
  IN  /\ old # NoFinding
      /\ store' = [store EXCEPT !.find[i] = stored]
      /\ IF listed
         THEN last' = [last EXCEPT ![i] = "none"] /\ UNCHANGED alerts
         ELSE PublishChanged(i, stored)

UpdateKeepsMuted(i, f) ==
  LET old    == store.find[i]
      listed == f.status = "whitelisted"
      stored == [f EXCEPT !.status = IF listed THEN @ ELSE old.status]
  IN  /\ old # NoFinding
      /\ store' = [store EXCEPT !.find[i] = stored]
      /\ last' = IF listed THEN [last EXCEPT ![i] = "none"] ELSE last
      /\ UNCHANGED alerts

\* UpsertFinding of one that is there: the severity is refreshed and the
\* status kept, except into and out of the whitelist; that is no change.
UpdateFinding(i, f) ==
  LET old    == store.find[i]
      listed == "whitelisted" \in {f.status, old.status}
      stored == [f EXCEPT !.status = IF listed THEN @ ELSE old.status]
  IN  /\ old # NoFinding
      /\ store' = [store EXCEPT !.find[i] = stored]
      /\ IF old.severity # f.severity /\ ~ listed
         THEN PublishChanged(i, stored)
         ELSE /\ last' = IF listed THEN [last EXCEPT ![i] = "none"] ELSE last
              /\ UNCHANGED alerts

\* rescore computes the finding from the inventory and hands it over.
StoreFinding ==
  /\ disp.pc = "score"
  /\ \E risk \in Risks :
       LET f == IF disp.listed
                THEN [status |-> "whitelisted", severity |-> "info"]
                ELSE [status |-> "", severity |-> risk]
       IN  CreateFinding(disp.inst, f) \/ UpdateFinding(disp.inst, f)
  /\ disp' = AtRest
  /\ UNCHANGED <<disk, req, requests, crashes, sent, exposed>>

\* Faulty variant: the notifiers look at the severity only.
NotifyMuted ==
  LET e == Head(alerts)
  IN  /\ disp.pc = "idle"
      /\ alerts # << >>
      /\ alerts' = Tail(alerts)
      /\ sent' = IF sevRank[e.severity] < sevRank[MinSeverity]
                 THEN sent
                 ELSE sent \cup {e.inst}
      /\ UNCHANGED <<store, disk, disp, req, requests, crashes, exposed, last>>

\* Manager.Notify, in the dispatcher as well.
Notify ==
  LET e == Head(alerts)
  IN  /\ disp.pc = "idle"
      /\ alerts # << >>
      /\ alerts' = Tail(alerts)
      /\ sent' = IF sevRank[e.severity] < sevRank[MinSeverity] \/ e.status = "whitelisted"
                 THEN sent
                 ELSE sent \cup {e.inst}
      /\ UNCHANGED <<store, disk, disp, req, requests, crashes, exposed, last>>

-----------------------------------------------------------------------------
(***************************************************************************)
(* Requests.  A whitelist request changes the rules and then sweeps, with  *)
(* the listing it took of the instances and the rules as they are.         *)
(***************************************************************************)
Done == [pc |-> "idle", seen |-> [i \in Instances |-> "absent"], todo |-> {}, at |-> << >>]

Request == requests < MaxRequests /\ requests' = requests + 1

AddRule(q, r) ==
  /\ req[q].pc = "idle"
  /\ r \notin store.rules
  /\ Request
  /\ store' = [store EXCEPT !.rules = @ \cup {r}]
  /\ req' = [req EXCEPT ![q].pc = "list"]
  /\ UNCHANGED <<disk, disp, alerts, crashes, sent, exposed, last>>

\* 404, and no sweep, if the rule is not there.
DeleteRule(q, r) ==
  /\ req[q].pc = "idle"
  /\ r \in store.rules
  /\ Request
  /\ store' = [store EXCEPT !.rules = @ \ {r}]
  /\ req' = [req EXCEPT ![q].pc = "list"]
  /\ UNCHANGED <<disk, disp, alerts, crashes, sent, exposed, last>>

\* applyWhitelist takes a copy of all instances.
ListInstances(q) ==
  /\ req[q].pc = "list"
  /\ req' = [req EXCEPT ![q] = [pc |-> "sweep", seen |-> store.inst,
                                todo |-> Known(store), at |-> << >>]]
  /\ UNCHANGED <<store, disk, disp, alerts, requests, crashes, sent, exposed, last>>

\* The copy is compared with the rules as they are now.
Stale(q, i) == MatchWhitelist(i) # (req[q].seen[i] = "whitelisted")

PassOver(q, i) ==
  /\ req[q].pc = "sweep"
  /\ i \in req[q].todo
  /\ ~ Stale(q, i)
  /\ req' = [req EXCEPT ![q].todo = @ \ {i}]
  /\ UNCHANGED <<store, disk, disp, alerts, requests, crashes, sent, exposed, last>>

\* The decision is taken, and carried out by the two calls that follow: the
\* flag of the instance is flipped, then the status of its finding set.
Decide(q, i) ==
  /\ req[q].pc = "sweep"
  /\ i \in req[q].todo
  /\ Stale(q, i)
  /\ req' = [req EXCEPT ![q].pc = "flag", ![q].todo = @ \ {i}, ![q].at = i]
  /\ UNCHANGED <<store, disk, disp, alerts, requests, crashes, sent, exposed, last>>

\* What the sweep makes of the instance it is at.
Target(q) == IF req[q].seen[req[q].at] = "whitelisted" THEN "plain" ELSE "whitelisted"

SetInstanceWhitelisted(q) ==
  LET i == req[q].at
  IN  /\ req[q].pc = "flag"
      /\ store' = [store EXCEPT !.inst[i] = Target(q)]
      /\ exposed' = IF Target(q) = "plain" THEN exposed \cup {i} ELSE exposed
      /\ req' = [req EXCEPT ![q].pc = "status"]
      /\ UNCHANGED <<disk, disp, alerts, requests, crashes, sent, last>>

\* The status of a finding, if there is a finding.
SetFindingStatus(i, status) ==
  store' = IF store.find[i] = NoFinding THEN store
           ELSE [store EXCEPT !.find[i].status = status]

SweepStatus(q) ==
  /\ req[q].pc = "status"
  /\ SetFindingStatus(req[q].at, IF Target(q) = "plain" THEN "new" ELSE "whitelisted")
  /\ req' = [req EXCEPT ![q].pc = "sweep", ![q].at = << >>]
  /\ UNCHANGED <<disk, disp, alerts, requests, crashes, sent, exposed, last>>

Answer(q) ==
  /\ req[q].pc = "sweep"
  /\ req[q].todo = {}
  /\ req' = [req EXCEPT ![q] = Done]
  /\ UNCHANGED <<store, disk, disp, alerts, requests, crashes, sent, exposed, last>>

\* apiFindingAction: ack, resolve or reopen.
FindingAction(i) ==
  /\ store.find[i] # NoFinding
  /\ Request
  /\ \E status \in {"acked", "resolved", "new"} : SetFindingStatus(i, status)
  /\ UNCHANGED <<disk, disp, req, alerts, crashes, sent, exposed, last>>

-----------------------------------------------------------------------------
(***************************************************************************)
(* The snapshot, and a process that dies and is started again from it.     *)
(***************************************************************************)
Flush ==
  /\ disk' = store
  /\ UNCHANGED <<store, disp, req, alerts, requests, crashes, sent, exposed, last>>

Crash ==
  /\ crashes < MaxCrashes
  /\ crashes' = crashes + 1
  /\ store' = disk
  /\ disp' = AtRest
  /\ req' = [q \in Requests |-> Done]
  /\ alerts' = << >>
  /\ last' = [i \in Instances |-> "none"]
  /\ UNCHANGED <<disk, requests, sent, exposed>>

-----------------------------------------------------------------------------
Init ==
  /\ store = EmptyStore
  /\ disk = EmptyStore
  /\ disp = AtRest
  /\ req = [q \in Requests |-> Done]
  /\ alerts = << >>
  /\ requests = 0
  /\ crashes = 0
  /\ sent = {}
  /\ exposed = {}
  /\ last = [i \in Instances |-> "none"]

Observe(i) == ApplyRules(i) \/ ReadAPI(i)

Handle == UpsertInstance \/ ReadInstance \/ StoreFinding

Sweep(q) ==
  \/ ListInstances(q) \/ SetInstanceWhitelisted(q) \/ SweepStatus(q) \/ Answer(q)
  \/ \E i \in Instances : PassOver(q, i) \/ Decide(q, i)

Next ==
  \/ \E i \in Instances : Observe(i) \/ FindingAction(i)
  \/ Handle
  \/ Notify
  \/ \E q \in Requests : Sweep(q) \/ \E r \in Rules : AddRule(q, r) \/ DeleteRule(q, r)
  \/ Flush
  \/ Crash

Spec == Init /\ [][Next]_vars

\* Every scan reports every instance again, and the queue is served in order:
\* no instance is passed over for ever.  The dispatcher and the handlers of
\* requests are runnable goroutines.
Fairness ==
  /\ \A i \in Instances : SF_vars(Observe(i))
  /\ WF_vars(Handle)
  /\ \A q \in Requests : WF_vars(Sweep(q))

FairSpec == Spec /\ Fairness

-----------------------------------------------------------------------------
(***************************************************************************)
(* Properties.                                                             *)
(***************************************************************************)
\* Type invariant: the values the store, the dispatcher, the requests and the
\* queue range over.
TypeOK ==
  /\ store \in Store /\ disk \in Store
  /\ disp \in [pc : {"idle", "upsert", "read", "score"},
               inst : Instances \cup {<< >>}, listed : BOOLEAN]
  /\ req \in [Requests -> [pc : {"idle", "list", "sweep", "flag", "status"},
                           seen : [Instances -> Listing],
                           todo : SUBSET Instances, at : Instances \cup {<< >>}]]
  /\ alerts \in Seq(Event) /\ Len(alerts) <= AlertCap
  /\ requests \in 0 .. MaxRequests /\ crashes \in 0 .. MaxCrashes
  /\ sent \subseteq Instances /\ exposed \subseteq Instances
  /\ last \in [Instances -> DOMAIN sevRank \cup {"none"}]

\* An instance that was listed when it was found and has stayed so raises no
\* notification, although its new finding is published like any other: the
\* event carries the muted status and Notify tests it (TZ 5.6).
ListedIsSilent == sent \subseteq exposed

\* Rescans do not repeat an alert: a finding is announced when it is new, when
\* its severity is another than the one announced last, or when it had been
\* scored as listed in between (store.go:367-368).
NoRepeatedAlert ==
  [][Len(alerts') > Len(alerts) =>
       LET e == alerts'[Len(alerts')] IN e.severity # last[e.inst]]_vars

\* "resolved findings can reopen" (store.go:395): when a rescan raises the
\* severity of a resolved finding, the finding does not stay resolved.
ResolvedReopens ==
  [][\A i \in Instances :
       /\ store.find[i].status = "resolved" /\ crashes' = crashes
       /\ sevRank[store'.find[i].severity] > sevRank[store.find[i].severity]
       => store'.find[i].status # "resolved"]_vars

\* Whatever sweeps, rescans, analysts and crashes did to each other, rescans
\* bring the findings back into agreement with the listing of the instances:
\* in the end exactly the findings of listed instances are muted.
ListingsSettle ==
  <>[](\A i \in Instances :
         /\ store.find[i] # NoFinding
         /\ Muted(store, i) <=> store.inst[i] = "whitelisted")

\* Adding or removing a rule mutes and unmutes (api.go:187-188, USAGE 8): in
\* the end an instance is listed exactly if a rule matches it.
ListingFollowsRules ==
  <>[](\A i \in Instances : store.inst[i] = "whitelisted" <=> MatchWhitelist(i))

\* Nothing is under way in the discovery module or in a sweep.
Quiet == disp.pc = "idle" /\ \A q \in Requests : req[q].pc = "idle"

\* When nothing is under way, the open finding of an instance that is not
\* listed has been announced with the risk it carries: a finding that is new
\* or of another severity is worth notifying (store.go:367-368).
RiskIsAnnounced ==
  Quiet => \A i \in Instances :
    store.inst[i] = "plain" /\ store.find[i].status = "new"
      /\ store.find[i].severity # "info" =>
      last[i] = store.find[i].severity
=============================================================================
