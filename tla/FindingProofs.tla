----------------------------- MODULE FindingProofs -----------------------------
(***************************************************************************)
(* Findings and the whitelist: proofs about FindingLifecycle, for every    *)
(* value of its constants.                                                 *)
(***************************************************************************)
EXTENDS FindingLifecycle, Lemmas

\* What the dispatcher and a sweep have in hand when they act on it.
InHand ==
  /\ disp.pc # "idle" => disp.inst \in Instances
  /\ \A q \in Requests : req[q].pc \in {"flag", "status"} => req[q].at \in Instances

\* The five severities, none of which is "none".
LEMMA Severities ==
  /\ DOMAIN sevRank = {"info", "low", "medium", "high", "critical"}
  /\ "none" \notin DOMAIN sevRank
  /\ "info" \in DOMAIN sevRank
BY DEF sevRank

\* A finding is not the absence of one.
LEMMA FindingIsOne ==
  ASSUME NEW f \in Finding
  PROVE  f # NoFinding
<1>1. f.status \in FindingStatus \cup {""}
  BY DEF Finding
<1>2. f.status # "none"
  BY <1>1 DEF FindingStatus
<1> QED
  BY <1>2 DEF NoFinding

\* What the store calls do to a store, field by field.
LEMMA StoreEdits ==
  ASSUME NEW s \in Store, NEW i \in Instances
  PROVE  /\ \A l \in Listing :
              LET t == [s EXCEPT !.inst[i] = l]
              IN  t \in Store /\ t.inst = [s.inst EXCEPT ![i] = l] /\ t.find = s.find
         /\ \A f \in Finding :
              LET t == [s EXCEPT !.find[i] = f]
              IN  t \in Store /\ t.find = [s.find EXCEPT ![i] = f] /\ t.inst = s.inst
         /\ \A R \in SUBSET Rules :
              LET t == [s EXCEPT !.rules = R]
              IN  t \in Store /\ t.inst = s.inst /\ t.find = s.find
BY DEF Store

\* A store holds a listing and a finding or none for every instance.
LEMMA StoreFields ==
  ASSUME NEW s \in Store, NEW i \in Instances
  PROVE  s.inst[i] \in Listing /\ s.find[i] \in Finding \cup {NoFinding}
BY DEF Store

-----------------------------------------------------------------------------
\* What StoreFinding does to the finding f it stores for instance i, to the
\* queue and to the severity announced last: f is announced, or it is muted, or
\* it is of the severity that is known.
Stores(i, f) ==
  /\ store' = [store EXCEPT !.find[i] = f]
  /\ \/ /\ \/ /\ Len(alerts) < AlertCap
              /\ alerts' = Append(alerts, [inst |-> i, status |-> f.status, severity |-> f.severity])
           \/ alerts' = alerts
        /\ last' = [last EXCEPT ![i] = f.severity]
        /\ f.severity # store.find[i].severity
        /\ disp.listed => f.status = "whitelisted"
     \/ /\ alerts' = alerts
        /\ last' = [last EXCEPT ![i] = "none"]
     \/ /\ alerts' = alerts
        /\ last' = last
        /\ f.severity = store.find[i].severity

\* A finding that is computed, and one that is stored with another status.
LEMMA FindingEdits ==
  ASSUME NEW f \in [status : FindingStatus \cup {""}, severity : DOMAIN sevRank],
         NEW s \in FindingStatus \cup {""}
  PROVE  LET g == [f EXCEPT !.status = s]
         IN  g \in Finding /\ g.status = s /\ g.severity = f.severity
BY DEF Finding

\* A finding that is new is stored with the status it comes with, or as new.
LEMMA CreateStores ==
  ASSUME TypeOK, NEW i \in Instances, NEW f \in Finding, CreateFinding(i, f),
         disp.listed => f.status = "whitelisted"
  PROVE  \E g \in Finding : Stores(i, g)
<1> DEFINE g == [f EXCEPT !.status = IF @ = "" THEN "new" ELSE @]
<1>1. g \in Finding /\ g.severity = f.severity /\ (f.status # "" => g.status = f.status)
  <2>1. f.status \in FindingStatus \cup {""} /\ "new" \in FindingStatus
    BY DEF Finding, FindingStatus
  <2>2. f \in [status : FindingStatus \cup {""}, severity : DOMAIN sevRank]
    BY DEF Finding
  <2> QED
    BY <2>1, <2>2, FindingEdits
<1>2. /\ store.find[i] = NoFinding
      /\ store' = [store EXCEPT !.find[i] = g]
      /\ PublishChanged(i, g)
  BY DEF CreateFinding
<1> HIDE DEF g
<1>3. store.find[i].severity = "none" /\ store.find[i].status = "none"
  BY <1>2 DEF NoFinding
<1>4. g.severity # "none"
  BY <1>1, Severities DEF Finding
<1>5. Stores(i, g)
  BY <1>1, <1>2, <1>3, <1>4 DEF Stores, PublishChanged
<1> QED
  BY <1>1, <1>5

\* A finding that was there is announced for another severity only.
LEMMA UpdateStores ==
  ASSUME TypeOK, NEW i \in Instances, NEW f \in Finding, UpdateFinding(i, f),
         f.status \in {"", "whitelisted"}, disp.listed => f.status = "whitelisted"
  PROVE  \E g \in Finding : Stores(i, g)
<1> DEFINE old == store.find[i]
           listed == "whitelisted" \in {f.status, old.status}
           g == [f EXCEPT !.status = IF listed THEN @ ELSE old.status]
<1>1. old \in Finding
  BY StoreFields DEF UpdateFinding, TypeOK
<1>2. /\ g \in Finding /\ g.severity = f.severity
      /\ g.status = IF listed THEN f.status ELSE old.status
  <2>1. /\ f.status \in FindingStatus \cup {""} /\ old.status \in FindingStatus \cup {""}
        /\ f \in [status : FindingStatus \cup {""}, severity : DOMAIN sevRank]
    BY <1>1 DEF Finding
  <2> QED
    BY <2>1, FindingEdits
<1>3. /\ store' = [store EXCEPT !.find[i] = g]
      /\ IF old.severity # f.severity /\ ~ listed
         THEN PublishChanged(i, g)
         ELSE /\ last' = IF listed THEN [last EXCEPT ![i] = "none"] ELSE last
              /\ UNCHANGED alerts
  BY DEF UpdateFinding
<1> HIDE DEF g
<1>4. CASE old.severity # f.severity /\ ~ listed
  <2>1. ~ disp.listed /\ g.status = old.status
    BY <1>2, <1>4
  <2> QED
    BY <1>2, <1>3, <1>4, <2>1 DEF Stores, PublishChanged
<1>5. CASE listed
  BY <1>2, <1>3, <1>5 DEF Stores
<1>6. CASE ~ listed /\ old.severity = f.severity
  BY <1>2, <1>3, <1>6 DEF Stores
<1> QED
  BY <1>4, <1>5, <1>6

\* Either way the dispatcher stores a finding of the instance it has in hand.
LEMMA FindingIsStored ==
  ASSUME TypeOK, InHand, StoreFinding
  PROVE  /\ disp.inst \in Instances
         /\ \E g \in Finding : Stores(disp.inst, g)
<1>1. disp.inst \in Instances
  BY DEF StoreFinding, InHand
<1>2. PICK risk \in Risks :
        LET f == IF disp.listed
                 THEN [status |-> "whitelisted", severity |-> "info"]
                 ELSE [status |-> "", severity |-> risk]
        IN  CreateFinding(disp.inst, f) \/ UpdateFinding(disp.inst, f)
  BY DEF StoreFinding
<1> DEFINE f == IF disp.listed
                THEN [status |-> "whitelisted", severity |-> "info"]
                ELSE [status |-> "", severity |-> risk]
<1>3. f \in Finding /\ f.status \in {"", "whitelisted"}
  BY Severities, SeverityAssumption DEF Finding, FindingStatus
<1>4. disp.listed => f.status = "whitelisted"
  OBVIOUS
<1>5. CreateFinding(disp.inst, f) \/ UpdateFinding(disp.inst, f)
  BY <1>2
<1> HIDE DEF f
<1> QED
  BY <1>1, <1>3, <1>4, <1>5, CreateStores, UpdateStores

-----------------------------------------------------------------------------
\* The values the dispatcher and the requests range over.
DispState ==
  [pc : {"idle", "upsert", "read", "score"}, inst : Instances \cup {<< >>}, listed : BOOLEAN]

RequestState ==
  [pc : {"idle", "list", "sweep", "flag", "status"}, seen : [Instances -> Listing],
   todo : SUBSET Instances, at : Instances \cup {<< >>}]

\* What a step does to one request keeps its type.
LEMMA RequestEdits ==
  ASSUME NEW r \in RequestState, NEW i \in Instances
  PROVE  /\ [r EXCEPT !.pc = "list"] \in RequestState
         /\ [r EXCEPT !.pc = "list"].pc = "list"
         /\ [r EXCEPT !.todo = @ \ {i}] \in RequestState
         /\ [r EXCEPT !.todo = @ \ {i}].pc = r.pc
         /\ [r EXCEPT !.todo = @ \ {i}].at = r.at
         /\ [r EXCEPT !.pc = "status"] \in RequestState
         /\ [r EXCEPT !.pc = "status"].at = r.at
         /\ [r EXCEPT !.pc = "status"].seen = r.seen
         /\ [r EXCEPT !.pc = "sweep", !.at = << >>] \in RequestState
         /\ [r EXCEPT !.pc = "sweep", !.at = << >>].pc = "sweep"
BY DEF RequestState

\* A sweep that goes to an instance of its list remains a request.
LEMMA DecideEdit ==
  ASSUME NEW r \in RequestState, NEW i \in Instances
  PROVE  LET d == [r EXCEPT !.pc = "flag", !.todo = @ \ {i}, !.at = i]
         IN  d \in RequestState /\ d.at = i
<1> DEFINE a == [r EXCEPT !.pc = "flag"]
           b == [a EXCEPT !.todo = r.todo \ {i}]
<1>1. [r EXCEPT !.pc = "flag", !.todo = @ \ {i}, !.at = i] = [b EXCEPT !.at = i]
  OBVIOUS
<1>2. a \in RequestState /\ b \in RequestState
  BY DEF RequestState
<1> HIDE DEF a, b
<1>3. [b EXCEPT !.at = i] \in RequestState /\ [b EXCEPT !.at = i].at = i
  BY <1>2 DEF RequestState
<1> QED
  BY <1>1, <1>3

\* The states of rest are states.
LEMMA RestTypes ==
  /\ AtRest \in DispState /\ AtRest.pc = "idle"
  /\ Done \in RequestState /\ Done.pc = "idle"
  /\ EmptyStore \in Store
<1>1. AtRest \in DispState /\ AtRest.pc = "idle"
  BY DEF AtRest, DispState
<1>2. Done \in RequestState /\ Done.pc = "idle"
  BY DEF Done, RequestState, Listing
<1>3. EmptyStore \in Store
  BY DEF EmptyStore, Store, Listing
<1> QED
  BY <1>1, <1>2, <1>3

\* Replacing one request keeps the type of them all.
LEMMA RequestUpdate ==
  ASSUME TypeOK, InHand, NEW q \in Requests, NEW r \in RequestState,
         r.pc \in {"flag", "status"} => r.at \in Instances,
         req' = [req EXCEPT ![q] = r]
  PROVE  /\ req' \in [Requests -> RequestState]
         /\ \A p \in Requests : req'[p].pc \in {"flag", "status"} => req'[p].at \in Instances
BY DEF TypeOK, InHand, RequestState

\* The status of a finding that is there is set, and nothing else.
LEMMA StatusIsSet ==
  ASSUME TypeOK, NEW i \in Instances, NEW status \in FindingStatus,
         SetFindingStatus(i, status)
  PROVE  /\ store' \in Store /\ store'.inst = store.inst
         /\ \A j \in Instances :
              /\ store'.find[j].severity = store.find[j].severity
              /\ j # i => store'.find[j] = store.find[j]
<1>1. CASE store.find[i] = NoFinding
  BY <1>1 DEF SetFindingStatus, TypeOK
<1>2. CASE store.find[i] # NoFinding
  <2>1. store.find[i] \in Finding
    BY <1>2, StoreFields DEF TypeOK
  <2> DEFINE f == [store.find[i] EXCEPT !.status = status]
  <2>2. f \in Finding /\ f.severity = store.find[i].severity
    BY <2>1, FindingEdits DEF Finding
  <2>3. store' = [store EXCEPT !.find[i] = f]
    BY <1>2 DEF SetFindingStatus
  <2> HIDE DEF f
  <2>4. store' \in Store /\ store'.find = [store.find EXCEPT ![i] = f] /\ store'.inst = store.inst
    BY <2>2, <2>3, StoreEdits DEF TypeOK
  <2> QED
    BY <2>2, <2>4 DEF TypeOK, Store
<1> QED
  BY <1>1, <1>2

\* A step of the dispatcher keeps the types.
LEMMA ObserveType ==
  ASSUME TypeOK, InHand, NEW i \in Instances, Observe(i)
  PROVE  TypeOK' /\ InHand'
<1>1. PICK b \in BOOLEAN : disp' = [pc |-> "upsert", inst |-> i, listed |-> b]
  <2>1. MatchWhitelist(i) \in BOOLEAN
    BY DEF MatchWhitelist
  <2> QED
    BY <2>1 DEF Observe, ApplyRules, ReadAPI
<1>2. disp' \in DispState /\ disp'.inst = i
  BY <1>1 DEF DispState
<1> QED
  BY <1>2 DEF Observe, ApplyRules, ReadAPI, TypeOK, InHand, DispState

\* After the merge the instance is in the inventory, and no finding has changed.
LEMMA UpsertType ==
  ASSUME TypeOK, InHand, UpsertInstance
  PROVE  /\ TypeOK' /\ InHand'
         /\ store'.find = store.find
         /\ store'.inst[disp.inst] # "absent"
         /\ \A j \in Instances : j # disp.inst => store'.inst[j] = store.inst[j]
<1> DEFINE i == disp.inst
           listing == IF disp.listed THEN "whitelisted" ELSE "plain"
           l == IF store.inst[i] = "absent" THEN listing ELSE store.inst[i]
<1>1. i \in Instances /\ listing \in Listing /\ listing # "absent"
  BY DEF UpsertInstance, InHand, Listing
<1>2. l \in Listing /\ l # "absent"
  BY <1>1, StoreFields DEF TypeOK
<1>3. store' = [store EXCEPT !.inst[i] = l]
  BY DEF UpsertInstance
<1> HIDE DEF l
<1>4. store' \in Store /\ store'.inst = [store.inst EXCEPT ![i] = l] /\ store'.find = store.find
  BY <1>1, <1>2, <1>3, StoreEdits DEF TypeOK
<1>5. /\ store'.inst[i] = l
      /\ \A j \in Instances : j # i => store'.inst[j] = store.inst[j]
  BY <1>1, <1>4 DEF TypeOK, Store
<1>6. disp' \in DispState /\ disp'.inst = disp.inst
  BY DEF UpsertInstance, TypeOK, DispState
<1>7. exposed' \subseteq Instances
  BY <1>1 DEF UpsertInstance, TypeOK
<1>8. TypeOK' /\ InHand'
  BY <1>1, <1>4, <1>6, <1>7 DEF UpsertInstance, TypeOK, InHand, DispState
<1> QED
  BY <1>2, <1>4, <1>5, <1>8

\* Storing a finding keeps the types.
LEMMA StoreFindingType ==
  ASSUME TypeOK, InHand, StoreFinding
  PROVE  TypeOK' /\ InHand'
<1> DEFINE i == disp.inst
<1>1. i \in Instances
  BY FindingIsStored
<1>2. PICK f \in Finding : Stores(i, f)
  BY FindingIsStored
<1>3. store' \in Store
  BY <1>1, <1>2, StoreEdits DEF Stores, TypeOK
<1>4. f.severity \in DOMAIN sevRank /\ f.status \in FindingStatus \cup {""}
  BY DEF Finding
<1>5. [inst |-> i, status |-> f.status, severity |-> f.severity] \in Event
  BY <1>1, <1>4 DEF Event
<1> HIDE DEF i
<1>6. alerts' \in Seq(Event) /\ Len(alerts') <= AlertCap
  <2> DEFINE ev == [inst |-> i, status |-> f.status, severity |-> f.severity]
  <2>1. alerts' = alerts \/ (alerts' = Append(alerts, ev) /\ Len(alerts) < AlertCap)
    BY <1>2 DEF Stores
  <2>2. ev \in Event /\ alerts \in Seq(Event) /\ Len(alerts) <= AlertCap
    BY <1>5 DEF TypeOK
  <2> HIDE DEF ev
  <2> QED
    BY <2>1, <2>2, LimitsAssumption
<1>7. last' \in [Instances -> DOMAIN sevRank \cup {"none"}]
  BY <1>1, <1>2, <1>4 DEF Stores, TypeOK
<1>8. disp' \in DispState /\ disp'.pc = "idle"
  BY RestTypes DEF StoreFinding
<1> QED
  BY <1>3, <1>6, <1>7, <1>8 DEF StoreFinding, TypeOK, InHand, DispState

\* The steps of a sweep keep the types.
LEMMA SweepType ==
  ASSUME TypeOK, InHand, NEW q \in Requests, Sweep(q)
  PROVE  TypeOK' /\ InHand'
<1>1. req[q] \in RequestState
  BY DEF TypeOK, RequestState
<1>2. CASE ListInstances(q)
  <2> DEFINE r == [pc |-> "sweep", seen |-> store.inst, todo |-> Known(store), at |-> << >>]
  <2>1. r \in RequestState /\ r.pc = "sweep"
    BY DEF RequestState, TypeOK, Store, Known
  <2>2. req' = [req EXCEPT ![q] = r]
    BY <1>2 DEF ListInstances
  <2> HIDE DEF r
  <2> QED
    BY <1>2, <2>1, <2>2, RequestUpdate DEF ListInstances, TypeOK, InHand, RequestState
<1>3. CASE SetInstanceWhitelisted(q)
  <2>1. req[q].at \in Instances /\ Target(q) \in Listing
    BY <1>3 DEF SetInstanceWhitelisted, InHand, Target, Listing
  <2>2. store' \in Store
    BY <1>3, <2>1, StoreEdits DEF SetInstanceWhitelisted, TypeOK
  <2>3. exposed' \subseteq Instances
    BY <1>3, <2>1 DEF SetInstanceWhitelisted, TypeOK
  <2> DEFINE r == [req[q] EXCEPT !.pc = "status"]
  <2>4. r \in RequestState /\ r.at = req[q].at
    BY <1>1, <2>1, RequestEdits
  <2>5. req' = [req EXCEPT ![q] = r]
    BY <1>3 DEF SetInstanceWhitelisted
  <2> HIDE DEF r
  <2>6. /\ req' \in [Requests -> RequestState]
        /\ \A p \in Requests : req'[p].pc \in {"flag", "status"} => req'[p].at \in Instances
    BY <2>1, <2>4, <2>5, RequestUpdate
  <2> QED
    BY <1>3, <2>2, <2>3, <2>6 DEF SetInstanceWhitelisted, TypeOK, InHand, RequestState
<1>4. CASE SweepStatus(q)
  <2>1. req[q].at \in Instances
    BY <1>4 DEF SweepStatus, InHand
  <2>2. PICK status \in FindingStatus : SetFindingStatus(req[q].at, status)
    BY <1>4 DEF SweepStatus, FindingStatus
  <2>3. store' \in Store
    BY <2>1, <2>2, StatusIsSet
  <2> DEFINE r == [req[q] EXCEPT !.pc = "sweep", !.at = << >>]
  <2>4. r \in RequestState /\ r.pc = "sweep"
    BY <1>1, <2>1, RequestEdits
  <2>5. req' = [req EXCEPT ![q] = r]
    BY <1>4 DEF SweepStatus
  <2> HIDE DEF r
  <2>6. /\ req' \in [Requests -> RequestState]
        /\ \A p \in Requests : req'[p].pc \in {"flag", "status"} => req'[p].at \in Instances
    BY <2>4, <2>5, RequestUpdate
  <2> QED
    BY <1>4, <2>3, <2>6 DEF SweepStatus, TypeOK, InHand, RequestState
<1>5. CASE Answer(q)
  <2>1. req' = [req EXCEPT ![q] = Done]
    BY <1>5 DEF Answer
  <2> QED
    BY <1>5, <2>1, RestTypes, RequestUpdate DEF Answer, TypeOK, InHand, RequestState
<1>6. ASSUME NEW i \in Instances, PassOver(q, i)
      PROVE  TypeOK' /\ InHand'
  <2> DEFINE r == [req[q] EXCEPT !.todo = @ \ {i}]
  <2>1. r \in RequestState /\ r.pc = req[q].pc
    BY <1>1, RequestEdits
  <2>2. req' = [req EXCEPT ![q] = r] /\ req[q].pc = "sweep"
    BY <1>6 DEF PassOver
  <2> HIDE DEF r
  <2>3. /\ req' \in [Requests -> RequestState]
        /\ \A p \in Requests : req'[p].pc \in {"flag", "status"} => req'[p].at \in Instances
    BY <1>1, <2>1, <2>2, RequestUpdate
  <2>4. UNCHANGED <<store, disk, disp, alerts, requests, crashes, sent, exposed, last>>
    BY <1>6 DEF PassOver
  <2> QED
    BY <1>1, <2>3, <2>4 DEF TypeOK, InHand, RequestState
<1>7. ASSUME NEW i \in Instances, Decide(q, i)
      PROVE  TypeOK' /\ InHand'
  <2> DEFINE r == [req[q] EXCEPT !.pc = "flag", !.todo = @ \ {i}, !.at = i]
  <2>1. r \in RequestState /\ r.at = i
    BY <1>1, DecideEdit
  <2>2. req' = [req EXCEPT ![q] = r]
    BY <1>7 DEF Decide
  <2> HIDE DEF r
  <2> QED
    BY <1>7, <2>1, <2>2, RequestUpdate DEF Decide, TypeOK, InHand, RequestState
<1> QED
  BY <1>2, <1>3, <1>4, <1>5, <1>6, <1>7 DEF Sweep

\* Requests about rules change no listing and no finding.
LEMMA RuleType ==
  ASSUME TypeOK, InHand, NEW q \in Requests, NEW r \in Rules,
         AddRule(q, r) \/ DeleteRule(q, r)
  PROVE  /\ TypeOK' /\ InHand'
         /\ store'.inst = store.inst /\ store'.find = store.find
<1>1. /\ [req[q] EXCEPT !.pc = "list"] \in RequestState
      /\ [req[q] EXCEPT !.pc = "list"].pc = "list"
  <2>1. req[q] \in RequestState
    BY DEF TypeOK, RequestState
  <2> QED
    BY <2>1 DEF RequestState
<1>2. PICK R \in SUBSET Rules : store' = [store EXCEPT !.rules = R]
  BY DEF AddRule, DeleteRule, TypeOK, Store
<1>3. store' \in Store /\ store'.inst = store.inst /\ store'.find = store.find
  BY <1>2 DEF TypeOK, Store
<1> DEFINE s == [req[q] EXCEPT !.pc = "list"]
<1>4. req' = [req EXCEPT ![q] = s]
  BY DEF AddRule, DeleteRule
<1> HIDE DEF s
<1>5. /\ req' \in [Requests -> RequestState]
      /\ \A p \in Requests : req'[p].pc \in {"flag", "status"} => req'[p].at \in Instances
  <2>1. s \in RequestState /\ s.pc = "list"
    BY <1>1 DEF s
  <2> QED
    BY <1>4, <2>1, RequestUpdate
<1>6. requests' \in 0 .. MaxRequests
  BY LimitsAssumption DEF AddRule, DeleteRule, Request, TypeOK
<1> QED
  BY <1>3, <1>5, <1>6 DEF AddRule, DeleteRule, TypeOK, InHand, RequestState

\* The values the variables range over, and what a step has in hand, hold in
\* every reachable state.
LEMMA TypeInit == Init => TypeOK /\ InHand
<1> SUFFICES ASSUME Init PROVE TypeOK /\ InHand
  OBVIOUS
<1>1. req \in [Requests -> RequestState] /\ \A q \in Requests : req[q].pc = "idle"
  BY RestTypes DEF Init
<1>2. last \in [Instances -> DOMAIN sevRank \cup {"none"}]
  BY DEF Init
<1>3. alerts \in Seq(Event) /\ Len(alerts) <= AlertCap
  BY LimitsAssumption DEF Init
<1>4. requests \in 0 .. MaxRequests /\ crashes \in 0 .. MaxCrashes
  BY LimitsAssumption DEF Init
<1> QED
  BY <1>1, <1>2, <1>3, <1>4, RestTypes DEF Init, TypeOK, InHand, DispState, RequestState

\* Every step keeps the types.
LEMMA TypeStep ==
  ASSUME TypeOK, InHand, [Next]_vars
  PROVE  TypeOK' /\ InHand'
<1>1. ASSUME NEW i \in Instances, FindingAction(i)
      PROVE  TypeOK' /\ InHand'
  <2>1. PICK status \in FindingStatus : SetFindingStatus(i, status)
    BY <1>1 DEF FindingAction, FindingStatus
  <2>2. store' \in Store
    BY <2>1, StatusIsSet
  <2>3. requests' \in 0 .. MaxRequests
    BY <1>1, LimitsAssumption DEF FindingAction, Request, TypeOK
  <2> QED
    BY <1>1, <2>2, <2>3 DEF FindingAction, TypeOK, InHand
<1>2. CASE ReadInstance
  <2>1. disp' \in DispState /\ disp'.inst = disp.inst
    BY <1>2 DEF ReadInstance, TypeOK, DispState
  <2> QED
    BY <1>2, <2>1 DEF ReadInstance, TypeOK, InHand, DispState
<1>3. CASE Notify
  <2>1. Head(alerts).inst \in Instances
    <3>1. Head(alerts) \in Event
      BY <1>3 DEF Notify, TypeOK
    <3> QED
      BY <3>1 DEF Event
  <2>2. alerts' \in Seq(Event) /\ Len(alerts') <= AlertCap
    BY <1>3, LimitsAssumption DEF Notify, TypeOK
  <2> QED
    BY <1>3, <2>1, <2>2 DEF Notify, TypeOK, InHand
<1>4. CASE Flush
  BY <1>4 DEF Flush, TypeOK, InHand
<1>5. CASE Crash
  <2>1. req' \in [Requests -> RequestState] /\ \A q \in Requests : req'[q].pc = "idle"
    BY <1>5, RestTypes DEF Crash
  <2>2. last' \in [Instances -> DOMAIN sevRank \cup {"none"}]
    BY <1>5 DEF Crash
  <2>3. alerts' \in Seq(Event) /\ Len(alerts') <= AlertCap
    BY <1>5, LimitsAssumption DEF Crash
  <2>4. crashes' \in 0 .. MaxCrashes
    BY <1>5, LimitsAssumption DEF Crash, TypeOK
  <2>5. disp' \in DispState /\ disp'.pc = "idle"
    BY <1>5, RestTypes DEF Crash
  <2> QED
    BY <1>5, <2>1, <2>2, <2>3, <2>4, <2>5
    DEF Crash, TypeOK, InHand, DispState, RequestState
<1>6. CASE UNCHANGED vars
  BY <1>6 DEF vars, TypeOK, InHand
<1> QED
  BY <1>1, <1>2, <1>3, <1>4, <1>5, <1>6, ObserveType, UpsertType, StoreFindingType,
     SweepType, RuleType
  DEF Next, Handle

\* Every reachable state has the types of TypeOK.
THEOREM TypeCorrect == Spec => []TypeOK
<1>1. TypeOK /\ InHand /\ [Next]_vars => TypeOK' /\ InHand'
  BY TypeStep
<1> QED
  BY <1>1, TypeInit, PTL DEF Spec

-----------------------------------------------------------------------------
\* Whatever a store lists as plain has been in the inventory unlisted.
Exposures(s) == \A i \in Instances : s.inst[i] = "plain" => i \in exposed

\* The invariant behind ListedIsSilent.  An alert that is not muted, and the
\* score that gives rise to it, belong to an instance that was exposed: what
\* rescore reads back is in the inventory, so that it is plain or listed.
SilentInv ==
  /\ Exposures(store) /\ Exposures(disk)
  /\ disp.pc \in {"read", "score"} => store.inst[disp.inst] # "absent"
  /\ disp.pc = "score" /\ ~ disp.listed => disp.inst \in exposed
  /\ \A k \in DOMAIN alerts : alerts[k].status # "whitelisted" => alerts[k].inst \in exposed
  /\ sent \subseteq exposed

\* A merge that makes an instance unlisted makes it exposed.
LEMMA SilentUpsert ==
  ASSUME TypeOK, InHand, SilentInv, UpsertInstance
  PROVE  SilentInv'
<1> DEFINE i == disp.inst
<1>1. i \in Instances
  BY DEF UpsertInstance, InHand
<1>2. /\ store'.inst[i] # "absent"
      /\ \A j \in Instances : j # i => store'.inst[j] = store.inst[j]
  BY UpsertType
<1>3. exposed \subseteq exposed' /\ (store'.inst[i] = "plain" => i \in exposed')
  BY DEF UpsertInstance
<1>4. disp'.pc = "read" /\ disp'.inst = i
  BY DEF UpsertInstance, TypeOK
<1> HIDE DEF i
<1>5. Exposures(store)' /\ Exposures(disk)'
  BY <1>2, <1>3 DEF SilentInv, Exposures, UpsertInstance
<1> QED
  BY <1>2, <1>3, <1>4, <1>5 DEF SilentInv, UpsertInstance

\* The dispatcher reads of an instance what is in the inventory.
LEMMA SilentRead ==
  ASSUME TypeOK, InHand, SilentInv, ReadInstance
  PROVE  SilentInv'
<1>1. disp.inst \in Instances /\ store.inst[disp.inst] \in {"plain", "whitelisted"}
  BY StoreFields DEF ReadInstance, InHand, SilentInv, TypeOK, Listing
<1>2. /\ disp'.pc = "score" /\ disp'.inst = disp.inst
      /\ ~ disp'.listed => store.inst[disp.inst] = "plain"
  BY <1>1 DEF ReadInstance, TypeOK
<1> QED
  BY <1>1, <1>2 DEF ReadInstance, SilentInv, Exposures

\* What is announced of a finding is announced of an exposed instance.
LEMMA SilentStore ==
  ASSUME TypeOK, InHand, SilentInv, StoreFinding
  PROVE  SilentInv'
<1> DEFINE i == disp.inst
<1>1. i \in Instances /\ disp.pc = "score" /\ (~ disp.listed => i \in exposed)
  BY FindingIsStored DEF StoreFinding, SilentInv
<1>2. PICK f \in Finding : Stores(i, f)
  BY FindingIsStored
<1>3. store'.inst = store.inst
  BY <1>1, <1>2, StoreEdits DEF Stores, TypeOK
<1> DEFINE ev == [inst |-> i, status |-> f.status, severity |-> f.severity]
<1>4. \/ alerts' = alerts
      \/ alerts' = Append(alerts, ev) /\ (disp.listed => ev.status = "whitelisted")
  BY <1>2 DEF Stores
<1>5. ev.inst = i
  OBVIOUS
<1> HIDE DEF i, ev
<1>6. \A k \in DOMAIN alerts' : alerts'[k].status # "whitelisted" => alerts'[k].inst \in exposed
  <2>1. alerts \in Seq(Event)
    BY DEF TypeOK
  <2>2. CASE alerts' = alerts
    BY <2>2 DEF SilentInv
  <2>3. CASE alerts' # alerts
    <3>1. \A k \in DOMAIN alerts' : (k \in DOMAIN alerts /\ alerts'[k] = alerts[k]) \/ alerts'[k] = ev
      BY <1>4, <2>1, <2>3
    <3>2. ev.status # "whitelisted" => ev.inst \in exposed
      BY <1>1, <1>4, <1>5, <2>3
    <3> QED
      BY <3>1, <3>2 DEF SilentInv
  <2> QED
    BY <2>2, <2>3
<1>7. disp'.pc = "idle"
  BY RestTypes DEF StoreFinding
<1> QED
  BY <1>3, <1>6, <1>7 DEF SilentInv, Exposures, StoreFinding

\* What is taken from the queue and sent was announced of an exposed instance.
LEMMA SilentNotify ==
  ASSUME TypeOK, SilentInv, Notify
  PROVE  SilentInv'
<1>1. alerts \in Seq(Event) /\ alerts # << >> /\ alerts' = Tail(alerts)
  BY DEF TypeOK, Notify
<1>2. \A k \in DOMAIN alerts' : k + 1 \in DOMAIN alerts /\ alerts'[k] = alerts[k + 1]
  BY <1>1
<1>3. Head(alerts) = alerts[1] /\ 1 \in DOMAIN alerts
  BY <1>1
<1>4. sent' \subseteq exposed
  BY <1>3 DEF Notify, SilentInv
<1> QED
  BY <1>2, <1>4 DEF Notify, SilentInv, Exposures

\* A step that leaves the dispatcher, the queue and the listings alone.
LEMMA SilentFrame ==
  ASSUME SilentInv, store'.inst = store.inst, disk' = disk,
         UNCHANGED <<disp, alerts, sent, exposed>>
  PROVE  SilentInv'
BY DEF SilentInv, Exposures

\* A sweep that takes the flag off an instance exposes it.
LEMMA SilentFlag ==
  ASSUME TypeOK, InHand, SilentInv, NEW q \in Requests, SetInstanceWhitelisted(q)
  PROVE  SilentInv'
<1> DEFINE i == req[q].at
           l == Target(q)
<1>1. i \in Instances /\ l \in Listing /\ l # "absent"
  BY DEF SetInstanceWhitelisted, InHand, Target, Listing
<1>2. /\ store' = [store EXCEPT !.inst[i] = l]
      /\ exposed' = IF l = "plain" THEN exposed \cup {i} ELSE exposed
  BY DEF SetInstanceWhitelisted
<1> HIDE DEF i, l
<1>3. store'.inst = [store.inst EXCEPT ![i] = l]
  BY <1>1, <1>2, StoreEdits DEF TypeOK
<1>4. /\ store'.inst[i] = l
      /\ \A j \in Instances : j # i => store'.inst[j] = store.inst[j]
  BY <1>1, <1>3 DEF TypeOK, Store
<1>5. \A j \in Instances : store.inst[j] # "absent" => store'.inst[j] # "absent"
  BY <1>1, <1>4
<1>6. disp.pc # "idle" => disp.inst \in Instances
  BY DEF InHand
<1>7. Exposures(store)' /\ Exposures(disk)'
  BY <1>2, <1>4 DEF SetInstanceWhitelisted, SilentInv, Exposures
<1>8. exposed \subseteq exposed'
  BY <1>2
<1> QED
  BY <1>5, <1>6, <1>7, <1>8 DEF SetInstanceWhitelisted, SilentInv

\* Every step keeps SilentInv.
LEMMA SilentStep ==
  ASSUME TypeOK, InHand, SilentInv, [Next]_vars
  PROVE  SilentInv'
<1>1. ASSUME NEW i \in Instances, Observe(i) PROVE SilentInv'
  <2>1. disp'.pc = "upsert"
    BY <1>1 DEF Observe, ApplyRules, ReadAPI
  <2> QED
    BY <1>1, <2>1 DEF Observe, ApplyRules, ReadAPI, SilentInv, Exposures
<1>2. ASSUME NEW i \in Instances, FindingAction(i) PROVE SilentInv'
  <2>1. PICK status \in FindingStatus : SetFindingStatus(i, status)
    BY <1>2 DEF FindingAction, FindingStatus
  <2> QED
    BY <1>2, <2>1, StatusIsSet, SilentFrame DEF FindingAction
<1>3. ASSUME NEW q \in Requests, Sweep(q) PROVE SilentInv'
  <2>1. CASE SweepStatus(q)
    <3>1. PICK status \in FindingStatus : SetFindingStatus(req[q].at, status)
      BY <2>1 DEF SweepStatus, FindingStatus
    <3>2. store'.inst = store.inst
      BY <2>1, <3>1, StatusIsSet DEF SweepStatus, InHand
    <3> QED
      BY <2>1, <3>2, SilentFrame DEF SweepStatus
  <2> QED
    BY <1>3, <2>1, SilentFlag, SilentFrame
    DEF Sweep, ListInstances, Answer, PassOver, Decide
<1>4. ASSUME NEW q \in Requests, NEW r \in Rules, AddRule(q, r) \/ DeleteRule(q, r)
      PROVE  SilentInv'
  BY <1>4, RuleType, SilentFrame DEF AddRule, DeleteRule
<1>5. CASE Flush
  BY <1>5 DEF Flush, SilentInv, Exposures
<1>6. CASE Crash
  <2>1. disp'.pc = "idle" /\ alerts' = << >>
    BY <1>6, RestTypes DEF Crash
  <2> QED
    BY <1>6, <2>1 DEF Crash, SilentInv, Exposures
<1>7. CASE UNCHANGED vars
  BY <1>7 DEF vars, SilentInv, Exposures
<1> QED
  BY <1>1, <1>2, <1>3, <1>4, <1>5, <1>6, <1>7, SilentUpsert, SilentRead, SilentStore,
     SilentNotify
  DEF Next, Handle

\* No notification is ever sent for an instance that has been listed whenever
\* it was in the inventory, whatever sweeps and crashes come in between.
THEOREM ListedStaysSilent == Spec => []ListedIsSilent
<1>1. Init => SilentInv
  BY RestTypes DEF Init, SilentInv, Exposures, EmptyStore
<1>2. TypeOK /\ InHand /\ SilentInv /\ [Next]_vars => TypeOK' /\ InHand' /\ SilentInv'
  BY TypeStep, SilentStep
<1>3. SilentInv => ListedIsSilent
  BY DEF SilentInv, ListedIsSilent
<1> QED
  BY <1>1, <1>2, <1>3, TypeInit, PTL DEF Spec

-----------------------------------------------------------------------------
\* The severity announced last for an instance is the one that is stored, so
\* that a severity that differs from the stored one differs from it, too.
LastKnown == \A i \in Instances : last[i] \in {"none", store.find[i].severity}

\* The severity announced last is the one that is stored.
LEMMA LastStore ==
  ASSUME TypeOK, InHand, LastKnown, StoreFinding
  PROVE  LastKnown'
<1> DEFINE i == disp.inst
<1>1. i \in Instances
  BY FindingIsStored
<1>2. PICK f \in Finding : Stores(i, f)
  BY FindingIsStored
<1> HIDE DEF i
<1>3. store'.find = [store.find EXCEPT ![i] = f]
  BY <1>1, <1>2, StoreEdits DEF Stores, TypeOK
<1>4. /\ store'.find[i] = f
      /\ \A j \in Instances : j # i => store'.find[j] = store.find[j]
  BY <1>1, <1>3 DEF TypeOK, Store
<1>5. \A j \in Instances : j # i => last'[j] = last[j]
  BY <1>2 DEF Stores, TypeOK
<1>6. last'[i] \in {"none", f.severity}
  BY <1>1, <1>2 DEF Stores, TypeOK, LastKnown
<1> QED
  BY <1>4, <1>5, <1>6 DEF LastKnown

\* Every step keeps LastKnown.
LEMMA LastStep ==
  ASSUME TypeOK, InHand, LastKnown, [Next]_vars
  PROVE  LastKnown'
<1>1. ASSUME UNCHANGED last, \A j \in Instances : store'.find[j].severity = store.find[j].severity
      PROVE  LastKnown'
  BY <1>1 DEF LastKnown
<1>2. ASSUME NEW i \in Instances, FindingAction(i) PROVE LastKnown'
  <2>1. PICK status \in FindingStatus : SetFindingStatus(i, status)
    BY <1>2 DEF FindingAction, FindingStatus
  <2> QED
    BY <1>1, <1>2, <2>1, StatusIsSet DEF FindingAction
<1>3. ASSUME NEW q \in Requests, Sweep(q) PROVE LastKnown'
  <2>1. CASE SweepStatus(q)
    <3>1. PICK status \in FindingStatus : SetFindingStatus(req[q].at, status)
      BY <2>1 DEF SweepStatus, FindingStatus
    <3>2. req[q].at \in Instances
      BY <2>1 DEF SweepStatus, InHand
    <3> QED
      BY <1>1, <2>1, <3>1, <3>2, StatusIsSet DEF SweepStatus
  <2>2. CASE SetInstanceWhitelisted(q)
    <3>1. req[q].at \in Instances /\ Target(q) \in Listing
      BY <2>2 DEF SetInstanceWhitelisted, InHand, Target, Listing
    <3>2. store'.find = store.find
      BY <2>2, <3>1, StoreEdits DEF SetInstanceWhitelisted, TypeOK
    <3> QED
      BY <1>1, <2>2, <3>2 DEF SetInstanceWhitelisted
  <2> QED
    BY <1>1, <1>3, <2>1, <2>2 DEF Sweep, ListInstances, Answer, PassOver, Decide
<1>4. ASSUME NEW q \in Requests, NEW r \in Rules, AddRule(q, r) \/ DeleteRule(q, r)
      PROVE  LastKnown'
  BY <1>1, <1>4, RuleType DEF AddRule, DeleteRule
<1>5. CASE Crash
  BY <1>5 DEF Crash, LastKnown
<1>6. CASE UpsertInstance
  BY <1>1, <1>6, UpsertType DEF UpsertInstance
<1>7. CASE Flush \/ Notify \/ ReadInstance \/ UNCHANGED vars
  BY <1>1, <1>7 DEF Flush, Notify, ReadInstance, vars
<1>8. ASSUME NEW i \in Instances, Observe(i) PROVE LastKnown'
  BY <1>1, <1>8 DEF Observe, ApplyRules, ReadAPI
<1> QED
  BY <1>2, <1>3, <1>4, <1>5, <1>6, <1>7, <1>8, LastStore DEF Next, Handle

\* The queue grows at no other step than StoreFinding.
LEMMA OnlyStoreAnnounces ==
  ASSUME TypeOK, [Next]_vars, Len(alerts') > Len(alerts)
  PROVE  StoreFinding
<1>1. alerts \in Seq(Event) /\ Len(alerts) \in Nat
  BY DEF TypeOK
<1>2. ~ UNCHANGED alerts
  BY <1>1
<1>3. ASSUME alerts # << >>, alerts' = Tail(alerts) PROVE FALSE
  BY <1>1, <1>3
<1>4. alerts' # << >>
  BY <1>1
<1>5. CASE \E i \in Instances : Observe(i) \/ FindingAction(i)
  BY <1>2, <1>5 DEF Observe, ApplyRules, ReadAPI, FindingAction
<1>6. CASE Handle
  BY <1>2, <1>6 DEF Handle, UpsertInstance, ReadInstance
<1>7. CASE Notify
  BY <1>3, <1>7 DEF Notify
<1>8. CASE \E q \in Requests : Sweep(q) \/ \E r \in Rules : AddRule(q, r) \/ DeleteRule(q, r)
  BY <1>2, <1>8 DEF Sweep, ListInstances, SetInstanceWhitelisted, SweepStatus, Answer,
     PassOver, Decide, AddRule, DeleteRule
<1>9. CASE Flush \/ Crash \/ UNCHANGED vars
  BY <1>2, <1>4, <1>9 DEF Flush, Crash, vars
<1> QED
  BY <1>5, <1>6, <1>7, <1>8, <1>9 DEF Next

\* No two alerts in a row announce the same severity of an instance that was
\* not scored as listed in between, however the rescans and sweeps interleave.
THEOREM AlertsDoNotRepeat == Spec => NoRepeatedAlert
<1>1. Init => LastKnown
  BY DEF Init, LastKnown
<1>2. TypeOK /\ InHand /\ LastKnown /\ [Next]_vars => TypeOK' /\ InHand' /\ LastKnown'
  BY TypeStep, LastStep
<1>3. TypeOK /\ InHand /\ LastKnown /\ [Next]_vars =>
        [Len(alerts') > Len(alerts) =>
           LET e == alerts'[Len(alerts')] IN e.severity # last[e.inst]]_vars
  <2> SUFFICES ASSUME TypeOK, InHand, LastKnown, [Next]_vars, Len(alerts') > Len(alerts)
               PROVE  alerts'[Len(alerts')].severity # last[alerts'[Len(alerts')].inst]
    OBVIOUS
  <2>1. StoreFinding
    BY OnlyStoreAnnounces
  <2> DEFINE i == disp.inst
  <2>2. i \in Instances
    BY <2>1, FindingIsStored
  <2>3. PICK f \in Finding : Stores(i, f)
    BY <2>1, FindingIsStored
  <2> DEFINE ev == [inst |-> i, status |-> f.status, severity |-> f.severity]
  <2>4. alerts \in Seq(Event) /\ Len(alerts) \in Nat
    BY DEF TypeOK
  <2>5. alerts' = Append(alerts, ev) /\ f.severity # store.find[i].severity
    BY <2>3, <2>4 DEF Stores
  <2>6. alerts'[Len(alerts')] = ev
    BY <2>4, <2>5
  <2>7. ev.inst = i /\ ev.severity = f.severity
    OBVIOUS
  <2>8. f.severity # "none"
    BY Severities DEF Finding
  <2> HIDE DEF ev, i
  <2> QED
    BY <2>2, <2>5, <2>6, <2>7, <2>8 DEF LastKnown
<1> QED
  BY <1>1, <1>2, <1>3, TypeInit, PTL DEF Spec, NoRepeatedAlert

=============================================================================
