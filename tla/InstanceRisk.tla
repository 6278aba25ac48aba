------------------------------ MODULE InstanceRisk ------------------------------
(***************************************************************************)
(* How the evidence about one automation instance builds up and is scored. *)
(* Collectors report the instance again and again, each with part of the   *)
(* picture; the discovery module records the systems and credentials the   *)
(* instance can reach, merges what it knows of the instance itself, and    *)
(* rescores it from the inventory as a whole (discovery.go, store.go,      *)
(* risk.go).  One observation is handled in one go by the dispatcher, the  *)
(* only writer of these records, so it is one step here.                   *)
(*                                                                         *)
(* Scores are counted in thousandths, which is exact for the weights and   *)
(* for the two multipliers.  They are those of an instance that is not     *)
(* whitelisted; a listed one scores 0, and FindingLifecycle is about that. *)
(***************************************************************************)
EXTENDS Integers, Sequences, FiniteSets, FiniteSetsExt

CONSTANTS
  Families,     \* sets of payloads that report one and the same instance
  MaxObserved,  \* bound: how many observations are handled
  Vulns,        \* the vulnerability feed: records of an engine and the
                \* version, a sequence of numbers, below which it is affected
  Keywords      \* Keywords[s]: the categories whose keywords occur in what
                \* is said of the target system s (its name, a URL)

VARIABLES
  family,   \* the payloads that report the instance at hand
  inst,     \* the merged instance; NoInstance before the first observation
  reach,    \* reach[e]: the category recorded for the edge e
  creds,    \* the credential references
  flows,    \* flows[w]: the number of webhook triggers of the workflow w
  finding,  \* the score and severity computed last
  history   \* history: the observations handled

vars == <<family, inst, reach, creds, flows, finding, history>>

-----------------------------------------------------------------------------
(***************************************************************************)
(* From the payload of a collector to an observation.  A handler gives a   *)
(* set of at most one observation: none if the payload is no automation.   *)
(* Confidence is in percent.                                               *)
(***************************************************************************)
\* A version is a sequence of numbers, an owner a name; both may be unknown.
NoVersion == << >>
NoOwner   == ""

\* An edge of the reachability map: its identifier is the system and the way.
Edge(system, via) == [system |-> system, via |-> via]

\* The instance as a handler makes it; the identifier stands for StableID of
\* the engine and of what the engine is known by on the host.
Instance(engine, key, by, exposure, confidence) ==
  [id |-> <<engine, key>>, by |-> by, exposure |-> exposure, version |-> NoVersion,
   owner |-> NoOwner, secretKeys |-> {}, confidence |-> confidence,
   edges |-> {}, creds |-> {}, flows |-> << >>]

\* classifyEnvTarget: the system a secret of this name gives access to; no
\* keyword means no system.
EnvTargets(k) ==
  IF k = "N8N_ENCRYPTION_KEY" THEN {"n8n credential store"}
  ELSE IF Keywords[k] # {} THEN {k} ELSE {}

\* The image is a strong signal of n8n; its port, its environment variables
\* and links that name redis or postgres are weak ones, and two are needed.
\* A port bound to more than the loopback address is reachable in the LAN.
handleDocker(c) ==
  LET strong == c.image = "n8n"
      weak   == (IF c.port5678 THEN 1 ELSE 0) + (IF c.n8nEnv THEN 1 ELSE 0) + c.links
      engine == IF strong \/ weak >= 2 THEN "n8n" ELSE "script-runner"
      sure   == IF strong THEN (IF weak >= 1 THEN 99 ELSE 90)
                ELSE IF weak >= 2 THEN 70 ELSE 50
      found  == Instance(engine, c.id, "docker",
                         IF "address" \in c.bindings THEN "lan" ELSE "localhost", sure)
      backend == IF c.postgres THEN {Edge("postgres (n8n backend)", "env")} ELSE {}
  IN  IF ~ strong /\ weak < 2 /\ c.image # "automation" THEN {}
      ELSE {[found EXCEPT
               !.version = c.tag,
               !.secretKeys = c.secrets,
               !.edges = backend \cup {Edge(s, "env") : s \in UNION {EnvTargets(k) : k \in c.secrets}},
               !.creds = {<<"env", k>> : k \in {x \in c.secrets : EnvTargets(x) # {}}}]}

EngineOf == [n8n |-> "n8n", node |-> "node-script", python |-> "python-runner"]

handleProcess(p) ==
  IF p.signature \notin DOMAIN EngineOf THEN {}
  ELSE {[Instance(EngineOf[p.signature], p.exe, "process", "localhost",
                  IF p.signature = "n8n" THEN 85 ELSE 60) EXCEPT !.owner = p.user]}

handleFS(a) ==
  IF a.file \notin {"n8n_dir", "compose_file", "env_file"} THEN {}
  ELSE {[Instance("n8n", a.path, "filesystem", "localhost",
                  IF a.file = "n8n_dir" THEN 80 ELSE 60)
           EXCEPT !.owner = a.owner,
                  !.secretKeys = IF a.encryptionKey THEN {"N8N_ENCRYPTION_KEY"} ELSE {}]}

handleCron(c) ==
  {[Instance(IF c.source = "systemd" THEN "systemd-timer" ELSE "cron", c.command, "cron",
             "localhost", 50) EXCEPT !.owner = c.user]}

ExposureOf == [loopback |-> "localhost", private |-> "lan", public |-> "public"]

\* The more markers answered, the surer.
handleNetwork(n) ==
  IF ~ n.isN8N THEN {}
  ELSE {[Instance("n8n", <<n.ip, n.port>>, "network", ExposureOf[n.ip],
                  Min({95, 50 + 15 * n.markers})) EXCEPT !.version = n.version]}

\* The API of an n8n: its workflows, each a set of nodes.  A node may be a
\* webhook, use a credential, and call a URL; "" stands for none.
handleN8NAPI(d) ==
  LET nodes == UNION {d.workflows[w] : w \in DOMAIN d.workflows}
      keyed == {n \in nodes : n.credential # ""}
      calls == {n \in nodes : n.host # ""}
  IN  {[Instance("n8n", <<d.ip, d.port>>, "n8n-api", "unknown", 100) EXCEPT
          !.version = d.version,
          !.edges = {Edge(n.credential, "credential") : n \in keyed}
                    \cup {Edge(n.host, "http-node") : n \in calls},
          !.creds = {<<n.credential, n.credentialName>> : n \in keyed},
          !.flows = [w \in DOMAIN d.workflows |->
                       Cardinality({n \in d.workflows[w] : n.webhook})]]}

Handle(e) ==
  CASE e.type = "docker.container" -> handleDocker(e)
    [] e.type = "process"          -> handleProcess(e)
    [] e.type = "fs.artifact"      -> handleFS(e)
    [] e.type = "cron.entry"       -> handleCron(e)
    [] e.type = "network.service"  -> handleNetwork(e)
    [] e.type = "n8n.api"          -> handleN8NAPI(e)
    [] OTHER                       -> {}

\* Assumed of the constants by the module that gives them values.
ObservedAssumption == MaxObserved \in Nat

\* The payloads of a family are about one instance.
FamilyAssumption ==
  \A f \in Families : Cardinality({o.id : o \in UNION {Handle(e) : e \in f}}) = 1

\* A fingerprint has an address of one of the three kinds, and counts markers;
\* an API lists finitely many workflows of finitely many nodes.
PayloadAssumption ==
  \A f \in Families : \A e \in f :
    /\ e.type = "network.service" => e.markers \in Nat /\ e.ip \in DOMAIN ExposureOf
    /\ e.type = "n8n.api" =>
         /\ IsFiniteSet(DOMAIN e.workflows)
         /\ \A w \in DOMAIN e.workflows : IsFiniteSet(e.workflows[w])

-----------------------------------------------------------------------------
(***************************************************************************)
(* Merging.                                                                *)
(***************************************************************************)
exposureRank == [unknown |-> 0, localhost |-> 1, lan |-> 2, public |-> 3]

maxExposure(a, b) == IF exposureRank[b] > exposureRank[a] THEN b ELSE a

NoInstance == [exposure |-> "none"]

\* What is stored of an instance seen for the first time.
Fresh(o) ==
  [id |-> o.id, exposure |-> o.exposure, version |-> o.version, owner |-> o.owner,
   secretKeys |-> o.secretKeys, detectedBy |-> {o.by}, confidence |-> o.confidence]

\* Faulty variants of UpsertInstance: the exposure is the one seen last; an
\* owner that is not known erases the one that is.
MergeLatestExposure(o) ==
  IF inst = NoInstance
  THEN Fresh(o)
  ELSE [inst EXCEPT !.exposure = o.exposure]

MergeErasesOwner(o) ==
  IF inst = NoInstance
  THEN Fresh(o)
  ELSE [inst EXCEPT !.exposure = maxExposure(@, o.exposure), !.owner = o.owner,
                    !.version = IF o.version = NoVersion THEN @ ELSE o.version,
                    !.secretKeys = @ \cup o.secretKeys, !.detectedBy = @ \cup {o.by},
                    !.confidence = IF o.confidence > @ THEN o.confidence ELSE @]

\* UpsertInstance: the first observation is stored as it is, a later one adds
\* to it; what it does not know does not erase what is known.
UpsertInstance(o) ==
  IF inst = NoInstance
  THEN Fresh(o)
  ELSE [id |-> inst.id,
        exposure |-> IF o.exposure = "unknown" THEN inst.exposure
                     ELSE maxExposure(inst.exposure, o.exposure),
        version |-> IF o.version = NoVersion THEN inst.version ELSE o.version,
        owner |-> IF o.owner = NoOwner THEN inst.owner ELSE o.owner,
        secretKeys |-> inst.secretKeys \cup o.secretKeys,
        detectedBy |-> inst.detectedBy \cup {o.by},
        confidence |-> IF o.confidence > inst.confidence THEN o.confidence
                       ELSE inst.confidence]

\* classifyKeyword goes through the categories in the order of a Go map, which
\* is not defined: of the categories that match any may be the answer.
Categories(system) == IF Keywords[system] = {} THEN {"other"} ELSE Keywords[system]

\* The edges of an observation, each put into a category.
Classified(o) == {c \in [o.edges -> UNION {Categories(e.system) : e \in o.edges}] :
                    \A e \in o.edges : c[e] \in Categories(e.system)}

Overwrite(f, g) == [x \in DOMAIN f \cup DOMAIN g |-> IF x \in DOMAIN g THEN g[x] ELSE f[x]]

\* Edges, credentials and workflows are stored under identifiers of their own:
\* the category of an edge recorded before is overwritten, and so is a
\* workflow.  Nothing is ever deleted.
UpsertReachability(c)  == reach' = Overwrite(reach, c)
UpsertCredentialRef(o) == creds' = creds \cup o.creds
UpsertWorkflow(o)      == flows' = Overwrite(flows, o.flows)

-----------------------------------------------------------------------------
(***************************************************************************)
(* Scoring.                                                                *)
(***************************************************************************)
ProdAccess == [payments |-> 35, erp_1c |-> 30, database |-> 28, crm |-> 20,
               cloud |-> 15, messaging |-> 8, other |-> 5]

\* Keywords stand for categories that weigh something.
KeywordsAssumption ==
  \A f \in Families : \A e \in f : \A o \in Handle(e) : \A d \in o.edges :
    Keywords[d.system] \subseteq DOMAIN ProdAccess

ExposureWeight == [unknown |-> 0, localhost |-> 0, lan |-> 12, public |-> 25]

ShadowInstanceBase == 15
WebhookExposed     == 15
CredentialPresent  == 10

\* CompareVersions, of versions split into numbers: a missing number is 0.
NumberAt(v, i) == IF i \in DOMAIN v THEN v[i] ELSE 0

CompareVersions(a, b) ==
  LET differ == {i \in DOMAIN a \cup DOMAIN b : NumberAt(a, i) # NumberAt(b, i)}
  IN  IF differ = {} THEN 0
      ELSE IF NumberAt(a, Min(differ)) < NumberAt(b, Min(differ)) THEN -1 ELSE 1

\* matchVuln: some entry of the feed is about the engine and this version.
Outdated(i) ==
  /\ i.version # NoVersion
  /\ \E v \in Vulns : v.engine = i.id[1] /\ CompareVersions(i.version, v.max) < 0

\* OwnerIsIT is never set, so every owner but root is outside IT.
NonITOwner(i) == i.owner \notin {NoOwner, "root"}

\* The sum of f over the elements of S.
Total(f, S) == MapThenSumSet(LAMBDA x : f[x], S)

WebhooksOf(fl) == Total(fl, DOMAIN fl)

\* The weight of everything but the multipliers: each category counts once,
\* however many systems of it can be reached.
Weight(i, r, c, fl) ==
  ShadowInstanceBase
  + Total(ProdAccess, {r[e] : e \in DOMAIN r})
  + ExposureWeight[i.exposure]
  + (IF WebhooksOf(fl) > 0 /\ i.exposure # "localhost" THEN WebhookExposed ELSE 0)
  + (IF i.secretKeys # {} \/ c # {} THEN CredentialPresent ELSE 0)

\* Faulty variant: the score is not capped.
ScoreUncapped(i, r, c, fl) ==
  LET owned == Weight(i, r, c, fl) * (IF NonITOwner(i) THEN 1300 ELSE 1000)
  IN  IF Outdated(i) THEN (owned * 5) \div 4 ELSE owned

\* The cap: 100, in thousandths.
MaxScore == 100000

\* Engine.Score.
Score(i, r, c, fl) ==
  LET owned    == Weight(i, r, c, fl) * (IF NonITOwner(i) THEN 1300 ELSE 1000)
      outdated == IF Outdated(i) THEN (owned * 5) \div 4 ELSE owned
  IN  IF outdated > MaxScore THEN MaxScore ELSE outdated

SeverityFromScore(s) ==
  IF s >= 80000 THEN "critical"
  ELSE IF s >= 60000 THEN "high"
  ELSE IF s >= 35000 THEN "medium"
  ELSE IF s > 0 THEN "low" ELSE "info"

\* round1: to a tenth, the half upwards.
round1(s) == 100 * ((s + 50) \div 100)

\* The finding carries the rounded score and the severity of the exact one.
rescore(i, r, c, fl) ==
  [score |-> round1(Score(i, r, c, fl)), severity |-> SeverityFromScore(Score(i, r, c, fl))]

NoFinding == [score |-> 0, severity |-> "none"]

-----------------------------------------------------------------------------
\* A payload that a handler makes an observation of: edges and credentials are
\* recorded, the instance is merged, workflows are stored, and only then the
\* finding is computed.
Observe(e) ==
  /\ Len(history) < MaxObserved
  /\ \E o \in Handle(e) :
       /\ inst' = UpsertInstance(o)
       /\ \E c \in Classified(o) : UpsertReachability(c)
       /\ UpsertCredentialRef(o)
       /\ UpsertWorkflow(o)
       /\ finding' = rescore(inst', reach', creds', flows')
       /\ history' = Append(history, o)
  /\ UNCHANGED family

Init ==
  /\ family \in Families
  /\ inst = NoInstance
  /\ reach = << >>
  /\ creds = {}
  /\ flows = << >>
  /\ finding = NoFinding
  /\ history = << >>

Next == \E e \in family : Observe(e)

Spec == Init /\ [][Next]_vars

-----------------------------------------------------------------------------
(***************************************************************************)
(* Properties.                                                             *)
(***************************************************************************)
\* Type invariant: scores lie between 0 and 100 (TZ 5.4), edges have categories
\* that weigh something.
TypeOK ==
  /\ family \in Families
  /\ inst = NoInstance <=> history = << >>
  /\ inst.exposure \in DOMAIN exposureRank \cup {"none"}
  /\ \A e \in DOMAIN reach : reach[e] \in DOMAIN ProdAccess
  /\ \A w \in DOMAIN flows : flows[w] \in Nat
  /\ finding.score \in 0 .. MaxScore
  /\ finding.severity \in {"critical", "high", "medium", "low", "info", "none"}

\* The value of a field in the last observation that knows it.
Latest(h, field, none) ==
  LET knowing == {i \in DOMAIN h : h[i][field] # none}
  IN  IF knowing = {} THEN none ELSE h[Max(knowing)][field]

\* What all observations together say of the instance.
Summary(h) ==
  [id         |-> h[1].id,
   exposure   |-> CHOOSE x \in {h[i].exposure : i \in DOMAIN h} :
                    \A i \in DOMAIN h : exposureRank[h[i].exposure] <= exposureRank[x],
   version    |-> Latest(h, "version", NoVersion),
   owner      |-> Latest(h, "owner", NoOwner),
   secretKeys |-> UNION {h[i].secretKeys : i \in DOMAIN h},
   detectedBy |-> {h[i].by : i \in DOMAIN h},
   confidence |-> Max({h[i].confidence : i \in DOMAIN h})]

\* Merging one observation after the other loses nothing and invents nothing:
\* in whatever order and however often the collectors report (UpsertInstance,
\* UpsertReachability, UpsertCredentialRef, UpsertWorkflow), the inventory is
\* the summary of all reports.
InventoryIsSummary ==
  history # << >> =>
    /\ inst = Summary(history)
    /\ creds = UNION {history[i].creds : i \in DOMAIN history}
    /\ DOMAIN reach = UNION {history[i].edges : i \in DOMAIN history}
    /\ \A e \in DOMAIN reach : reach[e] \in Categories(e.system)
    /\ DOMAIN flows = UNION {DOMAIN history[i].flows : i \in DOMAIN history}
    /\ \A w \in DOMAIN flows :
         LET reporting == {i \in DOMAIN history : w \in DOMAIN history[i].flows}
         IN  flows[w] = history[Max(reporting)].flows[w]

\* More evidence does not lower the risk (TZ 5.4): the score falls only when
\* the version is fixed, the owner becomes root, a workflow loses webhooks,
\* the instance of unknown exposure turns out to be local, or a system is put
\* into another category.
RiskFallsForAReason ==
  [][finding'.score < finding.score =>
       \/ Outdated(inst) /\ ~ Outdated(inst')
       \/ NonITOwner(inst) /\ ~ NonITOwner(inst')
       \/ WebhooksOf(flows') < WebhooksOf(flows)
       \/ inst.exposure = "unknown" /\ inst'.exposure = "localhost"
       \/ \E e \in DOMAIN reach : reach'[e] # reach[e]]_vars
=============================================================================
