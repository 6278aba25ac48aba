------------------------------- MODULE RiskProofs -------------------------------
(***************************************************************************)
(* The proof that the inventory of an instance is the summary of what was  *)
(* reported of it, in whatever order and however often; and that its score *)
(* lies between 0 and 100 and falls only for a reason.                     *)
(***************************************************************************)
EXTENDS ServerData, Lemmas

-----------------------------------------------------------------------------
\* What the payloads of a family report.
Reports(f) == UNION {Handle(e) : e \in f}

\* What a handler reports: how the instance can be reached is one of the four
\* words, and the confidence a number.
LEMMA ReportType ==
  ASSUME PayloadAssumption, NEW f \in Families, NEW o \in Reports(f)
  PROVE  o.exposure \in DOMAIN exposureRank /\ o.confidence \in Nat
<1>1. PICK e \in f : o \in Handle(e)
  BY DEF Reports
<1>3. CASE e.type = "docker.container"
  <2> DEFINE strong == e.image = "n8n"
             weak == (IF e.port5678 THEN 1 ELSE 0) + (IF e.n8nEnv THEN 1 ELSE 0) + e.links
             engine == IF strong \/ weak >= 2 THEN "n8n" ELSE "script-runner"
             sure == IF strong THEN (IF weak >= 1 THEN 99 ELSE 90)
                     ELSE IF weak >= 2 THEN 70 ELSE 50
             x == IF "address" \in e.bindings THEN "lan" ELSE "localhost"
             r == Instance(engine, e.id, "docker", x, sure)
             E == (IF e.postgres THEN {Edge("postgres (n8n backend)", "env")} ELSE {})
                    \cup {Edge(s, "env") : s \in UNION {EnvTargets(k) : k \in e.secrets}}
             C == {<<"env", k>> : k \in {y \in e.secrets : EnvTargets(y) # {}}}
  <2>1. o = [r EXCEPT !.version = e.tag, !.secretKeys = e.secrets, !.edges = E, !.creds = C]
    BY <1>1, <1>3 DEF Handle, handleDocker
  <2>2. sure \in {99, 90, 70, 50} /\ x \in {"lan", "localhost"}
    OBVIOUS
  <2>3. o.exposure = x /\ o.confidence = sure
    <3> HIDE DEF engine, sure, x, E, C
    <3> QED
      BY <2>1 DEF Instance
  <2> HIDE DEF sure, x
  <2> QED
    BY <2>2, <2>3 DEF exposureRank
<1>4. CASE e.type = "process"
  <2> DEFINE r == Instance(EngineOf[e.signature], e.exe, "process", "localhost",
                           IF e.signature = "n8n" THEN 85 ELSE 60)
  <2>1. o = [r EXCEPT !.owner = e.user]
    BY <1>1, <1>4 DEF Handle, handleProcess
  <2>2. o.exposure = r.exposure /\ o.confidence = r.confidence
    BY <2>1 DEF Instance
  <2>3. r.exposure = "localhost" /\ r.confidence \in {85, 60}
    BY DEF Instance
  <2> QED
    BY <2>2, <2>3 DEF exposureRank
<1>5. CASE e.type = "fs.artifact"
  <2> DEFINE r == Instance("n8n", e.path, "filesystem", "localhost",
                           IF e.file = "n8n_dir" THEN 80 ELSE 60)
  <2>1. o = [r EXCEPT !.owner = e.owner,
                  !.secretKeys = IF e.encryptionKey THEN {"N8N_ENCRYPTION_KEY"} ELSE {}]
    BY <1>1, <1>5 DEF Handle, handleFS
  <2>2. o.exposure = r.exposure /\ o.confidence = r.confidence
    BY <2>1 DEF Instance
  <2>3. r.exposure = "localhost" /\ r.confidence \in {80, 60}
    BY DEF Instance
  <2> QED
    BY <2>2, <2>3 DEF exposureRank
<1>6. CASE e.type = "cron.entry"
  BY <1>1, <1>6 DEF Handle, handleCron, exposureRank, Instance
<1>7. CASE e.type = "network.service"
  <2> DEFINE c == Min({95, 50 + 15 * e.markers})
             r == Instance("n8n", <<e.ip, e.port>>, "network", ExposureOf[e.ip], c)
  <2>1. o = [r EXCEPT !.version = e.version]
    BY <1>1, <1>7 DEF Handle, handleNetwork
  <2>2. o.exposure = ExposureOf[e.ip] /\ o.confidence = c
    <3> HIDE DEF c
    <3> QED
      BY <2>1 DEF Instance
  <2>3. e.markers \in Nat /\ e.ip \in DOMAIN ExposureOf
    BY <1>7 DEF PayloadAssumption
  <2>4. c \in Nat
    <3>1. 50 + 15 * e.markers \in Nat
      BY <2>3
    <3>2. \E x \in {95, 50 + 15 * e.markers} : \A y \in {95, 50 + 15 * e.markers} : x =< y
      BY <3>1
    <3>3. c \in {95, 50 + 15 * e.markers}
      BY <3>2 DEF Min
    <3> QED
      BY <3>1, <3>3
  <2>5. ExposureOf[e.ip] \in DOMAIN exposureRank
    BY <2>3 DEF ExposureOf, exposureRank
  <2> QED
    BY <2>2, <2>4, <2>5
<1>8. CASE e.type = "n8n.api"
  <2> DEFINE r == Instance("n8n", <<e.ip, e.port>>, "n8n-api", "unknown", 100)
  <2>1. \E E, C, F : o = [r EXCEPT !.version = e.version, !.edges = E, !.creds = C, !.flows = F]
    BY <1>1, <1>8, Zenon DEF Handle, handleN8NAPI
  <2>2. o.exposure = "unknown" /\ o.confidence = 100
    BY <2>1 DEF Instance
  <2> QED
    BY <2>2 DEF exposureRank
<1> QED
  BY <1>1, <1>3, <1>4, <1>5, <1>6, <1>7, <1>8 DEF Handle

-----------------------------------------------------------------------------
\* One report more.
LEMMA AppendDomain ==
  ASSUME NEW S, NEW h \in Seq(S), NEW o \in S
  PROVE  /\ Append(h, o) \in Seq(S) /\ Append(h, o) # << >>
         /\ Len(h) \in Nat /\ DOMAIN h = 1 .. Len(h)
         /\ DOMAIN Append(h, o) = DOMAIN h \cup {Len(h) + 1}
         /\ \A i \in DOMAIN h : Append(h, o)[i] = h[i]
         /\ Append(h, o)[Len(h) + 1] = o
         /\ Len(h) + 1 \notin DOMAIN h
OBVIOUS

\* What is latest known of a field: the new report's, if it knows it.
LEMMA LatestAppend ==
  ASSUME NEW S, NEW h \in Seq(S), NEW o \in S, NEW field, NEW none
  PROVE  Latest(Append(h, o), field, none) =
           IF o[field] = none THEN Latest(h, field, none) ELSE o[field]
<1> DEFINE t == Append(h, o)
           K == {i \in DOMAIN h : h[i][field] # none}
           L == {i \in DOMAIN t : t[i][field] # none}
           n == Len(h)
<1>1. /\ n \in Nat /\ DOMAIN h = 1 .. n /\ DOMAIN t = DOMAIN h \cup {n + 1}
      /\ \A i \in DOMAIN h : t[i] = h[i]
      /\ t[n + 1] = o /\ n + 1 \notin DOMAIN h
  BY AppendDomain
<1>2. Latest(t, field, none) = IF L = {} THEN none ELSE t[Max(L)][field]
  BY DEF Latest
<1>3. Latest(h, field, none) = IF K = {} THEN none ELSE h[Max(K)][field]
  BY DEF Latest
<1> SUFFICES Latest(t, field, none) = IF o[field] = none THEN Latest(h, field, none) ELSE o[field]
  OBVIOUS
<1> HIDE DEF t, n
<1>4. CASE o[field] = none
  <2>1. L = K
    BY <1>1, <1>4
  <2>2. CASE K = {}
    BY <1>2, <1>3, <1>4, <2>1, <2>2
  <2>3. CASE K # {}
    <3>1. K \subseteq 0 .. n
      BY <1>1
    <3> HIDE DEF K, L
    <3>2. Max(K) \in K
      BY <1>1, <2>3, <3>1, MaxExists
    <3>3. Max(K) \in DOMAIN h
      BY <3>2 DEF K
    <3>4. t[Max(K)] = h[Max(K)]
      BY <1>1, <3>3
    <3> QED
      BY <1>2, <1>3, <1>4, <2>1, <2>3, <3>4
  <2> QED
    BY <2>2, <2>3
<1>5. CASE o[field] # none
  <2>1. n + 1 \in L /\ L \subseteq Nat /\ \A y \in L : n + 1 >= y
    BY <1>1, <1>5
  <2> HIDE DEF K, L
  <2>2. Max(L) = n + 1
    BY <2>1, MaxIs
  <2> QED
    BY <1>1, <1>2, <1>5, <2>1, <2>2
<1> QED
  BY <1>4, <1>5

\* Nothing is known before the first report.
LEMMA LatestOfNone ==
  ASSUME NEW field, NEW none
  PROVE  Latest(<< >>, field, none) = none
BY DEF Latest

-----------------------------------------------------------------------------
(***************************************************************************)
(* The invariant.                                                          *)
(***************************************************************************)
\* The exposure and the confidence are the highest that were reported.
Highest ==
  /\ \E i \in DOMAIN history : inst.exposure = history[i].exposure
  /\ \A i \in DOMAIN history : exposureRank[history[i].exposure] <= exposureRank[inst.exposure]
  /\ \E i \in DOMAIN history : inst.confidence = history[i].confidence
  /\ \A i \in DOMAIN history : history[i].confidence <= inst.confidence

\* The other fields of the merged instance.
Merged ==
  inst = [id |-> history[1].id, exposure |-> inst.exposure,
          version |-> Latest(history, "version", NoVersion),
          owner |-> Latest(history, "owner", NoOwner),
          secretKeys |-> UNION {history[i].secretKeys : i \in DOMAIN history},
          detectedBy |-> {history[i].by : i \in DOMAIN history},
          confidence |-> inst.confidence]

\* What is kept beside the instance.
CredsKept == creds = UNION {history[i].creds : i \in DOMAIN history}

EdgesKept ==
  /\ DOMAIN reach = UNION {history[i].edges : i \in DOMAIN history}
  /\ \A e \in DOMAIN reach : reach[e] \in Categories(e.system)

Reporting(w) == {i \in DOMAIN history : w \in DOMAIN history[i].flows}

FlowsKept ==
  /\ DOMAIN flows = UNION {DOMAIN history[i].flows : i \in DOMAIN history}
  /\ \A w \in DOMAIN flows : flows[w] = history[Max(Reporting(w))].flows[w]

SummaryInv ==
  /\ family \in Families
  /\ history \in Seq(Reports(family))
  /\ IF history = << >> THEN inst = NoInstance ELSE Highest /\ Merged
  /\ CredsKept /\ EdgesKept /\ FlowsKept

\* The merged instance is the summary.
LEMMA SummaryIs ==
  ASSUME PayloadAssumption, SummaryInv
  PROVE  InventoryIsSummary
<1> SUFFICES ASSUME history # << >> PROVE InventoryIsSummary
  BY DEF InventoryIsSummary
<1>1. Highest /\ Merged /\ CredsKept /\ EdgesKept /\ FlowsKept
  BY DEF SummaryInv
<1>2. \A i \in DOMAIN history :
        history[i].exposure \in DOMAIN exposureRank /\ history[i].confidence \in Nat
  BY ReportType DEF SummaryInv
<1> DEFINE X == {history[i].exposure : i \in DOMAIN history}
           C == {history[i].confidence : i \in DOMAIN history}
<1>3. inst.exposure = CHOOSE x \in X :
         \A i \in DOMAIN history : exposureRank[history[i].exposure] <= exposureRank[x]
  <2>1. \A x, y \in DOMAIN exposureRank :
          exposureRank[x] <= exposureRank[y] /\ exposureRank[y] <= exposureRank[x] => x = y
    BY DEF exposureRank
  <2>2. /\ inst.exposure \in X /\ X \subseteq DOMAIN exposureRank
        /\ \A x \in X : exposureRank[x] <= exposureRank[inst.exposure]
    BY <1>1, <1>2 DEF Highest
  <2>3. \A x \in X : (\A i \in DOMAIN history : exposureRank[history[i].exposure] <= exposureRank[x])
                       => x = inst.exposure
    BY <1>1, <2>1, <2>2 DEF Highest
  <2> QED
    BY <1>1, <2>2, <2>3 DEF Highest
<1>4. inst.confidence = Max(C)
  <2>1. C \subseteq Nat /\ inst.confidence \in C /\ \A c \in C : inst.confidence >= c
    BY <1>1, <1>2 DEF Highest
  <2> HIDE DEF C
  <2> QED
    BY <2>1, MaxIs
<1>5. inst = Summary(history)
  BY <1>1, <1>3, <1>4 DEF Merged, Summary
<1> QED
  BY <1>1, <1>5 DEF InventoryIsSummary, CredsKept, EdgesKept, FlowsKept, Reporting

\* A field of the reports, collected over one report more.
LEMMA FieldGrows ==
  ASSUME NEW h, NEW g, NEW n, NEW field, DOMAIN g = DOMAIN h \cup {n},
         \A i \in DOMAIN h : g[i] = h[i]
  PROVE  /\ {g[i][field] : i \in DOMAIN g} = {h[i][field] : i \in DOMAIN h} \cup {g[n][field]}
         /\ UNION {g[i][field] : i \in DOMAIN g} =
              (UNION {h[i][field] : i \in DOMAIN h}) \cup g[n][field]
         /\ UNION {DOMAIN g[i][field] : i \in DOMAIN g} =
              (UNION {DOMAIN h[i][field] : i \in DOMAIN h}) \cup DOMAIN g[n][field]
<1> DEFINE G == {g[i][field] : i \in DOMAIN g}
           H == {h[i][field] : i \in DOMAIN h}
           GD == {DOMAIN g[i][field] : i \in DOMAIN g}
           HD == {DOMAIN h[i][field] : i \in DOMAIN h}
<1>1. G = H \cup {g[n][field]}
  <2>1. ASSUME NEW x \in G PROVE x \in H \cup {g[n][field]}
    <3>1. PICK i \in DOMAIN g : x = g[i][field]
      OBVIOUS
    <3>2. CASE i = n
      BY <3>1, <3>2
    <3>3. CASE i \in DOMAIN h
      BY <3>1, <3>3
    <3> QED
      BY <3>2, <3>3
  <2>2. ASSUME NEW x \in H \cup {g[n][field]} PROVE x \in G
    OBVIOUS
  <2> QED
    BY <2>1, <2>2
<1>2. GD = HD \cup {DOMAIN g[n][field]}
  <2>1. ASSUME NEW x \in GD PROVE x \in HD \cup {DOMAIN g[n][field]}
    <3>1. PICK i \in DOMAIN g : x = DOMAIN g[i][field]
      OBVIOUS
    <3>2. CASE i = n
      BY <3>1, <3>2
    <3>3. CASE i \in DOMAIN h
      BY <3>1, <3>3
    <3> QED
      BY <3>2, <3>3
  <2>2. ASSUME NEW x \in HD \cup {DOMAIN g[n][field]} PROVE x \in GD
    OBVIOUS
  <2> QED
    BY <2>1, <2>2
<1>3. \A A, B, e : A = B \cup {e} => UNION A = (UNION B) \cup e
  OBVIOUS
<1> SUFFICES /\ G = H \cup {g[n][field]}
             /\ UNION G = (UNION H) \cup g[n][field]
             /\ UNION GD = (UNION HD) \cup DOMAIN g[n][field]
  OBVIOUS
<1> HIDE DEF G, H, GD, HD
<1> QED
  BY <1>1, <1>2, <1>3

\* What a report adds to the history.
LEMMA HistoryGrows ==
  ASSUME SummaryInv, NEW o \in Reports(family), history' = Append(history, o), family' = family
  PROVE  /\ history' \in Seq(Reports(family')) /\ history' # << >>
         /\ DOMAIN history' = DOMAIN history \cup {Len(history) + 1}
         /\ \A i \in DOMAIN history : history'[i] = history[i]
         /\ history'[Len(history) + 1] = o
         /\ Len(history) + 1 \notin DOMAIN history
         /\ Len(history) \in Nat /\ DOMAIN history = 1 .. Len(history)
<1>1. history \in Seq(Reports(family))
  BY DEF SummaryInv
<1> QED
  BY <1>1, AppendDomain

\* The instance after one report more: the first is stored as it is.
LEMMA MergedStep ==
  ASSUME PayloadAssumption, SummaryInv, NEW o \in Reports(family),
         history' = Append(history, o), family' = family, inst' = UpsertInstance(o)
  PROVE  Highest' /\ Merged'
<1> DEFINE n == Len(history) + 1
<1>1. /\ DOMAIN history' = DOMAIN history \cup {n}
      /\ \A i \in DOMAIN history : history'[i] = history[i]
      /\ history'[n] = o
      /\ Len(history) \in Nat /\ DOMAIN history = 1 .. Len(history)
      /\ history \in Seq(Reports(family))
  BY HistoryGrows DEF SummaryInv
<1> HIDE DEF n
<1>2. /\ o.exposure \in DOMAIN exposureRank /\ o.confidence \in Nat
      /\ \A i \in DOMAIN history :
           history[i].exposure \in DOMAIN exposureRank /\ history[i].confidence \in Nat
  BY <1>1, ReportType DEF SummaryInv
<1>3. /\ Latest(history', "version", NoVersion) =
           IF o.version = NoVersion THEN Latest(history, "version", NoVersion) ELSE o.version
      /\ Latest(history', "owner", NoOwner) =
           IF o.owner = NoOwner THEN Latest(history, "owner", NoOwner) ELSE o.owner
  BY <1>1, LatestAppend
<1>4. /\ UNION {history'[i].secretKeys : i \in DOMAIN history'} =
           (UNION {history[i].secretKeys : i \in DOMAIN history}) \cup o.secretKeys
      /\ {history'[i].by : i \in DOMAIN history'} = {history[i].by : i \in DOMAIN history} \cup {o.by}
  BY <1>1, FieldGrows
<1>5. CASE history = << >>
  <2>1. inst' = Fresh(o)
    BY <1>5 DEF SummaryInv, UpsertInstance
  <2>2. n = 1 /\ DOMAIN history = {} /\ DOMAIN history' = {1} /\ history'[1] = o
    BY <1>1, <1>5 DEF n
  <2>3. Highest'
    BY <1>2, <2>1, <2>2 DEF Highest, Fresh, exposureRank
  <2>4. /\ Latest(history', "version", NoVersion) = o.version
        /\ Latest(history', "owner", NoOwner) = o.owner
    BY <1>3, <1>5, LatestOfNone
  <2>5. /\ UNION {history'[i].secretKeys : i \in DOMAIN history'} = o.secretKeys
        /\ {history'[i].by : i \in DOMAIN history'} = {o.by}
    BY <1>4, <2>2
  <2>6. Merged'
    <3>1. inst'.exposure = o.exposure /\ inst'.confidence = o.confidence
      BY <2>1 DEF Fresh
    <3>2. inst' = [id |-> history'[1].id, exposure |-> inst'.exposure,
                   version |-> o.version, owner |-> o.owner, secretKeys |-> o.secretKeys,
                   detectedBy |-> {o.by}, confidence |-> inst'.confidence]
      BY <2>1, <2>2, <3>1 DEF Fresh
    <3> QED
      BY <2>4, <2>5, <3>2, Zenon DEF Merged
  <2> QED
    BY <2>3, <2>6
<1>6. CASE history # << >>
  <2>1. Highest /\ Merged
    BY <1>6 DEF SummaryInv
  <2>2. inst # NoInstance
    <3>1. inst.exposure \in DOMAIN exposureRank
      BY <1>2, <2>1 DEF Highest
    <3> QED
      BY <3>1 DEF NoInstance, exposureRank
  <2> DEFINE x == IF o.exposure = "unknown" THEN inst.exposure
                  ELSE maxExposure(inst.exposure, o.exposure)
             c == IF o.confidence > inst.confidence THEN o.confidence ELSE inst.confidence
  <2>3. inst' = [id |-> inst.id, exposure |-> x,
          version |-> IF o.version = NoVersion THEN inst.version ELSE o.version,
          owner |-> IF o.owner = NoOwner THEN inst.owner ELSE o.owner,
          secretKeys |-> inst.secretKeys \cup o.secretKeys,
          detectedBy |-> inst.detectedBy \cup {o.by}, confidence |-> c]
    BY <2>2 DEF UpsertInstance
  <2>4. inst.exposure \in DOMAIN exposureRank /\ inst.confidence \in Nat
    BY <1>2, <2>1 DEF Highest
  <2>5. /\ x \in {inst.exposure, o.exposure}
        /\ exposureRank[inst.exposure] <= exposureRank[x] /\ exposureRank[o.exposure] <= exposureRank[x]
    BY <1>2, <2>4 DEF maxExposure, exposureRank
  <2>6. c \in {inst.confidence, o.confidence} /\ inst.confidence <= c /\ o.confidence <= c /\ c \in Nat
    BY <1>2, <2>4
  <2> HIDE DEF x, c
  <2>7. inst'.exposure = x /\ inst'.confidence = c
    BY <2>3
  <2>8. Highest'
    <3>1. \A e \in DOMAIN exposureRank : exposureRank[e] \in Nat
      BY DEF exposureRank
    <3>2. x \in DOMAIN exposureRank
      BY <1>2, <2>4, <2>5
    <3>3. /\ \E i \in DOMAIN history' : inst'.exposure = history'[i].exposure
          /\ \E i \in DOMAIN history' : inst'.confidence = history'[i].confidence
      BY <1>1, <2>1, <2>5, <2>6, <2>7 DEF Highest
    <3>4. \A i \in DOMAIN history' : exposureRank[history'[i].exposure] <= exposureRank[x]
      BY <1>1, <1>2, <2>1, <2>4, <2>5, <3>1, <3>2 DEF Highest
    <3>5. \A i \in DOMAIN history' : history'[i].confidence <= c
      BY <1>1, <1>2, <2>1, <2>4, <2>6 DEF Highest
    <3> QED
      BY <2>7, <3>3, <3>4, <3>5 DEF Highest
  <2>9. /\ 1 \in DOMAIN history /\ history'[1] = history[1]
        /\ inst.version = Latest(history, "version", NoVersion)
        /\ inst.owner = Latest(history, "owner", NoOwner)
        /\ inst.secretKeys = UNION {history[i].secretKeys : i \in DOMAIN history}
        /\ inst.detectedBy = {history[i].by : i \in DOMAIN history}
        /\ inst.id = history[1].id
    <3>1. 1 \in DOMAIN history /\ history'[1] = history[1]
      BY <1>1, <1>6
    <3> QED
      BY <2>1, <3>1 DEF Merged
  <2>10. Merged'
    BY <1>3, <1>4, <2>3, <2>7, <2>9 DEF Merged
  <2> QED
    BY <2>8, <2>10
<1> QED
  BY <1>5, <1>6

\* The edges, credentials and workflows of a report are added to what is kept.
LEMMA KeptStep ==
  ASSUME SummaryInv, NEW o \in Reports(family), NEW c \in Classified(o),
         history' = Append(history, o), family' = family,
         UpsertReachability(c), UpsertCredentialRef(o), UpsertWorkflow(o)
  PROVE  CredsKept' /\ EdgesKept' /\ FlowsKept'
<1> DEFINE n == Len(history) + 1
<1>1. /\ DOMAIN history' = DOMAIN history \cup {n}
      /\ \A i \in DOMAIN history : history'[i] = history[i]
      /\ history'[n] = o /\ n \notin DOMAIN history
      /\ n \in Nat /\ \A i \in DOMAIN history : i \in Nat /\ i < n
  BY HistoryGrows
<1>2. DOMAIN history' \subseteq 0 .. n
  BY <1>1
<1> HIDE DEF n
<1>3. CredsKept'
  BY <1>1, FieldGrows DEF SummaryInv, CredsKept, UpsertCredentialRef
<1>4. EdgesKept'
  <2>1. DOMAIN c = o.edges /\ \A e \in DOMAIN c : c[e] \in Categories(e.system)
    BY DEF Classified
  <2>2. /\ DOMAIN reach' = DOMAIN reach \cup DOMAIN c
        /\ \A e \in DOMAIN reach' : reach'[e] = IF e \in DOMAIN c THEN c[e] ELSE reach[e]
    BY DEF UpsertReachability, Overwrite
  <2>3. UNION {history'[i].edges : i \in DOMAIN history'} =
          (UNION {history[i].edges : i \in DOMAIN history}) \cup o.edges
    BY <1>1, FieldGrows
  <2> QED
    BY <2>1, <2>2, <2>3 DEF SummaryInv, EdgesKept
<1>5. FlowsKept'
  <2>1. /\ DOMAIN flows' = DOMAIN flows \cup DOMAIN o.flows
        /\ \A w \in DOMAIN flows' : flows'[w] = IF w \in DOMAIN o.flows THEN o.flows[w] ELSE flows[w]
    BY DEF UpsertWorkflow, Overwrite
  <2>2. UNION {DOMAIN history'[i].flows : i \in DOMAIN history'} =
          (UNION {DOMAIN history[i].flows : i \in DOMAIN history}) \cup DOMAIN o.flows
    BY <1>1, FieldGrows
  <2>3. ASSUME NEW w \in DOMAIN flows'
        PROVE  flows'[w] = history'[Max(Reporting(w)')].flows[w]
    <3>1. Reporting(w) \subseteq DOMAIN history
      BY DEF Reporting
    <3>2. Reporting(w)' = Reporting(w) \cup (IF w \in DOMAIN o.flows THEN {n} ELSE {})
      BY <1>1 DEF Reporting
    <3>3. CASE w \in DOMAIN o.flows
      <4>1. /\ Reporting(w)' \subseteq Nat /\ n \in Reporting(w)'
            /\ \A y \in Reporting(w)' : n >= y
        BY <1>1, <3>1, <3>2, <3>3
      <4>2. Max(Reporting(w)') = n
        BY <4>1, MaxIs
      <4> QED
        BY <1>1, <2>1, <3>3, <4>2
    <3>4. CASE w \notin DOMAIN o.flows
      <4>1. w \in DOMAIN flows /\ flows'[w] = flows[w] /\ Reporting(w)' = Reporting(w)
        BY <2>1, <3>2, <3>4
      <4>2. Reporting(w) # {}
        BY <4>1 DEF SummaryInv, FlowsKept, Reporting
      <4>3. Max(Reporting(w)) \in Reporting(w)
        BY <1>1, <1>2, <3>1, <4>2, MaxExists
      <4>4. history'[Max(Reporting(w))] = history[Max(Reporting(w))]
        BY <1>1, <3>1, <4>3
      <4> QED
        BY <4>1, <4>4 DEF SummaryInv, FlowsKept
    <3> QED
      BY <3>3, <3>4
  <2> QED
    BY <2>1, <2>2, <2>3 DEF SummaryInv, FlowsKept
<1> QED
  BY <1>3, <1>4, <1>5

\* Every step keeps the inventory a summary.
LEMMA SummaryStep ==
  ASSUME PayloadAssumption, SummaryInv, [Next]_vars
  PROVE  SummaryInv'
<1>1. ASSUME NEW e \in family, Observe(e) PROVE SummaryInv'
  <2>1. PICK o \in Handle(e) :
          /\ inst' = UpsertInstance(o)
          /\ \E c \in Classified(o) : UpsertReachability(c)
          /\ UpsertCredentialRef(o) /\ UpsertWorkflow(o)
          /\ history' = Append(history, o)
    BY <1>1 DEF Observe
  <2>2. o \in Reports(family) /\ family' = family /\ family' \in Families
    BY <1>1 DEF Observe, Reports, SummaryInv
  <2>3. history' \in Seq(Reports(family')) /\ history' # << >>
    BY <2>1, <2>2, HistoryGrows
  <2>4. Highest' /\ Merged'
    BY <2>1, <2>2, MergedStep
  <2>5. CredsKept' /\ EdgesKept' /\ FlowsKept'
    BY <2>1, <2>2, KeptStep
  <2> QED
    BY <2>2, <2>3, <2>4, <2>5 DEF SummaryInv
<1>2. CASE UNCHANGED vars
  <2>1. /\ family' = family /\ history' = history /\ inst' = inst
        /\ creds' = creds /\ reach' = reach /\ flows' = flows
    BY <1>2 DEF vars
  <2>2. (Highest' <=> Highest) /\ (Merged' <=> Merged)
    BY <2>1 DEF Highest, Merged
  <2>3. (CredsKept' <=> CredsKept) /\ (EdgesKept' <=> EdgesKept) /\ (FlowsKept' <=> FlowsKept)
    BY <2>1 DEF CredsKept, EdgesKept, FlowsKept, Reporting
  <2> QED
    BY <2>1, <2>2, <2>3 DEF SummaryInv
<1> QED
  BY <1>1, <1>2 DEF Next

\* Merging one observation after the other loses nothing and invents nothing.
THEOREM InventoryIsSummaryAlways ==
  ASSUME PayloadAssumption
  PROVE  Spec => []InventoryIsSummary
<1>1. Init => SummaryInv
  BY DEF Init, SummaryInv, CredsKept, EdgesKept, FlowsKept
<1>2. SummaryInv /\ [Next]_vars => SummaryInv'
  BY SummaryStep
<1>3. SummaryInv => InventoryIsSummary
  BY SummaryIs
<1> QED
  BY <1>1, <1>2, <1>3, PTL DEF Spec

-----------------------------------------------------------------------------
(***************************************************************************)
(* The score and its parts.                                                *)
(***************************************************************************)
\* More elements make a total no smaller.
LEMMA TotalGrows ==
  ASSUME NEW D, IsFiniteSet(D), NEW F \in [D -> Nat], NEW S \in SUBSET D, NEW T \in SUBSET D, S \subseteq T
  PROVE  /\ Total(F, S) \in Nat
         /\ Total(F, T) \in Nat
         /\ Total(F, S) <= Total(F, T)
<1>1. Total(F, S) = SumOver(F, S) /\ Total(F, T) = SumOver(F, T)
  BY DEF Total, SumOver
<1> QED
  BY <1>1, SumGrows

\* There are finitely many categories, and each weighs something.
LEMMA CategoriesWeigh ==
  IsFiniteSet(DOMAIN ProdAccess) /\ ProdAccess \in [DOMAIN ProdAccess -> Nat]
<1>1. DOMAIN ProdAccess = {"payments"} \cup {"erp_1c"} \cup {"database"} \cup {"crm"}
                           \cup {"cloud"} \cup {"messaging"} \cup {"other"}
  BY DEF ProdAccess
<1>2. \A S, x : IsFiniteSet(S) => IsFiniteSet(S \cup {x})
  BY FS_AddElement
<1>3. IsFiniteSet({"payments"})
  BY FS_Singleton
<1>4. IsFiniteSet({"payments"} \cup {"erp_1c"} \cup {"database"} \cup {"crm"})
  BY <1>2, <1>3
<1> DEFINE S == {"payments"} \cup {"erp_1c"} \cup {"database"} \cup {"crm"}
<1> HIDE DEF S
<1>5. IsFiniteSet(DOMAIN ProdAccess)
  <2>1. DOMAIN ProdAccess = S \cup {"cloud"} \cup {"messaging"} \cup {"other"}
    BY <1>1 DEF S
  <2>2. IsFiniteSet(S \cup {"cloud"})
    BY <1>2, <1>4 DEF S
  <2>3. IsFiniteSet(S \cup {"cloud"} \cup {"messaging"})
    BY <1>2, <2>2
  <2>4. IsFiniteSet(S \cup {"cloud"} \cup {"messaging"} \cup {"other"})
    BY <1>2, <2>3
  <2> QED
    BY <2>1, <2>4
<1>6. ProdAccess \in [DOMAIN ProdAccess -> Nat]
  BY DEF ProdAccess
<1> QED
  BY <1>5, <1>6

\* The categories of the edges of a map.
Reached(r) == {r[e] : e \in DOMAIN r}

\* The terms that depend on more than one part of the inventory.
HookTerm(i, fl) == IF WebhooksOf(fl) > 0 /\ i.exposure # "localhost" THEN WebhookExposed ELSE 0

CredTerm(i, c) == IF i.secretKeys # {} \/ c # {} THEN CredentialPresent ELSE 0

\* The weight is the sum of its terms.
LEMMA WeightIs ==
  ASSUME NEW i, NEW r, NEW c, NEW fl
  PROVE  Weight(i, r, c, fl) = ShadowInstanceBase + Total(ProdAccess, Reached(r))
                                 + ExposureWeight[i.exposure] + HookTerm(i, fl) + CredTerm(i, c)
BY DEF Weight, Reached, HookTerm, CredTerm

\* The weight of an inventory is a number.
LEMMA WeightType ==
  ASSUME NEW i, NEW r, NEW c, NEW fl, Reached(r) \subseteq DOMAIN ProdAccess,
         i.exposure \in DOMAIN exposureRank
  PROVE  Weight(i, r, c, fl) \in Nat
<1> DEFINE t == Total(ProdAccess, Reached(r))
           x == ExposureWeight[i.exposure]
           h == HookTerm(i, fl)
           k == CredTerm(i, c)
<1>1. t \in Nat
  BY CategoriesWeigh, TotalGrows
<1>2. x \in Nat /\ h \in Nat /\ k \in Nat
  BY DEF exposureRank, ExposureWeight, HookTerm, CredTerm, WebhookExposed, CredentialPresent
<1>3. Weight(i, r, c, fl) = ShadowInstanceBase + t + x + h + k
  BY WeightIs
<1> HIDE DEF t, x, h, k
<1> QED
  BY <1>1, <1>2, <1>3 DEF ShadowInstanceBase

\* It is no less if every part of the inventory is no less.
LEMMA WeightGrows ==
  ASSUME NEW i, NEW r, NEW c, NEW fl, NEW j, NEW s, NEW d, NEW gl,
         Reached(r) \subseteq Reached(s), Reached(s) \subseteq DOMAIN ProdAccess,
         i.exposure \in DOMAIN exposureRank, j.exposure \in DOMAIN exposureRank,
         exposureRank[i.exposure] <= exposureRank[j.exposure],
         ~ (i.exposure = "unknown" /\ j.exposure = "localhost"),
         WebhooksOf(fl) \in Nat, WebhooksOf(gl) \in Nat, WebhooksOf(fl) <= WebhooksOf(gl),
         i.secretKeys \subseteq j.secretKeys, c \subseteq d
  PROVE  Weight(i, r, c, fl) <= Weight(j, s, d, gl)
<1> DEFINE t == Total(ProdAccess, Reached(r))
           x == ExposureWeight[i.exposure]
           h == HookTerm(i, fl)
           k == CredTerm(i, c)
           u == Total(ProdAccess, Reached(s))
           y == ExposureWeight[j.exposure]
           m == HookTerm(j, gl)
           l == CredTerm(j, d)
<1>1. t \in Nat /\ u \in Nat /\ t <= u
  BY CategoriesWeigh, TotalGrows
<1>2. x \in Nat /\ y \in Nat /\ x <= y
  BY DEF exposureRank, ExposureWeight
<1>3. h \in Nat /\ m \in Nat /\ h <= m
  <2>1. h \in {0, WebhookExposed} /\ m \in {0, WebhookExposed}
    BY DEF HookTerm
  <2>2. ASSUME h # 0 PROVE m = WebhookExposed
    <3>1. WebhooksOf(fl) > 0 /\ i.exposure # "localhost"
      BY <2>2 DEF HookTerm
    <3>2. WebhooksOf(gl) > 0
      BY <3>1
    <3>3. j.exposure # "localhost"
      BY <3>1 DEF exposureRank
    <3> QED
      BY <3>2, <3>3 DEF HookTerm
  <2> HIDE DEF h, m
  <2> QED
    BY <2>1, <2>2 DEF WebhookExposed
<1>4. k \in Nat /\ l \in Nat /\ k <= l
  <2>1. k \in {0, CredentialPresent} /\ l \in {0, CredentialPresent}
    BY DEF CredTerm
  <2>2. ASSUME k # 0 PROVE l = CredentialPresent
    BY <2>2 DEF CredTerm
  <2> HIDE DEF k, l
  <2> QED
    BY <2>1, <2>2 DEF CredentialPresent
<1>5. /\ Weight(i, r, c, fl) = ShadowInstanceBase + t + x + h + k
      /\ Weight(j, s, d, gl) = ShadowInstanceBase + u + y + m + l
  BY WeightIs
<1> HIDE DEF t, x, h, k, u, y, m, l
<1> QED
  BY <1>1, <1>2, <1>3, <1>4, <1>5 DEF ShadowInstanceBase

\* The multipliers and the cap.
Scaled(w, foreign, old) ==
  LET owned    == w * (IF foreign THEN 1300 ELSE 1000)
      outdated == IF old THEN (owned * 5) \div 4 ELSE owned
  IN  IF outdated > MaxScore THEN MaxScore ELSE outdated

\* The score is capped, and no less for a greater weight and more multipliers.
LEMMA ScaledGrows ==
  ASSUME NEW w \in Nat, NEW v \in Nat, w <= v, NEW f \in BOOLEAN, NEW g \in BOOLEAN,
         NEW o \in BOOLEAN, NEW q \in BOOLEAN, f => g, o => q
  PROVE  /\ Scaled(w, f, o) \in Nat /\ Scaled(w, f, o) <= MaxScore
         /\ Scaled(w, f, o) <= Scaled(v, g, q)
<1> DEFINE a == w * (IF f THEN 1300 ELSE 1000)
           b == v * (IF g THEN 1300 ELSE 1000)
           m == IF o THEN (a * 5) \div 4 ELSE a
           n == IF q THEN (b * 5) \div 4 ELSE b
<1>1. a \in Nat /\ b \in Nat /\ a <= b
  <2>1. CASE f /\ g
    BY <2>1
  <2>2. CASE ~ f /\ g
    BY <2>2
  <2>3. CASE ~ f /\ ~ g
    BY <2>3
  <2> QED
    BY <2>1, <2>2, <2>3
<1>2. /\ Scaled(w, f, o) = IF m > MaxScore THEN MaxScore ELSE m
      /\ Scaled(v, g, q) = IF n > MaxScore THEN MaxScore ELSE n
  BY DEF Scaled
<1> HIDE DEF a, b
<1>3. m \in Nat /\ n \in Nat /\ m <= n
  <2>1. /\ (a * 5) \div 4 \in Nat /\ (b * 5) \div 4 \in Nat
        /\ (a * 5) \div 4 <= (b * 5) \div 4 /\ a <= (a * 5) \div 4 /\ b <= (b * 5) \div 4
    BY <1>1
  <2>2. CASE o /\ q
    BY <1>1, <2>1, <2>2
  <2>3. CASE ~ o /\ q
    BY <1>1, <2>1, <2>3
  <2>4. CASE ~ o /\ ~ q
    BY <1>1, <2>4
  <2> QED
    BY <2>2, <2>3, <2>4
<1> HIDE DEF m, n
<1> QED
  BY <1>2, <1>3 DEF MaxScore

\* Rounding keeps the order and the bounds.
LEMMA RoundGrows ==
  ASSUME NEW s \in Nat, NEW t \in Nat, s <= t, t <= MaxScore
  PROVE  /\ round1(s) \in Nat /\ round1(s) <= MaxScore
         /\ round1(s) <= round1(t)
<1> DEFINE a == (s + 50) \div 100
           b == (t + 50) \div 100
<1>1. a \in Nat /\ b \in Nat /\ a <= b /\ a <= 1000
  BY DEF MaxScore
<1>2. round1(s) = 100 * a /\ round1(t) = 100 * b
  BY DEF round1
<1> HIDE DEF a, b
<1> QED
  BY <1>1, <1>2 DEF MaxScore

\* A score is a weight, multiplied and capped.
LEMMA ScoreIs ==
  ASSUME NEW i, NEW r, NEW c, NEW fl
  PROVE  /\ NonITOwner(i) \in BOOLEAN /\ Outdated(i) \in BOOLEAN
         /\ Score(i, r, c, fl) = Scaled(Weight(i, r, c, fl), NonITOwner(i), Outdated(i))
BY DEF Score, Scaled, NonITOwner, Outdated

\* A score lies between 0 and 100.
LEMMA ScoreType ==
  ASSUME NEW i, NEW r, NEW c, NEW fl, Weight(i, r, c, fl) \in Nat
  PROVE  /\ Score(i, r, c, fl) \in Nat /\ Score(i, r, c, fl) <= MaxScore
         /\ rescore(i, r, c, fl).score = round1(Score(i, r, c, fl))
         /\ rescore(i, r, c, fl).score \in Nat /\ rescore(i, r, c, fl).score <= MaxScore
         /\ rescore(i, r, c, fl).severity \in {"critical", "high", "medium", "low", "info"}
<1> DEFINE s == Score(i, r, c, fl)
<1>1. s \in Nat /\ s <= MaxScore
  BY ScoreIs, ScaledGrows
<1>2. rescore(i, r, c, fl) = [score |-> round1(s), severity |-> SeverityFromScore(s)]
  BY DEF rescore
<1> HIDE DEF s
<1>3. round1(s) \in Nat /\ round1(s) <= MaxScore
  BY <1>1, RoundGrows
<1>4. SeverityFromScore(s) \in {"critical", "high", "medium", "low", "info"}
  BY DEF SeverityFromScore
<1> QED
  BY <1>1, <1>2, <1>3, <1>4 DEF s

-----------------------------------------------------------------------------
(***************************************************************************)
(* The score is that of the inventory as it stands.                        *)
(***************************************************************************)
\* What a handler says of workflows and edges: finitely many workflows, each
\* with a number of webhooks; what is said of a system stands for categories.
LEMMA ReportParts ==
  ASSUME PayloadAssumption, KeywordsAssumption, NEW f \in Families, NEW o \in Reports(f)
  PROVE  /\ IsFiniteSet(DOMAIN o.flows)
         /\ \A w \in DOMAIN o.flows : o.flows[w] \in Nat
         /\ \A d \in o.edges : Categories(d.system) \subseteq DOMAIN ProdAccess
<1>1. PICK e \in f : o \in Handle(e)
  BY DEF Reports
<1>2. \A d \in o.edges : Categories(d.system) \subseteq DOMAIN ProdAccess
  <2>1. "other" \in DOMAIN ProdAccess
    BY DEF ProdAccess
  <2> QED
    BY <1>1, <2>1 DEF KeywordsAssumption, Categories
<1>3. ASSUME o.flows = << >>
      PROVE  IsFiniteSet(DOMAIN o.flows) /\ \A w \in DOMAIN o.flows : o.flows[w] \in Nat
  <2>1. DOMAIN o.flows = {}
    BY <1>3
  <2> QED
    BY <2>1, FS_EmptySet
<1>4. CASE e.type = "docker.container"
  <2> DEFINE strong == e.image = "n8n"
             weak == (IF e.port5678 THEN 1 ELSE 0) + (IF e.n8nEnv THEN 1 ELSE 0) + e.links
             engine == IF strong \/ weak >= 2 THEN "n8n" ELSE "script-runner"
             sure == IF strong THEN (IF weak >= 1 THEN 99 ELSE 90)
                     ELSE IF weak >= 2 THEN 70 ELSE 50
             x == IF "address" \in e.bindings THEN "lan" ELSE "localhost"
             r == Instance(engine, e.id, "docker", x, sure)
             E == (IF e.postgres THEN {Edge("postgres (n8n backend)", "env")} ELSE {})
                    \cup {Edge(s, "env") : s \in UNION {EnvTargets(k) : k \in e.secrets}}
             C == {<<"env", k>> : k \in {y \in e.secrets : EnvTargets(y) # {}}}
  <2>1. o = [r EXCEPT !.version = e.tag, !.secretKeys = e.secrets, !.edges = E, !.creds = C]
    BY <1>1, <1>4 DEF Handle, handleDocker
  <2>2. o.flows = << >>
    <3> HIDE DEF engine, sure, x, E, C
    <3> QED
      BY <2>1 DEF Instance
  <2> QED
    BY <1>2, <1>3, <2>2
<1>5. CASE e.type = "process"
  <2>1. o.flows = << >>
    BY <1>1, <1>5 DEF Handle, handleProcess, Instance
  <2> QED
    BY <1>2, <1>3, <2>1
<1>6. CASE e.type = "fs.artifact"
  <2>1. o.flows = << >>
    BY <1>1, <1>6 DEF Handle, handleFS, Instance
  <2> QED
    BY <1>2, <1>3, <2>1
<1>7. CASE e.type = "cron.entry"
  <2>1. o.flows = << >>
    BY <1>1, <1>7 DEF Handle, handleCron, Instance
  <2> QED
    BY <1>2, <1>3, <2>1
<1>8. CASE e.type = "network.service"
  <2>1. o.flows = << >>
    BY <1>1, <1>8 DEF Handle, handleNetwork, Instance
  <2> QED
    BY <1>2, <1>3, <2>1
<1>9. CASE e.type = "n8n.api"
  <2> DEFINE F == [w \in DOMAIN e.workflows |-> Cardinality({n \in e.workflows[w] : n.webhook})]
             r == Instance("n8n", <<e.ip, e.port>>, "n8n-api", "unknown", 100)
  <2>1. \E E, C : o = [r EXCEPT !.version = e.version, !.edges = E, !.creds = C, !.flows = F]
    BY <1>1, <1>9, Zenon DEF Handle, handleN8NAPI
  <2>2. /\ IsFiniteSet(DOMAIN e.workflows)
        /\ \A w \in DOMAIN e.workflows : IsFiniteSet(e.workflows[w])
    BY <1>9 DEF PayloadAssumption
  <2>3. ASSUME NEW w \in DOMAIN F PROVE F[w] \in Nat
    <3>1. IsFiniteSet({n \in e.workflows[w] : n.webhook})
      BY <2>2, FS_Subset
    <3> QED
      BY <3>1, FS_CardinalityType
  <2>4. IsFiniteSet(DOMAIN F)
    BY <2>2
  <2> HIDE DEF F
  <2>5. o.flows = F
    BY <2>1 DEF Instance
  <2> QED
    BY <1>2, <2>3, <2>4, <2>5
<1> QED
  BY <1>1, <1>4, <1>5, <1>6, <1>7, <1>8, <1>9 DEF Handle

\* Every edge has been put into a category that weighs something.
LEMMA EdgesWeigh ==
  ASSUME PayloadAssumption, KeywordsAssumption, SummaryInv
  PROVE  Reached(reach) \subseteq DOMAIN ProdAccess
<1> SUFFICES ASSUME NEW e \in DOMAIN reach PROVE reach[e] \in DOMAIN ProdAccess
  BY DEF Reached
<1>1. reach[e] \in Categories(e.system) /\ e \in UNION {history[i].edges : i \in DOMAIN history}
  BY DEF SummaryInv, EdgesKept
<1>2. PICK i \in DOMAIN history : e \in history[i].edges
  BY <1>1
<1>3. history[i] \in Reports(family) /\ family \in Families
  BY DEF SummaryInv
<1> QED
  BY <1>1, <1>2, <1>3, ReportParts

\* The exposure of an instance is one of the four words.
LEMMA ExposureKnown ==
  ASSUME PayloadAssumption, SummaryInv, history # << >>
  PROVE  inst.exposure \in DOMAIN exposureRank
<1>1. Highest /\ family \in Families /\ history \in Seq(Reports(family))
  BY DEF SummaryInv
<1>2. PICK i \in DOMAIN history : inst.exposure = history[i].exposure
  BY <1>1 DEF Highest
<1>3. history[i] \in Reports(family)
  BY <1>1
<1> QED
  BY <1>1, <1>2, <1>3, ReportType

\* Finitely many workflows, each with a number of webhooks.
HooksCounted ==
  IsFiniteSet(DOMAIN flows) /\ flows \in [DOMAIN flows -> Nat]

\* The finding is the score of what is stored.
Scored ==
  IF history = << >> THEN finding = NoFinding ELSE finding = rescore(inst, reach, creds, flows)

\* The invariant of the two theorems below.
RiskInv == SummaryInv /\ HooksCounted /\ Scored

\* It holds at the start.
LEMMA RiskInit ==
  Init => RiskInv
<1> SUFFICES ASSUME Init PROVE RiskInv
  OBVIOUS
<1>1. SummaryInv
  BY DEF Init, SummaryInv, CredsKept, EdgesKept, FlowsKept
<1>2. HooksCounted
  <2>1. DOMAIN flows = {} /\ flows = << >>
    BY DEF Init
  <2>2. IsFiniteSet(DOMAIN flows)
    BY <2>1, FS_EmptySet
  <2>3. flows \in [DOMAIN flows -> Nat]
    BY <2>1
  <2> QED
    BY <2>2, <2>3 DEF HooksCounted
<1>3. Scored
  BY DEF Init, Scored
<1> QED
  BY <1>1, <1>2, <1>3 DEF RiskInv

\* Every step keeps the finding the score of what is stored.
LEMMA RiskStep ==
  ASSUME PayloadAssumption, KeywordsAssumption, RiskInv, [Next]_vars
  PROVE  RiskInv'
<1>1. SummaryInv'
  BY SummaryStep DEF RiskInv
<1>2. ASSUME NEW e \in family, Observe(e) PROVE HooksCounted' /\ Scored'
  <2>1. PICK o \in Handle(e) :
          /\ UpsertWorkflow(o)
          /\ finding' = rescore(inst', reach', creds', flows')
          /\ history' = Append(history, o)
    BY <1>2 DEF Observe
  <2>2. o \in Reports(family) /\ family \in Families /\ family' = family
    BY <1>2 DEF Observe, Reports, RiskInv, SummaryInv
  <2>3. IsFiniteSet(DOMAIN o.flows) /\ \A w \in DOMAIN o.flows : o.flows[w] \in Nat
    BY <2>2, ReportParts
  <2>4. HooksCounted'
    <3>1. IsFiniteSet(DOMAIN flows) /\ \A w \in DOMAIN flows : flows[w] \in Nat
      BY DEF RiskInv, HooksCounted
    <3>2. flows' = [w \in DOMAIN flows \cup DOMAIN o.flows |->
                      IF w \in DOMAIN o.flows THEN o.flows[w] ELSE flows[w]]
      BY <2>1 DEF UpsertWorkflow, Overwrite
    <3>3. IsFiniteSet(DOMAIN flows \cup DOMAIN o.flows)
      BY <2>3, <3>1, FS_Union
    <3>4. DOMAIN flows' = DOMAIN flows \cup DOMAIN o.flows
      BY <3>2
    <3>5. flows' \in [DOMAIN flows' -> Nat]
      BY <2>3, <3>1, <3>2
    <3>6. IsFiniteSet(DOMAIN flows')
      BY <3>3, <3>4
    <3> QED
      BY <3>5, <3>6 DEF HooksCounted
  <2>5. history' # << >>
    BY <2>1, <2>2, HistoryGrows DEF RiskInv
  <2>6. Scored'
    BY <2>1, <2>5 DEF Scored
  <2> QED
    BY <2>4, <2>6
<1>3. CASE UNCHANGED vars
  <2>1. /\ flows' = flows /\ history' = history /\ finding' = finding
        /\ inst' = inst /\ reach' = reach /\ creds' = creds
    BY <1>3 DEF vars
  <2> QED
    BY <1>1, <2>1 DEF RiskInv, HooksCounted, Scored
<1> QED
  BY <1>1, <1>2, <1>3 DEF Next, RiskInv

\* What RiskInv says of types.
LEMMA RiskTypes ==
  ASSUME PayloadAssumption, KeywordsAssumption, RiskInv
  PROVE  TypeOK
<1>1. SummaryInv /\ HooksCounted /\ Scored
  BY DEF RiskInv
<1>2. family \in Families
  BY <1>1 DEF SummaryInv
<1>3. \A e \in DOMAIN reach : reach[e] \in DOMAIN ProdAccess
  BY <1>1, EdgesWeigh DEF Reached
<1>4. \A w \in DOMAIN flows : flows[w] \in Nat
  BY <1>1 DEF HooksCounted
<1>5. /\ inst = NoInstance <=> history = << >>
      /\ inst.exposure \in DOMAIN exposureRank \cup {"none"}
  <2>1. CASE history = << >>
    BY <1>1, <2>1 DEF SummaryInv, NoInstance
  <2>2. CASE history # << >>
    <3>1. inst.exposure \in DOMAIN exposureRank
      BY <1>1, <2>2, ExposureKnown
    <3>2. inst # NoInstance
      BY <3>1 DEF exposureRank, NoInstance
    <3> QED
      BY <2>2, <3>1, <3>2
  <2> QED
    BY <2>1, <2>2
<1>6. /\ finding.score \in Nat /\ finding.score <= MaxScore
      /\ finding.severity \in {"critical", "high", "medium", "low", "info", "none"}
  <2>1. CASE history = << >>
    BY <1>1, <2>1 DEF MaxScore, Scored, NoFinding
  <2>2. CASE history # << >>
    <3>1. Weight(inst, reach, creds, flows) \in Nat
      BY <1>1, <2>2, ExposureKnown, EdgesWeigh, WeightType
    <3>2. finding = rescore(inst, reach, creds, flows)
      BY <1>1, <2>2 DEF Scored
    <3> QED
      BY <3>1, <3>2, ScoreType
  <2> QED
    BY <2>1, <2>2
<1>7. finding.score \in 0 .. MaxScore
  <2>1. MaxScore \in Nat
    BY DEF MaxScore
  <2> QED
    BY <1>6, <2>1
<1> QED
  BY <1>2, <1>3, <1>4, <1>5, <1>6, <1>7 DEF TypeOK

\* Without any of the reasons the weight and the multipliers do not fall.
LEMMA ScoreKept ==
  ASSUME PayloadAssumption, KeywordsAssumption, RiskInv, RiskInv', TypeOK', history # << >>,
         NEW e \in family, Observe(e),
         ~ (Outdated(inst) /\ ~ Outdated(inst')),
         ~ (NonITOwner(inst) /\ ~ NonITOwner(inst')),
         ~ (WebhooksOf(flows') < WebhooksOf(flows)),
         ~ (inst.exposure = "unknown" /\ inst'.exposure = "localhost"),
         ~ (\E d \in DOMAIN reach : reach'[d] # reach[d])
  PROVE  finding.score <= finding'.score
<1>1. PICK o \in Handle(e) :
        /\ inst' = UpsertInstance(o)
        /\ \E c \in Classified(o) : UpsertReachability(c)
        /\ UpsertCredentialRef(o)
        /\ finding' = rescore(inst', reach', creds', flows')
        /\ history' = Append(history, o)
  BY DEF Observe
<1>2. o \in Reports(family) /\ family \in Families /\ family' = family
  BY DEF Observe, Reports, RiskInv, SummaryInv
<1>3. history' # << >>
  BY <1>1, <1>2, HistoryGrows DEF RiskInv
<1>4. /\ inst.exposure \in DOMAIN exposureRank /\ o.exposure \in DOMAIN exposureRank
      /\ inst # NoInstance
  <2>1. inst.exposure \in DOMAIN exposureRank
    BY ExposureKnown DEF RiskInv
  <2> QED
    BY <1>2, <2>1, ReportType DEF exposureRank, NoInstance
<1>5. /\ inst'.exposure = IF o.exposure = "unknown" THEN inst.exposure
                          ELSE maxExposure(inst.exposure, o.exposure)
      /\ inst'.secretKeys = inst.secretKeys \cup o.secretKeys
  BY <1>1, <1>4 DEF UpsertInstance
<1>6. inst'.exposure \in DOMAIN exposureRank /\ exposureRank[inst.exposure] <= exposureRank[inst'.exposure]
  BY <1>4, <1>5 DEF maxExposure, exposureRank
<1>7. creds \subseteq creds' /\ inst.secretKeys \subseteq inst'.secretKeys
  BY <1>1, <1>5 DEF UpsertCredentialRef
<1>8. Reached(reach) \subseteq Reached(reach') /\ Reached(reach') \subseteq DOMAIN ProdAccess
  <2>1. PICK c \in Classified(o) : UpsertReachability(c)
    BY <1>1
  <2>2. DOMAIN reach \subseteq DOMAIN reach'
    BY <2>1 DEF UpsertReachability, Overwrite
  <2>3. Reached(reach) \subseteq Reached(reach')
    BY <2>2 DEF Reached
  <2>4. Reached(reach') \subseteq DOMAIN ProdAccess
    BY DEF TypeOK, Reached
  <2> QED
    BY <2>3, <2>4
<1>9. WebhooksOf(flows) \in Nat /\ WebhooksOf(flows') \in Nat
  <2>1. ASSUME NEW fl, IsFiniteSet(DOMAIN fl), fl \in [DOMAIN fl -> Nat] PROVE WebhooksOf(fl) \in Nat
    BY <2>1, TotalGrows DEF WebhooksOf
  <2> QED
    BY <2>1 DEF RiskInv, HooksCounted
<1> DEFINE w == Weight(inst, reach, creds, flows)
           v == Weight(inst', reach', creds', flows')
<1>10. w \in Nat /\ v \in Nat /\ w <= v
  <2>1. WebhooksOf(flows) <= WebhooksOf(flows')
    BY <1>9
  <2>2. w <= v
    BY <1>4, <1>6, <1>7, <1>8, <1>9, <2>1, WeightGrows
  <2>3. Reached(reach) \subseteq DOMAIN ProdAccess
    BY <1>8
  <2>4. w \in Nat
    BY <1>4, <2>3, WeightType
  <2>5. v \in Nat
    BY <1>6, <1>8, WeightType
  <2> QED
    BY <2>2, <2>4, <2>5
<1> DEFINE s == Score(inst, reach, creds, flows)
           t == Score(inst', reach', creds', flows')
<1>11. s \in Nat /\ t \in Nat /\ s <= t /\ t <= MaxScore
  <2>1. s \in Nat /\ t \in Nat /\ t <= MaxScore
    BY <1>10, ScoreType
  <2>2. /\ s = Scaled(w, NonITOwner(inst), Outdated(inst))
        /\ t = Scaled(v, NonITOwner(inst'), Outdated(inst'))
        /\ NonITOwner(inst) \in BOOLEAN /\ NonITOwner(inst') \in BOOLEAN
        /\ Outdated(inst) \in BOOLEAN /\ Outdated(inst') \in BOOLEAN
    BY ScoreIs
  <2> HIDE DEF w, v, s, t
  <2>3. s <= t
    BY <1>10, <2>2, ScaledGrows
  <2> QED
    BY <2>1, <2>3
<1>12. finding.score = round1(s) /\ finding'.score = round1(t)
  <2>1. finding = rescore(inst, reach, creds, flows)
    BY DEF RiskInv, Scored
  <2> QED
    BY <1>1, <1>10, <2>1, ScoreType
<1> HIDE DEF s, t
<1> QED
  BY <1>11, <1>12, RoundGrows

\* The types are right in every state: a score lies between 0 and 100, and an
\* edge has a category that weighs something.
THEOREM TypeCorrect ==
  ASSUME PayloadAssumption, KeywordsAssumption
  PROVE  Spec => []TypeOK
<1>1. RiskInv /\ [Next]_vars => RiskInv'
  BY RiskStep
<1>2. RiskInv => TypeOK
  BY RiskTypes
<1> QED
  BY RiskInit, <1>1, <1>2, PTL DEF Spec

\* The score falls only when the version is fixed, the owner becomes root, a
\* workflow loses webhooks, the instance turns out to be local, or a system is
\* put into another category.
THEOREM RiskFallsForAReasonAlways ==
  ASSUME PayloadAssumption, KeywordsAssumption
  PROVE  Spec => RiskFallsForAReason
<1> DEFINE Reason ==
             \/ Outdated(inst) /\ ~ Outdated(inst')
             \/ NonITOwner(inst) /\ ~ NonITOwner(inst')
             \/ WebhooksOf(flows') < WebhooksOf(flows)
             \/ inst.exposure = "unknown" /\ inst'.exposure = "localhost"
             \/ \E e \in DOMAIN reach : reach'[e] # reach[e]
<1>1. RiskInv /\ [Next]_vars => RiskInv'
  BY RiskStep
<1>2. RiskInv => TypeOK
  BY RiskTypes
<1>3. RiskInv /\ RiskInv' /\ TypeOK /\ TypeOK' /\ [Next]_vars => [finding'.score < finding.score => Reason]_vars
  <2> SUFFICES ASSUME RiskInv, RiskInv', TypeOK, TypeOK', NEW e \in family, Observe(e),
                      finding'.score < finding.score, ~ Reason
               PROVE  FALSE
    BY DEF Next
  <2>2. finding.score \in Nat /\ finding'.score \in Nat
    BY DEF TypeOK
  <2>3. history # << >>
    <3> SUFFICES ASSUME history = << >> PROVE FALSE
      OBVIOUS
    <3>1. finding.score = 0
      BY DEF RiskInv, Scored, NoFinding
    <3> QED
      BY <2>2, <3>1
  <2>4. finding.score <= finding'.score
    BY <2>3, ScoreKept
  <2> QED
    BY <2>2, <2>4
<1> QED
  BY RiskInit, <1>1, <1>2, <1>3, PTL DEF Spec, RiskFallsForAReason

-----------------------------------------------------------------------------
(***************************************************************************)
(* For any tags: CompareVersions is an order (Versions).  A tag is split   *)
(* into fields, each of which begins with a number, and a number that is   *)
(* missing counts as 0: so a tag stands for a number at each place, and    *)
(* the first place where two differ decides.                               *)
(***************************************************************************)
Symbols == DOMAIN VE!Digits \cup VE!Separators \cup VE!Letters

\* The number a tag stands for at a place.
At(t, i) == VE!NumberAt(VE!splitVer(t), i)

\* Versions counts and compares as the library does.
LEMMA SameOperators ==
  \A S : VE!Cardinality(S) = Cardinality(S) /\ VE!Max(S) = Max(S) /\ VE!Min(S) = Min(S)
<1>1. \A S : VE!Cardinality(S) = Cardinality(S)
  BY DEF VE!Cardinality, Cardinality, VE!IsFiniteSet, IsFiniteSet
<1>2. \A S : VE!Max(S) = Max(S) /\ VE!Min(S) = Min(S)
  BY DEF VE!Max, Max, VE!Min, Min
<1> QED
  BY <1>1, <1>2

\* g has the values of the first digits of f, up to k of them.
IsValue(g, f, k) ==
  g = [n \in 0 .. k |-> IF n = 0 THEN 0 ELSE 10 * g[n - 1] + VE!Digits[f[n]]]

\* There are such values: the recursive definition in Number is sound.
LEMMA ValueExists ==
  ASSUME NEW f, NEW k \in Nat
  PROVE  \E g : IsValue(g, f, k)
<1> DEFINE Good == {n \in Nat : \E g : IsValue(g, f, n)}
<1>1. 0 \in Good
  <2> DEFINE g == [i \in 0 .. 0 |-> 0]
  <2>1. IsValue(g, f, 0)
    BY DEF IsValue
  <2> QED
    BY <2>1
<1>2. \A n \in Nat : n \in Good => n + 1 \in Good
  <2> SUFFICES ASSUME NEW n \in Nat, n \in Good PROVE n + 1 \in Good
    OBVIOUS
  <2>1. PICK e : IsValue(e, f, n)
    OBVIOUS
  <2> DEFINE piece(h, i) == IF i = 0 THEN 0 ELSE 10 * h[i - 1] + VE!Digits[f[i]]
             g == [i \in 0 .. n + 1 |-> IF i <= n THEN e[i] ELSE piece(e, i)]
             h == [i \in 0 .. n + 1 |-> piece(g, i)]
  <2>2. \A i \in 0 .. n + 1 : g[i] = h[i]
    <3> SUFFICES ASSUME NEW i \in 0 .. n + 1 PROVE g[i] = piece(g, i)
      OBVIOUS
    <3>1. CASE i = 0
      BY <2>1, <3>1 DEF IsValue
    <3>2. CASE i # 0
      <4>1. i - 1 \in 0 .. n + 1 /\ i - 1 <= n
        BY <3>2
      <4>2. g[i - 1] = e[i - 1]
        BY <4>1
      <4>3. CASE i <= n
        <5>1. i \in 0 .. n
          BY <4>3
        <5>2. e[i] = piece(e, i)
          BY <2>1, <5>1 DEF IsValue
        <5> QED
          BY <3>2, <4>2, <4>3, <5>2
      <4> QED
        BY <3>2, <4>2, <4>3
    <3> QED
      BY <3>1, <3>2
  <2>3. g = h
    BY <2>2
  <2>4. IsValue(g, f, n + 1)
    BY <2>3 DEF IsValue
  <2> QED
    BY <2>4
<1>3. Nat \subseteq Good
  <2> HIDE DEF Good
  <2> QED
    BY <1>1, <1>2, NatSetInduction
<1> QED
  BY <1>3

\* What a field begins with is a number.
LEMMA NumberType ==
  ASSUME NEW f \in Seq(Symbols)
  PROVE  VE!Number(f) \in Nat
<1> DEFINE front == {n \in 0 .. Len(f) : \A m \in 1 .. n : f[m] \in DOMAIN VE!Digits}
           k == VE!Max(front)
           g == CHOOSE g : IsValue(g, f, k)
<1>1. VE!Number(f) = g[k]
  BY DEF VE!Number, IsValue
<1>2. k \in front
  <2>1. Len(f) \in Nat /\ front \in SUBSET (0 .. Len(f)) /\ 0 \in front
    OBVIOUS
  <2> HIDE DEF front
  <2>2. Max(front) \in front
    BY <2>1, MaxExists
  <2> QED
    BY <2>2, SameOperators
<1>3. k \in Nat /\ \A m \in 1 .. k : f[m] \in DOMAIN VE!Digits
  BY <1>2
<1> HIDE DEF front, k
<1>4. IsValue(g, f, k)
  BY <1>3, ValueExists
<1> HIDE DEF g
<1>5. \A m \in 1 .. k : VE!Digits[f[m]] \in Nat
  BY <1>3 DEF VE!Digits
<1> DEFINE Good == {n \in Nat : n <= k => g[n] \in Nat}
<1>6. 0 \in Good
  BY <1>3, <1>4 DEF IsValue
<1>7. \A n \in Nat : n \in Good => n + 1 \in Good
  <2> SUFFICES ASSUME NEW n \in Nat, n \in Good, n + 1 <= k PROVE g[n + 1] \in Nat
    OBVIOUS
  <2>1. n + 1 \in 0 .. k /\ n + 1 \in 1 .. k /\ (n + 1) - 1 = n /\ n + 1 # 0
    BY <1>3
  <2>2. g[n] \in Nat
    BY <1>3, <2>1
  <2>3. g[n + 1] = 10 * g[n] + VE!Digits[f[n + 1]]
    BY <1>4, <2>1 DEF IsValue
  <2>4. VE!Digits[f[n + 1]] \in Nat
    BY <1>5, <2>1
  <2> DEFINE p == g[n]
             q == VE!Digits[f[n + 1]]
  <2>5. p \in Nat /\ q \in Nat /\ g[n + 1] = 10 * p + q
    BY <2>2, <2>3, <2>4
  <2> HIDE DEF p, q
  <2> QED
    BY <2>5
<1>8. Nat \subseteq Good
  <2> HIDE DEF Good
  <2> QED
    BY <1>6, <1>7, NatSetInduction
<1>9. g[k] \in Nat
  BY <1>3, <1>8
<1> QED
  BY <1>1, <1>9

\* The fields of a tag are parts of it.
LEMMA FieldsAre ==
  ASSUME NEW t \in Seq(Symbols)
  PROVE  \E m \in Nat : /\ DOMAIN VE!Fields(t) = 1 .. m
                        /\ \A k \in 1 .. m : VE!Fields(t)[k] \in Seq(Symbols)
<1> DEFINE seps == {0, Len(t) + 1} \cup {n \in DOMAIN t : t[n] \in VE!Separators}
           Following(n) == VE!Min({m \in seps : m > n})
           begin == {n \in seps : n <= Len(t) /\ Following(n) > n + 1}
           At_(k) == CHOOSE n \in begin : VE!Cardinality({m \in begin : m <= n}) = k
           field(k) == SubSeq(t, At_(k) + 1, Following(At_(k)) - 1)
           c == Cardinality(begin)
<1>1. VE!Fields(t) = [k \in 1 .. VE!Cardinality(begin) |-> field(k)]
  BY DEF VE!Fields
<1>2. Len(t) \in Nat /\ seps \in SUBSET (0 .. Len(t) + 1) /\ Len(t) + 1 \in seps
  OBVIOUS
<1>3. ASSUME NEW n \in begin PROVE n \in 0 .. Len(t) /\ Following(n) \in 0 .. Len(t) + 1
  <2> DEFINE later == {m \in seps : m > n}
  <2>1. n \in seps /\ n <= Len(t)
    OBVIOUS
  <2> HIDE DEF seps, begin
  <2>2. n \in 0 .. Len(t)
    BY <1>2, <2>1
  <2>3. later \in SUBSET Nat /\ later # {}
    <3>1. later \subseteq seps
      OBVIOUS
    <3>2. Len(t) + 1 > n
      BY <1>2, <2>2
    <3>3. Len(t) + 1 \in later
      BY <1>2, <3>2
    <3>4. 0 .. Len(t) + 1 \subseteq Nat
      OBVIOUS
    <3> QED
      BY <1>2, <3>1, <3>3, <3>4, Zenon
  <2> HIDE DEF later
  <2>4. Min(later) \in later
    BY <2>3, MinExists
  <2>5. VE!Min(later) \in seps
    BY <2>4, SameOperators DEF later
  <2> QED
    BY <1>2, <2>2, <2>5 DEF later
<1>4. begin \in SUBSET (0 .. Len(t))
  BY <1>3
<1>5. begin \in SUBSET Nat /\ IsFiniteSet(begin)
  <2>1. 0 \in Int /\ Len(t) \in Int
    BY <1>2
  <2>2. IsFiniteSet(0 .. Len(t))
    BY <2>1, FS_Interval, Zenon
  <2> HIDE DEF begin
  <2>3. IsFiniteSet(begin)
    BY <1>4, <2>2, FS_Subset
  <2> QED
    BY <1>2, <1>4, <2>3
<1> HIDE DEF seps, Following, begin
<1>6. c \in Nat
  BY <1>5, FS_CardinalityType
<1>7. ASSUME NEW k \in 1 .. c PROVE field(k) \in Seq(Symbols)
  <2>1. \E n \in begin : Cardinality({m \in begin : m <= n}) = k
    BY <1>5, <1>7, RankOnto
  <2>2. \E n \in begin : VE!Cardinality({m \in begin : m <= n}) = k
    BY <2>1, SameOperators
  <2>3. At_(k) \in begin
    BY <2>2
  <2> DEFINE n == At_(k)
             u == Following(n)
  <2>4. n \in 0 .. Len(t) /\ u \in 0 .. Len(t) + 1
    BY <1>3, <2>3
  <2> HIDE DEF n, u
  <2>5. \A i \in n + 1 .. u - 1 : i \in 1 .. Len(t)
    BY <1>2, <2>4
  <2>6. SubSeq(t, n + 1, u - 1) \in Seq(Symbols)
    <3> DEFINE D == Symbols
    <3>1. t \in Seq(D)
      OBVIOUS
    <3> HIDE DEF D
    <3>2. \A i \in n + 1 .. u - 1 : t[i] \in D
      BY <2>5, <3>1
    <3>3. SubSeq(t, n + 1, u - 1) \in Seq(D)
      BY <1>2, <2>4, <3>1, <3>2
    <3> QED
      BY <3>3 DEF D
  <2> QED
    BY <2>6 DEF n, u
<1>8. VE!Cardinality(begin) = c
  BY SameOperators
<1> HIDE DEF At_, field, c
<1>9. DOMAIN VE!Fields(t) = 1 .. c /\ \A k \in 1 .. c : VE!Fields(t)[k] \in Seq(Symbols)
  BY <1>1, <1>7, <1>8
<1> QED
  BY <1>6, <1>9

\* A tag stands for a number at each place of the version it is split into.
LEMMA VersionIs ==
  ASSUME NEW t \in Seq(Symbols)
  PROVE  \E m \in Nat : /\ DOMAIN VE!splitVer(t) = 1 .. m
                        /\ \A k \in 1 .. m : VE!splitVer(t)[k] \in Nat
<1> DEFINE bare == IF t # << >> /\ t[1] = "v" THEN Tail(t) ELSE t
           fields == VE!Fields(bare)
<1>1. VE!splitVer(t) = [k \in DOMAIN fields |-> VE!Number(fields[k])]
  BY DEF VE!splitVer
<1>2. bare \in Seq(Symbols)
  OBVIOUS
<1> HIDE DEF bare
<1>3. PICK m \in Nat : DOMAIN fields = 1 .. m /\ \A k \in 1 .. m : fields[k] \in Seq(Symbols)
  BY <1>2, FieldsAre
<1> HIDE DEF fields
<1>4. \A k \in 1 .. m : VE!Number(fields[k]) \in Nat
  BY <1>3, NumberType
<1>5. DOMAIN VE!splitVer(t) = 1 .. m /\ \A k \in 1 .. m : VE!splitVer(t)[k] \in Nat
  BY <1>1, <1>3, <1>4
<1> QED
  BY <1>5

\* At each place; and only places of one of the versions can differ.
LEMMA AtType ==
  ASSUME NEW s \in Seq(Symbols), NEW t \in Seq(Symbols)
  PROVE  LET differ == {i \in DOMAIN VE!splitVer(s) \cup DOMAIN VE!splitVer(t) : At(s, i) # At(t, i)}
         IN  /\ \A i : At(s, i) \in Nat
             /\ differ \in SUBSET Nat
             /\ \A i : At(s, i) # At(t, i) => i \in differ
<1>1. PICK m \in Nat : /\ DOMAIN VE!splitVer(s) = 1 .. m
                       /\ \A k \in 1 .. m : VE!splitVer(s)[k] \in Nat
  BY VersionIs
<1>2. PICK n \in Nat : DOMAIN VE!splitVer(t) = 1 .. n
  BY VersionIs
<1>3. \A i : At(s, i) \in Nat
  BY <1>1 DEF At, VE!NumberAt
<1>4. 1 .. m \subseteq Nat /\ 1 .. n \subseteq Nat
  OBVIOUS
<1>5. \A i : i \notin DOMAIN VE!splitVer(s) /\ i \notin DOMAIN VE!splitVer(t) => At(s, i) = At(t, i)
  BY DEF At, VE!NumberAt
<1> QED
  BY <1>1, <1>2, <1>3, <1>4, <1>5

\* The first place where s and t differ is p.
FirstAt(p, s, t) == p \in Nat /\ At(s, p) # At(t, p) /\ \A i \in Nat : i < p => At(s, i) = At(t, i)

\* The first place where two tags differ decides, if there is one.
LEMMA CompareIs ==
  ASSUME NEW s \in Seq(Symbols), NEW t \in Seq(Symbols)
  PROVE  \/ VE!CompareVersions(s, t) = 0 /\ \A i \in Nat : At(s, i) = At(t, i)
         \/ \E p : /\ FirstAt(p, s, t)
                   /\ VE!CompareVersions(s, t) = IF At(s, p) < At(t, p) THEN -1 ELSE 1
<1> DEFINE differ == {i \in DOMAIN VE!splitVer(s) \cup DOMAIN VE!splitVer(t) : At(s, i) # At(t, i)}
           p == VE!Min(differ)
<1>1. differ \in SUBSET Nat /\ \A i : At(s, i) # At(t, i) => i \in differ
  BY AtType
<1>2. VE!CompareVersions(s, t) = IF differ = {} THEN 0 ELSE IF At(s, p) < At(t, p) THEN -1 ELSE 1
  BY DEF VE!CompareVersions, At
<1>3. \A i \in differ : At(s, i) # At(t, i)
  OBVIOUS
<1> HIDE DEF differ
<1>4. CASE differ = {}
  BY <1>1, <1>2, <1>4
<1>5. CASE differ # {}
  <2>1. p \in differ /\ \A i \in differ : p <= i
    <3>1. p = Min(differ)
      BY SameOperators
    <3> HIDE DEF p
    <3> QED
      BY <1>1, <1>5, <3>1, MinExists
  <2> HIDE DEF p
  <2>2. FirstAt(p, s, t)
    BY <1>1, <1>3, <2>1 DEF FirstAt
  <2> QED
    BY <1>2, <1>5, <2>2
<1> QED
  BY <1>4, <1>5

\* It is the same for both, and there is one only.
LEMMA FirstIsOne ==
  ASSUME NEW s, NEW t, NEW p, FirstAt(p, s, t)
  PROVE  FirstAt(p, t, s) /\ \A q : FirstAt(q, s, t) => q = p
<1>1. ASSUME NEW q, FirstAt(q, s, t) PROVE q = p
  <2>1. p \in Nat /\ q \in Nat /\ ~ (p < q) /\ ~ (q < p)
    BY <1>1 DEF FirstAt
  <2> QED
    BY <2>1
<1>2. FirstAt(p, t, s)
  BY DEF FirstAt
<1> QED
  BY <1>1, <1>2

\* What the first place says is what the comparison says.
LEMMA Decided ==
  ASSUME NEW s \in Seq(Symbols), NEW t \in Seq(Symbols), NEW p, FirstAt(p, s, t)
  PROVE  VE!CompareVersions(s, t) = IF At(s, p) < At(t, p) THEN -1 ELSE 1
<1>1. p \in Nat /\ At(s, p) # At(t, p)
  BY DEF FirstAt
<1>2. PICK q : /\ FirstAt(q, s, t)
               /\ VE!CompareVersions(s, t) = IF At(s, q) < At(t, q) THEN -1 ELSE 1
  BY <1>1, CompareIs
<1>3. q = p
  BY <1>2, FirstIsOne
<1> QED
  BY <1>2, <1>3

\* The answer is one of three.
LEMMA CompareType ==
  ASSUME NEW s \in Seq(Symbols), NEW t \in Seq(Symbols)
  PROVE  VE!CompareVersions(s, t) \in {-1, 0, 1}
BY CompareIs

\* Compared the other way round, the answer is the opposite.
LEMMA Opposite ==
  ASSUME NEW s \in Seq(Symbols), NEW t \in Seq(Symbols)
  PROVE  VE!CompareVersions(t, s) = 0 - VE!CompareVersions(s, t)
<1>1. CASE VE!CompareVersions(s, t) = 0 /\ \A i \in Nat : At(s, i) = At(t, i)
  <2>1. ~ \E p : FirstAt(p, t, s)
    BY <1>1 DEF FirstAt
  <2>2. VE!CompareVersions(t, s) = 0
    BY <2>1, CompareIs
  <2> QED
    BY <1>1, <2>2
<1>2. ASSUME NEW p, FirstAt(p, s, t) PROVE VE!CompareVersions(t, s) = 0 - VE!CompareVersions(s, t)
  <2>1. FirstAt(p, t, s)
    BY <1>2, FirstIsOne
  <2> DEFINE x == At(s, p)
             y == At(t, p)
  <2>2. /\ VE!CompareVersions(s, t) = IF x < y THEN -1 ELSE 1
        /\ VE!CompareVersions(t, s) = IF y < x THEN -1 ELSE 1
    BY <1>2, <2>1, Decided
  <2>3. x \in Nat /\ y \in Nat /\ x # y
    BY <1>2, AtType DEF FirstAt
  <2> HIDE DEF x, y
  <2> QED
    BY <2>2, <2>3
<1> QED
  BY <1>1, <1>2, CompareIs

\* What is below or the same is so along a third tag.
LEMMA Along ==
  ASSUME NEW s \in Seq(Symbols), NEW t \in Seq(Symbols), NEW u \in Seq(Symbols),
         VE!CompareVersions(s, t) <= 0, VE!CompareVersions(t, u) <= 0
  PROVE  \/ VE!CompareVersions(s, u) = -1
         \/ VE!CompareVersions(s, u) = 0 /\ VE!CompareVersions(s, t) = 0
<1>0. \A i : At(s, i) \in Nat /\ At(t, i) \in Nat /\ At(u, i) \in Nat
  BY AtType
<1>1. \A p : FirstAt(p, s, t) => At(s, p) < At(t, p)
  BY Decided
<1>2. \A p : FirstAt(p, t, u) => At(t, p) < At(u, p)
  BY Decided
<1>3. ASSUME NEW p, FirstAt(p, s, u) PROVE At(s, p) < At(u, p)
  <2>1. p \in Nat /\ At(s, p) # At(u, p) /\ \A i \in Nat : i < p => At(s, i) = At(u, i)
    BY <1>3 DEF FirstAt
  <2> DEFINE none(x, y) == \A i \in Nat : At(x, i) = At(y, i)
  <2>2. none(s, t) \/ \E q : FirstAt(q, s, t)
    BY CompareIs
  <2>3. none(t, u) \/ \E q : FirstAt(q, t, u)
    BY CompareIs
  <2>4. CASE none(s, t)
    <3>1. At(s, p) = At(t, p) /\ FirstAt(p, t, u)
      BY <2>1, <2>4 DEF FirstAt
    <3> QED
      BY <1>2, <3>1
  <2>5. CASE none(t, u)
    <3>1. At(t, p) = At(u, p) /\ FirstAt(p, s, t)
      BY <2>1, <2>5 DEF FirstAt
    <3> QED
      BY <1>1, <3>1
  <2>6. ASSUME NEW q, FirstAt(q, s, t), NEW r, FirstAt(r, t, u) PROVE At(s, p) < At(u, p)
    <3>1. /\ q \in Nat /\ At(s, q) < At(t, q) /\ \A i \in Nat : i < q => At(s, i) = At(t, i)
          /\ r \in Nat /\ At(t, r) < At(u, r) /\ \A i \in Nat : i < r => At(t, i) = At(u, i)
      BY <1>1, <1>2, <2>6 DEF FirstAt
    <3>2. CASE q < r
      <4>1. At(t, q) = At(u, q)
        BY <3>1, <3>2
      <4>2. \A i \in Nat : i < q => At(s, i) = At(u, i)
        BY <3>1, <3>2
      <4>3. At(s, q) # At(u, q)
        BY <1>0, <3>1, <4>1
      <4>4. p = q
        <5>1. ~ (p < q) /\ ~ (q < p)
          BY <2>1, <3>1, <4>2, <4>3
        <5> QED
          BY <2>1, <3>1, <5>1
      <4> QED
        BY <3>1, <4>1, <4>4
    <3>3. CASE r < q
      <4>1. At(s, r) = At(t, r)
        BY <3>1, <3>3
      <4>2. \A i \in Nat : i < r => At(s, i) = At(u, i)
        BY <3>1, <3>3
      <4>3. At(s, r) # At(u, r)
        BY <1>0, <3>1, <4>1
      <4>4. p = r
        <5>1. ~ (p < r) /\ ~ (r < p)
          BY <2>1, <3>1, <4>2, <4>3
        <5> QED
          BY <2>1, <3>1, <5>1
      <4> QED
        BY <3>1, <4>1, <4>4
    <3>4. CASE q = r
      <4>1. \A i \in Nat : i < q => At(s, i) = At(u, i)
        BY <3>1, <3>4
      <4> DEFINE x == At(s, q)
                 y == At(t, q)
                 z == At(u, q)
      <4>2. x \in Nat /\ y \in Nat /\ z \in Nat /\ x < y /\ y < z
        BY <1>0, <3>1, <3>4
      <4>3. x < z /\ x # z
        <5> HIDE DEF x, y, z
        <5> QED
          BY <4>2
      <4>4. p = q
        <5>1. ~ (p < q) /\ ~ (q < p)
          BY <2>1, <3>1, <4>1, <4>3
        <5> QED
          BY <2>1, <3>1, <5>1
      <4> QED
        BY <4>3, <4>4
    <3> QED
      BY <3>1, <3>2, <3>3, <3>4
  <2> QED
    BY <2>2, <2>3, <2>4, <2>5, <2>6
<1>4. CASE \E p : FirstAt(p, s, u)
  BY <1>3, <1>4, Decided
<1>5. CASE ~ \E p : FirstAt(p, s, u)
  <2>1. VE!CompareVersions(s, u) = 0 /\ \A i \in Nat : At(s, i) = At(u, i)
    BY <1>5, CompareIs
  <2>2. ~ \E p : FirstAt(p, s, t)
    <3> SUFFICES ASSUME NEW p, FirstAt(p, s, t) PROVE FALSE
      OBVIOUS
    <3>1. At(s, p) < At(t, p) /\ p \in Nat /\ \A i \in Nat : At(u, i) = At(s, i)
      BY <1>1, <2>1 DEF FirstAt
    <3>2. FirstAt(p, t, u)
      BY <3>1 DEF FirstAt
    <3>3. At(t, p) < At(u, p)
      BY <1>2, <3>2
    <3> DEFINE x == At(s, p)
               y == At(t, p)
    <3>4. x \in Nat /\ y \in Nat /\ x < y /\ y < x
      BY <1>0, <3>1, <3>3
    <3> HIDE DEF x, y
    <3> QED
      BY <3>4
  <2>3. VE!CompareVersions(s, t) = 0
    BY <2>2, CompareIs
  <2> QED
    BY <2>1, <2>3
<1> QED
  BY <1>4, <1>5

\* The answers of CompareVersions are those of an order, for all tags.
THEOREM VersionsAreOrderedAlways ==
  ASSUME VE!TagAssumption
  PROVE  VE!Spec => []VersionsAreOrdered
<1> DEFINE Answered == left \in Tags /\ right \in Tags /\ order \in {VE!Open, VE!CompareVersions(left, right)}
<1>1. VE!Init => Answered
  BY DEF VE!Init
<1>2. Answered /\ [VE!Next]_(VE!vars) => Answered'
  BY DEF VE!Next, VE!Compare, VE!vars
<1>3. Answered => VersionsAreOrdered
  <2> SUFFICES ASSUME Answered, order # VE!Open PROVE VE!VersionsAreOrdered
    BY DEF VersionsAreOrdered, VE!VersionsAreOrdered
  <2>1. order = VE!CompareVersions(left, right)
    OBVIOUS
  <2>2. Tags \subseteq Seq(Symbols)
    BY DEF VE!TagAssumption, Symbols
  <2>3. VE!CompareVersions(right, left) = 0 - order
    BY <2>1, <2>2, Opposite
  <2>4. ASSUME NEW c \in Tags, order <= 0, VE!CompareVersions(right, c) <= 0
        PROVE  VE!CompareVersions(left, c) <= 0 /\ (VE!CompareVersions(left, c) = 0 => order = 0)
    <3>1. \/ VE!CompareVersions(left, c) = -1
          \/ VE!CompareVersions(left, c) = 0 /\ VE!CompareVersions(left, right) = 0
      BY <2>1, <2>2, <2>4, Along
    <3> QED
      BY <2>1, <3>1
  <2> QED
    BY <2>3, <2>4 DEF VE!VersionsAreOrdered
<1> QED
  BY <1>1, <1>2, <1>3, PTL DEF VE!Spec

-----------------------------------------------------------------------------
(***************************************************************************)
(* The patterns of whitelist rules, for any characters in UTF-8.           *)
(*                                                                         *)
(* The recursive definition in globMatch is sound (PlacesExist), and a run *)
(* of stars in it is as good as one star (PlacesStep).  Characters lie one *)
(* after another in memory (Encoded).  From the end of the pattern back,   *)
(* the place of a character is among those of a symbol if what follows     *)
(* both means each other (AgreeStar, AgreeChar): a star that could end     *)
(* between two characters could also end before one (BetweenCharacters),   *)
(* as the byte that begins a character is nowhere else.                    *)
(***************************************************************************)
\* Glob flattens as the library does.
LEMMA SameJoin == \A s : GL!FlattenSeq(s) = FlattenSeq(s)
BY DEF GL!FlattenSeq, FlattenSeq

-----------------------------------------------------------------------------
\* The places from i on, if f has those of what follows.
PlacesFrom(f, p, s, i) ==
  IF i = Len(p) + 1 THEN {Len(s) + 1}
  ELSE LET k    == IF p[i] = "*" THEN GL!AfterStars(p, i) ELSE i + 1
           rest == f[k]
       IN  CASE p[i] = "*" -> {j \in 1 .. Len(s) + 1 : k = Len(p) + 1 \/ \E l \in rest : j <= l}
             [] p[i] = "?" -> {j \in 1 .. Len(s) : j + 1 \in rest}
             [] OTHER      -> {j \in 1 .. Len(s) : p[i] = s[j] /\ j + 1 \in rest}

\* f has the places from n on.
IsPlaces(f, p, s, n) == f = [i \in n .. Len(p) + 1 |-> PlacesFrom(f, p, s, i)]

\* Stars end, behind where they begin.
LEMMA StarsEnd ==
  ASSUME NEW p, Len(p) \in Nat, NEW i \in 1 .. Len(p), p[i] = "*"
  PROVE  GL!AfterStars(p, i) \in i + 1 .. Len(p) + 1
<1> DEFINE l == Len(p) + 1
           S == {k \in i .. l : k <= Len(p) => p[k] # "*"}
           k == Min(S)
<1>1. l \in Nat /\ l \in S /\ S \in SUBSET (0 .. l)
  OBVIOUS
<1>2. k \in S /\ \A y \in S : k <= y
  <2> HIDE DEF S, l
  <2> QED
    BY <1>1, MinExists
<1> HIDE DEF k
<1>3. k \in i .. l /\ (k <= Len(p) => p[k] # "*")
  BY <1>2
<1>4. \A m \in i .. k - 1 : p[m] = "*"
  <2> SUFFICES ASSUME NEW m \in i .. k - 1, p[m] # "*" PROVE FALSE
    OBVIOUS
  <2>1. m \in S /\ ~ (k <= m)
    BY <1>3
  <2> QED
    BY <1>2, <2>1
<1> DEFINE a == GL!AfterStars(p, i)
<1>5. a \in i .. Len(p) + 1 /\ (a <= Len(p) => p[a] # "*")
  BY <1>3, <1>4 DEF GL!AfterStars
<1> HIDE DEF a
<1>6. a # i
  BY <1>5
<1>7. a \in i + 1 .. Len(p) + 1
  BY <1>5, <1>6
<1> QED
  BY <1>7 DEF a

\* There are such places: the recursive definition in globMatch is sound.
LEMMA PlacesExist ==
  ASSUME NEW p, NEW s, Len(p) \in Nat
  PROVE  \E f : IsPlaces(f, p, s, 1)
<1> DEFINE l == Len(p) + 1
           Good == {n \in Nat : n < l => \E f : IsPlaces(f, p, s, l - n)}
<1>1. 0 \in Good
  <2> DEFINE f == [i \in l .. l |-> {Len(s) + 1}]
  <2>1. l - 0 = l /\ \A i \in l .. l : i = Len(p) + 1
    OBVIOUS
  <2>2. \A g : \A i \in l .. l : PlacesFrom(g, p, s, i) = {Len(s) + 1}
    BY <2>1, Zenon DEF PlacesFrom
  <2>3. IsPlaces(f, p, s, l)
    BY <2>2 DEF IsPlaces
  <2> QED
    BY <2>1, <2>3
<1>2. ASSUME NEW n \in Nat, n + 1 < l, NEW e, IsPlaces(e, p, s, l - n)
      PROVE  \E f : IsPlaces(f, p, s, l - (n + 1))
  <2> DEFINE b == l - (n + 1)
             g == [i \in b .. l |-> IF i = b THEN PlacesFrom(e, p, s, b) ELSE e[i]]
             h == [i \in b .. l |-> PlacesFrom(g, p, s, i)]
  <2>1. b \in 1 .. Len(p) /\ l - n = b + 1 /\ l \in Nat /\ l = Len(p) + 1
    BY <1>2
  <2> HIDE DEF b
  <2>2. e = [i \in b + 1 .. l |-> PlacesFrom(e, p, s, i)]
    BY <1>2, <2>1 DEF IsPlaces
  <2>3. ASSUME NEW k \in b + 1 .. l PROVE g[k] = e[k] /\ e[k] = PlacesFrom(e, p, s, k)
    <3>1. k \in b .. l /\ k # b
      BY <2>1
    <3>2. g[k] = e[k]
      BY <3>1
    <3>3. e[k] = PlacesFrom(e, p, s, k)
      BY <2>2, Zenon
    <3> QED
      BY <3>2, <3>3
  <2>4. g[b] = PlacesFrom(e, p, s, b)
    BY <2>1
  <2> HIDE DEF l
  <2>5. ASSUME NEW i \in b .. l PROVE PlacesFrom(g, p, s, i) = PlacesFrom(e, p, s, i)
    <3>1. CASE i = l
      BY <2>1, <3>1 DEF PlacesFrom
    <3>2. CASE i # l
      <4> DEFINE k == IF p[i] = "*" THEN GL!AfterStars(p, i) ELSE i + 1
      <4>1. i \in 1 .. Len(p) /\ i # Len(p) + 1
        BY <2>1, <3>2
      <4>2. k \in i + 1 .. Len(p) + 1
        BY <2>1, <4>1, StarsEnd
      <4>3. k \in b + 1 .. l
        BY <2>1, <4>1, <4>2
      <4>4. g[k] = e[k]
        BY <2>3, <4>3
      <4> HIDE DEF g
      <4>5. g[IF p[i] = "*" THEN GL!AfterStars(p, i) ELSE i + 1]
              = e[IF p[i] = "*" THEN GL!AfterStars(p, i) ELSE i + 1]
        BY <4>4
      <4> QED
        BY <4>5, Zenon DEF PlacesFrom
    <3> QED
      BY <3>1, <3>2
  <2>6. ASSUME NEW i \in b .. l PROVE g[i] = PlacesFrom(g, p, s, i)
    <3>1. CASE i = b
      <4> HIDE DEF g
      <4> QED
        BY <2>4, <2>5, <3>1
    <3>2. CASE i # b
      <4>1. i \in b + 1 .. l
        BY <2>1, <3>2
      <4> HIDE DEF g
      <4> QED
        BY <2>3, <2>5, <4>1
    <3> QED
      BY <3>1, <3>2
  <2>7. g = [i \in b .. l |-> g[i]]
    OBVIOUS
  <2> HIDE DEF g
  <2>8. g = [i \in b .. l |-> PlacesFrom(g, p, s, i)]
    BY <2>6, <2>7
  <2>9. IsPlaces(g, p, s, b)
    BY <2>1, <2>8 DEF IsPlaces
  <2> QED
    BY <2>9 DEF b
<1>3. Nat \subseteq Good
  <2>1. \A n \in Nat : n \in Good => n + 1 \in Good
    <3>1. ASSUME NEW n \in Nat, n \in Good, n + 1 < l
          PROVE  \E f : IsPlaces(f, p, s, l - (n + 1))
      <4>1. n < l
        BY <3>1
      <4>2. PICK e : IsPlaces(e, p, s, l - n)
        BY <3>1, <4>1
      <4> QED
        BY <1>2, <3>1, <4>2
    <3> HIDE DEF l
    <3>2. \A n \in Nat : n + 1 \in Nat
      OBVIOUS
    <3> QED
      BY <3>1, <3>2
  <2> HIDE DEF Good
  <2> QED
    BY <1>1, <2>1, NatSetInduction
<1>4. l - Len(p) = 1 /\ Len(p) < l
  OBVIOUS
<1>5. Len(p) \in Good
  BY <1>3
<1> QED
  BY <1>4, <1>5

\* globMatch asks whether the first place is one from which all matches.
LEMMA MatchIs ==
  ASSUME NEW p, NEW s, Len(p) \in Nat
  PROVE  \E f : IsPlaces(f, p, s, 1) /\ GL!globMatch(p, s) = (1 \in f[1])
<1> DEFINE f == CHOOSE g : IsPlaces(g, p, s, 1)
<1>1. IsPlaces(f, p, s, 1)
  BY PlacesExist
<1>2. GL!globMatch(p, s) = (1 \in f[1])
  BY DEF GL!globMatch, IsPlaces, PlacesFrom, GL!AfterStars
<1> QED
  BY <1>1, <1>2

\* Where the stars end, for one and for more.
LEMMA NextStar ==
  ASSUME NEW p, Len(p) \in Nat, NEW i \in 1 .. Len(p), p[i] = "*"
  PROVE  GL!AfterStars(p, i) = IF i < Len(p) /\ p[i + 1] = "*" THEN GL!AfterStars(p, i + 1) ELSE i + 1
<1> DEFINE Ends(b, k) == (\A m \in b .. k - 1 : p[m] = "*") /\ (k <= Len(p) => p[k] # "*")
           l == Len(p) + 1
<1>1. CASE i < Len(p) /\ p[i + 1] = "*"
  <2>1. \A k : k \in i .. l /\ Ends(i, k) <=> k \in i + 1 .. l /\ Ends(i + 1, k)
    <3> SUFFICES ASSUME NEW k PROVE k \in i .. l /\ Ends(i, k) <=> k \in i + 1 .. l /\ Ends(i + 1, k)
      OBVIOUS
    <3>1. ASSUME k \in i .. l, Ends(i, k) PROVE k \in i + 1 .. l /\ Ends(i + 1, k)
      <4>1. k # i
        BY <3>1
      <4> QED
        BY <3>1, <4>1
    <3>2. ASSUME k \in i + 1 .. l, Ends(i + 1, k) PROVE k \in i .. l /\ Ends(i, k)
      <4>1. \A m \in i .. k - 1 : m = i \/ m \in i + 1 .. k - 1
        BY <3>2
      <4> QED
        BY <3>2, <4>1
    <3> QED
      BY <3>1, <3>2
  <2>2. /\ GL!AfterStars(p, i) = CHOOSE k : k \in i .. l /\ Ends(i, k)
        /\ GL!AfterStars(p, i + 1) = CHOOSE k : k \in i + 1 .. l /\ Ends(i + 1, k)
    BY DEF GL!AfterStars
  <2> HIDE DEF Ends, l
  <2>3. (CHOOSE k : k \in i .. l /\ Ends(i, k)) = (CHOOSE k : k \in i + 1 .. l /\ Ends(i + 1, k))
    BY <2>1
  <2> QED
    BY <1>1, <2>2, <2>3
<1>2. CASE ~ (i < Len(p) /\ p[i + 1] = "*")
  <2>1. i + 1 \in i .. l /\ Ends(i, i + 1)
    <3>1. \A m \in i .. (i + 1) - 1 : m = i
      OBVIOUS
    <3>2. i + 1 <= Len(p) => i < Len(p)
      OBVIOUS
    <3> QED
      BY <1>2, <3>1, <3>2
  <2>2. ASSUME NEW k \in i .. l, Ends(i, k) PROVE k = i + 1
    <3>1. k # i
      BY <2>2
    <3>2. ~ (i + 1 < k)
      <4> SUFFICES ASSUME i + 1 < k PROVE FALSE
        OBVIOUS
      <4>1. i + 1 \in i .. k - 1 /\ i < Len(p)
        BY <2>2
      <4> QED
        BY <1>2, <2>2, <4>1
    <3> QED
      BY <3>1, <3>2
  <2>3. GL!AfterStars(p, i) = CHOOSE k \in i .. l : Ends(i, k)
    BY DEF GL!AfterStars
  <2> HIDE DEF Ends, l
  <2>4. GL!AfterStars(p, i) = i + 1
    BY <2>1, <2>2, <2>3
  <2> QED
    BY <1>2, <2>4
<1> QED
  BY <1>1, <1>2

\* The places, star by star: a run of stars is as good as one.
Steps(f, p, s) ==
  /\ f[Len(p) + 1] = {Len(s) + 1}
  /\ \A i \in 1 .. Len(p) :
       f[i] = IF p[i] = "*" THEN {j \in 1 .. Len(s) + 1 : \E k \in f[i + 1] : j <= k}
              ELSE {j \in 1 .. Len(s) : p[i] \in {"?", s[j]} /\ j + 1 \in f[i + 1]}

LEMMA PlacesStep ==
  ASSUME NEW p, NEW s, Len(p) \in Nat, Len(s) \in Nat, NEW f, IsPlaces(f, p, s, 1)
  PROVE  Steps(f, p, s)
<1> DEFINE l == Len(p) + 1
           e == Len(s) + 1
<1>1. \A i \in 1 .. l : f[i] = PlacesFrom(f, p, s, i)
  BY DEF IsPlaces
<1>2. f[l] = {e}
  <2>1. l \in 1 .. l
    OBVIOUS
  <2>2. PlacesFrom(f, p, s, l) = {e}
    BY Zenon DEF PlacesFrom
  <2> QED
    BY <1>1, <2>1, <2>2
<1>3. ASSUME NEW i \in 1 .. Len(p), p[i] # "*"
      PROVE  f[i] = {j \in 1 .. Len(s) : p[i] \in {"?", s[j]} /\ j + 1 \in f[i + 1]}
  <2>1. i \in 1 .. l /\ i # Len(p) + 1
    OBVIOUS
  <2>2. PlacesFrom(f, p, s, i) = {j \in 1 .. Len(s) : p[i] \in {"?", s[j]} /\ j + 1 \in f[i + 1]}
    BY <1>3, <2>1 DEF PlacesFrom
  <2> QED
    BY <1>1, <2>1, <2>2
<1> DEFINE Down(i) == {j \in 1 .. e : GL!AfterStars(p, i) = l \/ \E k \in f[GL!AfterStars(p, i)] : j <= k}
<1>4. ASSUME NEW i \in 1 .. Len(p), p[i] = "*"
      PROVE  f[i] = Down(i)
  <2>1. i \in 1 .. l /\ i # Len(p) + 1
    OBVIOUS
  <2>2. PlacesFrom(f, p, s, i) = Down(i)
    BY <1>4, <2>1 DEF PlacesFrom
  <2> QED
    BY <1>1, <2>1, <2>2
<1>5. ASSUME NEW n \in 1 .. l, NEW m \in f[n] PROVE m \in 1 .. e
  <2>1. CASE n = l
    BY <1>2, <2>1
  <2>2. CASE n # l
    <3>1. n \in 1 .. Len(p)
      BY <2>2
    <3>2. CASE p[n] = "*"
      BY <1>4, <3>1, <3>2
    <3>3. CASE p[n] # "*"
      BY <1>3, <3>1, <3>3
    <3> QED
      BY <3>2, <3>3
  <2> QED
    BY <2>1, <2>2
<1>6. ASSUME NEW i \in 1 .. Len(p), p[i] = "*"
      PROVE  f[i] = {j \in 1 .. e : \E k \in f[i + 1] : j <= k}
  <2>1. CASE i < Len(p) /\ p[i + 1] = "*"
    <3>1. GL!AfterStars(p, i) = GL!AfterStars(p, i + 1) /\ i + 1 \in 1 .. Len(p)
      BY <1>6, <2>1, NextStar
    <3>2. f[i] = Down(i) /\ f[i + 1] = Down(i)
      BY <1>4, <1>6, <2>1, <3>1
    <3>3. ASSUME NEW j \in 1 .. e PROVE j \in Down(i) <=> \E k \in Down(i) : j <= k
      <4>1. ASSUME NEW k \in Down(i), j <= k PROVE j \in Down(i)
        <5>1. CASE GL!AfterStars(p, i) = l
          BY <5>1
        <5>2. CASE GL!AfterStars(p, i) # l
          <6>1. PICK m \in f[GL!AfterStars(p, i)] : k <= m
            BY <5>2
          <6>2. GL!AfterStars(p, i) \in 1 .. l
            BY <1>6, StarsEnd
          <6>3. m \in 1 .. e
            BY <1>5, <6>1, <6>2
          <6>4. j <= m
            BY <4>1, <6>1, <6>3
          <6> QED
            BY <6>1, <6>4
        <5> QED
          BY <5>1, <5>2
      <4> QED
        BY <4>1
    <3>4. Down(i) = {j \in 1 .. e : \E k \in Down(i) : j <= k}
      BY <3>3
    <3> QED
      BY <3>2, <3>4
  <2>2. CASE ~ (i < Len(p) /\ p[i + 1] = "*")
    <3>1. GL!AfterStars(p, i) = i + 1
      BY <1>6, <2>2, NextStar
    <3>2. f[i] = {j \in 1 .. e : i + 1 = l \/ \E k \in f[i + 1] : j <= k}
      BY <1>4, <1>6, <3>1
    <3>3. i + 1 = l => \A j \in 1 .. e : \E k \in f[i + 1] : j <= k
      BY <1>2
    <3> QED
      BY <3>2, <3>3
  <2> QED
    BY <2>1, <2>2
<1> QED
  BY <1>2, <1>3, <1>6 DEF Steps

-----------------------------------------------------------------------------
\* What the symbols of u take, and the place where the n-th one begins.
Parts(u) == [n \in DOMAIN u |-> IF u[n] \in GL!Wild THEN <<u[n]>> ELSE Encoding[u[n]]]
Begin(u, n) == Before(Parts(u), n - 1) + 1

PatternSymbols == GL!Chars \cup GL!Wild
Coded   == GL!Octets \cup GL!Wild

\* Each symbol takes at least one byte.
LEMMA PartsAre ==
  ASSUME GL!EncodingAssumption, NEW u \in Seq(PatternSymbols)
  PROVE  /\ Parts(u) \in Seq(Seq(Coded)) /\ Len(Parts(u)) = Len(u)
         /\ \A n \in 1 .. Len(u) : Parts(u)[n] \in Seq(Coded) /\ Parts(u)[n] # << >>
<1>1. DOMAIN u = 1 .. Len(u) /\ Len(u) \in Nat /\ \A n \in 1 .. Len(u) : u[n] \in PatternSymbols
  OBVIOUS
<1> DEFINE E == Seq(Coded)
<1>2. ASSUME NEW c \in PatternSymbols PROVE (IF c \in GL!Wild THEN <<c>> ELSE Encoding[c]) \in E \ {<< >>}
  <2>1. CASE c \in GL!Wild
    <3>1. <<c>> \in Seq(Coded) /\ <<c>> # << >>
      BY <2>1 DEF Coded
    <3> QED
      BY <2>1, <3>1
  <2>2. CASE c \notin GL!Wild
    <3>1. c \in GL!Chars
      BY <2>2 DEF PatternSymbols
    <3>2. Encoding[c] \in Seq(GL!Octets) /\ Encoding[c] # << >>
      BY <3>1 DEF GL!EncodingAssumption
    <3> DEFINE b == Encoding[c]
               A == GL!Octets
    <3>3. A \subseteq Coded /\ b \in Seq(A)
      BY <3>2 DEF Coded
    <3> HIDE DEF b, A
    <3>4. b \in Seq(Coded)
      BY <3>3
    <3> QED
      BY <2>2, <3>2, <3>4 DEF b
  <2> QED
    BY <2>1, <2>2
<1> HIDE DEF E
<1>3. Parts(u) = [n \in 1 .. Len(u) |-> IF u[n] \in GL!Wild THEN <<u[n]>> ELSE Encoding[u[n]]]
  BY <1>1, Zenon DEF Parts
<1>4. \A n \in 1 .. Len(u) : Parts(u)[n] \in E \ {<< >>}
  BY <1>1, <1>2, <1>3
<1> DEFINE v == Parts(u)
           l == Len(u)
<1>5. DOMAIN v = 1 .. l /\ v = [n \in 1 .. l |-> v[n]] /\ l \in Nat /\ \A n \in 1 .. l : v[n] \in E
  BY <1>1, <1>3, <1>4
<1> HIDE DEF v, l
<1>6. v \in Seq(E) /\ Len(v) = l
  <2>1. v \in [1 .. l -> E]
    BY <1>5
  <2> QED
    BY <1>5, <2>1
<1> QED
  BY <1>4, <1>6 DEF v, l, E

\* The symbols lie one after another, and nothing else is there.
LEMMA Encoded ==
  ASSUME GL!EncodingAssumption, NEW u \in Seq(PatternSymbols)
  PROVE  /\ Len(GL!Encode(u)) \in Nat
         /\ Begin(u, 1) = 1 /\ Begin(u, Len(u) + 1) = Len(GL!Encode(u)) + 1
         /\ \A n \in 1 .. Len(u) :
              /\ Begin(u, n) \in Nat \ {0} /\ Len(Parts(u)[n]) \in Nat \ {0}
              /\ Begin(u, n + 1) = Begin(u, n) + Len(Parts(u)[n])
              /\ \A k \in 1 .. Len(Parts(u)[n]) :
                   /\ Begin(u, n) + k - 1 \in 1 .. Len(GL!Encode(u))
                   /\ GL!Encode(u)[Begin(u, n) + k - 1] = Parts(u)[n][k]
         /\ \A j \in 1 .. Len(GL!Encode(u)) :
              \E n \in 1 .. Len(u) : \E k \in 1 .. Len(Parts(u)[n]) : j = Begin(u, n) + k - 1
<1> DEFINE v == Parts(u)
           l == Len(u)
           f == FlattenSeq(v)
<1>1. v \in Seq(Seq(Coded)) /\ Len(v) = l /\ l \in Nat /\ \A n \in 1 .. l : v[n] \in Seq(Coded) /\ v[n] # << >>
  <2>1. Len(u) \in Nat
    OBVIOUS
  <2> QED
    BY <2>1, PartsAre, Zenon
<1>2. GL!Encode(u) = f
  BY SameJoin, Zenon DEF GL!Encode, Parts
<1>3. \A n : Begin(u, n) = Before(v, n - 1) + 1
  BY DEF Begin
<1> HIDE DEF v, l
<1>4. f \in Seq(Coded)
  BY <1>1, FlatType
<1> HIDE DEF f
<1>5. /\ Before(v, 0) = 0 /\ Before(v, l) = Len(f)
      /\ \A n \in 1 .. l : \A k \in 1 .. Len(v[n]) :
           Before(v, n - 1) + k \in 1 .. Len(f) /\ f[Before(v, n - 1) + k] = v[n][k]
      /\ \A j \in 1 .. Len(f) :
           \E n \in 1 .. l : \E k \in 1 .. Len(v[n]) : j = Before(v, n - 1) + k
  BY <1>1, FlatPlaces, Zenon DEF f
<1>6. ASSUME NEW n \in 1 .. l
      PROVE  /\ Before(v, n - 1) \in Nat /\ Len(v[n]) \in Nat \ {0}
             /\ Before(v, n) = Before(v, n - 1) + Len(v[n])
  <2>1. n - 1 \in Nat /\ (n - 1) + 1 = n /\ (n - 1) + 1 <= Len(v)
    BY <1>1
  <2>2. Before(v, n - 1) \in Nat /\ Before(v, n) = Before(v, n - 1) + Len(v[n])
    BY <1>1, <2>1, BeforeNext
  <2>3. \A b \in Seq(Coded) : b # << >> => Len(b) \in Nat \ {0}
    OBVIOUS
  <2> QED
    BY <1>1, <2>2, <2>3
<1>7. Begin(u, 1) = 1 /\ Begin(u, l + 1) = Len(f) + 1 /\ Len(f) \in Nat
  <2>1. 1 - 1 = 0 /\ (l + 1) - 1 = l /\ 0 + 1 = 1
    BY <1>1
  <2> QED
    BY <1>3, <1>4, <1>5, <2>1
<1>8. ASSUME NEW n \in 1 .. l
      PROVE  /\ Begin(u, n) \in Nat \ {0} /\ Begin(u, n + 1) = Begin(u, n) + Len(v[n])
             /\ \A k \in 1 .. Len(v[n]) : Begin(u, n) + k - 1 = Before(v, n - 1) + k
  <2>1. (n + 1) - 1 = n
    BY <1>1
  <2>2. Begin(u, n + 1) = Before(v, n) + 1 /\ Begin(u, n) = Before(v, n - 1) + 1
    BY <1>3, <2>1
  <2> DEFINE b == Before(v, n - 1)
             d == Len(v[n])
             g == Begin(u, n)
  <2>3. b \in Nat /\ d \in Nat /\ Before(v, n) = b + d /\ g = b + 1 /\ Begin(u, n + 1) = Before(v, n) + 1
    BY <1>6, <2>2
  <2> HIDE DEF b, d, g
  <2>4. g \in Nat \ {0} /\ Begin(u, n + 1) = g + d /\ \A k \in 1 .. d : g + k - 1 = b + k
    BY <2>3
  <2> QED
    BY <2>4 DEF b, d, g
<1>9. ASSUME NEW n \in 1 .. l, NEW k \in 1 .. Len(v[n])
      PROVE  Begin(u, n) + k - 1 \in 1 .. Len(f) /\ f[Begin(u, n) + k - 1] = v[n][k]
  BY <1>5, <1>8
<1>10. ASSUME NEW j \in 1 .. Len(f)
       PROVE  \E n \in 1 .. l : \E k \in 1 .. Len(v[n]) : j = Begin(u, n) + k - 1
  <2>1. PICK n \in 1 .. l : \E k \in 1 .. Len(v[n]) : j = Before(v, n - 1) + k
    BY <1>5
  <2>2. PICK k \in 1 .. Len(v[n]) : j = Before(v, n - 1) + k
    BY <2>1
  <2>3. Begin(u, n) + k - 1 = Before(v, n - 1) + k
    BY <1>8
  <2> QED
    BY <2>2, <2>3
<1> QED
  BY <1>2, <1>6, <1>7, <1>8, <1>9, <1>10 DEF v, l

\* A later symbol begins later.
LEMMA Rising ==
  ASSUME GL!EncodingAssumption, NEW u \in Seq(PatternSymbols),
         NEW n \in 1 .. Len(u) + 1, NEW m \in 1 .. Len(u) + 1
  PROVE  /\ Begin(u, n) \in Nat \ {0}
         /\ n < m => Begin(u, n) < Begin(u, m)
<1> DEFINE l == Len(u)
           b(i) == Begin(u, i)
<1>1. l \in Nat /\ \A i \in 1 .. l : b(i) \in Nat \ {0} /\ b(i + 1) \in Nat \ {0} /\ b(i) < b(i + 1)
  <2>1. ASSUME NEW i \in 1 .. l
        PROVE  b(i) \in Nat \ {0} /\ b(i + 1) \in Nat \ {0} /\ b(i) < b(i + 1)
    <3> DEFINE d == Len(Parts(u)[i])
    <3>1. b(i) \in Nat \ {0} /\ d \in Nat \ {0} /\ b(i + 1) = b(i) + d
      BY Encoded
    <3> HIDE DEF b, d
    <3> QED
      BY <3>1
  <2> QED
    BY <2>1
<1>2. b(1) \in Nat \ {0}
  BY Encoded
<1> DEFINE Good == {d \in Nat : \A i \in 1 .. l + 1 : i + d + 1 <= l + 1 => b(i) < b(i + d + 1)}
<1> HIDE DEF b, l
<1>3. \A i \in 1 .. l + 1 : b(i) \in Nat \ {0}
  <2> SUFFICES ASSUME NEW i \in 1 .. l + 1 PROVE b(i) \in Nat \ {0}
    OBVIOUS
  <2>1. CASE i = 1
    BY <1>2, <2>1
  <2>2. CASE i # 1
    <3>1. i - 1 \in 1 .. l /\ (i - 1) + 1 = i
      BY <1>1, <2>2
    <3> QED
      BY <1>1, <3>1
  <2> QED
    BY <2>1, <2>2
<1>4. 0 \in Good
  <2>1. \A i \in 1 .. l + 1 : i + 0 + 1 = i + 1 /\ (i + 1 <= l + 1 => i \in 1 .. l)
    BY <1>1
  <2> QED
    BY <1>1, <2>1
<1>5. ASSUME NEW d \in Nat, d \in Good PROVE d + 1 \in Good
  <2> SUFFICES ASSUME NEW i \in 1 .. l + 1, i + (d + 1) + 1 <= l + 1
               PROVE  b(i) < b(i + (d + 1) + 1)
    OBVIOUS
  <2> DEFINE k == i + d + 1
  <2>1. k \in 1 .. l /\ k + 1 = i + (d + 1) + 1 /\ k <= l + 1 /\ k + 1 \in 1 .. l + 1
    BY <1>1
  <2>2. b(i) < b(k)
    BY <1>5, <2>1
  <2> HIDE DEF k
  <2>3. b(k) < b(k + 1) /\ b(i) \in Nat /\ b(k) \in Nat /\ b(k + 1) \in Nat
    BY <1>1, <1>3, <2>1
  <2>4. b(i) < b(k + 1)
    BY <2>2, <2>3
  <2> QED
    BY <2>1, <2>4
<1>6. Nat \subseteq Good
  <2> HIDE DEF Good
  <2> QED
    BY <1>4, <1>5, NatSetInduction
<1>7. ASSUME n < m PROVE b(n) < b(m)
  <2> DEFINE d == m - n - 1
  <2>1. d \in Nat /\ n + d + 1 = m /\ n \in 1 .. l + 1 /\ m <= l + 1
    BY <1>1, <1>7 DEF l
  <2> HIDE DEF d
  <2>2. d \in Good
    BY <1>6, <2>1
  <2> QED
    BY <2>1, <2>2
<1>8. b(n) \in Nat \ {0}
  BY <1>3 DEF l
<1> QED
  BY <1>7, <1>8 DEF b

\* The bytes of the n-th character of a name.
LEMMA NameAt ==
  ASSUME GL!EncodingAssumption, NEW u \in Seq(GL!Chars)
  PROVE  /\ u \in Seq(PatternSymbols)
         /\ \A n \in 1 .. Len(u) : u[n] \in GL!Chars /\ Parts(u)[n] = Encoding[u[n]]
<1>1. GL!Chars \subseteq PatternSymbols /\ DOMAIN u = 1 .. Len(u)
  BY DEF PatternSymbols
<1>2. u \in Seq(PatternSymbols)
  <2> DEFINE A == GL!Chars
  <2> HIDE DEF A
  <2>1. u \in Seq(A) /\ A \subseteq PatternSymbols
    BY <1>1 DEF A
  <2> QED
    BY <2>1
<1>3. \A n \in 1 .. Len(u) : u[n] \in GL!Chars
  OBVIOUS
<1>4. \A n \in 1 .. Len(u) : u[n] \notin GL!Wild
  BY <1>3 DEF GL!EncodingAssumption
<1>5. \A n \in 1 .. Len(u) : Parts(u)[n] = Encoding[u[n]]
  BY <1>1, <1>4 DEF Parts
<1> QED
  BY <1>2, <1>3, <1>5

\* A byte that begins a character is where one begins.
LEMMA Leads ==
  ASSUME GL!EncodingAssumption, NEW u \in Seq(GL!Chars), NEW c \in GL!Chars,
         NEW j \in 1 .. Len(GL!Encode(u)), GL!Encode(u)[j] = Encoding[c][1]
  PROVE  \E n \in 1 .. Len(u) : j = Begin(u, n)
<1>1. u \in Seq(PatternSymbols) /\ \A n \in 1 .. Len(u) : u[n] \in GL!Chars /\ Parts(u)[n] = Encoding[u[n]]
  BY NameAt
<1>2. PICK n \in 1 .. Len(u) : \E k \in 1 .. Len(Parts(u)[n]) : j = Begin(u, n) + k - 1
  BY <1>1, Encoded
<1>3. PICK k \in 1 .. Len(Parts(u)[n]) : j = Begin(u, n) + k - 1
  BY <1>2
<1>4. GL!Encode(u)[j] = Parts(u)[n][k] /\ Begin(u, n) \in Nat
  BY <1>1, <1>3, Encoded
<1> DEFINE d == u[n]
<1>5. d \in GL!Chars /\ Parts(u)[n] = Encoding[d]
  BY <1>1
<1> HIDE DEF d
<1>6. Encoding[d] \in Seq(GL!Octets)
  BY <1>5 DEF GL!EncodingAssumption
<1>7. k \in DOMAIN Encoding[d]
  BY <1>5, <1>6
<1>8. k = 1
  BY <1>4, <1>5, <1>7 DEF GL!EncodingAssumption
<1>9. j = Begin(u, n)
  BY <1>3, <1>4, <1>8
<1> QED
  BY <1>9

-----------------------------------------------------------------------------
\* The h bytes of the pattern from a on are no wildcards; those of the subject
\* from b on are the same.
NoWild(p, a, h)     == \A i \in 1 .. h : p[a + i - 1] \notin GL!Wild
Same(p, s, a, b, h) == \A i \in 1 .. h : b + i - 1 <= Len(s) /\ p[a + i - 1] = s[b + i - 1]

\* Bytes of the pattern without a wildcard meet the same bytes.
LEMMA RunMeets ==
  ASSUME NEW f, NEW p, NEW s, Len(p) \in Nat, Len(s) \in Nat, Steps(f, p, s),
         NEW a \in Nat \ {0}, NEW b \in Nat \ {0}, NEW h \in Nat, a + h <= Len(p) + 1,
         NoWild(p, a, h)
  PROVE  b \in f[a] <=> b + h \in f[a + h] /\ Same(p, s, a, b, h)
<1> DEFINE Meets(i) == b + i - 1 <= Len(s) /\ p[a + i - 1] = s[b + i - 1]
           Good == {d \in Nat : d <= h => (b \in f[a] <=> b + d \in f[a + d] /\ \A i \in 1 .. d : Meets(i))}
<1>1. 0 \in Good
  <2>1. b + 0 = b /\ a + 0 = a /\ \A i : ~ (i \in 1 .. 0)
    OBVIOUS
  <2> HIDE DEF Meets
  <2> QED
    BY <2>1
<1>2. ASSUME NEW d \in Nat, d + 1 <= h
      PROVE  b + d \in f[a + d] <=> b + (d + 1) \in f[a + (d + 1)] /\ Meets(d + 1)
  <2> DEFINE i == a + d
             j == b + d
  <2>1. /\ i \in 1 .. Len(p) /\ j \in Nat \ {0} /\ p[i] # "*" /\ p[i] # "?"
        /\ a + (d + 1) = i + 1 /\ b + (d + 1) = j + 1
        /\ a + (d + 1) - 1 = i /\ b + (d + 1) - 1 = j
    <3>1. d + 1 \in 1 .. h /\ a + (d + 1) - 1 = i
      BY <1>2
    <3>2. p[i] # "*" /\ p[i] # "?"
      BY <3>1 DEF NoWild, GL!Wild
    <3> QED
      BY <1>2, <3>2
  <2>2. Meets(d + 1) <=> j <= Len(s) /\ p[i] = s[j]
    BY <2>1
  <2> HIDE DEF i, j, Meets
  <2>3. f[i] = {k \in 1 .. Len(s) : p[i] = s[k] /\ k + 1 \in f[i + 1]}
    BY <2>1 DEF Steps
  <2>6. j \in 1 .. Len(s) <=> j <= Len(s)
    BY <2>1
  <2>4. j \in f[i] <=> j + 1 \in f[i + 1] /\ j <= Len(s) /\ p[i] = s[j]
    BY <2>3, <2>6, Zenon
  <2>5. b + d = j /\ a + d = i
    BY DEF i, j
  <2> QED
    BY <2>1, <2>2, <2>4, <2>5
<1>3. ASSUME NEW d \in Nat, d \in Good PROVE d + 1 \in Good
  <2> SUFFICES ASSUME d + 1 <= h
               PROVE  b \in f[a] <=> b + (d + 1) \in f[a + (d + 1)] /\ \A i \in 1 .. d + 1 : Meets(i)
    OBVIOUS
  <2>1. d <= h
    OBVIOUS
  <2> HIDE DEF Meets
  <2>2. b \in f[a] <=> b + d \in f[a + d] /\ \A i \in 1 .. d : Meets(i)
    BY <1>3, <2>1
  <2>3. (\A i \in 1 .. d + 1 : Meets(i)) <=> Meets(d + 1) /\ \A i \in 1 .. d : Meets(i)
    <3>1. \A i : i \in 1 .. d + 1 <=> i = d + 1 \/ i \in 1 .. d
      OBVIOUS
    <3> QED
      BY <3>1, Zenon
  <2> QED
    BY <1>2, <2>2, <2>3
<1>4. Nat \subseteq Good
  <2> HIDE DEF Good
  <2> QED
    BY <1>1, <1>3, NatSetInduction
<1>5. h \in Good
  <2> HIDE DEF Good
  <2> QED
    BY <1>4
<1>6. h <= h
  OBVIOUS
<1> HIDE DEF Meets
<1>7. b \in f[a] <=> b + h \in f[a + h] /\ \A i \in 1 .. h : Meets(i)
  BY <1>5, <1>6
<1> QED
  BY <1>7 DEF Meets, Same

\* What is left of the pattern after n means what is left of the subject after j.
Rest(p, s, n, j) ==
  \E cut \in [n .. Len(p) -> 0 .. Len(s)] :
    /\ cut[n] = j /\ cut[Len(p)] = Len(s)
    /\ \A i \in n + 1 .. Len(p) :
         cut[i - 1] <= cut[i] /\ GL!Fits(p[i], SubSeq(s, cut[i - 1] + 1, cut[i]))

LEMMA RestEnd ==
  ASSUME NEW p, NEW s, Len(p) \in Nat, Len(s) \in Nat, NEW j
  PROVE  Rest(p, s, Len(p), j) <=> j = Len(s)
<1> DEFINE l == Len(p)
           e == Len(s)
<1>1. l \in l .. l /\ e \in 0 .. e /\ \A i : ~ (i \in l + 1 .. l)
  OBVIOUS
<1>2. ASSUME Rest(p, s, l, j) PROVE j = e
  <2>1. \E cut \in [l .. l -> 0 .. e] : cut[l] = j /\ cut[l] = e
    BY <1>2, Zenon DEF Rest
  <2> QED
    BY <2>1
<1>3. ASSUME j = e PROVE Rest(p, s, l, j)
  <2> DEFINE cut == [i \in l .. l |-> e]
  <2>1. cut \in [l .. l -> 0 .. e] /\ cut[l] = e /\ cut[l] = j
    BY <1>1, <1>3
  <2> HIDE DEF cut
  <2> QED
    BY <1>1, <2>1, Zenon DEF Rest
<1> QED
  BY <1>2, <1>3

LEMMA RestNext ==
  ASSUME NEW p, NEW s, Len(p) \in Nat, Len(s) \in Nat,
         NEW n \in Nat, n < Len(p), NEW j \in 0 .. Len(s)
  PROVE  Rest(p, s, n, j) <=>
           \E k \in j .. Len(s) : GL!Fits(p[n + 1], SubSeq(s, j + 1, k)) /\ Rest(p, s, n + 1, k)
<1> DEFINE l == Len(p)
           e == Len(s)
           Ok(i, x, y) == x <= y /\ GL!Fits(p[i], SubSeq(s, x + 1, y))
<1>0. \A m, k : Rest(p, s, m, k) <=>
        \E cut \in [m .. l -> 0 .. e] :
          cut[m] = k /\ cut[l] = e /\ \A i \in m + 1 .. l : Ok(i, cut[i - 1], cut[i])
  BY Zenon DEF Rest
<1> HIDE DEF Ok
<1>1. ASSUME Rest(p, s, n, j)
      PROVE  \E k \in j .. e : Ok(n + 1, j, k) /\ Rest(p, s, n + 1, k)
  <2>1. PICK cut \in [n .. l -> 0 .. e] :
          cut[n] = j /\ cut[l] = e /\ \A i \in n + 1 .. l : Ok(i, cut[i - 1], cut[i])
    BY <1>0, <1>1
  <2> DEFINE k == cut[n + 1]
             c == [i \in n + 1 .. l |-> cut[i]]
  <2>2. n + 1 \in n + 1 .. l /\ (n + 1) - 1 = n /\ l \in n + 1 .. l /\ n + 1 \in n .. l
    OBVIOUS
  <2>3. Ok(n + 1, j, k) /\ k \in 0 .. e
    BY <2>1, <2>2
  <2>4. k \in j .. e
    BY <2>3 DEF Ok
  <2>5. c \in [n + 1 .. l -> 0 .. e] /\ c[n + 1] = k /\ c[l] = e
    BY <2>1, <2>2
  <2>6. ASSUME NEW i \in (n + 1) + 1 .. l PROVE Ok(i, c[i - 1], c[i])
    <3>1. i \in n + 1 .. l /\ i - 1 \in n + 1 .. l
      OBVIOUS
    <3>2. c[i] = cut[i] /\ c[i - 1] = cut[i - 1]
      BY <3>1
    <3> HIDE DEF c
    <3> QED
      BY <2>1, <3>1, <3>2
  <2> HIDE DEF c, k
  <2>7. Rest(p, s, n + 1, k)
    BY <1>0, <2>5, <2>6, Zenon
  <2> QED
    BY <2>3, <2>4, <2>7
<1>2. ASSUME NEW k \in j .. e, Ok(n + 1, j, k), Rest(p, s, n + 1, k)
      PROVE  Rest(p, s, n, j)
  <2>1. PICK cut \in [n + 1 .. l -> 0 .. e] :
          cut[n + 1] = k /\ cut[l] = e /\ \A i \in (n + 1) + 1 .. l : Ok(i, cut[i - 1], cut[i])
    BY <1>0, <1>2
  <2> DEFINE c == [i \in n .. l |-> IF i = n THEN j ELSE cut[i]]
  <2>2. c \in [n .. l -> 0 .. e] /\ c[n] = j /\ \A i \in n + 1 .. l : c[i] = cut[i]
    <3>1. \A i \in n .. l : i # n => i \in n + 1 .. l
      OBVIOUS
    <3>2. n \in n .. l /\ \A i \in n + 1 .. l : i \in n .. l /\ i # n
      OBVIOUS
    <3> QED
      BY <2>1, <3>1, <3>2
  <2> HIDE DEF c
  <2>3. n + 1 \in n + 1 .. l /\ l \in n + 1 .. l /\ (n + 1) - 1 = n
    OBVIOUS
  <2>4. ASSUME NEW i \in n + 1 .. l PROVE Ok(i, c[i - 1], c[i])
    <3>1. CASE i = n + 1
      <4>1. i - 1 = n /\ c[i] = k
        BY <2>1, <2>2, <2>3, <3>1
      <4> QED
        BY <1>2, <2>2, <3>1, <4>1
    <3>2. CASE i # n + 1
      <4>1. i \in (n + 1) + 1 .. l /\ i - 1 \in n + 1 .. l
        BY <3>2
      <4> QED
        BY <2>1, <2>2, <4>1
    <3> QED
      BY <3>1, <3>2
  <2>5. c[l] = e
    BY <2>1, <2>2, <2>3
  <2> QED
    BY <1>0, <2>2, <2>4, <2>5, Zenon
<1>3. \A k \in j .. e : Ok(n + 1, j, k) <=> GL!Fits(p[n + 1], SubSeq(s, j + 1, k))
  BY DEF Ok
<1> QED
  BY <1>1, <1>2, <1>3

\* What is left means, when the next symbol is a star or a character.
LEMMA RestStar ==
  ASSUME NEW p, NEW s, Len(p) \in Nat, Len(s) \in Nat,
         NEW n \in Nat, n < Len(p), NEW j \in 0 .. Len(s), p[n + 1] = "*"
  PROVE  Rest(p, s, n, j) <=> \E k \in j .. Len(s) : Rest(p, s, n + 1, k)
BY RestNext DEF GL!Fits

LEMMA RestChar ==
  ASSUME NEW p, NEW s \in Seq(GL!Chars), Len(p) \in Nat,
         NEW n \in Nat, n < Len(p), NEW j \in 0 .. Len(s), p[n + 1] \notin GL!Wild
  PROVE  Rest(p, s, n, j) <=> j < Len(s) /\ s[j + 1] = p[n + 1] /\ Rest(p, s, n + 1, j + 1)
<1> DEFINE c == p[n + 1]
           e == Len(s)
<1>1. e \in Nat /\ \A i \in 1 .. e : s[i] \in GL!Chars
  OBVIOUS
<1>2. c \notin {"*", "?"}
  BY DEF GL!Wild
<1>3. ASSUME NEW k \in j .. e
      PROVE  GL!Fits(c, SubSeq(s, j + 1, k)) <=> k = j + 1 /\ s[k] = c
  <2> DEFINE x == SubSeq(s, j + 1, k)
  <2>1. Len(x) = IF j + 1 <= k THEN k - j ELSE 0
    BY <1>1
  <2>2. k \in Nat /\ j \in Nat
    <3>1. j \in 0 .. e /\ k \in j .. e
      OBVIOUS
    <3> HIDE DEF x, c, e
    <3> QED
      BY <1>1, <3>1
  <2>3. Len(x) = 1 <=> k = j + 1
    <3> HIDE DEF x
    <3> QED
      BY <2>1, <2>2, <1>3
  <2>4. k = j + 1 => x[1] = s[k]
    BY <1>1, <2>2
  <2> HIDE DEF x, c
  <2> QED
    BY <1>2, <2>3, <2>4 DEF GL!Fits
<1> HIDE DEF c
<1>4. Rest(p, s, n, j) <=> \E k \in j .. e : GL!Fits(c, SubSeq(s, j + 1, k)) /\ Rest(p, s, n + 1, k)
  BY <1>1, RestNext, Zenon DEF c
<1>5. j + 1 \in j .. e <=> j < e
  BY <1>1
<1> QED
  BY <1>3, <1>4, <1>5 DEF c

LEMMA RestAny ==
  ASSUME NEW p, NEW s \in Seq(GL!Chars), Len(p) \in Nat,
         NEW n \in Nat, n < Len(p), NEW j \in 0 .. Len(s), p[n + 1] = "?"
  PROVE  Rest(p, s, n, j) <=> j < Len(s) /\ Rest(p, s, n + 1, j + 1)
<1> DEFINE e == Len(s)
<1>1. e \in Nat
  OBVIOUS
<1>2. ASSUME NEW k \in j .. e
      PROVE  GL!Fits("?", SubSeq(s, j + 1, k)) <=> k = j + 1
  <2> DEFINE x == SubSeq(s, j + 1, k)
  <2>1. Len(x) = IF j + 1 <= k THEN k - j ELSE 0
    BY <1>1
  <2>2. k \in Nat /\ j \in Nat
    <3>1. j \in 0 .. e /\ k \in j .. e
      OBVIOUS
    <3> HIDE DEF x, e
    <3> QED
      BY <1>1, <3>1
  <2>3. Len(x) = 1 <=> k = j + 1
    <3> HIDE DEF x
    <3> QED
      BY <2>1, <2>2, <1>2
  <2> HIDE DEF x
  <2>4. GL!Fits("?", x) <=> Len(x) = 1
    BY DEF GL!Fits
  <2> QED
    BY <2>3, <2>4 DEF x
<1>3. Rest(p, s, n, j) <=> \E k \in j .. e : GL!Fits(p[n + 1], SubSeq(s, j + 1, k)) /\ Rest(p, s, n + 1, k)
  BY <1>1, RestNext
<1>4. j + 1 \in j .. e <=> j < e
  BY <1>1
<1> QED
  BY <1>2, <1>3, <1>4

-----------------------------------------------------------------------------
\* All places lie in the subject or right behind it.
LEMMA StepsRange ==
  ASSUME NEW f, NEW p, NEW s, Len(p) \in Nat, Len(s) \in Nat, Steps(f, p, s),
         NEW i \in 1 .. Len(p) + 1, NEW k \in f[i]
  PROVE  k \in 1 .. Len(s) + 1
<1>1. CASE i = Len(p) + 1
  BY <1>1 DEF Steps
<1>2. CASE i # Len(p) + 1
  <2>1. i \in 1 .. Len(p)
    BY <1>2
  <2>2. f[i] = {j \in 1 .. Len(s) + 1 : \E l \in f[i + 1] : j <= l}
        \/ f[i] = {j \in 1 .. Len(s) : p[i] \in {"?", s[j]} /\ j + 1 \in f[i + 1]}
    BY <2>1 DEF Steps
  <2> QED
    BY <2>2
<1> QED
  BY <1>1, <1>2

\* The bytes of a star and of a character in a pattern.
LEMMA SymbolAt ==
  ASSUME GL!EncodingAssumption, NEW u \in Seq(PatternSymbols), NEW n \in 1 .. Len(u)
  PROVE  /\ u[n] \in GL!Wild =>
              /\ GL!Encode(u)[Begin(u, n)] = u[n] /\ Begin(u, n) \in 1 .. Len(GL!Encode(u))
              /\ Begin(u, n + 1) = Begin(u, n) + 1
         /\ u[n] \notin GL!Wild =>
              /\ u[n] \in GL!Chars /\ Len(Encoding[u[n]]) \in Nat \ {0}
              /\ Begin(u, n + 1) = Begin(u, n) + Len(Encoding[u[n]])
              /\ \A k \in 1 .. Len(Encoding[u[n]]) :
                   /\ Begin(u, n) + k - 1 \in 1 .. Len(GL!Encode(u))
                   /\ GL!Encode(u)[Begin(u, n) + k - 1] = Encoding[u[n]][k]
                   /\ Encoding[u[n]][k] \notin GL!Wild
<1>1. n \in DOMAIN u /\ u[n] \in PatternSymbols
  OBVIOUS
<1>2. /\ Begin(u, n) \in Nat \ {0} /\ Len(Parts(u)[n]) \in Nat \ {0}
      /\ Begin(u, n + 1) = Begin(u, n) + Len(Parts(u)[n])
      /\ \A k \in 1 .. Len(Parts(u)[n]) :
           /\ Begin(u, n) + k - 1 \in 1 .. Len(GL!Encode(u))
           /\ GL!Encode(u)[Begin(u, n) + k - 1] = Parts(u)[n][k]
  BY Encoded
<1>3. Parts(u)[n] = IF u[n] \in GL!Wild THEN <<u[n]>> ELSE Encoding[u[n]]
  BY <1>1 DEF Parts
<1>4. CASE u[n] \in GL!Wild
  <2>1. Parts(u)[n] = <<u[n]>>
    BY <1>3, <1>4
  <2>2. Len(Parts(u)[n]) = 1 /\ Parts(u)[n][1] = u[n]
    BY <2>1
  <2>3. Begin(u, n) + 1 - 1 = Begin(u, n) /\ 1 \in 1 .. Len(Parts(u)[n])
    BY <1>2, <2>2
  <2> QED
    BY <1>2, <1>4, <2>2, <2>3
<1>5. CASE u[n] \notin GL!Wild
  <2> DEFINE b == Encoding[u[n]]
  <2>1. u[n] \in GL!Chars
    BY <1>1, <1>5 DEF PatternSymbols
  <2>2. b \in Seq(GL!Octets) /\ GL!Octets \cap GL!Wild = {}
    BY <2>1 DEF GL!EncodingAssumption
  <2> HIDE DEF b
  <2>3. \A k \in 1 .. Len(b) : b[k] \notin GL!Wild
    BY <2>2
  <2>4. Parts(u)[n] = b
    BY <1>3, <1>5 DEF b
  <2> QED
    BY <1>2, <1>5, <2>1, <2>3, <2>4 DEF b
<1> QED
  BY <1>4, <1>5

\* Of characters with one byte each, every byte is where one begins.
LEMMA LeadsEach ==
  ASSUME GL!EncodingAssumption, NEW u \in Seq(GL!Chars),
         \A n \in 1 .. Len(u) : Len(Encoding[u[n]]) = 1,
         NEW j \in 1 .. Len(GL!Encode(u))
  PROVE  \E n \in 1 .. Len(u) : j = Begin(u, n)
<1>1. u \in Seq(PatternSymbols) /\ \A n \in 1 .. Len(u) : Parts(u)[n] = Encoding[u[n]]
  BY NameAt
<1>2. PICK n \in 1 .. Len(u) : \E k \in 1 .. Len(Parts(u)[n]) : j = Begin(u, n) + k - 1
  BY <1>1, Encoded
<1>3. PICK k \in 1 .. Len(Parts(u)[n]) : j = Begin(u, n) + k - 1
  BY <1>2
<1>4. Len(Parts(u)[n]) = 1 /\ Begin(u, n) \in Nat
  BY <1>1, Encoded
<1>5. j = Begin(u, n)
  BY <1>3, <1>4
<1> QED
  BY <1>5

\* There is no "?" in the pattern, or every character of the name has one byte.
ByteWise(p, s) ==
  \/ \A n \in 1 .. Len(p) : p[n] # "?"
  \/ \A n \in 1 .. Len(s) : Len(Encoding[s[n]]) = 1

\* Where a star could end between two characters, it can end before one.
LEMMA BetweenCharacters ==
  ASSUME GL!EncodingAssumption, NEW p \in Seq(PatternSymbols), NEW s \in Seq(GL!Chars),
         ByteWise(p, s),
         NEW f, Steps(f, GL!Encode(p), GL!Encode(s)),
         NEW n \in 1 .. Len(p) + 1, NEW i \in 1 .. Len(s) + 1,
         NEW k \in f[Begin(p, n)], Begin(s, i) <= k
  PROVE  \E m \in i .. Len(s) + 1 : Begin(s, m) \in f[Begin(p, n)]
<1> DEFINE P == GL!Encode(p)
           S == GL!Encode(s)
           a == Begin(p, n)
           b == Begin(s, i)
<1>1. s \in Seq(PatternSymbols) /\ Len(s) \in Nat /\ Len(p) \in Nat
  BY NameAt
<1>2. /\ Len(P) \in Nat /\ Len(S) \in Nat
      /\ Begin(p, Len(p) + 1) = Len(P) + 1 /\ Begin(s, Len(s) + 1) = Len(S) + 1
  BY <1>1, Encoded
<1>3. a \in Nat \ {0} /\ b \in Nat \ {0}
  BY <1>1, Rising
<1>4. a <= Len(P) + 1
  <2>1. CASE n = Len(p) + 1
    BY <1>2, <2>1
  <2>2. CASE n # Len(p) + 1
    <3>1. n < Len(p) + 1 /\ Len(p) + 1 \in 1 .. Len(p) + 1
      BY <1>1, <2>2
    <3>2. a < Begin(p, Len(p) + 1)
      BY <3>1, Rising
    <3> HIDE DEF a, P
    <3> QED
      BY <1>2, <1>3, <3>2
  <2> QED
    BY <2>1, <2>2
<1>5. Steps(f, P, S) /\ k \in f[a] /\ b <= k
  OBVIOUS
<1> HIDE DEF P, S, a, b
<1>6. a \in 1 .. Len(P) + 1
  BY <1>2, <1>3, <1>4
<1>7. k \in 1 .. Len(S) + 1
  BY <1>2, <1>5, <1>6, StepsRange
<1>8. CASE n = Len(p) + 1
  <2>1. f[a] = {Len(S) + 1}
    BY <1>2, <1>5, <1>8 DEF Steps, a
  <2>2. Len(s) + 1 \in i .. Len(s) + 1 /\ Begin(s, Len(s) + 1) \in f[a]
    BY <1>1, <1>2, <2>1
  <2> QED
    BY <2>2 DEF a
<1>0. ASSUME NEW m \in 1 .. Len(s), k = Begin(s, m)
      PROVE  \E x \in i .. Len(s) + 1 : Begin(s, x) \in f[Begin(p, n)]
  <2>1. i <= m
    <3> SUFFICES ASSUME m < i PROVE FALSE
      BY <1>1
    <3>1. m \in 1 .. Len(s) + 1
      BY <1>1
    <3>2. Begin(s, m) < Begin(s, i)
      BY <1>1, <3>1, Rising
    <3> QED
      BY <1>0, <1>3, <1>5, <1>7, <3>2 DEF b
  <2>2. m \in i .. Len(s) + 1
    BY <1>1, <2>1
  <2> QED
    BY <1>0, <1>5, <2>2 DEF a
<1>9. CASE n # Len(p) + 1 /\ p[n] = "*"
  <2>1. n \in 1 .. Len(p)
    BY <1>1, <1>9
  <2>3. P[a] = "*" /\ a \in 1 .. Len(P)
    BY <1>9, <2>1, SymbolAt DEF P, a, GL!Wild
  <2>4. f[a] = {j \in 1 .. Len(S) + 1 : \E l \in f[a + 1] : j <= l}
    BY <1>5, <2>3 DEF Steps
  <2>5. PICK l \in f[a + 1] : k <= l
    BY <1>5, <2>4
  <2>6. a + 1 \in 1 .. Len(P) + 1
    BY <1>2, <2>3
  <2>7. l \in 1 .. Len(S) + 1
    BY <1>2, <1>5, <2>6, StepsRange
  <2>8. b <= l /\ b \in 1 .. Len(S) + 1
    <3>1. k \in Nat /\ l \in Nat /\ l <= Len(S) + 1
      BY <1>2, <1>7, <2>7
    <3>2. b <= l
      BY <1>3, <1>5, <2>5, <3>1
    <3> QED
      BY <1>2, <1>3, <3>1, <3>2
  <2>9. b \in f[a]
    BY <2>4, <2>8
  <2>10. i \in i .. Len(s) + 1
    BY <1>1
  <2> QED
    BY <2>9, <2>10 DEF a, b
<1>10. CASE n # Len(p) + 1 /\ p[n] \notin GL!Wild
  <2> DEFINE c == p[n]
  <2>1. n \in 1 .. Len(p)
    BY <1>1, <1>10
  <2>2. /\ c \in GL!Chars /\ Len(Encoding[c]) \in Nat \ {0}
        /\ \A h \in 1 .. Len(Encoding[c]) :
             a + h - 1 \in 1 .. Len(P) /\ P[a + h - 1] = Encoding[c][h] /\ Encoding[c][h] \notin GL!Wild
    BY <1>10, <2>1, SymbolAt DEF P, a
  <2> HIDE DEF c
  <2>3. 1 \in 1 .. Len(Encoding[c]) /\ a + 1 - 1 = a
    BY <1>3, <2>2
  <2>4. a \in 1 .. Len(P) /\ P[a] = Encoding[c][1] /\ P[a] # "*" /\ P[a] # "?"
    BY <2>2, <2>3 DEF GL!Wild
  <2>5. f[a] = {j \in 1 .. Len(S) : P[a] \in {"?", S[j]} /\ j + 1 \in f[a + 1]}
    BY <1>5, <2>4 DEF Steps
  <2>6. k \in 1 .. Len(S) /\ S[k] = Encoding[c][1]
    BY <1>5, <2>4, <2>5
  <2>7. PICK m \in 1 .. Len(s) : k = Begin(s, m)
    BY <2>2, <2>6, Leads DEF S
  <2> QED
    BY <1>0, <2>7
<1>11. CASE n # Len(p) + 1 /\ p[n] = "?"
  <2>1. n \in 1 .. Len(p)
    BY <1>1, <1>11
  <2>2. P[a] = "?" /\ a \in 1 .. Len(P)
    BY <1>11, <2>1, SymbolAt DEF P, a, GL!Wild
  <2>3. f[a] = {j \in 1 .. Len(S) : P[a] \in {"?", S[j]} /\ j + 1 \in f[a + 1]}
    BY <1>5, <2>2 DEF Steps
  <2>4. k \in 1 .. Len(S)
    BY <1>5, <2>3
  <2>5. \A m \in 1 .. Len(s) : Len(Encoding[s[m]]) = 1
    BY <1>11, <2>1 DEF ByteWise
  <2>6. PICK m \in 1 .. Len(s) : k = Begin(s, m)
    BY <2>4, <2>5, LeadsEach DEF S
  <2> QED
    BY <1>0, <2>6
<1> QED
  BY <1>8, <1>9, <1>10, <1>11 DEF GL!Wild

\* With a star next, the recursion on bytes and the meaning agree if they do
\* behind it.
LEMMA AgreeStar ==
  ASSUME GL!EncodingAssumption, NEW p \in Seq(PatternSymbols), NEW s \in Seq(GL!Chars),
         ByteWise(p, s),
         NEW f, Steps(f, GL!Encode(p), GL!Encode(s)),
         NEW n \in Nat, n < Len(p), p[n + 1] = "*",
         \A j \in 0 .. Len(s) : Begin(s, j + 1) \in f[Begin(p, n + 2)] <=> Rest(p, s, n + 1, j),
         NEW j \in 0 .. Len(s)
  PROVE  Begin(s, j + 1) \in f[Begin(p, n + 1)] <=> Rest(p, s, n, j)
<1> DEFINE P == GL!Encode(p)
           S == GL!Encode(s)
           a == Begin(p, n + 1)
           b == Begin(s, j + 1)
<1>1. s \in Seq(PatternSymbols) /\ Len(s) \in Nat /\ Len(p) \in Nat
  BY NameAt
<1>2. Len(P) \in Nat /\ Len(S) \in Nat /\ Begin(s, Len(s) + 1) = Len(S) + 1
  BY <1>1, Encoded
<1>3. n + 1 \in 1 .. Len(p) /\ (n + 1) + 1 = n + 2 /\ n + 2 \in 1 .. Len(p) + 1 /\ j + 1 \in 1 .. Len(s) + 1
  BY <1>1
<1>4. P[a] = "*" /\ a \in 1 .. Len(P) /\ Begin(p, n + 2) = a + 1
  BY <1>3, SymbolAt DEF GL!Wild
<1>5. ASSUME NEW m \in j + 1 .. Len(s) + 1
      PROVE  Begin(s, m) \in Nat /\ b \in Nat \ {0} /\ b <= Begin(s, m)
  <2>1. m \in 1 .. Len(s) + 1
    BY <1>1, <1>3
  <2>2. Begin(s, m) \in Nat /\ b \in Nat \ {0} /\ (j + 1 < m => b < Begin(s, m))
    BY <1>1, <1>3, <2>1, Rising
  <2>3. m = j + 1 \/ j + 1 < m
    BY <1>1
  <2> HIDE DEF b
  <2>4. CASE m = j + 1
    BY <2>2, <2>4 DEF b
  <2>5. CASE j + 1 < m
    BY <2>2, <2>5
  <2> QED
    BY <2>3, <2>4, <2>5
<1>6. Steps(f, P, S)
  OBVIOUS
<1> HIDE DEF P, S
<1>7. b \in 1 .. Len(S) + 1
  <2>1. Len(s) + 1 \in j + 1 .. Len(s) + 1
    BY <1>1
  <2>2. b \in Nat \ {0} /\ b <= Len(S) + 1
    BY <1>2, <1>5, <2>1
  <2> HIDE DEF b
  <2> QED
    BY <1>2, <2>2
<1>8. b \in f[a] <=> \E k \in f[a + 1] : b <= k
  <2> HIDE DEF a, b
  <2>1. f[a] = {i \in 1 .. Len(S) + 1 : \E k \in f[a + 1] : i <= k}
    BY <1>4, <1>6 DEF Steps
  <2> QED
    BY <1>7, <2>1
<1>9. (\E k \in f[a + 1] : b <= k) <=> \E m \in j + 1 .. Len(s) + 1 : Begin(s, m) \in f[a + 1]
  <2>1. ASSUME NEW k \in f[a + 1], b <= k
        PROVE  \E m \in j + 1 .. Len(s) + 1 : Begin(s, m) \in f[a + 1]
    <3>1. k \in f[Begin(p, n + 2)] /\ Begin(s, j + 1) <= k
      BY <1>4, <2>1
    <3>2. \E m \in j + 1 .. Len(s) + 1 : Begin(s, m) \in f[Begin(p, n + 2)]
      BY <1>3, <3>1, BetweenCharacters
    <3> QED
      BY <1>4, <3>2
  <2>2. ASSUME NEW m \in j + 1 .. Len(s) + 1, Begin(s, m) \in f[a + 1]
        PROVE  \E k \in f[a + 1] : b <= k
    BY <1>5, <2>2
  <2> HIDE DEF a, b
  <2> QED
    BY <2>1, <2>2
<1>10. (\E m \in j + 1 .. Len(s) + 1 : Begin(s, m) \in f[a + 1])
       <=> \E k \in j .. Len(s) : Rest(p, s, n + 1, k)
  <2>1. ASSUME NEW k \in 0 .. Len(s) PROVE Begin(s, k + 1) \in f[a + 1] <=> Rest(p, s, n + 1, k)
    BY <1>4
  <2>2. ASSUME NEW m \in j + 1 .. Len(s) + 1, Begin(s, m) \in f[a + 1]
        PROVE  \E k \in j .. Len(s) : Rest(p, s, n + 1, k)
    <3>1. m - 1 \in j .. Len(s) /\ m - 1 \in 0 .. Len(s) /\ (m - 1) + 1 = m
      BY <1>1
    <3> QED
      BY <2>1, <2>2, <3>1
  <2>3. ASSUME NEW k \in j .. Len(s), Rest(p, s, n + 1, k)
        PROVE  \E m \in j + 1 .. Len(s) + 1 : Begin(s, m) \in f[a + 1]
    <3>1. k \in 0 .. Len(s) /\ k + 1 \in j + 1 .. Len(s) + 1
      BY <1>1
    <3> QED
      BY <2>1, <2>3, <3>1
  <2> HIDE DEF a
  <2> QED
    BY <2>2, <2>3
<1>11. Rest(p, s, n, j) <=> \E k \in j .. Len(s) : Rest(p, s, n + 1, k)
  BY <1>1, RestStar
<1> HIDE DEF a, b
<1>12. b \in f[a] <=> Rest(p, s, n, j)
  BY <1>8, <1>9, <1>10, <1>11
<1> QED
  BY <1>12 DEF a, b

\* And with a character next.
LEMMA AgreeChar ==
  ASSUME GL!EncodingAssumption, NEW p \in Seq(PatternSymbols), NEW s \in Seq(GL!Chars),
         NEW f, Steps(f, GL!Encode(p), GL!Encode(s)),
         NEW n \in Nat, n < Len(p), p[n + 1] \notin GL!Wild,
         \A j \in 0 .. Len(s) : Begin(s, j + 1) \in f[Begin(p, n + 2)] <=> Rest(p, s, n + 1, j),
         NEW j \in 0 .. Len(s)
  PROVE  Begin(s, j + 1) \in f[Begin(p, n + 1)] <=> Rest(p, s, n, j)
<1> DEFINE P == GL!Encode(p)
           S == GL!Encode(s)
           a == Begin(p, n + 1)
           b == Begin(s, j + 1)
           c == p[n + 1]
           h == Len(Encoding[c])
           Meets(i) == b + i - 1 <= Len(S) /\ P[a + i - 1] = S[b + i - 1]
<1>1. s \in Seq(PatternSymbols) /\ Len(s) \in Nat /\ Len(p) \in Nat
  BY NameAt
<1>2. Len(P) \in Nat /\ Len(S) \in Nat /\ Begin(s, Len(s) + 1) = Len(S) + 1
  BY <1>1, Encoded
<1>3. n + 1 \in 1 .. Len(p) /\ (n + 1) + 1 = n + 2 /\ n + 2 \in 1 .. Len(p) + 1 /\ j + 1 \in 1 .. Len(s) + 1
  BY <1>1
<1>4. /\ c \in GL!Chars /\ h \in Nat \ {0} /\ Begin(p, n + 2) = a + h
      /\ \A i \in 1 .. h :
           a + i - 1 \in 1 .. Len(P) /\ P[a + i - 1] = Encoding[c][i] /\ Encoding[c][i] \notin GL!Wild
  BY <1>3, SymbolAt
<1>5. a \in Nat \ {0} /\ b \in Nat \ {0}
  BY <1>1, <1>3, Rising
<1>6. Steps(f, P, S)
  OBVIOUS
<1>7. Rest(p, s, n, j) <=> j < Len(s) /\ s[j + 1] = c /\ Rest(p, s, n + 1, j + 1)
  BY <1>1, RestChar
<1>8. b \in f[a] <=> b + h \in f[a + h] /\ \A i \in 1 .. h : Meets(i)
  <2> HIDE DEF P, S, a, b, c, h
  <2>1. NoWild(P, a, h)
    BY <1>4 DEF NoWild
  <2>2. h \in 1 .. h /\ h \in Nat
    BY <1>4
  <2>3. a + h - 1 <= Len(P)
    BY <1>2, <1>4, <2>2
  <2>4. a + h <= Len(P) + 1
    BY <1>2, <1>4, <1>5, <2>3
  <2>5. Len(P) \in Nat /\ Len(S) \in Nat /\ Steps(f, P, S) /\ a \in Nat \ {0} /\ b \in Nat \ {0}
    BY <1>2, <1>5, <1>6
  <2>6. b \in f[a] <=> b + h \in f[a + h] /\ Same(P, S, a, b, h)
    BY <2>1, <2>2, <2>4, <2>5, RunMeets
  <2> QED
    BY <2>6 DEF Same
<1>9. CASE j = Len(s)
  <2>1. b = Len(S) + 1
    BY <1>2, <1>9
  <2> HIDE DEF b, h, P, a, S, c
  <2>2. 1 \in 1 .. h /\ ~ (b + 1 - 1 <= Len(S))
    BY <1>2, <1>4, <2>1
  <2>3. ~ (b \in f[a])
    BY <1>8, <2>2
  <2>4. ~ Rest(p, s, n, j)
    BY <1>1, <1>7, <1>9
  <2> QED
    BY <2>3, <2>4 DEF a, b
<1>10. CASE j # Len(s)
  <2> DEFINE d == s[j + 1]
             g == Len(Encoding[d])
  <2>1. j < Len(s) /\ j + 1 \in 1 .. Len(s) /\ (j + 1) + 1 = j + 2 /\ j + 1 \in 0 .. Len(s)
    BY <1>1, <1>10
  <2>2. d \in GL!Chars /\ d \notin GL!Wild
    BY <2>1, NameAt DEF GL!EncodingAssumption
  <2>3. /\ g \in Nat \ {0} /\ Begin(s, j + 2) = b + g
        /\ \A i \in 1 .. g : b + i - 1 \in 1 .. Len(S) /\ S[b + i - 1] = Encoding[d][i]
    BY <1>1, <2>1, <2>2, SymbolAt
  <2>4. CASE d = c
    <3>1. g = h /\ Begin(s, j + 2) = b + h
      BY <2>3, <2>4
    <3> HIDE DEF P, S, a, b, c, d, g, h
    <3>2. ASSUME NEW i \in 1 .. h PROVE Meets(i)
      <4>1. b + i - 1 \in 1 .. Len(S) /\ S[b + i - 1] = Encoding[d][i] /\ P[a + i - 1] = Encoding[c][i]
        BY <1>4, <2>3, <3>1
      <4>2. b + i - 1 <= Len(S)
        BY <1>2, <4>1
      <4> QED
        BY <2>4, <4>1, <4>2
    <3> HIDE DEF Meets
    <3>3. b \in f[a] <=> Begin(s, j + 2) \in f[Begin(p, n + 2)]
      BY <1>4, <1>8, <3>1, <3>2
    <3>4. Begin(s, j + 2) \in f[Begin(p, n + 2)] <=> Rest(p, s, n + 1, j + 1)
      <4>1. Begin(s, (j + 1) + 1) \in f[Begin(p, n + 2)] <=> Rest(p, s, n + 1, j + 1)
        BY <2>1
      <4> QED
        BY <2>1, <4>1
    <3> QED
      BY <1>7, <2>1, <2>4, <3>3, <3>4 DEF a, b, d
  <2>5. CASE d # c
    <3> HIDE DEF P, S, a, b, c, d
    <3>1. Encoding[c] \in Seq(GL!Octets) /\ Encoding[d] \in Seq(GL!Octets)
      BY <1>4, <2>2 DEF GL!EncodingAssumption
    <3>2. \E k \in DOMAIN Encoding[c] \cap DOMAIN Encoding[d] : Encoding[c][k] # Encoding[d][k]
      BY <1>4, <2>2, <2>5 DEF GL!EncodingAssumption
    <3>3. DOMAIN Encoding[c] = 1 .. h /\ DOMAIN Encoding[d] = 1 .. g
      BY <3>1
    <3> HIDE DEF g, h
    <3>4. PICK k \in (1 .. h) \cap (1 .. g) : Encoding[c][k] # Encoding[d][k]
      BY <3>2, <3>3
    <3>5. ~ Meets(k)
      BY <1>4, <2>3, <3>4
    <3> HIDE DEF Meets
    <3>6. ~ (b \in f[a])
      BY <1>8, <3>4, <3>5
    <3> QED
      BY <1>7, <2>5, <3>6 DEF a, b, d
  <2> QED
    BY <2>4, <2>5
<1> QED
  BY <1>9, <1>10

\* And with a "?" next, which stands for one byte and so for one character.
LEMMA AgreeAny ==
  ASSUME GL!EncodingAssumption, NEW p \in Seq(PatternSymbols), NEW s \in Seq(GL!Chars),
         ByteWise(p, s),
         NEW f, Steps(f, GL!Encode(p), GL!Encode(s)),
         NEW n \in Nat, n < Len(p), p[n + 1] = "?",
         \A j \in 0 .. Len(s) : Begin(s, j + 1) \in f[Begin(p, n + 2)] <=> Rest(p, s, n + 1, j),
         NEW j \in 0 .. Len(s)
  PROVE  Begin(s, j + 1) \in f[Begin(p, n + 1)] <=> Rest(p, s, n, j)
<1> DEFINE P == GL!Encode(p)
           S == GL!Encode(s)
           a == Begin(p, n + 1)
           b == Begin(s, j + 1)
<1>1. s \in Seq(PatternSymbols) /\ Len(s) \in Nat /\ Len(p) \in Nat
  BY NameAt
<1>2. Len(P) \in Nat /\ Len(S) \in Nat /\ Begin(s, Len(s) + 1) = Len(S) + 1
  BY <1>1, Encoded
<1>3. n + 1 \in 1 .. Len(p) /\ (n + 1) + 1 = n + 2
  BY <1>1
<1>4. P[a] = "?" /\ a \in 1 .. Len(P) /\ Begin(p, n + 2) = a + 1
  BY <1>3, SymbolAt DEF GL!Wild
<1>5. f[a] = {i \in 1 .. Len(S) : P[a] \in {"?", S[i]} /\ i + 1 \in f[a + 1]}
  BY <1>4 DEF Steps
<1>6. b \in f[a] <=> b \in 1 .. Len(S) /\ b + 1 \in f[a + 1]
  <2> HIDE DEF P, S, a, b
  <2> QED
    BY <1>4, <1>5
<1>7. Rest(p, s, n, j) <=> j < Len(s) /\ Rest(p, s, n + 1, j + 1)
  BY <1>1, RestAny
<1>8. CASE j = Len(s)
  <2>1. b = Len(S) + 1
    BY <1>2, <1>8
  <2> HIDE DEF b, P, a, S
  <2>2. ~ (b \in 1 .. Len(S))
    BY <1>2, <2>1
  <2>3. ~ Rest(p, s, n, j)
    BY <1>1, <1>7, <1>8
  <2> QED
    BY <1>6, <2>2, <2>3 DEF a, b
<1>9. CASE j # Len(s)
  <2> DEFINE d == s[j + 1]
  <2>1. j < Len(s) /\ j + 1 \in 1 .. Len(s) /\ (j + 1) + 1 = j + 2 /\ j + 1 \in 0 .. Len(s)
    BY <1>1, <1>9
  <2>2. d \in GL!Chars /\ d \notin GL!Wild
    BY <2>1, NameAt DEF GL!EncodingAssumption
  <2>3. Len(Encoding[d]) = 1
    BY <1>3, <2>1 DEF ByteWise
  <2>4. /\ Begin(s, j + 2) = b + Len(Encoding[d])
        /\ \A i \in 1 .. Len(Encoding[d]) : b + i - 1 \in 1 .. Len(S)
    BY <1>1, <2>1, <2>2, SymbolAt
  <2>5. Begin(s, j + 2) = b + 1 /\ b + 1 - 1 \in 1 .. Len(S)
    <3> HIDE DEF b, d, S
    <3> QED
      BY <2>3, <2>4
  <2>6. b \in 1 .. Len(S)
    <3>1. j + 1 \in 1 .. Len(s) + 1
      BY <1>1, <2>1
    <3>2. b \in Nat
      BY <1>1, <3>1, Rising
    <3> HIDE DEF b, S
    <3> QED
      BY <2>5, <3>2
  <2>7. b + 1 \in f[a + 1] <=> Rest(p, s, n + 1, j + 1)
    <3>1. Begin(s, (j + 1) + 1) \in f[Begin(p, n + 2)] <=> Rest(p, s, n + 1, j + 1)
      BY <2>1
    <3> HIDE DEF a, b
    <3> QED
      BY <1>4, <2>1, <2>5, <3>1
  <2> HIDE DEF a, b, S
  <2> QED
    BY <1>6, <1>7, <2>1, <2>6, <2>7 DEF a, b
<1> QED
  BY <1>8, <1>9

\* The recursion on bytes finds what the pattern means on characters.
LEMMA MatchMeans ==
  ASSUME GL!EncodingAssumption, NEW p \in Seq(PatternSymbols), NEW s \in Seq(GL!Chars),
         ByteWise(p, s)
  PROVE  GL!globMatch(GL!Encode(p), GL!Encode(s)) <=> GL!Means(p, s)
<1> DEFINE P == GL!Encode(p)
           S == GL!Encode(s)
<1>1. s \in Seq(PatternSymbols) /\ Len(s) \in Nat /\ Len(p) \in Nat
  BY NameAt
<1>2. /\ Len(P) \in Nat /\ Len(S) \in Nat /\ Begin(s, 1) = 1 /\ Begin(p, 1) = 1
      /\ Begin(s, Len(s) + 1) = Len(S) + 1 /\ Begin(p, Len(p) + 1) = Len(P) + 1
  BY <1>1, Encoded
<1>4. PICK f : IsPlaces(f, P, S, 1) /\ GL!globMatch(P, S) = (1 \in f[1])
  BY <1>2, MatchIs
<1>5. Steps(f, P, S)
  BY <1>2, <1>4, PlacesStep
<1> DEFINE l == Len(p)
           Agree(n) == \A j \in 0 .. Len(s) : Begin(s, j + 1) \in f[Begin(p, n + 1)] <=> Rest(p, s, n, j)
           Good == {d \in Nat : d <= l => Agree(l - d)}
<1>6. Agree(l)
  <2> SUFFICES ASSUME NEW j \in 0 .. Len(s)
               PROVE  Begin(s, j + 1) \in f[Begin(p, l + 1)] <=> Rest(p, s, l, j)
    OBVIOUS
  <2>1. f[Begin(p, l + 1)] = {Begin(s, Len(s) + 1)}
    BY <1>2, <1>5 DEF Steps
  <2>2. Rest(p, s, l, j) <=> j = Len(s)
    BY <1>1, RestEnd
  <2>3. ASSUME j # Len(s) PROVE Begin(s, j + 1) # Begin(s, Len(s) + 1)
    <3>1. j + 1 < Len(s) + 1 /\ j + 1 \in 1 .. Len(s) + 1 /\ Len(s) + 1 \in 1 .. Len(s) + 1
      BY <1>1, <2>3
    <3>2. Begin(s, j + 1) < Begin(s, Len(s) + 1) /\ Begin(s, j + 1) \in Nat
      BY <1>1, <3>1, Rising
    <3> QED
      BY <3>2
  <2> QED
    BY <2>1, <2>2, <2>3
<1>7. ASSUME NEW n \in Nat, n < l, Agree(n + 1) PROVE Agree(n)
  <2> SUFFICES ASSUME NEW j \in 0 .. Len(s)
               PROVE  Begin(s, j + 1) \in f[Begin(p, n + 1)] <=> Rest(p, s, n, j)
    OBVIOUS
  <2>1. (n + 1) + 1 = n + 2 /\ n + 1 \in 1 .. l
    BY <1>1, <1>7
  <2>2. \A i \in 0 .. Len(s) : Begin(s, i + 1) \in f[Begin(p, n + 2)] <=> Rest(p, s, n + 1, i)
    BY <1>7, <2>1
  <2>3. CASE p[n + 1] = "*"
    BY <1>5, <1>7, <2>2, <2>3, AgreeStar
  <2>4. CASE p[n + 1] = "?"
    BY <1>5, <1>7, <2>2, <2>4, AgreeAny
  <2>5. CASE p[n + 1] \notin GL!Wild
    BY <1>5, <1>7, <2>2, <2>5, AgreeChar
  <2> QED
    BY <2>3, <2>4, <2>5 DEF GL!Wild
<1>8. Agree(0)
  <2> HIDE DEF Agree
  <2>1. 0 \in Good
    <3>1. l - 0 = l
      BY <1>1
    <3> QED
      BY <1>6, <3>1
  <2>2. ASSUME NEW d \in Nat, d \in Good PROVE d + 1 \in Good
    <3> SUFFICES ASSUME d + 1 <= l PROVE Agree(l - (d + 1))
      OBVIOUS
    <3> DEFINE n == l - (d + 1)
    <3>1. n \in Nat /\ n < l /\ n + 1 = l - d /\ d <= l
      BY <1>1
    <3>2. Agree(n + 1)
      BY <2>2, <3>1
    <3> HIDE DEF n, l
    <3>3. Agree(n)
      BY <1>7, <3>1, <3>2
    <3> QED
      BY <3>3 DEF n
  <2>3. Nat \subseteq Good
    <3> HIDE DEF Good
    <3> QED
      BY <2>1, <2>2, NatSetInduction
  <2>4. l \in Good /\ l <= l /\ l - l = 0
    <3> HIDE DEF Good
    <3> QED
      BY <1>1, <2>3
  <2> QED
    BY <2>4
<1>9. GL!globMatch(P, S) <=> Rest(p, s, 0, 0)
  <2>1. 0 \in 0 .. Len(s) /\ 0 + 1 = 1
    BY <1>1
  <2>2. Begin(s, 1) \in f[Begin(p, 1)] <=> Rest(p, s, 0, 0)
    BY <1>8, <2>1
  <2> QED
    BY <1>2, <1>4, <2>2
<1>10. Rest(p, s, 0, 0) <=> GL!Means(p, s)
  <2>1. 0 + 1 = 1
    OBVIOUS
  <2> QED
    BY <2>1, Zenon DEF Rest, GL!Means
<1> QED
  BY <1>9, <1>10

-----------------------------------------------------------------------------
\* What holds of a question about a rule at every time.
GlobIInv ==
  /\ pattern \in Seq(PatternSymbols) /\ subject \in Seq(GL!Chars)
  /\ verdict \in {"open", IF GL!globMatch(GL!Encode(pattern), GL!Encode(subject)) THEN "yes" ELSE "no"}

\* Whatever UTF-8 the names are written in and however long they are, a rule
\* answers what its pattern means, provided that a pattern with "?" meets
\* characters of one byte only (globMatchImpl).
THEOREM GlobAsMeantAlways ==
  ASSUME GL!BoundAssumption, GL!EncodingAssumption
  PROVE  GL!Spec => []GlobAsMeant
<1>1. ASSUME GL!Init PROVE GlobIInv
  <2>1. \A X, n : n \in Nat => GL!Strings(X, n) \subseteq Seq(X)
    BY DEF GL!Strings
  <2>2. pattern \in Seq(PatternSymbols) /\ subject \in Seq(GL!Chars)
    BY <1>1, <2>1 DEF GL!Init, GL!BoundAssumption, PatternSymbols
  <2> QED
    BY <1>1, <2>2 DEF GL!Init, GlobIInv
<1>2. ASSUME GlobIInv, [GL!Next]_GL!vars PROVE GlobIInv'
  <2>1. CASE GL!Next
    BY <1>2, <2>1 DEF GlobIInv, GL!Next, GL!Ask
  <2>2. CASE UNCHANGED GL!vars
    BY <1>2, <2>2 DEF GlobIInv, GL!vars
  <2> QED
    BY <1>2, <2>1, <2>2
<1>3. ASSUME GlobIInv PROVE GlobAsMeant
  <2> SUFFICES ASSUME verdict # "open", "?" \notin GL!Range(pattern) \/ GL!OneByteEach
               PROVE  (verdict = "yes") = GL!Means(pattern, subject)
    BY DEF GlobAsMeant, GL!GlobAsMeant, GL!Answered
  <2>1. ByteWise(pattern, subject)
    BY <1>3 DEF GlobIInv, GL!Range, GL!OneByteEach, ByteWise
  <2>2. GL!globMatch(GL!Encode(pattern), GL!Encode(subject)) <=> GL!Means(pattern, subject)
    BY <1>3, <2>1, MatchMeans DEF GlobIInv
  <2>3. verdict = IF GL!globMatch(GL!Encode(pattern), GL!Encode(subject)) THEN "yes" ELSE "no"
    BY <1>3 DEF GlobIInv
  <2>4. GL!Means(pattern, subject) \in BOOLEAN
    BY Zenon DEF GL!Means
  <2> QED
    BY <2>2, <2>3, <2>4
<1> QED
  BY <1>1, <1>2, <1>3, PTL DEF GL!Spec
=============================================================================
