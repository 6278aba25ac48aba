-------------------------------- MODULE Versions --------------------------------
(***************************************************************************)
(* Versions as image tags write them: how the risk engine takes a tag      *)
(* apart and compares it with the version a vulnerability ends at.         *)
(* InstanceRisk starts from the numbers; here is where they come from.     *)
(***************************************************************************)
EXTENDS Integers, Sequences, FiniteSetsExt, SequencesExt

CONSTANT
  Tags   \* the tags that are compared: sequences of symbols

Digits     == [d0 |-> 0, d1 |-> 1, d2 |-> 2, d9 |-> 9]
Separators == {".", "-", "+"}
Letters    == {"v", "rc"}

\* Assumed of the constants by the modules that give them values.
TagAssumption == Tags \subseteq Seq(DOMAIN Digits \cup Separators \cup Letters)

VARIABLES a, b, order

vars == <<a, b, order>>

-----------------------------------------------------------------------------
\* FieldsFunc: the stretches between separators; empty ones are left out.
Fields(t) ==
  LET cuts  == {0, Len(t) + 1} \cup {n \in DOMAIN t : t[n] \in Separators}
      Following(n) == Min({m \in cuts : m > n})
      begin == {n \in cuts : n <= Len(t) /\ Following(n) > n + 1}
  IN  [k \in 1 .. Cardinality(begin) |->
         LET n == CHOOSE n \in begin : Cardinality({m \in begin : m <= n}) = k
         IN  SubSeq(t, n + 1, Following(n) - 1)]

\* The number at the front of a field, 0 if there is none.
Number(f) ==
  LET front == {n \in 0 .. Len(f) : \A m \in 1 .. n : f[m] \in DOMAIN Digits}
      value[n \in 0 .. Max(front)] == IF n = 0 THEN 0 ELSE 10 * value[n - 1] + Digits[f[n]]
  IN  value[Max(front)]

\* A "v" in front is cut off.
splitVer(t) ==
  LET bare == IF t # << >> /\ t[1] = "v" THEN Tail(t) ELSE t
      all  == Fields(bare)
  IN  [k \in DOMAIN all |-> Number(all[k])]

NumberAt(v, i) == IF i \in DOMAIN v THEN v[i] ELSE 0

\* Faulty variant: a number that is missing is less than any other.
CompareLength(s, t) ==
  LET v == splitVer(s) w == splitVer(t)
      differ == {i \in DOMAIN v \cap DOMAIN w : v[i] # w[i]}
  IN  IF differ # {} THEN (IF v[Min(differ)] < w[Min(differ)] THEN -1 ELSE 1)
      ELSE IF Len(v) < Len(w) THEN -1 ELSE 1

CompareVersions(s, t) ==
  LET v == splitVer(s) w == splitVer(t)
      differ == {i \in DOMAIN v \cup DOMAIN w : NumberAt(v, i) # NumberAt(w, i)}
  IN  IF differ = {} THEN 0
      ELSE IF NumberAt(v, Min(differ)) < NumberAt(w, Min(differ)) THEN -1 ELSE 1

-----------------------------------------------------------------------------
Open == 9

Init == a \in Tags /\ b \in Tags /\ order = Open

Compare ==
  /\ order = Open
  /\ order' = CompareVersions(a, b)
  /\ UNCHANGED <<a, b>>

Next == Compare

Spec == Init /\ [][Next]_vars

-----------------------------------------------------------------------------
\* "CompareVersions compares dotted numeric versions: -1, 0, 1": its answers
\* are those of an order, for every tag a registry may hold, so that the
\* engine cannot find an instance both below a version and above a lower one
\* (matchVuln): opposite the other way round, and kept along a third tag.  A
\* release candidate counts as its release, and has to wherever it occurs.
VersionsAreOrdered ==
  order # Open =>
    /\ CompareVersions(b, a) = 0 - order
    /\ \A c \in Tags :
         order <= 0 /\ CompareVersions(b, c) <= 0 =>
           CompareVersions(a, c) <= 0 /\ (CompareVersions(a, c) = 0 => order = 0)
=============================================================================
