----------------------------- MODULE ReleaseProofs -----------------------------
(***************************************************************************)
(* For any number of keys, builds and releases, and any changes of files   *)
(* while the agent starts: with Enforce set, an agent that runs has found  *)
(* a binary pinned in a manifest the operator signed with the configured   *)
(* key.                                                                    *)
(*                                                                         *)
(* The invariant follows a signature from Sign to the agent.  Every        *)
(* signature on the host was made by Sign, whatever became of the manifest *)
(* around it; so a manifest that verifies says what was signed, and keeps  *)
(* saying it in the hands of the agent while the file is replaced.         *)
(***************************************************************************)
EXTENDS AgentHost, Lemmas

\* What the operator may pin, and what damage may make of it.
AnyFiles == RL!Files \cup {RL!Pins(a) : a \in Arguments}

AnySignature == [by : Keys, files : AnyFiles]

AnyManifest == [files : AnyFiles, signature : AnySignature \cup {None}]

\* The fields the argument is about have their shape.
ReleaseShape ==
  /\ keydir \in [pub : Keys \cup {None}, key : Keys \cup {None}]
  /\ half \in Keys \cup {None}
  /\ signed \subseteq [args : Arguments, manifest : [files : AnyFiles, signature : AnySignature]]
  /\ manifest \in AnyManifest \cup {None}
  /\ binary \in RL!Binary
  /\ conf \in RL!Conf
  /\ proc \in [pc : {"stopped", "starting", "checking", "running", "refused"},
               conf : RL!Conf \cup {None}, image : RL!Binary \cup {None}, pub : Keys \cup {None},
               files : AnyFiles \cup {None}, checked : Hashes \cup {None}]
  /\ proc.pc # "stopped" => proc.conf \in RL!Conf

\* Some manifest of the operator carries this signature.
MadeBySign(sig) == \E s \in signed : s.manifest.signature = sig

\* A manifest says what its signature covers when sign writes it.
SignedSaysSo ==
  \A s \in signed : s.manifest.signature.files = s.manifest.files

\* Damage takes a signature away and never makes one.
HostSignature ==
  manifest # None => manifest.signature = None \/ MadeBySign(manifest.signature)

\* What the agent has in hand between its two checks was signed with the
\* configured key.
InHand ==
  proc.pc = "checking" =>
    /\ MadeBySign([by |-> proc.pub, files |-> proc.files])
    /\ proc.pub = proc.conf.publicKey
    /\ proc.files \in AnyFiles

\* With SkipVerification out of the way, a running agent passed both checks.
PinInv == SignedSaysSo /\ HostSignature /\ InHand /\ RL!EnforcedIsPinned

\* Pins is a function on base names, whatever it picks.
LEMMA SignedShape ==
  ASSUME NEW a \in Arguments, keydir.key \in Keys
  PROVE  /\ RL!Signed(a) \in [args : Arguments,
                           manifest : [files : AnyFiles, signature : AnySignature]]
         /\ RL!Signed(a).manifest.signature.files = RL!Signed(a).manifest.files
  BY DEF RL!Signed, AnyFiles, AnySignature

LEMMA ReleaseStart ==
  ASSUME RL!Init
  PROVE  ReleaseShape
<1>1. conf \in RL!Conf
  BY DEF RL!Init, RL!Conf
<1>2. /\ keydir \in [pub : Keys \cup {None}, key : Keys \cup {None}]
      /\ half \in Keys \cup {None}
      /\ signed = {} /\ manifest = None /\ binary \in RL!Binary
  BY DEF RL!Init
<1>3. proc = RL!Stopped
  BY DEF RL!Init
<1>4. QED
  BY <1>1, <1>2, <1>3 DEF ReleaseShape, RL!Stopped

LEMMA ReleaseStep ==
  ASSUME RL!NamesAssumption, ReleaseShape, [RL!Next]_(RL!vars)
  PROVE  ReleaseShape'
<1> USE DEF ReleaseShape
<1>1. ASSUME NEW k \in Keys, RL!KeygenPublic(k) PROVE ReleaseShape'
  BY <1>1 DEF RL!KeygenPublic, RL!host
<1>2. CASE RL!KeygenPrivate
  BY <1>2 DEF RL!KeygenPrivate, RL!host
<1>3. ASSUME NEW a \in Arguments, RL!Sign(a) PROVE ReleaseShape'
  <2>1. keydir.key \in Keys
    BY <1>3 DEF RL!Sign
  <2>2. signed' = signed \cup {RL!Signed(a)}
    BY <1>3 DEF RL!Sign
  <2>3. signed' \subseteq [args : Arguments,
                           manifest : [files : AnyFiles, signature : AnySignature]]
    BY <2>1, <2>2, SignedShape
  <2>4. QED
    BY <1>3, <2>3 DEF RL!Sign, RL!host
<1>4. CASE RL!CopyManifest
  BY <1>4 DEF RL!CopyManifest, RL!operator, AnyManifest
<1>5. CASE RL!DamageManifest
  <2>1. manifest' \in AnyManifest \cup {None}
    BY <1>5 DEF RL!DamageManifest, AnyManifest, AnyFiles
  <2>2. QED
    BY <1>5, <2>1 DEF RL!DamageManifest, RL!operator
<1>6. CASE RL!InstallBinary
  BY <1>6 DEF RL!InstallBinary, RL!operator, RL!Binary
<1>7. CASE RL!Configure
  <2>1. conf' \in RL!Conf
    BY <1>7 DEF RL!NamesAssumption, RL!Configure, RL!Conf
  <2>2. QED
    BY <1>7, <2>1 DEF RL!Configure, RL!operator
<1>8. CASE RL!Exec
  <2>1. proc' = [pc |-> "starting", conf |-> conf, image |-> binary, pub |-> None,
                 files |-> None, checked |-> None]
    BY <1>8 DEF RL!Exec, RL!Stopped
  <2>2. UNCHANGED <<keydir, half, signed, manifest, binary, conf>>
    BY <1>8 DEF RL!Exec, RL!operator, RL!host
  <2>3. conf \in RL!Conf /\ binary \in RL!Binary
    OBVIOUS
  <2>4. proc' \in [pc : {"stopped", "starting", "checking", "running", "refused"},
                   conf : RL!Conf \cup {None}, image : RL!Binary \cup {None}, pub : Keys \cup {None},
                   files : AnyFiles \cup {None}, checked : Hashes \cup {None}]
        /\ proc'.conf \in RL!Conf
    BY <2>1, <2>3
  <2> QED
    BY <2>2, <2>4
<1>9. CASE RL!SkipVerification
  BY <1>9 DEF RL!SkipVerification, RL!operator, RL!host
<1>10. CASE RL!RejectKey
  BY <1>10 DEF RL!RejectKey, RL!ToVerify, RL!operator, RL!host
<1>11. CASE RL!CheckManifest
  <2>1. proc.conf \in RL!Conf
    BY <1>11 DEF RL!CheckManifest, RL!ToVerify
  <2>2. proc.conf.publicKey \in Keys
    BY <1>11, <2>1 DEF RL!CheckManifest, RL!ToVerify, RL!Conf
  <2>3. UNCHANGED <<keydir, half, signed, manifest, binary, conf>>
    BY <1>11 DEF RL!CheckManifest, RL!operator, RL!host
  <2>4. CASE manifest # None /\ RL!Verify(manifest, proc.conf.publicKey)
    <3>1. manifest.files \in AnyFiles
      BY <2>4 DEF AnyManifest
    <3>2. proc' = [proc EXCEPT !.pc = "checking", !.pub = proc.conf.publicKey,
                               !.files = manifest.files]
      BY <1>11, <2>4 DEF RL!CheckManifest
    <3>3. QED
      BY <2>1, <2>2, <2>3, <3>1, <3>2
  <2>5. CASE ~ (manifest # None /\ RL!Verify(manifest, proc.conf.publicKey))
    BY <1>11, <2>1, <2>3, <2>5 DEF RL!CheckManifest, RL!FailClosed
  <2>6. QED
    BY <2>4, <2>5
<1>12. CASE RL!CheckBinary
  <2>1. UNCHANGED <<keydir, half, signed, manifest, binary, conf>> /\ proc.pc = "checking"
    BY <1>12 DEF RL!CheckBinary, RL!operator, RL!host
  <2>2. CASE proc' = [proc EXCEPT !.pc = "running", !.checked = binary.hash]
    BY <2>1, <2>2 DEF RL!Binary
  <2>3. CASE proc' = RL!FailClosed
    BY <2>1, <2>3 DEF RL!FailClosed
  <2> QED
    BY <1>12, <2>2, <2>3 DEF RL!CheckBinary
<1>13. CASE RL!Stop
  BY <1>13 DEF RL!Stop, RL!Stopped, RL!operator, RL!host
<1>14. CASE UNCHANGED RL!vars
  BY <1>14 DEF RL!vars, RL!operator, RL!host
<1>15. QED
  BY <1>1, <1>2, <1>3, <1>4, <1>5, <1>6, <1>7, <1>8, <1>9, <1>10, <1>11, <1>12, <1>13, <1>14
  DEF RL!Next, RL!Operator, RL!Host, RL!Agent

\* Signing, and nothing else, adds to signed; what was pinned stays pinned.
LEMMA OperatorPin == ReleaseShape /\ PinInv /\ RL!Operator => PinInv'
<1> SUFFICES ASSUME ReleaseShape, PinInv, RL!Operator PROVE PinInv'
  OBVIOUS
<1>1. UNCHANGED <<manifest, binary, proc>>
  BY DEF RL!Operator, RL!KeygenPublic, RL!KeygenPrivate, RL!Sign, RL!host
<1>2. signed \subseteq signed'
  BY DEF RL!Operator, RL!KeygenPublic, RL!KeygenPrivate, RL!Sign
<1>3. SignedSaysSo'
  <2>1. CASE UNCHANGED signed
    BY <2>1 DEF PinInv, SignedSaysSo
  <2>2. ASSUME NEW a \in Arguments, RL!Sign(a) PROVE SignedSaysSo'
    <3>1. signed' = signed \cup {RL!Signed(a)} /\ keydir.key \in Keys
      BY <2>2 DEF RL!Sign, ReleaseShape
    <3>2. QED
      BY <3>1, SignedShape DEF PinInv, SignedSaysSo
  <2>3. QED
    BY <2>1, <2>2 DEF RL!Operator, RL!KeygenPublic, RL!KeygenPrivate
<1>4. HostSignature' /\ InHand'
  BY <1>1, <1>2 DEF PinInv, HostSignature, InHand, MadeBySign
<1>5. RL!EnforcedIsPinned'
  BY <1>1, <1>2 DEF PinInv, RL!EnforcedIsPinned, RL!Enforced, RL!PinnedBy
<1>6. QED
  BY <1>3, <1>4, <1>5 DEF PinInv

\* Files come and go under a starting agent without touching what it holds.
LEMMA HostPin == ReleaseShape /\ PinInv /\ RL!Host => PinInv'
<1> SUFFICES ASSUME ReleaseShape, PinInv, RL!Host PROVE PinInv'
  OBVIOUS
<1>1. UNCHANGED <<signed, proc>>
  BY DEF RL!Host, RL!CopyManifest, RL!DamageManifest, RL!InstallBinary, RL!Configure, RL!operator
<1>2. SignedSaysSo' /\ InHand' /\ RL!EnforcedIsPinned'
  BY <1>1 DEF PinInv, SignedSaysSo, InHand, RL!EnforcedIsPinned, MadeBySign, RL!PinnedBy,
     RL!Enforced
<1>3. HostSignature'
  <2>1. CASE RL!CopyManifest
    BY <2>1, <1>1 DEF RL!CopyManifest, HostSignature, MadeBySign
  <2>2. CASE RL!DamageManifest
    <3>1. manifest \in AnyManifest
      BY <2>2 DEF RL!DamageManifest, ReleaseShape
    <3>2. manifest' # None => manifest'.signature \in {manifest.signature, None}
      BY <2>2, <3>1 DEF RL!DamageManifest, AnyManifest
    <3>3. QED
      BY <2>2, <1>1, <3>2 DEF RL!DamageManifest, PinInv, HostSignature, MadeBySign
  <2>3. CASE RL!InstallBinary \/ RL!Configure
    BY <2>3, <1>1 DEF RL!InstallBinary, RL!Configure, PinInv, HostSignature, MadeBySign
  <2>4. QED
    BY <2>1, <2>2, <2>3 DEF RL!Host
<1>4. QED
  BY <1>2, <1>3 DEF PinInv

\* The agent's two checks, and the ways around them.
LEMMA AgentPin ==
  ASSUME RL!NamesAssumption, ReleaseShape, PinInv, RL!Agent \/ RL!Stop
  PROVE  PinInv'
<1>1. UNCHANGED <<signed, manifest, binary>>
  BY DEF RL!Agent, RL!Stop, RL!Exec, RL!SkipVerification, RL!RejectKey, RL!CheckManifest,
     RL!CheckBinary, RL!operator, RL!host
<1>2. SignedSaysSo' /\ HostSignature'
  BY <1>1 DEF PinInv, SignedSaysSo, HostSignature, MadeBySign
<1>3. InHand' /\ RL!EnforcedIsPinned'
  <2> USE <1>1 DEF ReleaseShape, PinInv, InHand, RL!EnforcedIsPinned, MadeBySign, RL!PinnedBy,
          RL!Enforced
  <2>1. CASE RL!Exec \/ RL!Stop
    <3>1. CASE RL!Exec
      <4>1. proc' = [pc |-> "starting", conf |-> conf, image |-> binary, pub |-> None,
                     files |-> None, checked |-> None]
        BY <3>1 DEF RL!Exec, RL!Stopped
      <4>2. QED
        BY <4>1
    <3>2. CASE RL!Stop
      <4>1. proc'.pc = "stopped"
        BY <3>2 DEF RL!Stop, RL!Stopped
      <4>2. QED
        BY <4>1
    <3>3. QED
      BY <2>1, <3>1, <3>2
  <2>2. CASE RL!SkipVerification
    <3>1. proc' = [proc EXCEPT !.pc = "running"] /\ ~ RL!Enforced
      BY <2>2 DEF RL!SkipVerification
    <3>2. proc'.pc = "running" /\ proc'.conf = proc.conf
      BY <3>1
    <3>3. QED
      BY <3>1, <3>2
  <2>3. CASE RL!RejectKey
    BY <2>3 DEF RL!RejectKey
  <2>4. CASE RL!CheckManifest
    <3>1. CASE manifest # None /\ RL!Verify(manifest, proc.conf.publicKey)
      <4>1. proc' = [proc EXCEPT !.pc = "checking", !.pub = proc.conf.publicKey,
                                 !.files = manifest.files]
        BY <2>4, <3>1 DEF RL!CheckManifest
      <4>2. manifest.signature = [by |-> proc.conf.publicKey, files |-> manifest.files]
        BY <3>1 DEF RL!Verify
      <4>3. manifest.files \in AnyFiles
        BY <3>1 DEF AnyManifest
      <4>4. MadeBySign(manifest.signature)
        BY <3>1 DEF HostSignature, RL!Verify
      <4>5. QED
        BY <4>1, <4>2, <4>3, <4>4
    <3>2. CASE ~ (manifest # None /\ RL!Verify(manifest, proc.conf.publicKey))
      BY <2>4, <3>2 DEF RL!CheckManifest, RL!ToVerify, RL!FailClosed
    <3>3. QED
      BY <3>1, <3>2
  <2>5. CASE RL!CheckBinary
    <3>1. CASE binary.hash = RL!Wanted(proc.files, proc.image.base)
      <4>1. proc' = [proc EXCEPT !.pc = "running", !.checked = binary.hash]
        BY <2>5, <3>1 DEF RL!CheckBinary
      <4>2. PICK b \in DOMAIN proc.files : proc.files[b] = binary.hash
        BY <3>1 DEF RL!NamesAssumption, RL!Wanted, RL!Binary
      <4>3. PICK s \in signed :
              s.manifest.signature = [by |-> proc.pub, files |-> proc.files]
        BY <2>5 DEF RL!CheckBinary
      <4>4. s.manifest.files = proc.files /\ s.manifest.signature.by = proc.conf.publicKey
        BY <2>5, <4>3 DEF RL!CheckBinary, SignedSaysSo
      <4>5. RL!PinnedBy(proc.conf.publicKey, binary.hash)
        BY <4>2, <4>4
      <4>6. QED
        BY <4>1, <4>5
    <3>2. CASE binary.hash # RL!Wanted(proc.files, proc.image.base)
      BY <2>5, <3>2 DEF RL!CheckBinary, RL!FailClosed
    <3>3. QED
      BY <3>1, <3>2
  <2>6. QED
    BY <2>1, <2>2, <2>3, <2>4, <2>5 DEF RL!Agent
<1>4. QED
  BY <1>2, <1>3 DEF PinInv

\* With Enforce set, a running agent has found a binary that the operator
\* pinned with the configured key (verifyRelease, failClosed).
THEOREM EnforcedIsPinnedAlways ==
  ASSUME RL!NamesAssumption
  PROVE  RL!Spec => []EnforcedIsPinned
<1>1. RL!Init => PinInv
  <2> SUFFICES ASSUME RL!Init PROVE PinInv
    OBVIOUS
  <2>1. signed = {} /\ manifest = None /\ proc.pc = "stopped"
    BY DEF RL!Init, RL!Stopped
  <2>2. QED
    BY <2>1 DEF PinInv, SignedSaysSo, HostSignature, InHand, RL!EnforcedIsPinned
<1>2. ReleaseShape /\ PinInv /\ [RL!Next]_(RL!vars) => PinInv'
  <2>1. PinInv /\ UNCHANGED RL!vars => PinInv'
    BY DEF RL!vars, RL!operator, RL!host, PinInv, SignedSaysSo, HostSignature, InHand,
       RL!EnforcedIsPinned, MadeBySign, RL!PinnedBy, RL!Enforced
  <2>2. QED
    BY <2>1, OperatorPin, HostPin, AgentPin DEF RL!Next
<1>3. PinInv => EnforcedIsPinned
  BY DEF PinInv, EnforcedIsPinned
<1>4. QED
  BY <1>1, <1>2, <1>3, ReleaseStart, ReleaseStep, PTL DEF RL!Spec
-----------------------------------------------------------------------------
\* The largest of a set, as Release has it.
LEMMA SameMax == \A S : RL!Max(S) = Max(S)
BY DEF RL!Max, Max

\* What sign pins under a base name is the hash of a file it was called with.
LEMMA PinsAreFiles ==
  ASSUME RL!ArgumentsAssumption, NEW a \in Arguments
  PROVE  RL!Pins(a) \in RL!Files
<1> DEFINE B == {a[i].base : i \in DOMAIN a}
           Of(b) == {i \in DOMAIN a : a[i].base = b}
<1>1. a \in Seq([base : Bases, hash : Hashes])
  BY DEF RL!ArgumentsAssumption
<1>2. Len(a) \in Nat /\ DOMAIN a = 1 .. Len(a)
  BY <1>1
<1>3. \A i \in DOMAIN a : a[i].base \in Bases /\ a[i].hash \in Hashes
  <2> SUFFICES ASSUME NEW i \in DOMAIN a PROVE a[i].base \in Bases /\ a[i].hash \in Hashes
    OBVIOUS
  <2> DEFINE R == [base : Bases, hash : Hashes]
  <2>1. a[i] \in R
    <3>1. a \in Seq(R)
      BY <1>1
    <3> HIDE DEF R
    <3> QED
      BY <3>1
  <2> QED
    BY <2>1
<1>4. ASSUME NEW b \in B PROVE a[Max(Of(b))].hash \in Hashes
  <2>1. Of(b) # {} /\ Of(b) \in SUBSET (1 .. Len(a))
    BY <1>2
  <2>2. Max(Of(b)) \in Of(b)
    <3>1. Of(b) \in SUBSET (0 .. Len(a)) /\ Len(a) \in Nat
      BY <1>2, <2>1
    <3> HIDE DEF Of
    <3> QED
      BY <2>1, <3>1, MaxExists
  <2>3. Max(Of(b)) \in DOMAIN a
    BY <2>2
  <2> HIDE DEF Of
  <2> QED
    BY <1>3, <2>3
<1>5. RL!Pins(a) \in [B -> Hashes]
  BY <1>4, SameMax DEF RL!Pins
<1>6. B \in SUBSET Bases
  BY <1>3
<1> HIDE DEF B
<1> QED
  BY <1>5, <1>6 DEF RL!Files

EditsInBounds == edits \in 0 .. MaxEdits

LEMMA EditsStep ==
  ASSUME RL!BoundAssumption, EditsInBounds, [RL!Next]_(RL!vars)
  PROVE  EditsInBounds'
<1>1. RL!Change \/ UNCHANGED edits
  <2>1. CASE RL!Operator \/ RL!Host
    BY <2>1 DEF RL!Operator, RL!KeygenPublic, RL!KeygenPrivate, RL!Sign, RL!Host, RL!CopyManifest,
       RL!DamageManifest, RL!InstallBinary, RL!Configure
  <2>2. CASE RL!Agent \/ RL!Stop \/ UNCHANGED RL!vars
    BY <2>2 DEF RL!Agent, RL!Exec, RL!SkipVerification, RL!RejectKey, RL!CheckManifest,
       RL!CheckBinary, RL!Stop, RL!vars
  <2> QED
    BY <2>1, <2>2 DEF RL!Next
<1> QED
  BY <1>1 DEF RL!BoundAssumption, RL!Change, EditsInBounds

LEMMA EditsStart ==
  ASSUME RL!BoundAssumption, RL!Init
  PROVE  EditsInBounds
<1>1. edits = 0
  BY DEF RL!Init
<1> QED
  BY <1>1 DEF RL!BoundAssumption, EditsInBounds

LEMMA ReleaseTypes ==
  ASSUME RL!ArgumentsAssumption, ReleaseShape, EditsInBounds
  PROVE  RL!TypeOK
<1>1. AnyFiles = RL!Files
  BY PinsAreFiles DEF AnyFiles
<1> QED
  BY <1>1 DEF ReleaseShape, EditsInBounds, RL!TypeOK, RL!Process, RL!Manifest, RL!Signature,
     AnyManifest, AnySignature

\* The types hold for any keys, hashes, names, arguments and bounds: what is on
\* the host and in the hands of the agent is a manifest sign can have written,
\* with damage.
THEOREM ReleaseTypeCorrect ==
  ASSUME RL!NamesAssumption, RL!ArgumentsAssumption, RL!BoundAssumption
  PROVE  RL!Spec => []RL!TypeOK
BY ReleaseStart, ReleaseStep, EditsStart, EditsStep, ReleaseTypes, PTL DEF RL!Spec
=============================================================================
