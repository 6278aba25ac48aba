-------------------------------- MODULE Release --------------------------------
(***************************************************************************)
(* From the release keys to a running agent: the operator makes a key pair *)
(* and signs manifests, a host gets a manifest and a binary one after the  *)
(* other, and the agent, each time it is started, verifies the manifest    *)
(* and its own binary before it collects anything.                         *)
(*                                                                         *)
(* A signature is the key and what was signed (ed25519 is taken at its     *)
(* word); a hash stands for the contents of a file.                        *)
(***************************************************************************)
EXTENDS Naturals, Sequences, FiniteSetsExt

CONSTANTS
  Keys,        \* the key pairs; a key stands for both of its halves
  Hashes,      \* the contents a binary may have
  Bases,       \* the base names of files, "agent" among them
  Arguments,   \* what sign may be called with: sequences of files
  MaxChanges,  \* bound: changes of files, configuration and process
  None         \* no key, no hash, no signature

\* Assumed of the constants by the modules that give them values.
NamesAssumption ==
  /\ "agent" \in Bases
  /\ None \notin Keys \cup Hashes
  /\ {"", "malformed"} \cap Keys = {}
ArgumentsAssumption ==
  \A a \in Arguments : a \in Seq([base : Bases, hash : Hashes]) /\ a # << >>
BoundAssumption == MaxChanges \in Nat

VARIABLES
  keydir,    \* the directory of release.pub and release.key
  half,      \* the key pair keygen has written one half of
  signed,    \* history: the manifests sign wrote, with their arguments
  manifest,  \* the manifest file of the host, or None if it cannot be read
  binary,    \* the binary of the agent on the host
  conf,      \* the release section of the agent's configuration
  proc,      \* the agent process
  changes    \* how many changes there have been

operator == <<keydir, half, signed>>
host == <<manifest, binary, conf>>
vars == <<operator, host, proc, changes>>

-----------------------------------------------------------------------------
Files == UNION {[B -> Hashes] : B \in SUBSET Bases}

Signature == [by : Keys, files : Files]

Manifest == [files : Files, signature : Signature \cup {None}]

Conf == [manifestPath : BOOLEAN, publicKey : Keys \cup {"", "malformed"}, enforce : BOOLEAN]

Binary == [base : Bases, hash : Hashes]

\* image: what is executed; pub, files: the key and the verified manifest in
\* the hands of verifyRelease; checked: the hash that was found pinned.
Stopped == [pc |-> "stopped", conf |-> None, image |-> None, pub |-> None, files |-> None,
            checked |-> None]

\* Bound: what counts as a change.
Change == changes < MaxChanges /\ changes' = changes + 1

-----------------------------------------------------------------------------
(***************************************************************************)
(* autogov-sign.                                                           *)
(***************************************************************************)
\* keygen writes the public half first, over what is there.  A write that fails
\* may leave nothing that can be read, and ends it.
KeygenPublic(k) ==
  /\ half = None
  /\ k # keydir.pub /\ k # keydir.key
  /\ Change
  /\ \/ keydir' = [keydir EXCEPT !.pub = k] /\ half' = k
     \/ keydir' = [keydir EXCEPT !.pub = None] /\ UNCHANGED half
  /\ UNCHANGED <<signed, host, proc>>

\* The private half; if that fails, the directory holds no pair.
KeygenPrivate ==
  /\ half # None
  /\ \E k \in {half, keydir.key, None} : keydir' = [keydir EXCEPT !.key = k]
  /\ half' = None
  /\ UNCHANGED <<signed, host, proc, changes>>

\* The manifest maps base names to hashes: the last argument of a name counts.
Pins(args) ==
  [b \in {args[i].base : i \in DOMAIN args} |->
     args[Max({i \in DOMAIN args : args[i].base = b})].hash]

Signed(args) ==
  LET files == Pins(args)
  IN  [args |-> args,
       manifest |-> [files |-> files, signature |-> [by |-> keydir.key, files |-> files]]]

Sign(args) ==
  /\ keydir.key # None
  /\ Change
  /\ signed' = signed \cup {Signed(args)}
  /\ UNCHANGED <<keydir, half, host, proc>>

\* Faulty variant: the signature is checked against what was signed, not
\* against what the manifest says.
VerifyKeyOnly(m, pub) == m.signature # None /\ m.signature.by = pub

\* Manifest.Verify.
Verify(m, pub) == m.signature # None /\ m.signature = [by |-> pub, files |-> m.files]

-----------------------------------------------------------------------------
(***************************************************************************)
(* The host: a release arrives in two steps, and files can be damaged.     *)
(***************************************************************************)
CopyManifest ==
  /\ Change
  /\ \E s \in signed : manifest' = s.manifest
  /\ UNCHANGED <<operator, binary, conf, proc>>

\* Somebody edits the manifest, or the copy fails half-way; neither makes a
\* signature.
DamageManifest ==
  /\ Change
  /\ manifest # None
  /\ \/ manifest' = None
     \/ \E f \in Files : manifest' = [manifest EXCEPT !.files = f]
     \/ manifest' = [manifest EXCEPT !.signature = None]
  /\ UNCHANGED <<operator, binary, conf, proc>>

\* The binary is replaced, by a rename under its name.
InstallBinary ==
  /\ Change
  /\ \E h \in Hashes : binary' = [binary EXCEPT !.hash = h]
  /\ UNCHANGED <<operator, manifest, conf, proc>>

\* The public key comes from release.pub, or is mangled.
Configure ==
  /\ Change
  /\ conf' \in [manifestPath : BOOLEAN,
                publicKey : {"", "malformed"} \cup ({keydir.pub} \ {None}),
                enforce : BOOLEAN]
  /\ UNCHANGED <<operator, manifest, binary, proc>>

-----------------------------------------------------------------------------
(***************************************************************************)
(* The agent: New calls verifyRelease.                                     *)
(***************************************************************************)
Exec ==
  /\ proc.pc \in {"stopped", "refused"}
  /\ proc' = [Stopped EXCEPT !.pc = "starting", !.conf = conf, !.image = binary]
  /\ UNCHANGED <<operator, host, changes>>

\* failClosed: refused with Enforce, running with a warning without.
FailClosed == [proc EXCEPT !.pc = IF proc.conf.enforce THEN "refused" ELSE "running"]

\* No manifest or no key is configured: nothing is verified.
SkipVerification ==
  /\ proc.pc = "starting"
  /\ ~ proc.conf.manifestPath \/ proc.conf.publicKey = ""
  /\ proc' = [proc EXCEPT !.pc = "running"]
  /\ UNCHANGED <<operator, host, changes>>

ToVerify ==
  /\ proc.pc = "starting"
  /\ proc.conf.manifestPath
  /\ proc.conf.publicKey # ""

\* A key that is no key is fatal with and without Enforce.
RejectKey ==
  /\ ToVerify
  /\ proc.conf.publicKey = "malformed"
  /\ proc' = [proc EXCEPT !.pc = "refused"]
  /\ UNCHANGED <<operator, host, changes>>

CheckManifest ==
  /\ ToVerify
  /\ proc.conf.publicKey # "malformed"
  /\ proc' = IF manifest # None /\ Verify(manifest, proc.conf.publicKey)
             THEN [proc EXCEPT !.pc = "checking", !.pub = proc.conf.publicKey,
                               !.files = manifest.files]
             ELSE FailClosed
  /\ UNCHANGED <<operator, host, changes>>

\* Faulty variant: "agent" comes before the name of the binary.
WantedAgent(files, base) ==
  IF "agent" \in DOMAIN files THEN files["agent"]
  ELSE IF base \in DOMAIN files THEN files[base] ELSE None

\* The hash pinned for the name of the binary, or else for "agent".
Wanted(files, base) ==
  IF base \in DOMAIN files THEN files[base]
  ELSE IF "agent" \in DOMAIN files THEN files["agent"] ELSE None

\* The hash is that of the file the process was started from, as it is now.
CheckBinary ==
  /\ proc.pc = "checking"
  /\ proc' = IF binary.hash = Wanted(proc.files, proc.image.base)
             THEN [proc EXCEPT !.pc = "running", !.checked = binary.hash]
             ELSE FailClosed
  /\ UNCHANGED <<operator, host, changes>>

\* Stopped for an upgrade, or crashed.
Stop ==
  /\ proc.pc = "running"
  /\ Change
  /\ proc' = Stopped
  /\ UNCHANGED <<operator, host>>

-----------------------------------------------------------------------------
Init ==
  /\ keydir = [pub |-> None, key |-> None]
  /\ half = None
  /\ signed = {}
  /\ manifest = None
  /\ binary \in Binary
  /\ conf = [manifestPath |-> FALSE, publicKey |-> "", enforce |-> FALSE]
  /\ proc = Stopped
  /\ changes = 0

Agent == Exec \/ SkipVerification \/ RejectKey \/ CheckManifest \/ CheckBinary

Operator ==
  \/ \E k \in Keys : KeygenPublic(k)
  \/ KeygenPrivate
  \/ \E a \in Arguments : Sign(a)

Host == CopyManifest \/ DamageManifest \/ InstallBinary \/ Configure

Next == Operator \/ Host \/ Agent \/ Stop

\* The agent goes through its start, and whoever supervises it starts it again
\* when it has refused or was stopped.  Operators do as they like.
Spec == Init /\ [][Next]_vars /\ WF_vars(Agent)

-----------------------------------------------------------------------------
Process ==
  [pc : {"stopped", "starting", "checking", "running", "refused"},
   conf : Conf \cup {None}, image : Binary \cup {None}, pub : Keys \cup {None},
   files : Files \cup {None}, checked : Hashes \cup {None}]

TypeOK ==
  /\ keydir \in [pub : Keys \cup {None}, key : Keys \cup {None}]
  /\ half \in Keys \cup {None}
  /\ signed \subseteq [args : Arguments, manifest : Manifest]
  /\ manifest \in Manifest \cup {None}
  /\ binary \in Binary
  /\ conf \in Conf
  /\ proc \in Process
  /\ changes \in 0 .. MaxChanges

Enforced == proc.conf.enforce /\ proc.conf.manifestPath /\ proc.conf.publicKey # ""

PinnedBy(k, hash) ==
  \E s \in signed :
    /\ s.manifest.signature.by = k
    /\ \E b \in DOMAIN s.manifest.files : s.manifest.files[b] = hash

\* Whatever happens to the files of the host while the agent starts: with a
\* key and a manifest configured and Enforce set, an agent that runs has found
\* on its host a binary that the operator pinned in a manifest signed with
\* that key (verifyRelease, failClosed).
EnforcedIsPinned ==
  proc.pc = "running" /\ Enforced => PinnedBy(proc.conf.publicKey, proc.checked)

\* The manifest and the binary on the host belong together.
Settled ==
  /\ conf.manifestPath /\ conf.publicKey \in Keys
  /\ \E s \in signed :
       /\ s.manifest = manifest
       /\ s.manifest.signature.by = conf.publicKey
       /\ \E i \in DOMAIN s.args : s.args[i] = binary

\* A host on which the manifest and the binary of one release have both
\* arrived gets its agent running again, whatever an agent that started
\* between the two steps made of it (New, verifyRelease and the supervisor).
SettledHostRuns == Settled ~> (proc.pc = "running" \/ ~ Settled)
=============================================================================
