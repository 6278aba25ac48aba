------------------------------- MODULE AgentHost -------------------------------
(***************************************************************************)
(* The parts that run on a host: HostScan, Release and LineScan.  They     *)
(* share nothing, so that they are put one beside the other: a behaviour   *)
(* belongs to one part, and the others stay as they begin.                 *)
(***************************************************************************)
EXTENDS HostScan

\* The constants of the parts, by their names there but for MaxEdits.
CONSTANTS
  Keys, Hashes, Bases, Arguments, None,                     \* Release
  MaxEdits,                                                 \* its MaxChanges
  BufferSize, ReadLimit, MaxLines, MaxLine                  \* LineScan

VARIABLES
  part,                                                     \* whose behaviour it is
  keydir, half, signed, manifest, binary, conf, proc, edits,   \* Release
  file, reader, reading, at, read, found                    \* LineScan

RL == INSTANCE Release WITH changes <- edits, MaxChanges <- MaxEdits
LS == INSTANCE LineScan WITH pc <- reading

scanVars == vars
releaseVars == <<keydir, half, signed, manifest, binary, conf, proc, edits>>
lineVars == <<file, reader, reading, at, read, found>>
hostVars == <<part, scanVars, releaseVars, lineVars>>

-----------------------------------------------------------------------------
\* The parts that begin in more than one state do so if the behaviour is theirs.
HostInit ==
  /\ part \in {"scan", "release", "lines"}
  /\ Init
  /\ IF part = "release" THEN RL!Init ELSE binary = (CHOOSE b \in RL!Binary : TRUE) /\ RL!Init
  /\ IF part = "lines" THEN LS!Init ELSE file = << >> /\ reader = "grep" /\ LS!Init

HostNext ==
  \/ part = "scan" /\ Next /\ UNCHANGED <<part, releaseVars, lineVars>>
  \/ part = "release" /\ RL!Next /\ UNCHANGED <<part, scanVars, lineVars>>
  \/ part = "lines" /\ LS!Next /\ UNCHANGED <<part, scanVars, releaseVars>>

\* The fairness of HostScan and of Release, for a behaviour that is theirs.
HostSpec ==
  /\ HostInit
  /\ [][HostNext]_hostVars
  /\ WF_scanVars(part = "scan" /\ Scan)
  /\ WF_releaseVars(part = "release" /\ RL!Agent)

-----------------------------------------------------------------------------
\* The type invariants of the two parts that have one.
PartsTypeOK == TypeOK /\ RL!TypeOK

\* An agent that enforces a release runs what that release pins (Release).
EnforcedIsPinned == RL!EnforcedIsPinned

\* A host that is settled gets its agent running (Release).
SettledHostRuns == RL!SettledHostRuns

\* Lines that fit the buffer are read up to the limit (LineScan).
ShortLinesAreRead == LS!ShortLinesAreRead
=============================================================================
