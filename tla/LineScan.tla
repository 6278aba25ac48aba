-------------------------------- MODULE LineScan --------------------------------
(***************************************************************************)
(* How the collectors read text files line by line: grepFile, which looks  *)
(* for a name in the first part of a file, and parseCrontab, which takes   *)
(* every line.  Both use a scanner whose buffer holds a line of limited    *)
(* length, and neither asks it whether it has come to the end of the file. *)
(***************************************************************************)
EXTENDS Naturals, Sequences, FiniteSetsExt

CONSTANTS
  BufferSize,  \* bytes of the buffer of the scanner (64 K)
  ReadLimit,   \* grepFile reads on while it has read less (256 K)
  MaxLines,    \* bound: the lines of a file
  MaxLine      \* bound: the bytes of a line

\* Assumed of the constants by the modules that give them values.
SizeAssumption == BufferSize \in Nat \ {0} /\ ReadLimit \in Nat \ {0}
BoundAssumption == MaxLines \in Nat /\ MaxLine \in Nat

\* A line: its bytes without the line end, and whether it holds what is looked
\* for: the name in grepFile, an automation in parseCrontab.
Line == {l \in [len : 0 .. MaxLine, hit : BOOLEAN] : l.hit => l.len > 0}

VARIABLES
  file,    \* the lines
  reader,  \* "grep" or "cron"
  pc,      \* "scan" or "done"
  at,      \* the lines that have been scanned
  read,    \* the bytes grepFile counts
  found    \* the numbers of the lines that were hits

vars == <<file, reader, pc, at, read, found>>

-----------------------------------------------------------------------------
\* A line fits if the buffer has room for it and its line end, or for one byte
\* more when the file ends with it: a full buffer without a line end is an error.
FitsBuffer(n) == file[n].len + 1 <= BufferSize

\* sc.Scan gives a line, or stops: at the end of the file or at a line that is
\* too long, with an error nobody asks for.
More == at < Len(file) /\ FitsBuffer(at + 1)

Stop ==
  /\ pc = "scan"
  /\ ~ More
  /\ pc' = "done"
  /\ UNCHANGED <<file, reader, at, read, found>>

\* grepFile: a line is scanned, and looked at if less than the limit has been
\* read before; the first hit is the answer.  Line ends are not counted.
Grep ==
  /\ reader = "grep"
  /\ pc = "scan"
  /\ More
  /\ LET n == at + 1
     IN  IF read >= ReadLimit THEN pc' = "done" /\ UNCHANGED <<read, found>>
         ELSE /\ read' = read + file[n].len
              /\ found' = IF file[n].hit THEN {n} ELSE {}
              /\ pc' = IF file[n].hit THEN "done" ELSE "scan"
  /\ at' = at + 1
  /\ UNCHANGED <<file, reader>>

\* Faulty variant: the first automation ends the reading of a crontab.
ParseFirst ==
  /\ reader = "cron"
  /\ pc = "scan"
  /\ More
  /\ at' = at + 1
  /\ found' = found \cup (IF file[at + 1].hit THEN {at + 1} ELSE {})
  /\ pc' = IF file[at + 1].hit THEN "done" ELSE "scan"
  /\ UNCHANGED <<file, reader, read>>

\* parseCrontab: each line that looks like an automation is taken.
Parse ==
  /\ reader = "cron"
  /\ pc = "scan"
  /\ More
  /\ at' = at + 1
  /\ found' = found \cup (IF file[at + 1].hit THEN {at + 1} ELSE {})
  /\ UNCHANGED <<file, reader, pc, read>>

-----------------------------------------------------------------------------
Init ==
  /\ file \in UNION {[1 .. n -> Line] : n \in 0 .. MaxLines}
  /\ reader \in {"grep", "cron"}
  /\ pc = "scan"
  /\ at = 0
  /\ read = 0
  /\ found = {}

Next == Grep \/ Parse \/ Stop

Spec == Init /\ [][Next]_vars

-----------------------------------------------------------------------------
\* The byte at which a line begins, counted with line ends.
Begin(n) == MapThenSumSet(LAMBDA k : file[k].len + 1, 1 .. n - 1)

Hits == {n \in DOMAIN file : file[n].hit}

InLimit(n) == Begin(n) + file[n].len <= ReadLimit
Short(n)   == \A k \in 1 .. n : file[k].len + 1 <= BufferSize

\* "grepFile reports whether needle occurs in the first 256KB of a file": of a
\* file whose lines fit the buffer it does, wherever the limit falls, and it
\* reports nothing that is not there; and no line of such a crontab is missed.
ShortLinesAreRead ==
  pc = "done" =>
    /\ found \subseteq Hits
    /\ reader = "grep" /\ (\E n \in Hits : InLimit(n) /\ Short(n)) => found # {}
    /\ reader = "cron" => \A n \in Hits : Short(n) => n \in found
=============================================================================
