---------------------------- MODULE ObservationLog ---------------------------
(***************************************************************************)
(* What the control plane promises of the observations it is sent: each is *)
(* applied at most once, and a restart takes the inventory back to the     *)
(* last snapshot and nowhere else.  An observation becomes exempt when the *)
(* record that it was seen has been pruned; it may then be applied again.  *)
(***************************************************************************)
EXTENDS Sequences

VARIABLES
  log,    \* the observations applied to the inventory, in order
  saved,  \* the log as of the last snapshot
  exempt  \* observations that may be applied more than once

vars == <<log, saved, exempt>>

Init == log = << >> /\ saved = << >> /\ exempt = {}

Apply(o) ==
  /\ o \in exempt \/ \A i \in DOMAIN log : log[i] # o
  /\ log' = Append(log, o)
  /\ UNCHANGED <<saved, exempt>>

Save == saved' = log /\ UNCHANGED <<log, exempt>>

Restore == log' = saved /\ UNCHANGED <<saved, exempt>>

Exempt == exempt \subseteq exempt' /\ UNCHANGED <<log, saved>>

\* What is applied is some element of the new log; nothing else bounds it.
Next == (\E i \in DOMAIN log' : Apply(log'[i])) \/ Save \/ Restore \/ Exempt

Spec == Init /\ [][Next]_vars
=============================================================================
