-------------------------- MODULE MCFindingLifecycle --------------------------
(***************************************************************************)
(* FindingLifecycle for TLC.                                               *)
(***************************************************************************)
EXTENDS FindingLifecycle

\* Every rule matches every instance.
AllMatch == Rules \X Instances
=============================================================================
