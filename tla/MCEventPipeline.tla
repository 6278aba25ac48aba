--------------------------- MODULE MCEventPipeline ---------------------------
(***************************************************************************)
(* EventPipeline for TLC.                                                  *)
(***************************************************************************)
EXTENDS EventPipeline, TLC

\* Handler slots are interchangeable.
SlotSymmetry == Permutations(Slots)
=============================================================================
