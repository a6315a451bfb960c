--------------------------- MODULE MCSlotLifecycle ---------------------------
(***************************************************************************)
(* Two slots of one node.  Submitters do not differ.                       *)
(***************************************************************************)
EXTENDS SlotLifecycle, TLC

MCSlot == 1 .. 2

Symmetry == Permutations(Submitter)
=============================================================================
