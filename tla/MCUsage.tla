------------------------------ MODULE MCUsage ------------------------------
(***************************************************************************)
(* Instances of Usage for TLC: concurrent calls are interchangeable.       *)
(***************************************************************************)
EXTENDS Usage, TLC

CallSymmetry == Permutations(Calls)
=============================================================================
