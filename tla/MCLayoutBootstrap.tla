------------------------- MODULE MCLayoutBootstrap -------------------------
(***************************************************************************)
(* Instances of LayoutBootstrap for TLC.                                   *)
(***************************************************************************)
EXTENDS LayoutBootstrap

\* Every node in its first zone or in another one of its own.  The chart's
\* schema allows one zone redundancy only.
Placements == [roles : [Nodes -> Roles], redundancy : Redundancies]
=============================================================================
