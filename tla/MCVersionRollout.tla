-------------------------- MODULE MCVersionRollout --------------------------
(***************************************************************************)
(* Instances of VersionRollout for TLC: the pinned releases of the three   *)
(* catalog lines, and two lines of which one has a later patch.            *)
(***************************************************************************)
EXTENDS VersionRollout

Catalog == {V(5, 7, 35), V(8, 0, 20), V(8, 4, 8)}
TwoLines == {V(8, 0, 20), V(8, 0, 34), V(8, 4, 8)}
=============================================================================
