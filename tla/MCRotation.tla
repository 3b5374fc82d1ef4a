----------------------------- MODULE MCRotation -----------------------------
(***************************************************************************)
(* Instances of Rotation for TLC.                                          *)
(***************************************************************************)
EXTENDS Rotation, TLC

CONSTANTS h1, h2, p1, p2

Symmetry == Permutations(Handlers) \cup Permutations(Projects)
=============================================================================
