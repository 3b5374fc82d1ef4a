---------------------------- MODULE MCHotStorage ----------------------------
(***************************************************************************)
(* Instances of HotStorage for TLC.                                        *)
(***************************************************************************)
EXTENDS HotStorageProperties, TLC

CONSTANTS w1, w2, alice, bob, a1, a2, c1, c2, s1, s2, d1, d2, d3, i1, i2, k1, k2

\* The ids, subjects and workers are interchangeable: no definition chooses
\* among them.  Used by the runs without liveness properties only.
Symmetry ==
  Permutations(Workers) \cup Permutations(Subjects) \cup Permutations(Addresses)
    \cup Permutations(SignerIds) \cup Permutations(DeviceIds)
    \cup Permutations(AccountIds) \cup Permutations(Keys)
=============================================================================
