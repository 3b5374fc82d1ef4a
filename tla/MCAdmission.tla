---------------------------- MODULE MCAdmission -----------------------------
(***************************************************************************)
(* Instances of Admission for TLC.                                         *)
(***************************************************************************)
EXTENDS Admission

CONSTANTS r1, r2, listed, spaced, foreign

Keys == [u \in Urls |-> IF u = default THEN 2 ELSE 1]

List == {[origin |-> listed, spaces |-> FALSE], [origin |-> spaced, spaces |-> TRUE]}
=============================================================================
