----------------------------- MODULE MCSession ------------------------------
(***************************************************************************)
(* Instances of Session for TLC.                                           *)
(***************************************************************************)
EXTENDS Session

CONSTANTS h1, h2, alice, bob, native, moved1, moved2, former1, former2

\* moved1 and moved2 were imported by alice from two users of the old system.
Owners == [a \in Accounts |-> alice]

FormerUsers ==
  [a \in Accounts |-> CASE a = native -> None [] a = moved1 -> former1 [] OTHER -> former2]
=============================================================================
