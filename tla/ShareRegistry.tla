--------------------------- MODULE ShareRegistry ---------------------------
(***************************************************************************)
(* What the share store promises its clients, with no statements, no       *)
(* transactions and no failures: a registry of wallets.                    *)
(*                                                                         *)
(* A wallet is opened at once, with its signer and its one primary device, *)
(* under keys nobody else has.  It may be given secondary devices, and     *)
(* each of those may be revoked, once.  Nothing is ever taken back.        *)
(***************************************************************************)
EXTENDS FiniteSets

CONSTANTS Subjects, Addresses, SignerIds, DeviceIds, AccountIds

VARIABLES
  wallets,      \* opened wallets
  secondaries,  \* devices added to a wallet, by its signer
  revoked       \* ids of the secondary devices revoked

vars == <<wallets, secondaries, revoked>>

\* The primary device is kept as a set, so that a wallet seen with none or
\* with two is not a wallet.
Wallet == [acct : AccountIds, addr : Addresses, subj : Subjects,
           signer : SignerIds, primary : {{d} : d \in DeviceIds}]

Secondary == [dev : DeviceIds, signer : SignerIds]

UsedDevices == {s.dev : s \in secondaries} \cup UNION {x.primary : x \in wallets}

Open ==
  \E x \in Wallet :
    /\ \A y \in wallets : x.acct # y.acct /\ x.addr # y.addr /\ x.signer # y.signer
    /\ x.primary \cap UsedDevices = {}
    /\ wallets' = wallets \cup {x}
    /\ UNCHANGED <<secondaries, revoked>>

Add ==
  \E x \in wallets, d \in DeviceIds \ UsedDevices :
    /\ secondaries' = secondaries \cup {[dev |-> d, signer |-> x.signer]}
    /\ UNCHANGED <<wallets, revoked>>

Revoke ==
  \E s \in secondaries :
    /\ s.dev \notin revoked
    /\ revoked' = revoked \cup {s.dev}
    /\ UNCHANGED <<wallets, secondaries>>

\* A store may be carried over from an earlier release with one wallet in it.
Init ==
  /\ wallets = {} \/ \E x \in Wallet : wallets = {x}
  /\ secondaries = {}
  /\ revoked = {}

Next == Open \/ Add \/ Revoke

Spec == Init /\ [][Next]_vars
=============================================================================
