---------------------------- MODULE ShareTables ----------------------------
(***************************************************************************)
(* The tables of the hot-storage share store as Postgres keeps them, and   *)
(* the encrypted share column.                                             *)
(*                                                                         *)
(* A table is the set of its committed rows.  tx[w] holds the rows an open *)
(* transaction of request w has inserted: READ COMMITTED shows them to w   *)
(* alone, and their unique keys stay locked until w commits or rolls back. *)
(* Timestamps, chain types, wallet names and the soft-delete time are left *)
(* out; `deleted' says only whether deleted_at is set.                     *)
(***************************************************************************)
EXTENDS Naturals, FiniteSets

CONSTANTS
  Workers,      \* requests the server can have in flight at once
  Subjects,     \* (username, auth_provider) pairs; every query matches both
  Addresses,
  Chains,
  SignerIds,
  DeviceIds,
  AccountIds,
  Keys,         \* values of SHARE_ENCRYPTION_KEY
  None          \* SQL NULL, and a column or field that is not set

ASSUME NoneAssumption ==
  None \notin Workers \cup Subjects \cup Addresses \cup Chains
              \cup SignerIds \cup DeviceIds \cup AccountIds \cup Keys

VARIABLES
  signers,      \* set of signer ids
  devices,      \* set of Device rows
  accounts,     \* set of Account rows
  migrated,     \* set of account ids that have a MigratedAccountData row
  tx,           \* rows inserted by each request's open transaction
  key           \* shareEncryptionKey of the running process

tables == <<signers, devices, accounts, migrated>>

(***************************************************************************)
(* The share column.  A plaintext share is known by who submitted it, for  *)
(* the wallet at which address, in which device row.                       *)
(***************************************************************************)
Secret == [by : Subjects, addr : Addresses, dev : DeviceIds]

Ciphertext == [fmt    : {"v2", "legacy", "empty"},
               sealed : DeviceIds \cup {None},
               key    : Keys \cup {None},
               secret : Secret \cup {None}]

Cleared == [fmt |-> "empty", sealed |-> None, key |-> None, secret |-> None]

\* AES-GCM under the process key, the device id as additional data.
encryptShare(secret, id) ==
  [fmt |-> "v2", sealed |-> id, key |-> key, secret |-> secret]

\* Slip: the additional data is not checked.
DecryptsAnywhere(d) == d.share.fmt = "v2" /\ d.share.key = key

\* decryptShare succeeds on the stored column of row d.
Decrypts(d) ==
  /\ d.share.fmt = "v2"
  /\ d.share.sealed = d.id
  /\ d.share.key = key

----------------------------------------------------------------------------
Device == [id : DeviceIds, share : Ciphertext, primary : BOOLEAN,
           signer : SignerIds, revoked : BOOLEAN]

Account == [id : AccountIds, addr : Addresses, subj : Subjects,
            chain : Chains, signer : SignerIds, deleted : BOOLEAN]

Writes == [signers : SUBSET SignerIds, devices : SUBSET Device,
           accounts : SUBSET Account, migrated : SUBSET AccountIds]

\* NULL is not a row.
ASSUME RowsAssumption == None \notin Secret \cup Account \cup Device

NoWrites == [signers |-> {}, devices |-> {}, accounts |-> {}, migrated |-> {}]

TablesTypeOK ==
  /\ signers \subseteq SignerIds
  /\ devices \subseteq Device
  /\ accounts \subseteq Account
  /\ migrated \subseteq AccountIds
  /\ tx \in [Workers -> Writes]
  /\ key \in Keys \cup {None}

\* newDevice: a row and a ciphertext bound to that row's id, never two ids.
newDevice(id, secret, signer, isPrimary) ==
  [id |-> id, share |-> encryptShare(secret, id), primary |-> isPrimary,
   signer |-> signer, revoked |-> FALSE]

----------------------------------------------------------------------------
(***************************************************************************)
(* Queries over committed rows.                                            *)
(***************************************************************************)
\* gorm adds "deleted_at IS NULL" to a query on accounts unless Unscoped.
LiveAccounts(s) == {a \in accounts : a.subj = s /\ ~a.deleted}

\* Slip: a scoped lookup, blind to soft-deleted holders of the address.
ScopedHolders(addr) == {a \in accounts : a.addr = addr /\ ~a.deleted}

\* The Unscoped lookup by address.
Holders(addr) == {a \in accounts : a.addr = addr}

\* ownedDeviceSQL is raw SQL: its subquery also sees soft-deleted accounts.
Owned(s) == {d \in devices : \E a \in accounts : a.subj = s /\ a.signer = d.signer}

\* Slip: the IDOR the source warns of, no ownership predicate.
LiveAnyone(s) == {d \in devices : ~d.revoked}

LiveOwned(s) == {d \in Owned(s) : ~d.revoked}

PrimaryOf(signer) ==
  {d \in devices : d.signer = signer /\ d.primary /\ ~d.revoked}

----------------------------------------------------------------------------
(***************************************************************************)
(* Unique keys: signers.id, devices.id, accounts.id, accounts.address and  *)
(* migrated_account_data.id.  An insert that meets a committed row with    *)
(* its key fails; one that meets an uncommitted row of another transaction *)
(* waits for that transaction to end.                                      *)
(***************************************************************************)
Others(w) == Workers \ {w}

SignerLocked(w, s) == \E v \in Others(w) : s \in tx[v].signers

AccountLocked(w, id, addr) ==
  \E v \in Others(w) : \E a \in tx[v].accounts : a.id = id \/ a.addr = addr

MigratedLocked(w, id) == \E v \in Others(w) : id \in tx[v].migrated

\* Slip: a primary key without its unique index.
SignerNeverTaken(s) == FALSE

SignerTaken(s) == s \in signers

AccountTaken(id, addr) == \E a \in accounts : a.id = id \/ a.addr = addr

\* Ids of rows that exist or may come to exist; a minted uuid is none of these.
UsedDeviceIds ==
  {d.id : d \in devices} \cup UNION {{d.id : d \in tx[w].devices} : w \in Workers}

UsedAccountIds ==
  {a.id : a \in accounts} \cup migrated
    \cup UNION {{a.id : a \in tx[w].accounts} : w \in Workers}
=============================================================================
