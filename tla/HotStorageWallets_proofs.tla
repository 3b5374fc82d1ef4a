---------------------- MODULE HotStorageWallets_proofs ----------------------
(***************************************************************************)
(* The wallets of HotStorage: accounts never share a key, their rows exist *)
(* together, and each has exactly one primary device.                      *)
(*                                                                         *)
(* None of the three is inductive alone.  What is: they hold of the        *)
(* committed rows, an open transaction holds exactly the rows its handler  *)
(* has inserted so far, and its unique keys are apart from the committed   *)
(* ones and from those of every other open transaction.                    *)
(***************************************************************************)
EXTENDS HotStorage_proofs

InTx == {"insertDevice", "insertAccount", "insertMigrated", "commit"}

\* The committed rows.
StoredOK ==
  /\ OneAccountPerKey
  /\ NoOrphans
  /\ OnePrimary
  /\ \A a \in accounts : a.signer \in signers
  /\ \A d \in devices : d.signer \in signers
  /\ \A d \in devices : d.revoked => ~d.primary

\* The one device row of a transaction that opens a wallet for request r.
StagesPrimary(t, r) ==
  \E d \in Device : /\ t.devices = {d} /\ d.signer = r.signer
                    /\ d.primary /\ ~d.revoked

\* The rows of w's transaction, by how far its handler has come.
StagedOK(w) ==
  LET j == job[w]
      t == tx[w]
  IN \/ j.pc \notin InTx /\ t = NoWrites
     \/ /\ j.pc = "insertDevice"
        /\ t.signers = {j.req.signer}
        /\ t.devices = {} /\ t.accounts = {} /\ t.migrated = {}
     \/ /\ j.pc = "insertAccount"
        /\ t.signers = {j.req.signer} /\ StagesPrimary(t, j.req)
        /\ t.accounts = {} /\ t.migrated = {}
     \/ /\ j.pc \in {"insertMigrated", "commit"}
        /\ t.signers = {j.req.signer} /\ StagesPrimary(t, j.req)
        /\ t.accounts = {NewAccount(j.req)} /\ t.migrated \subseteq {j.req.acct}
     \/ /\ j.pc = "commit"
        /\ t.signers = {} /\ t.accounts = {} /\ t.migrated = {}
        /\ \E d \in Device : /\ t.devices = {d} /\ d.signer \in signers
                             /\ ~d.primary /\ ~d.revoked

\* The unique keys w's transaction holds are nobody else's.
ApartOK(w) ==
  /\ signers \cap tx[w].signers = {}
  /\ \A a \in accounts, b \in tx[w].accounts : a.id # b.id /\ a.addr # b.addr
  /\ \A v \in Others(w) :
       /\ tx[v].signers \cap tx[w].signers = {}
       /\ \A a \in tx[v].accounts, b \in tx[w].accounts : a.id # b.id /\ a.addr # b.addr

FoundOK(w) ==
  job[w].pc \in {"readPrimary", "addDevice", "txAddDevice"} =>
    job[w].found.signer \in signers

WalletInv ==
  /\ TypeInv
  /\ StoredOK
  /\ \A w \in Workers : StagedOK(w) /\ ApartOK(w) /\ FoundOK(w)

----------------------------------------------------------------------------
\* Replying, reading and waiting leave every other job as it is.
LEMMA JobsElsewhere ==
  ASSUME TypeInv, NEW w \in Workers, NEW resp, Reply(w, resp)
  PROVE  /\ job'[w].pc = "answer" /\ job'[w].found = job[w].found
         /\ \A v \in Others(w) : job'[v] = job[v]
BY DEF Reply, TypeInv, TypeOK, Job, Others

Unaltered == UNCHANGED <<signers, devices, accounts, migrated, tx>>

WalletsOK ==
  StoredOK /\ \A w \in Workers : StagedOK(w) /\ ApartOK(w) /\ FoundOK(w)

\* A step of w outside a transaction that changes no table.
LEMMA QuietStep ==
  ASSUME WalletInv, NEW w \in Workers,
         Unaltered,
         \A v \in Others(w) : job'[v] = job[v],
         job[w].pc \notin InTx, job'[w].pc \notin InTx,
         FoundOK(w)'
  PROVE  WalletsOK'
<1>1. StoredOK'
  BY DEF Unaltered, WalletInv, StoredOK, OneAccountPerKey, NoOrphans, OnePrimary, PrimaryOf
<1>2. StagedOK(w)'
  BY DEF Unaltered, WalletInv, StagedOK, InTx
<1>3. ASSUME NEW v \in Others(w)
      PROVE  StagedOK(v)' /\ FoundOK(v)'
  BY <1>3 DEF Unaltered, WalletInv, StagedOK, FoundOK, Others, StagesPrimary, NewAccount, StoredAddress
<1>4. \A v \in Workers : ApartOK(v)'
  BY DEF Unaltered, WalletInv, ApartOK, Others
<1> QED  BY <1>1, <1>2, <1>3, <1>4 DEF Others, WalletsOK

LEMMA FoundStored ==
  ASSUME WalletInv, NEW a \in accounts
  PROVE  a.signer \in signers
BY DEF WalletInv, StoredOK

\* The handlers' reads and answers, outside transactions.
LEMMA ReadsWallets ==
  ASSUME WalletInv, NEW w \in Workers,
         \/ RegisterDeviceV2(w) \/ CreateDevice(w) \/ RecoverDeviceV2(w)
         \/ InitDevice(w) \/ GetPrimaryDevice(w) \/ GetMigratedAccountData(w)
  PROVE  WalletsOK'
<1> DEFINE next == {"readPrimary", "addDevice", "readMigrated"}
<1>1. /\ job[w].pc = "start"
      /\ \E rows \in SUBSET accounts, resp \in Reported, n \in next :
           ReadAccount(w, rows, n, resp)
  <2>1. job[w].pc = "start"
    BY DEF RegisterDeviceV2, CreateDevice, RecoverDeviceV2, InitDevice,
           GetPrimaryDevice, GetMigratedAccountData, At
  <2>2. /\ MyAccount(job[w].req) \in SUBSET accounts
        /\ LiveAccounts(job[w].req.subj) \in SUBSET accounts
        /\ {a \in LiveAccounts(job[w].req.subj) : a.chain = job[w].req.chain} \in SUBSET accounts
    BY DEF MyAccount, LiveAccounts
  <2>3. Status(400) \in Reported /\ Status(200) \in Reported /\ Status(404) \in Reported
    BY StatusType
  <2> QED  BY <2>1, <2>2, <2>3
           DEF RegisterDeviceV2, CreateDevice, RecoverDeviceV2, InitDevice,
               GetPrimaryDevice, GetMigratedAccountData
<1>2. PICK rows \in SUBSET accounts, resp \in Reported, n \in next :
        ReadAccount(w, rows, n, resp)
  BY <1>1
<1>3. TypeInv /\ job \in [Workers -> Job]
  BY DEF WalletInv, TypeInv, TypeOK
<1>4. /\ job'[w].pc \notin InTx
      /\ FoundOK(w)'
      /\ \A v \in Others(w) : job'[v] = job[v]
  <2>1. CASE Reply(w, resp)
    BY <1>2, <1>3, <2>1, JobsElsewhere DEF InTx, WalletInv, FoundOK, ReadAccount, tables
  <2>2. ASSUME NEW a \in rows, job' = [job EXCEPT ![w].found = a, ![w].pc = n]
        PROVE  /\ job'[w].pc \notin InTx
               /\ FoundOK(w)'
               /\ \A v \in Others(w) : job'[v] = job[v]
    <3>1. job'[w].pc = n /\ job'[w].found = a /\ \A v \in Others(w) : job'[v] = job[v]
      BY <1>3, <2>2 DEF Job, Others
    <3>2. a.signer \in signers /\ signers' = signers
      BY <1>2, FoundStored DEF ReadAccount, tables
    <3> QED  BY <3>1, <3>2 DEF FoundOK, InTx
  <2> QED  BY <1>2, <2>1, <2>2 DEF ReadAccount
<1> QED  BY <1>1, <1>2, <1>4, QuietStep DEF ReadAccount, tables, InTx, Unaltered

LEMMA AnswersWallets ==
  ASSUME WalletInv, NEW w \in Workers, NEW resp, Query(w, resp),
         job[w].pc \notin InTx
  PROVE  WalletsOK'
<1>1. TypeInv /\ Reply(w, resp) /\ Unaltered
  BY DEF WalletInv, Query, tables, Unaltered
<1>2. job'[w].pc = "answer" /\ job'[w].found = job[w].found
      /\ \A v \in Others(w) : job'[v] = job[v]
  BY <1>1, JobsElsewhere
<1>3. FoundOK(w)'
  BY <1>2 DEF FoundOK
<1> QED  BY <1>1, <1>2, <1>3, QuietStep DEF InTx

LEMMA QueriesWallets ==
  ASSUME WalletInv, NEW w \in Workers,
         \/ ReadPrimary(w) \/ GetDevice(w) \/ GetSignerV2(w) \/ ListAccountsV2(w)
         \/ ListDevicesRead(w) \/ ListDevicesV2(w) \/ ReadMigrated(w)
  PROVE  WalletsOK'
<1>1. job[w].pc \notin InTx
  BY DEF ReadPrimary, GetDevice, GetSignerV2, ListAccountsV2, ListDevicesRead,
         ListDevicesV2, ReadMigrated, At, InTx
<1>2. \E resp : Query(w, resp)
  BY DEF ReadPrimary, GetDevice, GetSignerV2, ListAccountsV2, ListDevicesRead,
         ListDevicesV2, ReadMigrated, ServeShare
<1> QED  BY <1>1, <1>2, AnswersWallets

LEMMA JobsWallets ==
  ASSUME WalletInv, NEW w \in Workers,
         Receive(w) \/ RevokeDeviceV2(w) \/ ListDevices(w) \/ Respond(w)
  PROVE  WalletsOK'
<1>1. TypeInv /\ job \in [Workers -> Job] /\ Unaltered
  BY DEF WalletInv, TypeInv, TypeOK, Receive, RevokeDeviceV2, ListDevices, Respond,
         tables, Unaltered
<1>2. job[w].pc \notin InTx
  BY DEF Receive, RevokeDeviceV2, ListDevices, Respond, At, InTx
<1>3. CASE Receive(w)
  <2>1. PICK j : job' = [job EXCEPT ![w] = j] /\ j.pc = "start"
    <3>1. PICK r, p :
            job' = [job EXCEPT ![w] = [NoJob EXCEPT !.pc = "start", !.req = r, !.past = p]]
      BY <1>3 DEF Receive
    <3>2. [NoJob EXCEPT !.pc = "start", !.req = r, !.past = p].pc = "start"
      BY NoJobType DEF Job
    <3> QED  BY <3>1, <3>2
  <2>2. job'[w].pc = "start" /\ \A v \in Others(w) : job'[v] = job[v]
    BY <1>1, <2>1 DEF Others
  <2> QED  BY <1>1, <1>2, <2>2, QuietStep DEF InTx, FoundOK
<1>4. CASE Respond(w)
  <2>1. job'[w].pc = "idle" /\ \A v \in Others(w) : job'[v] = job[v]
    BY <1>1, <1>4, NoJobType DEF Respond, Others
  <2> QED  BY <1>1, <1>2, <2>1, QuietStep DEF InTx, FoundOK
<1>5. CASE RevokeDeviceV2(w)
  <2>1. PICK j : job' = [job EXCEPT ![w] = j] /\ j.pc \in {"answer", "revoke"}
    <3>1. ASSUME NEW resp, Reply(w, resp)
          PROVE  \E j : job' = [job EXCEPT ![w] = j] /\ j.pc = "answer"
      <4>1. job' = [job EXCEPT ![w] = [job[w] EXCEPT !.pc = "answer", !.resp = resp]]
            /\ [job[w] EXCEPT !.pc = "answer", !.resp = resp].pc = "answer"
        BY <1>1, <3>1 DEF Reply, Job
      <4> QED  BY <4>1
    <3>2. ASSUME NEW d, job' = [job EXCEPT ![w].row = d, ![w].pc = "revoke"]
          PROVE  \E j : job' = [job EXCEPT ![w] = j] /\ j.pc = "revoke"
      <4>1. job' = [job EXCEPT ![w] = [job[w] EXCEPT !.row = d, !.pc = "revoke"]]
            /\ [job[w] EXCEPT !.row = d, !.pc = "revoke"].pc = "revoke"
        BY <1>1, <3>2 DEF Job
      <4> QED  BY <4>1
    <3> QED  BY <1>5, <3>1, <3>2 DEF RevokeDeviceV2
  <2>2. job'[w].pc \in {"answer", "revoke"} /\ \A v \in Others(w) : job'[v] = job[v]
    BY <1>1, <2>1 DEF Others
  <2> QED  BY <1>1, <1>2, <2>2, QuietStep DEF InTx, FoundOK
<1>6. CASE ListDevices(w)
  <2>1. job'[w].pc = "readDevices" /\ \A v \in Others(w) : job'[v] = job[v]
    BY <1>1, <1>6 DEF ListDevices, Job, Others
  <2> QED  BY <1>1, <1>2, <2>1, QuietStep DEF InTx, FoundOK
<1> QED  BY <1>3, <1>4, <1>5, <1>6

LEMMA ChecksWallets ==
  ASSUME WalletInv, NEW w \in Workers,
         CreateDeviceV2(w) \/ ImportShare(w) \/ RegisterDevice(w)
  PROVE  WalletsOK'
<1>1. /\ TypeInv /\ job \in [Workers -> Job] /\ Unaltered /\ job[w].pc = "start"
  BY DEF WalletInv, TypeInv, TypeOK, CreateDeviceV2, ImportShare, RegisterDevice,
         CheckAddress, At, tables, Unaltered
<1>2. /\ job'[w].pc \notin InTx
      /\ job'[w].pc \in {"readPrimary", "addDevice", "txAddDevice"} =>
           \E a \in accounts : job'[w].found = a
      /\ \A v \in Others(w) : job'[v] = job[v]
  <2>1. CASE Reply(w, Status(409)) \/ Goto(w, "insertSigner")
    BY <1>1, <2>1 DEF Reply, Goto, Job, InTx, Others
  <2>2. ASSUME NEW a \in accounts,
               job' = [job EXCEPT ![w].found = a, ![w].pc = "txAddDevice"]
        PROVE  /\ job'[w].pc \notin InTx /\ job'[w].found = a
               /\ \A v \in Others(w) : job'[v] = job[v]
    BY <1>1, <2>2 DEF Job, InTx, Others
  <2> QED  BY <2>1, <2>2
           DEF CreateDeviceV2, ImportShare, RegisterDevice, CheckAddress, LiveAccounts
<1>3. FoundOK(w)'
  BY <1>1, <1>2, FoundStored DEF WalletInv, FoundOK, Unaltered
<1> QED  BY <1>1, <1>2, <1>3, QuietStep DEF InTx

\* Committing a secondary device: the primary devices stay what they are.
LEMMA SecondaryStored ==
  ASSUME StoredOK, NEW d, d.signer \in signers, ~d.primary, ~d.revoked,
         devices' = devices \cup {d},
         signers' = signers, accounts' = accounts, migrated' = migrated
  PROVE  StoredOK'
<1>1. \A s : PrimaryOf(s)' = PrimaryOf(s)
  BY DEF PrimaryOf
<1>2. OnePrimary'
  BY <1>1 DEF StoredOK, OnePrimary
<1>3. NoOrphans'
  BY DEF StoredOK, NoOrphans
<1> QED  BY <1>2, <1>3 DEF StoredOK, OneAccountPerKey

\* The invariant of open transactions when only devices and the job of w,
\* which holds none, change.
LEMMA OutsideTx ==
  ASSUME WalletInv, NEW w \in Workers, StoredOK',
         UNCHANGED <<signers, accounts, migrated, tx>>,
         \A v \in Others(w) : job'[v] = job[v],
         job[w].pc \notin InTx, job'[w].pc \notin InTx,
         FoundOK(w)'
  PROVE  WalletsOK'
<1>1. StagedOK(w)' /\ FoundOK(w)'
  BY DEF WalletInv, StagedOK, InTx
<1>2. ASSUME NEW v \in Others(w)
      PROVE  StagedOK(v)' /\ FoundOK(v)'
  BY <1>2 DEF WalletInv, StagedOK, FoundOK, Others, StagesPrimary, NewAccount, StoredAddress
<1>3. \A v \in Workers : ApartOK(v)'
  BY DEF WalletInv, ApartOK, Others
<1> QED  BY <1>1, <1>2, <1>3 DEF Others, WalletsOK

LEMMA AddDeviceWallets ==
  ASSUME WalletInv, NEW w \in Workers, AddDevice(w) \/ AddDeviceReplyLost(w)
  PROVE  WalletsOK'
<1>1. /\ TypeInv /\ job[w].pc = "addDevice" /\ devices' = devices \cup {Secondary(w)}
      /\ UNCHANGED <<signers, accounts, migrated, tx>>
  BY DEF AddDevice, AddDeviceReplyLost, WalletInv
<1>2. job[w].found \in Account /\ job[w].found.signer \in signers
  BY <1>1 DEF WalletInv, TypeInv, PlaceOK, FoundOK
<1>3. Secondary(w).signer \in signers /\ ~Secondary(w).primary /\ ~Secondary(w).revoked
  BY <1>2 DEF Secondary, newDevice
<1>4. StoredOK'
  BY <1>1, <1>3, SecondaryStored DEF WalletInv
<1>5. job'[w].pc = "answer" /\ job'[w].found = job[w].found
      /\ \A v \in Others(w) : job'[v] = job[v]
  BY <1>1, JobsElsewhere DEF AddDevice, AddDeviceReplyLost
<1> QED  BY <1>1, <1>4, <1>5, OutsideTx DEF InTx, FoundOK

LEMMA RevokeWallets ==
  ASSUME WalletInv, NEW w \in Workers, RevokeUpdate(w) \/ RevokeReplyLost(w)
  PROVE  WalletsOK'
<1> DEFINE rows == Revocable(job[w].row.id)
<1>1. /\ TypeInv /\ job[w].pc = "revoke" /\ ClearRows(rows)
      /\ UNCHANGED <<signers, accounts, migrated, tx>>
      /\ \E resp : Reply(w, resp)
  BY DEF RevokeUpdate, RevokeReplyLost, WalletInv
<1>2. \A d \in rows : d \in devices /\ d \in Device /\ ~d.primary
  BY DEF Revocable, WalletInv, TypeInv, TypeOK, TablesTypeOK
<1> HIDE DEF rows
<1>3. \A d \in rows : LET e == [d EXCEPT !.share = Cleared, !.revoked = TRUE] IN
        e.signer = d.signer /\ e.revoked /\ ~e.primary
  BY <1>2 DEF Device
<1>4. \A s : PrimaryOf(s)' = PrimaryOf(s)
  BY <1>1, <1>2, <1>3 DEF PrimaryOf, ClearRows
<1>5. \A d \in devices' : d \notin devices =>
        (\E x \in devices : d.signer = x.signer) /\ ~d.primary
  <2>1. ASSUME NEW d \in devices', d \notin devices
        PROVE  (\E x \in devices : d.signer = x.signer) /\ ~d.primary
    <3>1. PICK x \in rows : d = [x EXCEPT !.share = Cleared, !.revoked = TRUE]
      BY <1>1, <2>1 DEF ClearRows
    <3>2. x \in devices /\ d.signer = x.signer
      BY <1>2, <1>3, <3>1
    <3>3. ~d.primary
      BY <1>3, <3>1
    <3> QED  BY <3>2, <3>3
  <2> QED  BY <2>1
<1>6. OnePrimary'
  <2>1. ASSUME NEW a \in accounts
        PROVE  \E d \in devices' : PrimaryOf(a.signer)' = {d}
    <3>1. PICK d \in devices : PrimaryOf(a.signer) = {d}
      BY DEF WalletInv, StoredOK, OnePrimary
    <3>2. d \in PrimaryOf(a.signer)'
      BY <1>4, <3>1
    <3> QED  BY <1>4, <3>1, <3>2 DEF PrimaryOf
  <2> QED  BY <1>1, <2>1 DEF OnePrimary
<1>7. StoredOK'
  BY <1>1, <1>5, <1>6 DEF WalletInv, StoredOK, OneAccountPerKey, NoOrphans
<1>8. job'[w].pc = "answer" /\ job'[w].found = job[w].found
      /\ \A v \in Others(w) : job'[v] = job[v]
  BY <1>1, JobsElsewhere
<1> QED  BY <1>1, <1>7, <1>8, OutsideTx DEF InTx, FoundOK

----------------------------------------------------------------------------
\* The keys in t are apart from the committed ones and from other transactions.
Clear(w, t) ==
  /\ signers \cap t.signers = {}
  /\ \A a \in accounts, b \in t.accounts : a.id # b.id /\ a.addr # b.addr
  /\ \A v \in Others(w) :
       /\ tx[v].signers \cap t.signers = {}
       /\ \A a \in tx[v].accounts, b \in t.accounts : a.id # b.id /\ a.addr # b.addr

\* A step of w that changes its transaction and its job only.
LEMMA TxStep ==
  ASSUME WalletInv, NEW w \in Workers, NEW t \in Writes,
         UNCHANGED <<signers, devices, accounts, migrated>>,
         tx' = [tx EXCEPT ![w] = t],
         \A v \in Others(w) : job'[v] = job[v],
         StagedOK(w)', FoundOK(w)', Clear(w, t)
  PROVE  WalletsOK'
<1>1. StoredOK'
  BY DEF WalletInv, StoredOK, OneAccountPerKey, NoOrphans, OnePrimary, PrimaryOf
<1>2. tx \in [Workers -> Writes]
  BY DEF WalletInv, TypeInv, TypeOK, TablesTypeOK
<1>3. tx'[w] = t /\ \A v \in Others(w) : tx'[v] = tx[v]
  BY <1>2 DEF Others
<1>4. ASSUME NEW v \in Others(w)
      PROVE  StagedOK(v)' /\ FoundOK(v)'
  <2>1. /\ StagedOK(v) /\ FoundOK(v)
        /\ job'[v] = job[v] /\ tx'[v] = tx[v] /\ signers' = signers
    BY <1>3, <1>4 DEF WalletInv, Others
  <2>2. StagedOK(v)'
    BY <2>1 DEF StagedOK
  <2>3. FoundOK(v)'
    BY <2>1 DEF FoundOK
  <2> QED
    BY <2>2, <2>3
<1>5. ApartOK(w)'
  BY <1>3 DEF Clear, ApartOK, Others
<1>6. ASSUME NEW v \in Others(w)
      PROVE  ApartOK(v)'
  <2>1. ApartOK(v) /\ w \in Others(v) /\ v \in Workers /\ tx'[v] = tx[v]
    BY <1>3, <1>6 DEF WalletInv, Others
  <2>2. tx[v].signers \cap t.signers = {}
        /\ \A a \in tx[v].accounts, b \in t.accounts : a.id # b.id /\ a.addr # b.addr
    BY <1>6 DEF Clear
  <2>3. ASSUME NEW u \in Others(v)
        PROVE  /\ tx'[u].signers \cap tx[v].signers = {}
               /\ \A a \in tx'[u].accounts, b \in tx[v].accounts : a.id # b.id /\ a.addr # b.addr
    <3>1. CASE u = w
      BY <1>3, <2>2, <3>1
    <3>2. CASE u # w
      BY <1>3, <2>1, <2>3, <3>2 DEF ApartOK, Others
    <3> QED  BY <3>1, <3>2
  <2> QED  BY <2>1, <2>3 DEF ApartOK, Others
<1> QED  BY <1>1, <1>4, <1>5, <1>6 DEF Others, WalletsOK

LEMMA AbortWallets ==
  ASSUME WalletInv, NEW w \in Workers, NEW resp, Abort(w, resp),
         UNCHANGED <<signers, devices, accounts, migrated>>
  PROVE  WalletsOK'
<1>1. TypeInv /\ Reply(w, resp) /\ tx' = [tx EXCEPT ![w] = NoWrites]
  BY DEF WalletInv, Abort
<1>2. job'[w].pc = "answer" /\ \A v \in Others(w) : job'[v] = job[v]
  BY <1>1, JobsElsewhere
<1>3. NoWrites \in Writes
  BY DEF Writes, NoWrites
<1>4. tx'[w] = NoWrites
  BY <1>1 DEF TypeInv, TypeOK, TablesTypeOK
<1>5. StagedOK(w)' /\ FoundOK(w)'
  BY <1>2, <1>4 DEF StagedOK, FoundOK, InTx
<1>6. Clear(w, NoWrites)
  BY DEF Clear, NoWrites
<1> QED  BY <1>1, <1>2, <1>3, <1>5, <1>6, TxStep

\* What Goto leaves of the job of w, and of the others.
LEMMA GotoElsewhere ==
  ASSUME TypeInv, NEW w \in Workers, NEW pc, Goto(w, pc)
  PROVE  /\ job'[w].pc = pc /\ job'[w].found = job[w].found /\ job'[w].req = job[w].req
         /\ \A v \in Others(w) : job'[v] = job[v]
BY DEF Goto, TypeInv, TypeOK, Job, Others

LEMMA InsertSignerWallets ==
  ASSUME WalletInv, NEW w \in Workers, InsertSigner(w)
  PROVE  WalletsOK'
<1> DEFINE s == job[w].req.signer
           t == [tx[w] EXCEPT !.signers = {s}]
<1>1. /\ TypeInv /\ job[w].pc = "insertSigner" /\ ~SignerLocked(w, s)
      /\ UNCHANGED <<signers, devices, accounts, migrated>>
  BY DEF WalletInv, InsertSigner, tables
<1>2. CASE SignerTaken(s)
  BY <1>1, <1>2, AbortWallets DEF InsertSigner
<1>3. CASE ~SignerTaken(s)
  <2>1. tx' = [tx EXCEPT ![w].signers = {s}] /\ Goto(w, "insertDevice")
    BY <1>3 DEF InsertSigner
  <2>2. s \in SignerIds
    BY <1>1, RequestsType DEF TypeInv, PlaceOK
  <2>3. t \in Writes
    BY <1>1, <2>2, WritesType
  <2>4. tx[w] = NoWrites
    BY <1>1 DEF WalletInv, StagedOK, InTx
  <2>5. t.signers = {s} /\ t.devices = {} /\ t.accounts = {} /\ t.migrated = {}
    BY <2>4 DEF NoWrites
  <2>6. tx' = [tx EXCEPT ![w] = t] /\ tx'[w] = t
    BY <1>1, <2>1 DEF TypeInv, TypeOK, TablesTypeOK
  <2> HIDE DEF t
  <2>a. job'[w].pc = "insertDevice" /\ job'[w].req.signer = s
    BY <1>1, <2>1, GotoElsewhere
  <2>7. StagedOK(w)' /\ FoundOK(w)'
    BY <2>a, <2>5, <2>6 DEF StagedOK, FoundOK
  <2>8. Clear(w, t)
    BY <1>1, <1>3, <2>5 DEF Clear, SignerTaken, SignerLocked
  <2>9. \A v \in Others(w) : job'[v] = job[v]
    BY <1>1, <2>1, GotoElsewhere
  <2> HIDE DEF s
  <2> QED  BY <1>1, <2>3, <2>6, <2>7, <2>8, <2>9, TxStep
<1> QED  BY <1>2, <1>3

\* The keys of a transaction are clear when it takes no new one.
LEMMA StillClear ==
  ASSUME WalletInv, NEW w \in Workers, NEW t,
         t.signers = tx[w].signers, t.accounts = tx[w].accounts
  PROVE  Clear(w, t)
BY DEF WalletInv, ApartOK, Clear

LEMMA InsertPrimaryWallets ==
  ASSUME WalletInv, NEW w \in Workers, InsertPrimaryDevice(w)
  PROVE  WalletsOK'
<1> DEFINE r == job[w].req
           d == newDevice(r.dev, Submitted(r, StoredAddress(r)), r.signer, TRUE)
           t == [tx[w] EXCEPT !.devices = {d}]
<1>1. /\ TypeInv /\ job[w].pc = "insertDevice" /\ Goto(w, "insertAccount")
      /\ UNCHANGED <<signers, devices, accounts, migrated>>
      /\ tx' = [tx EXCEPT ![w].devices = {d}]
  BY DEF WalletInv, InsertPrimaryDevice, tables
<1>2. d \in Device
  <2>1. r \in Requests /\ r.op \in Opens
    BY <1>1 DEF TypeInv, PlaceOK
  <2> HIDE DEF r
  <2>2. /\ r.dev \in DeviceIds /\ r.signer \in SignerIds
        /\ StoredAddress(r) \in Addresses /\ r.subj \in Subjects
    BY <2>1, RequestsType
  <2>3. Submitted(r, StoredAddress(r)) \in Secret
    BY <2>2 DEF Submitted, Secret
  <2> QED  BY <1>1, <2>2, <2>3, NewDeviceType
<1>3. d.signer = r.signer /\ d.primary /\ ~d.revoked
  BY DEF newDevice
<1> HIDE DEF d
<1>4. tx[w] \in Writes /\ tx[w].signers = {r.signer} /\ tx[w].accounts = {} /\ tx[w].migrated = {}
  BY <1>1, WritesType DEF WalletInv, StagedOK, InTx
<1>5. t \in Writes
  BY <1>1, <1>2, WritesType
<1>6. /\ t.signers = tx[w].signers /\ t.accounts = tx[w].accounts
      /\ t.migrated = {} /\ t.devices = {d}
  BY <1>4 DEF Writes
<1>7. tx' = [tx EXCEPT ![w] = t] /\ tx'[w] = t
  BY <1>1 DEF TypeInv, TypeOK, TablesTypeOK
<1> HIDE DEF t
<1>8. StagedOK(w)' /\ FoundOK(w)'
  BY <1>1, <1>2, <1>3, <1>4, <1>6, <1>7, GotoElsewhere DEF StagedOK, FoundOK, StagesPrimary
<1>9. Clear(w, t)
  BY <1>6, StillClear
<1> QED  BY <1>1, <1>5, <1>7, <1>8, <1>9, GotoElsewhere, TxStep

LEMMA InsertAccountWallets ==
  ASSUME WalletInv, NEW w \in Workers, InsertAccount(w)
  PROVE  WalletsOK'
<1> DEFINE r == job[w].req
           a == NewAccount(r)
           t == [tx[w] EXCEPT !.accounts = {a}]
           next == IF r.op = "import" THEN "insertMigrated" ELSE "commit"
<1>1. /\ TypeInv /\ job[w].pc = "insertAccount" /\ ~AccountLocked(w, a.id, a.addr)
      /\ UNCHANGED <<signers, devices, accounts, migrated>>
  BY DEF WalletInv, InsertAccount, tables
<1>2. CASE AccountTaken(a.id, a.addr)
  BY <1>1, <1>2, AbortWallets DEF InsertAccount
<1>3. CASE ~AccountTaken(a.id, a.addr)
  <2>1. tx' = [tx EXCEPT ![w].accounts = {a}] /\ Goto(w, next)
    BY <1>3 DEF InsertAccount
  <2>2. a \in Account
    BY <1>1, NewAccountType DEF TypeInv, PlaceOK
  <2>3. tx[w] \in Writes /\ tx[w].signers = {r.signer} /\ StagesPrimary(tx[w], r)
        /\ tx[w].migrated = {}
    BY <1>1, WritesType DEF WalletInv, StagedOK, InTx
  <2>4. t \in Writes
    BY <1>1, <2>2, WritesType
  <2>5. /\ t.signers = tx[w].signers /\ t.devices = tx[w].devices
        /\ t.migrated = {} /\ t.accounts = {a}
    BY <2>3 DEF Writes
  <2>6. tx' = [tx EXCEPT ![w] = t] /\ tx'[w] = t
    BY <1>1, <2>1 DEF TypeInv, TypeOK, TablesTypeOK
  <2>7. /\ job'[w].pc \in {"insertMigrated", "commit"} /\ job'[w].req = r
        /\ \A v \in Others(w) : job'[v] = job[v]
    BY <1>1, <2>1, GotoElsewhere
  <2>8. StagesPrimary(t, r)
    BY <2>3, <2>5 DEF StagesPrimary
  <2> HIDE DEF t, next
  <2>9. FoundOK(w)'
    BY <2>7 DEF FoundOK
  <2>10. StagedOK(w)'
    <3> SUFFICES /\ job'[w].pc \in {"insertMigrated", "commit"}
                 /\ t.signers = {r.signer} /\ StagesPrimary(t, r)
                 /\ t.accounts = {a} /\ t.migrated \subseteq {r.acct}
      BY <2>6, <2>7 DEF StagedOK, StagesPrimary, NewAccount, StoredAddress
    <3> QED  BY <2>3, <2>5, <2>7, <2>8
  <2>11. Clear(w, t)
    <3>1. signers \cap t.signers = {} /\ \A v \in Others(w) : tx[v].signers \cap t.signers = {}
      BY <2>5 DEF WalletInv, ApartOK
    <3>2. \A x \in accounts : x.id # a.id /\ x.addr # a.addr
      BY <1>3 DEF AccountTaken
    <3>3. \A v \in Others(w) : \A x \in tx[v].accounts : x.id # a.id /\ x.addr # a.addr
      BY <1>1 DEF AccountLocked
    <3> HIDE DEF a
    <3> QED  BY <2>5, <3>1, <3>2, <3>3 DEF Clear
  <2> QED  BY <1>1, <2>4, <2>6, <2>7, <2>9, <2>10, <2>11, TxStep
<1> QED  BY <1>2, <1>3

LEMMA InsertMigratedWallets ==
  ASSUME WalletInv, NEW w \in Workers, InsertMigrated(w)
  PROVE  WalletsOK'
<1> DEFINE r == job[w].req
           t == [tx[w] EXCEPT !.migrated = {r.acct}]
<1>1. /\ TypeInv /\ job[w].pc = "insertMigrated"
      /\ UNCHANGED <<signers, devices, accounts, migrated>>
  BY DEF WalletInv, InsertMigrated, tables
<1>2. CASE r.acct \in migrated
  BY <1>1, <1>2, AbortWallets DEF InsertMigrated, SeedId
<1>3. CASE r.acct \notin migrated
  <2>1. tx' = [tx EXCEPT ![w].migrated = {r.acct}] /\ Goto(w, "commit")
    BY <1>3 DEF InsertMigrated, SeedId
  <2>2. r.acct \in AccountIds
    BY <1>1, RequestsType DEF TypeInv, PlaceOK
  <2>3. tx[w] \in Writes /\ tx[w].signers = {r.signer} /\ StagesPrimary(tx[w], r)
        /\ tx[w].accounts = {NewAccount(r)}
    BY <1>1, WritesType DEF WalletInv, StagedOK, InTx
  <2>4. t \in Writes
    BY <1>1, <2>2, WritesType
  <2>5. /\ t.signers = tx[w].signers /\ t.devices = tx[w].devices
        /\ t.migrated = {r.acct} /\ t.accounts = tx[w].accounts
    BY <2>3 DEF Writes
  <2>6. tx' = [tx EXCEPT ![w] = t] /\ tx'[w] = t
    BY <1>1, <2>1 DEF TypeInv, TypeOK, TablesTypeOK
  <2>7. /\ job'[w].pc = "commit" /\ job'[w].req = r
        /\ \A v \in Others(w) : job'[v] = job[v]
    BY <1>1, <2>1, GotoElsewhere
  <2>8. StagesPrimary(t, r)
    BY <2>3, <2>5 DEF StagesPrimary
  <2> HIDE DEF t
  <2>9. FoundOK(w)'
    BY <2>7 DEF FoundOK
  <2>10. StagedOK(w)'
    <3> SUFFICES /\ t.signers = {r.signer} /\ StagesPrimary(t, r)
                 /\ t.accounts = {NewAccount(r)} /\ t.migrated \subseteq {r.acct}
      BY <2>6, <2>7 DEF StagedOK, StagesPrimary, NewAccount, StoredAddress
    <3> QED  BY <2>3, <2>5, <2>8
  <2>11. Clear(w, t)
    BY <2>5, StillClear
  <2> QED  BY <1>1, <2>4, <2>6, <2>7, <2>9, <2>10, <2>11, TxStep
<1> QED  BY <1>2, <1>3

LEMMA TxAddDeviceWallets ==
  ASSUME WalletInv, NEW w \in Workers, TxAddDevice(w)
  PROVE  WalletsOK'
<1> DEFINE d == Secondary(w)
           t == [tx[w] EXCEPT !.devices = {d}]
<1>1. /\ TypeInv /\ job[w].pc = "txAddDevice" /\ Goto(w, "commit")
      /\ UNCHANGED <<signers, devices, accounts, migrated>>
      /\ tx' = [tx EXCEPT ![w].devices = {d}]
  BY DEF WalletInv, TxAddDevice, tables
<1>2. d \in Device
  BY <1>1, SecondaryType
<1>3. d.signer \in signers /\ ~d.primary /\ ~d.revoked
  BY <1>1 DEF Secondary, newDevice, WalletInv, FoundOK
<1> HIDE DEF d
<1>4. tx[w] = NoWrites
  BY <1>1 DEF WalletInv, StagedOK, InTx
<1>5. t \in Writes
  BY <1>1, <1>2, WritesType
<1>6. t.signers = {} /\ t.accounts = {} /\ t.migrated = {} /\ t.devices = {d}
  BY <1>4 DEF NoWrites
<1>7. tx' = [tx EXCEPT ![w] = t] /\ tx'[w] = t
  BY <1>1 DEF TypeInv, TypeOK, TablesTypeOK
<1> HIDE DEF t
<1>8. job'[w].pc = "commit" /\ \A v \in Others(w) : job'[v] = job[v]
  BY <1>1, GotoElsewhere
<1>9. StagedOK(w)' /\ FoundOK(w)'
  BY <1>1, <1>2, <1>3, <1>6, <1>7, <1>8 DEF StagedOK, FoundOK
<1>10. Clear(w, t)
  BY <1>6 DEF Clear
<1> QED  BY <1>1, <1>5, <1>7, <1>8, <1>9, <1>10, TxStep

----------------------------------------------------------------------------
\* Committing a new wallet: a signer nobody has, its primary device and its
\* account, whose id and address nobody holds.
LEMMA OpeningStored ==
  ASSUME StoredOK, NEW s, NEW d, NEW a, NEW seeds,
         s \notin signers, d.signer = s, d.primary, ~d.revoked, a.signer = s,
         \A b \in accounts : b.id # a.id /\ b.addr # a.addr,
         seeds \subseteq {a.id},
         signers' = signers \cup {s}, devices' = devices \cup {d},
         accounts' = accounts \cup {a}, migrated' = migrated \cup seeds
  PROVE  StoredOK'
<1>1. /\ \A b \in accounts : b.signer \in signers
      /\ \A e \in devices : e.signer \in signers
  BY DEF StoredOK
<1>2. OneAccountPerKey'
  BY <1>1 DEF StoredOK, OneAccountPerKey
<1>3. NoOrphans'
  <2>1. a \in accounts' /\ accounts \subseteq accounts'
    OBVIOUS
  <2>2. \A x \in signers' : \E b \in accounts' : b.signer = x
    BY <2>1 DEF StoredOK, NoOrphans
  <2>3. \A e \in devices' : \E b \in accounts' : e.signer = b.signer
    BY <2>1 DEF StoredOK, NoOrphans
  <2>4. \A id \in migrated' : \E b \in accounts' : b.id = id
    BY <2>1 DEF StoredOK, NoOrphans
  <2> QED  BY <2>2, <2>3, <2>4 DEF NoOrphans
<1>4. \A x \in signers : PrimaryOf(x)' = PrimaryOf(x)
  BY DEF PrimaryOf
<1>5. PrimaryOf(s)' = {d}
  BY <1>1 DEF PrimaryOf
<1>6. OnePrimary'
  <2>1. ASSUME NEW b \in accounts'
        PROVE  \E e \in devices' : PrimaryOf(b.signer)' = {e}
    <3>1. CASE b = a
      BY <1>5, <3>1
    <3>2. CASE b \in accounts
      <4>1. PICK e \in devices : PrimaryOf(b.signer) = {e}
        BY <3>2 DEF StoredOK, OnePrimary
      <4>2. PrimaryOf(b.signer)' = {e} /\ e \in devices'
        BY <1>1, <1>4, <3>2, <4>1
      <4> QED  BY <4>2
    <3> QED  BY <3>1, <3>2
  <2> QED  BY <2>1 DEF OnePrimary
<1>7. /\ \A b \in accounts' : b.signer \in signers'
      /\ \A e \in devices' : e.signer \in signers'
      /\ \A e \in devices' : e.revoked => ~e.primary
  BY <1>1 DEF StoredOK
<1> QED  BY <1>2, <1>3, <1>6, <1>7 DEF StoredOK

\* COMMIT publishes either a new wallet or one secondary device.
LEMMA PublishStored ==
  ASSUME WalletInv, NEW w \in Workers, job[w].pc = "commit", Publish(w)
  PROVE  StoredOK' /\ signers \subseteq signers'
<1> DEFINE t == tx[w]
           r == job[w].req
<1>1. /\ signers' = signers \cup t.signers /\ devices' = devices \cup t.devices
      /\ accounts' = accounts \cup t.accounts /\ migrated' = migrated \cup t.migrated
  BY DEF Publish
<1>2. \/ /\ t.signers = {r.signer} /\ StagesPrimary(t, r)
         /\ t.accounts = {NewAccount(r)} /\ t.migrated \subseteq {r.acct}
      \/ /\ t.signers = {} /\ t.accounts = {} /\ t.migrated = {}
         /\ \E d \in Device : /\ t.devices = {d} /\ d.signer \in signers
                              /\ ~d.primary /\ ~d.revoked
  BY DEF WalletInv, StagedOK, InTx
<1>3. StoredOK /\ ApartOK(w)
  BY DEF WalletInv
<1>4. CASE t.signers = {r.signer} /\ StagesPrimary(t, r)
           /\ t.accounts = {NewAccount(r)} /\ t.migrated \subseteq {r.acct}
  <2>1. PICK d \in Device : t.devices = {d} /\ d.signer = r.signer /\ d.primary /\ ~d.revoked
    BY <1>4 DEF StagesPrimary
  <2> DEFINE a == NewAccount(r)
  <2>2. a.signer = r.signer /\ a.id = r.acct
    BY DEF NewAccount
  <2>3. r.signer \notin signers /\ \A b \in accounts : b.id # a.id /\ b.addr # a.addr
    BY <1>3, <1>4 DEF ApartOK
  <2>4. t.accounts = {a} /\ t.migrated \subseteq {a.id}
    BY <1>4, <2>2
  <2> HIDE DEF a
  <2> QED  BY <1>1, <1>3, <1>4, <2>1, <2>2, <2>3, <2>4, OpeningStored
<1>5. CASE t.signers = {} /\ t.accounts = {} /\ t.migrated = {}
           /\ \E d \in Device : /\ t.devices = {d} /\ d.signer \in signers
                                /\ ~d.primary /\ ~d.revoked
  <2>1. PICK d \in Device : t.devices = {d} /\ d.signer \in signers /\ ~d.primary /\ ~d.revoked
    BY <1>5
  <2>2. /\ devices' = devices \cup {d} /\ signers' = signers
        /\ accounts' = accounts /\ migrated' = migrated
    BY <1>1, <1>5, <2>1
  <2> QED  BY <1>3, <2>1, <2>2, SecondaryStored
<1> QED  BY <1>2, <1>4, <1>5

LEMMA CommitWallets ==
  ASSUME WalletInv, NEW w \in Workers, Commit(w) \/ CommitReplyLost(w)
  PROVE  WalletsOK'
<1>1. /\ TypeInv /\ job[w].pc = "commit" /\ Publish(w)
      /\ \E resp : Reply(w, resp)
  BY DEF Commit, CommitReplyLost, WalletInv
<1>2. StoredOK' /\ signers \subseteq signers'
  BY <1>1, PublishStored
<1>3. job'[w].pc = "answer" /\ \A v \in Others(w) : job'[v] = job[v]
  BY <1>1, JobsElsewhere
<1>4. tx'[w] = NoWrites /\ \A v \in Others(w) : tx'[v] = tx[v]
  BY <1>1 DEF Publish, TypeInv, TypeOK, TablesTypeOK, Others
<1>5. StagedOK(w)' /\ FoundOK(w)'
  BY <1>3, <1>4 DEF StagedOK, FoundOK, InTx
<1>6. ApartOK(w)'
  BY <1>4 DEF ApartOK, NoWrites
<1>7. ASSUME NEW v \in Others(w)
      PROVE  StagedOK(v)' /\ FoundOK(v)'
  BY <1>2, <1>3, <1>4, <1>7 DEF WalletInv, StagedOK, FoundOK, Others, StagesPrimary,
                                NewAccount, StoredAddress
<1>8. ASSUME NEW v \in Others(w)
      PROVE  ApartOK(v)'
  <2>1. ApartOK(v) /\ w \in Others(v) /\ tx'[v] = tx[v] /\ v \in Workers
    BY <1>4, <1>8 DEF WalletInv, Others
  <2>2. signers' = signers \cup tx[w].signers /\ accounts' = accounts \cup tx[w].accounts
    BY <1>1 DEF Publish
  <2>3. /\ signers' \cap tx[v].signers = {}
        /\ \A a \in accounts', b \in tx[v].accounts : a.id # b.id /\ a.addr # b.addr
    BY <2>1, <2>2 DEF ApartOK
  <2>4. ASSUME NEW u \in Others(v)
        PROVE  /\ tx'[u].signers \cap tx[v].signers = {}
               /\ \A a \in tx'[u].accounts, b \in tx[v].accounts : a.id # b.id /\ a.addr # b.addr
    <3>1. CASE u = w
      BY <1>4, <3>1 DEF NoWrites
    <3>2. CASE u # w
      BY <1>4, <2>1, <2>4, <3>2 DEF ApartOK, Others
    <3> QED  BY <3>1, <3>2
  <2> QED  BY <2>1, <2>3, <2>4 DEF ApartOK, Others
<1> QED  BY <1>2, <1>5, <1>6, <1>7, <1>8 DEF Others, WalletsOK

----------------------------------------------------------------------------
LEMMA DbFailsWallets ==
  ASSUME WalletInv, NEW w \in Workers, DbFails(w)
  PROVE  WalletsOK'
BY AbortWallets DEF DbFails, tables

LEMMA ServerWallets ==
  ASSUME WalletInv, Crash \/ Boot
  PROVE  WalletsOK'
<1>1. UNCHANGED tables
  BY DEF Crash, Boot
<1>2. StoredOK'
  BY <1>1 DEF tables, WalletInv, StoredOK, OneAccountPerKey, NoOrphans, OnePrimary, PrimaryOf
<1>3. CASE Crash
  <2>1. \A w \in Workers : job'[w].pc = "idle" /\ tx'[w] = NoWrites
    BY <1>3, NoJobType DEF Crash
  <2>2. \A w \in Workers : StagedOK(w)' /\ FoundOK(w)'
    BY <2>1 DEF StagedOK, FoundOK, InTx
  <2>3. \A w \in Workers : ApartOK(w)'
    BY <2>1 DEF ApartOK, NoWrites, Others
  <2> QED  BY <1>2, <2>2, <2>3 DEF WalletsOK
<1>4. CASE Boot
  <2>1. UNCHANGED <<tx, job, tables>>
    BY <1>4 DEF Boot
  <2>2. \A w \in Workers : StagedOK(w)' /\ FoundOK(w)'
    BY <2>1 DEF tables, WalletInv, StagedOK, FoundOK, StagesPrimary, NewAccount, StoredAddress
  <2>3. \A w \in Workers : ApartOK(w)'
    BY <2>1 DEF tables, WalletInv, ApartOK, Others
  <2> QED  BY <1>2, <2>2, <2>3 DEF WalletsOK
<1> QED  BY <1>3, <1>4

\* A moved ciphertext and a deletion mark change no column the wallets are
\* linked by.
LEMMA MoveWallets ==
  ASSUME WalletInv, MoveCiphertext
  PROVE  WalletsOK'
<1>1. PICK from \in devices, to \in devices :
        /\ ~to.revoked
        /\ devices' = (devices \ {to}) \cup {[to EXCEPT !.share = from.share]}
  BY DEF MoveCiphertext
<1> DEFINE new == [to EXCEPT !.share = from.share]
<1>2. new.signer = to.signer /\ new.primary = to.primary /\ new.revoked = to.revoked
  <2>1. to \in Device
    BY DEF WalletInv, TypeInv, TypeOK, TablesTypeOK
  <2> QED  BY <2>1 DEF Device
<1> HIDE DEF new
<1>3. devices' = (devices \ {to}) \cup {new} /\ UNCHANGED <<signers, accounts, migrated, tx, job>>
  BY <1>1 DEF MoveCiphertext, new
<1>4. \A s : \A d \in PrimaryOf(s) :
        PrimaryOf(s) = {d} => \E e \in devices' : PrimaryOf(s)' = {e}
  <2>1. ASSUME NEW s, NEW d \in PrimaryOf(s), PrimaryOf(s) = {d}
        PROVE  \E e \in devices' : PrimaryOf(s)' = {e}
    <3>1. CASE d = to
      <4>1. PrimaryOf(s)' = {new} /\ new \in devices'
        BY <1>2, <1>3, <2>1, <3>1 DEF PrimaryOf
      <4> QED  BY <4>1
    <3>2. CASE d # to
      <4>1. PrimaryOf(s)' = {d} /\ d \in devices'
        BY <1>2, <1>3, <2>1, <3>2 DEF PrimaryOf
      <4> QED  BY <4>1
    <3> QED  BY <3>1, <3>2
  <2> QED  BY <2>1
<1>5. OnePrimary'
  <2>1. ASSUME NEW a \in accounts
        PROVE  \E e \in devices' : PrimaryOf(a.signer)' = {e}
    <3>1. PICK d \in devices : PrimaryOf(a.signer) = {d}
      BY DEF WalletInv, StoredOK, OnePrimary
    <3> QED  BY <1>4, <3>1
  <2> QED  BY <1>3, <2>1 DEF OnePrimary
<1>6. NoOrphans'
  BY <1>2, <1>3 DEF WalletInv, StoredOK, NoOrphans
<1>7. StoredOK'
  BY <1>1, <1>2, <1>3, <1>5, <1>6 DEF WalletInv, StoredOK, OneAccountPerKey
<1>8. \A w \in Workers : StagedOK(w)' /\ FoundOK(w)' /\ ApartOK(w)'
  BY <1>3 DEF WalletInv, StagedOK, FoundOK, ApartOK, StagesPrimary, NewAccount,
              StoredAddress, Others
<1> QED  BY <1>7, <1>8 DEF WalletsOK

LEMMA SoftDeleteWallets ==
  ASSUME WalletInv, SoftDeleteAccount
  PROVE  WalletsOK'
<1>1. PICK a \in accounts :
        accounts' = (accounts \ {a}) \cup {[a EXCEPT !.deleted = TRUE]}
  BY DEF SoftDeleteAccount
<1> DEFINE new == [a EXCEPT !.deleted = TRUE]
<1>2. new.id = a.id /\ new.addr = a.addr /\ new.signer = a.signer
  <2>1. a \in Account
    BY DEF WalletInv, TypeInv, TypeOK, TablesTypeOK
  <2> QED  BY <2>1 DEF Account
<1> HIDE DEF new
<1>3. accounts' = (accounts \ {a}) \cup {new} /\ UNCHANGED <<signers, devices, migrated, tx, job>>
  BY <1>1 DEF SoftDeleteAccount, new
<1>4. OneAccountPerKey'
  BY <1>2, <1>3 DEF WalletInv, StoredOK, OneAccountPerKey
<1>5. NoOrphans'
  BY <1>2, <1>3 DEF WalletInv, StoredOK, NoOrphans
<1>6. OnePrimary'
  BY <1>2, <1>3 DEF WalletInv, StoredOK, OnePrimary, PrimaryOf
<1>7. StoredOK'
  BY <1>2, <1>3, <1>4, <1>5, <1>6 DEF WalletInv, StoredOK
<1>8. \A w \in Workers : StagedOK(w)' /\ FoundOK(w)'
  BY <1>3 DEF WalletInv, StagedOK, FoundOK, StagesPrimary, NewAccount, StoredAddress
<1>9. \A w \in Workers : ApartOK(w)'
  BY <1>2, <1>3 DEF WalletInv, ApartOK, Others
<1> QED  BY <1>7, <1>8, <1>9 DEF WalletsOK

LEMMA InitWallets == Init => WalletInv
<1> SUFFICES ASSUME Init PROVE WalletInv
  OBVIOUS
<1>1. \A w \in Workers : job[w].pc = "idle" /\ tx[w] = NoWrites
  BY NoJobType DEF Init
<1>2. \A w \in Workers : StagedOK(w) /\ FoundOK(w) /\ ApartOK(w)
  BY <1>1 DEF StagedOK, FoundOK, ApartOK, InTx, NoWrites, Others
<1>3. ASSUME EmptyStore PROVE StoredOK
  BY <1>3 DEF EmptyStore, StoredOK, OneAccountPerKey, NoOrphans, OnePrimary
<1>4. ASSUME LegacyWallet PROVE StoredOK
  <2>1. PICK s, d, a : /\ signers = {s} /\ devices = {d} /\ accounts = {a} /\ migrated = {}
                       /\ d.signer = s /\ d.primary /\ ~d.revoked /\ a.signer = s
    <3>1. PICK s \in SignerIds, id \in DeviceIds, acct \in AccountIds, u \in Subjects,
               addr \in Addresses, c \in Chains :
            /\ signers = {s}
            /\ devices = {[id |-> id, primary |-> TRUE, signer |-> s, revoked |-> FALSE,
                           share |-> [fmt |-> "legacy", sealed |-> None, key |-> None,
                                      secret |-> [by |-> u, addr |-> addr, dev |-> id]]]}
            /\ accounts = {[id |-> acct, addr |-> addr, subj |-> u, chain |-> c,
                            signer |-> s, deleted |-> FALSE]}
            /\ migrated = {}
      BY <1>4 DEF LegacyWallet
    <3> DEFINE share == [fmt |-> "legacy", sealed |-> None, key |-> None,
                         secret |-> [by |-> u, addr |-> addr, dev |-> id]]
               d == [id |-> id, primary |-> TRUE, signer |-> s, revoked |-> FALSE,
                     share |-> share]
               a == [id |-> acct, addr |-> addr, subj |-> u, chain |-> c,
                     signer |-> s, deleted |-> FALSE]
    <3>2. d.signer = s /\ a.signer = s
      OBVIOUS
    <3>3. d.primary /\ ~d.revoked
      OBVIOUS
    <3>4. signers = {s} /\ devices = {d} /\ accounts = {a} /\ migrated = {}
      BY <3>1
    <3> QED  BY <3>2, <3>3, <3>4
  <2>2. PrimaryOf(s) = {d}
    BY <2>1 DEF PrimaryOf
  <2> QED  BY <2>1, <2>2 DEF StoredOK, OneAccountPerKey, NoOrphans, OnePrimary
<1>5. StoredOK
  BY <1>3, <1>4 DEF Init
<1> QED  BY <1>2, <1>5, InitType DEF WalletInv

LEMMA WalletStep == WalletInv /\ [Next]_vars => WalletInv'
<1> SUFFICES ASSUME WalletInv, [Next]_vars PROVE WalletInv'
  OBVIOUS
<1>1. TypeInv'
  BY TypeStep DEF WalletInv
<1>2. ASSUME UNCHANGED vars PROVE WalletsOK'
  <2>1. UNCHANGED <<signers, devices, accounts, migrated, tx, job>>
    BY <1>2 DEF vars, tables
  <2>2. StoredOK'
    BY <2>1 DEF WalletInv, StoredOK, OneAccountPerKey, NoOrphans, OnePrimary, PrimaryOf
  <2>3. \A w \in Workers : StagedOK(w)' /\ FoundOK(w)' /\ ApartOK(w)'
    BY <2>1 DEF WalletInv, StagedOK, FoundOK, ApartOK, StagesPrimary, NewAccount,
                StoredAddress, Others
  <2> QED  BY <2>2, <2>3 DEF WalletsOK
<1>3. ASSUME NEW w \in Workers,
             Receive(w) \/ Handle(w) \/ DbFails(w) \/ ReplyLost(w)
      PROVE  WalletsOK'
  BY <1>3, JobsWallets, ReadsWallets, QueriesWallets, ChecksWallets, AddDeviceWallets,
     RevokeWallets, InsertSignerWallets, InsertPrimaryWallets, InsertAccountWallets,
     InsertMigratedWallets, TxAddDeviceWallets, CommitWallets, DbFailsWallets
     DEF Handle, ReplyLost
<1>4. ASSUME Crash \/ Boot \/ MoveCiphertext \/ SoftDeleteAccount
      PROVE  WalletsOK'
  BY <1>4, ServerWallets, MoveWallets, SoftDeleteWallets
<1> QED  BY <1>1, <1>2, <1>3, <1>4 DEF Next, WalletInv, WalletsOK

LEMMA WalletsInvariant == Spec => []WalletInv
BY InitWallets, WalletStep, PTL DEF Spec

\* However requests interleave, fail and choose their ids, two accounts never
\* share an id, an address or a signer.
THEOREM AccountsKeepKeys == Spec => []OneAccountPerKey
<1>1. WalletInv => OneAccountPerKey
  BY DEF WalletInv, StoredOK
<1> QED  BY <1>1, WalletsInvariant, PTL

\* Every account that exists can be recovered from exactly one primary device,
\* after any sequence of openings, revocations, faults and crashes.
THEOREM OnePrimaryEach == Spec => []OnePrimary
<1>1. WalletInv => OnePrimary
  BY DEF WalletInv, StoredOK
<1> QED  BY <1>1, WalletsInvariant, PTL

\* No failure half way through a transaction leaves a signer, a device or
\* migrated data without its account.
THEOREM WalletsWhole == Spec => []NoOrphans
<1>1. WalletInv => NoOrphans
  BY DEF WalletInv, StoredOK
<1> QED  BY <1>1, WalletsInvariant, PTL
=============================================================================
