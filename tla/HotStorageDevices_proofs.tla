---------------------- MODULE HotStorageDevices_proofs -----------------------
(***************************************************************************)
(* The device rows of HotStorage and the shares in them: rows are kept,    *)
(* revoked once and for good, in the bound format while a process serves,  *)
(* and hold what their owner submitted.  The store implements              *)
(* ShareRegistry.                                                          *)
(*                                                                         *)
(* On top of the wallets' invariant this takes that minted ids stay        *)
(* unique, from the request that drew them to the row, and that a share    *)
(* can be read back only in the row, and so in the wallet, it was sealed   *)
(* for, wherever its ciphertext has been copied to.                        *)
(***************************************************************************)
EXTENDS HotStorageWallets_proofs

Mints == Opens \cup Adds

\* Requests whose device is not stored yet.
Pending(w) == job[w].pc \notin {"idle", "answer"} /\ job[w].req.op \in Mints

UniqueIds == \A d, e \in devices : d.id = e.id => d = e

\* The wallet of signer s belongs to subject u, at address addr.
Held(s, u, addr) == \E a \in accounts : a.signer = s /\ a.subj = u /\ a.addr = addr

\* A sealed share names a stored device, and the wallet that device is in.
SealedOK(s) ==
  s.fmt = "v2" =>
    /\ s.secret \in Secret /\ s.secret.dev = s.sealed
    /\ \E e \in devices : e.id = s.sealed /\ Held(e.signer, s.secret.by, s.secret.addr)

RowOK(d) ==
  /\ d.revoked <=> d.share.fmt = "empty"
  /\ d.revoked => d.share = Cleared
  /\ SealedOK(d.share)

\* What the startup check has found stays so.
BoundFormat == server = "serving" => \A d \in devices : d.revoked \/ d.share.fmt = "v2"

RowsOK ==
  /\ UniqueIds
  /\ \A d \in devices : RowOK(d)
  /\ BoundFormat
  /\ PrimaryHoldsOwnShare

\* The id minted for w is nobody else's, and not stored before w inserts it.
IdOK(w) ==
  /\ Pending(w) => \A d \in devices : d.id # job[w].req.dev
  /\ \A v \in Others(w) :
       /\ job[v].pc # "idle" /\ job[v].req.op \in Mints
       /\ job[w].pc # "idle" /\ job[w].req.op \in Mints
       => job[v].req.dev # job[w].req.dev

\* The row that request r stages, and whose share is in it.
RowFor(d, r) ==
  /\ d.id = r.dev /\ ~d.revoked
  /\ d.share.fmt = "v2" /\ d.share.sealed = d.id
  /\ d.share.secret \in Secret
  /\ d.share.secret = Submitted(r, d.share.secret.addr)
  /\ IF d.primary THEN d.share.secret.addr = StoredAddress(r)
                  ELSE Held(d.signer, r.subj, d.share.secret.addr)

\* The account that w has found is still the caller's, whatever was done to it.
FoundOwn(w) ==
  LET j == job[w] IN
    j.pc \in {"readPrimary", "addDevice", "txAddDevice"} =>
      \E a \in accounts : /\ a.id = j.found.id /\ a.signer = j.found.signer
                          /\ a.addr = j.found.addr /\ a.subj = j.req.subj

StagedRows(w) == \A d \in tx[w].devices : RowFor(d, job[w].req)

RequestsOK == \A w \in Workers : IdOK(w) /\ FoundOwn(w) /\ StagedRows(w)

DeviceInv == WalletInv /\ RowsOK /\ RequestsOK

----------------------------------------------------------------------------
(***************************************************************************)
(* What a handler's step leaves of the jobs.                               *)
(***************************************************************************)
\* The steps between a request's arrival and its answer.
Works(w) ==
  \/ RegisterDeviceV2(w) \/ CreateDevice(w) \/ AddDevice(w)
  \/ RecoverDeviceV2(w) \/ InitDevice(w) \/ GetPrimaryDevice(w) \/ ReadPrimary(w)
  \/ GetDevice(w) \/ RevokeDeviceV2(w) \/ RevokeUpdate(w)
  \/ CreateDeviceV2(w) \/ ImportShare(w) \/ RegisterDevice(w) \/ TxAddDevice(w)
  \/ InsertSigner(w) \/ InsertPrimaryDevice(w) \/ InsertAccount(w)
  \/ InsertMigrated(w) \/ Commit(w)
  \/ GetSignerV2(w) \/ ListAccountsV2(w) \/ ListDevices(w) \/ ListDevicesRead(w)
  \/ ListDevicesV2(w) \/ GetMigratedAccountData(w) \/ ReadMigrated(w)
  \/ DbFails(w) \/ ReplyLost(w)

\* What stays of the job of w, and of the others.
SameRequest(w) ==
  /\ job[w].pc \notin {"idle", "answer"} /\ job'[w].pc # "idle"
  /\ job'[w].req = job[w].req /\ job'[w].past = job[w].past
  /\ job'[w].pc # "answer" => job'[w].resp = job[w].resp
  /\ \A v \in Others(w) : job'[v] = job[v]

LEMMA ReplySame ==
  ASSUME TypeInv, NEW w \in Workers, job[w].pc \notin {"idle", "answer"},
         NEW resp, Reply(w, resp)
  PROVE  SameRequest(w) /\ job'[w].pc = "answer" /\ job'[w].found = job[w].found
         /\ job'[w].resp = resp
BY DEF Reply, SameRequest, TypeInv, TypeOK, Job, Others

LEMMA GotoSame ==
  ASSUME TypeInv, NEW w \in Workers, job[w].pc \notin {"idle", "answer"},
         NEW pc, pc \notin {"idle", "answer"}, Goto(w, pc)
  PROVE  SameRequest(w) /\ job'[w].pc = pc /\ job'[w].found = job[w].found
BY DEF Goto, SameRequest, TypeInv, TypeOK, Job, Others

LEMMA FoundSame ==
  ASSUME TypeInv, NEW w \in Workers, job[w].pc \notin {"idle", "answer"},
         NEW pc, pc \notin {"idle", "answer"}, NEW a,
         job' = [job EXCEPT ![w].found = a, ![w].pc = pc]
  PROVE  SameRequest(w) /\ job'[w].pc = pc /\ job'[w].found = a
BY DEF SameRequest, TypeInv, TypeOK, Job, Others

LEMMA RowSame ==
  ASSUME TypeInv, NEW w \in Workers, job[w].pc \notin {"idle", "answer"}, NEW d,
         job' = [job EXCEPT ![w].row = d, ![w].pc = "revoke"]
  PROVE  SameRequest(w) /\ job'[w].pc = "revoke" /\ job'[w].row = d
BY DEF SameRequest, TypeInv, TypeOK, Job, Others

LEMMA SeenSame ==
  ASSUME TypeInv, NEW w \in Workers, job[w].pc \notin {"idle", "answer"}, NEW s,
         job' = [job EXCEPT ![w].seen = s, ![w].pc = "readDevices"]
  PROVE  SameRequest(w) /\ job'[w].pc = "readDevices" /\ job'[w].seen = s
BY DEF SameRequest, TypeInv, TypeOK, Job, Others

\* The steps that look an account up, and what the job of w is afterwards.
Reads(w) ==
  \/ RegisterDeviceV2(w) \/ CreateDevice(w) \/ RecoverDeviceV2(w)
  \/ InitDevice(w) \/ GetPrimaryDevice(w) \/ GetMigratedAccountData(w)
  \/ RegisterDevice(w)

FoundPlaces == {"readPrimary", "addDevice", "txAddDevice", "readMigrated"}

Finds(w) ==
  \/ job'[w].pc \in {"answer", "insertSigner"} /\ job'[w].found = job[w].found
  \/ job'[w].pc \in FoundPlaces /\ job'[w].found \in LiveAccounts(job[w].req.subj)

LEMMA ReadAccountFinds ==
  ASSUME TypeInv, NEW w \in Workers, job[w].pc = "start",
         NEW rows \in SUBSET LiveAccounts(job[w].req.subj), NEW resp,
         NEW pc \in FoundPlaces, ReadAccount(w, rows, pc, resp)
  PROVE  SameRequest(w) /\ Finds(w)
<1>1. CASE Reply(w, resp)
  BY <1>1, ReplySame DEF Finds
<1>2. ASSUME NEW a \in rows, job' = [job EXCEPT ![w].found = a, ![w].pc = pc]
      PROVE  SameRequest(w) /\ Finds(w)
  <2>1. SameRequest(w) /\ job'[w].pc = pc /\ job'[w].found = a
    BY <1>2, FoundSame DEF FoundPlaces
  <2>2. a \in LiveAccounts(job[w].req.subj)
    OBVIOUS
  <2> QED  BY <2>1, <2>2 DEF Finds
<1> QED  BY <1>1, <1>2 DEF ReadAccount

LEMMA ReadsFind ==
  ASSUME TypeInv, NEW w \in Workers, Reads(w)
  PROVE  /\ UNCHANGED <<tables, tx, env>> /\ job[w].pc = "start"
         /\ SameRequest(w) /\ Finds(w)
<1>1. job[w].pc = "start" /\ UNCHANGED <<tables, tx, env>>
  BY DEF Reads, RegisterDeviceV2, CreateDevice, RecoverDeviceV2, InitDevice,
         GetPrimaryDevice, GetMigratedAccountData, RegisterDevice, At, ReadAccount
<1> DEFINE mine == LiveAccounts(job[w].req.subj)
<1>2. MyAccount(job[w].req) \in SUBSET mine
  BY DEF MyAccount
<1>3. {a \in mine : a.chain = job[w].req.chain} \in SUBSET mine
  OBVIOUS
<1>4. CASE RegisterDeviceV2(w) \/ CreateDevice(w)
  <2>1. ReadAccount(w, MyAccount(job[w].req), "addDevice", Status(400))
    BY <1>4 DEF RegisterDeviceV2, CreateDevice
  <2> QED  BY <1>1, <1>2, <2>1, ReadAccountFinds DEF FoundPlaces
<1>5. CASE RecoverDeviceV2(w)
  <2>1. ReadAccount(w, MyAccount(job[w].req), "readPrimary", Status(400))
    BY <1>5 DEF RecoverDeviceV2
  <2> QED  BY <1>1, <1>2, <2>1, ReadAccountFinds DEF FoundPlaces
<1>6. CASE GetMigratedAccountData(w)
  <2>1. ReadAccount(w, MyAccount(job[w].req), "readMigrated", Status(404))
    BY <1>6 DEF GetMigratedAccountData
  <2> QED  BY <1>1, <1>2, <2>1, ReadAccountFinds DEF FoundPlaces
<1>7. CASE InitDevice(w)
  <2>1. ReadAccount(w, {a \in mine : a.chain = job[w].req.chain}, "readPrimary", Status(200))
    BY <1>7 DEF InitDevice
  <2> QED  BY <1>1, <1>3, <2>1, ReadAccountFinds DEF FoundPlaces
<1>8. CASE GetPrimaryDevice(w)
  <2>1. ReadAccount(w, mine, "readPrimary", Status(400))
    BY <1>8 DEF GetPrimaryDevice
  <2> QED  BY <1>1, <2>1, ReadAccountFinds DEF FoundPlaces
<1>9. CASE RegisterDevice(w)
  <2>1. CASE Goto(w, "insertSigner")
    BY <1>1, <2>1, GotoSame DEF Finds
  <2>2. CASE \E a \in mine : job' = [job EXCEPT ![w].found = a, ![w].pc = "txAddDevice"]
    <3>1. PICK a \in mine : job' = [job EXCEPT ![w].found = a, ![w].pc = "txAddDevice"]
      BY <2>2
    <3>2. SameRequest(w) /\ job'[w].pc = "txAddDevice" /\ job'[w].found = a
      BY <1>1, <3>1, FoundSame
    <3> QED  BY <1>1, <3>2 DEF Finds, FoundPlaces
  <2> QED  BY <1>9, <2>1, <2>2 DEF RegisterDevice
<1> QED  BY <1>1, <1>4, <1>5, <1>6, <1>7, <1>8, <1>9 DEF Reads

LEMMA WorksSame ==
  ASSUME TypeInv, NEW w \in Workers, Works(w)
  PROVE  SameRequest(w)
<1>1. CASE Reads(w)
  BY <1>1, ReadsFind
<1>2. CASE \/ AddDevice(w) \/ ReadPrimary(w) \/ GetDevice(w) \/ RevokeUpdate(w)
           \/ Commit(w) \/ GetSignerV2(w) \/ ListAccountsV2(w) \/ ListDevicesRead(w)
           \/ ListDevicesV2(w) \/ ReadMigrated(w) \/ DbFails(w) \/ ReplyLost(w)
  <2>1. job[w].pc \notin {"idle", "answer"} /\ \E resp : Reply(w, resp)
    BY <1>2 DEF AddDevice, ReadPrimary, GetDevice, RevokeUpdate, Commit, GetSignerV2,
                ListAccountsV2, ListDevicesRead, ListDevicesV2, ReadMigrated, DbFails,
                ReplyLost, AddDeviceReplyLost, RevokeReplyLost, CommitReplyLost,
                Query, ServeShare, Abort, At
  <2> QED  BY <2>1, ReplySame
<1>3. CASE \/ CreateDeviceV2(w) \/ ImportShare(w) \/ TxAddDevice(w) \/ InsertSigner(w)
           \/ InsertPrimaryDevice(w) \/ InsertAccount(w) \/ InsertMigrated(w)
  <2>1. /\ job[w].pc \notin {"idle", "answer"}
        /\ \/ \E resp : Reply(w, resp)
           \/ \E pc \in InTx \cup {"insertSigner"} : Goto(w, pc)
    BY <1>3 DEF CreateDeviceV2, ImportShare, CheckAddress, TxAddDevice, InsertSigner,
                InsertPrimaryDevice, InsertAccount, InsertMigrated, Abort, At, InTx
  <2> QED  BY <2>1, ReplySame, GotoSame DEF InTx
<1>4. CASE RevokeDeviceV2(w)
  <2>1. /\ job[w].pc = "start"
        /\ \/ \E resp : Reply(w, resp)
           \/ \E d : job' = [job EXCEPT ![w].row = d, ![w].pc = "revoke"]
    BY <1>4 DEF RevokeDeviceV2, At
  <2> QED  BY <2>1, ReplySame, RowSame
<1>5. CASE ListDevices(w)
  <2>1. job[w].pc = "start"
        /\ \E s : job' = [job EXCEPT ![w].seen = s, ![w].pc = "readDevices"]
    BY <1>5 DEF ListDevices, At
  <2> QED  BY <2>1, SeenSame
<1> QED  BY <1>1, <1>2, <1>3, <1>4, <1>5 DEF Works, Reads

----------------------------------------------------------------------------
(***************************************************************************)
(* Requests: minted ids, found accounts and staged rows.                   *)
(***************************************************************************)
\* No step takes an account away, or gives it other keys.
AccountsKept ==
  \A a \in accounts : \E b \in accounts' :
    b.id = a.id /\ b.addr = a.addr /\ b.subj = a.subj /\ b.signer = a.signer

LEMMA SameAccounts ==
  ASSUME accounts \subseteq accounts'
  PROVE  AccountsKept
BY DEF AccountsKept

LEMMA HeldKept ==
  ASSUME AccountsKept, NEW s, NEW u, NEW addr, Held(s, u, addr)
  PROVE  Held(s, u, addr)'
BY DEF AccountsKept, Held

LEMMA RowForKept ==
  ASSUME AccountsKept, NEW d, NEW r, RowFor(d, r)
  PROVE  RowFor(d, r)'
<1>1. d.primary \/ Held(d.signer, r.subj, d.share.secret.addr)'
  BY HeldKept DEF RowFor
<1> QED  BY <1>1 DEF RowFor, Submitted, StoredAddress

\* Rows with an id that was not stored come from w alone, which answers.
NewIds(w) ==
  \A e \in devices' :
    \/ \E d \in devices : d.id = e.id
    \/ Pending(w) /\ job'[w].pc = "answer" /\ e.id = job[w].req.dev

LEMMA WorkIds ==
  ASSUME DeviceInv, NEW w \in Workers, SameRequest(w), NewIds(w)
  PROVE  \A v \in Workers : IdOK(v)'
<1>1. ASSUME NEW v \in Workers, Pending(v)'
      PROVE  \A d \in devices' : d.id # job'[v].req.dev
  <2>1. Pending(v) /\ job'[v].req = job[v].req /\ (v = w => job'[v].pc # "answer")
    BY <1>1 DEF SameRequest, Pending, Others
  <2>2. \A d \in devices : d.id # job[v].req.dev
    BY <2>1 DEF DeviceInv, RequestsOK, IdOK
  <2>3. Pending(w) /\ v # w => job[v].req.dev # job[w].req.dev
    BY <2>1 DEF DeviceInv, RequestsOK, IdOK, Pending, Others
  <2> QED  BY <2>1, <2>2, <2>3 DEF NewIds
<1>2. \A v \in Workers : /\ job'[v].req = job[v].req
                         /\ job'[v].pc # "idle" => job[v].pc # "idle"
  BY DEF SameRequest, Others
<1>3. ASSUME NEW v \in Workers, NEW u \in Others(v),
             job'[u].pc # "idle", job'[u].req.op \in Mints,
             job'[v].pc # "idle", job'[v].req.op \in Mints
      PROVE  job'[u].req.dev # job'[v].req.dev
  <2>1. u \in Workers /\ IdOK(v)
    BY DEF DeviceInv, RequestsOK, Others
  <2> QED  BY <1>2, <1>3, <2>1 DEF IdOK
<1> QED  BY <1>1, <1>3 DEF IdOK, Others

LEMMA StagedKept ==
  ASSUME DeviceInv, AccountsKept, NEW v \in Workers,
         job'[v].req = job[v].req, tx'[v] = tx[v]
  PROVE  StagedRows(v)'
<1>1. PICK r : r = job[v].req
  OBVIOUS
<1>2. \A d \in tx[v].devices : RowFor(d, r)
  BY <1>1 DEF DeviceInv, RequestsOK, StagedRows
<1>3. \A d \in tx[v].devices : RowFor(d, r)'
  BY <1>2, RowForKept
<1> QED  BY <1>1, <1>3 DEF StagedRows, RowFor

LEMMA FoundKept ==
  ASSUME DeviceInv, AccountsKept, NEW v \in Workers,
         job'[v].req = job[v].req, job'[v].found = job[v].found,
         job'[v].pc \in {"readPrimary", "addDevice", "txAddDevice"} => job'[v].pc = job[v].pc
  PROVE  FoundOwn(v)'
<1>1. FoundOwn(v)
  BY DEF DeviceInv, RequestsOK
<1> QED  BY <1>1 DEF FoundOwn, AccountsKept

LEMMA WorkRequests ==
  ASSUME DeviceInv, NEW w \in Workers, SameRequest(w), NewIds(w), AccountsKept,
         \A v \in Others(w) : tx'[v] = tx[v],
         FoundOwn(w)', StagedRows(w)'
  PROVE  RequestsOK'
<1>1. \A v \in Workers : IdOK(v)'
  BY WorkIds
<1>2. ASSUME NEW v \in Others(w)
      PROVE  FoundOwn(v)' /\ StagedRows(v)'
  BY FoundKept, StagedKept DEF SameRequest, Others
<1> QED  BY <1>1, <1>2 DEF RequestsOK, Others

----------------------------------------------------------------------------
(***************************************************************************)
(* What each step does to the tables.                                      *)
(***************************************************************************)
\* A step of w stores the row its request is for: a secondary device of a
\* stored wallet, or a primary one together with its account.
StoresRow(w, d) ==
  LET r == job[w].req
      a == NewAccount(r)
  IN /\ devices' = devices \cup {d}
     /\ RowFor(d, r)
     /\ \/ /\ ~d.primary
           /\ accounts' = accounts
        \/ /\ d.primary /\ d.signer = r.signer
           /\ accounts' = accounts \cup {a}
           /\ \A b \in accounts : b.id # a.id /\ b.addr # a.addr /\ b.signer # a.signer

Stores(w) ==
  /\ SameRequest(w) /\ job'[w].pc = "answer" /\ job'[w].found = job[w].found
  /\ Pending(w)
  /\ tx'[w].devices = {} /\ \A v \in Others(w) : tx'[v] = tx[v]
  /\ UNCHANGED <<server, key, acked, interventions>>
  /\ \E d \in Device : StoresRow(w, d)

LEMMA SecondaryFor ==
  ASSUME DeviceInv, NEW w \in Workers, job[w].pc \in {"addDevice", "txAddDevice"}
  PROVE  Secondary(w) \in Device /\ ~Secondary(w).primary /\ RowFor(Secondary(w), job[w].req)
<1>1. TypeInv
  BY DEF DeviceInv, WalletInv
<1>2. Secondary(w) \in Device
  BY <1>1, SecondaryType
<1>3. PICK a \in accounts : /\ a.signer = job[w].found.signer
                            /\ a.addr = job[w].found.addr /\ a.subj = job[w].req.subj
  BY DEF DeviceInv, RequestsOK, FoundOwn
<1>4. job[w].req \in Requests /\ job[w].req.op \in Mints /\ job[w].found \in Account
  BY <1>1 DEF TypeInv, PlaceOK, Mints
<1>5. Submitted(job[w].req, job[w].found.addr) \in Secret
  BY <1>4, RequestsType DEF Submitted, Secret, Account, Mints
<1> DEFINE x == Submitted(job[w].req, job[w].found.addr)
<1>6. x.addr = job[w].found.addr
  BY DEF Submitted
<1>7. /\ Secondary(w).id = job[w].req.dev /\ Secondary(w).signer = job[w].found.signer
      /\ ~Secondary(w).primary /\ ~Secondary(w).revoked
      /\ Secondary(w).share.fmt = "v2" /\ Secondary(w).share.sealed = job[w].req.dev
      /\ Secondary(w).share.secret = x
  BY DEF Secondary, newDevice, encryptShare
<1>8. x = Submitted(job[w].req, x.addr) /\ x \in Secret
  BY <1>5, <1>6
<1>9. Held(Secondary(w).signer, job[w].req.subj, x.addr)
  BY <1>3, <1>6, <1>7 DEF Held
<1> HIDE DEF x
<1> QED  BY <1>2, <1>7, <1>8, <1>9 DEF RowFor

LEMMA AddStores ==
  ASSUME DeviceInv, NEW w \in Workers, AddDevice(w) \/ AddDeviceReplyLost(w)
  PROVE  Stores(w)
<1>1. /\ TypeInv /\ job[w].pc = "addDevice" /\ devices' = devices \cup {Secondary(w)}
      /\ UNCHANGED <<accounts, tx, server, key, acked, interventions>>
      /\ \E resp : Reply(w, resp)
  BY DEF AddDevice, AddDeviceReplyLost, DeviceInv, WalletInv, env
<1>2. Secondary(w) \in Device /\ StoresRow(w, Secondary(w))
  BY <1>1, SecondaryFor DEF StoresRow
<1>3. SameRequest(w) /\ job'[w].pc = "answer" /\ job'[w].found = job[w].found
  BY <1>1, ReplySame
<1>4. Pending(w) /\ tx'[w].devices = {}
  BY <1>1 DEF Pending, Mints, TypeInv, PlaceOK, DeviceInv, WalletInv, StagedOK, InTx, NoWrites
<1> QED  BY <1>1, <1>2, <1>3, <1>4 DEF Stores

LEMMA CommitStores ==
  ASSUME DeviceInv, NEW w \in Workers, Commit(w) \/ CommitReplyLost(w)
  PROVE  Stores(w)
<1> DEFINE r == job[w].req
           t == tx[w]
<1>1. /\ TypeInv /\ job[w].pc = "commit" /\ Publish(w)
      /\ UNCHANGED <<server, key, acked, interventions>>
      /\ \E resp : Reply(w, resp)
  BY DEF Commit, CommitReplyLost, DeviceInv, WalletInv, env
<1>2. SameRequest(w) /\ job'[w].pc = "answer" /\ job'[w].found = job[w].found
  BY <1>1, ReplySame
<1>3. Pending(w) /\ tx'[w] = NoWrites /\ \A v \in Others(w) : tx'[v] = tx[v]
  BY <1>1 DEF Pending, Mints, TypeInv, TypeOK, TablesTypeOK, PlaceOK, Publish, Others
<1>4. devices' = devices \cup t.devices /\ accounts' = accounts \cup t.accounts
  BY <1>1 DEF Publish
<1>5. \/ StagesPrimary(t, r) /\ t.accounts = {NewAccount(r)} /\ t.signers = {r.signer}
      \/ t.accounts = {} /\ \E d \in Device : t.devices = {d} /\ ~d.primary
  BY <1>1 DEF DeviceInv, WalletInv, StagedOK, InTx
<1>6. \A d \in t.devices : RowFor(d, r)
  BY DEF DeviceInv, RequestsOK, StagedRows
<1>7. \E d \in Device : StoresRow(w, d)
  <2>1. CASE t.accounts = {} /\ \E d \in Device : t.devices = {d} /\ ~d.primary
    <3>1. PICK d \in Device : t.devices = {d} /\ ~d.primary
      BY <2>1
    <3>2. devices' = devices \cup {d} /\ accounts' = accounts /\ RowFor(d, r)
      BY <1>4, <1>6, <2>1, <3>1
    <3> QED  BY <3>1, <3>2 DEF StoresRow
  <2>2. CASE StagesPrimary(t, r) /\ t.accounts = {NewAccount(r)} /\ t.signers = {r.signer}
    <3>1. PICK d \in Device : t.devices = {d} /\ d.primary /\ d.signer = r.signer
      BY <2>2 DEF StagesPrimary
    <3> DEFINE a == NewAccount(r)
    <3>2. devices' = devices \cup {d} /\ accounts' = accounts \cup {a} /\ RowFor(d, r)
      BY <1>4, <1>6, <2>2, <3>1
    <3>3. \A b \in accounts : b.id # a.id /\ b.addr # a.addr
      BY <2>2 DEF DeviceInv, WalletInv, ApartOK
    <3>4. a.signer = r.signer
      BY DEF NewAccount
    <3>5. \A b \in accounts : b.signer # r.signer
      BY <2>2 DEF DeviceInv, WalletInv, ApartOK, StoredOK
    <3> QED  BY <3>1, <3>2, <3>3, <3>4, <3>5 DEF StoresRow
  <2> QED  BY <1>5, <2>1, <2>2
<1>8. tx'[w].devices = {}
  BY <1>3 DEF NoWrites
<1> QED  BY <1>1, <1>2, <1>3, <1>7, <1>8 DEF Stores

----------------------------------------------------------------------------
(***************************************************************************)
(* The rows after each kind of step.                                       *)
(***************************************************************************)
RowsKept == \A d \in devices : \E e \in devices' : e.id = d.id /\ e.signer = d.signer

LEMMA SealedKept ==
  ASSUME AccountsKept, RowsKept, NEW s, SealedOK(s)
  PROVE  SealedOK(s)'
<1>1. CASE s.fmt # "v2"
  BY <1>1 DEF SealedOK
<1>2. CASE s.fmt = "v2"
  <2>1. s.secret \in Secret /\ s.secret.dev = s.sealed
    BY <1>2 DEF SealedOK
  <2>2. PICK e \in devices : e.id = s.sealed /\ Held(e.signer, s.secret.by, s.secret.addr)
    BY <1>2 DEF SealedOK
  <2>3. PICK f \in devices' : f.id = e.id /\ f.signer = e.signer
    BY DEF RowsKept
  <2>4. Held(e.signer, s.secret.by, s.secret.addr)'
    BY <2>2, HeldKept
  <2>5. f.id = s.sealed /\ Held(f.signer, s.secret.by, s.secret.addr)'
    BY <2>2, <2>3, <2>4 DEF Held
  <2> QED  BY <2>1, <2>5 DEF SealedOK
<1> QED  BY <1>1, <1>2

LEMMA RowKept ==
  ASSUME AccountsKept, RowsKept, NEW d, RowOK(d)
  PROVE  RowOK(d)'
<1>1. SealedOK(d.share)'
  BY SealedKept DEF RowOK
<1> QED  BY <1>1 DEF RowOK

LEMMA SameTablesKeep ==
  ASSUME UNCHANGED <<devices, accounts>>
  PROVE  AccountsKept /\ RowsKept
BY DEF AccountsKept, RowsKept

\* A step that changes neither devices nor accounts.
LEMMA SameRows ==
  ASSUME DeviceInv, UNCHANGED <<devices, accounts>>,
         interventions' = interventions,
         server' = "serving" => server = "serving" \/ Unbound = {}
  PROVE  RowsOK'
<1>1. \A d \in devices : RowOK(d)'
  BY SameTablesKeep, RowKept DEF DeviceInv, RowsOK
<1>2. BoundFormat'
  BY DEF DeviceInv, RowsOK, BoundFormat, Unbound
<1>3. PrimaryHoldsOwnShare'
  BY DEF DeviceInv, RowsOK, PrimaryHoldsOwnShare, PrimaryOf
<1> QED  BY <1>1, <1>2, <1>3 DEF DeviceInv, RowsOK, UniqueIds

\* The stored row is as good as those that were there.
LEMMA StoredRow ==
  ASSUME AccountsKept, NEW d, NEW r, RowFor(d, r), d \in devices',
         d.primary => NewAccount(r) \in accounts' /\ d.signer = r.signer
  PROVE  RowOK(d)'
<1>1. /\ d.id = r.dev /\ ~d.revoked /\ d.share.fmt = "v2" /\ d.share.sealed = d.id
      /\ d.share.secret \in Secret /\ d.share.secret.by = r.subj /\ d.share.secret.dev = r.dev
  BY DEF RowFor, Submitted
<1>2. Held(d.signer, r.subj, d.share.secret.addr)'
  <2>1. CASE d.primary
    <3> DEFINE a == NewAccount(r)
    <3>1. a.signer = d.signer /\ a.subj = r.subj /\ a.addr = d.share.secret.addr /\ a \in accounts'
      BY <2>1 DEF RowFor, NewAccount
    <3> HIDE DEF a
    <3> QED  BY <3>1 DEF Held
  <2>2. CASE ~d.primary
    BY <2>2, HeldKept DEF RowFor
  <2> QED  BY <2>1, <2>2
<1> QED  BY <1>1, <1>2 DEF RowOK, SealedOK, Held

LEMMA StoresKeeps ==
  ASSUME NEW w \in Workers, Stores(w)
  PROVE  AccountsKept /\ RowsKept
BY DEF Stores, StoresRow, AccountsKept, RowsKept

LEMMA StoresRows ==
  ASSUME DeviceInv, NEW w \in Workers, Stores(w)
  PROVE  RowsOK'
<1> DEFINE r == job[w].req
           a == NewAccount(r)
<1>1. PICK d \in Device : StoresRow(w, d)
  BY DEF Stores
<1>2. /\ devices' = devices \cup {d} /\ RowFor(d, r) /\ d.id = r.dev
      /\ d.primary => a \in accounts' /\ d.signer = r.signer
  BY <1>1 DEF StoresRow, RowFor
<1>3. AccountsKept /\ RowsKept
  BY StoresKeeps
<1>4. UniqueIds'
  <2>1. \A e \in devices : e.id # d.id
    BY <1>2 DEF DeviceInv, RequestsOK, IdOK, Stores
  <2> QED  BY <1>2, <2>1 DEF DeviceInv, RowsOK, UniqueIds
<1>5. \A e \in devices' : RowOK(e)'
  <2>1. RowOK(d)'
    <3>1. PICK q : q = r
      OBVIOUS
    <3>2. RowFor(d, q) /\ d \in devices' /\ (d.primary => NewAccount(q) \in accounts' /\ d.signer = q.signer)
      BY <1>2, <3>1
    <3> QED  BY <1>3, <3>2, StoredRow
  <2>2. \A e \in devices : RowOK(e)'
    BY <1>3, RowKept DEF DeviceInv, RowsOK
  <2> QED  BY <1>2, <2>1, <2>2
<1>6. BoundFormat'
  <2>1. server' = server /\ d.share.fmt = "v2"
    BY <1>2 DEF Stores, RowFor
  <2> QED  BY <1>2, <2>1 DEF DeviceInv, RowsOK, BoundFormat
<1>7. PrimaryHoldsOwnShare'
  <2> SUFFICES ASSUME interventions = 0, NEW b \in accounts', NEW e \in devices',
                      e.signer = b.signer, e.primary, ~e.revoked
               PROVE  e.share.secret = [by |-> b.subj, addr |-> b.addr, dev |-> e.id]
    BY DEF PrimaryHoldsOwnShare, PrimaryOf, Stores
  <2>1. CASE b \in accounts /\ e \in devices
    BY <2>1 DEF DeviceInv, RowsOK, PrimaryHoldsOwnShare, PrimaryOf
  <2>2. CASE b \notin accounts
    <3>1. b = a /\ d.primary /\ d.signer = r.signer
          /\ \A c \in accounts : c.signer # a.signer
      BY <1>1, <2>2 DEF StoresRow
    <3>2. a.signer = r.signer /\ a.subj = r.subj /\ a.addr = StoredAddress(r)
      BY DEF NewAccount
    <3>3. \A c \in accounts : c.signer # r.signer
      BY <3>1, <3>2
    <3>4. \A x \in devices : \E c \in accounts : x.signer = c.signer
      BY DEF DeviceInv, WalletInv, StoredOK, NoOrphans
    <3>5. e = d
      BY <1>2, <3>1, <3>2, <3>3, <3>4
    <3>6. d.share.secret = Submitted(r, StoredAddress(r))
      BY <1>2, <3>1 DEF RowFor
    <3> QED  BY <1>2, <3>1, <3>2, <3>5, <3>6 DEF Submitted
  <2>3. CASE b \in accounts /\ e \notin devices
    <3>1. e = d
      BY <1>2, <2>3
    <3>2. \A c \in accounts : c.signer # a.signer
      BY <1>1, <3>1 DEF StoresRow
    <3>3. a.signer = r.signer /\ d.signer = r.signer
      BY <1>2, <3>1 DEF NewAccount
    <3> QED  BY <2>3, <3>1, <3>2, <3>3
  <2> QED  BY <2>1, <2>2, <2>3
<1> QED  BY <1>4, <1>5, <1>6, <1>7 DEF RowsOK

\* Row y takes the place of row x.
Replaces(x, y) ==
  /\ x \in devices /\ devices' = (devices \ {x}) \cup {y}
  /\ y.id = x.id /\ y.signer = x.signer /\ y.primary = x.primary
  /\ UNCHANGED accounts

LEMMA ReplacedRows ==
  ASSUME DeviceInv, NEW x, NEW y, Replaces(x, y), RowOK(y)
  PROVE  AccountsKept /\ RowsKept /\ UniqueIds' /\ \A e \in devices' : RowOK(e)'
<1>1. AccountsKept /\ RowsKept
  BY DEF Replaces, AccountsKept, RowsKept
<1>2. UniqueIds'
  BY DEF Replaces, DeviceInv, RowsOK, UniqueIds
<1>3. RowOK(y)' /\ \A e \in devices : RowOK(e)'
  BY <1>1, RowKept DEF DeviceInv, RowsOK
<1> QED  BY <1>1, <1>2, <1>3 DEF Replaces

Revocation(x) == [x EXCEPT !.share = Cleared, !.revoked = TRUE]

LEMMA RevocationRow ==
  ASSUME NEW x \in Device
  PROVE  /\ Revocation(x) \in Device
         /\ Revocation(x).id = x.id /\ Revocation(x).signer = x.signer
         /\ Revocation(x).primary = x.primary
         /\ Revocation(x).share = Cleared /\ Revocation(x).revoked
         /\ RowOK(Revocation(x))
<1>1. Cleared \in Ciphertext
  BY DEF Cleared, Ciphertext
<1>2. /\ Revocation(x) \in Device
      /\ Revocation(x).id = x.id /\ Revocation(x).signer = x.signer
      /\ Revocation(x).primary = x.primary
      /\ Revocation(x).share = Cleared /\ Revocation(x).revoked
  BY <1>1 DEF Revocation, Device
<1>3. RowOK(Revocation(x))
  BY <1>2 DEF RowOK, SealedOK, Cleared
<1> QED  BY <1>2, <1>3

\* The update of a revocation finds no row, or the one with the id.
Revokes(w) ==
  /\ SameRequest(w) /\ job'[w].pc = "answer" /\ job'[w].found = job[w].found
  /\ job[w].pc = "revoke"
  /\ UNCHANGED <<accounts, tx, server, key, acked, interventions>>
  /\ \/ Revocable(job[w].row.id) = {} /\ devices' = devices
     \/ \E x \in devices :
          /\ x.id = job[w].row.id /\ ~x.primary /\ ~x.revoked
          /\ Replaces(x, Revocation(x))

LEMMA RevokeRevokes ==
  ASSUME DeviceInv, NEW w \in Workers, RevokeUpdate(w) \/ RevokeReplyLost(w)
  PROVE  Revokes(w)
<1> DEFINE rows == Revocable(job[w].row.id)
<1>1. /\ TypeInv /\ job[w].pc = "revoke" /\ ClearRows(rows)
      /\ UNCHANGED <<accounts, tx, server, key, acked, interventions>>
      /\ \E resp : Reply(w, resp)
  BY DEF RevokeUpdate, RevokeReplyLost, DeviceInv, WalletInv, env
<1>2. SameRequest(w) /\ job'[w].pc = "answer" /\ job'[w].found = job[w].found
  BY <1>1, ReplySame
<1>3. CASE rows = {}
  <2>1. devices' = devices
    BY <1>1, <1>3 DEF ClearRows
  <2> QED  BY <1>1, <1>2, <1>3, <2>1 DEF Revokes
<1>4. CASE rows # {}
  <2>1. PICK x \in devices : x.id = job[w].row.id /\ ~x.primary /\ ~x.revoked
    BY <1>4 DEF Revocable
  <2>2. rows = {x}
    BY <2>1 DEF Revocable, DeviceInv, RowsOK, UniqueIds
  <2>3. devices' = (devices \ {x}) \cup {Revocation(x)}
    BY <1>1, <2>2 DEF ClearRows, Revocation
  <2>4. x \in Device
    BY <1>1, <2>1 DEF TypeInv, TypeOK, TablesTypeOK
  <2>5. Replaces(x, Revocation(x))
    BY <1>1, <2>1, <2>3, <2>4, RevocationRow DEF Replaces
  <2> QED  BY <1>1, <1>2, <2>1, <2>5 DEF Revokes
<1> QED  BY <1>3, <1>4

LEMMA RevokesRows ==
  ASSUME DeviceInv, NEW w \in Workers, Revokes(w)
  PROVE  RowsOK' /\ AccountsKept /\ NewIds(w)
<1>1. CASE devices' = devices
  <2>1. RowsOK'
    BY <1>1, SameRows DEF Revokes
  <2> QED  BY <1>1, <2>1, SameAccounts DEF Revokes, NewIds
<1>2. CASE \E x \in devices : ~x.primary /\ ~x.revoked /\ Replaces(x, Revocation(x))
  <2>1. PICK x \in devices : ~x.primary /\ ~x.revoked /\ Replaces(x, Revocation(x))
    BY <1>2
  <2> DEFINE y == Revocation(x)
  <2>2. x \in Device
    BY DEF DeviceInv, WalletInv, TypeInv, TypeOK, TablesTypeOK
  <2>3. RowOK(y) /\ y.revoked /\ ~y.primary /\ y.id = x.id
    BY <2>1, <2>2, RevocationRow
  <2> HIDE DEF y
  <2>4. AccountsKept /\ UniqueIds' /\ \A e \in devices' : RowOK(e)'
    BY <2>1, <2>3, ReplacedRows DEF y
  <2>5. devices' = (devices \ {x}) \cup {y} /\ UNCHANGED <<accounts, server, interventions>>
    BY <2>1 DEF Replaces, Revokes, y
  <2>6. BoundFormat'
    BY <2>3, <2>5 DEF DeviceInv, RowsOK, BoundFormat
  <2>7. PrimaryHoldsOwnShare'
    BY <2>3, <2>5 DEF DeviceInv, RowsOK, PrimaryHoldsOwnShare, PrimaryOf
  <2> QED  BY <2>3, <2>4, <2>5, <2>6, <2>7 DEF RowsOK, NewIds
<1> QED  BY <1>1, <1>2 DEF Revokes

\* An operator's hand: a ciphertext moved, or an account marked as deleted.
Moves(x, y) ==
  /\ Replaces(x, y) /\ ~x.revoked
  /\ y \in Device /\ y.revoked = x.revoked
  /\ \E z \in devices : ~z.revoked /\ y.share = z.share
  /\ interventions \in Nat /\ interventions' = interventions + 1
  /\ UNCHANGED <<accounts, migrated, tx, job, server, key, acked>>

LEMMA MoveMoves ==
  ASSUME DeviceInv, MoveCiphertext
  PROVE  \E x \in devices, y \in Device : Moves(x, y)
<1>1. PICK z \in devices, x \in devices :
        /\ ~z.revoked /\ ~x.revoked
        /\ devices' = (devices \ {x}) \cup {[x EXCEPT !.share = z.share]}
  BY DEF MoveCiphertext
<1> DEFINE y == [x EXCEPT !.share = z.share]
<1>2. /\ y.id = x.id /\ y.signer = x.signer /\ y.primary = x.primary
      /\ y.revoked = x.revoked /\ y.share = z.share /\ y \in Device
  <2>1. x \in Device /\ z \in Device
    BY DEF DeviceInv, WalletInv, TypeInv, TypeOK, TablesTypeOK
  <2> QED  BY <2>1 DEF Device
<1> HIDE DEF y
<1>3. devices' = (devices \ {x}) \cup {y}
  BY <1>1 DEF y
<1>4. interventions \in Nat
  BY BoundsAssumption DEF DeviceInv, WalletInv, TypeInv, TypeOK
<1>5. Moves(x, y)
  BY <1>1, <1>2, <1>3, <1>4 DEF MoveCiphertext, Moves, Replaces
<1> QED  BY <1>2, <1>5

LEMMA MovesRows ==
  ASSUME DeviceInv, NEW x \in devices, NEW y \in Device, Moves(x, y)
  PROVE  RowsOK' /\ AccountsKept /\ \A e \in devices' : \E d \in devices : d.id = e.id
<1>1. PICK z \in devices : ~z.revoked /\ y.share = z.share
  BY DEF Moves
<1>2. RowOK(z)
  BY DEF DeviceInv, RowsOK
<1>3. RowOK(y)
  BY <1>1, <1>2 DEF RowOK, Moves
<1>4. AccountsKept /\ UniqueIds' /\ \A e \in devices' : RowOK(e)'
  BY <1>3, ReplacedRows DEF Moves
<1>5. devices' = (devices \ {x}) \cup {y} /\ y.id = x.id /\ server' = server
      /\ interventions' # 0
  BY DEF Moves, Replaces
<1>6. BoundFormat'
  BY <1>1, <1>5 DEF DeviceInv, RowsOK, BoundFormat
<1>7. PrimaryHoldsOwnShare'
  BY <1>5 DEF PrimaryHoldsOwnShare
<1> QED  BY <1>4, <1>5, <1>6, <1>7 DEF RowsOK

LEMMA SoftDeleteRows ==
  ASSUME DeviceInv, SoftDeleteAccount
  PROVE  RowsOK' /\ AccountsKept /\ UNCHANGED <<devices, tx, job>>
<1>1. PICK a \in accounts :
        accounts' = (accounts \ {a}) \cup {[a EXCEPT !.deleted = TRUE]}
  BY DEF SoftDeleteAccount
<1> DEFINE new == [a EXCEPT !.deleted = TRUE]
<1>2. new.id = a.id /\ new.addr = a.addr /\ new.signer = a.signer /\ new.subj = a.subj
  <2>1. a \in Account
    BY DEF DeviceInv, WalletInv, TypeInv, TypeOK, TablesTypeOK
  <2> QED  BY <2>1 DEF Account
<1> HIDE DEF new
<1>3. accounts' = (accounts \ {a}) \cup {new} /\ UNCHANGED <<devices, tx, job, server>>
  BY <1>1 DEF SoftDeleteAccount, new
<1>4. AccountsKept
  BY <1>2, <1>3 DEF AccountsKept
<1>5. RowsKept
  BY <1>3 DEF RowsKept
<1>6. \A e \in devices : RowOK(e)'
  BY <1>4, <1>5, RowKept DEF DeviceInv, RowsOK
<1>7. interventions \in Nat /\ interventions' = interventions + 1
  BY BoundsAssumption DEF SoftDeleteAccount, DeviceInv, WalletInv, TypeInv, TypeOK
<1>8. BoundFormat' /\ PrimaryHoldsOwnShare'
  BY <1>3, <1>7 DEF DeviceInv, RowsOK, BoundFormat, PrimaryHoldsOwnShare
<1> QED  BY <1>3, <1>4, <1>6, <1>8 DEF RowsOK, UniqueIds, DeviceInv

----------------------------------------------------------------------------
(***************************************************************************)
(* The steps that change no table.                                         *)
(***************************************************************************)
Reading(w) ==
  /\ SameRequest(w)
  /\ UNCHANGED <<tables, server, key, acked, interventions>>
  /\ \A v \in Others(w) : tx'[v] = tx[v]
  /\ FoundOwn(w)' /\ StagedRows(w)'

LEMMA ReadsReading ==
  ASSUME DeviceInv, NEW w \in Workers, Reads(w)
  PROVE  Reading(w)
<1>1. /\ UNCHANGED <<tables, tx, env>> /\ job[w].pc = "start"
      /\ SameRequest(w) /\ Finds(w)
  BY ReadsFind DEF DeviceInv, WalletInv
<1>2. AccountsKept
  BY <1>1, SameAccounts DEF tables
<1>3. FoundOwn(w)'
  BY <1>1 DEF Finds, FoundPlaces, FoundOwn, LiveAccounts, tables, SameRequest
<1>4. StagedRows(w)'
  BY <1>1, <1>2, StagedKept DEF SameRequest
<1> QED  BY <1>1, <1>3, <1>4 DEF Reading, env

\* The steps that answer, and change no table.
LEMMA AnswersReading ==
  ASSUME DeviceInv, NEW w \in Workers, job[w].pc \notin {"idle", "answer"},
         NEW resp, Reply(w, resp),
         tx' = tx \/ tx' = [tx EXCEPT ![w] = NoWrites],
         UNCHANGED <<tables, server, key, acked, interventions>>
  PROVE  Reading(w)
<1>1. TypeInv /\ SameRequest(w) /\ job'[w].pc = "answer"
  BY ReplySame DEF DeviceInv, WalletInv
<1>2. FoundOwn(w)'
  BY <1>1 DEF FoundOwn
<1>3. AccountsKept
  BY SameAccounts DEF tables
<1>4. /\ \A v \in Others(w) : tx'[v] = tx[v]
      /\ tx'[w] = tx[w] \/ tx'[w].devices = {}
  BY <1>1 DEF TypeInv, TypeOK, TablesTypeOK, Others, NoWrites
<1>5. StagedRows(w)'
  <2>1. CASE tx'[w] = tx[w]
    BY <1>1, <1>3, <2>1, StagedKept DEF SameRequest
  <2>2. CASE tx'[w].devices = {}
    BY <2>2 DEF StagedRows
  <2> QED  BY <1>4, <2>1, <2>2
<1> QED  BY <1>1, <1>2, <1>4, <1>5 DEF Reading

LEMMA QueriesReading ==
  ASSUME DeviceInv, NEW w \in Workers,
         \/ ReadPrimary(w) \/ GetDevice(w) \/ GetSignerV2(w) \/ ListAccountsV2(w)
         \/ ListDevicesRead(w) \/ ListDevicesV2(w) \/ ReadMigrated(w)
  PROVE  Reading(w)
<1>1. job[w].pc \notin {"idle", "answer"} /\ \E resp : Query(w, resp)
  BY DEF ReadPrimary, GetDevice, GetSignerV2, ListAccountsV2, ListDevicesRead,
         ListDevicesV2, ReadMigrated, ServeShare, At
<1> QED  BY <1>1, AnswersReading DEF Query, env, tables

LEMMA ListsReading ==
  ASSUME DeviceInv, NEW w \in Workers, RevokeDeviceV2(w) \/ ListDevices(w)
  PROVE  Reading(w)
<1>1. /\ TypeInv /\ job[w].pc = "start" /\ UNCHANGED <<tables, tx, env>>
      /\ \/ \E resp : Reply(w, resp)
         \/ \E d : job' = [job EXCEPT ![w].row = d, ![w].pc = "revoke"]
         \/ \E s : job' = [job EXCEPT ![w].seen = s, ![w].pc = "readDevices"]
  BY DEF RevokeDeviceV2, ListDevices, At, DeviceInv, WalletInv
<1>2. CASE \E resp : Reply(w, resp)
  BY <1>1, <1>2, AnswersReading DEF env
<1>3. CASE \/ \E d : job' = [job EXCEPT ![w].row = d, ![w].pc = "revoke"]
           \/ \E s : job' = [job EXCEPT ![w].seen = s, ![w].pc = "readDevices"]
  <2>1. SameRequest(w) /\ job'[w].pc \in {"revoke", "readDevices"}
    BY <1>1, <1>3, RowSame, SeenSame
  <2>2. FoundOwn(w)'
    BY <2>1 DEF FoundOwn
  <2>3. StagedRows(w)'
    BY <1>1, <2>1, StagedKept, SameAccounts DEF SameRequest, tables
  <2> QED  BY <1>1, <2>1, <2>2, <2>3 DEF Reading, env
<1> QED  BY <1>1, <1>2, <1>3

\* The steps of an opening before its COMMIT.
Staging(w) ==
  \/ CreateDeviceV2(w) \/ ImportShare(w) \/ TxAddDevice(w) \/ InsertSigner(w)
  \/ InsertPrimaryDevice(w) \/ InsertAccount(w) \/ InsertMigrated(w)

LEMMA PrimaryFor ==
  ASSUME DeviceInv, NEW w \in Workers, job[w].pc = "insertDevice"
  PROVE  LET r == job[w].req
         IN RowFor(newDevice(r.dev, Submitted(r, StoredAddress(r)), r.signer, TRUE), r)
<1> DEFINE r == job[w].req
           x == Submitted(r, StoredAddress(r))
           d == newDevice(r.dev, x, r.signer, TRUE)
<1>1. r \in Requests /\ r.op \in Opens
  BY DEF DeviceInv, WalletInv, TypeInv, PlaceOK
<1> HIDE DEF r
<1>2. x \in Secret
  BY <1>1, RequestsType DEF Submitted, Secret
<1>3. x.addr = StoredAddress(r) /\ x = Submitted(r, x.addr)
  BY DEF Submitted
<1>4. /\ d.id = r.dev /\ d.primary /\ ~d.revoked
      /\ d.share.fmt = "v2" /\ d.share.sealed = r.dev /\ d.share.secret = x
  BY DEF newDevice, encryptShare
<1> HIDE DEF x, d
<1>5. RowFor(d, r)
  BY <1>2, <1>3, <1>4 DEF RowFor
<1> QED  BY <1>5 DEF r, d, x

LEMMA StagingReading ==
  ASSUME DeviceInv, NEW w \in Workers, Staging(w)
  PROVE  Reading(w)
<1>1. /\ TypeInv /\ job[w].pc \notin {"idle", "answer"}
      /\ UNCHANGED <<tables, server, key, acked, interventions>>
      /\ \/ \E resp : Reply(w, resp) /\ (tx' = tx \/ tx' = [tx EXCEPT ![w] = NoWrites])
         \/ \E pc \in InTx \cup {"insertSigner"} : Goto(w, pc)
  BY DEF Staging, CreateDeviceV2, ImportShare, CheckAddress, TxAddDevice, InsertSigner,
         InsertPrimaryDevice, InsertAccount, InsertMigrated, Abort, At, InTx, env,
         DeviceInv, WalletInv
<1>2. CASE \E resp : Reply(w, resp) /\ (tx' = tx \/ tx' = [tx EXCEPT ![w] = NoWrites])
  BY <1>1, <1>2, AnswersReading
<1>3. CASE \E pc \in InTx \cup {"insertSigner"} : Goto(w, pc)
  <2>1. SameRequest(w) /\ job'[w].pc \in InTx \cup {"insertSigner"}
    BY <1>1, <1>3, GotoSame DEF InTx
  <2>2. FoundOwn(w)'
    BY <2>1 DEF FoundOwn, InTx
  <2>3. AccountsKept
    BY <1>1, SameAccounts DEF tables
  <2>4. \A v \in Others(w) : tx'[v] = tx[v]
    BY <1>1 DEF Staging, CreateDeviceV2, ImportShare, CheckAddress, TxAddDevice,
                InsertSigner, InsertPrimaryDevice, InsertAccount, InsertMigrated, Abort,
                TypeInv, TypeOK, TablesTypeOK, Others
  <2>5. \/ tx'[w].devices = tx[w].devices \/ tx'[w].devices = {}
        \/ \E d : tx'[w].devices = {d} /\ RowFor(d, job[w].req)
    <3>1. CASE TxAddDevice(w)
      <4>1. tx'[w].devices = {Secondary(w)}
        BY <1>1, <3>1 DEF TxAddDevice, TypeInv, TypeOK, TablesTypeOK, Writes
      <4> QED  BY <3>1, <4>1, SecondaryFor DEF TxAddDevice
    <3>2. CASE InsertPrimaryDevice(w)
      <4> DEFINE r == job[w].req
                 d == newDevice(r.dev, Submitted(r, StoredAddress(r)), r.signer, TRUE)
      <4>1. tx'[w].devices = {d} /\ job[w].pc = "insertDevice"
        BY <1>1, <3>2 DEF InsertPrimaryDevice, TypeInv, TypeOK, TablesTypeOK, Writes
      <4> QED  BY <4>1, PrimaryFor
    <3>3. CASE CreateDeviceV2(w) \/ ImportShare(w) \/ InsertSigner(w)
               \/ InsertAccount(w) \/ InsertMigrated(w)
      BY <1>1, <3>3 DEF CreateDeviceV2, ImportShare, CheckAddress, InsertSigner,
         InsertAccount, InsertMigrated, Abort, NoWrites, TypeInv, TypeOK, TablesTypeOK, Writes
    <3> QED  BY <3>1, <3>2, <3>3 DEF Staging
  <2>6. \A d \in tx'[w].devices : RowFor(d, job[w].req)
    BY <2>5 DEF DeviceInv, RequestsOK, StagedRows
  <2>7. StagedRows(w)'
    <3>1. PICK r : r = job[w].req
      OBVIOUS
    <3>2. \A d \in tx'[w].devices : RowFor(d, r)
      BY <2>6, <3>1
    <3>3. \A d \in tx'[w].devices : RowFor(d, r)'
      BY <2>3, <3>2, RowForKept
    <3>4. job'[w].req = r
      BY <2>1, <3>1 DEF SameRequest
    <3> QED  BY <3>3, <3>4 DEF StagedRows, RowFor
  <2> QED  BY <1>1, <2>1, <2>2, <2>4, <2>7 DEF Reading
<1> QED  BY <1>1, <1>2, <1>3

LEMMA DbFailsReading ==
  ASSUME DeviceInv, NEW w \in Workers, DbFails(w)
  PROVE  Reading(w)
BY AnswersReading DEF DbFails, Abort, tables

\* Every step between a request's arrival and its answer.
LEMMA WorksShape ==
  ASSUME DeviceInv, NEW w \in Workers, Works(w)
  PROVE  Reading(w) \/ Stores(w) \/ Revokes(w)
BY ReadsReading, QueriesReading, ListsReading, StagingReading, DbFailsReading,
   AddStores, CommitStores, RevokeRevokes
   DEF Works, Reads, Staging, ReplyLost

----------------------------------------------------------------------------
(***************************************************************************)
(* DeviceInv is inductive.                                                 *)
(***************************************************************************)
LEMMA WorksDevices ==
  ASSUME DeviceInv, NEW w \in Workers, Works(w)
  PROVE  RowsOK' /\ RequestsOK'
<1>1. CASE Reading(w)
  <2>1. /\ UNCHANGED <<devices, accounts>> /\ interventions' = interventions
        /\ server' = server /\ SameRequest(w)
    BY <1>1 DEF Reading, tables
  <2>2. RowsOK' /\ NewIds(w) /\ AccountsKept
    BY <2>1, SameRows, SameAccounts DEF NewIds
  <2> QED  BY <1>1, <2>1, <2>2, WorkRequests DEF Reading
<1>2. CASE Stores(w)
  <2>1. RowsOK' /\ AccountsKept
    BY <1>2, StoresRows, StoresKeeps
  <2>2. NewIds(w)
    BY <1>2 DEF Stores, StoresRow, RowFor, NewIds
  <2>3. FoundOwn(w)' /\ StagedRows(w)'
    BY <1>2 DEF Stores, FoundOwn, StagedRows
  <2> QED  BY <1>2, <2>1, <2>2, <2>3, WorkRequests DEF Stores
<1>3. CASE Revokes(w)
  <2>1. RowsOK' /\ AccountsKept /\ NewIds(w)
    BY <1>3, RevokesRows
  <2>2. /\ SameRequest(w) /\ job'[w].pc = "answer" /\ tx' = tx
    BY <1>3 DEF Revokes
  <2>3. FoundOwn(w)' /\ StagedRows(w)'
    BY <2>1, <2>2, StagedKept DEF FoundOwn, SameRequest
  <2> QED  BY <2>1, <2>2, <2>3, WorkRequests
<1> QED  BY <1>1, <1>2, <1>3, WorksShape

\* A request arrives, with ids nobody has.
LEMMA ReceiveJob ==
  ASSUME TypeInv, NEW w \in Workers, Receive(w)
  PROVE  /\ job[w].pc = "idle" /\ job'[w].pc = "start"
         /\ job'[w].req \in Requests /\ Fresh(job'[w].req)
         /\ job'[w].found = None /\ job'[w].resp = Status(0) /\ job'[w].seen = {}
         /\ job'[w].past = [acked |-> acked, held |-> {a.addr : a \in accounts}]
         /\ \A v \in Others(w) : job'[v] = job[v]
         /\ UNCHANGED <<tables, tx, env>>
<1>1. PICK r \in Requests :
        /\ Fresh(r)
        /\ job' = [job EXCEPT ![w] =
                    [NoJob EXCEPT !.pc = "start", !.req = r,
                                  !.past = [acked |-> acked,
                                            held |-> {a.addr : a \in accounts}]]]
  BY DEF Receive
<1> DEFINE p == [acked |-> acked, held |-> {a.addr : a \in accounts}]
           j == [NoJob EXCEPT !.pc = "start", !.req = r, !.past = p]
<1>2. job[w].pc = "idle" /\ UNCHANGED <<tables, tx, env>>
  BY DEF Receive
<1>3. j.pc = "start" /\ j.req = r /\ j.found = None /\ j.resp = Status(0) /\ j.past = p
      /\ j.seen = {}
  BY DEF NoJob
<1>4. job' = [job EXCEPT ![w] = j]
  BY <1>1
<1> HIDE DEF j
<1>5. job'[w] = j /\ \A v \in Others(w) : job'[v] = job[v]
  BY <1>4 DEF TypeInv, TypeOK, Others
<1> QED  BY <1>1, <1>2, <1>3, <1>5

LEMMA ReceiveDevices ==
  ASSUME DeviceInv, NEW w \in Workers, Receive(w)
  PROVE  RowsOK' /\ RequestsOK'
<1>1. TypeInv
  BY DEF DeviceInv, WalletInv
<1>2. /\ UNCHANGED <<devices, accounts, tx, server, interventions>>
      /\ job[w].pc = "idle" /\ job'[w].pc = "start" /\ Fresh(job'[w].req)
      /\ \A v \in Others(w) : job'[v] = job[v]
  BY <1>1, ReceiveJob DEF tables, env
<1>3. RowsOK' /\ AccountsKept
  BY <1>2, SameRows, SameAccounts
<1>4. job'[w].req.op \in Mints =>
        /\ \A d \in devices : d.id # job'[w].req.dev
        /\ \A v \in Others(w) : job[v].req.dev # job'[w].req.dev
  BY <1>2 DEF Fresh, Mints, UsedDeviceIds, Asked, Others
<1>5. \A v \in Workers : IdOK(v)'
  BY <1>2, <1>4 DEF IdOK, Pending, Others, DeviceInv, RequestsOK
<1>6. FoundOwn(w)' /\ StagedRows(w)'
  <2>1. tx[w].devices = {}
    BY <1>2 DEF DeviceInv, WalletInv, StagedOK, InTx, NoWrites
  <2> QED  BY <1>2, <2>1 DEF FoundOwn, StagedRows
<1>7. ASSUME NEW v \in Others(w) PROVE FoundOwn(v)' /\ StagedRows(v)'
  BY <1>2, <1>3, FoundKept, StagedKept DEF Others
<1> QED  BY <1>3, <1>5, <1>6, <1>7 DEF RequestsOK, Others

\* The steps after which w, or everybody, has no request.
LEMMA EndDevices ==
  ASSUME DeviceInv, UNCHANGED tables, interventions' = interventions,
         server' = "serving" => server = "serving",
         \A v \in Workers : \/ job'[v].pc = "idle" /\ tx'[v].devices = {}
                            \/ job'[v] = job[v] /\ tx'[v] = tx[v]
  PROVE  RowsOK' /\ RequestsOK'
<1>1. RowsOK' /\ AccountsKept
  BY SameRows, SameAccounts DEF tables
<1>2. \A v \in Workers : IdOK(v)'
  BY DEF IdOK, Pending, Others, DeviceInv, RequestsOK, tables
<1>3. ASSUME NEW v \in Workers PROVE FoundOwn(v)' /\ StagedRows(v)'
  <2>1. CASE job'[v].pc = "idle" /\ tx'[v].devices = {}
    BY <2>1 DEF FoundOwn, StagedRows
  <2>2. CASE job'[v] = job[v] /\ tx'[v] = tx[v]
    BY <1>1, <2>2, FoundKept, StagedKept
  <2> QED  BY <2>1, <2>2
<1> QED  BY <1>1, <1>2, <1>3 DEF RequestsOK

LEMMA RespondJob ==
  ASSUME TypeInv, NEW w \in Workers, Respond(w)
  PROVE  /\ job[w].pc = "answer" /\ job'[w] = NoJob
         /\ \A v \in Others(w) : job'[v] = job[v]
BY DEF Respond, TypeInv, TypeOK, Others

LEMMA RespondDevices ==
  ASSUME DeviceInv, NEW w \in Workers, Respond(w)
  PROVE  RowsOK' /\ RequestsOK'
<1>1. /\ job[w].pc = "answer" /\ job'[w].pc = "idle"
      /\ \A v \in Others(w) : job'[v] = job[v]
      /\ UNCHANGED <<tables, tx, server, interventions>>
  BY RespondJob, NoJobType DEF Respond, DeviceInv, WalletInv
<1>2. tx[w].devices = {}
  BY <1>1 DEF DeviceInv, WalletInv, StagedOK, InTx, NoWrites
<1> QED  BY <1>1, <1>2, EndDevices DEF Others

LEMMA CrashDevices ==
  ASSUME DeviceInv, Crash
  PROVE  RowsOK' /\ RequestsOK'
<1>1. \A v \in Workers : job'[v].pc = "idle" /\ tx'[v].devices = {}
  BY NoJobType DEF Crash, NoWrites
<1>2. UNCHANGED <<tables, interventions>> /\ server' # "serving"
  BY DEF Crash
<1> QED  BY <1>1, <1>2, EndDevices

\* Steps that leave the requests alone and mint nothing.
LEMMA RequestsLeft ==
  ASSUME DeviceInv, AccountsKept, UNCHANGED <<tx, job>>,
         \A e \in devices' : \E d \in devices : d.id = e.id
  PROVE  RequestsOK'
<1>1. \A v \in Workers : IdOK(v)'
  BY DEF IdOK, Pending, Others, DeviceInv, RequestsOK
<1> QED  BY <1>1, FoundKept, StagedKept DEF RequestsOK

LEMMA BootDevices ==
  ASSUME DeviceInv, Boot
  PROVE  RowsOK' /\ RequestsOK'
<1>1. UNCHANGED <<devices, accounts, tx, job, interventions>>
      /\ (server' = "serving" => Unbound = {})
  BY DEF Boot, tables
<1> QED  BY <1>1, SameRows, SameAccounts, RequestsLeft

LEMMA DevicesStep == DeviceInv /\ [Next]_vars => DeviceInv'
<1> SUFFICES ASSUME DeviceInv, [Next]_vars PROVE RowsOK' /\ RequestsOK'
  BY WalletStep DEF DeviceInv
<1>1. CASE UNCHANGED vars
  <2>1. UNCHANGED <<devices, accounts, tx, job, interventions, server>>
    BY <1>1 DEF vars, tables, env
  <2> QED  BY <2>1, SameRows, SameAccounts, RequestsLeft
<1>2. ASSUME NEW w \in Workers, Receive(w) \/ Handle(w) \/ DbFails(w) \/ ReplyLost(w)
      PROVE  RowsOK' /\ RequestsOK'
  <2>1. Receive(w) \/ Respond(w) \/ Works(w)
    BY <1>2 DEF Handle, Works
  <2> QED  BY <2>1, ReceiveDevices, RespondDevices, WorksDevices
<1>3. CASE MoveCiphertext
  <2>1. PICK x \in devices, y \in Device : Moves(x, y)
    BY <1>3, MoveMoves
  <2> QED  BY <2>1, MovesRows, RequestsLeft DEF Moves
<1>4. CASE SoftDeleteAccount
  BY <1>4, SoftDeleteRows, RequestsLeft
<1> QED  BY <1>1, <1>2, <1>3, <1>4, CrashDevices, BootDevices DEF Next

LEMMA DevicesInit == Init => DeviceInv
<1> SUFFICES ASSUME Init PROVE DeviceInv
  OBVIOUS
<1>1. \A w \in Workers : job[w].pc = "idle" /\ tx[w] = NoWrites
  BY NoJobType DEF Init
<1>2. RequestsOK
  BY <1>1 DEF RequestsOK, IdOK, Pending, FoundOwn, StagedRows, NoWrites
<1>3. ASSUME EmptyStore PROVE RowsOK
  BY <1>3 DEF EmptyStore, RowsOK, UniqueIds, BoundFormat, PrimaryHoldsOwnShare
<1>4. ASSUME LegacyWallet PROVE RowsOK
  <2>1. PICK s \in SignerIds, id \in DeviceIds, acct \in AccountIds, u \in Subjects,
             addr \in Addresses, c \in Chains :
          /\ signers = {s}
          /\ devices = {[id |-> id, primary |-> TRUE, signer |-> s, revoked |-> FALSE,
                         share |-> [fmt |-> "legacy", sealed |-> None, key |-> None,
                                    secret |-> [by |-> u, addr |-> addr, dev |-> id]]]}
          /\ accounts = {[id |-> acct, addr |-> addr, subj |-> u, chain |-> c,
                          signer |-> s, deleted |-> FALSE]}
          /\ migrated = {}
    BY <1>4 DEF LegacyWallet
  <2> DEFINE x == [by |-> u, addr |-> addr, dev |-> id]
             share == [fmt |-> "legacy", sealed |-> None, key |-> None, secret |-> x]
             d == [id |-> id, primary |-> TRUE, signer |-> s, revoked |-> FALSE,
                   share |-> share]
             a == [id |-> acct, addr |-> addr, subj |-> u, chain |-> c,
                   signer |-> s, deleted |-> FALSE]
  <2>2. devices = {d} /\ accounts = {a}
    BY <2>1
  <2>3. a.subj = u /\ a.addr = addr
    OBVIOUS
  <2>4. d.id = id /\ ~d.revoked /\ d.share.secret = x /\ d.share.fmt = "legacy"
    OBVIOUS
  <2> HIDE DEF d, a
  <2>5. RowOK(d)
    BY <2>4 DEF RowOK, SealedOK
  <2>6. PrimaryHoldsOwnShare
    BY <2>2, <2>3, <2>4 DEF PrimaryHoldsOwnShare, PrimaryOf
  <2>7. server # "serving"
    BY DEF Init
  <2> QED  BY <2>2, <2>5, <2>6, <2>7 DEF RowsOK, UniqueIds, BoundFormat
<1>5. RowsOK
  BY <1>3, <1>4 DEF Init
<1> QED  BY <1>2, <1>5, InitWallets DEF DeviceInv

LEMMA DevicesInvariant == Spec => []DeviceInv
BY DevicesInit, DevicesStep, PTL DEF Spec

\* Until an operator moves a ciphertext, the primary device of every account
\* holds the share its owner submitted for that address and device.
THEOREM PrimaryShareIsOwn == Spec => []PrimaryHoldsOwnShare
<1>1. DeviceInv => PrimaryHoldsOwnShare
  BY DEF DeviceInv, RowsOK
<1> QED  BY <1>1, DevicesInvariant, PTL

----------------------------------------------------------------------------
(***************************************************************************)
(* Device rows are kept.                                                   *)
(***************************************************************************)
KeepsRow(d, e) ==
  /\ e.id = d.id /\ e.signer = d.signer /\ e.primary = d.primary
  /\ d.revoked => e = d
  /\ e.share = d.share \/ e.revoked \/ interventions' # interventions

KeepsRows == \A d \in devices : \E e \in devices' : KeepsRow(d, e)

LEMMA SameKeepsRows ==
  ASSUME devices \subseteq devices'
  PROVE  KeepsRows
BY DEF KeepsRows, KeepsRow

LEMMA ReplacedKeepsRows ==
  ASSUME NEW x, NEW y, Replaces(x, y), ~x.revoked,
         y.revoked \/ interventions' # interventions
  PROVE  KeepsRows
BY DEF Replaces, KeepsRows, KeepsRow

LEMMA StepKeepsRows ==
  ASSUME DeviceInv, [Next]_vars
  PROVE  KeepsRows
<1>1. CASE UNCHANGED vars \/ Crash \/ Boot \/ SoftDeleteAccount
           \/ \E w \in Workers : Receive(w) \/ Respond(w)
  <2>1. devices' = devices
    BY <1>1 DEF vars, tables, Crash, Boot, SoftDeleteAccount, Receive, Respond
  <2> QED  BY <2>1, SameKeepsRows
<1>2. CASE MoveCiphertext
  <2>1. PICK x \in devices, y \in Device : Moves(x, y)
    BY <1>2, MoveMoves
  <2> QED  BY <2>1, ReplacedKeepsRows DEF Moves
<1>3. ASSUME NEW w \in Workers, Works(w)
      PROVE  KeepsRows
  <2>1. CASE Reading(w) \/ Stores(w)
    <3>1. devices \subseteq devices'
      BY <2>1 DEF Reading, Stores, StoresRow, tables
    <3> QED  BY <3>1, SameKeepsRows
  <2>2. CASE Revokes(w)
    <3>1. CASE devices' = devices
      BY <3>1, SameKeepsRows
    <3>2. CASE \E x \in devices : ~x.revoked /\ Replaces(x, Revocation(x))
      <4>1. PICK x \in devices : ~x.revoked /\ Replaces(x, Revocation(x))
        BY <3>2
      <4>2. x \in Device
        BY DEF DeviceInv, WalletInv, TypeInv, TypeOK, TablesTypeOK
      <4> QED  BY <4>1, <4>2, RevocationRow, ReplacedKeepsRows
    <3> QED  BY <2>2, <3>1, <3>2 DEF Revokes
  <2> QED  BY <1>3, <2>1, <2>2, WorksShape
<1> QED  BY <1>1, <1>2, <1>3 DEF Next, Handle, Works

\* From one step to the next every device row stays, with its signer and its
\* rank; a share is lost only with its device's one revocation.
THEOREM DeviceRowsStay == Spec => DeviceRowsAreKept
<1> DEFINE Keep == \A d \in devices : \E e \in devices' :
             /\ e.id = d.id /\ e.signer = d.signer /\ e.primary = d.primary
             /\ e.revoked <=> e.share = Cleared
             /\ e.revoked => ~e.primary
             /\ d.revoked => e = d
             /\ e.share = d.share \/ e.revoked \/ interventions' # interventions
<1>1. ASSUME DeviceInv, DeviceInv', [Next]_vars
      PROVE  Keep
  <2>1. \A e \in devices' : e.revoked => ~e.primary
    BY <1>1 DEF DeviceInv, WalletInv, StoredOK
  <2>2. \A e \in devices' : e.revoked <=> e.share = Cleared
    BY <1>1 DEF DeviceInv, RowsOK, RowOK, Cleared
  <2>3. KeepsRows
    BY <1>1, StepKeepsRows
  <2> QED  BY <2>1, <2>2, <2>3 DEF KeepsRows, KeepsRow
<1> QED  BY <1>1, DevicesInvariant, PTL DEF Spec, DeviceRowsAreKept

----------------------------------------------------------------------------
(***************************************************************************)
(* The store implements the registry.                                      *)
(***************************************************************************)
Views == <<OpenedWallets, AddedDevices, RevokedIds>>

LEMMA SameViews ==
  ASSUME UNCHANGED <<devices, accounts>>
  PROVE  UNCHANGED Views
BY DEF Views, OpenedWallets, WalletOf, PrimaryIds, AddedDevices, RevokedIds

LEMMA ReplacedViews ==
  ASSUME NEW x, NEW y, Replaces(x, y)
  PROVE  /\ OpenedWallets' = OpenedWallets /\ AddedDevices' = AddedDevices
         /\ y.revoked = x.revoked => RevokedIds' = RevokedIds
         /\ y.revoked => RevokedIds' = RevokedIds \cup {x.id}
<1>1. /\ devices' = (devices \ {x}) \cup {y} /\ x \in devices /\ accounts' = accounts
      /\ y.id = x.id /\ y.signer = x.signer /\ y.primary = x.primary
  BY DEF Replaces
<1>2. \A s : PrimaryIds(s)' = PrimaryIds(s)
  BY <1>1 DEF PrimaryIds
<1>3. OpenedWallets' = OpenedWallets
  BY <1>1, <1>2 DEF OpenedWallets, WalletOf
<1>4. AddedDevices' = AddedDevices
  BY <1>1 DEF AddedDevices
<1>5. y.revoked = x.revoked => RevokedIds' = RevokedIds
  BY <1>1 DEF RevokedIds
<1>6. y.revoked => RevokedIds' = RevokedIds \cup {x.id}
  BY <1>1 DEF RevokedIds
<1> QED  BY <1>3, <1>4, <1>5, <1>6

\* Devices the registry has are rows of the table.
LEMMA UsedAreStored ==
  ASSUME NEW id \in Registry!UsedDevices
  PROVE  \E d \in devices : d.id = id
<1>1. CASE \E x \in OpenedWallets : id \in x.primary
  <2>1. PICK a \in accounts : id \in WalletOf(a).primary
    BY <1>1 DEF OpenedWallets
  <2>2. id \in PrimaryIds(a.signer)
    BY <2>1 DEF WalletOf
  <2> QED  BY <2>2 DEF PrimaryIds
<1>2. CASE \E x \in AddedDevices : id = x.dev
  <2>1. PICK d \in devices : id = [dev |-> d.id, signer |-> d.signer].dev
    BY <1>2 DEF AddedDevices
  <2> QED  BY <2>1
<1> QED  BY <1>1, <1>2 DEF Registry!UsedDevices

LEMMA RevokeMaps ==
  ASSUME DeviceInv, NEW w \in Workers, Revokes(w)
  PROVE  Registry!Next \/ UNCHANGED Views
<1>1. CASE devices' = devices
  BY <1>1, SameViews DEF Revokes
<1>2. CASE \E x \in devices : ~x.primary /\ ~x.revoked /\ Replaces(x, Revocation(x))
  <2>1. PICK x \in devices : ~x.primary /\ ~x.revoked /\ Replaces(x, Revocation(x))
    BY <1>2
  <2>2. x \in Device
    BY DEF DeviceInv, WalletInv, TypeInv, TypeOK, TablesTypeOK
  <2> DEFINE s == [dev |-> x.id, signer |-> x.signer]
  <2>3. s \in AddedDevices /\ s.dev = x.id
    BY <2>1 DEF AddedDevices
  <2>4. x.id \notin RevokedIds
    BY <2>1 DEF RevokedIds, DeviceInv, RowsOK, UniqueIds
  <2>5. /\ OpenedWallets' = OpenedWallets /\ AddedDevices' = AddedDevices
        /\ RevokedIds' = RevokedIds \cup {x.id}
    BY <2>1, <2>2, RevocationRow, ReplacedViews
  <2> HIDE DEF s
  <2>6. Registry!Revoke
    BY <2>3, <2>4, <2>5 DEF Registry!Revoke
  <2> QED  BY <2>6 DEF Registry!Next
<1> QED  BY <1>1, <1>2 DEF Revokes

LEMMA MoveMaps ==
  ASSUME NEW x, NEW y, Moves(x, y)
  PROVE  UNCHANGED Views
BY ReplacedViews DEF Moves, Views

LEMMA SoftDeleteMaps ==
  ASSUME DeviceInv, SoftDeleteAccount
  PROVE  UNCHANGED Views
<1>1. PICK a \in accounts :
        accounts' = (accounts \ {a}) \cup {[a EXCEPT !.deleted = TRUE]}
  BY DEF SoftDeleteAccount
<1> DEFINE new == [a EXCEPT !.deleted = TRUE]
<1>2. new.id = a.id /\ new.addr = a.addr /\ new.signer = a.signer /\ new.subj = a.subj
  <2>1. a \in Account
    BY DEF DeviceInv, WalletInv, TypeInv, TypeOK, TablesTypeOK
  <2> QED  BY <2>1 DEF Account
<1> HIDE DEF new
<1>3. accounts' = (accounts \ {a}) \cup {new} /\ devices' = devices
  BY <1>1 DEF SoftDeleteAccount, new
<1>4. WalletOf(new) = WalletOf(a)
  BY <1>2 DEF WalletOf
<1>5. \A b : WalletOf(b)' = WalletOf(b)
  BY <1>3 DEF WalletOf, PrimaryIds
<1>6. OpenedWallets' = OpenedWallets
  BY <1>3, <1>4, <1>5 DEF OpenedWallets
<1>7. AddedDevices' = AddedDevices /\ RevokedIds' = RevokedIds
  BY <1>3 DEF AddedDevices, RevokedIds
<1> QED  BY <1>6, <1>7 DEF Views

LEMMA StoreMaps ==
  ASSUME DeviceInv, TypeInv', NEW w \in Workers, Stores(w)
  PROVE  Registry!Next
<1>0. PICK r : r = job[w].req
  OBVIOUS
<1> DEFINE a == NewAccount(r)
<1>1. PICK d \in Device : StoresRow(w, d)
  BY DEF Stores
<1>2. /\ devices' = devices \cup {d} /\ RowFor(d, r) /\ d.id = r.dev /\ ~d.revoked
      /\ d.id \in DeviceIds /\ d.signer \in SignerIds
  BY <1>0, <1>1 DEF StoresRow, RowFor, Device
<1>3. \A e \in devices : e.id # d.id
  BY <1>0, <1>2 DEF DeviceInv, RequestsOK, IdOK, Stores
<1>4. d.id \notin Registry!UsedDevices
  BY <1>3, UsedAreStored
<1>5. RevokedIds' = RevokedIds
  BY <1>2 DEF RevokedIds
<1>6. CASE ~d.primary
  <2>1. accounts' = accounts
    BY <1>1, <1>6 DEF StoresRow
  <2>2. \A s : PrimaryIds(s)' = PrimaryIds(s)
    BY <1>2, <1>6 DEF PrimaryIds
  <2>3. OpenedWallets' = OpenedWallets
    BY <2>1, <2>2 DEF OpenedWallets, WalletOf
  <2>4. AddedDevices' = AddedDevices \cup {[dev |-> d.id, signer |-> d.signer]}
    BY <1>2, <1>6 DEF AddedDevices
  <2>5. PICK b \in accounts : b.signer = d.signer
    BY <1>2, <1>6 DEF RowFor, Held
  <2>6. WalletOf(b) \in OpenedWallets /\ WalletOf(b).signer = d.signer
    BY <2>5 DEF OpenedWallets, WalletOf
  <2>7. Registry!Add
    BY <1>2, <1>4, <1>5, <2>3, <2>4, <2>6 DEF Registry!Add
  <2> QED  BY <2>7 DEF Registry!Next
<1>7. CASE d.primary
  <2>1. /\ d.signer = r.signer /\ accounts' = accounts \cup {a}
        /\ \A b \in accounts : b.id # a.id /\ b.addr # a.addr /\ b.signer # a.signer
    BY <1>0, <1>1, <1>7 DEF StoresRow
  <2>2. a.signer = r.signer
    BY DEF NewAccount
  <2>3. a \in Account
    BY <2>1 DEF TypeInv, TypeOK, TablesTypeOK
  <2>4. \A b \in accounts : PrimaryIds(b.signer)' = PrimaryIds(b.signer)
    BY <1>2, <2>1, <2>2 DEF PrimaryIds
  <2>5. PrimaryIds(r.signer)' = {d.id}
    <3>1. \A x \in devices : \E c \in accounts : x.signer = c.signer
      BY DEF DeviceInv, WalletInv, StoredOK, NoOrphans
    <3>2. \A x \in devices : x.signer # r.signer
      BY <2>1, <2>2, <3>1
    <3> QED  BY <1>2, <1>7, <2>1, <3>2 DEF PrimaryIds
  <2> DEFINE x == [acct |-> a.id, addr |-> a.addr, subj |-> a.subj, signer |-> a.signer,
                   primary |-> {d.id}]
  <2>6. x \in Registry!Wallet
    BY <1>2, <2>3 DEF Registry!Wallet, Account
  <2>7. WalletOf(a)' = x
    BY <2>2, <2>5 DEF WalletOf, NewAccount, StoredAddress
  <2> HIDE DEF a
  <2>8. \A b \in accounts : WalletOf(b)' = WalletOf(b)
    BY <2>4 DEF WalletOf
  <2>9. OpenedWallets' = OpenedWallets \cup {x}
    BY <2>1, <2>7, <2>8 DEF OpenedWallets
  <2>10. AddedDevices' = AddedDevices
    BY <1>2, <1>7 DEF AddedDevices
  <2>11. \A y \in OpenedWallets : x.acct # y.acct /\ x.addr # y.addr /\ x.signer # y.signer
    BY <2>1 DEF OpenedWallets, WalletOf
  <2>12. x.primary \cap Registry!UsedDevices = {}
    BY <1>4
  <2> HIDE DEF x
  <2>13. Registry!Open
    BY <1>5, <2>6, <2>9, <2>10, <2>11, <2>12 DEF Registry!Open
  <2> QED  BY <2>13 DEF Registry!Next
<1> QED  BY <1>6, <1>7

LEMMA RegistryInit == Init => Registry!Init
<1> SUFFICES ASSUME Init PROVE Registry!Init
  OBVIOUS
<1>1. CASE EmptyStore
  BY <1>1 DEF EmptyStore, Registry!Init, OpenedWallets, AddedDevices, RevokedIds
<1>2. CASE LegacyWallet
  <2>1. PICK s \in SignerIds, id \in DeviceIds, acct \in AccountIds, u \in Subjects,
             addr \in Addresses, c \in Chains :
          /\ signers = {s}
          /\ devices = {[id |-> id, primary |-> TRUE, signer |-> s, revoked |-> FALSE,
                         share |-> [fmt |-> "legacy", sealed |-> None, key |-> None,
                                    secret |-> [by |-> u, addr |-> addr, dev |-> id]]]}
          /\ accounts = {[id |-> acct, addr |-> addr, subj |-> u, chain |-> c,
                          signer |-> s, deleted |-> FALSE]}
          /\ migrated = {}
    BY <1>2 DEF LegacyWallet
  <2> DEFINE share == [fmt |-> "legacy", sealed |-> None, key |-> None,
                       secret |-> [by |-> u, addr |-> addr, dev |-> id]]
             d == [id |-> id, primary |-> TRUE, signer |-> s, revoked |-> FALSE,
                   share |-> share]
             a == [id |-> acct, addr |-> addr, subj |-> u, chain |-> c,
                   signer |-> s, deleted |-> FALSE]
             x == [acct |-> acct, addr |-> addr, subj |-> u, signer |-> s,
                   primary |-> {id}]
  <2>2. devices = {d} /\ accounts = {a}
    BY <2>1
  <2>3. a.id = acct /\ a.subj = u /\ a.addr = addr /\ a.signer = s
    OBVIOUS
  <2>4. d.id = id /\ ~d.revoked /\ d.primary /\ d.signer = s
    OBVIOUS
  <2> HIDE DEF d, a
  <2>5. PrimaryIds(s) = {id}
    BY <2>2, <2>4 DEF PrimaryIds
  <2>6. OpenedWallets = {x}
    BY <2>2, <2>3, <2>5 DEF OpenedWallets, WalletOf
  <2>7. AddedDevices = {} /\ RevokedIds = {}
    BY <2>2, <2>4 DEF AddedDevices, RevokedIds
  <2>8. x \in Registry!Wallet
    BY DEF Registry!Wallet
  <2> HIDE DEF x
  <2> QED  BY <2>6, <2>7, <2>8 DEF Registry!Init
<1> QED  BY <1>1, <1>2 DEF Init

LEMMA RegistryStep ==
  DeviceInv /\ DeviceInv' /\ [Next]_vars => [Registry!Next]_(Registry!vars)
<1> SUFFICES ASSUME DeviceInv, DeviceInv', [Next]_vars
             PROVE  Registry!Next \/ UNCHANGED Views
  BY DEF Registry!vars, Views
<1>1. CASE UNCHANGED vars \/ Crash \/ Boot
           \/ \E w \in Workers : Receive(w) \/ Respond(w)
  <2>1. UNCHANGED <<devices, accounts>>
    BY <1>1 DEF vars, tables, Crash, Boot, Receive, Respond
  <2> QED  BY <2>1, SameViews
<1>2. CASE MoveCiphertext
  <2>1. PICK x \in devices, y \in Device : Moves(x, y)
    BY <1>2, MoveMoves
  <2> QED  BY <2>1, MoveMaps
<1>3. ASSUME NEW w \in Workers, Works(w)
      PROVE  Registry!Next \/ UNCHANGED Views
  <2>1. CASE Reading(w)
    BY <2>1, SameViews DEF Reading, tables
  <2>2. TypeInv'
    BY DEF DeviceInv, WalletInv
  <2> QED  BY <1>3, <2>1, <2>2, WorksShape, StoreMaps, RevokeMaps
<1> QED  BY <1>1, <1>2, <1>3, SoftDeleteMaps DEF Next, Handle, Works

\* The handlers' separate statements, rolled back, lost or interleaved, amount
\* to whole openings, additions and revocations of the registry.
THEOREM RegistryImplemented == Spec => ImplementsRegistry
BY RegistryInit, RegistryStep, DevicesInvariant, PTL
   DEF Spec, ImplementsRegistry, Registry!Spec
=============================================================================
