------------------------- MODULE HotStorage_proofs -------------------------
(***************************************************************************)
(* Proofs about HotStorage, for every number of workers, subjects, ids,    *)
(* faults, crashes and interventions.                                      *)
(***************************************************************************)
EXTENDS HotStorageProperties, TLAPS

\* An acknowledged revocation names its device.
Reported == {a \in Answer : a.code = 204 => a.dev \in DeviceIds}

\* What a handler knows of its request and of the rows it read, by place.
PlaceOK(w) ==
  LET j == job[w] IN
    /\ j.pc # "idle" => j.req \in Requests
    /\ j.pc \in {"readPrimary", "addDevice", "txAddDevice"} => j.found \in Account
    /\ j.pc = "addDevice" => j.req.op \in Adds
    /\ j.pc \in {"txAddDevice", "insertSigner", "insertDevice", "insertAccount",
                 "insertMigrated", "commit"} => j.req.op \in Opens
    /\ j.pc = "revoke" => j.row \in Device
    /\ j.pc = "readMigrated" => j.req.op = "migrated"
    /\ j.resp \in Reported

TypeInv == TypeOK /\ \A w \in Workers : PlaceOK(w)

----------------------------------------------------------------------------
LEMMA NamedType ==
  ASSUME NEW code \in {0, 200, 201, 204, 400, 404, 409, 500},
         NEW share \in Secret \cup {None}, NEW dev \in DeviceIds \cup {None},
         NEW acct \in AccountIds \cup {None},
         code = 204 => dev \in DeviceIds
  PROVE  Named(code, share, dev, acct) \in Reported
BY DEF Named, Answer, Reported

LEMMA ServedType ==
  ASSUME NEW share \in Secret \cup {None}, NEW dev \in DeviceIds,
         NEW acct \in AccountIds \cup {None}
  PROVE  Named(200, share, dev, acct) \in Reported
BY DEF Named, Answer, Reported

LEMMA StatusType ==
  ASSUME NEW code \in {0, 200, 400, 404, 409, 500}
  PROVE  Status(code) \in Reported /\ Faulted(code) \in Reported
<1>1. Status(code) \in Reported
  BY NamedType DEF Status
<1>2. [Status(code) EXCEPT !.cause = "database"] \in Reported
  BY <1>1 DEF Answer, Reported
<1> QED  BY <1>1, <1>2 DEF Faulted

LEMMA EntryType ==
  ASSUME NEW id \in DeviceIds \cup AccountIds, NEW addr \in Addresses \cup {None},
         NEW b \in BOOLEAN
  PROVE  [id |-> id, addr |-> addr, revoked |-> b] \in Entry
BY Zenon DEF Entry

LEMMA ListedType ==
  ASSUME NEW entries \in SUBSET Entry
  PROVE  Listed(entries) \in Reported
<1>1. Status(200) \in Reported
  BY StatusType
<1>2. [Status(200) EXCEPT !.list = entries] \in Reported
  BY <1>1 DEF Answer, Reported
<1> QED  BY <1>2 DEF Listed

LEMMA NoJobType == NoJob \in Job /\ NoJob.resp \in Reported /\ NoJob.pc = "idle"
<1>1. Status(0) \in Reported
  BY StatusType
<1> QED  BY <1>1 DEF Reported, NoJob, Job, Places, Request, NoRequest

LEMMA RequestsType ==
  ASSUME NEW r \in Requests
  PROVE  /\ r \in Request
         /\ r.op \in AllOps /\ r.subj \in Subjects
         /\ r.op \in Opens \cup Adds => r.dev \in DeviceIds
         /\ r.op \in Adds \cup {"migrated"} => r.acct \in AccountIds
         /\ r.op \in Opens => /\ r.acct \in AccountIds /\ r.signer \in SignerIds
                              /\ r.chain \in Chains /\ StoredAddress(r) \in Addresses
BY NoneAssumption DEF Requests, Req, Request, AllOps, Opens, Adds, Recovers, StoredAddress

LEMMA ReplyType ==
  ASSUME TypeInv, NEW w \in Workers, NEW resp \in Reported, Reply(w, resp),
         job[w].pc # "idle"
  PROVE  /\ job' \in [Workers -> Job]
         /\ \A v \in Workers : PlaceOK(v)'
<1>1. job \in [Workers -> Job] /\ resp \in Answer
  BY DEF TypeInv, TypeOK, Reported
<1>2. [job[w] EXCEPT !.pc = "answer", !.resp = resp] \in Job
  BY <1>1 DEF Job, Places
<1>3. job' = [job EXCEPT ![w] = [job[w] EXCEPT !.pc = "answer", !.resp = resp]]
  BY <1>1 DEF Reply, Job
<1>4. \A v \in Workers : PlaceOK(v)'
  BY <1>1, <1>2, <1>3 DEF TypeInv, PlaceOK, Job
<1> QED  BY <1>1, <1>2, <1>3, <1>4

LEMMA GotoType ==
  ASSUME TypeInv, NEW w \in Workers, NEW pc \in Places, Goto(w, pc),
         job[w].req.op \in Opens, job[w].pc # "idle",
         pc \in {"insertSigner", "insertDevice", "insertAccount", "insertMigrated", "commit"}
  PROVE  /\ job' \in [Workers -> Job]
         /\ \A v \in Workers : PlaceOK(v)'
BY DEF TypeInv, TypeOK, Goto, Job, Places, PlaceOK

\* Steps that touch nothing but the job of w.
LEMMA QueryType ==
  ASSUME TypeInv, NEW w \in Workers, NEW resp \in Reported, Query(w, resp),
         job[w].pc # "idle"
  PROVE  TypeInv'
<1>1. job' \in [Workers -> Job] /\ \A v \in Workers : PlaceOK(v)'
  BY ReplyType DEF Query
<1> QED  BY <1>1 DEF Query, TypeInv, TypeOK, TablesTypeOK, tables, env

LEMMA ReadAccountType ==
  ASSUME TypeInv, NEW w \in Workers, NEW rows \in SUBSET Account,
         NEW missing \in Reported,
         NEW next \in {"readPrimary", "addDevice", "readMigrated"},
         next = "addDevice" => job[w].req.op \in Adds,
         next = "readMigrated" => job[w].req.op = "migrated",
         job[w].pc # "idle",
         ReadAccount(w, rows, next, missing)
  PROVE  TypeInv'
<1>1. job' \in [Workers -> Job] /\ \A v \in Workers : PlaceOK(v)'
  <2>1. CASE Reply(w, missing)
    BY <2>1, ReplyType
  <2>2. ASSUME NEW a \in rows, job' = [job EXCEPT ![w].found = a, ![w].pc = next]
        PROVE  job' \in [Workers -> Job] /\ \A v \in Workers : PlaceOK(v)'
    <3>1. job \in [Workers -> Job]
      BY DEF TypeInv, TypeOK
    <3>2. [job[w] EXCEPT !.found = a, !.pc = next] \in Job
      BY <3>1 DEF Job, Places
    <3>3. job' = [job EXCEPT ![w] = [job[w] EXCEPT !.found = a, !.pc = next]]
      BY <2>2, <3>1 DEF Job
    <3>4. \A v \in Workers : PlaceOK(v)'
      BY <3>1, <3>2, <3>3 DEF TypeInv, PlaceOK, Job
    <3> QED  BY <3>1, <3>2, <3>3, <3>4
  <2> QED  BY <2>1, <2>2 DEF ReadAccount
<1> QED  BY <1>1 DEF ReadAccount, TypeInv, TypeOK, TablesTypeOK, tables, env

LEMMA RowsType ==
  ASSUME TypeInv, NEW s, NEW r
  PROVE  /\ LiveAccounts(s) \in SUBSET Account
         /\ MyAccount(r) \in SUBSET Account
         /\ LiveOwned(s) \in SUBSET Device
         /\ Owned(s) \in SUBSET Device
         /\ PrimaryOf(s) \in SUBSET Device
BY DEF TypeInv, TypeOK, TablesTypeOK, LiveAccounts, MyAccount, LiveOwned, Owned, PrimaryOf

LEMMA ServeShareType ==
  ASSUME TypeInv, NEW w \in Workers, NEW d \in Device, NEW i \in AccountIds \cup {None},
         ServeShare(w, d, i), job[w].pc # "idle"
  PROVE  TypeInv'
<1>1. CASE Decrypts(d)
  <2>1. d.share.secret \in Secret \cup {None} /\ d.id \in DeviceIds
    BY DEF Device, Ciphertext
  <2>2. Named(200, d.share.secret, d.id, i) \in Reported
    BY <2>1, ServedType
  <2> QED  BY <1>1, <2>2, QueryType DEF ServeShare
<1>2. CASE ~Decrypts(d)
  BY <1>2, QueryType, StatusType DEF ServeShare
<1> QED  BY <1>1, <1>2

\* The rows the inserts write.
LEMMA NewDeviceType ==
  ASSUME TypeInv, NEW id \in DeviceIds, NEW x \in Secret, NEW s \in SignerIds,
         NEW p \in BOOLEAN
  PROVE  newDevice(id, x, s, p) \in Device
BY DEF TypeInv, TypeOK, TablesTypeOK, newDevice, encryptShare, Device, Ciphertext

LEMMA SecondaryType ==
  ASSUME TypeInv, NEW w \in Workers, job[w].pc \in {"addDevice", "txAddDevice"}
  PROVE  Secondary(w) \in Device
<1>1. job[w].req \in Requests /\ job[w].found \in Account /\ job[w].req.op \in Opens \cup Adds
  BY DEF TypeInv, PlaceOK
<1>2. job[w].req.dev \in DeviceIds /\ job[w].req.subj \in Subjects
  BY <1>1, RequestsType
<1>3. Submitted(job[w].req, job[w].found.addr) \in Secret
  BY <1>1, <1>2 DEF Submitted, Secret, Account
<1> QED  BY <1>1, <1>2, <1>3, NewDeviceType DEF Secondary, Account

LEMMA AddedType ==
  ASSUME TypeInv, NEW w \in Workers, job[w].pc = "addDevice"
  PROVE  Added(w) \in Reported
<1>1. job[w].req.dev \in DeviceIds /\ job[w].found.id \in AccountIds
  BY RequestsType DEF TypeInv, PlaceOK, Account
<1>2. CASE job[w].req.op = "createDevice"
  <2>1. Added(w) = Named(201, None, job[w].req.dev, job[w].found.id)
    BY <1>2 DEF Added
  <2> QED  BY <1>1, <2>1, NamedType
<1>3. CASE job[w].req.op # "createDevice"
  <2>1. Added(w) = Named(200, None, job[w].req.dev, job[w].found.id)
    BY <1>3 DEF Added
  <2> QED  BY <1>1, <2>1, NamedType
<1> QED  BY <1>2, <1>3

LEMMA OpenedType ==
  ASSUME TypeInv, NEW w \in Workers, job[w].pc = "commit"
  PROVE  Opened(w) \in Reported
<1>1. job[w] \in Job /\ job[w].req \in Requests /\ job[w].req.op \in Opens
  BY DEF TypeInv, TypeOK, PlaceOK
<1>2. job[w].req.dev \in DeviceIds /\ job[w].req.acct \in AccountIds
  BY <1>1, RequestsType
<1>3. (IF job[w].found = None THEN job[w].req.acct ELSE job[w].found.id) \in AccountIds
  BY <1>1, <1>2 DEF Job, Account
<1> DEFINE i == IF job[w].found = None THEN job[w].req.acct ELSE job[w].found.id
<1>4. i \in AccountIds
  BY <1>3
<1> HIDE DEF i
<1>5. Named(200, None, job[w].req.dev, i) \in Reported /\ Named(201, None, job[w].req.dev, i) \in Reported
  BY <1>2, <1>4, NamedType
<1> QED  BY <1>5 DEF Opened, i

LEMMA NewAccountType ==
  ASSUME NEW r \in Requests, r.op \in Opens
  PROVE  NewAccount(r) \in Account
BY RequestsType DEF NewAccount, Account

LEMMA WritesType ==
  ASSUME TypeInv, NEW w \in Workers
  PROVE  /\ tx[w] \in Writes /\ NoWrites \in Writes
         /\ \A x \in SUBSET SignerIds : [tx[w] EXCEPT !.signers = x] \in Writes
         /\ \A x \in SUBSET Device : [tx[w] EXCEPT !.devices = x] \in Writes
         /\ \A x \in SUBSET Account : [tx[w] EXCEPT !.accounts = x] \in Writes
         /\ \A x \in SUBSET AccountIds : [tx[w] EXCEPT !.migrated = x] \in Writes
<1>1. tx[w] \in Writes
  BY DEF TypeInv, TypeOK, TablesTypeOK
<1> QED  BY <1>1 DEF Writes, NoWrites

\* Steps of an open transaction and its end.
LEMMA AbortType ==
  ASSUME TypeInv, NEW w \in Workers, NEW resp \in Reported, Abort(w, resp),
         job[w].pc # "idle"
  PROVE  /\ job' \in [Workers -> Job]
         /\ \A v \in Workers : PlaceOK(v)'
         /\ tx' \in [Workers -> Writes]
<1>1. tx' \in [Workers -> Writes]
  BY WritesType DEF Abort, TypeInv, TypeOK, TablesTypeOK
<1> QED  BY <1>1, ReplyType DEF Abort

LEMMA PublishType ==
  ASSUME TypeInv, NEW w \in Workers, Publish(w)
  PROVE  /\ signers' \subseteq SignerIds
         /\ devices' \subseteq Device
         /\ accounts' \subseteq Account
         /\ migrated' \subseteq AccountIds
         /\ tx' \in [Workers -> Writes]
<1>1. tx[w] \in Writes /\ NoWrites \in Writes
  BY WritesType
<1> QED  BY <1>1 DEF Publish, TypeInv, TypeOK, TablesTypeOK, Writes

----------------------------------------------------------------------------
(***************************************************************************)
(* Type correctness, one lemma for each part of the next-state relation.   *)
(***************************************************************************)
LEMMA ReceiveType ==
  ASSUME TypeInv, NEW w \in Workers, Receive(w)
  PROVE  TypeInv'
<1> PICK r \in Requests :
      job' = [job EXCEPT ![w] =
               [NoJob EXCEPT !.pc = "start", !.req = r,
                             !.past = [acked |-> acked, held |-> {a.addr : a \in accounts}]]]
  BY DEF Receive
<1> DEFINE j == [NoJob EXCEPT !.pc = "start", !.req = r,
                              !.past = [acked |-> acked, held |-> {a.addr : a \in accounts}]]
<1>1. job \in [Workers -> Job] /\ acked \subseteq DeviceIds /\ accounts \subseteq Account
  BY DEF TypeInv, TypeOK, TablesTypeOK
<1>2. {a.addr : a \in accounts} \subseteq Addresses
  BY <1>1 DEF Account
<1>3. j \in Job /\ j.pc = "start" /\ j.req = r /\ j.resp \in Reported
  BY <1>1, <1>2, NoJobType, RequestsType DEF Job, Places
<1> HIDE DEF j
<1>4. job' = [job EXCEPT ![w] = j]
  BY DEF j
<1>5. job' \in [Workers -> Job] /\ \A v \in Workers : PlaceOK(v)'
  BY <1>1, <1>3, <1>4 DEF TypeInv, PlaceOK
<1> QED  BY <1>5 DEF Receive, TypeInv, TypeOK, TablesTypeOK, tables, env

LEMMA AddDeviceType ==
  ASSUME TypeInv, NEW w \in Workers, AddDevice(w) \/ AddDeviceReplyLost(w)
  PROVE  TypeInv'
<1>1. job[w].pc = "addDevice" /\ devices' = devices \cup {Secondary(w)}
  BY DEF AddDevice, AddDeviceReplyLost
<1>2. Added(w) \in Reported /\ Faulted(500) \in Reported
  BY <1>1, AddedType, StatusType
<1>3. job' \in [Workers -> Job] /\ \A v \in Workers : PlaceOK(v)'
  BY <1>1, <1>2, ReplyType DEF AddDevice, AddDeviceReplyLost
<1>4. devices' \subseteq Device
  BY <1>1, SecondaryType DEF TypeInv, TypeOK, TablesTypeOK
<1> QED  BY <1>3, <1>4, BoundsAssumption
         DEF AddDevice, AddDeviceReplyLost, TypeInv, TypeOK, TablesTypeOK, tables, env

LEMMA ReadsType ==
  ASSUME TypeInv, NEW w \in Workers,
         \/ RegisterDeviceV2(w) \/ CreateDevice(w) \/ RecoverDeviceV2(w)
         \/ InitDevice(w) \/ GetPrimaryDevice(w) \/ GetMigratedAccountData(w)
  PROVE  TypeInv'
<1>1. LiveAccounts(job[w].req.subj) \in SUBSET Account
      /\ MyAccount(job[w].req) \in SUBSET Account
      /\ Status(400) \in Reported /\ Status(404) \in Reported /\ Status(200) \in Reported
  BY RowsType, StatusType
<1>2. CASE RegisterDeviceV2(w) \/ CreateDevice(w)
  <2>1. job[w].pc # "idle" /\ job[w].req.op \in Adds
        /\ ReadAccount(w, MyAccount(job[w].req), "addDevice", Status(400))
    BY <1>2 DEF RegisterDeviceV2, CreateDevice, At, Adds
  <2> QED  BY <1>1, <2>1, ReadAccountType
<1>3. CASE RecoverDeviceV2(w)
  <2>1. job[w].pc # "idle"
        /\ ReadAccount(w, MyAccount(job[w].req), "readPrimary", Status(400))
    BY <1>3 DEF RecoverDeviceV2, At
  <2> QED  BY <1>1, <2>1, ReadAccountType
<1>4. CASE InitDevice(w)
  <2> DEFINE rows == {a \in LiveAccounts(job[w].req.subj) : a.chain = job[w].req.chain}
  <2>1. job[w].pc # "idle" /\ rows \in SUBSET Account
        /\ ReadAccount(w, rows, "readPrimary", Status(200))
    BY <1>1, <1>4 DEF InitDevice, At
  <2> QED  BY <1>1, <2>1, ReadAccountType
<1>5. CASE GetPrimaryDevice(w)
  <2>1. job[w].pc # "idle"
        /\ ReadAccount(w, LiveAccounts(job[w].req.subj), "readPrimary", Status(400))
    BY <1>5 DEF GetPrimaryDevice, At
  <2> QED  BY <1>1, <2>1, ReadAccountType
<1>6. CASE GetMigratedAccountData(w)
  <2>1. job[w].pc # "idle" /\ job[w].req.op = "migrated"
        /\ ReadAccount(w, MyAccount(job[w].req), "readMigrated", Status(404))
    BY <1>6 DEF GetMigratedAccountData, At
  <2> QED  BY <1>1, <2>1, ReadAccountType
<1> QED  BY <1>2, <1>3, <1>4, <1>5, <1>6

LEMMA ServesType ==
  ASSUME TypeInv, NEW w \in Workers, ReadPrimary(w) \/ GetDevice(w)
  PROVE  TypeInv'
<1>1. CASE ReadPrimary(w)
  <2>1. job[w].pc # "idle" /\ job[w].found.id \in AccountIds
    BY <1>1 DEF ReadPrimary, TypeInv, PlaceOK, Account
  <2>2. Status(NoPrimaryCode(job[w].req.op)) \in Reported
    BY StatusType DEF NoPrimaryCode
  <2>3. CASE Query(w, Status(NoPrimaryCode(job[w].req.op)))
    BY <2>1, <2>2, <2>3, QueryType
  <2>4. ASSUME NEW d \in PrimaryOf(job[w].found.signer),
               ServeShare(w, d, job[w].found.id)
        PROVE  TypeInv'
    <3>1. d \in Device
      BY RowsType
    <3> QED  BY <2>1, <2>4, <3>1, ServeShareType
  <2> QED  BY <1>1, <2>3, <2>4 DEF ReadPrimary
<1>2. CASE GetDevice(w)
  <2>1. job[w].pc # "idle" /\ Status(404) \in Reported
    BY <1>2, StatusType DEF GetDevice, At
  <2>2. CASE Query(w, Status(404))
    BY <2>1, <2>2, QueryType
  <2>3. ASSUME NEW d \in LiveOwned(job[w].req.subj), ServeShare(w, d, None)
        PROVE  TypeInv'
    <3>1. d \in Device
      BY RowsType
    <3> QED  BY <2>1, <2>3, <3>1, ServeShareType
  <2> QED  BY <1>2, <2>2, <2>3 DEF GetDevice
<1> QED  BY <1>1, <1>2

LEMMA RevokeReadType ==
  ASSUME TypeInv, NEW w \in Workers, RevokeDeviceV2(w)
  PROVE  TypeInv'
<1>1. job[w].pc = "start" /\ job \in [Workers -> Job]
  BY DEF RevokeDeviceV2, At, TypeInv, TypeOK
<1>2. Status(404) \in Reported /\ Status(409) \in Reported
  BY StatusType
<1>3. job' \in [Workers -> Job] /\ \A v \in Workers : PlaceOK(v)'
  <2>1. CASE Reply(w, Status(404)) \/ Reply(w, Status(409))
    BY <1>1, <1>2, <2>1, ReplyType
  <2>2. ASSUME NEW d \in LiveOwned(job[w].req.subj),
               job' = [job EXCEPT ![w].row = d, ![w].pc = "revoke"]
        PROVE  job' \in [Workers -> Job] /\ \A v \in Workers : PlaceOK(v)'
    <3>1. d \in Device
      BY RowsType
    <3>2. [job[w] EXCEPT !.row = d, !.pc = "revoke"] \in Job
      BY <1>1, <3>1 DEF Job, Places
    <3>3. job' = [job EXCEPT ![w] = [job[w] EXCEPT !.row = d, !.pc = "revoke"]]
      BY <1>1, <2>2 DEF Job
    <3>4. \A v \in Workers : PlaceOK(v)'
      BY <1>1, <3>1, <3>2, <3>3 DEF TypeInv, PlaceOK, Job
    <3> QED  BY <1>1, <3>2, <3>3, <3>4
  <2> QED  BY <2>1, <2>2 DEF RevokeDeviceV2
<1> QED  BY <1>3 DEF RevokeDeviceV2, TypeInv, TypeOK, TablesTypeOK, tables, env

LEMMA ClearedType ==
  ASSUME NEW d \in Device
  PROVE  [d EXCEPT !.share = Cleared, !.revoked = TRUE] \in Device
<1>1. Cleared \in Ciphertext
  BY DEF Cleared, Ciphertext
<1> QED  BY <1>1 DEF Device

LEMMA RevokeUpdateType ==
  ASSUME TypeInv, NEW w \in Workers, RevokeUpdate(w) \/ RevokeReplyLost(w)
  PROVE  TypeInv'
<1> DEFINE rows == Revocable(job[w].row.id)
<1>1. /\ job[w].pc = "revoke" /\ ClearRows(rows)
      /\ Reply(w, Revoked(w, rows)) \/ Reply(w, Faulted(500))
  BY DEF RevokeUpdate, RevokeReplyLost
<1>2. job[w].row.id \in DeviceIds
  BY <1>1 DEF TypeInv, PlaceOK, Device
<1>3. Named(204, None, job[w].row.id, None) \in Reported /\ Status(404) \in Reported
      /\ Faulted(500) \in Reported
  BY <1>2, NamedType, StatusType
<1>4. Revoked(w, rows) \in Reported
  BY <1>3 DEF Revoked
<1>5. job' \in [Workers -> Job] /\ \A v \in Workers : PlaceOK(v)'
  BY <1>1, <1>3, <1>4, ReplyType
<1>6. rows \subseteq Device /\ devices \subseteq Device
  BY DEF Revocable, TypeInv, TypeOK, TablesTypeOK
<1> HIDE DEF rows
<1>7. devices' \subseteq Device
  BY <1>1, <1>6, ClearedType DEF ClearRows
<1> QED  BY <1>5, <1>7, BoundsAssumption
         DEF RevokeUpdate, RevokeReplyLost, TypeInv, TypeOK, TablesTypeOK, tables, env

LEMMA ChecksType ==
  ASSUME TypeInv, NEW w \in Workers,
         CreateDeviceV2(w) \/ ImportShare(w) \/ RegisterDevice(w)
  PROVE  TypeInv'
<1>1. job[w].pc # "idle" /\ job[w].req.op \in Opens /\ Status(409) \in Reported
  BY StatusType DEF CreateDeviceV2, ImportShare, RegisterDevice, At, Opens
<1>2. job' \in [Workers -> Job] /\ \A v \in Workers : PlaceOK(v)'
  <2>1. CASE Reply(w, Status(409))
    BY <1>1, <2>1, ReplyType
  <2>2. CASE Goto(w, "insertSigner")
    BY <1>1, <2>2, GotoType DEF Places
  <2>3. ASSUME NEW a \in Account,
               job' = [job EXCEPT ![w].found = a, ![w].pc = "txAddDevice"]
        PROVE  job' \in [Workers -> Job] /\ \A v \in Workers : PlaceOK(v)'
    <3>1. job \in [Workers -> Job]
      BY DEF TypeInv, TypeOK
    <3>2. [job[w] EXCEPT !.found = a, !.pc = "txAddDevice"] \in Job
      BY <3>1 DEF Job, Places
    <3>3. job' = [job EXCEPT ![w] = [job[w] EXCEPT !.found = a, !.pc = "txAddDevice"]]
      BY <2>3, <3>1 DEF Job
    <3>4. \A v \in Workers : PlaceOK(v)'
      BY <1>1, <3>1, <3>2, <3>3 DEF TypeInv, PlaceOK, Job
    <3> QED  BY <3>1, <3>2, <3>3, <3>4
  <2>4. LiveAccounts(job[w].req.subj) \subseteq Account
    BY RowsType
  <2> QED  BY <2>1, <2>2, <2>3, <2>4
           DEF CreateDeviceV2, ImportShare, RegisterDevice, CheckAddress
<1> QED  BY <1>2 DEF CreateDeviceV2, ImportShare, RegisterDevice, CheckAddress,
                     TypeInv, TypeOK, TablesTypeOK, tables, env

LEMMA InsertsType ==
  ASSUME TypeInv, NEW w \in Workers,
         \/ TxAddDevice(w) \/ InsertSigner(w) \/ InsertPrimaryDevice(w)
         \/ InsertAccount(w) \/ InsertMigrated(w)
  PROVE  TypeInv'
<1> DEFINE r == job[w].req
<1>1. job[w].pc # "idle" /\ r.op \in Opens /\ r \in Requests
  BY DEF TypeInv, PlaceOK, TxAddDevice, InsertSigner, InsertPrimaryDevice,
         InsertAccount, InsertMigrated
<1>2. /\ r.dev \in DeviceIds /\ r.acct \in AccountIds /\ r.signer \in SignerIds
      /\ StoredAddress(r) \in Addresses /\ r.subj \in Subjects
  <2> HIDE DEF r
  <2> QED  BY <1>1, RequestsType
<1>3. Status(500) \in Reported /\ tx \in [Workers -> Writes]
  BY StatusType DEF TypeInv, TypeOK, TablesTypeOK
<1>4. /\ job' \in [Workers -> Job] /\ \A v \in Workers : PlaceOK(v)'
      /\ tx' \in [Workers -> Writes]
  <2>1. CASE Abort(w, Status(500))
    BY <1>1, <1>3, <2>1, AbortType
  <2>2. CASE TxAddDevice(w)
    <3>1. {Secondary(w)} \in SUBSET Device
      BY <2>2, SecondaryType DEF TxAddDevice
    <3>2. tx' \in [Workers -> Writes]
      BY <1>3, <2>2, <3>1, WritesType DEF TxAddDevice
    <3> QED  BY <1>1, <2>2, <3>2, GotoType DEF TxAddDevice, Places
  <2>3. CASE InsertSigner(w) /\ Goto(w, "insertDevice")
             /\ tx' = [tx EXCEPT ![w].signers = {r.signer}]
    <3>1. tx' \in [Workers -> Writes]
      BY <1>2, <1>3, <2>3, WritesType
    <3> QED  BY <1>1, <2>3, <3>1, GotoType DEF Places
  <2>4. CASE InsertPrimaryDevice(w)
    <3>1. Submitted(r, StoredAddress(r)) \in Secret
      BY <1>2 DEF Submitted, Secret
    <3>2. newDevice(r.dev, Submitted(r, StoredAddress(r)), r.signer, TRUE) \in Device
      BY <1>2, <3>1, NewDeviceType
    <3>3. tx' \in [Workers -> Writes]
      BY <1>3, <2>4, <3>2, WritesType DEF InsertPrimaryDevice
    <3> QED  BY <1>1, <2>4, <3>3, GotoType DEF InsertPrimaryDevice, Places
  <2>5. CASE InsertAccount(w) /\ tx' = [tx EXCEPT ![w].accounts = {NewAccount(r)}]
             /\ Goto(w, IF r.op = "import" THEN "insertMigrated" ELSE "commit")
    <3>1. {NewAccount(r)} \in SUBSET Account
      BY <1>1, NewAccountType
    <3>2. tx' \in [Workers -> Writes]
      BY <1>3, <2>5, <3>1, WritesType
    <3> QED  BY <1>1, <2>5, <3>2, GotoType DEF Places
  <2>6. CASE InsertMigrated(w) /\ tx' = [tx EXCEPT ![w].migrated = {SeedId(r)}]
             /\ Goto(w, "commit")
    <3>1. {SeedId(r)} \in SUBSET AccountIds
      BY <1>2 DEF SeedId
    <3>2. tx' \in [Workers -> Writes]
      BY <1>3, <2>6, <3>1, WritesType
    <3> QED  BY <1>1, <2>6, <3>2, GotoType DEF Places
  <2> QED  BY <2>1, <2>2, <2>3, <2>4, <2>5, <2>6
           DEF InsertSigner, InsertAccount, InsertMigrated
<1> QED  BY <1>4 DEF TxAddDevice, InsertSigner, InsertPrimaryDevice, InsertAccount,
                     InsertMigrated, TypeInv, TypeOK, TablesTypeOK, tables, env

LEMMA CommitType ==
  ASSUME TypeInv, NEW w \in Workers, Commit(w) \/ CommitReplyLost(w)
  PROVE  TypeInv'
<1>1. /\ job[w].pc = "commit" /\ Publish(w)
      /\ Reply(w, Opened(w)) \/ Reply(w, Faulted(500))
  BY DEF Commit, CommitReplyLost
<1>a. Opened(w) \in Reported /\ Faulted(500) \in Reported
  BY <1>1, OpenedType, StatusType
<1>2. job' \in [Workers -> Job] /\ \A v \in Workers : PlaceOK(v)'
  BY <1>1, <1>a, ReplyType
<1> QED  BY <1>1, <1>2, PublishType, BoundsAssumption
         DEF Commit, CommitReplyLost, TypeInv, TypeOK, TablesTypeOK, env

LEMMA QueriesType ==
  ASSUME TypeInv, NEW w \in Workers,
         \/ GetSignerV2(w) \/ ListAccountsV2(w) \/ ListDevices(w)
         \/ ListDevicesRead(w) \/ ListDevicesV2(w) \/ ReadMigrated(w)
  PROVE  TypeInv'
<1>1. /\ job[w] \in Job /\ devices \subseteq Device
      /\ LiveAccounts(job[w].req.subj) \subseteq Account
      /\ Owned(job[w].req.subj) \subseteq Device
  BY RowsType DEF TypeInv, TypeOK, TablesTypeOK
<1>2. CASE GetSignerV2(w)
  <2>1. Status(400) \in Reported
    BY StatusType
  <2>2. \A a \in LiveAccounts(job[w].req.subj) : Named(200, None, None, a.id) \in Reported
    BY <1>1, NamedType DEF Account
  <2> QED  BY <1>2, <2>1, <2>2, QueryType DEF GetSignerV2, At
<1>3. CASE ListAccountsV2(w)
  <2> DEFINE l == {[id |-> a.id, addr |-> a.addr, revoked |-> FALSE] :
                     a \in LiveAccounts(job[w].req.subj)}
  <2>1. l \in SUBSET Entry
    BY <1>1, EntryType DEF Account
  <2>2. Query(w, Listed(l)) /\ job[w].pc # "idle"
    BY <1>3 DEF ListAccountsV2, At
  <2> QED  BY <2>1, <2>2, ListedType, QueryType
<1>4. CASE ListDevices(w)
  <2> DEFINE l == LiveAccounts(job[w].req.subj)
             j == [job[w] EXCEPT !.seen = l, !.pc = "readDevices"]
  <2>1. /\ j \in Job /\ j.pc = "readDevices" /\ j.req = job[w].req
        /\ j.resp = job[w].resp
    BY <1>1 DEF Job, Places
  <2>2. job' = [job EXCEPT ![w] = j]
    BY <1>4 DEF ListDevices, TypeInv, TypeOK, Job
  <2>3. job[w].pc = "start" /\ job \in [Workers -> Job]
    BY <1>4 DEF ListDevices, At, TypeInv, TypeOK
  <2> HIDE DEF j
  <2>4. job' \in [Workers -> Job] /\ \A v \in Workers : PlaceOK(v)'
    BY <2>1, <2>2, <2>3 DEF TypeInv, PlaceOK
  <2> QED  BY <1>4, <2>4 DEF ListDevices, TypeInv, TypeOK, TablesTypeOK, tables, env
<1>5. CASE ListDevicesRead(w)
  <2> DEFINE mine == {p \in devices \X job[w].seen : Listable(p[1]) /\ p[1].signer = p[2].signer}
             l == {[id |-> p[1].id, addr |-> p[2].addr, revoked |-> FALSE] : p \in mine}
  <2>1. job[w].seen \subseteq Account
    BY <1>1 DEF Job
  <2>2. \A p \in mine : p[1].id \in DeviceIds /\ p[2].addr \in Addresses
    BY <1>1, <2>1 DEF Device, Account
  <2> HIDE DEF mine
  <2>3. l \in SUBSET Entry
    BY <2>2, EntryType
  <2>4. Query(w, Listed(l)) /\ job[w].pc # "idle"
    BY <1>5 DEF ListDevicesRead, mine
  <2> QED  BY <2>3, <2>4, ListedType, QueryType
<1>6. CASE ListDevicesV2(w)
  <2> DEFINE l == {[id |-> d.id, addr |-> None, revoked |-> d.revoked] :
                     d \in Entries(job[w].req.subj)}
  <2>1. l \in SUBSET Entry
    BY <1>1, EntryType DEF Device, Entries
  <2>2. Query(w, Listed(l)) /\ job[w].pc # "idle"
    BY <1>6 DEF ListDevicesV2, At
  <2> QED  BY <2>1, <2>2, ListedType, QueryType
<1>7. CASE ReadMigrated(w)
  <2>1. job[w].req.acct \in AccountIds
    BY <1>7, RequestsType DEF ReadMigrated, TypeInv, PlaceOK
  <2>2. Named(200, None, None, job[w].req.acct) \in Reported
    BY <2>1, NamedType
  <2>3. Status(404) \in Reported
    BY StatusType
  <2> QED  BY <1>7, <2>2, <2>3, QueryType DEF ReadMigrated
<1> QED  BY <1>2, <1>3, <1>4, <1>5, <1>6, <1>7

LEMMA RespondType ==
  ASSUME TypeInv, NEW w \in Workers, Respond(w)
  PROVE  TypeInv'
<1>1. job \in [Workers -> Job] /\ job' = [job EXCEPT ![w] = NoJob]
  BY DEF Respond, TypeInv, TypeOK
<1>2. job' \in [Workers -> Job]
  BY <1>1, NoJobType
<1>3. \A v \in Workers : PlaceOK(v)'
  BY <1>1, NoJobType DEF TypeInv, PlaceOK
<1>4. job[w].resp.code = 204 => job[w].resp.dev \in DeviceIds
  BY DEF TypeInv, PlaceOK, Reported
<1>5. receipts' \subseteq Receipt
  <2>1. job[w].req.subj \in Subjects
    BY RequestsType DEF Respond, TypeInv, PlaceOK
  <2>2. job[w].resp.acct \in AccountIds \cup {None} /\ job[w].resp.dev \in DeviceIds \cup {None}
    BY DEF TypeInv, PlaceOK, Reported, Answer
  <2>3. key \in Keys \cup {None} /\ (job[w].req.op = "import") \in BOOLEAN
    BY DEF TypeInv, TypeOK, TablesTypeOK
  <2>4. ReceiptOf(w) \in Receipt
    BY <2>1, <2>2, <2>3 DEF ReceiptOf, Receipt
  <2> QED  BY <2>4 DEF Respond, TypeInv, TypeOK
<1> QED  BY <1>2, <1>3, <1>4, <1>5 DEF Respond, TypeInv, TypeOK, TablesTypeOK, tables

LEMMA DbFailsType ==
  ASSUME TypeInv, NEW w \in Workers, DbFails(w)
  PROVE  TypeInv'
<1>1. FaultAnswer(w) \in Reported
  BY StatusType DEF FaultAnswer, FaultCode
<1> QED  BY <1>1, AbortType, BoundsAssumption
         DEF DbFails, TypeInv, TypeOK, TablesTypeOK, tables

LEMMA ServerType ==
  ASSUME TypeInv, Crash \/ Boot
  PROVE  TypeInv'
<1>1. CASE Crash
  <2>1. job' \in [Workers -> Job] /\ \A v \in Workers : PlaceOK(v)'
    BY <1>1, NoJobType DEF Crash, PlaceOK
  <2>2. tx' \in [Workers -> Writes]
    BY <1>1 DEF Crash, Writes, NoWrites
  <2> QED  BY <1>1, <2>1, <2>2, BoundsAssumption
           DEF Crash, TypeInv, TypeOK, TablesTypeOK, tables
<1>2. CASE Boot
  BY <1>2 DEF Boot, TypeInv, TypeOK, TablesTypeOK, tables, PlaceOK
<1> QED  BY <1>1, <1>2

LEMMA OperatorType ==
  ASSUME TypeInv, MoveCiphertext \/ SoftDeleteAccount
  PROVE  TypeInv'
<1>1. CASE MoveCiphertext
  <2>1. PICK from \in devices, to \in devices :
          devices' = (devices \ {to}) \cup {[to EXCEPT !.share = from.share]}
    BY <1>1 DEF MoveCiphertext
  <2>2. from \in Device /\ to \in Device /\ devices \subseteq Device
    BY DEF TypeInv, TypeOK, TablesTypeOK
  <2>3. [to EXCEPT !.share = from.share] \in Device
    BY <2>2 DEF Device
  <2>4. devices' \subseteq Device
    BY <2>1, <2>2, <2>3
  <2> QED  BY <1>1, <2>4, BoundsAssumption
           DEF MoveCiphertext, TypeInv, TypeOK, TablesTypeOK, PlaceOK
<1>2. CASE SoftDeleteAccount
  <2>1. PICK a \in accounts :
          accounts' = (accounts \ {a}) \cup {[a EXCEPT !.deleted = TRUE]}
    BY <1>2 DEF SoftDeleteAccount
  <2>2. a \in Account /\ accounts \subseteq Account
    BY DEF TypeInv, TypeOK, TablesTypeOK
  <2>3. [a EXCEPT !.deleted = TRUE] \in Account
    BY <2>2 DEF Account
  <2>4. accounts' \subseteq Account
    BY <2>1, <2>2, <2>3
  <2> QED  BY <1>2, <2>4, BoundsAssumption
           DEF SoftDeleteAccount, TypeInv, TypeOK, TablesTypeOK, PlaceOK
<1> QED  BY <1>1, <1>2

\* A legacy wallet and an empty store are typed.
LEMMA InitType == Init => TypeInv
<1> SUFFICES ASSUME Init PROVE TypeInv
  OBVIOUS
<1>1. tx \in [Workers -> Writes]
  BY DEF Init, Writes, NoWrites
<1>2. job \in [Workers -> Job] /\ \A w \in Workers : PlaceOK(w)
  BY NoJobType DEF Init, PlaceOK
<1>3. /\ signers \subseteq SignerIds /\ devices \subseteq Device
      /\ accounts \subseteq Account /\ migrated \subseteq AccountIds
  <2>1. CASE EmptyStore
    BY <2>1 DEF EmptyStore
  <2>2. CASE LegacyWallet
    <3>1. PICK s \in SignerIds, d \in DeviceIds, id \in AccountIds, u \in Subjects,
               addr \in Addresses, c \in Chains :
            /\ signers = {s}
            /\ devices = {[id |-> d, primary |-> TRUE, signer |-> s, revoked |-> FALSE,
                           share |-> [fmt |-> "legacy", sealed |-> None, key |-> None,
                                      secret |-> [by |-> u, addr |-> addr, dev |-> d]]]}
            /\ accounts = {[id |-> id, addr |-> addr, subj |-> u, chain |-> c,
                            signer |-> s, deleted |-> FALSE]}
            /\ migrated = {}
      BY <2>2 DEF LegacyWallet
    <3>2. [fmt |-> "legacy", sealed |-> None, key |-> None,
           secret |-> [by |-> u, addr |-> addr, dev |-> d]] \in Ciphertext
      BY DEF Ciphertext, Secret
    <3>3. devices \subseteq Device
      BY <3>1, <3>2 DEF Device
    <3>4. accounts \subseteq Account
      BY <3>1 DEF Account
    <3> QED  BY <3>1, <3>3, <3>4
  <2> QED  BY <2>1, <2>2 DEF Init
<1> QED  BY <1>1, <1>2, <1>3, BoundsAssumption DEF Init, TypeInv, TypeOK, TablesTypeOK

LEMMA TypeStep == TypeInv /\ [Next]_vars => TypeInv'
<1> SUFFICES ASSUME TypeInv, [Next]_vars PROVE TypeInv'
  OBVIOUS
<1>1. CASE UNCHANGED vars
  BY <1>1 DEF vars, tables, env, TypeInv, TypeOK, TablesTypeOK, PlaceOK
<1>2. ASSUME NEW w \in Workers,
             Receive(w) \/ Handle(w) \/ DbFails(w) \/ ReplyLost(w)
      PROVE  TypeInv'
  BY <1>2, ReceiveType, AddDeviceType, ReadsType, ServesType, RevokeReadType,
     RevokeUpdateType, ChecksType, InsertsType, CommitType, QueriesType,
     RespondType, DbFailsType
     DEF Handle, ReplyLost
<1>3. CASE Crash \/ Boot \/ MoveCiphertext \/ SoftDeleteAccount
  BY <1>3, ServerType, OperatorType
<1> QED  BY <1>1, <1>2, <1>3 DEF Next

\* Rows, open transactions, requests and answers keep their types in every
\* behaviour of the server, with any number of requests, faults and crashes.
THEOREM TypeCorrect == Spec => []TypeOK
<1>1. Init => TypeInv
  BY InitType
<1>2. TypeInv /\ [Next]_vars => TypeInv'
  BY TypeStep
<1>3. TypeInv => TypeOK
  BY DEF TypeInv
<1> QED  BY <1>1, <1>2, <1>3, PTL DEF Spec
=============================================================================
