---------------------- MODULE HotStorageAnswers_proofs -----------------------
(***************************************************************************)
(* The answers of HotStorage: what a client is told is so, when it is told *)
(* and ever after.                                                         *)
(*                                                                         *)
(* An answer is a promise about rows, and rows are kept: each of its       *)
(* promises is stated of the request, the answer and what was known when   *)
(* the request came, shown of the step that answers, and carried over      *)
(* every later step.  Between arrival and answer a handler knows which     *)
(* operation it serves, what it has found, and which check it has passed.  *)
(* On top of this, what clients were told is stored stays stored, and      *)
(* readable with the key of the process that told it.                      *)
(***************************************************************************)
EXTENDS HotStorageDevices_proofs

(***************************************************************************)
(* The promises of answer a to request r, which came when p was known.     *)
(***************************************************************************)
Durable(r, a) ==
  r.op \in Mints /\ a.code \in {200, 201} =>
    /\ \E acc \in accounts, d \in devices :
         /\ acc.id = a.acct /\ acc.subj = r.subj
         /\ d.id = a.dev /\ d.signer = acc.signer
    /\ r.op = "import" => a.acct \in migrated

Conflicts(r, a, p) ==
  r.op \in {"createV2", "import"} /\ a.cause = "handler" /\ StoredAddress(r) \in p.held =>
    a.code = 409

ServedOwn(r, a) ==
  a.share # None =>
    /\ a.share.by = r.subj
    /\ a.share.dev = a.dev
    /\ a.acct # None => \E acc \in accounts : acc.id = a.acct /\ acc.addr = a.share.addr

ServedLive(a, p) == a.share # None => a.share.dev \notin p.acked

ListedOwn(r, a, p) ==
  r.op = "listV1" =>
    \A e \in a.list :
      /\ e.id \notin p.acked
      /\ \E acc \in accounts, d \in devices :
           /\ acc.subj = r.subj /\ acc.addr = e.addr
           /\ d.id = e.id /\ d.signer = acc.signer

ListedRevoked(r, a, p) ==
  r.op = "listV2" /\ a.code = 200 =>
    \A d \in Owned(r.subj) : d.id \in p.acked => \E e \in a.list : e.id = d.id /\ e.revoked

RevokedRow(id) == \E d \in devices : d.id = id /\ d.revoked

Told(a) == a.code = 204 => RevokedRow(a.dev)

GoodAnswer(r, a, p) ==
  /\ Durable(r, a) /\ Conflicts(r, a, p)
  /\ ServedOwn(r, a) /\ ServedLive(a, p)
  /\ ListedOwn(r, a, p) /\ ListedRevoked(r, a, p)
  /\ Told(a)

----------------------------------------------------------------------------
\* What was known when the request came is still so.
PastOK(w) ==
  /\ job[w].past.acked \subseteq acked
  /\ \A addr \in job[w].past.held : \E a \in accounts : a.addr = addr

\* The transaction that w is about to commit is the one its answer is about.
CommitOK(w) ==
  LET j == job[w]
      t == tx[w]
  IN \/ /\ j.found = None
        /\ t.accounts = {NewAccount(j.req)}
        /\ j.req.op = "import" => t.migrated = {j.req.acct}
     \/ /\ j.req.op = "registerV1" /\ j.found \in Account /\ t.accounts = {}
        /\ \E a \in accounts, d \in t.devices :
             a.id = j.found.id /\ a.subj = j.req.subj /\ d.signer = a.signer

SeenOK(w) ==
  \A a \in job[w].seen : \E b \in accounts :
    b.subj = job[w].req.subj /\ b.addr = a.addr /\ b.signer = a.signer

\* What the handler of w knows, by how far it has come.
ProgressOK(w) ==
  LET j == job[w] IN
    /\ j.pc # "answer" => j.resp = Status(0)
    /\ j.pc \in {"start", "insertSigner", "insertDevice", "insertAccount",
                 "insertMigrated"} => j.found = None
    /\ j.pc = "readPrimary" => j.req.op \in Recovers
    /\ j.pc = "revoke" => j.req.op = "revoke"
    /\ j.pc = "txAddDevice" => j.req.op = "registerV1"
    /\ j.pc = "insertMigrated" => j.req.op = "import"
    /\ j.pc = "readDevices" => j.req.op = "listV1" /\ SeenOK(w)
    /\ j.pc \in InTx \cup {"insertSigner"} /\ j.req.op \in {"createV2", "import"} =>
         StoredAddress(j.req) \notin j.past.held
    /\ j.pc = "commit" => CommitOK(w)

AnswerOK(w) ==
  job[w].pc = "answer" => GoodAnswer(job[w].req, job[w].resp, job[w].past)

AnswersOK ==
  /\ \A id \in acked : RevokedRow(id)
  /\ OneRevokeWins
  /\ \A w \in Workers : PastOK(w) /\ ProgressOK(w) /\ AnswerOK(w)

AnswerInv == DeviceInv /\ AnswersOK

----------------------------------------------------------------------------
(***************************************************************************)
(* Rows are kept, and so are the promises made of them.                    *)
(***************************************************************************)
Kept ==
  /\ AccountsKept /\ KeepsRows
  /\ migrated \subseteq migrated' /\ acked \subseteq acked'

LEMMA WorksKeep ==
  ASSUME DeviceInv, NEW w \in Workers, Works(w)
  PROVE  AccountsKept /\ migrated \subseteq migrated' /\ acked' = acked
<1>1. AccountsKept /\ acked' = acked
  <2>1. CASE Reading(w)
    BY <2>1, SameAccounts DEF Reading, tables
  <2>2. CASE Stores(w)
    BY <2>2, StoresKeeps DEF Stores
  <2>3. CASE Revokes(w)
    BY <2>3, SameAccounts DEF Revokes
  <2> QED  BY <2>1, <2>2, <2>3, WorksShape
<1>2. migrated \subseteq migrated'
  <2>1. CASE AddDevice(w) \/ RevokeUpdate(w) \/ ReplyLost(w) \/ Commit(w)
    BY <2>1 DEF AddDevice, RevokeUpdate, ReplyLost, Commit, AddDeviceReplyLost,
                RevokeReplyLost, CommitReplyLost, Publish
  <2>2. CASE ~(AddDevice(w) \/ RevokeUpdate(w) \/ ReplyLost(w) \/ Commit(w))
    <3>1. Reading(w)
      BY <2>2, ReadsReading, QueriesReading, ListsReading, StagingReading, DbFailsReading
         DEF Works, Reads, Staging
    <3> QED  BY <3>1 DEF Reading, tables
  <2> QED  BY <2>1, <2>2
<1> QED  BY <1>1, <1>2

LEMMA StepKeeps ==
  ASSUME DeviceInv, [Next]_vars
  PROVE  Kept
<1>1. KeepsRows
  BY StepKeepsRows
<1>2. CASE UNCHANGED vars \/ Crash \/ Boot \/ \E w \in Workers : Receive(w) \/ Respond(w)
  <2>1. UNCHANGED <<accounts, migrated>> /\ acked \subseteq acked'
    BY <1>2 DEF vars, tables, env, Crash, Boot, Receive, Respond
  <2> QED  BY <1>1, <2>1, SameAccounts DEF Kept
<1>3. CASE MoveCiphertext \/ SoftDeleteAccount
  <2>1. UNCHANGED <<migrated, acked>>
    BY <1>3 DEF MoveCiphertext, SoftDeleteAccount
  <2>2. AccountsKept
    BY <1>3, SoftDeleteRows, SameAccounts DEF MoveCiphertext
  <2> QED  BY <1>1, <2>1, <2>2 DEF Kept
<1>4. ASSUME NEW w \in Workers, Works(w) PROVE Kept
  BY <1>1, <1>4, WorksKeep DEF Kept
<1> QED  BY <1>2, <1>3, <1>4 DEF Next, Handle, Works

LEMMA RevokedStays ==
  ASSUME KeepsRows, NEW id, RevokedRow(id)
  PROVE  RevokedRow(id)'
BY DEF KeepsRows, KeepsRow, RevokedRow

\* An account and a device of it are both still there.
LEMMA PairKept ==
  ASSUME AccountsKept, KeepsRows, NEW a \in accounts, NEW d \in devices,
         d.signer = a.signer
  PROVE  \E b \in accounts', e \in devices' :
           /\ b.id = a.id /\ b.subj = a.subj /\ b.addr = a.addr
           /\ e.id = d.id /\ e.signer = b.signer
<1>1. PICK b \in accounts' : b.id = a.id /\ b.addr = a.addr /\ b.subj = a.subj
                             /\ b.signer = a.signer
  BY DEF AccountsKept
<1>2. PICK e \in devices' : e.id = d.id /\ e.signer = d.signer
  BY DEF KeepsRows, KeepsRow
<1> QED  BY <1>1, <1>2

\* A revoked device is owned by the same subject before and after a step.
LEMMA OwnedBefore ==
  ASSUME DeviceInv, DeviceInv', AccountsKept, KeepsRows, NEW s,
         NEW d \in devices', d \in Owned(s)', RevokedRow(d.id)
  PROVE  d \in Owned(s)
<1>1. PICK x \in devices : x.id = d.id /\ x.revoked
  BY DEF RevokedRow
<1>2. x \in devices'
  BY <1>1 DEF KeepsRows, KeepsRow
<1>3. x = d
  BY <1>1, <1>2 DEF DeviceInv, RowsOK, UniqueIds
<1>4. PICK b \in accounts' : b.subj = s /\ b.signer = d.signer
  BY DEF Owned
<1>5. PICK a \in accounts : a.signer = d.signer
  BY <1>3 DEF DeviceInv, WalletInv, StoredOK, NoOrphans
<1>6. PICK c \in accounts' : c.subj = a.subj /\ c.signer = a.signer
  BY DEF AccountsKept
<1>7. b = c
  BY <1>4, <1>5, <1>6 DEF DeviceInv, WalletInv, StoredOK, OneAccountPerKey
<1> QED  BY <1>3, <1>4, <1>5, <1>6, <1>7 DEF Owned

LEMMA GoodKept ==
  ASSUME DeviceInv, DeviceInv', Kept, NEW r, NEW a, NEW p,
         \A id \in p.acked : RevokedRow(id),
         GoodAnswer(r, a, p)
  PROVE  GoodAnswer(r, a, p)'
<1>1. AccountsKept /\ KeepsRows /\ migrated \subseteq migrated'
  BY DEF Kept
<1>2. Durable(r, a)'
  BY <1>1, PairKept DEF GoodAnswer, Durable
<1>3. Conflicts(r, a, p)' /\ ServedLive(a, p)'
  BY DEF GoodAnswer, Conflicts, ServedLive, StoredAddress
<1>4. ServedOwn(r, a)'
  BY <1>1 DEF GoodAnswer, ServedOwn, AccountsKept
<1>5. ListedOwn(r, a, p)'
  <2> SUFFICES ASSUME r.op = "listV1", NEW e \in a.list
               PROVE  /\ e.id \notin p.acked
                      /\ \E acc \in accounts', d \in devices' :
                           /\ acc.subj = r.subj /\ acc.addr = e.addr
                           /\ d.id = e.id /\ d.signer = acc.signer
    BY DEF ListedOwn
  <2>1. e.id \notin p.acked
    BY DEF GoodAnswer, ListedOwn
  <2>2. PICK acc \in accounts, d \in devices :
          acc.subj = r.subj /\ acc.addr = e.addr /\ d.id = e.id /\ d.signer = acc.signer
    BY DEF GoodAnswer, ListedOwn
  <2> QED  BY <1>1, <2>1, <2>2, PairKept
<1>6. ListedRevoked(r, a, p)'
  <2> SUFFICES ASSUME r.op = "listV2", a.code = 200, NEW d \in Owned(r.subj)',
                      d.id \in p.acked
               PROVE  \E e \in a.list : e.id = d.id /\ e.revoked
    BY DEF ListedRevoked
  <2>1. PICK s : s = r.subj
    OBVIOUS
  <2>2. d \in devices' /\ d \in Owned(s)' /\ RevokedRow(d.id)
    BY <2>1 DEF Owned
  <2>3. d \in Owned(r.subj)
    BY <1>1, <2>1, <2>2, OwnedBefore
  <2> QED  BY <2>3 DEF GoodAnswer, ListedRevoked
<1>7. Told(a)'
  BY <1>1, RevokedStays DEF GoodAnswer, Told
<1> QED  BY <1>2, <1>3, <1>4, <1>5, <1>6, <1>7 DEF GoodAnswer

\* A worker that does not step keeps what it knows and what it has promised.
LEMMA OthersKept ==
  ASSUME AnswerInv, DeviceInv', Kept, NEW v \in Workers,
         job'[v] = job[v], tx'[v] = tx[v]
  PROVE  PastOK(v)' /\ ProgressOK(v)' /\ AnswerOK(v)'
<1>1. PastOK(v) /\ ProgressOK(v) /\ AnswerOK(v) /\ \A id \in acked : RevokedRow(id)
  BY DEF AnswerInv, AnswersOK
<1>2. PastOK(v)'
  BY <1>1 DEF PastOK, Kept, AccountsKept
<1>3. ProgressOK(v)'
  <2>1. SeenOK(v) => SeenOK(v)'
    BY DEF SeenOK, Kept, AccountsKept
  <2>2. CommitOK(v) => CommitOK(v)'
    BY DEF CommitOK, NewAccount, StoredAddress, Kept, AccountsKept
  <2> QED  BY <1>1, <2>1, <2>2 DEF ProgressOK, StoredAddress
<1>4. AnswerOK(v)'
  <2> SUFFICES ASSUME job[v].pc = "answer"
               PROVE  GoodAnswer(job[v].req, job[v].resp, job[v].past)'
    BY DEF AnswerOK
  <2>1. PICK r, a, p : r = job[v].req /\ a = job[v].resp /\ p = job[v].past
    OBVIOUS
  <2>2. GoodAnswer(r, a, p) /\ \A id \in p.acked : RevokedRow(id)
    BY <1>1, <2>1 DEF AnswerOK, PastOK
  <2>3. GoodAnswer(r, a, p)'
    BY <2>2, GoodKept DEF AnswerInv
  <2> QED  BY <2>1, <2>3
<1> QED  BY <1>2, <1>3, <1>4

\* What is to be shown of the worker that steps.
LiveRow(id) == \E d \in devices : d.id = id /\ ~d.revoked

StepOK(w) ==
  /\ ProgressOK(w)' /\ AnswerOK(w)'
  /\ Promises(w)' => AddDevice(w) \/ Commit(w)
  /\ job'[w].resp.code = 204 => LiveRow(job'[w].resp.dev)

----------------------------------------------------------------------------
(***************************************************************************)
(* Answers that promise nothing.                                           *)
(***************************************************************************)
LEMMA StatusFields ==
  ASSUME NEW c
  PROVE  /\ Status(c).code = c /\ Status(c).cause = "handler" /\ Status(c).share = None
         /\ Status(c).list = {} /\ Status(c).dev = None
         /\ Faulted(c).code = c /\ Faulted(c).cause = "database"
         /\ Faulted(c).share = None /\ Faulted(c).list = {}
BY DEF Named, Status, Faulted

LEMMA NamedFields ==
  ASSUME NEW c, NEW s, NEW d, NEW acct
  PROVE  /\ Named(c, s, d, acct).code = c /\ Named(c, s, d, acct).cause = "handler"
         /\ Named(c, s, d, acct).share = s /\ Named(c, s, d, acct).dev = d
         /\ Named(c, s, d, acct).acct = acct /\ Named(c, s, d, acct).list = {}
BY DEF Named

LEMMA ListedFields ==
  ASSUME NEW l
  PROVE  Listed(l).code = 200 /\ Listed(l).share = None /\ Listed(l).list = l
BY DEF Named, Status, Listed

Plain(r, a, p) ==
  /\ a.share = None /\ a.code # 204
  /\ r.op \in Mints => a.code \notin {200, 201}
  /\ r.op = "listV1" => a.list = {}
  /\ r.op = "listV2" => a.code # 200
  /\ Conflicts(r, a, p)

LEMMA PlainAnswers ==
  ASSUME NEW w \in Workers, SameRequest(w), job'[w].pc = "answer",
         NEW a, job'[w].resp = a, Plain(job[w].req, a, job[w].past)
  PROVE  StepOK(w)
<1>1. ProgressOK(w)'
  BY DEF ProgressOK, InTx
<1>2. PICK r, p : r = job[w].req /\ p = job[w].past
  OBVIOUS
<1>3. GoodAnswer(r, a, p)'
  BY <1>2 DEF Plain, GoodAnswer, Durable, Conflicts, ServedOwn, ServedLive, ListedOwn,
              ListedRevoked, Told, StoredAddress
<1>4. AnswerOK(w)'
  BY <1>2, <1>3 DEF AnswerOK, SameRequest
<1> QED  BY <1>1, <1>4 DEF StepOK, Plain, Promises, SameRequest, Mints

\* A refusal, unless it should have been a conflict.
LEMMA Refusals ==
  ASSUME AnswerInv, NEW w \in Workers, job[w].pc \notin {"idle", "answer"},
         NEW c \in {400, 404, 409, 500}, Reply(w, Status(c)),
         \/ c = 409
         \/ job[w].req.op \notin {"createV2", "import"}
         \/ StoredAddress(job[w].req) \notin job[w].past.held
  PROVE  StepOK(w)
<1>1. SameRequest(w) /\ job'[w].pc = "answer" /\ job'[w].resp = Status(c)
  BY ReplySame DEF AnswerInv, DeviceInv, WalletInv
<1>2. Plain(job[w].req, Status(c), job[w].past)
  BY StatusFields DEF Plain, Conflicts
<1> QED  BY <1>1, <1>2, PlainAnswers

LEMMA Faults ==
  ASSUME AnswerInv, NEW w \in Workers, job[w].pc \notin {"idle", "answer"},
         NEW c \in {404, 500}, Reply(w, Faulted(c))
  PROVE  StepOK(w)
<1>1. SameRequest(w) /\ job'[w].pc = "answer" /\ job'[w].resp = Faulted(c)
  BY ReplySame DEF AnswerInv, DeviceInv, WalletInv
<1>2. Plain(job[w].req, Faulted(c), job[w].past)
  BY StatusFields DEF Plain, Conflicts
<1> QED  BY <1>1, <1>2, PlainAnswers

LEMMA FaultsStep ==
  ASSUME AnswerInv, NEW w \in Workers, DbFails(w) \/ ReplyLost(w)
  PROVE  StepOK(w)
<1>1. job[w].pc \notin {"idle", "answer"}
      /\ \E c \in {404, 500} : Reply(w, Faulted(c))
  BY DEF DbFails, ReplyLost, AddDeviceReplyLost, RevokeReplyLost, CommitReplyLost, Abort,
         FaultAnswer, FaultCode
<1> QED  BY <1>1, Faults

\* Steps that go on, with nothing to answer yet.
LEMMA GoesOn ==
  ASSUME AnswerInv, NEW w \in Workers, SameRequest(w),
         job'[w].pc \in {"addDevice", "readMigrated"}
  PROVE  StepOK(w)
<1>1. job'[w].resp = Status(0)
  BY DEF AnswerInv, AnswersOK, ProgressOK, SameRequest
<1>2. ProgressOK(w)' /\ AnswerOK(w)'
  BY <1>1 DEF ProgressOK, AnswerOK, InTx
<1> QED  BY <1>1, <1>2, StatusFields DEF StepOK, Promises

----------------------------------------------------------------------------
(***************************************************************************)
(* Looking accounts up.                                                    *)
(***************************************************************************)
LEMMA FindsStep ==
  ASSUME AnswerInv, NEW w \in Workers,
         RegisterDeviceV2(w) \/ CreateDevice(w) \/ GetMigratedAccountData(w)
  PROVE  StepOK(w)
<1>1. job[w].pc = "start" /\ job[w].req.op \notin {"createV2", "import"}
  BY DEF RegisterDeviceV2, CreateDevice, GetMigratedAccountData, At, Adds
<1>2. \/ Reply(w, Status(400)) \/ Reply(w, Status(404))
      \/ \E a : job' = [job EXCEPT ![w].found = a, ![w].pc = "addDevice"]
      \/ \E a : job' = [job EXCEPT ![w].found = a, ![w].pc = "readMigrated"]
  BY DEF RegisterDeviceV2, CreateDevice, GetMigratedAccountData, ReadAccount
<1>3. ASSUME NEW a, NEW pc \in {"addDevice", "readMigrated"},
             job' = [job EXCEPT ![w].found = a, ![w].pc = pc]
      PROVE  StepOK(w)
  <2>1. SameRequest(w) /\ job'[w].pc = pc
    BY <1>1, <1>3, FoundSame DEF AnswerInv, DeviceInv, WalletInv
  <2> QED  BY <2>1, GoesOn
<1>4. CASE Reply(w, Status(400)) \/ Reply(w, Status(404))
  BY <1>1, <1>4, Refusals
<1> QED  BY <1>2, <1>3, <1>4

LEMMA PrimaryStep ==
  ASSUME AnswerInv, NEW w \in Workers,
         RecoverDeviceV2(w) \/ InitDevice(w) \/ GetPrimaryDevice(w)
  PROVE  StepOK(w)
<1>1. TypeInv /\ job[w].pc = "start" /\ job[w].req.op \in Recovers
  BY DEF RecoverDeviceV2, InitDevice, GetPrimaryDevice, At, Recovers, AnswerInv,
         DeviceInv, WalletInv
<1>2. \/ Reply(w, Status(400)) \/ Reply(w, Status(200))
      \/ \E a : job' = [job EXCEPT ![w].found = a, ![w].pc = "readPrimary"]
  BY DEF RecoverDeviceV2, InitDevice, GetPrimaryDevice, ReadAccount
<1>3. ASSUME NEW a, job' = [job EXCEPT ![w].found = a, ![w].pc = "readPrimary"]
      PROVE  StepOK(w)
  <2>1. SameRequest(w) /\ job'[w].pc = "readPrimary"
    BY <1>1, <1>3, FoundSame
  <2>2. job'[w].resp = Status(0)
    BY <2>1 DEF AnswerInv, AnswersOK, ProgressOK, SameRequest
  <2>3. ProgressOK(w)' /\ AnswerOK(w)'
    BY <1>1, <2>1, <2>2 DEF ProgressOK, AnswerOK, InTx, SameRequest
  <2> QED  BY <2>2, <2>3, StatusFields DEF StepOK, Promises
<1>4. CASE Reply(w, Status(200))
  <2>1. SameRequest(w) /\ job'[w].pc = "answer" /\ job'[w].resp = Status(200)
    BY <1>1, <1>4, ReplySame
  <2>2. Plain(job[w].req, Status(200), job[w].past)
    BY <1>1, StatusFields DEF Plain, Conflicts, Recovers, Mints, Opens, Adds
  <2> QED  BY <2>1, <2>2, PlainAnswers
<1>5. CASE Reply(w, Status(400))
  BY <1>1, <1>5, Refusals DEF Recovers
<1> QED  BY <1>2, <1>3, <1>4, <1>5

LEMMA RegisterStep ==
  ASSUME AnswerInv, NEW w \in Workers, RegisterDevice(w)
  PROVE  StepOK(w)
<1>1. TypeInv /\ job[w].pc = "start" /\ job[w].req.op = "registerV1"
  BY DEF RegisterDevice, At, AnswerInv, DeviceInv, WalletInv
<1>2. \/ Goto(w, "insertSigner")
      \/ \E a : job' = [job EXCEPT ![w].found = a, ![w].pc = "txAddDevice"]
  BY DEF RegisterDevice
<1>3. /\ SameRequest(w)
      /\ \/ job'[w].pc = "insertSigner" /\ job'[w].found = job[w].found
         \/ job'[w].pc = "txAddDevice"
  <2>1. CASE Goto(w, "insertSigner")
    BY <1>1, <2>1, GotoSame
  <2>2. CASE \E a : job' = [job EXCEPT ![w].found = a, ![w].pc = "txAddDevice"]
    <3>1. PICK a : job' = [job EXCEPT ![w].found = a, ![w].pc = "txAddDevice"]
      BY <2>2
    <3>2. SameRequest(w) /\ job'[w].pc = "txAddDevice"
      BY <1>1, <3>1, FoundSame
    <3> QED  BY <3>2
  <2> QED  BY <1>2, <2>1, <2>2
<1>4. job'[w].resp = Status(0) /\ job[w].found = None
  BY <1>1, <1>3 DEF AnswerInv, AnswersOK, ProgressOK, SameRequest
<1>5. ProgressOK(w)' /\ AnswerOK(w)'
  BY <1>1, <1>3, <1>4 DEF ProgressOK, AnswerOK, InTx, SameRequest
<1> QED  BY <1>4, <1>5, StatusFields DEF StepOK, Promises

----------------------------------------------------------------------------
(***************************************************************************)
(* Serving a share.                                                        *)
(***************************************************************************)
\* A row that decrypts holds the share sealed for it, and for its wallet.
LEMMA DecryptsOwn ==
  ASSUME DeviceInv, NEW d \in devices, Decrypts(d)
  PROVE  /\ d.share.secret \in Secret /\ d.share.secret.dev = d.id /\ ~d.revoked
         /\ Held(d.signer, d.share.secret.by, d.share.secret.addr)
<1>1. RowOK(d)
  BY DEF DeviceInv, RowsOK
<1>2. d.share.fmt = "v2" /\ d.share.sealed = d.id
  BY DEF Decrypts
<1>3. PICK e \in devices : /\ e.id = d.share.sealed
                           /\ Held(e.signer, d.share.secret.by, d.share.secret.addr)
  BY <1>1, <1>2 DEF RowOK, SealedOK
<1>4. e = d
  BY <1>2, <1>3 DEF DeviceInv, RowsOK, UniqueIds
<1> QED  BY <1>1, <1>2, <1>3, <1>4 DEF RowOK, SealedOK

\* Nobody was told of the revocation of a row that is not revoked.
LEMMA LiveUntold ==
  ASSUME AnswerInv, NEW w \in Workers, NEW d \in devices, ~d.revoked
  PROVE  d.id \notin job[w].past.acked
BY DEF AnswerInv, AnswersOK, PastOK, RevokedRow, DeviceInv, RowsOK, UniqueIds

\* Serving row d to a request whose subject owns its wallet.
LEMMA ServeStep ==
  ASSUME AnswerInv, NEW w \in Workers, job[w].pc \notin {"idle", "answer"},
         job[w].req.op \in Recovers \cup {"getDevice"},
         NEW d \in devices, NEW acct, ServeShare(w, d, acct),
         NEW a \in accounts, a.signer = d.signer, a.subj = job[w].req.subj,
         acct # None => a.id = acct
  PROVE  StepOK(w)
<1>1. DeviceInv /\ TypeInv /\ UNCHANGED accounts
  BY DEF AnswerInv, DeviceInv, WalletInv, ServeShare, Query, tables
<1>2. CASE ~Decrypts(d)
  <2>1. Reply(w, Status(500))
    BY <1>2 DEF ServeShare, Query
  <2> QED  BY <2>1, Refusals DEF Recovers
<1>3. CASE Decrypts(d)
  <2> DEFINE x == Named(200, d.share.secret, d.id, acct)
  <2>1. SameRequest(w) /\ job'[w].pc = "answer" /\ job'[w].resp = x
    BY <1>1, <1>3, ReplySame DEF ServeShare, Query
  <2>2. /\ d.share.secret \in Secret /\ d.share.secret.dev = d.id /\ ~d.revoked
        /\ Held(d.signer, d.share.secret.by, d.share.secret.addr)
    BY <1>1, <1>3, DecryptsOwn
  <2>3. a.subj = d.share.secret.by /\ a.addr = d.share.secret.addr
    BY <1>1, <2>2 DEF Held, WalletInv, DeviceInv, StoredOK, OneAccountPerKey
  <2>4. d.id \notin job[w].past.acked
    BY <2>2, LiveUntold
  <2>5. PICK r, p, y : r = job[w].req /\ p = job[w].past /\ y = x
    OBVIOUS
  <2>6. /\ y.code = 200 /\ y.share = d.share.secret /\ y.dev = d.id /\ y.acct = acct
    BY <2>5, NamedFields
  <2> HIDE DEF x
  <2>a. y.share.by = r.subj /\ y.share.dev = y.dev /\ y.share.addr = a.addr
    BY <2>2, <2>3, <2>5, <2>6
  <2>b. y.acct # None => \E acc \in accounts' : acc.id = y.acct /\ acc.addr = y.share.addr
    BY <1>1, <2>6, <2>a
  <2>7. ServedOwn(r, y)' /\ ServedLive(y, p)'
    BY <2>2, <2>4, <2>5, <2>6, <2>a, <2>b DEF ServedOwn, ServedLive
  <2>8. r.op \notin Mints \cup {"listV1", "listV2"} /\ r.op \notin {"createV2", "import"}
    BY <2>5 DEF Mints, Opens, Adds, Recovers
  <2>9. GoodAnswer(r, y, p)'
    BY <2>6, <2>7, <2>8 DEF GoodAnswer, Durable, Conflicts, ListedOwn, ListedRevoked, Told
  <2>10. ProgressOK(w)'
    BY <2>1 DEF ProgressOK, InTx
  <2>11. AnswerOK(w)'
    BY <2>1, <2>5, <2>9 DEF AnswerOK, SameRequest
  <2>12. ~Promises(w)'
    BY <2>1, <2>5, <2>8 DEF Promises, Mints, SameRequest
  <2> QED  BY <2>1, <2>5, <2>6, <2>10, <2>11, <2>12 DEF StepOK
<1> QED  BY <1>2, <1>3

LEMMA ReadPrimaryStep ==
  ASSUME AnswerInv, NEW w \in Workers, ReadPrimary(w)
  PROVE  StepOK(w)
<1>1. DeviceInv /\ job[w].pc = "readPrimary"
  BY DEF AnswerInv, ReadPrimary
<1>2. job[w].req.op \in Recovers
  BY <1>1 DEF AnswerInv, AnswersOK, ProgressOK
<1>3. PICK a \in accounts : /\ a.id = job[w].found.id /\ a.signer = job[w].found.signer
                            /\ a.subj = job[w].req.subj
  BY <1>1 DEF DeviceInv, RequestsOK, FoundOwn
<1>4. CASE Query(w, Status(NoPrimaryCode(job[w].req.op)))
  <2>1. NoPrimaryCode(job[w].req.op) \in {400, 404, 500}
    BY <1>2 DEF Recovers, NoPrimaryCode
  <2>2. PICK c \in {400, 404, 500} : c = NoPrimaryCode(job[w].req.op)
    BY <2>1
  <2> QED  BY <1>1, <1>2, <1>4, <2>2, Refusals DEF Query, Recovers
<1>5. CASE \E d \in PrimaryOf(job[w].found.signer) : ServeShare(w, d, job[w].found.id)
  <2>1. PICK d \in PrimaryOf(job[w].found.signer) : ServeShare(w, d, job[w].found.id)
    BY <1>5
  <2>2. d \in devices /\ d.signer = a.signer
    BY <1>3, <2>1 DEF PrimaryOf
  <2>3. PICK acct : acct = job[w].found.id
    OBVIOUS
  <2>4. ServeShare(w, d, acct) /\ a.id = acct
    BY <1>3, <2>1, <2>3
  <2> QED  BY <1>1, <1>2, <1>3, <2>2, <2>4, ServeStep
<1> QED  BY <1>4, <1>5 DEF ReadPrimary

LEMMA GetDeviceStep ==
  ASSUME AnswerInv, NEW w \in Workers, GetDevice(w)
  PROVE  StepOK(w)
<1>1. job[w].pc = "start" /\ job[w].req.op = "getDevice"
  BY DEF GetDevice, At
<1>2. CASE Query(w, Status(404))
  BY <1>1, <1>2, Refusals DEF Query
<1>3. CASE \E d \in LiveOwned(job[w].req.subj) : ServeShare(w, d, None)
  <2>1. PICK d \in LiveOwned(job[w].req.subj) : ServeShare(w, d, None)
    BY <1>3
  <2>2. PICK a \in accounts : a.subj = job[w].req.subj /\ a.signer = d.signer
    BY DEF LiveOwned, Owned
  <2>3. d \in devices
    BY DEF LiveOwned, Owned
  <2> QED  BY <1>1, <2>1, <2>2, <2>3, ServeStep
<1> QED  BY <1>2, <1>3 DEF GetDevice

----------------------------------------------------------------------------
(***************************************************************************)
(* Revoking a device.                                                      *)
(***************************************************************************)
LEMMA RevokeReadStep ==
  ASSUME AnswerInv, NEW w \in Workers, RevokeDeviceV2(w)
  PROVE  StepOK(w)
<1>1. TypeInv /\ job[w].pc = "start" /\ job[w].req.op = "revoke"
  BY DEF RevokeDeviceV2, At, AnswerInv, DeviceInv, WalletInv
<1>2. \/ Reply(w, Status(404)) \/ Reply(w, Status(409))
      \/ \E d : job' = [job EXCEPT ![w].row = d, ![w].pc = "revoke"]
  BY DEF RevokeDeviceV2
<1>3. CASE Reply(w, Status(404)) \/ Reply(w, Status(409))
  BY <1>1, <1>3, Refusals
<1>4. CASE \E d : job' = [job EXCEPT ![w].row = d, ![w].pc = "revoke"]
  <2>1. SameRequest(w) /\ job'[w].pc = "revoke"
    BY <1>1, <1>4, RowSame
  <2>2. job'[w].resp = Status(0)
    BY <2>1 DEF AnswerInv, AnswersOK, ProgressOK, SameRequest
  <2>3. ProgressOK(w)' /\ AnswerOK(w)'
    BY <1>1, <2>1, <2>2 DEF ProgressOK, AnswerOK, InTx, SameRequest
  <2> QED  BY <2>2, <2>3, StatusFields DEF StepOK, Promises
<1> QED  BY <1>2, <1>3, <1>4

LEMMA RevokeUpdateStep ==
  ASSUME AnswerInv, NEW w \in Workers, RevokeUpdate(w)
  PROVE  StepOK(w)
<1>1. TypeInv /\ DeviceInv /\ job[w].pc = "revoke" /\ Revokes(w)
      /\ Reply(w, Revoked(w, Revocable(job[w].row.id)))
  BY RevokeRevokes DEF RevokeUpdate, AnswerInv, DeviceInv, WalletInv
<1>2. job[w].req.op = "revoke"
  BY <1>1 DEF AnswerInv, AnswersOK, ProgressOK
<1>3. CASE Revocable(job[w].row.id) = {}
  <2>1. Reply(w, Status(404))
    BY <1>1, <1>3 DEF Revoked
  <2> QED  BY <1>1, <1>2, <2>1, Refusals
<1>4. CASE Revocable(job[w].row.id) # {}
  <2> DEFINE y == Named(204, None, job[w].row.id, None)
  <2>1. SameRequest(w) /\ job'[w].pc = "answer" /\ job'[w].resp = y
    BY <1>1, <1>4, ReplySame DEF Revoked
  <2>2. PICK r, p, a : r = job[w].req /\ p = job[w].past /\ a = y
    OBVIOUS
  <2>3. a.code = 204 /\ a.share = None /\ a.dev = job[w].row.id
    BY <2>2, NamedFields
  <2> HIDE DEF y
  <2>4. PICK x \in devices : /\ x.id = job[w].row.id /\ ~x.primary /\ ~x.revoked
                             /\ Replaces(x, Revocation(x))
    BY <1>1, <1>4 DEF Revokes
  <2>5. x \in Device
    BY <1>1 DEF TypeInv, TypeOK, TablesTypeOK
  <2>6. RevokedRow(a.dev)'
    BY <2>3, <2>4, <2>5, RevocationRow DEF RevokedRow, Replaces
  <2>7. GoodAnswer(r, a, p)'
    BY <1>2, <2>2, <2>3, <2>6
       DEF GoodAnswer, Durable, Conflicts, ServedOwn, ServedLive, ListedOwn,
           ListedRevoked, Told, Mints, Opens, Adds
  <2>8. ProgressOK(w)'
    BY <2>1 DEF ProgressOK, InTx
  <2>9. AnswerOK(w)'
    BY <2>1, <2>2, <2>7 DEF AnswerOK, SameRequest
  <2>10. LiveRow(a.dev)
    BY <2>3, <2>4 DEF LiveRow
  <2>11. ~Promises(w)'
    BY <1>2, <2>1 DEF Promises, Opens, Adds, SameRequest
  <2> QED  BY <2>1, <2>2, <2>8, <2>9, <2>10, <2>11 DEF StepOK
<1> QED  BY <1>3, <1>4

----------------------------------------------------------------------------
(***************************************************************************)
(* Lists and lookups.                                                      *)
(***************************************************************************)
LEMMA LookupStep ==
  ASSUME AnswerInv, NEW w \in Workers,
         GetSignerV2(w) \/ ListAccountsV2(w) \/ ReadMigrated(w)
  PROVE  StepOK(w)
<1>1. /\ TypeInv /\ job[w].pc \notin {"idle", "answer"}
      /\ job[w].req.op \in {"getSigner", "listAccounts", "migrated"}
  BY DEF GetSignerV2, ListAccountsV2, ReadMigrated, At, AnswerInv, DeviceInv, WalletInv,
         TypeInv, PlaceOK
<1>2. \/ Reply(w, Status(400)) \/ Reply(w, Status(404))
      \/ \E acct : Reply(w, Named(200, None, None, acct))
      \/ \E l : Reply(w, Listed(l))
  BY DEF GetSignerV2, ListAccountsV2, ReadMigrated, Query
<1>3. CASE Reply(w, Status(400)) \/ Reply(w, Status(404))
  BY <1>1, <1>3, Refusals
<1>4. CASE (\E acct : Reply(w, Named(200, None, None, acct))) \/ \E l : Reply(w, Listed(l))
  <2>1. PICK a : Reply(w, a) /\ a.code = 200 /\ a.share = None
    BY <1>4, NamedFields, ListedFields
  <2>2. SameRequest(w) /\ job'[w].pc = "answer" /\ job'[w].resp = a
    BY <1>1, <2>1, ReplySame
  <2>3. Plain(job[w].req, a, job[w].past)
    BY <1>1, <2>1 DEF Plain, Conflicts, Mints, Opens, Adds
  <2> QED  BY <2>2, <2>3, PlainAnswers
<1> QED  BY <1>2, <1>3, <1>4

LEMMA ListReadStep ==
  ASSUME AnswerInv, NEW w \in Workers, ListDevices(w)
  PROVE  StepOK(w)
<1> DEFINE mine == LiveAccounts(job[w].req.subj)
<1>1. /\ TypeInv /\ job[w].pc = "start" /\ job[w].req.op = "listV1"
      /\ job' = [job EXCEPT ![w].seen = mine, ![w].pc = "readDevices"]
      /\ UNCHANGED accounts
  BY DEF ListDevices, At, AnswerInv, DeviceInv, WalletInv, tables
<1>2. SameRequest(w) /\ job'[w].pc = "readDevices" /\ job'[w].seen = mine
  BY <1>1, SeenSame
<1>3. job'[w].resp = Status(0)
  BY <1>2 DEF AnswerInv, AnswersOK, ProgressOK, SameRequest
<1>4. SeenOK(w)'
  BY <1>1, <1>2 DEF SeenOK, SameRequest, LiveAccounts
<1>5. ProgressOK(w)' /\ AnswerOK(w)'
  BY <1>1, <1>2, <1>3, <1>4 DEF ProgressOK, AnswerOK, InTx, SameRequest
<1> QED  BY <1>3, <1>5, StatusFields DEF StepOK, Promises

LEMMA ListStep ==
  ASSUME AnswerInv, NEW w \in Workers, ListDevicesRead(w)
  PROVE  StepOK(w)
<1> DEFINE pairs == {q \in devices \X job[w].seen : Listable(q[1]) /\ q[1].signer = q[2].signer}
           l == {[id |-> q[1].id, addr |-> q[2].addr, revoked |-> FALSE] : q \in pairs}
<1>1. /\ TypeInv /\ job[w].pc = "readDevices" /\ Reply(w, Listed(l))
      /\ UNCHANGED <<devices, accounts>>
  BY DEF ListDevicesRead, Query, AnswerInv, DeviceInv, WalletInv, tables
<1>2. job[w].req.op = "listV1" /\ SeenOK(w)
  BY <1>1 DEF AnswerInv, AnswersOK, ProgressOK
<1>3. SameRequest(w) /\ job'[w].pc = "answer" /\ job'[w].resp = Listed(l)
  BY <1>1, ReplySame
<1>4. ASSUME NEW e \in l
      PROVE  /\ e.id \notin job[w].past.acked
             /\ \E acc \in accounts, d \in devices :
                  /\ acc.subj = job[w].req.subj /\ acc.addr = e.addr
                  /\ d.id = e.id /\ d.signer = acc.signer
  <2>1. PICK q \in pairs : e = [id |-> q[1].id, addr |-> q[2].addr, revoked |-> FALSE]
    BY <1>4
  <2>2. q[1] \in devices /\ q[2] \in job[w].seen /\ ~q[1].revoked /\ q[1].signer = q[2].signer
    BY DEF Listable
  <2>3. PICK b \in accounts : /\ b.subj = job[w].req.subj /\ b.addr = q[2].addr
                              /\ b.signer = q[2].signer
    BY <1>2, <2>2 DEF SeenOK
  <2>4. q[1].id \notin job[w].past.acked
    BY <2>2, LiveUntold
  <2>5. e.id = q[1].id /\ e.addr = q[2].addr
    BY <2>1
  <2> QED  BY <2>2, <2>3, <2>4, <2>5
<1>5. PICK r, p, a : r = job[w].req /\ p = job[w].past /\ a = Listed(l)
  OBVIOUS
<1>6. a.code = 200 /\ a.share = None /\ a.list = l
  BY <1>5, ListedFields
<1> HIDE DEF l
<1>7. ListedOwn(r, a, p)'
  BY <1>1, <1>4, <1>5, <1>6 DEF ListedOwn
<1>8. GoodAnswer(r, a, p)'
  BY <1>2, <1>5, <1>6, <1>7 DEF GoodAnswer, Durable, Conflicts, ServedOwn, ServedLive,
                                ListedRevoked, Told, Mints, Opens, Adds
<1>9. ProgressOK(w)'
  BY <1>3 DEF ProgressOK, InTx
<1>10. AnswerOK(w)'
  BY <1>3, <1>5, <1>8 DEF AnswerOK, SameRequest
<1>11. ~Promises(w)'
  BY <1>2, <1>3 DEF Promises, Opens, Adds, SameRequest
<1> QED  BY <1>3, <1>5, <1>6, <1>9, <1>10, <1>11 DEF StepOK

LEMMA ListV2Step ==
  ASSUME AnswerInv, NEW w \in Workers, ListDevicesV2(w)
  PROVE  StepOK(w)
<1> DEFINE own == Owned(job[w].req.subj)
           l == {[id |-> d.id, addr |-> None, revoked |-> d.revoked] : d \in own}
<1>1. /\ TypeInv /\ job[w].pc = "start" /\ job[w].req.op = "listV2"
      /\ Reply(w, Listed(l)) /\ UNCHANGED <<devices, accounts>>
  BY DEF ListDevicesV2, At, Entries, Query, AnswerInv, DeviceInv, WalletInv, tables
<1>2. SameRequest(w) /\ job'[w].pc = "answer" /\ job'[w].resp = Listed(l)
  BY <1>1, ReplySame
<1>3. ASSUME NEW d \in own, d.id \in job[w].past.acked
      PROVE  \E e \in l : e.id = d.id /\ e.revoked
  <2>1. d \in devices
    BY DEF Owned
  <2>2. d.revoked
    BY <1>3, <2>1, LiveUntold
  <2> DEFINE e == [id |-> d.id, addr |-> None, revoked |-> d.revoked]
  <2>3. e \in l
    OBVIOUS
  <2>4. e.id = d.id /\ e.revoked
    BY <2>2
  <2> QED  BY <2>3, <2>4
<1>4. PICK r, p, a : r = job[w].req /\ p = job[w].past /\ a = Listed(l)
  OBVIOUS
<1>5. a.code = 200 /\ a.share = None /\ a.list = l
  BY <1>4, ListedFields
<1> HIDE DEF l
<1>6. ListedRevoked(r, a, p)'
  BY <1>1, <1>3, <1>4, <1>5 DEF ListedRevoked, Owned
<1>7. GoodAnswer(r, a, p)'
  BY <1>1, <1>4, <1>5, <1>6 DEF GoodAnswer, Durable, Conflicts, ServedOwn, ServedLive,
                                ListedOwn, Told, Mints, Opens, Adds
<1>8. ProgressOK(w)'
  BY <1>2 DEF ProgressOK, InTx
<1>9. AnswerOK(w)'
  BY <1>2, <1>4, <1>7 DEF AnswerOK, SameRequest
<1>10. ~Promises(w)'
  BY <1>1, <1>2 DEF Promises, Opens, Adds, SameRequest
<1> QED  BY <1>2, <1>4, <1>5, <1>8, <1>9, <1>10 DEF StepOK

----------------------------------------------------------------------------
(***************************************************************************)
(* Storing: what is answered is what was stored.                           *)
(***************************************************************************)
\* The answer of a write whose rows are there.
LEMMA DurableStep ==
  ASSUME AnswerInv, NEW w \in Workers, AddDevice(w) \/ Commit(w), SameRequest(w), job'[w].pc = "answer",
         NEW a, job'[w].resp = a,
         a.code # 204, a.share = None, job[w].req.op \in Mints,
         a.code \in {200, 201},
         ~(job[w].req.op \in {"createV2", "import"}
             /\ StoredAddress(job[w].req) \in job[w].past.held),
         NEW acc \in accounts', NEW d \in devices',
         acc.id = a.acct, acc.subj = job[w].req.subj,
         d.id = a.dev, d.signer = acc.signer,
         job[w].req.op = "import" => a.acct \in migrated'
  PROVE  StepOK(w)
<1>1. PICK r, p : r = job[w].req /\ p = job[w].past
  OBVIOUS
<1>2. Durable(r, a)'
  BY <1>1 DEF Durable
<1>3. GoodAnswer(r, a, p)'
  BY <1>1, <1>2 DEF GoodAnswer, Conflicts, ServedOwn, ServedLive, ListedOwn,
                    ListedRevoked, Told, Mints, Opens, Adds, StoredAddress
<1>4. ProgressOK(w)'
  BY DEF ProgressOK, InTx
<1>5. AnswerOK(w)'
  BY <1>1, <1>3 DEF AnswerOK, SameRequest
<1> QED  BY <1>4, <1>5 DEF StepOK, Promises

LEMMA AddStep ==
  ASSUME AnswerInv, NEW w \in Workers, AddDevice(w)
  PROVE  StepOK(w)
<1>1. /\ TypeInv /\ DeviceInv /\ job[w].pc = "addDevice" /\ Reply(w, Added(w))
      /\ devices' = devices \cup {Secondary(w)} /\ UNCHANGED accounts
  BY DEF AddDevice, AnswerInv, DeviceInv, WalletInv
<1>2. job[w].req.op \in Adds
  BY <1>1 DEF TypeInv, PlaceOK
<1>3. PICK acc \in accounts : /\ acc.id = job[w].found.id /\ acc.signer = job[w].found.signer
                              /\ acc.subj = job[w].req.subj
  BY <1>1 DEF DeviceInv, RequestsOK, FoundOwn
<1>4. PICK a : a = Added(w)
  OBVIOUS
<1>5. /\ a.code \in {200, 201} /\ a.share = None
      /\ a.dev = job[w].req.dev /\ a.acct = job[w].found.id
  BY <1>4 DEF Added, Named
<1>6. PICK d : d = Secondary(w)
  OBVIOUS
<1>7. d \in devices' /\ d.id = job[w].req.dev /\ d.signer = job[w].found.signer
  BY <1>1, <1>6 DEF Secondary, newDevice
<1>8. SameRequest(w) /\ job'[w].pc = "answer" /\ job'[w].resp = a
  BY <1>1, <1>4, ReplySame
<1>9. /\ a.code # 204 /\ job[w].req.op \in Mints
      /\ job[w].req.op \notin {"createV2", "import"}
  BY <1>2, <1>5 DEF Mints, Adds
<1>10. /\ acc \in accounts' /\ acc.id = a.acct /\ d.id = a.dev /\ d.signer = acc.signer
  BY <1>1, <1>3, <1>5, <1>7
<1> QED  BY <1>3, <1>5, <1>7, <1>8, <1>9, <1>10, DurableStep

LEMMA CommitStep ==
  ASSUME AnswerInv, NEW w \in Workers, Commit(w)
  PROVE  StepOK(w)
<1> DEFINE r == job[w].req
           t == tx[w]
<1>1. /\ TypeInv /\ DeviceInv /\ job[w].pc = "commit" /\ Reply(w, Opened(w))
      /\ devices' = devices \cup t.devices /\ accounts' = accounts \cup t.accounts
      /\ migrated' = migrated \cup t.migrated
  BY DEF Commit, Publish, AnswerInv, DeviceInv, WalletInv
<1>2. /\ r.op \in Opens /\ CommitOK(w)
      /\ ~(r.op \in {"createV2", "import"} /\ StoredAddress(r) \in job[w].past.held)
  BY <1>1 DEF TypeInv, PlaceOK, AnswerInv, AnswersOK, ProgressOK, InTx
<1>3. \A d \in t.devices : d.id = r.dev
  BY DEF DeviceInv, RequestsOK, StagedRows, RowFor, AnswerInv
<1>4. PICK a : a = Opened(w)
  OBVIOUS
<1>5. /\ a.code \in {200, 201} /\ a.share = None /\ a.dev = r.dev
      /\ a.acct = IF job[w].found = None THEN r.acct ELSE job[w].found.id
  BY <1>4 DEF Opened, Named
<1>6. SameRequest(w) /\ job'[w].pc = "answer" /\ job'[w].resp = a
  BY <1>1, <1>4, ReplySame
<1>7. a.code # 204 /\ r.op \in Mints
  BY <1>2, <1>5 DEF Mints
<1>8. CASE job[w].found = None /\ t.accounts = {NewAccount(r)}
           /\ (r.op = "import" => t.migrated = {r.acct})
  <2>1. StagesPrimary(t, r)
    BY <1>1, <1>8 DEF DeviceInv, WalletInv, StagedOK, InTx
  <2>2. PICK d \in t.devices : d.signer = r.signer
    BY <2>1 DEF StagesPrimary
  <2>3. PICK acc : acc = NewAccount(r)
    OBVIOUS
  <2>4. acc \in accounts' /\ acc.id = r.acct /\ acc.subj = r.subj /\ acc.signer = r.signer
    BY <1>1, <1>8, <2>3 DEF NewAccount
  <2>5. /\ a.acct = r.acct /\ d \in devices' /\ d.id = a.dev
        /\ r.op = "import" => a.acct \in migrated'
    BY <1>1, <1>3, <1>5, <1>8, <2>2
  <2> QED  BY <1>2, <1>5, <1>6, <1>7, <2>2, <2>4, <2>5, DurableStep
<1>9. CASE /\ r.op = "registerV1" /\ job[w].found \in Account
           /\ \E acc \in accounts, d \in t.devices :
                acc.id = job[w].found.id /\ acc.subj = r.subj /\ d.signer = acc.signer
  <2>1. PICK acc \in accounts, d \in t.devices :
          acc.id = job[w].found.id /\ acc.subj = r.subj /\ d.signer = acc.signer
    BY <1>9
  <2>2. job[w].found # None
    BY <1>9, RowsAssumption
  <2>3. /\ a.acct = acc.id /\ d \in devices' /\ acc \in accounts' /\ d.id = a.dev
        /\ r.op # "import"
    BY <1>1, <1>3, <1>5, <1>9, <2>1, <2>2
  <2> QED  BY <1>2, <1>5, <1>6, <1>7, <2>1, <2>3, DurableStep
<1> QED  BY <1>2, <1>8, <1>9 DEF CommitOK

----------------------------------------------------------------------------
(***************************************************************************)
(* Opening a wallet, up to its COMMIT.                                     *)
(***************************************************************************)
LEMMA CheckStep ==
  ASSUME AnswerInv, NEW w \in Workers, CreateDeviceV2(w) \/ ImportShare(w)
  PROVE  StepOK(w)
<1>1. /\ TypeInv /\ job[w].pc = "start" /\ job[w].req.op \in {"createV2", "import"}
      /\ job[w].found = None /\ PastOK(w)
  BY DEF CreateDeviceV2, ImportShare, At, AnswerInv, DeviceInv, WalletInv, AnswersOK,
         ProgressOK
<1>2. job[w].req.op = "createV2" => StoredAddress(job[w].req) = job[w].req.addr
  BY <1>1 DEF TypeInv, PlaceOK, Requests, Req, Adds, StoredAddress
<1>3. \/ Reply(w, Status(409))
      \/ Holders(StoredAddress(job[w].req)) = {} /\ Goto(w, "insertSigner")
  BY <1>2 DEF CreateDeviceV2, ImportShare, CheckAddress, At
<1>4. CASE Reply(w, Status(409))
  BY <1>1, <1>4, Refusals
<1>5. CASE Holders(StoredAddress(job[w].req)) = {} /\ Goto(w, "insertSigner")
  <2>1. SameRequest(w) /\ job'[w].pc = "insertSigner" /\ job'[w].found = None
    BY <1>1, <1>5, GotoSame
  <2>2. job'[w].resp = Status(0)
    BY <2>1 DEF AnswerInv, AnswersOK, ProgressOK, SameRequest
  <2>3. StoredAddress(job[w].req) \notin job[w].past.held
    BY <1>1, <1>5 DEF Holders, PastOK
  <2>4. ProgressOK(w)' /\ AnswerOK(w)'
    BY <2>1, <2>2, <2>3 DEF ProgressOK, AnswerOK, InTx, SameRequest, StoredAddress
  <2> QED  BY <2>2, <2>4, StatusFields DEF StepOK, Promises
<1> QED  BY <1>3, <1>4, <1>5

LEMMA TxAddStep ==
  ASSUME AnswerInv, NEW w \in Workers, TxAddDevice(w)
  PROVE  StepOK(w)
<1>1. /\ TypeInv /\ DeviceInv /\ job[w].pc = "txAddDevice" /\ Goto(w, "commit")
      /\ tx' = [tx EXCEPT ![w].devices = {Secondary(w)}] /\ UNCHANGED accounts
  BY DEF TxAddDevice, AnswerInv, DeviceInv, WalletInv, tables
<1>2. job[w].req.op = "registerV1" /\ job[w].found \in Account
  BY <1>1 DEF AnswerInv, AnswersOK, ProgressOK, TypeInv, PlaceOK
<1>3. PICK acc \in accounts : /\ acc.id = job[w].found.id /\ acc.signer = job[w].found.signer
                              /\ acc.subj = job[w].req.subj
  BY <1>1 DEF DeviceInv, RequestsOK, FoundOwn
<1>4. PICK d : d = Secondary(w)
  OBVIOUS
<1>5. d.signer = acc.signer
  BY <1>3, <1>4 DEF Secondary, newDevice
<1>6. tx'[w].devices = {d} /\ tx'[w].accounts = {}
  BY <1>1, <1>4 DEF TypeInv, TypeOK, TablesTypeOK, Writes, DeviceInv, WalletInv, StagedOK,
                    InTx, NoWrites
<1>7. SameRequest(w) /\ job'[w].pc = "commit" /\ job'[w].found = job[w].found
  BY <1>1, GotoSame
<1>8. CommitOK(w)'
  BY <1>1, <1>2, <1>3, <1>5, <1>6, <1>7 DEF CommitOK, SameRequest
<1>9. job'[w].resp = Status(0)
  BY <1>7 DEF AnswerInv, AnswersOK, ProgressOK, SameRequest
<1>10. ProgressOK(w)' /\ AnswerOK(w)'
  BY <1>2, <1>7, <1>8, <1>9 DEF ProgressOK, AnswerOK, SameRequest, InTx
<1> QED  BY <1>9, <1>10, StatusFields DEF StepOK, Promises

LEMMA InsertStep ==
  ASSUME AnswerInv, NEW w \in Workers,
         InsertSigner(w) \/ InsertPrimaryDevice(w) \/ InsertAccount(w) \/ InsertMigrated(w)
  PROVE  StepOK(w)
<1>1. /\ TypeInv /\ DeviceInv /\ ProgressOK(w)
      /\ job[w].pc \in {"insertSigner", "insertDevice", "insertAccount", "insertMigrated"}
  BY DEF InsertSigner, InsertPrimaryDevice, InsertAccount, InsertMigrated, AnswerInv,
         DeviceInv, WalletInv, AnswersOK
<1>2. /\ job[w].found = None
      /\ job[w].req.op \in {"createV2", "import"} =>
           StoredAddress(job[w].req) \notin job[w].past.held
  BY <1>1 DEF ProgressOK, InTx
<1>3. CASE Abort(w, Status(500))
  BY <1>1, <1>2, <1>3, Refusals DEF Abort
<1>4. ASSUME NEW pc \in {"insertDevice", "insertAccount", "insertMigrated"}, Goto(w, pc),
             pc = "insertMigrated" => job[w].req.op = "import"
      PROVE  StepOK(w)
  <2>1. SameRequest(w) /\ job'[w].pc = pc /\ job'[w].found = None
    BY <1>1, <1>2, <1>4, GotoSame
  <2>2. job'[w].resp = Status(0)
    BY <2>1 DEF AnswerInv, AnswersOK, ProgressOK, SameRequest
  <2>3. ProgressOK(w)' /\ AnswerOK(w)'
    BY <1>2, <1>4, <2>1, <2>2 DEF ProgressOK, AnswerOK, InTx, SameRequest, StoredAddress
  <2> QED  BY <2>2, <2>3, StatusFields DEF StepOK, Promises
<1>5. ASSUME Goto(w, "commit"), tx'[w].accounts = {NewAccount(job[w].req)},
             job[w].req.op = "import" => tx'[w].migrated = {job[w].req.acct}
      PROVE  StepOK(w)
  <2>1. SameRequest(w) /\ job'[w].pc = "commit" /\ job'[w].found = None
    BY <1>1, <1>2, <1>5, GotoSame
  <2>2. job'[w].resp = Status(0)
    BY <2>1 DEF AnswerInv, AnswersOK, ProgressOK, SameRequest
  <2>3. CommitOK(w)'
    BY <1>5, <2>1 DEF CommitOK, SameRequest, NewAccount, StoredAddress
  <2>4. ProgressOK(w)' /\ AnswerOK(w)'
    BY <1>2, <2>1, <2>2, <2>3 DEF ProgressOK, AnswerOK, InTx, SameRequest, StoredAddress
  <2> QED  BY <2>2, <2>4, StatusFields DEF StepOK, Promises
<1>6. CASE InsertSigner(w) \/ InsertPrimaryDevice(w)
  BY <1>3, <1>4, <1>6 DEF InsertSigner, InsertPrimaryDevice
<1>7. CASE InsertAccount(w)
  <2>1. CASE job[w].req.op = "import"
    BY <1>3, <1>4, <1>7, <2>1 DEF InsertAccount
  <2>2. CASE job[w].req.op # "import"
    <3>1. \/ Abort(w, Status(500))
          \/ /\ Goto(w, "commit")
             /\ tx' = [tx EXCEPT ![w].accounts = {NewAccount(job[w].req)}]
      BY <1>7, <2>2 DEF InsertAccount
    <3>2. tx' = [tx EXCEPT ![w].accounts = {NewAccount(job[w].req)}] =>
            tx'[w].accounts = {NewAccount(job[w].req)}
      BY <1>1 DEF TypeInv, TypeOK, TablesTypeOK, Writes
    <3> QED  BY <1>3, <1>5, <2>2, <3>1, <3>2
  <2> QED  BY <2>1, <2>2
<1>8. CASE InsertMigrated(w)
  <2>1. \/ Abort(w, Status(500))
        \/ /\ Goto(w, "commit")
           /\ tx' = [tx EXCEPT ![w].migrated = {job[w].req.acct}]
    BY <1>8 DEF InsertMigrated, SeedId
  <2>2. tx[w].accounts = {NewAccount(job[w].req)}
    BY <1>8 DEF InsertMigrated, DeviceInv, WalletInv, StagedOK, InTx, AnswerInv
  <2>3. tx' = [tx EXCEPT ![w].migrated = {job[w].req.acct}] =>
          tx'[w].accounts = tx[w].accounts /\ tx'[w].migrated = {job[w].req.acct}
    BY <1>1 DEF TypeInv, TypeOK, TablesTypeOK, Writes
  <2> QED  BY <1>3, <1>5, <2>1, <2>2, <2>3
<1> QED  BY <1>6, <1>7, <1>8

----------------------------------------------------------------------------
(***************************************************************************)
(* AnswerInv is inductive.                                                 *)
(***************************************************************************)
LEMMA WorksStepOK ==
  ASSUME AnswerInv, NEW w \in Workers, Works(w)
  PROVE  StepOK(w)
BY FindsStep, PrimaryStep, RegisterStep, ReadPrimaryStep, GetDeviceStep, RevokeReadStep,
   RevokeUpdateStep, LookupStep, ListReadStep, ListStep, ListV2Step, AddStep, CommitStep,
   CheckStep, TxAddStep, InsertStep, FaultsStep
   DEF Works

\* A row is revoked, or live.
LEMMA NotBoth ==
  ASSUME DeviceInv, NEW id, RevokedRow(id)
  PROVE  ~LiveRow(id)
BY DEF RevokedRow, LiveRow, DeviceInv, RowsOK, UniqueIds

LEMMA ToldRow ==
  ASSUME AnswerInv, NEW v \in Workers, job[v].resp.code = 204
  PROVE  job[v].pc = "answer" /\ RevokedRow(job[v].resp.dev)
<1>1. job[v].pc = "answer"
  BY StatusFields DEF AnswerInv, AnswersOK, ProgressOK
<1> QED  BY <1>1 DEF AnswerInv, AnswersOK, AnswerOK, GoodAnswer, Told

LEMMA WorksAnswers ==
  ASSUME AnswerInv, DeviceInv', Kept, NEW w \in Workers, Works(w)
  PROVE  AnswersOK'
<1>1. TypeInv /\ DeviceInv
  BY DEF AnswerInv, DeviceInv, WalletInv
<1>2. SameRequest(w) /\ acked' = acked /\ StepOK(w)
  BY <1>1, WorksSame, WorksKeep, WorksStepOK
<1>3. \A v \in Others(w) : tx'[v] = tx[v] /\ job'[v] = job[v] /\ v \in Workers
  BY <1>1, <1>2, WorksShape DEF Reading, Stores, Revokes, SameRequest, Others
<1>4. \A id \in acked' : RevokedRow(id)'
  BY <1>2, RevokedStays DEF AnswerInv, AnswersOK, Kept
<1>5. PastOK(w)'
  BY <1>2 DEF AnswerInv, AnswersOK, PastOK, SameRequest, Kept, AccountsKept
<1>6. \A v \in Others(w) : PastOK(v)' /\ ProgressOK(v)' /\ AnswerOK(v)'
  BY <1>3, OthersKept
<1>7. ASSUME NEW v \in Workers, job'[v].resp.code = 204
      PROVE  /\ job'[v].resp.dev \notin acked'
             /\ \A u \in Others(v) : job'[u].resp.code = 204 => job'[u].resp.dev # job'[v].resp.dev
  <2>1. ASSUME NEW u \in Others(w), job'[u].resp.code = 204
        PROVE  RevokedRow(job'[u].resp.dev)
    BY <1>3, <2>1, ToldRow
  <2>2. CASE v = w
    <3>1. LiveRow(job'[w].resp.dev)
      BY <1>2, <1>7, <2>2 DEF StepOK, Promises
    <3>2. job'[w].resp.dev \notin acked
      BY <1>1, <3>1, NotBoth DEF AnswerInv, AnswersOK
    <3>3. \A u \in Others(w) : job'[u].resp.code = 204 => job'[u].resp.dev # job'[w].resp.dev
      BY <1>1, <2>1, <3>1, NotBoth
    <3> QED  BY <1>2, <2>2, <3>2, <3>3
  <2>3. CASE v # w
    <3>1. v \in Others(w) /\ job'[v] = job[v]
      BY <1>3, <2>3 DEF Others
    <3>2. job'[v].resp.dev \notin acked'
      BY <1>2, <1>7, <3>1 DEF AnswerInv, AnswersOK, OneRevokeWins
    <3>3. ASSUME NEW u \in Others(v), job'[u].resp.code = 204
          PROVE  job'[u].resp.dev # job'[v].resp.dev
      <4>1. CASE u = w
        <5>1. LiveRow(job'[w].resp.dev)
          BY <1>2, <3>3, <4>1 DEF StepOK, Promises
        <5>2. RevokedRow(job'[v].resp.dev)
          BY <1>7, <2>1, <3>1
        <5> QED  BY <1>1, <4>1, <5>1, <5>2, NotBoth
      <4>2. CASE u # w
        <5>1. u \in Others(w) /\ job'[u] = job[u]
          BY <1>3, <4>2 DEF Others
        <5> QED  BY <1>7, <3>1, <3>3, <5>1 DEF AnswerInv, AnswersOK, OneRevokeWins
      <4> QED  BY <4>1, <4>2
    <3> QED  BY <3>2, <3>3
  <2> QED  BY <2>2, <2>3
<1>8. OneRevokeWins'
  BY <1>7 DEF OneRevokeWins, Others
<1> QED  BY <1>2, <1>4, <1>5, <1>6, <1>8 DEF AnswersOK, StepOK, Others

\* Every job stays as it is, or becomes one that has promised nothing.
LEMMA QuietAnswers ==
  ASSUME AnswerInv, DeviceInv', Kept, acked' = acked,
         \A v \in Workers :
           \/ job'[v] = job[v] /\ tx'[v] = tx[v]
           \/ /\ job'[v].resp = Status(0) /\ job'[v].pc \in {"idle", "start"}
              /\ job'[v].found = None /\ PastOK(v)'
  PROVE  AnswersOK'
<1>1. \A id \in acked' : RevokedRow(id)'
  BY RevokedStays DEF AnswerInv, AnswersOK, Kept
<1>2. ASSUME NEW v \in Workers PROVE PastOK(v)' /\ ProgressOK(v)' /\ AnswerOK(v)'
  <2>1. CASE job'[v] = job[v] /\ tx'[v] = tx[v]
    BY <2>1, OthersKept
  <2>2. CASE /\ job'[v].resp = Status(0) /\ job'[v].pc \in {"idle", "start"}
             /\ job'[v].found = None /\ PastOK(v)'
    BY <2>2 DEF ProgressOK, AnswerOK, InTx
  <2> QED  BY <2>1, <2>2
<1>3. \A v \in Workers : job'[v].resp.code = 204 => job'[v] = job[v]
  BY StatusFields
<1>4. OneRevokeWins'
  BY <1>3 DEF AnswerInv, AnswersOK, OneRevokeWins, Others
<1> QED  BY <1>1, <1>2, <1>4 DEF AnswersOK

LEMMA NoJobPromises ==
  ASSUME NEW v, job'[v] = NoJob
  PROVE  /\ job'[v].resp = Status(0) /\ job'[v].pc = "idle" /\ job'[v].found = None
         /\ PastOK(v)'
BY DEF NoJob, PastOK

LEMMA ReceiveAnswers ==
  ASSUME AnswerInv, DeviceInv', Kept, NEW w \in Workers, Receive(w)
  PROVE  AnswersOK'
<1>1. TypeInv
  BY DEF AnswerInv, DeviceInv, WalletInv
<1>2. /\ job'[w].pc = "start" /\ job'[w].found = None /\ job'[w].resp = Status(0)
      /\ job'[w].past = [acked |-> acked, held |-> {a.addr : a \in accounts}]
      /\ \A v \in Others(w) : job'[v] = job[v]
      /\ UNCHANGED <<acked, accounts, tx>>
  BY <1>1, ReceiveJob DEF tables, env
<1>3. job'[w].past.acked = acked /\ job'[w].past.held = {a.addr : a \in accounts}
  BY <1>2
<1>4. PastOK(w)'
  BY <1>2, <1>3 DEF PastOK
<1> QED  BY <1>2, <1>4, QuietAnswers DEF Others

LEMMA RespondAnswers ==
  ASSUME AnswerInv, DeviceInv', Kept, NEW w \in Workers, Respond(w)
  PROVE  AnswersOK'
<1>1. TypeInv
  BY DEF AnswerInv, DeviceInv, WalletInv
<1>2. /\ job[w].pc = "answer" /\ job'[w] = NoJob /\ tx' = tx
      /\ \A v \in Others(w) : job'[v] = job[v] /\ v \in Workers
  BY <1>1, RespondJob DEF Respond, Others
<1>3. \/ acked' = acked
      \/ job[w].resp.code = 204 /\ acked' = acked \cup {job[w].resp.dev}
  BY DEF Respond
<1>4. \A id \in acked' : RevokedRow(id)
  BY <1>3, ToldRow DEF AnswerInv, AnswersOK
<1>5. \A id \in acked' : RevokedRow(id)'
  BY <1>4, RevokedStays DEF Kept
<1>6. \A v \in Others(w) : PastOK(v)' /\ ProgressOK(v)' /\ AnswerOK(v)'
  BY <1>2, OthersKept
<1>7. PastOK(w)' /\ ProgressOK(w)' /\ AnswerOK(w)'
  BY <1>2, NoJobPromises DEF ProgressOK, AnswerOK, InTx
<1>8. OneRevokeWins'
  <2>1. job'[w].resp.code # 204
    BY <1>2, NoJobPromises, StatusFields
  <2>2. ASSUME NEW v \in Others(w), job[v].resp.code = 204
        PROVE  job[v].resp.dev \notin acked'
    <3>1. v \in Workers /\ w \in Others(v)
      BY DEF Others
    <3> QED  BY <1>3, <2>2, <3>1 DEF AnswerInv, AnswersOK, OneRevokeWins
  <2> QED  BY <1>2, <2>1, <2>2 DEF AnswerInv, AnswersOK, OneRevokeWins, Others
<1> QED  BY <1>5, <1>6, <1>7, <1>8 DEF AnswersOK, Others

LEMMA AnswersStep == AnswerInv /\ [Next]_vars => AnswerInv'
<1> SUFFICES ASSUME AnswerInv, [Next]_vars PROVE AnswerInv'
  OBVIOUS
<1>1. DeviceInv' /\ Kept
  BY DevicesStep, StepKeeps DEF AnswerInv
<1>2. CASE UNCHANGED vars \/ Boot \/ MoveCiphertext \/ SoftDeleteAccount
  <2>1. UNCHANGED <<job, tx, acked>>
    BY <1>2 DEF vars, env, Boot, MoveCiphertext, SoftDeleteAccount
  <2> QED  BY <1>1, <2>1, QuietAnswers DEF AnswerInv
<1>3. CASE Crash
  <2>1. acked' = acked /\ \A v \in Workers : job'[v] = NoJob
    BY <1>3 DEF Crash
  <2> QED  BY <1>1, <2>1, NoJobPromises, QuietAnswers DEF AnswerInv
<1>4. ASSUME NEW w \in Workers, Receive(w) \/ Respond(w) \/ Works(w)
      PROVE  AnswerInv'
  BY <1>1, <1>4, ReceiveAnswers, RespondAnswers, WorksAnswers DEF AnswerInv
<1> QED  BY <1>2, <1>3, <1>4 DEF Next, Handle, Works

LEMMA AnswersInit == Init => AnswerInv
<1> SUFFICES ASSUME Init PROVE AnswersOK
  BY DevicesInit DEF AnswerInv
<1>1. acked = {} /\ \A v \in Workers : job[v] = NoJob
  BY DEF Init
<1>2. \A v \in Workers : /\ job[v].resp = Status(0) /\ job[v].pc = "idle"
                         /\ job[v].past.acked = {} /\ job[v].past.held = {}
  BY <1>1 DEF NoJob
<1>3. \A v \in Workers : PastOK(v) /\ ProgressOK(v) /\ AnswerOK(v)
  BY <1>2 DEF PastOK, ProgressOK, AnswerOK, InTx
<1>4. OneRevokeWins
  BY <1>2, StatusFields DEF OneRevokeWins
<1> QED  BY <1>1, <1>3, <1>4 DEF AnswersOK

LEMMA AnswersInvariant == Spec => []AnswerInv
BY AnswersInit, AnswersStep, PTL DEF Spec

\* What an answer says is read off the job, whatever its place.
LEMMA AnswersAreGood ==
  ASSUME AnswerInv, NEW w \in Workers
  PROVE  \/ GoodAnswer(job[w].req, job[w].resp, job[w].past)
         \/ job[w].pc # "answer" /\ job[w].resp.share = None
BY StatusFields DEF AnswerInv, AnswersOK, AnswerOK, ProgressOK

----------------------------------------------------------------------------
(***************************************************************************)
(* Receipts: what a client was told is stored stays stored, and can be     *)
(* read with the key of the process that told it.                          *)
(***************************************************************************)
SealedUnder(d, k) == d.share.fmt = "v2" /\ d.share.sealed = d.id /\ d.share.key = k

\* The rows that receipt t names are there; and its key reads the share, unless the
\* device was revoked or an operator came.
Stored(t) ==
  /\ \E a \in accounts, d \in devices :
       /\ a.id = t.acct /\ a.subj = t.subj
       /\ d.id = t.dev /\ d.signer = a.signer
       /\ d.revoked \/ interventions > 0 \/ SealedUnder(d, t.key)
  /\ t.seeded => t.acct \in migrated

\* No request outlives its process: what w is about to commit is sealed with the
\* key it will report, and what it is about to promise is stored.
ServedOK(w) ==
  /\ server # "serving" => job[w].pc = "idle"
  /\ \A d \in tx[w].devices : d.share.key = key
  /\ job[w].pc = "answer" /\ Promises(w) => Stored(ReceiptOf(w))

ReceiptsOK ==
  /\ \A t \in receipts : Stored(t)
  /\ \A w \in Workers : ServedOK(w)

ReceiptInv == AnswerInv /\ ReceiptsOK

\* Operators come, and are counted.
LEMMA Interventions ==
  ASSUME DeviceInv, [Next]_vars
  PROVE  interventions \in Nat /\ interventions' \in {interventions, interventions + 1}
<1>1. interventions \in Nat
  BY BoundsAssumption DEF DeviceInv, WalletInv, TypeInv, TypeOK
<1>2. CASE UNCHANGED vars \/ Crash \/ Boot \/ MoveCiphertext \/ SoftDeleteAccount
           \/ \E w \in Workers : Receive(w) \/ Respond(w)
  BY <1>1, <1>2 DEF vars, env, Crash, Boot, MoveCiphertext, SoftDeleteAccount, Receive, Respond
<1>3. ASSUME NEW w \in Workers, Works(w)
      PROVE  interventions' = interventions
  BY <1>3, WorksShape DEF Reading, Stores, Revokes
<1> QED  BY <1>1, <1>2, <1>3 DEF Next, Handle, Works

LEMMA StoredKept ==
  ASSUME Kept, NEW t, Stored(t),
         interventions \in Nat, interventions' \in {interventions, interventions + 1}
  PROVE  Stored(t)'
<1>1. PICK a \in accounts, d \in devices :
        /\ a.id = t.acct /\ a.subj = t.subj
        /\ d.id = t.dev /\ d.signer = a.signer
        /\ d.revoked \/ interventions > 0 \/ SealedUnder(d, t.key)
  BY DEF Stored
<1>2. PICK b \in accounts' : b.id = a.id /\ b.subj = a.subj /\ b.signer = a.signer
  BY DEF Kept, AccountsKept
<1>3. PICK e \in devices' : KeepsRow(d, e)
  BY DEF Kept, KeepsRows
<1>4. e.id = d.id /\ e.signer = d.signer
  BY <1>3 DEF KeepsRow
<1>5. e.revoked \/ interventions' > 0 \/ SealedUnder(e, t.key)
  <2>1. CASE d.revoked \/ e.revoked
    BY <1>3, <2>1 DEF KeepsRow
  <2>2. CASE interventions > 0 \/ interventions' # interventions
    BY <2>2
  <2>3. CASE SealedUnder(d, t.key) /\ e.share = d.share
    BY <1>4, <2>3 DEF SealedUnder
  <2> QED  BY <1>1, <1>3, <2>1, <2>2, <2>3 DEF KeepsRow
<1>6. t.seeded => t.acct \in migrated'
  BY DEF Stored, Kept
<1> QED  BY <1>1, <1>2, <1>4, <1>5, <1>6 DEF Stored, SealedUnder

\* The promise of w outlives the steps of the others.
LEMMA PromiseKept ==
  ASSUME Kept, NEW w \in Workers, ServedOK(w), job'[w] = job[w], key' = key,
         interventions \in Nat, interventions' \in {interventions, interventions + 1},
         job[w].pc = "answer", Promises(w)
  PROVE  Stored(ReceiptOf(w))'
<1>1. PICK t : t = ReceiptOf(w)
  OBVIOUS
<1>2. Stored(t)'
  BY <1>1, StoredKept DEF ServedOK
<1> QED  BY <1>1, <1>2 DEF Stored, SealedUnder, ReceiptOf

\* What w stages is sealed with the key of its process.
LEMMA StagedUnderKey ==
  ASSUME DeviceInv, NEW w \in Workers, ServedOK(w), Works(w)
  PROVE  \A d \in tx'[w].devices : d.share.key = key'
<1>1. TypeInv /\ key' = key
  <2>1. key' = key
    BY WorksShape DEF Reading, Stores, Revokes
  <2> QED  BY <2>1 DEF DeviceInv, WalletInv
<1>2. CASE TxAddDevice(w)
  <2>1. tx'[w].devices = {Secondary(w)}
    BY <1>1, <1>2 DEF TxAddDevice, TypeInv, TypeOK, TablesTypeOK, Writes
  <2> QED  BY <1>1, <2>1 DEF Secondary, newDevice, encryptShare
<1>3. CASE InsertPrimaryDevice(w)
  <2> DEFINE r == job[w].req
  <2>1. tx'[w].devices = {newDevice(r.dev, Submitted(r, StoredAddress(r)), r.signer, TRUE)}
    BY <1>1, <1>3 DEF InsertPrimaryDevice, TypeInv, TypeOK, TablesTypeOK, Writes
  <2> QED  BY <1>1, <2>1 DEF newDevice, encryptShare
<1>4. CASE ~(TxAddDevice(w) \/ InsertPrimaryDevice(w))
  <2>1. tx'[w].devices = tx[w].devices \/ tx'[w].devices = {}
    <3>1. CASE Reads(w) \/ AddDevice(w) \/ AddDeviceReplyLost(w)
               \/ ReadPrimary(w) \/ GetDevice(w) \/ GetSignerV2(w) \/ ListAccountsV2(w)
               \/ ListDevicesRead(w) \/ ListDevicesV2(w) \/ ReadMigrated(w)
               \/ RevokeDeviceV2(w) \/ ListDevices(w) \/ RevokeUpdate(w) \/ RevokeReplyLost(w)
      BY <3>1 DEF Reads, RegisterDeviceV2, CreateDevice, AddDevice, AddDeviceReplyLost,
         RecoverDeviceV2, InitDevice, GetPrimaryDevice, ReadPrimary, GetDevice,
         RevokeDeviceV2, RevokeUpdate, RevokeReplyLost, RegisterDevice, GetSignerV2,
         ListAccountsV2, ListDevices, ListDevicesRead, ListDevicesV2,
         GetMigratedAccountData, ReadMigrated, ReadAccount, Query, ServeShare
    <3>2. CASE CreateDeviceV2(w) \/ ImportShare(w) \/ InsertSigner(w)
               \/ InsertAccount(w) \/ InsertMigrated(w)
      BY <1>1, <3>2 DEF CreateDeviceV2, ImportShare, CheckAddress, InsertSigner,
         InsertAccount, InsertMigrated, Abort, NoWrites, TypeInv, TypeOK, TablesTypeOK, Writes
    <3>3. CASE Commit(w) \/ CommitReplyLost(w) \/ DbFails(w)
      BY <1>1, <3>3 DEF Commit, CommitReplyLost, DbFails, Publish, Abort, NoWrites, TypeInv,
         TypeOK, TablesTypeOK
    <3> QED  BY <1>4, <3>1, <3>2, <3>3 DEF Works, Reads, ReplyLost
  <2> QED  BY <1>1, <2>1 DEF ServedOK
<1> QED  BY <1>2, <1>3, <1>4

\* What w answers it has stored, under its key.
LEMMA PromiseStored ==
  ASSUME ReceiptInv, AnswerInv', NEW w \in Workers, Works(w),
         job'[w].pc = "answer", Promises(w)'
  PROVE  Stored(ReceiptOf(w))'
<1>1. DeviceInv /\ TypeInv /\ StepOK(w) /\ ServedOK(w)
  BY WorksStepOK DEF ReceiptInv, ReceiptsOK, AnswerInv, DeviceInv, WalletInv
<1>2. PICK r, a : r = job'[w].req /\ a = job'[w].resp
  OBVIOUS
<1>3. r.op \in Mints /\ a.code \in {200, 201}
  BY <1>2 DEF Promises, Mints
<1>4. Durable(r, a)'
  BY <1>2 DEF AnswerInv, AnswersOK, AnswerOK, GoodAnswer
<1>5. PICK acc \in accounts', d \in devices' :
        acc.id = a.acct /\ acc.subj = r.subj /\ d.id = a.dev /\ d.signer = acc.signer
  BY <1>3, <1>4 DEF Durable
<1>6. AddDevice(w) \/ Commit(w)
  BY <1>1 DEF StepOK
<1>7. \E e \in devices' : e.id = a.dev /\ SealedUnder(e, key')
  <2>1. CASE AddDevice(w)
    <3>1. a = Added(w) /\ key' = key /\ devices' = devices \cup {Secondary(w)}
      BY <1>1, <1>2, <2>1, ReplySame DEF AddDevice, env
    <3>2. a.dev = job[w].req.dev
      BY <3>1 DEF Added, Named
    <3>3. Secondary(w).id = job[w].req.dev /\ SealedUnder(Secondary(w), key)
      BY DEF Secondary, newDevice, encryptShare, SealedUnder
    <3> QED  BY <3>1, <3>2, <3>3 DEF SealedUnder
  <2>2. CASE Commit(w)
    <3>1. /\ job[w].pc = "commit" /\ a = Opened(w) /\ key' = key
          /\ devices' = devices \cup tx[w].devices
      BY <1>1, <1>2, <2>2, ReplySame DEF Commit, Publish, env
    <3>2. a.dev = job[w].req.dev
      BY <3>1 DEF Opened, Named
    <3>3. PICK e : e \in tx[w].devices
      BY <1>1, <3>1 DEF DeviceInv, WalletInv, StagedOK, StagesPrimary, InTx
    <3>4. RowFor(e, job[w].req) /\ e.share.key = key
      BY <1>1, <3>3 DEF DeviceInv, RequestsOK, StagedRows, ServedOK
    <3>5. e.id = job[w].req.dev /\ SealedUnder(e, key)
      BY <3>4 DEF RowFor, SealedUnder
    <3> QED  BY <3>1, <3>2, <3>3, <3>5 DEF SealedUnder
  <2> QED  BY <1>6, <2>1, <2>2
<1>8. SealedUnder(d, key')
  BY <1>5, <1>7 DEF AnswerInv, DeviceInv, RowsOK, UniqueIds
<1>9. PICK t : t = ReceiptOf(w)'
  OBVIOUS
<1>10. t.subj = r.subj /\ t.acct = a.acct /\ t.dev = a.dev /\ t.key = key'
       /\ t.seeded = (r.op = "import")
  BY <1>2, <1>9 DEF ReceiptOf
<1>11. Stored(t)'
  <2>1. t.seeded => t.acct \in migrated'
    BY <1>3, <1>4, <1>10 DEF Durable
  <2>2. /\ acc.id = t.acct /\ acc.subj = t.subj
        /\ d.id = t.dev /\ d.signer = acc.signer /\ SealedUnder(d, t.key)
    BY <1>5, <1>8, <1>10
  <2> QED  BY <2>1, <2>2 DEF Stored, SealedUnder
<1> QED  BY <1>9, <1>11 DEF Stored, SealedUnder

LEMMA WorksReceipts ==
  ASSUME ReceiptInv, AnswerInv', [Next]_vars, NEW w \in Workers, Works(w)
  PROVE  ReceiptsOK'
<1>1. DeviceInv /\ TypeInv /\ Kept
  BY StepKeeps DEF ReceiptInv, AnswerInv, DeviceInv, WalletInv
<1>2. interventions \in Nat /\ interventions' \in {interventions, interventions + 1}
  BY <1>1, Interventions
<1>3. /\ SameRequest(w) /\ UNCHANGED <<server, key>>
      /\ \A v \in Others(w) : tx'[v] = tx[v] /\ job'[v] = job[v] /\ v \in Workers
  BY <1>1, WorksShape DEF Reading, Stores, Revokes, SameRequest, Others
<1>4. receipts' = receipts
  BY DEF Works, RegisterDeviceV2, CreateDevice, AddDevice, RecoverDeviceV2, InitDevice,
     GetPrimaryDevice, ReadPrimary, GetDevice, RevokeDeviceV2, RevokeUpdate,
     CreateDeviceV2, ImportShare, RegisterDevice, TxAddDevice, InsertSigner,
     InsertPrimaryDevice, InsertAccount, InsertMigrated, Commit, GetSignerV2,
     ListAccountsV2, ListDevices, ListDevicesRead, ListDevicesV2, GetMigratedAccountData,
     ReadMigrated, DbFails, ReplyLost, AddDeviceReplyLost, RevokeReplyLost,
     CommitReplyLost, ReadAccount, Query, ServeShare, CheckAddress, env
<1>5. \A t \in receipts' : Stored(t)'
  BY <1>1, <1>2, <1>4, StoredKept DEF ReceiptInv, ReceiptsOK
<1>6. ServedOK(w)'
  <2>1. server' # "serving" => job'[w].pc = "idle"
    BY <1>3 DEF ReceiptInv, ReceiptsOK, ServedOK, SameRequest
  <2>2. \A d \in tx'[w].devices : d.share.key = key'
    BY <1>1, StagedUnderKey DEF ReceiptInv, ReceiptsOK
  <2> QED  BY <2>1, <2>2, PromiseStored DEF ServedOK
<1>7. ASSUME NEW v \in Others(w) PROVE ServedOK(v)'
  <2>1. ServedOK(v) /\ v \in Workers
    BY <1>3 DEF ReceiptInv, ReceiptsOK
  <2>2. job'[v].pc = "answer" /\ Promises(v)' => Stored(ReceiptOf(v))'
    BY <1>1, <1>2, <1>3, <2>1, PromiseKept DEF Promises
  <2> QED  BY <1>3, <2>1, <2>2 DEF ServedOK
<1> QED  BY <1>5, <1>6, <1>7 DEF ReceiptsOK, Others

\* The steps of the others: a job stays, its process serving on with the same key,
\* or it has promised nothing and has nothing staged.
LEMMA QuietReceipts ==
  ASSUME ReceiptInv, [Next]_vars, \A t \in receipts' : t \in receipts \/ Stored(t),
         \A v \in Workers :
           \/ job'[v] = job[v] /\ tx'[v] = tx[v] /\ UNCHANGED <<server, key>>
           \/ /\ server' # "serving" => job'[v].pc = "idle"
              /\ job'[v].pc # "answer" /\ tx'[v].devices = {}
  PROVE  ReceiptsOK'
<1>1. DeviceInv /\ Kept
  BY StepKeeps DEF ReceiptInv, AnswerInv
<1>2. interventions \in Nat /\ interventions' \in {interventions, interventions + 1}
  BY <1>1, Interventions
<1>3. \A t \in receipts' : Stored(t)'
  BY <1>1, <1>2, StoredKept DEF ReceiptInv, ReceiptsOK
<1>4. ASSUME NEW v \in Workers PROVE ServedOK(v)'
  <2>1. ServedOK(v)
    BY DEF ReceiptInv, ReceiptsOK
  <2>2. CASE job'[v] = job[v] /\ tx'[v] = tx[v] /\ UNCHANGED <<server, key>>
    <3>1. job'[v].pc = "answer" /\ Promises(v)' => Stored(ReceiptOf(v))'
      BY <1>1, <1>2, <2>1, <2>2, PromiseKept DEF Promises
    <3> QED  BY <2>1, <2>2, <3>1 DEF ServedOK
  <2>3. CASE ~(job'[v] = job[v] /\ tx'[v] = tx[v] /\ UNCHANGED <<server, key>>)
    BY <2>3 DEF ServedOK
  <2> QED  BY <2>2, <2>3
<1> QED  BY <1>3, <1>4 DEF ReceiptsOK

LEMMA ReceiptsStep == ReceiptInv /\ [Next]_vars => ReceiptInv'
<1> SUFFICES ASSUME ReceiptInv, [Next]_vars PROVE ReceiptInv'
  OBVIOUS
<1>1. AnswerInv' /\ TypeInv /\ DeviceInv
  BY AnswersStep DEF ReceiptInv, AnswerInv, DeviceInv, WalletInv
<1>2. \A v \in Workers : job[v].pc = "idle" => tx[v].devices = {}
  BY <1>1 DEF DeviceInv, WalletInv, StagedOK, InTx, NoWrites
<1>3. CASE UNCHANGED vars \/ MoveCiphertext \/ SoftDeleteAccount
  <2>1. UNCHANGED <<job, tx, server, key, receipts>>
    BY <1>3 DEF vars, env, MoveCiphertext, SoftDeleteAccount
  <2> QED  BY <1>1, <2>1, QuietReceipts DEF ReceiptInv
<1>4. CASE Crash
  <2>1. /\ receipts' = receipts
        /\ \A v \in Workers : job'[v].pc = "idle" /\ tx'[v].devices = {}
    BY <1>4 DEF Crash, NoJob, NoWrites
  <2> QED  BY <1>1, <2>1, QuietReceipts DEF ReceiptInv
<1>5. CASE Boot
  <2>1. UNCHANGED <<job, tx, receipts>> /\ server # "serving"
    BY <1>5 DEF Boot
  <2>2. \A v \in Workers : job'[v].pc = "idle" /\ tx'[v].devices = {}
    BY <1>2, <2>1 DEF ReceiptInv, ReceiptsOK, ServedOK
  <2> QED  BY <1>1, <2>1, <2>2, QuietReceipts DEF ReceiptInv
<1>6. ASSUME NEW w \in Workers, Receive(w) PROVE ReceiptInv'
  <2>1. /\ job[w].pc = "idle" /\ job'[w].pc = "start" /\ server = "serving"
        /\ \A v \in Others(w) : job'[v] = job[v]
        /\ UNCHANGED <<tx, server, key, receipts>>
    BY <1>1, <1>6, ReceiveJob DEF Receive, env
  <2> QED  BY <1>1, <1>2, <2>1, QuietReceipts DEF ReceiptInv, Others
<1>7. ASSUME NEW w \in Workers, Respond(w) PROVE ReceiptInv'
  <2>1. /\ job[w].pc = "answer" /\ job'[w] = NoJob
        /\ \A v \in Others(w) : job'[v] = job[v]
        /\ UNCHANGED <<tx, server, key>>
        /\ receipts' = IF Promises(w) THEN receipts \cup {ReceiptOf(w)} ELSE receipts
    BY <1>1, <1>7, RespondJob DEF Respond
  <2>2. tx[w].devices = {}
    BY <1>1, <2>1 DEF DeviceInv, WalletInv, StagedOK, InTx, NoWrites
  <2>3. \A t \in receipts' : t \in receipts \/ Stored(t)
    BY <2>1 DEF ReceiptInv, ReceiptsOK, ServedOK
  <2> QED  BY <1>1, <2>1, <2>2, <2>3, NoJobType, QuietReceipts DEF ReceiptInv, Others
<1>8. ASSUME NEW w \in Workers, Works(w) PROVE ReceiptInv'
  BY <1>1, <1>8, WorksReceipts DEF ReceiptInv
<1> QED  BY <1>3, <1>4, <1>5, <1>6, <1>7, <1>8 DEF Next, Handle, Works

LEMMA ReceiptsInit == Init => ReceiptInv
<1> SUFFICES ASSUME Init PROVE ReceiptsOK
  BY AnswersInit DEF ReceiptInv
<1>1. receipts = {} /\ \A w \in Workers : job[w].pc = "idle" /\ tx[w].devices = {}
  BY DEF Init, NoJob, NoWrites
<1> QED  BY <1>1 DEF ReceiptsOK, ServedOK

LEMMA ReceiptsInvariant == Spec => []ReceiptInv
BY ReceiptsInit, ReceiptsStep, PTL DEF Spec

\* A share sealed for the row it is in is the one its owner submitted for it.
LEMMA SealedIsOwn ==
  ASSUME DeviceInv, NEW a \in accounts, NEW d \in devices, d.signer = a.signer,
         d.share.fmt = "v2", d.share.sealed = d.id
  PROVE  d.share.secret = [by |-> a.subj, addr |-> a.addr, dev |-> d.id]
<1>1. RowOK(d)
  BY DEF DeviceInv, RowsOK
<1>2. PICK e \in devices : /\ e.id = d.share.sealed
                           /\ Held(e.signer, d.share.secret.by, d.share.secret.addr)
  BY <1>1 DEF RowOK, SealedOK
<1>3. e = d
  BY <1>2 DEF DeviceInv, RowsOK, UniqueIds
<1>4. PICK b \in accounts : /\ b.signer = d.signer
                            /\ b.subj = d.share.secret.by /\ b.addr = d.share.secret.addr
  BY <1>2, <1>3 DEF Held
<1>5. b = a
  BY <1>4 DEF DeviceInv, WalletInv, StoredOK, OneAccountPerKey
<1>6. d.share.secret \in Secret /\ d.share.secret.dev = d.id
  BY <1>1 DEF RowOK, SealedOK
<1> QED  BY <1>4, <1>5, <1>6 DEF Secret

----------------------------------------------------------------------------
\* Of all the callers that revoke a device at once, retry or come later, one at
\* most is told that it did.
THEOREM RevocationIsWonOnce == Spec => []OneRevokeWins
<1>1. AnswerInv => OneRevokeWins
  BY DEF AnswerInv, AnswersOK
<1> QED  BY <1>1, AnswersInvariant, PTL

\* No handler answers success before its rows are committed, or names others than
\* those it committed; and what one client was told no later request, fault, crash or
\* restart takes back, up to its own revocation or an operator's hand.
THEOREM SuccessStays == Spec => []SuccessIsDurable
<1>1. ASSUME ReceiptInv, NEW t \in receipts
      PROVE  /\ \E a \in accounts, d \in devices :
                  /\ a.id = t.acct /\ a.subj = t.subj
                  /\ d.id = t.dev /\ d.signer = a.signer
                  /\ \/ d.revoked \/ interventions > 0
                     \/ d.share.secret = [by |-> t.subj, addr |-> a.addr, dev |-> d.id]
             /\ t.seeded => t.acct \in migrated
  <2>1. Stored(t) /\ DeviceInv
    BY <1>1 DEF ReceiptInv, ReceiptsOK, AnswerInv
  <2>2. PICK a \in accounts, d \in devices :
          /\ a.id = t.acct /\ a.subj = t.subj
          /\ d.id = t.dev /\ d.signer = a.signer
          /\ d.revoked \/ interventions > 0 \/ SealedUnder(d, t.key)
    BY <2>1 DEF Stored
  <2>3. SealedUnder(d, t.key) =>
          d.share.secret = [by |-> t.subj, addr |-> a.addr, dev |-> d.id]
    BY <2>1, <2>2, SealedIsOwn DEF SealedUnder
  <2> QED  BY <2>1, <2>2, <2>3 DEF Stored
<1>2. ReceiptInv => SuccessIsDurable
  BY <1>1 DEF SuccessIsDurable
<1> QED  BY <1>2, ReceiptsInvariant, PTL

\* A process serves only when every live share is in the bound format.  Of the
\* shares that clients were told are stored it decrypts exactly those acknowledged
\* under its own key, whatever restarts and changes of the key came between.
THEOREM SharesAreReadable == Spec => []ServingIsReadable
<1>1. ASSUME ReceiptInv, server = "serving", NEW d \in devices, ~d.revoked
      PROVE  /\ d.share.fmt = "v2"
             /\ interventions = 0 =>
                  \A t \in receipts : t.dev = d.id => (Decrypts(d) <=> key = t.key)
  <2>1. DeviceInv /\ d.share.fmt = "v2"
    BY <1>1 DEF ReceiptInv, AnswerInv, DeviceInv, RowsOK, BoundFormat
  <2>2. ASSUME interventions = 0, NEW t \in receipts, t.dev = d.id
        PROVE  SealedUnder(d, t.key)
    <3>1. PICK e \in devices : e.id = t.dev /\ (e.revoked \/ SealedUnder(e, t.key))
      BY <1>1, <2>2 DEF ReceiptInv, ReceiptsOK, Stored
    <3>2. e = d
      BY <2>1, <2>2, <3>1 DEF DeviceInv, RowsOK, UniqueIds
    <3> QED  BY <1>1, <3>1, <3>2
  <2> QED  BY <2>1, <2>2 DEF SealedUnder, Decrypts
<1>2. ReceiptInv => ServingIsReadable
  BY <1>1 DEF ServingIsReadable
<1> QED  BY <1>2, ReceiptsInvariant, PTL

\* The check of the address and the insert are apart, yet an address held when
\* the request came is always answered as a conflict.
THEOREM HeldIsConflict == Spec => []HeldAddressConflicts
<1>1. AnswerInv => HeldAddressConflicts
  BY AnswersAreGood DEF HeldAddressConflicts, Answering, GoodAnswer, Conflicts
<1> QED  BY <1>1, AnswersInvariant, PTL

\* A share is served to its submitter alone, for the device and account named
\* with it, wherever its ciphertext has been moved to.
THEOREM OnlyOwnShares == Spec => []ServedShareIsOwn
<1>1. AnswerInv => ServedShareIsOwn
  BY AnswersAreGood DEF ServedShareIsOwn, GoodAnswer, ServedOwn
<1> QED  BY <1>1, AnswersInvariant, PTL

\* A share is not served to a request that came after the acknowledgement of
\* its device's revocation.
THEOREM RevokedIsHidden == Spec => []RevokedStaysHidden
<1>1. AnswerInv => RevokedStaysHidden
  BY AnswersAreGood DEF RevokedStaysHidden, GoodAnswer, ServedLive
<1> QED  BY <1>1, AnswersInvariant, PTL

\* The two reads behind GET /v1/devices never pair a device with an address of
\* another wallet, and show no device the caller knew to be revoked.
THEOREM OwnDevicesListed == Spec => []ListsOwnDevices
<1>1. AnswerInv => ListsOwnDevices
  BY AnswersAreGood DEF ListsOwnDevices, Answering, GoodAnswer, ListedOwn
<1> QED  BY <1>1, AnswersInvariant, PTL

\* GET /v2/devices never leaves out a device the caller knew to be revoked.
THEOREM RevokedDevicesListed == Spec => []ListsRevokedDevices
<1>1. AnswerInv => ListsRevokedDevices
  BY AnswersAreGood DEF ListsRevokedDevices, Answering, GoodAnswer, ListedRevoked
<1> QED  BY <1>1, AnswersInvariant, PTL

\* The read that serves a primary share finds exactly one row, and refuses it
\* only when it does not decrypt.
THEOREM FoundSharesServed == Spec => FoundIsServed
<1> DEFINE Serves ==
      \A w \in Workers :
        LET a == job'[w].resp IN
          job[w].pc = "readPrimary" /\ job'[w].pc = "answer" /\ a.cause = "handler" =>
            \/ a.code = 200 /\ a.share # None
            \/ a.code = 500 /\ \E d \in PrimaryOf(job[w].found.signer) : ~Decrypts(d)
<1>1. ASSUME AnswerInv, [Next]_vars, NEW w \in Workers,
             job[w].pc = "readPrimary", job'[w].pc = "answer",
             job'[w].resp.cause = "handler"
      PROVE  \/ job'[w].resp.code = 200 /\ job'[w].resp.share # None
             \/ /\ job'[w].resp.code = 500
                /\ \E d \in PrimaryOf(job[w].found.signer) : ~Decrypts(d)
  <2>1. TypeInv /\ DeviceInv
    BY <1>1 DEF AnswerInv, DeviceInv, WalletInv
  <2>2. job'[w] # job[w] /\ job'[w].pc # "idle"
    BY <1>1
  <2>3. ~UNCHANGED vars /\ ~Crash /\ ~Boot /\ ~MoveCiphertext /\ ~SoftDeleteAccount
    BY <2>2, NoJobType DEF vars, Crash, Boot, MoveCiphertext, SoftDeleteAccount
  <2>4. ASSUME NEW v \in Workers, Receive(v) \/ Respond(v) \/ Works(v)
        PROVE  v = w
    BY <2>1, <2>2, <2>4, ReceiveJob, RespondJob, WorksSame DEF SameRequest, Others
  <2>5. Receive(w) \/ Respond(w) \/ Works(w)
    BY <1>1, <2>3, <2>4 DEF Next, Handle, Works
  <2>6. ReadPrimary(w) \/ DbFails(w)
    BY <1>1, <2>5 DEF Receive, Respond, Works, RegisterDeviceV2, CreateDevice, AddDevice,
       RecoverDeviceV2, InitDevice, GetPrimaryDevice, GetDevice, RevokeDeviceV2,
       RevokeUpdate, CreateDeviceV2, ImportShare, RegisterDevice, TxAddDevice,
       InsertSigner, InsertPrimaryDevice, InsertAccount, InsertMigrated, Commit,
       GetSignerV2, ListAccountsV2, ListDevices, ListDevicesRead, ListDevicesV2,
       GetMigratedAccountData, ReadMigrated, ReplyLost, AddDeviceReplyLost,
       RevokeReplyLost, CommitReplyLost, At
  <2>7. ~DbFails(w)
    <3>1. SUFFICES ASSUME DbFails(w) PROVE FALSE
      OBVIOUS
    <3>2. Reply(w, Faulted(FaultCode(job[w])))
      BY <3>1 DEF DbFails, Abort, FaultAnswer
    <3>3. PICK c : c = FaultCode(job[w])
      OBVIOUS
    <3>4. job'[w].resp = Faulted(c)
      BY <1>1, <2>1, <3>2, <3>3, ReplySame
    <3> QED  BY <1>1, <3>4, StatusFields
  <2>8. PICK a \in accounts : a.signer = job[w].found.signer
    BY <1>1, <2>1 DEF DeviceInv, RequestsOK, FoundOwn
  <2>9. PrimaryOf(job[w].found.signer) # {}
    BY <2>1, <2>8 DEF DeviceInv, WalletInv, StoredOK, OnePrimary
  <2>10. PICK d \in PrimaryOf(job[w].found.signer) : ServeShare(w, d, job[w].found.id)
    BY <2>6, <2>7, <2>9 DEF ReadPrimary
  <2>11. CASE Decrypts(d)
    <3>1. PICK acct : acct = job[w].found.id
      OBVIOUS
    <3>2. Reply(w, Named(200, d.share.secret, d.id, acct))
      BY <2>10, <2>11, <3>1 DEF ServeShare, Query
    <3>3. job'[w].resp = Named(200, d.share.secret, d.id, acct)
      BY <1>1, <2>1, <3>2, ReplySame
    <3>4. d.share.secret \in Secret
      BY <2>1, <2>11, DecryptsOwn DEF PrimaryOf
    <3> QED  BY <3>3, <3>4, NamedFields, RowsAssumption
  <2>12. CASE ~Decrypts(d)
    <3>1. Reply(w, Status(500))
      BY <2>10, <2>12 DEF ServeShare, Query
    <3>2. job'[w].resp = Status(500)
      BY <1>1, <2>1, <3>1, ReplySame
    <3> QED  BY <2>12, <3>2, StatusFields
  <2> QED  BY <2>11, <2>12
<1>2. AnswerInv /\ [Next]_vars => Serves
  BY <1>1
<1> QED  BY <1>2, AnswersInvariant, PTL DEF Spec, FoundIsServed
=============================================================================
