----------------------------- MODULE HotStorage -----------------------------
(***************************************************************************)
(* The hot-storage server: its handlers, one action per SQL statement they *)
(* issue, its startup, and the failures it can meet.                       *)
(*                                                                         *)
(* job[w] is one request in flight: the goroutine net/http runs for it.    *)
(* Requests come here authenticated and decoded; those the middleware or   *)
(* a validation refuses never reach a statement.  The uuids a handler will *)
(* mint are drawn when its request arrives, where nobody can see them.     *)
(***************************************************************************)
EXTENDS ShareTables

CONSTANTS
  Ops,              \* the operations clients call
  MaxFaults,        \* bound: statements that fail, or whose reply is lost
  MaxCrashes,       \* bound: times the process dies
  MaxInterventions  \* bound: rows an operator changes by hand

ASSUME BoundsAssumption ==
  MaxFaults \in Nat /\ MaxCrashes \in Nat /\ MaxInterventions \in Nat

VARIABLES
  server,           \* "down", "refused" (startup check failed) or "serving"
  job,              \* the request each worker handles
  acked,            \* history: devices whose revocation a client was told of
  receipts,         \* history: what clients were told is stored
  faults, crashes, interventions

env == <<server, key, acked, receipts, faults, crashes, interventions>>
vars == <<tables, tx, env, job>>

----------------------------------------------------------------------------
Opens == {"createV2", "registerV1", "import"}
Adds == {"registerV2", "createDevice"}
Recovers == {"recoverV2", "init", "primary"}
AllOps == Opens \cup Adds \cup Recovers \cup
  {"getDevice", "revoke", "getSigner", "listAccounts", "listV1", "listV2",
   "migrated"}

ASSUME OpsAssumption == Ops \subseteq AllOps

Req(ops, addr, owner, chain, acct, dev, signer) ==
  [op : ops, subj : Subjects, addr : addr, owner : owner, chain : chain,
   acct : acct, dev : dev, signer : signer]

\* The requests that decode, by the fields their handlers read.
Requests ==
  LET N == {None} IN UNION {
    Req({"createV2", "registerV1"}, Addresses, N, Chains, AccountIds, DeviceIds, SignerIds),
    Req({"import"}, Addresses, N \cup Addresses, Chains, AccountIds, DeviceIds, SignerIds),
    Req(Adds, N, N, N, AccountIds, DeviceIds, N),
    Req({"recoverV2", "migrated"}, N, N, N, AccountIds, N, N),
    Req({"init"}, N, N, Chains, N, N, N),
    Req({"getDevice", "revoke"}, N, N, N, N, DeviceIds, N),
    Req({"getSigner"}, Addresses, N, N, N, N, N),
    Req({"primary", "listAccounts", "listV1", "listV2"}, N, N, N, N, N, N)}

Request ==
  LET N == {None} IN
    [op : AllOps \cup N, subj : Subjects \cup N, addr : Addresses \cup N,
     owner : Addresses \cup N, chain : Chains \cup N, acct : AccountIds \cup N,
     dev : DeviceIds \cup N, signer : SignerIds \cup N]

NoRequest ==
  [op |-> None, subj |-> None, addr |-> None, owner |-> None, chain |-> None,
   acct |-> None, dev |-> None, signer |-> None]

Entry == [id : DeviceIds \cup AccountIds, addr : Addresses \cup {None},
          revoked : BOOLEAN]

\* An answer; `cause' records whether the database failed the request.
Answer == [code : {0, 200, 201, 204, 400, 404, 409, 500},
           cause : {"handler", "database"},
           share : Secret \cup {None}, dev : DeviceIds \cup {None},
           acct : AccountIds \cup {None}, list : SUBSET Entry]

\* An answer that names a share, a device and an account.
Named(code, share, dev, acct) ==
  [code |-> code, cause |-> "handler", share |-> share, dev |-> dev,
   acct |-> acct, list |-> {}]

Status(code) == Named(code, None, None, None)
Faulted(code) == [Status(code) EXCEPT !.cause = "database"]

Places == {"idle", "start", "readPrimary", "addDevice", "txAddDevice",
           "insertSigner", "insertDevice", "insertAccount", "insertMigrated",
           "commit", "revoke", "readDevices", "readMigrated", "answer"}

\* `past' is history: what was acknowledged, and held, when the request came.
Job == [pc : Places, req : Request, found : Account \cup {None},
        row : Device \cup {None}, seen : SUBSET Account, resp : Answer,
        past : [acked : SUBSET DeviceIds, held : SUBSET Addresses]]

NoJob == [pc |-> "idle", req |-> NoRequest, found |-> None, row |-> None,
          seen |-> {}, resp |-> Status(0),
          past |-> [acked |-> {}, held |-> {}]]

\* An answer that something is stored, and the key of the process that gave it.
Receipt == [subj : Subjects, acct : AccountIds \cup {None}, dev : DeviceIds \cup {None},
            seeded : BOOLEAN, key : Keys \cup {None}]

TypeOK ==
  /\ TablesTypeOK
  /\ server \in {"down", "refused", "serving"}
  /\ job \in [Workers -> Job]
  /\ acked \subseteq DeviceIds
  /\ receipts \subseteq Receipt
  /\ faults \in 0 .. MaxFaults
  /\ crashes \in 0 .. MaxCrashes
  /\ interventions \in 0 .. MaxInterventions

----------------------------------------------------------------------------
At(w, ops, pc) == job[w].req.op \in ops /\ job[w].pc = pc

Goto(w, pc) == job' = [job EXCEPT ![w].pc = pc]

Reply(w, resp) == job' = [job EXCEPT ![w].pc = "answer", ![w].resp = resp]

\* gorm's db.First into `account': the row found, or the handler's answer.
ReadAccount(w, rows, next, missing) ==
  /\ \/ rows = {} /\ Reply(w, missing)
     \/ \E a \in rows : job' = [job EXCEPT ![w].found = a, ![w].pc = next]
  /\ UNCHANGED <<tables, tx, env>>

Query(w, resp) == Reply(w, resp) /\ UNCHANGED <<tables, tx, env>>

\* Slip: the error is answered and the transaction left open.
LeaveOpen(w, resp) == Reply(w, resp) /\ UNCHANGED tx

\* The callback of db.Transaction returns an error.
Abort(w, resp) == Reply(w, resp) /\ tx' = [tx EXCEPT ![w] = NoWrites]

Publish(w) ==
  /\ signers' = signers \cup tx[w].signers
  /\ devices' = devices \cup tx[w].devices
  /\ accounts' = accounts \cup tx[w].accounts
  /\ migrated' = migrated \cup tx[w].migrated
  /\ tx' = [tx EXCEPT ![w] = NoWrites]

\* The plaintext in a request that writes a share for the wallet at addr.
Submitted(r, addr) == [by |-> r.subj, addr |-> addr, dev |-> r.dev]

MyAccount(r) == {a \in LiveAccounts(r.subj) : a.id = r.acct}

\* accAddress of an import; req.Address everywhere else.
StoredAddress(r) == IF r.owner # None THEN r.owner ELSE r.addr

----------------------------------------------------------------------------
(***************************************************************************)
(* A request arrives.                                                      *)
(***************************************************************************)
Asked(field) == {job[v].req[field] : v \in Workers}

Fresh(r) ==
  /\ r.op \in Opens \cup Adds => r.dev \notin UsedDeviceIds \cup Asked("dev")
  /\ r.op \in {"createV2", "registerV1"} =>
       r.acct \notin UsedAccountIds \cup Asked("acct")

Receive(w) ==
  /\ server = "serving"
  /\ job[w].pc = "idle"
  /\ \E r \in Requests :
       /\ r.op \in Ops
       /\ Fresh(r)
       /\ job' = [job EXCEPT ![w] =
                   [NoJob EXCEPT !.pc = "start", !.req = r,
                                 !.past = [acked |-> acked,
                                           held |-> {a.addr : a \in accounts}]]]
  /\ UNCHANGED <<tables, tx, env>>

----------------------------------------------------------------------------
(***************************************************************************)
(* Adding a secondary device: look the account up, then an autocommit      *)
(* insert.                                                                 *)
(***************************************************************************)
RegisterDeviceV2(w) ==
  /\ At(w, {"registerV2"}, "start")
  /\ ReadAccount(w, MyAccount(job[w].req), "addDevice", Status(400))

CreateDevice(w) ==
  /\ At(w, {"createDevice"}, "start")
  /\ ReadAccount(w, MyAccount(job[w].req), "addDevice", Status(400))

\* Slip: the device is stored as a primary one.
SecondaryAsPrimary(w) ==
  LET j == job[w] IN
    newDevice(j.req.dev, Submitted(j.req, j.found.addr), j.found.signer, TRUE)

Secondary(w) ==
  LET j == job[w] IN
    newDevice(j.req.dev, Submitted(j.req, j.found.addr), j.found.signer, FALSE)

Added(w) ==
  Named(IF job[w].req.op = "createDevice" THEN 201 ELSE 200, None,
        job[w].req.dev, job[w].found.id)

AddDevice(w) ==
  /\ job[w].pc = "addDevice"
  /\ devices' = devices \cup {Secondary(w)}
  /\ Reply(w, Added(w))
  /\ UNCHANGED <<signers, accounts, migrated, tx, env>>

AddDeviceReplyLost(w) ==
  /\ job[w].pc = "addDevice"
  /\ faults < MaxFaults
  /\ faults' = faults + 1
  /\ devices' = devices \cup {Secondary(w)}
  /\ Reply(w, Faulted(500))
  /\ UNCHANGED <<signers, accounts, migrated, tx, server, key, acked, receipts,
                 crashes, interventions>>

----------------------------------------------------------------------------
(***************************************************************************)
(* Serving the primary share: two reads, with other requests in between.   *)
(***************************************************************************)
RecoverDeviceV2(w) ==
  /\ At(w, {"recoverV2"}, "start")
  /\ ReadAccount(w, MyAccount(job[w].req), "readPrimary", Status(400))

\* No account on the chain is the REGISTER answer, a 200 without a share.
InitDevice(w) ==
  /\ At(w, {"init"}, "start")
  /\ ReadAccount(w, {a \in LiveAccounts(job[w].req.subj) : a.chain = job[w].req.chain},
                 "readPrimary", Status(200))

GetPrimaryDevice(w) ==
  /\ At(w, {"primary"}, "start")
  /\ ReadAccount(w, LiveAccounts(job[w].req.subj), "readPrimary", Status(400))

NoPrimaryCode(op) ==
  CASE op = "recoverV2" -> 400
    [] op = "init" -> 500
    [] OTHER -> 404

\* decryptDeviceShare, then the share in the body of a 200.
ServeShare(w, d, acct) ==
  Query(w, IF Decrypts(d)
             THEN Named(200, d.share.secret, d.id, acct)
             ELSE Status(500))

ReadPrimary(w) ==
  /\ job[w].pc = "readPrimary"
  /\ LET rows == PrimaryOf(job[w].found.signer) IN
       IF rows = {}
         THEN Query(w, Status(NoPrimaryCode(job[w].req.op)))
         ELSE \E d \in rows : ServeShare(w, d, job[w].found.id)

GetDevice(w) ==
  /\ At(w, {"getDevice"}, "start")
  /\ LET rows == {d \in LiveOwned(job[w].req.subj) : d.id = job[w].req.dev} IN
       \/ rows = {} /\ Query(w, Status(404))
       \/ \E d \in rows : ServeShare(w, d, None)

----------------------------------------------------------------------------
(***************************************************************************)
(* Revoking a secondary device: a read, then a conditional update.         *)
(***************************************************************************)
RefusesRevoke(d) == d.primary

RevokeDeviceV2(w) ==
  /\ At(w, {"revoke"}, "start")
  /\ LET rows == {d \in LiveOwned(job[w].req.subj) : d.id = job[w].req.dev} IN
       \/ rows = {} /\ Reply(w, Status(404))
       \/ \E d \in rows :
            IF RefusesRevoke(d)
              THEN Reply(w, Status(409))
              ELSE job' = [job EXCEPT ![w].row = d, ![w].pc = "revoke"]
  /\ UNCHANGED <<tables, tx, env>>

\* Slip: the update names only the row, so a second revoke succeeds too.
RevocableById(id) == {d \in devices : d.id = id}

\* The predicate the update repeats.
Revocable(id) == {d \in devices : d.id = id /\ ~d.primary /\ ~d.revoked}

\* Slip: the empty share is skipped as a zero value.
MarkRows(rows) ==
  devices' = (devices \ rows) \cup {[d EXCEPT !.revoked = TRUE] : d \in rows}

ClearRows(rows) ==
  devices' = (devices \ rows)
             \cup {[d EXCEPT !.share = Cleared, !.revoked = TRUE] : d \in rows}

Revoked(w, rows) ==
  IF rows = {} THEN Status(404) ELSE Named(204, None, job[w].row.id, None)

RevokeUpdate(w) ==
  /\ job[w].pc = "revoke"
  /\ LET rows == Revocable(job[w].row.id) IN
       ClearRows(rows) /\ Reply(w, Revoked(w, rows))
  /\ UNCHANGED <<signers, accounts, migrated, tx, env>>

RevokeReplyLost(w) ==
  /\ job[w].pc = "revoke"
  /\ faults < MaxFaults
  /\ faults' = faults + 1
  /\ ClearRows(Revocable(job[w].row.id))
  /\ Reply(w, Faulted(500))
  /\ UNCHANGED <<signers, accounts, migrated, tx, server, key, acked, receipts,
                 crashes, interventions>>

----------------------------------------------------------------------------
(***************************************************************************)
(* Opening a wallet: one transaction that inserts the signer, the primary  *)
(* device, the account and, for an import, the migrated account data.      *)
(***************************************************************************)
CheckAddress(w, addr) ==
  /\ IF Holders(addr) # {} THEN Reply(w, Status(409)) ELSE Goto(w, "insertSigner")
  /\ UNCHANGED <<tables, tx, env>>

CreateDeviceV2(w) ==
  /\ At(w, {"createV2"}, "start")
  /\ CheckAddress(w, job[w].req.addr)

ImportShare(w) ==
  /\ At(w, {"import"}, "start")
  /\ CheckAddress(w, StoredAddress(job[w].req))

\* The subject's account on the chain at the address gets a secondary device;
\* without one the first device opens the wallet.
RegisterDevice(w) ==
  /\ At(w, {"registerV1"}, "start")
  /\ LET r == job[w].req
         rows == {a \in LiveAccounts(r.subj) : a.chain = r.chain /\ a.addr = r.addr}
     IN \/ rows = {} /\ Goto(w, "insertSigner")
        \/ \E a \in rows : job' = [job EXCEPT ![w].found = a, ![w].pc = "txAddDevice"]
  /\ UNCHANGED <<tables, tx, env>>

TxAddDevice(w) ==
  /\ job[w].pc = "txAddDevice"
  /\ tx' = [tx EXCEPT ![w].devices = {Secondary(w)}]
  /\ Goto(w, "commit")
  /\ UNCHANGED <<tables, env>>

\* Slip: inserted through db, not tx.
InsertSignerDirectly(w) ==
  LET s == job[w].req.signer IN
    /\ job[w].pc = "insertSigner"
    /\ s \notin signers
    /\ signers' = signers \cup {s}
    /\ Goto(w, "insertDevice")
    /\ UNCHANGED <<devices, accounts, migrated, tx, env>>

InsertSigner(w) ==
  LET s == job[w].req.signer IN
    /\ job[w].pc = "insertSigner"
    /\ ~SignerLocked(w, s)
    /\ IF SignerTaken(s)
         THEN Abort(w, Status(500))
         ELSE tx' = [tx EXCEPT ![w].signers = {s}] /\ Goto(w, "insertDevice")
    /\ UNCHANGED <<tables, env>>

InsertPrimaryDevice(w) ==
  LET r == job[w].req IN
    /\ job[w].pc = "insertDevice"
    /\ tx' = [tx EXCEPT ![w].devices =
               {newDevice(r.dev, Submitted(r, StoredAddress(r)), r.signer, TRUE)}]
    /\ Goto(w, "insertAccount")
    /\ UNCHANGED <<tables, env>>

NewAccount(r) ==
  [id |-> r.acct, addr |-> StoredAddress(r), subj |-> r.subj,
   chain |-> r.chain, signer |-> r.signer, deleted |-> FALSE]

\* Slip: inserted through db, not tx.
InsertAccountDirectly(w) ==
  LET a == NewAccount(job[w].req) IN
    /\ job[w].pc = "insertAccount"
    /\ ~AccountTaken(a.id, a.addr)
    /\ accounts' = accounts \cup {a}
    /\ Goto(w, IF job[w].req.op = "import" THEN "insertMigrated" ELSE "commit")
    /\ UNCHANGED <<signers, devices, migrated, tx, env>>

InsertAccount(w) ==
  LET a == NewAccount(job[w].req) IN
    /\ job[w].pc = "insertAccount"
    /\ ~AccountLocked(w, a.id, a.addr)
    /\ IF AccountTaken(a.id, a.addr)
         THEN Abort(w, Status(500))
         ELSE /\ tx' = [tx EXCEPT ![w].accounts = {a}]
              /\ Goto(w, IF job[w].req.op = "import" THEN "insertMigrated" ELSE "commit")
    /\ UNCHANGED <<tables, env>>

\* Slip: the seed is filed under the device.
SeedOfDevice(r) == r.dev

\* The id of the MigratedAccountData row.
SeedId(r) == r.acct

InsertMigrated(w) ==
  LET id == SeedId(job[w].req) IN
    /\ job[w].pc = "insertMigrated"
    /\ ~MigratedLocked(w, id)
    /\ IF id \in migrated
         THEN Abort(w, Status(500))
         ELSE tx' = [tx EXCEPT ![w].migrated = {id}] /\ Goto(w, "commit")
    /\ UNCHANGED <<tables, env>>

Opened(w) ==
  LET j == job[w] IN
    Named(IF j.req.op = "import" THEN 201 ELSE 200, None, j.req.dev,
          IF j.found = None THEN j.req.acct ELSE j.found.id)

Commit(w) ==
  /\ job[w].pc = "commit"
  /\ Publish(w)
  /\ Reply(w, Opened(w))
  /\ UNCHANGED env

\* Postgres committed, the connection died before saying so: the caller gets a
\* 500 for rows that are there.
CommitReplyLost(w) ==
  /\ job[w].pc = "commit"
  /\ faults < MaxFaults
  /\ faults' = faults + 1
  /\ Publish(w)
  /\ Reply(w, Faulted(500))
  /\ UNCHANGED <<server, key, acked, receipts, crashes, interventions>>

----------------------------------------------------------------------------
(***************************************************************************)
(* Queries.  The limit of 100 rows is above any instance checked.          *)
(***************************************************************************)
Listed(entries) == [Status(200) EXCEPT !.list = entries]

GetSignerV2(w) ==
  /\ At(w, {"getSigner"}, "start")
  /\ LET r == job[w].req
         rows == {a \in LiveAccounts(r.subj) : a.addr = r.addr}
     IN \/ rows = {} /\ Query(w, Status(400))
        \/ \E a \in rows : Query(w, Named(200, None, None, a.id))

ListAccountsV2(w) ==
  /\ At(w, {"listAccounts"}, "start")
  /\ Query(w, Listed({[id |-> a.id, addr |-> a.addr, revoked |-> FALSE] :
                        a \in LiveAccounts(job[w].req.subj)}))

ListDevices(w) ==
  /\ At(w, {"listV1"}, "start")
  /\ job' = [job EXCEPT ![w].seen = LiveAccounts(job[w].req.subj),
                        ![w].pc = "readDevices"]
  /\ UNCHANGED <<tables, tx, env>>

\* Slip: revoked rows are listed too.
ListableRevoked(d) == TRUE

Listable(d) == ~d.revoked

\* signerAccountMap pairs a device with the address of its signer's account.
ListDevicesRead(w) ==
  /\ job[w].pc = "readDevices"
  /\ LET mine == {p \in devices \X job[w].seen : Listable(p[1]) /\ p[1].signer = p[2].signer}
     IN Query(w, Listed({[id |-> p[1].id, addr |-> p[2].addr, revoked |-> FALSE] :
                           p \in mine}))

\* Slip: the list leaves out what was revoked.
LiveEntries(s) == LiveOwned(s)

Entries(s) == Owned(s)

ListDevicesV2(w) ==
  /\ At(w, {"listV2"}, "start")
  /\ Query(w, Listed({[id |-> d.id, addr |-> None, revoked |-> d.revoked] :
                        d \in Entries(job[w].req.subj)}))

GetMigratedAccountData(w) ==
  /\ At(w, {"migrated"}, "start")
  /\ ReadAccount(w, MyAccount(job[w].req), "readMigrated", Status(404))

ReadMigrated(w) ==
  /\ job[w].pc = "readMigrated"
  /\ Query(w, IF job[w].req.acct \in migrated
                THEN Named(200, None, None, job[w].req.acct)
                ELSE Status(404))

----------------------------------------------------------------------------
(***************************************************************************)
(* The client reads the answer; statements fail; the process dies and      *)
(* starts again; an operator edits rows.                                   *)
(***************************************************************************)
Promises(w) == job[w].req.op \in Opens \cup Adds /\ job[w].resp.code \in {200, 201}

ReceiptOf(w) ==
  [subj |-> job[w].req.subj, acct |-> job[w].resp.acct, dev |-> job[w].resp.dev,
   seeded |-> job[w].req.op = "import", key |-> key]

Respond(w) ==
  LET a == job[w].resp IN
    /\ job[w].pc = "answer"
    /\ job' = [job EXCEPT ![w] = NoJob]
    /\ acked' = IF a.code = 204 THEN acked \cup {a.dev} ELSE acked
    /\ receipts' = IF Promises(w) THEN receipts \cup {ReceiptOf(w)} ELSE receipts
    /\ UNCHANGED <<tables, tx, server, key, faults, crashes, interventions>>

\* Any error of these two reads is answered as an absent row.
FaultCode(j) ==
  IF \/ j.req.op = "getDevice"
     \/ j.req.op = "primary" /\ j.pc = "readPrimary"
    THEN 404 ELSE 500

\* Slip: the error of COMMIT is not looked at.
IgnoredAtCommit(w) == IF job[w].pc = "commit" THEN Opened(w) ELSE Faulted(500)

FaultAnswer(w) == Faulted(FaultCode(job[w]))

DbFails(w) ==
  /\ job[w].pc \notin {"idle", "answer"}
  /\ faults < MaxFaults
  /\ faults' = faults + 1
  /\ Abort(w, FaultAnswer(w))
  /\ UNCHANGED <<tables, server, key, acked, receipts, crashes, interventions>>

\* Open transactions die with their connections.
Crash ==
  /\ server = "serving"
  /\ crashes < MaxCrashes
  /\ crashes' = crashes + 1
  /\ server' = "down"
  /\ key' = None
  /\ job' = [w \in Workers |-> NoJob]
  /\ tx' = [w \in Workers |-> NoWrites]
  /\ UNCHANGED <<tables, acked, receipts, faults, interventions>>

\* Slip: the startup check is not made.
NoneUnbound == {}

\* What assertSharesAreBound counts: shares that do not start with "v2:".
Unbound == {d \in devices : d.share.fmt # "v2"}

Boot ==
  /\ server \in {"down", "refused"}
  /\ \E k \in Keys :
       IF Unbound = {}
         THEN server' = "serving" /\ key' = k
         ELSE server' = "refused" /\ key' = None
  /\ UNCHANGED <<tables, tx, job, acked, receipts, faults, crashes, interventions>>

\* The mistake the additional data is there for: a share column copied from
\* one row into another.
MoveCiphertext ==
  /\ interventions < MaxInterventions
  /\ interventions' = interventions + 1
  /\ \E from, to \in devices :
       /\ from.id # to.id /\ ~from.revoked /\ ~to.revoked
       /\ devices' = (devices \ {to}) \cup {[to EXCEPT !.share = from.share]}
  /\ UNCHANGED <<signers, accounts, migrated, tx, job, server, key, acked,
                 receipts, faults, crashes>>

SoftDeleteAccount ==
  /\ interventions < MaxInterventions
  /\ interventions' = interventions + 1
  /\ \E a \in accounts :
       /\ ~a.deleted
       /\ accounts' = (accounts \ {a}) \cup {[a EXCEPT !.deleted = TRUE]}
  /\ UNCHANGED <<signers, devices, migrated, tx, job, server, key, acked,
                 receipts, faults, crashes>>

----------------------------------------------------------------------------
\* A store an earlier release left: one wallet whose share is not bound.
LegacyWallet ==
  \E s \in SignerIds, d \in DeviceIds, id \in AccountIds, u \in Subjects,
     addr \in Addresses, c \in Chains :
    /\ signers = {s}
    /\ devices = {[id |-> d, primary |-> TRUE, signer |-> s, revoked |-> FALSE,
                   share |-> [fmt |-> "legacy", sealed |-> None, key |-> None,
                              secret |-> [by |-> u, addr |-> addr, dev |-> d]]]}
    /\ accounts = {[id |-> id, addr |-> addr, subj |-> u, chain |-> c,
                    signer |-> s, deleted |-> FALSE]}
    /\ migrated = {}

EmptyStore == signers = {} /\ devices = {} /\ accounts = {} /\ migrated = {}

Init ==
  /\ EmptyStore \/ LegacyWallet
  /\ tx = [w \in Workers |-> NoWrites]
  /\ key = None
  /\ server = "down"
  /\ job = [w \in Workers |-> NoJob]
  /\ acked = {}
  /\ receipts = {}
  /\ faults = 0 /\ crashes = 0 /\ interventions = 0

\* What the goroutine of w does next when its database answers.
Handle(w) ==
  \/ RegisterDeviceV2(w) \/ CreateDevice(w) \/ AddDevice(w)
  \/ RecoverDeviceV2(w) \/ InitDevice(w) \/ GetPrimaryDevice(w) \/ ReadPrimary(w)
  \/ GetDevice(w) \/ RevokeDeviceV2(w) \/ RevokeUpdate(w)
  \/ CreateDeviceV2(w) \/ ImportShare(w) \/ RegisterDevice(w) \/ TxAddDevice(w)
  \/ InsertSigner(w) \/ InsertPrimaryDevice(w) \/ InsertAccount(w)
  \/ InsertMigrated(w) \/ Commit(w)
  \/ GetSignerV2(w) \/ ListAccountsV2(w) \/ ListDevices(w) \/ ListDevicesRead(w)
  \/ ListDevicesV2(w) \/ GetMigratedAccountData(w) \/ ReadMigrated(w)
  \/ Respond(w)

ReplyLost(w) == AddDeviceReplyLost(w) \/ RevokeReplyLost(w) \/ CommitReplyLost(w)

Next ==
  \/ \E w \in Workers : Receive(w) \/ Handle(w) \/ DbFails(w) \/ ReplyLost(w)
  \/ Crash \/ Boot \/ MoveCiphertext \/ SoftDeleteAccount

Spec == Init /\ [][Next]_vars

\* net/http runs every accepted request, and Postgres answers or fails it.
FairSpec == Spec /\ \A w \in Workers : WF_vars(Handle(w))
=============================================================================
