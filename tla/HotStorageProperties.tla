------------------------ MODULE HotStorageProperties ------------------------
(***************************************************************************)
(* What the hot-storage share store must never do, and what it must        *)
(* eventually do, whatever the interleaving of its handlers.               *)
(***************************************************************************)
EXTENDS HotStorage

Answering(w, ops) == job[w].pc = "answer" /\ job[w].req.op \in ops

----------------------------------------------------------------------------
\* A signer id, an account id and an address belong to one account, whoever
\* supplied the ids and however the inserts interleaved.  ownedDeviceSQL reads
\* ownership through the signer, so a shared signer would be a shared wallet.
OneAccountPerKey ==
  \A a, b \in accounts :
    a.id = b.id \/ a.addr = b.addr \/ a.signer = b.signer => a = b

\* Every account has exactly one unrevoked primary device: no crash, rollback,
\* interleaving or revocation leaves a wallet that cannot be recovered, or one
\* with two candidates for recovery.
OnePrimary ==
  \A a \in accounts : \E d \in devices : PrimaryOf(a.signer) = {d}

\* Unless an operator moved ciphertexts, the primary device of an account holds
\* the share its owner submitted for that very address and device.
PrimaryHoldsOwnShare ==
  interventions = 0 =>
    \A a \in accounts : \A d \in PrimaryOf(a.signer) :
      d.share.secret = [by |-> a.subj, addr |-> a.addr, dev |-> d.id]

\* The rows of a wallet exist together: no signer, device or migrated data
\* without its account, so an opening that failed half way left nothing.
NoOrphans ==
  /\ \A s \in signers : \E a \in accounts : a.signer = s
  /\ \A d \in devices : \E a \in accounts : a.signer = d.signer
  /\ \A id \in migrated : \E a \in accounts : a.id = id

\* A served share was submitted by the subject it is served to, for the device
\* and the account the answer names, even when ciphertexts have been moved
\* between rows and ids were chosen by clients.
ServedShareIsOwn ==
  \A w \in Workers : LET a == job[w].resp IN
    a.share # None =>
      /\ a.share.by = job[w].req.subj
      /\ a.share.dev = a.dev
      /\ a.acct # None => \E acc \in accounts : acc.id = a.acct /\ acc.addr = a.share.addr

\* Once a client was told of a revocation, no request that arrives later is
\* served that device's share, from whatever row.
RevokedStaysHidden ==
  \A w \in Workers : LET a == job[w].resp IN
    a.share # None => a.share.dev \notin job[w].past.acked

\* At most one caller is ever told that it revoked a given device.
OneRevokeWins ==
  \A w \in Workers : job[w].resp.code = 204 =>
    /\ job[w].resp.dev \notin acked
    /\ \A v \in Others(w) : job[v].resp.code = 204 => job[v].resp.dev # job[w].resp.dev

\* What a client was told is stored stays stored, through every later fault, crash
\* and restart: the caller's account with that device, the seed row of an import,
\* and the very share that was submitted, until the device is revoked or an operator
\* moves ciphertexts.
SuccessIsDurable ==
  \A t \in receipts :
    /\ \E a \in accounts, d \in devices :
         /\ a.id = t.acct /\ a.subj = t.subj
         /\ d.id = t.dev /\ d.signer = a.signer
         /\ \/ d.revoked \/ interventions > 0
            \/ d.share.secret = [by |-> t.subj, addr |-> a.addr, dev |-> d.id]
    /\ t.seeded => t.acct \in migrated

\* Creating or importing at an address that was already held when the request
\* arrived is answered 409, also when the holder is soft-deleted.
HeldAddressConflicts ==
  \A w \in Workers : LET r == job[w].req IN
    Answering(w, {"createV2", "import"}) /\ job[w].resp.cause = "handler"
      /\ StoredAddress(r) \in job[w].past.held => job[w].resp.code = 409

\* A process serves only when every live share is in the bound format.  Of the
\* shares that clients were told are stored it can read exactly those acknowledged
\* under its own key, whatever restarts and changes of the key came between: another
\* key opens none of them, the old one, brought back, all.
ServingIsReadable ==
  server = "serving" =>
    \A d \in devices : ~d.revoked =>
      /\ d.share.fmt = "v2"
      /\ interventions = 0 =>
           \A t \in receipts : t.dev = d.id => (Decrypts(d) <=> key = t.key)

\* GET /v1/devices pairs each device with the address of its own wallet, all of
\* them the caller's, and shows none the caller knew to be revoked.
ListsOwnDevices ==
  \A w \in Workers : Answering(w, {"listV1"}) =>
    \A e \in job[w].resp.list :
      /\ e.id \notin job[w].past.acked
      /\ \E a \in accounts, d \in devices :
           /\ a.subj = job[w].req.subj /\ a.addr = e.addr
           /\ d.id = e.id /\ d.signer = a.signer

\* GET /v2/devices still shows, flagged, every device of the caller whose
\* revocation was acknowledged before (HOT-2).
ListsRevokedDevices ==
  \A w \in Workers : Answering(w, {"listV2"}) /\ job[w].resp.code = 200 =>
    \A d \in Owned(job[w].req.subj) : d.id \in job[w].past.acked =>
      \E e \in job[w].resp.list : e.id = d.id /\ e.revoked

----------------------------------------------------------------------------
\* A handler that found the account serves its share: the second read misses
\* nothing the first one promised.  Only a share that, at that moment, does not
\* decrypt under this key in this row is refused.
FoundIsServed ==
  [][\A w \in Workers :
       LET a == job'[w].resp IN
         job[w].pc = "readPrimary" /\ job'[w].pc = "answer" /\ a.cause = "handler" =>
           \/ a.code = 200 /\ a.share # None
           \/ a.code = 500 /\ \E d \in PrimaryOf(job[w].found.signer) : ~Decrypts(d)]_vars

\* No step removes a device row, moves it to another signer or changes what is
\* primary; a share is deleted exactly when its device is revoked, which a primary
\* never is (HOT-1, FC-1); a revoked row never changes again; and a live share
\* changes only by being revoked, or by an operator's hand.
DeviceRowsAreKept ==
  [][\A d \in devices : \E e \in devices' :
       /\ e.id = d.id /\ e.signer = d.signer /\ e.primary = d.primary
       /\ e.revoked <=> e.share = Cleared
       /\ e.revoked => ~e.primary
       /\ d.revoked => e = d
       /\ e.share = d.share \/ e.revoked \/ interventions' # interventions]_vars

\* The store as the registry sees it.
PrimaryIds(s) == {d.id : d \in {x \in devices : x.signer = s /\ x.primary}}

WalletOf(a) == [acct |-> a.id, addr |-> a.addr, subj |-> a.subj, signer |-> a.signer,
                primary |-> PrimaryIds(a.signer)]

OpenedWallets == {WalletOf(a) : a \in accounts}

AddedDevices == {[dev |-> d.id, signer |-> d.signer] : d \in {x \in devices : ~x.primary}}

RevokedIds == {d.id : d \in {x \in devices : x.revoked}}

\* The statements of the handlers, whatever their interleaving, crashes and
\* lost replies, amount to whole steps of the registry: a wallet is opened at
\* once or not at all, and a device is revoked once and for good.
Registry == INSTANCE ShareRegistry WITH
  wallets <- OpenedWallets, secondaries <- AddedDevices, revoked <- RevokedIds

ImplementsRegistry == Registry!Spec

\* Every accepted request ends: no transaction waits for ever on another, and
\* no handler keeps a lock after it has answered.
EveryRequestEnds ==
  \A w \in Workers : job[w].pc # "idle" ~> job[w].pc = "idle"

----------------------------------------------------------------------------
(***************************************************************************)
(* Statements of the source's comments and API documents, which the code   *)
(* does not keep.                                                          *)
(***************************************************************************)
\* db.go: assertSharesAreBound "fails when any stored share predates the
\* device-bound ciphertext format".
RefusesOnlyLegacyStores ==
  server = "refused" => \E d \in devices : d.share.fmt = "legacy"

\* hot_storage.yaml: "If no account exists for the user on the given chain and
\* address, a new account is created": a v1 registration with fresh ids fails
\* only when somebody else holds the address.
OwnerCanRegister ==
  \A w \in Workers : LET r == job[w].req IN
    Answering(w, {"registerV1"}) /\ job[w].resp.cause = "handler" /\ job[w].resp.code = 500 =>
      \/ r.signer \in signers
      \/ \E a \in Holders(r.addr) : a.subj # r.subj
=============================================================================
