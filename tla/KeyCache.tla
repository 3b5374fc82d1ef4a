------------------------------ MODULE KeyCache ------------------------------
(***************************************************************************)
(* The cache of key sets that every authenticated request goes through: a  *)
(* map under a readers-writer lock, filled by the first request that needs *)
(* a provider's keys, and the validation of the token that follows.        *)
(*                                                                         *)
(* A key set is named by the number of its fetch.  Each fetch also starts  *)
(* a goroutine of the library that refreshes the set for ever.             *)
(***************************************************************************)
EXTENDS Naturals, FiniteSets

CONSTANTS
  Requests,     \* goroutines that validate a token
  Urls,         \* key set addresses, one per provider
  MaxFetches,   \* bound: fetches that return
  None

ASSUME KeyCacheAssumption ==
  /\ MaxFetches \in Nat
  /\ None \notin Nat \cup Requests \cup Urls

VARIABLES
  jwkCache,     \* the key set cached for each address
  mu,           \* the request that announced or holds the write lock
  req,          \* where each request is
  fetched       \* history: the address each fetch that succeeded asked

vars == <<jwkCache, mu, req, fetched>>

Steps == {"idle", "rlock", "read", "lock", "drain", "recheck", "fetch",
          "store", "parse", "refused"}

TypeOK ==
  /\ jwkCache \in [Urls -> Nat \cup {None}]
  /\ mu \in Requests \cup {None}
  /\ req \in [Requests -> [pc : Steps, url : Urls \cup {None}, k : Nat \cup {None}]]
  /\ \A r \in Requests : req[r].pc \in {"store", "parse"} => req[r].k # None
  /\ fetched \in [1 .. MaxFetches -> Urls \cup {None}]

Idle == [pc |-> "idle", url |-> None, k |-> None]

Go(r, pc) == req' = [req EXCEPT ![r].pc = pc]

Made == {n \in 1 .. MaxFetches : fetched[n] # None}

----------------------------------------------------------------------------
\* validate, once issuer and audience are known to be configured: the key set
\* of the provider's address is asked for.
Validate(r, u) ==
  /\ req[r] = Idle
  /\ req' = [req EXCEPT ![r] = [Idle EXCEPT !.pc = "rlock", !.url = u]]
  /\ UNCHANGED <<jwkCache, mu, fetched>>

\* Slip: the map is read without the lock.
ReadAtOnce(r) == TRUE

\* A reader enters while no writer holds or has announced itself.
MayRead(r) == mu = None

RLock(r) ==
  /\ req[r].pc = "rlock"
  /\ MayRead(r)
  /\ Go(r, "read")
  /\ UNCHANGED <<jwkCache, mu, fetched>>

\* The entry of the map a request uses: jwkCache[jwkURL].
Slot(r) == req[r].url

\* The map is read and the read lock let go.
Read(r) ==
  LET k == jwkCache[Slot(r)] IN
    /\ req[r].pc = "read"
    /\ req' = [req EXCEPT ![r].pc = IF k # None THEN "parse" ELSE "lock", ![r].k = k]
    /\ UNCHANGED <<jwkCache, mu, fetched>>

\* Lock: the writer announces itself, then waits for the readers inside.
Lock(r) ==
  /\ req[r].pc = "lock"
  /\ mu = None
  /\ mu' = r
  /\ Go(r, "drain")
  /\ UNCHANGED <<jwkCache, fetched>>

Drained(r) ==
  /\ req[r].pc = "drain"
  /\ \A s \in Requests : req[s].pc # "read"
  /\ Go(r, "recheck")
  /\ UNCHANGED <<jwkCache, mu, fetched>>

\* Slip: what the read lock showed is believed under the write lock.
AlwaysMissing(u) == TRUE

\* Slip: the second check is the wrong way round.
Present(u) == jwkCache[u] # None

\* The map is read again under the write lock.
Missing(u) == jwkCache[u] = None

Recheck(r) ==
  LET u == Slot(r) IN
    /\ req[r].pc = "recheck"
    /\ IF Missing(u)
         THEN Go(r, "fetch") /\ UNCHANGED mu
         ELSE /\ req' = [req EXCEPT ![r].pc = "parse", ![r].k = jwkCache[u]]
              /\ mu' = None
    /\ UNCHANGED <<jwkCache, fetched>>

\* keyfunc.NewDefault returns a key set; the lock is held meanwhile.
Fetch(r) ==
  /\ req[r].pc = "fetch"
  /\ \E n \in 1 .. MaxFetches :
       /\ fetched[n] = None
       /\ \A i \in 1 .. n - 1 : fetched[i] # None
       /\ fetched' = [fetched EXCEPT ![n] = req[r].url]
       /\ req' = [req EXCEPT ![r].pc = "store", ![r].k = n]
  /\ UNCHANGED <<jwkCache, mu>>

\* Slip: the early return leaves the lock behind.
StillLocked(r) == r

\* The deferred Unlock.
Unlocked(r) == None

\* keyfunc.NewDefault fails, and nothing is cached.
FetchFails(r) ==
  /\ req[r].pc = "fetch"
  /\ mu' = Unlocked(r)
  /\ Go(r, "refused")
  /\ UNCHANGED <<jwkCache, fetched>>

Store(r) ==
  /\ req[r].pc = "store"
  /\ jwkCache' = [jwkCache EXCEPT ![Slot(r)] = req[r].k]
  /\ mu' = None
  /\ Go(r, "parse")
  /\ UNCHANGED fetched

\* jwt.Parse with the key set found; the request goes on or is refused.
Parse(r) ==
  /\ req[r].pc \in {"parse", "refused"}
  /\ req' = [req EXCEPT ![r] = Idle]
  /\ UNCHANGED <<jwkCache, mu, fetched>>

Init ==
  /\ jwkCache = [u \in Urls |-> None]
  /\ mu = None
  /\ req = [r \in Requests |-> Idle]
  /\ fetched = [n \in 1 .. MaxFetches |-> None]

Next == \E r \in Requests :
  \/ \E u \in Urls : Validate(r, u)
  \/ RLock(r) \/ Read(r) \/ Lock(r) \/ Drained(r) \/ Recheck(r)
  \/ Fetch(r) \/ FetchFails(r) \/ Store(r) \/ Parse(r)

Spec == Init /\ [][Next]_vars

\* Unlock lets every waiting reader in before the next writer, and the mutex
\* between writers passes to the longest waiter; the library's client bounds a
\* fetch by a timeout.
FairSpec ==
  /\ Spec
  /\ \A r \in Requests :
       /\ SF_vars(RLock(r)) /\ SF_vars(Lock(r))
       /\ WF_vars(Read(r)) /\ WF_vars(Drained(r)) /\ WF_vars(Recheck(r))
       /\ WF_vars(Fetch(r) \/ FetchFails(r)) /\ WF_vars(Store(r))

----------------------------------------------------------------------------
\* Requests that miss together fetch one key set between them: an address never
\* gets a second set, nor a second refreshing goroutine.
OneKeySetPerUrl == \A m, n \in Made : fetched[m] = fetched[n] => m = n

\* No request reads the map while another writes it, which the runtime would
\* answer by ending the process.
NoMapRace ==
  \A r, s \in Requests : req[r].pc = "read" => req[s].pc # "store"

\* A validation ends, even when another provider's fetch fails before it.
ValidationEnds ==
  \A r \in Requests : req[r].pc = "rlock" ~> req[r].pc \in {"parse", "refused"}
=============================================================================
