-------------------------- MODULE Admission_proofs --------------------------
(***************************************************************************)
(* Theorems about how a request comes to a handler: the readers-writer     *)
(* lock of the key set cache, what the stateless part of the chain lets    *)
(* through, and which tokens open the door.                                *)
(*                                                                         *)
(* The cache is proved about by itself, for its own next-state relation;   *)
(* every step of Admission is a step of the cache or leaves it alone.      *)
(***************************************************************************)
EXTENDS Admission, TLAPS

USE KeyCacheAssumption

----------------------------------------------------------------------------
\* The cache.

\* The writer is the one that mu names, from its announcement to its release.
Writing == {"drain", "recheck", "fetch", "store"}

WriterHoldsLock == \A r \in Requests : req[r].pc \in Writing => mu = r

\* Once the writer is past the readers, none is inside.
WriterIsAlone ==
  \A r, s \in Requests : req[r].pc = "read" => req[s].pc \notin Writing \ {"drain"}

\* A validation under way is about an address; while its key set is fetched and
\* stored, none is cached; when its token is parsed, the set is the cached one.
RequestsInStep ==
  \A r \in Requests :
    LET x == req[r] IN
      /\ x.pc # "idle" => x.url \in Urls
      /\ x.pc \in {"fetch", "store"} => jwkCache[x.url] = None
      /\ x.pc = "store" => x.k \in Made /\ fetched[x.k] = x.url
      /\ x.pc = "parse" => x.k = jwkCache[x.url] /\ x.k # None

\* Every set fetched is cached for its address, or about to be; every set cached
\* was fetched.
MadeIsKept ==
  /\ \A n \in Made :
       \/ jwkCache[fetched[n]] = n
       \/ \E r \in Requests : req[r].pc = "store" /\ req[r].k = n
  /\ \A u \in Urls : jwkCache[u] \in Made \cup {None}

CacheInv ==
  /\ TypeOK /\ OneKeySetPerUrl
  /\ WriterHoldsLock /\ WriterIsAlone /\ RequestsInStep /\ MadeIsKept

LEMMA CacheStarts == Init => CacheInv
PROOF BY DEF Init, CacheInv, TypeOK, Idle, Steps, OneKeySetPerUrl, Made, Writing,
  WriterHoldsLock, WriterIsAlone, RequestsInStep, MadeIsKept

\* A request that moves, with another key set or the one it had, keeps its type.
LEMMA MovesAreTyped ==
  ASSUME TypeOK, NEW r \in Requests, NEW pc \in Steps, NEW k \in Nat \cup {None},
         \/ req' = [req EXCEPT ![r].pc = pc]
         \/ req' = [req EXCEPT ![r].pc = pc, ![r].k = k]
  PROVE  req' \in [Requests -> [pc : Steps, url : Urls \cup {None}, k : Nat \cup {None}]]
<1> DEFINE Typed == [pc : Steps, url : Urls \cup {None}, k : Nat \cup {None}]
<1>1. \A s \in Requests : req[s] \in Typed
  BY DEF TypeOK
<1>2. [req[r] EXCEPT !.pc = pc] \in Typed
  BY <1>1
<1> HIDE DEF Typed
<1>3. PICK x \in Typed : req' = [req EXCEPT ![r] = x]
  BY <1>2
<1>4. req' \in [Requests -> Typed]
  BY <1>1, <1>3 DEF TypeOK
<1> QED
  BY <1>4 DEF Typed

\* A request that moves and takes a key set with it.
Takes(r, pc, k) == req' = [req EXCEPT ![r].pc = pc, ![r].k = k]

LEMMA TakesSet ==
  ASSUME TypeOK, NEW r \in Requests, NEW pc, NEW k, Takes(r, pc, k)
  PROVE  /\ req'[r].pc = pc /\ req'[r].k = k /\ req'[r].url = req[r].url
         /\ \A s \in Requests \ {r} : req'[s] = req[s]
<1>1. PICK x : x = req[r]
  OBVIOUS
<1>2. x = [pc |-> x.pc, url |-> x.url, k |-> x.k]
  BY <1>1 DEF TypeOK
<1>3. PICK y : y = [x EXCEPT !.pc = pc, !.k = k]
  OBVIOUS
<1>4. y = [pc |-> pc, url |-> x.url, k |-> k]
  BY <1>2, <1>3
<1>5. req' = [req EXCEPT ![r] = y]
  BY <1>1, <1>3 DEF Takes
<1> QED
  BY <1>1, <1>4, <1>5 DEF TypeOK

\* One lemma for each operation on the lock, in the order a validation meets them.
LEMMA ValidateKeeps ==
  ASSUME CacheInv, NEW r \in Requests, NEW u \in Urls, Validate(r, u)
  PROVE  CacheInv'
<1> USE DEF CacheInv, TypeOK, Idle, Steps, Go, Slot, Validate
<1>1. TypeOK'
  <2>1. req' \in [Requests -> [pc : Steps, url : Urls \cup {None}, k : Nat \cup {None}]]
    BY DEF RequestsInStep
  <2> QED
    BY <2>1
<1>2. OneKeySetPerUrl'
  BY DEF OneKeySetPerUrl, Made
<1>3. WriterHoldsLock'
  BY DEF WriterHoldsLock, Writing
<1>4. WriterIsAlone'
  BY DEF WriterIsAlone, Writing
<1>5. RequestsInStep'
  BY DEF RequestsInStep, Made
<1>6. MadeIsKept'
  BY DEF MadeIsKept, Made
<1> QED
  BY <1>1, <1>2, <1>3, <1>4, <1>5, <1>6

LEMMA RLockKeeps ==
  ASSUME CacheInv, NEW r \in Requests, RLock(r)
  PROVE  CacheInv'
<1> USE DEF CacheInv, TypeOK, Idle, Steps, Go, Slot, MayRead, RLock
<1>1. TypeOK'
  <2>1. req' \in [Requests -> [pc : Steps, url : Urls \cup {None}, k : Nat \cup {None}]]
    BY MovesAreTyped
  <2> QED
    BY <2>1
<1>2. OneKeySetPerUrl'
  BY DEF OneKeySetPerUrl, Made
<1>3. WriterHoldsLock'
  BY DEF WriterHoldsLock, Writing
<1>4. WriterIsAlone'
  BY DEF WriterIsAlone, WriterHoldsLock, Writing
<1>5. RequestsInStep'
  BY DEF RequestsInStep, WriterHoldsLock, Writing
<1>6. MadeIsKept'
  BY DEF MadeIsKept, Made
<1> QED
  BY <1>1, <1>2, <1>3, <1>4, <1>5, <1>6

LEMMA ReadKeeps ==
  ASSUME CacheInv, NEW r \in Requests, Read(r)
  PROVE  CacheInv'
<1> USE DEF CacheInv, TypeOK, Idle, Steps, Go, Slot, Read
<1>1. TypeOK'
  <2>1. req' \in [Requests -> [pc : Steps, url : Urls \cup {None}, k : Nat \cup {None}]]
    <3>1. PICK pc \in Steps, k \in Nat \cup {None} :
            req' = [req EXCEPT ![r].pc = pc, ![r].k = k]
      BY DEF RequestsInStep
    <3> HIDE DEF TypeOK, Steps, CacheInv, Read
    <3> QED
      BY <3>1, MovesAreTyped DEF CacheInv
  <2> QED
    BY <2>1
<1>2. OneKeySetPerUrl'
  BY DEF OneKeySetPerUrl, Made
<1>3. WriterHoldsLock'
  BY DEF WriterHoldsLock, Writing
<1>4. WriterIsAlone'
  BY DEF WriterIsAlone, Writing
<1>5. RequestsInStep'
  BY DEF RequestsInStep, Made
<1>6. MadeIsKept'
  BY DEF MadeIsKept, Made
<1> QED
  BY <1>1, <1>2, <1>3, <1>4, <1>5, <1>6

LEMMA LockKeeps ==
  ASSUME CacheInv, NEW r \in Requests, Lock(r)
  PROVE  CacheInv'
<1> USE DEF CacheInv, TypeOK, Idle, Steps, Go, Slot, Lock
<1>1. TypeOK'
  <2>1. req' \in [Requests -> [pc : Steps, url : Urls \cup {None}, k : Nat \cup {None}]]
    BY DEF RequestsInStep
  <2> QED
    BY <2>1
<1>2. OneKeySetPerUrl'
  BY DEF OneKeySetPerUrl, Made
<1>3. WriterHoldsLock'
  BY DEF WriterHoldsLock
<1>4. WriterIsAlone'
  BY DEF WriterIsAlone
<1>5. RequestsInStep'
  BY DEF RequestsInStep, WriterHoldsLock, Writing
<1>6. MadeIsKept'
  BY DEF MadeIsKept, Made
<1> QED
  BY <1>1, <1>2, <1>3, <1>4, <1>5, <1>6

LEMMA DrainedKeeps ==
  ASSUME CacheInv, NEW r \in Requests, Drained(r)
  PROVE  CacheInv'
<1> USE DEF CacheInv, TypeOK, Idle, Steps, Go, Slot, Drained
<1>1. TypeOK'
  <2>1. req' \in [Requests -> [pc : Steps, url : Urls \cup {None}, k : Nat \cup {None}]]
    BY DEF RequestsInStep
  <2> QED
    BY <2>1
<1>2. OneKeySetPerUrl'
  BY DEF OneKeySetPerUrl, Made
<1>3. WriterHoldsLock'
  BY DEF WriterHoldsLock, Writing
<1>4. WriterIsAlone'
  BY DEF WriterIsAlone
<1>5. RequestsInStep'
  BY DEF RequestsInStep, WriterHoldsLock, Writing
<1>6. MadeIsKept'
  BY DEF MadeIsKept, Made
<1> QED
  BY <1>1, <1>2, <1>3, <1>4, <1>5, <1>6

LEMMA RecheckKeeps ==
  ASSUME CacheInv, NEW r \in Requests, Recheck(r)
  PROVE  CacheInv'
<1> USE DEF CacheInv, TypeOK, Idle, Steps, Go, Slot, Missing, Recheck
<1>1. TypeOK'
  <2>1. req' \in [Requests -> [pc : Steps, url : Urls \cup {None}, k : Nat \cup {None}]]
    BY DEF RequestsInStep
  <2>2. \A s \in Requests : req'[s].pc \in {"store", "parse"} => req'[s].k # None
    <3>1. CASE jwkCache[req[r].url] = None
      BY <3>1
    <3>2. CASE jwkCache[req[r].url] # None
      <4>1. PICK k : k = jwkCache[req[r].url] /\ Takes(r, "parse", k)
        BY <3>2 DEF Takes
      <4>2. TypeOK
        OBVIOUS
      <4> HIDE DEF TypeOK, CacheInv, Recheck
      <4>3. req'[r].k = k /\ \A s \in Requests \ {r} : req'[s] = req[s]
        BY <4>1, <4>2, TakesSet
      <4> QED
        BY <3>2, <4>1, <4>2, <4>3 DEF TypeOK
    <3> QED
      BY <3>1
  <2> QED
    BY <2>1, <2>2
<1>2. OneKeySetPerUrl'
  BY DEF OneKeySetPerUrl, Made
<1>3. WriterHoldsLock'
  BY DEF WriterHoldsLock, Writing
<1>4. WriterIsAlone'
  BY DEF WriterIsAlone, WriterHoldsLock, Writing
<1>5. RequestsInStep'
  BY DEF RequestsInStep, WriterHoldsLock, Writing
<1>6. MadeIsKept'
  <2>1. \A s \in Requests : req[s].pc = "store" => req'[s] = req[s]
    OBVIOUS
  <2> QED
    BY <2>1 DEF MadeIsKept, Made
<1> QED
  BY <1>1, <1>2, <1>3, <1>4, <1>5, <1>6

LEMMA FetchKeeps ==
  ASSUME CacheInv, NEW r \in Requests, Fetch(r)
  PROVE  CacheInv'
<1> USE DEF CacheInv, TypeOK, Idle, Steps, Go, Slot, Fetch
<1>1. TypeOK'
  <2>1. req' \in [Requests -> [pc : Steps, url : Urls \cup {None}, k : Nat \cup {None}]]
    <3>1. PICK n \in 1 .. MaxFetches : req' = [req EXCEPT ![r].pc = "store", ![r].k = n]
      OBVIOUS
    <3>2. "store" \in Steps /\ n \in Nat \cup {None}
      OBVIOUS
    <3> HIDE DEF TypeOK, Steps, CacheInv, Fetch
    <3> QED
      BY <3>1, <3>2, MovesAreTyped DEF CacheInv
  <2> QED
    BY <2>1
<1>2. OneKeySetPerUrl'
  <2>1. \A n \in Made : fetched[n] # req[r].url
    BY DEF MadeIsKept, RequestsInStep, WriterHoldsLock, Writing, Made
  <2> QED
    BY <2>1 DEF OneKeySetPerUrl, Made
<1>3. WriterHoldsLock'
  BY DEF WriterHoldsLock, Writing
<1>4. WriterIsAlone'
  BY DEF WriterIsAlone, Writing
<1>5. RequestsInStep'
  BY DEF RequestsInStep, Made
<1>6. MadeIsKept'
  <2>1. PICK n \in 1 .. MaxFetches :
          /\ fetched' = [fetched EXCEPT ![n] = req[r].url]
          /\ Takes(r, "store", n)
    BY DEF Takes
  <2>2. /\ req'[r].pc = "store" /\ req'[r].k = n
        /\ \A s \in Requests \ {r} : req'[s] = req[s]
    BY <2>1, TakesSet
  <2>3. \A m \in (1 .. MaxFetches) \ {n} : fetched'[m] = fetched[m]
    BY <2>1
  <2>4. req[r].pc = "fetch" /\ jwkCache' = jwkCache
    OBVIOUS
  <2>5. fetched'[n] # None /\ Made' \subseteq Made \cup {n}
    BY <2>1, <2>3 DEF Made, RequestsInStep
  <2>6. Made \subseteq Made'
    BY <2>3, <2>5 DEF Made
  <2> HIDE DEF Fetch, TypeOK
  <2>7. ASSUME NEW m \in Made'
        PROVE  \/ jwkCache'[fetched'[m]] = m
               \/ \E s \in Requests : req'[s].pc = "store" /\ req'[s].k = m
    BY <2>2, <2>3, <2>4, <2>5 DEF MadeIsKept, Made
  <2> QED
    BY <2>4, <2>6, <2>7 DEF MadeIsKept
<1> QED
  BY <1>1, <1>2, <1>3, <1>4, <1>5, <1>6

LEMMA FetchFailsKeeps ==
  ASSUME CacheInv, NEW r \in Requests, FetchFails(r)
  PROVE  CacheInv'
<1> USE DEF CacheInv, TypeOK, Idle, Steps, Go, Slot, FetchFails
<1>1. TypeOK'
  <2> QED
    BY DEF Unlocked
<1>2. OneKeySetPerUrl'
  BY DEF OneKeySetPerUrl, Made
<1>3. WriterHoldsLock'
  BY DEF WriterHoldsLock, Writing
<1>4. WriterIsAlone'
  BY DEF WriterIsAlone, Writing
<1>5. RequestsInStep'
  BY DEF RequestsInStep, WriterHoldsLock, Writing
<1>6. MadeIsKept'
  BY DEF MadeIsKept, Made
<1> QED
  BY <1>1, <1>2, <1>3, <1>4, <1>5, <1>6

LEMMA StoreKeeps ==
  ASSUME CacheInv, NEW r \in Requests, Store(r)
  PROVE  CacheInv'
<1> USE DEF CacheInv, TypeOK, Idle, Steps, Go, Slot, Store
<1>1. TypeOK'
  <2>1. req' \in [Requests -> [pc : Steps, url : Urls \cup {None}, k : Nat \cup {None}]]
    BY DEF RequestsInStep
  <2> QED
    BY <2>1
<1>2. OneKeySetPerUrl'
  BY DEF OneKeySetPerUrl, Made
<1>3. WriterHoldsLock'
  BY DEF WriterHoldsLock, Writing
<1>4. WriterIsAlone'
  BY DEF WriterIsAlone, Writing
<1>5. RequestsInStep'
  BY DEF RequestsInStep, WriterHoldsLock, Writing
<1>6. MadeIsKept'
  <2>1. \A s \in Requests : req[s].pc = "store" => s = r
    BY DEF WriterHoldsLock, Writing
  <2>2. req[r].url \in Urls /\ jwkCache[req[r].url] = None
    BY DEF RequestsInStep
  <2>3. \A n \in Made : fetched[n] \in Urls /\ n # None
    BY DEF Made
  <2>4. ASSUME NEW n \in Made, fetched[n] = req[r].url
        PROVE  jwkCache'[fetched[n]] = n
    BY <2>1, <2>2, <2>3, <2>4 DEF MadeIsKept
  <2>5. ASSUME NEW n \in Made, fetched[n] # req[r].url
        PROVE  jwkCache'[fetched[n]] = n
    BY <2>1, <2>3 DEF MadeIsKept, RequestsInStep
  <2>6. req[r].k \in Made /\ Made' = Made
    BY DEF RequestsInStep, Made
  <2> QED
    BY <2>2, <2>4, <2>5, <2>6 DEF MadeIsKept
<1> QED
  BY <1>1, <1>2, <1>3, <1>4, <1>5, <1>6

LEMMA ParseKeeps ==
  ASSUME CacheInv, NEW r \in Requests, Parse(r)
  PROVE  CacheInv'
<1> USE DEF CacheInv, TypeOK, Idle, Steps, Go, Slot, Parse
<1>1. TypeOK'
  <2>1. req' \in [Requests -> [pc : Steps, url : Urls \cup {None}, k : Nat \cup {None}]]
    BY DEF RequestsInStep
  <2> QED
    BY <2>1
<1>2. OneKeySetPerUrl'
  BY DEF OneKeySetPerUrl, Made
<1>3. WriterHoldsLock'
  BY DEF WriterHoldsLock, Writing
<1>4. WriterIsAlone'
  BY DEF WriterIsAlone, Writing
<1>5. RequestsInStep'
  BY DEF RequestsInStep, Made
<1>6. MadeIsKept'
  BY DEF MadeIsKept, Made
<1> QED
  BY <1>1, <1>2, <1>3, <1>4, <1>5, <1>6

\* A step of the cache, or one that leaves it alone, keeps its invariant.
LEMMA CacheInvKept == CacheInv /\ [Next]_vars => CacheInv'
<1> SUFFICES ASSUME CacheInv, [Next]_vars PROVE CacheInv'
  OBVIOUS
<1>1. CASE UNCHANGED vars
  BY <1>1
     DEF vars, CacheInv, TypeOK, OneKeySetPerUrl, Made, WriterHoldsLock, WriterIsAlone,
    RequestsInStep, MadeIsKept
<1>2. CASE Next
  <2>1. PICK r \in Requests :
          \/ \E u \in Urls : Validate(r, u)
          \/ RLock(r) \/ Read(r) \/ Lock(r) \/ Drained(r) \/ Recheck(r)
          \/ Fetch(r) \/ FetchFails(r) \/ Store(r) \/ Parse(r)
    BY <1>2 DEF Next
  <2>2. ASSUME NEW u \in Urls, Validate(r, u) PROVE CacheInv'
    BY <2>2, ValidateKeeps
  <2> QED
    BY <2>1, <2>2, RLockKeeps, ReadKeeps, LockKeeps, DrainedKeeps, RecheckKeeps,
      FetchKeeps, FetchFailsKeeps, StoreKeeps, ParseKeeps
<1> QED
  BY <1>1, <1>2

\* The invariant of the cache, whoever calls it.
THEOREM CacheCorrect == Spec => []CacheInv
PROOF BY CacheStarts, CacheInvKept, PTL DEF Spec

\* Requests that miss together fetch one key set between them
\* (getOrCreateKeyfunc looks at the map again under the write lock).
THEOREM OneSetEach == Spec => []OneKeySetPerUrl
<1>1. CacheInv => OneKeySetPerUrl
  BY DEF CacheInv
<1> QED
  BY CacheCorrect, <1>1, PTL

\* The map is never read while it is written: the writer drained the readers, and
\* none comes in before it unlocks.
THEOREM MapIsGuarded == Spec => []NoMapRace
<1>1. CacheInv => NoMapRace
  BY DEF CacheInv, WriterIsAlone, Writing, NoMapRace
<1> QED
  BY CacheCorrect, <1>1, PTL

----------------------------------------------------------------------------
\* The stateless part of the chain, for every call there is.

\* A script of an unlisted page has only simple requests, and those carry neither
\* delivery of a token; the page's own client keeps to the headers allowed, and
\* delivers its token once.
LEMMA ArrivalsInOrder ==
  ASSUME NEW a \in Arrivals
  PROVE  /\ a.at \in Answers /\ a.by \in Senders
         /\ a.provider \in Providers \cup {"unread"}
         /\ a.at = "token" => a.provider \in Providers
         /\ a.by = "foreign" => a.at # "token"
         /\ a.by = "client" => a.at = "token"
<1>1. PICK c \in Call :
        a = [at |-> Answer(c), by |-> Sender(c),
             provider |-> IF Answer(c) = "token" THEN Provider(c) ELSE "unread"]
  BY DEF Arrivals
<1>2. Answer(c) \in Answers
  BY DEF Answer, Answers
<1>3. Sender(c) \in Senders
  BY DEF Sender, Senders
<1>4. Provider(c) \in Providers
  BY DEF Provider, Providers, Call
<1>5. ASSUME Sender(c) = "foreign" PROVE Answer(c) # "token"
  <2>1. c.page # "native" /\ ~IsOriginAllowed(c.page)
    BY <1>5 DEF Sender, Listed, IsOriginAllowed
  <2>2. ASSUME Headers(c) = {} PROVE ~HasToken(c)
    <3>1. c.bearer = "absent" /\ c.field = "absent"
      BY <2>2 DEF Headers
    <3> QED
      BY <3>1 DEF HasToken, HeaderToken, CookieToken
  <2> QED
    BY <2>1, <2>2 DEF Answer, BrowserSends
<1>6. ASSUME Sender(c) = "client" PROVE Answer(c) = "token"
  <2>1. c \in ClientCalls /\ c.page \in Listed
    BY <1>6 DEF Sender
  <2>2. IsOriginAllowed(c.page)
    BY <2>1 DEF Listed, IsOriginAllowed
  <2>3. Headers(c) \subseteq AllowHeaders
    BY <2>1 DEF Headers, ClientCalls, AllowHeaders, NoTokenType
  <2>4. HasToken(c)
    BY <2>1 DEF ClientCalls, HasToken, HeaderToken, CookieToken
  <2> QED
    BY <2>1, <2>2, <2>3, <2>4
       DEF Answer, BrowserSends, ClientCalls, AllowMethods, ContentTypeOK
<1> QED
  BY <1>1, <1>2, <1>3, <1>4, <1>5, <1>6

----------------------------------------------------------------------------
\* The whole chain.

\* A process that serves has its required settings; no call is in the chain of
\* one that does not serve; a validation goes by the provider the call names.
ChainInStep ==
  /\ config.phase = "serving" => config.issuer /\ config.audience
  /\ \A r \in Requests :
       /\ chain[r] # Away => config.phase = "serving"
       /\ chain[r].at = "token" => chain[r].provider \in Providers
       /\ req[r] # Idle => req[r].url = UrlOf(chain[r].provider)

AdmissionInv ==
  /\ CacheInv /\ AdmissionTypeOK /\ ChainInStep
  /\ ForeignPagesStayOut /\ ClientsGetThrough

\* Every step of the chain is a step of the cache, or leaves it alone.
LEMMA ChainStepsCache == [AdmissionNext]_admissionVars => [Next]_vars
<1> SUFFICES ASSUME [AdmissionNext]_admissionVars PROVE [Next]_vars
  OBVIOUS
<1>1. CASE \E r \in Requests : Authenticate(r)
  BY <1>1, AdmissionAssumption DEF Authenticate, UrlOf, Next
<1>2. CASE \E r \in Requests : FetchKeys(r) \/ Authenticated(r)
  BY <1>2 DEF FetchKeys, Authenticated, Next
<1>3. CASE \E r \in Requests :
             \/ CacheStep(RLock(r)) \/ CacheStep(Read(r)) \/ CacheStep(Lock(r))
             \/ CacheStep(Drained(r)) \/ CacheStep(Recheck(r))
             \/ CacheStep(FetchFails(r)) \/ CacheStep(Store(r))
  BY <1>3 DEF CacheStep, Next
<1>4. CASE \/ Start \/ UNCHANGED admissionVars
           \/ \E r \in Requests : Arrive(r) \/ Leave(r)
           \/ \E u \in Urls : ReplaceKey(u)
           \/ \E n \in 1 .. MaxFetches : Refresh(n)
  BY <1>4 DEF Start, Arrive, Leave, ReplaceKey, Refresh, admissionVars
<1> QED
  BY <1>1, <1>2, <1>3, <1>4 DEF AdmissionNext

\* A step of the cache that neither begins nor ends a validation.
LEMMA CacheStepsStay ==
  ASSUME CacheInv, NEW r \in Requests,
         \/ RLock(r) \/ Read(r) \/ Lock(r) \/ Drained(r) \/ Recheck(r)
         \/ Fetch(r) \/ FetchFails(r) \/ Store(r)
  PROVE  \A s \in Requests : req'[s] # Idle => req[s] # Idle /\ req'[s].url = req[s].url
<1> USE DEF CacheInv, TypeOK, Idle, Go
<1>1. CASE RLock(r) \/ Lock(r) \/ Drained(r) \/ FetchFails(r) \/ Store(r)
  BY <1>1 DEF RLock, Lock, Drained, FetchFails, Store
<1>2. CASE Read(r) \/ Recheck(r)
  <2>1. req[r] # Idle
    BY <1>2 DEF Read, Recheck
  <2>2. CASE \E pc, k : Takes(r, pc, k)
    BY <2>1, <2>2, TakesSet
  <2>3. CASE req' = [req EXCEPT ![r].pc = "fetch"]
    BY <2>1, <2>3
  <2> QED
    BY <1>2, <2>2 DEF Read, Recheck, Takes
<1>3. CASE Fetch(r)
  <2>1. PICK n \in 1 .. MaxFetches : req' = [req EXCEPT ![r].pc = "store", ![r].k = n]
    BY <1>3 DEF Fetch
  <2>2. req'[r].url = req[r].url /\ req[r] # Idle
    <3>1. req'[r] = [req[r] EXCEPT !.pc = "store", !.k = n]
      BY <2>1
    <3>2. req[r] # Idle
      <4>1. Idle.pc = "idle" /\ req[r].pc = "fetch"
        BY <1>3 DEF Fetch
      <4> HIDE DEF Idle
      <4> QED
        BY <4>1
    <3> HIDE DEF CacheInv, TypeOK, Idle, Go
    <3> QED
      BY <3>1, <3>2
  <2>3. \A s \in Requests \ {r} : req'[s] = req[s]
    BY <2>1
  <2> QED
    BY <2>2, <2>3
<1> QED
  BY <1>1, <1>2, <1>3

\* A request that moves keeps the provider it names.
LEMMA MoveSets ==
  ASSUME chain \in [Requests -> Link], NEW r \in Requests, NEW at, NEW t, Move(r, at, t)
  PROVE  chain' = [chain EXCEPT ![r] =
           [at |-> at, by |-> None, provider |-> chain[r].provider, token |-> t]]
<1>1. chain[r] = [at |-> chain[r].at, by |-> chain[r].by,
                  provider |-> chain[r].provider, token |-> chain[r].token]
  BY DEF Link, Away
<1>2. [[[chain[r] EXCEPT !.at = at] EXCEPT !.by = None] EXCEPT !.token = t]
        = [at |-> at, by |-> None, provider |-> chain[r].provider, token |-> t]
  <2> DEFINE x == chain[r]
  <2>1. [x EXCEPT !.at = at] = [at |-> at, by |-> x.by, provider |-> x.provider, token |-> x.token]
    BY <1>1
  <2>2. [[at |-> at, by |-> None, provider |-> x.provider, token |-> x.token] EXCEPT !.token = t]
          = [at |-> at, by |-> None, provider |-> x.provider, token |-> t]
    OBVIOUS
  <2> QED
    BY <2>1, <2>2
<1> QED
  BY <1>2 DEF Move

LEMMA PresentedAreTokens ==
  ASSUME signing \in [Urls -> Nat]
  PROVE  Presented \subseteq Token
<1> SUFFICES ASSUME NEW t \in Presented PROVE t \in Token
  OBVIOUS
<1>1. ASSUME t \in Forged PROVE t \in Token
  <2>1. \/ t \in [by : {None}, key : {0}, iss : Urls, forUs : BOOLEAN, live : BOOLEAN]
        \/ t \in [by : {None}, key : {0}, iss : {None}, forUs : {FALSE}, live : {FALSE}]
    BY <1>1 DEF Forged
  <2>2. CASE t \in [by : {None}, key : {0}, iss : Urls, forUs : BOOLEAN, live : BOOLEAN]
    BY <2>2 DEF Token
  <2>3. CASE t \in [by : {None}, key : {0}, iss : {None}, forUs : {FALSE}, live : {FALSE}]
    <3>1. t = [by |-> None, key |-> 0, iss |-> None, forUs |-> FALSE, live |-> FALSE]
      BY <2>3
    <3> QED
      BY <3>1 DEF Token
  <2> QED
    BY <2>1, <2>2, <2>3
<1>2. ASSUME NEW u \in Urls, t \in Issued(u) PROVE t \in Token
  <2>1. 1 .. signing[u] \subseteq Nat /\ {TRUE, u = default} \subseteq BOOLEAN
    OBVIOUS
  <2> QED
    BY <1>2, <2>1 DEF Issued, Token
<1> QED
  BY <1>1, <1>2 DEF Presented

\* What a provider has signed is what it says of itself; nothing else has a signer.
LEMMA SignedAreIssued ==
  ASSUME NEW t \in Presented, t.by \in Urls
  PROVE  t \in Issued(t.by) /\ t.iss = t.by
<1>1. t \notin Forged
  BY KeyCacheAssumption DEF Forged
<1>2. PICK u \in Urls : t \in Issued(u)
  BY <1>1 DEF Presented
<1>3. t.by = u /\ t.iss = u
  BY <1>2 DEF Issued
<1> QED
  BY <1>2, <1>3

LEMMA AdmissionStarts == AdmissionInit => AdmissionInv
<1> SUFFICES ASSUME AdmissionInit PROVE AdmissionInv
  OBVIOUS
<1>1. CacheInv
  BY CacheStarts DEF AdmissionInit
<1>2. AdmissionTypeOK
  BY <1>1, AdmissionAssumption
     DEF AdmissionInit, AdmissionTypeOK, CacheInv, Init, Config, Link, Away
<1>3. ChainInStep
  BY DEF AdmissionInit, Init, ChainInStep, Away
<1>4. ForeignPagesStayOut /\ ClientsGetThrough
  BY NoneAssumption
     DEF AdmissionInit, ForeignPagesStayOut, ClientsGetThrough, Away, Senders
<1> QED
  BY <1>1, <1>2, <1>3, <1>4 DEF AdmissionInv

\* One lemma for each step of the chain, from the start of the process to the refresh
\* of a key set.
LEMMA StartKeepsChain ==
  ASSUME AdmissionInv, Start
  PROVE  AdmissionInv'
<1>1. CacheInv'
  BY CacheInvKept, ChainStepsCache DEF AdmissionInv, AdmissionNext
<1> USE DEF AdmissionInv, AdmissionTypeOK, Start, ChainInStep
<1>2. PICK e \in Env :
         config' = IF ValidConfig(e) /\ ValidShareKey(e) /\ e.db
                     THEN [phase |-> "serving", issuer |-> e.issuer,
                           audience |-> e.audience, google |-> e.google]
                     ELSE [config EXCEPT !.phase = "exited"]
  OBVIOUS
<1>3. config' \in Config /\ (config'.phase = "serving" => config'.issuer /\ config'.audience)
  BY <1>2 DEF Env, Config, ValidConfig
<1>4. AdmissionTypeOK'
  <2>1. TypeOK'
    BY <1>1 DEF CacheInv
  <2>2. config' \in Config
    BY <1>3
  <2>3. \A s \in Requests : req'[s] # Idle => chain'[s].at = "auth"
    BY DEF vars
  <2> QED
    BY <2>1, <2>2, <2>3
<1>5. ChainInStep'
  BY <1>3 DEF vars
<1>6. ForeignPagesStayOut'
  BY DEF ForeignPagesStayOut
<1>7. ClientsGetThrough'
  BY DEF ClientsGetThrough
<1> QED
  BY <1>1, <1>4, <1>5, <1>6, <1>7

LEMMA ArriveKeepsChain ==
  ASSUME AdmissionInv, NEW r \in Requests, Arrive(r)
  PROVE  AdmissionInv'
<1>1. CacheInv'
  BY CacheInvKept, ChainStepsCache DEF AdmissionInv, AdmissionNext
<1> USE DEF AdmissionInv, AdmissionTypeOK, Arrive
<1>2. PICK a \in Arrivals :
         chain' = [chain EXCEPT ![r] =
           [at |-> a.at, by |-> a.by, provider |-> a.provider, token |-> None]]
  OBVIOUS
<1>3. /\ a.at \in Answers /\ a.by \in Senders
      /\ a.provider \in Providers \cup {"unread"}
      /\ a.at = "token" => a.provider \in Providers
      /\ a.by = "foreign" => a.at # "token"
      /\ a.by = "client" => a.at = "token"
  BY ArrivalsInOrder
<1>4. /\ chain'[r] = [at |-> a.at, by |-> a.by, provider |-> a.provider, token |-> None]
      /\ chain'[r] \in Link /\ chain'[r].at \in Answers
  BY <1>2, <1>3 DEF Link
<1>5. AdmissionTypeOK'
  <2>1. TypeOK'
    BY <1>1 DEF CacheInv
  <2>2. chain' \in [Requests -> Link]
    BY <1>4
  <2>3. \A s \in Requests : chain'[s].at = "limiter" => chain'[s].token # None
    BY <1>4 DEF Answers
  <2>4. \A s \in Requests : req'[s] # Idle => chain'[s].at = "auth"
    BY DEF vars, Away
  <2> QED
    BY <2>1, <2>2, <2>3, <2>4
<1>6. ChainInStep'
  BY <1>3, <1>4 DEF ChainInStep, vars, Away
<1>7. ForeignPagesStayOut'
  BY <1>3, <1>4 DEF ForeignPagesStayOut
<1>8. ClientsGetThrough'
  BY <1>3, <1>4 DEF ClientsGetThrough
<1> QED
  BY <1>1, <1>5, <1>6, <1>7, <1>8

LEMMA AuthenticateKeepsChain ==
  ASSUME AdmissionInv, NEW r \in Requests, Authenticate(r)
  PROVE  AdmissionInv'
<1>1. CacheInv'
  BY CacheInvKept, ChainStepsCache DEF AdmissionInv, AdmissionNext
<1> USE DEF AdmissionInv, AdmissionTypeOK, Authenticate
<1>2. chain[r].provider \in Providers /\ config.phase = "serving"
  BY DEF ChainInStep, Away
<1>3. /\ chain'[r].at \in {"auth", "refused"} /\ chain'[r].by = None
      /\ chain'[r].provider = chain[r].provider /\ chain'[r].token = None
      /\ chain' = [chain EXCEPT ![r] = chain'[r]] /\ chain'[r] \in Link
  <2>1. PICK at \in {"auth", "refused"} : Move(r, at, None)
    OBVIOUS
  <2>2. chain' = [chain EXCEPT ![r] =
          [at |-> at, by |-> None, provider |-> chain[r].provider, token |-> None]]
    BY <2>1, MoveSets
  <2> QED
    BY <1>2, <2>2 DEF Link
<1>4. /\ \A s \in Requests \ {r} : req'[s] = req[s]
      /\ chain'[r].at = "auth" => req'[r].url = UrlOf(chain'[r].provider)
      /\ chain'[r].at = "refused" => req'[r] = req[r]
  <2>1. CASE Configured(chain[r].provider)
    <3>1. Move(r, "auth", None) /\ Validate(r, UrlOf(chain[r].provider))
      BY <2>1
    <3>2. chain'[r].at = "auth"
      BY <3>1, MoveSets
    <3>3. req'[r].url = UrlOf(chain[r].provider) /\ \A s \in Requests \ {r} : req'[s] = req[s]
      BY <3>1 DEF Validate, TypeOK
    <3> QED
      BY <1>3, <3>2, <3>3
  <2>2. CASE ~Configured(chain[r].provider)
    <3>1. Move(r, "refused", None) /\ UNCHANGED vars
      BY <2>2
    <3>2. chain'[r].at = "refused"
      BY <3>1, MoveSets
    <3> QED
      BY <3>1, <3>2 DEF vars
  <2> QED
    BY <2>1, <2>2
<1>5. AdmissionTypeOK'
  <2>1. TypeOK'
    BY <1>1 DEF CacheInv
  <2>2. chain' \in [Requests -> Link]
    BY <1>3
  <2>3. \A s \in Requests : chain'[s].at = "limiter" => chain'[s].token # None
    BY <1>3
  <2>4. \A s \in Requests : req'[s] # Idle => chain'[s].at = "auth"
    BY <1>3, <1>4
  <2> QED
    BY <2>1, <2>2, <2>3, <2>4
<1>6. ChainInStep'
  BY <1>2, <1>3, <1>4 DEF ChainInStep
<1>7. ForeignPagesStayOut'
  BY <1>3 DEF ForeignPagesStayOut
<1>8. ClientsGetThrough'
  BY <1>3, NoneAssumption DEF ClientsGetThrough, Senders
<1> QED
  BY <1>1, <1>5, <1>6, <1>7, <1>8

LEMMA FetchKeysKeepsChain ==
  ASSUME AdmissionInv, NEW r \in Requests, FetchKeys(r)
  PROVE  AdmissionInv'
<1>1. CacheInv'
  BY CacheInvKept, ChainStepsCache DEF AdmissionInv, AdmissionNext
<1> USE DEF AdmissionInv, AdmissionTypeOK, FetchKeys
<1>2. \A s \in Requests : req'[s] # Idle => req[s] # Idle /\ req'[s].url = req[s].url
  BY CacheStepsStay
<1>3. AdmissionTypeOK'
  <2>1. TypeOK'
    BY <1>1 DEF CacheInv
  <2>2. \A s \in Requests : req'[s] # Idle => chain'[s].at = "auth"
    BY <1>2
  <2>3. keys' \in [1 .. MaxFetches -> SUBSET (Urls \X Nat)]
    <3>1. req[r].url \in Urls /\ signing[req[r].url] \in Nat
      BY DEF Fetch, CacheInv, RequestsInStep
    <3> QED
      BY <3>1
  <2> QED
    BY <2>1, <2>2, <2>3
<1>4. ChainInStep'
  BY <1>2 DEF ChainInStep
<1>5. ForeignPagesStayOut'
  BY DEF ForeignPagesStayOut
<1>6. ClientsGetThrough'
  BY DEF ClientsGetThrough
<1> QED
  BY <1>1, <1>3, <1>4, <1>5, <1>6

LEMMA CacheKeepsChain ==
  ASSUME AdmissionInv, NEW r \in Requests,
         \/ CacheStep(RLock(r)) \/ CacheStep(Read(r)) \/ CacheStep(Lock(r))
         \/ CacheStep(Drained(r)) \/ CacheStep(Recheck(r))
         \/ CacheStep(FetchFails(r)) \/ CacheStep(Store(r))
  PROVE  AdmissionInv'
<1>1. CacheInv'
  BY CacheInvKept, ChainStepsCache DEF AdmissionInv, AdmissionNext
<1> USE DEF AdmissionInv, AdmissionTypeOK, CacheStep
<1>2. \A s \in Requests : req'[s] # Idle => req[s] # Idle /\ req'[s].url = req[s].url
  BY CacheStepsStay
<1>3. AdmissionTypeOK'
  <2>1. TypeOK'
    BY <1>1 DEF CacheInv
  <2>2. \A s \in Requests : req'[s] # Idle => chain'[s].at = "auth"
    BY <1>2
  <2> QED
    BY <2>1, <2>2
<1>4. ChainInStep'
  BY <1>2 DEF ChainInStep
<1>5. ForeignPagesStayOut'
  BY DEF ForeignPagesStayOut
<1>6. ClientsGetThrough'
  BY DEF ClientsGetThrough
<1> QED
  BY <1>1, <1>3, <1>4, <1>5, <1>6

LEMMA AuthenticatedKeepsChain ==
  ASSUME AdmissionInv, NEW r \in Requests, Authenticated(r)
  PROVE  AdmissionInv'
<1>1. CacheInv'
  BY CacheInvKept, ChainStepsCache DEF AdmissionInv, AdmissionNext
<1> USE DEF AdmissionInv, AdmissionTypeOK, Authenticated
<1>2. PICK t \in Presented : Move(r, IF Accepted(r, t) THEN "limiter" ELSE "refused", t)
  OBVIOUS
<1>3. t \in Token
  BY PresentedAreTokens
<1>4. \A s \in Requests \ {r} : chain'[s] = chain[s] /\ req'[s] = req[s]
  BY DEF Move, Parse
<1>5. req'[r] = Idle /\ req[r] # Idle
  BY DEF Parse, TypeOK, Idle
<1>6. chain[r].at = "auth" /\ chain[r].provider \in Providers /\ config.phase = "serving"
  <2>1. chain[r].at = "auth" /\ chain[r] # Away
    BY <1>5 DEF Away
  <2>2. chain[r].provider \in Providers
    BY <2>1 DEF Link, Answers
  <2> QED
    BY <2>1, <2>2 DEF ChainInStep
<1>7. /\ chain'[r].at = IF Accepted(r, t) THEN "limiter" ELSE "refused"
      /\ chain'[r].by = None /\ chain'[r].provider = chain[r].provider /\ chain'[r].token = t
      /\ chain' = [chain EXCEPT ![r] = chain'[r]] /\ chain'[r] \in Link
  <2>1. chain' = [chain EXCEPT ![r] =
          [at |-> IF Accepted(r, t) THEN "limiter" ELSE "refused", by |-> None,
           provider |-> chain[r].provider, token |-> t]]
    BY <1>2, MoveSets
  <2> QED
    BY <1>3, <1>6, <2>1 DEF Link
<1>8. AdmissionTypeOK'
  <2>1. TypeOK'
    BY <1>1 DEF CacheInv
  <2>2. chain' \in [Requests -> Link]
    BY <1>7
  <2>3. \A s \in Requests : chain'[s].at = "limiter" => chain'[s].token # None
    BY <1>3, <1>7, NoneAssumption
  <2>4. \A s \in Requests : req'[s] # Idle => chain'[s].at = "auth"
    BY <1>4, <1>5
  <2> QED
    BY <2>1, <2>2, <2>3, <2>4
<1>9. ChainInStep'
  BY <1>4, <1>5, <1>7, <1>6 DEF ChainInStep
<1>10. ForeignPagesStayOut'
  BY <1>7 DEF ForeignPagesStayOut
<1>11. ClientsGetThrough'
  BY <1>7, NoneAssumption DEF ClientsGetThrough, Senders
<1> QED
  BY <1>1, <1>8, <1>9, <1>10, <1>11

LEMMA LeaveKeepsChain ==
  ASSUME AdmissionInv, NEW r \in Requests, Leave(r)
  PROVE  AdmissionInv'
<1>1. CacheInv'
  BY CacheInvKept, ChainStepsCache DEF AdmissionInv, AdmissionNext
<1> USE DEF AdmissionInv, AdmissionTypeOK, Leave
<1>2. chain'[r] = Away /\ chain'[r] \in Link
  BY DEF Link
<1>3. AdmissionTypeOK'
  <2>1. TypeOK'
    BY <1>1 DEF CacheInv
  <2>2. chain' \in [Requests -> Link]
    BY <1>2
  <2>3. \A s \in Requests : chain'[s].at = "limiter" => chain'[s].token # None
    BY DEF Away
  <2>4. \A s \in Requests : req'[s] # Idle => chain'[s].at = "auth"
    BY DEF vars, Answers
  <2> QED
    BY <2>1, <2>2, <2>3, <2>4
<1>4. ChainInStep'
  BY DEF ChainInStep, vars, Away, Answers
<1>5. ForeignPagesStayOut'
  BY DEF ForeignPagesStayOut, Away
<1>6. ClientsGetThrough'
  BY NoneAssumption DEF ClientsGetThrough, Senders, Away
<1> QED
  BY <1>1, <1>3, <1>4, <1>5, <1>6

LEMMA ReplaceKeyKeepsChain ==
  ASSUME AdmissionInv, NEW u \in Urls, ReplaceKey(u)
  PROVE  AdmissionInv'
<1>1. CacheInv'
  BY CacheInvKept, ChainStepsCache DEF AdmissionInv, AdmissionNext
<1> USE DEF AdmissionInv, AdmissionTypeOK, ReplaceKey
<1>2. AdmissionTypeOK'
  <2>1. TypeOK'
    BY <1>1 DEF CacheInv
  <2>2. \A s \in Requests : req'[s] # Idle => chain'[s].at = "auth"
    BY DEF vars
  <2>3. signing' \in [Urls -> Nat] /\ \A v \in Urls : signing'[v] \in 1 .. MaxKeys[v]
    BY AdmissionAssumption
  <2> QED
    BY <2>1, <2>2, <2>3
<1>3. ChainInStep'
  BY DEF ChainInStep, vars
<1>4. ForeignPagesStayOut'
  BY DEF ForeignPagesStayOut
<1>5. ClientsGetThrough'
  BY DEF ClientsGetThrough
<1> QED
  BY <1>1, <1>2, <1>3, <1>4, <1>5

LEMMA RefreshKeepsChain ==
  ASSUME AdmissionInv, NEW n \in 1 .. MaxFetches, Refresh(n)
  PROVE  AdmissionInv'
<1>1. CacheInv'
  BY CacheInvKept, ChainStepsCache DEF AdmissionInv, AdmissionNext
<1> USE DEF AdmissionInv, AdmissionTypeOK, Refresh
<1>2. AdmissionTypeOK'
  <2>1. TypeOK'
    BY <1>1 DEF CacheInv
  <2>2. \A s \in Requests : req'[s] # Idle => chain'[s].at = "auth"
    BY DEF vars
  <2>3. keys' \in [1 .. MaxFetches -> SUBSET (Urls \X Nat)]
    <3>1. fetched[n] \in Urls /\ signing[fetched[n]] \in Nat
      BY DEF TypeOK, Refreshed, Made
    <3> QED
      BY <3>1
  <2> QED
    BY <2>1, <2>2, <2>3
<1>3. ChainInStep'
  BY DEF ChainInStep, vars
<1>4. ForeignPagesStayOut'
  BY DEF ForeignPagesStayOut
<1>5. ClientsGetThrough'
  BY DEF ClientsGetThrough
<1> QED
  BY <1>1, <1>2, <1>3, <1>4, <1>5

LEMMA AdmissionInvKept == AdmissionInv /\ [AdmissionNext]_admissionVars => AdmissionInv'
<1> SUFFICES ASSUME AdmissionInv, [AdmissionNext]_admissionVars PROVE AdmissionInv'
  OBVIOUS
<1>1. CASE UNCHANGED admissionVars
  <2>1. CacheInv'
    BY <1>1, CacheInvKept DEF AdmissionInv, admissionVars
  <2> QED
    BY <1>1, <2>1
       DEF AdmissionInv, admissionVars, vars, CacheInv, AdmissionTypeOK, ChainInStep,
      ForeignPagesStayOut, ClientsGetThrough
<1>2. CASE AdmissionNext
  <2>1. CASE Start
    BY <2>1, StartKeepsChain
  <2>2. CASE \E r \in Requests :
               Arrive(r) \/ Authenticate(r) \/ FetchKeys(r) \/ Authenticated(r) \/ Leave(r)
    BY <2>2, ArriveKeepsChain, AuthenticateKeepsChain, FetchKeysKeepsChain,
      AuthenticatedKeepsChain, LeaveKeepsChain
  <2>3. CASE \E r \in Requests :
               \/ CacheStep(RLock(r)) \/ CacheStep(Read(r)) \/ CacheStep(Lock(r))
               \/ CacheStep(Drained(r)) \/ CacheStep(Recheck(r))
               \/ CacheStep(FetchFails(r)) \/ CacheStep(Store(r))
    BY <2>3, CacheKeepsChain
  <2>4. CASE \E u \in Urls : ReplaceKey(u)
    BY <2>4, ReplaceKeyKeepsChain
  <2>5. CASE \E n \in 1 .. MaxFetches : Refresh(n)
    BY <2>5, RefreshKeepsChain
  <2> QED
    BY <1>2, <2>1, <2>2, <2>3, <2>4, <2>5 DEF AdmissionNext
<1> QED
  BY <1>1, <1>2

----------------------------------------------------------------------------
\* The theorems.

LEMMA AdmissionCorrect == AdmissionSpec => []AdmissionInv
PROOF BY AdmissionStarts, AdmissionInvKept, PTL DEF AdmissionSpec

\* The cache under the chain is the cache: what is proved of it alone holds here.
THEOREM ChainUsesCache == AdmissionSpec => Spec
<1>1. AdmissionInit => Init
  BY DEF AdmissionInit
<1> QED
  BY <1>1, ChainStepsCache, PTL DEF AdmissionSpec, Spec

\* The configuration, the place of every call in the chain, the keys of providers
\* and the sets fetched keep their types, for any number of requests, fetches and keys.
THEOREM TypesKept == AdmissionSpec => []AdmissionTypeOK
<1>1. AdmissionInv => AdmissionTypeOK
  BY DEF AdmissionInv
<1> QED
  BY AdmissionCorrect, <1>1, PTL

\* The browser and the chain between them stop the scripts of every page that
\* ALLOWED_ORIGINS does not list, whatever call they make (corsMiddleware, getToken).
THEOREM ForeignStayOut == AdmissionSpec => []ForeignPagesStayOut
<1>1. AdmissionInv => ForeignPagesStayOut
  BY DEF AdmissionInv
<1> QED
  BY AdmissionCorrect, <1>1, PTL

\* The headers that Openfort._makeRequest sends are all allowed to every listed
\* page, and its token is delivered as getToken wants it.
THEOREM ClientsServed == AdmissionSpec => []ClientsGetThrough
<1>1. AdmissionInv => ClientsGetThrough
  BY DEF AdmissionInv
<1> QED
  BY AdmissionCorrect, <1>1, PTL

\* A request that comes to the limiter carries a token that was looked at.
LEMMA AdmissionsAreSigned ==
  ASSUME AdmissionInv, [AdmissionNext]_admissionVars,
         NEW r \in Requests, chain[r].at # "limiter", chain'[r].at = "limiter",
         NEW t, t = chain'[r].token, NEW u, u = UrlOf(chain[r].provider)
  PROVE  /\ t \in Issued(u) /\ t.forUs /\ t.live
         /\ keys[jwkCache[u]] = {<<u, signing[u]>>} => t.key = signing[u]
<1> USE DEF AdmissionInv, AdmissionTypeOK
<1>1. CASE Authenticated(r)
  <2>1. PICK x \in Presented : Move(r, IF Accepted(r, x) THEN "limiter" ELSE "refused", x)
    BY <1>1 DEF Authenticated
  <2>2. x = t /\ Accepted(r, t)
    BY <2>1, MoveSets
  <2>3. req[r].pc = "parse" /\ <<t.by, t.key>> \in keys[req[r].k]
    BY <2>2 DEF Accepted, Signed
  <2>4. t.iss = req[r].url /\ t.forUs /\ t.live
    BY <2>2 DEF Accepted, Claims
  <2>5. req[r].url = u /\ u \in Urls
    BY <2>3, AdmissionAssumption DEF ChainInStep, Idle, UrlOf
  <2>6. req[r].k = jwkCache[u] /\ req[r].k # None
    BY <2>3, <2>5 DEF CacheInv, RequestsInStep
  <2>7. t.by = u /\ t \in Issued(u)
    <3>1. t.by \in Urls
      <4>1. req[r].k \in 1 .. MaxFetches
        BY <2>5, <2>6 DEF CacheInv, MadeIsKept, Made
      <4> QED
        BY <4>1, <2>3
    <3> QED
      BY <3>1, <2>1, <2>2, <2>4, <2>5, SignedAreIssued
  <2> QED
    BY <2>3, <2>4, <2>6, <2>7
<1>2. CASE Arrive(r)
  <2>1. PICK a \in Arrivals :
          chain' = [chain EXCEPT ![r] =
            [at |-> a.at, by |-> a.by, provider |-> a.provider, token |-> None]]
    BY <1>2 DEF Arrive
  <2> QED
    BY <2>1, ArrivalsInOrder DEF Answers
<1>3. CASE Authenticate(r)
  <2>1. PICK at \in {"auth", "refused"} : Move(r, at, None)
    BY <1>3 DEF Authenticate
  <2> QED
    BY <2>1, MoveSets
<1>4. CASE Leave(r)
  BY <1>4 DEF Leave, Away
<1>5. ASSUME NEW s \in Requests, s # r,
             \/ Arrive(s) \/ Authenticate(s) \/ Authenticated(s) \/ Leave(s)
      PROVE  chain'[r] = chain[r]
  BY <1>5 DEF Arrive, Authenticate, Authenticated, Leave, Move
<1>6. CASE \/ Start \/ UNCHANGED admissionVars
           \/ \E s \in Requests :
                \/ FetchKeys(s)
                \/ CacheStep(RLock(s)) \/ CacheStep(Read(s)) \/ CacheStep(Lock(s))
                \/ CacheStep(Drained(s)) \/ CacheStep(Recheck(s))
                \/ CacheStep(FetchFails(s)) \/ CacheStep(Store(s))
           \/ \E v \in Urls : ReplaceKey(v)
           \/ \E n \in 1 .. MaxFetches : Refresh(n)
  BY <1>6 DEF Start, FetchKeys, CacheStep, ReplaceKey, Refresh, admissionVars
<1> QED
  BY <1>1, <1>2, <1>3, <1>4, <1>5, <1>6 DEF AdmissionNext

\* A token opens the door only if the provider that the call names signed it, for
\* this deployment and in time; a forged one never does, whatever it claims, and one
\* signed with a replaced key no longer does once the key set has caught up (validate).
THEOREM OnlyOurTokens == AdmissionSpec => AdmittedForUs
<1> DEFINE Admitted ==
      \A r \in Requests :
        LET t == chain'[r].token
            u == UrlOf(chain[r].provider)
        IN chain[r].at # "limiter" /\ chain'[r].at = "limiter" =>
             /\ t \in Issued(u) /\ t.forUs /\ t.live
             /\ keys[jwkCache[u]] = {<<u, signing[u]>>} => t.key = signing[u]
<1>1. AdmissionInv /\ [AdmissionNext]_admissionVars => [Admitted]_admissionVars
  BY AdmissionsAreSigned
<1> QED
  BY <1>1, AdmissionCorrect, PTL DEF AdmissionSpec, AdmittedForUs

\* A request that becomes refused was looked at in validateAuth.
LEMMA RefusalsHaveCauses ==
  ASSUME AdmissionInv, [AdmissionNext]_admissionVars,
         NEW r \in Requests, chain[r].at # "refused", chain'[r].at = "refused"
  PROVE  \/ ~InUse(chain[r].provider)
         \/ req[r].pc = "refused"
         \/ /\ chain'[r].token # None
            /\ \/ chain'[r].token.by # UrlOf(chain[r].provider)
               \/ ~chain'[r].token.forUs
               \/ ~chain'[r].token.live
               \/ <<UrlOf(chain[r].provider), chain'[r].token.key>>
                    \notin keys[jwkCache[UrlOf(chain[r].provider)]]
<1> USE DEF AdmissionInv, AdmissionTypeOK
<1>1. CASE Authenticate(r)
  <2>1. chain[r].provider \in Providers /\ config.issuer /\ config.audience
    BY <1>1 DEF ChainInStep, Authenticate, Away
  <2>2. ~Configured(chain[r].provider)
    <3>1. CASE Move(r, "auth", None)
      BY <3>1, MoveSets
    <3> QED
      BY <1>1, <3>1 DEF Authenticate
  <2> QED
    BY <2>1, <2>2 DEF Configured, InUse
<1>2. CASE Authenticated(r)
  <2>1. PICK t \in Presented : Move(r, IF Accepted(r, t) THEN "limiter" ELSE "refused", t)
    BY <1>2 DEF Authenticated
  <2>2. chain'[r].token = t /\ ~Accepted(r, t)
    BY <2>1, MoveSets
  <2>3. t # None
    BY NoneAssumption, PresentedAreTokens
  <2>4. req[r].pc \in {"parse", "refused"} /\ req[r].url = UrlOf(chain[r].provider)
    BY <1>2 DEF Authenticated, Parse, Idle, ChainInStep
  <2>5. req[r].pc = "parse" => req[r].k = jwkCache[req[r].url]
    BY DEF CacheInv, RequestsInStep
  <2>6. CASE req[r].pc = "parse" /\ t.by = req[r].url /\ t.forUs /\ t.live
    <3>1. t.iss = req[r].url
      BY <2>4, <2>6, AdmissionAssumption, SignedAreIssued DEF UrlOf
    <3> QED
      BY <3>1, <2>2, <2>3, <2>4, <2>5, <2>6 DEF Accepted, Claims, Signed
  <2> QED
    BY <2>2, <2>3, <2>4, <2>6
<1>3. CASE Arrive(r)
  <2>1. PICK a \in Arrivals :
          chain' = [chain EXCEPT ![r] =
            [at |-> a.at, by |-> a.by, provider |-> a.provider, token |-> None]]
    BY <1>3 DEF Arrive
  <2> QED
    BY <2>1, ArrivalsInOrder DEF Answers
<1>4. CASE Leave(r)
  BY <1>4 DEF Leave, Away
<1>5. ASSUME NEW s \in Requests, s # r,
             \/ Arrive(s) \/ Authenticate(s) \/ Authenticated(s) \/ Leave(s)
      PROVE  chain'[r] = chain[r]
  BY <1>5 DEF Arrive, Authenticate, Authenticated, Leave, Move
<1>6. CASE \/ Start \/ UNCHANGED admissionVars
           \/ \E s \in Requests :
                \/ FetchKeys(s)
                \/ CacheStep(RLock(s)) \/ CacheStep(Read(s)) \/ CacheStep(Lock(s))
                \/ CacheStep(Drained(s)) \/ CacheStep(Recheck(s))
                \/ CacheStep(FetchFails(s)) \/ CacheStep(Store(s))
           \/ \E u \in Urls : ReplaceKey(u)
           \/ \E n \in 1 .. MaxFetches : Refresh(n)
  BY <1>6 DEF Start, FetchKeys, CacheStep, ReplaceKey, Refresh, admissionVars
<1> QED
  BY <1>1, <1>2, <1>3, <1>4, <1>5, <1>6 DEF AdmissionNext

\* A good token is refused only when the key set of its provider could not be had
\* or is that of another time; and a process that serves always has the provider
\* "default" (validateConfig, validateAuth).
THEOREM RefusalHasCause == AdmissionSpec => RefusedForCause
<1> DEFINE Caused ==
      \A r \in Requests :
        LET p == chain[r].provider
            t == chain'[r].token
            u == UrlOf(p)
        IN chain[r].at # "refused" /\ chain'[r].at = "refused" =>
             \/ ~InUse(p)
             \/ req[r].pc = "refused"
             \/ /\ t # None
                /\ \/ t.by # u \/ ~t.forUs \/ ~t.live
                   \/ <<u, t.key>> \notin keys[jwkCache[u]]
<1>1. AdmissionInv /\ [AdmissionNext]_admissionVars => [Caused]_admissionVars
  BY RefusalsHaveCauses
<1> QED
  BY <1>1, AdmissionCorrect, PTL DEF AdmissionSpec, RefusedForCause
=============================================================================
