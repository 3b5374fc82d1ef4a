----------------------------- MODULE Admission ------------------------------
(***************************************************************************)
(* How a request comes to a handler of hot storage: the process reads its  *)
(* configuration and starts to serve; a call passes the stateless part of  *)
(* the chain (RequestChain); its token is validated with the key set of    *)
(* the provider it names (KeyCache); then it is the rate limiter's turn.   *)
(*                                                                         *)
(* Providers replace their signing keys; a cached key set is what the      *)
(* provider published at its fetch, or at the library's last refresh.      *)
(***************************************************************************)
EXTENDS KeyCache, RequestChain

CONSTANTS
  default, google,   \* the two addresses of key sets
  MaxKeys            \* bound: signing keys that each provider ever has

ASSUME AdmissionAssumption == Urls = {default, google} /\ MaxKeys \in [Urls -> Nat \ {0}]

VARIABLES
  config,     \* the process: its phase and the settings it serves with
  chain,      \* where each request is in the chain, and what it carries
  signing,    \* the key each provider signs with and publishes
  keys        \* the keys in the set of each fetch

admissionVars == <<vars, config, chain, signing, keys>>

\* A token: who signed it and with which key; and what its claims say, which is the
\* provider's word only if the provider signed: the issuer, whether it is for this
\* application, and whether it is in time.
Token ==
  [by : Urls \cup {None}, key : Nat, iss : Urls \cup {None}, forUs : BOOLEAN, live : BOOLEAN]

\* A provider puts its own name.  The auth service mints for this deployment only.
Issued(u) ==
  [by : {u}, key : 1 .. signing[u], iss : {u}, forUs : {TRUE, u = default}, live : BOOLEAN]

\* Signed with a key no provider ever had, and claiming anything; a publishable key
\* sent as a token claims nothing.
Forged ==
  [by : {None}, key : {0}, iss : Urls, forUs : BOOLEAN, live : BOOLEAN]
    \cup [by : {None}, key : {0}, iss : {None}, forUs : {FALSE}, live : {FALSE}]

Presented == Forged \cup UNION {Issued(u) : u \in Urls}

Config ==
  [phase : {"starting", "serving", "exited"},
   issuer : BOOLEAN, audience : BOOLEAN, google : BOOLEAN]

Answers == {"held", "preflight", "unsupported", "unauthorized", "token"}

Senders == {"client", "script", "foreign", "native"}

Providers == {"default", "google", "playfab"}

ASSUME NoneAssumption == None \notin Token \cup Senders

Away == [at |-> "away", by |-> None, provider |-> None, token |-> None]

\* Where a request is: with its client, at an answer of the stateless part, or
\* past it, with the token once it was looked at.
Link ==
  {Away}
    \cup [at : Answers, by : Senders, provider : Providers \cup {"unread"}, token : {None}]
    \cup [at : {"auth", "limiter", "refused"}, by : {None},
          provider : Providers, token : Token \cup {None}]

AdmissionTypeOK ==
  /\ TypeOK
  /\ config \in Config
  /\ chain \in [Requests -> Link]
  /\ \A r \in Requests :
       /\ chain[r].at = "limiter" => chain[r].token # None
       /\ req[r] # Idle => chain[r].at = "auth"
  /\ signing \in [Urls -> Nat]
  /\ \A u \in Urls : signing[u] \in 1 .. MaxKeys[u]
  /\ keys \in [1 .. MaxFetches -> SUBSET (Urls \X Nat)]

Move(r, at, t) ==
  chain' = [chain EXCEPT ![r].at = at, ![r].by = None, ![r].token = t]

----------------------------------------------------------------------------
\* The environment of the process; "http" stands for every scheme but https.

Env ==
  [url : {"unset", "unparsable", "http", "https"}, allowInsecure : BOOLEAN,
   issuer : BOOLEAN, audience : BOOLEAN, google : BOOLEAN,
   shareKey : {"unset", "not hex", "not 32 bytes", "32 bytes"}, db : BOOLEAN]

\* Slip: the issuer may be missing.
NeedsNoIssuer(e) ==
  /\ e.url \in {"http", "https"}
  /\ e.url = "https" \/ e.allowInsecure
  /\ e.audience

\* validateConfig.  GOOGLE_JWT_AUDIENCE may be missing: no Google tokens then.
ValidConfig(e) ==
  /\ e.url \in {"http", "https"}
  /\ e.url = "https" \/ e.allowInsecure
  /\ e.issuer /\ e.audience

\* initEncryptionKey.
ValidShareKey(e) == e.shareKey = "32 bytes"

\* main: each check in turn, or the process exits; of initDB and
\* assertSharesAreBound only the outcome matters here.
Start ==
  /\ config.phase = "starting"
  /\ \E e \in Env :
       config' = IF ValidConfig(e) /\ ValidShareKey(e) /\ e.db
                   THEN [phase |-> "serving", issuer |-> e.issuer,
                         audience |-> e.audience, google |-> e.google]
                   ELSE [config EXCEPT !.phase = "exited"]
  /\ UNCHANGED <<vars, chain, signing, keys>>

----------------------------------------------------------------------------
\* A call comes to the stateless part of the chain, or is held by the browser.
Arrive(r) ==
  /\ config.phase = "serving"
  /\ chain[r] = Away
  /\ \E a \in Arrivals :
       chain' = [chain EXCEPT ![r] =
         [at |-> a.at, by |-> a.by, provider |-> a.provider, token |-> None]]
  /\ UNCHANGED <<vars, config, signing, keys>>

\* validateAuth: the provider the call names, if the deployment has it, and the
\* claims it must have.
Configured(p) ==
  CASE p = "default" -> config.issuer /\ config.audience
    [] p = "google"  -> config.google
    [] OTHER         -> FALSE

UrlOf(p) == IF p = "default" THEN default ELSE google

Authenticate(r) ==
  LET p == chain[r].provider IN
    /\ chain[r].at = "token"
    /\ IF Configured(p)
         THEN Validate(r, UrlOf(p)) /\ Move(r, "auth", None)
         ELSE Move(r, "refused", None) /\ UNCHANGED vars
    /\ UNCHANGED <<config, signing, keys>>

CacheStep(A) == A /\ UNCHANGED <<config, chain, signing, keys>>

\* The set fetched is the one published, or empty when the provider did not
\* answer: the library then tries again at its next refresh.
FetchKeys(r) ==
  /\ Fetch(r)
  /\ \E n \in 1 .. MaxFetches :
       /\ fetched[n] = None /\ fetched'[n] # None
       /\ \E set \in {{}, {<<req[r].url, signing[req[r].url]>>}} : keys' = [keys EXCEPT ![n] = set]
  /\ UNCHANGED <<config, chain, signing>>

\* WithIssuer, WithAudience, WithExpirationRequired.
Claims(t, u) == t.iss = u /\ t.forUs /\ t.live

\* Slip: the token is parsed and its signature not looked at.
AnySignature(r, t) == TRUE

\* The key that the set found has under the token's key id verifies it.
Signed(r, t) == <<t.by, t.key>> \in keys[req[r].k]

\* validate: signature and claims; authMiddleware passes the subject on.
Accepted(r, t) ==
  /\ req[r].pc = "parse"
  /\ Signed(r, t)
  /\ Claims(t, req[r].url)

\* The token is looked at here for the first time, so it is chosen here.
Authenticated(r) ==
  /\ Parse(r)
  /\ \E t \in Presented : Move(r, IF Accepted(r, t) THEN "limiter" ELSE "refused", t)
  /\ UNCHANGED <<config, signing, keys>>

\* The request is answered.
Leave(r) ==
  /\ chain[r].at \in (Answers \ {"token"}) \cup {"refused", "limiter"}
  /\ chain' = [chain EXCEPT ![r] = Away]
  /\ UNCHANGED <<vars, config, signing, keys>>

----------------------------------------------------------------------------
\* The provider's keys are deleted, and it makes a new one.
ReplaceKey(u) ==
  /\ signing[u] < MaxKeys[u]
  /\ signing' = [signing EXCEPT ![u] = @ + 1]
  /\ UNCHANGED <<vars, config, chain, keys>>

\* Slip: a key set is fetched once and for all.
NeverRefreshed(n) == FALSE

\* keyfunc.NewDefault starts a goroutine that refreshes the set for ever.
Refreshed(n) == n \in Made

Refresh(n) ==
  /\ Refreshed(n)
  /\ keys' = [keys EXCEPT ![n] = {<<fetched[n], signing[fetched[n]]>>}]
  /\ UNCHANGED <<vars, config, chain, signing>>

AdmissionInit ==
  /\ Init
  /\ config = [phase |-> "starting", issuer |-> FALSE, audience |-> FALSE, google |-> FALSE]
  /\ chain = [r \in Requests |-> Away]
  /\ signing = [u \in Urls |-> 1]
  /\ keys = [n \in 1 .. MaxFetches |-> {}]

AdmissionNext ==
  \/ Start
  \/ \E r \in Requests :
       \/ Arrive(r) \/ Authenticate(r) \/ FetchKeys(r) \/ Authenticated(r) \/ Leave(r)
       \/ CacheStep(RLock(r)) \/ CacheStep(Read(r)) \/ CacheStep(Lock(r)) \/ CacheStep(Drained(r))
       \/ CacheStep(Recheck(r)) \/ CacheStep(FetchFails(r)) \/ CacheStep(Store(r))
  \/ \E u \in Urls : ReplaceKey(u)
  \/ \E n \in 1 .. MaxFetches : Refresh(n)

AdmissionSpec == AdmissionInit /\ [][AdmissionNext]_admissionVars

\* The fairness of KeyCache for a request under way, and a refresh that happens
\* again and again.
FairAdmission ==
  /\ AdmissionSpec
  /\ \A r \in Requests :
       /\ SF_admissionVars(CacheStep(RLock(r))) /\ SF_admissionVars(CacheStep(Lock(r)))
       /\ WF_admissionVars(CacheStep(Read(r)) \/ CacheStep(Drained(r)) \/ CacheStep(Recheck(r))
                             \/ CacheStep(Store(r)) \/ CacheStep(FetchFails(r)) \/ FetchKeys(r))
  /\ \A n \in 1 .. MaxFetches : WF_admissionVars(Refresh(n))

----------------------------------------------------------------------------
\* Whatever a script of an unlisted page sends, with the cookies of the user's
\* session or without, the browser holds back or the chain refuses: it never gets
\* a token validated.
ForeignPagesStayOut ==
  \A r \in Requests : chain[r].by = "foreign" => chain[r].at # "token"

\* No call of a listed page's own client fails at its preflight, its content type
\* or the delivery of its token.
ClientsGetThrough ==
  \A r \in Requests : chain[r].by = "client" => chain[r].at = "token"

\* Whatever a token claims, it opens the door only if the provider that the call
\* names has signed it, for this deployment and in time, with a key it published; and
\* once the key set of that provider has caught up, with no key the provider has
\* replaced, whichever request fetched the set and whenever.
AdmittedForUs ==
  [][\A r \in Requests :
       LET t == chain'[r].token
           u == UrlOf(chain[r].provider)
       IN chain[r].at # "limiter" /\ chain'[r].at = "limiter" =>
            /\ t \in Issued(u) /\ t.forUs /\ t.live
            /\ keys[jwkCache[u]] = {<<u, signing[u]>>} => t.key = signing[u] ]_admissionVars

InUse(p) == p = "default" \/ (p = "google" /\ config.google)

\* A token of the provider the call names, for this deployment and in time, is
\* refused only when the provider's key set could not be had, or is that of
\* another time; and the auth service is a provider of every process that serves.
RefusedForCause ==
  [][\A r \in Requests :
       LET p == chain[r].provider
           t == chain'[r].token
           u == UrlOf(p)
       IN chain[r].at # "refused" /\ chain'[r].at = "refused" =>
            \/ ~InUse(p)
            \/ req[r].pc = "refused"
            \/ /\ t # None
               /\ \/ t.by # u \/ ~t.forUs \/ ~t.live
                  \/ <<u, t.key>> \notin keys[jwkCache[u]] ]_admissionVars

\* What is cached for a provider comes to be the keys it publishes: replaced keys
\* stop to open the door, new ones open it.
KeysCatchUp ==
  \A u \in Urls :
    jwkCache[u] # None ~> jwkCache[u] # None /\ keys[jwkCache[u]] = {<<u, signing[u]>>}
=============================================================================
