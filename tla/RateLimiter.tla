---------------------------- MODULE RateLimiter ----------------------------
(***************************************************************************)
(* The per-user rate limiter: the visitor map under its mutex, the token   *)
(* bucket of each visitor, and the goroutine that evicts idle visitors.    *)
(*                                                                         *)
(* Time is counted in ticks of one token (100 ms at 10 requests a second), *)
(* so tokens are whole; what a request does takes no time unless a tick    *)
(* falls between its steps.                                                *)
(***************************************************************************)
EXTENDS Naturals, Sequences

CONSTANTS
  Users,
  Goroutines,   \* requests in flight
  Burst,        \* rateLimitBurst
  TTL,          \* rateLimitVisitorTTL
  SweepEvery,   \* rateLimitSweepEvery
  MaxHold,      \* longest time a request holds the mutex
  MaxDelay,     \* longest time the sweeper is late, and waits for the mutex
  MaxTime,      \* bound: the clock stops here
  None

\* The lifetime of an idle visitor covers a refill of its whole bucket: 6000
\* ticks for a burst of 20.
ASSUME LifetimeAssumption ==
  /\ Burst \in Nat \ {0} /\ TTL \in Nat /\ MaxHold \in Nat
  /\ Burst + MaxHold <= TTL

ASSUME SweepAssumption ==
  SweepEvery \in Nat \ {0} /\ MaxDelay \in Nat /\ MaxDelay <= SweepEvery

ASSUME UsersAssumption ==
  /\ None \notin Users \cup Goroutines
  /\ None \notin [tokens : 0 .. Burst, last : Nat, lastSeen : Nat]
  /\ MaxTime \in Nat

VARIABLES
  now,
  visitors,     \* rl.visitors; None where the map has no entry
  mu,           \* the goroutine that holds rl.mu
  req,          \* the request each goroutine handles
  sweep,        \* the sweeper: its cutoff taken at `taken', ticker due at `due'
  grants        \* history: when each user's requests were let through

vars == <<now, visitors, mu, req, sweep, grants>>

Visitor == [tokens : 0 .. Burst, last : Nat, lastSeen : Nat]

Places == {"idle", "waiting", "locked", "next", "throttled", "unauthorized"}

Request == [pc : Places, user : Users \cup {None}]

TypeOK ==
  /\ now \in 0 .. MaxTime
  /\ visitors \in [Users -> Visitor \cup {None}]
  /\ mu \in Goroutines \cup {None}
  /\ req \in [Goroutines -> Request]
  /\ sweep \in [on : BOOLEAN, taken : Nat, due : Nat]
  /\ grants \in [Users -> Seq(Nat)]

----------------------------------------------------------------------------
Lesser(a, b) == IF a < b THEN a ELSE b

\* rate.Limiter.advance: what the bucket holds at the current time.
Available(v) == Lesser(Burst, v.tokens + (now - v.last))

Move(g, pc) == req' = [req EXCEPT ![g].pc = pc]

\* A request reaches the middleware, with or without a subject in its context.
Ask(g) ==
  /\ req[g].pc = "idle"
  /\ \/ \E u \in Users : req' = [req EXCEPT ![g] = [pc |-> "waiting", user |-> u]]
     \/ Move(g, "unauthorized")
  /\ UNCHANGED <<now, visitors, mu, sweep, grants>>

NewVisitor == [tokens |-> Burst, last |-> now, lastSeen |-> now]

\* Slip: a limiter is made for every request, not only for a new visitor.
AlwaysNew(v) == NewVisitor

\* The entry of the map after the lookup: lastSeen is read from the clock here.
Seen(v) == IF v = None THEN NewVisitor ELSE [v EXCEPT !.lastSeen = now]

\* allow: the mutex is taken and the visitor looked up.
Lookup(g) ==
  LET u == req[g].user IN
    /\ req[g].pc = "waiting"
    /\ mu = None
    /\ mu' = g
    /\ visitors' = [visitors EXCEPT ![u] = Seen(@)]
    /\ Move(g, "locked")
    /\ UNCHANGED <<now, sweep, grants>>

\* Slip: a bucket without a whole token still lets a request through.
AllowsAtZero(v) == Available(v) >= 0

\* v.limiter.Allow(): there is a token to take.
Allows(v) == Available(v) > 0

\* rateLimitMiddleware: on to the handler, or 429.
Answer(ok) == IF ok THEN "next" ELSE "throttled"

\* Slip: a throttled request returns with the mutex.
KeptIfThrottled(ok) == IF ok THEN None ELSE mu

\* The deferred Unlock.
Unlocked(ok) == None

\* allow: the limiter reads the clock again and decides; the mutex is let go.
Decide(g) ==
  LET u == req[g].user
      v == visitors[u]
      ok == Allows(v)
  IN /\ req[g].pc = "locked"
     /\ mu' = Unlocked(ok)
     /\ Move(g, Answer(ok))
     /\ IF ok
          THEN /\ visitors' = [visitors EXCEPT ![u].tokens = Available(v) - 1,
                                               ![u].last = now]
               /\ grants' = [grants EXCEPT ![u] = Append(@, now)]
          ELSE UNCHANGED <<visitors, grants>>
     /\ UNCHANGED <<now, sweep>>

\* The handler behind the limiter, or the refusal, ends.
Finish(g) ==
  /\ req[g].pc \in {"next", "throttled", "unauthorized"}
  /\ req' = [req EXCEPT ![g] = [pc |-> "idle", user |-> None]]
  /\ UNCHANGED <<now, visitors, mu, sweep, grants>>

----------------------------------------------------------------------------
\* The sweeper receives from its ticker and takes the time of its cutoff.
StartSweep ==
  /\ ~sweep.on
  /\ now >= sweep.due
  /\ sweep' = [on |-> TRUE, taken |-> now, due |-> sweep.due + SweepEvery]
  /\ UNCHANGED <<now, visitors, mu, req, grants>>

\* Slip: the lifetime is not subtracted from the time of the sweep.
NoLifetime(v) == v.lastSeen < sweep.taken

\* Slip: the lifetime is subtracted twice.
TwoLifetimes(v) == v.lastSeen + TTL + TTL < sweep.taken

\* v.lastSeen.Before(cutoff)
Idle(v) == v.lastSeen + TTL < sweep.taken

\* evictIdle, under the mutex.
EvictIdle ==
  /\ sweep.on
  /\ mu = None
  /\ visitors' = [u \in Users |->
       IF visitors[u] # None /\ Idle(visitors[u]) THEN None ELSE visitors[u]]
  /\ sweep' = [sweep EXCEPT !.on = FALSE]
  /\ UNCHANGED <<now, mu, req, grants>>

\* Time passes while nobody is later than the bounds on delays say.
Tick ==
  /\ now < MaxTime
  /\ \A g \in Goroutines :
       req[g].pc = "locked" => now < visitors[req[g].user].lastSeen + MaxHold
  /\ now < (IF sweep.on THEN sweep.taken ELSE sweep.due) + MaxDelay
  /\ now' = now + 1
  /\ UNCHANGED <<visitors, mu, req, sweep, grants>>

----------------------------------------------------------------------------
Init ==
  /\ now = 0
  /\ visitors = [u \in Users |-> None]
  /\ mu = None
  /\ req = [g \in Goroutines |-> [pc |-> "idle", user |-> None]]
  /\ sweep = [on |-> FALSE, taken |-> 0, due |-> SweepEvery]
  /\ grants = [u \in Users |-> <<>>]

Next ==
  \/ \E g \in Goroutines : Ask(g) \/ Lookup(g) \/ Decide(g) \/ Finish(g)
  \/ StartSweep \/ EvictIdle \/ Tick

Spec == Init /\ [][Next]_vars

----------------------------------------------------------------------------
\* In no window of time is a user let through more often than the burst plus
\* one request a tick, evictions and fresh limiters included.
WindowBound ==
  \A u \in Users : \A i, j \in DOMAIN grants[u] :
    i <= j => (j - i) + 1 <= Burst + (grants[u][j] - grants[u][i])

\* The map forgets: no entry is older than a lifetime, one period of the
\* sweeper and its delays, so idle subjects do not pile up.
VisitorsAreRecent ==
  \A u \in Users : visitors[u] # None =>
    now <= visitors[u].lastSeen + TTL + SweepEvery + 2 * MaxDelay

\* The mutex is held by the request that is deciding and by nobody else, and the
\* visitor it decides about is still in the map: no answer, refusal or sweep
\* leaves the others locked out.
HolderDecides ==
  \A g \in Goroutines :
    /\ mu = g <=> req[g].pc = "locked"
    /\ mu = g => visitors[req[g].user] # None

\* What each user may still spend: a forgotten bucket counts as full.
BucketLevel ==
  [u \in Users |-> IF visitors[u] = None THEN Burst ELSE Available(visitors[u])]

Told ==
  [g \in Goroutines |->
     IF req[g].pc \in {"idle", "waiting", "locked"} THEN "none" ELSE req[g].pc]

\* Buckets that are forgotten and made again answer exactly as buckets that
\* always existed: eviction never gives a token away and never takes one, and
\* no user's requests are paid for by another.
Buckets == INSTANCE TokenBuckets WITH level <- BucketLevel, verdict <- Told

ImplementsBuckets == Buckets!Spec
=============================================================================
