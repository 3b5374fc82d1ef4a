------------------------- MODULE RateLimiter_proofs -------------------------
(***************************************************************************)
(* Proofs about the rate limiter, for any users, requests in flight, burst *)
(* and lifetimes: what its inductive invariant is, that the sweeper        *)
(* forgets in time and never what matters, and that it implements buckets  *)
(* that always exist.                                                      *)
(***************************************************************************)
EXTENDS RateLimiter, TLAPS

Present(u) == visitors[u] # None

\* Who holds the mutex is deciding about a visitor it has just looked up.
LockOf(g) ==
  /\ mu = g <=> req[g].pc = "locked"
  /\ req[g].pc \in {"waiting", "locked"} => req[g].user \in Users
  /\ req[g].pc = "locked" =>
       Present(req[g].user) /\ now <= visitors[req[g].user].lastSeen + MaxHold

LockInv == \A g \in Goroutines : LockOf(g)

\* A bucket was last charged soon after its visitor was last seen.
SeenOf(u) ==
  Present(u) => /\ visitors[u].lastSeen <= now
                /\ visitors[u].last <= now
                /\ visitors[u].last <= visitors[u].lastSeen + MaxHold

SeenInv == \A u \in Users : SeenOf(u)

\* The sweeper keeps to its ticker, up to its delays.
SweepInv ==
  /\ ~sweep.on => sweep.due <= now + SweepEvery /\ now <= sweep.due + MaxDelay
  /\ sweep.on => /\ sweep.taken <= now
                 /\ now <= sweep.taken + MaxDelay
                 /\ sweep.due <= sweep.taken + SweepEvery
                 /\ sweep.taken + SweepEvery <= sweep.due + MaxDelay

\* What the last sweep left was recent then; a sweep under way is one period
\* further.
AgeOf(u) ==
  Present(u) => sweep.due <= visitors[u].lastSeen + TTL + SweepEvery
                               + IF sweep.on THEN SweepEvery ELSE 0

AgeInv == \A u \in Users : AgeOf(u)

Inv == TypeOK /\ LockInv /\ SeenInv /\ SweepInv /\ AgeInv

\* Initially nobody is known and the first sweep is one period away.
LEMMA InitInv == Init => Inv
  BY LifetimeAssumption, SweepAssumption, UsersAssumption, SMT
  DEF Init, Inv, TypeOK, LockInv, LockOf, SeenInv, SeenOf, SweepInv, AgeInv,
      AgeOf, Present, Visitor, Request, Places

----------------------------------------------------------------------------
\* What a change of a request's place does to the requests.
LEMMA Moves ==
  ASSUME TypeOK, NEW g \in Goroutines, NEW pc \in Places, Move(g, pc)
  PROVE  /\ req' \in [Goroutines -> Request]
         /\ req'[g] = [pc |-> pc, user |-> req[g].user]
         /\ req'[g].pc = pc
         /\ \A h \in Goroutines \ {g} : req'[h] = req[h]
  BY DEF TypeOK, Move, Request, Places

\* The visitor a request looks up is there afterwards, seen now, with the bucket
\* it had or a full one.
LEMMA LookedUp ==
  ASSUME Inv, NEW g \in Goroutines, Lookup(g), NEW u, u = req[g].user
  PROVE  /\ u \in Users
         /\ visitors' \in [Users -> Visitor \cup {None}]
         /\ visitors'[u] \in Visitor /\ visitors'[u].lastSeen = now
         /\ Present(u) => /\ visitors'[u].tokens = visitors[u].tokens
                          /\ visitors'[u].last = visitors[u].last
         /\ ~Present(u) => visitors'[u].tokens = Burst /\ visitors'[u].last = now
         /\ \A o \in Users \ {u} : visitors'[o] = visitors[o]
<1>1. u \in Users /\ now \in Nat
  BY DEF Inv, TypeOK, LockInv, LockOf, Lookup
<1>2. visitors[u] \in Visitor \cup {None}
  BY <1>1 DEF Inv, TypeOK
<1>3. /\ Seen(visitors[u]) \in Visitor
      /\ Seen(visitors[u]).lastSeen = now
      /\ Present(u) => /\ Seen(visitors[u]).tokens = visitors[u].tokens
                       /\ Seen(visitors[u]).last = visitors[u].last
      /\ ~Present(u) => Seen(visitors[u]).tokens = Burst /\ Seen(visitors[u]).last = now
  BY <1>1, <1>2, LifetimeAssumption DEF Seen, NewVisitor, Visitor, Present
<1>4. visitors' = [visitors EXCEPT ![u] = Seen(visitors[u])]
  BY DEF Lookup
<1> QED  BY <1>1, <1>3, <1>4 DEF Inv, TypeOK

\* The visitor of the request that decides is the one it looked up.
LEMMA Holder ==
  ASSUME Inv, NEW g \in Goroutines, Decide(g), NEW u, u = req[g].user
  PROVE  /\ u \in Users /\ visitors[u] \in Visitor
         /\ now <= visitors[u].lastSeen + MaxHold
         /\ mu = g
  BY UsersAssumption DEF Inv, TypeOK, LockInv, LockOf, Decide, Unlocked, Present

\* A decision takes a whole token from the bucket and stamps it, or leaves it.
LEMMA Decided ==
  ASSUME Inv, NEW g \in Goroutines, Decide(g), NEW u, u = req[g].user
  PROVE  /\ visitors' \in [Users -> Visitor \cup {None}]
         /\ visitors'[u] \in Visitor
         /\ visitors'[u].lastSeen = visitors[u].lastSeen
         /\ Allows(visitors[u]) => /\ visitors'[u].tokens = Available(visitors[u]) - 1
                                   /\ visitors'[u].last = now
         /\ ~Allows(visitors[u]) => UNCHANGED visitors
         /\ \A o \in Users \ {u} : visitors'[o] = visitors[o]
<1>1. u \in Users /\ visitors[u] \in Visitor /\ now \in Nat
  BY Holder DEF Inv, TypeOK
<1>2. CASE Allows(visitors[u])
  <2> DEFINE t == Available(visitors[u]) - 1
  <2>1. t \in 0 .. Burst
    BY <1>1, <1>2, LifetimeAssumption DEF Inv, TypeOK, SeenInv, SeenOf, Present, Visitor, Allows, Available, Lesser
  <2>2. visitors' = [visitors EXCEPT ![u].tokens = t, ![u].last = now]
    BY <1>2 DEF Decide, Unlocked
  <2> HIDE DEF t
  <2>3. /\ visitors'[u] \in Visitor /\ visitors'[u].tokens = t /\ visitors'[u].last = now
        /\ visitors'[u].lastSeen = visitors[u].lastSeen
    BY <1>1, <2>1, <2>2 DEF Inv, TypeOK, Visitor
  <2>4. \A o \in Users \ {u} : visitors'[o] = visitors[o]
    BY <1>1, <2>2 DEF Inv, TypeOK
  <2>5. visitors' \in [Users -> Visitor \cup {None}]
    BY <1>1, <2>2, <2>3, <2>4 DEF Inv, TypeOK
  <2> QED  BY <1>2, <2>3, <2>4, <2>5 DEF t
<1>3. CASE ~Allows(visitors[u])
  <2>1. UNCHANGED visitors
    BY <1>3 DEF Decide, Unlocked
  <2> QED  BY <1>1, <1>3, <2>1 DEF Inv, TypeOK
<1> QED  BY <1>2, <1>3

----------------------------------------------------------------------------
\* A request that arrives or ends touches neither visitors nor the mutex.
LEMMA AskStep ==
  ASSUME Inv, NEW g \in Goroutines, Ask(g) \/ Finish(g)
  PROVE  Inv'
<1>1. UNCHANGED <<now, visitors, mu, sweep, grants>>
  BY DEF Ask, Finish
<1> DEFINE Apart ==
      /\ req' \in [Goroutines -> Request]
      /\ req[g].pc # "locked" /\ req'[g].pc # "locked"
      /\ req'[g].pc = "waiting" => req'[g].user \in Users
      /\ \A h \in Goroutines \ {g} : req'[h] = req[h]
<1>2. Apart
  <2>1. CASE Finish(g)
    BY <2>1 DEF Finish, Inv, TypeOK, Request, Places
  <2>2. ASSUME NEW u \in Users, req[g].pc = "idle",
               req' = [req EXCEPT ![g] = [pc |-> "waiting", user |-> u]]
        PROVE  Apart
    BY <2>2 DEF Inv, TypeOK, Request, Places
  <2>3. ASSUME req[g].pc = "idle", Move(g, "unauthorized") PROVE Apart
    <3>1. /\ req' \in [Goroutines -> Request]
          /\ req'[g] = [pc |-> "unauthorized", user |-> req[g].user]
          /\ \A h \in Goroutines \ {g} : req'[h] = req[h]
      BY <2>3, Moves DEF Inv, Places
    <3> QED  BY <2>3, <3>1
  <2> QED  BY <2>1, <2>2, <2>3 DEF Ask
<1>3. TypeOK'
  BY <1>1, <1>2 DEF Inv, TypeOK
<1>4. LockInv'
  <2>1. ASSUME NEW h \in Goroutines PROVE LockOf(h)'
    <3>1. LockOf(h)
      BY DEF Inv, LockInv
    <3>2. CASE h = g
      BY <1>1, <1>2, <3>1, <3>2 DEF LockOf
    <3>3. CASE h # g
      BY <1>1, <1>2, <3>1, <3>3 DEF LockOf, Present
    <3> QED  BY <3>2, <3>3
  <2> QED  BY <2>1 DEF LockInv
<1>5. SeenInv' /\ SweepInv' /\ AgeInv'
  BY <1>1 DEF Inv, SeenInv, SeenOf, SweepInv, AgeInv, AgeOf, Present
<1> QED  BY <1>3, <1>4, <1>5 DEF Inv

\* Looking up does not age anybody, and nobody else holds the mutex.
LEMMA LookupStep ==
  ASSUME Inv, NEW g \in Goroutines, Lookup(g)
  PROVE  Inv'
<1>0. PICK u \in Users : u = req[g].user
  BY DEF Inv, LockInv, LockOf, Lookup
<1>1. /\ req[g].pc = "waiting" /\ mu = None /\ mu' = g /\ Move(g, "locked")
      /\ UNCHANGED <<now, sweep, grants>>
  BY DEF Lookup
<1>2. /\ visitors' \in [Users -> Visitor \cup {None}]
      /\ visitors'[u] \in Visitor /\ visitors'[u].lastSeen = now
      /\ Present(u) => /\ visitors'[u].tokens = visitors[u].tokens
                       /\ visitors'[u].last = visitors[u].last
      /\ ~Present(u) => visitors'[u].tokens = Burst /\ visitors'[u].last = now
      /\ \A o \in Users \ {u} : visitors'[o] = visitors[o]
  BY <1>0, LookedUp
<1>3. /\ req' \in [Goroutines -> Request]
      /\ req'[g] = [pc |-> "locked", user |-> u]
      /\ \A h \in Goroutines \ {g} : req'[h] = req[h]
  BY <1>0, <1>1, Moves DEF Inv, Places
<1>4. Present(u)'
  BY <1>2, UsersAssumption DEF Present, Visitor
<1>5. TypeOK'
  BY <1>1, <1>2, <1>3 DEF Inv, TypeOK
<1>6. LockInv'
  <2>1. LockOf(g)'
    BY <1>1, <1>2, <1>3, <1>4, LifetimeAssumption DEF LockOf, Inv, TypeOK
  <2>2. ASSUME NEW h \in Goroutines \ {g} PROVE LockOf(h)'
    <3>1. LockOf(h) /\ req[h].pc # "locked"
      BY <1>1, UsersAssumption DEF Inv, LockInv, LockOf
    <3> QED  BY <1>1, <1>3, <3>1 DEF LockOf
  <2> QED  BY <2>1, <2>2 DEF LockInv
<1>7. SeenInv'
  <2>1. SeenOf(u)'
    BY <1>1, <1>2, LifetimeAssumption DEF SeenOf, Inv, TypeOK, SeenInv, Visitor, Present
  <2>2. ASSUME NEW o \in Users \ {u} PROVE SeenOf(o)'
    BY <1>1, <1>2 DEF SeenOf, Inv, SeenInv, Present
  <2> QED  BY <2>1, <2>2 DEF SeenInv
<1>8. SweepInv'
  BY <1>1 DEF Inv, SweepInv
<1>9. AgeInv'
  <2>1. AgeOf(u)'
    BY <1>1, <1>2, LifetimeAssumption, SweepAssumption DEF AgeOf, Inv, TypeOK, SweepInv
  <2>2. ASSUME NEW o \in Users \ {u} PROVE AgeOf(o)'
    BY <1>1, <1>2 DEF AgeOf, Inv, AgeInv, Present
  <2> QED  BY <2>1, <2>2 DEF AgeInv
<1> QED  BY <1>5, <1>6, <1>7, <1>8, <1>9 DEF Inv

\* A bucket is charged within the hold after its visitor was seen.
LEMMA DecideStep ==
  ASSUME Inv, NEW g \in Goroutines, Decide(g)
  PROVE  Inv'
<1>0. PICK u \in Users : u = req[g].user
  BY Holder
<1>1. /\ req[g].pc = "locked" /\ mu = g /\ mu' = None
      /\ Move(g, Answer(Allows(visitors[u])))
      /\ UNCHANGED <<now, sweep>>
  BY <1>0, Holder DEF Decide, Unlocked
<1>2. visitors[u] \in Visitor /\ now <= visitors[u].lastSeen + MaxHold
  BY <1>0, Holder
<1>3. /\ visitors' \in [Users -> Visitor \cup {None}]
      /\ visitors'[u] \in Visitor
      /\ visitors'[u].lastSeen = visitors[u].lastSeen
      /\ Allows(visitors[u]) => visitors'[u].last = now
      /\ ~Allows(visitors[u]) => UNCHANGED visitors
      /\ \A o \in Users \ {u} : visitors'[o] = visitors[o]
  BY <1>0, Decided
<1>4. PICK pc \in {"next", "throttled"} : Move(g, pc)
  BY <1>1 DEF Answer
<1>5. /\ req' \in [Goroutines -> Request]
      /\ req'[g].pc \in {"next", "throttled"}
      /\ \A h \in Goroutines \ {g} : req'[h] = req[h]
  <2>1. pc \in Places /\ TypeOK
    BY <1>4 DEF Inv, Places
  <2>2. /\ req' \in [Goroutines -> Request]
        /\ req'[g] = [pc |-> pc, user |-> req[g].user]
        /\ \A h \in Goroutines \ {g} : req'[h] = req[h]
    BY <1>4, <2>1, Moves
  <2> QED  BY <1>4, <2>2
<1>6. grants' \in [Users -> Seq(Nat)]
  <2>1. CASE Allows(visitors[u])
    <3>1. grants' = [grants EXCEPT ![u] = Append(@, now)]
      BY <1>0, <2>1 DEF Decide, Unlocked
    <3>2. grants[u] \in Seq(Nat) /\ now \in Nat
      BY DEF Inv, TypeOK
    <3> QED  BY <3>1, <3>2 DEF Inv, TypeOK
  <2>2. CASE ~Allows(visitors[u])
    BY <1>0, <2>2 DEF Decide, Unlocked, Inv, TypeOK
  <2> QED  BY <2>1, <2>2
<1>7. Present(u)
  BY <1>2, UsersAssumption DEF Present, Visitor
<1>8. SeenOf(u) /\ AgeOf(u)
  BY <1>2 DEF Inv, SeenInv, AgeInv
<1>9. TypeOK'
  BY <1>1, <1>3, <1>5, <1>6 DEF Inv, TypeOK
<1>10. LockInv'
  <2>1. LockOf(g)'
    BY <1>1, <1>5, UsersAssumption DEF LockOf
  <2>2. ASSUME NEW h \in Goroutines \ {g} PROVE LockOf(h)'
    <3>1. LockOf(h) /\ req[h].pc # "locked"
      BY <1>1 DEF Inv, LockInv, LockOf
    <3> QED  BY <1>1, <1>5, <3>1, UsersAssumption DEF LockOf
  <2> QED  BY <2>1, <2>2 DEF LockInv
<1>11. SeenInv'
  <2>1. SeenOf(u)'
    <3>1. CASE Allows(visitors[u])
      BY <1>1, <1>2, <1>3, <1>7, <1>8, <3>1 DEF SeenOf, Inv, TypeOK
    <3>2. CASE ~Allows(visitors[u])
      BY <1>1, <1>3, <1>8, <3>2 DEF SeenOf, Present
    <3> QED  BY <3>1, <3>2
  <2>2. ASSUME NEW o \in Users \ {u} PROVE SeenOf(o)'
    BY <1>1, <1>3 DEF SeenOf, Inv, SeenInv, Present
  <2> QED  BY <2>1, <2>2 DEF SeenInv
<1>12. SweepInv'
  BY <1>1 DEF Inv, SweepInv
<1>13. AgeInv'
  <2>1. AgeOf(u)'
    BY <1>1, <1>3, <1>7, <1>8 DEF AgeOf
  <2>2. ASSUME NEW o \in Users \ {u} PROVE AgeOf(o)'
    BY <1>1, <1>3 DEF AgeOf, Inv, AgeInv, Present
  <2> QED  BY <2>1, <2>2 DEF AgeInv
<1> QED  BY <1>9, <1>10, <1>11, <1>12, <1>13 DEF Inv

----------------------------------------------------------------------------
\* A sweep starts no later than its delay after its ticker.
LEMMA StartSweepStep ==
  ASSUME Inv, StartSweep
  PROVE  Inv'
<1>1. /\ ~sweep.on /\ now >= sweep.due
      /\ sweep' = [on |-> TRUE, taken |-> now, due |-> sweep.due + SweepEvery]
      /\ UNCHANGED <<now, visitors, mu, req, grants>>
  BY DEF StartSweep
<1>2. TypeOK'
  BY <1>1, SweepAssumption DEF Inv, TypeOK
<1>3. LockInv' /\ SeenInv'
  BY <1>1 DEF Inv, LockInv, LockOf, SeenInv, SeenOf, Present
<1>4. SweepInv'
  BY <1>1, SweepAssumption DEF Inv, TypeOK, SweepInv
<1>5. AgeInv'
  <2>1. ASSUME NEW o \in Users PROVE AgeOf(o)'
    <3>1. CASE Present(o)
      <4>1. visitors[o] \in Visitor
        BY <3>1 DEF Inv, TypeOK, Present
      <4> QED  BY <1>1, <3>1, <4>1, SweepAssumption, LifetimeAssumption
               DEF AgeOf, Inv, AgeInv, TypeOK, Visitor
    <3>2. CASE ~Present(o)
      BY <1>1, <3>2 DEF AgeOf, Present
    <3> QED  BY <3>1, <3>2
  <2> QED  BY <2>1 DEF AgeInv
<1> QED  BY <1>2, <1>3, <1>4, <1>5 DEF Inv

\* What a sweep leaves was seen within a lifetime of it.
LEMMA EvictStep ==
  ASSUME Inv, EvictIdle
  PROVE  Inv'
<1>1. /\ sweep.on /\ mu = None
      /\ sweep' = [sweep EXCEPT !.on = FALSE]
      /\ UNCHANGED <<now, mu, req, grants>>
  BY DEF EvictIdle
<1>2. /\ ~sweep'.on /\ sweep'.taken = sweep.taken /\ sweep'.due = sweep.due
      /\ sweep' \in [on : BOOLEAN, taken : Nat, due : Nat]
  BY <1>1 DEF Inv, TypeOK
<1>3. visitors' = [u \in Users |->
        IF visitors[u] # None /\ Idle(visitors[u]) THEN None ELSE visitors[u]]
  BY DEF EvictIdle
<1>4. \A o \in Users : \/ visitors'[o] = None
                       \/ visitors'[o] = visitors[o] /\ ~Idle(visitors[o])
  <2> TAKE o \in Users
  <2>1. visitors'[o] = IF visitors[o] # None /\ Idle(visitors[o]) THEN None ELSE visitors[o]
    BY <1>3
  <2>2. CASE visitors[o] = None
    BY <2>1, <2>2
  <2>3. CASE visitors[o] # None
    <3>1. CASE Idle(visitors[o])
      BY <2>1, <2>3, <3>1
    <3>2. CASE ~Idle(visitors[o])
      BY <2>1, <2>3, <3>2
    <3> QED  BY <3>1, <3>2
  <2> QED  BY <2>2, <2>3
<1>5. TypeOK'
  BY <1>1, <1>2, <1>3 DEF Inv, TypeOK
<1>6. LockInv'
  <2>1. ASSUME NEW h \in Goroutines PROVE LockOf(h)'
    <3>1. LockOf(h) /\ req[h].pc # "locked"
      BY <1>1, UsersAssumption DEF Inv, LockInv, LockOf
    <3> QED  BY <1>1, <3>1 DEF LockOf
  <2> QED  BY <2>1 DEF LockInv
<1>7. SeenInv'
  <2>1. ASSUME NEW o \in Users PROVE SeenOf(o)'
    BY <1>1, <1>4 DEF SeenOf, Inv, SeenInv, Present
  <2> QED  BY <2>1 DEF SeenInv
<1>8. SweepInv'
  BY <1>1, <1>2, SweepAssumption DEF Inv, TypeOK, SweepInv
<1>9. AgeInv'
  <2>1. ASSUME NEW o \in Users, Present(o)' PROVE AgeOf(o)'
    <3>1. /\ visitors[o] \in Visitor /\ visitors'[o] = visitors[o]
          /\ ~Idle(visitors[o])
      BY <1>4, <2>1 DEF Inv, TypeOK, Present
    <3> QED  BY <1>1, <1>2, <3>1, SweepAssumption, LifetimeAssumption, SMTT(20)
             DEF AgeOf, Inv, SweepInv, TypeOK, Visitor, Idle
  <2> QED  BY <2>1 DEF AgeInv, AgeOf
<1> QED  BY <1>5, <1>6, <1>7, <1>8, <1>9 DEF Inv

\* The clock waits for whoever would be too late.
LEMMA TickStep ==
  ASSUME Inv, Tick
  PROVE  Inv'
<1>1. /\ now < MaxTime /\ now' = now + 1
      /\ now < (IF sweep.on THEN sweep.taken ELSE sweep.due) + MaxDelay
      /\ UNCHANGED <<visitors, mu, req, sweep, grants>>
  BY DEF Tick
<1>2. TypeOK'
  BY <1>1, UsersAssumption DEF Inv, TypeOK
<1>3. LockInv'
  <2>1. ASSUME NEW h \in Goroutines PROVE LockOf(h)'
    <3>1. LockOf(h)
      BY DEF Inv, LockInv
    <3>2. CASE req[h].pc = "locked"
      <4>1. /\ now < visitors[req[h].user].lastSeen + MaxHold
            /\ visitors[req[h].user] \in Visitor
        BY <3>1, <3>2 DEF Tick, LockOf, Present, Inv, TypeOK
      <4> QED  BY <1>1, <3>1, <3>2, <4>1, LifetimeAssumption
               DEF LockOf, Present, Inv, TypeOK, Visitor
    <3>3. CASE req[h].pc # "locked"
      BY <1>1, <3>1, <3>3 DEF LockOf
    <3> QED  BY <3>2, <3>3
  <2> QED  BY <2>1 DEF LockInv
<1>4. SeenInv'
  <2>1. ASSUME NEW o \in Users, Present(o) PROVE SeenOf(o)'
    <3>1. visitors[o] \in Visitor
      BY <2>1 DEF Inv, TypeOK, Present
    <3> QED  BY <1>1, <2>1, <3>1 DEF SeenOf, Inv, SeenInv, TypeOK, Visitor
  <2> QED  BY <1>1, <2>1 DEF SeenInv, SeenOf, Present
<1>5. SweepInv'
  BY <1>1, SweepAssumption DEF Inv, TypeOK, SweepInv
<1>6. AgeInv'
  BY <1>1 DEF Inv, AgeInv, AgeOf, Present
<1> QED  BY <1>2, <1>3, <1>4, <1>5, <1>6 DEF Inv

----------------------------------------------------------------------------
LEMMA InvStep == Inv /\ [Next]_vars => Inv'
<1> SUFFICES ASSUME Inv, [Next]_vars PROVE Inv'
  OBVIOUS
<1>1. CASE UNCHANGED vars
  BY <1>1 DEF vars, Inv, TypeOK, LockInv, LockOf, SeenInv, SeenOf, SweepInv, AgeInv,
              AgeOf, Present
<1> QED  BY <1>1, AskStep, LookupStep, DecideStep, StartSweepStep, EvictStep, TickStep
         DEF Next

LEMMA Invariant == Spec => []Inv
BY InitInv, InvStep, PTL DEF Spec

\* Every reachable state of the rate limiter is well formed: buckets stay
\* within the burst and the clock of a visitor never runs backwards.
THEOREM TypeCorrect == Spec => []TypeOK
<1>1. Inv => TypeOK
  BY DEF Inv
<1> QED  BY <1>1, Invariant, PTL

\* An idle visitor is forgotten within a lifetime, a period of the sweeper and
\* its two delays.
THEOREM IdleForgotten == Spec => []VisitorsAreRecent
<1>1. Inv => VisitorsAreRecent
  <2> SUFFICES ASSUME Inv, NEW u \in Users, Present(u)
               PROVE  now <= visitors[u].lastSeen + TTL + SweepEvery + 2 * MaxDelay
    BY DEF VisitorsAreRecent, Present
  <2>1. visitors[u] \in Visitor
    BY DEF Inv, TypeOK, Present
  <2>2. AgeOf(u)
    BY DEF Inv, AgeInv
  <2> QED  BY <2>1, <2>2, SweepAssumption, LifetimeAssumption, SMTT(20)
           DEF Inv, SweepInv, AgeOf, TypeOK, Visitor
<1> QED  BY <1>1, Invariant, PTL

\* However requests, throttled ones and the sweeper interleave, the mutex is held
\* exactly while one request decides about a visitor that is there.
THEOREM MutexComesBack == Spec => []HolderDecides
<1>1. Inv => HolderDecides
  BY DEF Inv, LockInv, LockOf, Present, HolderDecides
<1> QED  BY <1>1, Invariant, PTL

----------------------------------------------------------------------------
\* What a user may still spend, and when it does not change.
Level(u) == BucketLevel[u]

LEMMA Levels ==
  ASSUME Inv
  PROVE  /\ BucketLevel \in [Users -> 0 .. Burst]
         /\ \A u \in Users : Present(u) => Level(u) = Available(visitors[u])
         /\ \A u \in Users : ~Present(u) => Level(u) = Burst
<1>1. ASSUME NEW u \in Users PROVE
        /\ BucketLevel[u] \in 0 .. Burst
        /\ Present(u) => Level(u) = Available(visitors[u])
        /\ ~Present(u) => Level(u) = Burst
  <2>1. CASE ~Present(u)
    BY <2>1, LifetimeAssumption DEF BucketLevel, Level, Present
  <2>2. CASE Present(u)
    <3>1. /\ BucketLevel[u] = Available(visitors[u])
          /\ visitors[u].tokens \in 0 .. Burst
          /\ visitors[u].last \in Nat /\ now \in Nat /\ visitors[u].last <= now
      BY <2>2 DEF BucketLevel, Present, Inv, TypeOK, Visitor, SeenInv, SeenOf
    <3>2. Available(visitors[u]) \in 0 .. Burst
      BY <3>1, LifetimeAssumption DEF Available, Lesser
    <3> QED  BY <2>2, <3>1, <3>2 DEF Level
  <2> QED  BY <2>1, <2>2
<1> QED  BY <1>1 DEF BucketLevel

LEMMA LevelsPrimed ==
  ASSUME Inv'
  PROVE  /\ BucketLevel' \in [Users -> 0 .. Burst]
         /\ \A u \in Users : Present(u)' => Level(u)' = Available(visitors[u])'
         /\ \A u \in Users : ~Present(u)' => Level(u)' = Burst
<1>1. ASSUME NEW u \in Users PROVE
        /\ BucketLevel'[u] \in 0 .. Burst
        /\ Present(u)' => Level(u)' = Available(visitors[u])'
        /\ ~Present(u)' => Level(u)' = Burst
  <2>1. CASE ~Present(u)'
    BY <2>1, LifetimeAssumption DEF BucketLevel, Level, Present
  <2>2. CASE Present(u)'
    <3>1. /\ BucketLevel'[u] = Available(visitors[u])'
          /\ visitors'[u].tokens \in 0 .. Burst
          /\ visitors'[u].last \in Nat /\ now' \in Nat /\ visitors'[u].last <= now'
      BY <2>2 DEF BucketLevel, Present, Inv, TypeOK, Visitor, SeenInv, SeenOf
    <3>2. Available(visitors[u])' \in 0 .. Burst
      BY <3>1, LifetimeAssumption DEF Available, Lesser
    <3> QED  BY <2>2, <3>1, <3>2 DEF Level
  <2> QED  BY <2>1, <2>2
<1> QED  BY <1>1 DEF BucketLevel

\* Neither a lookup nor an eviction changes what anybody may spend: a bucket
\* is forgotten only when it is full again.
LEMMA KeepsLevel ==
  ASSUME Inv, \/ UNCHANGED <<now, visitors>>
              \/ EvictIdle
              \/ \E g \in Goroutines : Lookup(g)
  PROVE  BucketLevel' = BucketLevel
<1> SUFFICES ASSUME NEW o \in Users PROVE Level(o)' = Level(o)
  BY DEF BucketLevel, Level
<1>1. CASE UNCHANGED <<now, visitors>>
  BY <1>1 DEF Level, BucketLevel, Available
<1>2. CASE EvictIdle
  <2>1. Inv'
    BY <1>2, EvictStep
  <2>2. now' = now
    BY <1>2 DEF EvictIdle
  <2>3. CASE visitors'[o] = visitors[o]
    BY <2>2, <2>3 DEF Level, BucketLevel, Available
  <2>4. CASE visitors'[o] # visitors[o]
    <3>1. Present(o) /\ Idle(visitors[o]) /\ ~Present(o)'
      BY <1>2, <2>4 DEF EvictIdle, Present
    <3>2. visitors[o] \in Visitor /\ visitors[o].last + Burst <= now
      BY <1>2, <3>1, LifetimeAssumption
      DEF EvictIdle, Idle, Present, Inv, TypeOK, SeenInv, SeenOf, SweepInv, Visitor
    <3>3. Available(visitors[o]) = Burst
      BY <3>2, LifetimeAssumption DEF Available, Lesser, Visitor, Inv, TypeOK
    <3> QED  BY <2>1, <3>1, <3>3, Levels, LevelsPrimed
  <2> QED  BY <2>3, <2>4
<1>3. ASSUME NEW g \in Goroutines, Lookup(g) PROVE Level(o)' = Level(o)
  <2>0. PICK u \in Users : u = req[g].user
    BY <1>3 DEF Inv, LockInv, LockOf, Lookup
  <2>1. now' = now
    BY <1>3 DEF Lookup
  <2>2. CASE o # u
    <3>1. visitors'[o] = visitors[o]
      BY <1>3, <2>0, <2>2, LookedUp
    <3> QED  BY <2>1, <3>1 DEF Level, BucketLevel, Available
  <2>3. CASE o = u
    <3>1. /\ visitors'[u] \in Visitor
          /\ Present(u) => /\ visitors'[u].tokens = visitors[u].tokens
                           /\ visitors'[u].last = visitors[u].last
          /\ ~Present(u) => visitors'[u].tokens = Burst /\ visitors'[u].last = now
      BY <1>3, <2>0, LookedUp
    <3>2. visitors'[u] # None /\ now \in Nat
      BY <3>1, UsersAssumption DEF Visitor, Inv, TypeOK
    <3>3. Level(u)' = Available(visitors[u])'
      BY <3>2 DEF Level, BucketLevel
    <3>4. CASE Present(u)
      BY <2>1, <2>3, <3>1, <3>3, <3>4 DEF Level, BucketLevel, Available, Present
    <3>5. CASE ~Present(u)
      <4>1. Available(visitors[u])' = Burst
        BY <2>1, <3>1, <3>2, <3>5, LifetimeAssumption DEF Available, Lesser
      <4> QED  BY <2>3, <3>3, <3>5, <4>1 DEF Level, BucketLevel, Present
    <3> QED  BY <3>4, <3>5
  <2> QED  BY <2>2, <2>3
<1> QED  BY <1>1, <1>2, <1>3

\* A decision charges the one who asked, and only when there is a token.
LEMMA DecideLevel ==
  ASSUME Inv, NEW g \in Goroutines, Decide(g), NEW u \in Users, u = req[g].user
  PROVE  /\ Allows(visitors[u]) => Level(u) > 0 /\ Level(u)' = Level(u) - 1
         /\ ~Allows(visitors[u]) => Level(u) = 0 /\ Level(u)' = Level(u)
         /\ \A o \in Users \ {u} : Level(o)' = Level(o)
<1>1. Inv' /\ now' = now
  BY DecideStep DEF Decide, Unlocked
<1>2. /\ visitors[u] \in Visitor /\ visitors'[u] \in Visitor
      /\ Allows(visitors[u]) => /\ visitors'[u].tokens = Available(visitors[u]) - 1
                                /\ visitors'[u].last = now
      /\ ~Allows(visitors[u]) => UNCHANGED visitors
      /\ \A o \in Users \ {u} : visitors'[o] = visitors[o]
  BY Holder, Decided
<1>3. Present(u) /\ Present(u)'
  BY <1>2, UsersAssumption DEF Present, Visitor
<1>4. /\ Level(u) = Available(visitors[u]) /\ Level(u) \in 0 .. Burst
      /\ Level(u)' = Available(visitors[u])'
  BY <1>1, <1>3, Levels, LevelsPrimed DEF Level
<1>5. \A o \in Users \ {u} : Level(o)' = Level(o)
  BY <1>1, <1>2 DEF Level, BucketLevel, Available
<1>6. CASE Allows(visitors[u])
  <2>1. Level(u) > 0
    BY <1>4, <1>6 DEF Allows
  <2>2. Available(visitors[u])' = Available(visitors[u]) - 1
    BY <1>1, <1>2, <1>4, <1>6, LifetimeAssumption, SMTT(20)
       DEF Available, Lesser, Inv, TypeOK, Visitor
  <2> QED  BY <1>4, <1>5, <1>6, <2>1, <2>2
<1>7. CASE ~Allows(visitors[u])
  BY <1>1, <1>2, <1>4, <1>5, <1>7 DEF Allows, Available
<1> QED  BY <1>6, <1>7

\* A tick pours one token into every bucket.
LEMMA TickLevel ==
  ASSUME Inv, Tick, NEW o \in Users
  PROVE  Level(o)' = Buckets!Pour(Level(o) + 1)
<1>1. Inv' /\ now' = now + 1 /\ visitors' = visitors /\ now \in Nat
  BY TickStep DEF Tick, Inv, TypeOK
<1>2. CASE Present(o)
  <2>1. visitors[o] \in Visitor /\ SeenOf(o) /\ Present(o)'
    BY <1>1, <1>2 DEF Inv, TypeOK, Present, SeenInv
  <2>2. Level(o) = Available(visitors[o]) /\ Level(o)' = Available(visitors[o])'
    BY <1>1, <1>2, <2>1, Levels, LevelsPrimed
  <2> QED  BY <1>1, <1>2, <2>1, <2>2, LifetimeAssumption
           DEF Available, Lesser, Buckets!Pour, SeenOf, Visitor
<1>3. CASE ~Present(o)
  <2>1. Level(o) = Burst /\ Level(o)' = Burst
    BY <1>1, <1>3, Levels, LevelsPrimed DEF Present
  <2> QED  BY <2>1, LifetimeAssumption DEF Buckets!Pour
<1> QED  BY <1>2, <1>3

----------------------------------------------------------------------------
\* Every request let through was paid for: since any of them, what has been
\* spent and what is left are covered by the burst and the ticks gone by.
PaidOf(u) ==
  \A i \in 1 .. Len(grants[u]) :
    /\ grants[u][i] <= now
    /\ (Len(grants[u]) - i) + 1 + Level(u) <= Burst + (now - grants[u][i])

WindowOf(u) ==
  \A i, j \in 1 .. Len(grants[u]) :
    i <= j => (j - i) + 1 <= Burst + (grants[u][j] - grants[u][i])

GrantsInv == \A u \in Users : PaidOf(u) /\ WindowOf(u)

\* What is left in the bucket only adds to what the newest grant has cost.
LEMMA NewestPaid ==
  ASSUME NEW n \in Nat, NEW i \in 1 .. n + 1, NEW then \in Nat, NEW left \in Nat, now \in Nat,
         Burst \in Nat, ((n + 1) - i) + 1 + left <= Burst + (now - then)
  PROVE  ((n + 1) - i) + 1 <= Burst + (now - then)
OBVIOUS

\* A request is let through on a token of the requester's bucket.
LEMMA GrantPays ==
  ASSUME Inv, NEW u \in Users, PaidOf(u), WindowOf(u),
         UNCHANGED now, grants'[u] = Append(grants[u], now),
         Level(u) > 0, Level(u)' = Level(u) - 1
  PROVE  PaidOf(u)' /\ WindowOf(u)'
<1> DEFINE n == Len(grants[u])
<1>1. /\ grants[u] \in Seq(Nat) /\ n \in Nat /\ now \in Nat
      /\ Level(u) \in 0 .. Burst /\ Burst \in Nat
  BY Levels, LifetimeAssumption DEF Inv, TypeOK, Level
<1>2. /\ Len(grants'[u]) = n + 1
      /\ grants'[u][n + 1] = now
      /\ \A i \in 1 .. n : grants'[u][i] = grants[u][i]
  BY <1>1
<1>3. \A i \in 1 .. n : grants[u][i] \in Nat
  BY <1>1, SMTT(20)
<1>4. PaidOf(u)'
  <2> SUFFICES ASSUME NEW i \in 1 .. n + 1
               PROVE  /\ grants'[u][i] <= now
                      /\ ((n + 1) - i) + 1 + Level(u)' <= Burst + (now - grants'[u][i])
    BY <1>2 DEF PaidOf
  <2>1. CASE i = n + 1
    BY <1>1, <1>2, <2>1
  <2>2. CASE i # n + 1
    <3>1. i \in 1 .. n
      BY <1>1, <2>2
    <3> HIDE DEF n
    <3>2. grants[u][i] <= now /\ (n - i) + 1 + Level(u) <= Burst + (now - grants[u][i])
      BY <3>1 DEF PaidOf, n
    <3> QED  BY <1>1, <1>2, <1>3, <3>1, <3>2
  <2> QED  BY <2>1, <2>2
<1>5. WindowOf(u)'
  <2> SUFFICES ASSUME NEW i \in 1 .. n + 1, NEW j \in 1 .. n + 1, i <= j
               PROVE  (j - i) + 1 <= Burst + (grants'[u][j] - grants'[u][i])
    BY <1>2 DEF WindowOf
  <2>1. CASE j = n + 1
    <3>1. grants'[u][i] \in Nat
      BY <1>1, <1>2, <1>3
    <3>2. ((n + 1) - i) + 1 + Level(u)' <= Burst + (now - grants'[u][i])
      BY <1>2, <1>4 DEF PaidOf
    <3> HIDE DEF n
    <3>3. grants'[u][j] = now
      BY <1>2, <2>1
    <3>4. Level(u)' \in Nat
      BY <1>1
    <3>5. n \in Nat /\ i \in 1 .. n + 1 /\ now \in Nat /\ Burst \in Nat
      BY <1>1
    <3>6. ((n + 1) - i) + 1 <= Burst + (now - grants'[u][i])
      BY <3>1, <3>2, <3>4, <3>5, NewestPaid
    <3>7. (j - i) + 1 <= Burst + (now - grants'[u][i])
      BY <2>1, <3>6
    <3> QED  BY <3>3, <3>7
  <2>2. CASE j # n + 1
    <3>1. i \in 1 .. n /\ j \in 1 .. n
      BY <1>1, <2>2
    <3>2. (j - i) + 1 <= Burst + (grants[u][j] - grants[u][i])
      BY <3>1 DEF WindowOf
    <3> QED  BY <1>2, <3>1, <3>2
  <2> QED  BY <2>1, <2>2
<1> QED  BY <1>4, <1>5

LEMMA Later ==
  ASSUME NEW spent \in Nat, NEW left \in Nat, NEW next \in Nat, NEW t \in Nat, NEW then \in Nat,
         Burst \in Nat, next <= left + 1, spent + left <= Burst + (t - then)
  PROVE  spent + next <= Burst + (t + 1 - then)
OBVIOUS

\* Time pays for at most the token it pours.
LEMMA TimePays ==
  ASSUME Inv, Tick, NEW u \in Users, PaidOf(u)
  PROVE  PaidOf(u)'
<1>1. /\ grants'[u] = grants[u] /\ grants[u] \in Seq(Nat) /\ now \in Nat /\ now' = now + 1
      /\ Level(u) \in 0 .. Burst /\ Burst \in Nat
  BY Levels, LifetimeAssumption DEF Inv, TypeOK, Level, Tick
<1>2. Level(u)' <= Level(u) + 1 /\ Level(u)' \in Nat
  BY <1>1, TickLevel DEF Buckets!Pour
<1> SUFFICES ASSUME NEW i \in 1 .. Len(grants[u])
             PROVE  /\ grants[u][i] <= now'
                    /\ (Len(grants[u]) - i) + 1 + Level(u)' <= Burst + (now' - grants[u][i])
  BY <1>1 DEF PaidOf
<1>3. grants[u][i] \in Nat /\ Len(grants[u]) \in Nat
  BY <1>1
<1>4. /\ grants[u][i] <= now
      /\ (Len(grants[u]) - i) + 1 + Level(u) <= Burst + (now - grants[u][i])
  BY DEF PaidOf
<1>5. grants[u][i] <= now'
  BY <1>1, <1>3, <1>4, SMTT(20)
<1>6. (Len(grants[u]) - i) + 1 \in Nat
  BY <1>3
<1> DEFINE spent == (Len(grants[u]) - i) + 1
           left == Level(u)
           next == Level(u)'
           then == grants[u][i]
<1>7. /\ spent \in Nat /\ left \in Nat /\ next \in Nat /\ then \in Nat
      /\ next <= left + 1 /\ spent + left <= Burst + (now - then)
  BY <1>1, <1>2, <1>3, <1>4, <1>6
<1> HIDE DEF spent, left, next, then
<1>8. spent + next <= Burst + (now' - then)
  <2>1. spent + next <= Burst + (now + 1 - then)
    BY <1>1, <1>7, Later
  <2>2. now' - then = now + 1 - then
    BY <1>1, <1>7
  <2> QED  BY <2>1, <2>2
<1> QED  BY <1>5, <1>8 DEF spent, next, then

\* Neither the levels, nor the time, nor the grants of a user change.
LEMMA NothingPaid ==
  ASSUME NEW u \in Users, PaidOf(u), WindowOf(u), UNCHANGED now,
         grants'[u] = grants[u], Level(u)' = Level(u)
  PROVE  PaidOf(u)' /\ WindowOf(u)'
BY DEF PaidOf, WindowOf

LEMMA GrantsStep == Inv /\ GrantsInv /\ [Next]_vars => GrantsInv'
<1> SUFFICES ASSUME Inv, GrantsInv, [Next]_vars, NEW u \in Users
             PROVE  PaidOf(u)' /\ WindowOf(u)'
  BY DEF GrantsInv
<1>1. PaidOf(u) /\ WindowOf(u)
  BY DEF GrantsInv
<1>2. CASE \/ UNCHANGED vars
           \/ StartSweep
           \/ EvictIdle
           \/ \E g \in Goroutines : Ask(g) \/ Finish(g) \/ Lookup(g)
  <2>1. UNCHANGED <<now, grants>>
    BY <1>2 DEF vars, StartSweep, EvictIdle, Ask, Finish, Lookup
  <2>2. \/ UNCHANGED <<now, visitors>>
        \/ EvictIdle
        \/ \E g \in Goroutines : Lookup(g)
    BY <1>2 DEF vars, StartSweep, Ask, Finish
  <2>3. Level(u)' = Level(u)
    BY <2>2, KeepsLevel DEF Level
  <2> QED  BY <1>1, <2>1, <2>3, NothingPaid
<1>3. ASSUME NEW g \in Goroutines, Decide(g) PROVE PaidOf(u)' /\ WindowOf(u)'
  <2>1. PICK o \in Users : o = req[g].user
    BY <1>3, Holder
  <2>2. now' = now
    BY <1>3 DEF Decide, Unlocked
  <2>3. CASE Allows(visitors[o])
    <3>1. grants' = [grants EXCEPT ![o] = Append(@, now)]
      BY <1>3, <2>1, <2>3 DEF Decide, Unlocked
    <3>2. CASE u = o
      <4>1. grants'[u] = Append(grants[u], now)
        BY <3>1, <3>2 DEF Inv, TypeOK
      <4>2. Level(u) > 0 /\ Level(u)' = Level(u) - 1
        BY <1>3, <2>1, <2>3, <3>2, DecideLevel
      <4> QED  BY <1>1, <2>2, <4>1, <4>2, GrantPays
    <3>3. CASE u # o
      <4>1. grants'[u] = grants[u]
        BY <3>1, <3>3 DEF Inv, TypeOK
      <4>2. Level(u)' = Level(u)
        BY <1>3, <2>1, <3>3, DecideLevel
      <4> QED  BY <1>1, <2>2, <4>1, <4>2, NothingPaid
    <3> QED  BY <3>2, <3>3
  <2>4. CASE ~Allows(visitors[o])
    <3>1. grants' = grants
      BY <1>3, <2>1, <2>4 DEF Decide, Unlocked
    <3>2. Level(u)' = Level(u)
      BY <1>3, <2>1, <2>4, DecideLevel
    <3> QED  BY <1>1, <2>2, <3>1, <3>2, NothingPaid
  <2> QED  BY <2>3, <2>4
<1>4. CASE Tick
  <2>1. PaidOf(u)'
    BY <1>1, <1>4, TimePays
  <2>2. WindowOf(u)'
    BY <1>1, <1>4 DEF Tick, WindowOf
  <2> QED  BY <2>1, <2>2
<1> QED  BY <1>2, <1>3, <1>4 DEF Next

\* Over any stretch of time, however visitors are evicted and made anew, a user
\* is let through at most the burst plus one request a tick.
THEOREM BurstBounded == Spec => []WindowBound
<1>1. Init => GrantsInv
  <2> SUFFICES ASSUME Init, NEW u \in Users PROVE PaidOf(u) /\ WindowOf(u)
    BY DEF GrantsInv
  <2>1. grants[u] = <<>> /\ Len(grants[u]) = 0
    BY DEF Init
  <2> QED  BY <2>1 DEF PaidOf, WindowOf
<1>2. Inv /\ GrantsInv => WindowBound
  <2> SUFFICES ASSUME Inv, GrantsInv, NEW u \in Users,
                      NEW i \in DOMAIN grants[u], NEW j \in DOMAIN grants[u], i <= j
               PROVE  (j - i) + 1 <= Burst + (grants[u][j] - grants[u][i])
    BY DEF WindowBound
  <2>1. DOMAIN grants[u] = 1 .. Len(grants[u])
    BY DEF Inv, TypeOK
  <2> QED  BY <2>1 DEF GrantsInv, WindowOf
<1> QED  BY <1>1, <1>2, GrantsStep, Invariant, PTL DEF Spec

----------------------------------------------------------------------------
LEMMA MapsInit == Init => Buckets!Init
BY DEF Init, Buckets!Init, BucketLevel, Told

LEMMA MapsStep == Inv /\ [Next]_vars => [Buckets!Next]_(Buckets!vars)
<1> SUFFICES ASSUME Inv, [Next]_vars PROVE Buckets!Next \/ UNCHANGED Buckets!vars
  OBVIOUS
<1>1. CASE \/ UNCHANGED vars
           \/ StartSweep
           \/ EvictIdle
           \/ \E g \in Goroutines : Lookup(g)
  <2>1. UNCHANGED now /\ \/ UNCHANGED <<now, visitors>>
                         \/ EvictIdle
                         \/ \E g \in Goroutines : Lookup(g)
    BY <1>1 DEF vars, StartSweep, EvictIdle, Lookup
  <2>2. UNCHANGED BucketLevel
    BY <2>1, KeepsLevel
  <2>3. CASE UNCHANGED req
    BY <2>1, <2>2, <2>3 DEF Buckets!vars, Told
  <2>4. ASSUME NEW g \in Goroutines, Lookup(g) PROVE UNCHANGED Told
    <3>1. req[g].pc = "waiting" /\ Move(g, "locked") /\ TypeOK
      BY <2>4 DEF Lookup, Inv
    <3>2. req'[g].pc = "locked" /\ \A h \in Goroutines \ {g} : req'[h] = req[h]
      BY <3>1, Moves DEF Places
    <3> QED  BY <3>1, <3>2 DEF Told
  <2> QED  BY <1>1, <2>1, <2>2, <2>3, <2>4 DEF Buckets!vars, vars, StartSweep, EvictIdle
<1>2. ASSUME NEW g \in Goroutines, Decide(g) PROVE Buckets!Next
  <2>1. PICK u \in Users : u = req[g].user
    BY <1>2, Holder
  <2>2. /\ Allows(visitors[u]) => Level(u) > 0 /\ Level(u)' = Level(u) - 1
        /\ ~Allows(visitors[u]) => Level(u) = 0 /\ Level(u)' = Level(u)
        /\ \A o \in Users \ {u} : Level(o)' = Level(o)
    BY <1>2, <2>1, DecideLevel
  <2>3. BucketLevel \in [Users -> 0 .. Burst] /\ BucketLevel' \in [Users -> 0 .. Burst]
    BY <1>2, DecideStep, Levels, LevelsPrimed
  <2>4. now' = now /\ req[g].pc = "locked"
        /\ Move(g, Answer(Allows(visitors[u])))
    BY <1>2, <2>1 DEF Decide, Unlocked
  <2>5. CASE Allows(visitors[u])
    <3>1. BucketLevel' = [BucketLevel EXCEPT ![u] = @ - 1]
      BY <2>2, <2>3, <2>5 DEF Level
    <3>2. Told[g] = "none" /\ Told' = [Told EXCEPT ![g] = "next"]
      <4>1. Move(g, "next") /\ TypeOK
        BY <2>4, <2>5 DEF Answer, Inv
      <4>2. req'[g].pc = "next" /\ \A h \in Goroutines \ {g} : req'[h] = req[h]
        BY <4>1, Moves DEF Places
      <4> QED  BY <2>4, <4>2 DEF Told
    <3>3. Buckets!Decide(g, u)
      BY <2>2, <2>4, <2>5, <3>1, <3>2 DEF Buckets!Decide, Level
    <3> QED  BY <3>3 DEF Buckets!Next
  <2>6. CASE ~Allows(visitors[u])
    <3>1. BucketLevel' = BucketLevel
      BY <2>2, <2>3, <2>6 DEF Level
    <3>2. Told[g] = "none" /\ Told' = [Told EXCEPT ![g] = "throttled"]
      <4>1. Move(g, "throttled") /\ TypeOK
        BY <2>4, <2>6 DEF Answer, Inv
      <4>2. req'[g].pc = "throttled" /\ \A h \in Goroutines \ {g} : req'[h] = req[h]
        BY <4>1, Moves DEF Places
      <4> QED  BY <2>4, <4>2 DEF Told
    <3>3. Buckets!Decide(g, u)
      BY <2>2, <2>4, <2>6, <3>1, <3>2 DEF Buckets!Decide, Level
    <3> QED  BY <3>3 DEF Buckets!Next
  <2> QED  BY <2>5, <2>6
<1>3. ASSUME NEW g \in Goroutines, Ask(g) PROVE Buckets!Next \/ UNCHANGED Buckets!vars
  <2>1. UNCHANGED <<now, BucketLevel>> /\ req[g].pc = "idle"
    BY <1>3, KeepsLevel DEF Ask
  <2>2. ASSUME NEW u \in Users, req' = [req EXCEPT ![g] = [pc |-> "waiting", user |-> u]]
        PROVE  UNCHANGED Buckets!vars
    <3>1. req'[g].pc = "waiting" /\ \A h \in Goroutines \ {g} : req'[h] = req[h]
      BY <2>2 DEF Inv, TypeOK
    <3>2. UNCHANGED Told
      BY <2>1, <3>1 DEF Told
    <3> QED  BY <2>1, <3>2 DEF Buckets!vars
  <2>3. ASSUME Move(g, "unauthorized") PROVE Buckets!Next
    <3>1. req'[g].pc = "unauthorized" /\ \A h \in Goroutines \ {g} : req'[h] = req[h]
      BY <2>3, Moves DEF Places, Inv
    <3>2. Told[g] = "none" /\ Told' = [Told EXCEPT ![g] = "unauthorized"]
      BY <2>1, <3>1 DEF Told
    <3>3. Buckets!Refuse(g)
      BY <2>1, <3>2 DEF Buckets!Refuse
    <3> QED  BY <3>3 DEF Buckets!Next
  <2> QED  BY <1>3, <2>2, <2>3 DEF Ask
<1>4. ASSUME NEW g \in Goroutines, Finish(g) PROVE Buckets!Next
  <2>1. UNCHANGED <<now, BucketLevel>>
    BY <1>4, KeepsLevel DEF Finish
  <2>2. /\ req[g].pc \in {"next", "throttled", "unauthorized"}
        /\ req'[g].pc = "idle" /\ \A h \in Goroutines \ {g} : req'[h] = req[h]
    BY <1>4 DEF Finish, Inv, TypeOK
  <2>3. Told[g] # "none" /\ Told' = [Told EXCEPT ![g] = "none"]
    BY <2>2 DEF Told
  <2>4. Buckets!Finish(g)
    BY <2>1, <2>3 DEF Buckets!Finish
  <2> QED  BY <2>4 DEF Buckets!Next
<1>5. CASE Tick
  <2>1. BucketLevel' = [u \in Users |-> Buckets!Pour(BucketLevel[u] + 1)]
    <3>1. \A u \in Users : BucketLevel'[u] = Buckets!Pour(BucketLevel[u] + 1)
      BY <1>5, TickLevel DEF Level
    <3>2. BucketLevel' \in [Users -> 0 .. Burst]
      BY <1>5, TickStep, LevelsPrimed
    <3> QED  BY <3>1, <3>2
  <2>2. now' = now + 1 /\ UNCHANGED Told
    BY <1>5 DEF Tick, Told
  <2>3. Buckets!Tick
    BY <2>1, <2>2 DEF Buckets!Tick
  <2> QED  BY <2>3 DEF Buckets!Next
<1> QED  BY <1>1, <1>2, <1>3, <1>4, <1>5 DEF Next

\* The rate limiter with its map, mutex, evictions and late sweeper is, to its
\* users, a set of buckets that always exist, each spent by its owner alone.
THEOREM BucketsImplemented == Spec => ImplementsBuckets
<1> QED  BY MapsInit, MapsStep, Invariant, PTL DEF Spec, ImplementsBuckets, Buckets!Spec
=============================================================================
