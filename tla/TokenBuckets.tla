---------------------------- MODULE TokenBuckets ----------------------------
(***************************************************************************)
(* What the rate limiter promises: one bucket per user that always exists, *)
(* holds at most Burst tokens, gains one per tick and pays for every       *)
(* request let through.  No visitor map, no locks, no eviction.            *)
(***************************************************************************)
EXTENDS Naturals

CONSTANTS Users, Goroutines, Burst

VARIABLES
  now,      \* ticks
  level,    \* tokens in each user's bucket
  verdict   \* what each request has been told

vars == <<now, level, verdict>>

Pour(n) == IF n < Burst THEN n ELSE Burst

Init ==
  /\ now = 0
  /\ level = [u \in Users |-> Burst]
  /\ verdict = [g \in Goroutines |-> "none"]

Decide(g, u) ==
  /\ verdict[g] = "none"
  /\ \/ /\ level[u] > 0
        /\ level' = [level EXCEPT ![u] = @ - 1]
        /\ verdict' = [verdict EXCEPT ![g] = "next"]
     \/ /\ level[u] = 0
        /\ verdict' = [verdict EXCEPT ![g] = "throttled"]
        /\ UNCHANGED level
  /\ UNCHANGED now

\* Without a subject there is no bucket to charge.
Refuse(g) ==
  /\ verdict[g] = "none"
  /\ verdict' = [verdict EXCEPT ![g] = "unauthorized"]
  /\ UNCHANGED <<now, level>>

Finish(g) ==
  /\ verdict[g] # "none"
  /\ verdict' = [verdict EXCEPT ![g] = "none"]
  /\ UNCHANGED <<now, level>>

Tick ==
  /\ now' = now + 1
  /\ level' = [u \in Users |-> Pour(level[u] + 1)]
  /\ UNCHANGED verdict

Next ==
  \/ Tick
  \/ \E g \in Goroutines : Refuse(g) \/ Finish(g) \/ \E u \in Users : Decide(g, u)

Spec == Init /\ [][Next]_vars
=============================================================================
