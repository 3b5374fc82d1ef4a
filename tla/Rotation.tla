------------------------------ MODULE Rotation ------------------------------
(***************************************************************************)
(* Rotating a project's API key and encryption part: the page's two        *)
(* asynchronous functions, which share the credentials the page holds,     *)
(* against cold storage, over calls and answers that get lost.             *)
(*                                                                         *)
(* Both kinds of credential are naturals; a project is named by its API    *)
(* secret, which the page never rotates.                                   *)
(***************************************************************************)
EXTENDS Naturals, FiniteSets

CONSTANTS
  Handlers,     \* invocations of the page's functions, one per slot
  Projects,
  Together,     \* which functions the user lets run at the same time
  MaxMinted,    \* bound: credentials cold storage ever makes
  MaxLost,      \* bound: calls and answers that fail
  MaxCut,       \* bound: answers whose body is cut off after the status line
  None

Kinds == {"key", "part"}
Functions == Kinds \cup {"create"}

ASSUME RotationAssumption ==
  /\ Together \subseteq SUBSET Functions
  /\ {MaxMinted, MaxLost, MaxCut} \subseteq Nat
  /\ None \notin Nat \cup Projects \cup Functions

VARIABLES
  page,     \* what the page's variables hold; one set for all handlers
  call,     \* the call each handler awaits
  shield,   \* cold storage, by project; None before it is registered
  minted,
  lost,
  cut

vars == <<page, call, shield, minted, lost, cut>>

Credential == Nat \cup {None}

Page ==
  [project : Projects \cup {None},
   held : [Kinds -> Credential], pending : [Kinds -> Credential]]

Call ==
  [fn : Functions \cup {None}, step : {"idle", "prepare", "commit", "register"},
   project : Projects \cup {None}, auth : Credential,
   old : Credential, new : Credential,
   status : {"sent", "ok", "unauthorized", "rejected", "failed"},
   body : Credential]

Stored == [now : [Kinds -> Nat], next : [Kinds -> Credential]]

ASSUME StoredAssumption == None \notin Stored

TypeOK ==
  /\ page \in Page
  /\ call \in [Handlers -> Call]
  /\ \A h \in Handlers : call[h].step = "prepare" => None \notin {call[h].auth, call[h].old}
  /\ shield \in [Projects -> {None} \cup Stored]
  /\ minted \in 0 .. MaxMinted
  /\ lost \in 0 .. MaxLost
  /\ cut \in 0 .. MaxCut

Idle ==
  [fn |-> None, step |-> "idle", project |-> None, auth |-> None,
   old |-> None, new |-> None, status |-> "sent", body |-> None]

----------------------------------------------------------------------------
\* The page.  A handler runs from one await to the next without interruption.

MayStart(h, fn) ==
  /\ call[h] = Idle
  /\ \A i \in Handlers : call[i].fn # None => {call[i].fn, fn} \in Together

\* The call that commits what is pending.  An API key proves itself, with the
\* secret of the moment; a part goes with the part it replaces, under the
\* headers h the function started with.
Commit(fn, h, pg) ==
  [Idle EXCEPT !.fn = fn, !.step = "commit", !.new = pg.pending[fn],
               !.project = IF fn = "key" THEN pg.project ELSE h.project,
               !.auth = IF fn = "key" THEN pg.pending["key"] ELSE h.auth,
               !.old = IF fn = "key" THEN None ELSE pg.held["part"]]

Prepare(fn) ==
  [Idle EXCEPT !.fn = fn, !.step = "prepare", !.project = page.project,
               !.auth = page.held["key"], !.old = page.held[fn]]

\* Slip: only the existence of a project is checked.
HasProject(kind) == page.project # None

\* The check that the credentials a rotation needs are there.
Ready(kind) == page.project # None /\ None \notin {page.held["key"], page.held[kind]}

\* rotateShieldApiKey and rotateShieldEncryptionKey, to their first await.
Rotate(h, kind) ==
  /\ MayStart(h, kind)
  /\ Ready(kind)
  /\ call' = [call EXCEPT ![h] =
       IF page.pending[kind] = None THEN Prepare(kind)
                                    ELSE Commit(kind, Prepare(kind), page)]
  /\ UNCHANGED <<page, shield, minted, lost, cut>>

CreateProject(h) ==
  /\ MayStart(h, "create")
  /\ call' = [call EXCEPT ![h] = [Idle EXCEPT !.fn = "create", !.step = "register"]]
  /\ UNCHANGED <<page, shield, minted, lost, cut>>

\* A prepared credential becomes the pending one, and its commit is sent.
Prepared(h) ==
  LET fn == call[h].fn
      pg == [page EXCEPT !.pending[fn] = call[h].body]
  IN /\ call[h].step = "prepare"
     /\ call[h].status # "sent"
     /\ IF call[h].status = "ok"
          THEN /\ page' = pg
               /\ call' = [call EXCEPT ![h] = Commit(fn, @, pg)]
          ELSE /\ call' = [call EXCEPT ![h] = Idle]
               /\ UNCHANGED page
     /\ UNCHANGED <<shield, minted, lost, cut>>

\* Slip: any failure drops the pending credential.
AnyFailure(fn) == {"unauthorized", "rejected", "failed"}

\* The answers after which cold storage no longer has the pending credential.
Definitive(fn) == IF fn = "key" THEN {"unauthorized", "rejected"} ELSE {"rejected"}

\* What a function holds once its commit succeeded: the key the answer names,
\* the part that is pending by then.
Taken(h) == IF call[h].fn = "key" THEN call[h].body ELSE page.pending["part"]

Committed(h) ==
  LET fn == call[h].fn IN
    /\ call[h].step = "commit"
    /\ call[h].status # "sent"
    /\ page' = IF call[h].status = "ok"
                 THEN [page EXCEPT !.held[fn] = Taken(h), !.pending[fn] = None]
               ELSE IF call[h].status \in Definitive(fn)
                 THEN [page EXCEPT !.pending[fn] = None]
               ELSE page
    /\ call' = [call EXCEPT ![h] = Idle]
    /\ UNCHANGED <<shield, minted, lost, cut>>

\* createShieldProject: all that is held comes from the answer; what is pending
\* stays.
Created(h) ==
  /\ call[h].step = "register"
  /\ call[h].status # "sent"
  /\ page' = IF call[h].status = "ok"
               THEN [page EXCEPT !.project = call[h].project,
                                 !.held = shield[call[h].project].now]
             ELSE page
  /\ call' = [call EXCEPT ![h] = Idle]
  /\ UNCHANGED <<shield, minted, lost, cut>>

----------------------------------------------------------------------------
\* Cold storage.  Each operation answers the call of one handler.

Answer(h, status, body) == call' = [call EXCEPT ![h].status = status, ![h].body = body]

\* The call reaches cold storage while the page still waits.
Arrives(h, step) == call[h].step = step /\ call[h].status = "sent"

Registered(h) ==
  /\ Arrives(h, "register")
  /\ \/ /\ minted + 2 <= MaxMinted
        /\ \E p \in Projects :
             /\ shield[p] = None
             /\ shield' = [shield EXCEPT ![p] =
                  [now |-> [k \in Kinds |-> IF k = "key" THEN minted + 1 ELSE minted + 2],
                   next |-> [k \in Kinds |-> None]]]
             /\ call' = [call EXCEPT ![h].status = "ok", ![h].project = p]
        /\ minted' = minted + 2
     \/ Answer(h, "failed", None) /\ UNCHANGED <<shield, minted>>
  /\ UNCHANGED <<page, lost, cut>>

Authentic(c) == c.auth = shield[c.project].now["key"]

\* Prepare needs the current credentials; it replaces what was pending.
Minted(h) ==
  LET c == call[h] IN
    /\ Arrives(h, "prepare")
    /\ IF ~Authentic(c) THEN
            Answer(h, "unauthorized", None) /\ UNCHANGED <<shield, minted>>
       ELSE IF c.old # shield[c.project].now[c.fn] THEN
            Answer(h, "rejected", None) /\ UNCHANGED <<shield, minted>>
       ELSE \/ /\ minted < MaxMinted
               /\ minted' = minted + 1
               /\ shield' = [shield EXCEPT ![c.project].next[c.fn] = minted + 1]
               /\ Answer(h, "ok", minted + 1)
            \/ Answer(h, "failed", None) /\ UNCHANGED <<shield, minted>>
    /\ UNCHANGED <<page, lost, cut>>

\* A commit of what is current already is answered as a success.
Settle(h) ==
  LET c == call[h]
      p == shield[c.project]
  IN /\ Arrives(h, "commit")
     /\ IF c.fn = "part" /\ ~Authentic(c) THEN
             Answer(h, "unauthorized", None) /\ UNCHANGED shield
        ELSE IF c.new = p.now[c.fn] THEN
             Answer(h, "ok", c.new) /\ UNCHANGED shield
        ELSE IF c.new # None /\ c.new = p.next[c.fn] /\ (c.fn = "part" => c.old = p.now["part"]) THEN
             /\ shield' = [shield EXCEPT ![c.project].now[c.fn] = c.new,
                                         ![c.project].next[c.fn] = None]
             /\ Answer(h, "ok", c.new)
        ELSE \E s \in {"unauthorized", "rejected"} :
               (c.fn = "part" => s = "rejected")
                 /\ Answer(h, s, None) /\ UNCHANGED shield
     /\ UNCHANGED <<page, minted, lost, cut>>

\* A pending credential expires after fifteen minutes.
Expire(p, kind) ==
  /\ shield[p] # None
  /\ shield[p].next[kind] # None
  /\ shield' = [shield EXCEPT ![p].next[kind] = None]
  /\ UNCHANGED <<page, call, minted, lost, cut>>

----------------------------------------------------------------------------
\* The call fails on its way, or the answer does: the page sees a failure.
Lose(h) ==
  /\ call[h] # Idle
  /\ call[h].status # "failed"
  /\ lost < MaxLost
  /\ lost' = lost + 1
  /\ Answer(h, "failed", None)
  /\ UNCHANGED <<page, shield, minted, cut>>

\* The status arrives and the body does not: response.json() rejects, and the
\* page goes on with an empty object.
CutBody(h) ==
  /\ call[h].step \in {"prepare", "commit"}
  /\ call[h].status = "ok"
  /\ call[h].body # None
  /\ cut < MaxCut
  /\ cut' = cut + 1
  /\ Answer(h, "ok", None)
  /\ UNCHANGED <<page, shield, minted, lost>>

Init ==
  /\ page = [project |-> None, held |-> [k \in Kinds |-> None],
             pending |-> [k \in Kinds |-> None]]
  /\ call = [h \in Handlers |-> Idle]
  /\ shield = [p \in Projects |-> None]
  /\ minted = 0
  /\ lost = 0
  /\ cut = 0

Next ==
  \/ \E h \in Handlers :
       \/ \E kind \in Kinds : Rotate(h, kind)
       \/ CreateProject(h) \/ Prepared(h) \/ Committed(h) \/ Created(h)
       \/ Registered(h) \/ Minted(h) \/ Settle(h) \/ Lose(h) \/ CutBody(h)
  \/ \E p \in Projects, kind \in Kinds : Expire(p, kind)

Spec == Init /\ [][Next]_vars

----------------------------------------------------------------------------
KeptOf(kind) ==
  page.project # None =>
    shield[page.project].now[kind] \in {page.held[kind], page.pending[kind]}

\* Cold storage never accepts only an API key the page has thrown away: what a
\* commit replaced stays held until the answer, what it made current is pending.
\* (Of the API key, as long as no answer loses its body.)
KeepsKey == cut = 0 => KeptOf("key")

\* The same of the encryption part, the one half of the key no one else holds.
KeepsPart == KeptOf("part")

\* What the comment above the two functions promises, of a page that waits for
\* nothing: whatever was lost or failed, the credential is not thrown away.
NothingThrownAway ==
  (\A h \in Handlers : call[h] = Idle) => KeptOf("key") /\ KeptOf("part")
=============================================================================
