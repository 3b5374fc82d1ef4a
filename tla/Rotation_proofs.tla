-------------------------- MODULE Rotation_proofs --------------------------
(***************************************************************************)
(* Theorems about credential rotation, for any number of projects, of      *)
(* invocations, and of calls and answers lost: what cold storage accepts   *)
(* is never thrown away by a page whose user lets each function end before *)
(* he starts it again, and creates a project with nothing under way.       *)
(***************************************************************************)
EXTENDS Rotation, TLAPS

USE RotationAssumption, StoredAssumption

----------------------------------------------------------------------------
\* Whatever runs at the same time.

\* A project on the page is registered; so is that of every call that cold
\* storage looks at, and a call in one of the two rotations is about their kind.
CallsInStep ==
  /\ page.project # None => shield[page.project] # None
  /\ \A h \in Handlers :
       LET c == call[h] IN
         /\ c.step = "idle" <=> c.fn = None
         /\ c.step \in {"prepare", "commit"} =>
              c.fn \in Kinds /\ c.project \in Projects /\ shield[c.project] # None
         /\ c.step = "prepare" => page.project # None
         /\ c.step = "register" => c.fn = "create"
         /\ c.step = "register" /\ c.status = "ok" =>
              c.project \in Projects /\ shield[c.project] # None

TypeInv == TypeOK /\ CallsInStep

----------------------------------------------------------------------------
\* One function at a time, but for the two rotations side by side.

OneAtATime == Together \subseteq {{"key", "part"}}

Apart ==
  \A i, j \in Handlers :
    i # j /\ call[i].fn # None /\ call[j].fn # None =>
      {call[i].fn, call[j].fn} = {"key", "part"}

\* A rotation is about the page's project.  While it prepares, nothing of its kind
\* is pending, so what is current is held; while it commits, what is pending is
\* what it sent.  A success it hears of is a fact, and when it hears that cold
\* storage has nothing pending, what is current is held.
InStep(h) ==
  LET c == call[h] IN
    /\ c.step \in {"prepare", "commit"} => c.project = page.project
    /\ c.step = "prepare" => page.pending[c.fn] = None
    /\ c.step = "commit" =>
         /\ c.new = page.pending[c.fn]
         /\ c.status = "ok" =>
              c.new = shield[c.project].now[c.fn] /\ (cut = 0 => c.body = c.new)
         /\ c.status \in Definitive(c.fn) /\ (c.fn = "key" => cut = 0) =>
              shield[c.project].now[c.fn] = page.held[c.fn]

CredentialsInStep == \A h \in Handlers : InStep(h)

RotationInv ==
  TypeInv /\ Apart /\ CredentialsInStep /\ KeepsKey /\ KeepsPart

----------------------------------------------------------------------------
\* What the operators that make and answer calls return.

LEMMA IdleIsCall == Idle \in Call
PROOF BY DEF Idle, Call, Credential

LEMMA PrepareMakes ==
  ASSUME page \in Page, NEW fn \in Kinds, page.project # None
  PROVE  /\ Prepare(fn) \in Call
         /\ Prepare(fn).fn = fn /\ Prepare(fn).step = "prepare" /\ Prepare(fn).status = "sent"
         /\ Prepare(fn).project = page.project
         /\ Prepare(fn).auth = page.held["key"] /\ Prepare(fn).old = page.held[fn]
<1>1. PICK c : c = Prepare(fn)
  OBVIOUS
<1>2. c = [fn |-> fn, step |-> "prepare", project |-> page.project, auth |-> page.held["key"],
           old |-> page.held[fn], new |-> None, status |-> "sent", body |-> None]
  BY <1>1 DEF Prepare, Idle
<1>3. page.held["key"] \in Credential /\ page.held[fn] \in Credential
  BY DEF Page, Kinds
<1> QED
  BY <1>1, <1>2, <1>3 DEF Call, Page, Functions, Credential

LEMMA CommitMakes ==
  ASSUME NEW fn \in Kinds, NEW h \in Call, NEW pg \in Page
  PROVE  LET c == Commit(fn, h, pg) IN
           /\ c \in Call
           /\ c.fn = fn /\ c.step = "commit" /\ c.status = "sent"
           /\ c.new = pg.pending[fn]
           /\ c.project = IF fn = "key" THEN pg.project ELSE h.project
<1>1. PICK c : c = Commit(fn, h, pg)
  OBVIOUS
<1>2. PICK p, a, o :
        /\ p = IF fn = "key" THEN pg.project ELSE h.project
        /\ a = IF fn = "key" THEN pg.pending["key"] ELSE h.auth
        /\ o = IF fn = "key" THEN None ELSE pg.held["part"]
  OBVIOUS
<1>3. c = [fn |-> fn, step |-> "commit", project |-> p, auth |-> a,
           old |-> o, new |-> pg.pending[fn], status |-> "sent", body |-> None]
  BY <1>1, <1>2 DEF Commit, Idle
<1>4. p \in Projects \cup {None} /\ a \in Credential /\ o \in Credential
        /\ pg.pending[fn] \in Credential
  BY <1>2 DEF Page, Kinds, Call, Credential
<1> QED
  BY <1>1, <1>2, <1>3, <1>4 DEF Call, Functions, Credential

LEMMA AnswerSets ==
  ASSUME call \in [Handlers -> Call], NEW h \in Handlers,
         NEW status \in {"sent", "ok", "unauthorized", "rejected", "failed"},
         NEW body \in Credential, Answer(h, status, body)
  PROVE  /\ call' \in [Handlers -> Call]
         /\ call'[h].status = status /\ call'[h].body = body
         /\ call'[h].fn = call[h].fn /\ call'[h].step = call[h].step
         /\ call'[h].project = call[h].project /\ call'[h].auth = call[h].auth
         /\ call'[h].old = call[h].old /\ call'[h].new = call[h].new
         /\ \A i \in Handlers \ {h} : call'[i] = call[i]
<1>1. PICK c \in Call : c = call[h]
  OBVIOUS
<1>2. PICK d : d = [c EXCEPT !.status = status, !.body = body]
  OBVIOUS
<1>3. d = [fn |-> c.fn, step |-> c.step, project |-> c.project, auth |-> c.auth,
           old |-> c.old, new |-> c.new, status |-> status, body |-> body]
  BY <1>2 DEF Call
<1>4. d \in Call
  BY <1>3 DEF Call
<1>5. call' = [call EXCEPT ![h] = d]
  BY <1>1, <1>2 DEF Answer
<1> QED
  BY <1>1, <1>3, <1>4, <1>5

----------------------------------------------------------------------------
\* Types.

LEMMA TypesStart == Init => TypeInv
PROOF BY IdleIsCall DEF Init, TypeInv, TypeOK, CallsInStep, Page, Credential, Idle

\* An answer keeps them, whatever cold storage did to give it.
LEMMA AnswersKeepTypes ==
  ASSUME TypeInv, NEW h \in Handlers,
         NEW status \in {"sent", "ok", "unauthorized", "rejected", "failed"},
         NEW body \in Credential, Answer(h, status, body),
         call[h].step = "register" => status # "ok",
         UNCHANGED page, shield' \in [Projects -> {None} \cup Stored],
         \A q \in Projects : shield[q] # None => shield'[q] # None,
         minted' \in 0 .. MaxMinted, lost' \in 0 .. MaxLost, cut' \in 0 .. MaxCut
  PROVE  TypeInv'
<1>1. /\ call' \in [Handlers -> Call]
      /\ call'[h].status = status
      /\ call'[h].fn = call[h].fn /\ call'[h].step = call[h].step
      /\ call'[h].project = call[h].project /\ call'[h].auth = call[h].auth
      /\ call'[h].old = call[h].old
      /\ \A i \in Handlers \ {h} : call'[i] = call[i]
  BY AnswerSets DEF TypeInv, TypeOK
<1>2. TypeOK'
  BY <1>1 DEF TypeInv, TypeOK
<1>3. page.project # None => page.project \in Projects
  BY DEF TypeInv, TypeOK, Page
<1>4. CallsInStep'
  BY <1>1, <1>3 DEF TypeInv, CallsInStep
<1> QED
  BY <1>2, <1>4 DEF TypeInv

\* So does a handler that goes on to a call of a rotation, or ends.
LEMMA CallsKeepTypes ==
  ASSUME TypeInv, NEW h \in Handlers, NEW c \in Call, call' = [call EXCEPT ![h] = c],
         page' \in Page, page'.project = page.project, UNCHANGED <<shield, minted, lost, cut>>,
         c.step = "idle" <=> c.fn = None,
         c.step \in {"prepare", "commit"} =>
           c.fn \in Kinds /\ c.project \in Projects /\ shield[c.project] # None,
         c.step = "prepare" => page.project # None /\ None \notin {c.auth, c.old},
         c.step = "register" => c.fn = "create" /\ c.status # "ok"
  PROVE  TypeInv'
<1>1. TypeOK'
  BY DEF TypeInv, TypeOK
<1>2. CallsInStep'
  BY DEF TypeInv, CallsInStep
<1> QED
  BY <1>1, <1>2 DEF TypeInv

LEMMA RotateKeepsTypes ==
  ASSUME TypeInv, NEW h \in Handlers, NEW kind \in Kinds, Rotate(h, kind)
  PROVE  TypeInv'
<1>1. page \in Page /\ page.project \in Projects /\ shield[page.project] # None
  BY DEF Rotate, Ready, TypeInv, TypeOK, CallsInStep, Page
<1>2. PICK p \in Call : p = Prepare(kind)
  BY <1>1, PrepareMakes
<1>3. /\ p.fn = kind /\ p.step = "prepare" /\ p.status = "sent" /\ p.project = page.project
      /\ p.auth = page.held["key"] /\ p.old = page.held[kind]
  BY <1>1, <1>2, PrepareMakes
<1>4. PICK c : c = Commit(kind, p, page)
  OBVIOUS
<1>5. /\ c \in Call /\ c.fn = kind /\ c.step = "commit" /\ c.status = "sent"
      /\ c.project = page.project
  BY <1>1, <1>3, <1>4, CommitMakes
<1>6. None \notin Kinds /\ None \notin {p.auth, p.old}
  BY <1>3 DEF Rotate, Ready, Functions
<1>7. CASE call' = [call EXCEPT ![h] = p]
  BY <1>1, <1>3, <1>6, <1>7, CallsKeepTypes DEF Rotate
<1>8. CASE call' = [call EXCEPT ![h] = c]
  BY <1>1, <1>5, <1>6, <1>8, CallsKeepTypes DEF Rotate
<1> QED
  BY <1>2, <1>4, <1>7, <1>8 DEF Rotate

LEMMA CreateKeepsTypes ==
  ASSUME TypeInv, NEW h \in Handlers, CreateProject(h)
  PROVE  TypeInv'
<1>1. PICK c : c = [Idle EXCEPT !.fn = "create", !.step = "register"]
  OBVIOUS
<1>2. c = [fn |-> "create", step |-> "register", project |-> None, auth |-> None,
           old |-> None, new |-> None, status |-> "sent", body |-> None]
  BY <1>1 DEF Idle
<1>3. c \in Call /\ None # "create"
  BY <1>2 DEF Call, Functions, Credential
<1>4. page \in Page
  BY DEF TypeInv, TypeOK
<1>5. c.fn = "create" /\ c.step = "register" /\ c.status = "sent"
  BY <1>2
<1>6. call' = [call EXCEPT ![h] = c]
  BY <1>1 DEF CreateProject
<1> QED
  BY <1>3, <1>4, <1>5, <1>6, CallsKeepTypes DEF CreateProject

\* What the page does with an answer: the pending credential is replaced or
\* dropped, the held one taken over.
LEMMA PagesTyped ==
  ASSUME page \in Page, NEW fn \in Kinds, NEW held \in Credential, NEW pending \in Credential
  PROVE  /\ [page EXCEPT !.pending[fn] = pending] \in Page
         /\ [page EXCEPT !.held[fn] = held, !.pending[fn] = pending] \in Page
<1>1. PICK x : x = [page EXCEPT !.pending[fn] = pending]
  OBVIOUS
<1>2. PICK y : y = [page EXCEPT !.held[fn] = held, !.pending[fn] = pending]
  OBVIOUS
<1> QED
  BY DEF Page

LEMMA PreparedKeepsTypes ==
  ASSUME TypeInv, NEW h \in Handlers, Prepared(h)
  PROVE  TypeInv'
<1>1. PICK c \in Call : c = call[h]
  BY DEF TypeInv, TypeOK
<1>2. /\ page \in Page /\ page.project \in Projects /\ shield[page.project] # None
      /\ c.fn \in Kinds /\ c.project \in Projects /\ shield[c.project] # None
      /\ c.body \in Credential
  BY <1>1 DEF Prepared, TypeInv, TypeOK, CallsInStep, Page, Call
<1>3. CASE c.status = "ok"
  <2>1. PICK pg \in Page : pg = [page EXCEPT !.pending[c.fn] = c.body]
    BY <1>2, PagesTyped
  <2>2. pg.project = page.project
    BY <2>1
  <2>3. PICK d : d = Commit(c.fn, c, pg)
    OBVIOUS
  <2>4. /\ d \in Call /\ d.fn = c.fn /\ d.step = "commit" /\ d.status = "sent"
        /\ d.project \in {page.project, c.project}
    BY <1>2, <2>2, <2>3, CommitMakes
  <2>5. page' = pg /\ call' = [call EXCEPT ![h] = d]
    BY <1>1, <1>3, <2>1, <2>3 DEF Prepared
  <2>6. None \notin Kinds
    BY DEF Functions
  <2> QED
    BY <1>2, <2>2, <2>4, <2>5, <2>6, CallsKeepTypes DEF Prepared
<1>4. CASE c.status # "ok"
  BY <1>1, <1>2, <1>4, IdleIsCall, CallsKeepTypes DEF Prepared, Idle
<1> QED
  BY <1>3, <1>4

LEMMA CommittedKeepsTypes ==
  ASSUME TypeInv, NEW h \in Handlers, Committed(h)
  PROVE  TypeInv'
<1>1. PICK c \in Call : c = call[h]
  BY DEF TypeInv, TypeOK
<1>2. page \in Page /\ c.fn \in Kinds
  BY <1>1 DEF Committed, TypeInv, TypeOK, CallsInStep
<1>3. Taken(h) \in Credential /\ None \in Credential
  BY <1>1, <1>2 DEF Taken, Call, Page, Kinds, Credential
<1>4. page' \in Page /\ page'.project = page.project
  <2>1. CASE c.status = "ok"
    BY <1>2, <1>3 DEF Committed, Page
  <2>2. CASE c.status # "ok"
    BY <1>2, <1>3 DEF Committed, Page
  <2> QED
    BY <2>1, <2>2
<1> QED
  BY <1>4, IdleIsCall, CallsKeepTypes DEF Committed, Idle

LEMMA CreatedKeepsTypes ==
  ASSUME TypeInv, NEW h \in Handlers, Created(h)
  PROVE  TypeInv'
<1>1. PICK c \in Call : c = call[h]
  BY DEF TypeInv, TypeOK
<1>2. page \in Page
  BY DEF TypeInv, TypeOK
<1>3. /\ page' \in Page
      /\ page'.project # None => shield[page'.project] # None
      /\ page.project # None => page'.project # None
  <2>1. CASE c.status = "ok"
    <3>1. PICK p \in Projects : p = c.project /\ shield[p] \in Stored
      BY <1>1, <2>1 DEF Created, TypeInv, TypeOK, CallsInStep
    <3>2. page' = [page EXCEPT !.project = p, !.held = shield[p].now]
      BY <1>1, <2>1, <3>1 DEF Created
    <3>3. page' = [project |-> p, held |-> shield[p].now, pending |-> page.pending]
      BY <1>2, <3>2 DEF Page
    <3>4. shield[p].now \in [Kinds -> Credential] /\ shield[p] # None
      BY <3>1 DEF Stored, Credential
    <3> QED
      BY <1>2, <3>3, <3>4 DEF Page
  <2>2. CASE c.status # "ok"
    BY <1>1, <1>2, <2>2 DEF Created, TypeInv, CallsInStep
  <2> QED
    BY <2>1, <2>2
<1>4. /\ call' \in [Handlers -> Call] /\ call'[h] = Idle
      /\ \A i \in Handlers \ {h} : call'[i] = call[i]
  BY IdleIsCall DEF Created, TypeInv, TypeOK
<1>5. TypeOK'
  BY <1>3, <1>4 DEF Created, TypeInv, TypeOK, Idle
<1>6. CallsInStep'
  BY DEF Created, TypeInv, CallsInStep, Idle
<1> QED
  BY <1>5, <1>6 DEF TypeInv

\* What cold storage does to a project: what is next is prepared or expires.
LEMMA NextSet ==
  ASSUME shield \in [Projects -> {None} \cup Stored], NEW p \in Projects, shield[p] # None,
         NEW kind \in Kinds, NEW next \in Credential,
         shield' = [shield EXCEPT ![p].next[kind] = next]
  PROVE  /\ shield' \in [Projects -> {None} \cup Stored]
         /\ shield'[p] \in Stored /\ shield'[p].now = shield[p].now
         /\ \A q \in Projects \ {p} : shield'[q] = shield[q]
<1>1. PICK x \in Stored : x = shield[p]
  OBVIOUS
<1>2. PICK y : y = [x EXCEPT !.next[kind] = next]
  OBVIOUS
<1>3. y = [now |-> x.now, next |-> [x.next EXCEPT ![kind] = next]]
  BY <1>2 DEF Stored
<1>4. y \in Stored /\ y.now = x.now
  BY <1>3 DEF Stored
<1>5. shield' = [shield EXCEPT ![p] = y]
  BY <1>1, <1>2
<1> QED
  BY <1>4, <1>5

\* A commit makes the credential sent the current one.
WithNow(s, p, kind, now) == [s EXCEPT ![p].now[kind] = now, ![p].next[kind] = None]

LEMMA NowSet ==
  ASSUME shield \in [Projects -> {None} \cup Stored], NEW p \in Projects, shield[p] # None,
         NEW kind \in Kinds, NEW now \in Nat,
         shield' = WithNow(shield, p, kind, now)
  PROVE  /\ shield' \in [Projects -> {None} \cup Stored]
         /\ shield'[p] \in Stored /\ shield'[p].now[kind] = now
         /\ \A k \in Kinds \ {kind} : shield'[p].now[k] = shield[p].now[k]
         /\ \A q \in Projects \ {p} : shield'[q] = shield[q]
<1>1. PICK x \in Stored : x = shield[p]
  OBVIOUS
<1>2. PICK y : y = [x EXCEPT !.now[kind] = now]
  OBVIOUS
<1>3. y = [now |-> [x.now EXCEPT ![kind] = now], next |-> x.next]
  BY <1>2 DEF Stored
<1>4. /\ y \in Stored /\ y.now[kind] = now
      /\ \A k \in Kinds \ {kind} : y.now[k] = x.now[k]
  BY <1>3 DEF Stored
<1>5. PICK f : f = [shield EXCEPT ![p] = y]
  OBVIOUS
<1>6. f = [shield EXCEPT ![p].now[kind] = now]
  BY <1>1, <1>2, <1>5
<1>7. /\ f \in [Projects -> {None} \cup Stored] /\ f[p] = y
      /\ \A q \in Projects \ {p} : f[q] = shield[q]
  BY <1>4, <1>5
<1>8. PICK z : z = [y EXCEPT !.next[kind] = None]
  OBVIOUS
<1>9. z = [now |-> y.now, next |-> [y.next EXCEPT ![kind] = None]]
  BY <1>4, <1>8 DEF Stored
<1>10. z \in Stored /\ z.now = y.now
  BY <1>4, <1>9 DEF Stored, Credential
<1>11. shield' = [f EXCEPT ![p].next[kind] = None]
  BY <1>6 DEF WithNow
<1>12. shield' = [f EXCEPT ![p] = z]
  BY <1>7, <1>8, <1>11
<1>13. shield' \in [Projects -> {None} \cup Stored] /\ shield'[p] = z
  <2> DEFINE Any == {None} \cup Stored
  <2>1. z \in Any /\ f \in [Projects -> Any]
    BY <1>7, <1>10
  <2> HIDE DEF Any
  <2>2. PICK g : g = [f EXCEPT ![p] = z]
    OBVIOUS
  <2>3. g \in [Projects -> Any] /\ g[p] = z
    BY <2>1, <2>2
  <2>4. shield' = g
    BY <1>12, <2>2
  <2> QED
    BY <2>3, <2>4 DEF Any
<1>14. \A q \in Projects \ {p} : shield'[q] = shield[q]
  BY <1>7, <1>12
<1> QED
  BY <1>1, <1>4, <1>10, <1>13, <1>14

\* A registration's answer names the project.
AnswersWith(h, p) == call' = [call EXCEPT ![h].status = "ok", ![h].project = p]

LEMMA RegisterSets ==
  ASSUME call \in [Handlers -> Call], NEW h \in Handlers, NEW p \in Projects, AnswersWith(h, p)
  PROVE  \E d \in Call :
           /\ d.fn = call[h].fn /\ d.step = call[h].step /\ d.project = p /\ d.status = "ok"
           /\ call' \in [Handlers -> Call] /\ call'[h] = d
           /\ \A i \in Handlers \ {h} : call'[i] = call[i]
<1>1. PICK c \in Call : c = call[h]
  OBVIOUS
<1>2. PICK e : e = [c EXCEPT !.status = "ok"]
  OBVIOUS
<1>3. e = [fn |-> c.fn, step |-> c.step, project |-> c.project, auth |-> c.auth,
           old |-> c.old, new |-> c.new, status |-> "ok", body |-> c.body]
  BY <1>2 DEF Call
<1>4. PICK d : d = [e EXCEPT !.project = p]
  OBVIOUS
<1>5. d = [fn |-> c.fn, step |-> c.step, project |-> p, auth |-> c.auth,
           old |-> c.old, new |-> c.new, status |-> "ok", body |-> c.body]
  BY <1>3, <1>4
<1>6. e \in Call /\ d \in Call
  BY <1>3, <1>5 DEF Call
<1>7. PICK f : f = [call EXCEPT ![h] = e]
  OBVIOUS
<1>8. /\ f \in [Handlers -> Call] /\ f[h] = e
      /\ \A i \in Handlers \ {h} : f[i] = call[i]
  BY <1>6, <1>7
<1>9. f = [call EXCEPT ![h].status = "ok"]
  BY <1>1, <1>2, <1>7
<1>10. call' = [f EXCEPT ![h].project = p]
  BY <1>9 DEF AnswersWith
<1>11. call' = [f EXCEPT ![h] = d]
  BY <1>4, <1>8, <1>10
<1> QED
  BY <1>1, <1>5, <1>6, <1>8, <1>11

LEMMA RegisteredKeepsTypes ==
  ASSUME TypeInv, NEW h \in Handlers, Registered(h)
  PROVE  TypeInv'
<1>1. CASE Answer(h, "failed", None) /\ UNCHANGED <<shield, minted>>
  BY <1>1, AnswersKeepTypes DEF Registered, TypeInv, TypeOK, Credential
<1>2. ASSUME NEW p \in Projects, minted + 2 <= MaxMinted, shield[p] = None,
             shield' = [shield EXCEPT ![p] =
               [now |-> [k \in Kinds |-> IF k = "key" THEN minted + 1 ELSE minted + 2],
                next |-> [k \in Kinds |-> None]]],
             AnswersWith(h, p), minted' = minted + 2
      PROVE  TypeInv'
  <2>1. PICK c \in Call : c = call[h]
    BY DEF TypeInv, TypeOK
  <2>2. PICK d \in Call :
          /\ d.fn = c.fn /\ d.step = c.step /\ d.project = p /\ d.status = "ok"
          /\ call' \in [Handlers -> Call] /\ call'[h] = d
          /\ \A i \in Handlers \ {h} : call'[i] = call[i]
    BY <1>2, <2>1, RegisterSets DEF TypeInv, TypeOK
  <2>3. d.step = "register" /\ d.fn = c.fn /\ d.project = p
    BY <2>1, <2>2 DEF Registered, Arrives
  <2>4. PICK x : x = [now |-> [k \in Kinds |-> IF k = "key" THEN minted + 1 ELSE minted + 2],
                      next |-> [k \in Kinds |-> None]]
    OBVIOUS
  <2>5. x \in Stored /\ x # None
    <3>1. minted \in Nat
      BY DEF TypeInv, TypeOK
    <3>2. [k \in Kinds |-> IF k = "key" THEN minted + 1 ELSE minted + 2] \in [Kinds -> Nat]
      BY <3>1
    <3>3. x \in Stored
      BY <2>4, <3>2 DEF Stored, Credential
    <3> QED
      BY <3>3
  <2>6. /\ shield' \in [Projects -> {None} \cup Stored] /\ shield'[p] # None
        /\ \A q \in Projects \ {p} : shield'[q] = shield[q]
    BY <1>2, <2>4, <2>5 DEF TypeInv, TypeOK
  <2>7. UNCHANGED <<page, lost, cut>> /\ page \in Page /\ minted' \in 0 .. MaxMinted
    <3> QED
      BY DEF Registered, TypeInv, TypeOK
  <2>8. TypeOK'
    BY <2>7, <2>2, <2>3, <2>6 DEF TypeInv, TypeOK
  <2>9. CallsInStep'
    <3>1. page'.project # None => shield'[page'.project] # None
      BY <2>7, <2>6 DEF TypeInv, CallsInStep, Page
    <3>2. c.fn = "create" /\ c.fn # None
      BY <2>1 DEF Registered, Arrives, TypeInv, CallsInStep
    <3> QED
      BY <2>7, <2>2, <2>3, <2>6, <3>1, <3>2 DEF TypeInv, CallsInStep
  <2> QED
    BY <2>8, <2>9 DEF TypeInv
<1> QED
  BY <1>1, <1>2 DEF Registered, AnswersWith

LEMMA MintedKeepsTypes ==
  ASSUME TypeInv, NEW h \in Handlers, Minted(h)
  PROVE  TypeInv'
<1>1. PICK c \in Call : c = call[h]
  BY DEF TypeInv, TypeOK
<1>2. /\ c.step = "prepare" /\ c.fn \in Kinds /\ c.project \in Projects
      /\ shield[c.project] # None
  BY <1>1 DEF Minted, Arrives, TypeInv, CallsInStep
<1>3. CASE \E s \in {"unauthorized", "rejected", "failed"} :
             Answer(h, s, None) /\ UNCHANGED <<shield, minted>>
  BY <1>3, AnswersKeepTypes DEF Minted, TypeInv, TypeOK, Credential
<1>4. CASE /\ minted < MaxMinted /\ minted' = minted + 1
           /\ shield' = [shield EXCEPT ![c.project].next[c.fn] = minted + 1]
           /\ Answer(h, "ok", minted + 1)
  <2>1. minted + 1 \in Nat /\ minted' \in 0 .. MaxMinted
    BY <1>4 DEF TypeInv, TypeOK
  <2>2. /\ shield' \in [Projects -> {None} \cup Stored]
        /\ shield'[c.project] \in Stored
        /\ \A q \in Projects \ {c.project} : shield'[q] = shield[q]
    BY <1>2, <1>4, <2>1, NextSet DEF TypeInv, TypeOK, Credential
  <2> QED
    BY <1>1, <1>2, <2>1, <2>2, AnswersKeepTypes DEF Minted, TypeInv, TypeOK, Credential
<1> QED
  BY <1>1, <1>3, <1>4 DEF Minted

\* The two outcomes of a commit that cold storage looks at.
LEMMA SettleCases ==
  ASSUME TypeInv, NEW h \in Handlers, Settle(h)
  PROVE  LET c == call[h] IN
           /\ c.step = "commit" /\ c.fn \in Kinds /\ c.project \in Projects
           /\ shield[c.project] \in Stored
           /\ \/ /\ UNCHANGED shield
                 /\ \/ /\ c.new = shield[c.project].now[c.fn]
                       /\ Answer(h, "ok", c.new)
                    \/ /\ c.fn = "part" /\ Answer(h, "unauthorized", None)
                    \/ /\ c.new # shield[c.project].now[c.fn]
                       /\ \E s \in {"unauthorized", "rejected"} : Answer(h, s, None)
              \/ /\ c.new \in Nat
                 /\ shield' = WithNow(shield, c.project, c.fn, c.new)
                 /\ Answer(h, "ok", c.new)
<1>1. PICK c \in Call : c = call[h]
  BY DEF TypeInv, TypeOK
<1>2. /\ c.step = "commit" /\ c.fn \in Kinds /\ c.project \in Projects
      /\ shield[c.project] # None
  BY <1>1 DEF Settle, Arrives, TypeInv, CallsInStep
<1>3. shield[c.project] \in Stored /\ c.new \in Nat \cup {None}
  BY <1>2 DEF TypeInv, TypeOK, Call, Credential
<1> QED
  BY <1>1, <1>2, <1>3 DEF Settle, WithNow

LEMMA SettleKeepsTypes ==
  ASSUME TypeInv, NEW h \in Handlers, Settle(h)
  PROVE  TypeInv'
<1>1. PICK c \in Call : c = call[h]
  BY DEF TypeInv, TypeOK
<1>2. /\ c.step = "commit" /\ c.fn \in Kinds /\ c.project \in Projects
      /\ shield[c.project] # None /\ c.new \in Credential
      /\ page' = page /\ minted' \in 0 .. MaxMinted /\ lost' \in 0 .. MaxLost /\ cut' \in 0 .. MaxCut
  BY <1>1 DEF Settle, Arrives, TypeInv, TypeOK, CallsInStep, Call
<1>3. CASE \E s \in {"ok", "unauthorized", "rejected"}, b \in Credential :
             Answer(h, s, b) /\ UNCHANGED shield
  BY <1>1, <1>2, <1>3, AnswersKeepTypes DEF TypeInv, TypeOK
<1>4. CASE /\ c.new \in Nat
           /\ shield' = WithNow(shield, c.project, c.fn, c.new)
           /\ Answer(h, "ok", c.new)
  <2>1. /\ shield' \in [Projects -> {None} \cup Stored]
        /\ shield'[c.project] \in Stored
        /\ \A q \in Projects \ {c.project} : shield'[q] = shield[q]
    BY <1>2, <1>4, NowSet DEF TypeInv, TypeOK
  <2> QED
    BY <1>1, <1>2, <1>4, <2>1, AnswersKeepTypes
<1>5. None \in Credential
  BY DEF Credential
<1> QED
  BY <1>1, <1>2, <1>3, <1>4, <1>5, SettleCases

LEMMA ExpireKeepsTypes ==
  ASSUME TypeInv, NEW p \in Projects, NEW kind \in Kinds, Expire(p, kind)
  PROVE  TypeInv'
<1>1. /\ shield' \in [Projects -> {None} \cup Stored]
      /\ shield'[p] \in Stored
      /\ \A q \in Projects \ {p} : shield'[q] = shield[q]
  BY NextSet DEF Expire, TypeInv, TypeOK, Credential
<1> QED
  BY <1>1 DEF Expire, TypeInv, TypeOK, CallsInStep

LEMMA LossesKeepTypes ==
  ASSUME TypeInv, NEW h \in Handlers, Lose(h) \/ CutBody(h)
  PROVE  TypeInv'
<1>1. CASE Lose(h)
  <2>1. lost' \in 0 .. MaxLost /\ None \in Credential
    BY <1>1 DEF Lose, TypeInv, TypeOK, Credential
  <2> QED
    BY <1>1, <2>1, AnswersKeepTypes DEF Lose, TypeInv, TypeOK
<1>2. CASE CutBody(h)
  <2>1. cut' \in 0 .. MaxCut /\ None \in Credential
    BY <1>2 DEF CutBody, TypeInv, TypeOK, Credential
  <2> QED
    BY <1>2, <2>1, AnswersKeepTypes DEF CutBody, TypeInv, TypeOK
<1> QED
  BY <1>1, <1>2

LEMMA TypeInvKept == TypeInv /\ [Next]_vars => TypeInv'
<1> SUFFICES ASSUME TypeInv, [Next]_vars PROVE TypeInv'
  OBVIOUS
<1>1. CASE UNCHANGED vars
  BY <1>1 DEF vars, TypeInv, TypeOK, CallsInStep
<1>2. CASE Next
  BY <1>2, RotateKeepsTypes, CreateKeepsTypes, PreparedKeepsTypes, CommittedKeepsTypes,
    CreatedKeepsTypes, RegisteredKeepsTypes, MintedKeepsTypes, SettleKeepsTypes,
    ExpireKeepsTypes, LossesKeepTypes
     DEF Next
<1> QED
  BY <1>1, <1>2

\* The page, its calls and cold storage keep their types, whatever runs at the same
\* time and whatever is lost.
THEOREM TypeCorrect == Spec => []TypeOK
<1>1. TypeInv => TypeOK
  BY DEF TypeInv
<1> QED
  BY TypesStart, TypeInvKept, <1>1, PTL DEF Spec

----------------------------------------------------------------------------
\* What is kept, by a user who lets the functions run one at a time.

LEMMA RotationStarts == Init => RotationInv
<1> SUFFICES ASSUME Init PROVE RotationInv
  OBVIOUS
<1>1. TypeInv
  BY TypesStart
<1>2. Apart /\ CredentialsInStep /\ KeepsKey /\ KeepsPart
  BY DEF Init, Apart, CredentialsInStep, InStep, KeepsKey, KeepsPart, KeptOf, Idle
<1> QED
  BY <1>1, <1>2 DEF RotationInv

\* A function starts only beside the other rotation.
LEMMA StartsApart ==
  ASSUME OneAtATime, TypeInv, Apart, NEW h \in Handlers, NEW fn, MayStart(h, fn),
         NEW c \in Call, c.fn = fn, call' = [call EXCEPT ![h] = c]
  PROVE  Apart'
<1>1. \A i \in Handlers \ {h} : call[i].fn # None => {call[i].fn, fn} = {"key", "part"}
  BY DEF MayStart, OneAtATime
<1> QED
  BY <1>1 DEF Apart

\* Functions that go on, or end, stay apart.
LEMMA StaysApart ==
  ASSUME Apart, \A i \in Handlers : call'[i].fn \in {call[i].fn, None}
  PROVE  Apart'
BY DEF Apart

\* Beside a rotation there is at most one of the other kind; beside the creation of
\* a project there is nothing.
LEMMA OthersApart ==
  ASSUME TypeInv, Apart, NEW h \in Handlers, NEW i \in Handlers, i # h, call[h].fn # None
  PROVE  /\ call[h].fn = "create" => call[i].step = "idle"
         /\ call[i].step \in {"prepare", "commit"} => call[i].fn # call[h].fn
<1>1. call[i].fn # None => {call[i].fn, call[h].fn} = {"key", "part"}
  BY DEF Apart
<1>2. call[i].step = "idle" <=> call[i].fn = None
  BY DEF TypeInv, CallsInStep
<1> QED
  BY <1>1, <1>2

\* What is current is held or pending, as far as the two properties say.
LEMMA CurrentIsKept ==
  ASSUME RotationInv, NEW kind \in Kinds, kind = "key" => cut = 0, page.project # None
  PROVE  /\ shield[page.project].now[kind] \in {page.held[kind], page.pending[kind]}
         /\ shield[page.project].now[kind] \in Nat
<1>1. KeptOf(kind)
  BY DEF RotationInv, KeepsKey, KeepsPart, Kinds
<1>2. shield[page.project] \in Stored
  BY DEF RotationInv, TypeInv, TypeOK, CallsInStep, Page
<1> QED
  BY <1>1, <1>2 DEF KeptOf, Stored

\* An answer that changes nothing that is current: all depends on what it says to
\* a commit.
LEMMA AnswersKeep ==
  ASSUME RotationInv, NEW h \in Handlers,
         NEW status \in {"sent", "ok", "unauthorized", "rejected", "failed"},
         NEW body \in Credential, Answer(h, status, body),
         UNCHANGED page, cut' = 0 => cut = 0,
         \A q \in Projects : shield[q] # None => shield'[q].now = shield[q].now,
         call[h].step = "commit" =>
           /\ status = "ok" => /\ call[h].new = shield[call[h].project].now[call[h].fn]
                               /\ cut' = 0 => body = call[h].new
           /\ status \in Definitive(call[h].fn) /\ (call[h].fn = "key" => cut' = 0) =>
                shield[call[h].project].now[call[h].fn] = page.held[call[h].fn]
  PROVE  Apart' /\ CredentialsInStep' /\ KeepsKey' /\ KeepsPart'
<1>1. /\ call'[h].status = status /\ call'[h].body = body
      /\ call'[h].fn = call[h].fn /\ call'[h].step = call[h].step
      /\ call'[h].project = call[h].project /\ call'[h].new = call[h].new
      /\ \A i \in Handlers \ {h} : call'[i] = call[i]
  BY AnswerSets DEF RotationInv, TypeInv, TypeOK
<1>2. Apart'
  BY <1>1, StaysApart DEF RotationInv
<1>3. page.project # None => page.project \in Projects /\ shield[page.project] # None
  BY DEF RotationInv, TypeInv, TypeOK, CallsInStep, Page
<1>4. KeepsKey' /\ KeepsPart'
  BY <1>3 DEF RotationInv, KeepsKey, KeepsPart, KeptOf
<1>5. \A i \in Handlers : call[i].step = "commit" =>
        call[i].project \in Projects /\ shield[call[i].project] # None
  BY DEF RotationInv, TypeInv, CallsInStep
<1>6. ASSUME NEW i \in Handlers
      PROVE  InStep(i)'
  <2>1. CASE i = h
    BY <1>1, <1>5, <2>1 DEF RotationInv, CredentialsInStep, InStep
  <2>2. CASE i # h
    <3>1. call'[i] = call[i] /\ InStep(i)
      BY <1>1, <2>2 DEF RotationInv, CredentialsInStep
    <3> QED
      BY <1>5, <3>1 DEF InStep
  <2> QED
    BY <2>1, <2>2
<1>7. CredentialsInStep'
  BY <1>6 DEF CredentialsInStep
<1> QED
  BY <1>2, <1>4, <1>7

LEMMA StartsKeep ==
  ASSUME OneAtATime, RotationInv, NEW h \in Handlers,
         (\E kind \in Kinds : Rotate(h, kind)) \/ CreateProject(h)
  PROVE  RotationInv'
<1>1. TypeInv' /\ UNCHANGED <<page, shield, cut>>
  BY RotateKeepsTypes, CreateKeepsTypes DEF RotationInv, Rotate, CreateProject
<1>2. PICK fn \in Functions, c \in Call :
        /\ MayStart(h, fn) /\ c.fn = fn /\ c.status = "sent"
        /\ call' = [call EXCEPT ![h] = c]
        /\ c.step \in {"prepare", "commit"} => c.project = page.project
        /\ c.step = "prepare" => page.pending[c.fn] = None
        /\ c.step = "commit" => c.new = page.pending[c.fn]
  <2>1. ASSUME NEW kind \in Kinds, Rotate(h, kind)
        PROVE  \E c \in Call :
                 /\ c.fn = kind /\ c.status = "sent" /\ call' = [call EXCEPT ![h] = c]
                 /\ c.step \in {"prepare", "commit"} => c.project = page.project
                 /\ c.step = "prepare" => page.pending[c.fn] = None
                 /\ c.step = "commit" => c.new = page.pending[c.fn]
    <3>1. page \in Page /\ page.project # None
      BY <2>1 DEF Rotate, Ready, RotationInv, TypeInv, TypeOK
    <3>2. PICK p \in Call : p = Prepare(kind)
      BY <3>1, PrepareMakes
    <3>3. p.fn = kind /\ p.step = "prepare" /\ p.status = "sent" /\ p.project = page.project
      BY <3>1, <3>2, PrepareMakes
    <3>4. PICK c \in Call : c = Commit(kind, p, page)
      BY <3>1, CommitMakes
    <3>5. /\ c.fn = kind /\ c.step = "commit" /\ c.status = "sent"
          /\ c.new = page.pending[kind] /\ c.project = page.project
      BY <3>1, <3>3, <3>4, CommitMakes
    <3>6. CASE page.pending[kind] = None
      <4>1. call' = [call EXCEPT ![h] = p]
        BY <2>1, <3>2, <3>6 DEF Rotate
      <4> QED
        BY <3>3, <3>6, <4>1
    <3>7. CASE page.pending[kind] # None
      <4>1. call' = [call EXCEPT ![h] = c]
        BY <2>1, <3>2, <3>4, <3>7 DEF Rotate
      <4> QED
        BY <3>5, <4>1
    <3> QED
      BY <3>6, <3>7
  <2>2. ASSUME CreateProject(h)
        PROVE  \E c \in Call :
                 /\ c.fn = "create" /\ c.status = "sent" /\ c.step = "register"
                 /\ call' = [call EXCEPT ![h] = c]
    <3>1. PICK c : c = [Idle EXCEPT !.fn = "create", !.step = "register"]
      OBVIOUS
    <3>2. c = [fn |-> "create", step |-> "register", project |-> None, auth |-> None,
               old |-> None, new |-> None, status |-> "sent", body |-> None]
      BY <3>1 DEF Idle
    <3>3. c \in Call /\ c.fn = "create" /\ c.status = "sent" /\ c.step = "register"
      BY <3>2 DEF Call, Functions, Credential
    <3>4. call' = [call EXCEPT ![h] = c]
      BY <2>2, <3>1 DEF CreateProject
    <3> QED
      BY <3>3, <3>4
  <2>3. CASE \E kind \in Kinds : Rotate(h, kind)
    <3>1. PICK kind \in Kinds : Rotate(h, kind)
      BY <2>3
    <3>2. MayStart(h, kind)
      BY <3>1 DEF Rotate
    <3>3. PICK c \in Call :
            /\ c.fn = kind /\ c.status = "sent" /\ call' = [call EXCEPT ![h] = c]
            /\ c.step \in {"prepare", "commit"} => c.project = page.project
            /\ c.step = "prepare" => page.pending[c.fn] = None
            /\ c.step = "commit" => c.new = page.pending[c.fn]
      BY <2>1, <3>1
    <3> QED
      BY <3>2, <3>3 DEF Functions
  <2>4. CASE CreateProject(h)
    <3>1. MayStart(h, "create")
      BY <2>4 DEF CreateProject
    <3>2. PICK c \in Call :
            /\ c.fn = "create" /\ c.status = "sent" /\ c.step = "register"
            /\ call' = [call EXCEPT ![h] = c]
      BY <2>2, <2>4
    <3> QED
      BY <3>1, <3>2 DEF Functions
  <2> QED
    BY <2>3, <2>4
<1>3. Apart'
  BY <1>2, StartsApart DEF RotationInv
<1>4. call'[h] = c /\ \A i \in Handlers \ {h} : call'[i] = call[i]
  BY <1>2 DEF RotationInv, TypeInv, TypeOK
<1>5. ASSUME NEW i \in Handlers
      PROVE  InStep(i)'
  <2>1. CASE i = h
    BY <1>1, <1>2, <1>4, <2>1 DEF InStep, Definitive
  <2>2. CASE i # h
    <3>1. call'[i] = call[i] /\ InStep(i)
      BY <1>4, <2>2 DEF RotationInv, CredentialsInStep
    <3> QED
      BY <1>1, <3>1 DEF InStep
  <2> QED
    BY <2>1, <2>2
<1>6. KeepsKey' /\ KeepsPart'
  BY <1>1 DEF RotationInv, KeepsKey, KeepsPart, KeptOf
<1> QED
  BY <1>1, <1>3, <1>5, <1>6 DEF RotationInv, CredentialsInStep

\* A rotation changes what the page holds of its own kind; the other one is as it was.
LEMMA OtherRotation ==
  ASSUME RotationInv, NEW h \in Handlers, NEW i \in Handlers \ {h},
         call[h].fn \in Kinds, call'[i] = call[i], page' \in Page,
         page'.project = page.project, UNCHANGED <<shield, cut>>,
         \A k \in Kinds \ {call[h].fn} :
           page'.held[k] = page.held[k] /\ page'.pending[k] = page.pending[k]
  PROVE  InStep(i)'
<1>1. InStep(i) /\ None \notin Kinds
  BY DEF RotationInv, CredentialsInStep, Functions
<1>2. call[i].step \in {"prepare", "commit"} => call[i].fn \in Kinds \ {call[h].fn}
  BY OthersApart DEF RotationInv, TypeInv, CallsInStep
<1> QED
  BY <1>1, <1>2 DEF InStep

LEMMA PreparedKeeps ==
  ASSUME RotationInv, NEW h \in Handlers, Prepared(h)
  PROVE  RotationInv'
<1>1. TypeInv' /\ UNCHANGED <<shield, cut>>
  BY PreparedKeepsTypes DEF RotationInv, Prepared
<1>2. PICK c \in Call : c = call[h]
  BY DEF RotationInv, TypeInv, TypeOK
<1>3. /\ page \in Page /\ page.project # None /\ c.fn \in Kinds /\ c.body \in Credential
      /\ c.project = page.project /\ page.pending[c.fn] = None
  BY <1>2
     DEF Prepared, RotationInv, TypeInv, TypeOK, CallsInStep, CredentialsInStep, InStep,
    Call
<1>4. CASE c.status = "ok"
  <2>1. PICK pg \in Page : pg = [page EXCEPT !.pending[c.fn] = c.body]
    BY <1>3, PagesTyped
  <2>2. pg = [project |-> page.project, held |-> page.held,
              pending |-> [page.pending EXCEPT ![c.fn] = c.body]]
    BY <2>1 DEF Page
  <2>3. /\ pg.project = page.project /\ pg.held = page.held /\ pg.pending[c.fn] = c.body
        /\ \A k \in Kinds \ {c.fn} : pg.pending[k] = page.pending[k]
    BY <2>2 DEF Page
  <2>4. PICK d \in Call : d = Commit(c.fn, c, pg)
    BY <1>3, CommitMakes
  <2>5. /\ d.fn = c.fn /\ d.step = "commit" /\ d.status = "sent"
        /\ d.project = page.project /\ d.new = pg.pending[c.fn]
    BY <1>3, <2>3, <2>4, CommitMakes
  <2>6. page' = pg /\ call' = [call EXCEPT ![h] = d]
    BY <1>2, <1>4, <2>1, <2>4 DEF Prepared
  <2>7. call'[h] = d /\ \A i \in Handlers \ {h} : call'[i] = call[i]
    BY <2>6 DEF RotationInv, TypeInv, TypeOK
  <2>8. Apart'
    BY <1>2, <2>5, <2>7, StaysApart DEF RotationInv
  <2>9. \A i \in Handlers \ {h} : InStep(i)'
    BY <1>1, <1>2, <1>3, <2>3, <2>6, OtherRotation
  <2>10. InStep(h)'
    BY <2>5, <2>6, <2>3, <2>7 DEF InStep, Definitive
  <2>11. ASSUME NEW kind \in Kinds, kind = "key" => cut = 0
         PROVE  KeptOf(kind)'
    <3>1. /\ shield[page.project].now[kind] \in {page.held[kind], page.pending[kind]}
          /\ shield[page.project].now[kind] \in Nat
      BY <1>3, <2>11, CurrentIsKept
    <3>2. CASE kind = c.fn
      BY <1>1, <1>3, <2>3, <2>6, <3>1 DEF KeptOf
    <3>3. CASE kind # c.fn
      BY <1>1, <2>3, <2>6, <3>1, <3>3 DEF KeptOf
    <3> QED
      BY <3>2, <3>3
  <2>12. KeepsKey' /\ KeepsPart'
    BY <1>1, <2>11 DEF KeepsKey, KeepsPart, Kinds
  <2> QED
    BY <1>1, <2>8, <2>9, <2>10, <2>12 DEF RotationInv, CredentialsInStep
<1>5. CASE c.status # "ok"
  <2>1. page' = page /\ call' = [call EXCEPT ![h] = Idle]
    BY <1>2, <1>5 DEF Prepared
  <2>2. call'[h] = Idle /\ \A i \in Handlers \ {h} : call'[i] = call[i]
    BY <2>1 DEF RotationInv, TypeInv, TypeOK
  <2>3. Apart'
    BY <2>2, StaysApart DEF RotationInv, Idle
  <2>4. CredentialsInStep'
    BY <1>1, <2>1 DEF RotationInv, CredentialsInStep, InStep, Idle
  <2>5. KeepsKey' /\ KeepsPart'
    BY <1>1, <2>1 DEF RotationInv, KeepsKey, KeepsPart, KeptOf
  <2> QED
    BY <1>1, <2>3, <2>4, <2>5 DEF RotationInv
<1> QED
  BY <1>4, <1>5

LEMMA CommittedKeeps ==
  ASSUME RotationInv, NEW h \in Handlers, Committed(h)
  PROVE  RotationInv'
<1>1. PICK c \in Call : c = call[h]
  BY DEF RotationInv, TypeInv, TypeOK
<1>2. /\ c.step = "commit" /\ c.fn \in Kinds /\ page \in Page /\ page.project # None
      /\ c.project = page.project /\ c.new = page.pending[c.fn] /\ InStep(h)
  BY <1>1
     DEF Committed, RotationInv, TypeInv, TypeOK, CallsInStep, CredentialsInStep, InStep
<1>3. TypeInv' /\ UNCHANGED <<shield, cut>>
  BY CommittedKeepsTypes DEF RotationInv, Committed
<1>4. /\ page' \in Page
      /\ call'[h] = Idle /\ \A i \in Handlers \ {h} : call'[i] = call[i]
  BY <1>3 DEF Committed, TypeInv, TypeOK
<1>5. /\ page'.project = page.project
      /\ \A k \in Kinds \ {c.fn} :
           page'.held[k] = page.held[k] /\ page'.pending[k] = page.pending[k]
      /\ c.fn = "key" /\ cut = 0 =>
           shield[page.project].now[c.fn] \in {page'.held[c.fn], page'.pending[c.fn]}
      /\ c.fn = "part" =>
           shield[page.project].now[c.fn] \in {page'.held[c.fn], page'.pending[c.fn]}
  <2>1. CASE c.status = "ok"
    <3>1. PICK t : t = Taken(h)
      OBVIOUS
    <3>2. PICK f : f = [page EXCEPT !.held[c.fn] = t]
      OBVIOUS
    <3>3. f = [project |-> page.project, held |-> [page.held EXCEPT ![c.fn] = t],
               pending |-> page.pending]
      BY <1>2, <3>2 DEF Page
    <3>4. page' = [f EXCEPT !.pending[c.fn] = None]
      BY <1>1, <2>1, <3>1, <3>2 DEF Committed
    <3>5. page' = [project |-> page.project, held |-> [page.held EXCEPT ![c.fn] = t],
                   pending |-> [page.pending EXCEPT ![c.fn] = None]]
      BY <3>3, <3>4
    <3>6. page.held \in [Kinds -> Credential] /\ page.pending \in [Kinds -> Credential]
      BY <1>2 DEF Page
    <3>7. c.fn = "part" \/ cut = 0 => t = shield[page.project].now[c.fn]
      BY <1>1, <1>2, <2>1, <3>1 DEF InStep, Taken, Kinds
    <3> QED
      BY <1>2, <3>5, <3>6, <3>7
  <2>2. CASE c.status \in Definitive(c.fn)
    <3>1. page' = [page EXCEPT !.pending[c.fn] = None]
      BY <1>1, <2>2 DEF Committed, Definitive
    <3>2. page' = [project |-> page.project, held |-> page.held,
                   pending |-> [page.pending EXCEPT ![c.fn] = None]]
      BY <1>2, <3>1 DEF Page
    <3>3. c.fn = "part" \/ cut = 0 => shield[page.project].now[c.fn] = page.held[c.fn]
      BY <1>1, <1>2, <2>2 DEF InStep
    <3> QED
      BY <3>2, <3>3
  <2>3. CASE c.status \notin Definitive(c.fn) /\ c.status # "ok"
    <3>1. page' = page
      BY <1>1, <2>3 DEF Committed
    <3> QED
      BY <1>2, <3>1, CurrentIsKept
  <2> QED
    BY <2>1, <2>2, <2>3
<1>6. Apart'
  BY <1>4, StaysApart DEF RotationInv, Idle
<1>7. \A i \in Handlers \ {h} : InStep(i)'
  BY <1>1, <1>2, <1>3, <1>4, <1>5, OtherRotation
<1>8. CredentialsInStep'
  BY <1>4, <1>7 DEF CredentialsInStep, InStep, Idle
<1>9. ASSUME NEW kind \in Kinds, kind = "key" => cut = 0
      PROVE  KeptOf(kind)'
  <2>1. shield[page.project].now[kind] \in {page.held[kind], page.pending[kind]}
    BY <1>2, <1>9, CurrentIsKept
  <2>2. CASE kind = c.fn
    BY <1>3, <1>5, <1>9, <2>2 DEF KeptOf, Kinds
  <2>3. CASE kind # c.fn
    BY <1>3, <1>5, <2>1, <2>3 DEF KeptOf
  <2> QED
    BY <2>2, <2>3
<1>10. KeepsKey' /\ KeepsPart'
  BY <1>3, <1>9 DEF KeepsKey, KeepsPart, Kinds
<1> QED
  BY <1>3, <1>6, <1>8, <1>10 DEF RotationInv

\* A project is created with nothing else under way: what is held is what cold
\* storage has.
LEMMA CreatedKeeps ==
  ASSUME RotationInv, NEW h \in Handlers, Created(h)
  PROVE  RotationInv'
<1>1. PICK c \in Call : c = call[h]
  BY DEF RotationInv, TypeInv, TypeOK
<1>2. c.step = "register" /\ c.fn = "create" /\ c.fn # None /\ page \in Page
  BY <1>1 DEF Created, RotationInv, TypeInv, TypeOK, CallsInStep
<1>3. TypeInv' /\ UNCHANGED <<shield, cut>>
  BY CreatedKeepsTypes DEF RotationInv, Created
<1>4. call'[h] = Idle /\ \A i \in Handlers \ {h} : call'[i] = call[i]
  BY DEF Created, RotationInv, TypeInv, TypeOK
<1>5. Apart'
  BY <1>4, StaysApart DEF RotationInv, Idle
<1>6. \A i \in Handlers : call'[i].step = "idle"
  <2>1. \A i \in Handlers \ {h} : call[i].step = "idle"
    BY <1>1, <1>2, OthersApart DEF RotationInv
  <2> QED
    BY <1>4, <2>1 DEF Idle
<1>7. CredentialsInStep'
  BY <1>6 DEF CredentialsInStep, InStep
<1>8. KeepsKey' /\ KeepsPart'
  <2>1. CASE c.status = "ok"
    <3>1. PICK p : p = c.project
      OBVIOUS
    <3>2. page' = [page EXCEPT !.project = p, !.held = shield[p].now]
      BY <1>1, <2>1, <3>1 DEF Created
    <3>3. page' = [project |-> p, held |-> shield[p].now, pending |-> page.pending]
      BY <1>2, <3>2 DEF Page
    <3> QED
      BY <1>3, <3>3 DEF KeepsKey, KeepsPart, KeptOf
  <2>2. CASE c.status # "ok"
    BY DEF Created, RotationInv, KeepsKey, KeepsPart, KeptOf
  <2> QED
    BY <2>1, <2>2
<1> QED
  BY <1>3, <1>5, <1>7, <1>8 DEF RotationInv

\* A project is registered with nothing else under way, and not the one on the page,
\* which was registered before.
LEMMA RegisteredKeeps ==
  ASSUME RotationInv, NEW h \in Handlers, Registered(h)
  PROVE  RotationInv'
<1>1. PICK c \in Call : c = call[h]
  BY DEF RotationInv, TypeInv, TypeOK
<1>2. c.step = "register" /\ c.fn = "create" /\ c.fn # None
  BY <1>1 DEF Registered, Arrives, RotationInv, TypeInv, CallsInStep
<1>3. TypeInv' /\ UNCHANGED <<page, cut>>
  BY RegisteredKeepsTypes DEF RotationInv, Registered
<1>4. CASE Answer(h, "failed", None) /\ UNCHANGED shield
  BY <1>1, <1>2, <1>3, <1>4, AnswersKeep DEF RotationInv, Credential
<1>5. ASSUME NEW p \in Projects, shield[p] = None, NEW x,
             shield' = [shield EXCEPT ![p] = x],
             AnswersWith(h, p)
      PROVE  RotationInv'
  <2>1. PICK d \in Call :
          /\ d.fn = c.fn /\ d.step = c.step
          /\ call'[h] = d /\ \A i \in Handlers \ {h} : call'[i] = call[i]
    BY <1>1, <1>5, RegisterSets DEF RotationInv, TypeInv, TypeOK
  <2>2. d.fn = c.fn /\ d.step = "register"
    BY <1>2, <2>1
  <2>3. Apart'
    BY <1>1, <2>1, StaysApart DEF RotationInv
  <2>4. \A i \in Handlers \ {h} : call[i].step = "idle"
    BY <1>1, <1>2, OthersApart DEF RotationInv
  <2>5. CredentialsInStep'
    BY <2>1, <2>2, <2>4 DEF CredentialsInStep, InStep
  <2>6. page.project # None => shield'[page.project] = shield[page.project]
    BY <1>5 DEF RotationInv, TypeInv, CallsInStep
  <2>7. KeepsKey' /\ KeepsPart'
    BY <1>3, <2>6 DEF RotationInv, KeepsKey, KeepsPart, KeptOf
  <2> QED
    BY <1>3, <2>3, <2>5, <2>7 DEF RotationInv
<1> QED
  BY <1>4, <1>5 DEF Registered, AnswersWith

LEMMA MintedKeeps ==
  ASSUME RotationInv, NEW h \in Handlers, Minted(h)
  PROVE  RotationInv'
<1>1. PICK c \in Call : c = call[h]
  BY DEF RotationInv, TypeInv, TypeOK
<1>2. /\ c.step = "prepare" /\ c.fn \in Kinds /\ c.project \in Projects
      /\ shield[c.project] # None
  BY <1>1 DEF Minted, Arrives, RotationInv, TypeInv, CallsInStep
<1>3. TypeInv' /\ UNCHANGED <<page, cut>>
  BY MintedKeepsTypes DEF RotationInv, Minted
<1>4. CASE \E s \in {"unauthorized", "rejected", "failed"} :
             Answer(h, s, None) /\ UNCHANGED shield
  <2>1. PICK s \in {"unauthorized", "rejected", "failed"} : Answer(h, s, None)
    BY <1>4
  <2>2. None \in Credential /\ UNCHANGED shield
    BY <1>4 DEF Credential
  <2> QED
    BY <1>1, <1>2, <1>3, <2>1, <2>2, AnswersKeep DEF RotationInv
<1>5. CASE /\ shield' = [shield EXCEPT ![c.project].next[c.fn] = minted + 1]
           /\ Answer(h, "ok", minted + 1)
  <2>1. minted + 1 \in Nat /\ minted + 1 \in Credential
    BY DEF RotationInv, TypeInv, TypeOK, Credential
  <2> QED
    BY <1>1, <1>2, <1>3, <1>5, <2>1, AnswersKeep DEF RotationInv
<1> QED
  BY <1>1, <1>4, <1>5 DEF Minted

\* Cold storage refuses to commit what is not pending: then what is current is held.
\* When it accepts, what is pending is current.
LEMMA SettleKeeps ==
  ASSUME RotationInv, NEW h \in Handlers, Settle(h)
  PROVE  RotationInv'
<1>1. PICK c \in Call : c = call[h]
  BY DEF RotationInv, TypeInv, TypeOK
<1>2. /\ c.step = "commit" /\ c.fn \in Kinds /\ c.project \in Projects
      /\ shield[c.project] \in Stored /\ page.project # None
      /\ c.project = page.project /\ c.new = page.pending[c.fn] /\ c.new \in Credential
      /\ None \in Credential
  <2>1. /\ c.step = "commit" /\ c.fn \in Kinds /\ c.project \in Projects
        /\ shield[c.project] \in Stored
    BY <1>1, SettleCases DEF RotationInv
  <2>2. c.project = page.project /\ c.new = page.pending[c.fn]
    BY <1>1, <2>1 DEF RotationInv, CredentialsInStep, InStep
  <2> QED
    BY <2>1, <2>2 DEF Call, Credential
<1>3. TypeInv' /\ UNCHANGED <<page, cut>>
  BY SettleKeepsTypes DEF RotationInv, Settle
<1>4. CASE UNCHANGED shield /\ c.new = shield[c.project].now[c.fn] /\ Answer(h, "ok", c.new)
  BY <1>1, <1>2, <1>3, <1>4, AnswersKeep DEF RotationInv, Definitive
<1>5. CASE UNCHANGED shield /\ c.fn = "part" /\ Answer(h, "unauthorized", None)
  BY <1>1, <1>2, <1>3, <1>5, AnswersKeep DEF RotationInv, Definitive
<1>6. CASE /\ UNCHANGED shield /\ c.new # shield[c.project].now[c.fn]
           /\ \E s \in {"unauthorized", "rejected"} : Answer(h, s, None)
  <2>1. (c.fn = "key" => cut = 0) => shield[c.project].now[c.fn] = page.held[c.fn]
    BY <1>2, <1>6, CurrentIsKept
  <2>2. PICK s \in {"unauthorized", "rejected"} : Answer(h, s, None)
    BY <1>6
  <2>3. cut' = cut /\ \A q \in Projects : shield'[q].now = shield[q].now
    BY <1>3, <1>6
  <2>4. Apart' /\ CredentialsInStep' /\ KeepsKey' /\ KeepsPart'
    BY <1>1, <1>2, <1>3, <2>1, <2>2, <2>3, AnswersKeep
  <2> QED
    BY <1>3, <2>4 DEF RotationInv
<1>7. CASE /\ c.new \in Nat
           /\ shield' = WithNow(shield, c.project, c.fn, c.new)
           /\ Answer(h, "ok", c.new)
  <2>1. shield \in [Projects -> {None} \cup Stored]
    BY DEF RotationInv, TypeInv, TypeOK
  <2>2. /\ shield'[page.project].now[c.fn] = c.new
        /\ \A k \in Kinds \ {c.fn} : shield'[page.project].now[k] = shield[page.project].now[k]
    <3>1. c.fn \in Kinds /\ c.project \in Projects /\ shield[c.project] # None
      BY <1>2
    <3>2. c.new \in Nat /\ shield' = WithNow(shield, c.project, c.fn, c.new)
      BY <1>7
    <3>3. /\ shield'[c.project].now[c.fn] = c.new
          /\ \A k \in Kinds \ {c.fn} : shield'[c.project].now[k] = shield[c.project].now[k]
      BY <2>1, <3>1, <3>2, NowSet
    <3> QED
      BY <1>2, <3>3
  <2>3. /\ call'[h].status = "ok" /\ call'[h].body = c.new
        /\ call'[h].fn = c.fn /\ call'[h].step = "commit"
        /\ call'[h].project = c.project /\ call'[h].new = c.new
        /\ \A i \in Handlers \ {h} : call'[i] = call[i]
    BY <1>1, <1>2, <1>7, AnswerSets DEF RotationInv, TypeInv, TypeOK
  <2>4. Apart'
    BY <1>1, <2>3, StaysApart DEF RotationInv
  <2>5. InStep(h)'
    BY <1>2, <1>3, <2>2, <2>3 DEF InStep, Definitive
  <2>6. ASSUME NEW i \in Handlers \ {h}
        PROVE  InStep(i)'
    <3>1. InStep(i) /\ call'[i] = call[i]
      BY <2>3 DEF RotationInv, CredentialsInStep
    <3>2. call[i].step \in {"prepare", "commit"} =>
            call[i].fn \in Kinds \ {c.fn} /\ call[i].project = page.project
      BY <1>1, <3>1, OthersApart DEF RotationInv, TypeInv, CallsInStep, InStep
    <3> QED
      BY <1>3, <2>2, <3>1, <3>2 DEF InStep
  <2>7. CredentialsInStep'
    BY <2>5, <2>6 DEF CredentialsInStep
  <2>8. ASSUME NEW kind \in Kinds, kind = "key" => cut = 0
        PROVE  KeptOf(kind)'
    BY <1>2, <1>3, <2>2, <2>8, CurrentIsKept DEF KeptOf
  <2>9. KeepsKey' /\ KeepsPart'
    BY <1>3, <2>8 DEF KeepsKey, KeepsPart, Kinds
  <2> QED
    BY <1>3, <2>4, <2>7, <2>9 DEF RotationInv
<1> QED
  BY <1>1, <1>4, <1>5, <1>6, <1>7, SettleCases DEF RotationInv

LEMMA ExpireKeeps ==
  ASSUME RotationInv, NEW p \in Projects, NEW kind \in Kinds, Expire(p, kind)
  PROVE  RotationInv'
<1>1. TypeInv' /\ UNCHANGED <<page, call, cut>>
  BY ExpireKeepsTypes DEF RotationInv, Expire
<1>2. /\ shield'[p].now = shield[p].now
      /\ \A q \in Projects \ {p} : shield'[q] = shield[q]
  BY DEF Expire
<1>3. \A q \in Projects : shield'[q].now = shield[q].now
  BY <1>2
<1>4. Apart'
  BY <1>1 DEF RotationInv, Apart
<1>5. \A i \in Handlers : call[i].step \in {"prepare", "commit"} => call[i].project \in Projects
  BY DEF RotationInv, TypeInv, CallsInStep
<1>6. CredentialsInStep'
  BY <1>1, <1>3, <1>5 DEF RotationInv, CredentialsInStep, InStep
<1>7. page.project # None => page.project \in Projects
  BY DEF RotationInv, TypeInv, TypeOK, Page
<1>8. KeepsKey' /\ KeepsPart'
  BY <1>1, <1>3, <1>7 DEF RotationInv, KeepsKey, KeepsPart, KeptOf
<1> QED
  BY <1>1, <1>4, <1>6, <1>8 DEF RotationInv

\* A failure tells the page nothing.  An answer cut off is the one step after which
\* an API key may be thrown away.
LEMMA LossesKeep ==
  ASSUME RotationInv, NEW h \in Handlers, Lose(h) \/ CutBody(h)
  PROVE  RotationInv'
<1>1. TypeInv' /\ UNCHANGED <<page, shield>> /\ None \in Credential
  BY LossesKeepTypes DEF RotationInv, Lose, CutBody, Credential
<1>2. CASE Lose(h)
  BY <1>1, <1>2, AnswersKeep DEF RotationInv, Lose, Definitive
<1>3. CASE CutBody(h)
  <2>1. cut' # 0
    BY <1>3 DEF CutBody, RotationInv, TypeInv, TypeOK
  <2>2. call[h].step = "commit" => call[h].new = shield[call[h].project].now[call[h].fn]
    BY <1>3 DEF CutBody, RotationInv, CredentialsInStep, InStep
  <2> QED
    BY <1>1, <1>3, <2>1, <2>2, AnswersKeep DEF RotationInv, CutBody, Definitive
<1> QED
  BY <1>2, <1>3

LEMMA RotationInvKept ==
  ASSUME OneAtATime, RotationInv, [Next]_vars
  PROVE  RotationInv'
<1>1. CASE UNCHANGED vars
  <2>1. TypeInv'
    BY TypeInvKept DEF RotationInv
  <2> QED
    BY <1>1, <2>1
       DEF vars, RotationInv, Apart, CredentialsInStep, InStep, KeepsKey, KeepsPart,
      KeptOf
<1>2. CASE Next
  BY <1>2, StartsKeep, PreparedKeeps, CommittedKeeps, CreatedKeeps, RegisteredKeeps,
    MintedKeeps, SettleKeeps, ExpireKeeps, LossesKeep
     DEF Next
<1> QED
  BY <1>1, <1>2

LEMMA RotationInvariant == ASSUME OneAtATime PROVE Spec => []RotationInv
<1>1. RotationInv /\ [Next]_vars => RotationInv'
  BY RotationInvKept
<1> QED
  BY RotationStarts, <1>1, PTL DEF Spec

\* Of a user who does not start a function twice, nor beside the creation of a
\* project: as long as no answer loses its body, the page never throws away the API
\* key cold storage accepts, whichever calls and answers get lost.
THEOREM KeyKept == ASSUME OneAtATime PROVE Spec => []KeepsKey
<1>1. RotationInv => KeepsKey
  BY DEF RotationInv
<1> QED
  BY RotationInvariant, <1>1, PTL

\* Of the same user: the page never throws away the encryption part, even when an
\* answer loses its body.
THEOREM PartKept == ASSUME OneAtATime PROVE Spec => []KeepsPart
<1>1. RotationInv => KeepsPart
  BY DEF RotationInv
<1> QED
  BY RotationInvariant, <1>1, PTL

\* What the comment above the two functions promises holds of the same user when no
\* answer loses its body.
THEOREM NothingIsLost == ASSUME OneAtATime, MaxCut = 0 PROVE Spec => []NothingThrownAway
<1>1. RotationInv => NothingThrownAway
  BY DEF RotationInv, TypeInv, TypeOK, KeepsKey, KeepsPart, NothingThrownAway
<1> QED
  BY RotationInvariant, <1>1, PTL
=============================================================================
