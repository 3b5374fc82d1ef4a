--------------------------- MODULE Session_proofs ---------------------------
(***************************************************************************)
(* Theorems about the sample page's session, for any users, accounts and   *)
(* number of functions under way: the connection is that of the iframe in  *)
(* the document, a request carries one user, a recovery its own passkey.   *)
(***************************************************************************)
EXTENDS Session, TLAPS

USE SessionAssumption

----------------------------------------------------------------------------
\* What an orderly visitor can rely on.

\* The two functions that change who the visitor is.
Signing(i) == call[i].at = "auth" /\ call[i].fn \in {"signUp", "signIn"}

\* Signed out, the page holds no token; signed in, token and client are those of
\* the session's user.  One function at a time changes who he is, and only while
\* he is signed out; those that need the token find it when they go on.
UsersInOrder ==
  /\ page.session = None => page.token = None /\ page.client = None
  /\ page.session # None => page.session = page.user
  /\ page.dialog => page.token # None
  /\ \A i, j \in Handlers : Signing(i) /\ Signing(j) => i = j
  /\ \A i \in Handlers :
       LET c == call[i] IN
         /\ Signing(i) => page.session = None
         /\ c.at = "auth" /\ c.fn = "token" => c.of = page.session /\ c.of # None
         /\ c.at = "connect" => page.token # None
         /\ c.at = "prompt" => c.fn = "set" /\ page.token # None /\ c.seed = page.user

\* One authentication at a time, of the account in the open dialog, whose former
\* user it asks for; what the dialog keeps is that account's passkey, and a closed
\* dialog keeps nothing.
Authenticating(i) == call[i].at \in {"migrated", "assert"}

PasskeysInOrder ==
  /\ ~page.dialog => page.account = None /\ page.passkey = None
  /\ page.passkey # None => page.account # None /\ page.passkey = Former[page.account]
  /\ \A i, j \in Handlers : Authenticating(i) /\ Authenticating(j) => i = j
  /\ \A i \in Handlers :
       LET c == call[i] IN
         /\ Authenticating(i) => /\ page.dialog /\ page.busy
                                 /\ page.account # None /\ c.of = page.account
         /\ c.at = "assert" => c.seed = Former[c.of]

SessionInv ==
  /\ TypeOK /\ ConnectionIsLive /\ OneUser /\ PasskeyFits
  /\ orderly => UsersInOrder /\ PasskeysInOrder

LEMMA SessionStarts == Init => SessionInv
PROOF BY DEF Init, SessionInv, TypeOK, Page, Call, Idle, ConnectionIsLive, OneUser,
  PasskeyFits, UsersInOrder, PasskeysInOrder, Signing, Authenticating

----------------------------------------------------------------------------
\* One lemma for each function, or for what several of them do between two awaits.

LEMMA SignKeeps ==
  ASSUME SessionInv, NEW i \in Handlers, NEW u \in Users, NEW fn \in {"signUp", "signIn"},
         ~page.dialog, UNCHANGED page,
         Ask(i, [Idle EXCEPT !.fn = fn, !.at = "auth", !.of = u]),
         Keeps(page.session = None /\ ~UnderWay)
  PROVE  SessionInv'
<1> USE DEF SessionInv, TypeOK
<1>1. call'[i] =
         [fn |-> fn, at |-> "auth", of |-> u, frame |-> 0,
          seed |-> None, token |-> None, player |-> None]
  BY DEF Ask, Idle
<1>2. call' = [call EXCEPT ![i] = call'[i]] /\ \A j \in Handlers \ {i} : call'[j] = call[j]
  BY DEF Ask
<1>3. call'[i].at = "auth" /\ call'[i].fn \notin {"token", "set"}
  BY <1>1
<1>4. TypeOK' /\ ConnectionIsLive'
  BY <1>1, <1>2 DEF Call, Keeps, ConnectionIsLive
<1>5. OneUser'
  BY <1>1, <1>2 DEF OneUser, Keeps
<1>6. PasskeyFits'
  BY <1>1, <1>2 DEF PasskeyFits, Keeps
<1>7. ASSUME orderly' PROVE UsersInOrder'
  <2>1. /\ page'.session = None => page'.token = None /\ page'.client = None
        /\ page'.session # None => page'.session = page'.user
        /\ page'.dialog => page'.token # None
    <3>1. UsersInOrder /\ page' = page /\ ~page.dialog
      BY <1>7 DEF Keeps
    <3> HIDE DEF SessionInv, TypeOK
    <3> QED
      BY <3>1 DEF UsersInOrder
  <2>2. \A j, k \in Handlers : Signing(j)' /\ Signing(k)' => j = k
    <3>1. \A j \in Handlers : call[j].at # "auth"
      BY <1>7 DEF Keeps, UnderWay
    <3>2. \A j \in Handlers \ {i} : call'[j].at # "auth"
      BY <1>2, <3>1
    <3> HIDE DEF SessionInv, TypeOK
    <3> QED
      BY <3>2 DEF Signing
  <2>3. ASSUME NEW j \in Handlers
        PROVE  /\ Signing(j)' => page'.session = None
               /\ call'[j].at = "auth" /\ call'[j].fn = "token" =>
                    call'[j].of = page'.session /\ call'[j].of # None
               /\ call'[j].at = "connect" => page'.token # None
               /\ call'[j].at = "prompt" =>
                    call'[j].fn = "set" /\ page'.token # None /\ call'[j].seed = page'.user
    <3>1. CASE j = i
      BY <1>7, <3>1, <1>3 DEF Keeps
    <3>2. CASE j # i
      BY <1>7, <3>2, <1>2 DEF UsersInOrder, Keeps
    <3> QED
      BY <3>1, <3>2
  <2> QED
    BY <2>1, <2>2, <2>3 DEF UsersInOrder
<1>8. orderly' => PasskeysInOrder'
  BY <1>1, <1>2 DEF PasskeysInOrder, Authenticating, Keeps
<1> QED
  BY <1>4, <1>5, <1>6, <1>7, <1>8

LEMMA GetTokenKeeps ==
  ASSUME SessionInv, NEW i \in Handlers, GetToken(i)
  PROVE  SessionInv'
<1> USE DEF SessionInv, TypeOK, GetToken
<1>1. call'[i] =
         [fn |-> "token", at |-> "auth", of |-> page.session, frame |-> 0,
          seed |-> None, token |-> None, player |-> None]
  BY DEF Ask, Idle
<1>2. call' = [call EXCEPT ![i] = call'[i]] /\ \A j \in Handlers \ {i} : call'[j] = call[j]
  BY DEF Ask
<1>3. TypeOK' /\ ConnectionIsLive'
  BY <1>1, <1>2 DEF Page, Call, ConnectionIsLive
<1>4. OneUser'
  BY <1>1, <1>2 DEF OneUser
<1>5. PasskeyFits'
  BY <1>1, <1>2 DEF PasskeyFits
<1>6. orderly' => UsersInOrder'
  BY <1>1, <1>2 DEF UsersInOrder, Signing
<1>7. orderly' => PasskeysInOrder'
  BY <1>1, <1>2 DEF PasskeysInOrder, Authenticating
<1> QED
  BY <1>3, <1>4, <1>5, <1>6, <1>7

LEMMA SignedUpKeeps ==
  ASSUME SessionInv, NEW i \in Handlers, SignedUp(i)
  PROVE  SessionInv'
<1> USE DEF SessionInv, TypeOK, SignedUp, Granted
<1>1. call'[i] =
         [fn |-> None, at |-> "idle", of |-> None, frame |-> 0,
          seed |-> None, token |-> None, player |-> None]
  BY DEF End, Idle
<1>2. call' = [call EXCEPT ![i] = call'[i]] /\ \A j \in Handlers \ {i} : call'[j] = call[j]
  BY DEF End
<1>3. TypeOK' /\ ConnectionIsLive'
  BY <1>1, <1>2 DEF Page, Call, ConnectionIsLive
<1>4. OneUser'
  BY <1>1, <1>2 DEF OneUser, UsersInOrder, Signing
<1>5. PasskeyFits'
  BY <1>1, <1>2 DEF PasskeyFits
<1>6. orderly' => UsersInOrder'
  BY <1>1, <1>2 DEF UsersInOrder, Signing
<1>7. orderly' => PasskeysInOrder'
  BY <1>1, <1>2 DEF PasskeysInOrder, Authenticating
<1> QED
  BY <1>3, <1>4, <1>5, <1>6, <1>7

LEMMA SignedInKeeps ==
  ASSUME SessionInv, NEW i \in Handlers, SignedIn(i)
  PROVE  SessionInv'
<1> USE DEF SessionInv, TypeOK, SignedIn, Granted
<1>1. call'[i] =
         [fn |-> None, at |-> "idle", of |-> None, frame |-> 0,
          seed |-> None, token |-> None, player |-> None]
  BY DEF End, Idle
<1>2. call' = [call EXCEPT ![i] = call'[i]] /\ \A j \in Handlers \ {i} : call'[j] = call[j]
  BY DEF End
<1>3. TypeOK' /\ ConnectionIsLive'
  <2>1. page' \in Page
    BY DEF Page
  <2>2. call' \in [Handlers -> Call]
    BY <1>1, <1>2 DEF Call
  <2>3. \A j \in Handlers :
          /\ call'[j].at = "recover" => (call'[j].fn = "passkey" <=> call'[j].seed # None)
          /\ call'[j].at = "auth" => call'[j].of \in Users
          /\ call'[j].at \in {"migrated", "assert"} => call'[j].of \in Accounts
    BY <1>1, <1>2
  <2> QED
    BY <2>1, <2>2, <2>3 DEF ConnectionIsLive
<1>4. OneUser'
  BY <1>1, <1>2 DEF OneUser, UsersInOrder, Signing
<1>5. PasskeyFits'
  BY <1>1, <1>2 DEF PasskeyFits
<1>6. orderly' => UsersInOrder'
  BY <1>1, <1>2 DEF UsersInOrder, Signing
<1>7. orderly' => PasskeysInOrder'
  BY <1>1, <1>2 DEF PasskeysInOrder, Authenticating
<1> QED
  BY <1>3, <1>4, <1>5, <1>6, <1>7

LEMMA GotTokenKeeps ==
  ASSUME SessionInv, NEW i \in Handlers, GotToken(i)
  PROVE  SessionInv'
<1> USE DEF SessionInv, TypeOK, GotToken, Granted
<1>1. call'[i] =
         [fn |-> None, at |-> "idle", of |-> None, frame |-> 0,
          seed |-> None, token |-> None, player |-> None]
  BY DEF End, Idle
<1>2. call' = [call EXCEPT ![i] = call'[i]] /\ \A j \in Handlers \ {i} : call'[j] = call[j]
  BY DEF End
<1>3. TypeOK' /\ ConnectionIsLive'
  BY <1>1, <1>2 DEF Page, Call, ConnectionIsLive
<1>4. OneUser'
  BY <1>1, <1>2 DEF OneUser, UsersInOrder
<1>5. PasskeyFits'
  BY <1>1, <1>2 DEF PasskeyFits
<1>6. orderly' => UsersInOrder'
  BY <1>1, <1>2 DEF UsersInOrder, Signing
<1>7. orderly' => PasskeysInOrder'
  BY <1>1, <1>2 DEF PasskeysInOrder, Authenticating
<1> QED
  BY <1>3, <1>4, <1>5, <1>6, <1>7

LEMMA EndKeeps ==
  ASSUME SessionInv, NEW i \in Handlers, End(i), call[i].at # "idle", UNCHANGED <<page, orderly>>
  PROVE  SessionInv'
<1> USE DEF SessionInv, TypeOK
<1>1. call'[i] =
         [fn |-> None, at |-> "idle", of |-> None, frame |-> 0,
          seed |-> None, token |-> None, player |-> None]
  BY DEF End, Idle
<1>2. call' = [call EXCEPT ![i] = call'[i]] /\ \A j \in Handlers \ {i} : call'[j] = call[j]
  BY DEF End
<1>3. TypeOK' /\ ConnectionIsLive'
  BY <1>1, <1>2 DEF Call, ConnectionIsLive
<1>4. OneUser'
  BY <1>1, <1>2 DEF OneUser
<1>5. PasskeyFits'
  BY <1>1, <1>2 DEF PasskeyFits
<1>6. orderly' => UsersInOrder'
  BY <1>1, <1>2 DEF UsersInOrder, Signing
<1>7. orderly' => PasskeysInOrder'
  BY <1>1, <1>2 DEF PasskeysInOrder, Authenticating
<1> QED
  BY <1>3, <1>4, <1>5, <1>6, <1>7

LEMMA SignOutKeeps ==
  ASSUME SessionInv, SignOut
  PROVE  SessionInv'
<1> USE DEF SessionInv, TypeOK, SignOut
<1>1. /\ page'.session = None /\ page'.token = None /\ page'.user = None
      /\ page'.client = None /\ page'.frame = page.frame /\ page'.conn = page.conn
      /\ page'.dialog = page.dialog /\ page'.account = page.account
      /\ page'.passkey = page.passkey /\ page'.busy = page.busy
  BY DEF SignedOut
<1>2. TypeOK' /\ ConnectionIsLive'
  BY DEF Page, Keeps, ConnectionIsLive, SignedOut
<1>3. OneUser'
  BY <1>1 DEF OneUser, Keeps
<1>4. PasskeyFits'
  BY DEF PasskeyFits, Keeps
<1>5. orderly' => UsersInOrder'
  BY <1>1 DEF UsersInOrder, Signing, UnderWay, Keeps
<1>6. orderly' => PasskeysInOrder'
  BY <1>1 DEF PasskeysInOrder, Authenticating, Keeps
<1> QED
  BY <1>2, <1>3, <1>4, <1>5, <1>6

LEMMA InitializeClientKeeps ==
  ASSUME SessionInv, InitializeClient
  PROVE  SessionInv'
<1> USE DEF SessionInv, TypeOK, InitializeClient
<1>1. TypeOK' /\ ConnectionIsLive'
  BY DEF Page, ConnectionIsLive
<1>2. OneUser'
  BY DEF OneUser
<1>3. PasskeyFits'
  BY DEF PasskeyFits
<1>4. orderly' => UsersInOrder'
  BY DEF UsersInOrder, Signing
<1>5. orderly' => PasskeysInOrder'
  BY DEF PasskeysInOrder, Authenticating
<1> QED
  BY <1>1, <1>2, <1>3, <1>4, <1>5

LEMMA MakeFrameKeeps ==
  ASSUME SessionInv, NEW i \in Handlers, NEW fn \in {"create", "set", "open"},
         page.token # None, page.frame < MaxFrames, page.conn = 0,
         page' = [page EXCEPT !.frame = @ + 1], UNCHANGED orderly,
         Ask(i, [Idle EXCEPT !.fn = fn, !.at = "connect", !.frame = page.frame + 1])
  PROVE  SessionInv'
<1> USE DEF SessionInv, TypeOK
<1>1. call'[i] =
         [fn |-> fn, at |-> "connect", of |-> None, frame |-> page.frame + 1,
          seed |-> None, token |-> None, player |-> None]
  BY DEF Ask, Idle
<1>2. call' = [call EXCEPT ![i] = call'[i]] /\ \A j \in Handlers \ {i} : call'[j] = call[j]
  BY DEF Ask
<1>3. TypeOK' /\ ConnectionIsLive'
  BY <1>1, <1>2 DEF Page, Call, ConnectionIsLive
<1>4. OneUser'
  BY <1>1, <1>2 DEF OneUser
<1>5. PasskeyFits'
  BY <1>1, <1>2 DEF PasskeyFits
<1>6. orderly' => UsersInOrder'
  BY <1>1, <1>2 DEF UsersInOrder, Signing
<1>7. orderly' => PasskeysInOrder'
  BY <1>1, <1>2 DEF PasskeysInOrder, Authenticating
<1> QED
  BY <1>3, <1>4, <1>5, <1>6, <1>7

\* The requests that follow on a connection are calls.
LEMMA NewCalls ==
  ASSUME NEW pg \in Page
  PROVE  CreateAccount(pg) \in Call /\ CreatePasskey(pg) \in Call
<1>1. PICK c : c = CreateAccount(pg)
  OBVIOUS
<1>2. c = [fn |-> "create", at |-> "asked", of |-> None, frame |-> 0,
           seed |-> None, token |-> pg.token, player |-> pg.user]
  BY <1>1 DEF CreateAccount, Idle
<1>3. PICK d : d = CreatePasskey(pg)
  OBVIOUS
<1>4. PICK s \in Seeds :
        d = [fn |-> "set", at |-> "prompt", of |-> None, frame |-> 0,
             seed |-> s, token |-> None, player |-> None]
  <2>1. PICK s \in Seeds : s = IF pg.user = None THEN "default" ELSE pg.user
    BY DEF Page, Seeds
  <2>2. d = [Idle EXCEPT !.fn = "set", !.at = "prompt", !.seed = s]
    BY <1>3, <2>1 DEF CreatePasskey
  <2> QED
    BY <2>2 DEF Idle
<1> QED
  BY <1>1, <1>2, <1>3, <1>4 DEF Call, Page

LEMMA GoKeeps ==
  ASSUME SessionInv, NEW i \in Handlers, NEW fn, NEW pg \in Page, UNCHANGED orderly,
         pg \in {page, [page EXCEPT !.conn = page.frame]}, orderly => page.token # None,
         call[i].at \in {"idle", "connect"}, Proceed(i, fn, pg)
  PROVE  SessionInv'
<1> USE DEF SessionInv, TypeOK, Proceed
<1>1. /\ page'.session = page.session /\ page'.token = page.token /\ page'.user = page.user
      /\ page'.client = page.client /\ page'.frame = page.frame /\ page'.conn \in {page.conn, page.frame}
      /\ page'.dialog = (page.dialog \/ fn = "open") /\ page'.account = page.account
      /\ page'.passkey = page.passkey /\ page'.busy = page.busy
  BY DEF Page
<1>2. page' \in Page
  <2>1. PICK b \in BOOLEAN : b = (pg.dialog \/ fn = "open")
    OBVIOUS
  <2>2. page' = [pg EXCEPT !.dialog = b]
    BY <2>1
  <2> QED
    BY <2>2 DEF Page
<1>3. pg.token = page.token /\ pg.user = page.user /\ pg \in Page
  BY DEF Page
<1>4. \/ call'[i] = Idle
      \/ /\ call'[i].fn = "create" /\ call'[i].at = "asked"
         /\ call'[i].token = page.token /\ call'[i].player = page.user
      \/ /\ call'[i].fn = "set" /\ call'[i].at = "prompt"
         /\ call'[i].seed = IF page.user = None THEN "default" ELSE page.user
  BY <1>3 DEF CreateAccount, CreatePasskey
<1>5. call'[i] \in Call
  <2>1. Idle \in Call
    BY DEF Idle, Call
  <2> QED
    BY <2>1, NewCalls
<1>6. ~Authenticating(i)'
  BY <1>4 DEF Idle, Authenticating
<1>7. TypeOK' /\ ConnectionIsLive'
  BY <1>1, <1>2, <1>4, <1>5 DEF Idle, ConnectionIsLive
<1>8. OneUser'
  BY <1>1, <1>4 DEF OneUser, Idle
<1>9. PasskeyFits'
  BY <1>4 DEF PasskeyFits, Idle
<1>10. orderly' => UsersInOrder'
  BY <1>1, <1>4 DEF UsersInOrder, Signing, Idle
<1>11. ASSUME orderly' PROVE PasskeysInOrder'
  <2>1. /\ ~page'.dialog => page'.account = None /\ page'.passkey = None
        /\ page'.passkey # None => page'.account # None /\ page'.passkey = Former[page'.account]
    BY <1>11, <1>1 DEF PasskeysInOrder
  <2>2. \A j, k \in Handlers : Authenticating(j)' /\ Authenticating(k)' => j = k
    BY <1>11, <1>6 DEF PasskeysInOrder, Authenticating
  <2>3. ASSUME NEW j \in Handlers
        PROVE  /\ Authenticating(j)' => /\ page'.dialog /\ page'.busy
                                         /\ page'.account # None /\ call'[j].of = page'.account
               /\ call'[j].at = "assert" => call'[j].seed = Former[call'[j].of]
    BY <1>11, <1>1, <1>6 DEF PasskeysInOrder, Authenticating
  <2> QED
    BY <2>1, <2>2, <2>3 DEF PasskeysInOrder
<1> QED
  BY <1>7, <1>8, <1>9, <1>10, <1>11

LEMMA PasskeyMadeKeeps ==
  ASSUME SessionInv, NEW i \in Handlers, PasskeyMade(i)
  PROVE  SessionInv'
<1> USE DEF SessionInv, TypeOK, PasskeyMade
<1>1. /\ call'[i].fn = call[i].fn /\ call'[i].at = "asked" /\ call'[i].seed = call[i].seed
      /\ call'[i].token = page.token /\ call'[i].player = page.user /\ call'[i] \in Call
  <2>1. call[i] \in Call /\ page.token \in Users \cup {None} /\ page.user \in Users \cup {None}
    BY DEF Page
  <2> QED
    BY <2>1 DEF Call
<1>2. TypeOK' /\ ConnectionIsLive'
  BY <1>1 DEF ConnectionIsLive
<1>3. OneUser'
  BY DEF OneUser, UsersInOrder
<1>4. PasskeyFits'
  BY DEF PasskeyFits
<1>5. orderly' => UsersInOrder'
  BY DEF UsersInOrder, Signing
<1>6. orderly' => PasskeysInOrder'
  BY DEF PasskeysInOrder, Authenticating
<1> QED
  BY <1>2, <1>3, <1>4, <1>5, <1>6

LEMMA SignMessageKeeps ==
  ASSUME SessionInv, NEW i \in Handlers, SignMessage(i)
  PROVE  SessionInv'
<1> USE DEF SessionInv, TypeOK, SignMessage
<1>1. call'[i] =
         [fn |-> "sign", at |-> "asked", of |-> None, frame |-> 0,
          seed |-> None, token |-> page.token, player |-> None]
  BY DEF Ask, Idle
<1>2. call' = [call EXCEPT ![i] = call'[i]] /\ \A j \in Handlers \ {i} : call'[j] = call[j]
  BY DEF Ask
<1>3. TypeOK' /\ ConnectionIsLive'
  BY <1>1, <1>2 DEF Page, Call, ConnectionIsLive
<1>4. OneUser'
  BY <1>1, <1>2 DEF OneUser
<1>5. PasskeyFits'
  BY <1>1, <1>2 DEF PasskeyFits
<1>6. orderly' => UsersInOrder'
  BY <1>1, <1>2 DEF UsersInOrder, Signing
<1>7. orderly' => PasskeysInOrder'
  BY <1>1, <1>2 DEF PasskeysInOrder, Authenticating
<1> QED
  BY <1>3, <1>4, <1>5, <1>6, <1>7

LEMMA TypeAccountKeeps ==
  ASSUME SessionInv, NEW a \in Accounts, TypeAccount(a)
  PROVE  SessionInv'
<1> USE DEF SessionInv, TypeOK, TypeAccount
<1>1. /\ page'.session = page.session /\ page'.token = page.token /\ page'.user = page.user
      /\ page'.client = page.client /\ page'.frame = page.frame /\ page'.conn = page.conn
      /\ page'.dialog = page.dialog /\ page'.account = a
      /\ page'.passkey = page.passkey /\ page'.busy = page.busy
  BY DEF Page
<1>2. TypeOK' /\ ConnectionIsLive'
  BY DEF Page, Keeps, ConnectionIsLive
<1>3. OneUser'
  BY DEF OneUser, Keeps
<1>4. PasskeyFits'
  BY DEF PasskeyFits, Keeps
<1>5. orderly' => UsersInOrder'
  BY DEF UsersInOrder, Signing, Keeps
<1>6. orderly' => PasskeysInOrder'
  BY <1>1 DEF PasskeysInOrder, Authenticating, Keeps
<1> QED
  BY <1>2, <1>3, <1>4, <1>5, <1>6

LEMMA CancelKeeps ==
  ASSUME SessionInv, Cancel
  PROVE  SessionInv'
<1> USE DEF SessionInv, TypeOK, Cancel
<1>1. /\ page'.session = page.session /\ page'.token = page.token /\ page'.user = page.user
      /\ page'.client = page.client /\ page'.frame = page.frame /\ page'.conn = page.conn
      /\ page'.dialog = FALSE /\ page'.account = None
      /\ page'.passkey = None /\ page'.busy = page.busy
  BY DEF Closed
<1>2. TypeOK' /\ ConnectionIsLive'
  BY DEF Page, Keeps, ConnectionIsLive, Closed
<1>3. OneUser'
  BY <1>1 DEF OneUser, Keeps
<1>4. PasskeyFits'
  BY DEF PasskeyFits, Keeps
<1>5. orderly' => UsersInOrder'
  BY <1>1 DEF UsersInOrder, Signing, Keeps
<1>6. orderly' => PasskeysInOrder'
  BY <1>1 DEF PasskeysInOrder, Authenticating, Keeps
<1> QED
  BY <1>2, <1>3, <1>4, <1>5, <1>6

LEMMA MigratedFetchedKeeps ==
  ASSUME SessionInv, NEW i \in Handlers, MigratedFetched(i)
  PROVE  SessionInv'
<1> USE DEF SessionInv, TypeOK, MigratedFetched
<1>1. /\ call'[i].fn = call[i].fn /\ call'[i].at = "assert" /\ call'[i].of = call[i].of
      /\ call'[i].seed = Former[call[i].of] /\ call'[i] \in Call
  <2>1. call'[i] = [call[i] EXCEPT !.at = "assert", !.seed = Former[call[i].of]]
    BY DEF Seed
  <2>2. call[i] \in Call /\ Former[call[i].of] \in Seeds
    BY DEF Seeds
  <2> QED
    BY <2>1, <2>2 DEF Call
<1>2. TypeOK' /\ ConnectionIsLive'
  BY <1>1 DEF ConnectionIsLive
<1>3. OneUser'
  BY DEF OneUser
<1>4. PasskeyFits'
  BY DEF PasskeyFits
<1>5. orderly' => UsersInOrder'
  BY DEF UsersInOrder, Signing
<1>6. orderly' => PasskeysInOrder'
  BY <1>1 DEF PasskeysInOrder, Authenticating
<1> QED
  BY <1>2, <1>3, <1>4, <1>5, <1>6

LEMMA AuthenticateFailsKeeps ==
  ASSUME SessionInv, NEW i \in Handlers, AuthenticateFails(i)
  PROVE  SessionInv'
<1> USE DEF SessionInv, TypeOK, AuthenticateFails
<1>1. call'[i] =
         [fn |-> None, at |-> "idle", of |-> None, frame |-> 0,
          seed |-> None, token |-> None, player |-> None]
  BY DEF End, Idle
<1>2. call' = [call EXCEPT ![i] = call'[i]] /\ \A j \in Handlers \ {i} : call'[j] = call[j]
  BY DEF End
<1>3. TypeOK' /\ ConnectionIsLive'
  <2>1. page' \in Page
    BY DEF Page
  <2>2. call' \in [Handlers -> Call]
    BY <1>1, <1>2 DEF Call
  <2>3. \A j \in Handlers :
          /\ call'[j].at = "recover" => (call'[j].fn = "passkey" <=> call'[j].seed # None)
          /\ call'[j].at = "auth" => call'[j].of \in Users
          /\ call'[j].at \in {"migrated", "assert"} => call'[j].of \in Accounts
    BY <1>1, <1>2
  <2> QED
    BY <2>1, <2>2, <2>3 DEF ConnectionIsLive
<1>4. OneUser'
  BY <1>1, <1>2 DEF OneUser
<1>5. PasskeyFits'
  BY <1>1, <1>2 DEF PasskeyFits
<1>6. orderly' => UsersInOrder'
  BY <1>1, <1>2 DEF UsersInOrder, Signing
<1>7. orderly' => PasskeysInOrder'
  BY <1>1, <1>2 DEF PasskeysInOrder, Authenticating
<1> QED
  BY <1>3, <1>4, <1>5, <1>6, <1>7

LEMMA AssertedKeeps ==
  ASSUME SessionInv, NEW i \in Handlers, Asserted(i)
  PROVE  SessionInv'
<1> USE DEF SessionInv, TypeOK, Asserted
<1>1. call'[i] =
         [fn |-> None, at |-> "idle", of |-> None, frame |-> 0,
          seed |-> None, token |-> None, player |-> None]
  BY DEF End, Idle
<1>2. call' = [call EXCEPT ![i] = call'[i]] /\ \A j \in Handlers \ {i} : call'[j] = call[j]
  BY DEF End
<1>3. TypeOK' /\ ConnectionIsLive'
  <2>1. page' \in Page
    BY DEF Page, Call
  <2>2. call' \in [Handlers -> Call]
    BY <1>1, <1>2 DEF Call
  <2>3. \A j \in Handlers :
          /\ call'[j].at = "recover" => (call'[j].fn = "passkey" <=> call'[j].seed # None)
          /\ call'[j].at = "auth" => call'[j].of \in Users
          /\ call'[j].at \in {"migrated", "assert"} => call'[j].of \in Accounts
    BY <1>1, <1>2
  <2> QED
    BY <2>1, <2>2, <2>3 DEF ConnectionIsLive
<1>4. OneUser'
  BY <1>1, <1>2 DEF OneUser
<1>5. PasskeyFits'
  BY <1>1, <1>2 DEF PasskeyFits
<1>6. orderly' => UsersInOrder'
  BY <1>1, <1>2 DEF UsersInOrder, Signing
<1>7. orderly' => PasskeysInOrder'
  BY <1>1, <1>2 DEF PasskeysInOrder, Authenticating
<1> QED
  BY <1>3, <1>4, <1>5, <1>6, <1>7

LEMMA ForgetKeeps ==
  ASSUME SessionInv, ~page.busy, page.dialog, page.account = None,
         page' = [page EXCEPT !.passkey = None], UNCHANGED <<call, orderly>>
  PROVE  SessionInv'
<1> USE DEF SessionInv, TypeOK
<1>1. TypeOK' /\ ConnectionIsLive'
  BY DEF Page, ConnectionIsLive
<1>2. OneUser'
  BY DEF OneUser
<1>3. PasskeyFits'
  BY DEF PasskeyFits
<1>4. orderly' => UsersInOrder'
  BY DEF UsersInOrder, Signing
<1>5. orderly' => PasskeysInOrder'
  BY DEF PasskeysInOrder, Authenticating
<1> QED
  BY <1>1, <1>2, <1>3, <1>4, <1>5

LEMMA AskKeeps ==
  ASSUME SessionInv, NEW i \in Handlers, page.dialog, ~page.busy, page.account # None,
         page' = [page EXCEPT !.busy = TRUE], UNCHANGED orderly,
         Ask(i, [Idle EXCEPT !.fn = "authenticate", !.at = "migrated",
                              !.of = page.account, !.token = page.token])
  PROVE  SessionInv'
<1> USE DEF SessionInv, TypeOK
<1>1. call'[i] =
         [fn |-> "authenticate", at |-> "migrated", of |-> page.account, frame |-> 0,
          seed |-> None, token |-> page.token, player |-> None]
  BY DEF Ask, Idle
<1>2. call' = [call EXCEPT ![i] = call'[i]] /\ \A j \in Handlers \ {i} : call'[j] = call[j]
  BY DEF Ask
<1>3. TypeOK' /\ ConnectionIsLive'
  <2>1. page' \in Page
    BY DEF Page
  <2>2. call' \in [Handlers -> Call]
    BY <1>1, <1>2 DEF Call, Page
  <2>3. \A j \in Handlers :
          /\ call'[j].at = "recover" => (call'[j].fn = "passkey" <=> call'[j].seed # None)
          /\ call'[j].at = "auth" => call'[j].of \in Users
          /\ call'[j].at \in {"migrated", "assert"} => call'[j].of \in Accounts
    BY <1>1, <1>2 DEF Page
  <2> QED
    BY <2>1, <2>2, <2>3 DEF ConnectionIsLive
<1>4. OneUser'
  BY <1>1, <1>2 DEF OneUser
<1>5. PasskeyFits'
  BY <1>1, <1>2 DEF PasskeyFits
<1>6. orderly' => UsersInOrder'
  BY <1>1, <1>2 DEF UsersInOrder, Signing
<1>7. orderly' => PasskeysInOrder'
  BY <1>1, <1>2 DEF PasskeysInOrder, Authenticating
<1> QED
  BY <1>3, <1>4, <1>5, <1>6, <1>7

LEMMA ConfirmKeeps ==
  ASSUME SessionInv, NEW i \in Handlers, NEW method \in {"recover", "passkey"}, Confirm(i, method)
  PROVE  SessionInv'
<1> USE DEF SessionInv, TypeOK, Confirm, HasInputs
<1>1. call'[i] =
         [fn |-> method, at |-> "recover", of |-> page.account, frame |-> 0,
          seed |-> IF method = "passkey" THEN page.passkey ELSE None, token |-> page.token, player |-> page.user]
  BY DEF Ask, Idle
<1>2. call' = [call EXCEPT ![i] = call'[i]] /\ \A j \in Handlers \ {i} : call'[j] = call[j]
  BY DEF Ask
<1>3. /\ page'.session = page.session /\ page'.token = page.token /\ page'.user = page.user
      /\ page'.client = page.client /\ page'.frame = page.frame /\ page'.conn = page.conn
      /\ page'.dialog = FALSE /\ page'.account = None
      /\ page'.passkey = None /\ page'.busy = page.busy
  BY DEF Closed
<1>4. TypeOK' /\ ConnectionIsLive'
  <2>1. page' \in Page
    BY DEF Page, Closed
  <2>2. call' \in [Handlers -> Call]
    BY <1>1, <1>2 DEF Call, Page
  <2>3. \A j \in Handlers :
          /\ call'[j].at = "recover" => (call'[j].fn = "passkey" <=> call'[j].seed # None)
          /\ call'[j].at = "auth" => call'[j].of \in Users
          /\ call'[j].at \in {"migrated", "assert"} => call'[j].of \in Accounts
    BY <1>1, <1>2
  <2> QED
    BY <2>1, <2>2, <2>3, <1>3 DEF ConnectionIsLive, Keeps
<1>5. OneUser'
  BY <1>1, <1>2, <1>3 DEF OneUser, UsersInOrder, Keeps
<1>6. PasskeyFits'
  BY <1>1, <1>2 DEF PasskeyFits, PasskeysInOrder, Keeps
<1>7. orderly' => UsersInOrder'
  BY <1>1, <1>2, <1>3 DEF UsersInOrder, Signing, Keeps
<1>8. ASSUME orderly' PROVE PasskeysInOrder'
  <2>1. /\ ~page'.dialog => page'.account = None /\ page'.passkey = None
        /\ page'.passkey # None => page'.account # None /\ page'.passkey = Former[page'.account]
    BY <1>3
  <2>2. \A j, k \in Handlers : Authenticating(j)' /\ Authenticating(k)' => j = k
    BY <1>8, <1>1, <1>2 DEF PasskeysInOrder, Authenticating, Keeps
  <2>3. ASSUME NEW j \in Handlers
        PROVE  /\ Authenticating(j)' => /\ page'.dialog /\ page'.busy
                                         /\ page'.account # None /\ call'[j].of = page'.account
               /\ call'[j].at = "assert" => call'[j].seed = Former[call'[j].of]
    <3>1. page.busy = FALSE /\ orderly
      BY <1>8 DEF Page, Keeps
    <3>2. \A k \in Handlers : ~Authenticating(k)'
      BY <3>1, <1>1, <1>2 DEF PasskeysInOrder, Authenticating
    <3> QED
      BY <3>2 DEF Authenticating
  <2> QED
    BY <2>1, <2>2, <2>3 DEF PasskeysInOrder
<1> QED
  BY <1>4, <1>5, <1>6, <1>7, <1>8

LEMMA SessionInvKept == SessionInv /\ [Next]_vars => SessionInv'
<1> SUFFICES ASSUME SessionInv, [Next]_vars PROVE SessionInv'
  OBVIOUS
<1>1. CASE UNCHANGED vars
  BY <1>1
     DEF vars, SessionInv, TypeOK, ConnectionIsLive, OneUser, PasskeyFits, UsersInOrder,
    PasskeysInOrder, Signing, Authenticating
<1>2. ASSUME NEW i \in Handlers, NEW u \in Users, SignUp(i, u) \/ SignIn(i, u)
      PROVE  SessionInv'
  BY <1>2, SignKeeps DEF SignUp, SignIn
<1>3. ASSUME NEW i \in Handlers, NEW fn \in {"create", "set", "open"}, Use(i, fn)
      PROVE  SessionInv'
  <2>1. CASE NeedsFrame(page)
    BY <1>3, <2>1, MakeFrameKeeps DEF Use, NeedsFrame
  <2>2. CASE ~NeedsFrame(page)
    <3>1. call[i].at = "idle" /\ page \in Page
      BY <1>3 DEF Use, Idle, SessionInv, TypeOK
    <3> QED
      BY <1>3, <2>2, <3>1, GoKeeps DEF Use
  <2> QED
    BY <2>1, <2>2
<1>4. ASSUME NEW i \in Handlers, Connected(i)
      PROVE  SessionInv'
  <2>1. PICK fn : fn = call[i].fn
    OBVIOUS
  <2>2. PICK pg : pg = [page EXCEPT !.conn = page.frame]
    OBVIOUS
  <2>3. pg \in Page
    BY <2>2 DEF SessionInv, TypeOK, Page
  <2>4. orderly => page.token # None
    BY <1>4 DEF Connected, SessionInv, UsersInOrder
  <2> QED
    BY <1>4, <2>2, <2>3, <2>4, GoKeeps DEF Connected
<1>5. ASSUME NEW i \in Handlers, Fails(i) \/ TimesOut(i) \/ Answered(i)
      PROVE  SessionInv'
  <2>1. call[i].at # "idle"
    BY <1>5 DEF Fails, TimesOut, Answered, Timed
  <2> QED
    BY <1>5, <2>1, EndKeeps DEF Fails, TimesOut, Answered
<1>6. ASSUME NEW i \in Handlers, Authenticate(i)
      PROVE  SessionInv'
  BY <1>6, ForgetKeeps, AskKeeps DEF Authenticate
<1>7. ASSUME NEW i \in Handlers, NEW method \in {"recover", "passkey"}, Confirm(i, method)
      PROVE  SessionInv'
  BY <1>7, ConfirmKeeps
<1>8. CASE \/ SignOut \/ InitializeClient \/ Cancel
           \/ \E a \in Accounts : TypeAccount(a)
  BY <1>8, SignOutKeeps, InitializeClientKeeps, CancelKeeps, TypeAccountKeeps
<1>9. CASE \E i \in Handlers :
             \/ GetToken(i) \/ SignedUp(i) \/ SignedIn(i) \/ GotToken(i)
             \/ PasskeyMade(i) \/ SignMessage(i)
             \/ MigratedFetched(i) \/ AuthenticateFails(i) \/ Asserted(i)
  BY <1>9, GetTokenKeeps, SignedUpKeeps, SignedInKeeps, GotTokenKeeps, PasskeyMadeKeeps,
    SignMessageKeeps, MigratedFetchedKeeps, AuthenticateFailsKeeps, AssertedKeeps
<1> QED
  BY <1>1, <1>2, <1>3, <1>4, <1>5, <1>6, <1>7, <1>8, <1>9 DEF Next

----------------------------------------------------------------------------
\* The theorems.

LEMMA SessionCorrect == Spec => []SessionInv
PROOF BY SessionStarts, SessionInvKept, PTL DEF Spec

\* The page and the calls of its functions keep their types, for any visitor.
THEOREM TypeCorrect == Spec => []TypeOK
<1>1. SessionInv => TypeOK
  BY DEF SessionInv
<1> QED
  BY SessionCorrect, <1>1, PTL

\* However many functions make an iframe at once, the connection kept is that of
\* the iframe in the document (ensureIframeConnection replaces, then connects).
THEOREM ConnectionLives == Spec => []ConnectionIsLive
<1>1. SessionInv => ConnectionIsLive
  BY DEF SessionInv
<1> QED
  BY SessionCorrect, <1>1, PTL

\* A request to the worker, a new passkey and the client of hot storage belong to
\* one user, for a visitor who waits for what he started.
THEOREM RequestsOfOneUser == Spec => []OneUser
<1>1. SessionInv => OneUser
  BY DEF SessionInv
<1> QED
  BY SessionCorrect, <1>1, PTL

\* The passkey of a recovery was asked for with the user id its account came with
\* (authenticatePasskey, closeAccountIdModal, confirmRecover).
THEOREM RecoveryHasItsPasskey == Spec => []PasskeyFits
<1>1. SessionInv => PasskeyFits
  BY DEF SessionInv
<1> QED
  BY SessionCorrect, <1>1, PTL
=============================================================================
