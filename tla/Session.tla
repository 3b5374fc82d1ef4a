------------------------------ MODULE Session -------------------------------
(***************************************************************************)
(* The sample page's session: signing up, in and out, the token for the    *)
(* storages, the connection to the worker's iframe, the requests that the  *)
(* worker gets, and the dialog that recovers an account.                   *)
(*                                                                         *)
(* A page function runs from one await to the next; between them any other *)
(* function may run.  A token is named by its user.  The API buttons and   *)
(* the sign-out button are not modelled: the first are enabled exactly     *)
(* while there is a token, the second is shown exactly while there is a    *)
(* session.  Frames are numbered; 0 is none.                               *)
(***************************************************************************)
EXTENDS Naturals

CONSTANTS
  Handlers,     \* invocations of the page's functions, one per slot
  Users,
  Accounts,
  Owner,        \* the user each account belongs to in hot storage
  Former,       \* the user id each account was imported with; None: native
  MaxFrames,    \* bound: iframes that are made
  None

ASSUME SessionAssumption ==
  /\ Owner \in [Accounts -> Users]
  /\ MaxFrames \in Nat
  /\ None \notin Users \cup Accounts

VARIABLES
  page,     \* the page's variables and the parts of the document it reads
  call,     \* what each function awaits, and what it keeps for afterwards
  orderly   \* history: the user has waited where the page does not make him

vars == <<page, call, orderly>>

Seeds == Users \cup {Former[a] : a \in Accounts} \cup {"default"}

Idle ==
  [fn |-> None, at |-> "idle", of |-> None, frame |-> 0, seed |-> None,
   token |-> None, player |-> None]

Page ==
  [session : Users \cup {None}, token : Users \cup {None}, user : Users \cup {None},
   client : Users \cup {None}, frame : 0 .. MaxFrames, conn : 0 .. MaxFrames,
   dialog : BOOLEAN, account : Accounts \cup {None}, passkey : Seeds \cup {None},
   busy : BOOLEAN]

Call ==
  [fn : {None, "signUp", "signIn", "token", "sign", "create", "set", "open",
         "authenticate", "recover", "passkey"},
   at : {"idle", "auth", "connect", "prompt", "migrated", "assert", "asked", "recover"},
   of : Users \cup Accounts \cup {None}, frame : 0 .. MaxFrames,
   seed : Seeds \cup {None}, token : Users \cup {None}, player : Users \cup {None}]

TypeOK ==
  /\ page \in Page
  /\ call \in [Handlers -> Call]
  /\ \A i \in Handlers :
       /\ call[i].at = "recover" => (call[i].fn = "passkey" <=> call[i].seed # None)
       /\ call[i].at = "auth" => call[i].of \in Users
       /\ call[i].at \in {"migrated", "assert"} => call[i].of \in Accounts
  /\ orderly \in BOOLEAN

Ask(i, c) == call[i] = Idle /\ call' = [call EXCEPT ![i] = c]

End(i) == call' = [call EXCEPT ![i] = Idle]

\* Functions that will still read or write the page's variables.
UnderWay == \E i \in Handlers : call[i].at \notin {"idle", "asked", "recover"}

Keeps(good) == orderly' = (orderly /\ good)

----------------------------------------------------------------------------
\* Session and token.

\* register, login and getJWT, to their await.
SignUp(i, u) ==
  /\ ~page.dialog
  /\ Ask(i, [Idle EXCEPT !.fn = "signUp", !.at = "auth", !.of = u])
  /\ Keeps(page.session = None /\ ~UnderWay)
  /\ UNCHANGED page

SignIn(i, u) ==
  /\ ~page.dialog
  /\ Ask(i, [Idle EXCEPT !.fn = "signIn", !.at = "auth", !.of = u])
  /\ Keeps(page.session = None /\ ~UnderWay)
  /\ UNCHANGED page

GetToken(i) ==
  /\ ~page.dialog /\ page.session # None
  /\ Ask(i, [Idle EXCEPT !.fn = "token", !.at = "auth", !.of = page.session])
  /\ UNCHANGED <<page, orderly>>

\* The auth service agrees: register and login set the user, login the session and
\* getJWT the token, whatever has happened to the page meanwhile.
Granted(i, fn, pg) ==
  /\ call[i].at = "auth" /\ call[i].fn = fn
  /\ page' = pg
  /\ End(i)
  /\ UNCHANGED orderly

SignedUp(i) == Granted(i, "signUp", [page EXCEPT !.user = call[i].of])

SignedIn(i) == Granted(i, "signIn", [page EXCEPT !.session = call[i].of, !.user = call[i].of])

GotToken(i) == Granted(i, "token", [page EXCEPT !.token = call[i].of])

\* The auth service refuses or is not reached, or the user makes no passkey.
Fails(i) ==
  /\ call[i].at \in {"auth", "prompt"}
  /\ End(i)
  /\ UNCHANGED <<page, orderly>>

\* Slip: the token outlives the session.
KeptToken == [page EXCEPT !.session = None, !.user = None, !.client = None]

\* logout.
SignedOut == [page EXCEPT !.session = None, !.token = None, !.user = None, !.client = None]

SignOut ==
  /\ ~page.dialog /\ page.session # None
  /\ page' = SignedOut
  /\ Keeps(~UnderWay)
  /\ UNCHANGED call

\* initializeClient: the client keeps the token of the moment.
InitializeClient ==
  /\ ~page.dialog /\ page.token # None
  /\ page' = [page EXCEPT !.client = page.token]
  /\ UNCHANGED <<call, orderly>>

----------------------------------------------------------------------------
\* The worker's iframe, and the functions that need it.

\* The request of createAccountIframe.
CreateAccount(pg) ==
  [Idle EXCEPT !.fn = "create", !.at = "asked", !.token = pg.token, !.player = pg.user]

\* registerPasskey asks for a passkey, and keeps the seed it is made with.
CreatePasskey(pg) ==
  [Idle EXCEPT !.fn = "set", !.at = "prompt", !.seed = IF pg.user = None THEN "default" ELSE pg.user]

\* What a function does once there is a connection, in page pg; recoverAccIframe
\* opens the dialog.
Proceed(i, fn, pg) ==
  /\ call' = [call EXCEPT ![i] = CASE fn = "create" -> CreateAccount(pg)
                                   [] fn = "set"    -> CreatePasskey(pg)
                                   [] OTHER         -> Idle]
  /\ page' = [pg EXCEPT !.dialog = @ \/ fn = "open"]

\* Slip: every function makes an iframe of its own.
AlwaysNeeds(pg) == TRUE

\* ensureIframeConnection: is there no connection yet?
NeedsFrame(pg) == pg.conn = 0

\* createAccountIframe, registerPasskey, recoverAccIframe: without a connection the
\* iframe in the document, if any, is replaced by a new one.
Use(i, fn) ==
  /\ ~page.dialog /\ page.token # None
  /\ call[i] = Idle
  /\ IF NeedsFrame(page)
       THEN /\ page.frame < MaxFrames
            /\ page' = [page EXCEPT !.frame = @ + 1]
            /\ Ask(i, [Idle EXCEPT !.fn = fn, !.at = "connect", !.frame = page.frame + 1])
       ELSE Proceed(i, fn, page)
  /\ UNCHANGED orderly

\* The handshake with an iframe that is still in the document.
Connected(i) ==
  /\ call[i].at = "connect"
  /\ call[i].frame = page.frame
  /\ Proceed(i, call[i].fn, [page EXCEPT !.conn = call[i].frame])
  /\ UNCHANGED orderly

\* Slip: the recovery waits for the worker alone.
OnlyConnections(i) == call[i].at = "connect"

\* The waits that a timer ends: the connection, and the race in confirmRecover.
Timed(i) == call[i].at \in {"connect", "recover"}

TimesOut(i) ==
  /\ Timed(i)
  /\ End(i)
  /\ UNCHANGED <<page, orderly>>

\* registerPasskey goes on, with the token and the user of now.
PasskeyMade(i) ==
  /\ call[i].at = "prompt"
  /\ call' = [call EXCEPT ![i].at = "asked", ![i].token = page.token, ![i].player = page.user]
  /\ UNCHANGED <<page, orderly>>

SignMessage(i) ==
  /\ ~page.dialog /\ page.token # None /\ page.conn # 0
  /\ Ask(i, [Idle EXCEPT !.fn = "sign", !.at = "asked", !.token = page.token])
  /\ UNCHANGED <<page, orderly>>

\* The worker answers; it need not, ever.
Answered(i) ==
  /\ call[i].at \in {"asked", "recover"}
  /\ End(i)
  /\ UNCHANGED <<page, orderly>>

----------------------------------------------------------------------------
\* The recovery dialog.  It covers the page.

TypeAccount(a) ==
  /\ page.dialog
  /\ page' = [page EXCEPT !.account = a]
  /\ Keeps(page.account = None)
  /\ UNCHANGED call

\* Slip: the passkey is not part of what closing the dialog clears.
KeptPasskey(pg) == [pg EXCEPT !.dialog = FALSE, !.account = None]

\* closeAccountIdModal.
Closed(pg) == [pg EXCEPT !.dialog = FALSE, !.account = None, !.passkey = None]

Cancel ==
  /\ page.dialog
  /\ page' = Closed(page)
  /\ Keeps(~page.busy)
  /\ UNCHANGED call

\* authenticatePasskey: hot storage is asked which user id the account came with.
Authenticate(i) ==
  /\ page.dialog /\ ~page.busy
  /\ IF page.account = None
       THEN /\ page' = [page EXCEPT !.passkey = None]
            /\ UNCHANGED call
       ELSE /\ page' = [page EXCEPT !.busy = TRUE]
            /\ Ask(i, [Idle EXCEPT !.fn = "authenticate", !.at = "migrated",
                                   !.of = page.account, !.token = page.token])
  /\ UNCHANGED orderly

\* The seed of the prompt: an imported account always has a former user.
Seed(i) == Former[call[i].of]

\* handleGetMigratedAccountData: a row only for an account that is the token's
\* user's and was imported.
Fetched(i) ==
  LET a == call[i].of
  IN Owner[a] = call[i].token /\ Former[a] # None

MigratedFetched(i) ==
  /\ call[i].at = "migrated" /\ Fetched(i)
  /\ call' = [call EXCEPT ![i].at = "assert", ![i].seed = Seed(i)]
  /\ UNCHANGED <<page, orderly>>

\* The failure path of authenticatePasskey: the fetch fails or answers otherwise, or
\* the user does not show the passkey.
AuthenticateFails(i) ==
  /\ call[i].at \in {"migrated", "assert"}
  /\ page' = [page EXCEPT !.passkey = None, !.busy = FALSE]
  /\ End(i)
  /\ UNCHANGED orderly

Asserted(i) ==
  /\ call[i].at = "assert"
  /\ page' = [page EXCEPT !.passkey = call[i].seed, !.busy = FALSE]
  /\ End(i)
  /\ UNCHANGED orderly

\* Slip: a passkey may be missing.
AnyMethod(method) == TRUE

HasInputs(method) == method = "passkey" => page.passkey # None

\* confirmRecover: the passkey is copied before the dialog is closed.
Confirm(i, method) ==
  /\ page.dialog /\ page.account # None
  /\ HasInputs(method)
  /\ page' = Closed(page)
  /\ Ask(i, [Idle EXCEPT !.fn = method, !.at = "recover", !.of = page.account,
                         !.seed = IF method = "passkey" THEN page.passkey ELSE None,
                         !.token = page.token, !.player = page.user])
  /\ Keeps(~page.busy)

----------------------------------------------------------------------------
Init ==
  /\ page =
       [session |-> None, token |-> None, user |-> None, client |-> None,
        frame |-> 0, conn |-> 0, dialog |-> FALSE, account |-> None,
        passkey |-> None, busy |-> FALSE]
  /\ call = [i \in Handlers |-> Idle]
  /\ orderly = TRUE

Next ==
  \/ SignOut \/ InitializeClient \/ Cancel
  \/ \E a \in Accounts : TypeAccount(a)
  \/ \E i \in Handlers :
       \/ \E u \in Users : SignUp(i, u) \/ SignIn(i, u)
       \/ GetToken(i) \/ SignedUp(i) \/ SignedIn(i) \/ GotToken(i) \/ Fails(i)
       \/ \E fn \in {"create", "set", "open"} : Use(i, fn)
       \/ Connected(i) \/ TimesOut(i) \/ PasskeyMade(i) \/ SignMessage(i) \/ Answered(i)
       \/ Authenticate(i) \/ MigratedFetched(i) \/ AuthenticateFails(i) \/ Asserted(i)
       \/ \E method \in {"recover", "passkey"} : Confirm(i, method)

Spec == Init /\ [][Next]_vars

\* The timers of the browser go off.
FairSpec == Spec /\ \A i \in Handlers : WF_vars(TimesOut(i))

----------------------------------------------------------------------------
\* A connection leads to the iframe in the document: when several functions find
\* no connection and each makes an iframe, the one connected to survives.
ConnectionIsLive == page.conn \in {0, page.frame}

\* If the user signs up, in and out with nothing under way, and in or up only when
\* signed out, then a request carries the token of one user, as whom the page
\* takes its visitor; a new passkey is made from his id; and the client of hot
\* storage acts for nobody else.
OneUser ==
  orderly =>
    /\ {page.token, page.client} \subseteq {None, page.user}
    /\ \A i \in Handlers :
         LET c == call[i] IN
           /\ c.fn \in {"create", "recover", "passkey"} /\ c.at \in {"asked", "recover"} =>
                c.token # None /\ c.player = c.token
           /\ c.fn = "set" /\ c.at = "asked" =>
                c.token # None /\ c.player = c.token /\ c.seed = c.token

\* If, moreover, the user types one account id each time the dialog opens, and does
\* not leave the dialog while he is being authenticated, then the passkey that goes
\* with a recovery was asked for with the user id that the account came with.
PasskeyFits ==
  \A i \in Handlers :
    orderly /\ call[i].fn = "passkey" /\ call[i].at = "recover" => call[i].seed = Former[call[i].of]

\* Whether or not the worker ever answers, and whoever replaced its iframe, a click
\* on a function of the iframe gets its connection or an error, and a recovery a
\* result or an error.
WaitsEnd ==
  \A i \in Handlers : \A at \in {"connect", "recover"} : call[i].at = at ~> call[i].at # at

\* docs/src/pages/actions/login.mdx:74 says that users who want to retrieve their
\* share are prompted to authenticate with their passkey: what hot storage answers
\* about an account does not keep its owner from the prompt.
OwnerIsPrompted ==
  \A i \in Handlers :
    call[i].at = "migrated" /\ Owner[call[i].of] = call[i].token => Fetched(i)
=============================================================================
