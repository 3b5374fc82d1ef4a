---------------------------- MODULE RequestChain ----------------------------
(***************************************************************************)
(* What decides on one request to hot storage without any state: the       *)
(* browser's preflight against corsMiddleware, contentTypeMiddleware and   *)
(* getToken; and the calls that the page's own client makes.               *)
(*                                                                         *)
(* A call says which page's script sends it ("native": none does), its     *)
(* method and content type, its further headers ("tracing" stands for the  *)
(* tracing headers and the request id), the Authorization header, the      *)
(* cookie field header and whether that cookie comes along.                *)
(***************************************************************************)
EXTENDS FiniteSets

CONSTANTS
  Origins,      \* origins of pages
  AllowList     \* the entries of ALLOWED_ORIGINS, some with spaces around

Entry == [origin : Origins, spaces : BOOLEAN]

ASSUME OriginsAssumption == AllowList \subseteq Entry /\ "native" \notin Origins

Call ==
  [page : Origins \cup {"native"},
   method : {"GET", "POST", "DELETE", "PATCH", "OPTIONS"},
   json : BOOLEAN,
   provider : {"absent", "default", "google", "playfab"},
   extra : SUBSET {"x-token-type", "tracing", "unlisted"},
   bearer : {"absent", "bare", "token"},
   field : {"absent", "session", "other"},
   cookie : BOOLEAN]

----------------------------------------------------------------------------
\* The headers that are not CORS-safelisted, and so need the server's consent.
Headers(c) ==
  c.extra \cup
  {h \in {"content-type", "authorization", "x-auth-provider", "x-cookie-field"} :
     \/ h = "content-type" /\ c.json
     \/ h = "authorization" /\ c.bearer # "absent"
     \/ h = "x-auth-provider" /\ c.provider # "absent"
     \/ h = "x-cookie-field" /\ c.field # "absent"}

AllowMethods == {"GET", "POST", "PUT", "DELETE", "OPTIONS"}

\* Slip: the header that goes with third-party tokens is left out.
NoTokenType ==
  {"content-type", "authorization", "x-auth-provider", "x-cookie-field", "tracing"}

AllowHeaders == NoTokenType \cup {"x-token-type"}

\* Slip: entries are compared as they were split.
Untrimmed(origin) == [origin |-> origin, spaces |-> FALSE] \in AllowList

\* isOriginAllowed: the entries are trimmed before they are compared.
IsOriginAllowed(origin) == \E e \in AllowList : e.origin = origin

\* Fetch: a simple request goes out at once; any other one waits for a preflight
\* that allows its origin, its method and its headers.
BrowserSends(c) ==
  \/ c.method \in {"GET", "POST"} /\ Headers(c) = {}
  \/ /\ IsOriginAllowed(c.page)
     /\ c.method \in AllowMethods
     /\ Headers(c) \subseteq AllowHeaders

----------------------------------------------------------------------------
\* contentTypeMiddleware.
ContentTypeOK(c) == c.method \in {"POST", "PUT", "PATCH"} => c.json

\* getTokenFromHeader: the scheme is required.
HeaderToken(c) ==
  CASE c.bearer = "absent" -> "missing"
    [] c.bearer = "bare"   -> "invalid"
    [] OTHER               -> "token"

\* Slip: without the header that names it, the session cookie is taken.
AnyCookie(c) ==
  IF c.field = "other" THEN "invalid"
  ELSE IF c.cookie THEN "token" ELSE "missing"

\* getTokenFromCookie: the cookie is the one that X-Cookie-Field names.
CookieToken(c) ==
  CASE c.field = "absent"  -> "missing"
    [] c.field = "other"   -> "invalid"
    [] c.field = "session" -> IF c.cookie THEN "token" ELSE "missing"

\* getToken: exactly one of the two deliveries.
HasToken(c) == {HeaderToken(c), CookieToken(c)} = {"token", "missing"}

\* What becomes of a call before any key is needed; "token" goes on.
Answer(c) ==
  IF c.page # "native" /\ ~BrowserSends(c) THEN "held"
  ELSE IF c.method = "OPTIONS" THEN "preflight"
  ELSE IF ~ContentTypeOK(c) THEN "unsupported"
  ELSE IF ~HasToken(c) THEN "unauthorized"
  ELSE "token"

Provider(c) == IF c.provider = "absent" THEN "default" ELSE c.provider

----------------------------------------------------------------------------
\* The calls that Openfort._makeRequest sends from a page: the content type of
\* JSON with every method, and the provider and token type together or not at all.
ClientCalls ==
  {c \in Call :
     /\ c.page # "native" /\ c.method \in {"GET", "POST"}
     /\ c.json
     /\ c.bearer = "token" /\ c.field = "absent"
     /\ c.provider \in {"absent", "google"}
     /\ c.extra \subseteq {"x-token-type", "tracing"}
     /\ "x-token-type" \in c.extra <=> c.provider # "absent"}
Listed == {e.origin : e \in AllowList}

\* Who sends a call: the client of a listed page, another script there, a script
\* of another page, or a program that is no browser.
Sender(c) ==
  IF c.page = "native" THEN "native"
  ELSE IF c.page \notin Listed THEN "foreign"
  ELSE IF c \in ClientCalls THEN "client" ELSE "script"

\* All that the stateless part of the chain makes of all calls.
Arrivals ==
  {[at |-> Answer(c), by |-> Sender(c),
    provider |-> IF Answer(c) = "token" THEN Provider(c) ELSE "unread"] : c \in Call}
=============================================================================
