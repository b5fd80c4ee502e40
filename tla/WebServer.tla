----------------------------- MODULE WebServer -----------------------------
(***************************************************************************)
(* `seck web <report.json>`: a loopback server that shows one report to    *)
(* whoever asks for /r/<token> with the token it printed, once.  Requests  *)
(* are handled concurrently; the token is behind a mutex.                  *)
(*                                                                         *)
(* Browsers are the environment: they ask when they like, with the printed *)
(* token or another, for the page or only its headers, and may break the   *)
(* connection at any time.  A new token is random and never shown.         *)
(***************************************************************************)
EXTENDS Reports

CONSTANT Browser   \* who asks, each one request

ASSUME BrowserAssumption == Browser \cap {"free", "poisoned"} = {}

VARIABLES
  web,       \* "off", "binding", "serving", "refused" (no loopback address, no
             \* report in the schema, or the address is taken)
  page,      \* the report being served
  token,     \* "printed", or "secret" once it was rotated
  mutex,     \* "free", "poisoned", or who holds it
  request,   \* browser -> [token, method]
  handling,  \* browser -> where its request is
  broken     \* the browsers that have gone away

webVars == <<web, page, token, mutex, request, handling, broken>>

Asks == [token : {"printed", "other"}, method : {"GET", "HEAD"}]
NoAsk == [token |-> "none", method |-> "none"]

Stages == {"idle", "waiting", "comparing", "rotating", "accepted",
           "page", "headers", "forbidden", "lost"}

-----------------------------------------------------------------------------
(* Starting.                                                               *)

WebInit ==
  /\ web = "off"
  /\ page = [inputs |-> <<>>, findings |-> <<>>]
  /\ token = "printed"
  /\ mutex = "free"
  /\ request = [b \in Browser |-> NoAsk]
  /\ handling = [b \in Browser |-> "idle"]
  /\ broken = {}

\* resolve_bind comes first, then the report.
Opened(loopback, readable) == IF loopback /\ readable THEN "binding" ELSE "refused"

OpenWeb(loopback, readable, report) ==
  /\ web = "off"
  /\ web' = Opened(loopback, readable)
  /\ page' = IF web' = "binding" THEN RenderPage(report) ELSE page
  /\ UNCHANGED <<token, mutex, request, handling, broken>>

Bind ==
  /\ web = "binding"
  /\ web' \in {"serving", "refused"}
  /\ UNCHANGED <<page, token, mutex, request, handling, broken>>

-----------------------------------------------------------------------------
(* One request.                                                            *)

Ask(b) ==
  /\ web = "serving"
  /\ handling[b] = "idle"
  /\ \E a \in Asks : request' = [request EXCEPT ![b] = a]
  /\ handling' = [handling EXCEPT ![b] = "waiting"]
  /\ UNCHANGED <<web, page, token, mutex, broken>>

\* The handler does not notice: it has no await.
Break(b) ==
  /\ handling[b] \notin {"idle", "page", "headers", "forbidden", "lost"}
  /\ b \notin broken
  /\ broken' = broken \cup {b}
  /\ UNCHANGED <<web, page, token, mutex, request, handling>>

Goes(b, stage) == handling' = [handling EXCEPT ![b] = stage]

MayLockAnyway(b) == mutex # "poisoned"
MayLock(b)       == mutex = "free"

Lock(b) ==
  /\ handling[b] = "waiting"
  /\ MayLock(b)
  /\ mutex' = b
  /\ Goes(b, "comparing")
  /\ UNCHANGED <<web, page, token, request, broken>>

\* lock().unwrap() panics, and the connection is dropped.
LockFails(b) ==
  /\ handling[b] = "waiting"
  /\ mutex = "poisoned"
  /\ Goes(b, "lost")
  /\ UNCHANGED <<web, page, token, mutex, request, broken>>

TokenAfterRefusalRotated == "secret"
TokenAfterRefusal        == token

Compare(b) ==
  /\ handling[b] = "comparing"
  /\ IF request[b].token = token
     THEN Goes(b, "rotating") /\ UNCHANGED <<token, mutex>>
     ELSE /\ Goes(b, "forbidden")
          /\ mutex' = "free"
          /\ token' = TokenAfterRefusal
  /\ UNCHANGED <<web, page, request, broken>>

Rotate(b) ==
  /\ handling[b] = "rotating"
  /\ token' = "secret"
  /\ mutex' = "free"
  /\ Goes(b, "accepted")
  /\ UNCHANGED <<web, page, request, broken>>

\* No random bytes: expect() panics with the mutex held.
RotateFails(b) ==
  /\ handling[b] = "rotating"
  /\ mutex' = "poisoned"
  /\ Goes(b, "lost")
  /\ UNCHANGED <<web, page, token, request, broken>>

\* The handler runs for HEAD as for GET; its page is then left out.
Deliver(b) ==
  /\ handling[b] = "accepted"
  /\ Goes(b, IF b \in broken THEN "lost" ELSE
             IF request[b].method = "GET" THEN "page" ELSE "headers")
  /\ UNCHANGED <<web, page, token, mutex, request, broken>>

Handle(b) == Lock(b) \/ LockFails(b) \/ Compare(b) \/ Rotate(b) \/ Deliver(b)

WebNext ==
  \/ Bind
  \/ \E b \in Browser : Ask(b) \/ Break(b) \/ Handle(b) \/ RotateFails(b)

-----------------------------------------------------------------------------
(* Properties.                                                             *)

WebTypeOK ==
  /\ web \in {"off", "binding", "serving", "refused"}
  /\ token \in {"printed", "secret"}
  /\ mutex \in Browser \cup {"free", "poisoned"}
  /\ request \in [Browser -> Asks \cup {NoAsk}]
  /\ handling \in [Browser -> Stages]
  /\ broken \subseteq Browser

\* Whatever requests race for the token: at most one ever passes, it had the token
\* that was printed, and as long as that token is the current one none has passed.
Passed == {b \in Browser : handling[b] \in {"accepted", "page", "headers"}}

ServedOnce ==
  /\ \A a, b \in Passed : a = b
  /\ \A b \in Passed : request[b].token = "printed" /\ token = "secret"

\* Wrong tokens spend nothing: if anybody waits with the printed token, somebody who
\* had it is served, unless the connection breaks or the handler panics under it.
Settled(b) == request[b].token = "printed" /\ handling[b] \in {"accepted", "page", "headers", "lost"}

RightTokenServed ==
  (\E b \in Browser : handling[b] = "waiting" /\ request[b].token = "printed")
    ~> \E b \in Browser : Settled(b)
=============================================================================
