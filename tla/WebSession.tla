----------------------------- MODULE WebSession -----------------------------
(***************************************************************************)
(* The browser's side of a session (src/frontend): the refresh token in an  *)
(* httpOnly cookie all tabs share, the access token in the memory of a tab, *)
(* API requests that refresh silently on 401, and login, logout, logout     *)
(* everywhere and reload, composed with the auth service.                   *)
(*                                                                         *)
(* A tab runs several asynchronous functions at once; each is a thread      *)
(* <<tab, name>>, and the request slot of the auth service of that name     *)
(* serves its calls.  Every call of the browser may fail: with an answer    *)
(* that is not ok, or by throwing, before or after it was served.           *)
(***************************************************************************)
EXTENDS AuthSessions, FiniteSets

CONSTANTS
    Tab, Name,
    Orderly,    \* the user acts and reloads only while nothing runs in the tab
    Unreliable  \* calls of the browser fail

ASSUME WebAssumption ==
    /\ Req = Tab \X Name
    /\ Orderly \in BOOLEAN
    /\ Unreliable \in BOOLEAN

VARIABLES
    cookie,     \* the refresh_token cookie, 0 when there is none
    page,       \* page[x]: what tab x shows
    access,     \* access[x]: the access token in its memory
    thread,     \* thread[r]: the asynchronous function r runs
    mishap      \* what went wrong since the cookie was last written: a "call"
                \*   failed, or a "token" that was issued is not in the cookie,
                \*   or one that was given up is

webVars == <<cookie, page, access, thread, mishap>>
allVars == <<authVars, webVars>>

Job == {"none", "call", "login", "register", "restore", "logout", "logoutAll"}

\* send: waits for the gateway; cookie, present, ask, save: refreshes (or logs
\* in); denied: the JWT was refused; wait: for the refresh of another thread;
\* everywhere: logout everywhere was sent; clear: deletes the cookie.
Step == {"none", "send", "cookie", "present", "ask", "save", "denied", "wait",
         "everywhere", "clear"}

NoThread == [job |-> "none", step |-> "none", token |-> 0, retried |-> FALSE]

WebTypeOK ==
    /\ TypeOK
    /\ cookie \in Token \cup {0}
    /\ page \in [Tab -> {"login", "loading", "dashboard"}]
    /\ access \in [Tab -> {"none", "good", "stale"}]
    /\ thread \in [Req -> [job : Job, step : Step, token : Token \cup {0},
                           retried : BOOLEAN]]
    /\ mishap \subseteq {"call", "token"}

WebInit ==
    /\ Init
    /\ cookie = 0
    /\ page = [x \in Tab |-> "login"]
    /\ access = [x \in Tab |-> "none"]
    /\ thread = [r \in Req |-> NoThread]
    /\ mishap = {}

-----------------------------------------------------------------------------

Threads(x) == {r \in Req : r[1] = x}
Quiet(x) == \A r \in Threads(x) : thread[r] = NoThread
Free(r) == thread[r] = NoThread /\ At(r, "idle")
In(r, step) == thread[r].step = step

\* Bound: every token a thread may still ask for has a number.
Asking == {"send", "wait", "cookie", "present", "ask"}
Outstanding == {r \in Req : thread[r].step \in Asking /\ ~thread[r].retried}
Room == issued + Cardinality(Outstanding) < MaxToken

Run(r, job, step) ==
    thread' = [thread EXCEPT ![r] = [NoThread EXCEPT !.job = job, !.step = step]]
Then(r, step) == thread' = [thread EXCEPT ![r].step = step]
End(r) == thread' = [thread EXCEPT ![r] = NoThread]

\* The threads of a tab that share one refreshPromise.
Refreshing(x) ==
    {r \in Threads(x) : thread[r].job \notin {"login", "register", "restore"}
                          /\ thread[r].step \in {"cookie", "present", "ask", "denied", "save"}}
Waiting(r) == {r} \cup {q \in Threads(r[1]) : In(q, "wait")}

\* refreshPromise resolves: everyone who waits sends his request once more ...
Resolve(r) ==
    thread' = [q \in Req |-> IF q \in Waiting(r)
                 THEN [thread[q] EXCEPT !.step = "send", !.token = 0, !.retried = TRUE]
                 ELSE thread[q]]

\* Mutant: only the one that refreshed learns that it failed.
Reject_LeaderOnly(r) ==
    thread' = [thread EXCEPT ![r] = [NoThread EXCEPT !.job = thread[r].job, !.step = "clear"]]

\* ... or gives up and clears the session.
Reject(r) ==
    thread' = [q \in Req |-> IF q \in Waiting(r)
                 THEN [NoThread EXCEPT !.job = thread[q].job, !.step = "clear"]
                 ELSE thread[q]]

\* No new token: a page that was loading goes to the login page and leaves the
\* cookie where it is.
GiveUp(r) ==
    IF thread[r].job = "restore"
      THEN End(r) /\ page' = [page EXCEPT ![r[1]] = "login"]
      ELSE Reject(r) /\ UNCHANGED page

-----------------------------------------------------------------------------
(* What the user does.                                                     *)

Login(r) ==
    /\ page[r[1]] = "login" /\ Free(r) /\ Room
    /\ Orderly => Quiet(r[1])
    /\ \/ LoginBegin(r) /\ Run(r, "login", "ask")
       \/ RegisterBegin(r) /\ Run(r, "register", "ask")
    /\ UNCHANGED <<cookie, page, access, mishap>>

\* A widget of the dashboard fetches something.
Call(r) ==
    /\ page[r[1]] = "dashboard" /\ Free(r) /\ Room
    /\ Orderly => \A q \in Threads(r[1]) : thread[q].job \in {"none", "call"}
    /\ Run(r, "call", "send")
    /\ UNCHANGED <<authVars, cookie, page, access, mishap>>

Logout(r) ==
    /\ page[r[1]] = "dashboard" /\ Free(r) /\ Room
    /\ Orderly => Quiet(r[1])
    /\ \E job \in {"logout", "logoutAll"} \cap Ops : Run(r, job, "send")
    /\ UNCHANGED <<authVars, cookie, page, access, mishap>>

\* The memory of the tab is lost; what it sent is still served.  The first thing
\* the protected layout does is to restore the session from the cookie.
Reload(r) ==
    /\ Orderly => Quiet(r[1])
    /\ \A q \in Threads(r[1]) : At(q, "idle")
    /\ Room
    /\ page' = [page EXCEPT ![r[1]] = "loading"]
    /\ access' = [access EXCEPT ![r[1]] = "none"]
    /\ thread' = [q \in Req |-> IF q = r THEN [NoThread EXCEPT !.job = "restore", !.step = "cookie"]
                                ELSE IF q[1] = r[1] THEN NoThread ELSE thread[q]]
    /\ UNCHANGED <<authVars, cookie, mishap>>

-----------------------------------------------------------------------------
(* apiRequest.                                                             *)

\* The gateway lets the request through.  Logout sends an empty refresh token:
\* the API refuses it, the error is dropped, and only the browser forgets.
Accepted(r) ==
    /\ In(r, "send")
    /\ access[r[1]] = "good"
    /\ CASE thread[r].job = "call" -> End(r) /\ UNCHANGED authVars
         [] thread[r].job = "logout" -> Then(r, "clear") /\ UNCHANGED authVars
         [] thread[r].job = "logoutAll" -> Then(r, "everywhere") /\ LogoutAllBegin(r)
    /\ UNCHANGED <<cookie, page, access, mishap>>

\* Mutant: every request refreshes for itself.
Unauthorized_EachForItself(r) ==
    /\ In(r, "send")
    /\ access[r[1]] # "good"
    /\ IF ~thread[r].retried THEN Then(r, "cookie")
       ELSE IF thread[r].job = "logout" THEN Then(r, "clear")
       ELSE End(r)
    /\ UNCHANGED <<authVars, cookie, page, access, mishap>>

\* 401: once, refresh or wait for the refresh that is under way; the second time
\* it is an error, which logout drops.
Unauthorized(r) ==
    /\ In(r, "send")
    /\ access[r[1]] # "good"
    /\ IF ~thread[r].retried THEN Then(r, IF Refreshing(r[1]) = {} THEN "cookie" ELSE "wait")
       ELSE IF thread[r].job = "logout" THEN Then(r, "clear")
       ELSE End(r)
    /\ UNCHANGED <<authVars, cookie, page, access, mishap>>

\* The request fails without a 401: what the service did with it, if anything,
\* shows in LoggedOutEverywhere.
SendFails(r) ==
    /\ Unreliable
    /\ In(r, "send")
    /\ IF thread[r].job = "logout" THEN Then(r, "clear") ELSE End(r)
    /\ UNCHANGED <<authVars, cookie, page, access, mishap>>

-----------------------------------------------------------------------------
(* tryRefresh and initAuth.                                                *)

\* An answer that is not ok is no token.  In tryRefresh, a throw is none either;
\* in initAuth nobody catches it and the page stays as it is.
ReadCookie(r) ==
    /\ In(r, "cookie")
    /\ \/ /\ cookie # 0
          /\ thread' = [thread EXCEPT ![r].step = "present", ![r].token = cookie]
          /\ UNCHANGED <<page, mishap>>
       \/ cookie = 0 /\ GiveUp(r) /\ UNCHANGED mishap
       \/ Unreliable /\ GiveUp(r) /\ mishap' = mishap \cup {"call"}
       \/ /\ Unreliable /\ thread[r].job = "restore"
          /\ End(r) /\ mishap' = mishap \cup {"call"} /\ UNCHANGED page
    /\ UNCHANGED <<authVars, cookie, access>>

\* 401, or an answer or a failure that never came to the auth service: 429, 5xx.
PresentToken(r) ==
    /\ In(r, "present")
    /\ \/ /\ thread[r].token > expired
          /\ RefreshBegin(r) /\ req'[r].token = thread[r].token /\ Then(r, "ask")
          /\ UNCHANGED mishap
       \/ /\ thread[r].token <= expired
          /\ UNCHANGED <<authVars, mishap>> /\ Then(r, "denied")
       \/ /\ Unreliable
          /\ UNCHANGED authVars /\ Then(r, "denied") /\ mishap' = mishap \cup {"call"}
    /\ UNCHANGED <<cookie, page, access>>

\* The auth service works; a token it hands out is on its way to the tab.
Serve(r) ==
    /\ Proceed(r) \/ Stop(r)
    /\ thread' = IF delivered' = delivered \/ ~In(r, "ask") THEN thread
                 ELSE [thread EXCEPT ![r].token = CHOOSE t \in delivered' : t \notin delivered]
    /\ UNCHANGED <<cookie, page, access, mishap>>

Granted(r) ==
    /\ In(r, "ask") /\ At(r, "idle") /\ req[r].answer = "ok"
    /\ Then(r, "save")
    /\ access' = [access EXCEPT ![r[1]] = "good"]
    /\ UNCHANGED <<authVars, cookie, page, mishap>>

\* What the browser is left without when a call ends with this answer.
Loss(answer) ==
    CASE answer \in {"duplicate", "revoked", "unrevoked"} -> {}
      [] answer = "failed" -> {"call"}
      [] OTHER -> {"token"}

\* Anything but an ok is a failure, also one that got lost.  (Bound: a call is
\* given up only when the service is done with it.)
Refused(r) ==
    /\ \/ In(r, "denied") /\ UNCHANGED mishap
       \/ /\ In(r, "ask") /\ At(r, "idle")
          /\ Unreliable \/ req[r].answer # "ok"
          /\ mishap' = mishap \cup Loss(req[r].answer)
    /\ IF thread[r].job \in {"login", "register"} THEN End(r) /\ UNCHANGED page
       ELSE GiveUp(r)
    /\ UNCHANGED <<authVars, cookie, access>>

\* logoutAll shows the error and stays signed in.
LoggedOutEverywhere(r) ==
    /\ In(r, "everywhere") /\ At(r, "idle")
    /\ \/ req[r].answer = "ok" /\ Then(r, "clear") /\ UNCHANGED mishap
       \/ /\ Unreliable \/ req[r].answer # "ok"
          /\ End(r) /\ mishap' = mishap \cup {"token"}
    /\ UNCHANGED <<authVars, cookie, page, access>>

\* How a call of the session route ended: it was carried out or not, it threw or
\* not.  Nobody looks at the status of an answer.
RouteCall(done, threw) == Unreliable \/ (done /\ ~threw)
WentWrong(done, threw) ==
    (IF done THEN {} ELSE {"token"}) \cup (IF threw THEN {"call"} ELSE {})
\* A session that is about to be cleared is, whatever is in the cookie.
Written(done, threw) ==
    mishap' = (IF done /\ \A q \in Req : ~In(q, "clear") THEN {} ELSE mishap)
                \cup WentWrong(done, threw)

\* Mutant: the rotated token is not stored.
SaveCookie_OnlyAtLogin(r) ==
    /\ In(r, "save")
    /\ cookie' = IF thread[r].job \in {"login", "register"} THEN thread[r].token ELSE cookie
    /\ Written(TRUE, FALSE)
    /\ IF thread[r].job \in {"login", "register", "restore"}
         THEN End(r) /\ page' = [page EXCEPT ![r[1]] = "dashboard"]
         ELSE Resolve(r) /\ UNCHANGED page
    /\ UNCHANGED <<authVars, access>>

\* The access token stays in memory, even when the form shows an error or the
\* session is not restored.
SaveCookie(r) ==
    /\ In(r, "save")
    /\ \E done, threw \in BOOLEAN :
         /\ RouteCall(done, threw)
         /\ Written(done, threw)
         /\ cookie' = IF done THEN thread[r].token ELSE cookie
         /\ IF threw THEN IF thread[r].job \in {"login", "register"} THEN End(r) /\ UNCHANGED page
                          ELSE GiveUp(r)
            ELSE IF thread[r].job \in {"login", "register", "restore"}
              THEN End(r) /\ page' = [page EXCEPT ![r[1]] = "dashboard"]
            ELSE Resolve(r) /\ UNCHANGED page
    /\ UNCHANGED <<authVars, access>>

\* clearAuth, then the login page; if the session was lost, the page is loaded
\* anew and takes the other threads of the tab with it.  A throw leaves the page
\* where it is, without its access token.
ClearAuth(r) ==
    /\ In(r, "clear")
    /\ access' = [access EXCEPT ![r[1]] = "none"]
    /\ \E done, threw \in BOOLEAN :
         /\ RouteCall(done, threw)
         /\ cookie' = IF done THEN 0 ELSE cookie
         /\ IF threw THEN End(r) /\ UNCHANGED page
            ELSE /\ page' = [page EXCEPT ![r[1]] = "login"]
                 /\ thread' = [q \in Req |-> IF q = r \/ (q[1] = r[1] /\ In(q, "clear"))
                                             THEN NoThread ELSE thread[q]]
         /\ mishap' = (IF done /\ ~threw THEN {} ELSE mishap) \cup WentWrong(done, threw)
    /\ UNCHANGED authVars

AccessExpires(x) ==
    /\ access[x] = "good"
    /\ access' = [access EXCEPT ![x] = "stale"]
    /\ UNCHANGED <<authVars, cookie, page, thread, mishap>>

RunOn(r) ==
    \/ Accepted(r) \/ Unauthorized(r) \/ SendFails(r)
    \/ ReadCookie(r) \/ PresentToken(r)
    \/ Serve(r) \/ Granted(r) \/ Refused(r) \/ LoggedOutEverywhere(r)
    \/ SaveCookie(r) \/ ClearAuth(r)

WebNext ==
    \/ \E r \in Req : Login(r) \/ Call(r) \/ Logout(r) \/ Reload(r)
    \/ \E r \in Req : RunOn(r)
    \/ \E x \in Tab : AccessExpires(x)
    \/ (Age \/ Sweep) /\ UNCHANGED webVars

\* Asynchronous functions and the auth service run on.
WebSpec == WebInit /\ [][WebNext]_allVars /\ \A r \in Req : WF_allVars(RunOn(r))

-----------------------------------------------------------------------------
(* Properties.                                                             *)

\* A tab is sent to the login page only because the user logged out, the cookie
\* is gone or expired, another tab was at work, or a call the tab made for its
\* refresh failed: requests of one tab that get a 401 together never use up the
\* token one after the other (refreshPromise).
KeptSignedIn ==
    [][\A x \in Tab :
         page[x] # "login" /\ page'[x] = "login"
           => \/ cookie <= expired
              \/ \E r \in Req : thread[r].job \in {"logout", "logoutAll"}
              \/ \E r \in Req \ Threads(x) : thread[r] # NoThread
              \/ mishap \cup mishap' # {}]_allVars

\* While nothing is under way, the cookie holds a token the auth service
\* accepts, or one that expired, unless the answer of a refresh or of logout
\* everywhere was lost or the session route failed since it was last written
\* (auth.ts:43 does not look at the answer): no refused, failed or repeated
\* request parts browser and Redis.
CookieIsAccepted ==
    (\A x \in Tab : Quiet(x)) /\ (\A r \in Req : At(r, "idle"))
      => cookie <= expired \/ Stored(cookie) \/ "token" \in mishap

\* Nobody waits for a refresh for ever.
ThreadEnds == \A r \in Req : thread[r] # NoThread ~> thread[r] = NoThread

\* "Logout invalidates a single session by deleting its refresh token from
\* Redis" (logout.go:12): the token is not accepted once the user logged out.
LogoutRevokes ==
    [][\A r \in Req : thread[r].job = "logout" /\ In(r, "clear") /\ thread'[r] = NoThread
         => ~Stored(cookie)]_allVars

=============================================================================
