-------------------------- MODULE WebSessionProofs --------------------------
(***************************************************************************)
(* Proofs about WebSession.  Whatever the tabs do and whatever the browser  *)
(* loses, the auth service is used as its specification says, so that what  *)
(* is proved of it holds here.  For one tab whose user acts only while       *)
(* nothing runs in it, the cookie is one the auth service accepts and       *)
(* requests that get a 401 together never cost the user the session, unless *)
(* one of the failures the model records (mishap) happened.  Redis, the     *)
(* auth service and the calls of the browser may all fail (Faulty,          *)
(* Unreliable), and refreshes may overlap as far as the auth service is     *)
(* concerned (Racing): that they do not is what the tab sees to.            *)
(***************************************************************************)
EXTENDS WebSession, AuthSessionsProofs

USE AuthAssumption DEF Stage, Operation, Token, Job, Step

Thread == [job : Job, step : Step, token : Token \cup {0}, retried : BOOLEAN]

Busy == {"cookie", "present", "ask", "denied", "save", "everywhere"}

Entering == {"login", "register"}
Leaving == {"logout", "logoutAll"}

\* Which steps a job has.
Form(r) ==
    LET w == thread[r] IN
    /\ w.job = "none" \/ w.step = "none" => w = NoThread
    /\ w.job \in Entering => w.step \in {"ask", "save"}
    /\ w.job = "restore" => w.step \in Busy \ {"everywhere"}
    /\ w.step = "everywhere" => w.job = "logoutAll"

WebKept == Kept /\ WebTypeOK /\ \A r \in Req : Form(r)

\* The other threads stay where they are; r goes on to another step.
Only(r) == \A q \in Req \ {r} : thread'[q] = thread[q]
Moves(r, step) == thread'[r].job = thread[r].job /\ thread'[r].step = step

\* What the types say.
LEMMA WebTypes ==
    ASSUME WebKept
    PROVE  /\ thread \in [Req -> Thread] /\ req \in [Req -> Request]
           /\ expired \in Nat /\ swept \in Nat /\ swept <= expired
           /\ issued \in Nat /\ issued <= MaxToken
           /\ live \subseteq 1..issued /\ delivered \subseteq 1..issued
           /\ cookie \in Token \cup {0} /\ cookie \in Nat
           /\ mishap \subseteq {"call", "token"}
           /\ page \in [Tab -> {"login", "loading", "dashboard"}]
           /\ access \in [Tab -> {"none", "good", "stale"}]
           /\ \A r \in Req : /\ Shape(r) /\ Form(r) /\ r[1] \in Tab
                              /\ thread[r] \in Thread /\ thread[r].token \in Nat
<1>1. thread \in [Req -> Thread]
  BY DEF WebKept, WebTypeOK, Thread
<1>2. \A r \in Req : thread[r] \in Thread /\ thread[r].token \in Nat
  BY <1>1 DEF Thread
<1>3. \A r \in Req : r[1] \in Tab
  BY WebAssumption
<1> QED
  BY <1>1, <1>2, <1>3 DEF WebKept, WebTypeOK, Kept, TypeOK

-----------------------------------------------------------------------------
(* The forms of the steps of a thread.                                     *)

\* A thread goes on.
LEMMA ThenForm ==
    ASSUME NEW r \in Req, NEW step \in Step, thread \in [Req -> Thread], Then(r, step)
    PROVE  /\ thread' \in [Req -> Thread] /\ \A q \in Req \ {r} : thread'[q] = thread[q]
           /\ thread'[r].job = thread[r].job /\ thread'[r].step = step
           /\ thread'[r].token = thread[r].token
<1>1. thread[r] \in Thread /\ thread' = [thread EXCEPT ![r] = [thread[r] EXCEPT !.step = step]]
  BY DEF Then
<1>2. /\ [thread[r] EXCEPT !.step = step] \in Thread
      /\ [thread[r] EXCEPT !.step = step].job = thread[r].job
      /\ [thread[r] EXCEPT !.step = step].step = step
      /\ [thread[r] EXCEPT !.step = step].token = thread[r].token
  BY <1>1 DEF Thread
<1> QED
  BY <1>1, <1>2

\* A thread begins.
LEMMA RunForm ==
    ASSUME NEW r \in Req, NEW job \in Job, NEW step \in Step, thread \in [Req -> Thread],
           Run(r, job, step)
    PROVE  /\ thread' \in [Req -> Thread] /\ \A q \in Req \ {r} : thread'[q] = thread[q]
           /\ thread'[r].job = job /\ thread'[r].step = step
<1>1. thread' = [thread EXCEPT ![r] = [NoThread EXCEPT !.job = job, !.step = step]]
  BY DEF Run
<1>2. /\ [NoThread EXCEPT !.job = job, !.step = step] \in Thread
      /\ [NoThread EXCEPT !.job = job, !.step = step].job = job
      /\ [NoThread EXCEPT !.job = job, !.step = step].step = step
  BY DEF Thread, NoThread
<1> QED
  BY <1>1, <1>2

\* A thread ends.
LEMMA EndForm ==
    ASSUME NEW r \in Req, thread \in [Req -> Thread], End(r)
    PROVE  /\ thread' \in [Req -> Thread] /\ \A q \in Req \ {r} : thread'[q] = thread[q]
           /\ thread'[r] = NoThread
<1>1. NoThread \in Thread
  BY DEF NoThread, Thread
<1> QED
  BY <1>1 DEF End

\* The refresh brought a token: whoever waited sends again, the others go on.
LEMMA ResolveForm ==
    ASSUME NEW r \in Req, thread \in [Req -> Thread], Resolve(r)
    PROVE  /\ thread' \in [Req -> Thread] /\ thread'[r].step = "send"
           /\ \A q \in Req :
                /\ thread'[q].job = thread[q].job
                /\ \/ thread'[q] = thread[q]
                   \/ /\ thread'[q].step = "send"
                      /\ q = r \/ In(q, "wait")
<1> DEFINE again(q) == [thread[q] EXCEPT !.step = "send", !.token = 0, !.retried = TRUE]
<1>1. thread' = [q \in Req |-> IF q \in Waiting(r) THEN again(q) ELSE thread[q]]
  BY DEF Resolve
<1>2. ASSUME NEW q \in Req
      PROVE  /\ again(q) \in Thread /\ again(q).job = thread[q].job
             /\ again(q).step = "send"
  BY DEF Thread
<1>3. r \in Waiting(r) /\ \A q \in Req : q \in Waiting(r) => q = r \/ In(q, "wait")
  BY DEF Waiting, Threads
<1> HIDE DEF again
<1> QED
  BY <1>1, <1>2, <1>3

\* It did not: whoever waited clears the session.
LEMMA RejectForm ==
    ASSUME NEW r \in Req, thread \in [Req -> Thread], Reject(r)
    PROVE  /\ thread' \in [Req -> Thread] /\ thread'[r].step = "clear"
           /\ \A q \in Req :
                /\ thread'[q].job = thread[q].job
                /\ \/ thread'[q] = thread[q]
                   \/ /\ thread'[q].step = "clear"
                      /\ q = r \/ In(q, "wait")
<1> DEFINE over(q) == [NoThread EXCEPT !.job = thread[q].job, !.step = "clear"]
<1>1. thread' = [q \in Req |-> IF q \in Waiting(r) THEN over(q) ELSE thread[q]]
  BY DEF Reject
<1>2. ASSUME NEW q \in Req
      PROVE  /\ over(q) \in Thread /\ over(q).job = thread[q].job /\ over(q).step = "clear"
  BY DEF Thread, NoThread
<1>3. r \in Waiting(r) /\ \A q \in Req : q \in Waiting(r) => q = r \/ In(q, "wait")
  BY DEF Waiting, Threads
<1> HIDE DEF over
<1> QED
  BY <1>1, <1>2, <1>3

-----------------------------------------------------------------------------
(* What each action does to the threads.                                   *)

\* A request is answered, or fails.
LEMMA SendEffect ==
    ASSUME WebKept, NEW r \in Req, Accepted(r) \/ Unauthorized(r) \/ SendFails(r)
    PROVE  /\ thread[r].step = "send" /\ thread[r].job \in {"call"} \cup Leaving
           /\ UNCHANGED <<cookie, page, access, mishap>>
           /\ thread' \in [Req -> Thread] /\ Only(r)
           /\ \/ thread'[r] = NoThread /\ UNCHANGED authVars
              \/ Moves(r, "wait") /\ UNCHANGED authVars
              \/ Moves(r, "clear") /\ thread[r].job = "logout" /\ UNCHANGED authVars
              \/ Moves(r, "cookie") /\ Refreshing(r[1]) = {} /\ UNCHANGED authVars
              \/ Moves(r, "everywhere") /\ thread[r].job = "logoutAll" /\ LogoutAllBegin(r)
<1>0. thread[r].step = "send" /\ thread[r] \in Thread /\ Form(r) /\ thread \in [Req -> Thread]
  BY WebTypes DEF Accepted, Unauthorized, SendFails, In
<1>1. thread[r].job \in {"call"} \cup Leaving
  BY <1>0 DEF Form, NoThread, Thread, Entering, Leaving, Busy
<1>2. /\ UNCHANGED <<cookie, page, access, mishap>>
      /\ \/ End(r) /\ UNCHANGED authVars
         \/ Then(r, "wait") /\ UNCHANGED authVars
         \/ Then(r, "clear") /\ thread[r].job = "logout" /\ UNCHANGED authVars
         \/ Then(r, "cookie") /\ Refreshing(r[1]) = {} /\ UNCHANGED authVars
         \/ Then(r, "everywhere") /\ thread[r].job = "logoutAll" /\ LogoutAllBegin(r)
  BY <1>1 DEF Accepted, Unauthorized, SendFails, Leaving
<1>3. ASSUME NEW step \in Step, Then(r, step)
      PROVE  thread' \in [Req -> Thread] /\ Only(r) /\ Moves(r, step)
  BY <1>0, <1>3, ThenForm DEF Only, Moves
<1>4. End(r) => thread' \in [Req -> Thread] /\ Only(r) /\ thread'[r] = NoThread
  BY <1>0, EndForm DEF Only
<1>5. {"wait", "clear", "cookie", "everywhere"} \subseteq Step
  OBVIOUS
<1> HIDE DEF Step
<1> QED
  BY <1>0, <1>1, <1>2, <1>3, <1>4, <1>5

\* A refresh that brings no token.
LEMMA GiveUpEffect ==
    ASSUME WebKept, NEW r \in Req, GiveUp(r), thread[r].step # "none"
    PROVE  /\ thread' \in [Req -> Thread]
           /\ page' \in [Tab -> {"login", "loading", "dashboard"}]
           /\ \A q \in Req \ {r} :
                \/ thread'[q] = thread[q]
                \/ /\ thread[q].step = "wait"
                   /\ thread'[q].step = "clear" /\ thread'[q].job = thread[q].job
           /\ \/ thread'[r] = NoThread /\ thread[r].job = "restore"
              \/ Moves(r, "clear") /\ thread[r].job # "restore"
<1>0. /\ thread \in [Req -> Thread] /\ r[1] \in Tab
      /\ page \in [Tab -> {"login", "loading", "dashboard"}]
  BY WebTypes
<1>1. CASE thread[r].job = "restore"
  <2>1. End(r) /\ page' = [page EXCEPT ![r[1]] = "login"]
    BY <1>1 DEF GiveUp
  <2>2. page' \in [Tab -> {"login", "loading", "dashboard"}]
    BY <1>0, <2>1
  <2> QED
    BY <1>0, <1>1, <2>1, <2>2, EndForm
<1>2. CASE thread[r].job # "restore"
  <2>1. Reject(r) /\ page' = page
    BY <1>2 DEF GiveUp
  <2> QED
    BY <1>0, <1>2, <2>1, RejectForm DEF In, Moves
<1> QED
  BY <1>1, <1>2

\* The cookie is read.
LEMMA ReadEffect ==
    ASSUME WebKept, NEW r \in Req, ReadCookie(r)
    PROVE  /\ thread[r].step = "cookie" /\ UNCHANGED <<authVars, cookie, access>>
           /\ \/ /\ Only(r) /\ Moves(r, "present") /\ thread'[r].token = cookie
                 /\ thread' \in [Req -> Thread] /\ UNCHANGED <<page, mishap>>
              \/ GiveUp(r) /\ cookie = 0 /\ UNCHANGED mishap
              \/ GiveUp(r) /\ mishap' = mishap \cup {"call"}
              \/ /\ Only(r) /\ thread'[r] = NoThread /\ thread[r].job = "restore"
                 /\ thread' \in [Req -> Thread]
                 /\ mishap' = mishap \cup {"call"} /\ UNCHANGED page
<1>0. /\ thread \in [Req -> Thread] /\ thread[r] \in Thread /\ cookie \in Token \cup {0}
      /\ thread[r].step = "cookie"
  BY WebTypes DEF ReadCookie, In
<1>1. UNCHANGED <<authVars, cookie, access>>
  BY DEF ReadCookie
<1>2. ASSUME thread' = [thread EXCEPT ![r].step = "present", ![r].token = cookie]
      PROVE  /\ Only(r) /\ Moves(r, "present") /\ thread'[r].token = cookie
             /\ thread' \in [Req -> Thread]
  <2> DEFINE w == [thread[r] EXCEPT !.step = "present", !.token = cookie]
  <2>1. /\ w \in Thread /\ w.job = thread[r].job
        /\ w.step = "present" /\ w.token = cookie
    BY <1>0 DEF Thread
  <2>2. thread' = [thread EXCEPT ![r] = w]
    BY <1>2
  <2> HIDE DEF w
  <2> QED
    BY <1>0, <2>1, <2>2 DEF Only, Moves
<1>3. End(r) => Only(r) /\ thread'[r] = NoThread /\ thread' \in [Req -> Thread]
  BY <1>0, EndForm DEF Only
<1> QED
  BY <1>0, <1>1, <1>2, <1>3 DEF ReadCookie

\* The token in it is presented.
LEMMA PresentEffect ==
    ASSUME WebKept, NEW r \in Req, PresentToken(r)
    PROVE  /\ thread[r].step = "present" /\ UNCHANGED <<cookie, page, access>>
           /\ Only(r) /\ thread' \in [Req -> Thread]
           /\ \/ /\ Moves(r, "ask") /\ UNCHANGED mishap /\ RefreshBegin(r)
                 /\ req'[r].token = thread[r].token /\ thread[r].token > expired
              \/ /\ Moves(r, "denied") /\ UNCHANGED <<authVars, mishap>>
                 /\ thread[r].token <= expired
              \/ /\ Moves(r, "denied") /\ UNCHANGED authVars
                 /\ mishap' = mishap \cup {"call"}
<1>0. thread \in [Req -> Thread] /\ thread[r].step = "present"
  BY WebTypes DEF PresentToken, In
<1>1. ASSUME NEW step \in {"ask", "denied"}, Then(r, step)
      PROVE  Only(r) /\ Moves(r, step) /\ thread' \in [Req -> Thread]
  <2>1. step \in Step
    OBVIOUS
  <2> QED
    BY <1>0, <1>1, <2>1, ThenForm DEF Only, Moves
<1> QED
  BY <1>0, <1>1 DEF PresentToken

\* The auth service answers.
LEMMA GrantedEffect ==
    ASSUME WebKept, NEW r \in Req, Granted(r)
    PROVE  /\ thread[r].step = "ask" /\ req[r].op = "none" /\ req[r].answer = "ok"
           /\ UNCHANGED <<authVars, cookie, page, mishap>>
           /\ access' \in [Tab -> {"none", "good", "stale"}]
           /\ Only(r) /\ thread' \in [Req -> Thread] /\ Moves(r, "save")
           /\ thread'[r].token = thread[r].token
<1>0. /\ thread \in [Req -> Thread] /\ Shape(r)
      /\ access \in [Tab -> {"none", "good", "stale"}]
  BY WebTypes
<1>1. /\ thread[r].step = "ask" /\ req[r].stage = "idle" /\ req[r].answer = "ok"
      /\ UNCHANGED <<authVars, cookie, page, mishap>> /\ Then(r, "save")
      /\ access' = [access EXCEPT ![r[1]] = "good"]
  BY DEF Granted, In, At
<1>2. "save" \in Step
  OBVIOUS
<1> QED
  BY <1>0, <1>1, <1>2, ThenForm DEF Only, Moves, Shape

\* Or refuses.
LEMMA RefusedEffect ==
    ASSUME WebKept, NEW r \in Req, Refused(r)
    PROVE  /\ UNCHANGED <<authVars, cookie, access>>
           /\ \/ thread[r].step = "denied" /\ UNCHANGED mishap
              \/ /\ thread[r].step = "ask" /\ req[r].op = "none"
                 /\ mishap' = mishap \cup Loss(req[r].answer)
           /\ \/ thread[r].job \notin Entering /\ GiveUp(r)
              \/ /\ thread[r].job \in Entering
                 /\ thread' \in [Req -> Thread] /\ Only(r) /\ thread'[r] = NoThread
                 /\ UNCHANGED page
<1>0. thread \in [Req -> Thread] /\ Shape(r)
  BY WebTypes
<1>1. End(r) => thread' \in [Req -> Thread] /\ Only(r) /\ thread'[r] = NoThread
  BY <1>0, EndForm DEF Only
<1>2. At(r, "idle") => req[r].op = "none"
  BY <1>0 DEF At, Shape
<1> QED
  BY <1>1, <1>2 DEF Refused, In, Entering

\* What a refusal adds to what went wrong.
LEMMA LossType == \A answer : Loss(answer) \subseteq {"call", "token"}
BY DEF Loss

\* Logout everywhere is answered.
LEMMA EverywhereEffect ==
    ASSUME WebKept, NEW r \in Req, LoggedOutEverywhere(r)
    PROVE  /\ thread[r].step = "everywhere" /\ req[r].op = "none"
           /\ UNCHANGED <<authVars, cookie, page, access>>
           /\ thread' \in [Req -> Thread] /\ Only(r)
           /\ \/ Moves(r, "clear") /\ UNCHANGED mishap
              \/ thread'[r] = NoThread /\ mishap' = mishap \cup {"token"}
<1>0. thread \in [Req -> Thread] /\ Shape(r)
  BY WebTypes
<1>1. Then(r, "clear") => thread' \in [Req -> Thread] /\ Only(r) /\ Moves(r, "clear")
  <2>1. "clear" \in Step
    OBVIOUS
  <2> QED
    BY <1>0, <2>1, ThenForm DEF Only, Moves
<1>2. End(r) => thread' \in [Req -> Thread] /\ Only(r) /\ thread'[r] = NoThread
  BY <1>0, EndForm DEF Only
<1>3. At(r, "idle") => req[r].op = "none"
  BY <1>0 DEF At, Shape
<1> QED
  BY <1>1, <1>2, <1>3 DEF LoggedOutEverywhere, In

\* The session route is called for a new token.  done: the cookie is written;
\* threw: the thread sees a failure.
Saving(r, done, threw) ==
    /\ cookie' = IF done THEN thread[r].token ELSE cookie
    /\ mishap' = (IF done /\ \A q \in Req : thread[q].step # "clear" THEN {} ELSE mishap)
                   \cup (IF done THEN {} ELSE {"token"})
                   \cup (IF threw THEN {"call"} ELSE {})
    /\ \/ threw /\ thread[r].job \notin Entering /\ GiveUp(r)
       \/ /\ thread' \in [Req -> Thread] /\ Only(r) /\ thread'[r] = NoThread
          /\ (page' = page \/ page' = [page EXCEPT ![r[1]] = "dashboard"])
          /\ thread[r].job \in {"login", "register", "restore"}
       \/ /\ thread' \in [Req -> Thread] /\ UNCHANGED page /\ Moves(r, "send")
          /\ \A q \in Req \ {r} :
               \/ thread'[q] = thread[q]
               \/ /\ thread[q].step = "wait"
                  /\ thread'[q].step = "send" /\ thread'[q].job = thread[q].job
          /\ thread[r].job \notin {"login", "register", "restore"}

\* That is what SaveCookie does.
LEMMA SaveEffect ==
    ASSUME WebKept, NEW r \in Req, SaveCookie(r)
    PROVE  /\ thread[r].step = "save" /\ UNCHANGED <<authVars, access>>
           /\ \E done, threw \in BOOLEAN : Saving(r, done, threw)
<1>0. thread \in [Req -> Thread] /\ thread[r].step = "save"
  BY WebTypes DEF SaveCookie, In
<1>1. UNCHANGED <<authVars, access>>
  BY DEF SaveCookie
<1>2. PICK done, threw \in BOOLEAN :
        /\ Written(done, threw)
        /\ cookie' = IF done THEN thread[r].token ELSE cookie
        /\ IF threw THEN IF thread[r].job \in {"login", "register"} THEN End(r) /\ UNCHANGED page
                         ELSE GiveUp(r)
           ELSE IF thread[r].job \in {"login", "register", "restore"}
             THEN End(r) /\ page' = [page EXCEPT ![r[1]] = "dashboard"]
           ELSE Resolve(r) /\ UNCHANGED page
  BY DEF SaveCookie
<1>3. mishap' = (IF done /\ \A q \in Req : thread[q].step # "clear" THEN {} ELSE mishap)
                  \cup (IF done THEN {} ELSE {"token"})
                  \cup (IF threw THEN {"call"} ELSE {})
  BY <1>2, Zenon DEF Written, WentWrong, In
<1>4. End(r) => thread' \in [Req -> Thread] /\ Only(r) /\ thread'[r] = NoThread
  BY <1>0, EndForm DEF Only
<1>5. Resolve(r) => /\ thread' \in [Req -> Thread] /\ Moves(r, "send")
                    /\ \A q \in Req \ {r} :
                         \/ thread'[q] = thread[q]
                         \/ /\ thread[q].step = "wait"
                            /\ thread'[q].step = "send" /\ thread'[q].job = thread[q].job
  BY <1>0, ResolveForm DEF Moves, In
<1>6. \/ threw /\ thread[r].job \notin Entering /\ GiveUp(r)
      \/ /\ End(r) /\ (page' = page \/ page' = [page EXCEPT ![r[1]] = "dashboard"])
         /\ thread[r].job \in {"login", "register", "restore"}
      \/ Resolve(r) /\ UNCHANGED page /\ thread[r].job \notin {"login", "register", "restore"}
  BY <1>2 DEF Entering
<1>7. Saving(r, done, threw)
  <2>1. CASE threw /\ thread[r].job \notin Entering /\ GiveUp(r)
    BY <1>2, <1>3, <2>1, Zenon DEF Saving
  <2>2. CASE /\ End(r) /\ (page' = page \/ page' = [page EXCEPT ![r[1]] = "dashboard"])
             /\ thread[r].job \in {"login", "register", "restore"}
    <3>1. thread' \in [Req -> Thread] /\ Only(r) /\ thread'[r] = NoThread
      BY <1>4, <2>2
    <3>2. page' = page \/ page' = [page EXCEPT ![r[1]] = "dashboard"]
      BY <2>2
    <3> QED
      BY <1>2, <1>3, <2>2, <3>1, <3>2, Zenon DEF Saving
  <2>3. CASE Resolve(r) /\ UNCHANGED page /\ thread[r].job \notin {"login", "register", "restore"}
    <3>1. UNCHANGED page /\ thread[r].job \notin {"login", "register", "restore"}
      BY <2>3
    <3>2. /\ thread' \in [Req -> Thread] /\ Moves(r, "send")
          /\ \A q \in Req \ {r} :
               \/ thread'[q] = thread[q]
               \/ /\ thread[q].step = "wait"
                  /\ thread'[q].step = "send" /\ thread'[q].job = thread[q].job
      BY <1>5, <2>3
    <3> QED
      BY <1>2, <1>3, <3>1, <3>2, Zenon DEF Saving
  <2> QED
    BY <1>6, <2>1, <2>2, <2>3
<1> QED
  BY <1>0, <1>1, <1>7, Zenon

\* It is called to delete the cookie.
Clearing(r, done, threw) ==
    /\ cookie' = IF done THEN 0 ELSE cookie
    /\ mishap' = (IF done /\ ~threw THEN {} ELSE mishap)
                   \cup (IF done THEN {} ELSE {"token"})
                   \cup (IF threw THEN {"call"} ELSE {})
    /\ threw \/ \A q \in Threads(r[1]) : thread'[q].step # "clear"

\* That is what ClearAuth does.
LEMMA ClearEffect ==
    ASSUME WebKept, NEW r \in Req, ClearAuth(r)
    PROVE  /\ thread[r].step = "clear" /\ UNCHANGED authVars
           /\ access' \in [Tab -> {"none", "good", "stale"}]
           /\ page' \in [Tab -> {"login", "loading", "dashboard"}]
           /\ thread' \in [Req -> Thread] /\ thread'[r] = NoThread
           /\ \A q \in Req \ {r} :
                \/ thread'[q] = thread[q]
                \/ thread'[q] = NoThread /\ thread[q].step = "clear"
           /\ \E done, threw \in BOOLEAN : Clearing(r, done, threw)
<1>0. /\ thread \in [Req -> Thread] /\ thread[r].step = "clear" /\ r[1] \in Tab
      /\ page \in [Tab -> {"login", "loading", "dashboard"}]
      /\ access \in [Tab -> {"none", "good", "stale"}]
  BY WebTypes DEF ClearAuth, In
<1>1. UNCHANGED authVars /\ access' \in [Tab -> {"none", "good", "stale"}]
  BY <1>0 DEF ClearAuth
<1>n. NoThread \in Thread /\ NoThread.step # "clear"
  BY DEF NoThread, Thread
<1>2. PICK done, threw \in BOOLEAN :
        /\ cookie' = IF done THEN 0 ELSE cookie
        /\ IF threw THEN End(r) /\ UNCHANGED page
           ELSE /\ page' = [page EXCEPT ![r[1]] = "login"]
                /\ thread' = [q \in Req |-> IF q = r \/ (q[1] = r[1] /\ In(q, "clear"))
                                            THEN NoThread ELSE thread[q]]
        /\ mishap' = (IF done /\ ~threw THEN {} ELSE mishap) \cup WentWrong(done, threw)
  BY DEF ClearAuth
<1>3. mishap' = (IF done /\ ~threw THEN {} ELSE mishap)
                  \cup (IF done THEN {} ELSE {"token"}) \cup (IF threw THEN {"call"} ELSE {})
  BY <1>2, Zenon DEF WentWrong
<1>4. CASE threw
  <2>1. End(r) /\ page' = page
    BY <1>2, <1>4
  <2>2. Clearing(r, done, threw)
    BY <1>2, <1>3, <1>4, Zenon DEF Clearing
  <2>3. \E d, w \in BOOLEAN : Clearing(r, d, w)
    BY <2>2
  <2>4. /\ thread' \in [Req -> Thread] /\ thread'[r] = NoThread
        /\ \A q \in Req \ {r} : thread'[q] = thread[q]
    BY <1>0, <2>1, EndForm
  <2>5. page' \in [Tab -> {"login", "loading", "dashboard"}]
    BY <1>0, <2>1
  <2> QED
    BY <1>0, <1>1, <2>3, <2>4, <2>5, Zenon
<1>5. CASE ~threw
  <2>1. /\ page' = [page EXCEPT ![r[1]] = "login"]
        /\ thread' = [q \in Req |-> IF q = r \/ (q[1] = r[1] /\ thread[q].step = "clear")
                                    THEN NoThread ELSE thread[q]]
    BY <1>2, <1>5 DEF In
  <2>2. /\ thread' \in [Req -> Thread] /\ thread'[r] = NoThread
        /\ \A q \in Req \ {r} :
             \/ thread'[q] = thread[q]
             \/ thread'[q] = NoThread /\ thread[q].step = "clear"
    <3> HIDE DEF NoThread, Thread
    <3> QED
      BY <1>0, <1>n, <2>1
  <2>6. page' \in [Tab -> {"login", "loading", "dashboard"}]
    BY <1>0, <2>1
  <2>3. \A q \in Threads(r[1]) : thread'[q].step # "clear"
    BY <1>n, <2>1 DEF Threads
  <2>4. Clearing(r, done, threw)
    BY <1>2, <1>3, <2>3, Zenon DEF Clearing
  <2>5. \E d, w \in BOOLEAN : Clearing(r, d, w)
    BY <2>4
  <2> QED
    BY <1>0, <1>1, <2>2, <2>5, <2>6, Zenon
<1> QED
  BY <1>4, <1>5

\* The user begins something: a thread of its own.
LEMMA UserEffect ==
    ASSUME WebKept, NEW r \in Req, Login(r) \/ Call(r) \/ Logout(r)
    PROVE  /\ thread[r] = NoThread /\ req[r].stage = "idle"
           /\ UNCHANGED <<cookie, page, access, mishap>>
           /\ thread' \in [Req -> Thread] /\ Only(r)
           /\ \/ /\ LoginBegin(r) \/ RegisterBegin(r)
                 /\ thread'[r].job \in Entering /\ thread'[r].step = "ask"
              \/ Call(r) /\ UNCHANGED authVars
                   /\ thread'[r].job = "call" /\ thread'[r].step = "send"
              \/ Logout(r) /\ UNCHANGED authVars
                   /\ thread'[r].job \in Leaving /\ thread'[r].step = "send"
<1>0. thread \in [Req -> Thread]
  BY WebTypes
<1>1. ASSUME NEW job \in Job, NEW step \in Step, Run(r, job, step)
      PROVE  /\ thread' \in [Req -> Thread] /\ Only(r)
             /\ thread'[r].job = job /\ thread'[r].step = step
  BY <1>0, <1>1, RunForm DEF Only
<1>2. {"login", "register", "call", "logout", "logoutAll"} \subseteq Job /\ {"ask", "send"} \subseteq Step
  OBVIOUS
<1>3. /\ thread[r] = NoThread /\ req[r].stage = "idle"
      /\ UNCHANGED <<cookie, page, access, mishap>>
  BY DEF Login, Call, Logout, Free, At
<1> HIDE DEF Job, Step
<1>4. CASE Login(r)
  <2>1. PICK job \in Entering : Run(r, job, "ask") /\ (LoginBegin(r) \/ RegisterBegin(r))
    BY <1>4 DEF Login, Entering
  <2> QED
    BY <1>1, <1>2, <1>3, <2>1 DEF Entering
<1>5. CASE Call(r)
  BY <1>1, <1>2, <1>3, <1>5 DEF Call
<1>6. CASE Logout(r)
  <2>1. PICK job \in Leaving : Run(r, job, "send") /\ UNCHANGED authVars
    BY <1>6 DEF Logout, Leaving
  <2> QED
    BY <1>1, <1>2, <1>3, <1>6, <2>1 DEF Leaving
<1> QED
  BY <1>4, <1>5, <1>6

\* The page is loaded anew.
LEMMA ReloadEffect ==
    ASSUME WebKept, NEW r \in Req, Reload(r)
    PROVE  /\ UNCHANGED <<authVars, cookie, mishap>>
           /\ page' = [page EXCEPT ![r[1]] = "loading"]
           /\ page' \in [Tab -> {"login", "loading", "dashboard"}]
           /\ access' \in [Tab -> {"none", "good", "stale"}]
           /\ thread' \in [Req -> Thread]
           /\ thread'[r].job = "restore" /\ thread'[r].step = "cookie"
           /\ \A q \in Req \ {r} : thread'[q] = NoThread \/ thread'[q] = thread[q]
<1>0. /\ thread \in [Req -> Thread] /\ r[1] \in Tab
      /\ page \in [Tab -> {"login", "loading", "dashboard"}]
      /\ access \in [Tab -> {"none", "good", "stale"}]
  BY WebTypes
<1> DEFINE w == [NoThread EXCEPT !.job = "restore", !.step = "cookie"]
<1>1. /\ NoThread \in Thread /\ w \in Thread
      /\ w.job = "restore" /\ w.step = "cookie"
  BY DEF NoThread, Thread
<1>2. /\ thread' = [q \in Req |-> IF q = r THEN w ELSE IF q[1] = r[1] THEN NoThread ELSE thread[q]]
      /\ page' = [page EXCEPT ![r[1]] = "loading"] /\ access' = [access EXCEPT ![r[1]] = "none"]
      /\ UNCHANGED <<authVars, cookie, mishap>>
  BY DEF Reload
<1> HIDE DEF w
<1> QED
  BY <1>0, <1>1, <1>2

\* Tokens that were handed out stay so.
LEMMA DeliveredGrows ==
    ASSUME NEW r \in Req, Proceed(r) \/ Stop(r)
    PROVE  delivered \subseteq delivered'
<1>1. ASSUME NEW ok, Concluded(r, ok) PROVE delivered \subseteq delivered'
  BY <1>1 DEF Concluded, Deliver
<1>2. CASE StoreRefreshToken(r)
  <2>1. delivered' = delivered \/ \E t : Deliver(r, t)
    BY <1>2 DEF StoreRefreshToken
  <2> QED
    BY <2>1 DEF Deliver
<1>3. CASE FindToken(r) \/ CountFamily(r)
  BY <1>1, <1>3 DEF FindToken, CountFamily
<1>4. CASE RemoveToken(r) \/ CleanFamily(r)
  BY <1>1, <1>4 DEF RemoveToken, CleanFamily
<1>5. CASE CreateUser(r) \/ FamilyMembers(r) \/ DeleteTokenFamily(r) \/ DeleteAllUserTokens(r) \/ Stop(r)
  BY <1>5 DEF CreateUser, FamilyMembers, DeleteTokenFamily, DeleteAllUserTokens, Stop
<1> QED
  BY <1>2, <1>3, <1>4, <1>5 DEF Proceed

\* The auth service works; a token it hands out reaches the thread that asked.
LEMMA ServeEffect ==
    ASSUME WebKept, Kept', NEW r \in Req, Serve(r)
    PROVE  /\ Proceed(r) \/ Stop(r)
           /\ UNCHANGED <<cookie, page, access, mishap>>
           /\ thread' \in [Req -> Thread] /\ Only(r) /\ Moves(r, thread[r].step)
           /\ \/ thread' = thread /\ (delivered' = delivered \/ thread[r].step # "ask")
              \/ /\ thread[r].step = "ask" /\ thread'[r].token \in delivered'
                 /\ thread'[r].token \notin delivered
<1>0. /\ thread \in [Req -> Thread] /\ thread[r] \in Thread
      /\ delivered \subseteq delivered' /\ delivered' \subseteq Token
  <2>1. delivered' \subseteq 1..issued' /\ issued' \in 0..MaxToken
    BY DEF Kept, TypeOK
  <2>2. delivered' \subseteq Token
    BY <2>1
  <2> QED
    BY <2>2, WebTypes, DeliveredGrows DEF Serve
<1>1. CASE delivered' = delivered \/ thread[r].step # "ask"
  <2>1. thread' = thread
    BY <1>1 DEF Serve, In
  <2> QED
    BY <1>0, <1>1, <2>1 DEF Serve, Only, Moves
<1>2. CASE delivered' # delivered /\ thread[r].step = "ask"
  <2> DEFINE t == CHOOSE u \in delivered' : u \notin delivered
  <2>1. t \in delivered' /\ t \notin delivered
    BY <1>0, <1>2
  <2>2. t \in Token \cup {0}
    BY <1>0, <2>1
  <2>3. thread' = [thread EXCEPT ![r].token = t]
    BY <1>2 DEF Serve, In
  <2> HIDE DEF t
  <2>4. /\ thread' \in [Req -> Thread] /\ Only(r) /\ Moves(r, thread[r].step)
        /\ thread'[r].token = t
    BY <1>0, <2>2, <2>3 DEF Only, Moves, Thread
  <2> QED
    BY <1>2, <2>1, <2>4 DEF Serve
<1> QED
  BY <1>1, <1>2

-----------------------------------------------------------------------------
(* The browser uses the auth service as its specification says.            *)

\* Every step of a tab is one of the auth service or leaves it alone.
LEMMA WebIsAuth == WebKept /\ [WebNext]_allVars => [Next]_authVars
<1> SUFFICES ASSUME WebKept, WebNext PROVE Next \/ UNCHANGED authVars
  BY DEF allVars
<1>1. ASSUME NEW r \in Req, Login(r) \/ Call(r) \/ Logout(r) \/ Reload(r)
      PROVE  Next \/ UNCHANGED authVars
  BY <1>1 DEF Login, Call, Logout, Reload, Next
<1>2. ASSUME NEW r \in Req, Accepted(r) \/ Unauthorized(r) \/ SendFails(r)
      PROVE  Next \/ UNCHANGED authVars
  BY <1>2, SendEffect DEF Next
<1>3. ASSUME NEW r \in Req, RunOn(r), ~Accepted(r), ~Unauthorized(r), ~SendFails(r)
      PROVE  Next \/ UNCHANGED authVars
  BY <1>3 DEF RunOn, ReadCookie, PresentToken, Serve, Granted, Refused,
              LoggedOutEverywhere, SaveCookie, ClearAuth, Next
<1>4. ASSUME NEW x \in Tab, AccessExpires(x) PROVE UNCHANGED authVars
  BY <1>4 DEF AccessExpires
<1> QED
  BY <1>1, <1>2, <1>3, <1>4 DEF WebNext, Next

\* A thread that ended, that moved on within its job, or that did nothing.
LEMMA FormKept ==
    ASSUME NEW q \in Req, Form(q), thread[q] \in Thread,
           \/ thread'[q] = thread[q]
           \/ thread'[q] = NoThread
           \/ /\ thread[q].step # "none" /\ thread'[q].job = thread[q].job
              /\ \/ thread'[q].step = thread[q].step
                 \/ /\ thread[q].job \in {"call"} \cup Leaving
                    /\ thread'[q].step \in Step \ {"none", "everywhere"}
                 \/ thread[q].job = "logoutAll" /\ thread'[q].step = "everywhere"
                 \/ thread[q].job = "restore" /\ thread'[q].step \in Busy \ {"everywhere"}
                 \/ thread[q].job \in Entering /\ thread'[q].step \in {"ask", "save"}
    PROVE  Form(q)'
<1>n. NoThread.job = "none" /\ NoThread.step = "none"
  BY DEF NoThread
<1>1. CASE thread'[q] = thread[q]
  BY <1>1 DEF Form
<1>2. CASE thread'[q] = NoThread
  BY <1>n, <1>2 DEF Form, Entering
<1>3. CASE /\ thread[q].step # "none" /\ thread'[q].job = thread[q].job
           /\ \/ thread'[q].step = thread[q].step
              \/ /\ thread[q].job \in {"call"} \cup Leaving
                 /\ thread'[q].step \in Step \ {"none", "everywhere"}
              \/ thread[q].job = "logoutAll" /\ thread'[q].step = "everywhere"
              \/ thread[q].job = "restore" /\ thread'[q].step \in Busy \ {"everywhere"}
              \/ thread[q].job \in Entering /\ thread'[q].step \in {"ask", "save"}
  <2>1. thread[q].job # "none"
    BY <1>n, <1>3 DEF Form
  <2>2. thread'[q].job # "none" /\ thread'[q].step # "none"
    BY <1>3, <2>1 DEF Busy
  <2> QED
    BY <1>3, <2>1, <2>2 DEF Form, Entering, Leaving, Busy
<1> QED
  BY <1>1, <1>2, <1>3

\* A thread that waits, sends or refreshes is one of a request or of a reload.
LEMMA JobOfStep ==
    ASSUME WebKept, NEW r \in Req
    PROVE  /\ thread[r].step \in {"send", "wait", "clear"} => thread[r].job \in {"call"} \cup Leaving
           /\ thread[r].step \in {"cookie", "present", "denied"}
                => thread[r].job \in {"call", "restore"} \cup Leaving
           /\ thread[r].step \in {"ask", "save"}
                => thread[r].job \in {"call", "restore"} \cup Leaving \cup Entering
<1>1. thread[r] \in Thread /\ Form(r)
  BY WebTypes
<1>2. thread[r].step # "none" => thread[r].job # "none"
  BY <1>1 DEF Form, NoThread
<1> QED
  BY <1>1, <1>2 DEF Form, Thread, Entering, Leaving, Busy

\* Types and forms of all variables are kept, whatever the tabs do.
LEMMA WebKeptStep == WebKept /\ [WebNext]_allVars => WebKept'
<1> SUFFICES ASSUME WebKept, [WebNext]_allVars PROVE WebKept'
  OBVIOUS
<1>k. Kept'
  BY WebIsAuth, KeptStep DEF WebKept
<1>0. /\ thread \in [Req -> Thread] /\ cookie \in Token \cup {0}
      /\ mishap \subseteq {"call", "token"}
      /\ page \in [Tab -> {"login", "loading", "dashboard"}]
      /\ access \in [Tab -> {"none", "good", "stale"}]
      /\ \A q \in Req : Form(q) /\ thread[q] \in Thread
  BY WebTypes
<1> DEFINE Typed == /\ thread' \in [Req -> Thread] /\ cookie' \in Token \cup {0}
                    /\ mishap' \subseteq {"call", "token"}
                    /\ page' \in [Tab -> {"login", "loading", "dashboard"}]
                    /\ access' \in [Tab -> {"none", "good", "stale"}]
                    /\ \A q \in Req : Form(q)'
<1>1. Typed => WebKept'
  BY <1>k DEF WebKept, WebTypeOK, Kept, Thread
\* GiveUp, by a thread that was refreshing.
<1>g. ASSUME NEW r \in Req, GiveUp(r), thread[r].step \in {"cookie", "ask", "denied", "save"},
             thread[r].job \notin Entering
      PROVE  /\ thread' \in [Req -> Thread] /\ \A q \in Req : Form(q)'
             /\ page' \in [Tab -> {"login", "loading", "dashboard"}]
  <2>1. /\ thread' \in [Req -> Thread]
        /\ page' \in [Tab -> {"login", "loading", "dashboard"}]
        /\ \A q \in Req \ {r} :
             \/ thread'[q] = thread[q]
             \/ /\ thread[q].step = "wait"
                /\ thread'[q].step = "clear" /\ thread'[q].job = thread[q].job
        /\ \/ thread'[r] = NoThread /\ thread[r].job = "restore"
           \/ Moves(r, "clear") /\ thread[r].job # "restore"
    BY <1>g, GiveUpEffect
  <2>2. Form(r)'
    BY <1>0, <1>g, <2>1, JobOfStep, FormKept DEF Moves
  <2>3. ASSUME NEW q \in Req \ {r} PROVE Form(q)'
    BY <1>0, <2>1, JobOfStep, FormKept
  <2> QED
    BY <2>1, <2>2, <2>3
<1>2. ASSUME UNCHANGED allVars PROVE Typed
  BY <1>0, <1>2 DEF allVars, webVars, Form
<1>3. ASSUME NEW r \in Req, Login(r) \/ Call(r) \/ Logout(r) PROVE Typed
  <2>1. /\ UNCHANGED <<cookie, page, access, mishap>>
        /\ thread' \in [Req -> Thread] /\ Only(r)
        /\ thread'[r].job \in Entering \cup {"call"} \cup Leaving
        /\ thread'[r].step = IF thread'[r].job \in Entering THEN "ask" ELSE "send"
    BY <1>3, UserEffect DEF Entering, Leaving
  <2>2. Form(r)'
    BY <2>1 DEF Form, Entering, Leaving
  <2>3. \A q \in Req \ {r} : Form(q)'
    BY <1>0, <2>1 DEF Form, Only
  <2> QED
    BY <1>0, <2>1, <2>2, <2>3
<1>4. ASSUME NEW r \in Req, Reload(r) PROVE Typed
  <2>1. /\ UNCHANGED <<cookie, mishap>> /\ thread' \in [Req -> Thread]
        /\ page' \in [Tab -> {"login", "loading", "dashboard"}]
        /\ access' \in [Tab -> {"none", "good", "stale"}]
        /\ thread'[r].job = "restore" /\ thread'[r].step = "cookie"
        /\ \A q \in Req \ {r} : thread'[q] = NoThread \/ thread'[q] = thread[q]
    BY <1>4, ReloadEffect
  <2>2. Form(r)'
    BY <2>1 DEF Form, Entering, Busy
  <2>3. \A q \in Req \ {r} : Form(q)'
    BY <1>0, <2>1, FormKept
  <2> QED
    BY <1>0, <2>1, <2>2, <2>3
\* r goes on by itself.
<1>5. ASSUME NEW r \in Req, Only(r), Form(r)' PROVE \A q \in Req : Form(q)'
  BY <1>0, <1>5 DEF Form, Only
<1>6. ASSUME NEW r \in Req, Accepted(r) \/ Unauthorized(r) \/ SendFails(r) PROVE Typed
  <2>1. /\ UNCHANGED <<cookie, page, access, mishap>>
        /\ thread' \in [Req -> Thread] /\ Only(r)
        /\ thread[r].step = "send" /\ thread[r].job \in {"call"} \cup Leaving
        /\ \/ thread'[r] = NoThread
           \/ \E step \in {"wait", "clear", "cookie"} : Moves(r, step)
           \/ Moves(r, "everywhere") /\ thread[r].job = "logoutAll"
    BY <1>6, SendEffect
  <2>2. Form(r)'
    BY <1>0, <2>1, FormKept DEF Moves
  <2> QED
    BY <1>0, <1>5, <2>1, <2>2
<1>7. ASSUME NEW r \in Req, ReadCookie(r) PROVE Typed
  <2>1. thread[r].step = "cookie" /\ thread[r].job \in {"call", "restore"} \cup Leaving
    BY <1>7, ReadEffect, JobOfStep
  <2>2. /\ UNCHANGED <<cookie, access>> /\ mishap' \subseteq {"call", "token"}
        /\ \/ /\ Only(r) /\ thread' \in [Req -> Thread] /\ UNCHANGED page
              /\ Moves(r, "present") \/ thread'[r] = NoThread
           \/ GiveUp(r)
    BY <1>0, <1>7, ReadEffect
  <2>3. thread[r].job \notin Entering
    BY <2>1 DEF Entering, Leaving
  <2>4. CASE /\ Only(r) /\ thread' \in [Req -> Thread] /\ UNCHANGED page
             /\ Moves(r, "present") \/ thread'[r] = NoThread
    <3>1. Form(r)'
      BY <1>0, <2>1, <2>4, FormKept DEF Moves, Busy
    <3> QED
      BY <1>0, <1>5, <2>2, <2>4, <3>1
  <2> QED
    BY <1>0, <1>g, <2>1, <2>2, <2>3, <2>4
<1>8. ASSUME NEW r \in Req, PresentToken(r) PROVE Typed
  <2>1. /\ thread[r].step = "present" /\ UNCHANGED <<cookie, page, access>>
        /\ Only(r) /\ thread' \in [Req -> Thread] /\ mishap' \subseteq {"call", "token"}
        /\ Moves(r, "ask") \/ Moves(r, "denied")
        /\ thread[r].job \in {"call", "restore"} \cup Leaving
    BY <1>0, <1>8, PresentEffect, JobOfStep
  <2>2. Form(r)'
    BY <1>0, <2>1, FormKept DEF Moves, Busy
  <2> QED
    BY <1>0, <1>5, <2>1, <2>2
<1>9. ASSUME NEW r \in Req, Serve(r) PROVE Typed
  <2>1. /\ UNCHANGED <<cookie, page, access, mishap>>
        /\ thread' \in [Req -> Thread] /\ Only(r) /\ Moves(r, thread[r].step)
        /\ thread' = thread \/ thread[r].step = "ask"
    BY <1>9, <1>k, ServeEffect
  <2>2. Form(r)'
    BY <1>0, <2>1, FormKept DEF Moves
  <2> QED
    BY <1>0, <1>5, <2>1, <2>2
<1>10. ASSUME NEW r \in Req, Granted(r) PROVE Typed
  <2>1. /\ UNCHANGED <<cookie, page, mishap>> /\ thread[r].step = "ask"
        /\ access' \in [Tab -> {"none", "good", "stale"}]
        /\ Only(r) /\ thread' \in [Req -> Thread] /\ Moves(r, "save")
        /\ thread[r].job \in {"call", "restore"} \cup Leaving \cup Entering
    BY <1>10, GrantedEffect, JobOfStep
  <2>2. Form(r)'
    BY <1>0, <2>1, FormKept DEF Moves, Busy
  <2> QED
    BY <1>0, <1>5, <2>1, <2>2
<1>11. ASSUME NEW r \in Req, Refused(r) PROVE Typed
  <2>1. UNCHANGED <<cookie, access>> /\ mishap' \subseteq {"call", "token"}
    BY <1>0, <1>11, RefusedEffect, LossType
  <2>2. thread[r].step \in {"ask", "denied"}
    BY <1>11, RefusedEffect
  <2>3. CASE thread[r].job \in Entering
    <3>1. thread' \in [Req -> Thread] /\ Only(r) /\ thread'[r] = NoThread /\ UNCHANGED page
      BY <1>11, <2>3, RefusedEffect
    <3>2. Form(r)'
      BY <1>0, <3>1, FormKept
    <3> QED
      BY <1>0, <1>5, <2>1, <3>1, <3>2
  <2>4. CASE thread[r].job \notin Entering
    BY <1>0, <1>11, <1>g, <2>1, <2>2, <2>4, RefusedEffect
  <2> QED
    BY <2>3, <2>4
<1>12. ASSUME NEW r \in Req, LoggedOutEverywhere(r) PROVE Typed
  <2>1. /\ UNCHANGED <<cookie, page, access>> /\ thread[r].step = "everywhere"
        /\ mishap' \subseteq {"call", "token"} /\ thread[r].job = "logoutAll"
        /\ Only(r) /\ thread' \in [Req -> Thread]
        /\ Moves(r, "clear") \/ thread'[r] = NoThread
    BY <1>0, <1>12, EverywhereEffect DEF Form
  <2>2. Form(r)'
    BY <1>0, <2>1, FormKept DEF Moves, Leaving
  <2> QED
    BY <1>0, <1>5, <2>1, <2>2
<1>13. ASSUME NEW r \in Req, SaveCookie(r) PROVE Typed
  <2>1. PICK done, threw \in BOOLEAN :
          Saving(r, done, threw) /\ thread[r].step = "save" /\ UNCHANGED access
    BY <1>13, SaveEffect
  <2>2. r[1] \in Tab /\ thread[r].token \in Token \cup {0}
    BY WebTypes DEF Thread
  <2>3. cookie' = thread[r].token \/ cookie' = cookie
    BY <2>1, Zenon DEF Saving
  <2>4. mishap' \subseteq mishap \cup {"call", "token"}
    BY <2>1 DEF Saving
  <2>5. CASE thread[r].job \notin Entering /\ GiveUp(r)
    BY <1>0, <1>g, <2>1, <2>2, <2>3, <2>4, <2>5
  <2>6. CASE /\ thread' \in [Req -> Thread] /\ Only(r) /\ thread'[r] = NoThread
             /\ page' = page \/ page' = [page EXCEPT ![r[1]] = "dashboard"]
    <3>1. page' \in [Tab -> {"login", "loading", "dashboard"}]
      BY <1>0, <2>2, <2>6
    <3>2. Form(r)'
      BY <1>0, <2>6, FormKept
    <3> QED
      BY <1>0, <1>5, <2>1, <2>2, <2>3, <2>4, <2>6, <3>1, <3>2
  <2>7. CASE /\ thread' \in [Req -> Thread] /\ UNCHANGED page /\ Moves(r, "send")
             /\ \A q \in Req \ {r} :
                  \/ thread'[q] = thread[q]
                  \/ /\ thread[q].step = "wait"
                     /\ thread'[q].step = "send" /\ thread'[q].job = thread[q].job
             /\ thread[r].job \notin {"login", "register", "restore"}
    <3>1. thread[r].job \in {"call"} \cup Leaving
      BY <2>1, <2>7, JobOfStep DEF Entering
    <3>2. Form(r)'
      BY <1>0, <2>1, <2>7, <3>1, FormKept DEF Moves
    <3>3. ASSUME NEW q \in Req \ {r} PROVE Form(q)'
      BY <1>0, <2>7, JobOfStep, FormKept
    <3> QED
      BY <1>0, <2>1, <2>2, <2>3, <2>4, <2>7, <3>2, <3>3
  <2> QED
    BY <2>1, <2>5, <2>6, <2>7 DEF Saving
<1>14. ASSUME NEW r \in Req, ClearAuth(r) PROVE Typed
  <2>1. PICK done, threw \in BOOLEAN : Clearing(r, done, threw)
    BY <1>14, ClearEffect
  <2>2. cookie' = 0 \/ cookie' = cookie
    BY <2>1, Zenon DEF Clearing
  <2>3. mishap' \subseteq mishap \cup {"call", "token"}
    BY <2>1 DEF Clearing
  <2>4. /\ access' \in [Tab -> {"none", "good", "stale"}]
        /\ page' \in [Tab -> {"login", "loading", "dashboard"}]
        /\ thread' \in [Req -> Thread]
        /\ \A q \in Req : thread'[q] = thread[q] \/ thread'[q] = NoThread
    BY <1>14, ClearEffect
  <2>5. \A q \in Req : Form(q)'
    BY <1>0, <2>4, FormKept
  <2> QED
    BY <1>0, <2>2, <2>3, <2>4, <2>5
<1>15. ASSUME NEW x \in Tab, AccessExpires(x) PROVE Typed
  BY <1>0, <1>15 DEF AccessExpires, Form
<1>16. ASSUME Age \/ Sweep, UNCHANGED webVars PROVE Typed
  BY <1>0, <1>16 DEF webVars, Form
<1> HIDE DEF Typed
<1>17. ASSUME NEW r \in Req, RunOn(r) PROVE Typed
  BY <1>6, <1>7, <1>8, <1>9, <1>10, <1>11, <1>12, <1>13, <1>14, <1>17 DEF RunOn
<1> QED
  BY <1>1, <1>2, <1>3, <1>4, <1>15, <1>16, <1>17 DEF WebNext, Typed

\* At first no thread runs and there is no cookie.
LEMMA WebKeptInit == WebInit => WebKept
<1> SUFFICES ASSUME WebInit PROVE WebKept
  OBVIOUS
<1>1. Kept
  BY KeptInit DEF WebInit
<1>2. NoThread \in Thread /\ NoThread.step = "none" /\ NoThread.job = "none"
  BY DEF NoThread, Thread
<1>3. WebTypeOK
  BY <1>1, <1>2 DEF WebInit, WebTypeOK, Kept, Thread
<1>4. \A r \in Req : Form(r)
  BY <1>2 DEF WebInit, Form, Entering
<1> QED
  BY <1>1, <1>3, <1>4 DEF WebKept

\* The threads of any number of tabs keep their forms (lib/auth.ts, lib/api.ts).
LEMMA WebKeptAlways == WebSpec => []WebKept
BY WebKeptInit, WebKeptStep, PTL DEF WebSpec

\* The variables have their types, the requests of the auth service included,
\* with any number of tabs (lib/auth.ts, lib/api.ts).
THEOREM WebTypeCorrect == WebSpec => []WebTypeOK
<1>1. WebKept => WebTypeOK
  BY DEF WebKept
<1> QED
  BY <1>1, WebKeptAlways, PTL

\* Whatever any number of tabs do, and whatever the browser loses or repeats, the
\* auth service runs as AuthSessions specifies: all that is proved of it there
\* holds with the browser as its client.
THEOREM WebUsesAuth == WebSpec => Spec
BY WebKeptInit, WebKeptStep, WebIsAuth, PTL DEF WebSpec, WebInit, Spec

-----------------------------------------------------------------------------
(* One tab, whose user acts only while nothing runs in it.                 *)

OneTab == Orderly /\ \A x, y \in Tab : x = y

\* All threads are those of the tab.
LEMMA TheTab ==
    ASSUME OneTab
    PROVE  /\ \A r \in Req : r[1] \in Tab /\ Threads(r[1]) = Req
           /\ \A x \in Tab : Threads(x) = Req
<1>1. \A r \in Req : r[1] \in Tab
  BY WebAssumption
<1> QED
  BY <1>1 DEF OneTab, Threads

\* The request slot of a thread serves what the thread asked for, and the token
\* it brings is in Redis.
Serving(r) ==
    LET w == thread[r]
        q == req[r]
    IN
    /\ q.op # "none" => w.step \in {"ask", "everywhere"}
    /\ w.step = "everywhere" => q.op \in {"none", "logoutAll"}
    /\ w.step = "ask" => q.op \in {"none"} \cup (IF w.job \in Entering THEN Entering
                                                ELSE {"refresh"})
    /\ q.op = "refresh" /\ q.stage \in Deleting =>
         q.fresh \in live \ delivered /\ q.fresh # q.token
    /\ w.step = "ask" /\ q.op = "none" /\ q.answer = "ok" => w.token \in live
    /\ w.step = "ask" /\ q.op = "none" /\ w.job \notin Entering => q.answer # "duplicate"
    /\ w.step = "save" => w.token \in live

\* Calls run side by side, but only one of them refreshes; everything else runs
\* by itself.
OneAtATime ==
    /\ \A r, q \in Req : thread[r].step \in Busy /\ thread[q].step \in Busy => r = q
    /\ \A r, q \in Req : r # q /\ thread[r].job \notin {"none", "call"} =>
         thread[q] = NoThread

\* r is about to put another token into the cookie, or to empty it; if it cannot,
\* mishap will say so.
Replacing(r) ==
    \/ /\ thread[r].step = "ask" /\ thread[r].job \notin Entering
       /\ \/ req[r].stage \in Deleting
          \/ req[r].op = "none" /\ req[r].answer \in {"ok", "lost"}
    \/ thread[r].step \in {"save", "everywhere"}
    \/ thread[r].step = "clear" /\ thread[r].job \in Leaving

\* The auth service took r's token for a second use, and ended the session.
Reusing(r) ==
    /\ thread[r].step = "ask" /\ thread[r].job \notin Entering
    /\ \/ req[r].stage \in {"members", "revoke"}
       \/ req[r].op = "none" /\ req[r].answer \in {"revoked", "unrevoked"}

Lost == "token" \in mishap
Over == cookie <= expired

\* The cookie is good, or expired, or about to be replaced.
CookieGood == Lost \/ Over \/ cookie \in live \/ \E r \in Req : Replacing(r)

\* A refresh presents the cookie; no token that is good is taken for a second use.
Presented(r) == thread[r].step = "present" => thread[r].token = cookie \/ Over
Reused(r) == Reusing(r) => Lost \/ Over

\* A session that is being cleared without the user's wish is over, or something
\* went wrong, and then no refresh brings a new token.
Denied(r) == thread[r].step = "denied" => Over \/ mishap # {}
Fruitless(r) == /\ thread[r].step \notin {"ask", "save"}
                /\ thread[r].step = "present" => thread[r].token <= expired
Cleared(r) ==
    thread[r].step = "clear" =>
      \/ thread[r].job \in Leaving
      \/ mishap # {}
      \/ Over /\ \A q \in Req : Fruitless(q)

CookieKept ==
    CookieGood /\ \A r \in Req : Presented(r) /\ Reused(r) /\ Denied(r) /\ Cleared(r)

WebInv == WebKept /\ (\A r \in Req : Serving(r)) /\ OneAtATime /\ CookieKept

-----------------------------------------------------------------------------
(* The invariant is inductive.                                             *)

\* A tab in which nothing runs has no request under way, and a good cookie.
LEMMA QuietTab ==
    ASSUME OneTab, WebInv, NEW x \in Tab, Quiet(x)
    PROVE  /\ \A q \in Req : /\ thread[q] = NoThread
                             /\ thread[q].step = "none" /\ thread[q].job = "none"
                             /\ req[q].op = "none" /\ req[q].stage = "idle"
           /\ Lost \/ Over \/ cookie \in live
<1>1. \A q \in Req : thread[q] = NoThread
  BY TheTab DEF Quiet
<1>2. \A q \in Req : thread[q].step = "none" /\ thread[q].job = "none"
  BY <1>1 DEF NoThread
<1>3. \A q \in Req : req[q].op = "none" /\ req[q].stage = "idle"
  BY <1>2, WebTypes DEF WebInv, Serving, Shape
<1>4. \A q \in Req : ~Replacing(q)
  BY <1>2 DEF Replacing
<1> QED
  BY <1>1, <1>2, <1>3, <1>4 DEF WebInv, CookieKept, CookieGood

\* The only thread that changes the session now: no other asks or saves.
LEMMA OnlyBusy ==
    ASSUME WebInv, NEW r \in Req, thread[r].step \in Busy
    PROVE  /\ \A q \in Req \ {r} : thread[q].step \notin Busy
           /\ \A q \in Req \ {r} : req[q].op = "none"
           /\ \A q \in Req \ {r} : ~Replacing(q) /\ ~Reusing(q)
<1>1. \A q \in Req \ {r} : thread[q].step \notin Busy
  BY DEF WebInv, OneAtATime
<1>2. \A q \in Req \ {r} : req[q].op = "none"
  BY <1>1 DEF WebInv, Serving, Busy
<1>3. ASSUME NEW q \in Req \ {r} PROVE ~Replacing(q) /\ ~Reusing(q)
  <2>1. ~(thread[q].step = "clear" /\ thread[q].job \in Leaving)
    BY DEF WebInv, OneAtATime, Leaving, Busy, NoThread
  <2> QED
    BY <1>1, <2>1 DEF Replacing, Reusing, Busy
<1> QED
  BY <1>1, <1>2, <1>3

\* A thread goes on or ends, and so may those that wait for it or clear the
\* session with it; the auth service does nothing.
LEMMA ThreadStep ==
    ASSUME WebInv, NEW r \in Req, UNCHANGED authVars, WebKept',
           thread'[r].job = thread[r].job \/ thread'[r] = NoThread,
           \A q \in Req \ {r} : \/ thread'[q] = thread[q]
                                \/ thread'[q] = NoThread /\ thread[q].step = "clear"
                                \/ /\ thread[q].step = "wait" /\ thread'[q].job = thread[q].job
                                   /\ thread'[q].step \in {"send", "clear"},
           thread'[r].step \in Busy =>
             thread[r].step \in Busy \/ \A q \in Req : thread[q].step \notin Busy,
           Serving(r)'
    PROVE  (\A q \in Req : Serving(q)') /\ OneAtATime'
<1>0. /\ \A q \in Req : Form(q) /\ Form(q)' /\ Serving(q)
      /\ OneAtATime /\ UNCHANGED <<live, delivered, req>>
  BY WebTypes DEF WebInv, WebKept, authVars, keys
<1>1. NoThread.step = "none" /\ NoThread.job = "none"
  BY DEF NoThread
<1>2. ASSUME NEW q \in Req \ {r} PROVE Serving(q)'
  <2>1. CASE thread'[q] = thread[q]
    BY <1>0, <2>1 DEF Serving
  <2>2. CASE thread[q].step \in {"clear", "wait"} /\ thread'[q].step \in {"none", "send", "clear"}
    <3>1. req[q].op = "none"
      BY <1>0, <2>2 DEF Serving
    <3> QED
      BY <1>0, <2>2, <3>1 DEF Serving
  <2> QED
    BY <1>1, <2>1, <2>2
<1>3. OneAtATime'
  <2>1. \A q \in Req \ {r} : thread'[q].step \in Busy => thread[q].step \in Busy
    BY <1>1 DEF Busy
  <2>2. \A q, p \in Req : thread'[q].step \in Busy /\ thread'[p].step \in Busy => q = p
    BY <1>0, <2>1 DEF OneAtATime
  <2>3. ASSUME NEW q \in Req, NEW p \in Req, q # p, thread'[q].job \notin {"none", "call"}
        PROVE  thread'[p] = NoThread
    <3>1. thread'[q].job = thread[q].job
      BY <1>1, <2>3
    <3>2. thread[p] = NoThread
      BY <1>0, <2>3, <3>1 DEF OneAtATime
    <3>3. p # r => thread'[p] = NoThread
      BY <1>1, <3>2
    <3>4. p = r => thread'[p] = NoThread
      BY <1>0, <1>1, <3>2 DEF Form
    <3> QED
      BY <3>3, <3>4
  <2> QED
    BY <2>2, <2>3 DEF OneAtATime
<1> QED
  BY <1>2, <1>3

\* The cookie stays, the auth service does nothing, and threads only leave the
\* refresh: what they were about to do to the cookie is recorded as lost, and a
\* session that is now cleared without the user's wish has a reason to be.
LEMMA CookieStays ==
    ASSUME WebInv, WebKept', UNCHANGED <<cookie, live, req>>,
           expired <= expired', mishap \subseteq mishap',
           \A q \in Req : Replacing(q) => Replacing(q)' \/ Lost',
           \A q \in Req :
             \/ thread'[q] = thread[q]
             \/ thread'[q].step \notin {"present", "denied", "ask", "save", "clear"}
             \/ /\ thread'[q].step = "clear"
                /\ \/ thread'[q].job \in Leaving
                   \/ mishap' # {}
                   \/ Over /\ \A p \in Req : Fruitless(p)'
    PROVE  CookieKept'
<1>0. /\ CookieKept /\ expired \in Nat /\ expired' \in Nat /\ cookie \in Nat
      /\ \A q \in Req : thread[q].token \in Nat
  BY WebTypes DEF WebInv, WebKept, Kept, TypeOK
<1>1. (Lost => Lost') /\ (Over => Over') /\ (mishap # {} => mishap' # {})
  BY <1>0 DEF Lost, Over
<1>2. CookieGood'
  BY <1>0, <1>1 DEF CookieKept, CookieGood
<1>3. ASSUME NEW q \in Req PROVE Presented(q)' /\ Reused(q)' /\ Denied(q)'
  <2>1. CASE thread'[q] = thread[q]
    <3>1. Reusing(q)' => Reusing(q)
      BY <2>1 DEF Reusing
    <3> QED
      BY <1>0, <1>1, <2>1, <3>1 DEF CookieKept, Presented, Reused, Denied
  <2>2. CASE thread'[q].step \notin {"present", "denied", "ask"}
    BY <2>2 DEF Presented, Reused, Reusing, Denied
  <2> QED
    BY <2>1, <2>2
<1>4. ASSUME NEW q \in Req PROVE Cleared(q)'
  <2>1. CASE thread'[q].step = "clear" /\ thread'[q] # thread[q]
    BY <1>1, <2>1 DEF Cleared
  <2>2. CASE thread'[q].step = "clear" /\ thread'[q] = thread[q]
    <3>1. (\A p \in Req : Fruitless(p)) => \A p \in Req : Fruitless(p)'
      <4> SUFFICES ASSUME NEW p \in Req, Fruitless(p) PROVE Fruitless(p)'
        OBVIOUS
      <4>1. CASE thread'[p] = thread[p]
        BY <1>0, <4>1 DEF Fruitless
      <4>2. CASE thread'[p].step \notin {"present", "ask", "save"}
        BY <4>2 DEF Fruitless
      <4> QED
        BY <4>1, <4>2
    <3> QED
      BY <1>0, <1>1, <2>2, <3>1 DEF CookieKept, Cleared
  <2> QED
    BY <2>1, <2>2 DEF Cleared
<1> QED
  BY <1>2, <1>3, <1>4 DEF CookieKept

\* A refresh that brings no token, for a reason.
LEMMA GiveUpStep ==
    ASSUME OneTab, WebInv, WebKept', NEW r \in Req, GiveUp(r), UNCHANGED <<authVars, cookie>>,
           thread[r].step \in {"cookie", "denied", "ask"}, req[r].op = "none",
           thread[r].job \notin Entering,
           mishap \subseteq mishap', Over \/ mishap' # {}, Replacing(r) => Lost'
    PROVE  WebInv'
<1>0. /\ UNCHANGED <<cookie, live, req, expired>> /\ expired \in Nat
      /\ \A q \in Req \ {r} : thread[q].step \notin Busy /\ ~Replacing(q)
      /\ \A q \in Req : Serving(q)
  BY OnlyBusy, WebTypes DEF WebInv, authVars, keys, clock, Busy
<1>1. /\ \A q \in Req \ {r} :
           \/ thread'[q] = thread[q]
           \/ /\ thread[q].step = "wait"
              /\ thread'[q].step = "clear" /\ thread'[q].job = thread[q].job
      /\ \/ thread'[r] = NoThread
         \/ Moves(r, "clear")
  BY GiveUpEffect DEF WebInv
<1>2. NoThread.step = "none" /\ NoThread.job = "none"
  BY DEF NoThread
<1>3. thread'[r].step \in {"none", "clear"} /\ \A q \in Req : thread'[q].step \notin Busy
  BY <1>0, <1>1, <1>2 DEF Moves, Busy
<1>4. Serving(r)'
  BY <1>0, <1>3 DEF Serving
<1>5. (\A q \in Req : Serving(q)') /\ OneAtATime'
  BY <1>1, <1>3, <1>4, ThreadStep DEF Moves
<1>6. CookieKept'
  <2>1. \A p \in Req : Fruitless(p)'
    BY <1>3 DEF Fruitless, Busy
  <2>2. \A q \in Req :
          \/ thread'[q] = thread[q]
          \/ thread'[q].step \notin {"present", "denied", "ask", "save", "clear"}
          \/ thread'[q].step = "clear"
    BY <1>1, <1>3
  <2> QED
    BY <1>0, <2>1, <2>2, CookieStays
<1> QED
  BY <1>5, <1>6 DEF WebInv

\* The user does something.
LEMMA UserStep ==
    ASSUME OneTab, WebInv, WebKept', NEW r \in Req,
           Login(r) \/ Call(r) \/ Logout(r) \/ Reload(r)
    PROVE  WebInv'
<1>0. /\ WebKept /\ Orderly /\ r[1] \in Tab /\ Threads(r[1]) = Req /\ CookieKept
      /\ NoThread.step = "none" /\ NoThread.job = "none"
      /\ \A q \in Req : Serving(q) /\ Shape(q)
  BY TheTab, WebTypes DEF WebInv, OneTab, NoThread
\* A thread is added that has the tab to itself.
<1>a. ASSUME Quiet(r[1]), UNCHANGED <<authVars, cookie, mishap>>,
             \A q \in Req \ {r} : thread'[q] = NoThread,
             thread'[r].step \in {"send", "cookie"}
      PROVE  WebInv'
  <2>1. /\ \A q \in Req : /\ thread[q] = NoThread /\ thread[q].step = "none"
                          /\ req[q].op = "none" /\ req[q].stage = "idle"
        /\ UNCHANGED <<live, req, expired>> /\ expired \in Nat
    BY <1>0, <1>a, QuietTab, WebTypes DEF authVars, keys, clock
  <2>2. \A q \in Req : Serving(q)'
    BY <1>0, <1>a, <2>1 DEF Serving, Deleting
  <2>3. OneAtATime'
    BY <1>0, <1>a DEF OneAtATime, Busy
  <2>4. CookieKept'
    <3>1. \A q \in Req : ~Replacing(q)
      BY <2>1 DEF Replacing
    <3>2. \A q \in Req : thread'[q].step \notin {"present", "denied", "ask", "save", "clear"}
      BY <1>0, <1>a
    <3> QED
      BY <1>a, <2>1, <3>1, <3>2, CookieStays
  <2> QED
    BY <2>2, <2>3, <2>4 DEF WebInv
<1>1. CASE Login(r)
  <2>1. Quiet(r[1])
    BY <1>0, <1>1 DEF Login
  <2>2. /\ \A q \in Req : /\ thread[q] = NoThread /\ thread[q].step = "none"
                          /\ req[q].op = "none" /\ req[q].stage = "idle"
        /\ Lost \/ Over \/ cookie \in live
    BY <1>0, <2>1, QuietTab
  <2>3. /\ UNCHANGED <<cookie, mishap>> /\ Only(r)
        /\ thread'[r].job \in Entering /\ thread'[r].step = "ask"
        /\ LoginBegin(r) \/ RegisterBegin(r)
    <3>1. /\ UNCHANGED <<cookie, mishap>> /\ Only(r)
          /\ \/ /\ LoginBegin(r) \/ RegisterBegin(r)
                /\ thread'[r].job \in Entering /\ thread'[r].step = "ask"
             \/ thread'[r].step = "send"
      BY <1>0, <1>1, UserEffect
    <3>2. thread'[r].step # "send"
      <4>1. \E job \in Job : Run(r, job, "ask")
        BY <1>1 DEF Login
      <4> QED
        BY <1>0, <4>1, RunForm, WebTypes
    <3> QED
      BY <3>1, <3>2
  <2>4. /\ UNCHANGED <<live, delivered, expired>>
        /\ \A q \in Req \ {r} : req'[q] = req[q]
        /\ req'[r].op \in Entering /\ req'[r].stage \in {"insert", "store"}
    <3>1. PICK f \in Family, op \in Entering, stage \in {"insert", "store"} :
            /\ Start(r, op, stage, Owner[f], f, 0)
            /\ UNCHANGED <<clock, keys, delivered>>
      BY <2>3 DEF LoginBegin, RegisterBegin, Entering
    <3>2. /\ req \in [Req -> Request] /\ op \in Operation /\ stage \in Stage
          /\ Owner[f] \in User \cup {NoUser} /\ f \in Family \cup {NoFamily}
          /\ 0 \in Token \cup {0}
      BY <1>0, WebTypes DEF Entering
    <3>3. /\ \A q \in Req \ {r} : req'[q] = req[q]
          /\ req'[r].op = op /\ req'[r].stage = stage
      BY <3>1, <3>2, StartType
    <3> QED
      BY <3>1, <3>3 DEF clock, keys
  <2>5. \A q \in Req \ {r} : thread'[q] = NoThread
    BY <2>2, <2>3 DEF Only
  <2>6. \A q \in Req : Serving(q)'
    BY <1>0, <2>2, <2>3, <2>4, <2>5 DEF Serving, Entering, Deleting
  <2>7. OneAtATime'
    BY <1>0, <2>5 DEF OneAtATime, Busy
  <2>8. CookieKept'
    <3>1. \A q \in Req : thread'[q].step \in {"none", "ask"}
      BY <1>0, <2>3, <2>5
    <3>2. \A q \in Req : ~Reusing(q)'
      BY <1>0, <2>3, <2>5 DEF Reusing
    <3>3. CookieGood'
      BY <2>2, <2>3, <2>4 DEF CookieGood, Lost, Over
    <3> QED
      BY <3>1, <3>2, <3>3 DEF CookieKept, Presented, Reused, Denied, Cleared
  <2> QED
    BY <2>6, <2>7, <2>8 DEF WebInv
<1>2. CASE Call(r)
  <2>1. /\ thread[r] = NoThread /\ thread[r].step = "none" /\ req[r].stage = "idle"
        /\ UNCHANGED <<authVars, cookie, mishap>> /\ Only(r)
        /\ thread'[r].job = "call" /\ thread'[r].step = "send"
        /\ \A q \in Req : thread[q].job \in {"none", "call"}
    <3>1. /\ thread[r] = NoThread /\ thread[r].step = "none" /\ req[r].stage = "idle"
          /\ UNCHANGED <<cookie, mishap>> /\ Only(r)
      BY <1>0, <1>2, UserEffect
    <3>2. UNCHANGED authVars /\ Run(r, "call", "send")
          /\ \A q \in Req : thread[q].job \in {"none", "call"}
      BY <1>0, <1>2 DEF Call
    <3>3. thread'[r].job = "call" /\ thread'[r].step = "send"
      BY <1>0, <3>2, RunForm, WebTypes
    <3> QED
      BY <3>1, <3>2, <3>3
  <2>2. UNCHANGED <<live, delivered, expired, req>> /\ expired \in Nat
    BY <1>0, <2>1, WebTypes DEF authVars, keys, clock
  <2>3. \A q \in Req : Serving(q)'
    <3>1. req[r].op = "none"
      BY <1>0, <2>1 DEF Shape
    <3>2. Serving(r)'
      BY <1>0, <2>1, <2>2, <3>1 DEF Serving
    <3>3. \A q \in Req \ {r} : Serving(q)'
      BY <1>0, <2>1, <2>2 DEF Serving, Only
    <3> QED
      BY <3>2, <3>3
  <2>4. OneAtATime'
    <3>1. OneAtATime
      BY DEF WebInv
    <3>2. \A q \in Req : thread'[q].job \in {"none", "call"}
      BY <2>1 DEF Only
    <3> QED
      BY <2>1, <3>1, <3>2 DEF OneAtATime, Busy, Only
  <2>5. CookieKept'
    <3>1. \A q \in Req : Replacing(q) => Replacing(q)'
      BY <2>1, <2>2 DEF Replacing, Only
    <3> QED
      BY <2>1, <2>2, <3>1, CookieStays DEF Only
  <2> QED
    BY <2>3, <2>4, <2>5 DEF WebInv
<1>3. CASE Logout(r)
  <2>1. Quiet(r[1]) /\ UNCHANGED authVars /\ \E job \in Job : Run(r, job, "send")
    BY <1>0, <1>3 DEF Logout
  <2>2. UNCHANGED <<cookie, mishap>> /\ Only(r)
    BY <1>0, <1>3, UserEffect
  <2>3. thread'[r].step = "send"
    BY <1>0, <2>1, RunForm, WebTypes
  <2>4. \A q \in Req \ {r} : thread'[q] = NoThread
    BY <1>0, <2>1, <2>2, QuietTab DEF Only
  <2> QED
    BY <1>a, <2>1, <2>2, <2>3, <2>4
<1>4. CASE Reload(r)
  <2>1. Quiet(r[1])
    BY <1>0, <1>4 DEF Reload
  <2>2. /\ UNCHANGED <<authVars, cookie, mishap>> /\ thread'[r].step = "cookie"
        /\ \A q \in Req \ {r} : thread'[q] = NoThread \/ thread'[q] = thread[q]
    BY <1>0, <1>4, ReloadEffect
  <2>3. \A q \in Req \ {r} : thread'[q] = NoThread
    BY <1>0, <2>1, <2>2, QuietTab
  <2> QED
    BY <1>a, <2>1, <2>2, <2>3
<1> QED
  BY <1>1, <1>2, <1>3, <1>4

\* A request is answered, or fails; logout everywhere goes on.
LEMMA SendStep ==
    ASSUME OneTab, WebInv, WebKept', NEW r \in Req,
           Accepted(r) \/ Unauthorized(r) \/ SendFails(r)
    PROVE  WebInv'
<1>0. /\ thread[r].step = "send" /\ thread[r].job \in {"call"} \cup Leaving
      /\ UNCHANGED <<cookie, mishap>> /\ Only(r)
      /\ \/ thread'[r] = NoThread /\ UNCHANGED authVars
         \/ Moves(r, "wait") /\ UNCHANGED authVars
         \/ Moves(r, "clear") /\ thread[r].job = "logout" /\ UNCHANGED authVars
         \/ Moves(r, "cookie") /\ Refreshing(r[1]) = {} /\ UNCHANGED authVars
         \/ Moves(r, "everywhere") /\ thread[r].job = "logoutAll" /\ LogoutAllBegin(r)
  BY SendEffect DEF WebInv
<1>1. /\ \A q \in Req : Serving(q) /\ Form(q) /\ Shape(q)
      /\ OneAtATime /\ CookieKept /\ expired \in Nat
      /\ NoThread.step = "none" /\ NoThread.job = "none" /\ req[r].op = "none"
  BY <1>0, WebTypes DEF WebInv, NoThread, Serving
<1>2. CASE UNCHANGED authVars
  <2>1. UNCHANGED <<live, req, expired>>
    BY <1>2 DEF authVars, keys, clock
  <2>2. /\ thread'[r].step \in {"none", "wait", "clear", "cookie"}
        /\ thread'[r].job = thread[r].job \/ thread'[r] = NoThread
        /\ thread'[r].step = "clear" => thread'[r].job \in Leaving
        /\ thread'[r].step = "cookie" => Refreshing(r[1]) = {}
    <3>1. CASE thread'[r] = NoThread
      BY <1>1, <3>1
    <3>2. CASE Moves(r, "wait") \/ (Moves(r, "clear") /\ thread[r].job = "logout")
               \/ (Moves(r, "cookie") /\ Refreshing(r[1]) = {})
      BY <3>2 DEF Moves, Leaving
    <3>3. ~(Moves(r, "everywhere") /\ thread[r].job = "logoutAll" /\ LogoutAllBegin(r))
      <4>1. SUFFICES ASSUME LogoutAllBegin(r) PROVE FALSE
        OBVIOUS
      <4>2. PICK u \in account : Start(r, "logoutAll", "script", u, NoFamily, 0)
        BY <4>1 DEF LogoutAllBegin
      <4>3. /\ u \in User \cup {NoUser} /\ NoFamily \in Family \cup {NoFamily}
            /\ 0 \in Token \cup {0} /\ req \in [Req -> Request]
        BY WebTypes DEF WebInv, WebKept, Kept, TypeOK
      <4>4. req'[r].op = "logoutAll"
        BY <4>2, <4>3, StartType
      <4> QED
        BY <1>1, <2>1, <4>4
    <3> QED
      BY <1>0, <3>1, <3>2, <3>3
  <2>3. ASSUME thread'[r].step \in Busy, NEW q \in Req PROVE thread[q].step \notin Busy
    <3>1. Refreshing(r[1]) = {}
      BY <2>2, <2>3 DEF Busy
    <3>2. \/ thread[q].job \in {"login", "register", "restore"}
          \/ thread[q].step \notin {"cookie", "present", "ask", "denied", "save"}
      BY <3>1, TheTab DEF Refreshing
    <3>3. thread[r] # NoThread
      BY <1>0, <1>1
    <3>4. thread[q].job \notin {"login", "register", "restore"}
      BY <1>0, <1>1, <3>3 DEF OneAtATime, Leaving
    <3>5. thread[q].step # "everywhere"
      BY <1>0, <1>1, <3>3 DEF OneAtATime, Form
    <3> QED
      BY <3>2, <3>4, <3>5 DEF Busy
  <2>4. Serving(r)'
    BY <1>1, <2>1, <2>2 DEF Serving
  <2>5. (\A q \in Req : Serving(q)') /\ OneAtATime'
    BY <1>0, <1>2, <2>2, <2>3, <2>4, ThreadStep DEF Only
  <2>6. CookieKept'
    <3>1. \A q \in Req : Replacing(q) => Replacing(q)'
      BY <1>0, <2>1 DEF Replacing, Only
    <3>2. \A q \in Req :
            \/ thread'[q] = thread[q]
            \/ thread'[q].step \notin {"present", "denied", "ask", "save", "clear"}
            \/ thread'[q].step = "clear" /\ thread'[q].job \in Leaving
      BY <1>0, <2>2 DEF Only
    <3> QED
      BY <1>0, <1>1, <2>1, <3>1, <3>2, CookieStays
  <2> QED
    BY <2>5, <2>6 DEF WebInv
<1>3. CASE Moves(r, "everywhere") /\ thread[r].job = "logoutAll" /\ LogoutAllBegin(r)
  <2>1. \A q \in Req \ {r} : thread[q] = NoThread /\ thread'[q] = NoThread
    BY <1>0, <1>1, <1>3 DEF OneAtATime, Only
  <2>2. PICK u \in account : /\ Start(r, "logoutAll", "script", u, NoFamily, 0)
                             /\ UNCHANGED <<keys, delivered>>
    BY <1>3 DEF LogoutAllBegin
  <2>3. /\ u \in User \cup {NoUser} /\ NoFamily \in Family \cup {NoFamily}
        /\ 0 \in Token \cup {0} /\ req \in [Req -> Request]
    BY WebTypes DEF WebInv, WebKept, Kept, TypeOK
  <2>4. req'[r].op = "logoutAll" /\ \A q \in Req \ {r} : req'[q] = req[q]
    BY <2>2, <2>3, StartType
  <2>5. \A q \in Req \ {r} : req[q].op = "none"
    BY <1>1, <2>1 DEF Serving
  <2>6. \A q \in Req : Serving(q)'
    BY <1>1, <1>3, <2>1, <2>4, <2>5 DEF Serving, Moves
  <2>7. OneAtATime'
    BY <1>1, <1>3, <2>1 DEF OneAtATime, Moves, Busy
  <2>8. CookieKept'
    <3>1. Replacing(r)'
      BY <1>3 DEF Replacing, Moves
    <3>2. \A q \in Req : thread'[q].step \in {"none", "everywhere"}
      BY <1>1, <1>3, <2>1 DEF Moves
    <3> QED
      BY <3>1, <3>2 DEF CookieKept, CookieGood, Presented, Reused, Reusing, Denied, Cleared
  <2> QED
    BY <2>6, <2>7, <2>8 DEF WebInv
<1> QED
  BY <1>0, <1>2, <1>3

\* The refresh reads the cookie, or fails to.
LEMMA ReadStep ==
    ASSUME OneTab, WebInv, WebKept', NEW r \in Req, ReadCookie(r)
    PROVE  WebInv'
<1>0. /\ thread[r].step = "cookie" /\ UNCHANGED <<authVars, cookie, live, req, expired>>
      /\ expired \in Nat /\ cookie \in Nat
      /\ \A q \in Req \ {r} : thread[q].step \notin Busy /\ ~Replacing(q)
      /\ \A q \in Req : Serving(q)
      /\ ~Replacing(r) /\ thread[r].job \notin Entering
      /\ NoThread.step = "none" /\ CookieKept
  <2>1. thread[r].step = "cookie" /\ UNCHANGED <<authVars, cookie>>
    BY ReadEffect DEF WebInv
  <2>2. thread[r].job \in {"call", "restore"} \cup Leaving
    BY <2>1, JobOfStep DEF WebInv
  <2> QED
    BY <2>1, <2>2, OnlyBusy, WebTypes DEF WebInv, authVars, keys, clock, Busy, Replacing,
                                          Entering, Leaving, NoThread
<1>1. req[r].op = "none"
  BY <1>0 DEF Serving
<1>2. CASE Only(r) /\ Moves(r, "present") /\ thread'[r].token = cookie /\ UNCHANGED mishap
  <2>1. Serving(r)'
    BY <1>0, <1>1, <1>2 DEF Serving, Moves
  <2>2. (\A q \in Req : Serving(q)') /\ OneAtATime'
    BY <1>0, <1>2, <2>1, ThreadStep DEF Only, Moves, Busy
  <2>3. CookieGood'
    <3>1. Lost \/ Over \/ cookie \in live
      BY <1>0 DEF CookieKept, CookieGood
    <3> QED
      BY <1>0, <1>2, <3>1 DEF CookieGood, Lost, Over
  <2>4. ASSUME NEW q \in Req PROVE Presented(q)' /\ Reused(q)' /\ Denied(q)'
    <3>1. CASE q = r
      BY <1>0, <1>2, <3>1 DEF Presented, Reused, Reusing, Denied, Moves
    <3>2. CASE q # r
      BY <1>0, <1>2, <3>2 DEF Presented, Reused, Reusing, Denied, Only, Busy
    <3> QED
      BY <3>1, <3>2
  <2>5. ASSUME NEW q \in Req PROVE Cleared(q)'
    <3>1. SUFFICES ASSUME thread'[q].step = "clear", thread'[q].job \notin Leaving, mishap' = {}
                   PROVE  Over' /\ \A p \in Req : Fruitless(p)'
      BY DEF Cleared
    <3>2. q # r /\ thread'[q] = thread[q]
      BY <1>2, <3>1 DEF Moves, Only
    <3>3. Over /\ \A p \in Req : Fruitless(p)
      BY <1>0, <1>2, <3>1, <3>2 DEF CookieKept, Cleared
    <3>4. ASSUME NEW p \in Req PROVE Fruitless(p)'
      <4>1. CASE p = r
        BY <1>0, <1>2, <3>3, <4>1 DEF Fruitless, Moves, Over
      <4>2. CASE p # r
        BY <1>0, <1>2, <3>3, <4>2 DEF Fruitless, Only
      <4> QED
        BY <4>1, <4>2
    <3> QED
      BY <1>0, <3>3, <3>4 DEF Over
  <2> QED
    BY <2>2, <2>3, <2>4, <2>5 DEF WebInv, CookieKept
<1>3. CASE GiveUp(r) /\ ((cookie = 0 /\ UNCHANGED mishap) \/ mishap' = mishap \cup {"call"})
  <2>1. mishap \subseteq mishap' /\ (Over \/ mishap' # {})
    BY <1>0, <1>3 DEF Over
  <2> QED
    BY <1>0, <1>1, <1>3, <2>1, GiveUpStep
<1>4. CASE Only(r) /\ thread'[r] = NoThread /\ mishap' = mishap \cup {"call"}
  <2>1. Serving(r)'
    BY <1>0, <1>1, <1>4 DEF Serving
  <2>2. (\A q \in Req : Serving(q)') /\ OneAtATime'
    BY <1>0, <1>4, <2>1, ThreadStep DEF Only, Busy
  <2>3. CookieKept'
    BY <1>0, <1>4, CookieStays DEF Only
  <2> QED
    BY <2>2, <2>3 DEF WebInv
<1> QED
  BY <1>2, <1>3, <1>4, ReadEffect DEF WebInv

\* The token is presented: the auth service begins a refresh, or refuses.
LEMMA PresentStep ==
    ASSUME OneTab, WebInv, WebKept', NEW r \in Req, PresentToken(r)
    PROVE  WebInv'
<1>0. /\ thread[r].step = "present" /\ UNCHANGED cookie /\ Only(r)
      /\ expired \in Nat /\ cookie \in Nat /\ thread[r].token \in Nat
      /\ swept \in Nat /\ swept <= expired
      /\ \A q \in Req \ {r} : /\ thread[q].step \notin Busy /\ req[q].op = "none"
                              /\ ~Replacing(q) /\ ~Reusing(q)
      /\ \A q \in Req : Serving(q)
      /\ ~Replacing(r) /\ thread[r].job \notin Entering
      /\ OneAtATime /\ CookieKept /\ req[r].op = "none"
  <2>1. thread[r].step = "present" /\ UNCHANGED cookie /\ Only(r)
    BY PresentEffect DEF WebInv
  <2>2. thread[r].job \in {"call", "restore"} \cup Leaving
    BY <2>1, JobOfStep DEF WebInv
  <2> QED
    BY <2>1, <2>2, OnlyBusy, WebTypes DEF WebInv, Busy, Replacing, Entering, Leaving, Serving
<1>g. Lost \/ Over \/ cookie \in live
  BY <1>0 DEF CookieKept, CookieGood
<1>1. CASE /\ Moves(r, "ask") /\ UNCHANGED mishap /\ RefreshBegin(r)
           /\ req'[r].token = thread[r].token /\ thread[r].token > expired
  <2>1. PICK t \in delivered, stage \in {"store", "members"} :
          /\ Start(r, "refresh", stage, Owner[familyOf[t]], familyOf[t], t)
          /\ ~Stored(t) <=> stage = "members"
          /\ UNCHANGED <<clock, keys, delivered>>
    BY <1>1 DEF RefreshBegin
  <2>2. /\ req \in [Req -> Request] /\ "refresh" \in Operation /\ stage \in Stage
        /\ t \in Token \cup {0} /\ familyOf[t] \in Family \cup {NoFamily}
        /\ Owner[familyOf[t]] \in User \cup {NoUser}
    <3>1. t \in 1..issued /\ issued \in Nat /\ issued <= MaxToken /\ req \in [Req -> Request]
      BY <2>1, WebTypes DEF WebInv
    <3>2. familyOf[t] \in Family
      BY <3>1 DEF WebInv, WebKept, Kept, Owned
    <3>3. Owner[familyOf[t]] \in User
      BY <3>2
    <3>4. t \in Token
      BY <3>1
    <3> QED
      BY <3>1, <3>2, <3>3, <3>4
  <2>3. /\ \A q \in Req \ {r} : req'[q] = req[q]
        /\ req'[r].op = "refresh" /\ req'[r].stage = stage /\ req'[r].token = t
    <3> DEFINE f == familyOf[t]
               u == Owner[f]
    <3>1. Start(r, "refresh", stage, u, f, t)
      BY <2>1
    <3>2. f \in Family \cup {NoFamily} /\ u \in User \cup {NoUser}
      BY <2>2
    <3> HIDE DEF f, u
    <3> QED
      BY <2>2, <3>1, <3>2, StartType
  <2>4. UNCHANGED <<live, delivered, expired, swept>>
    BY <2>1 DEF keys, clock
  <2>5. \A q \in Req : Serving(q)'
    <3>1. Serving(r)'
      BY <1>0, <1>1, <2>3, <2>4 DEF Serving, Moves, Deleting
    <3>2. \A q \in Req \ {r} : Serving(q)'
      BY <1>0, <2>3, <2>4 DEF Serving, Only
    <3> QED
      BY <3>1, <3>2
  <2>6. OneAtATime'
    <3>1. \A q \in Req \ {r} : thread'[q].step \notin Busy
      BY <1>0 DEF Only
    <3>2. ASSUME NEW p \in Req, NEW q \in Req, p # q, thread'[p].job \notin {"none", "call"}
          PROVE  thread'[q] = NoThread
      <4>1. thread[q] = NoThread
        BY <1>0, <1>1, <3>2 DEF OneAtATime, Only, Moves
      <4>2. q # r
        BY <1>0, <4>1 DEF NoThread
      <4> QED
        BY <1>0, <4>1, <4>2 DEF Only
    <3> QED
      BY <3>1, <3>2 DEF OneAtATime
  <2>7. CookieKept'
    <3>1. CookieGood'
      BY <1>0, <1>1, <1>g, <2>4 DEF CookieGood, Lost, Over
    <3>2. Reused(r)'
      <4>1. CASE stage = "store"
        BY <2>3, <4>1 DEF Reused, Reusing
      <4>2. CASE stage = "members"
        <5>1. t = cookie => t \notin live
          BY <1>0, <1>1, <2>1, <2>3, <4>2 DEF Stored
        <5>2. t = cookie \/ Over
          BY <1>0, <1>1, <2>3 DEF CookieKept, Presented
        <5>3. Lost \/ Over
          BY <1>g, <5>1, <5>2
        <5> QED
          BY <1>0, <1>1, <2>4, <5>3 DEF Reused, Lost, Over
      <4> QED
        BY <4>1, <4>2
    <3>3. ASSUME NEW q \in Req PROVE Presented(q)' /\ Reused(q)' /\ Denied(q)'
      <4>1. CASE q = r
        BY <1>1, <3>2, <4>1 DEF Presented, Denied, Moves
      <4>2. CASE q # r
        BY <1>0, <4>2 DEF Presented, Reused, Reusing, Denied, Only, Busy
      <4> QED
        BY <4>1, <4>2
    <3>4. ASSUME NEW q \in Req PROVE Cleared(q)'
      <4>1. SUFFICES ASSUME thread'[q].step = "clear", thread'[q].job \notin Leaving, mishap' = {}
                     PROVE  FALSE
        BY DEF Cleared
      <4>2. q # r /\ thread'[q] = thread[q]
        BY <1>0, <1>1, <4>1 DEF Moves, Only
      <4>3. Fruitless(r)
        BY <1>0, <1>1, <4>1, <4>2 DEF CookieKept, Cleared
      <4> QED
        BY <1>0, <1>1, <4>3 DEF Fruitless
    <3> QED
      BY <3>1, <3>3, <3>4 DEF CookieKept
  <2> QED
    BY <2>5, <2>6, <2>7 DEF WebInv
<1>2. CASE /\ Moves(r, "denied") /\ UNCHANGED authVars
           /\ \/ UNCHANGED mishap /\ thread[r].token <= expired
              \/ mishap' = mishap \cup {"call"}
  <2>1. UNCHANGED <<live, req, expired>>
    BY <1>2 DEF authVars, keys, clock
  <2>2. Serving(r)'
    BY <1>0, <1>2, <2>1 DEF Serving, Moves
  <2>3. (\A q \in Req : Serving(q)') /\ OneAtATime'
    BY <1>0, <1>2, <2>2, ThreadStep DEF Only, Moves, Busy
  <2>m. mishap \subseteq mishap'
    BY <1>2
  <2>4. CookieGood'
    BY <1>0, <1>g, <2>1, <2>m DEF CookieGood, Lost, Over
  <2>5. Denied(r)'
    <3>1. CASE UNCHANGED mishap /\ thread[r].token <= expired
      <4>1. Over
        BY <1>0, <3>1 DEF CookieKept, Presented, Over
      <4> QED
        BY <1>0, <2>1, <4>1 DEF Denied, Over
    <3>2. CASE mishap' = mishap \cup {"call"}
      BY <3>2 DEF Denied
    <3> QED
      BY <1>2, <3>1, <3>2
  <2>6. ASSUME NEW q \in Req PROVE Presented(q)' /\ Reused(q)' /\ Denied(q)'
    <3>1. CASE q = r
      BY <1>2, <2>5, <3>1 DEF Presented, Reused, Reusing, Moves
    <3>2. CASE q # r
      BY <1>0, <3>2 DEF Presented, Reused, Reusing, Denied, Only, Busy
    <3> QED
      BY <3>1, <3>2
  <2>7. ASSUME NEW q \in Req PROVE Cleared(q)'
    <3>1. SUFFICES ASSUME thread'[q].step = "clear", thread'[q].job \notin Leaving, mishap' = {}
                   PROVE  Over' /\ \A p \in Req : Fruitless(p)'
      BY DEF Cleared
    <3>2. q # r /\ thread'[q] = thread[q] /\ mishap = {}
      BY <1>0, <1>2, <2>m, <3>1 DEF Moves, Only
    <3>3. Over /\ \A p \in Req : Fruitless(p)
      BY <1>0, <3>1, <3>2 DEF CookieKept, Cleared
    <3>4. ASSUME NEW p \in Req PROVE Fruitless(p)'
      <4>1. CASE p = r
        BY <1>2, <4>1 DEF Fruitless, Moves
      <4>2. CASE p # r
        BY <1>0, <2>1, <3>3, <4>2 DEF Fruitless, Only
      <4> QED
        BY <4>1, <4>2
    <3> QED
      BY <1>0, <2>1, <3>3, <3>4 DEF Over
  <2> QED
    BY <2>3, <2>4, <2>6, <2>7 DEF WebInv, CookieKept
<1> QED
  BY <1>1, <1>2, PresentEffect DEF WebInv

\* The auth service has answered.
LEMMA GrantedStep ==
    ASSUME OneTab, WebInv, WebKept', NEW r \in Req, Granted(r)
    PROVE  WebInv'
<1>0. /\ thread[r].step = "ask" /\ req[r].op = "none" /\ req[r].answer = "ok"
      /\ UNCHANGED <<authVars, cookie, mishap, live, req, expired>> /\ expired \in Nat
      /\ Only(r) /\ Moves(r, "save") /\ thread'[r].token = thread[r].token
      /\ \A q \in Req \ {r} : thread[q].step \notin Busy
      /\ \A q \in Req : Serving(q)
      /\ CookieKept
  BY GrantedEffect, OnlyBusy, WebTypes DEF WebInv, authVars, keys, clock, Busy
<1>1. Serving(r)'
  BY <1>0 DEF Serving, Moves
<1>2. (\A q \in Req : Serving(q)') /\ OneAtATime'
  BY <1>0, <1>1, ThreadStep DEF Only, Moves, Busy
<1>3. CookieKept'
  <2>1. Replacing(r)'
    BY <1>0 DEF Replacing, Moves
  <2>2. \A q \in Req : Presented(q)' /\ Reused(q)' /\ Denied(q)'
    BY <1>0 DEF Presented, Reused, Reusing, Denied, Only, Moves, Busy
  <2>3. ASSUME NEW q \in Req PROVE Cleared(q)'
    <3>1. SUFFICES ASSUME thread'[q].step = "clear", thread'[q].job \notin Leaving, mishap' = {}
                   PROVE  FALSE
      BY DEF Cleared
    <3>2. q # r /\ thread'[q] = thread[q]
      BY <1>0, <3>1 DEF Moves, Only
    <3>3. Fruitless(r)
      BY <1>0, <3>1, <3>2 DEF CookieKept, Cleared
    <3> QED
      BY <1>0, <3>3 DEF Fruitless
  <2> QED
    BY <2>1, <2>2, <2>3 DEF CookieKept, CookieGood
<1> QED
  BY <1>2, <1>3 DEF WebInv

\* Or refused: for a reason, and what the tab was waiting for is lost.
LEMMA RefusedReason ==
    ASSUME WebInv, NEW r \in Req, Refused(r), thread[r].job \notin Entering
    PROVE  /\ mishap \subseteq mishap'
           /\ Over \/ mishap' # {}
           /\ Replacing(r) => Lost'
<1>0. /\ CookieKept /\ Serving(r) /\ Shape(r)
      /\ \/ thread[r].step = "denied" /\ UNCHANGED mishap
         \/ /\ thread[r].step = "ask" /\ req[r].op = "none"
            /\ mishap' = mishap \cup Loss(req[r].answer)
  BY RefusedEffect, WebTypes DEF WebInv
<1>1. CASE thread[r].step = "denied" /\ UNCHANGED mishap
  BY <1>0, <1>1 DEF CookieKept, Denied, Replacing
<1>2. CASE thread[r].step = "ask" /\ req[r].op = "none"
           /\ mishap' = mishap \cup Loss(req[r].answer)
  <2>1. req[r].answer # "duplicate" /\ req[r].stage = "idle"
    BY <1>0, <1>2 DEF Serving, Shape
  <2>2. CASE req[r].answer \in {"revoked", "unrevoked"}
    <3>1. Lost \/ Over
      BY <1>0, <1>2, <2>2 DEF CookieKept, Reused, Reusing
    <3>2. Over \/ mishap' # {}
      BY <1>2, <3>1 DEF Lost
    <3>3. ~Replacing(r)
      BY <1>2, <2>1, <2>2 DEF Replacing, Deleting
    <3> QED
      BY <1>2, <3>2, <3>3
  <2>3. CASE req[r].answer = "failed"
    <3>1. "call" \in mishap'
      BY <1>2, <2>3 DEF Loss
    <3>2. ~Replacing(r)
      BY <1>2, <2>1, <2>3 DEF Replacing, Deleting
    <3>3. mishap' # {}
      BY <3>1
    <3> QED
      BY <1>2, <3>2, <3>3
  <2>4. CASE req[r].answer \notin {"duplicate", "revoked", "unrevoked", "failed"}
    <3>1. Lost'
      BY <1>2, <2>4 DEF Loss, Lost
    <3>2. mishap' # {}
      BY <3>1 DEF Lost
    <3> QED
      BY <1>2, <3>1, <3>2
  <2> QED
    BY <2>1, <2>2, <2>3, <2>4
<1> QED
  BY <1>0, <1>1, <1>2

LEMMA RefusedStep ==
    ASSUME OneTab, WebInv, WebKept', NEW r \in Req, Refused(r)
    PROVE  WebInv'
<1>0. /\ UNCHANGED <<authVars, cookie, live, req, expired>> /\ expired \in Nat
      /\ thread[r].step \in {"ask", "denied"} /\ req[r].op = "none"
      /\ \A q \in Req : Serving(q)
      /\ NoThread.step = "none"
      /\ mishap \subseteq mishap'
  <2>1. /\ UNCHANGED <<authVars, cookie>>
        /\ \/ thread[r].step = "denied" /\ UNCHANGED mishap
           \/ /\ thread[r].step = "ask" /\ req[r].op = "none"
              /\ mishap' = mishap \cup Loss(req[r].answer)
    BY RefusedEffect DEF WebInv
  <2>2. req[r].op = "none"
    BY <2>1 DEF WebInv, Serving
  <2> QED
    BY <2>1, <2>2, WebTypes DEF WebInv, authVars, keys, clock, NoThread
<1>1. CASE thread[r].job \notin Entering
  <2>1. GiveUp(r)
    BY <1>1, RefusedEffect DEF WebInv
  <2>2. /\ Over \/ mishap' # {}
        /\ Replacing(r) => Lost'
    BY <1>1, RefusedReason
  <2> QED
    BY <1>0, <1>1, <2>1, <2>2, GiveUpStep
<1>2. CASE thread[r].job \in Entering
  <2>1. Only(r) /\ thread'[r] = NoThread
    BY <1>2, RefusedEffect DEF WebInv
  <2>2. Serving(r)'
    BY <1>0, <2>1 DEF Serving
  <2>3. (\A q \in Req : Serving(q)') /\ OneAtATime'
    BY <1>0, <2>1, <2>2, ThreadStep DEF Only, Busy
  <2>4. CookieKept'
    <3>1. ~Replacing(r)
      BY <1>0, <1>2 DEF Replacing
    <3>2. \A q \in Req \ {r} : Replacing(q) => Replacing(q)'
      BY <1>0, <2>1 DEF Replacing, Only
    <3> QED
      BY <1>0, <2>1, <3>1, <3>2, CookieStays DEF Only
  <2> QED
    BY <2>3, <2>4 DEF WebInv
<1> QED
  BY <1>1, <1>2

\* Logout everywhere came through, or not.
LEMMA EverywhereStep ==
    ASSUME OneTab, WebInv, WebKept', NEW r \in Req, LoggedOutEverywhere(r)
    PROVE  WebInv'
<1>0. /\ UNCHANGED <<authVars, cookie, live, req, expired>> /\ expired \in Nat
      /\ thread[r].step = "everywhere" /\ req[r].op = "none" /\ thread[r].job = "logoutAll"
      /\ \A q \in Req : Serving(q)
      /\ Only(r) /\ NoThread.step = "none"
      /\ \/ Moves(r, "clear") /\ UNCHANGED mishap
         \/ thread'[r] = NoThread /\ mishap' = mishap \cup {"token"}
  <2>1. UNCHANGED <<authVars, cookie>> /\ thread[r].step = "everywhere"
    BY EverywhereEffect DEF WebInv
  <2>2. thread[r].job = "logoutAll"
    BY <2>1, WebTypes DEF WebInv, Form
  <2> QED
    BY <2>1, <2>2, EverywhereEffect, WebTypes DEF WebInv, authVars, keys, clock, NoThread
<1>1. Serving(r)' /\ thread'[r].step \in {"clear", "none"}
  BY <1>0 DEF Serving, Moves
<1>2. (\A q \in Req : Serving(q)') /\ OneAtATime'
  BY <1>0, <1>1, ThreadStep DEF Only, Moves, Busy
<1>3. CookieKept'
  <2>1. Replacing(r)' \/ Lost'
    BY <1>0 DEF Replacing, Moves, Leaving, Lost
  <2>2. \A q \in Req \ {r} : Replacing(q) => Replacing(q)'
    BY <1>0 DEF Replacing, Only
  <2>3. thread'[r].step = "clear" => thread'[r].job \in Leaving
    BY <1>0 DEF Moves, Leaving
  <2>4. mishap \subseteq mishap' /\ expired <= expired'
    BY <1>0
  <2>5. \A q \in Req :
          \/ thread'[q] = thread[q]
          \/ thread'[q].step \notin {"present", "denied", "ask", "save", "clear"}
          \/ thread'[q].step = "clear" /\ thread'[q].job \in Leaving
    BY <1>0, <1>1, <2>3 DEF Only
  <2>6. \A q \in Req : Replacing(q) => Replacing(q)' \/ Lost'
    BY <2>1, <2>2
  <2> QED
    BY <1>0, <2>4, <2>5, <2>6, CookieStays
<1> QED
  BY <1>2, <1>3 DEF WebInv

\* Tokens that are handed out are in Redis.
Handed == delivered' # delivered =>
            \E t \in live' : t \notin delivered /\ delivered' = delivered \cup {t}

\* How a refresh goes on: the token is stored, the old one deleted; or the token
\* was used before.
Renewed(r) ==
    LET q == req[r]
        n == req'[r]
    IN
    \/ /\ q.stage = "store" /\ live \subseteq live'
       /\ \/ n.op = "refresh" /\ n.stage = "find"
          \/ n.op = "none" /\ n.answer = "failed"
    \/ /\ q.stage \in Deleting
       /\ \/ n.op = "refresh" /\ n.stage \in Deleting
          \/ n.op = "none" /\ n.answer \in {"ok", "lost"}
    \/ /\ q.stage \in {"members", "revoke"}
       /\ \/ n.op = "refresh" /\ n.stage = "revoke"
          \/ n.op = "none" /\ n.answer \in {"revoked", "unrevoked", "lost"}

\* What a tab can see of a step of the auth service.
Progress(r) ==
    LET q == req[r]
        n == req'[r]
    IN
    /\ q.op # "none" /\ n.op \in {q.op, "none"}
    /\ \A p \in Req \ {r} : req'[p] = req[p]
    /\ UNCHANGED clock
    /\ Handed /\ (delivered' # delivered => n.op = "none")
    /\ q.op \in Entering => live \subseteq live'
    /\ q.op = "refresh" => Renewed(r)
    /\ n.op = "refresh" /\ n.stage \in Deleting =>
         n.fresh \in live' \ delivered' /\ n.fresh # n.token
    /\ q.op \in {"refresh"} \cup Entering /\ n.op = "none" /\ n.answer = "ok" =>
         delivered' # delivered

\* A request ends with an answer that hands nothing out.
LEMMA EndsEmpty ==
    ASSUME Kept, NEW r \in Req, NEW answer \in Reply, Answer(r, answer),
           req[r].op # "none", UNCHANGED clock, delivered' = delivered,
           req[r].op \in Entering => live \subseteq live' /\ answer # "ok",
           req[r].op = "refresh" =>
             \/ req[r].stage = "store" /\ live \subseteq live' /\ answer = "failed"
             \/ req[r].stage \in Deleting /\ answer = "lost"
             \/ req[r].stage \in {"members", "revoke"} /\ answer \in {"revoked", "unrevoked", "lost"}
    PROVE  Progress(r)
<1>1. req \in [Req -> Request]
  BY DEF Kept, TypeOK
<1>2. /\ \A q \in Req \ {r} : req'[q] = req[q]
      /\ req'[r].op = "none" /\ req'[r].answer = answer
  BY <1>1, AnswerType
<1> QED
  BY <1>2 DEF Progress, Handed, Renewed

\* A request ends and hands out a token of its own.
LEMMA EndsWith ==
    ASSUME Kept, NEW r \in Req, NEW t, Deliver(r, t), UNCHANGED clock,
           t \in live', t \notin delivered,
           \/ req[r].op \in Entering /\ live \subseteq live'
           \/ req[r].op = "refresh" /\ req[r].stage \in Deleting
    PROVE  Progress(r)
<1>1. req \in [Req -> Request] /\ "ok" \in Reply
  BY DEF Kept, TypeOK, Reply
<1>2. Answer(r, "ok") /\ delivered' = delivered \cup {t}
  BY DEF Deliver
<1>3. /\ \A q \in Req \ {r} : req'[q] = req[q]
      /\ req'[r].op = "none" /\ req'[r].answer = "ok"
  BY <1>1, <1>2, AnswerType
<1> QED
  BY <1>2, <1>3 DEF Progress, Handed, Renewed, Entering

\* A request goes on and hands nothing out.
LEMMA GoesOn ==
    ASSUME Kept, NEW r \in Req, NEW stage \in Stage, Goto(r, stage),
           req[r].op # "none", UNCHANGED clock, delivered' = delivered,
           req[r].op \in Entering => live \subseteq live',
           req[r].op = "refresh" =>
             \/ /\ req[r].stage \in Deleting /\ stage \in Deleting
                /\ req[r].fresh \in live' \ delivered /\ req[r].fresh # req[r].token
             \/ req[r].stage = "members" /\ stage = "revoke"
    PROVE  Progress(r)
<1>1. req \in [Req -> Request]
  BY DEF Kept, TypeOK
<1>2. /\ \A q \in Req \ {r} : req'[q] = req[q]
      /\ req'[r].stage = stage /\ req'[r].op = req[r].op
      /\ req'[r].fresh = req[r].fresh /\ req'[r].token = req[r].token
  BY <1>1, GotoType
<1> QED
  BY <1>2 DEF Progress, Handed, Renewed, Deleting

\* The second half of a refresh hands out the token it stored.
LEMMA ConcludedProgress ==
    ASSUME Kept, NEW r \in Req, NEW ok \in BOOLEAN, Concluded(r, ok),
           req[r].stage \in Deleting, UNCHANGED clock,
           req[r].op = "refresh" => req[r].fresh \in live' \ delivered
    PROVE  Progress(r)
<1>1. Shape(r)
  BY DEF Kept
<1>2. req[r].op \in {"refresh", "logout"}
  BY <1>1 DEF Shape
<1>3. CASE req[r].op = "refresh"
  BY <1>3, EndsWith DEF Concluded
<1>4. CASE req[r].op = "logout"
  <2>1. \E answer \in Reply : Answer(r, answer) /\ delivered' = delivered
    BY <1>4 DEF Concluded, Reply
  <2> QED
    BY <1>4, <2>1, EndsEmpty DEF Entering
<1> QED
  BY <1>2, <1>3, <1>4

\* The auth service works on a request, fails, or is cut short.
LEMMA ServeProgress ==
    ASSUME Kept, NEW r \in Req, Proceed(r) \/ Stop(r), Serving(r)
    PROVE  Progress(r)
<1>0. /\ Shape(r) /\ req \in [Req -> Request] /\ req[r] \in Request
      /\ issued \in Nat /\ live \subseteq 1..issued /\ delivered \subseteq 1..issued
      /\ {"find", "remove", "count", "clean", "store", "revoke"} \subseteq Stage
  BY DEF Kept, TypeOK
<1>r. {"ok", "duplicate", "revoked", "unrevoked", "failed", "lost"} \subseteq Reply
  BY DEF Reply
<1>1. CASE CreateUser(r)
  <2>1. /\ req[r].op = "register" /\ UNCHANGED <<clock, delivered, live>>
        /\ Answer(r, "duplicate") \/ Goto(r, "store")
    BY <1>0, <1>1 DEF CreateUser, At, Shape, keys
  <2> QED
    BY <1>0, <1>r, <2>1, EndsEmpty, GoesOn DEF Entering
<1>2. CASE StoreRefreshToken(r)
  <2> DEFINE t == issued + 1
  <2>1. /\ req[r].stage = "store" /\ req[r].op \in {"register", "login", "refresh"}
        /\ live' = live \cup {t} /\ UNCHANGED clock
        /\ t \notin delivered /\ t \in live' /\ live \subseteq live'
        /\ req[r].op = "refresh" => req[r].token # t
        /\ req[r].op # "none"
    BY <1>0, <1>2 DEF StoreRefreshToken, At, Shape
  <2>2. \/ Answer(r, "failed") /\ UNCHANGED delivered
        \/ req[r].op # "refresh" /\ Deliver(r, t)
        \/ /\ req[r].op = "refresh" /\ delivered' = delivered
           /\ req' = [req EXCEPT ![r].stage = "find", ![r].fresh = t]
    BY <1>2 DEF StoreRefreshToken
  <2>3. CASE Answer(r, "failed") /\ UNCHANGED delivered
    BY <1>r, <2>1, <2>3, EndsEmpty
  <2>4. CASE req[r].op # "refresh" /\ Deliver(r, t)
    <3>1. req[r].op \in Entering
      BY <2>1, <2>4 DEF Entering
    <3> HIDE DEF t
    <3> QED
      BY <2>1, <2>4, <3>1, EndsWith
  <2>5. CASE /\ req[r].op = "refresh" /\ delivered' = delivered
             /\ req' = [req EXCEPT ![r].stage = "find", ![r].fresh = t]
    <3>1. /\ \A q \in Req \ {r} : req'[q] = req[q]
          /\ req'[r].stage = "find" /\ req'[r].op = "refresh"
          /\ req'[r].fresh = t /\ req'[r].token = req[r].token
      BY <1>0, <2>5 DEF Request
    <3> HIDE DEF t
    <3>2. req'[r].fresh \in live' \ delivered' /\ req'[r].fresh # req'[r].token
      BY <2>1, <2>5, <3>1
    <3>3. Handed /\ delivered' = delivered
      BY <2>5 DEF Handed
    <3>4. Renewed(r)
      BY <2>1, <3>1 DEF Renewed
    <3>5. UNCHANGED clock /\ req[r].op = "refresh" /\ "refresh" \notin Entering
      BY <2>1, <2>5 DEF Entering
    <3> QED
      BY <3>1, <3>2, <3>3, <3>4, <3>5 DEF Progress
  <2> QED
    BY <2>2, <2>3, <2>4, <2>5
<1>3. CASE FamilyMembers(r)
  <2>1. /\ req[r].stage = "members" /\ req[r].op = "refresh"
        /\ UNCHANGED <<clock, delivered, live>>
        /\ req' = [req EXCEPT ![r].stage = "revoke", ![r].seen = Members(req[r].family)]
    BY <1>0, <1>3 DEF FamilyMembers, At, Shape, keys
  <2>2. /\ \A q \in Req \ {r} : req'[q] = req[q]
        /\ req'[r].stage = "revoke" /\ req'[r].op = "refresh"
    BY <1>0, <2>1 DEF Request
  <2> QED
    BY <2>1, <2>2 DEF Progress, Handed, Renewed, Deleting, Entering
<1>4. CASE DeleteTokenFamily(r)
  <2>1. /\ req[r].stage = "revoke" /\ req[r].op = "refresh" /\ UNCHANGED <<clock, delivered>>
        /\ Answer(r, "revoked") \/ Answer(r, "unrevoked")
    BY <1>0, <1>4 DEF DeleteTokenFamily, At, Shape
  <2>2. PICK answer \in {"revoked", "unrevoked"} : Answer(r, answer)
    BY <2>1
  <2>3. answer \in Reply
    BY <1>r
  <2>4. req[r].op # "none" /\ req[r].op \notin Entering
    BY <2>1 DEF Entering
  <2> QED
    BY <2>1, <2>2, <2>3, <2>4, EndsEmpty
\* A refresh has its new token in Redis until it is handed out.
<1>f. ASSUME req[r].stage \in Deleting, req[r].op = "refresh",
             live' = live \/ live' = live \ {req[r].token}
      PROVE  req[r].fresh \in live' \ delivered /\ req[r].fresh # req[r].token
  BY <1>f DEF Serving
<1>5. CASE FindToken(r)
  <2>1. /\ req[r].stage \in Deleting /\ UNCHANGED clock /\ live' = live
        /\ req[r].op \in {"refresh", "logout"}
        /\ \/ Goto(r, "remove") /\ delivered' = delivered
           \/ \E ok \in BOOLEAN : Concluded(r, ok)
    BY <1>0, <1>5 DEF FindToken, At, Deleting, keys, Shape
  <2>2. CASE Goto(r, "remove") /\ delivered' = delivered
    BY <1>0, <1>f, <2>1, <2>2, GoesOn DEF Deleting, Entering
  <2> QED
    BY <1>f, <2>1, <2>2, ConcludedProgress
<1>6. CASE RemoveToken(r)
  <2>1. PICK done \in 0..2, ok \in BOOLEAN :
          /\ live' = IF done > 0 THEN live \ {req[r].token} ELSE live
          /\ IF ok THEN Goto(r, "count") /\ UNCHANGED delivered ELSE Concluded(r, FALSE)
    BY <1>6, Zenon DEF RemoveToken
  <2>2. /\ req[r].stage \in Deleting /\ UNCHANGED clock
        /\ req[r].op \in {"refresh", "logout"}
        /\ live' = live \/ live' = live \ {req[r].token}
    BY <1>0, <1>6, <2>1 DEF RemoveToken, At, Deleting, Shape
  <2>3. CASE Goto(r, "count") /\ UNCHANGED delivered
    BY <1>0, <1>f, <2>2, <2>3, GoesOn DEF Deleting, Entering
  <2>4. CASE Concluded(r, FALSE)
    BY <1>f, <2>2, <2>4, ConcludedProgress
  <2> QED
    BY <2>1, <2>3, <2>4
<1>7. CASE CountFamily(r)
  <2>1. /\ req[r].stage \in Deleting /\ UNCHANGED clock /\ live' = live
        /\ req[r].op \in {"refresh", "logout"}
        /\ \/ Goto(r, "clean") /\ delivered' = delivered
           \/ \E ok \in BOOLEAN : Concluded(r, ok)
    BY <1>0, <1>7 DEF CountFamily, At, Deleting, keys, Shape
  <2>2. CASE Goto(r, "clean") /\ delivered' = delivered
    BY <1>0, <1>f, <2>1, <2>2, GoesOn DEF Deleting, Entering
  <2> QED
    BY <1>f, <2>1, <2>2, ConcludedProgress
<1>8. CASE CleanFamily(r)
  <2>1. /\ req[r].stage \in Deleting /\ UNCHANGED clock /\ live' = live
        /\ \E ok \in BOOLEAN : Concluded(r, ok)
    BY <1>8 DEF CleanFamily, At, Deleting
  <2> QED
    BY <1>f, <2>1, ConcludedProgress
<1>9. CASE DeleteAllUserTokens(r)
  <2>1. /\ req[r].op = "logoutAll" /\ UNCHANGED <<clock, delivered>> /\ Answer(r, "ok")
    BY <1>0, <1>9 DEF DeleteAllUserTokens, At, Shape
  <2> QED
    BY <1>r, <2>1, EndsEmpty DEF Entering
<1>10. CASE Stop(r)
  <2>1. /\ UNCHANGED <<clock, delivered, live>> /\ req[r].op # "none"
        /\ Answer(r, IF req[r].stage \in {"store", "insert"} THEN "failed" ELSE "lost")
        /\ req[r].op = "refresh" => req[r].stage \in {"store", "members", "revoke"} \cup Deleting
    BY <1>0, <1>10 DEF Stop, At, Shape, keys, Request, Deleting
  <2>2. CASE req[r].stage \in {"store", "insert"}
    BY <1>r, <2>1, <2>2, EndsEmpty DEF Deleting
  <2>3. CASE req[r].stage \notin {"store", "insert"}
    BY <1>r, <2>1, <2>3, EndsEmpty
  <2> QED
    BY <2>2, <2>3
<1> QED
  BY <1>1, <1>2, <1>3, <1>4, <1>5, <1>6, <1>7, <1>8, <1>9, <1>10 DEF Proceed

\* The auth service works for a thread.
LEMMA ServeStep ==
    ASSUME WebInv, WebKept', NEW r \in Req, Serve(r)
    PROVE  WebInv'
<1>1. /\ Proceed(r) \/ Stop(r)
      /\ UNCHANGED <<cookie, mishap>> /\ Only(r) /\ Moves(r, thread[r].step)
      /\ \/ thread' = thread /\ (delivered' = delivered \/ thread[r].step # "ask")
         \/ /\ thread[r].step = "ask" /\ thread'[r].token \in delivered'
            /\ thread'[r].token \notin delivered
  BY ServeEffect DEF WebInv, WebKept
<1>2. Progress(r)
  BY <1>1, ServeProgress DEF WebInv, WebKept
<1>3. /\ req[r].op # "none" /\ req'[r].op \in {req[r].op, "none"}
      /\ \A p \in Req \ {r} : req'[p] = req[p]
      /\ UNCHANGED expired
  BY <1>2 DEF Progress, clock
<1>4. /\ \A q \in Req : Serving(q) /\ Shape(q)' /\ Form(q)
      /\ OneAtATime /\ CookieKept /\ NoThread.step = "none"
  BY WebTypes DEF WebInv, WebKept, Kept, NoThread
<1>5. /\ thread[r].step \in {"ask", "everywhere"}
      /\ thread[r].step = "everywhere" => req[r].op = "logoutAll"
      /\ thread[r].step = "ask" =>
           req[r].op \in (IF thread[r].job \in Entering THEN Entering ELSE {"refresh"})
  BY <1>3, <1>4 DEF Serving
<1>6. /\ \A q \in Req \ {r} : thread[q].step \notin Busy /\ req[q].op = "none"
      /\ \A q \in Req \ {r} : ~Replacing(q)
  BY <1>5, OnlyBusy DEF Busy
\* The refresh is under way, or over.
<1>7. /\ thread'[r].job = thread[r].job /\ thread'[r].step = thread[r].step
      /\ \A q \in Req \ {r} : thread'[q] = thread[q]
  BY <1>1 DEF Only, Moves
<1>8. ASSUME NEW q \in Req PROVE Serving(q)'
  <2>1. CASE q # r
    BY <1>3, <1>6, <1>7, <2>1 DEF Serving, Busy
  <2>2. CASE q = r
    <3>1. req'[r].op = "refresh" /\ req'[r].stage \in Deleting =>
            req'[r].fresh \in live' \ delivered' /\ req'[r].fresh # req'[r].token
      BY <1>2 DEF Progress
    <3>2. thread[r].step = "ask" /\ req'[r].op = "none" /\ req'[r].answer = "ok" =>
            thread'[r].token \in live'
      <4> SUFFICES ASSUME thread[r].step = "ask", req'[r].op = "none", req'[r].answer = "ok"
                   PROVE  thread'[r].token \in live'
        OBVIOUS
      <4>1. delivered' # delivered
        BY <1>2, <1>5 DEF Progress
      <4>2. \E t \in live' : t \notin delivered /\ delivered' = delivered \cup {t}
        BY <1>2, <4>1 DEF Progress, Handed
      <4> QED
        BY <1>1, <4>1, <4>2
    <3>3. thread[r].step = "ask" /\ req'[r].op = "none" /\ thread[r].job \notin Entering =>
            req'[r].answer # "duplicate"
      BY <1>2, <1>5 DEF Progress, Renewed
    <3> QED
      BY <1>3, <1>5, <1>7, <2>2, <3>1, <3>2, <3>3 DEF Serving
  <2> QED
    BY <2>1, <2>2
<1>9. OneAtATime'
  <2>1. \A q \in Req : thread'[q].job = thread[q].job /\ thread'[q].step = thread[q].step
    BY <1>7
  <2>2. ASSUME NEW q \in Req, NEW p \in Req, q # p, thread'[q].job \notin {"none", "call"}
        PROVE  thread'[p] = NoThread
    <3>1. thread[p] = NoThread
      BY <1>4, <2>1, <2>2 DEF OneAtATime
    <3>2. p # r
      BY <1>4, <1>5, <3>1
    <3> QED
      BY <1>7, <3>1, <3>2
  <2> QED
    BY <1>4, <2>1, <2>2 DEF OneAtATime
<1>10. CookieKept'
  <2>1. Reusing(r)' => Reusing(r)
    <3> SUFFICES ASSUME Reusing(r)' PROVE Reusing(r)
      OBVIOUS
    <3>1. /\ thread[r].step = "ask" /\ thread[r].job \notin Entering
          /\ \/ req'[r].stage \in {"members", "revoke"}
             \/ req'[r].op = "none" /\ req'[r].answer \in {"revoked", "unrevoked"}
      BY <1>7 DEF Reusing
    <3>2. Renewed(r)
      BY <1>2, <1>5, <3>1 DEF Progress
    <3>3. req'[r].op = "none" => req'[r].stage = "idle"
      BY <1>4 DEF Shape
    <3>4. req[r].stage \in {"members", "revoke"}
      BY <3>1, <3>2, <3>3 DEF Renewed, Deleting
    <3> QED
      BY <3>1, <3>4 DEF Reusing
  <2>2. Replacing(r) => Replacing(r)'
    <3> SUFFICES ASSUME Replacing(r) PROVE Replacing(r)'
      OBVIOUS
    <3>1. CASE thread[r].step = "everywhere"
      BY <1>7, <3>1 DEF Replacing
    <3>2. CASE thread[r].step = "ask"
      <4>1. thread[r].job \notin Entering /\ req[r].stage \in Deleting
        BY <1>3, <3>2 DEF Replacing
      <4>2. Renewed(r)
        BY <1>2, <1>5, <3>2, <4>1 DEF Progress
      <4>3. \/ req'[r].stage \in Deleting
            \/ req'[r].op = "none" /\ req'[r].answer \in {"ok", "lost"}
        BY <4>1, <4>2 DEF Renewed, Deleting
      <4> QED
        BY <1>7, <3>2, <4>1, <4>3 DEF Replacing
    <3> QED
      BY <1>5, <3>1, <3>2
  <2>3. CookieGood'
    <3>1. CASE Lost \/ Over
      BY <1>1, <1>3, <3>1 DEF CookieGood, Lost, Over
    <3>2. CASE \E q \in Req : Replacing(q)
      BY <1>6, <2>2, <3>2 DEF CookieGood
    <3>3. CASE cookie \in live /\ ~Lost /\ ~Over
      <4>1. CASE thread[r].step = "everywhere"
        BY <1>7, <4>1 DEF CookieGood, Replacing
      <4>2. CASE thread[r].step = "ask" /\ thread[r].job \in Entering
        <5>1. live \subseteq live'
          BY <1>2, <1>5, <4>2 DEF Progress
        <5> QED
          BY <1>1, <3>3, <5>1 DEF CookieGood
      <4>3. CASE thread[r].step = "ask" /\ thread[r].job \notin Entering
        <5>1. Renewed(r)
          BY <1>2, <1>5, <4>3 DEF Progress
        <5>2. req[r].stage \notin {"members", "revoke"}
          BY <1>4, <3>3, <4>3 DEF CookieKept, Reused, Reusing
        <5>3. live \subseteq live' \/ req[r].stage \in Deleting
          BY <5>1, <5>2 DEF Renewed
        <5>4. req[r].stage \in Deleting => Replacing(r)'
          BY <2>2, <4>3 DEF Replacing
        <5> QED
          BY <1>1, <3>3, <5>3, <5>4 DEF CookieGood
      <4> QED
        BY <1>5, <4>1, <4>2, <4>3
    <3> QED
      BY <1>4, <3>1, <3>2, <3>3 DEF CookieKept, CookieGood
  <2>4. ASSUME NEW q \in Req PROVE Presented(q)' /\ Reused(q)' /\ Denied(q)'
    <3>1. CASE q = r
      BY <1>1, <1>3, <1>4, <1>5, <1>7, <2>1, <3>1
         DEF CookieKept, Presented, Reused, Denied, Lost, Over
    <3>2. CASE q # r
      <4>1. thread'[q] = thread[q] /\ thread[q].step \notin Busy
        BY <1>6, <1>7, <3>2
      <4> QED
        BY <4>1 DEF Presented, Reused, Reusing, Denied, Busy
    <3> QED
      BY <3>1, <3>2
  <2>5. ASSUME NEW q \in Req PROVE Cleared(q)'
    <3>1. SUFFICES ASSUME thread[q].step = "clear", thread[q].job \notin Leaving, mishap = {}
                   PROVE  FALSE
      BY <1>1, <1>7 DEF Cleared
    <3>2. q # r
      BY <1>5, <3>1
    <3>3. Fruitless(r)
      BY <1>4, <3>1 DEF CookieKept, Cleared
    <3>4. thread[r].step = "everywhere"
      BY <1>5, <3>3 DEF Fruitless
    <3>5. thread[q] = NoThread
      BY <1>4, <3>2, <3>4 DEF OneAtATime, Form
    <3> QED
      BY <1>4, <3>1, <3>5
  <2> QED
    BY <2>3, <2>4, <2>5 DEF CookieKept
<1> QED
  BY <1>8, <1>9, <1>10 DEF WebInv

\* The new token is written into the cookie, or not.
LEMMA SaveStep ==
    ASSUME OneTab, WebInv, WebKept', NEW r \in Req, SaveCookie(r)
    PROVE  WebInv'
<1>1. thread[r].step = "save" /\ UNCHANGED authVars
  BY SaveEffect DEF WebInv
<1>2. PICK done, threw \in BOOLEAN : Saving(r, done, threw)
  BY SaveEffect DEF WebInv
<1>3. /\ cookie' = IF done THEN thread[r].token ELSE cookie
      /\ mishap' = (IF done /\ \A q \in Req : thread[q].step # "clear" THEN {} ELSE mishap)
                     \cup (IF done THEN {} ELSE {"token"})
                     \cup (IF threw THEN {"call"} ELSE {})
  BY <1>2, Zenon DEF Saving
<1>4. /\ UNCHANGED <<live, req, expired>>
      /\ \A q \in Req \ {r} : thread[q].step \notin Busy
      /\ \A q \in Req : Serving(q)
      /\ CookieKept /\ NoThread.step = "none"
  BY <1>1, OnlyBusy DEF WebInv, authVars, keys, clock, Busy, NoThread
<1>5. req[r].op = "none" /\ thread[r].token \in live
  BY <1>1, <1>4 DEF Serving
<1>6. /\ \/ thread'[r] = NoThread
         \/ Moves(r, "clear") /\ threw
         \/ Moves(r, "send")
      /\ \A q \in Req \ {r} :
           \/ thread'[q] = thread[q]
           \/ /\ thread[q].step = "wait" /\ thread'[q].job = thread[q].job
              /\ thread'[q].step = "send" \/ (thread'[q].step = "clear" /\ threw)
  <2>1. CASE threw /\ GiveUp(r)
    <3>1. /\ \A q \in Req \ {r} :
               \/ thread'[q] = thread[q]
               \/ /\ thread[q].step = "wait"
                  /\ thread'[q].step = "clear" /\ thread'[q].job = thread[q].job
          /\ \/ thread'[r] = NoThread
             \/ Moves(r, "clear")
      BY <1>1, <2>1, GiveUpEffect DEF WebInv
    <3> QED
      BY <2>1, <3>1
  <2>2. CASE Only(r) /\ thread'[r] = NoThread
    BY <2>2 DEF Only
  <2>3. CASE /\ Moves(r, "send")
             /\ \A q \in Req \ {r} :
                  \/ thread'[q] = thread[q]
                  \/ /\ thread[q].step = "wait"
                     /\ thread'[q].step = "send" /\ thread'[q].job = thread[q].job
    BY <2>3
  <2> QED
    BY <1>2, <2>1, <2>2, <2>3 DEF Saving
<1>7. /\ thread'[r].step \in {"none", "clear", "send"}
      /\ \A q \in Req : thread'[q].step \notin Busy
  BY <1>4, <1>6 DEF Moves, Busy
<1>8. Serving(r)'
  BY <1>4, <1>5, <1>7 DEF Serving
<1>9. (\A q \in Req : Serving(q)') /\ OneAtATime'
  <2>1. \A q \in Req \ {r} : \/ thread'[q] = thread[q]
                             \/ /\ thread[q].step = "wait" /\ thread'[q].job = thread[q].job
                                /\ thread'[q].step \in {"send", "clear"}
    BY <1>6
  <2>2. thread'[r].job = thread[r].job \/ thread'[r] = NoThread
    BY <1>6 DEF Moves
  <2> QED
    BY <1>1, <1>7, <1>8, <2>1, <2>2, ThreadStep
<1>10. CookieKept'
  <2>1. CookieGood'
    <3>1. CASE done
      BY <1>3, <1>4, <1>5, <3>1 DEF CookieGood
    <3>2. CASE ~done
      BY <1>3, <3>2 DEF CookieGood, Lost
    <3> QED
      BY <3>1, <3>2
  <2>2. \A q \in Req : Presented(q)' /\ Reused(q)' /\ Denied(q)'
    BY <1>7 DEF Presented, Reused, Reusing, Denied, Busy
  <2>3. ASSUME NEW q \in Req PROVE Cleared(q)'
    <3>1. SUFFICES ASSUME thread'[q].step = "clear", thread'[q].job \notin Leaving, mishap' = {}
                   PROVE  FALSE
      BY DEF Cleared
    <3>2. done /\ ~threw
      BY <1>3, <3>1
    <3>3. thread'[q] = thread[q]
      BY <1>4, <1>6, <3>1, <3>2 DEF Moves
    <3>4. mishap = {}
      BY <1>3, <3>1, <3>2, <3>3
    <3>5. Fruitless(r)
      BY <1>4, <3>1, <3>3, <3>4 DEF CookieKept, Cleared
    <3> QED
      BY <1>1, <3>5 DEF Fruitless
  <2> QED
    BY <2>1, <2>2, <2>3 DEF CookieKept
<1> QED
  BY <1>9, <1>10 DEF WebInv

\* The cookie is deleted, or not.
LEMMA ClearStep ==
    ASSUME OneTab, WebInv, WebKept', NEW r \in Req, ClearAuth(r)
    PROVE  WebInv'
<1>1. /\ thread[r].step = "clear" /\ UNCHANGED authVars /\ thread'[r] = NoThread
      /\ \A q \in Req \ {r} :
           \/ thread'[q] = thread[q]
           \/ thread'[q] = NoThread /\ thread[q].step = "clear"
  BY ClearEffect DEF WebInv
<1>2. PICK done, threw \in BOOLEAN : Clearing(r, done, threw)
  BY ClearEffect DEF WebInv
<1>3. /\ cookie' = IF done THEN 0 ELSE cookie
      /\ mishap' = (IF done /\ ~threw THEN {} ELSE mishap)
                     \cup (IF done THEN {} ELSE {"token"})
                     \cup (IF threw THEN {"call"} ELSE {})
      /\ threw \/ \A q \in Threads(r[1]) : thread'[q].step # "clear"
  BY <1>2, Zenon DEF Clearing
<1>4. /\ UNCHANGED <<live, req, expired>> /\ expired \in Nat
      /\ \A q \in Req : Serving(q)
      /\ CookieKept /\ NoThread.step = "none"
  BY <1>1, WebTypes DEF WebInv, authVars, keys, clock, NoThread
<1>5. req[r].op = "none"
  BY <1>1, <1>4 DEF Serving
<1>6. Serving(r)'
  BY <1>1, <1>4, <1>5 DEF Serving
<1>7. (\A q \in Req : Serving(q)') /\ OneAtATime'
  BY <1>1, <1>4, <1>6, ThreadStep DEF Busy
<1>8. CookieKept'
  <2>1. (Lost' /\ mishap' # {}) \/ (Over' /\ done)
    <3>1. CASE done
      BY <1>3, <1>4, <3>1 DEF Over
    <3>2. CASE ~done
      BY <1>3, <3>2 DEF Lost
    <3> QED
      BY <3>1, <3>2
  <2>2. ASSUME NEW q \in Req PROVE Presented(q)' /\ Reused(q)' /\ Denied(q)'
    <3>1. Presented(q)'
      <4>1. CASE done
        BY <1>3, <1>4, <4>1 DEF Presented, Over
      <4>2. CASE ~done
        BY <1>1, <1>3, <1>4, <4>2 DEF CookieKept, Presented, Over
      <4> QED
        BY <4>1, <4>2
    <3> QED
      BY <2>1, <3>1 DEF Reused, Denied
  <2>3. ASSUME NEW q \in Req PROVE Cleared(q)'
    <3>1. SUFFICES ASSUME thread'[q].step = "clear" PROVE mishap' # {}
      BY DEF Cleared
    <3>2. threw
      BY <1>3, <3>1, TheTab
    <3> QED
      BY <1>3, <3>2
  <2> QED
    BY <2>1, <2>2, <2>3 DEF CookieKept, CookieGood
<1> QED
  BY <1>7, <1>8 DEF WebInv

\* Time passes.
LEMMA TimeStep ==
    ASSUME WebInv, WebKept',
           \/ \E x \in Tab : AccessExpires(x)
           \/ (Age \/ Sweep) /\ UNCHANGED webVars
           \/ UNCHANGED allVars
    PROVE  WebInv'
<1>1. /\ UNCHANGED <<live, delivered, req, cookie, thread, mishap>>
      /\ expired \in Nat /\ expired <= expired'
  BY WebTypes DEF WebInv, AccessExpires, Age, Sweep, authVars, webVars, allVars, keys, clock
<1>2. (\A q \in Req : Serving(q)') /\ OneAtATime'
  BY <1>1 DEF WebInv, Serving, OneAtATime
<1>3. \A q \in Req : Replacing(q) => Replacing(q)'
  BY <1>1 DEF Replacing
<1>4. CookieKept'
  BY <1>1, <1>3, CookieStays
<1> QED
  BY <1>2, <1>4 DEF WebInv

LEMMA WebInvStep == OneTab /\ WebInv /\ [WebNext]_allVars => WebInv'
<1> SUFFICES ASSUME OneTab, WebInv, [WebNext]_allVars PROVE WebInv'
  OBVIOUS
<1>k. WebKept'
  BY WebKeptStep DEF WebInv
<1>1. ASSUME NEW r \in Req, Login(r) \/ Call(r) \/ Logout(r) \/ Reload(r) PROVE WebInv'
  BY <1>k, <1>1, UserStep
<1>2. ASSUME NEW r \in Req, RunOn(r) PROVE WebInv'
  BY <1>k, <1>2, SendStep, ReadStep, PresentStep, ServeStep, GrantedStep, RefusedStep,
     EverywhereStep, SaveStep, ClearStep DEF RunOn
<1> QED
  BY <1>k, <1>1, <1>2, TimeStep DEF WebNext

LEMMA WebInvInit == OneTab /\ WebInit => WebInv
<1> SUFFICES ASSUME OneTab, WebInit PROVE WebInv
  OBVIOUS
<1>1. \A r \in Req : /\ thread[r] = NoThread /\ thread[r].step = "none"
                     /\ req[r].op = "none"
  BY DEF WebInit, Init, Idle, NoThread
<1>2. cookie = 0 /\ expired = 0
  BY DEF WebInit, Init
<1>3. \A r \in Req : Serving(r)
  BY <1>1 DEF Serving
<1>4. OneAtATime
  BY <1>1 DEF OneAtATime, Busy
<1>5. CookieKept
  BY <1>1, <1>2 DEF CookieKept, CookieGood, Over, Presented, Reused, Reusing, Denied, Cleared
<1> QED
  BY <1>3, <1>4, <1>5, WebKeptInit DEF WebInv

\* The tab, its cookie and the auth service agree (lib/api.ts, lib/auth.ts).
LEMMA WebInvAlways == OneTab => (WebSpec => []WebInv)
<1> SUFFICES ASSUME OneTab PROVE WebSpec => []WebInv
  OBVIOUS
<1>1. WebInit => WebInv
  BY WebInvInit
<1>2. WebInv /\ [WebNext]_allVars => WebInv'
  BY WebInvStep
<1> QED
  BY <1>1, <1>2, PTL DEF WebSpec

-----------------------------------------------------------------------------
(* The theorems.                                                           *)

\* While nothing is under way the cookie holds a token the auth service accepts,
\* or one that expired, or the browser lost what it was given (tryRefresh,
\* setSessionCookie and the rotation in Redis).
THEOREM CookieStaysGood == OneTab => (WebSpec => []CookieIsAccepted)
<1> SUFFICES ASSUME OneTab PROVE WebSpec => []CookieIsAccepted
  OBVIOUS
<1>1. WebInv => CookieIsAccepted
  <2> SUFFICES ASSUME WebInv, \A x \in Tab : Quiet(x), ~(cookie <= expired), ~Lost
               PROVE  Stored(cookie)
    BY DEF CookieIsAccepted, Lost
  <2>1. /\ swept \in Nat /\ swept <= expired /\ expired \in Nat /\ cookie \in Nat
    BY WebTypes DEF WebInv
  <2>2. \A q \in Req : ~Replacing(q)
    BY TheTab DEF Quiet, NoThread, Replacing
  <2>3. cookie \in live
    BY <2>2 DEF WebInv, CookieKept, CookieGood, Over
  <2> QED
    BY <2>1, <2>3 DEF Stored
<1> QED
  BY <1>1, WebInvAlways, PTL

\* Only the user, the end of the session or a call that failed sends the tab to
\* the login page: requests that get a 401 together do not (refreshPromise in
\* lib/api.ts).
THEOREM StaysSignedIn == OneTab => (WebSpec => KeptSignedIn)
<1> SUFFICES ASSUME OneTab PROVE WebSpec => KeptSignedIn
  OBVIOUS
<1> DEFINE SignedOut(x) == page[x] # "login" /\ page'[x] = "login"
           Excused(x) == \/ cookie <= expired
                         \/ \E r \in Req : thread[r].job \in Leaving
                         \/ \E r \in Req \ Threads(x) : thread[r] # NoThread
                         \/ mishap \cup mishap' # {}
<1>1. ASSUME WebInv, [WebNext]_allVars, NEW x \in Tab, SignedOut(x)
      PROVE  Excused(x)
  <2>0. page' # page /\ page \in [Tab -> {"login", "loading", "dashboard"}]
    BY <1>1, WebTypes DEF WebInv
  <2>1. \A r \in Req : /\ ~Login(r) /\ ~Call(r) /\ ~Logout(r)
                       /\ ~Accepted(r) /\ ~Unauthorized(r) /\ ~SendFails(r)
                       /\ ~PresentToken(r) /\ ~Serve(r) /\ ~Granted(r)
                       /\ ~LoggedOutEverywhere(r)
    BY <2>0 DEF Login, Call, Logout, Accepted, Unauthorized, SendFails, PresentToken,
                Serve, Granted, LoggedOutEverywhere
  <2>2. \A r \in Req : ~Reload(r)
    <3> SUFFICES ASSUME NEW r \in Req, page' = [page EXCEPT ![r[1]] = "loading"]
                 PROVE  FALSE
      BY DEF Reload
    <3> QED
      BY <1>1, <2>0
  <2>3. ASSUME NEW r \in Req, ReadCookie(r) PROVE Excused(x)
    <3>1. cookie = 0 \/ mishap' = mishap \cup {"call"}
      BY <1>1, <2>0, <2>3, ReadEffect DEF WebInv
    <3>2. cookie = 0 => cookie <= expired
      BY <1>1, WebTypes DEF WebInv
    <3>3. mishap' = mishap \cup {"call"} => mishap \cup mishap' # {}
      OBVIOUS
    <3> QED
      BY <3>1, <3>2, <3>3
  <2>4. ASSUME NEW r \in Req, Refused(r) PROVE Excused(x)
    <3>1. thread[r].job \notin Entering
      BY <1>1, <2>0, <2>4, RefusedEffect DEF WebInv
    <3>2. Over \/ mishap' # {}
      BY <1>1, <2>4, <3>1, RefusedReason
    <3> QED
      BY <3>2 DEF Over
  <2>5. ASSUME NEW r \in Req, SaveCookie(r) PROVE Excused(x)
    <3>1. PICK done, threw \in BOOLEAN : Saving(r, done, threw)
      BY <1>1, <2>5, SaveEffect DEF WebInv
    <3>2. ~(page' = [page EXCEPT ![r[1]] = "dashboard"])
      BY <1>1, <2>0
    <3>3. threw
      BY <2>0, <3>1, <3>2 DEF Saving
    <3>4. mishap' = (IF done /\ \A q \in Req : thread[q].step # "clear" THEN {} ELSE mishap)
                      \cup (IF done THEN {} ELSE {"token"}) \cup {"call"}
      BY <3>1, <3>3 DEF Saving
    <3>5. "call" \in mishap'
      BY <3>4
    <3> QED
      BY <3>5
  <2>6. ASSUME NEW r \in Req, ClearAuth(r) PROVE Excused(x)
    <3>1. thread[r].step = "clear"
      BY <1>1, <2>6, ClearEffect DEF WebInv
    <3>2. thread[r].job \in Leaving \/ mishap # {} \/ Over
      BY <1>1, <3>1 DEF WebInv, CookieKept, Cleared
    <3> QED
      BY <3>2 DEF Over
  <2>7. \A y \in Tab : ~AccessExpires(y)
    BY <2>0 DEF AccessExpires
  <2>8. ~UNCHANGED webVars /\ ~UNCHANGED allVars
    BY <2>0 DEF webVars, allVars
  <2> HIDE DEF Excused
  <2> QED
    BY <1>1, <2>1, <2>2, <2>3, <2>4, <2>5, <2>6, <2>7, <2>8 DEF WebNext, RunOn
<1>2. WebInv /\ [WebNext]_allVars =>
        [\A x \in Tab : SignedOut(x) => Excused(x)]_allVars
  BY <1>1
<1> QED
  BY <1>2, WebInvAlways, PTL DEF WebSpec, KeptSignedIn, Leaving

\* Sessions keep their promise with any number of tabs as clients, whatever fails
\* (RefreshToken as lib/api.ts calls it).
THEOREM TabsKeepPromise == WebSpec => KeepsPromise
BY WebUsesAuth, Implements

\* And no calm session of theirs is missed by logout everywhere, which ends all
\* sessions of its user (DeleteAllUserTokens, as lib/auth.ts calls it).
THEOREM TabsLogOutEverywhere == WebSpec => []Indexed /\ LogoutAllReachesAll
BY WebUsesAuth, TokensAreIndexed, LogoutAllIsComplete

=============================================================================
