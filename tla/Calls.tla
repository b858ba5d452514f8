------------------------------- MODULE Calls --------------------------------
(***************************************************************************)
(* What becomes of a call while the process that serves it lives its life   *)
(* (Service): from the browser's apiRequest through the gateway to a        *)
(* handler of the Auth service or the orchestrator, and the answer back.    *)
(*                                                                         *)
(* apiRequest takes every 401 for an access token that ran out: it refreshes *)
(* and sends the same call again.  So what a handler answers decides        *)
(* whether what it did is done twice.                                       *)
(*                                                                         *)
(* An MPC node is called by the orchestrator, which sends nothing twice, and *)
(* the gateway's own monitoring route by the browser.                       *)
(***************************************************************************)
EXTENDS Service

CONSTANTS
    Methods,        \* bound: the methods called
    None            \* no method, no answer

\* What the programs serve.
TwoFAMethods == {"verify", "disable", "setup", "status"}
AuthMethods == {"login", "register", "refresh", "logout", "logoutAll", "validate"}
MPCMethods == {"store", "retrieve", "delete"}
GatewayMethods == {"snapshot"}

\* The paths the gateway lets pass without an access token; MPC nodes have a
\* secret of their own for all methods.
Public == {"login", "register", "refresh", "validate"}
Authentic == (TwoFAMethods \cup AuthMethods \cup GatewayMethods) \ Public

ASSUME CallsAssumption ==
    Methods \subseteq TwoFAMethods \cup AuthMethods \cup MPCMethods \cup GatewayMethods

VARIABLES
    call,           \* call[r]: the call that handler r serves, if any
    effects         \* effects[r]: how often call r did its work

callVars == <<serviceVars, call, effects>>

CallStage == {"idle", "sent", "forwarded", "served", "answered", "refresh", "done"}
Code == {"OK", "InvalidArgument", "NotFound", "AlreadyExists", "FailedPrecondition",
         "ResourceExhausted", "Unauthenticated", "Internal", "Unavailable"}
NoCall == [stage |-> "idle", method |-> None, code |-> None, retried |-> FALSE]

CallsTypeOK ==
    /\ TypeOK
    /\ call \in [Req -> [stage : CallStage, method : Methods \cup {None},
                         code : Code \cup {None}, retried : BOOLEAN]]
    /\ effects \in [Req -> 0..2]
    /\ \A r \in Req : handler[r] # "none" /\ phase \in {"serve", "deaf", "drain"}
                        => call[r].stage \in {"served", "done"}

CallsInit ==
    /\ ServiceInit
    /\ call = [r \in Req |-> NoCall]
    /\ effects = [r \in Req |-> 0]

-----------------------------------------------------------------------------
(* What the handlers answer, by what came of the request: "bad" input never *)
(* reaches the service; "done" is success.  The remaining outcomes are the  *)
(* errors of the domain, and "failed" any other.                            *)

VerifyAnswer ==
    [bad |-> "InvalidArgument", limited |-> "ResourceExhausted",
     reused |-> "InvalidArgument", wrongBackupCode |-> "InvalidArgument",
     notSetUp |-> "FailedPrecondition", failed |-> "Internal", done |-> "OK"]

\* Mutant: a wrong code is answered like a wrong password.
DisableAnswer_Unauthenticated ==
    [bad |-> "InvalidArgument", notSetUp |-> "FailedPrecondition",
     notEnabled |-> "FailedPrecondition", limited |-> "ResourceExhausted",
     reused |-> "InvalidArgument", wrongCode |-> "Unauthenticated",
     wrongBackupCode |-> "InvalidArgument", failed |-> "Internal", done |-> "OK"]

DisableAnswer ==
    [bad |-> "InvalidArgument", notSetUp |-> "FailedPrecondition",
     notEnabled |-> "FailedPrecondition", limited |-> "ResourceExhausted",
     reused |-> "InvalidArgument", wrongCode |-> "InvalidArgument",
     wrongBackupCode |-> "InvalidArgument", failed |-> "Internal", done |-> "OK"]

SetupAnswer ==
    [bad |-> "InvalidArgument", alreadyEnabled |-> "AlreadyExists",
     failed |-> "Internal", done |-> "OK"]

StatusAnswer == [bad |-> "InvalidArgument", failed |-> "Internal", done |-> "OK"]

LoginAnswer ==
    [bad |-> "InvalidArgument", wrongPassword |-> "Unauthenticated",
     failed |-> "Internal", done |-> "OK"]

RegisterAnswer ==
    [bad |-> "InvalidArgument", weakPassword |-> "InvalidArgument",
     wrongEmail |-> "InvalidArgument", taken |-> "AlreadyExists",
     failed |-> "Internal", done |-> "OK"]

RefreshAnswer ==
    [bad |-> "InvalidArgument", wrongToken |-> "Unauthenticated",
     revoked |-> "Unauthenticated", failed |-> "Internal", done |-> "OK"]

LogoutAnswer ==
    [bad |-> "InvalidArgument", wrongToken |-> "Unauthenticated",
     failed |-> "Internal", done |-> "OK"]

LogoutAllAnswer == [bad |-> "InvalidArgument", failed |-> "Internal", done |-> "OK"]

ValidateAnswer ==
    [bad |-> "InvalidArgument", wrongToken |-> "Unauthenticated", done |-> "OK"]

StoreAnswer == [bad |-> "InvalidArgument", taken |-> "AlreadyExists",
                failed |-> "Internal", done |-> "OK"]

RetrieveAnswer == [bad |-> "InvalidArgument", notFound |-> "NotFound",
                   failed |-> "Internal", done |-> "OK"]

DeleteAnswer == [bad |-> "InvalidArgument", failed |-> "Internal", done |-> "OK"]

\* What Prometheus does not answer is missing in the snapshot and no failure.
SnapshotAnswer == [failed |-> "Internal", done |-> "OK"]

TwoFARoutes == [verify |-> VerifyAnswer, disable |-> DisableAnswer,
                setup |-> SetupAnswer, status |-> StatusAnswer]
AuthRoutes == [login |-> LoginAnswer, register |-> RegisterAnswer,
               refresh |-> RefreshAnswer, logout |-> LogoutAnswer,
               logoutAll |-> LogoutAllAnswer, validate |-> ValidateAnswer]
MPCRoutes == [store |-> StoreAnswer, retrieve |-> RetrieveAnswer, delete |-> DeleteAnswer]
GatewayRoutes == [snapshot |-> SnapshotAnswer]

Routes == CASE program = "twofa" -> TwoFARoutes
            [] program = "auth" -> AuthRoutes
            [] program = "mpc" -> MPCRoutes
            [] program = "gateway" -> GatewayRoutes

\* Outcomes before which nothing was done.  A wrong code or a used one has been
\* counted as an attempt, and a revoked token's family deleted; a failure may come
\* before or after.
Idle == {"bad", "wrongToken", "wrongEmail", "weakPassword", "notEnabled",
         "alreadyEnabled", "taken", "notFound"}

-----------------------------------------------------------------------------
(* The way there.                                                          *)

Goto(r, stage) == call' = [call EXCEPT ![r].stage = stage]
Answer(r, code) == call' = [call EXCEPT ![r].stage = "answered", ![r].code = code]

Submit(r, m) ==
    /\ call[r].stage = "idle" /\ m \in DOMAIN Routes
    /\ call' = [call EXCEPT ![r] = [stage |-> "sent", method |-> m, code |-> None,
                                    retried |-> FALSE]]
    /\ UNCHANGED <<serviceVars, effects>>

\* The gateway's limiter, then its check of the access token.
Gate(r) ==
    /\ call[r].stage = "sent"
    /\ \/ Goto(r, "forwarded")
       \/ /\ program # "mpc" /\ (program = "gateway" => phase = "serve")
          /\ \/ Answer(r, "ResourceExhausted")
             \/ call[r].method \in Authentic /\ Answer(r, "Unauthenticated")
    /\ UNCHANGED <<serviceVars, effects>>

\* The gateway's routes read the request before they forward it.
Decodes == AuthMethods \cup TwoFAMethods

NotDecoded(r) ==
    /\ call[r].stage = "forwarded"
    /\ call[r].method \in Decodes
    /\ Answer(r, "InvalidArgument")
    /\ UNCHANGED <<serviceVars, effects>>

\* The MPC node's interceptor: not the orchestrator's secret.
Rejected(r) ==
    /\ call[r].stage = "forwarded" /\ phase = "serve"
    /\ call[r].method \in MPCMethods
    /\ Answer(r, "Unauthenticated")
    /\ UNCHANGED <<serviceVars, effects>>

Served(r) ==
    /\ call[r].stage = "forwarded"
    /\ Arrive(r)
    /\ Goto(r, "served")
    /\ UNCHANGED effects

Unavailable(r) ==
    /\ call[r].stage = "forwarded" /\ phase # "serve"
    /\ Answer(r, "Unavailable")
    /\ UNCHANGED <<serviceVars, effects>>

-----------------------------------------------------------------------------
(* In the handler.                                                         *)

Did(r) == effects' = [effects EXCEPT ![r] = @ + 1]

\* What no success of a method goes without.  The orchestrator does without Redis,
\* and without the nodes when the code is a backup code.
Needed(m) ==
    CASE m \in TwoFAMethods \cup MPCMethods -> {"postgres"}
      [] m \in {"register", "login"} -> {"postgres", "redis"}
      [] m \in {"refresh", "logout", "logoutAll"} -> {"redis"}
      [] OTHER -> {}

\* A handler that finds closed what it asks for fails; whether a refusal comes
\* before it asks is left open.
Handle(r) ==
    /\ Work(r)
    /\ \E outcome \in DOMAIN Routes[call[r].method] :
         /\ outcome = "done" => Needed(call[r].method) \subseteq open
         /\ call' = IF call[r].stage = "served"
                      THEN [call EXCEPT ![r].code = Routes[call[r].method][outcome]]
                      ELSE call
         /\ \/ outcome \in Idle \cup {"failed"} /\ UNCHANGED effects
            \/ outcome \notin Idle /\ Did(r)

\* Mutant: the recovered handler returns no error.
Recovered_NoError == "OK"

Recovered == "Internal"

HandlerPanics(r) ==
    /\ Panic(r)
    /\ call' = [q \in Req |->
                  IF q = r /\ Recovers /\ call[r].stage = "served"
                    THEN [call[r] EXCEPT !.code = Recovered]
                  ELSE IF ~Recovers /\ call[q].stage = "served"
                    THEN [call[q] EXCEPT !.stage = "answered", !.code = "Unavailable"]
                  ELSE call[q]]
    /\ UNCHANGED effects

Respond(r) ==
    /\ Reply(r)
    /\ IF call[r].stage = "served" THEN Goto(r, "answered") ELSE UNCHANGED call
    /\ UNCHANGED effects

\* Whoever waits for a connection that is gone is told so.
CutOff ==
    call' = [r \in Req |->
               IF call[r].stage = "served"
                 THEN [call[r] EXCEPT !.stage = "answered", !.code = "Unavailable"]
                 ELSE call[r]]

\* Stop of a gRPC server closes the connections; Shutdown of the gateway's
\* server gives up waiting for them.
CutShort ==
    /\ Deadline
    /\ IF program = "gateway" THEN UNCHANGED call ELSE CutOff
    /\ UNCHANGED effects

Returns == Exit /\ CutOff /\ UNCHANGED effects
Crashes == Crash /\ CutOff /\ UNCHANGED effects

-----------------------------------------------------------------------------
(* The way back.                                                           *)

\* The network between caller and process fails: fetch throws.
Lose(r) ==
    /\ call[r].stage \in {"sent", "forwarded", "served", "answered"}
    /\ call' = [call EXCEPT ![r].stage = "done", ![r].code = "Unavailable"]
    /\ UNCHANGED <<serviceVars, effects>>

Receive(r) ==
    /\ call[r].stage = "answered"
    /\ Goto(r, IF /\ call[r].code = "Unauthenticated"
                  /\ call[r].method \in Authentic /\ ~call[r].retried
                 THEN "refresh" ELSE "done")
    /\ UNCHANGED <<serviceVars, effects>>

\* The refresh succeeds and the call is sent again, or the user must log in.
Refreshed(r) ==
    /\ call[r].stage = "refresh"
    /\ \/ call' = [call EXCEPT ![r].stage = "sent", ![r].code = None, ![r].retried = TRUE]
       \/ Goto(r, "done")
    /\ UNCHANGED <<serviceVars, effects>>

Life == /\ Load \/ OpenNext \/ Wired \/ Listen \/ ServeFails \/ Signal \/ Drained
           \/ CloseNext \/ Flush
        /\ UNCHANGED <<call, effects>>

Publish(r) == PublishEvent(r) /\ UNCHANGED <<call, effects>>

CallsNext ==
    \/ Life \/ CutShort \/ Returns \/ Crashes
    \/ \E r \in Req : \/ \E m \in Methods : Submit(r, m)
                      \/ Gate(r) \/ NotDecoded(r) \/ Rejected(r)
                      \/ Served(r) \/ Unavailable(r)
                      \/ Handle(r) \/ HandlerPanics(r) \/ Publish(r) \/ Respond(r)
                      \/ Lose(r) \/ Receive(r) \/ Refreshed(r)

\* main and its deadline make progress; of the handlers nothing is assumed.
Fairness == WF_callVars(Life) /\ WF_callVars(CutShort) /\ WF_callVars(Returns)

CallsSpec == CallsInit /\ [][CallsNext]_callVars /\ Fairness

-----------------------------------------------------------------------------
(* Properties.                                                             *)

\* Whatever is refused, lost, retried or cut off: one submission is carried out
\* once at most, as every 401 is given before anything was done (the handlers'
\* error switches, apiRequest).
CarriedOutOnce == \A r \in Req : effects[r] <= 1

\* An answer of success is true, in a process that panics or is stopped as well
\* (RecoveryInterceptor, AppRun).
SuccessIsTrue ==
    \A r \in Req : call[r].stage \in {"answered", "done"} /\ call[r].code = "OK"
                     => effects[r] = 1

\* Asked to stop, the process ends, whatever its handlers wait for, and nobody
\* waits for it any longer (AppRun).
StopsForGood ==
    phase = "drain" ~> /\ ~Running
                       /\ \A r \in Req : call[r].stage # "served"

=============================================================================
