----------------------------- MODULE CallsProofs ----------------------------
(***************************************************************************)
(* Proofs about Calls, and through it about Service.                        *)
(***************************************************************************)
EXTENDS Calls, TLAPS

USE DEF HandlerStage, Phase

\* What the tables of answers say of every method of every program: success is
\* answered for the outcome "done" only, and a 401 for a call that carries an
\* access token only when nothing was done.
LEMMA Tables ==
    ASSUME program \in {"auth", "twofa", "mpc", "gateway"},
           NEW m \in DOMAIN Routes, NEW o \in DOMAIN Routes[m]
    PROVE  /\ Routes[m][o] \in Code
           /\ Routes[m][o] = "OK" => o = "done"
           /\ m \in Authentic /\ Routes[m][o] = "Unauthenticated" => o \in Idle
<1>1. CASE program = "mpc"
  <2>1. Routes = MPCRoutes
    BY <1>1 DEF Routes
  <2>2. m \in {"store", "retrieve", "delete"}
    BY <2>1 DEF MPCRoutes
  <2> QED
    BY <2>1, <2>2 DEF MPCRoutes, StoreAnswer, RetrieveAnswer, DeleteAnswer, Code, Idle
<1>2. CASE program = "gateway"
  <2>1. Routes = GatewayRoutes
    BY <1>2 DEF Routes
  <2>2. m = "snapshot"
    BY <2>1 DEF GatewayRoutes
  <2> QED
    BY <2>1, <2>2 DEF GatewayRoutes, SnapshotAnswer, Code, Idle
<1>3. CASE program = "twofa"
  <2>1. Routes = TwoFARoutes
    BY <1>3 DEF Routes
  <2>2. m \in {"verify", "disable", "setup", "status"}
    BY <2>1 DEF TwoFARoutes
  <2>3. CASE m = "verify"
    BY <2>1, <2>3 DEF TwoFARoutes, VerifyAnswer, Code, Idle
  <2>4. CASE m = "disable"
    BY <2>1, <2>4 DEF TwoFARoutes, DisableAnswer, Code, Idle
  <2>5. CASE m = "setup"
    BY <2>1, <2>5 DEF TwoFARoutes, SetupAnswer, Code, Idle
  <2>6. CASE m = "status"
    BY <2>1, <2>6 DEF TwoFARoutes, StatusAnswer, Code, Idle
  <2> QED
    BY <2>2, <2>3, <2>4, <2>5, <2>6
<1>4. CASE program = "auth"
  <2>1. Routes = AuthRoutes
    BY <1>4 DEF Routes
  <2>2. m \in {"login", "register", "refresh", "logout", "logoutAll", "validate"}
    BY <2>1 DEF AuthRoutes
  <2>3. CASE m = "login"
    BY <2>1, <2>3 DEF AuthRoutes, LoginAnswer, Code, Idle, Authentic, Public
  <2>4. CASE m = "register"
    BY <2>1, <2>4 DEF AuthRoutes, RegisterAnswer, Code, Idle
  <2>5. CASE m = "refresh"
    BY <2>1, <2>5 DEF AuthRoutes, RefreshAnswer, Code, Idle, Authentic, Public
  <2>6. CASE m = "logout"
    BY <2>1, <2>6 DEF AuthRoutes, LogoutAnswer, Code, Idle
  <2>7. CASE m = "logoutAll"
    BY <2>1, <2>7 DEF AuthRoutes, LogoutAllAnswer, Code, Idle
  <2>8. CASE m = "validate"
    BY <2>1, <2>8 DEF AuthRoutes, ValidateAnswer, Code, Idle
  <2> QED
    BY <2>2, <2>3, <2>4, <2>5, <2>6, <2>7, <2>8
<1> QED
  BY <1>1, <1>2, <1>3, <1>4

-----------------------------------------------------------------------------
(* The process, whatever calls it serves.                                  *)

ServiceNext ==
    \/ Load \/ OpenNext \/ Wired \/ Listen \/ ServeFails \/ Signal \/ Drained
    \/ Deadline \/ CloseNext \/ Exit \/ Crash \/ Flush
    \/ \E r \in Req : Arrive(r) \/ Work(r) \/ PublishEvent(r) \/ Reply(r) \/ Panic(r)

\* A step of a call is a step of the process that serves it, or none of it.
LEMMA ProcessSteps == [CallsNext]_callVars => [ServiceNext]_serviceVars
<1> SUFFICES ASSUME CallsNext PROVE ServiceNext \/ UNCHANGED serviceVars
  BY DEF callVars
<1>1. CASE Life
  BY <1>1 DEF Life, ServiceNext
<1>2. CASE CutShort \/ Returns \/ Crashes
  BY <1>2 DEF CutShort, Returns, Crashes, ServiceNext
<1>3. ASSUME NEW r \in Req, NEW m \in Methods, Submit(r, m)
      PROVE  UNCHANGED serviceVars
  BY <1>3 DEF Submit, serviceVars
<1>4. ASSUME NEW r \in Req,
             \/ Gate(r) \/ NotDecoded(r) \/ Rejected(r) \/ Unavailable(r)
             \/ Lose(r) \/ Receive(r) \/ Refreshed(r)
      PROVE  UNCHANGED serviceVars
  BY <1>4 DEF Gate, NotDecoded, Rejected, Unavailable, Lose, Receive, Refreshed, serviceVars
<1>5. ASSUME NEW r \in Req,
             \/ Served(r) \/ Handle(r) \/ HandlerPanics(r) \/ Publish(r) \/ Respond(r)
      PROVE  ServiceNext
  BY <1>5 DEF Served, Handle, HandlerPanics, Publish, Respond, ServiceNext
<1> QED
  BY <1>1, <1>2, <1>3, <1>4, <1>5 DEF CallsNext

\* What holds of main and its handlers.  While handlers may run everything is
\* open, unless the drain was cut short, and the writer's batch is empty once
\* the writer is closed and main has returned.
Orderly ==
    /\ phase \in {"load", "wire", "listen"} => \A r \in Req : handler[r] = "none"
    /\ phase \in {"listen", "serve", "deaf", "drain"} => open = All
    /\ phase = "close" /\ ~late => \A r \in Req : handler[r] = "none"
    /\ broken # {} => late
    /\ published \subseteq batch \cup delivered
    /\ ~Async => batch = {}
    /\ phase = "exited" => batch = {}

\* Steps of main: they leave the handlers and their events alone.
LEMMA MainStep ==
    ASSUME TypeOK, Orderly,
           \/ Load \/ OpenNext \/ Wired \/ Listen \/ ServeFails \/ Signal \/ Drained
           \/ Deadline \/ CloseNext \/ Exit \/ Crash
    PROVE  TypeOK' /\ Orderly'
<1> USE DEF TypeOK, Orderly
<1>0. UNCHANGED <<program, handler, published, batch, delivered, broken>>
  BY DEF Load, OpenNext, Wired, Listen, ServeFails, Signal, Drained, Deadline,
         CloseNext, Exit, Crash, events
<1>a. Async' = Async /\ All' = All
  BY <1>0 DEF Async, All, First, Opens
<1>1. CASE Load
  BY <1>0, <1>1, <1>a DEF Load
<1>2. CASE OpenNext
  <2>1. open' \subseteq All
    <3>1. PICK n \in 1..Len(Opens) : open' = open \cup {Opens[n]} \/ open' = open
      BY <1>2 DEF OpenNext
    <3>2. Opens[n] \in All
      BY <3>1 DEF All, First
    <3> QED
      BY <3>1, <3>2
  <2>2. phase = "wire" /\ phase' \in {"wire", "killed"} /\ late' = late
    BY <1>2 DEF OpenNext
  <2> QED
    BY <1>0, <1>a, <2>1, <2>2
<1>3. CASE Wired
  BY <1>0, <1>3, <1>a DEF Wired
<1>4. CASE Listen
  BY <1>0, <1>4, <1>a DEF Listen, DoesNotListen
<1>5. CASE ServeFails \/ Signal
  BY <1>0, <1>5, <1>a DEF ServeFails, Signal
<1>6. CASE Drained \/ Deadline
  BY <1>0, <1>6, <1>a DEF Drained, Deadline
<1>7. CASE CloseNext
  BY <1>0, <1>7, <1>a DEF CloseNext
<1>8. CASE Exit
  BY <1>0, <1>8, <1>a DEF Exit, Flushed
<1>9. CASE Crash
  BY <1>0, <1>9, <1>a DEF Crash, Running
<1> QED
  BY <1>1, <1>2, <1>3, <1>4, <1>5, <1>6, <1>7, <1>8, <1>9

\* Steps of the handlers and of the writer.
LEMMA HandlerStep ==
    ASSUME TypeOK, Orderly, NEW r \in Req,
           \/ Arrive(r) \/ Work(r) \/ PublishEvent(r) \/ Reply(r) \/ Panic(r) \/ Flush
    PROVE  TypeOK' /\ Orderly'
<1> USE DEF TypeOK, Orderly
<1>0. UNCHANGED <<program, open, late>>
  BY DEF Arrive, Work, PublishEvent, Reply, Panic, Flush, main
<1>a. Async' = Async /\ All' = All
  BY <1>0 DEF Async, All, First, Opens
\* A handler that does something runs while everything is open, or late.
<1>b. ASSUME handler[r] # "none", Running
      PROVE  /\ phase \in {"serve", "deaf", "drain", "close"}
             /\ open = All \/ late
  BY <1>b DEF Running
<1>1. CASE Arrive(r)
  BY <1>0, <1>1, <1>a DEF Arrive, main, events
<1>2. CASE Work(r)
  <2>1. broken' # {} => late
    <3>1. open = All => Whole
      BY DEF Whole
    <3>2. broken' = broken \/ ~Whole
      BY <1>2 DEF Work
    <3>3. handler[r] # "none" /\ Running
      BY <1>2 DEF Work
    <3> QED
      BY <1>b, <3>1, <3>2, <3>3
  <2>2. handler' \in [Req -> HandlerStage] /\ broken' \subseteq Req
    BY <1>2 DEF Work
  <2>3. /\ UNCHANGED <<phase, published, batch, delivered>>
        /\ handler[r] = "run" /\ Running
    BY <1>2 DEF Work, main, events
  <2>4. phase \in {"serve", "deaf", "drain"} \/ (phase = "close" /\ late)
    BY <1>b, <2>3
  <2> QED
    BY <1>0, <1>a, <2>1, <2>2, <2>3, <2>4
<1>3. CASE PublishEvent(r)
  <2>1. handler' \in [Req -> HandlerStage] /\ handler[r] = "publish" /\ Running
    BY <1>3 DEF PublishEvent
  <2>2. phase' = phase /\ broken' = broken
    BY <1>3 DEF PublishEvent, main
  <2>3. phase \in {"serve", "deaf", "drain"} \/ (phase = "close" /\ late)
    BY <1>b, <2>1
  <2>4. /\ published' \subseteq Req /\ batch' \subseteq published'
        /\ delivered' \subseteq Req /\ batch' \cap delivered' = {}
        /\ published' \subseteq batch' \cup delivered'
        /\ ~Async => batch' = {}
    BY <1>3 DEF PublishEvent, events
  <2> QED
    BY <1>0, <1>a, <2>1, <2>2, <2>3, <2>4
<1>4. CASE Reply(r)
  BY <1>0, <1>4, <1>a DEF Reply, main, events
<1>5. CASE Panic(r)
  <2>1. handler[r] # "none" /\ Running
    BY <1>5 DEF Panic
  <2> QED
    BY <1>0, <1>5, <1>a, <1>b, <2>1 DEF Panic, events
<1>6. CASE Flush
  BY <1>0, <1>6, <1>a DEF Flush, main
<1> QED
  BY <1>1, <1>2, <1>3, <1>4, <1>5, <1>6

\* Every step keeps the process well formed and orderly.
LEMMA ProcessStep ==
    ASSUME TypeOK, Orderly, [CallsNext]_callVars
    PROVE  TypeOK' /\ Orderly'
<1>0. [ServiceNext]_serviceVars
  BY ProcessSteps
<1>1. CASE UNCHANGED serviceVars
  BY <1>1 DEF serviceVars, TypeOK, Orderly, All, First, Opens, Async
<1>2. CASE ServiceNext /\ ~Flush
  BY <1>2, MainStep, HandlerStep DEF ServiceNext
<1>3. CASE Flush
  BY <1>3 DEF Flush, main, TypeOK, Orderly, All, First, Opens, Async
<1> QED
  BY <1>0, <1>1, <1>2, <1>3

\* What holds of the process holds of it whatever calls it is given.
THEOREM ProcessIsOrderly == CallsSpec => [](TypeOK /\ Orderly)
<1>1. CallsInit => TypeOK /\ Orderly
  BY DEF CallsInit, ServiceInit, TypeOK, Orderly
<1>2. TypeOK /\ Orderly /\ [CallsNext]_callVars => (TypeOK /\ Orderly)'
  BY ProcessStep
<1> QED
  BY <1>1, <1>2, PTL DEF CallsSpec

\* A handler meets a closed resource only after a drain that ran into its
\* deadline (AppRun, and the cleanup deferred behind it).
THEOREM HandlersFindAllOpen == CallsSpec => []OnlyLateHandlersBreak
<1>1. Orderly => OnlyLateHandlersBreak
  BY DEF Orderly, OnlyLateHandlersBreak
<1> QED
  BY <1>1, ProcessIsOrderly, PTL

\* What PublishEvent reported as published is delivered or refused before main
\* returns (KafkaProducer.Close).
THEOREM NoEventIsLost == CallsSpec => []EventsOutliveTheProcess
<1>1. Orderly => EventsOutliveTheProcess
  BY DEF Orderly, EventsOutliveTheProcess
<1> QED
  BY <1>1, ProcessIsOrderly, PTL

-----------------------------------------------------------------------------
(* The calls.                                                              *)

\* What holds of call r.  It has done nothing before its handler ran, and its
\* handler runs once; a 401 that makes apiRequest send it again says that
\* nothing was done, and a success that its work was.
Honest(r) ==
    LET c == call[r] IN
    /\ c.stage \in {"idle", "sent", "forwarded", "refresh"}
         => handler[r] = "none" /\ effects[r] = 0
    /\ handler[r] = "run" => effects[r] = 0
    /\ effects[r] <= 1
    /\ c.stage = "served" => handler[r] # "none"
    /\ (c.stage = "served" /\ handler[r] # "run") \/ c.stage = "answered" =>
         /\ c.code = "OK" => effects[r] = 1
         /\ c.code = "Unauthenticated" /\ c.method \in Authentic => effects[r] = 0
    /\ c.stage = "answered" /\ c.code = "Unauthenticated" /\ c.method \in Authentic
         => handler[r] = "none"
    /\ c.stage = "done" /\ c.code = "OK" => effects[r] = 1
    /\ c.stage = "refresh" => c.code = "Unauthenticated"
    /\ c.stage # "idle" => c.method \in DOMAIN Routes

Calling ==
    /\ TypeOK /\ Orderly /\ CallsTypeOK
    /\ \A r \in Req : Honest(r)

Record == [stage : CallStage, method : Methods \cup {None},
           code : Code \cup {None}, retried : BOOLEAN]

\* The form of a step that moves call r on to another stage.
LEMMA GotoType ==
    ASSUME call \in [Req -> Record], NEW r \in Req, NEW stage \in CallStage, Goto(r, stage)
    PROVE  /\ call' \in [Req -> Record]
           /\ \A q \in Req \ {r} : call'[q] = call[q]
           /\ call'[r].stage = stage /\ call'[r].method = call[r].method
           /\ call'[r].code = call[r].code /\ call'[r].retried = call[r].retried
<1>1. call[r] \in Record
  OBVIOUS
<1>2. [call[r] EXCEPT !.stage = stage] \in Record
  BY <1>1 DEF Record
<1> QED
  BY <1>1, <1>2 DEF Goto, Record

\* The form of a step that ends call r before a handler has it.
LEMMA AnswerType ==
    ASSUME call \in [Req -> Record], NEW r \in Req, NEW code \in Code, Answer(r, code)
    PROVE  /\ call' \in [Req -> Record]
           /\ \A q \in Req \ {r} : call'[q] = call[q]
           /\ call'[r].stage = "answered" /\ call'[r].method = call[r].method
           /\ call'[r].code = code /\ call'[r].retried = call[r].retried
<1>1. call[r] \in Record
  OBVIOUS
<1>2. [call[r] EXCEPT !.stage = "answered", !.code = code] \in Record
  BY <1>1 DEF Record, CallStage
<1> QED
  BY <1>1, <1>2 DEF Answer, Record

\* The form of a step that ends every call a handler has.
LEMMA CutOffType ==
    ASSUME call \in [Req -> Record], CutOff
    PROVE  /\ call' \in [Req -> Record]
           /\ \A q \in Req :
                \/ call[q].stage # "served" /\ call'[q] = call[q]
                \/ /\ call[q].stage = "served"
                   /\ call'[q].stage = "answered" /\ call'[q].method = call[q].method
                   /\ call'[q].code = "Unavailable" /\ call'[q].retried = call[q].retried
<1>1. ASSUME NEW q \in Req
      PROVE  /\ [call[q] EXCEPT !.stage = "answered", !.code = "Unavailable"] \in Record
             /\ [call[q] EXCEPT !.stage = "answered", !.code = "Unavailable"].method
                  = call[q].method
             /\ [call[q] EXCEPT !.stage = "answered", !.code = "Unavailable"].retried
                  = call[q].retried
  <2>1. call[q] \in Record
    OBVIOUS
  <2> QED
    BY <2>1 DEF Record, CallStage, Code
<1>2. ASSUME NEW q \in Req, call[q].stage = "served"
      PROVE  call'[q] = [call[q] EXCEPT !.stage = "answered", !.code = "Unavailable"]
  BY <1>2 DEF CutOff
<1>3. ASSUME NEW q \in Req, call[q].stage # "served"
      PROVE  call'[q] = call[q]
  BY <1>3 DEF CutOff
<1>4. ASSUME NEW q \in Req PROVE call'[q] \in Record
  BY <1>1, <1>2, <1>3
<1>5. call' \in [Req -> Record]
  BY <1>4 DEF CutOff
<1>6. ASSUME NEW q \in Req, call[q].stage = "served"
      PROVE  /\ call'[q].stage = "answered" /\ call'[q].method = call[q].method
             /\ call'[q].code = "Unavailable" /\ call'[q].retried = call[q].retried
  BY <1>1, <1>2, <1>6 DEF Record
<1> QED
  BY <1>3, <1>5, <1>6

\* A step that leaves call q and its handler alone keeps the call honest.
LEMMA Untouched ==
    ASSUME NEW q \in Req, Honest(q), program' = program,
           call'[q] = call[q], handler'[q] = handler[q], effects'[q] = effects[q]
    PROVE  Honest(q)'
BY DEF Honest, Routes

\* What is to be shown of a step, call by call.
LEMMA CallByCall ==
    ASSUME TypeOK', Orderly', call' \in [Req -> Record], effects' \in [Req -> 0..2],
           \A q \in Req :
             /\ Honest(q)'
             /\ handler'[q] # "none" /\ phase' \in {"serve", "deaf", "drain"}
                  => call'[q].stage \in {"served", "done"}
    PROVE  Calling'
BY DEF Calling, CallsTypeOK, Record

\* Steps of main keep all calls honest.
LEMMA LifeStep ==
    ASSUME Calling, TypeOK', Orderly', Life \/ CutShort \/ Returns \/ Crashes
    PROVE  Calling'
<1>0. /\ call \in [Req -> Record] /\ effects \in [Req -> 0..2]
      /\ \A q \in Req : Honest(q)
  BY DEF Calling, CallsTypeOK, Record
<1>1. UNCHANGED <<program, handler, effects>>
  BY DEF Life, Load, OpenNext, Wired, Listen, ServeFails, Signal, Drained, CloseNext, Flush,
         CutShort, Deadline, Returns, Exit, Crashes, Crash, main
<1>2. CASE UNCHANGED call
  <2>1. \A q \in Req : Honest(q)'
    BY <1>0, <1>1, <1>2, Untouched
  <2>2. ASSUME NEW q \in Req, handler'[q] # "none", phase' \in {"serve", "deaf", "drain"}
        PROVE  call'[q].stage \in {"served", "done"}
    <3>1. CASE phase \in {"serve", "deaf", "drain"}
      BY <1>1, <1>2, <2>2, <3>1 DEF Calling, CallsTypeOK
    <3>2. CASE phase \in {"load", "wire", "listen"}
      BY <1>1, <2>2, <3>2 DEF Calling, Orderly
    <3>3. CASE phase \notin {"serve", "deaf", "drain", "load", "wire", "listen"}
      BY <2>2, <3>3 DEF Life, Load, OpenNext, Wired, Listen, ServeFails, Signal, Drained,
         CloseNext, Flush, CutShort, Deadline, Returns, Exit, Crashes, Crash, main
    <3> QED
      BY <3>1, <3>2, <3>3
  <2> QED
    BY <1>0, <1>1, <1>2, <2>1, <2>2, CallByCall
<1>3. CASE CutOff /\ phase' \notin {"serve", "deaf", "drain"}
  <2>1. call' \in [Req -> Record]
    BY <1>0, <1>3, CutOffType
  <2>2. ASSUME NEW q \in Req PROVE Honest(q)'
    <3>1. CASE call'[q] = call[q]
      BY <1>0, <1>1, <3>1, Untouched
    <3>2. CASE /\ call[q].stage = "served" /\ call'[q].stage = "answered"
               /\ call'[q].method = call[q].method /\ call'[q].code = "Unavailable"
      BY <1>0, <1>1, <3>2 DEF Honest, Routes
    <3> QED
      BY <1>0, <1>3, <3>1, <3>2, CutOffType
  <2> QED
    BY <1>0, <1>1, <1>3, <2>1, <2>2, CallByCall
<1>4. CASE Life
  BY <1>2, <1>4 DEF Life
<1>5. CASE CutShort
  BY <1>2, <1>3, <1>5 DEF CutShort, Deadline
<1>6. CASE Returns \/ Crashes
  BY <1>3, <1>6 DEF Returns, Crashes, Exit, Crash
<1> QED
  BY <1>4, <1>5, <1>6

\* Steps on the way to the handler and back keep all calls honest.
LEMMA WayStep ==
    ASSUME Calling, TypeOK', Orderly', NEW r \in Req,
           \/ \E m \in Methods : Submit(r, m)
           \/ Gate(r) \/ NotDecoded(r) \/ Rejected(r) \/ Unavailable(r)
           \/ Lose(r) \/ Receive(r) \/ Refreshed(r)
    PROVE  Calling'
<1>0. /\ call \in [Req -> Record] /\ effects \in [Req -> 0..2] /\ call[r] \in Record
      /\ \A q \in Req : Honest(q)
      /\ \A q \in Req : handler[q] # "none" /\ phase \in {"serve", "deaf", "drain"}
                          => call[q].stage \in {"served", "done"}
  BY DEF Calling, CallsTypeOK, Record
<1>1. UNCHANGED <<serviceVars, effects>>
  BY DEF Submit, Gate, NotDecoded, Rejected, Unavailable, Lose, Receive, Refreshed
<1>2. UNCHANGED <<program, phase, handler, effects>>
  BY <1>1 DEF serviceVars
<1>a. ASSUME call' \in [Req -> Record], \A q \in Req \ {r} : call'[q] = call[q],
             Honest(r)', handler[r] = "none" \/ call'[r].stage = "done"
                           \/ phase \notin {"serve", "deaf", "drain"}
      PROVE  Calling'
  <2>1. \A q \in Req \ {r} : Honest(q)'
    BY <1>0, <1>2, <1>a, Untouched
  <2>2. \A q \in Req : Honest(q)'
    BY <1>a, <2>1
  <2>3. \A q \in Req : handler'[q] # "none" /\ phase' \in {"serve", "deaf", "drain"}
                         => call'[q].stage \in {"served", "done"}
    BY <1>0, <1>2, <1>a
  <2> QED
    BY <1>0, <1>2, <1>a, <2>2, <2>3, CallByCall
<1>3. ASSUME NEW m \in Methods, Submit(r, m)
      PROVE  Calling'
  <2> DEFINE new == [stage |-> "sent", method |-> m, code |-> None, retried |-> FALSE]
  <2>1. new \in Record
    BY DEF Record, CallStage
  <2>2. /\ call' \in [Req -> Record] /\ \A q \in Req \ {r} : call'[q] = call[q]
        /\ call'[r] = new
    BY <1>0, <1>3, <2>1 DEF Submit
  <2>3. Honest(r)' /\ handler[r] = "none"
    BY <1>0, <1>2, <1>3, <2>2 DEF Submit, Honest, Routes
  <2> QED
    BY <1>a, <2>2, <2>3
\* An answer given on the way.
<1>b. ASSUME call[r].stage \in {"sent", "forwarded"}, NEW code \in Code, Answer(r, code),
             code # "OK"
      PROVE  Calling'
  <2>1. /\ call' \in [Req -> Record] /\ \A q \in Req \ {r} : call'[q] = call[q]
        /\ call'[r].stage = "answered" /\ call'[r].method = call[r].method
        /\ call'[r].code = code
    BY <1>0, <1>b, AnswerType
  <2>2. handler[r] = "none" /\ effects[r] = 0 /\ call[r].method \in DOMAIN Routes
    BY <1>0, <1>b DEF Honest
  <2>3. (DOMAIN Routes)' = DOMAIN Routes
    BY <1>2 DEF Routes
  <2>4. effects'[r] = 0 /\ handler'[r] = "none"
    BY <1>2, <2>2
  <2>5. Honest(r)'
    BY <1>b, <2>1, <2>2, <2>3, <2>4 DEF Honest
  <2> QED
    BY <1>a, <2>1, <2>2, <2>5
<1>4. CASE Gate(r)
  <2>1. CASE Goto(r, "forwarded")
    <3>1. "forwarded" \in CallStage
      BY DEF CallStage
    <3>2. Honest(r)' /\ handler[r] = "none"
      BY <1>0, <1>2, <1>4, <2>1, <3>1, GotoType DEF Gate, Honest, Routes
    <3> QED
      BY <1>0, <1>a, <2>1, <3>1, <3>2, GotoType
  <2>2. CASE Answer(r, "ResourceExhausted") \/ Answer(r, "Unauthenticated")
    BY <1>4, <1>b, <2>2 DEF Gate, Code
  <2> QED
    BY <1>4, <2>1, <2>2 DEF Gate
<1>5. CASE NotDecoded(r)
  BY <1>5, <1>b DEF NotDecoded, Code
<1>6. CASE Rejected(r)
  BY <1>6, <1>b DEF Rejected, Code
<1>7. CASE Unavailable(r)
  BY <1>7, <1>b DEF Unavailable, Code
<1>8. CASE Lose(r)
  <2>1. [call[r] EXCEPT !.stage = "done", !.code = "Unavailable"] \in Record
    BY <1>0 DEF Record, CallStage, Code
  <2>2. /\ call' \in [Req -> Record] /\ \A q \in Req \ {r} : call'[q] = call[q]
        /\ call'[r] = [call[r] EXCEPT !.stage = "done", !.code = "Unavailable"]
    BY <1>0, <1>8, <2>1 DEF Lose
  <2>3. /\ call'[r].stage = "done" /\ call'[r].code = "Unavailable"
        /\ call'[r].method = call[r].method
    BY <1>0, <2>2 DEF Record
  <2>4. Honest(r)'
    BY <1>0, <1>2, <1>8, <2>3 DEF Lose, Honest, Routes
  <2> QED
    BY <1>a, <2>2, <2>3, <2>4
<1>9. CASE Receive(r)
  <2>0. "refresh" \in CallStage /\ "done" \in CallStage
    BY DEF CallStage
  <2>1. CASE /\ Goto(r, "refresh")
             /\ call[r].code = "Unauthenticated" /\ call[r].method \in Authentic
    <3>1. Honest(r)' /\ handler[r] = "none"
      BY <1>0, <1>2, <1>9, <2>0, <2>1, GotoType DEF Receive, Honest, Routes
    <3> QED
      BY <1>0, <1>a, <2>0, <2>1, <3>1, GotoType
  <2>2. CASE Goto(r, "done")
    <3>1. Honest(r)' /\ call'[r].stage = "done"
      BY <1>0, <1>2, <1>9, <2>0, <2>2, GotoType, ZenonT(60) DEF Receive, Honest, Routes
    <3> QED
      BY <1>0, <1>a, <2>0, <2>2, <3>1, GotoType
  <2> QED
    BY <1>9, <2>1, <2>2 DEF Receive
<1>10. CASE Refreshed(r)
  <2>1. CASE call' = [call EXCEPT ![r].stage = "sent", ![r].code = None, ![r].retried = TRUE]
    <3>1. [call[r] EXCEPT !.stage = "sent", !.code = None, !.retried = TRUE] \in Record
      BY <1>0 DEF Record, CallStage
    <3>2. /\ call' \in [Req -> Record] /\ \A q \in Req \ {r} : call'[q] = call[q]
          /\ call'[r] = [call[r] EXCEPT !.stage = "sent", !.code = None, !.retried = TRUE]
      BY <1>0, <2>1, <3>1
    <3>3. call'[r].stage = "sent" /\ call'[r].method = call[r].method
      BY <1>0, <3>2 DEF Record
    <3>4. Honest(r)' /\ handler[r] = "none"
      BY <1>0, <1>2, <1>10, <3>3 DEF Refreshed, Honest, Routes
    <3> QED
      BY <1>a, <3>2, <3>4
  <2>2. CASE Goto(r, "done")
    <3>0. "done" \in CallStage
      BY DEF CallStage
    <3>1. Honest(r)' /\ call'[r].stage = "done"
      BY <1>0, <1>2, <1>10, <2>2, <3>0, GotoType DEF Refreshed, Honest, Routes
    <3> QED
      BY <1>0, <1>a, <2>2, <3>0, <3>1, GotoType
  <2> QED
    BY <1>10, <2>1, <2>2 DEF Refreshed
<1> QED
  BY <1>3, <1>4, <1>5, <1>6, <1>7, <1>8, <1>9, <1>10

\* The work of a handler keeps all calls honest: what it answers tells the truth
\* about what it did, by the tables.
LEMMA HandleStep ==
    ASSUME Calling, TypeOK', Orderly', NEW r \in Req, Handle(r)
    PROVE  Calling'
<1>0. /\ call \in [Req -> Record] /\ effects \in [Req -> 0..2] /\ call[r] \in Record
      /\ \A q \in Req : Honest(q)
      /\ \A q \in Req : handler[q] # "none" /\ phase \in {"serve", "deaf", "drain"}
                          => call[q].stage \in {"served", "done"}
      /\ handler \in [Req -> HandlerStage]
      /\ program \in {"auth", "twofa", "mpc", "gateway"}
  BY ServiceAssumption DEF Calling, CallsTypeOK, Record, TypeOK
<1>1. /\ UNCHANGED <<program, phase>> /\ handler[r] = "run"
      /\ \A q \in Req \ {r} : handler'[q] = handler[q]
      /\ handler'[r] \in {"publish", "reply"}
  BY <1>0 DEF Handle, Work, main
<1>2. effects[r] = 0 /\ call[r].stage \in {"served", "answered", "done"}
      /\ call[r].method \in DOMAIN Routes
  BY <1>0, <1>1 DEF Honest, Record, CallStage
<1> DEFINE answers == Routes[call[r].method]
<1>3. PICK outcome \in DOMAIN answers :
        /\ call' = IF call[r].stage = "served"
                     THEN [call EXCEPT ![r].code = answers[outcome]]
                     ELSE call
        /\ \/ outcome \in Idle \cup {"failed"} /\ UNCHANGED effects
           \/ outcome \notin Idle /\ Did(r)
  BY DEF Handle
<1>4. /\ answers[outcome] \in Code
      /\ answers[outcome] = "OK" => outcome = "done"
      /\ call[r].method \in Authentic /\ answers[outcome] = "Unauthenticated"
           => outcome \in Idle
  BY <1>0, <1>2, Tables
<1>5. /\ effects' \in [Req -> 0..2] /\ \A q \in Req \ {r} : effects'[q] = effects[q]
      /\ effects'[r] \in 0..1
      /\ outcome = "done" => effects'[r] = 1
      /\ outcome \in Idle => effects'[r] = 0
  BY <1>0, <1>2, <1>3 DEF Did, Idle
<1>6. /\ call' \in [Req -> Record] /\ \A q \in Req \ {r} : call'[q] = call[q]
      /\ call'[r].stage = call[r].stage /\ call'[r].method = call[r].method
      /\ IF call[r].stage = "served" THEN call'[r].code = answers[outcome]
                                     ELSE call'[r].code = call[r].code
  <2>1. CASE call[r].stage = "served"
    <3>1. [call[r] EXCEPT !.code = answers[outcome]] \in Record
      BY <1>0, <1>4 DEF Record
    <3>2. call' = [call EXCEPT ![r].code = answers[outcome]]
      BY <1>3, <2>1
    <3> HIDE DEF answers
    <3>3. call' \in [Req -> Record] /\ \A q \in Req \ {r} : call'[q] = call[q]
      BY <1>0, <3>1, <3>2
    <3>4. call'[r] = [call[r] EXCEPT !.code = answers[outcome]]
      BY <1>0, <3>2
    <3> QED
      BY <1>0, <2>1, <3>3, <3>4 DEF Record
  <2>2. CASE call[r].stage # "served"
    BY <1>0, <1>3, <2>2
  <2> QED
    BY <2>1, <2>2
<1>7. (DOMAIN Routes)' = DOMAIN Routes
  BY <1>1 DEF Routes
<1> HIDE DEF answers
<1>8. Honest(r)'
  <2>1. CASE call[r].stage = "served"
    BY <1>1, <1>2, <1>4, <1>5, <1>6, <1>7, <2>1 DEF Honest
  <2>2. CASE call[r].stage \in {"answered", "done"}
    BY <1>0, <1>1, <1>2, <1>5, <1>6, <1>7, <2>2 DEF Honest
  <2> QED
    BY <1>2, <2>1, <2>2
<1>9. \A q \in Req \ {r} : Honest(q)'
  BY <1>0, <1>1, <1>5, <1>6, Untouched
<1>10. \A q \in Req : handler'[q] # "none" /\ phase' \in {"serve", "deaf", "drain"}
                        => call'[q].stage \in {"served", "done"}
  BY <1>0, <1>1, <1>6
<1> QED
  BY <1>5, <1>6, <1>8, <1>9, <1>10, CallByCall

\* So do the other steps of a handler.
LEMMA ServedStep ==
    ASSUME Calling, TypeOK', Orderly', NEW r \in Req,
           Served(r) \/ HandlerPanics(r) \/ Publish(r) \/ Respond(r)
    PROVE  Calling'
<1>0. /\ call \in [Req -> Record] /\ effects \in [Req -> 0..2] /\ call[r] \in Record
      /\ \A q \in Req : Honest(q)
      /\ \A q \in Req : handler[q] # "none" /\ phase \in {"serve", "deaf", "drain"}
                          => call[q].stage \in {"served", "done"}
      /\ handler \in [Req -> HandlerStage]
  BY DEF Calling, CallsTypeOK, Record, TypeOK
<1>1. UNCHANGED <<program, effects>>
  BY DEF Served, Arrive, HandlerPanics, Panic, Publish, PublishEvent, Respond, Reply, main
<1>2. (DOMAIN Routes)' = DOMAIN Routes
  BY <1>1 DEF Routes
\* Only call r is concerned.
<1>a. ASSUME call' \in [Req -> Record], phase' = phase, Honest(r)',
             \A q \in Req \ {r} : call'[q] = call[q] /\ handler'[q] = handler[q],
             handler'[r] # "none" => \/ call'[r].stage = "served"
                                     \/ call'[r].stage = call[r].stage /\ handler[r] # "none"
      PROVE  Calling'
  <2>1. \A q \in Req \ {r} : Honest(q)'
    BY <1>0, <1>1, <1>a, Untouched
  <2>2. \A q \in Req : handler'[q] # "none" /\ phase' \in {"serve", "deaf", "drain"}
                         => call'[q].stage \in {"served", "done"}
    BY <1>0, <1>a
  <2>3. effects' \in [Req -> 0..2] /\ \A q \in Req : Honest(q)'
    BY <1>0, <1>1, <1>a, <2>1
  <2> QED
    BY <1>a, <2>2, <2>3, CallByCall
<1>3. CASE Served(r)
  <2>0. "served" \in CallStage
    BY DEF CallStage
  <2>1. /\ call' \in [Req -> Record] /\ \A q \in Req \ {r} : call'[q] = call[q]
        /\ call'[r].stage = "served" /\ call'[r].method = call[r].method
    BY <1>0, <1>3, <2>0, GotoType DEF Served
  <2>2. /\ call[r].stage = "forwarded" /\ phase' = phase
        /\ handler' = [handler EXCEPT ![r] = "run"]
    BY <1>3 DEF Served, Arrive, main
  <2>3. handler'[r] = "run" /\ \A q \in Req \ {r} : handler'[q] = handler[q]
    BY <1>0, <2>2
  <2>4. effects'[r] = 0 /\ call[r].method \in DOMAIN Routes
    BY <1>0, <1>1, <2>2 DEF Honest
  <2>5. Honest(r)'
    BY <1>2, <2>1, <2>3, <2>4 DEF Honest
  <2> QED
    BY <1>a, <2>1, <2>2, <2>3, <2>5
<1>4. CASE Publish(r)
  <2>1. /\ call' = call /\ phase' = phase /\ handler[r] = "publish"
        /\ handler' = [handler EXCEPT ![r] = "reply"]
    BY <1>4 DEF Publish, PublishEvent, main
  <2>2. handler'[r] = "reply" /\ \A q \in Req \ {r} : handler'[q] = handler[q]
    BY <1>0, <2>1
  <2>3. Honest(r)'
    BY <1>0, <1>1, <1>2, <2>1, <2>2 DEF Honest
  <2> QED
    BY <1>0, <1>a, <2>1, <2>2, <2>3
<1>5. CASE Respond(r)
  <2>0. "answered" \in CallStage
    BY DEF CallStage
  <2>1. /\ phase' = phase /\ handler[r] = "reply"
        /\ handler' = [handler EXCEPT ![r] = "none"]
    BY <1>5 DEF Respond, Reply, main
  <2>2. handler'[r] = "none" /\ \A q \in Req \ {r} : handler'[q] = handler[q]
    BY <1>0, <2>1
  <2>3. CASE call[r].stage = "served"
    <3>1. /\ call' \in [Req -> Record] /\ \A q \in Req \ {r} : call'[q] = call[q]
          /\ call'[r].stage = "answered" /\ call'[r].method = call[r].method
          /\ call'[r].code = call[r].code
      BY <1>0, <1>5, <2>0, <2>3, GotoType DEF Respond
    <3>2. Honest(r)'
      BY <1>0, <1>1, <1>2, <2>1, <2>2, <2>3, <3>1 DEF Honest
    <3> QED
      BY <1>a, <2>1, <2>2, <3>1, <3>2
  <2>4. CASE call[r].stage # "served"
    <3>1. call' = call
      BY <1>5, <2>4 DEF Respond
    <3>2. Honest(r)'
      BY <1>0, <1>1, <1>2, <2>1, <2>2, <2>4, <3>1 DEF Honest
    <3> QED
      BY <1>0, <1>a, <2>1, <2>2, <3>1, <3>2
  <2> QED
    BY <2>3, <2>4
<1>6. CASE HandlerPanics(r) /\ Recovers
  <2>1. /\ phase' = phase /\ handler[r] = "run"
        /\ handler' = [handler EXCEPT ![r] = "reply"]
    BY <1>6 DEF HandlerPanics, Panic
  <2>2. handler'[r] = "reply" /\ \A q \in Req \ {r} : handler'[q] = handler[q]
    BY <1>0, <2>1
  <2>3. call' = [q \in Req |-> IF q = r /\ call[r].stage = "served"
                                 THEN [call[r] EXCEPT !.code = Recovered] ELSE call[q]]
    BY <1>6 DEF HandlerPanics
  <2>4. [call[r] EXCEPT !.code = Recovered] \in Record
    BY <1>0 DEF Record, Recovered, Code
  <2>5. /\ call' \in [Req -> Record] /\ \A q \in Req \ {r} : call'[q] = call[q]
        /\ call'[r] = IF call[r].stage = "served"
                        THEN [call[r] EXCEPT !.code = Recovered] ELSE call[r]
    BY <1>0, <2>3, <2>4
  <2>6. /\ call'[r].stage = call[r].stage /\ call'[r].method = call[r].method
        /\ call[r].stage = "served" => call'[r].code = "Internal"
        /\ call[r].stage # "served" => call'[r].code = call[r].code
    BY <1>0, <2>5 DEF Record, Recovered
  <2>7. Honest(r)'
    BY <1>0, <1>1, <1>2, <2>1, <2>2, <2>6 DEF Honest
  <2> QED
    BY <1>a, <2>1, <2>2, <2>5, <2>6, <2>7
<1>7. CASE HandlerPanics(r) /\ ~Recovers
  <2>1. phase' = "killed" /\ handler' = handler
    BY <1>7 DEF HandlerPanics, Panic
  <2>2. CutOff
    BY <1>7 DEF HandlerPanics, CutOff
  <2>3. call' \in [Req -> Record]
    BY <1>0, <2>2, CutOffType
  <2>4. ASSUME NEW q \in Req PROVE Honest(q)'
    <3>1. CASE call'[q] = call[q]
      BY <1>0, <1>1, <2>1, <3>1, Untouched
    <3>2. CASE /\ call[q].stage = "served" /\ call'[q].stage = "answered"
               /\ call'[q].method = call[q].method /\ call'[q].code = "Unavailable"
      BY <1>0, <1>1, <1>2, <2>1, <3>2 DEF Honest
    <3> QED
      BY <1>0, <2>2, <3>1, <3>2, CutOffType
  <2>5. effects' \in [Req -> 0..2]
    BY <1>0, <1>1
  <2> QED
    BY <2>1, <2>3, <2>4, <2>5, CallByCall
<1> QED
  BY <1>3, <1>4, <1>5, <1>6, <1>7

\* All calls are honest, whatever is refused, lost, retried or cut off.
THEOREM CallsAreHonest == CallsSpec => []Calling
<1>1. CallsInit => Calling
  <2> SUFFICES ASSUME CallsInit PROVE Calling
    OBVIOUS
  <2>1. NoCall \in Record /\ NoCall.stage = "idle"
    BY DEF NoCall, Record, CallStage
  <2>2. call \in [Req -> Record] /\ \A r \in Req : call[r].stage = "idle"
    BY <2>1 DEF CallsInit
  <2>3. TypeOK /\ Orderly /\ \A r \in Req : handler[r] = "none" /\ effects[r] = 0
    BY DEF CallsInit, ServiceInit, TypeOK, Orderly
  <2>4. effects \in [Req -> 0..2]
    BY DEF CallsInit
  <2>5. \A r \in Req : Honest(r)
    BY <2>2, <2>3 DEF Honest
  <2> QED
    BY <2>2, <2>3, <2>4, <2>5 DEF Calling, CallsTypeOK, Record
<1>2. Calling /\ [CallsNext]_callVars => Calling'
  <2> SUFFICES ASSUME Calling, [CallsNext]_callVars PROVE Calling'
    OBVIOUS
  <2>1. TypeOK' /\ Orderly'
    BY ProcessStep DEF Calling
  <2>2. CASE UNCHANGED callVars
    <3>1. UNCHANGED <<program, phase, handler, call, effects>>
      BY <2>2 DEF callVars, serviceVars
    <3>2. \A r \in Req : Honest(r)'
      BY <3>1, Untouched DEF Calling
    <3> QED
      BY <2>1, <3>1, <3>2 DEF Calling, CallsTypeOK
  <2>3. CASE CallsNext
    BY <2>1, <2>3, LifeStep, WayStep, HandleStep, ServedStep DEF CallsNext
  <2> QED
    BY <2>2, <2>3
<1> QED
  BY <1>1, <1>2, PTL DEF CallsSpec

\* Calls, answers and the process stay well formed, and while the server waits
\* for a handler its caller does, or has given up.
THEOREM CallsTypeCorrect == CallsSpec => []CallsTypeOK
<1>1. Calling => CallsTypeOK
  BY DEF Calling
<1> QED
  BY <1>1, CallsAreHonest, PTL

\* One submission is carried out once at most, though apiRequest sends it again
\* after a 401 (apiRequest, the handlers' error switches).
THEOREM NothingIsDoneTwice == CallsSpec => []CarriedOutOnce
<1>1. Calling => CarriedOutOnce
  BY DEF Calling, Honest, CarriedOutOnce
<1> QED
  BY <1>1, CallsAreHonest, PTL

\* Success is answered only for what was done, by a process that panics or is
\* stopped in the middle as well (RecoveryInterceptor, AppRun).
THEOREM AnswersAreTrue == CallsSpec => []SuccessIsTrue
<1>1. Calling => SuccessIsTrue
  BY DEF Calling, Honest, SuccessIsTrue
<1> QED
  BY <1>1, CallsAreHonest, PTL

=============================================================================
