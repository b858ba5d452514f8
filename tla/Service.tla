------------------------------ MODULE Service -------------------------------
(***************************************************************************)
(* The life of a process: the Auth service, the TwoFA orchestrator, an MPC  *)
(* node or the gateway (src/<service>/cmd, internal/bootstrap, config).  All *)
(* four read their settings, open what they depend on, serve, and on a       *)
(* signal drain, close and return from main.                                *)
(*                                                                         *)
(* A handler that is running uses what the process opened, publishes an     *)
(* audit event and replies.                                                 *)
(***************************************************************************)
EXTENDS Config, Naturals, Sequences

CONSTANTS
    Programs,       \* those looked at, of "auth", "twofa", "mpc", "gateway"
    Req             \* handlers

ASSUME ServiceAssumption == Programs \subseteq {"auth", "twofa", "mpc", "gateway"}

VARIABLES
    program,        \* which of them this is
    phase,          \* where main is
    open,           \* the resources that are open
    late,           \* the drain ran into its deadline
    handler,        \* handler[r]: the stage of r
    published,      \* handlers whose latest event was reported to be published
    batch,          \* of these events, the ones Kafka's writer still holds
    delivered,      \* the ones the brokers have, or refused
    broken          \* history: handlers that met a closed resource

serviceVars == <<program, phase, open, late, handler, published, batch, delivered, broken>>
main == <<program, phase, open, late>>
events == <<published, batch, delivered>>

Phase == {"load", "wire", "listen", "serve", "deaf", "drain", "close", "exited", "killed"}
HandlerStage == {"none", "run", "publish", "reply"}

-----------------------------------------------------------------------------
(* What the four programs are made of.                                     *)

AuthOpens == <<"postgres", "redis", "kafka">>
TwoFAOpens == <<"postgres", "redis", "mpc", "kafka">>
MPCOpens == <<"postgres", "kafka">>
GatewayOpens == <<"redis", "auth", "twofa">>

AuthCloses == <<"kafka", "redis", "postgres">>
TwoFACloses == <<"kafka", "redis", "mpc", "postgres">>
MPCCloses == <<"kafka", "postgres">>
GatewayCloses == <<"redis", "auth", "twofa">>

Settings == [auth |-> AuthSettings, twofa |-> TwoFASettings,
             mpc |-> MPCSettings, gateway |-> GatewaySettings][program]
Environment == [auth |-> AuthEnv, twofa |-> TwoFAEnv,
                mpc |-> MPCEnv, gateway |-> GatewayEnv][program]
Files == [auth |-> AuthFiles, twofa |-> TwoFAFiles,
          mpc |-> MPCFiles, gateway |-> GatewayFiles][program]
Opens == [auth |-> AuthOpens, twofa |-> TwoFAOpens,
          mpc |-> MPCOpens, gateway |-> GatewayOpens][program]
Closes == [auth |-> AuthCloses, twofa |-> TwoFACloses,
           mpc |-> MPCCloses, gateway |-> GatewayCloses][program]

\* Without Redis the orchestrator goes on with one that keeps nothing.
StandIn(resource) == program = "twofa" /\ resource = "redis"

\* Kafka's writer connects when it first writes.
MayFailToOpen(resource) == resource # "kafka" /\ ~StandIn(resource)

\* A panic in a handler is answered for by all but the MPC node.
Recovers == program # "mpc"

\* A publication returns at once, and a batch is written later; the
\* orchestrator waits for the write.
Async == program \in {"auth", "mpc"}

First(n) == {Opens[i] : i \in 1..n}
All == First(Len(Opens))

TypeOK ==
    /\ program \in Programs
    /\ phase \in Phase
    /\ open \subseteq All
    /\ late \in BOOLEAN
    /\ handler \in [Req -> HandlerStage]
    /\ published \subseteq Req /\ batch \subseteq published
    /\ delivered \subseteq Req /\ batch \cap delivered = {}
    /\ broken \subseteq Req

ServiceInit ==
    /\ program \in Programs
    /\ phase = "load"
    /\ open = {}
    /\ late = FALSE
    /\ handler = [r \in Req |-> "none"]
    /\ published = {} /\ batch = {} /\ delivered = {}
    /\ broken = {}

-----------------------------------------------------------------------------
(* Start.                                                                  *)

\* Settings are checked one by one, so all but one may be taken to be given.
Load ==
    /\ phase = "load"
    /\ \E setting \in DOMAIN Settings, file \in Said, env \in Said :
         /\ setting \notin Environment => env = "nothing"
         /\ phase' = IF Given(Settings[setting], file, env) THEN "wire" ELSE "killed"
    /\ UNCHANGED <<program, open, late, handler, events, broken>>

\* InitServices: a failure ends the process there and then.
OpenNext ==
    /\ phase = "wire"
    /\ \E n \in 1..Len(Opens) :
         /\ open = First(n - 1)
         /\ \/ open' = open \cup {Opens[n]} /\ UNCHANGED phase
            \/ MayFailToOpen(Opens[n]) /\ phase' = "killed" /\ UNCHANGED open
    /\ UNCHANGED <<program, late, handler, events, broken>>

\* Keys and certificates are read; again all but one may be taken to be fine.
Wired ==
    /\ phase = "wire" /\ open = All
    /\ \E file \in Files, content \in Said, tls \in BOOLEAN :
         phase' = IF Loads(file, content, tls) THEN "listen" ELSE "killed"
    /\ UNCHANGED <<program, open, late, handler, events, broken>>

\* The gateway listens in a goroutine that only logs its failure: the process
\* stays, deaf.
DoesNotListen == IF program = "gateway" THEN "deaf" ELSE "killed"

Listen ==
    /\ phase = "listen"
    /\ phase' \in {"serve", DoesNotListen}
    /\ UNCHANGED <<program, open, late, handler, events, broken>>

\* So does Serve of the others once it returns an error.
ServeFails ==
    /\ phase = "serve"
    /\ phase' = "deaf"
    /\ UNCHANGED <<program, open, late, handler, events, broken>>

-----------------------------------------------------------------------------
(* Handlers.                                                               *)

Arrive(r) ==
    /\ phase = "serve"
    /\ handler[r] = "none"
    /\ handler' = [handler EXCEPT ![r] = "run"]
    /\ UNCHANGED <<main, events, broken>>

Running == phase \notin {"exited", "killed"}
Whole == All \ {"kafka"} \subseteq open

\* The handler's calls to what the process opened.
Work(r) ==
    /\ Running /\ handler[r] = "run"
    /\ handler' = [handler EXCEPT ![r] = IF program = "gateway" THEN "reply" ELSE "publish"]
    /\ broken' = IF Whole THEN broken ELSE broken \cup {r}
    /\ UNCHANGED <<main, events>>

\* A failed publication, with Kafka open or not, is logged, and the handler goes on.
PublishEvent(r) ==
    /\ Running /\ handler[r] = "publish"
    /\ handler' = [handler EXCEPT ![r] = "reply"]
    /\ \/ /\ "kafka" \in open
          /\ published' = published \cup {r}
          /\ batch' = IF Async THEN batch \cup {r} ELSE batch
          /\ delivered' = IF Async THEN delivered \ {r} ELSE delivered \cup {r}
       \/ UNCHANGED events
    /\ UNCHANGED <<main, broken>>

Reply(r) ==
    /\ Running /\ handler[r] = "reply"
    /\ handler' = [handler EXCEPT ![r] = "none"]
    /\ UNCHANGED <<main, events, broken>>

\* A batch is written, or given up after three attempts.
Flush ==
    /\ Running /\ batch # {}
    /\ batch' = {}
    /\ delivered' = delivered \cup batch
    /\ UNCHANGED <<main, handler, published, broken>>

Panic(r) ==
    /\ Running /\ handler[r] = "run"
    /\ IF Recovers THEN handler' = [handler EXCEPT ![r] = "reply"] /\ UNCHANGED phase
                   ELSE phase' = "killed" /\ UNCHANGED handler
    /\ UNCHANGED <<program, open, late, events, broken>>

-----------------------------------------------------------------------------
(* Stop.                                                                   *)

Signal ==
    /\ phase \in {"serve", "deaf"}
    /\ phase' = "drain"
    /\ UNCHANGED <<program, open, late, handler, events, broken>>

\* Mutant: stopping does not wait for the handlers.
Drained_AtOnce ==
    /\ phase = "drain"
    /\ phase' = "close"
    /\ UNCHANGED <<program, open, late, handler, events, broken>>

\* GracefulStop, Shutdown: every handler has replied.
Drained ==
    /\ phase = "drain" /\ \A r \in Req : handler[r] = "none"
    /\ phase' = "close"
    /\ UNCHANGED <<program, open, late, handler, events, broken>>

\* Mutant: no deadline.
Deadline_Never == FALSE /\ UNCHANGED serviceVars

\* 30 seconds are over; what still runs goes on while main closes.
Deadline ==
    /\ phase = "drain"
    /\ phase' = "close" /\ late' = TRUE
    /\ UNCHANGED <<program, open, handler, events, broken>>

\* Mutant: the writer is closed without waiting for its batch.
Flushed_Any == TRUE

\* Close of Kafka's writer waits for the batch.
Flushed == "kafka" \in open \/ batch = {}

CloseNext ==
    /\ phase = "close" /\ open # {} /\ Flushed
    /\ \E i \in 1..Len(Closes) :
         /\ Closes[i] \in open /\ \A j \in 1..(i - 1) : Closes[j] \notin open
         /\ open' = open \ {Closes[i]}
    /\ UNCHANGED <<program, phase, late, handler, events, broken>>

\* main returns, and with it whatever still ran.
Exit ==
    /\ phase = "close" /\ open = {} /\ Flushed
    /\ phase' = "exited"
    /\ UNCHANGED <<program, open, late, handler, events, broken>>

\* The machine or the container goes away.
Crash ==
    /\ Running
    /\ phase' = "killed"
    /\ UNCHANGED <<program, open, late, handler, events, broken>>

-----------------------------------------------------------------------------
(* Properties.                                                             *)

\* A handler finds everything it needs open, however long it takes, unless the
\* drain ran into its deadline: cleanup is deferred behind AppRun (main.go).
OnlyLateHandlersBreak == broken # {} => late

\* What PublishEvent reported as published is not lost by stopping: the writer
\* is closed before main returns, even after a drain that was cut short
\* (InitServices, KafkaProducer.Close).
EventsOutliveTheProcess == phase = "exited" => published \subseteq delivered

=============================================================================
