----------------------------- MODULE CodeCheck -----------------------------
(***************************************************************************)
(* The two guards of a one-time code (src/twofa): the rate limiter and the  *)
(* memory of the last used TOTP counter, both keys of Redis with a time to  *)
(* live.  TwoFA lets a matching code be refused or not; this module says    *)
(* when.  It covers one enrolment of one user: a Disable that goes through  *)
(* deletes both keys and ends it.                                           *)
(*                                                                         *)
(* Time advances in TOTP windows of 30 seconds.  A key set in window w with *)
(* a time to live of t windows disappears at some moment of window w + t.   *)
(***************************************************************************)
EXTENDS Integers, FiniteSets

CONSTANTS
    Req,            \* request slots
    Ops,            \* the handlers called: "verify", "disable"
    MaxAttempts,    \* rateLimitMaxAttempts
    RateTTL,        \* rateLimitWindow, in windows
    OtpTTL,         \* otpCounterTTL, in windows
    Failing,        \* the commands to Redis that may fail
    MaxLost,        \* the INCRs of one call whose answers are lost, at most
    StopsAt,        \* the stages at which a request may be cut short
    MaxTime         \* bound: the last window looked at

Window == 0..MaxTime
None == -1
Stage == {"idle", "ttl", "drop", "read", "match", "store", "cleanup"}

ASSUME CodeCheckAssumption ==
    /\ Ops \subseteq {"verify", "disable"}
    /\ MaxAttempts \in Nat \ {0} /\ RateTTL \in Nat \ {0} /\ OtpTTL \in Nat \ {0}
    /\ Failing \subseteq {"INCR", "EXPIRE", "DEL", "GET", "SET"}
    /\ StopsAt \subseteq Stage \ {"idle"}
    /\ MaxLost \in Nat /\ MaxTime \in Nat

VARIABLES
    now,            \* the current TOTP window
    enrolled,       \* FALSE once a Disable went through
    rate,           \* rate_limit:verify: attempts, expiry (None: no TTL); history:
                    \* lost, an INCR whose answer was lost made the key
    used,           \* otp_used: last used counter (None: no key), expiry
    req,            \* req[r]: the request r is serving
    lastAccepted,   \* history: the counter whose code was accepted last
    stale,          \* history: the requests that were under way then
    admitted        \* history: attempts the limiter counted and let pass in the
                    \* last RateTTL windows, as <<window, number>>, numbered
                    \* within each window

history == <<lastAccepted, stale, admitted>>
vars == <<now, enrolled, rate, used, req, lastAccepted, stale, admitted>>

\* The limiter tells up to MaxAttempts and more apart; admitted counts one
\* past what SlidingBound allows.
CountCap == MaxAttempts + 2
AdmitCap == 2 * MaxAttempts + 1
UpTo(cap, x) == IF x < cap THEN x ELSE cap

Expiry == {None} \cup 0..(MaxTime + RateTTL + OtpTTL)
NoRate == [value |-> 0, expires |-> None, lost |-> FALSE]
NoUsed == [value |-> None, expires |-> None]
Idle == [stage |-> "idle", op |-> "verify", counter |-> 0, last |-> None]

TypeOK ==
    /\ now \in Window
    /\ enrolled \in BOOLEAN
    /\ rate \in [value : 0..CountCap, expires : Expiry, lost : BOOLEAN]
    /\ used \in [value : {None} \cup Window, expires : Expiry]
    /\ req \in [Req -> [stage : Stage, op : {"verify", "disable"},
                        counter : Window, last : {None} \cup Window]]
    /\ lastAccepted \in {None} \cup Window
    /\ stale \subseteq Req
    /\ admitted \subseteq Window \X (1..AdmitCap)

Init ==
    /\ now = 0
    /\ enrolled = TRUE
    /\ rate = NoRate
    /\ used = NoUsed
    /\ req = [r \in Req |-> Idle]
    /\ lastAccepted = None
    /\ stale = {}
    /\ admitted = {}

At(r, stage) == req[r].stage = stage
Goto(r, stage) == req' = [req EXCEPT ![r].stage = stage]
Finish(r) == req' = [req EXCEPT ![r] = Idle]

-----------------------------------------------------------------------------
(* The rate limiter: INCR, then EXPIRE if the key is new, then DEL if that  *)
(* failed.  Any other error lets the request go on.  A command that fails   *)
(* may have been executed, and the client sends an INCR again whose answer  *)
(* it misses: the answer that arrives then counts the lost ones too.        *)

\* Verify reads the last counter before it looks at the code, Disable after.
FirstStage(op) == IF op = "verify" THEN "read" ELSE "match"

MayAttempt(r, op) ==
    /\ enrolled
    /\ op \in Ops
    /\ At(r, "idle")

Begin(r, op, c, stage) ==
    /\ req' = [req EXCEPT ![r] =
                 [stage |-> stage, op |-> op, counter |-> c, last |-> None]]
    /\ stale' = stale \ {r}

\* INCR is executed n times in one call, the first of them answered or not.
Incremented(n, answered) ==
    IF n = 0 THEN rate
    ELSE [rate EXCEPT !.value = UpTo(CountCap, rate.value + n),
                      !.lost = IF rate = NoRate THEN ~answered ELSE rate.lost]

Exceeded(count) == count > MaxAttempts

\* One more attempt passes in this window.
AdmittedIn(windows) == {a \in admitted : a[1] \in windows}
Admit == admitted' = admitted \cup
           {<<now, UpTo(AdmitCap, Cardinality(AdmittedIn({now})) + 1)>>}

\* A request with the code of counter c is counted.
Attempt(r, op, c) ==
    /\ MayAttempt(r, op)
    /\ \E lost \in 0..MaxLost :
         LET count == UpTo(CountCap, rate.value + lost + 1) IN
         /\ rate' = Incremented(lost + 1, lost = 0)
         /\ IF Exceeded(count)
              THEN UNCHANGED <<req, stale, admitted>>
              ELSE /\ Begin(r, op, c, IF count = 1 THEN "ttl" ELSE FirstStage(op))
                   /\ Admit
    /\ UNCHANGED <<now, enrolled, used, lastAccepted>>

\* No answer to INCR arrives, executed or not: the request passes uncounted.
AttemptUncounted(r, op, c) ==
    /\ "INCR" \in Failing
    /\ MayAttempt(r, op)
    /\ \E lost \in 0..MaxLost : rate' = Incremented(lost, FALSE)
    /\ Begin(r, op, c, FirstStage(op))
    /\ UNCHANGED <<now, enrolled, used, lastAccepted, admitted>>

Expiring == IF rate = NoRate THEN rate ELSE [rate EXCEPT !.expires = now + RateTTL]

SetTTL(r) ==
    /\ At(r, "ttl")
    /\ rate' = Expiring
    /\ Goto(r, FirstStage(req[r].op))
    /\ UNCHANGED <<now, enrolled, used, history>>

\* Mutant: the key that got no time to live is kept.
SetTTLFails_NoDel(r) ==
    /\ At(r, "ttl")
    /\ "EXPIRE" \in Failing
    /\ rate' \in {rate, Expiring}
    /\ Goto(r, FirstStage(req[r].op))
    /\ UNCHANGED <<now, enrolled, used, history>>

SetTTLFails(r) ==
    /\ At(r, "ttl")
    /\ "EXPIRE" \in Failing
    /\ rate' \in {rate, Expiring}
    /\ Goto(r, "drop")
    /\ UNCHANGED <<now, enrolled, used, history>>

DropKey(r) ==
    /\ At(r, "drop")
    /\ \/ rate' = NoRate
       \/ "DEL" \in Failing /\ UNCHANGED rate
    /\ Goto(r, FirstStage(req[r].op))
    /\ UNCHANGED <<now, enrolled, used, history>>

-----------------------------------------------------------------------------
(* The code itself, and the counter it belongs to.                         *)

\* The code is accepted in its own window and in the two next to it.
Valid(c) == c \in (now - 1)..(now + 1)

\* Mutant: the counter is remembered, but not compared.
Reused_Never(last, c) == FALSE

Reused(last, c) == last = c

\* GET otp_used: an error counts as no counter.
GetUsedOTPCounter ==
    {used.value} \cup (IF "GET" \in Failing THEN {None} ELSE {})

Decide(r, last) ==
    IF Reused(last, req[r].counter) THEN Finish(r) ELSE Goto(r, "store")

ReadCounter(r) ==
    /\ At(r, "read")
    /\ \E last \in GetUsedOTPCounter :
         IF req[r].op = "verify"
           THEN req' = [req EXCEPT ![r].last = last, ![r].stage = "match"]
           ELSE Decide(r, last)
    /\ UNCHANGED <<now, enrolled, rate, used, history>>

MatchCode(r) ==
    /\ At(r, "match")
    /\ IF ~Valid(req[r].counter) THEN Finish(r)
       ELSE IF req[r].op = "verify" THEN Decide(r, req[r].last)
       ELSE Goto(r, "read")
    /\ UNCHANGED <<now, enrolled, rate, used, history>>

SetUsedOTPCounter(c) == used' = [value |-> c, expires |-> now + OtpTTL]

\* SET otp_used: the code is accepted whether or not that worked.
StoreCounter(r) ==
    /\ At(r, "store")
    /\ \/ SetUsedOTPCounter(req[r].counter)
       \/ "SET" \in Failing /\ UNCHANGED used
    /\ lastAccepted' = req[r].counter
    /\ stale' = {q \in Req : ~At(q, "idle")}
    /\ IF req[r].op = "verify" THEN Finish(r) ELSE Goto(r, "cleanup")
    /\ UNCHANGED <<now, enrolled, rate, admitted>>

\* The last step of Disable, after shares, backup codes and record are gone.
Cleanup(r) ==
    /\ At(r, "cleanup")
    /\ \/ rate' = NoRate /\ used' = NoUsed
       \/ "DEL" \in Failing /\ UNCHANGED <<rate, used>>
    /\ enrolled' = FALSE
    /\ Finish(r)
    /\ UNCHANGED <<now, history>>

\* The process dies, or the caller goes away: what was still to be sent to
\* Redis in its context is not, the DEL after a failed EXPIRE included.
Stop(r) ==
    /\ req[r].stage \in StopsAt
    /\ Finish(r)
    /\ UNCHANGED <<now, enrolled, rate, used, history>>

-----------------------------------------------------------------------------
(* Time.                                                                   *)

Due(key) == key.expires # None /\ key.expires <= now

ExpireRate ==
    /\ Due(rate)
    /\ rate' = NoRate
    /\ UNCHANGED <<now, enrolled, used, req, history>>

ExpireUsed ==
    /\ Due(used)
    /\ used' = NoUsed
    /\ UNCHANGED <<now, enrolled, rate, req, history>>

Tick ==
    /\ now < MaxTime
    /\ ~Due(rate) /\ ~Due(used)
    /\ now' = now + 1
    /\ admitted' = {a \in admitted : a[1] > now' - RateTTL}
    /\ UNCHANGED <<enrolled, rate, used, req, lastAccepted, stale>>

Next ==
    \/ \E r \in Req, op \in Ops, c \in Window :
         Attempt(r, op, c) \/ AttemptUncounted(r, op, c)
    \/ \E r \in Req : SetTTL(r) \/ SetTTLFails(r) \/ DropKey(r) \/ ReadCounter(r)
                        \/ MatchCode(r) \/ StoreCounter(r) \/ Cleanup(r) \/ Stop(r)
    \/ ExpireRate \/ ExpireUsed \/ Tick

Spec == Init /\ [][Next]_vars

-----------------------------------------------------------------------------
(* Properties.                                                             *)

\* The code accepted last is not accepted again by a request that began after
\* that, however such requests overlap each other and older ones: the key outlives
\* the three windows in which the code is valid (otpCounterTTL).  Disable matches
\* the code before it reads the key, so for Disable this is claimed of codes that
\* are still valid when it has read it.
NotTwiceInARow ==
    [][\A r \in Req \ stale :
         /\ StoreCounter(r) /\ enrolled
         /\ req[r].op = "disable" => Valid(req[r].counter)
         => lastAccepted # req[r].counter]_vars

\* A counted attempt is forgotten in the end: a key that holds a count has a time
\* to live, or a request is about to give it one or to delete it.  The one
\* exception is a key made by an INCR whose answer was lost: nobody was told that
\* it is new, and it stays (IncrementRateLimit looks for the answer 1).
LimitIsTemporary ==
    \/ rate = NoRate \/ rate.expires # None \/ rate.lost
    \/ \E r \in Req : At(r, "ttl") \/ At(r, "drop")

\* How many attempts pass in any stretch as long as the limiter's period.
AtMost(n) ==
    \A first \in 0..(MaxTime - RateTTL + 1) :
      Cardinality(AdmittedIn(first..(first + RateTTL - 1))) <= n

\* What the README of the service promises, at most MaxAttempts attempts in five
\* minutes.  It does not hold: the periods are fixed, and one can end and the next
\* begin within the same five minutes (IncrementRateLimit).
AttemptsPerPeriod == AtMost(MaxAttempts)

\* What does hold, however the requests overlap: at most two periods' worth.
SlidingBound == AtMost(2 * MaxAttempts)

=============================================================================
