-------------------------- MODULE CodeCheckProofs ---------------------------
(***************************************************************************)
(* Proofs about CodeCheck: type correctness, that the limiter leaves no key *)
(* behind for ever and how many attempts it lets pass in a stretch of time, *)
(* and that a code is not accepted twice in a row.                          *)
(***************************************************************************)
EXTENDS CodeCheck, FiniteSetTheorems, TLAPS

USE CodeCheckAssumption DEF Stage, Window, None

Request == [stage : Stage, op : {"verify", "disable"},
            counter : Window, last : {None} \cup Window]

\* The form of an action that moves request r on to another stage.
LEMMA GotoType ==
    ASSUME NEW r \in Req, NEW stage \in Stage, req \in [Req -> Request], Goto(r, stage)
    PROVE  /\ req' \in [Req -> Request]
           /\ \A q \in Req \ {r} : req'[q] = req[q]
           /\ req'[r].stage = stage /\ req'[r].op = req[r].op
           /\ req'[r].counter = req[r].counter /\ req'[r].last = req[r].last
<1>1. req[r] \in Request
  OBVIOUS
<1>2. [req[r] EXCEPT !.stage = stage] \in Request
  BY <1>1 DEF Request
<1> QED
  BY <1>1, <1>2 DEF Goto, Request

\* The form of an action that ends request r.
LEMMA FinishType ==
    ASSUME NEW r \in Req, req \in [Req -> Request], Finish(r)
    PROVE  /\ req' \in [Req -> Request]
           /\ \A q \in Req \ {r} : req'[q] = req[q]
           /\ req'[r].stage = "idle" /\ req'[r].op = "verify"
<1>1. Idle \in Request /\ Idle.stage = "idle" /\ Idle.op = "verify"
  BY DEF Idle, Request
<1> QED
  BY <1>1 DEF Finish

\* The form of an action that starts request r.
LEMMA BeginType ==
    ASSUME NEW r \in Req, NEW op \in {"verify", "disable"}, NEW c \in Window,
           NEW stage \in Stage, req \in [Req -> Request], Begin(r, op, c, stage)
    PROVE  /\ req' \in [Req -> Request]
           /\ \A q \in Req \ {r} : req'[q] = req[q]
           /\ req'[r].stage = stage /\ req'[r].op = op
           /\ stale' = stale \ {r}
<1>1. [stage |-> stage, op |-> op, counter |-> c, last |-> None] \in Request
  BY DEF Request
<1> QED
  BY <1>1 DEF Begin

\* What the first command leaves of the request that sends it.
LEMMA AttemptType ==
    ASSUME TypeOK, NEW r \in Req, NEW op \in Ops, NEW c \in Window,
           Attempt(r, op, c) \/ AttemptUncounted(r, op, c)
    PROVE  /\ req' \in [Req -> Request]
           /\ \A q \in Req \ {r} : req'[q] = req[q]
           /\ req[r].stage = "idle"
           /\ \/ req' = req /\ stale' = stale
              \/ /\ req'[r].stage \in {"ttl", "read", "match"} /\ req'[r].op = op
                 /\ stale' = stale \ {r}
           /\ op = "verify" => req' = req \/ req'[r].stage \in {"ttl", "read"}
<1>1. op \in {"verify", "disable"} /\ req \in [Req -> Request]
  BY DEF TypeOK, Request
<1>2. FirstStage(op) \in {"read", "match"} /\ (op = "verify" => FirstStage(op) = "read")
  BY DEF FirstStage
<1>3. CASE Attempt(r, op, c)
  <2>1. CASE req' = req /\ stale' = stale
    BY <1>1, <1>3, <2>1 DEF Attempt, MayAttempt, At
  <2>2. CASE \E stage \in {"ttl", FirstStage(op)} : Begin(r, op, c, stage)
    BY <1>1, <1>2, <1>3, <2>2, BeginType DEF Attempt, MayAttempt, At
  <2> QED
    BY <1>3, <2>1, <2>2 DEF Attempt
<1>4. CASE AttemptUncounted(r, op, c)
  BY <1>1, <1>2, <1>4, BeginType DEF AttemptUncounted, MayAttempt, At
<1> QED
  BY <1>3, <1>4

-----------------------------------------------------------------------------
(* Type correctness.                                                       *)

\* What is left of a set cut off at a cap is within it.
LEMMA UpToType ==
    ASSUME NEW cap \in Nat, NEW x \in Nat
    PROVE  UpTo(cap, x) \in 0..cap
BY DEF UpTo

\* There are finitely many attempts, and they can be counted window by window.
LEMMA AdmittedFinite ==
    ASSUME TypeOK
    PROVE  /\ IsFiniteSet(admitted)
           /\ \A S \in SUBSET admitted : IsFiniteSet(S) /\ Cardinality(S) \in Nat
<1>1. IsFiniteSet(Window) /\ IsFiniteSet(1..AdmitCap)
  BY FS_Interval DEF AdmitCap
<1>2. IsFiniteSet(Window \X (1..AdmitCap))
  BY <1>1, FS_Product
<1>3. IsFiniteSet(admitted)
  BY <1>2, FS_Subset DEF TypeOK
<1> QED
  BY <1>3, FS_Subset, FS_CardinalityType

\* Another attempt is one of the current window.
LEMMA AdmitType ==
    ASSUME TypeOK, Admit
    PROVE  admitted' \subseteq Window \X (1..AdmitCap)
<1> DEFINE k == UpTo(AdmitCap, Cardinality(AdmittedIn({now})) + 1)
<1>1. AdmittedIn({now}) \in SUBSET admitted
  BY DEF AdmittedIn
<1>2. Cardinality(AdmittedIn({now})) \in Nat
  BY <1>1, AdmittedFinite
<1>3. AdmitCap \in Nat /\ AdmitCap > 0
  BY DEF AdmitCap
<1>4. k \in 1..AdmitCap
  BY <1>2, <1>3 DEF UpTo
<1>5. admitted' = admitted \cup {<<now, k>>}
  BY DEF Admit
<1> HIDE DEF k
<1>6. <<now, k>> \in Window \X (1..AdmitCap)
  BY <1>4 DEF TypeOK
<1>7. admitted \subseteq Window \X (1..AdmitCap)
  BY DEF TypeOK
<1> HIDE DEF Window
<1> QED
  BY <1>5, <1>6, <1>7

\* A time of expiry is one the type allows.
LEMMA ExpiryType ==
    ASSUME now \in Window
    PROVE  now + RateTTL \in Expiry /\ now + OtpTTL \in Expiry /\ None \in Expiry
BY DEF Expiry

\* Every step keeps the state well formed.
LEMMA TypeStep == TypeOK /\ [Next]_vars => TypeOK'
<1> SUFFICES ASSUME TypeOK, [Next]_vars PROVE TypeOK'
  OBVIOUS
<1> DEFINE Rates == [value : 0..CountCap, expires : Expiry, lost : BOOLEAN]
           Useds == [value : {None} \cup Window, expires : Expiry]
<1>0. /\ now \in Window /\ enrolled \in BOOLEAN /\ rate \in Rates /\ used \in Useds
      /\ req \in [Req -> Request] /\ lastAccepted \in {None} \cup Window
      /\ stale \subseteq Req
      /\ admitted \subseteq Window \X (1..AdmitCap)
      /\ CountCap \in Nat /\ AdmitCap \in Nat
  BY DEF TypeOK, Request, CountCap, AdmitCap
<1>a. NoRate \in Rates /\ NoUsed \in Useds
  BY <1>0, ExpiryType DEF NoRate, NoUsed
<1>b. (/\ now' \in Window /\ enrolled' \in BOOLEAN /\ rate' \in Rates /\ used' \in Useds
       /\ req' \in [Req -> Request] /\ lastAccepted' \in {None} \cup Window
       /\ stale' \subseteq Req
       /\ admitted' \subseteq Window \X (1..AdmitCap)) => TypeOK'
  BY DEF TypeOK, Request
<1>c. \A n \in Nat, answered \in BOOLEAN : Incremented(n, answered) \in Rates
  <2> SUFFICES ASSUME NEW n \in Nat, NEW answered \in BOOLEAN
               PROVE  Incremented(n, answered) \in Rates
    OBVIOUS
  <2>1. UpTo(CountCap, rate.value + n) \in 0..CountCap
    <3>1. rate.value + n \in Nat
      BY <1>0
    <3> QED
      BY <1>0, <3>1, UpToType
  <2>2. (IF rate = NoRate THEN ~answered ELSE rate.lost) \in BOOLEAN
    BY <1>0
  <2> QED
    BY <1>0, <2>1, <2>2 DEF Incremented
<1>d. Expiring \in Rates
  BY <1>0, ExpiryType DEF Expiring
<1> HIDE DEF Rates, Useds
<1>1. CASE UNCHANGED vars
  BY <1>0, <1>1, <1>b DEF vars
<1>2. ASSUME NEW r \in Req, NEW op \in Ops, NEW c \in Window,
             Attempt(r, op, c) \/ AttemptUncounted(r, op, c)
      PROVE  TypeOK'
  <2>1. req' \in [Req -> Request] /\ stale' \subseteq Req
    BY <1>0, <1>2, AttemptType
  <2>2. CASE Attempt(r, op, c)
    <3>1. PICK lost \in 0..MaxLost : rate' = Incremented(lost + 1, lost = 0)
      BY <2>2 DEF Attempt
    <3>a. lost + 1 \in Nat /\ (lost = 0) \in BOOLEAN
      BY <3>1
    <3>2. rate' \in Rates
      BY <1>c, <3>1, <3>a
    <3>3. Admit => admitted' \subseteq Window \X (1..AdmitCap)
      BY AdmitType
    <3>4. admitted' \subseteq Window \X (1..AdmitCap)
      BY <1>0, <2>2, <3>3 DEF Attempt
    <3> QED
      BY <1>0, <1>b, <2>1, <2>2, <3>2, <3>4 DEF Attempt
  <2>3. CASE AttemptUncounted(r, op, c)
    <3>1. PICK lost \in 0..MaxLost : rate' = Incremented(lost, FALSE)
      BY <2>3 DEF AttemptUncounted
    <3>2. lost \in Nat
      BY <3>1
    <3>3. rate' \in Rates
      BY <1>c, <3>1, <3>2
    <3> QED
      BY <1>0, <1>b, <2>1, <2>3, <3>3 DEF AttemptUncounted
  <2> QED
    BY <1>2, <2>2, <2>3
<1>3. ASSUME NEW r \in Req, SetTTL(r) \/ SetTTLFails(r) \/ DropKey(r)
      PROVE  TypeOK'
  <2>1. FirstStage(req[r].op) \in Stage
    BY DEF FirstStage
  <2>2. req' \in [Req -> Request]
    BY <1>0, <1>3, <2>1, GotoType DEF SetTTL, SetTTLFails, DropKey
  <2> QED
    BY <1>0, <1>3, <1>a, <1>b, <1>d, <2>2 DEF SetTTL, SetTTLFails, DropKey, history
<1>4. ASSUME NEW r \in Req, ReadCounter(r)
      PROVE  TypeOK'
  <2>1. PICK last \in GetUsedOTPCounter :
          IF req[r].op = "verify"
            THEN req' = [req EXCEPT ![r].last = last, ![r].stage = "match"]
            ELSE Decide(r, last)
    BY <1>4 DEF ReadCounter
  <2>2. last \in {None} \cup Window
    BY <1>0 DEF GetUsedOTPCounter, Useds
  <2>3. CASE req[r].op = "verify"
    <3>1. [req[r] EXCEPT !.last = last, !.stage = "match"] \in Request
      <4>1. req[r] \in Request /\ "match" \in Stage
        BY <1>0 DEF Stage
      <4> QED
        BY <2>2, <4>1 DEF Request
    <3>2. req' \in [Req -> Request]
      BY <1>0, <2>1, <2>3, <3>1
    <3> QED
      BY <1>0, <1>4, <1>b, <3>2 DEF ReadCounter, history
  <2>4. CASE req[r].op # "verify"
    <3>1. req' \in [Req -> Request]
      BY <1>0, <2>1, <2>4, GotoType, FinishType DEF Decide
    <3> QED
      BY <1>0, <1>4, <1>b, <3>1 DEF ReadCounter, history
  <2> QED
    BY <2>3, <2>4
<1>5. ASSUME NEW r \in Req, MatchCode(r)
      PROVE  TypeOK'
  <2>1. req' \in [Req -> Request]
    BY <1>0, <1>5, GotoType, FinishType DEF MatchCode, Decide
  <2> QED
    BY <1>0, <1>5, <1>b, <2>1 DEF MatchCode, history
<1>6. ASSUME NEW r \in Req, StoreCounter(r)
      PROVE  TypeOK'
  <2>1. req[r].counter \in Window
    BY <1>0 DEF Request
  <2>2. req' \in [Req -> Request]
    BY <1>0, <1>6, GotoType, FinishType DEF StoreCounter
  <2>3. used' \in Useds
    BY <1>0, <1>6, <2>1, ExpiryType DEF StoreCounter, SetUsedOTPCounter, Useds
  <2>4. stale' \subseteq Req
    BY <1>6 DEF StoreCounter
  <2> QED
    BY <1>0, <1>6, <1>b, <2>1, <2>2, <2>3, <2>4 DEF StoreCounter
<1>7. ASSUME NEW r \in Req, Cleanup(r)
      PROVE  TypeOK'
  <2>1. req' \in [Req -> Request]
    BY <1>0, <1>7, FinishType DEF Cleanup
  <2> QED
    BY <1>0, <1>7, <1>a, <1>b, <2>1 DEF Cleanup, history
<1>8. ASSUME NEW r \in Req, Stop(r)
      PROVE  TypeOK'
  <2>1. req' \in [Req -> Request]
    BY <1>0, <1>8, FinishType DEF Stop
  <2> QED
    BY <1>0, <1>8, <1>b, <2>1 DEF Stop, history
<1>9. CASE ExpireRate \/ ExpireUsed
  BY <1>0, <1>9, <1>a, <1>b DEF ExpireRate, ExpireUsed, history
<1>10. CASE Tick
  <2>1. now' \in Window
    BY <1>0, <1>10 DEF Tick
  <2>2. admitted' \subseteq Window \X (1..AdmitCap)
    BY <1>0, <1>10 DEF Tick
  <2> QED
    BY <1>0, <1>10, <1>b, <2>1, <2>2 DEF Tick
<1> QED
  BY <1>1, <1>2, <1>3, <1>4, <1>5, <1>6, <1>7, <1>8, <1>9, <1>10 DEF Next

\* Counters, expiries and requests stay within their bounds.
THEOREM TypeCorrect == Spec => []TypeOK
<1>1. Init => TypeOK
  <2>1. Idle \in Request
    BY DEF Idle, Request
  <2>2. CountCap \in Nat /\ AdmitCap \in Nat
    BY DEF CountCap, AdmitCap
  <2> QED
    BY <2>1, <2>2 DEF Init, TypeOK, Request, NoRate, NoUsed, Expiry
<1> QED
  BY <1>1, TypeStep, PTL DEF Spec

-----------------------------------------------------------------------------
(* The limiter.                                                            *)

\* Provided DEL works and no request is cut short between its commands to the
\* limiter, a key that counts has a time to live or is about to get one or to
\* go, though INCR, EXPIRE and all the rest may fail (IncrementRateLimit): but for
\* a key made by an INCR whose answer was lost, which the statement names.
THEOREM LimitEnds ==
    "DEL" \notin Failing /\ StopsAt \cap {"ttl", "drop"} = {}
      => (Spec => []LimitIsTemporary)
<1> SUFFICES ASSUME "DEL" \notin Failing, StopsAt \cap {"ttl", "drop"} = {}
             PROVE  Spec => []LimitIsTemporary
  OBVIOUS
<1>1. Init => LimitIsTemporary
  BY DEF Init, LimitIsTemporary
<1>2. TypeOK /\ LimitIsTemporary /\ [Next]_vars => LimitIsTemporary'
  <2> SUFFICES ASSUME TypeOK, LimitIsTemporary, [Next]_vars PROVE LimitIsTemporary'
    OBVIOUS
  <2> USE DEF At
  <2>0. /\ req \in [Req -> Request] /\ now \in Nat
        /\ rate \in [value : 0..CountCap, expires : Expiry, lost : BOOLEAN]
        /\ CountCap \in Nat /\ CountCap > 1
    BY DEF TypeOK, Request, CountCap
  <2>a. ASSUME UNCHANGED rate,
               \A q \in Req : req[q].stage \in {"ttl", "drop"} => req'[q] = req[q]
        PROVE  LimitIsTemporary'
    BY <2>a DEF LimitIsTemporary
  <2>1. CASE UNCHANGED vars
    BY <2>1, <2>a DEF vars
  <2>2. ASSUME NEW r \in Req, NEW op \in Ops, NEW c \in Window, Attempt(r, op, c)
        PROVE  LimitIsTemporary'
    <3>1. \A q \in Req : req[q].stage \in {"ttl", "drop"} => req'[q] = req[q]
      BY <2>0, <2>2, AttemptType
    <3>2. PICK lost \in 0..MaxLost :
            LET count == UpTo(CountCap, rate.value + lost + 1) IN
            /\ rate' = Incremented(lost + 1, lost = 0)
            /\ ~Exceeded(count) => Begin(r, op, c, IF count = 1 THEN "ttl" ELSE FirstStage(op))
      BY <2>2 DEF Attempt
    <3>3. lost \in Nat /\ lost + 1 \in Nat /\ lost + 1 # 0
      BY <3>2
    <3>4. CASE rate # NoRate
      <4>1. rate'.expires = rate.expires /\ rate'.lost = rate.lost
        BY <2>0, <3>2, <3>3, <3>4 DEF Incremented
      <4> QED
        BY <3>1, <3>4, <4>1 DEF LimitIsTemporary
    <3>5. CASE rate = NoRate /\ lost # 0
      <4>1. rate'.lost
        BY <2>0, <3>2, <3>3, <3>5 DEF Incremented
      <4> QED
        BY <4>1 DEF LimitIsTemporary
    <3>6. CASE rate = NoRate /\ lost = 0
      <4>1. rate.value = 0
        BY <3>6 DEF NoRate
      <4>2. UpTo(CountCap, rate.value + lost + 1) = 1
        BY <2>0, <3>6, <4>1 DEF UpTo
      <4>3. op \in {"verify", "disable"}
        OBVIOUS
      <4>4. Begin(r, op, c, "ttl")
        BY <3>2, <4>2 DEF Exceeded
      <4> QED
        BY <2>0, <4>3, <4>4, BeginType DEF LimitIsTemporary
    <3> QED
      BY <3>4, <3>5, <3>6
  <2>3. ASSUME NEW r \in Req, NEW op \in Ops, NEW c \in Window, AttemptUncounted(r, op, c)
        PROVE  LimitIsTemporary'
    <3>1. \A q \in Req : req[q].stage \in {"ttl", "drop"} => req'[q] = req[q]
      BY <2>0, <2>3, AttemptType
    <3>2. PICK lost \in 0..MaxLost : rate' = Incremented(lost, FALSE)
      BY <2>3 DEF AttemptUncounted
    <3>3. CASE lost = 0
      BY <2>a, <3>1, <3>2, <3>3 DEF Incremented
    <3>4. CASE lost # 0 /\ rate = NoRate
      <4>1. rate'.lost
        BY <2>0, <3>2, <3>4 DEF Incremented
      <4> QED
        BY <4>1 DEF LimitIsTemporary
    <3>5. CASE lost # 0 /\ rate # NoRate
      <4>1. rate'.expires = rate.expires /\ rate'.lost = rate.lost
        BY <2>0, <3>2, <3>5 DEF Incremented
      <4> QED
        BY <3>1, <3>5, <4>1 DEF LimitIsTemporary
    <3> QED
      BY <3>3, <3>4, <3>5
  <2>4. ASSUME NEW r \in Req, SetTTL(r) PROVE LimitIsTemporary'
    <3>1. rate' = NoRate \/ rate'.expires = now + RateTTL
      BY <2>0, <2>4 DEF SetTTL, Expiring
    <3> QED
      BY <2>0, <3>1 DEF LimitIsTemporary
  <2>5. ASSUME NEW r \in Req, SetTTLFails(r) PROVE LimitIsTemporary'
    BY <2>0, <2>5, GotoType DEF SetTTLFails, LimitIsTemporary
  <2>6. ASSUME NEW r \in Req, DropKey(r) PROVE LimitIsTemporary'
    BY <2>6 DEF DropKey, LimitIsTemporary
  <2>7. ASSUME NEW r \in Req, ReadCounter(r) \/ MatchCode(r) \/ StoreCounter(r)
        PROVE  LimitIsTemporary'
    <3>1. \A q \in Req \ {r} : req'[q] = req[q]
      <4>1. ASSUME Finish(r) \/ \E stage \in {"store", "read", "cleanup"} : Goto(r, stage)
            PROVE  \A q \in Req \ {r} : req'[q] = req[q]
        BY <2>0, <4>1 DEF Finish, Goto
      <4>2. CASE ReadCounter(r)
        BY <2>0, <4>1, <4>2 DEF ReadCounter, Decide
      <4>3. CASE MatchCode(r)
        BY <4>1, <4>3 DEF MatchCode, Decide
      <4>4. CASE StoreCounter(r)
        BY <4>1, <4>4 DEF StoreCounter
      <4> QED
        BY <2>7, <4>2, <4>3, <4>4
    <3>2. rate' = rate /\ req[r].stage \in {"read", "match", "store"}
      BY <2>7 DEF ReadCounter, MatchCode, StoreCounter
    <3> QED
      BY <2>a, <3>1, <3>2
  <2>8. ASSUME NEW r \in Req, Cleanup(r) PROVE LimitIsTemporary'
    BY <2>8 DEF Cleanup, LimitIsTemporary
  <2>9. ASSUME NEW r \in Req, Stop(r) PROVE LimitIsTemporary'
    <3>1. req[r].stage \notin {"ttl", "drop"}
      BY <2>9 DEF Stop
    <3> QED
      BY <2>0, <2>9, <2>a, <3>1, FinishType DEF Stop
  <2>10. CASE ExpireRate
    BY <2>10 DEF ExpireRate, LimitIsTemporary
  <2>11. CASE ExpireUsed \/ Tick
    BY <2>11, <2>a DEF ExpireUsed, Tick
  <2> QED
    BY <2>1, <2>2, <2>3, <2>4, <2>5, <2>6, <2>7, <2>8, <2>9, <2>10, <2>11 DEF Next
<1> QED
  BY <1>1, <1>2, TypeCorrect, PTL DEF Spec

-----------------------------------------------------------------------------
(* How many attempts pass in a stretch of time.                             *)

\* The attempts counted from window w on.
Since(w) == {a \in admitted : a[1] >= w}

\* Where EXPIRE never fails, the key is deleted by its expiry only.  A stretch of
\* RateTTL windows that reaches up to now holds at most one full period besides
\* what the current one has counted; and what passed since the window in which
\* the key got its time to live belongs to the current period.
PeriodInv ==
    /\ \A r \in Req : ~At(r, "drop")
    /\ \A a \in admitted : a[1] <= now
    /\ enrolled =>
         /\ \A w \in Nat : w > now - RateTTL =>
              Cardinality(Since(w)) <= MaxAttempts + UpTo(MaxAttempts, rate.value)
         /\ rate.expires # None =>
              Cardinality(Since(rate.expires - RateTTL + 1)) <= UpTo(MaxAttempts, rate.value)
    /\ SlidingBound

\* A smaller set counts less, and one more attempt adds at most one.
LEMMA Counting ==
    ASSUME TypeOK
    PROVE  /\ \A T \in SUBSET admitted : \A S \in SUBSET T :
                Cardinality(S) \in Nat /\ Cardinality(S) <= Cardinality(T)
           /\ \A w : Since(w) \in SUBSET admitted /\ Cardinality(Since(w)) \in Nat
           /\ \A x, w : Cardinality(Since(w) \cup {x}) <= Cardinality(Since(w)) + 1
<1>1. \A T \in SUBSET admitted : IsFiniteSet(T) /\ Cardinality(T) \in Nat
  BY AdmittedFinite
<1>2. \A T \in SUBSET admitted : \A S \in SUBSET T : Cardinality(S) <= Cardinality(T)
  BY <1>1, FS_Subset
<1>3. \A w : Since(w) \in SUBSET admitted
  BY DEF Since
<1>4. ASSUME NEW x, NEW w
      PROVE  Cardinality(Since(w) \cup {x}) <= Cardinality(Since(w)) + 1
  <2>1. IsFiniteSet(Since(w)) /\ Cardinality(Since(w)) \in Nat
    BY <1>1, <1>3
  <2>2. Cardinality(Since(w) \cup {x}) \in {Cardinality(Since(w)), Cardinality(Since(w)) + 1}
    BY <2>1, FS_AddElement
  <2> QED
    BY <2>1, <2>2
<1> QED
  BY <1>1, <1>2, <1>3, <1>4

\* A step that counts no attempt leaves the bound as it is.
LEMMA SlidingKept == SlidingBound /\ UNCHANGED admitted => SlidingBound'
BY DEF SlidingBound, AtMost, AdmittedIn

\* The key counts no less for an INCR executed once more, and one more at least
\* for an attempt that passes.
LEMMA LimitGrows ==
    ASSUME TypeOK, NEW n \in Nat, NEW answered \in BOOLEAN, rate' = Incremented(n, answered)
    PROVE  /\ rate'.expires = rate.expires /\ rate'.value \in Nat
           /\ UpTo(MaxAttempts, rate'.value) >= UpTo(MaxAttempts, rate.value)
           /\ n > 0 /\ ~Exceeded(rate'.value) =>
                UpTo(MaxAttempts, rate'.value) >= UpTo(MaxAttempts, rate.value) + 1
<1>1. rate.value \in 0..CountCap /\ CountCap = MaxAttempts + 2
      /\ rate \in [value : 0..CountCap, expires : Expiry, lost : BOOLEAN]
  BY DEF TypeOK, CountCap
<1>2. rate'.expires = rate.expires /\ rate'.value = UpTo(CountCap, rate.value + n)
  BY <1>1 DEF Incremented, UpTo
<1> QED
  BY <1>1, <1>2 DEF UpTo, Exceeded

\* Every step keeps the periods apart.
LEMMA PeriodStep ==
    ASSUME "EXPIRE" \notin Failing, TypeOK, PeriodInv, [Next]_vars
    PROVE  PeriodInv'
<1> DEFINE Limit(v) == UpTo(MaxAttempts, v)
<1>0. /\ now \in Nat /\ rate.value \in Nat /\ rate.expires \in Int
      /\ \A v \in Nat : Limit(v) \in Nat /\ Limit(v) <= MaxAttempts
      /\ req \in [Req -> Request]
  BY DEF TypeOK, Expiry, UpTo, Request, CountCap
<1> HIDE DEF Limit
\* Nobody gets to the DEL after a failed EXPIRE.
<1>drop. \A r \in Req : ~At(r, "drop")'
  <2>1. \A r \in Req : req[r].stage # "drop"
    BY DEF PeriodInv, At
  <2>2. CASE UNCHANGED req
    BY <2>1, <2>2 DEF At
  <2>3. ASSUME NEW r \in Req, NEW op \in Ops, NEW c \in Window,
               Attempt(r, op, c) \/ AttemptUncounted(r, op, c)
        PROVE  \A q \in Req : ~At(q, "drop")'
    BY <2>1, <2>3, AttemptType DEF At
  <2>4. ASSUME NEW r \in Req, SetTTL(r) \/ SetTTLFails(r) \/ DropKey(r)
        PROVE  \A q \in Req : ~At(q, "drop")'
    <3>1. FirstStage(req[r].op) \in Stage \ {"drop"}
      BY DEF FirstStage
    <3> QED
      BY <1>0, <2>1, <2>4, <3>1, GotoType DEF SetTTL, SetTTLFails, DropKey, At
  <2>5. ASSUME NEW r \in Req,
               ReadCounter(r) \/ MatchCode(r) \/ StoreCounter(r) \/ Cleanup(r) \/ Stop(r)
        PROVE  \A q \in Req : ~At(q, "drop")'
    <3>1. \/ Finish(r) \/ \E stage \in {"store", "read", "cleanup"} : Goto(r, stage)
          \/ \E last : req' = [req EXCEPT ![r].last = last, ![r].stage = "match"]
      BY <2>5 DEF ReadCounter, MatchCode, StoreCounter, Cleanup, Stop, Decide
    <3>2. \A q \in Req : q # r => req'[q] = req[q]
      BY <1>0, <3>1 DEF Finish, Goto
    <3>3. req'[r].stage # "drop"
      <4>1. CASE Finish(r) \/ \E stage \in {"store", "read", "cleanup"} : Goto(r, stage)
        BY <1>0, <4>1, FinishType, GotoType
      <4>2. CASE \E last : req' = [req EXCEPT ![r].last = last, ![r].stage = "match"]
        BY <1>0, <4>2 DEF Request
      <4> QED
        BY <3>1, <4>1, <4>2
    <3> QED
      BY <2>1, <3>2, <3>3 DEF At
  <2> QED
    BY <2>2, <2>3, <2>4, <2>5 DEF Next, vars, ExpireRate, ExpireUsed, Tick
\* A step that leaves the limiter alone, or changes its key at the end of Disable.
<1>1. ASSUME UNCHANGED <<now, admitted>>, UNCHANGED <<rate, enrolled>> \/ ~enrolled'
      PROVE  PeriodInv'
  <2>1. SlidingBound' /\ \A a \in admitted' : a[1] <= now'
    BY <1>1, SlidingKept DEF PeriodInv
  <2>2. CASE UNCHANGED <<rate, enrolled>>
    BY <1>1, <1>drop, <2>1, <2>2 DEF PeriodInv, Since
  <2>3. CASE ~enrolled'
    BY <1>drop, <2>1, <2>3 DEF PeriodInv
  <2> QED
    BY <1>1, <2>2, <2>3
<1>2. ASSUME NEW r \in Req, NEW op \in Ops, NEW c \in Window, Attempt(r, op, c)
      PROVE  PeriodInv'
  <2>0. PICK lost \in 0..MaxLost :
          /\ rate' = Incremented(lost + 1, lost = 0)
          /\ LET count == UpTo(CountCap, rate.value + lost + 1) IN
               /\ Exceeded(count) => admitted' = admitted
               /\ ~Exceeded(count) => Admit
    BY <1>2 DEF Attempt
  <2> DEFINE count == UpTo(CountCap, rate.value + lost + 1)
  <2>a. lost + 1 \in Nat /\ lost + 1 > 0 /\ (lost = 0) \in BOOLEAN
    BY <2>0
  <2>b. rate'.value = count
    BY <2>0, <2>a DEF Incremented, TypeOK
  <2>c. /\ rate'.expires = rate.expires /\ rate'.value \in Nat
        /\ Limit(rate'.value) >= Limit(rate.value)
        /\ ~Exceeded(rate'.value) => Limit(rate'.value) >= Limit(rate.value) + 1
    BY <2>0, <2>a, LimitGrows DEF Limit
  <2>1. /\ enrolled /\ enrolled' = enrolled /\ now' = now /\ rate'.expires = rate.expires
        /\ rate'.value = count /\ (Exceeded(count) => admitted' = admitted)
        /\ (~Exceeded(count) => Admit)
    BY <1>2, <2>0, <2>b, <2>c DEF Attempt, MayAttempt
  <2> HIDE DEF count
  <2>d. /\ Limit(rate'.value) \in Nat /\ Limit(rate.value) \in Nat
        /\ Limit(rate'.value) <= MaxAttempts
    BY <1>0, <2>c
  <2>2. CASE Exceeded(count)
    <3>1. ASSUME NEW w PROVE Cardinality(Since(w)) \in Nat /\ Since(w)' = Since(w)
      BY <2>1, <2>2, Counting DEF Since
    <3>2. \A w \in Nat : w > now - RateTTL =>
            Cardinality(Since(w)) <= MaxAttempts + Limit(rate'.value)
      BY <2>1, <2>c, <2>d, <3>1 DEF PeriodInv, Limit
    <3>3. rate.expires # None =>
            Cardinality(Since(rate.expires - RateTTL + 1)) <= Limit(rate'.value)
      BY <2>1, <2>c, <2>d, <3>1 DEF PeriodInv, Limit
    <3> QED
      BY <1>drop, <2>1, <2>2, <3>1, <3>2, <3>3, SlidingKept DEF PeriodInv, Limit
  <2>3. CASE ~Exceeded(count)
    <3>1. Limit(rate'.value) >= Limit(rate.value) + 1
      BY <2>1, <2>3, <2>c
    <3> DEFINE x == <<now, UpTo(AdmitCap, Cardinality(AdmittedIn({now})) + 1)>>
    <3>2. admitted' = admitted \cup {x} /\ x[1] = now
      BY <2>1, <2>3 DEF Admit
    <3> HIDE DEF x
    <3>3. \A w \in Int : Since(w)' \in SUBSET (Since(w) \cup {x})
      BY <3>2 DEF Since
    <3>4. ASSUME NEW w \in Int
          PROVE  /\ Cardinality(Since(w)') \in Nat
                 /\ Cardinality(Since(w)') <= Cardinality(Since(w)) + 1
      <4>1. IsFiniteSet(Since(w) \cup {x})
        BY AdmittedFinite, Counting, FS_AddElement
      <4>2. Cardinality(Since(w)') <= Cardinality(Since(w) \cup {x}) /\ IsFiniteSet(Since(w)')
        BY <3>3, <4>1, FS_Subset
      <4>3. /\ Cardinality(Since(w) \cup {x}) <= Cardinality(Since(w)) + 1
            /\ Cardinality(Since(w)) \in Nat
        BY Counting
      <4>4. Cardinality(Since(w)') \in Nat /\ Cardinality(Since(w) \cup {x}) \in Nat
        BY <4>1, <4>2, FS_CardinalityType
      <4> QED
        BY <4>2, <4>3, <4>4
    <3>5. ASSUME NEW w \in Nat, w > now - RateTTL
          PROVE  Cardinality(Since(w)') <= MaxAttempts + Limit(rate'.value)
      <4>1. /\ Cardinality(Since(w)) <= MaxAttempts + Limit(rate.value)
            /\ Cardinality(Since(w)) \in Nat
        BY <2>1, <3>5, Counting DEF PeriodInv, Limit
      <4>2. Cardinality(Since(w)') <= Cardinality(Since(w)) + 1 /\ Cardinality(Since(w)') \in Nat
        BY <3>4
      <4> QED
        BY <2>d, <3>1, <4>1, <4>2
    <3>6. ASSUME rate.expires # None, NEW w \in Int, w = rate.expires - RateTTL + 1
          PROVE  Cardinality(Since(w)') <= Limit(rate'.value)
      <4>1. Cardinality(Since(w)) <= Limit(rate.value) /\ Cardinality(Since(w)) \in Nat
        BY <2>1, <3>6, Counting DEF PeriodInv, Limit
      <4>2. Cardinality(Since(w)') <= Cardinality(Since(w)) + 1 /\ Cardinality(Since(w)') \in Nat
        BY <3>4
      <4> QED
        BY <2>d, <3>1, <4>1, <4>2
    <3>7. ASSUME NEW first \in 0..(MaxTime - RateTTL + 1)
          PROVE  Cardinality(AdmittedIn(first..(first + RateTTL - 1))') <= 2 * MaxAttempts
      <4>1. CASE now \in first..(first + RateTTL - 1)
        <5>1. first \in Nat /\ first > now - RateTTL
          BY <1>0, <4>1
        <5>2. Cardinality(Since(first)') <= MaxAttempts + Limit(rate'.value)
          BY <3>5, <5>1
        <5>3. Limit(rate'.value) <= MaxAttempts /\ Limit(rate'.value) \in Nat
          BY <2>d
        <5>4. Cardinality(Since(first)') <= 2 * MaxAttempts /\ Cardinality(Since(first)') \in Nat
          BY <3>4, <5>1, <5>2, <5>3
        <5>5. AdmittedIn(first..(first + RateTTL - 1))' \in SUBSET (Since(first)')
          BY <5>1 DEF AdmittedIn, Since
        <5>6. IsFiniteSet(Since(first)')
          <6>1. IsFiniteSet(Since(first) \cup {x})
            BY AdmittedFinite, Counting, FS_AddElement
          <6> QED
            BY <3>3, <5>1, <6>1, FS_Subset
        <5>7. /\ Cardinality(AdmittedIn(first..(first + RateTTL - 1))') <= Cardinality(Since(first)')
              /\ Cardinality(AdmittedIn(first..(first + RateTTL - 1))') \in Nat
          BY <5>5, <5>6, FS_Subset, FS_CardinalityType
        <5> QED
          BY <5>4, <5>7
      <4>2. CASE now \notin first..(first + RateTTL - 1)
        <5>1. AdmittedIn(first..(first + RateTTL - 1))' = AdmittedIn(first..(first + RateTTL - 1))
          BY <3>2, <4>2 DEF AdmittedIn
        <5> QED
          BY <5>1 DEF PeriodInv, SlidingBound, AtMost
      <4> QED
        BY <4>1, <4>2
    <3>8. SlidingBound'
      BY <3>7 DEF SlidingBound, AtMost
    <3>9. \A a \in admitted' : a[1] <= now'
      BY <1>0, <2>1, <3>2 DEF PeriodInv
    <3>10. rate'.expires - RateTTL + 1 \in Int
      BY <1>0, <2>1
    <3> QED
      BY <1>drop, <2>1, <3>5, <3>6, <3>8, <3>9, <3>10 DEF PeriodInv, Limit
  <2> QED
    BY <2>2, <2>3
\* An INCR that was executed but not answered only brings the limit nearer.
<1>3. ASSUME NEW r \in Req, NEW op \in Ops, NEW c \in Window, AttemptUncounted(r, op, c)
      PROVE  PeriodInv'
  <2>1. PICK lost \in 0..MaxLost : rate' = Incremented(lost, FALSE)
    BY <1>3 DEF AttemptUncounted
  <2>2. UNCHANGED <<now, enrolled, admitted>>
    BY <1>3 DEF AttemptUncounted
  <2>3. /\ rate'.expires = rate.expires /\ rate'.value \in Nat
        /\ Limit(rate'.value) >= Limit(rate.value)
        /\ Limit(rate'.value) \in Nat /\ Limit(rate.value) \in Nat
    <3>1. lost \in Nat /\ FALSE \in BOOLEAN
      BY <2>1
    <3>2. /\ rate'.expires = rate.expires /\ rate'.value \in Nat
          /\ Limit(rate'.value) >= Limit(rate.value)
      BY <2>1, <3>1, LimitGrows DEF Limit
    <3> QED
      BY <1>0, <3>2
  <2>4. ASSUME NEW w PROVE Cardinality(Since(w)) \in Nat /\ Since(w)' = Since(w)
    BY <2>2, Counting DEF Since
  <2>5. enrolled => \A w \in Nat : w > now - RateTTL =>
          Cardinality(Since(w)) <= MaxAttempts + Limit(rate'.value)
    BY <2>3, <2>4 DEF PeriodInv, Limit
  <2>6. enrolled /\ rate.expires # None =>
          Cardinality(Since(rate.expires - RateTTL + 1)) <= Limit(rate'.value)
    BY <2>3, <2>4 DEF PeriodInv, Limit
  <2> QED
    BY <1>drop, <2>2, <2>3, <2>4, <2>5, <2>6, SlidingKept DEF PeriodInv, Limit
\* The key gets its time to live: nothing is counted after this window yet.
<1>4. ASSUME NEW r \in Req, SetTTL(r) PROVE PeriodInv'
  <2>1. UNCHANGED <<now, enrolled, admitted>>
    BY <1>4 DEF SetTTL, history
  <2>2. CASE rate' = rate
    BY <1>1, <2>1, <2>2
  <2>3. CASE rate' # rate
    <3>1. rate'.value = rate.value /\ rate'.expires = now + RateTTL
      BY <1>4, <2>3 DEF SetTTL, Expiring, TypeOK
    <3>2. ASSUME NEW w \in Int, w = rate'.expires - RateTTL + 1
          PROVE  Cardinality(Since(w)') = 0
      <4>1. w = now + 1
        BY <1>0, <3>1, <3>2
      <4>2. Since(w)' = {}
        BY <1>0, <2>1, <4>1 DEF Since, PeriodInv, TypeOK
      <4> QED
        BY <4>2, FS_EmptySet
    <3>3. rate'.expires - RateTTL + 1 \in Int
      BY <1>0, <3>1
    <3>4. ASSUME enrolled', NEW w \in Nat, w > now' - RateTTL
          PROVE  Cardinality(Since(w)') <= MaxAttempts + Limit(rate'.value)
      BY <2>1, <3>1, <3>4 DEF PeriodInv, Since, Limit
    <3>5. Limit(rate'.value) >= 0
      BY <1>0, <3>1
    <3>6. SlidingBound' /\ \A a \in admitted' : a[1] <= now'
      BY <2>1, SlidingKept DEF PeriodInv
    <3> QED
      BY <1>drop, <3>2, <3>3, <3>4, <3>5, <3>6 DEF PeriodInv, Limit
  <2> QED
    BY <2>2, <2>3
<1>5. ASSUME NEW r \in Req, SetTTLFails(r) \/ DropKey(r) PROVE PeriodInv'
  BY <1>5 DEF SetTTLFails, DropKey, PeriodInv
<1>6. ASSUME NEW r \in Req, ReadCounter(r) \/ MatchCode(r) \/ StoreCounter(r) \/ Stop(r)
      PROVE  PeriodInv'
  BY <1>1, <1>6 DEF ReadCounter, MatchCode, StoreCounter, Stop, history
<1>7. ASSUME NEW r \in Req, Cleanup(r) PROVE PeriodInv'
  BY <1>1, <1>7 DEF Cleanup, history
\* The period is over: the stretches up to now began after its key was set.
<1>8. CASE ExpireRate
  <2>1. /\ rate.expires # None /\ rate.expires <= now /\ rate' = NoRate
        /\ UNCHANGED <<now, enrolled, admitted>>
    BY <1>8 DEF ExpireRate, Due, history
  <2>2. ASSUME enrolled, NEW w \in Nat, w > now - RateTTL
        PROVE  Cardinality(Since(w)) <= MaxAttempts
    <3>1. rate.expires - RateTTL + 1 <= w
      BY <1>0, <2>1, <2>2
    <3>2. Since(w) \in SUBSET Since(rate.expires - RateTTL + 1)
      BY <1>0, <3>1, <2>2 DEF Since, TypeOK
    <3>3. /\ Cardinality(Since(w)) <= Cardinality(Since(rate.expires - RateTTL + 1))
          /\ Cardinality(Since(w)) \in Nat
          /\ Cardinality(Since(rate.expires - RateTTL + 1)) \in Nat
      BY <3>2, Counting
    <3>4. Cardinality(Since(rate.expires - RateTTL + 1)) <= Limit(rate.value)
      BY <2>1, <2>2 DEF PeriodInv, Limit
    <3> QED
      BY <1>0, <3>3, <3>4
  <2>3. rate'.expires = None /\ rate'.value = 0 /\ Limit(0) = 0
    BY <2>1 DEF NoRate, Limit, UpTo
  <2> QED
    BY <1>0, <1>drop, <2>1, <2>2, <2>3, SlidingKept DEF PeriodInv, Since, Limit
<1>9. CASE ExpireUsed
  BY <1>1, <1>9 DEF ExpireUsed, history
<1>10. CASE Tick
  <2>1. /\ now' = now + 1 /\ UNCHANGED <<rate, enrolled>>
        /\ admitted' = {a \in admitted : a[1] > now' - RateTTL} /\ ~Due(rate)
    BY <1>10 DEF Tick
  <2>2. \A w \in Nat : w > now' - RateTTL => w > now - RateTTL
    BY <1>0, <2>1
  <2>3. \A a \in admitted' : a[1] <= now'
    BY <1>0, <2>1 DEF PeriodInv, TypeOK
  <2>4. ASSUME NEW S \in SUBSET admitted
        PROVE  IsFiniteSet(S) /\ Cardinality(S) \in Nat
    BY AdmittedFinite
  <2>5. ASSUME NEW w
        PROVE  Cardinality(Since(w)') <= Cardinality(Since(w)) /\ Cardinality(Since(w)') \in Nat
    <3>1. Since(w)' \in SUBSET Since(w) /\ Since(w) \in SUBSET admitted
      BY <2>1 DEF Since
    <3> QED
      BY <2>4, <3>1, Counting
  <2>6. ASSUME NEW first \in 0..(MaxTime - RateTTL + 1)
        PROVE  Cardinality(AdmittedIn(first..(first + RateTTL - 1))') <= 2 * MaxAttempts
    <3> DEFINE W == first..(first + RateTTL - 1)
    <3>1. AdmittedIn(W)' \in SUBSET AdmittedIn(W) /\ AdmittedIn(W) \in SUBSET admitted
      BY <2>1 DEF AdmittedIn
    <3>2. /\ Cardinality(AdmittedIn(W)') <= Cardinality(AdmittedIn(W))
          /\ Cardinality(AdmittedIn(W)') \in Nat /\ Cardinality(AdmittedIn(W)) \in Nat
      BY <3>1, Counting, AdmittedFinite
    <3>3. Cardinality(AdmittedIn(W)) <= 2 * MaxAttempts
      BY DEF PeriodInv, SlidingBound, AtMost
    <3> QED
      BY <3>2, <3>3
  <2>7. SlidingBound'
    BY <2>6 DEF SlidingBound, AtMost
  <2>8. ASSUME enrolled', NEW w \in Nat, w > now' - RateTTL
        PROVE  Cardinality(Since(w)') <= MaxAttempts + Limit(rate'.value)
    <3>1. Cardinality(Since(w)) <= MaxAttempts + Limit(rate.value) /\ Cardinality(Since(w)) \in Nat
      BY <2>1, <2>2, <2>8, Counting DEF PeriodInv, Limit
    <3> QED
      BY <1>0, <2>1, <2>5, <3>1
  <2>9. ASSUME enrolled', rate'.expires # None,
               NEW w \in Int, w = rate'.expires - RateTTL + 1
        PROVE  Cardinality(Since(w)') <= Limit(rate'.value)
    <3>1. Cardinality(Since(w)) <= Limit(rate.value) /\ Cardinality(Since(w)) \in Nat
      BY <2>1, <2>9, Counting DEF PeriodInv, Limit
    <3> QED
      BY <1>0, <2>1, <2>5, <3>1
  <2>10. rate'.expires - RateTTL + 1 \in Int
    BY <1>0, <2>1
  <2> QED
    BY <1>drop, <2>3, <2>7, <2>8, <2>9, <2>10 DEF PeriodInv, Limit
<1>11. CASE UNCHANGED vars
  BY <1>1, <1>11 DEF vars
<1> QED
  BY <1>2, <1>3, <1>4, <1>5, <1>6, <1>7, <1>8, <1>9, <1>10, <1>11 DEF Next

\* Provided EXPIRE works, no stretch of RateTTL windows sees more than twice the
\* limit pass, whatever else fails, however many requests overlap and wherever
\* they are cut short (IncrementRateLimit).
THEOREM AttemptsAreBounded == "EXPIRE" \notin Failing => (Spec => []SlidingBound)
<1> SUFFICES ASSUME "EXPIRE" \notin Failing PROVE Spec => []SlidingBound
  OBVIOUS
<1>1. Init => PeriodInv
  <2> SUFFICES ASSUME Init PROVE PeriodInv
    OBVIOUS
  <2>1. \A w : Since(w) = {} /\ AdmittedIn(w) = {}
    BY DEF Init, Since, AdmittedIn
  <2>2. UpTo(MaxAttempts, 0) = 0 /\ rate.value = 0 /\ rate.expires = None
    BY DEF UpTo, Init, NoRate
  <2>3. Cardinality({}) = 0
    BY FS_EmptySet
  <2>4. SlidingBound
    <3>1. 0 <= 2 * MaxAttempts
      OBVIOUS
    <3>2. \A first : Cardinality(AdmittedIn(first..(first + RateTTL - 1))) = 0
      BY <2>1, <2>3
    <3> QED
      BY <3>1, <3>2 DEF SlidingBound, AtMost
  <2>5. \A r \in Req : ~At(r, "drop")
    BY DEF Init, At, Idle
  <2>6. \A w : Cardinality(Since(w)) <= MaxAttempts + UpTo(MaxAttempts, rate.value)
    BY <2>1, <2>2, <2>3
  <2>7. admitted = {}
    BY DEF Init
  <2> QED
    BY <2>2, <2>4, <2>5, <2>6, <2>7 DEF PeriodInv
<1>2. TypeOK /\ PeriodInv /\ [Next]_vars => PeriodInv'
  BY PeriodStep
<1>3. PeriodInv => SlidingBound
  BY DEF PeriodInv
<1> QED
  BY <1>1, <1>2, <1>3, TypeCorrect, PTL DEF Spec

-----------------------------------------------------------------------------
(* The memory of the last code.                                            *)

\* The code accepted last is remembered until it is valid no longer, and so is
\* what a request that began after that read of it.  Disable reads the key after
\* it has matched the code, by when the code may be valid no longer.  No request
\* matches a code of the window after the next.
Over == lastAccepted = None \/ now > lastAccepted + 1
KeyRemembers ==
    Over \/ /\ used.value = lastAccepted
            /\ used.expires # None /\ used.expires > lastAccepted + 1
RequestRemembers(r) ==
    IF req[r].op = "verify"
      THEN /\ At(r, "match") => Over \/ req[r].last = lastAccepted
           /\ At(r, "store") => req[r].counter # lastAccepted
      ELSE At(r, "store") =>
             (now <= req[r].counter + 1 => req[r].counter # lastAccepted)
NotAhead(r) ==
    At(r, "store") \/ (At(r, "read") /\ req[r].op = "disable") => req[r].counter <= now + 1
Remembered ==
    /\ \A r \in Req : NotAhead(r)
    /\ enrolled => KeyRemembers /\ \A r \in Req \ stale : RequestRemembers(r)

\* Every step remembers the last code, but for requests that were under way when
\* it was accepted.
LEMMA RememberedStep ==
    ASSUME OtpTTL >= 3, Failing \cap {"GET", "SET"} = {},
           TypeOK, Remembered, [Next]_vars
    PROVE  Remembered'
<1>0. /\ now \in Nat /\ lastAccepted \in Int /\ req \in [Req -> Request]
      /\ used.value \in Int /\ used.expires \in Int /\ OtpTTL \in Nat
      /\ \A r \in Req : req[r].counter \in Nat /\ req[r].op \in {"verify", "disable"}
  BY DEF TypeOK, Request, Expiry
\* One request moves, and no key changes.
<1>a. ASSUME NEW r \in Req, \A q \in Req \ {r} : req'[q] = req[q],
             UNCHANGED <<now, enrolled, used, lastAccepted>>, stale \ {r} \subseteq stale',
             NotAhead(r)', enrolled /\ r \notin stale' => RequestRemembers(r)'
      PROVE  Remembered'
  <2>1. ASSUME NEW q \in Req \ {r}
        PROVE  NotAhead(q)' /\ (enrolled /\ q \notin stale' => RequestRemembers(q)')
    BY <1>0, <1>a, <2>1 DEF Remembered, NotAhead, RequestRemembers, Over, At
  <2>2. enrolled => KeyRemembers'
    BY <1>a DEF Remembered, KeyRemembers, Over
  <2> QED
    BY <1>a, <2>1, <2>2 DEF Remembered
<1>1. CASE UNCHANGED vars
  BY <1>1 DEF vars, Remembered, KeyRemembers, RequestRemembers, NotAhead, Over, At
<1>2. ASSUME NEW r \in Req, NEW op \in Ops, NEW c \in Window,
             Attempt(r, op, c) \/ AttemptUncounted(r, op, c)
      PROVE  Remembered'
  <2>1. req[r].stage = "idle" /\ UNCHANGED <<now, enrolled, used, lastAccepted>>
    BY <1>2 DEF Attempt, AttemptUncounted, MayAttempt, At
  <2>2. /\ \A q \in Req \ {r} : req'[q] = req[q]
        /\ req'[r].op \in {"verify", "disable"} /\ stale \ {r} \subseteq stale'
        /\ \/ req'[r].stage \in {"idle", "ttl"}
           \/ req'[r].op = "verify" /\ req'[r].stage = "read"
           \/ req'[r].op = "disable" /\ req'[r].stage = "match"
    <3>1. op \in {"verify", "disable"}
      OBVIOUS
    <3>2. FirstStage(op) = IF op = "verify" THEN "read" ELSE "match"
      BY DEF FirstStage
    <3>3. \/ req' = req /\ stale' = stale
          \/ Begin(r, op, c, "ttl") \/ Begin(r, op, c, FirstStage(op))
      BY <1>2 DEF Attempt, AttemptUncounted
    <3> QED
      BY <1>0, <2>1, <3>1, <3>2, <3>3, BeginType
  <2>3. RequestRemembers(r)' /\ NotAhead(r)'
    BY <2>2 DEF RequestRemembers, NotAhead, At
  <2> QED
    BY <1>a, <2>1, <2>2, <2>3
<1>3. ASSUME NEW r \in Req, SetTTL(r) \/ SetTTLFails(r) \/ DropKey(r)
      PROVE  Remembered'
  <2>1. /\ UNCHANGED <<now, enrolled, used, lastAccepted, stale>>
        /\ Goto(r, FirstStage(req[r].op)) \/ Goto(r, "drop")
    BY <1>3 DEF SetTTL, SetTTLFails, DropKey, At, history
  <2>2. FirstStage(req[r].op) = IF req[r].op = "verify" THEN "read" ELSE "match"
    BY DEF FirstStage
  <2>3. /\ \A q \in Req \ {r} : req'[q] = req[q]
        /\ req'[r].op = req[r].op
        /\ \/ req'[r].stage = "drop"
           \/ req'[r].op = "verify" /\ req'[r].stage = "read"
           \/ req'[r].op # "verify" /\ req'[r].stage = "match"
    BY <1>0, <2>1, <2>2, GotoType
  <2>4. RequestRemembers(r)' /\ NotAhead(r)'
    BY <2>3 DEF RequestRemembers, NotAhead, At
  <2> QED
    BY <1>a, <2>1, <2>3, <2>4
\* A request ends, and nothing else happens.
<1>c. ASSUME NEW r \in Req, Finish(r),
             UNCHANGED <<now, enrolled, used, lastAccepted, stale>>
      PROVE  Remembered'
  <2>1. /\ \A q \in Req \ {r} : req'[q] = req[q]
        /\ req'[r].stage = "idle" /\ req'[r].op = "verify"
    BY <1>0, <1>c, FinishType
  <2>2. RequestRemembers(r)' /\ NotAhead(r)'
    BY <2>1 DEF RequestRemembers, NotAhead, At
  <2> QED
    BY <1>a, <1>c, <2>1, <2>2
\* A code that was compared with what the key remembers goes on to be stored.
<1>d. ASSUME NEW r \in Req, NEW last, Decide(r, last),
             req[r].counter <= now + 1, UNCHANGED <<now, enrolled, used, lastAccepted, stale>>,
             enrolled /\ r \notin stale =>
               (now <= req[r].counter + 1 => Over \/ last = lastAccepted),
             req[r].op = "verify" => now <= req[r].counter + 1
      PROVE  Remembered'
  <2>1. CASE Finish(r)
    BY <1>c, <1>d, <2>1
  <2>2. CASE last # req[r].counter /\ Goto(r, "store")
    <3>1. /\ \A q \in Req \ {r} : req'[q] = req[q]
          /\ req'[r].stage = "store" /\ req'[r].counter = req[r].counter
          /\ req'[r].op = req[r].op
      BY <1>0, <2>2, GotoType
    <3>2. enrolled /\ r \notin stale =>
            (now <= req[r].counter + 1 => req[r].counter # lastAccepted)
      BY <1>0, <1>d, <2>2 DEF Over
    <3>3. NotAhead(r)' /\ (enrolled /\ r \notin stale => RequestRemembers(r)')
      BY <1>d, <3>1, <3>2 DEF RequestRemembers, NotAhead, At
    <3> QED
      BY <1>a, <1>d, <3>1, <3>3
  <2> QED
    BY <1>d, <2>1, <2>2 DEF Decide, Reused
<1>4. ASSUME NEW r \in Req, ReadCounter(r)
      PROVE  Remembered'
  <2>1. /\ req[r].stage = "read" /\ UNCHANGED <<now, enrolled, used, lastAccepted, stale>>
        /\ IF req[r].op = "verify"
             THEN req' = [req EXCEPT ![r].last = used.value, ![r].stage = "match"]
             ELSE Decide(r, used.value)
    BY <1>4 DEF ReadCounter, GetUsedOTPCounter, At, history
  <2>2. enrolled => Over \/ used.value = lastAccepted
    BY DEF Remembered, KeyRemembers
  <2>3. CASE req[r].op = "verify"
    <3>1. /\ \A q \in Req \ {r} : req'[q] = req[q]
          /\ req'[r].stage = "match" /\ req'[r].last = used.value /\ req'[r].op = "verify"
      BY <1>0, <2>1, <2>3 DEF Request
    <3>2. NotAhead(r)' /\ (enrolled => RequestRemembers(r)')
      BY <2>1, <2>2, <3>1 DEF RequestRemembers, NotAhead, Over, At
    <3> QED
      BY <1>a, <2>1, <3>1, <3>2
  <2>4. CASE req[r].op # "verify"
    <3>1. req[r].counter <= now + 1
      BY <1>0, <2>1, <2>4 DEF Remembered, NotAhead, At
    <3> QED
      BY <1>d, <2>1, <2>2, <2>4, <3>1
  <2> QED
    BY <2>3, <2>4
<1>5. ASSUME NEW r \in Req, MatchCode(r)
      PROVE  Remembered'
  <2>1. /\ req[r].stage = "match" /\ UNCHANGED <<now, enrolled, used, lastAccepted, stale>>
    BY <1>5 DEF MatchCode, At, history
  <2>2. CASE Finish(r)
    BY <1>c, <2>1, <2>2
  <2>3. CASE /\ Valid(req[r].counter)
             /\ IF req[r].op = "verify" THEN Decide(r, req[r].last) ELSE Goto(r, "read")
    <3>1. req[r].counter <= now + 1 /\ now <= req[r].counter + 1
      BY <1>0, <2>3 DEF Valid
    <3>2. CASE req[r].op = "verify"
      <4>1. enrolled /\ r \notin stale => Over \/ req[r].last = lastAccepted
        BY <2>1, <3>2 DEF Remembered, RequestRemembers, At
      <4> QED
        BY <1>d, <2>1, <2>3, <3>1, <3>2, <4>1
    <3>3. CASE req[r].op # "verify"
      <4>1. /\ \A q \in Req \ {r} : req'[q] = req[q]
            /\ req'[r].stage = "read" /\ req'[r].counter = req[r].counter
            /\ req'[r].op = req[r].op
        BY <1>0, <2>3, <3>3, GotoType
      <4>2. RequestRemembers(r)' /\ NotAhead(r)'
        BY <2>1, <3>1, <3>3, <4>1 DEF RequestRemembers, NotAhead, At
      <4> QED
        BY <1>a, <2>1, <4>1, <4>2
    <3> QED
      BY <3>2, <3>3
  <2> QED
    BY <1>5, <2>2, <2>3 DEF MatchCode
<1>6. ASSUME NEW r \in Req, StoreCounter(r)
      PROVE  Remembered'
  <2> DEFINE c == req[r].counter
  <2>1. req[r].stage = "store" /\ c \in Nat /\ c <= now + 1
    BY <1>0, <1>6 DEF Remembered, NotAhead, StoreCounter, At
  <2>2. /\ used' = [value |-> c, expires |-> now + OtpTTL]
        /\ lastAccepted' = c /\ UNCHANGED <<now, enrolled>>
        /\ stale' = {q \in Req : req[q].stage # "idle"}
        /\ IF req[r].op = "verify" THEN Finish(r) ELSE Goto(r, "cleanup")
    BY <1>6 DEF StoreCounter, SetUsedOTPCounter, At
  <2>3. used'.value = c /\ used'.expires # None /\ used'.expires > c + 1
    BY <1>0, <2>1, <2>2
  <2>4. KeyRemembers'
    BY <2>2, <2>3 DEF KeyRemembers
  <2>5. /\ \A q \in Req \ {r} : req'[q] = req[q]
        /\ req'[r].stage \in {"idle", "cleanup"}
    BY <1>0, <2>2, FinishType, GotoType
  <2>6. \A q \in Req \ stale' : q # r /\ req'[q].stage = "idle"
    BY <2>1, <2>2, <2>5
  <2>7. \A q \in Req \ stale' : RequestRemembers(q)'
    BY <2>6 DEF RequestRemembers, At
  <2>8. \A q \in Req : NotAhead(q)'
    BY <2>2, <2>5 DEF Remembered, NotAhead, At
  <2> QED
    BY <2>4, <2>7, <2>8 DEF Remembered
\* The enrolment ends with the request.
<1>7. ASSUME NEW r \in Req, Cleanup(r)
      PROVE  Remembered'
  <2>1. ~enrolled' /\ Finish(r) /\ now' = now
    BY <1>7 DEF Cleanup
  <2>2. /\ \A q \in Req \ {r} : req'[q] = req[q]
        /\ req'[r].stage = "idle" /\ req'[r].op = "verify"
    BY <1>0, <2>1, FinishType
  <2>3. \A q \in Req : NotAhead(q)'
    BY <2>1, <2>2 DEF Remembered, NotAhead, At
  <2> QED
    BY <2>1, <2>3 DEF Remembered
<1>8. ASSUME NEW r \in Req, Stop(r)
      PROVE  Remembered'
  BY <1>8, <1>c DEF Stop, history
<1>9. CASE ExpireRate
  BY <1>9 DEF ExpireRate, history, Remembered, KeyRemembers, RequestRemembers, NotAhead, Over, At
<1>10. CASE ExpireUsed
  <2>1. /\ used.expires # None /\ used.expires <= now
        /\ UNCHANGED <<now, enrolled, req, lastAccepted, stale>>
    BY <1>10 DEF ExpireUsed, Due, history
  <2>2. KeyRemembers => KeyRemembers'
    BY <1>0, <2>1 DEF KeyRemembers, Over
  <2>3. \A r \in Req : /\ RequestRemembers(r) => RequestRemembers(r)'
                       /\ NotAhead(r) => NotAhead(r)'
    BY <2>1 DEF RequestRemembers, NotAhead, Over, At
  <2> QED
    BY <2>1, <2>2, <2>3 DEF Remembered
<1>11. CASE Tick
  <2>1. now' = now + 1 /\ UNCHANGED <<enrolled, used, req, lastAccepted, stale>>
    BY <1>11 DEF Tick
  <2>2. Over => Over'
    BY <1>0, <2>1 DEF Over
  <2>3. \A r \in Req : /\ RequestRemembers(r) => RequestRemembers(r)'
                       /\ NotAhead(r) => NotAhead(r)'
    BY <1>0, <2>1, <2>2 DEF RequestRemembers, NotAhead, At
  <2> QED
    BY <2>1, <2>2, <2>3 DEF Remembered, KeyRemembers
<1> QED
  BY <1>1, <1>2, <1>3, <1>4, <1>5, <1>6, <1>7, <1>8, <1>9, <1>10, <1>11 DEF Next

\* Attempts of Verify and of Disable, overlapping or not, never have the code
\* accepted last accepted again while it is valid, unless they were under way when
\* it was: the key is kept for three windows at least, Redis answers for it,
\* whatever else fails and wherever a request is cut short (otpCounterTTL,
\* Verify, verifyForDisable).
THEOREM NoReplay ==
    OtpTTL >= 3 /\ Failing \cap {"GET", "SET"} = {} => (Spec => NotTwiceInARow)
<1> SUFFICES ASSUME OtpTTL >= 3, Failing \cap {"GET", "SET"} = {}
             PROVE  Spec => NotTwiceInARow
  OBVIOUS
<1>1. Init => Remembered
  BY DEF Init, Remembered, KeyRemembers, RequestRemembers, NotAhead, Over, At, Idle
<1>2. TypeOK /\ Remembered /\ [Next]_vars => Remembered'
  BY RememberedStep
<1>3. Spec => []Remembered
  BY <1>1, <1>2, TypeCorrect, PTL DEF Spec
<1>4. TypeOK /\ Remembered /\ [Next]_vars =>
        [\A r \in Req \ stale :
           /\ StoreCounter(r) /\ enrolled
           /\ req[r].op = "disable" => Valid(req[r].counter)
           => lastAccepted # req[r].counter]_vars
  <2> SUFFICES ASSUME TypeOK, Remembered, NEW r \in Req \ stale, StoreCounter(r), enrolled,
                      req[r].op = "disable" => Valid(req[r].counter)
               PROVE  lastAccepted # req[r].counter
    OBVIOUS
  <2>1. RequestRemembers(r) /\ At(r, "store")
    BY DEF Remembered, StoreCounter
  <2>2. now \in Nat /\ req[r].counter \in Nat /\ req[r].op \in {"verify", "disable"}
    BY DEF TypeOK
  <2> QED
    BY <2>1, <2>2 DEF RequestRemembers, Valid
<1> QED
  BY <1>3, <1>4, TypeCorrect, PTL DEF Spec, NotTwiceInARow

=============================================================================
