--------------------------- MODULE GatewayProofs ----------------------------
(***************************************************************************)
(* Proofs about Gateway: type correctness, the bound on what the token cache *)
(* lets through, and that no counter is left without a time to live.        *)
(***************************************************************************)
EXTENDS Gateway, TLAPS

USE GatewayAssumption DEF Stage

\* The form of an action that only moves request r on to another stage.
LEMMA GotoType ==
    ASSUME NEW r \in Req, NEW stage \in Stage, req \in [Req -> Request], Goto(r, stage)
    PROVE  /\ req' \in [Req -> Request]
           /\ \A q \in Req \ {r} : req'[q] = req[q]
           /\ req'[r].stage = stage
           /\ \A q \in Req : /\ req'[q].client = req[q].client
                             /\ req'[q].jwt = req[q].jwt
                             /\ req'[q].gone = req[q].gone
                             /\ req'[q].waited = req[q].waited
                             /\ req'[q].answer = req[q].answer
<1>1. req[r] \in Request
  OBVIOUS
<1>2. [req[r] EXCEPT !.stage = stage] \in Request
  BY <1>1 DEF Request
<1> QED
  BY <1>1, <1>2 DEF Goto, Request

\* The form of an action that ends request r.
LEMMA DoneType ==
    ASSUME NEW r \in Req, NEW answer \in {"none", "forwarded", "429", "401"},
           req \in [Req -> Request], Done(r, answer)
    PROVE  /\ req' \in [Req -> Request]
           /\ \A q \in Req \ {r} : req'[q] = req[q]
           /\ req'[r].stage = "idle" /\ req'[r].answer = answer
<1>1. [stage |-> "idle", client |-> NoClient, jwt |-> NoJWT,
       gone |-> FALSE, waited |-> 0, answer |-> answer] \in Request
  BY DEF Request
<1> QED
  BY <1>1 DEF Done

\* The form of an action that starts request r.
LEMMA BeginType ==
    ASSUME NEW r \in Req, NEW k \in Client, NEW j \in JWT \cup {NoJWT},
           NEW stage \in Stage, NEW gone \in BOOLEAN, req \in [Req -> Request],
           Begin(r, k, j, stage, gone)
    PROVE  /\ req' \in [Req -> Request]
           /\ \A q \in Req \ {r} : req'[q] = req[q]
           /\ req'[r].stage = stage /\ req'[r].client = k /\ req'[r].jwt = j
           /\ req'[r].waited = 0 /\ req'[r].answer = "none"
<1>1. [stage |-> stage, client |-> k, jwt |-> j, gone |-> gone,
       waited |-> 0, answer |-> "none"] \in Request
  BY DEF Request
<1> QED
  BY <1>1 DEF Begin

\* What the first command does to the counters and to its request.
LEMMA IncrementedType ==
    ASSUME TypeOK, NEW k \in Client, NEW n \in Nat, NEW answered \in BOOLEAN,
           Incremented(k, n, answered)
    PROVE  /\ count' \in [Client -> 0..(Limit + 1)] /\ ttl' \in [Client -> 0..NoTTL]
           /\ lost' \subseteq Client /\ lost \subseteq lost'
           /\ \A i \in Client : i # k \/ count[k] > 0 \/ n = 0 =>
                ttl'[i] = ttl[i]
           /\ \A i \in Client \ {k} : count'[i] = count[i]
           /\ n = 0 => count' = count /\ ttl' = ttl /\ lost' = lost
           /\ count[k] = 0 /\ n > 0 /\ ~answered => k \in lost'
<1>1. /\ count \in [Client -> 0..(Limit + 1)] /\ ttl \in [Client -> 0..NoTTL]
      /\ lost \subseteq Client
  BY DEF TypeOK
<1>2. Upto(count[k] + n) \in 0..(Limit + 1) /\ (n = 0 => Upto(count[k] + n) = count[k])
  BY <1>1 DEF Upto
<1>3. NoTTL \in 0..NoTTL
  BY DEF NoTTL
<1> QED
  BY <1>1, <1>2, <1>3 DEF Incremented

\* The forms an arriving request can take.
LEMMA ArrivalType ==
    ASSUME TypeOK, NEW r \in Req, NEW k \in Client, NEW j \in JWT \cup {NoJWT},
           Incr(r, k, j) \/ IncrFails(r, k, j)
    PROVE  /\ req' \in [Req -> Request] /\ req[r].stage = "idle"
           /\ \A q \in Req \ {r} : req'[q] = req[q]
           /\ \/ req'[r].stage = "idle"
              \/ req'[r].stage \in {"expire", "resolve"} /\ req'[r].answer = "none"
           /\ \E n \in Nat, answered \in BOOLEAN :
                /\ Incremented(k, n, answered)
                /\ count[k] = 0 /\ n > 0 /\ answered =>
                     req'[r].stage = "expire" /\ req'[r].client = k
<1>0. req \in [Req -> Request] /\ count[k] \in Nat
  BY DEF TypeOK
<1>1. CASE Incr(r, k, j)
  <2>1. PICK missed \in 0..MaxLost :
          LET answer == Upto(count[k] + missed + 1) IN
          /\ Incremented(k, missed + 1, missed = 0)
          /\ IF answer = 1 THEN Begin(r, k, j, "expire", FALSE)
             ELSE IF answer <= Limit THEN Begin(r, k, j, "resolve", FALSE)
             ELSE Done(r, "429")
    BY <1>1 DEF Incr
  <2>2. /\ missed + 1 \in Nat /\ (missed = 0) \in BOOLEAN /\ req[r].stage = "idle"
        /\ count[k] = 0 /\ missed = 0 => Upto(count[k] + missed + 1) = 1
    BY <1>0, <1>1, <2>1 DEF Incr, At, Upto
  <2>3. \/ Begin(r, k, j, "expire", FALSE) \/ Begin(r, k, j, "resolve", FALSE)
        \/ Done(r, "429")
    BY <2>1
  <2>4. /\ req' \in [Req -> Request]
        /\ \A q \in Req \ {r} : req'[q] = req[q]
        /\ \/ req'[r].stage = "idle"
           \/ req'[r].stage \in {"expire", "resolve"} /\ req'[r].answer = "none"
    BY <1>0, <2>3, BeginType, DoneType
  <2>5. count[k] = 0 /\ missed = 0 => req'[r].stage = "expire" /\ req'[r].client = k
    BY <1>0, <2>1, <2>2, BeginType
  <2> QED
    BY <2>1, <2>2, <2>4, <2>5
<1>2. CASE IncrFails(r, k, j)
  <2>1. PICK missed \in 0..MaxLost, gone \in BOOLEAN :
          Incremented(k, missed, FALSE) /\ Begin(r, k, j, "resolve", gone)
    BY <1>2 DEF IncrFails
  <2>2. missed \in Nat /\ FALSE \in BOOLEAN /\ req[r].stage = "idle"
    BY <1>2, <2>1 DEF IncrFails, At
  <2>3. /\ req' \in [Req -> Request]
        /\ \A q \in Req \ {r} : req'[q] = req[q]
        /\ req'[r].stage = "resolve" /\ req'[r].answer = "none"
    BY <1>0, <2>1, BeginType
  <2> QED
    BY <2>1, <2>2, <2>3
<1> QED
  BY <1>1, <1>2

-----------------------------------------------------------------------------
(* Type correctness.                                                       *)

\* Every step keeps the state well formed.
LEMMA TypeStep == TypeOK /\ [Next]_vars => TypeOK'
<1> SUFFICES ASSUME TypeOK, [Next]_vars PROVE TypeOK'
  OBVIOUS
<1> USE DEF TypeOK
<1>1. CASE UNCHANGED vars
  BY <1>1 DEF vars
<1>2. ASSUME NEW r \in Req, NEW k \in Client, NEW j \in JWT \cup {NoJWT},
             Incr(r, k, j) \/ IncrFails(r, k, j)
      PROVE  TypeOK'
  <2>1. /\ req' \in [Req -> Request]
        /\ \E n \in Nat, answered \in BOOLEAN : Incremented(k, n, answered)
    BY <1>2, ArrivalType
  <2>2. /\ count' \in [Client -> 0..(Limit + 1)] /\ ttl' \in [Client -> 0..NoTTL]
        /\ lost' \subseteq Client
    BY <2>1, IncrementedType
  <2>3. UNCHANGED <<cache, left>>
    BY <1>2 DEF Incr, IncrFails
  <2> QED
    BY <2>1, <2>2, <2>3
<1>4. ASSUME NEW r \in Req, Expire(r)
      PROVE  TypeOK'
  <2>1. req' \in [Req -> Request]
    BY <1>4, GotoType DEF Expire
  <2>2. ttl' \in [Client -> 0..NoTTL]
    BY <1>4 DEF Expire, NoTTL
  <2> QED
    BY <1>4, <2>1, <2>2 DEF Expire, limiter
<1>5. ASSUME NEW r \in Req, Resolve(r)
      PROVE  TypeOK'
  BY <1>5, GotoType, DoneType DEF Resolve, limiter
<1>6. ASSUME NEW r \in Req, Validate(r)
      PROVE  TypeOK'
  BY <1>6, GotoType, DoneType DEF Validate, limiter
<1>7. ASSUME NEW r \in Req, Set(r)
      PROVE  TypeOK'
  <2>1. req' \in [Req -> Request]
    BY <1>7, DoneType DEF Set
  <2>2. cache' \in [JWT -> 0..CacheTTL]
    <3>1. CASE cache' = cache
      BY <3>1
    <3>2. CASE cache' = [cache EXCEPT ![req[r].jwt] = CacheTTL]
      <4>1. CacheTTL \in 0..CacheTTL
        OBVIOUS
      <4> QED
        BY <3>2, <4>1
    <3> QED
      BY <1>7, <3>1, <3>2 DEF Set
  <2> QED
    BY <1>7, <2>1, <2>2 DEF Set, limiter
<1>8. ASSUME NEW r \in Req, HangUp(r)
      PROVE  TypeOK'
  <2>1. req[r] \in Request
    OBVIOUS
  <2>2. [req[r] EXCEPT !.gone = TRUE] \in Request
    BY <2>1 DEF Request
  <2> QED
    BY <1>8, <2>2 DEF HangUp, limiter
<1>9. CASE Tick
  <2>1. ASSUME NEW q \in Req PROVE req'[q] \in Request
    <3>1. req[q] \in Request /\ (At(q, "set") => req[q].waited + 1 \in 0..Delay)
      BY <1>9 DEF Tick, Request
    <3> QED
      BY <1>9, <3>1 DEF Tick, Request
  <2>2. req' \in [Req -> Request]
    BY <1>9, <2>1 DEF Tick
  <2>3. ttl' \in [Client -> 0..NoTTL] /\ count' \in [Client -> 0..(Limit + 1)]
    BY <1>9 DEF Tick, TimeLeft, Down, NoTTL
  <2>4. cache' \in [JWT -> 0..CacheTTL]
    BY <1>9 DEF Tick, Down
  <2>5. left' \in [JWT -> Oldest..Lifetime]
    BY <1>9 DEF Tick, Oldest
  <2>6. lost' \subseteq Client
    BY <1>9 DEF Tick
  <2> QED
    BY <2>2, <2>3, <2>4, <2>5, <2>6
<1>10. ASSUME NEW j \in JWT, Renew(j)
       PROVE  TypeOK'
  BY <1>10 DEF Renew, Oldest, limiter
<1> QED
  BY <1>1, <1>2, <1>4, <1>5, <1>6, <1>7, <1>8, <1>9, <1>10 DEF Next, Proceed

\* Counters, times to live and requests stay within their bounds.
THEOREM TypeCorrect == Spec => []TypeOK
<1>1. Init => TypeOK
  <2>1. [stage |-> "idle", client |-> NoClient, jwt |-> NoJWT, gone |-> FALSE,
         waited |-> 0, answer |-> "none"] \in Request
    BY DEF Request
  <2> QED
    BY <2>1 DEF Init, TypeOK, NoTTL, Oldest
<1> QED
  BY <1>1, TypeStep, PTL DEF Spec

-----------------------------------------------------------------------------
(* The limiter.                                                            *)

\* Unless EXPIRE itself fails, a counter without a time to live has a request
\* that is about to give it one, or was made by an INCR whose answer was lost:
\* wherever the clients hang up and whatever else fails (RateLimit).
THEOREM CountersExpire == "expire" \notin Faults => (Spec => []CounterExpires)
<1> SUFFICES ASSUME "expire" \notin Faults PROVE Spec => []CounterExpires
  OBVIOUS
<1>1. Init => CounterExpires
  BY DEF Init, CounterExpires
<1>2. TypeOK /\ CounterExpires /\ [Next]_vars => CounterExpires'
  <2> SUFFICES ASSUME TypeOK, CounterExpires, [Next]_vars,
                      NEW k \in Client, count'[k] > 0, ttl'[k] = NoTTL, k \notin lost'
               PROVE  \E r \in Req : req'[r].stage = "expire" /\ req'[r].client = k
    BY DEF CounterExpires, At
  <2> USE DEF TypeOK, At
  <2>0. count[k] \in Nat /\ ttl[k] \in 0..NoTTL
    OBVIOUS
  <2>1. CASE UNCHANGED vars
    BY <2>1 DEF vars, CounterExpires
  <2>2. ASSUME NEW r \in Req, NEW i \in Client, NEW j \in JWT \cup {NoJWT},
               Incr(r, i, j) \/ IncrFails(r, i, j)
        PROVE  \E q \in Req : req'[q].stage = "expire" /\ req'[q].client = k
    <3>1. PICK n \in Nat, answered \in BOOLEAN :
            /\ Incremented(i, n, answered)
            /\ count[i] = 0 /\ n > 0 /\ answered =>
                 req'[r].stage = "expire" /\ req'[r].client = i
      BY <2>2, ArrivalType
    <3>2. CASE i = k /\ count[k] = 0 /\ n > 0
      BY <3>1, <3>2, IncrementedType
    <3>3. CASE ~(i = k /\ count[k] = 0 /\ n > 0)
      <4>1. count[k] > 0 /\ ttl[k] = NoTTL /\ k \notin lost
        BY <2>0, <3>1, <3>3, IncrementedType
      <4>2. PICK q \in Req : req[q].stage = "expire" /\ req[q].client = k
        BY <4>1 DEF CounterExpires
      <4>3. req'[q] = req[q]
        BY <2>2, <4>2, ArrivalType
      <4> QED
        BY <4>2, <4>3
    <3> QED
      BY <3>2, <3>3
  <2>4. ASSUME NEW r \in Req, Expire(r)
        PROVE  \E q \in Req : req'[q].stage = "expire" /\ req'[q].client = k
    <3>1. req[r].client # k
      BY <2>4 DEF Expire, NoTTL
    <3>2. count[k] > 0 /\ ttl[k] = NoTTL /\ k \notin lost
      BY <2>4, <3>1 DEF Expire
    <3>3. PICK q \in Req : req[q].stage = "expire" /\ req[q].client = k
      BY <3>2 DEF CounterExpires
    <3> QED
      BY <2>4, <3>1, <3>3, GotoType DEF Expire
  <2>5. ASSUME NEW r \in Req, Resolve(r) \/ Validate(r) \/ Set(r)
        PROVE  \E q \in Req : req'[q].stage = "expire" /\ req'[q].client = k
    <3>1. PICK q \in Req : req[q].stage = "expire" /\ req[q].client = k
      BY <2>5 DEF CounterExpires, Resolve, Validate, Set, limiter
    <3>2. req'[q] = req[q]
      BY <2>5, <3>1, GotoType, DoneType DEF Resolve, Validate, Set
    <3> QED
      BY <3>1, <3>2
  <2>6. ASSUME NEW r \in Req, HangUp(r)
        PROVE  \E q \in Req : req'[q].stage = "expire" /\ req'[q].client = k
    <3>1. PICK q \in Req : req[q].stage = "expire" /\ req[q].client = k
      BY <2>6 DEF CounterExpires, HangUp, limiter
    <3> QED
      BY <2>6, <3>1 DEF HangUp, Request
  <2>7. CASE Tick
    <3>1. count[k] > 0 /\ ttl[k] = NoTTL /\ k \notin lost
      BY <2>0, <2>7 DEF Tick, TimeLeft, Down, NoTTL
    <3>2. PICK q \in Req : req[q].stage = "expire" /\ req[q].client = k
      BY <3>1 DEF CounterExpires
    <3>3. req'[q] = req[q]
      BY <2>7, <3>2 DEF Tick
    <3> QED
      BY <3>2, <3>3
  <2>8. ASSUME NEW j \in JWT, Renew(j)
        PROVE  \E q \in Req : req'[q].stage = "expire" /\ req'[q].client = k
    BY <2>8 DEF Renew, CounterExpires, limiter
  <2> QED
    BY <2>1, <2>2, <2>4, <2>5, <2>6, <2>7, <2>8 DEF Next, Proceed
<1> QED
  BY <1>1, <1>2, TypeCorrect, PTL DEF Spec

-----------------------------------------------------------------------------
(* The token cache.                                                        *)

\* What keeps the cache from letting an old token through: an entry was young
\* when the token was last known to be alive, and so is the answer of the auth
\* service that a request is about to write down.
Fresh ==
    /\ \A j \in JWT : cache[j] > 0 => left[j] >= cache[j] + 1 - CacheTTL - Delay
    /\ \A r \in Req : /\ At(r, "validate") \/ At(r, "set") => req[r].jwt \in JWT
                      /\ At(r, "set") => left[req[r].jwt] >= 1 - req[r].waited
                      /\ ~At(r, "idle") => req[r].answer = "none"

\* Every step keeps the cache young.
LEMMA FreshStep == TypeOK /\ Fresh /\ [Next]_vars => Fresh'
<1> SUFFICES ASSUME TypeOK, Fresh, [Next]_vars PROVE Fresh'
  OBVIOUS
<1> USE DEF TypeOK, At
<1> DEFINE Young(q) ==
             /\ At(q, "validate") \/ At(q, "set") => req[q].jwt \in JWT
             /\ At(q, "set") => left[req[q].jwt] >= 1 - req[q].waited
             /\ ~At(q, "idle") => req[q].answer = "none"
<1>0. /\ \A j \in JWT : cache[j] > 0 => left[j] >= cache[j] + 1 - CacheTTL - Delay
      /\ \A q \in Req : Young(q)
  BY DEF Fresh
<1>1. CASE UNCHANGED vars
  BY <1>1 DEF vars, Fresh
<1>2. ASSUME NEW r \in Req, NEW k \in Client, NEW j \in JWT \cup {NoJWT},
             Incr(r, k, j) \/ IncrFails(r, k, j)
      PROVE  Fresh'
  <2>1. \A q \in Req \ {r} : req'[q] = req[q]
    BY <1>2, ArrivalType
  <2>2. \/ req'[r].stage = "idle"
        \/ req'[r].stage \in {"expire", "resolve"} /\ req'[r].answer = "none"
    BY <1>2, ArrivalType
  <2>3. Young(r)'
    BY <2>2
  <2>4. \A q \in Req \ {r} : Young(q)'
    BY <1>0, <1>2, <2>1 DEF Incr, IncrFails
  <2> QED
    BY <1>0, <1>2, <2>3, <2>4 DEF Fresh, Incr, IncrFails
<1>3. ASSUME NEW r \in Req, Expire(r) \/ Resolve(r) \/ Validate(r)
      PROVE  Fresh'
  <2>1. \A q \in Req \ {r} : req'[q] = req[q]
    BY <1>3, GotoType, DoneType DEF Expire, Resolve, Validate
  <2>2. Young(r)'
    <3>1. CASE Expire(r)
      BY <1>0, <3>1, GotoType DEF Expire
    <3>2. CASE Resolve(r)
      <4>1. CASE Done(r, "forwarded")
        BY <4>1, DoneType
      <4>2. CASE Goto(r, "validate") /\ req[r].jwt # NoJWT
        <5>1. req[r].jwt \in JWT
          BY <4>2 DEF Request
        <5> QED
          BY <1>0, <3>2, <4>2, <5>1, GotoType DEF Resolve
      <4> QED
        BY <3>2, <4>1, <4>2 DEF Resolve
    <3>3. CASE Validate(r)
      <4>1. CASE Done(r, "401")
        BY <4>1, DoneType
      <4>2. CASE Goto(r, "set") /\ left[req[r].jwt] > 0
        <5>1. req[r].jwt \in JWT /\ req[r].answer = "none" /\ req[r].waited \in 0..Delay
          BY <1>0, <3>3 DEF Validate, Request
        <5>2. left' = left /\ left[req[r].jwt] \in Int
          BY <3>3, <5>1 DEF Validate, Oldest
        <5> QED
          BY <4>2, <5>1, <5>2, GotoType
      <4> QED
        BY <3>3, <4>1, <4>2 DEF Validate
    <3> QED
      BY <1>3, <3>1, <3>2, <3>3
  <2>3. \A q \in Req \ {r} : Young(q)'
    BY <1>0, <1>3, <2>1 DEF Expire, Resolve, Validate
  <2> QED
    BY <1>0, <1>3, <2>2, <2>3 DEF Fresh, Expire, Resolve, Validate
<1>4. ASSUME NEW r \in Req, Set(r)
      PROVE  Fresh'
  <2> DEFINE j == req[r].jwt
  <2>1. /\ \A q \in Req \ {r} : req'[q] = req[q]
        /\ req'[r].stage = "idle"
    BY <1>4, DoneType DEF Set
  <2>2. \A q \in Req : Young(q)'
    BY <1>0, <1>4, <2>1 DEF Set
  <2>3. j \in JWT /\ left[j] \in Int /\ left[j] >= 1 - Delay
    BY <1>0, <1>4 DEF Set, Request, Oldest
  <2>4. \A i \in JWT : cache'[i] > 0 => left'[i] >= cache'[i] + 1 - CacheTTL - Delay
    <3>1. left' = left /\ (cache' = cache \/ cache' = [cache EXCEPT ![j] = CacheTTL])
      BY <1>4 DEF Set
    <3>2. CASE cache' = cache
      BY <1>0, <3>1, <3>2
    <3>3. CASE cache' = [cache EXCEPT ![j] = CacheTTL]
      BY <1>0, <2>3, <3>1, <3>3
    <3> QED
      BY <3>1, <3>2, <3>3
  <2> QED
    BY <2>2, <2>4 DEF Fresh
<1>5. ASSUME NEW r \in Req, HangUp(r)
      PROVE  Fresh'
  <2>1. \A q \in Req : /\ req'[q].stage = req[q].stage
                       /\ req'[q].jwt = req[q].jwt
                       /\ req'[q].waited = req[q].waited
                       /\ req'[q].answer = req[q].answer
    BY <1>5 DEF HangUp, Request
  <2>2. \A q \in Req : Young(q)'
    BY <1>0, <1>5, <2>1 DEF HangUp
  <2> QED
    BY <1>0, <1>5, <2>2 DEF Fresh, HangUp
<1>6. CASE Tick
  <2>1. ASSUME NEW j \in JWT, cache'[j] > 0
        PROVE  left'[j] >= cache'[j] + 1 - CacheTTL - Delay
    <3>1. cache[j] \in Nat /\ cache[j] > 0 /\ cache'[j] = cache[j] - 1
      BY <1>6, <2>1 DEF Tick, Down
    <3>2. left[j] \in Int /\ left[j] > Oldest
      BY <1>0, <3>1 DEF Oldest
    <3>3. left'[j] = left[j] - 1
      BY <1>6, <3>2 DEF Tick
    <3> QED
      BY <1>0, <3>1, <3>2, <3>3
  <2>2. ASSUME NEW q \in Req PROVE Young(q)'
    <3>1. CASE ~At(q, "set")
      BY <1>0, <1>6, <3>1 DEF Tick
    <3>2. CASE At(q, "set")
      <4>1. /\ req'[q].stage = "set" /\ req'[q].jwt = req[q].jwt
            /\ req'[q].answer = req[q].answer /\ req'[q].waited = req[q].waited + 1
        BY <1>6, <3>2 DEF Tick, Request
      <4>2. /\ req[q].jwt \in JWT /\ req[q].waited \in 0..Delay
            /\ left[req[q].jwt] \in Int /\ left[req[q].jwt] >= 1 - req[q].waited
        BY <1>0, <3>2 DEF Request, Oldest
      <4>3. left[req[q].jwt] > Oldest
        BY <4>2 DEF Oldest
      <4>4. left'[req[q].jwt] = left[req[q].jwt] - 1
        BY <1>6, <4>2, <4>3 DEF Tick
      <4> QED
        BY <1>0, <3>2, <4>1, <4>2, <4>4
    <3> QED
      BY <3>1, <3>2
  <2> QED
    BY <2>1, <2>2 DEF Fresh
<1>7. ASSUME NEW j \in JWT, Renew(j)
      PROVE  Fresh'
  <2>1. \A i \in JWT \ {j} : left'[i] = left[i]
    BY <1>7 DEF Renew
  <2>2. \A q \in Req : Young(q)'
    BY <1>0, <1>7, <2>1 DEF Renew
  <2>3. \A i \in JWT : cache'[i] > 0 => left'[i] >= cache'[i] + 1 - CacheTTL - Delay
    BY <1>0, <1>7, <2>1 DEF Renew
  <2> QED
    BY <2>2, <2>3 DEF Fresh
<1> QED
  BY <1>1, <1>2, <1>3, <1>4, <1>5, <1>6, <1>7 DEF Next, Proceed

\* No request with a token is let through more than CacheTTL and Delay after
\* the token ran out, whatever fails and however many requests use it
\* (Auth, its order of cache and auth service).
THEOREM NoStaleToken == Spec => StaleBound
<1>1. Init => Fresh
  BY DEF Init, Fresh, At
<1>2. Spec => []Fresh
  BY <1>1, TypeCorrect, FreshStep, PTL DEF Spec
<1>3. TypeOK /\ Fresh /\ [Next]_vars =>
        [\A r \in Req :
           ~At(r, "idle") /\ req[r].jwt # NoJWT /\ req'[r].answer = "forwarded"
             => left[req[r].jwt] > Oldest]_vars
  <2> SUFFICES ASSUME TypeOK, Fresh, Next, NEW r \in Req, ~At(r, "idle"),
                      req[r].jwt # NoJWT, req'[r].answer = "forwarded"
               PROVE  left[req[r].jwt] > Oldest
    OBVIOUS
  <2> USE DEF TypeOK, At
  <2> DEFINE j == req[r].jwt
  <2>1. /\ j \in JWT /\ left[j] \in Int /\ req[r].waited \in 0..Delay
        /\ cache[j] \in Nat /\ req[r].answer = "none"
    BY DEF Fresh, Request, Oldest
  <2>2. cache[j] > 0 => left[j] > Oldest
    BY <2>1 DEF Fresh, Oldest
  <2>3. At(r, "set") => left[j] > Oldest
    BY <2>1 DEF Fresh, Oldest
  <2>4. ASSUME NEW q \in Req, NEW k \in Client, NEW i \in JWT \cup {NoJWT},
               Incr(q, k, i) \/ IncrFails(q, k, i)
        PROVE  FALSE
    <3>1. /\ req[q].stage = "idle" /\ \A p \in Req \ {q} : req'[p] = req[p]
          /\ q # r
      BY <2>4, ArrivalType
    <3> QED
      BY <2>1, <3>1
  <2>5. ASSUME NEW q \in Req, Resolve(q) PROVE left[j] > Oldest
    BY <2>1, <2>2, <2>5, GotoType, DoneType DEF Resolve
  <2>6. ASSUME NEW q \in Req, Set(q) PROVE left[j] > Oldest
    BY <2>1, <2>3, <2>6, DoneType DEF Set
  <2>7. ASSUME NEW q \in Req, Expire(q) \/ Validate(q) PROVE FALSE
    BY <2>1, <2>7, GotoType, DoneType DEF Expire, Validate
  <2>8. ASSUME NEW q \in Req, HangUp(q) PROVE FALSE
    BY <2>1, <2>8 DEF HangUp, Request
  <2>9. Tick => FALSE
    BY <2>1 DEF Tick, Request
  <2>10. ASSUME NEW i \in JWT, Renew(i) PROVE FALSE
    BY <2>1, <2>10 DEF Renew
  <2> QED
    BY <2>4, <2>5, <2>6, <2>7, <2>8, <2>9, <2>10 DEF Next, Proceed
<1> QED
  BY <1>2, <1>3, TypeCorrect, PTL DEF Spec, StaleBound

=============================================================================
