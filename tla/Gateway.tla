------------------------------ MODULE Gateway -------------------------------
(***************************************************************************)
(* The gateway (src/gateway): every request passes the rate limiter and, on *)
(* protected paths, the authentication with its token cache, both kept in   *)
(* Redis.  Requests interleave at every command and at the call of the auth *)
(* service; a client may hang up, which cancels the request's context.      *)
(*                                                                         *)
(* Times are counted down, not up: what is left of a time to live.          *)
(***************************************************************************)
EXTENDS Integers

CONSTANTS
    Client,         \* the remote addresses, port included
    JWT,            \* access tokens
    NoClient,
    NoJWT,          \* the request needs none
    Req,            \* the requests that may be under way at once
    Limit,          \* requests per minute and burst together
    Window,         \* time to live of a counter
    CacheTTL,       \* time to live of a cached identity
    Lifetime,       \* of an access token
    Delay,          \* bound: how long an answer of the auth service is on its way
    MaxLost,        \* bound: the INCRs of one call whose answers are lost
    Faults          \* what may fail: "incr", "expire", "cache", "auth"

ASSUME GatewayAssumption ==
    /\ NoJWT \notin JWT
    /\ NoClient \notin Client
    /\ Limit \in Nat \ {0} /\ Window \in Nat \ {0} /\ CacheTTL \in Nat \ {0}
    /\ Lifetime \in Nat \ {0} /\ Delay \in Nat /\ MaxLost \in Nat
    /\ Faults \subseteq {"incr", "expire", "cache", "auth"}

NoTTL == Window + 1

\* Longer than that after its expiry nothing depends on a token's age.
Oldest == 0 - (CacheTTL + Delay)

VARIABLES
    count,          \* count[k]: gateway:rate_limit:<k>, 0 when there is no key;
                    \*   all values above the limit are one
    ttl,            \* ttl[k]: what is left of its time to live
    lost,           \* history: the keys made by an INCR whose answer was lost
    cache,          \* cache[j]: what is left of token_cache:<j>, 0: no key
    left,           \* left[j]: what is left of the token, negative: expired since
    req             \* req[r]: the request r is serving

limiter == <<count, ttl, lost>>
vars == <<count, ttl, lost, cache, left, req>>

Stage == {"idle", "expire", "resolve", "validate", "set"}

Request ==
    [stage  : Stage,
     client : Client \cup {NoClient},
     jwt    : JWT \cup {NoJWT},
     gone   : BOOLEAN,                      \* the client hung up
     waited : 0..Delay,                     \* since the auth service answered
     answer : {"none", "forwarded", "429", "401"}]

TypeOK ==
    /\ count \in [Client -> 0..(Limit + 1)]
    /\ ttl \in [Client -> 0..NoTTL]
    /\ lost \subseteq Client
    /\ cache \in [JWT -> 0..CacheTTL]
    /\ left \in [JWT -> Oldest..Lifetime]
    /\ req \in [Req -> Request]

Init ==
    /\ count = [k \in Client |-> 0]
    /\ ttl = [k \in Client |-> 0]
    /\ lost = {}
    /\ cache = [j \in JWT |-> 0]
    /\ left = [j \in JWT |-> Lifetime]
    /\ req = [r \in Req |-> [stage |-> "idle", client |-> NoClient, jwt |-> NoJWT,
                             gone |-> FALSE, waited |-> 0, answer |-> "none"]]

-----------------------------------------------------------------------------

At(r, stage) == req[r].stage = stage
Goto(r, stage) == req' = [req EXCEPT ![r].stage = stage]
Done(r, answer) ==
    req' = [req EXCEPT ![r] = [stage |-> "idle", client |-> NoClient, jwt |-> NoJWT,
                               gone |-> FALSE, waited |-> 0, answer |-> answer]]

\* A command of Redis or a call fails, certainly when the context is cancelled.
Works(r, what, ok) ==
    /\ ok => ~req[r].gone
    /\ ~ok => req[r].gone \/ what \in Faults

-----------------------------------------------------------------------------
(* The rate limiter.                                                       *)

\* The request goes on, its client still there or not.
Begin(r, k, j, stage, gone) ==
    req' = [req EXCEPT ![r] = [stage |-> stage, client |-> k, jwt |-> j, gone |-> gone,
                               waited |-> 0, answer |-> "none"]]

\* INCR is executed n times in one call, the first of them answered or not: an
\* INCR whose answer does not come is sent again by the client of Redis.
Upto(n) == IF n > Limit THEN Limit + 1 ELSE n
Incremented(k, n, answered) ==
    LET new == count[k] = 0 /\ n > 0 IN
    /\ count' = [count EXCEPT ![k] = Upto(@ + n)]
    /\ ttl' = [ttl EXCEPT ![k] = IF new THEN NoTTL ELSE @]
    /\ lost' = IF new /\ ~answered THEN lost \cup {k} ELSE lost

\* Mutant: every request starts the period anew.
Incr_Sliding(r, k, j) ==
    /\ At(r, "idle")
    /\ count' = [count EXCEPT ![k] = Upto(@ + 1)]
    /\ ttl' = [ttl EXCEPT ![k] = Window]
    /\ IF count[k] < Limit THEN Begin(r, k, j, "resolve", FALSE) ELSE Done(r, "429")
    /\ UNCHANGED <<lost, cache, left>>

\* INCR; the request that is told 1 goes on to set the time to live.
Incr(r, k, j) ==
    /\ At(r, "idle")
    /\ \E missed \in 0..MaxLost :
         LET answer == Upto(count[k] + missed + 1) IN
         /\ Incremented(k, missed + 1, missed = 0)
         /\ IF answer = 1 THEN Begin(r, k, j, "expire", FALSE)
            ELSE IF answer <= Limit THEN Begin(r, k, j, "resolve", FALSE)
            ELSE Done(r, "429")
    /\ UNCHANGED <<cache, left>>

\* No answer comes, INCR executed or not, because of Redis or because the client
\* hung up meanwhile: the request is let through.
IncrFails(r, k, j) ==
    /\ At(r, "idle")
    /\ \E missed \in 0..MaxLost, gone \in BOOLEAN :
         /\ gone \/ "incr" \in Faults
         /\ Incremented(k, missed, FALSE)
         /\ Begin(r, k, j, "resolve", gone)
    /\ UNCHANGED <<cache, left>>

\* Mutant: under the context of the request.
Expire_RequestContext(r) ==
    /\ At(r, "expire")
    /\ ttl' = IF req[r].gone THEN ttl ELSE [ttl EXCEPT ![req[r].client] = Window]
    /\ Goto(r, "resolve")
    /\ UNCHANGED <<count, lost, cache, left>>

\* EXPIRE, under a context of its own; an error is not looked at.
Expire(r) ==
    /\ At(r, "expire")
    /\ \/ ttl' = [ttl EXCEPT ![req[r].client] = Window]
       \/ "expire" \in Faults /\ UNCHANGED ttl
    /\ Goto(r, "resolve")
    /\ UNCHANGED <<count, lost, cache, left>>

-----------------------------------------------------------------------------
(* Authentication.                                                         *)

\* Mutant: a hit keeps the entry alive.
Resolve_TouchEntry(r) ==
    LET j == req[r].jwt IN
    /\ At(r, "resolve")
    /\ IF j = NoJWT \/ cache[j] > 0 THEN Done(r, "forwarded") ELSE Goto(r, "validate")
    /\ cache' = IF j # NoJWT /\ cache[j] > 0 THEN [cache EXCEPT ![j] = CacheTTL] ELSE cache
    /\ UNCHANGED <<limiter, left>>

\* Public paths need no token; otherwise the cache is asked first, and if Redis
\* fails that is a miss.
Resolve(r) ==
    /\ At(r, "resolve")
    /\ \/ req[r].jwt = NoJWT /\ Done(r, "forwarded")
       \/ /\ req[r].jwt # NoJWT
          /\ \E ok \in BOOLEAN :
               /\ Works(r, "cache", ok)
               /\ IF ok /\ cache[req[r].jwt] > 0 THEN Done(r, "forwarded")
                  ELSE Goto(r, "validate")
    /\ UNCHANGED <<limiter, cache, left>>

\* The auth service checks signature and expiry of the token, nothing else.
Validate(r) ==
    /\ At(r, "validate")
    /\ \E ok \in BOOLEAN :
         /\ Works(r, "auth", ok)
         /\ IF ok /\ left[req[r].jwt] > 0 THEN Goto(r, "set") ELSE Done(r, "401")
    /\ UNCHANGED <<limiter, cache, left>>

\* The identity is cached, unless the command did not get to Redis, and the
\* request goes on anyway.
Set(r) ==
    /\ At(r, "set")
    /\ \/ cache' = [cache EXCEPT ![req[r].jwt] = CacheTTL]
       \/ Works(r, "cache", FALSE) /\ UNCHANGED cache
    /\ Done(r, "forwarded")
    /\ UNCHANGED <<limiter, left>>

HangUp(r) ==
    /\ ~At(r, "idle") /\ ~req[r].gone
    /\ req' = [req EXCEPT ![r].gone = TRUE]
    /\ UNCHANGED <<limiter, cache, left>>

-----------------------------------------------------------------------------

\* One unit of time; a key whose time to live is over is gone.
Down(n) == IF n > 0 THEN n - 1 ELSE 0
TimeLeft(k) == IF ttl[k] = NoTTL THEN NoTTL ELSE Down(ttl[k])

Tick ==
    /\ \A r \in Req : At(r, "set") => req[r].waited < Delay
    /\ ttl' = [k \in Client |-> TimeLeft(k)]
    /\ count' = [k \in Client |-> IF TimeLeft(k) = 0 THEN 0 ELSE count[k]]
    /\ lost' = {k \in lost : TimeLeft(k) # 0}
    /\ cache' = [j \in JWT |-> Down(cache[j])]
    /\ left' = [j \in JWT |-> IF left[j] > Oldest THEN left[j] - 1 ELSE Oldest]
    /\ req' = [r \in Req |-> IF At(r, "set") THEN [req[r] EXCEPT !.waited = @ + 1]
                             ELSE req[r]]

\* A client got a new access token: it takes the place of one that is long
\* forgotten.
Renew(j) ==
    /\ left[j] = Oldest
    /\ cache[j] = 0
    /\ \A r \in Req : req[r].jwt # j
    /\ left' = [left EXCEPT ![j] = Lifetime]
    /\ UNCHANGED <<limiter, cache, req>>

Proceed(r) == Expire(r) \/ Resolve(r) \/ Validate(r) \/ Set(r)

Next ==
    \/ \E r \in Req, k \in Client, j \in JWT \cup {NoJWT} : Incr(r, k, j) \/ IncrFails(r, k, j)
    \/ \E r \in Req : Proceed(r) \/ HangUp(r)
    \/ Tick
    \/ \E j \in JWT : Renew(j)

Spec == Init /\ [][Next]_vars

\* Handlers run on, and time passes.
LiveSpec ==
    Spec /\ (\A r \in Req : WF_vars(Proceed(r))) /\ WF_vars(Tick)

-----------------------------------------------------------------------------
(* Properties.                                                             *)

\* A request with a token is let through at most CacheTTL + Delay after the
\* token expired, however often it is used: the cache is asked before the auth
\* service and written after it, and no entry lives on by being read.
StaleBound ==
    [][\A r \in Req :
         ~At(r, "idle") /\ req[r].jwt # NoJWT /\ req'[r].answer = "forwarded"
           => left[req[r].jwt] > Oldest]_vars

\* A counter has a time to live or a request that is about to set it: clients
\* that hang up between INCR and EXPIRE do not leave one that counts for ever.
\* Clients that hang up during INCR, or a Redis that does not answer it, can: the
\* key is then made and nobody is told that it is new (RateLimit sets the time to
\* live on the answer 1 only).
CounterExpires ==
    \A k \in Client :
      count[k] > 0 /\ ttl[k] = NoTTL
        => k \in lost \/ \E r \in Req : At(r, "expire") /\ req[r].client = k

\* A client over the limit is served again, even if it goes on asking, unless its
\* counter is one of those.
LimitEnds == \A k \in Client : count[k] > Limit ~> count[k] = 0 \/ k \in lost

=============================================================================
