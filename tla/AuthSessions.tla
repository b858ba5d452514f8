---------------------------- MODULE AuthSessions ----------------------------
(***************************************************************************)
(* The sessions of the auth service (src/auth) in Redis: Register, Login,   *)
(* RefreshToken with rotation and reuse detection, Logout and LogoutAll, as *)
(* requests that interleave between the commands they send.                 *)
(*                                                                         *)
(* Refresh tokens are numbered in the order they are stored, which is the   *)
(* order they expire in: all have the same time to live.                    *)
(***************************************************************************)
EXTENDS Integers

CONSTANTS
    User,               \* the e-mail addresses
    Family,             \* token families, one per login
    NoUser, NoFamily,
    Owner,              \* Owner[f]: the user a family is drawn for
    MaxToken,           \* bound: refresh tokens ever stored
    Req,                \* the requests that may be under way at once
    Ops,                \* the operations the clients call
    Racing,             \* the sessions a refresh of which may overlap other calls for them
    Faulty              \* commands fail, requests are cut short

Token == 1..MaxToken

Operation == {"register", "login", "refresh", "logout", "logoutAll"}

ASSUME AuthAssumption ==
    /\ NoUser \notin User
    /\ NoFamily \notin Family
    /\ Owner \in [Family -> User]
    /\ MaxToken \in Nat
    /\ Ops \subseteq Operation
    /\ Racing \subseteq Family
    /\ Faulty \in BOOLEAN

VARIABLES
    account,        \* users: the e-mail addresses with a row
    issued,         \* the tokens 1..issued were stored
    expired,        \* the JWTs of 1..expired are no longer valid
    swept,          \* Redis has dropped the keys of 1..swept
    familyOf,       \* familyOf[t]: the token_family claim of t
    live,           \* refresh_token:<jti>, whether or not it is swept
    members,        \* token_family:<family>, and the last token that set
    membersUntil,   \*   its time to live
    families,       \* user_tokens:<user>, likewise
    familiesUntil,
    delivered,      \* tokens a client was given
    req             \* req[r]: the request r is serving

keys == <<live, members, membersUntil, families, familiesUntil>>
clock == <<expired, swept>>
authVars == <<account, issued, clock, familyOf, keys, delivered, req>>

Stage == {"idle", "insert", "store", "members", "revoke", "find", "remove",
          "count", "clean", "script"}

Request ==
    [op     : Operation \cup {"none"},
     stage  : Stage,
     user   : User \cup {NoUser},
     family : Family \cup {NoFamily},
     token  : Token \cup {0},               \* presented
     fresh  : Token \cup {0},               \* stored in its place
     seen   : SUBSET Token,                 \* members read by DeleteTokenFamily
     answer : {"none", "ok", "duplicate", "revoked", "unrevoked", "failed", "lost"}]

Idle == [op |-> "none", stage |-> "idle", user |-> NoUser, family |-> NoFamily,
         token |-> 0, fresh |-> 0, seen |-> {}, answer |-> "none"]

TypeOK ==
    /\ account \subseteq User
    /\ issued \in 0..MaxToken
    /\ expired \in 0..issued
    /\ swept \in 0..expired
    /\ familyOf \in [Token -> Family \cup {NoFamily}]
    /\ live \subseteq 1..issued
    /\ members \in [Family -> SUBSET (1..issued)]
    /\ membersUntil \in [Family -> 0..issued]
    /\ families \in [User -> SUBSET Family]
    /\ familiesUntil \in [User -> 0..issued]
    /\ delivered \subseteq 1..issued
    /\ req \in [Req -> Request]

Init ==
    /\ account = {}
    /\ issued = 0
    /\ expired = 0
    /\ swept = 0
    /\ familyOf = [t \in Token |-> NoFamily]
    /\ live = {}
    /\ members = [f \in Family |-> {}]
    /\ membersUntil = [f \in Family |-> 0]
    /\ families = [u \in User |-> {}]
    /\ familiesUntil = [u \in User |-> 0]
    /\ delivered = {}
    /\ req = [r \in Req |-> Idle]

-----------------------------------------------------------------------------
(* Redis.  A key is there until its time to live is over.                  *)

Stored(t) == t \in live /\ t > swept
Members(f) == IF membersUntil[f] > swept THEN members[f] ELSE {}
Families(u) == IF familiesUntil[u] > swept THEN families[u] ELSE {}

\* A pipeline of n commands is sent as one, but is no transaction: when it
\* fails, a part of it (all of it, if only the answer is lost) was executed.
Ran(done, n, ok) == IF ok THEN done = n ELSE Faulty

-----------------------------------------------------------------------------
(* Requests.                                                               *)

At(r, stage) == req[r].stage = stage
Goto(r, stage) == req' = [req EXCEPT ![r].stage = stage]
Answer(r, answer) == req' = [req EXCEPT ![r] = [Idle EXCEPT !.answer = answer]]
Deliver(r, t) == Answer(r, "ok") /\ delivered' = delivered \cup {t}

Start(r, op, stage, u, f, t) ==
    /\ op \in Ops
    /\ At(r, "idle")
    /\ req' = [req EXCEPT ![r] = [Idle EXCEPT !.op = op, !.stage = stage,
                                  !.user = u, !.family = f, !.token = t]]

Opened(f) == \E t \in 1..issued : familyOf[t] = f
Unused(f) == ~Opened(f) /\ \A q \in Req : req[q].family # f

\* No other request is under way for this session, or it does not matter.
Alone(f) ==
    \/ f \in Racing
    \/ \A q \in Req : /\ req[q].family # f
                      /\ req[q].op = "logoutAll" => req[q].user # Owner[f]

Undisturbed(u) ==
    \A q \in Req : req[q].op = "refresh" => \/ req[q].family \in Racing
                                            \/ Owner[req[q].family] # u

-----------------------------------------------------------------------------
(* Registration and login.                                                 *)

\* Refused (no step) when the address is known or the input is not valid.
RegisterBegin(r) ==
    \E f \in Family :
      /\ Unused(f)
      /\ Owner[f] \notin account
      /\ Start(r, "register", "insert", Owner[f], f, 0)
      /\ UNCHANGED <<account, issued, clock, familyOf, keys, delivered>>

\* The unique index decides between two registrations of one address.
CreateUser(r) ==
    /\ At(r, "insert")
    /\ IF req[r].user \in account
         THEN Answer(r, "duplicate") /\ UNCHANGED account
         ELSE account' = account \cup {req[r].user} /\ Goto(r, "store")
    /\ UNCHANGED <<issued, clock, familyOf, keys, delivered>>

\* Refused (no step) unless the address is known and the password fits.
LoginBegin(r) ==
    \E f \in Family :
      /\ Unused(f)
      /\ Owner[f] \in account
      /\ Start(r, "login", "store", Owner[f], f, 0)
      /\ UNCHANGED <<account, issued, clock, familyOf, keys, delivered>>

\* Mutant: the times to live of the two sets are only set at login.
StoreRefreshToken_KeepTTL(r) ==
    /\ At(r, "store")
    /\ issued < MaxToken
    /\ LET t == issued + 1
           f == req[r].family
           u == Owner[f]
           first == req[r].op # "refresh"
       IN /\ issued' = t
          /\ familyOf' = [familyOf EXCEPT ![t] = f]
          /\ live' = live \cup {t}
          /\ members' = [members EXCEPT ![f] = Members(f) \cup {t}]
          /\ membersUntil' = [membersUntil EXCEPT ![f] = IF first THEN t ELSE @]
          /\ families' = [families EXCEPT ![u] = Families(u) \cup {f}]
          /\ familiesUntil' = [familiesUntil EXCEPT ![u] = t]
          /\ IF first THEN Deliver(r, t)
             ELSE /\ req' = [req EXCEPT ![r].stage = "find", ![r].fresh = t]
                  /\ UNCHANGED delivered
    /\ UNCHANGED <<account, clock>>

\* SET the token, then SADD and EXPIRE its family, then SADD and EXPIRE the
\* user's families.  Login and Register answer now; Refresh goes on to delete
\* the token it was given.
StoreRefreshToken(r) ==
    /\ At(r, "store")
    /\ issued < MaxToken
    /\ \E done \in 1..3, ok \in BOOLEAN :
         LET t == issued + 1
             f == req[r].family
             u == Owner[f]
         IN /\ Ran(done, 3, ok)
            /\ issued' = t
            /\ familyOf' = [familyOf EXCEPT ![t] = f]
            /\ live' = live \cup {t}
            /\ IF done > 1
                 THEN /\ members' = [members EXCEPT ![f] = Members(f) \cup {t}]
                      /\ membersUntil' = [membersUntil EXCEPT ![f] = t]
                 ELSE UNCHANGED <<members, membersUntil>>
            /\ IF done > 2
                 THEN /\ families' = [families EXCEPT ![u] = Families(u) \cup {f}]
                      /\ familiesUntil' = [familiesUntil EXCEPT ![u] = t]
                 ELSE UNCHANGED <<families, familiesUntil>>
            /\ IF ~ok THEN Answer(r, "failed") /\ UNCHANGED delivered
               ELSE IF req[r].op # "refresh" THEN Deliver(r, t)
               ELSE /\ req' = [req EXCEPT ![r].stage = "find", ![r].fresh = t]
                    /\ UNCHANGED delivered
    /\ UNCHANGED <<account, clock>>

-----------------------------------------------------------------------------
(* Refresh.                                                                *)

\* Mutant: the old token is deleted before the new one is stored.
RefreshBegin_DeleteFirst(r) ==
    \E t \in delivered :
      /\ t > expired
      /\ Alone(familyOf[t])
      /\ Start(r, "refresh", IF Stored(t) THEN "store" ELSE "members",
               Owner[familyOf[t]], familyOf[t], t)
      /\ live' = live \ {t}
      /\ UNCHANGED <<account, issued, clock, familyOf, members, membersUntil,
                     families, familiesUntil, delivered>>

\* Mutant: the signature alone decides, Redis is not asked.
RefreshBegin_JWTOnly(r) ==
    \E t \in delivered :
      /\ t > expired
      /\ Alone(familyOf[t])
      /\ Start(r, "refresh", "store", Owner[familyOf[t]], familyOf[t], t)
      /\ UNCHANGED <<account, issued, clock, familyOf, keys, delivered>>

\* A client presents a token it was given, whose JWT is still valid; whether it
\* is in Redis decides between rotation and reuse.
RefreshBegin(r) ==
    \E t \in delivered :
      /\ t > expired
      /\ Alone(familyOf[t])
      /\ Start(r, "refresh", IF Stored(t) THEN "store" ELSE "members",
               Owner[familyOf[t]], familyOf[t], t)
      /\ UNCHANGED <<account, issued, clock, familyOf, keys, delivered>>

\* DeleteTokenFamily reads the members of the family ...
FamilyMembers(r) ==
    /\ At(r, "members")
    /\ req' = [req EXCEPT ![r].stage = "revoke", ![r].seen = Members(req[r].family)]
    /\ UNCHANGED <<account, issued, clock, familyOf, keys, delivered>>

\* Mutant: only the token that was presented.
DeleteTokenFamily_One(r) ==
    /\ At(r, "revoke")
    /\ live' = live \ {req[r].token}
    /\ Answer(r, "revoked")
    /\ UNCHANGED <<account, issued, clock, familyOf, members, membersUntil,
                   families, familiesUntil, delivered>>

\* ... and deletes what it read, then the sets.  The caller is told the token
\* was revoked even when that fails; "unrevoked" is what the log says.
DeleteTokenFamily(r) ==
    /\ At(r, "revoke")
    /\ \E gone \in SUBSET req[r].seen, done \in 0..2, ok \in BOOLEAN :
         LET f == req[r].family
             u == Owner[f]
         IN /\ Ran(done, 2, ok)
            /\ done > 0 => gone = req[r].seen
            /\ live' = live \ gone
            /\ members' = IF done > 0 THEN [members EXCEPT ![f] = {}] ELSE members
            /\ families' = IF done > 1 THEN [families EXCEPT ![u] = Families(u) \ {f}]
                           ELSE families
            /\ Answer(r, IF ok THEN "revoked" ELSE "unrevoked")
    /\ UNCHANGED <<account, issued, clock, familyOf, membersUntil, familiesUntil,
                   delivered>>

-----------------------------------------------------------------------------
(* DeleteRefreshToken, as Logout and the second half of Refresh call it.    *)

\* Refresh does not care how it ended and hands out the new token.
Concluded(r, ok) ==
    IF req[r].op = "refresh" THEN Deliver(r, req[r].fresh)
    ELSE Answer(r, IF ok THEN "ok" ELSE "failed") /\ UNCHANGED delivered

\* The JWT of the token must be valid, a token that is gone is no error.
LogoutBegin(r) ==
    \E t \in delivered :
      /\ t > expired
      /\ Alone(familyOf[t])
      /\ Start(r, "logout", "find", Owner[familyOf[t]], familyOf[t], t)
      /\ UNCHANGED <<account, issued, clock, familyOf, keys, delivered>>

FindToken(r) ==
    /\ At(r, "find")
    /\ \/ Stored(req[r].token) /\ Goto(r, "remove") /\ UNCHANGED delivered
       \/ ~Stored(req[r].token) /\ Concluded(r, TRUE)
       \/ Faulty /\ Concluded(r, FALSE)
    /\ UNCHANGED <<account, issued, clock, familyOf, keys>>

\* DEL the token, SREM it from its family.
RemoveToken(r) ==
    /\ At(r, "remove")
    /\ \E done \in 0..2, ok \in BOOLEAN :
         LET t == req[r].token
             f == req[r].family
         IN /\ Ran(done, 2, ok)
            /\ live' = IF done > 0 THEN live \ {t} ELSE live
            /\ members' = IF done > 1 THEN [members EXCEPT ![f] = Members(f) \ {t}]
                          ELSE members
            /\ IF ok THEN Goto(r, "count") /\ UNCHANGED delivered ELSE Concluded(r, FALSE)
    /\ UNCHANGED <<account, issued, clock, familyOf, membersUntil, families,
                   familiesUntil>>

\* Mutant: the family is taken to be empty.
CountFamily_Skipped(r) ==
    /\ At(r, "count")
    /\ Goto(r, "clean")
    /\ UNCHANGED <<account, issued, clock, familyOf, keys, delivered>>

\* SCARD of the family.
CountFamily(r) ==
    /\ At(r, "count")
    /\ \/ Members(req[r].family) = {} /\ Goto(r, "clean") /\ UNCHANGED delivered
       \/ Members(req[r].family) # {} /\ Concluded(r, TRUE)
       \/ Faulty /\ Concluded(r, FALSE)
    /\ UNCHANGED <<account, issued, clock, familyOf, keys>>

\* DEL the family, SREM it from the user's families.
CleanFamily(r) ==
    /\ At(r, "clean")
    /\ \E done \in 0..2, ok \in BOOLEAN :
         LET f == req[r].family
             u == Owner[f]
         IN /\ Ran(done, 2, ok)
            /\ members' = IF done > 0 THEN [members EXCEPT ![f] = {}] ELSE members
            /\ families' = IF done > 1 THEN [families EXCEPT ![u] = Families(u) \ {f}]
                           ELSE families
            /\ Concluded(r, ok)
    /\ UNCHANGED <<account, issued, clock, familyOf, live, membersUntil, familiesUntil>>

-----------------------------------------------------------------------------
(* Logout everywhere.                                                      *)

LogoutAllBegin(r) ==
    \E u \in account :
      /\ Undisturbed(u)
      /\ Start(r, "logoutAll", "script", u, NoFamily, 0)
      /\ UNCHANGED <<account, issued, clock, familyOf, keys, delivered>>

\* One script on the Redis server.
DeleteAllUserTokens(r) ==
    /\ At(r, "script")
    /\ LET u == req[r].user
           all == Families(u)
       IN /\ live' = live \ UNION {Members(f) : f \in all}
          /\ members' = [f \in Family |-> IF f \in all THEN {} ELSE members[f]]
          /\ families' = [families EXCEPT ![u] = {}]
    /\ Answer(r, "ok")
    /\ UNCHANGED <<account, issued, clock, familyOf, membersUntil, familiesUntil,
                   delivered>>

-----------------------------------------------------------------------------

\* The process dies, the caller goes away, or the command of this stage fails
\* before it was executed.
Stop(r) ==
    /\ Faulty
    /\ ~At(r, "idle")
    /\ Answer(r, IF At(r, "store") \/ At(r, "insert") THEN "failed" ELSE "lost")
    /\ UNCHANGED <<account, issued, clock, familyOf, keys, delivered>>

Proceed(r) ==
    \/ CreateUser(r)
    \/ StoreRefreshToken(r)
    \/ FamilyMembers(r)
    \/ DeleteTokenFamily(r)
    \/ FindToken(r)
    \/ RemoveToken(r)
    \/ CountFamily(r)
    \/ CleanFamily(r)
    \/ DeleteAllUserTokens(r)

\* The oldest JWT expires; its key, stored a moment later, is dropped later.
Age ==
    /\ expired < issued
    /\ expired' = expired + 1
    /\ UNCHANGED <<account, issued, swept, familyOf, keys, delivered, req>>

\* Mutant: Redis drops a token whose JWT is still valid.
Sweep_Early ==
    /\ swept < issued
    /\ swept' = swept + 1
    /\ UNCHANGED <<account, issued, expired, familyOf, keys, delivered, req>>

Sweep ==
    /\ swept < expired
    /\ swept' = swept + 1
    /\ UNCHANGED <<account, issued, expired, familyOf, keys, delivered, req>>

Next ==
    \/ \E r \in Req : RegisterBegin(r) \/ LoginBegin(r) \/ RefreshBegin(r)
                        \/ LogoutBegin(r) \/ LogoutAllBegin(r)
    \/ \E r \in Req : Proceed(r) \/ Stop(r)
    \/ Age
    \/ Sweep

Spec == Init /\ [][Next]_authVars

-----------------------------------------------------------------------------
(* Properties.                                                             *)

Answers(r, op, answer) ==
    req[r].op = op /\ req'[r].op = "none" /\ req'[r].answer = answer

Calm(f) == f \notin Racing

\* A token a client holds can be found from its user, through the two sets that
\* logout everywhere and reuse detection go through, until it expires: three
\* keys with times to live of their own, written and deleted by several
\* commands (session.go, StoreRefreshToken and DeleteRefreshToken), which other
\* sessions of the user share and race for.
Indexed ==
    \A t \in delivered :
      Stored(t) /\ Calm(familyOf[t]) =>
        /\ t \in Members(familyOf[t])
        /\ familyOf[t] \in Families(Owner[familyOf[t]])

\* When logout everywhere is answered no token a client was given is accepted
\* any more, in any session no refresh of which it overlaps.
LogoutAllReachesAll ==
    [][\A r \in Req : Answers(r, "logoutAll", "ok") =>
         \A t \in delivered' :
           Owner[familyOf[t]] = req[r].user /\ Calm(familyOf[t]) => ~Stored(t)']_authVars

\* A second use of a rotated token ends the session: once DeleteTokenFamily has
\* succeeded, no token of the family is accepted (refresh_token.go, theft
\* detection), if nothing was stored in it meanwhile.  The caller reads
\* ErrTokenRevoked also when it failed ("unrevoked", which only the log tells
\* apart) and cannot conclude as much.
ReuseEndsSession ==
    [][\A r \in Req : Answers(r, "refresh", "revoked") /\ Calm(req[r].family) =>
         \A t \in delivered' : familyOf[t] = req[r].family => ~Stored(t)']_authVars

\* "If store fails, old token remains valid and user can retry": a refresh that
\* failed has not cost the client its session.
FailedRefreshKeepsToken ==
    [][\A r \in Req : Answers(r, "refresh", "failed") /\ Calm(req[r].family) =>
         req[r].token \in live']_authVars

\* The promise of module Sessions, whatever fails and overlaps: a new token is
\* given for a token that was accepted when it was presented, one for each time,
\* and only a refresh that was then under way gives an ended session life again
\* (refresh_token.go reads first and stores later).
Promise == INSTANCE Sessions
             WITH opened <- {f \in Family : Opened(f)},
                  accepted <- [f \in Family |-> {t \in live : t > expired /\ familyOf[t] = f}],
                  past <- 1..issued,
                  exchange <- [r \in Req |-> IF req[r].op = "refresh" /\ At(r, "store")
                                             THEN req[r].family ELSE NoFamily]
KeepsPromise == Promise!SessionsSpec

=============================================================================
