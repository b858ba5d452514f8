------------------------- MODULE AuthSessionsProofs -------------------------
(***************************************************************************)
(* Proofs about AuthSessions, for any number of users, families, tokens and *)
(* requests, whatever fails and is cut short (Faulty is free) and whichever *)
(* sessions race (Racing is any set of families): that it keeps the promise *)
(* of module Sessions, and what logout everywhere and the detection of      *)
(* reuse achieve for the sessions that do not race.                         *)
(***************************************************************************)
EXTENDS AuthSessions, TLAPS

USE AuthAssumption DEF Stage, Operation, Token

Reply == {"none", "ok", "duplicate", "revoked", "unrevoked", "failed", "lost"}

-----------------------------------------------------------------------------
(* The forms of the steps of a request.                                    *)

\* Request r goes on to another stage.
LEMMA GotoType ==
    ASSUME NEW r \in Req, NEW stage \in Stage, req \in [Req -> Request], Goto(r, stage)
    PROVE  /\ req' \in [Req -> Request]
           /\ \A q \in Req \ {r} : req'[q] = req[q]
           /\ req'[r].stage = stage /\ req'[r].op = req[r].op
           /\ req'[r].user = req[r].user /\ req'[r].family = req[r].family
           /\ req'[r].token = req[r].token /\ req'[r].fresh = req[r].fresh
           /\ req'[r].seen = req[r].seen
<1>1. req[r] \in Request
  OBVIOUS
<1>2. [req[r] EXCEPT !.stage = stage] \in Request
  BY <1>1 DEF Request
<1>3. req'[r] = [req[r] EXCEPT !.stage = stage]
  BY DEF Goto
<1>4. req' \in [Req -> Request] /\ \A q \in Req \ {r} : req'[q] = req[q]
  BY <1>2 DEF Goto
<1> QED
  BY <1>1, <1>3, <1>4 DEF Request

\* Request r is answered.
LEMMA AnswerType ==
    ASSUME NEW r \in Req, NEW answer \in Reply, req \in [Req -> Request], Answer(r, answer)
    PROVE  /\ req' \in [Req -> Request]
           /\ \A q \in Req \ {r} : req'[q] = req[q]
           /\ req'[r].stage = "idle" /\ req'[r].op = "none" /\ req'[r].family = NoFamily
           /\ req'[r].fresh = 0 /\ req'[r].answer = answer
<1> DEFINE new == [Idle EXCEPT !.answer = answer]
<1>1. /\ new \in Request /\ new.stage = "idle" /\ new.op = "none"
      /\ new.family = NoFamily /\ new.fresh = 0 /\ new.answer = answer
  BY DEF Idle, Request, Reply
<1> HIDE DEF new
<1>2. req' = [req EXCEPT ![r] = new]
  BY DEF Answer, new
<1> QED
  BY <1>1, <1>2

\* Request r begins.
LEMMA StartType ==
    ASSUME NEW r \in Req, NEW op \in Operation, NEW stage \in Stage,
           NEW u \in User \cup {NoUser}, NEW f \in Family \cup {NoFamily},
           NEW t \in Token \cup {0}, req \in [Req -> Request], Start(r, op, stage, u, f, t)
    PROVE  /\ req[r].stage = "idle"
           /\ req' \in [Req -> Request]
           /\ \A q \in Req \ {r} : req'[q] = req[q]
           /\ req'[r].stage = stage /\ req'[r].op = op
           /\ req'[r].user = u /\ req'[r].family = f
           /\ req'[r].token = t /\ req'[r].fresh = 0
<1> DEFINE new == [Idle EXCEPT !.op = op, !.stage = stage,
                               !.user = u, !.family = f, !.token = t]
<1>1. /\ new \in Request /\ new.stage = stage /\ new.op = op /\ new.user = u
      /\ new.family = f /\ new.token = t /\ new.fresh = 0
  BY ZenonT(60) DEF Idle, Request
<1>2. req' = [req EXCEPT ![r] = new] /\ req[r].stage = "idle"
  BY DEF Start, At
<1> HIDE DEF new
<1> QED
  BY <1>1, <1>2

\* Request r ends a DeleteRefreshToken.
LEMMA ConcludedType ==
    ASSUME NEW r \in Req, NEW ok \in BOOLEAN, req \in [Req -> Request], Concluded(r, ok)
    PROVE  /\ req' \in [Req -> Request]
           /\ \A q \in Req \ {r} : req'[q] = req[q]
           /\ req'[r].stage = "idle" /\ req'[r].op = "none" /\ req'[r].family = NoFamily
           /\ req'[r].fresh = 0
           /\ req[r].op = "refresh" => req'[r].answer = "ok"
           /\ delivered' = IF req[r].op = "refresh" THEN delivered \cup {req[r].fresh}
                           ELSE delivered
<1>1. \E answer \in Reply : /\ Answer(r, answer)
                            /\ req[r].op = "refresh" => answer = "ok"
  BY DEF Concluded, Deliver, Reply
<1>2. delivered' = IF req[r].op = "refresh" THEN delivered \cup {req[r].fresh}
                   ELSE delivered
  BY DEF Concluded, Deliver
<1> QED
  BY <1>1, <1>2, AnswerType

-----------------------------------------------------------------------------
(* The shape of requests and whose tokens are whose.                       *)

Deleting == {"find", "remove", "count", "clean"}

\* What every request carries with it, by its operation and its stage.
Shape(r) ==
    LET q == req[r] IN
    /\ q.op = "none" <=> q.stage = "idle"
    /\ q.op = "none" => q.family = NoFamily
    /\ q.stage = "insert" => q.op = "register"
    /\ q.stage = "store" => q.op \in {"register", "login", "refresh"}
    /\ q.stage \in {"members", "revoke"} => q.op = "refresh"
    /\ q.stage \in Deleting => q.op \in {"refresh", "logout"}
    /\ q.stage = "script" <=> q.op = "logoutAll"
    /\ q.op = "logoutAll" => q.user \in User /\ q.family = NoFamily
    /\ q.op \in {"register", "login"} =>
         /\ q.user \in User /\ q.family \in Family
         /\ \A t \in 1..issued : familyOf[t] # q.family
    /\ q.op \in {"refresh", "logout"} =>
         /\ q.family \in Family
         /\ q.token \in 1..issued /\ familyOf[q.token] = q.family
    /\ q.op = "refresh" /\ q.stage \in Deleting =>
         /\ q.fresh \in 1..issued /\ familyOf[q.fresh] = q.family
    /\ ~(q.op = "refresh" /\ q.stage \in Deleting) => q.fresh = 0
    /\ q.stage = "revoke" => \A t \in q.seen : t \in 1..issued /\ familyOf[t] = q.family

\* A session is begun by one request, which no other knows of.
Distinct ==
    \A r, q \in Req : r # q /\ req[r].op \in {"register", "login"}
      => req[q].family # req[r].family

\* The sets in Redis hold what belongs there.
Owned ==
    /\ \A t \in 1..issued : familyOf[t] \in Family
    /\ \A f \in Family : \A t \in members[f] : familyOf[t] = f
    /\ \A u \in User : \A f \in families[u] : Owner[f] = u

Kept == TypeOK /\ (\A r \in Req : Shape(r)) /\ Distinct /\ Owned

\* A request that does nothing keeps its shape, as long as no token is stored in a
\* family it drew.
LEMMA ShapeKept ==
    ASSUME NEW q \in Req, Shape(q), req'[q] = req[q],
           issued \in Nat, issued' \in Nat, issued <= issued',
           \A t \in 1..issued : familyOf'[t] = familyOf[t],
           req[q].op \in {"register", "login"} =>
             \A t \in 1..issued' : t \in 1..issued \/ familyOf'[t] # req[q].family
    PROVE  Shape(q)'
<1>1. \A t \in 1..issued : t \in 1..issued'
  OBVIOUS
<1> QED
  BY <1>1 DEF Shape

\* Requests keep their families when one of them ends or goes on.
LEMMA DistinctKept ==
    ASSUME NEW r \in Req, Distinct, \A q \in Req : Shape(q), \A q \in Req \ {r} : req'[q] = req[q],
           \/ req'[r].op = "none" /\ req'[r].family = NoFamily
           \/ /\ req'[r].op = req[r].op /\ req'[r].family = req[r].family
              /\ req'[r].user = req[r].user
    PROVE  Distinct'
<1>1. \A q \in Req : req[q].op \in {"register", "login"} => req[q].family # NoFamily
  BY DEF Shape
<1> QED
  BY <1>1 DEF Distinct

\* A step of request r that leaves Redis alone.
LEMMA QuietStep ==
    ASSUME Kept, NEW r \in Req, UNCHANGED <<issued, clock, familyOf, keys>>,
           account' \subseteq User, delivered' \subseteq 1..issued,
           req' \in [Req -> Request], \A q \in Req \ {r} : req'[q] = req[q],
           Shape(r)', Distinct'
    PROVE  Kept'
<1>1. TypeOK'
  BY DEF Kept, TypeOK, clock, keys
<1>2. ASSUME NEW q \in Req \ {r} PROVE Shape(q)'
  <2>1. /\ Shape(q) /\ req'[q] = req[q] /\ issued \in Nat /\ issued' = issued
        /\ familyOf' = familyOf
    BY <1>2 DEF Kept, TypeOK, keys
  <2> QED
    BY <2>1, ShapeKept
<1>3. Owned'
  BY DEF Kept, Owned, keys
<1> QED
  BY <1>1, <1>2, <1>3 DEF Kept

\* A request that ends has no shape to keep.
LEMMA ShapeOfIdle ==
    ASSUME NEW r \in Req, req'[r].stage = "idle", req'[r].op = "none",
           req'[r].family = NoFamily, req'[r].fresh = 0
    PROVE  Shape(r)'
BY DEF Shape, Deleting

\* A request that begins.
LEMMA BeginStep ==
    ASSUME Kept, NEW r \in Req,
           \/ RegisterBegin(r) \/ LoginBegin(r) \/ RefreshBegin(r)
           \/ LogoutBegin(r) \/ LogoutAllBegin(r)
    PROVE  Kept'
<1>0. /\ req \in [Req -> Request] /\ account \subseteq User /\ delivered \subseteq 1..issued
      /\ issued \in 0..MaxToken /\ 1..issued \subseteq Token /\ Distinct
      /\ \A q \in Req : Shape(q)
  BY DEF Kept, TypeOK
<1>1. ASSUME RegisterBegin(r) \/ LoginBegin(r)
      PROVE  Kept'
  <2>1. PICK f \in Family, op \in {"register", "login"}, stage \in {"insert", "store"} :
          /\ Unused(f)
          /\ op = "login" => stage = "store"
          /\ Start(r, op, stage, Owner[f], f, 0)
          /\ UNCHANGED <<account, issued, clock, familyOf, keys, delivered>>
    BY <1>1 DEF RegisterBegin, LoginBegin
  <2>2. /\ req' \in [Req -> Request] /\ \A q \in Req \ {r} : req'[q] = req[q]
        /\ req'[r].stage = stage /\ req'[r].op = op /\ req'[r].family = f
        /\ req'[r].fresh = 0 /\ req'[r].user = Owner[f] /\ Owner[f] \in User
    BY <1>0, <2>1, StartType
  <2>3. /\ \A q \in Req : req[q].family # f
        /\ \A t \in 1..issued : familyOf[t] # f
    BY <2>1 DEF Unused, Opened
  <2>4. Shape(r)'
    BY <2>1, <2>2, <2>3 DEF Shape, Deleting
  <2>5. Distinct'
    BY <1>0, <2>2, <2>3 DEF Distinct
  <2> QED
    BY <1>0, <2>1, <2>2, <2>4, <2>5, QuietStep
<1>2. ASSUME RefreshBegin(r) \/ LogoutBegin(r)
      PROVE  Kept'
  <2>1. PICK t \in delivered, op \in {"refresh", "logout"}, stage \in {"store", "members", "find"} :
          /\ op = "logout" => stage = "find"
          /\ op = "refresh" => stage # "find"
          /\ Start(r, op, stage, Owner[familyOf[t]], familyOf[t], t)
          /\ UNCHANGED <<account, issued, clock, familyOf, keys, delivered>>
    BY <1>2 DEF RefreshBegin, LogoutBegin
  <2>a. t \in 1..issued /\ familyOf[t] \in Family /\ Owner[familyOf[t]] \in User /\ t \in Token
    BY <1>0 DEF Kept, Owned
  <2>2. /\ req' \in [Req -> Request] /\ \A q \in Req \ {r} : req'[q] = req[q]
        /\ req'[r].stage = stage /\ req'[r].op = op /\ req'[r].family = familyOf[t]
        /\ req'[r].token = t /\ req'[r].fresh = 0
    BY <1>0, <2>1, <2>a, StartType
  <2>3. Shape(r)'
    BY <2>1, <2>2, <2>a DEF Shape, Deleting
  <2>4. \A q \in Req : req[q].op \in {"register", "login"} => req[q].family # familyOf[t]
    BY <1>0, <2>a DEF Shape
  <2>5. Distinct'
    BY <1>0, <2>2, <2>4 DEF Distinct
  <2> QED
    BY <1>0, <2>1, <2>2, <2>3, <2>5, QuietStep
<1>3. ASSUME LogoutAllBegin(r)
      PROVE  Kept'
  <2>1. PICK u \in account :
          /\ Start(r, "logoutAll", "script", u, NoFamily, 0)
          /\ UNCHANGED <<account, issued, clock, familyOf, keys, delivered>>
    BY <1>3 DEF LogoutAllBegin
  <2>2. /\ req' \in [Req -> Request] /\ \A q \in Req \ {r} : req'[q] = req[q]
        /\ req'[r].stage = "script" /\ req'[r].op = "logoutAll" /\ req'[r].family = NoFamily
        /\ req'[r].user = u /\ req'[r].fresh = 0
    BY <1>0, <2>1, StartType
  <2>3. Shape(r)'
    BY <1>0, <2>2 DEF Shape, Deleting
  <2>4. \A q \in Req : req[q].op \in {"register", "login"} => req[q].family # NoFamily
    BY <1>0 DEF Shape
  <2>5. Distinct'
    BY <1>0, <2>2, <2>4 DEF Distinct
  <2> QED
    BY <1>0, <2>1, <2>2, <2>3, <2>5, QuietStep
<1> QED
  BY <1>1, <1>2, <1>3

\* A request that ends, or goes on without a change in Redis.
LEMMA GoOnStep ==
    ASSUME Kept, NEW r \in Req,
           CreateUser(r) \/ FamilyMembers(r) \/ FindToken(r) \/ CountFamily(r) \/ Stop(r)
    PROVE  Kept'
<1>0. /\ req \in [Req -> Request] /\ account \subseteq User /\ delivered \subseteq 1..issued
      /\ req[r] \in Request /\ Shape(r) /\ Distinct /\ \A q \in Req : Shape(q)
  BY DEF Kept, TypeOK
\* Either it ends ...
<1>a. ASSUME UNCHANGED <<issued, clock, familyOf, keys>>, account' \subseteq User,
             delivered' \subseteq 1..issued, NEW answer \in Reply, Answer(r, answer)
      PROVE  Kept'
  <2>1. /\ req' \in [Req -> Request] /\ \A q \in Req \ {r} : req'[q] = req[q]
        /\ Shape(r)' /\ Distinct'
    BY <1>0, <1>a, AnswerType, ShapeOfIdle, DistinctKept
  <2> QED
    BY <1>a, <2>1, QuietStep
<1>b. ASSUME UNCHANGED <<issued, clock, familyOf, keys, account>>, NEW ok \in BOOLEAN,
             Concluded(r, ok), req[r].stage \in Deleting
      PROVE  Kept'
  <2>1. /\ req' \in [Req -> Request] /\ \A q \in Req \ {r} : req'[q] = req[q]
        /\ Shape(r)' /\ Distinct'
    BY <1>0, <1>b, ConcludedType, ShapeOfIdle, DistinctKept
  <2>2. delivered' \subseteq 1..issued
    <3>1. delivered' = IF req[r].op = "refresh" THEN delivered \cup {req[r].fresh}
                       ELSE delivered
      BY <1>0, <1>b, ConcludedType
    <3>2. req[r].op = "refresh" => req[r].fresh \in 1..issued
      BY <1>0, <1>b DEF Shape
    <3> QED
      BY <1>0, <3>1, <3>2
  <2> QED
    BY <1>0, <1>b, <2>1, <2>2, QuietStep
\* ... or it goes on.
<1>c. ASSUME UNCHANGED <<issued, clock, familyOf, keys, delivered>>, account' \subseteq User,
             NEW stage \in {"store", "remove", "clean"}, Goto(r, stage),
             \/ req[r].stage = "insert" /\ stage = "store"
             \/ req[r].stage \in Deleting /\ stage \in Deleting
      PROVE  Kept'
  <2>0. stage \in Stage
    OBVIOUS
  <2>1. /\ req' \in [Req -> Request] /\ \A q \in Req \ {r} : req'[q] = req[q]
        /\ req'[r].stage = stage /\ req'[r].op = req[r].op
        /\ req'[r].user = req[r].user /\ req'[r].family = req[r].family
        /\ req'[r].token = req[r].token /\ req'[r].fresh = req[r].fresh
    BY <1>0, <1>c, <2>0, GotoType
  <2>2. Distinct'
    BY <1>0, <2>1, DistinctKept
  <2>3. Shape(r)'
    BY <1>0, <1>c, <2>1 DEF Shape, Deleting
  <2> QED
    BY <1>0, <1>c, <2>1, <2>2, <2>3, QuietStep
<1>1. CASE CreateUser(r)
  <2>1. UNCHANGED <<issued, clock, familyOf, keys, delivered>> /\ req[r].stage = "insert"
    BY <1>1 DEF CreateUser, At
  <2>2. account' \subseteq User
    BY <1>0, <1>1, <2>1 DEF CreateUser, Shape, Request
  <2>3. Answer(r, "duplicate") \/ Goto(r, "store")
    BY <1>1 DEF CreateUser
  <2> QED
    BY <1>0, <1>a, <1>c, <2>1, <2>2, <2>3 DEF Reply
<1>2. CASE FamilyMembers(r)
  <2>1. /\ UNCHANGED <<account, issued, clock, familyOf, keys, delivered>>
        /\ req[r].stage = "members"
        /\ req' = [req EXCEPT ![r].stage = "revoke", ![r].seen = Members(req[r].family)]
    BY <1>2 DEF FamilyMembers, At
  <2>2. req[r].family \in Family /\ req[r].op = "refresh"
    BY <1>0, <2>1 DEF Shape
  <2>3. /\ Members(req[r].family) \subseteq 1..issued
        /\ Members(req[r].family) \subseteq Token
        /\ \A t \in Members(req[r].family) : familyOf[t] = req[r].family
    BY <2>2 DEF Members, Kept, Owned, TypeOK
  <2>4. [req[r] EXCEPT !.stage = "revoke", !.seen = Members(req[r].family)] \in Request
    BY <1>0, <2>3 DEF Request
  <2>5. /\ req' \in [Req -> Request] /\ \A q \in Req \ {r} : req'[q] = req[q]
        /\ req'[r] = [req[r] EXCEPT !.stage = "revoke", !.seen = Members(req[r].family)]
    BY <1>0, <2>1, <2>4
  <2>6. /\ req'[r].stage = "revoke" /\ req'[r].op = req[r].op
        /\ req'[r].user = req[r].user /\ req'[r].family = req[r].family
        /\ req'[r].token = req[r].token /\ req'[r].fresh = req[r].fresh
        /\ req'[r].seen = Members(req[r].family)
    BY <1>0, <2>5 DEF Request
  <2>7. Distinct'
    BY <1>0, <2>5, <2>6, DistinctKept
  <2>8. Shape(r)'
    BY <1>0, <2>1, <2>2, <2>3, <2>6 DEF Shape, Deleting
  <2> QED
    BY <1>0, <2>1, <2>5, <2>7, <2>8, QuietStep
<1>3. CASE FindToken(r) \/ CountFamily(r)
  <2>1. /\ UNCHANGED <<account, issued, clock, familyOf, keys>>
        /\ req[r].stage \in Deleting
    BY <1>3 DEF FindToken, CountFamily, At, Deleting
  <2>2. CASE \E ok \in BOOLEAN : Concluded(r, ok)
    BY <1>b, <2>1, <2>2
  <2>3. CASE (Goto(r, "remove") \/ Goto(r, "clean")) /\ UNCHANGED delivered
    BY <1>0, <1>c, <2>1, <2>3 DEF Deleting
  <2> QED
    BY <1>3, <2>2, <2>3 DEF FindToken, CountFamily
<1>4. CASE Stop(r)
  <2>1. /\ UNCHANGED <<account, issued, clock, familyOf, keys, delivered>>
        /\ Answer(r, "failed") \/ Answer(r, "lost")
    BY <1>4 DEF Stop
  <2> QED
    BY <1>0, <1>a, <2>1 DEF Reply
<1> QED
  BY <1>1, <1>2, <1>3, <1>4

\* What StoreRefreshToken does to Redis and to its request.
LEMMA StoreEffect ==
    ASSUME Kept, NEW r \in Req, StoreRefreshToken(r)
    PROVE  /\ req[r].stage = "store" /\ req[r].family \in Family
           /\ req[r].op \in {"register", "login", "refresh"}
           /\ issued \in Nat /\ issued' = issued + 1 /\ issued' \in Token
           /\ UNCHANGED <<account, clock>>
           /\ familyOf' = [familyOf EXCEPT ![issued + 1] = req[r].family]
           /\ live' = live \cup {issued + 1}
           /\ members' \in [Family -> SUBSET (1..issued')]
           /\ \A f \in Family : f # req[r].family => /\ members'[f] = members[f]
                                                     /\ membersUntil'[f] = membersUntil[f]
           /\ \/ members'[req[r].family] = Members(req[r].family) \cup {issued + 1}
              \/ members'[req[r].family] = members[req[r].family]
           /\ membersUntil' \in [Family -> 0..issued']
           /\ families' \in [User -> SUBSET Family]
           /\ \A u \in User : u # Owner[req[r].family] => /\ families'[u] = families[u]
                                                          /\ familiesUntil'[u] = familiesUntil[u]
           /\ LET u == Owner[req[r].family] IN
                \/ families'[u] = Families(u) \cup {req[r].family}
                \/ families'[u] = families[u]
           /\ familiesUntil' \in [User -> 0..issued']
           /\ req' \in [Req -> Request] /\ \A q \in Req \ {r} : req'[q] = req[q]
           /\ \/ /\ req'[r].stage = "idle" /\ req'[r].op = "none"
                 /\ req'[r].family = NoFamily /\ req'[r].fresh = 0
                 /\ \/ delivered' = delivered /\ req'[r].answer = "failed"
                    \/ /\ delivered' = delivered \cup {issued + 1}
                       /\ req[r].op # "refresh" /\ req'[r].answer = "ok"
              \/ /\ req[r].op = "refresh" /\ delivered' = delivered
                 /\ req'[r].stage = "find" /\ req'[r].fresh = issued + 1
                 /\ req'[r].op = req[r].op /\ req'[r].user = req[r].user
                 /\ req'[r].family = req[r].family /\ req'[r].token = req[r].token
           /\ delivered' # delivered \/ req'[r].stage = "find" =>
                LET f == req[r].family
                    u == Owner[f]
                IN /\ members'[f] = Members(f) \cup {issued + 1}
                   /\ membersUntil'[f] = issued + 1
                   /\ families'[u] = Families(u) \cup {f}
                   /\ familiesUntil'[u] = issued + 1
           /\ \A f \in Family : membersUntil'[f] >= membersUntil[f]
           /\ \A u \in User : familiesUntil'[u] >= familiesUntil[u]
<1> DEFINE t == issued + 1
           f == req[r].family
           u == Owner[f]
<1>0. /\ req \in [Req -> Request] /\ req[r] \in Request /\ Shape(r)
      /\ issued \in 0..MaxToken /\ members \in [Family -> SUBSET (1..issued)]
      /\ membersUntil \in [Family -> 0..issued]
      /\ families \in [User -> SUBSET Family] /\ familiesUntil \in [User -> 0..issued]
      /\ delivered \subseteq 1..issued
  BY DEF Kept, TypeOK
<1>1. /\ req[r].stage = "store" /\ f \in Family /\ u \in User
      /\ req[r].op \in {"register", "login", "refresh"}
      /\ issued \in Nat /\ issued < MaxToken /\ t \in Token
  BY <1>0 DEF StoreRefreshToken, At, Shape
<1>2. PICK done \in 1..3, ok \in BOOLEAN :
        /\ Ran(done, 3, ok)
        /\ issued' = t
        /\ familyOf' = [familyOf EXCEPT ![t] = f]
        /\ live' = live \cup {t}
        /\ IF done > 1
             THEN /\ members' = [members EXCEPT ![f] = Members(f) \cup {t}]
                  /\ membersUntil' = [membersUntil EXCEPT ![f] = t]
             ELSE UNCHANGED <<members, membersUntil>>
        /\ IF done > 2
             THEN /\ families' = [families EXCEPT ![u] = Families(u) \cup {f}]
                  /\ familiesUntil' = [familiesUntil EXCEPT ![u] = t]
             ELSE UNCHANGED <<families, familiesUntil>>
        /\ IF ~ok THEN Answer(r, "failed") /\ UNCHANGED delivered
           ELSE IF req[r].op # "refresh" THEN Deliver(r, t)
           ELSE /\ req' = [req EXCEPT ![r].stage = "find", ![r].fresh = t]
                /\ UNCHANGED delivered
  BY DEF StoreRefreshToken
<1>3. UNCHANGED <<account, clock>>
  BY DEF StoreRefreshToken
<1>4. ok => done = 3
  BY <1>2 DEF Ran
<1>5. /\ members' \in [Family -> SUBSET (1..issued')]
      /\ membersUntil' \in [Family -> 0..issued']
      /\ \A g \in Family : g # f => /\ members'[g] = members[g]
                                    /\ membersUntil'[g] = membersUntil[g]
      /\ IF done > 1 THEN members'[f] = Members(f) \cup {t} /\ membersUntil'[f] = t
         ELSE members'[f] = members[f] /\ membersUntil'[f] = membersUntil[f]
  <2>1. /\ Members(f) \cup {t} \subseteq 1..t
        /\ \A g \in Family : members[g] \subseteq 1..t
        /\ \A g \in Family : membersUntil[g] \in 0..t
    BY <1>0, <1>1 DEF Members
  <2>2. CASE done > 1
    <3>1. members' = [members EXCEPT ![f] = Members(f) \cup {t}]
      BY <1>2, <2>2
    <3>2. membersUntil' = [membersUntil EXCEPT ![f] = t]
      BY <1>2, <2>2
    <3>3. members' \in [Family -> SUBSET (1..t)]
      BY <1>0, <2>1, <3>1
    <3>4. membersUntil' \in [Family -> 0..t]
      BY <1>0, <1>1, <2>1, <3>2
    <3> QED
      BY <1>0, <1>1, <1>2, <2>2, <3>1, <3>2, <3>3, <3>4
  <2>3. CASE ~(done > 1)
    <3>1. members' = members /\ membersUntil' = membersUntil
      BY <1>2, <2>3
    <3>2. members' \in [Family -> SUBSET (1..t)] /\ membersUntil' \in [Family -> 0..t]
      BY <1>0, <2>1, <3>1
    <3> QED
      BY <1>2, <2>3, <3>1, <3>2
  <2> QED
    BY <2>2, <2>3
<1>6. /\ families' \in [User -> SUBSET Family]
      /\ familiesUntil' \in [User -> 0..issued']
      /\ \A v \in User : v # u => /\ families'[v] = families[v]
                                  /\ familiesUntil'[v] = familiesUntil[v]
      /\ IF done > 2 THEN families'[u] = Families(u) \cup {f} /\ familiesUntil'[u] = t
         ELSE families'[u] = families[u] /\ familiesUntil'[u] = familiesUntil[u]
  <2>1. /\ Families(u) \cup {f} \subseteq Family
        /\ \A v \in User : familiesUntil[v] \in 0..t
    BY <1>0, <1>1 DEF Families
  <2>2. CASE done > 2
    <3>1. families' = [families EXCEPT ![u] = Families(u) \cup {f}]
      BY <1>2, <2>2
    <3>2. familiesUntil' = [familiesUntil EXCEPT ![u] = t]
      BY <1>2, <2>2
    <3>3. families' \in [User -> SUBSET Family]
      BY <1>0, <2>1, <3>1
    <3>4. familiesUntil' \in [User -> 0..t]
      BY <1>0, <1>1, <2>1, <3>2
    <3> QED
      BY <1>0, <1>1, <1>2, <2>2, <3>1, <3>2, <3>3, <3>4
  <2>3. CASE ~(done > 2)
    <3>1. families' = families /\ familiesUntil' = familiesUntil
      BY <1>2, <2>3
    <3>2. familiesUntil' \in [User -> 0..t]
      BY <1>0, <2>1, <3>1
    <3> QED
      BY <1>0, <1>2, <2>3, <3>1, <3>2
  <2> QED
    BY <2>2, <2>3
<1>7. /\ req' \in [Req -> Request] /\ \A q \in Req \ {r} : req'[q] = req[q]
      /\ \/ /\ req'[r].stage = "idle" /\ req'[r].op = "none"
            /\ req'[r].family = NoFamily /\ req'[r].fresh = 0
            /\ \/ delivered' = delivered /\ req'[r].answer = "failed"
               \/ /\ delivered' = delivered \cup {t} /\ ok
                  /\ req[r].op # "refresh" /\ req'[r].answer = "ok"
         \/ /\ req[r].op = "refresh" /\ delivered' = delivered /\ ok
            /\ req'[r].stage = "find" /\ req'[r].fresh = t
            /\ req'[r].op = req[r].op /\ req'[r].user = req[r].user
            /\ req'[r].family = req[r].family /\ req'[r].token = req[r].token
  <2>1. CASE ~ok
    <3>1. "failed" \in Reply /\ Answer(r, "failed") /\ delivered' = delivered
      BY <1>2, <2>1 DEF Reply
    <3> QED
      BY <1>0, <3>1, AnswerType
  <2>2. CASE ok /\ req[r].op # "refresh"
    <3>1. "ok" \in Reply /\ Answer(r, "ok") /\ delivered' = delivered \cup {t}
      BY <1>2, <2>2 DEF Deliver, Reply
    <3> QED
      BY <1>0, <2>2, <3>1, AnswerType
  <2>3. CASE ok /\ req[r].op = "refresh"
    <3> DEFINE new == [req[r] EXCEPT !.stage = "find", !.fresh = t]
    <3>1. req' = [req EXCEPT ![r].stage = "find", ![r].fresh = t] /\ delivered' = delivered
      BY <1>2, <2>3
    <3>2. /\ new \in Request /\ new.stage = "find" /\ new.fresh = t /\ new.op = req[r].op
          /\ new.user = req[r].user /\ new.family = req[r].family /\ new.token = req[r].token
      BY <1>0, <1>1 DEF Request
    <3>3. req' = [req EXCEPT ![r] = new]
      BY <1>0, <3>1
    <3> HIDE DEF new
    <3>4. req' \in [Req -> Request] /\ req'[r] = new /\ \A q \in Req \ {r} : req'[q] = req[q]
      BY <1>0, <3>2, <3>3
    <3> QED
      BY <2>3, <3>1, <3>2, <3>4
  <2> QED
    BY <2>1, <2>2, <2>3
<1>8. delivered' # delivered \/ req'[r].stage = "find" => done = 3
  BY <1>4, <1>7
<1>9. /\ \A g \in Family : membersUntil'[g] >= membersUntil[g]
      /\ \A v \in User : familiesUntil'[v] >= familiesUntil[v]
  <2>1. /\ \A g \in Family : membersUntil[g] \in Nat /\ membersUntil[g] <= issued
        /\ \A v \in User : familiesUntil[v] \in Nat /\ familiesUntil[v] <= issued
    BY <1>0
  <2> QED
    BY <1>1, <1>5, <1>6, <2>1
<1>10. CASE done = 3
  BY <1>1, <1>2, <1>3, <1>5, <1>6, <1>7, <1>9, <1>10
<1>11. CASE done # 3
  BY <1>1, <1>2, <1>3, <1>5, <1>6, <1>7, <1>8, <1>9, <1>11
<1> QED
  BY <1>10, <1>11

\* A token stored.
LEMMA StoreStep ==
    ASSUME Kept, NEW r \in Req, StoreRefreshToken(r)
    PROVE  Kept'
<1> DEFINE t == issued + 1
           f == req[r].family
           u == Owner[f]
<1>0. /\ Shape(r) /\ (\A q \in Req : Shape(q)) /\ Distinct /\ Owned /\ f \in Family /\ issued \in Nat /\ issued' = t
      /\ t \in Token /\ familyOf' = [familyOf EXCEPT ![t] = f]
      /\ familyOf \in [Token -> Family \cup {NoFamily}] /\ 1..issued \subseteq Token
      /\ u \in User /\ live' = live \cup {t} /\ live \subseteq 1..issued
      /\ delivered \subseteq 1..issued /\ account \subseteq User
      /\ expired \in 0..issued /\ swept \in 0..expired
      /\ UNCHANGED <<account, expired, swept>>
  BY StoreEffect, SMTT(30) DEF Kept, TypeOK, clock
<1>1. /\ familyOf'[t] = f
      /\ \A i \in 1..issued : familyOf'[i] = familyOf[i]
      /\ familyOf' \in [Token -> Family \cup {NoFamily}]
      /\ 1..issued' = 1..issued \cup {t}
  <2>1. t \notin 1..issued /\ 1..issued' = 1..issued \cup {t}
    BY <1>0
  <2> QED
    BY <1>0, <2>1
<1>2. TypeOK'
  <2>1. live' \subseteq 1..issued' /\ delivered' \subseteq 1..issued'
    BY ZenonT(60), <1>0, <1>1, StoreEffect
  <2>2. issued' \in 0..MaxToken /\ expired' \in 0..issued' /\ swept' \in 0..expired'
    BY <1>0
  <2>3. /\ members' \in [Family -> SUBSET (1..issued')]
        /\ membersUntil' \in [Family -> 0..issued']
        /\ families' \in [User -> SUBSET Family]
        /\ familiesUntil' \in [User -> 0..issued']
        /\ req' \in [Req -> Request]
    BY StoreEffect
  <2> QED
    BY <1>0, <1>1, <2>1, <2>2, <2>3 DEF TypeOK
<1>3. ASSUME NEW q \in Req \ {r} PROVE Shape(q)'
  <2>1. /\ Shape(q) /\ req'[q] = req[q]
        /\ req[q].op \in {"register", "login"} => req[q].family # f
    BY <1>0, <1>3, StoreEffect DEF Distinct
  <2>2. issued' \in Nat /\ issued <= issued'
    BY <1>0
  <2>3. req[q].op \in {"register", "login"} =>
          \A i \in 1..issued' : i \in 1..issued \/ familyOf'[i] # req[q].family
    BY <1>1, <2>1
  <2> QED
    BY <1>0, <1>1, <2>1, <2>2, <2>3, ShapeKept
<1>4. Shape(r)'
  <2>1. CASE req'[r].stage = "idle"
    BY <2>1, StoreEffect, ShapeOfIdle
  <2>2. CASE req'[r].stage = "find"
    <3>1. /\ req[r].op = "refresh" /\ req'[r].op = "refresh" /\ req'[r].fresh = t
          /\ req'[r].family = f /\ req'[r].token = req[r].token
      BY <2>2, StoreEffect
    <3>2. req[r].token \in 1..issued /\ familyOf[req[r].token] = f
      BY <1>0, <3>1 DEF Shape
    <3>3. /\ req[r].token \in 1..issued' /\ familyOf'[req[r].token] = f
          /\ t \in 1..issued' /\ familyOf'[t] = f
      BY <1>0, <1>1, <3>2
    <3> QED
      BY <1>0, <2>2, <3>1, <3>3 DEF Shape, Deleting
  <2> QED
    BY <2>1, <2>2, StoreEffect
<1>5. Distinct'
  <2>1. /\ \A q \in Req \ {r} : req'[q] = req[q]
        /\ \/ req'[r].op = "none" /\ req'[r].family = NoFamily
           \/ /\ req'[r].op = req[r].op /\ req'[r].family = req[r].family
              /\ req'[r].user = req[r].user
    BY StoreEffect
  <2> QED
    BY <1>0, <2>1, DistinctKept
<1>6. Owned'
  <2>1. \A i \in 1..issued' : familyOf'[i] \in Family
    BY <1>0, <1>1 DEF Owned
  <2>2. ASSUME NEW g \in Family, NEW i \in members'[g]
        PROVE  familyOf'[i] = g
    <3>1. \A h \in Family : members[h] \subseteq 1..issued
      BY DEF Kept, TypeOK
    <3>2. i \in members[g] \/ (g = f /\ i = t)
      BY <2>2, StoreEffect DEF Members
    <3>3. CASE i \in members[g]
      BY <1>0, <1>1, <3>1, <3>3 DEF Owned
    <3> QED
      BY <1>1, <3>2, <3>3
  <2>3. ASSUME NEW v \in User, NEW g \in families'[v]
        PROVE  Owner[g] = v
    <3>1. g \in families[v] \/ (v = u /\ g = f)
      BY <2>3, StoreEffect DEF Families
    <3> QED
      BY <1>0, <3>1 DEF Owned
  <2> QED
    BY <2>1, <2>2, <2>3 DEF Owned
<1> QED
  BY <1>2, <1>3, <1>4, <1>5, <1>6 DEF Kept

Deletes(r) == \/ DeleteTokenFamily(r) \/ RemoveToken(r)
              \/ CleanFamily(r) \/ DeleteAllUserTokens(r)

\* What the deleting steps have in common: they take away, and only what is the
\* request's to take.
LEMMA DeleteEffect ==
    ASSUME Kept, NEW r \in Req, Deletes(r)
    PROVE  /\ UNCHANGED <<account, issued, clock, familyOf, membersUntil, familiesUntil>>
           /\ live' \subseteq live
           /\ \A t \in live \ live' :
                \/ familyOf[t] = req[r].family
                \/ req[r].op = "logoutAll" /\ Owner[familyOf[t]] = req[r].user
           /\ members' \in [Family -> SUBSET (1..issued)]
           /\ \A f \in Family : members'[f] \subseteq members[f]
           /\ families' \in [User -> SUBSET Family]
           /\ \A u \in User : families'[u] \subseteq families[u]
           /\ req' \in [Req -> Request] /\ \A q \in Req \ {r} : req'[q] = req[q]
           /\ \/ /\ req'[r].stage = "idle" /\ req'[r].op = "none"
                 /\ req'[r].family = NoFamily /\ req'[r].fresh = 0
                 /\ \/ delivered' = delivered
                    \/ /\ delivered' = delivered \cup {req[r].fresh}
                       /\ req[r].op = "refresh" /\ req[r].stage \in Deleting
              \/ /\ RemoveToken(r) /\ Goto(r, "count") /\ delivered' = delivered
<1>0. /\ req \in [Req -> Request] /\ req[r] \in Request /\ Shape(r) /\ Owned
      /\ members \in [Family -> SUBSET (1..issued)]
      /\ families \in [User -> SUBSET Family] /\ live \subseteq 1..issued
  BY DEF Kept, TypeOK
<1> DEFINE f == req[r].family
           u == Owner[f]
\* The end of a request.
<1>a. ASSUME NEW answer \in Reply, Answer(r, answer)
      PROVE  /\ req' \in [Req -> Request] /\ \A q \in Req \ {r} : req'[q] = req[q]
             /\ req'[r].stage = "idle" /\ req'[r].op = "none"
             /\ req'[r].family = NoFamily /\ req'[r].fresh = 0
  BY <1>0, <1>a, AnswerType
<1>b. /\ \A g \in Family : Members(g) \subseteq members[g]
      /\ \A v \in User : Families(v) \subseteq families[v]
  BY DEF Members, Families
<1>1. CASE DeleteTokenFamily(r)
  <2>1. req[r].stage = "revoke" /\ f \in Family /\ u \in User
    BY <1>0, <1>1 DEF DeleteTokenFamily, At, Shape
  <2>2. PICK gone \in SUBSET req[r].seen, done \in 0..2, ok \in BOOLEAN :
          /\ live' = live \ gone
          /\ members' = IF done > 0 THEN [members EXCEPT ![f] = {}] ELSE members
          /\ families' = IF done > 1 THEN [families EXCEPT ![u] = Families(u) \ {f}]
                         ELSE families
          /\ Answer(r, IF ok THEN "revoked" ELSE "unrevoked")
    BY <1>1 DEF DeleteTokenFamily
  <2>3. /\ UNCHANGED <<account, issued, clock, familyOf, membersUntil, familiesUntil>>
        /\ delivered' = delivered
    BY <1>1 DEF DeleteTokenFamily
  <2>4. \A t \in live \ live' : familyOf[t] = f
    BY <1>0, <2>1, <2>2 DEF Shape
  <2>5. /\ members' \in [Family -> SUBSET (1..issued)]
        /\ \A g \in Family : members'[g] \subseteq members[g]
    BY <1>0, <2>1, <2>2
  <2>6. /\ families' \in [User -> SUBSET Family]
        /\ \A v \in User : families'[v] \subseteq families[v]
    BY <1>0, <1>b, <2>1, <2>2
  <2>7. (IF ok THEN "revoked" ELSE "unrevoked") \in Reply
    BY DEF Reply
  <2> QED
    BY <1>a, <2>2, <2>3, <2>4, <2>5, <2>6, <2>7
<1>2. CASE RemoveToken(r)
  <2>1. /\ req[r].stage = "remove" /\ req[r].stage \in Deleting /\ f \in Family
        /\ familyOf[req[r].token] = f
    BY <1>0, <1>2 DEF RemoveToken, At, Shape, Deleting
  <2>2. PICK done \in 0..2, ok \in BOOLEAN :
          /\ live' = IF done > 0 THEN live \ {req[r].token} ELSE live
          /\ members' = IF done > 1 THEN [members EXCEPT ![f] = Members(f) \ {req[r].token}]
                        ELSE members
          /\ IF ok THEN Goto(r, "count") /\ UNCHANGED delivered ELSE Concluded(r, FALSE)
    BY <1>2 DEF RemoveToken
  <2>3. /\ UNCHANGED <<account, issued, clock, familyOf, membersUntil, familiesUntil>>
        /\ families' = families
    BY <1>2 DEF RemoveToken
  <2>4. live' \subseteq live /\ \A t \in live \ live' : familyOf[t] = f
    BY <2>1, <2>2
  <2>5. /\ members' \in [Family -> SUBSET (1..issued)]
        /\ \A g \in Family : members'[g] \subseteq members[g]
    BY <1>0, <1>b, <2>1, <2>2
  <2>6. CASE ok
    <3>1. "count" \in Stage /\ Goto(r, "count") /\ delivered' = delivered
      BY <2>2, <2>6
    <3>2. req' \in [Req -> Request] /\ \A q \in Req \ {r} : req'[q] = req[q]
      BY <1>0, <3>1, GotoType
    <3> QED
      BY <1>0, <1>2, <2>3, <2>4, <2>5, <3>1, <3>2
  <2>7. CASE ~ok
    <3>1. Concluded(r, FALSE)
      BY <2>2, <2>7
    <3>2. /\ req' \in [Req -> Request] /\ \A q \in Req \ {r} : req'[q] = req[q]
          /\ req'[r].stage = "idle" /\ req'[r].op = "none"
          /\ req'[r].family = NoFamily /\ req'[r].fresh = 0
          /\ delivered' = IF req[r].op = "refresh" THEN delivered \cup {req[r].fresh}
                          ELSE delivered
      BY <1>0, <3>1, ConcludedType
    <3> QED
      BY <1>0, <2>1, <2>3, <2>4, <2>5, <3>2
  <2> QED
    BY <2>6, <2>7
<1>3. CASE CleanFamily(r)
  <2>1. /\ req[r].stage = "clean" /\ req[r].stage \in Deleting /\ f \in Family /\ u \in User
    BY <1>0, <1>3 DEF CleanFamily, At, Shape, Deleting
  <2>2. PICK done \in 0..2, ok \in BOOLEAN :
          /\ members' = IF done > 0 THEN [members EXCEPT ![f] = {}] ELSE members
          /\ families' = IF done > 1 THEN [families EXCEPT ![u] = Families(u) \ {f}]
                         ELSE families
          /\ Concluded(r, ok)
    BY <1>3 DEF CleanFamily
  <2>3. /\ UNCHANGED <<account, issued, clock, familyOf, membersUntil, familiesUntil>>
        /\ live' = live
    BY <1>3 DEF CleanFamily
  <2>5. /\ members' \in [Family -> SUBSET (1..issued)]
        /\ \A g \in Family : members'[g] \subseteq members[g]
    BY <1>0, <2>1, <2>2
  <2>6. /\ families' \in [User -> SUBSET Family]
        /\ \A v \in User : families'[v] \subseteq families[v]
    BY <1>0, <1>b, <2>1, <2>2
  <2>7. /\ req' \in [Req -> Request] /\ \A q \in Req \ {r} : req'[q] = req[q]
        /\ req'[r].stage = "idle" /\ req'[r].op = "none"
        /\ req'[r].family = NoFamily /\ req'[r].fresh = 0
        /\ delivered' = IF req[r].op = "refresh" THEN delivered \cup {req[r].fresh}
                        ELSE delivered
    BY <1>0, <2>2, ConcludedType
  <2> QED
    BY <2>1, <2>3, <2>5, <2>6, <2>7
<1>4. CASE DeleteAllUserTokens(r)
  <2> DEFINE v == req[r].user
             all == Families(v)
  <2>1. req[r].stage = "script" /\ req[r].op = "logoutAll" /\ v \in User
    BY <1>0, <1>4 DEF DeleteAllUserTokens, At, Shape
  <2>2. /\ live' = live \ UNION {Members(g) : g \in all}
        /\ members' = [g \in Family |-> IF g \in all THEN {} ELSE members[g]]
        /\ families' = [families EXCEPT ![v] = {}]
        /\ Answer(r, "ok")
        /\ UNCHANGED <<account, issued, clock, familyOf, membersUntil, familiesUntil, delivered>>
    BY <1>4 DEF DeleteAllUserTokens
  <2>3. ASSUME NEW t \in live \ live' PROVE Owner[familyOf[t]] = v
    <3>1. PICK g \in all : t \in Members(g)
      BY <2>2, <2>3
    <3>2. g \in families[v] /\ g \in Family /\ t \in members[g]
      BY <1>0, <1>b, <2>1, <3>1
    <3> QED
      BY <1>0, <2>1, <3>2 DEF Owned
  <2>4. /\ members' \in [Family -> SUBSET (1..issued)]
        /\ \A g \in Family : members'[g] \subseteq members[g]
    BY <1>0, <2>2
  <2>5. /\ families' \in [User -> SUBSET Family]
        /\ \A w \in User : families'[w] \subseteq families[w]
    BY <1>0, <2>1, <2>2
  <2>6. "ok" \in Reply
    BY DEF Reply
  <2> QED
    BY <1>a, <2>1, <2>2, <2>3, <2>4, <2>5, <2>6
<1> QED
  BY <1>1, <1>2, <1>3, <1>4 DEF Deletes

\* Something deleted.
LEMMA DeleteStep ==
    ASSUME Kept, NEW r \in Req, Deletes(r)
    PROVE  Kept'
<1>0. /\ Shape(r) /\ (\A q \in Req : Shape(q)) /\ Distinct /\ Owned /\ req \in [Req -> Request]
      /\ delivered \subseteq 1..issued /\ live \subseteq 1..issued /\ issued \in Nat
  BY DEF Kept, TypeOK
<1>1. delivered' \subseteq 1..issued
  <2>1. req[r].op = "refresh" /\ req[r].stage \in Deleting => req[r].fresh \in 1..issued
    BY <1>0 DEF Shape
  <2>2. \/ delivered' = delivered
        \/ /\ delivered' = delivered \cup {req[r].fresh}
           /\ req[r].op = "refresh" /\ req[r].stage \in Deleting
    BY DeleteEffect
  <2> QED
    BY <1>0, <2>1, <2>2
<1>2. TypeOK'
  BY <1>0, <1>1, DeleteEffect DEF Kept, TypeOK, clock
<1>3. Owned'
  BY DeleteEffect, SMTT(30) DEF Kept, Owned, TypeOK
<1>4. Shape(r)' /\ Distinct'
  <2>1. CASE req'[r].stage = "idle" /\ req'[r].op = "none"
             /\ req'[r].family = NoFamily /\ req'[r].fresh = 0
    <3>1. Shape(r)'
      BY <2>1, ShapeOfIdle
    <3>2. \A q \in Req \ {r} : req'[q] = req[q]
      BY DeleteEffect
    <3> QED
      BY <1>0, <2>1, <3>1, <3>2, DistinctKept
  <2>2. CASE RemoveToken(r) /\ Goto(r, "count")
    <3>0. "count" \in Stage /\ req[r].stage = "remove"
      BY <2>2 DEF RemoveToken, At
    <3>1. /\ \A q \in Req \ {r} : req'[q] = req[q]
          /\ req'[r].stage = "count" /\ req'[r].op = req[r].op
          /\ req'[r].user = req[r].user /\ req'[r].family = req[r].family
          /\ req'[r].token = req[r].token /\ req'[r].fresh = req[r].fresh
      BY <1>0, <2>2, <3>0, GotoType
    <3>2. UNCHANGED <<issued, familyOf>>
      BY DeleteEffect
    <3>3. Shape(r)'
      BY <1>0, <3>0, <3>1, <3>2 DEF Shape, Deleting
    <3> QED
      BY <1>0, <3>1, <3>3, DistinctKept
  <2> QED
    BY <2>1, <2>2, DeleteEffect
<1>5. ASSUME NEW q \in Req \ {r} PROVE Shape(q)'
  <2>1. /\ Shape(q) /\ req'[q] = req[q] /\ issued' = issued /\ familyOf' = familyOf
    BY <1>0, <1>5, DeleteEffect
  <2> QED
    BY <1>0, <2>1, ShapeKept
<1> QED
  BY <1>2, <1>3, <1>4, <1>5 DEF Kept

\* Every step keeps requests and sets in order.
LEMMA KeptStep == Kept /\ [Next]_authVars => Kept'
<1> SUFFICES ASSUME Kept, [Next]_authVars PROVE Kept'
  OBVIOUS
<1>1. CASE UNCHANGED authVars
  <2>1. UNCHANGED <<account, issued, expired, swept, familyOf, live, members,
                    membersUntil, families, familiesUntil, delivered, req>>
    BY <1>1 DEF authVars, clock, keys
  <2> QED
    BY <2>1 DEF Kept, TypeOK, Shape, Distinct, Owned
<1>2. CASE Age \/ Sweep
  <2>1. /\ UNCHANGED <<account, issued, familyOf, live, members,
                       membersUntil, families, familiesUntil, delivered, req>>
        /\ expired' \in 0..issued /\ swept' \in 0..expired'
    BY <1>2 DEF Age, Sweep, keys, Kept, TypeOK
  <2> QED
    BY <2>1 DEF Kept, TypeOK, Shape, Distinct, Owned
<1>3. ASSUME NEW r \in Req, Proceed(r) \/ Stop(r) PROVE Kept'
  BY <1>3, GoOnStep, StoreStep, DeleteStep DEF Proceed, Deletes
<1> QED
  BY <1>1, <1>2, <1>3, BeginStep DEF Next

\* And the initial state has them so.
LEMMA KeptInit == Init => Kept
<1> SUFFICES ASSUME Init PROVE Kept
  OBVIOUS
<1>1. Idle \in Request
  BY DEF Idle, Request
<1>2. TypeOK
  BY <1>1 DEF Init, TypeOK
<1>3. \A r \in Req : Shape(r)
  BY DEF Init, Idle, Shape, Deleting
<1>4. Distinct /\ Owned
  BY DEF Init, Idle, Distinct, Owned
<1> QED
  BY <1>2, <1>3, <1>4 DEF Kept

\* The invariant behind the refinement.
THEOREM KeptAlways == Spec => []Kept
<1>1. Kept /\ [Next]_authVars => Kept'
  BY KeptStep
<1> QED
  BY <1>1, KeptInit, PTL DEF Spec

\* The state stays well formed.
THEOREM TypeCorrect == Spec => []TypeOK
<1>1. Kept => TypeOK
  BY DEF Kept
<1> QED
  BY <1>1, KeptAlways, PTL

-----------------------------------------------------------------------------
(* The refinement.                                                         *)

\* The tokens session f accepts, and the session request r is to get a token of.
Accepting(f) == {t \in live : t > expired /\ familyOf[t] = f}
Exchange(r) == IF req[r].op = "refresh" /\ At(r, "store") THEN req[r].family ELSE NoFamily

\* A token that is stored for a login or a registration opens its session, and
\* one that is stored for a refresh is what the refresh began for.
LEMMA StoreIsPromised ==
    ASSUME Kept, NEW r \in Req, StoreRefreshToken(r)
    PROVE  Promise!SessionsNext
<1>f. PICK f \in Family : f = req[r].family
  BY StoreEffect
<1> DEFINE t == issued + 1
<1>0. /\ Shape(r) /\ Owned /\ f \in Family /\ issued \in Nat /\ issued' = t /\ t \in Token
      /\ live \subseteq 1..issued /\ live' = live \cup {t}
      /\ familyOf' = [familyOf EXCEPT ![t] = f]
      /\ familyOf \in [Token -> Family \cup {NoFamily}]
      /\ req[r].stage = "store" /\ req[r].op \in {"register", "login", "refresh"}
      /\ expired \in 0..issued /\ expired' = expired /\ req \in [Req -> Request]
  BY <1>f, StoreEffect DEF Kept, TypeOK, clock
<1>1. /\ t \notin 1..issued /\ 1..issued' = 1..issued \cup {t} /\ familyOf'[t] = f
      /\ \A i \in 1..issued : i \in Token /\ i # t /\ familyOf'[i] = familyOf[i]
  BY <1>0 DEF Kept, TypeOK
<1>2. \A g \in Family : Accepting(g)' = IF g = f THEN Accepting(f) \cup {t} ELSE Accepting(g)
  BY <1>0, <1>1 DEF Accepting
<1>3. [g \in Family |-> Accepting(g)]'
        = [[g \in Family |-> Accepting(g)] EXCEPT ![f] = Accepting(f) \cup {t}]
  BY <1>0, <1>2
<1>4. {g \in Family : Opened(g)}' = {g \in Family : Opened(g)} \cup {f}
  BY <1>0, <1>1 DEF Opened
<1>5. Promise!Issue(f)
  BY <1>0, <1>1, <1>3 DEF Promise!Issue, Accepting
<1>6. /\ \A q \in Req \ {r} : Exchange(q)' = Exchange(q)
      /\ Exchange(r)' = NoFamily
  BY StoreEffect DEF Exchange, At
<1>7. CASE req[r].op # "refresh"
  <2>1. ~Opened(f)
    BY <1>0, <1>7, <1>f DEF Shape, Opened
  <2>2. Exchange(r) = NoFamily
    BY <1>7 DEF Exchange
  <2>3. [q \in Req |-> Exchange(q)]' = [q \in Req |-> Exchange(q)]
    BY <1>6, <2>2
  <2>4. Promise!Open(f)
    BY <1>4, <1>5, <2>1, <2>3 DEF Promise!Open, Exchange
  <2> QED
    BY <1>0, <2>4 DEF Promise!SessionsNext
<1>8. CASE req[r].op = "refresh"
  <2>1. req[r].token \in 1..issued /\ familyOf[req[r].token] = f
    BY <1>0, <1>8, <1>f DEF Shape
  <2>2. {g \in Family : Opened(g)}' = {g \in Family : Opened(g)}
    BY <1>0, <1>4, <2>1 DEF Opened
  <2>3. Exchange(r) = f
    BY <1>0, <1>8, <1>f DEF Exchange, At
  <2>4. [q \in Req |-> Exchange(q)]' = [[q \in Req |-> Exchange(q)] EXCEPT ![r] = NoFamily]
    BY <1>6
  <2>5. Promise!Rotate(r, f)
    BY <1>0, <1>5, <2>2, <2>3, <2>4 DEF Promise!Rotate, Exchange
  <2> QED
    BY <1>0, <2>5 DEF Promise!SessionsNext
<1> QED
  BY <1>7, <1>8

\* A step that issues nothing and leaves every exchange alone revokes, if anything.
LEMMA OtherIsPromised ==
    ASSUME Kept, UNCHANGED <<issued, familyOf>>, live' \subseteq live,
           expired' \in Nat, expired' >= expired,
           \A r \in Req : Exchange(r)' = Exchange(r)
    PROVE  Promise!SessionsNext
<1>1. {g \in Family : Opened(g)}' = {g \in Family : Opened(g)}
  BY DEF Opened
<1>2. live \subseteq Token /\ live \subseteq Nat /\ expired \in Nat
  BY DEF Kept, TypeOK
<1>a. \A t \in live' : t \in live /\ t \in Token /\ (t > expired' => t > expired)
  BY <1>2
<1>3. \A g \in Family : Accepting(g)' \subseteq Accepting(g) /\ Accepting(g)' \in SUBSET Token
  BY <1>a DEF Accepting
<1>4. [r \in Req |-> Exchange(r)]' = [r \in Req |-> Exchange(r)]
  OBVIOUS
<1>5. Promise!Revoke
  BY <1>1, <1>3, <1>4 DEF Promise!Revoke, Accepting, Exchange
<1> QED
  BY <1>5 DEF Promise!SessionsNext

\* A request that begins, goes on or ends without a change in Redis.
LEMMA QuietIsPromised ==
    ASSUME Kept, NEW r \in Req, UNCHANGED <<issued, clock, familyOf, keys>>,
           \A q \in Req \ {r} : Exchange(q)' = Exchange(q),
           \/ Exchange(r)' \in {Exchange(r), NoFamily}
           \/ Exchange(r)' \in Family /\ Accepting(Exchange(r)') # {}
    PROVE  Promise!SessionsNext
<1>1. UNCHANGED <<issued, familyOf, live, expired>>
  BY DEF clock, keys
<1>2. /\ {g \in Family : Opened(g)}' = {g \in Family : Opened(g)}
      /\ [g \in Family |-> Accepting(g)]' = [g \in Family |-> Accepting(g)]
      /\ (1..issued)' = 1..issued
  BY <1>1 DEF Opened, Accepting
<1>3. [q \in Req |-> Exchange(q)]' = [[q \in Req |-> Exchange(q)] EXCEPT ![r] = Exchange(r)']
  OBVIOUS
<1>4. CASE Exchange(r)' = Exchange(r)
  <2>1. live' \subseteq live /\ expired' \in Nat /\ expired' >= expired
    BY <1>1 DEF Kept, TypeOK
  <2> QED
    BY <1>1, <1>4, <2>1, OtherIsPromised
<1>5. CASE Exchange(r)' = NoFamily
  <2>1. Promise!Abandon(r)
    BY <1>2, <1>3, <1>5 DEF Promise!Abandon, Accepting, Exchange
  <2> QED
    BY <2>1 DEF Promise!SessionsNext
<1>6. CASE Exchange(r)' \in Family /\ Accepting(Exchange(r)') # {}
  <2>1. PICK f \in Family : f = Exchange(r)' /\ Accepting(f) # {}
    BY <1>6
  <2>2. Promise!Present(r, f)
    BY <1>2, <1>3, <2>1 DEF Promise!Present, Accepting, Exchange
  <2> QED
    BY <2>2 DEF Promise!SessionsNext
<1> QED
  BY <1>4, <1>5, <1>6

\* The initial states map to the initial state.
LEMMA PromiseInit == Init => Promise!SessionsInit
<1> SUFFICES ASSUME Init PROVE Promise!SessionsInit
  OBVIOUS
<1>1. issued = 0 /\ live = {} /\ 1..issued = {}
  BY DEF Init
<1>2. {g \in Family : Opened(g)} = {}
  BY <1>1 DEF Opened
<1>3. \A r \in Req : ~At(r, "store")
  BY DEF Init, Idle, At
<1> QED
  BY <1>1, <1>2, <1>3 DEF Promise!SessionsInit

\* A request that begins.
LEMMA BeginIsPromised ==
    ASSUME Kept, NEW r \in Req,
           \/ RegisterBegin(r) \/ LoginBegin(r) \/ RefreshBegin(r)
           \/ LogoutBegin(r) \/ LogoutAllBegin(r)
    PROVE  Promise!SessionsNext
<1>0. /\ req \in [Req -> Request] /\ delivered \subseteq 1..issued /\ 1..issued \subseteq Token
      /\ account \subseteq User /\ Owned /\ expired \in Nat /\ swept \in Nat
  BY DEF Kept, TypeOK
<1>1. UNCHANGED <<issued, clock, familyOf, keys>>
  BY DEF RegisterBegin, LoginBegin, RefreshBegin, LogoutBegin, LogoutAllBegin
<1>2. ASSUME NEW op \in Operation, NEW stage \in Stage,
             NEW u \in User \cup {NoUser}, NEW f \in Family \cup {NoFamily},
             NEW t \in Token \cup {0}, Start(r, op, stage, u, f, t),
             op = "refresh" /\ stage = "store" => f \in Family /\ Accepting(f) # {}
      PROVE  Promise!SessionsNext
  <2>0. req \in [Req -> Request] /\ Start(r, op, stage, u, f, t)
    BY <1>0, <1>2
  <2> HIDE DEF Operation, Stage, Token
  <2>1. /\ \A q \in Req \ {r} : req'[q] = req[q]
        /\ req'[r].stage = stage /\ req'[r].op = op /\ req'[r].family = f
    BY <2>0, StartType
  <2>2. \A q \in Req \ {r} : Exchange(q)' = Exchange(q)
    BY <2>1 DEF Exchange, At
  <2>3. \/ Exchange(r)' = NoFamily
        \/ Exchange(r)' \in Family /\ Accepting(Exchange(r)') # {}
    BY <1>2, <2>1 DEF Exchange, At
  <2> QED
    BY <1>1, <2>2, <2>3, QuietIsPromised
<1>3. CASE RegisterBegin(r) \/ LoginBegin(r)
  BY <1>2, <1>3 DEF RegisterBegin, LoginBegin
<1>4. CASE RefreshBegin(r)
  <2>1. PICK t \in delivered :
          /\ t > expired
          /\ Start(r, "refresh", IF Stored(t) THEN "store" ELSE "members",
                   Owner[familyOf[t]], familyOf[t], t)
    BY <1>4 DEF RefreshBegin
  <2>2. t \in Token /\ familyOf[t] \in Family /\ Owner[familyOf[t]] \in User
    BY <1>0 DEF Owned
  <2>3. Stored(t) => t \in Accepting(familyOf[t])
    BY <2>1 DEF Stored, Accepting
  <2>4. CASE Stored(t)
    BY <1>2, <2>1, <2>2, <2>3, <2>4
  <2>5. CASE ~Stored(t)
    BY <1>2, <2>1, <2>2, <2>5
  <2> QED
    BY <2>4, <2>5
<1>5. CASE LogoutBegin(r)
  <2>1. PICK t \in delivered : Start(r, "logout", "find", Owner[familyOf[t]], familyOf[t], t)
    BY <1>5 DEF LogoutBegin
  <2>2. t \in Token /\ familyOf[t] \in Family /\ Owner[familyOf[t]] \in User
    BY <1>0 DEF Owned
  <2> QED
    BY <1>2, <2>1, <2>2
<1>6. CASE LogoutAllBegin(r)
  BY <1>0, <1>2, <1>6 DEF LogoutAllBegin
<1> QED
  BY <1>3, <1>4, <1>5, <1>6

\* A request that goes on or ends, without a change in Redis.
LEMMA GoOnIsPromised ==
    ASSUME Kept, NEW r \in Req,
           CreateUser(r) \/ FamilyMembers(r) \/ FindToken(r) \/ CountFamily(r) \/ Stop(r)
    PROVE  Promise!SessionsNext
<1>0. req \in [Req -> Request] /\ Shape(r)
  BY DEF Kept, TypeOK
<1>1. UNCHANGED <<issued, clock, familyOf, keys>>
  BY DEF CreateUser, FamilyMembers, FindToken, CountFamily, Stop
<1>2. /\ \A q \in Req \ {r} : req'[q] = req[q]
      /\ req'[r].op = "refresh" => req'[r].stage # "store"
  <2>1. ASSUME NEW answer \in Reply, Answer(r, answer)
        PROVE  (\A q \in Req \ {r} : req'[q] = req[q]) /\ req'[r].op = "none"
    BY <1>0, <2>1, AnswerType
  <2>2. ASSUME NEW ok \in BOOLEAN, Concluded(r, ok)
        PROVE  (\A q \in Req \ {r} : req'[q] = req[q]) /\ req'[r].op = "none"
    BY <1>0, <2>2, ConcludedType
  <2>3. ASSUME NEW stage \in Stage, Goto(r, stage), stage = "store" => req[r].op # "refresh"
        PROVE  /\ \A q \in Req \ {r} : req'[q] = req[q]
               /\ req'[r].op = "refresh" => req'[r].stage # "store"
    BY <1>0, <2>3, GotoType
  <2>4. CASE CreateUser(r)
    <3>1. req[r].op = "register"
      BY <1>0, <2>4 DEF CreateUser, At, Shape
    <3> QED
      BY <2>1, <2>3, <2>4, <3>1 DEF CreateUser, Reply
  <2>5. CASE FamilyMembers(r)
    BY <1>0, <2>5 DEF FamilyMembers, Request
  <2>6. CASE FindToken(r) \/ CountFamily(r)
    BY <2>2, <2>3, <2>6 DEF FindToken, CountFamily
  <2>7. CASE Stop(r)
    BY <2>1, <2>7 DEF Stop, Reply
  <2> QED
    BY <2>4, <2>5, <2>6, <2>7
<1>3. \A q \in Req \ {r} : Exchange(q)' = Exchange(q)
  BY <1>2 DEF Exchange, At
<1>4. Exchange(r)' = NoFamily
  BY <1>2 DEF Exchange, At
<1> QED
  BY <1>1, <1>3, <1>4, QuietIsPromised

\* A step that deletes.
LEMMA DeleteIsPromised ==
    ASSUME Kept, NEW r \in Req, Deletes(r)
    PROVE  Promise!SessionsNext
<1>1. /\ UNCHANGED <<issued, familyOf, expired>> /\ live' \subseteq live
      /\ \A q \in Req \ {r} : req'[q] = req[q]
  BY DeleteEffect DEF clock
<1>2. req \in [Req -> Request] /\ expired \in Nat
  BY DEF Kept, TypeOK
<1>3. ~At(r, "store")
  BY DEF Deletes, DeleteTokenFamily, RemoveToken, CleanFamily, DeleteAllUserTokens, At
<1>4. req'[r].stage # "store"
  <2>1. CASE Goto(r, "count")
    BY <1>2, <2>1, GotoType
  <2> QED
    BY <2>1, DeleteEffect
<1>5. \A q \in Req : Exchange(q)' = Exchange(q)
  BY <1>1, <1>3, <1>4 DEF Exchange, At
<1> QED
  BY <1>1, <1>2, <1>5, OtherIsPromised

\* Every step maps to a step of Sessions or to a stutter.
LEMMA PromiseStep == Kept /\ [Next]_authVars => [Promise!SessionsNext]_(Promise!sessionVars)
<1> SUFFICES ASSUME Kept, Next PROVE Promise!SessionsNext
  BY DEF authVars, clock, keys, Promise!sessionVars, Opened, At
<1>1. CASE Age \/ Sweep
  <2>1. UNCHANGED <<issued, familyOf, live, req>> /\ expired' \in Nat /\ expired' >= expired
    BY <1>1 DEF Age, Sweep, keys, Kept, TypeOK
  <2>2. \A r \in Req : Exchange(r)' = Exchange(r)
    BY <2>1 DEF Exchange, At
  <2> QED
    BY <2>1, <2>2, OtherIsPromised
<1> QED
  BY <1>1, BeginIsPromised, GoOnIsPromised, StoreIsPromised, DeleteIsPromised
     DEF Next, Proceed, Deletes

\* The auth service keeps the promise of Sessions, whatever fails and whatever
\* overlaps: a refresh that finds its token gives one new token for it, in the
\* session the token is of; and a session that accepts nothing while no refresh
\* of it is between that look and the store accepts nothing any more.
THEOREM Implements == Spec => KeepsPromise
BY PromiseInit, PromiseStep, KeptAlways, PTL DEF Spec, KeepsPromise, Promise!SessionsSpec

-----------------------------------------------------------------------------
(* Finding a user's tokens.                                                *)

\* The tokens clients have or are about to get, and those of calm sessions.
Held == delivered \cup {req[r].fresh : r \in Req}
Known == {t \in Held : Calm(familyOf[t])}

\* Requests under way for calm sessions concern different ones, but for a logout
\* everywhere, which no refresh of its user overlaps ...
Apart ==
    \A r, q \in Req : r # q /\ Calm(req[r].family) =>
      /\ req[q].family = req[r].family => req[r].family = NoFamily
      /\ req[q].op = "logoutAll" /\ req[r].op = "refresh"
           => req[q].user # Owner[req[r].family]

\* ... so that the token a refresh found is there until it is replaced.
Guarded ==
    \A r \in Req : req[r].op = "refresh" /\ At(r, "store") /\ Calm(req[r].family)
      => req[r].token \in live

\* A stored token that is known can be found from its user, and neither set on
\* the way expires before it; what DeleteTokenFamily has read is all there is to
\* revoke; and a family that is about to be cleaned is empty.
Index ==
    /\ \A t \in Known : Stored(t) =>
         LET f == familyOf[t]
             u == Owner[f]
         IN /\ t \in members[f] /\ t <= membersUntil[f]
            /\ f \in families[u] /\ t <= familiesUntil[u]
    /\ \A r \in Req : At(r, "revoke") =>
         \A t \in Known : Stored(t) /\ familyOf[t] = req[r].family => t \in req[r].seen
    /\ \A r \in Req : At(r, "clean") /\ Calm(req[r].family) => Members(req[r].family) = {}

\* Requests stay apart when one of them ends or goes on.
LEMMA ApartKept ==
    ASSUME NEW r \in Req, Apart, \A q \in Req \ {r} : req'[q] = req[q],
           \/ req'[r].op = "none" /\ req'[r].family = NoFamily
           \/ /\ req'[r].op = req[r].op /\ req'[r].family = req[r].family
              /\ req'[r].user = req[r].user
    PROVE  Apart'
BY DEF Apart, Calm

\* Requests begin apart.
LEMMA ApartBegin ==
    ASSUME Kept, Apart, Guarded, NEW r \in Req,
           \/ RegisterBegin(r) \/ LoginBegin(r) \/ RefreshBegin(r)
           \/ LogoutBegin(r) \/ LogoutAllBegin(r)
    PROVE  Apart' /\ Guarded'
<1>0. /\ req \in [Req -> Request] /\ account \subseteq User /\ delivered \subseteq 1..issued
      /\ 1..issued \subseteq Token /\ Owned
  BY DEF Kept, TypeOK
<1>k. live' = live
  BY DEF RegisterBegin, LoginBegin, RefreshBegin, LogoutBegin, LogoutAllBegin, keys
<1>1. ASSUME RegisterBegin(r) \/ LoginBegin(r) PROVE Apart' /\ Guarded'
  <2>1. PICK f \in Family, op \in {"register", "login"}, stage \in {"insert", "store"} :
          Unused(f) /\ Start(r, op, stage, Owner[f], f, 0)
    BY <1>1 DEF RegisterBegin, LoginBegin
  <2>2. /\ \A q \in Req \ {r} : req'[q] = req[q]
        /\ req'[r].op = op /\ req'[r].family = f
    BY <1>0, <2>1, StartType
  <2>3. \A q \in Req : req[q].family # f
    BY <2>1 DEF Unused
  <2> QED
    BY <1>k, <2>2, <2>3 DEF Apart, Guarded, Calm, At
<1>2. ASSUME RefreshBegin(r) \/ LogoutBegin(r) PROVE Apart' /\ Guarded'
  <2>1. PICK t \in delivered, op \in {"refresh", "logout"}, stage \in {"store", "members", "find"} :
          /\ Alone(familyOf[t])
          /\ op = "refresh" /\ stage = "store" => t \in live
          /\ Start(r, op, stage, Owner[familyOf[t]], familyOf[t], t)
    BY <1>2 DEF RefreshBegin, LogoutBegin, Stored
  <2>2. t \in Token /\ familyOf[t] \in Family /\ Owner[familyOf[t]] \in User
    BY <1>0 DEF Owned
  <2>3. /\ \A q \in Req \ {r} : req'[q] = req[q]
        /\ req'[r].stage = stage /\ req'[r].op = op /\ req'[r].family = familyOf[t]
        /\ req'[r].token = t
    BY <1>0, <2>1, <2>2, StartType
  <2>4. Calm(familyOf[t]) =>
          \A q \in Req : /\ req[q].family # familyOf[t]
                         /\ req[q].op = "logoutAll" => req[q].user # Owner[familyOf[t]]
    BY <2>1 DEF Alone, Calm
  <2> QED
    BY <1>k, <2>1, <2>3, <2>4 DEF Apart, Guarded, Calm, At
<1>3. ASSUME LogoutAllBegin(r) PROVE Apart' /\ Guarded'
  <2>1. PICK u \in account : Undisturbed(u) /\ Start(r, "logoutAll", "script", u, NoFamily, 0)
    BY <1>3 DEF LogoutAllBegin
  <2>2. /\ \A q \in Req \ {r} : req'[q] = req[q]
        /\ req'[r].stage = "script" /\ req'[r].op = "logoutAll" /\ req'[r].family = NoFamily
        /\ req'[r].user = u
    BY <1>0, <2>1, StartType
  <2> QED
    BY <1>k, <2>1, <2>2 DEF Apart, Guarded, Calm, At, Undisturbed
<1> QED
  BY <1>1, <1>2, <1>3

\* And they stay so.
LEMMA ApartStep ==
    ASSUME Kept, Apart, Guarded, NEW r \in Req, Proceed(r) \/ Stop(r)
    PROVE  Apart' /\ Guarded'
<1>0. req \in [Req -> Request] /\ Shape(r)
  BY DEF Kept, TypeOK
<1>1. /\ \A q \in Req \ {r} : req'[q] = req[q]
      /\ \/ req'[r].op = "none" /\ req'[r].family = NoFamily
         \/ /\ req'[r].op = req[r].op /\ req'[r].family = req[r].family
            /\ req'[r].user = req[r].user
            /\ req[r].op = "refresh" => req'[r].stage # "store"
  <2>1. ASSUME NEW answer \in Reply, Answer(r, answer)
        PROVE  (\A q \in Req \ {r} : req'[q] = req[q]) /\ req'[r].op = "none" /\ req'[r].family = NoFamily
    BY <1>0, <2>1, AnswerType
  <2>2. ASSUME NEW ok \in BOOLEAN, Concluded(r, ok)
        PROVE  (\A q \in Req \ {r} : req'[q] = req[q]) /\ req'[r].op = "none" /\ req'[r].family = NoFamily
    BY <1>0, <2>2, ConcludedType
  <2>3. ASSUME NEW stage \in Stage, Goto(r, stage)
        PROVE  /\ \A q \in Req \ {r} : req'[q] = req[q]
               /\ req'[r].op = req[r].op /\ req'[r].family = req[r].family
               /\ req'[r].user = req[r].user /\ req'[r].stage = stage
    BY <1>0, <2>3, GotoType
  <2>4. CASE CreateUser(r)
    <3>1. req[r].op = "register"
      BY <1>0, <2>4 DEF CreateUser, At, Shape
    <3> QED
      BY <2>1, <2>3, <2>4, <3>1 DEF CreateUser, Reply
  <2>5. CASE FamilyMembers(r)
    BY <1>0, <2>5 DEF FamilyMembers, Request
  <2>6. CASE FindToken(r) \/ CountFamily(r)
    BY <2>2, <2>3, <2>6 DEF FindToken, CountFamily
  <2>7. CASE Stop(r)
    BY <2>1, <2>7 DEF Stop, Reply
  <2>8. CASE StoreRefreshToken(r)
    BY <2>8, StoreEffect
  <2>9. CASE Deletes(r)
    <3>1. CASE Goto(r, "count")
      BY <2>3, <3>1
    <3> QED
      BY <2>9, <3>1, DeleteEffect
  <2> QED
    BY <2>4, <2>5, <2>6, <2>7, <2>8, <2>9 DEF Proceed, Deletes
<1>2. Apart'
  BY <1>1, ApartKept
\* The token of another refresh is not this request's to take away.
<1>3. ASSUME NEW q \in Req \ {r}, req[q].op = "refresh", At(q, "store"), Calm(req[q].family)
      PROVE  req[q].token \in live'
  <2>1. /\ req[q].token \in live /\ familyOf[req[q].token] = req[q].family
        /\ req[q].family \in Family
    BY <1>3 DEF Guarded, Kept, Shape
  <2>2. CASE Deletes(r)
    <3>1. familyOf[req[q].token] # req[r].family
      BY <1>3, <2>1 DEF Apart
    <3>2. ~(req[r].op = "logoutAll" /\ Owner[familyOf[req[q].token]] = req[r].user)
      BY <1>3, <2>1 DEF Apart
    <3> QED
      BY <2>1, <2>2, <3>1, <3>2, DeleteEffect
  <2>3. CASE StoreRefreshToken(r)
    BY <2>1, <2>3, StoreEffect
  <2>4. CASE CreateUser(r) \/ FamilyMembers(r) \/ FindToken(r) \/ CountFamily(r) \/ Stop(r)
    BY <2>1, <2>4 DEF CreateUser, FamilyMembers, FindToken, CountFamily, Stop, keys
  <2> QED
    BY <2>2, <2>3, <2>4 DEF Proceed, Deletes
<1>4. Guarded'
  BY <1>1, <1>3 DEF Guarded, At, Calm
<1> QED
  BY <1>2, <1>4

\* No refresh of a calm session loses the token it is about to replace.
THEOREM GuardedAlways == Spec => [](Apart /\ Guarded)
<1>1. Init => Apart /\ Guarded
  BY DEF Init, Idle, Apart, Guarded, At
<1>2. Kept /\ (Apart /\ Guarded) /\ [Next]_authVars => (Apart /\ Guarded)'
  <2> SUFFICES ASSUME Kept, Apart, Guarded, [Next]_authVars PROVE Apart' /\ Guarded'
    OBVIOUS
  <2>1. CASE UNCHANGED authVars
    BY <2>1 DEF authVars, keys, Apart, Guarded, At, Calm
  <2>2. CASE Age \/ Sweep
    BY <2>2 DEF Age, Sweep, keys, Apart, Guarded, At, Calm
  <2> QED
    BY <2>1, <2>2, ApartBegin, ApartStep DEF Next
<1> QED
  BY <1>1, <1>2, KeptAlways, PTL DEF Spec

\* Such a token is found.
LEMMA Found ==
    ASSUME Kept, Index, NEW t \in Known, Stored(t)
    PROVE  /\ t \in 1..issued /\ familyOf[t] \in Family /\ Owner[familyOf[t]] \in User
           /\ t \in Members(familyOf[t]) /\ Members(familyOf[t]) = members[familyOf[t]]
           /\ familyOf[t] \in Families(Owner[familyOf[t]])
           /\ Families(Owner[familyOf[t]]) = families[Owner[familyOf[t]]]
<1>1. t \in 1..issued /\ t > swept /\ familyOf[t] \in Family /\ swept \in Nat
  BY DEF Stored, Kept, Owned, TypeOK
<1>2. /\ membersUntil[familyOf[t]] \in Nat
      /\ Owner[familyOf[t]] \in User /\ familiesUntil[Owner[familyOf[t]]] \in Nat
  BY <1>1 DEF Kept, TypeOK
<1>3. /\ t \in members[familyOf[t]] /\ t <= membersUntil[familyOf[t]]
      /\ familyOf[t] \in families[Owner[familyOf[t]]]
      /\ t <= familiesUntil[Owner[familyOf[t]]]
  BY DEF Index
<1>4. membersUntil[familyOf[t]] > swept /\ familiesUntil[Owner[familyOf[t]]] > swept
  BY <1>1, <1>2, <1>3
<1> QED
  BY <1>1, <1>2, <1>3, <1>4 DEF Members, Families

\* Indexed follows.
LEMMA IndexIndexes == Kept /\ Index => Indexed
<1> SUFFICES ASSUME Kept, Index, NEW t \in delivered, Stored(t), Calm(familyOf[t])
             PROVE  /\ t \in Members(familyOf[t])
                    /\ familyOf[t] \in Families(Owner[familyOf[t]])
  BY DEF Indexed
<1>1. t \in Known
  BY DEF Known, Held
<1> QED
  BY <1>1, Found

\* A step that leaves Redis alone.
LEMMA IndexQuiet ==
    ASSUME Kept, Index, NEW r \in Req, UNCHANGED <<issued, clock, familyOf, keys>>,
           \A q \in Req \ {r} : req'[q] = req[q],
           req'[r].fresh \in {0, req[r].fresh},
           delivered' \subseteq delivered \cup {req[r].fresh},
           req'[r].stage = "revoke" => req'[r].seen = Members(req'[r].family),
           req'[r].stage = "clean" /\ Calm(req'[r].family) => Members(req'[r].family) = {}
    PROVE  Index'
<1>0. ~Stored(0)
  <2>1. live \subseteq 1..issued /\ 0 \notin 1..issued
    BY DEF Kept, TypeOK
  <2> QED
    BY <2>1 DEF Stored
<1>1. \A t \in Known' : t \in Known \/ t = 0
  <2>1. ASSUME NEW q \in Req PROVE req'[q].fresh \in Held \cup {0}
    BY DEF Held
  <2>2. delivered' \subseteq Held
    BY DEF Held
  <2> QED
    BY <2>1, <2>2 DEF Known, Held, Calm
<1>2. UNCHANGED <<issued, expired, swept, familyOf, live, members, membersUntil,
                  families, familiesUntil>>
  BY DEF clock, keys
<1>3. /\ \A t : Stored(t)' <=> Stored(t)
      /\ \A f : Members(f)' = Members(f)
  BY <1>2 DEF Stored, Members
<1>4. \A t \in Known' : Stored(t)' => t \in Known /\ Stored(t)
  BY <1>0, <1>1, <1>3
<1>5. ASSUME At(r, "revoke")', NEW t \in Known', Stored(t)', familyOf[t] = req'[r].family
      PROVE  t \in req'[r].seen
  BY <1>4, <1>5, Found DEF At
<1>6. \A t \in Known : Stored(t) =>
         LET f == familyOf[t]
             u == Owner[f]
         IN /\ t \in members[f] /\ t <= membersUntil[f]
            /\ f \in families[u] /\ t <= familiesUntil[u]
  BY DEF Index
<1>7. \A q \in Req \ {r} :
        /\ At(q, "revoke")' =>
             \A t \in Known' : Stored(t)' /\ familyOf'[t] = req'[q].family => t \in req'[q].seen
        /\ At(q, "clean")' /\ Calm(req[q].family) => Members(req[q].family)' = {}
  BY <1>2, <1>3, <1>4 DEF Index, At
<1>8. At(r, "clean")' /\ Calm(req'[r].family) => Members(req[r].family)' = {}
  BY <1>3 DEF At
<1> QED
  BY <1>2, <1>3, <1>4, <1>5, <1>6, <1>7, <1>8 DEF Index, Calm

\* The steps that do.
LEMMA IndexGoOn ==
    ASSUME Kept, Index, NEW r \in Req,
           \/ RegisterBegin(r) \/ LoginBegin(r) \/ RefreshBegin(r) \/ LogoutBegin(r)
           \/ LogoutAllBegin(r) \/ CreateUser(r) \/ FamilyMembers(r) \/ FindToken(r)
           \/ CountFamily(r) \/ Stop(r)
    PROVE  Index'
<1>0. /\ req \in [Req -> Request] /\ req[r] \in Request /\ Shape(r)
      /\ account \subseteq User /\ delivered \subseteq 1..issued /\ 1..issued \subseteq Token
      /\ \A t \in 1..issued : familyOf[t] \in Family
  BY DEF Kept, TypeOK, Owned
<1>1. UNCHANGED <<issued, clock, familyOf, keys>>
  BY DEF RegisterBegin, LoginBegin, RefreshBegin, LogoutBegin, LogoutAllBegin,
         CreateUser, FamilyMembers, FindToken, CountFamily, Stop
\* Either it begins ...
<1>a. ASSUME NEW op \in Operation, NEW stage \in {"insert", "store", "members", "find", "script"},
             NEW u \in User, NEW f \in Family \cup {NoFamily}, NEW t \in Token \cup {0},
             Start(r, op, stage, u, f, t), delivered' = delivered
      PROVE  Index'
  <2>1. stage \in Stage /\ u \in User \cup {NoUser}
    OBVIOUS
  <2>2. /\ \A q \in Req \ {r} : req'[q] = req[q]
        /\ req'[r].fresh = 0 /\ req'[r].stage \notin {"revoke", "clean"}
    BY <1>0, <1>a, <2>1, StartType
  <2> QED
    BY <1>1, <1>a, <2>2, IndexQuiet
\* ... or it ends ...
<1>b. ASSUME NEW answer \in Reply, Answer(r, answer), delivered' = delivered
      PROVE  Index'
  <2>1. /\ \A q \in Req \ {r} : req'[q] = req[q]
        /\ req'[r].fresh = 0 /\ req'[r].stage = "idle"
    BY <1>0, <1>b, AnswerType
  <2> QED
    BY <1>1, <1>b, <2>1, IndexQuiet
<1>c. ASSUME NEW ok \in BOOLEAN, Concluded(r, ok)
      PROVE  Index'
  <2>1. /\ \A q \in Req \ {r} : req'[q] = req[q]
        /\ req'[r].fresh = 0 /\ req'[r].stage = "idle"
        /\ delivered' \subseteq delivered \cup {req[r].fresh}
    BY <1>0, <1>c, ConcludedType
  <2> QED
    BY <1>1, <2>1, IndexQuiet
\* ... or it goes on.
<1>d. ASSUME NEW stage \in {"store", "remove", "clean"}, Goto(r, stage), delivered' = delivered,
             stage = "clean" => Members(req[r].family) = {}
      PROVE  Index'
  <2>1. stage \in Stage
    OBVIOUS
  <2>2. /\ \A q \in Req \ {r} : req'[q] = req[q]
        /\ req'[r].fresh = req[r].fresh /\ req'[r].stage = stage
        /\ req'[r].family = req[r].family
    BY <1>0, <1>d, <2>1, GotoType
  <2> QED
    BY <1>1, <1>d, <2>2, IndexQuiet
<1>2. CASE RegisterBegin(r) \/ LoginBegin(r)
  <2>1. PICK f \in Family, op \in {"register", "login"}, stage \in {"insert", "store"} :
          Start(r, op, stage, Owner[f], f, 0) /\ delivered' = delivered
    BY <1>2 DEF RegisterBegin, LoginBegin
  <2> QED
    BY <1>a, <2>1
<1>3. CASE RefreshBegin(r) \/ LogoutBegin(r)
  <2>1. PICK t \in delivered, op \in {"refresh", "logout"}, stage \in {"store", "members", "find"} :
          Start(r, op, stage, Owner[familyOf[t]], familyOf[t], t) /\ delivered' = delivered
    BY <1>3 DEF RefreshBegin, LogoutBegin
  <2>2. t \in Token /\ familyOf[t] \in Family /\ Owner[familyOf[t]] \in User
    BY <1>0
  <2> QED
    BY <1>a, <2>1, <2>2
<1>4. CASE LogoutAllBegin(r)
  BY <1>0, <1>4, <1>a DEF LogoutAllBegin
<1>5. CASE CreateUser(r)
  BY <1>5, <1>b, <1>d DEF CreateUser, Reply
<1>6. CASE FamilyMembers(r)
  <2>1. /\ delivered' = delivered
        /\ req' = [req EXCEPT ![r].stage = "revoke", ![r].seen = Members(req[r].family)]
    BY <1>6 DEF FamilyMembers
  <2>2. /\ \A q \in Req \ {r} : req'[q] = req[q]
        /\ req'[r].fresh = req[r].fresh /\ req'[r].stage = "revoke"
        /\ req'[r].family = req[r].family /\ req'[r].seen = Members(req[r].family)
    BY <1>0, <2>1 DEF Request
  <2> QED
    BY <1>1, <2>1, <2>2, IndexQuiet
<1>7. CASE FindToken(r) \/ CountFamily(r)
  <2>1. \/ \E ok \in BOOLEAN : Concluded(r, ok)
        \/ Goto(r, "remove") /\ delivered' = delivered
        \/ Goto(r, "clean") /\ delivered' = delivered /\ Members(req[r].family) = {}
    BY <1>7 DEF FindToken, CountFamily
  <2> QED
    BY <1>c, <1>d, <2>1
<1>8. CASE Stop(r)
  <2>1. (Answer(r, "failed") \/ Answer(r, "lost")) /\ delivered' = delivered
    BY <1>8 DEF Stop
  <2> QED
    BY <1>b, <2>1 DEF Reply
<1> QED
  BY <1>2, <1>3, <1>4, <1>5, <1>6, <1>7, <1>8

\* Time takes tokens away, and a set no earlier than the tokens in it.
LEMMA IndexTime ==
    ASSUME Kept, Index, Age \/ Sweep
    PROVE  Index'
<1>1. /\ UNCHANGED <<account, issued, familyOf, live, members,
                     membersUntil, families, familiesUntil, delivered, req>>
      /\ swept \in Nat /\ swept' \in Nat /\ swept <= swept'
  BY DEF Age, Sweep, keys, Kept, TypeOK
<1>2. Known' = Known /\ \A t \in Known : Stored(t)' => Stored(t)
  <2>1. Known' = Known
    BY <1>1 DEF Known, Held, Calm
  <2>2. live \subseteq Nat
    BY DEF Kept, TypeOK
  <2>3. ASSUME NEW t, t \in live, t > swept' PROVE t > swept
    BY <1>1, <2>2, <2>3
  <2> QED
    BY <1>1, <2>1, <2>3 DEF Stored
<1>3. ASSUME NEW r \in Req, At(r, "clean"), Calm(req[r].family) PROVE Members(req[r].family)' = {}
  <2>1. Members(req[r].family) = {} /\ membersUntil[req[r].family] \in Nat
    <3>1. req[r].family \in Family
      BY <1>3 DEF Kept, Shape, At, Deleting
    <3>2. Members(req[r].family) = {}
      BY <1>3 DEF Index
    <3> QED
      BY <3>1, <3>2 DEF Kept, TypeOK
  <2> QED
    BY <1>1, <2>1 DEF Members
<1>4. \A r \in Req : At(r, "clean")' /\ Calm(req'[r].family) => Members(req[r].family)' = {}
  BY <1>1, <1>3 DEF At, Members
<1> QED
  BY <1>1, <1>2, <1>4 DEF Index, At, Calm

\* A token stored can be found, and nothing else is lost sight of.
LEMMA IndexStore ==
    ASSUME Kept, Apart, Index, NEW r \in Req, StoreRefreshToken(r)
    PROVE  Index'
<1>f. PICK f \in Family : f = req[r].family
  BY StoreEffect
<1> DEFINE t == issued + 1
           u == Owner[f]
<1>0. /\ Shape(r) /\ Apart /\ issued \in Nat /\ issued' = t /\ t \in Token /\ u \in User
      /\ live \subseteq 1..issued /\ live' = live \cup {t} /\ swept' = swept
      /\ familyOf' = [familyOf EXCEPT ![t] = f]
      /\ familyOf \in [Token -> Family \cup {NoFamily}]
      /\ \A q \in Req \ {r} : req'[q] = req[q]
      /\ delivered \subseteq 1..issued
  BY <1>f, StoreEffect DEF Kept, TypeOK, clock
<1>1. /\ t \notin 1..issued /\ familyOf'[t] = f
      /\ \A i \in 1..issued : i \in Token /\ i # t /\ familyOf'[i] = familyOf[i]
  BY <1>0 DEF Kept, TypeOK
<1>2. \A x \in Known' : x \in Known \/ x \in {0, t}
  <2>1. \A q \in Req : req'[q].fresh \in Held \cup {0, t}
    BY StoreEffect DEF Held
  <2>2. delivered' \subseteq Held \cup {t}
    BY StoreEffect DEF Held
  <2>3. \A x \in Held : x \in 1..issued \cup {0}
    BY <1>0 DEF Held, Kept, Shape
  <2> SUFFICES ASSUME NEW x \in Known', x \notin {0, t} PROVE x \in Known
    OBVIOUS
  <2>4. x \in Held
    <3>1. x \in Held'
      BY DEF Known
    <3> QED
      BY <2>1, <2>2, <3>1 DEF Held
  <2>5. familyOf'[x] = familyOf[x]
    BY <1>1, <2>3, <2>4
  <2> QED
    BY <2>4, <2>5 DEF Known, Calm
<1>3. ASSUME NEW x \in Known', Stored(x)'
      PROVE  \/ x \in Known /\ Stored(x) /\ x \in 1..issued /\ familyOf'[x] = familyOf[x]
             \/ x = t /\ (delivered' # delivered \/ req'[r].stage = "find")
  <2>0. x \in live' /\ x > swept'
    BY <1>3 DEF Stored
  <2>1. x \in 1..issued \cup {t} /\ x # 0 /\ x > swept
    BY <1>0, <2>0
  <2>2. CASE x \in 1..issued
    <3>1. x # t /\ x \in Known
      BY <1>1, <1>2, <2>1, <2>2
    <3>2. Stored(x)
      BY <1>0, <1>3, <2>1, <3>1 DEF Stored
    <3> QED
      BY <1>1, <2>2, <3>1, <3>2
  <2>3. CASE x = t /\ delivered' = delivered /\ req'[r].stage # "find"
    <3>1. x \notin delivered'
      BY <1>0, <1>1, <2>3
    <3>2. ASSUME NEW q \in Req PROVE req'[q].fresh # t
      <4>1. req[q].fresh \in 1..issued \cup {0}
        BY DEF Kept, Shape
      <4>2. q = r => req'[q].fresh = 0
        BY <2>3, StoreEffect
      <4> QED
        BY <1>0, <1>1, <4>1, <4>2
    <3> QED
      BY <1>3, <2>3, <3>1, <3>2 DEF Known, Held
  <2> QED
    BY <2>1, <2>2, <2>3
<1>4. ASSUME NEW x \in Known', Stored(x)'
      PROVE  LET g == familyOf'[x]
                 v == Owner[g]
             IN /\ x \in members'[g] /\ x <= membersUntil'[g]
                /\ g \in families'[v] /\ x <= familiesUntil'[v]
  <2>1. CASE x \in Known /\ Stored(x) /\ x \in 1..issued /\ familyOf'[x] = familyOf[x]
    <3> DEFINE g == familyOf[x]
               v == Owner[g]
    <3>1. /\ g \in Family /\ v \in User
          /\ x \in members[g] /\ Members(g) = members[g] /\ x <= membersUntil[g]
          /\ g \in families[v] /\ Families(v) = families[v] /\ x <= familiesUntil[v]
      BY <2>1, Found DEF Index
    <3>2. /\ membersUntil[g] \in Nat /\ membersUntil'[g] \in Nat
          /\ familiesUntil[v] \in Nat /\ familiesUntil'[v] \in Nat /\ x \in Nat
      <4>1. membersUntil' \in [Family -> 0..issued'] /\ familiesUntil' \in [User -> 0..issued']
        BY StoreEffect
      <4> QED
        BY <1>0, <2>1, <3>1, <4>1 DEF Kept, TypeOK
    <3>3. membersUntil'[g] >= membersUntil[g] /\ familiesUntil'[v] >= familiesUntil[v]
      BY <3>1, StoreEffect
    <3>4. members[g] \subseteq members'[g]
      BY <1>f, <3>1, StoreEffect
    <3>5. families[v] \subseteq families'[v]
      BY <1>f, <3>1, StoreEffect
    <3> QED
      BY <2>1, <3>1, <3>2, <3>3, <3>4, <3>5
  <2>2. CASE x = t /\ (delivered' # delivered \/ req'[r].stage = "find")
    <3>1. /\ members'[f] = Members(f) \cup {t} /\ membersUntil'[f] = t
          /\ families'[u] = Families(u) \cup {f} /\ familiesUntil'[u] = t
      BY <1>f, <2>2, StoreEffect
    <3> QED
      BY <1>0, <1>1, <2>2, <3>1
  <2> QED
    BY <1>3, <1>4, <2>1, <2>2
<1>5. ASSUME NEW q \in Req, At(q, "revoke")', NEW x \in Known', Stored(x)',
             familyOf'[x] = req'[q].family
      PROVE  x \in req'[q].seen
  <2>1. q # r
    BY <1>5, StoreEffect DEF At
  <2>2. req'[q] = req[q] /\ (Calm(f) => req[q].family # f)
    BY <1>0, <1>f, <2>1 DEF Apart
  <2>3. x # t
    BY <1>1, <1>5, <2>2 DEF Known, Calm
  <2> QED
    BY <1>3, <1>5, <2>2, <2>3 DEF Index, At
<1>6. ASSUME NEW q \in Req, At(q, "clean")', Calm(req'[q].family)
      PROVE  Members(req[q].family)' = {}
  <2>1. q # r
    BY <1>6, StoreEffect DEF At
  <2>2. At(q, "clean") /\ req[q].family # f /\ Calm(req[q].family)
    BY <1>0, <1>6, <1>f, <2>1 DEF Apart, At, Calm
  <2>3. req[q].family \in Family /\ Members(req[q].family) = {}
    BY <2>2 DEF Index, Kept, Shape, At, Deleting
  <2>4. req'[q] = req[q] /\ members'[req[q].family] = members[req[q].family]
        /\ membersUntil'[req[q].family] = membersUntil[req[q].family]
    BY <1>f, <2>1, <2>2, <2>3, StoreEffect
  <2> QED
    BY <1>0, <2>3, <2>4 DEF Members
<1> QED
  BY <1>4, <1>5, <1>6 DEF Index, Calm

\* A deletion that leaves the way to every known token it does not delete.
LEMMA IndexKept ==
    ASSUME Kept, Index, NEW r \in Req, Deletes(r),
           \A x \in Known : Stored(x) /\ x \in live' =>
             /\ x \in members'[familyOf[x]]
             /\ familyOf[x] \in families'[Owner[familyOf[x]]]
    PROVE  Index'
<1>0. /\ UNCHANGED <<issued, expired, swept, familyOf, membersUntil, familiesUntil>>
      /\ live' \subseteq live /\ \A f \in Family : members'[f] \subseteq members[f]
      /\ \A q \in Req \ {r} : req'[q] = req[q]
  BY DeleteEffect DEF clock
<1>1. /\ req'[r].stage \in {"idle", "count"} /\ req'[r].fresh \in {0, req[r].fresh}
      /\ delivered' \subseteq delivered \cup {req[r].fresh}
  <2>1. "count" \in Stage /\ req \in [Req -> Request]
    BY DEF Kept, TypeOK
  <2>2. CASE Goto(r, "count") /\ delivered' = delivered
    BY <2>1, <2>2, GotoType
  <2> QED
    BY <2>2, DeleteEffect
<1>2. \A x \in Known' : Stored(x)' => x \in Known /\ Stored(x) /\ x \in live'
  <2>1. \A x \in Known' : x \in Known \/ x = 0
    <3>1. \A q \in Req : req'[q].fresh \in Held \cup {0}
      BY <1>0, <1>1 DEF Held
    <3>2. delivered' \subseteq Held
      BY <1>1 DEF Held
    <3> QED
      BY <1>0, <3>1, <3>2 DEF Known, Held, Calm
  <2>2. 0 \notin live
    BY DEF Kept, TypeOK
  <2> QED
    BY <1>0, <2>1, <2>2 DEF Stored
<1>3. ASSUME NEW x \in Known', Stored(x)'
      PROVE  LET g == familyOf'[x]
                 v == Owner[g]
             IN /\ x \in members'[g] /\ x <= membersUntil'[g]
                /\ g \in families'[v] /\ x <= familiesUntil'[v]
  BY <1>0, <1>2, <1>3 DEF Index
<1>4. ASSUME NEW q \in Req, At(q, "revoke")', NEW x \in Known', Stored(x)',
             familyOf'[x] = req'[q].family
      PROVE  x \in req'[q].seen
  BY <1>0, <1>1, <1>2, <1>4 DEF Index, At
<1>5. ASSUME NEW q \in Req, At(q, "clean")', Calm(req'[q].family)
      PROVE  Members(req[q].family)' = {}
  <2>1. q # r /\ At(q, "clean") /\ req'[q] = req[q] /\ Calm(req[q].family)
    BY <1>0, <1>1, <1>5 DEF At, Calm
  <2>2. req[q].family \in Family /\ Members(req[q].family) = {}
    BY <2>1 DEF Index, Kept, Shape, At, Deleting
  <2> QED
    BY <1>0, <2>1, <2>2 DEF Members
<1> QED
  BY <1>3, <1>4, <1>5 DEF Index, Calm

\* All deletions do.
LEMMA IndexDelete ==
    ASSUME Kept, Index, NEW r \in Req, Deletes(r)
    PROVE  Index'
<1> DEFINE f == req[r].family
           u == Owner[f]
<1>0. /\ Shape(r) /\ Owned /\ members \in [Family -> SUBSET (1..issued)]
      /\ families \in [User -> SUBSET Family]
  BY DEF Kept, TypeOK
<1> SUFFICES ASSUME NEW x \in Known, Stored(x), x \in live'
             PROVE  /\ x \in members'[familyOf[x]]
                    /\ familyOf[x] \in families'[Owner[familyOf[x]]]
  BY IndexKept
<1> DEFINE g == familyOf[x]
           v == Owner[g]
<1>1. /\ g \in Family /\ v \in User
      /\ x \in members[g] /\ Members(g) = members[g]
      /\ g \in families[v] /\ Families(v) = families[v]
  BY Found
<1> HIDE DEF g, v
<1>2. CASE DeleteTokenFamily(r)
  <2>1. PICK gone \in SUBSET req[r].seen, done \in 0..2, ok \in BOOLEAN :
          /\ done > 0 => gone = req[r].seen
          /\ live' = live \ gone
          /\ members' = IF done > 0 THEN [members EXCEPT ![f] = {}] ELSE members
          /\ families' = IF done > 1 THEN [families EXCEPT ![u] = Families(u) \ {f}]
                         ELSE families
    BY <1>2 DEF DeleteTokenFamily
  <2>2. done > 0 => g # f
    <3>1. g = f => x \in req[r].seen
      BY <1>2 DEF DeleteTokenFamily, Index, g
    <3> QED
      BY <2>1, <3>1
  <2> QED
    BY <1>0, <1>1, <2>1, <2>2 DEF g, v
<1>3. CASE RemoveToken(r)
  <2>1. PICK done \in 0..2 :
          /\ live' = IF done > 0 THEN live \ {req[r].token} ELSE live
          /\ members' = IF done > 1 THEN [members EXCEPT ![f] = Members(f) \ {req[r].token}]
                        ELSE members
          /\ families' = families
    BY <1>3 DEF RemoveToken
  <2>2. done > 0 => x # req[r].token
    BY <2>1
  <2>3. x \in members'[g]
    BY <1>0, <1>1, <2>1, <2>2
  <2> QED
    BY <1>1, <2>1, <2>3 DEF g, v
<1>4. CASE CleanFamily(r)
  <2>1. PICK done \in 0..2 :
          /\ members' = IF done > 0 THEN [members EXCEPT ![f] = {}] ELSE members
          /\ families' = IF done > 1 THEN [families EXCEPT ![u] = Families(u) \ {f}]
                         ELSE families
    BY <1>4 DEF CleanFamily
  <2>2. Calm(f) => Members(f) = {}
    BY <1>4 DEF CleanFamily, Index
  <2>3. g # f
    BY <1>1, <2>2 DEF Known, g
  <2> QED
    BY <1>0, <1>1, <2>1, <2>3 DEF g, v
<1>5. CASE DeleteAllUserTokens(r)
  <2> DEFINE w == req[r].user
             all == Families(w)
  <2>1. /\ live' = live \ UNION {Members(h) : h \in all}
        /\ members' = [h \in Family |-> IF h \in all THEN {} ELSE members[h]]
        /\ families' = [families EXCEPT ![w] = {}]
    BY <1>5 DEF DeleteAllUserTokens
  <2>2. w \in User
    BY <1>0, <1>5 DEF DeleteAllUserTokens, At, Shape
  <2>3. v # w
    BY <1>1, <2>1
  <2>4. g \notin all
    BY <1>0, <2>2, <2>3 DEF Families, Owned, v
  <2> QED
    BY <1>0, <1>1, <2>1, <2>2, <2>3, <2>4 DEF g, v
<1> QED
  BY <1>2, <1>3, <1>4, <1>5 DEF Deletes

\* Nothing is stored at first.
LEMMA IndexInit == Init => Index
<1> SUFFICES ASSUME Init PROVE Index
  OBVIOUS
<1>1. \A t : ~Stored(t)
  BY DEF Init, Stored
<1>2. \A r \in Req : ~At(r, "revoke") /\ ~At(r, "clean")
  BY DEF Init, Idle, At
<1> QED
  BY <1>1, <1>2 DEF Index

\* Every command keeps live tokens known from their user.
LEMMA IndexStep == Kept /\ Apart /\ Index /\ [Next]_authVars => Index'
<1> SUFFICES ASSUME Kept, Apart, Index, [Next]_authVars PROVE Index'
  OBVIOUS
<1>1. CASE UNCHANGED authVars
  <2>1. UNCHANGED <<issued, swept, familyOf, live, members,
                    membersUntil, families, familiesUntil, delivered, req>>
    BY <1>1 DEF authVars, clock, keys
  <2> QED
    BY <2>1 DEF Index, Known, Held, Calm, Stored, Members, At
<1>2. CASE Next
  BY <1>2, IndexGoOn, IndexTime, IndexStore, IndexDelete DEF Next, Proceed, Deletes
<1> QED
  BY <1>1, <1>2

\* Known tokens can always be found.
THEOREM IndexAlways == Spec => []Index
BY IndexInit, IndexStep, KeptAlways, GuardedAlways, PTL DEF Spec

\* A token a client holds of a calm session can be found from its user until it
\* expires, whatever fails and however the user's other sessions race
\* (StoreRefreshToken, DeleteRefreshToken).
THEOREM TokensAreIndexed == Spec => []Indexed
BY IndexIndexes, IndexAlways, KeptAlways, PTL

-----------------------------------------------------------------------------
(* What a caller may conclude from the answer to a request.                *)

\* A step of request q leaves the other requests alone.
LEMMA Frame ==
    ASSUME Kept, NEW q \in Req, NEW r \in Req, r # q,
           \/ RegisterBegin(q) \/ LoginBegin(q) \/ RefreshBegin(q)
           \/ LogoutBegin(q) \/ LogoutAllBegin(q) \/ Proceed(q) \/ Stop(q)
    PROVE  req'[r] = req[r]
<1>0. req \in [Req -> Request]
  BY DEF Kept, TypeOK
<1>1. CASE \/ RegisterBegin(q) \/ LoginBegin(q) \/ RefreshBegin(q)
           \/ LogoutBegin(q) \/ LogoutAllBegin(q)
  <2>0. ASSUME NEW op, NEW stage, NEW u, NEW f, NEW t, Start(q, op, stage, u, f, t)
        PROVE  req'[r] = req[r]
    BY <1>0, <2>0 DEF Start
  <2>1. CASE RegisterBegin(q)
    BY <2>0, <2>1 DEF RegisterBegin
  <2>2. CASE LoginBegin(q)
    BY <2>0, <2>2 DEF LoginBegin
  <2>3. CASE RefreshBegin(q)
    BY <2>0, <2>3 DEF RefreshBegin
  <2>4. CASE LogoutBegin(q)
    BY <2>0, <2>4 DEF LogoutBegin
  <2>5. CASE LogoutAllBegin(q)
    BY <2>0, <2>5 DEF LogoutAllBegin
  <2> QED
    BY <1>1, <2>1, <2>2, <2>3, <2>4, <2>5
<1>2. CASE CreateUser(q) \/ FamilyMembers(q) \/ FindToken(q) \/ CountFamily(q) \/ Stop(q)
  BY <1>0, <1>2 DEF CreateUser, FamilyMembers, FindToken, CountFamily, Stop, Goto, Answer,
                    Concluded, Deliver
<1>3. CASE StoreRefreshToken(q)
  BY <1>3, StoreEffect
<1>4. CASE Deletes(q)
  BY <1>4, DeleteEffect
<1> QED
  BY <1>1, <1>2, <1>3, <1>4 DEF Proceed, Deletes

\* Only its own steps answer a request.
LEMMA OwnAnswer ==
    ASSUME Kept, Next, NEW r \in Req, req[r].op # "none", req'[r].op = "none"
    PROVE  Proceed(r) \/ Stop(r)
<1>1. ~Age /\ ~Sweep
  BY DEF Age, Sweep
<1>2. ~At(r, "idle")
  BY DEF Kept, Shape, At
<1>3. ASSUME \/ RegisterBegin(r) \/ LoginBegin(r) \/ RefreshBegin(r)
             \/ LogoutBegin(r) \/ LogoutAllBegin(r)
      PROVE  FALSE
  BY <1>2, <1>3 DEF RegisterBegin, LoginBegin, RefreshBegin, LogoutBegin, LogoutAllBegin, Start
<1>4. ASSUME NEW q \in Req,
             \/ RegisterBegin(q) \/ LoginBegin(q) \/ RefreshBegin(q)
             \/ LogoutBegin(q) \/ LogoutAllBegin(q) \/ Proceed(q) \/ Stop(q)
      PROVE  q = r
  <2>1. req'[r] # req[r]
    OBVIOUS
  <2> QED
    BY <1>4, <2>1, Frame
<1>5. Next => \/ \E q \in Req : \/ RegisterBegin(q) \/ LoginBegin(q) \/ RefreshBegin(q)
                                \/ LogoutBegin(q) \/ LogoutAllBegin(q)
                                \/ Proceed(q) \/ Stop(q)
              \/ Age \/ Sweep
  BY DEF Next
<1>6. PICK q \in Req : \/ RegisterBegin(q) \/ LoginBegin(q) \/ RefreshBegin(q)
                       \/ LogoutBegin(q) \/ LogoutAllBegin(q)
                       \/ Proceed(q) \/ Stop(q)
  BY <1>1, <1>5
<1>7. q = r
  BY <1>4, <1>6
<1> QED
  BY <1>3, <1>6, <1>7

\* The stages tell which step it was.
LEMMA AnswerStep ==
    ASSUME Kept, NEW r \in Req, Proceed(r) \/ Stop(r)
    PROVE  /\ Answers(r, "logoutAll", "ok") => DeleteAllUserTokens(r)
           /\ Answers(r, "refresh", "revoked") => DeleteTokenFamily(r)
           /\ Answers(r, "refresh", "failed") =>
                (StoreRefreshToken(r) \/ Stop(r)) /\ At(r, "store")
<1>0. Shape(r) /\ req \in [Req -> Request]
  BY DEF Kept, TypeOK
<1>1. CASE Stop(r)
  <2>1. PICK answer \in {"failed", "lost"} :
          /\ Answer(r, answer)
          /\ answer = "failed" => At(r, "store") \/ At(r, "insert")
    BY <1>1 DEF Stop
  <2>2. req'[r].answer = answer
    BY <1>0, <2>1, AnswerType DEF Reply
  <2> QED
    BY <1>0, <1>1, <2>1, <2>2 DEF Answers, Shape, At
<1>2. CASE StoreRefreshToken(r)
  <2>1. req[r].stage = "store" /\ req[r].op \in {"register", "login", "refresh"}
    BY <1>2, StoreEffect
  <2>2. req'[r].op = "none" /\ req[r].op = "refresh" => req'[r].answer = "failed"
    BY <1>2, StoreEffect
  <2> QED
    BY <1>2, <2>1, <2>2 DEF Answers, At
<1>3. CASE DeleteTokenFamily(r)
  <2>1. PICK answer \in {"revoked", "unrevoked"} : Answer(r, answer)
    BY <1>3 DEF DeleteTokenFamily
  <2>2. req'[r].answer = answer
    BY <1>0, <2>1, AnswerType DEF Reply
  <2> QED
    BY <1>3, <2>1, <2>2 DEF Answers
<1>4. CASE FindToken(r) \/ RemoveToken(r) \/ CountFamily(r) \/ CleanFamily(r)
  <2>1. req[r].stage \in Deleting /\ req[r].op \in {"refresh", "logout"}
    BY <1>0, <1>4 DEF FindToken, RemoveToken, CountFamily, CleanFamily, At, Shape, Deleting
  <2>2. \/ \E ok \in BOOLEAN : Concluded(r, ok)
        \/ Goto(r, "remove") \/ Goto(r, "count") \/ Goto(r, "clean")
    BY <1>4 DEF FindToken, RemoveToken, CountFamily, CleanFamily
  <2>3. ASSUME NEW stage \in {"remove", "count", "clean"}, Goto(r, stage)
        PROVE  req'[r].op = req[r].op
    BY <1>0, <2>3, GotoType
  <2>4. ASSUME NEW ok \in BOOLEAN, Concluded(r, ok), req[r].op = "refresh"
        PROVE  req'[r].answer = "ok"
    BY <1>0, <2>4, ConcludedType
  <2> QED
    BY <2>1, <2>2, <2>3, <2>4 DEF Answers
<1>5. CASE CreateUser(r)
  BY <1>0, <1>5 DEF CreateUser, At, Shape, Answers
<1>6. CASE FamilyMembers(r)
  <2>1. req'[r].op = req[r].op /\ req[r].op = "refresh"
    BY <1>0, <1>6 DEF FamilyMembers, At, Shape, Request
  <2> QED
    BY <2>1 DEF Answers
<1>7. CASE DeleteAllUserTokens(r)
  BY <1>0, <1>7 DEF DeleteAllUserTokens, At, Shape, Answers
<1> QED
  BY <1>1, <1>2, <1>3, <1>4, <1>5, <1>6, <1>7 DEF Proceed

\* A step that answers is one of the request's own.
LEMMA Answering ==
    ASSUME Kept, [Next]_authVars, NEW r \in Req, NEW op \in Operation, NEW answer,
           Answers(r, op, answer)
    PROVE  Proceed(r) \/ Stop(r)
<1>1. req[r].op # "none" /\ req'[r].op = "none"
  BY DEF Answers
<1>2. Next
  BY <1>1 DEF authVars
<1> QED
  BY <1>1, <1>2, OwnAnswer

\* The script of logout everywhere finds all a client holds.
LEMMA ScriptReachesAll ==
    ASSUME Kept, Index, [Next]_authVars, NEW r \in Req, Answers(r, "logoutAll", "ok"),
           NEW t \in delivered', Owner[familyOf[t]] = req[r].user, Calm(familyOf[t])
    PROVE  ~Stored(t)'
<1> SUFFICES ASSUME Stored(t)' PROVE FALSE
  OBVIOUS
<1>1. DeleteAllUserTokens(r)
  BY Answering, AnswerStep
<1>2. /\ delivered' = delivered /\ swept' = swept
      /\ live' = live \ UNION {Members(f) : f \in Families(req[r].user)}
  BY <1>1 DEF DeleteAllUserTokens, clock
<1>3. t \in Known /\ Stored(t)
  BY <1>2 DEF Known, Held, Stored
<1>4. /\ t \in Members(familyOf[t])
      /\ familyOf[t] \in Families(req[r].user)
  BY <1>3, Found
<1>5. t \notin live'
  BY <1>2, <1>4
<1> QED
  BY <1>5 DEF Stored

\* When logout everywhere is answered, no token of the user is accepted any more
\* in any session no refresh of which it overlapped: all that clients hold are
\* found through the two sets the script goes through (DeleteAllUserTokens).
THEOREM LogoutAllIsComplete == Spec => LogoutAllReachesAll
<1>1. Kept /\ Index /\ [Next]_authVars =>
        [\A r \in Req : Answers(r, "logoutAll", "ok") =>
           \A t \in delivered' :
             Owner[familyOf[t]] = req[r].user /\ Calm(familyOf[t]) => ~Stored(t)']_authVars
  BY ScriptReachesAll
<1> QED
  BY <1>1, KeptAlways, IndexAlways, PTL DEF Spec, LogoutAllReachesAll

\* A second use of a rotated token ends a calm session, once DeleteTokenFamily has
\* succeeded: what it has read of the family is all that clients hold of it.
THEOREM ReuseIsAnswered == Spec => ReuseEndsSession
<1>1. Kept /\ Index /\ [Next]_authVars =>
        [\A r \in Req : Answers(r, "refresh", "revoked") /\ Calm(req[r].family) =>
           \A t \in delivered' : familyOf[t] = req[r].family => ~Stored(t)']_authVars
  <2> SUFFICES ASSUME Kept, Index, [Next]_authVars, NEW r \in Req,
                      Answers(r, "refresh", "revoked"), Calm(req[r].family),
                      NEW t \in delivered',
                      familyOf[t] = req[r].family, Stored(t)'
               PROVE  FALSE
    OBVIOUS
  <2>1. DeleteTokenFamily(r)
    BY Answering, AnswerStep
  <2>2. PICK gone \in SUBSET req[r].seen, done \in 0..2, ok \in BOOLEAN :
          /\ Ran(done, 2, ok)
          /\ done > 0 => gone = req[r].seen
          /\ live' = live \ gone
          /\ Answer(r, IF ok THEN "revoked" ELSE "unrevoked")
    BY <2>1 DEF DeleteTokenFamily
  <2>3. ok
    <3>1. req \in [Req -> Request]
      BY DEF Kept, TypeOK
    <3>2. (IF ok THEN "revoked" ELSE "unrevoked") \in Reply
      BY DEF Reply
    <3>3. req'[r].answer = IF ok THEN "revoked" ELSE "unrevoked"
      BY <2>2, <3>1, <3>2, AnswerType
    <3> QED
      BY <3>3 DEF Answers
  <2>4. live' = live \ req[r].seen
    BY <2>2, <2>3 DEF Ran
  <2>5. delivered' = delivered /\ swept' = swept /\ At(r, "revoke")
    BY <2>1 DEF DeleteTokenFamily, clock
  <2>6. t \in Known /\ Stored(t)
    BY <2>4, <2>5 DEF Known, Held, Stored
  <2>7. t \in req[r].seen
    BY <2>5, <2>6 DEF Index
  <2> QED
    BY <2>4, <2>7 DEF Stored
<1> QED
  BY <1>1, KeptAlways, IndexAlways, PTL DEF Spec, ReuseEndsSession

\* A refresh of a calm session that failed has not cost the client its session:
\* the token it presented is there until its successor is stored (refresh_token.go).
THEOREM FailureIsHarmless == Spec => FailedRefreshKeepsToken
<1>1. Kept /\ Guarded /\ [Next]_authVars =>
        [\A r \in Req : Answers(r, "refresh", "failed") /\ Calm(req[r].family) =>
           req[r].token \in live']_authVars
  <2> SUFFICES ASSUME Kept, Guarded, [Next]_authVars, NEW r \in Req,
                      Answers(r, "refresh", "failed"), Calm(req[r].family)
               PROVE  req[r].token \in live'
    OBVIOUS
  <2>1. (StoreRefreshToken(r) \/ Stop(r)) /\ At(r, "store")
    BY Answering, AnswerStep
  <2>2. req[r].token \in live
    BY <2>1 DEF Guarded, Answers
  <2>3. live \subseteq live'
    BY <2>1, StoreEffect DEF Stop, keys
  <2> QED
    BY <2>2, <2>3
<1> QED
  BY <1>1, KeptAlways, GuardedAlways, PTL DEF Spec, FailedRefreshKeepsToken

=============================================================================
