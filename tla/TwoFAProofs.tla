---------------------------- MODULE TwoFAProofs ----------------------------
(***************************************************************************)
(* Theorems about TwoFA for every number of nodes, secrets, requests and    *)
(* backup codes, with any set of faulty nodes and any stage at which a      *)
(* request may be cut short.                                                *)
(***************************************************************************)
EXTENDS TwoFA, FiniteSetTheorems, TLAPS

-----------------------------------------------------------------------------
(* What a request looks like after each way of moving it on.               *)

\* The record of a request slot that serves nothing is well formed.
LEMMA IdleType == Idle \in Request
BY TwoFAAssumption DEF Idle, Request, NoCalls, Stage, Status, Credential, Answer

\* Moving a request to another stage keeps it well formed.
LEMMA GotoType ==
  ASSUME req \in [Req -> Request], NEW r \in Req, NEW stage \in Stage, Goto(r, stage)
  PROVE  req' \in [Req -> Request]
BY ZenonT(60) DEF Goto, Request, NoCalls

\* Answering a request leaves an idle, well-formed slot.
LEMMA FinishType ==
  ASSUME req \in [Req -> Request], NEW r \in Req, NEW answer \in Answer,
         Finish(r, answer)
  PROVE  req' \in [Req -> Request]
BY IdleType DEF Finish, Request

\* So does noting the answer of one call.
LEMMA ReturnedType ==
  ASSUME req \in [Req -> Request], NEW r \in Req, NEW n \in Node, NEW ok \in BOOLEAN,
         Returned(r, n, ok)
  PROVE  req' \in [Req -> Request]
BY SMTT(30) DEF Returned, Request

\* And starting one.
LEMMA StartType ==
  ASSUME req \in [Req -> Request], record \in Status, NEW r \in Req,
         NEW op \in {"setup", "verify", "disable"},
         NEW stage \in Stage, NEW code \in Credential, Start(r, op, stage, code)
  PROVE  req' \in [Req -> Request]
BY IdleType DEF Start, Request

-----------------------------------------------------------------------------
(* Type correctness.                                                       *)

\* The outcome of a call to a node keeps the tables and the network well formed.
LEMMA ExecuteType ==
  ASSUME MpcTypeOK, NEW c \in Call, Execute(c)
  PROVE  shares' \in [Node -> Secret \cup {NoSecret}]
BY DEF MpcTypeOK, Execute, CreateShare, DeleteSharesByUserID, Call

\* A call its caller gave up on keeps the tables and the network well formed.
LEMMA AbandonedType ==
  ASSUME MpcTypeOK, NEW c \in Call, Abandoned(c), UNCHANGED calm
  PROVE  MpcTypeOK'
<1>1. CASE UNCHANGED <<shares, late>>
  BY <1>1 DEF MpcTypeOK
<1>2. CASE Execute(c) /\ UNCHANGED late
  BY <1>2, ExecuteType DEF MpcTypeOK
<1>3. CASE late' = late \cup {c} /\ UNCHANGED shares
  BY <1>3 DEF MpcTypeOK
<1> QED
  BY <1>1, <1>2, <1>3 DEF Abandoned

\* So does a store, whatever its caller is told.
LEMMA StoreShareType ==
  ASSUME MpcTypeOK, NEW n \in Node, NEW s \in Secret \cup {NoSecret},
         NEW ok \in BOOLEAN, NEW mayFail, StoreShare(n, s, ok, mayFail),
         UNCHANGED calm
  PROVE  MpcTypeOK'
<1> DEFINE c == [kind |-> "store", node |-> n, secret |-> s]
<1>1. c \in Call
  BY DEF Call
<1>2. CASE CreateShare(n, s) /\ UNCHANGED late
  BY <1>2 DEF CreateShare, MpcTypeOK
<1>3. CASE UNCHANGED <<shares, late>>
  BY <1>3 DEF MpcTypeOK
<1>4. CASE Abandoned(c)
  BY <1>1, <1>4, AbandonedType
<1> QED
  BY <1>2, <1>3, <1>4 DEF StoreShare

\* And a delete.
LEMMA DeleteShareType ==
  ASSUME MpcTypeOK, NEW n \in Node, NEW ok \in BOOLEAN, NEW mayFail,
         DeleteShare(n, ok, mayFail), UNCHANGED calm
  PROVE  MpcTypeOK'
<1> DEFINE c == [kind |-> "delete", node |-> n, secret |-> NoSecret]
<1>1. c \in Call
  BY DEF Call
<1>2. CASE DeleteSharesByUserID(n) /\ UNCHANGED late
  BY <1>2 DEF DeleteSharesByUserID, MpcTypeOK
<1>3. CASE Abandoned(c)
  BY <1>1, <1>3, AbandonedType
<1> QED
  BY <1>2, <1>3 DEF DeleteShare

\* The network changes the tables of the nodes, and nothing else.
LEMMA NetworkType ==
  ASSUME MpcTypeOK, Network
  PROVE  MpcTypeOK'
<1>1. ASSUME NEW c \in late, Execute(c), late' = late \ {c}, UNCHANGED calm
      PROVE  MpcTypeOK'
  <2>1. c \in Call
    BY <1>1 DEF MpcTypeOK
  <2> QED
    BY <1>1, <2>1, ExecuteType DEF MpcTypeOK
<1>2. CASE LoseLate
  BY <1>2 DEF LoseLate, MpcTypeOK
<1>3. CASE CalmDown
  BY <1>3 DEF CalmDown, MpcTypeOK
<1> QED
  BY <1>1, <1>2, <1>3 DEF Network, DeliverLate

\* Code that a user may present, and the code of a secret being issued.
LEMMA CredentialType ==
  /\ \A s \in Secret : <<s, 0>> \in Credential
  /\ delivered \subseteq Secret => Presentable \subseteq Credential
BY TwoFAAssumption DEF Credential, Presentable

\* TypeOK is not inductive: that backup codes are rows of a secret rests on a
\* Setup in progress having one.
SetupStage == {"store", "undo", "create", "codes", "reply"}
SetupHasSecret ==
  \A r \in Req : req[r].stage \in SetupStage => req[r].code[1] \in Secret
TypeInv == TypeOK /\ SetupHasSecret

\* A request that is in Setup after a step was in Setup before, with the same
\* secret, or has just begun.
LEMMA SetupHasSecretStep == TypeInv /\ [Next]_vars => SetupHasSecret'
<1> SUFFICES ASSUME TypeInv, [Next]_vars, NEW q \in Req, req'[q].stage \in SetupStage
             PROVE  req'[q].code[1] \in Secret
  BY DEF SetupHasSecret
<1> USE DEF SetupStage
<1>req. req \in [Req -> Request] /\ (req[q].stage \in SetupStage => req[q].code[1] \in Secret)
  BY DEF TypeInv, TypeOK, SetupHasSecret
<1>1. CASE req'[q] = req[q]
  BY <1>1, <1>req
<1>2. ASSUME NEW r \in Req, NEW stage \in Stage, Goto(r, stage),
             stage \in SetupStage => req[r].stage \in SetupStage
      PROVE  req'[q].code[1] \in Secret
  BY <1>2, <1>req DEF Goto, Request
<1>3. ASSUME NEW r \in Req, NEW a \in Answer, Finish(r, a)
      PROVE  req'[q].code[1] \in Secret
  BY <1>3, <1>req DEF Finish, Request, Idle
<1>4. ASSUME NEW r \in Req, NEW n \in Node, NEW ok \in BOOLEAN, Returned(r, n, ok)
      PROVE  req'[q].code[1] \in Secret
  BY <1>4, <1>req DEF Returned, Request
<1>5. ASSUME NEW r \in Req, SetupBegin(r) PROVE req'[q].code[1] \in Secret
  BY <1>5, <1>req DEF SetupBegin, Start, Idle, Request
<1>6. ASSUME NEW r \in Req, VerifyBegin(r) \/ DisableBegin(r)
      PROVE  req'[q].code[1] \in Secret
  <2>1. \E op \in {"verify", "disable"}, stage \in {"fetch", "lookup"}, c \in Presentable :
          Start(r, op, stage, c)
    BY <1>6 DEF VerifyBegin, DisableBegin, BeginProof
  <2> QED
    BY <2>1, <1>req DEF Start, Idle, Request
<1>7. ASSUME NEW r \in Req, NEW n \in Node, FetchShare(r, n)
      PROVE  req'[q].code[1] \in Secret
  BY <1>7, <1>req DEF FetchShare, Request
<1>8. ASSUME NEW r \in Req, NEW n \in Node,
             SetupStore(r, n) \/ SetupUndo(r, n) \/ FetchFails(r, n) \/ EraseShare(r, n)
      PROVE  req'[q].code[1] \in Secret
  <2>1. (\E ok \in BOOLEAN : Returned(r, n, ok)) \/ Finish(r, "failed")
    BY <1>8 DEF SetupStore, SetupUndo, FetchFails, EraseShare
  <2> QED
    BY <2>1, <1>3, <1>4 DEF Answer
<1>9. ASSUME NEW r \in Req,
             \/ SetupStored(r) \/ CreateTwoFARecord(r) \/ StoreBatchBackupCodes(r)
             \/ SetupReply(r) \/ InsufficientShares(r) \/ CheckOTP(r)
             \/ LookupBackupCode(r) \/ MarkBackupCodeUsed(r) \/ EnableTwoFA(r)
             \/ SharesErased(r) \/ DeleteBackupCodes(r) \/ DeleteTwoFARecord(r)
             \/ Stop(r)
      PROVE  req'[q].code[1] \in Secret
  <2>1. \/ \E a \in Answer : Finish(r, a)
        \/ \E stage \in Stage : /\ Goto(r, stage)
                                /\ stage \in SetupStage => req[r].stage \in SetupStage
    BY <1>9 DEF SetupStored, CreateTwoFARecord, StoreBatchBackupCodes, SetupReply,
                InsufficientShares, CheckOTP, LookupBackupCode, MarkBackupCodeUsed,
                EnableTwoFA, SharesErased, DeleteBackupCodes, DeleteTwoFARecord, Stop,
                Accepted, At, Stage, Answer
  <2> QED
    BY <2>1, <1>2, <1>3
<1>10. CASE UNCHANGED vars \/ Network
  BY <1>10, <1>1 DEF vars, Network
<1> QED
  BY <1>5, <1>6, <1>7, <1>8, <1>9, <1>10 DEF Next, Proceed

\* Every step of the orchestrator or of the network keeps all state well formed.
LEMMA TypeStep == TypeInv /\ [Next]_vars => TypeOK'
<1> SUFFICES ASSUME TypeInv, [Next]_vars PROVE TypeOK'
  OBVIOUS
<1> USE DEF TypeInv
<1>mpc. MpcTypeOK /\ req \in [Req -> Request] /\ record \in Status
        /\ unused \subseteq BackupCode /\ delivered \subseteq Secret
  BY DEF TypeOK
<1>0. CASE UNCHANGED vars
  BY <1>0 DEF vars, TypeOK, MpcTypeOK
<1>1. ASSUME NEW r \in Req, SetupBegin(r) PROVE TypeOK'
  <2> PICK s \in Secret \ InUse : /\ Start(r, "setup", "store", <<s, 0>>)
                                 /\ delivered' = delivered \ {s}
    BY <1>1 DEF SetupBegin
  <2>1. req' \in [Req -> Request]
    BY <1>mpc, StartType, CredentialType DEF Stage
  <2> QED
    BY <1>1, <1>mpc, <2>1 DEF SetupBegin, TypeOK, MpcTypeOK, mpcVars
<1>2. ASSUME NEW r \in Req, VerifyBegin(r) \/ DisableBegin(r) PROVE TypeOK'
  <2>1. PICK op \in {"verify", "disable"} : BeginProof(r, op)
    BY <1>2 DEF VerifyBegin, DisableBegin
  <2> PICK c \in Presentable :
             Start(r, op, IF c[2] = 0 THEN "fetch" ELSE "lookup", c)
    BY <2>1 DEF BeginProof
  <2>2. req' \in [Req -> Request]
    BY <1>mpc, StartType, CredentialType DEF Stage
  <2> QED
    BY <2>1, <2>2, <1>mpc DEF BeginProof, TypeOK, MpcTypeOK, mpcVars
<1>3. ASSUME NEW r \in Req, NEW n \in Node, SetupStore(r, n) PROVE TypeOK'
  <2> PICK ok \in BOOLEAN :
        /\ StoreShare(n, req[r].code[1], ok, Faulty(n) \/ Cancelled(r))
        /\ Returned(r, n, ok)
    BY <1>3 DEF SetupStore
  <2>1. req[r].code[1] \in Secret \cup {NoSecret}
    BY <1>mpc DEF Request, Credential
  <2>2. MpcTypeOK'
    BY <1>3, <1>mpc, <2>1, StoreShareType DEF SetupStore
  <2>3. req' \in [Req -> Request]
    BY <1>mpc, ReturnedType
  <2> QED
    BY <1>3, <1>mpc, <2>2, <2>3 DEF SetupStore, TypeOK
<1>4. ASSUME NEW r \in Req, NEW n \in Node, SetupUndo(r, n) PROVE TypeOK'
  <2> PICK ok \in BOOLEAN :
        /\ DeleteShare(n, ok, Faulty(n))
        /\ IF n = NodeCount THEN Finish(r, "failed") ELSE Returned(r, n, ok)
    BY <1>4 DEF SetupUndo
  <2>1. MpcTypeOK'
    BY <1>4, <1>mpc, DeleteShareType DEF SetupUndo
  <2>2. req' \in [Req -> Request]
    BY <1>mpc, ReturnedType, FinishType DEF Answer
  <2> QED
    BY <1>4, <1>mpc, <2>1, <2>2 DEF SetupUndo, TypeOK
<1>5. ASSUME NEW r \in Req, NEW n \in Node, EraseShare(r, n) PROVE TypeOK'
  <2> PICK ok \in BOOLEAN :
        /\ DeleteShare(n, ok, Faulty(n) \/ Cancelled(r))
        /\ Returned(r, n, ok)
    BY <1>5 DEF EraseShare
  <2>1. MpcTypeOK'
    BY <1>5, <1>mpc, DeleteShareType DEF EraseShare
  <2>2. req' \in [Req -> Request]
    BY <1>mpc, ReturnedType
  <2> QED
    BY <1>5, <1>mpc, <2>1, <2>2 DEF EraseShare, TypeOK
<1>6. ASSUME NEW r \in Req, NEW n \in Node, FetchShare(r, n) \/ FetchFails(r, n)
      PROVE  TypeOK'
  <2>1. CASE FetchFails(r, n)
    BY <2>1, <1>mpc, ReturnedType DEF FetchFails, TypeOK, MpcTypeOK, mpcVars
  <2>2. ASSUME NEW s \in Secret,
               req' = [req EXCEPT ![r].got = @ \cup {s}, ![r].call[n] = "ok"]
        PROVE  req' \in [Req -> Request]
    <3>1. req[r] \in Request /\ req[r].got \cup {s} \in SUBSET Secret
      BY <1>mpc DEF Request
    <3>2. [req[r].call EXCEPT ![n] = "ok"] \in [Node -> {"todo", "ok", "err"}]
      BY <3>1 DEF Request
    <3>3. [req[r] EXCEPT !.got = req[r].got \cup {s}, !.call = [req[r].call EXCEPT ![n] = "ok"]]
            \in Request
      BY <3>1, <3>2 DEF Request
    <3> QED
      BY <2>2, <3>3, <1>mpc
  <2>3. CASE FetchShare(r, n)
    BY <2>2, <2>3, <1>mpc DEF FetchShare, TypeOK, MpcTypeOK, mpcVars
  <2> QED
    BY <1>6, <2>1, <2>3
<1>7. ASSUME NEW r \in Req,
             \/ SetupStored(r) \/ InsufficientShares(r) \/ CheckOTP(r)
             \/ LookupBackupCode(r) \/ SharesErased(r) \/ Stop(r)
      PROVE  TypeOK'
  <2>1. (\E stage \in Stage : Goto(r, stage)) \/ (\E a \in Answer : Finish(r, a))
    BY <1>7 DEF SetupStored, InsufficientShares, CheckOTP, LookupBackupCode,
                SharesErased, Stop, Accepted, Stage, Answer
  <2>2. req' \in [Req -> Request]
    BY <2>1, <1>mpc, GotoType, FinishType
  <2>3. UNCHANGED <<mpcVars, record, unused, delivered>>
    BY <1>7 DEF SetupStored, InsufficientShares, CheckOTP, LookupBackupCode,
                SharesErased, Stop
  <2> QED
    BY <2>2, <2>3, <1>mpc DEF TypeOK, MpcTypeOK, mpcVars
<1>8. ASSUME NEW r \in Req,
             \/ CreateTwoFARecord(r) \/ StoreBatchBackupCodes(r) \/ SetupReply(r)
             \/ MarkBackupCodeUsed(r) \/ EnableTwoFA(r) \/ DeleteBackupCodes(r)
             \/ DeleteTwoFARecord(r)
      PROVE  TypeOK'
  <2>1. (\E stage \in Stage : Goto(r, stage)) \/ (\E a \in Answer : Finish(r, a))
    BY <1>8 DEF CreateTwoFARecord, StoreBatchBackupCodes, SetupReply,
                MarkBackupCodeUsed, EnableTwoFA, DeleteBackupCodes,
                DeleteTwoFARecord, Accepted, Stage, Answer
  <2>2. req' \in [Req -> Request]
    BY <2>1, <1>mpc, GotoType, FinishType
  <2>3. UNCHANGED mpcVars
    BY <1>8 DEF CreateTwoFARecord, StoreBatchBackupCodes, SetupReply,
                MarkBackupCodeUsed, EnableTwoFA, DeleteBackupCodes, DeleteTwoFARecord
  <2>4. record' \in Status
    BY <1>8, <1>mpc DEF CreateTwoFARecord, StoreBatchBackupCodes, SetupReply,
                MarkBackupCodeUsed, EnableTwoFA, DeleteBackupCodes,
                DeleteTwoFARecord, Status
  <2>5. req[r].stage \in SetupStage => req[r].code[1] \in Secret
    BY DEF SetupHasSecret
  <2>6. unused' \subseteq BackupCode /\ delivered' \subseteq Secret
    BY <1>8, <1>mpc, <2>5 DEF CreateTwoFARecord, StoreBatchBackupCodes, SetupReply,
                MarkBackupCodeUsed, EnableTwoFA, DeleteBackupCodes,
                DeleteTwoFARecord, BackupCode, SetupStage, At
  <2> QED
    BY <2>2, <2>3, <2>4, <2>6, <1>mpc DEF TypeOK, MpcTypeOK, mpcVars
<1>9. CASE Network
  BY <1>9, <1>mpc, NetworkType DEF Network, TypeOK
<1> QED
  BY <1>0, <1>1, <1>2, <1>3, <1>4, <1>5, <1>6, <1>7, <1>8, <1>9 DEF Next, Proceed

\* Typing holds of the initial state.
LEMMA TypeInit == Init => TypeInv
<1> SUFFICES ASSUME Init PROVE TypeInv
  OBVIOUS
<1>1. req \in [Req -> Request] /\ \A r \in Req : req[r].stage = "idle"
  BY IdleType DEF Init, Idle
<1>2. MpcTypeOK
  BY MpcAssumption DEF Init, MpcInit, MpcTypeOK
<1> QED
  BY <1>1, <1>2 DEF Init, TypeInv, TypeOK, SetupHasSecret, SetupStage, Status

\* A Setup always holds the secret it issues, and all state stays well formed.
THEOREM TypeInvariant == Spec => []TypeInv
<1>1. TypeInv /\ [Next]_vars => TypeInv'
  BY TypeStep, SetupHasSecretStep DEF TypeInv
<1> QED
  BY <1>1, TypeInit, PTL DEF Spec

\* All state is well formed in every reachable state, whatever fails.
THEOREM TypeCorrectness == Spec => []TypeOK
<1>1. TypeInv => TypeOK
  BY DEF TypeInv
<1> QED
  BY <1>1, TypeInvariant, PTL

-----------------------------------------------------------------------------
(* How the ways of moving a request on change its fields.                  *)

Others(r) == \A q \in Req : q # r => req'[q] = req[q]

\* Goto changes the stage of one request and forgets its calls.
LEMMA GotoEffect ==
  ASSUME req \in [Req -> Request], NEW r \in Req, NEW stage, Goto(r, stage)
  PROVE  /\ Others(r)
         /\ req'[r].stage = stage /\ req'[r].op = req[r].op
         /\ req'[r].seen = req[r].seen /\ req'[r].code = req[r].code
         /\ \A n \in Node : req'[r].call[n] = "todo"
BY DEF Goto, Others, Request, NoCalls

\* Finish empties one slot.
LEMMA FinishEffect ==
  ASSUME req \in [Req -> Request], NEW r \in Req, NEW answer, Finish(r, answer)
  PROVE  /\ Others(r)
         /\ req'[r].stage = "idle" /\ req'[r].op = "none" /\ req'[r].answer = answer
BY DEF Finish, Others, Request, Idle

\* Returned records the answer of one node to one request.
LEMMA ReturnedEffect ==
  ASSUME req \in [Req -> Request], NEW r \in Req, NEW n \in Node, NEW ok \in BOOLEAN,
         Returned(r, n, ok)
  PROVE  /\ Others(r)
         /\ req'[r].stage = req[r].stage /\ req'[r].op = req[r].op
         /\ req'[r].seen = req[r].seen /\ req'[r].code = req[r].code
         /\ req'[r].got = req[r].got
         /\ req'[r].call[n] = IF ok THEN "ok" ELSE "err"
         /\ \A m \in Node : m # n => req'[r].call[m] = req[r].call[m]
BY DEF Returned, Others, Request

\* FetchShare records a share and the answer of its node.
LEMMA FetchEffect ==
  ASSUME req \in [Req -> Request], NEW r \in Req, NEW n \in Node, FetchShare(r, n)
  PROVE  /\ Others(r)
         /\ req'[r].stage = "fetch" /\ req'[r].op = req[r].op
         /\ req'[r].seen = req[r].seen /\ req'[r].code = req[r].code
         /\ shares[n] \in Secret /\ req'[r].got = req[r].got \cup {shares[n]}
         /\ req'[r].call[n] = "ok"
         /\ \A m \in Node : m # n => req'[r].call[m] = req[r].call[m]
BY DEF FetchShare, Fetching, RetrieveShare, At, Others, Request

\* Start fills one slot and reads the record.
LEMMA StartEffect ==
  ASSUME req \in [Req -> Request], NEW r \in Req, NEW op, NEW stage, NEW code,
         Start(r, op, stage, code)
  PROVE  /\ Others(r)
         /\ req'[r].stage = stage /\ req'[r].op = op
         /\ req'[r].seen = record /\ req'[r].code = code
         /\ req'[r].got = {}
         /\ \A n \in Node : req'[r].call[n] = "todo"
BY DEF Start, Others, Idle, NoCalls

-----------------------------------------------------------------------------
(* A Setup that overlaps nothing.  MayStart keeps it alone when "setup" is  *)
(* not among the operations that may overlap.                              *)

OpOfStage ==
  \A r \in Req :
    /\ req[r].stage = "idle" <=> req[r].op = "none"
    /\ req[r].stage \in SetupStage <=> req[r].op = "setup"
    /\ req[r].stage \in {"erase", "dropCodes", "dropRecord"} => req[r].op = "disable"

SetupAlone ==
  \A r, q \in Req : r # q /\ req[r].op = "setup" => req[q].op = "none"

AloneInv == TypeInv /\ OpOfStage /\ SetupAlone

\* Every step keeps stage and operation of a request in agreement.
LEMMA OpOfStageStep == TypeInv /\ OpOfStage /\ [Next]_vars => OpOfStage'
<1> SUFFICES ASSUME TypeInv, OpOfStage, [Next]_vars PROVE OpOfStage'
  OBVIOUS
<1>req. req \in [Req -> Request]
  BY DEF TypeInv, TypeOK
<1> USE DEF SetupStage
<1>1. ASSUME NEW r \in Req, SetupBegin(r) PROVE OpOfStage'
  <2>1. \E s \in Secret : Start(r, "setup", "store", <<s, 0>>)
    BY <1>1 DEF SetupBegin
  <2> QED
    BY <2>1, <1>req, StartEffect DEF OpOfStage, Others
<1>2. ASSUME NEW r \in Req, VerifyBegin(r) \/ DisableBegin(r) PROVE OpOfStage'
  <2>1. \E op \in {"verify", "disable"}, stage \in {"fetch", "lookup"}, c \in Presentable :
          Start(r, op, stage, c)
    BY <1>2 DEF VerifyBegin, DisableBegin, BeginProof
  <2> QED
    BY <2>1, <1>req, StartEffect DEF OpOfStage, Others
<1>3. ASSUME NEW r \in Req, NEW n \in Node,
             SetupStore(r, n) \/ SetupUndo(r, n) \/ FetchFails(r, n) \/ EraseShare(r, n)
      PROVE  OpOfStage'
  <2>1. (\E ok \in BOOLEAN : Returned(r, n, ok)) \/ Finish(r, "failed")
    BY <1>3 DEF SetupStore, SetupUndo, FetchFails, EraseShare
  <2> QED
    BY <2>1, <1>req, ReturnedEffect, FinishEffect DEF OpOfStage, Others
<1>4. ASSUME NEW r \in Req, NEW n \in Node, FetchShare(r, n) PROVE OpOfStage'
  <2>1. req[r].stage = "fetch"
    BY <1>4 DEF FetchShare, Fetching, At
  <2> QED
    BY <1>4, <2>1, <1>req, FetchEffect DEF OpOfStage, Others
<1>5. ASSUME NEW r \in Req,
             \/ SetupStored(r) \/ CreateTwoFARecord(r) \/ StoreBatchBackupCodes(r)
             \/ SetupReply(r) \/ InsufficientShares(r) \/ CheckOTP(r)
             \/ LookupBackupCode(r) \/ MarkBackupCodeUsed(r) \/ EnableTwoFA(r)
             \/ SharesErased(r) \/ DeleteBackupCodes(r) \/ DeleteTwoFARecord(r)
             \/ Stop(r)
      PROVE  OpOfStage'
  <2>1. \/ \E a \in Answer : Finish(r, a)
        \/ \E stage \in Stage \ {"idle"} :
             /\ Goto(r, stage)
             /\ req[r].stage # "idle"
             /\ stage \in SetupStage <=> req[r].stage \in SetupStage
             /\ stage \in {"erase", "dropCodes", "dropRecord"} => req[r].op = "disable"
    BY <1>5, <1>req DEF SetupStored, CreateTwoFARecord, StoreBatchBackupCodes, SetupReply,
                InsufficientShares, CheckOTP, LookupBackupCode, MarkBackupCodeUsed,
                EnableTwoFA, SharesErased, DeleteBackupCodes, DeleteTwoFARecord, Stop,
                Accepted, At, Stage, Answer, OpOfStage
  <2> QED
    BY <2>1, <1>req, GotoEffect, FinishEffect DEF OpOfStage, Others
<1>6. CASE UNCHANGED vars \/ Network
  BY <1>6 DEF vars, Network, OpOfStage
<1> QED
  BY <1>1, <1>2, <1>3, <1>4, <1>5, <1>6 DEF Next, Proceed

\* Only a start changes which operation a slot serves, and a start looks at all
\* the other slots.
LEMMA SetupAloneStep ==
  ASSUME "setup" \notin Concurrent
  PROVE  AloneInv /\ [Next]_vars => SetupAlone'
<1> SUFFICES ASSUME AloneInv, [Next]_vars PROVE SetupAlone'
  OBVIOUS
<1>req. req \in [Req -> Request] /\ OpOfStage /\ SetupAlone
  BY DEF AloneInv, TypeInv, TypeOK
<1>1. ASSUME NEW r \in Req, SetupBegin(r) PROVE SetupAlone'
  <2>1. \E s \in Secret : Start(r, "setup", "store", <<s, 0>>)
    BY <1>1 DEF SetupBegin
  <2>2. \A q \in Req : q # r => req[q].op = "none"
    BY <1>1, <1>req DEF SetupBegin, MayStart, At, OpOfStage
  <2> QED
    BY <2>1, <2>2, <1>req, StartEffect DEF SetupAlone, Others
<1>2. ASSUME NEW r \in Req, VerifyBegin(r) \/ DisableBegin(r) PROVE SetupAlone'
  <2>1. \E op \in {"verify", "disable"}, stage \in {"fetch", "lookup"}, c \in Presentable :
          Start(r, op, stage, c)
    BY <1>2 DEF VerifyBegin, DisableBegin, BeginProof
  <2>2. \A q \in Req : q # r => req[q].op # "setup"
    BY <1>2, <1>req DEF VerifyBegin, DisableBegin, BeginProof, MayStart, At, OpOfStage
  <2> QED
    BY <2>1, <2>2, <1>req, StartEffect DEF SetupAlone, Others
<1>3. ASSUME NEW r \in Req, Others(r), req'[r].op \in {req[r].op, "none"}
      PROVE  SetupAlone'
  BY <1>3, <1>req DEF SetupAlone, Others
<1>4. ASSUME NEW r \in Req, NEW n \in Node,
             \/ SetupStore(r, n) \/ SetupUndo(r, n) \/ FetchFails(r, n)
             \/ EraseShare(r, n) \/ FetchShare(r, n)
      PROVE  SetupAlone'
  <2>1. (\E ok \in BOOLEAN : Returned(r, n, ok)) \/ Finish(r, "failed") \/ FetchShare(r, n)
    BY <1>4 DEF SetupStore, SetupUndo, FetchFails, EraseShare
  <2> QED
    BY <2>1, <1>3, <1>req, ReturnedEffect, FinishEffect, FetchEffect
<1>5. ASSUME NEW r \in Req,
             \/ SetupStored(r) \/ CreateTwoFARecord(r) \/ StoreBatchBackupCodes(r)
             \/ SetupReply(r) \/ InsufficientShares(r) \/ CheckOTP(r)
             \/ LookupBackupCode(r) \/ MarkBackupCodeUsed(r) \/ EnableTwoFA(r)
             \/ SharesErased(r) \/ DeleteBackupCodes(r) \/ DeleteTwoFARecord(r)
             \/ Stop(r)
      PROVE  SetupAlone'
  <2>1. (\E stage \in Stage : Goto(r, stage)) \/ (\E a \in Answer : Finish(r, a))
    BY <1>5 DEF SetupStored, CreateTwoFARecord, StoreBatchBackupCodes, SetupReply,
                InsufficientShares, CheckOTP, LookupBackupCode, MarkBackupCodeUsed,
                EnableTwoFA, SharesErased, DeleteBackupCodes, DeleteTwoFARecord, Stop,
                Accepted, Stage, Answer
  <2> QED
    BY <2>1, <1>3, <1>req, GotoEffect, FinishEffect
<1>6. CASE UNCHANGED vars \/ Network
  BY <1>6, <1>req DEF vars, Network, SetupAlone
<1> QED
  BY <1>1, <1>2, <1>4, <1>5, <1>6 DEF Next, Proceed

\* While a Setup runs, every other slot is idle.
THEOREM SetupRunsAlone ==
  ASSUME "setup" \notin Concurrent
  PROVE  Spec => []AloneInv
<1>1. Init => AloneInv
  BY TypeInit DEF Init, AloneInv, OpOfStage, SetupAlone, SetupStage, Idle
<1>2. AloneInv /\ [Next]_vars => AloneInv'
  BY TypeStep, SetupHasSecretStep, OpOfStageStep, SetupAloneStep DEF AloneInv, TypeInv
<1> QED
  BY <1>1, <1>2, PTL DEF Spec

-----------------------------------------------------------------------------
(* Record and backup codes, which no statement of the database writes       *)
(* together.                                                               *)

\* What a request at a stage may rely on: the record a Setup read, or wrote, is
\* still there when it stores the codes, and a Disable deletes the record only
\* after the codes.
RecordAtStage ==
  \A r \in Req :
    /\ req[r].stage = "store" /\ req[r].seen # "absent" => record # "absent"
    /\ req[r].stage = "codes" => record # "absent"
    /\ req[r].stage = "dropRecord" => unused = {}

RecordInv == CodesImplyRecord /\ RecordAtStage

\* Every step keeps the codes tied to the record, if Setup runs alone.
LEMMA RecordInvStep == AloneInv /\ RecordInv /\ [Next]_vars => RecordInv'
<1> SUFFICES ASSUME AloneInv, RecordInv, [Next]_vars PROVE RecordInv'
  OBVIOUS
<1>req. req \in [Req -> Request] /\ OpOfStage /\ SetupAlone
  BY DEF AloneInv, TypeInv, TypeOK
<1>0. CASE UNCHANGED <<record, unused, req>>
  BY <1>0 DEF RecordInv, CodesImplyRecord, RecordAtStage
\* A request moves to a stage that promises nothing about the record.
<1>1. ASSUME NEW r \in Req, Others(r), UNCHANGED <<record, unused>>,
             req'[r].stage \notin {"store", "codes", "dropRecord"}
      PROVE  RecordInv'
  BY <1>1 DEF RecordInv, CodesImplyRecord, RecordAtStage, Others
<1>2. ASSUME NEW r \in Req, SetupBegin(r) PROVE RecordInv'
  <2>1. \E s \in Secret : Start(r, "setup", "store", <<s, 0>>)
    BY <1>2 DEF SetupBegin
  <2>2. Others(r) /\ req'[r].stage = "store" /\ req'[r].seen = record
    BY <2>1, <1>req, StartEffect
  <2> QED
    BY <1>2, <2>2 DEF SetupBegin, RecordInv, CodesImplyRecord, RecordAtStage, Others
<1>3. ASSUME NEW r \in Req, VerifyBegin(r) \/ DisableBegin(r) PROVE RecordInv'
  <2>1. \E op \in {"verify", "disable"}, stage \in {"fetch", "lookup"}, c \in Presentable :
          Start(r, op, stage, c)
    BY <1>3 DEF VerifyBegin, DisableBegin, BeginProof
  <2>2. Others(r) /\ req'[r].stage \in {"fetch", "lookup"}
    BY <2>1, <1>req, StartEffect
  <2> QED
    BY <1>1, <1>3, <2>2 DEF VerifyBegin, DisableBegin, BeginProof
<1>4. ASSUME NEW r \in Req, NEW n \in Node,
             \/ SetupStore(r, n) \/ SetupUndo(r, n) \/ FetchFails(r, n)
             \/ EraseShare(r, n) \/ FetchShare(r, n)
      PROVE  RecordInv'
  <2>1. UNCHANGED <<record, unused>>
    BY <1>4 DEF SetupStore, SetupUndo, FetchFails, EraseShare, FetchShare
  <2>2. (\E ok \in BOOLEAN : Returned(r, n, ok)) \/ Finish(r, "failed") \/ FetchShare(r, n)
    BY <1>4 DEF SetupStore, SetupUndo, FetchFails, EraseShare
  <2>3. CASE \E ok \in BOOLEAN : Returned(r, n, ok)
    <3>1. Others(r) /\ req'[r].stage = req[r].stage /\ req'[r].seen = req[r].seen
      BY <2>3, <1>req, ReturnedEffect
    <3> QED
      BY <3>1, <2>1 DEF RecordInv, CodesImplyRecord, RecordAtStage, Others
  <2>4. CASE Finish(r, "failed") \/ FetchShare(r, n)
    BY <2>4, <2>1, <1>1, <1>req, FinishEffect, FetchEffect
  <2> QED
    BY <2>2, <2>3, <2>4
<1>5. ASSUME NEW r \in Req, SetupStored(r) PROVE RecordInv'
  <2>1. PICK stage \in {"undo", "create", "codes"} :
          Goto(r, stage) /\ (stage = "codes" => req[r].seen # "absent")
    BY <1>5 DEF SetupStored
  <2>2. Others(r) /\ req'[r].stage = stage
    BY <2>1, <1>req, GotoEffect
  <2>3. UNCHANGED <<record, unused>> /\ req[r].stage = "store"
    BY <1>5 DEF SetupStored, At
  <2> QED
    BY <2>1, <2>2, <2>3 DEF RecordInv, CodesImplyRecord, RecordAtStage, Others
<1>6. ASSUME NEW r \in Req, CreateTwoFARecord(r) PROVE RecordInv'
  <2>1. CASE record = "absent"
    <3>1. Others(r) /\ req'[r].stage = "codes" /\ record' = "pending" /\ unused' = unused
      BY <1>6, <2>1, <1>req, GotoEffect DEF CreateTwoFARecord
    <3> QED
      BY <3>1 DEF RecordInv, CodesImplyRecord, RecordAtStage, Others
  <2>2. CASE record # "absent"
    <3>1. Others(r) /\ req'[r].stage = "idle" /\ UNCHANGED <<record, unused>>
      BY <1>6, <2>2, <1>req, FinishEffect DEF CreateTwoFARecord
    <3> QED
      BY <3>1, <1>1
  <2> QED
    BY <2>1, <2>2
\* No other request is about to delete the record: Setup runs alone.
<1>7. ASSUME NEW r \in Req, StoreBatchBackupCodes(r) PROVE RecordInv'
  <2>1. Others(r) /\ req'[r].stage = "reply" /\ record' = record /\ record # "absent"
    BY <1>7, <1>req, GotoEffect DEF StoreBatchBackupCodes, RecordInv, RecordAtStage, At
  <2>2. \A q \in Req : q # r => req[q].stage = "idle"
    BY <1>7, <1>req DEF StoreBatchBackupCodes, At, OpOfStage, SetupAlone, SetupStage
  <2> QED
    BY <2>1, <2>2 DEF RecordInv, CodesImplyRecord, RecordAtStage, Others
<1>8. ASSUME NEW r \in Req,
             \/ SetupReply(r) \/ InsufficientShares(r) \/ CheckOTP(r) \/ LookupBackupCode(r)
             \/ Stop(r) \/ SharesErased(r)
      PROVE  RecordInv'
  <2>1. UNCHANGED <<record, unused>>
    BY <1>8 DEF SetupReply, InsufficientShares, CheckOTP, LookupBackupCode, Stop, SharesErased
  <2>2. \/ \E a \in Answer : Finish(r, a)
        \/ \E stage \in {"erase", "enable", "mark", "dropCodes"} : Goto(r, stage)
    BY <1>8 DEF SetupReply, InsufficientShares, CheckOTP, LookupBackupCode, Stop,
                SharesErased, Accepted, Answer
  <2>3. Others(r) /\ req'[r].stage \notin {"store", "codes", "dropRecord"}
    BY <2>2, <1>req, GotoEffect, FinishEffect
  <2> QED
    BY <2>1, <2>3, <1>1
<1>9. ASSUME NEW r \in Req, MarkBackupCodeUsed(r) PROVE RecordInv'
  <2>1. (\E a \in Answer : Finish(r, a)) \/ (\E stage \in {"erase", "enable"} : Goto(r, stage))
    BY <1>9 DEF MarkBackupCodeUsed, Accepted, Answer
  <2>2. Others(r) /\ req'[r].stage \notin {"store", "codes", "dropRecord"}
    BY <2>1, <1>req, GotoEffect, FinishEffect
  <2>3. record' = record /\ (unused = {} => unused' = {})
    BY <1>9 DEF MarkBackupCodeUsed
  <2> QED
    BY <2>2, <2>3 DEF RecordInv, CodesImplyRecord, RecordAtStage, Others
<1>10. ASSUME NEW r \in Req, EnableTwoFA(r) PROVE RecordInv'
  <2>1. \E a \in Answer : Finish(r, a)
    BY <1>10 DEF EnableTwoFA, Answer
  <2>2. Others(r) /\ req'[r].stage = "idle"
    BY <2>1, <1>req, FinishEffect
  <2>3. unused' = unused /\ (record # "absent" => record' # "absent")
    BY <1>10 DEF EnableTwoFA
  <2> QED
    BY <2>2, <2>3 DEF RecordInv, CodesImplyRecord, RecordAtStage, Others
<1>11. ASSUME NEW r \in Req, DeleteBackupCodes(r) PROVE RecordInv'
  <2>1. Others(r) /\ req'[r].stage = "dropRecord" /\ unused' = {} /\ record' = record
    BY <1>11, <1>req, GotoEffect DEF DeleteBackupCodes
  <2> QED
    BY <2>1 DEF RecordInv, CodesImplyRecord, RecordAtStage, Others
\* No Setup is under way that would add codes: it would be alone.
<1>12. ASSUME NEW r \in Req, DeleteTwoFARecord(r) PROVE RecordInv'
  <2>1. Others(r) /\ req'[r].stage = "idle" /\ unused' = unused /\ unused = {}
    BY <1>12, <1>req, FinishEffect DEF DeleteTwoFARecord, RecordInv, RecordAtStage, At
  <2>2. req[r].op = "disable"
    BY <1>12, <1>req DEF DeleteTwoFARecord, At, OpOfStage
  <2>3. \A q \in Req : req[q].stage \notin SetupStage
    BY <2>2, <1>req DEF OpOfStage, SetupAlone
  <2> QED
    BY <2>1, <2>3 DEF RecordInv, CodesImplyRecord, RecordAtStage, Others, SetupStage
<1> QED
  BY <1>0, <1>2, <1>3, <1>4, <1>5, <1>6, <1>7, <1>8, <1>9, <1>10, <1>11, <1>12
  DEF Next, Proceed, Network, vars

\* A request relies on the record and on the codes with good reason.
THEOREM RecordInvariant ==
  ASSUME "setup" \notin Concurrent
  PROVE  Spec => []RecordInv
<1>1. Init => RecordInv
  BY DEF Init, RecordInv, CodesImplyRecord, RecordAtStage, Idle
<1>2. AloneInv /\ RecordInv /\ [Next]_vars => RecordInv'
  BY RecordInvStep
<1> QED
  BY <1>1, <1>2, SetupRunsAlone, PTL DEF Spec

\* As long as no Setup overlaps another request, backup codes exist only together
\* with the record they belong to, wherever requests stop and whatever the nodes
\* do.
THEOREM CodesNeverOrphaned ==
  ASSUME "setup" \notin Concurrent
  PROVE  Spec => []CodesImplyRecord
<1>1. RecordInv => CodesImplyRecord
  BY DEF RecordInv
<1> QED
  BY <1>1, RecordInvariant, PTL

-----------------------------------------------------------------------------
(* Shares, when a call that failed for its caller is never executed later   *)
(* (MaxLate = 0) and Setup runs alone.                                     *)

SharesAtStage ==
  \A r \in Req, n \in Node :
    /\ req[r].stage = "store" /\ req[r].call[n] = "ok" => shares[n] = req[r].code[1]
    /\ req[r].stage \in {"create", "codes", "reply"} => shares[n] = req[r].code[1]
    /\ req[r].stage = "erase" /\ req[r].call[n] = "ok" => shares[n] = NoSecret
    /\ req[r].stage \in {"dropCodes", "dropRecord"} => shares[n] = NoSecret

SharesInv == late = {} /\ SharesAtStage

\* With no room for late calls, a call that fails leaves no call behind.
LEMMA NothingLate ==
  ASSUME MaxLate = 0, late = {}, NEW c, Abandoned(c)
  PROVE  late' = {}
<1>1. Cardinality(late) = 0
  BY FS_EmptySet
<1> QED
  BY <1>1 DEF Abandoned

\* What StoreShare of a secret at node n may do to the shares.
LEMMA StoreShareEffect ==
  ASSUME MpcTypeOK, MaxLate = 0, late = {}, NEW n \in Node, NEW s \in Secret,
         NEW ok \in BOOLEAN, NEW mayFail, StoreShare(n, s, ok, mayFail)
  PROVE  /\ late' = {}
         /\ ok => shares'[n] = s
         /\ \A m \in Node : shares[m] # NoSecret \/ m # n => shares'[m] = shares[m]
<1> DEFINE c == [kind |-> "store", node |-> n, secret |-> s]
<1>1. CASE ok /\ shares[n] = NoSecret /\ CreateShare(n, s) /\ UNCHANGED late
  BY <1>1 DEF CreateShare, MpcTypeOK
<1>2. CASE ~ok /\ UNCHANGED <<shares, late>>
  BY <1>2
<1>3. CASE ~ok /\ Abandoned(c)
  <2>1. late' = {}
    BY <1>3, NothingLate
  <2>2. shares' = shares \/ CreateShare(n, s)
    BY <1>3 DEF Abandoned, Execute
  <2> QED
    BY <1>3, <2>1, <2>2 DEF CreateShare, MpcTypeOK
<1> QED
  BY <1>1, <1>2, <1>3 DEF StoreShare

\* What DeleteShare at node n may do to the shares.
LEMMA DeleteShareEffect ==
  ASSUME MpcTypeOK, MaxLate = 0, late = {}, NEW n \in Node,
         NEW ok \in BOOLEAN, NEW mayFail, DeleteShare(n, ok, mayFail)
  PROVE  /\ late' = {}
         /\ ok => shares'[n] = NoSecret
         /\ \A m \in Node : shares'[m] \in {shares[m], NoSecret}
         /\ \A m \in Node : m # n => shares'[m] = shares[m]
<1> DEFINE c == [kind |-> "delete", node |-> n, secret |-> NoSecret]
<1>1. CASE ok /\ DeleteSharesByUserID(n) /\ UNCHANGED late
  BY <1>1 DEF DeleteSharesByUserID, MpcTypeOK
<1>2. CASE ~ok /\ Abandoned(c)
  <2>1. late' = {}
    BY <1>2, NothingLate
  <2>2. shares' = shares \/ DeleteSharesByUserID(n)
    BY <1>2 DEF Abandoned, Execute
  <2> QED
    BY <1>2, <2>1, <2>2 DEF DeleteSharesByUserID, MpcTypeOK
<1> QED
  BY <1>1, <1>2 DEF DeleteShare

\* Every step keeps what a request may assume about the shares it stored or
\* erased, if Setup runs alone and no abandoned call is left to execute.
LEMMA SharesInvStep ==
  ASSUME MaxLate = 0
  PROVE  AloneInv /\ SharesInv /\ [Next]_vars => SharesInv'
<1> SUFFICES ASSUME AloneInv, SharesInv, [Next]_vars PROVE SharesInv'
  OBVIOUS
<1>req. /\ req \in [Req -> Request] /\ OpOfStage /\ SetupAlone /\ SetupHasSecret
        /\ MpcTypeOK /\ late = {} /\ SharesAtStage
  BY DEF AloneInv, TypeInv, TypeOK, SharesInv
\* The request that moves is at a stage that promises nothing about shares yet.
<1>1. ASSUME NEW r \in Req, Others(r), UNCHANGED <<shares, late>>,
             \/ req'[r].stage \in {"idle", "undo", "fetch", "enable", "lookup", "mark"}
             \/ /\ req'[r].stage \in {"store", "erase"}
                /\ \A n \in Node : req'[r].call[n] = "todo"
      PROVE  SharesInv'
  BY <1>1, <1>req DEF SharesInv, SharesAtStage, Others
<1>2. ASSUME NEW r \in Req, SetupBegin(r) \/ VerifyBegin(r) \/ DisableBegin(r)
      PROVE  SharesInv'
  <2>1. \E op \in {"setup", "verify", "disable"}, stage \in {"store", "fetch", "lookup"} :
          \E c : Start(r, op, stage, c)
    BY <1>2 DEF SetupBegin, VerifyBegin, DisableBegin, BeginProof
  <2>2. /\ Others(r)
        /\ req'[r].stage \in {"store", "fetch", "lookup"}
        /\ \A n \in Node : req'[r].call[n] = "todo"
    BY <2>1, <1>req, StartEffect
  <2>3. UNCHANGED <<shares, late>>
    BY <1>2 DEF SetupBegin, VerifyBegin, DisableBegin, BeginProof, mpcVars
  <2> QED
    BY <1>1, <2>2, <2>3
\* The shares a request relies on are kept: a running Setup is alone, and its own
\* store overwrites nothing.
<1>3. ASSUME NEW r \in Req, NEW n \in Node, SetupStore(r, n) PROVE SharesInv'
  <2>1. PICK ok \in BOOLEAN :
          /\ StoreShare(n, req[r].code[1], ok, Faulty(n) \/ Cancelled(r))
          /\ Returned(r, n, ok)
    BY <1>3 DEF SetupStore
  <2>2. req[r].stage = "store" /\ req[r].code[1] \in Secret
    BY <1>3, <1>req DEF SetupStore, At, SetupHasSecret, SetupStage
  <2>3. \A q \in Req : q # r => req[q].stage = "idle"
    BY <2>2, <1>req DEF OpOfStage, SetupAlone, SetupStage
  <2>4. /\ late' = {}
        /\ ok => shares'[n] = req[r].code[1]
        /\ \A m \in Node : shares[m] # NoSecret \/ m # n => shares'[m] = shares[m]
    BY <2>1, <2>2, <1>req, StoreShareEffect
  <2>5. /\ Others(r) /\ req'[r].stage = "store" /\ req'[r].code = req[r].code
        /\ req'[r].call[n] = IF ok THEN "ok" ELSE "err"
        /\ \A m \in Node : m # n => req'[r].call[m] = req[r].call[m]
    BY <2>1, <2>2, <1>req, ReturnedEffect
  <2>6. \A m \in Node : req'[r].call[m] = "ok" => shares'[m] = req[r].code[1]
    BY <2>2, <2>4, <2>5, <1>req DEF SharesAtStage
  <2> QED
    BY <2>3, <2>4, <2>5, <2>6 DEF SharesInv, SharesAtStage, Others
<1>4. ASSUME NEW r \in Req, NEW n \in Node, SetupUndo(r, n) PROVE SharesInv'
  <2>1. PICK ok \in BOOLEAN :
          /\ DeleteShare(n, ok, Faulty(n))
          /\ Returned(r, n, ok) \/ Finish(r, "failed")
    BY <1>4 DEF SetupUndo
  <2>2. req[r].stage = "undo"
    BY <1>4 DEF SetupUndo, At
  <2>3. \A q \in Req : q # r => req[q].stage = "idle"
    BY <2>2, <1>req DEF OpOfStage, SetupAlone, SetupStage
  <2>4. late' = {}
    BY <2>1, <1>req, DeleteShareEffect
  <2>5. Others(r) /\ req'[r].stage \in {"undo", "idle"}
    BY <2>1, <2>2, <1>req, ReturnedEffect, FinishEffect
  <2> QED
    BY <2>3, <2>4, <2>5 DEF SharesInv, SharesAtStage, Others
\* Disables that overlap only help each other.
<1>5. ASSUME NEW r \in Req, NEW n \in Node, EraseShare(r, n) PROVE SharesInv'
  <2>1. PICK ok \in BOOLEAN :
          /\ DeleteShare(n, ok, Faulty(n) \/ Cancelled(r))
          /\ Returned(r, n, ok)
    BY <1>5 DEF EraseShare
  <2>2. req[r].stage = "erase" /\ req[r].op = "disable"
    BY <1>5, <1>req DEF EraseShare, At, OpOfStage
  <2>3. \A q \in Req : req[q].stage \notin SetupStage
    BY <2>2, <1>req DEF OpOfStage, SetupAlone
  <2>4. /\ late' = {} /\ (ok => shares'[n] = NoSecret)
        /\ \A m \in Node : shares'[m] \in {shares[m], NoSecret}
    BY <2>1, <1>req, DeleteShareEffect
  <2>5. /\ Others(r) /\ req'[r].stage = "erase"
        /\ req'[r].call[n] = IF ok THEN "ok" ELSE "err"
        /\ \A m \in Node : m # n => req'[r].call[m] = req[r].call[m]
    BY <2>1, <2>2, <1>req, ReturnedEffect
  <2>6. \A m \in Node : req'[r].call[m] = "ok" => shares'[m] = NoSecret
    BY <2>2, <2>4, <2>5, <1>req DEF SharesAtStage
  <2>7. ASSUME NEW q \in Req, q # r, NEW m \in Node
        PROVE  /\ req'[q] = req[q] /\ req[q].stage \notin SetupStage
               /\ shares[m] = NoSecret => shares'[m] = NoSecret
    BY <2>3, <2>4, <2>5, <2>7 DEF Others
  <2> QED
    BY <2>4, <2>5, <2>6, <2>7, <1>req DEF SharesInv, SharesAtStage, SetupStage
<1>6. ASSUME NEW r \in Req, NEW n \in Node, FetchShare(r, n) \/ FetchFails(r, n)
      PROVE  SharesInv'
  <2>1. Others(r) /\ req'[r].stage = "fetch"
    <3>1. CASE FetchShare(r, n)
      BY <3>1, <1>req, FetchEffect
    <3>2. CASE FetchFails(r, n)
      <4>1. Returned(r, n, FALSE) /\ req[r].stage = "fetch"
        BY <3>2 DEF FetchFails, Fetching, At
      <4> QED
        BY <4>1, <1>req, ReturnedEffect
    <3> QED
      BY <1>6, <3>1, <3>2
  <2>2. UNCHANGED <<shares, late>>
    BY <1>6 DEF FetchShare, FetchFails, mpcVars
  <2> QED
    BY <1>1, <2>1, <2>2
\* All calls returned and none failed: they all succeeded.
<1>7. ASSUME NEW r \in Req, AllReturned(r), ~SomeFailed(r), NEW n \in Node
      PROVE  req[r].call[n] = "ok"
  BY <1>7, <1>req DEF AllReturned, Pending, SomeFailed, Request
<1>8. ASSUME NEW r \in Req, SetupStored(r) PROVE SharesInv'
  <2>1. UNCHANGED <<shares, late>> /\ req[r].stage = "store"
    BY <1>8 DEF SetupStored, mpcVars, At
  <2>2. CASE SomeFailed(r)
    <3>1. Others(r) /\ req'[r].stage = "undo"
      BY <1>8, <2>2, <1>req, GotoEffect DEF SetupStored
    <3> QED
      BY <3>1, <2>1, <1>1
  <2>3. CASE ~SomeFailed(r)
    <3>1. \E stage \in {"create", "codes"} : Goto(r, stage)
      BY <1>8, <2>3 DEF SetupStored
    <3>2. Others(r) /\ req'[r].stage \in {"create", "codes"} /\ req'[r].code = req[r].code
      BY <3>1, <1>req, GotoEffect
    <3>3. \A n \in Node : shares[n] = req[r].code[1]
      BY <1>7, <1>8, <2>1, <2>3, <1>req DEF SetupStored, SharesAtStage
    <3> QED
      BY <2>1, <3>2, <3>3, <1>req DEF SharesInv, SharesAtStage, Others
  <2> QED
    BY <2>2, <2>3
<1>9. ASSUME NEW r \in Req, SharesErased(r) PROVE SharesInv'
  <2>1. UNCHANGED <<shares, late>> /\ req[r].stage = "erase"
    BY <1>9 DEF SharesErased, mpcVars, At
  <2>2. CASE SomeFailed(r)
    <3>1. Others(r) /\ req'[r].stage = "idle"
      BY <1>9, <2>2, <1>req, FinishEffect DEF SharesErased
    <3> QED
      BY <3>1, <2>1, <1>1
  <2>3. CASE ~SomeFailed(r)
    <3>1. Others(r) /\ req'[r].stage = "dropCodes"
      BY <1>9, <2>3, <1>req, GotoEffect DEF SharesErased
    <3>2. \A n \in Node : shares[n] = NoSecret
      BY <1>7, <1>9, <2>1, <2>3, <1>req DEF SharesErased, SharesAtStage
    <3> QED
      BY <2>1, <3>1, <3>2, <1>req DEF SharesInv, SharesAtStage, Others
  <2> QED
    BY <2>2, <2>3
\* The database steps of a request that has its shares where it wants them.
<1>10. ASSUME NEW r \in Req, CreateTwoFARecord(r) \/ StoreBatchBackupCodes(r)
       PROVE  SharesInv'
  <2>1. UNCHANGED <<shares, late>> /\ req[r].stage \in {"create", "codes"}
    BY <1>10 DEF CreateTwoFARecord, StoreBatchBackupCodes, mpcVars, At
  <2>2. (\E stage \in {"codes", "reply"} : Goto(r, stage)) \/ Finish(r, "failed")
    BY <1>10 DEF CreateTwoFARecord, StoreBatchBackupCodes
  <2>3. /\ Others(r)
        /\ \/ req'[r].stage = "idle"
           \/ req'[r].stage \in {"codes", "reply"} /\ req'[r].code = req[r].code
    BY <2>2, <1>req, GotoEffect, FinishEffect
  <2> QED
    BY <2>1, <2>3, <1>req DEF SharesInv, SharesAtStage, Others
<1>11. ASSUME NEW r \in Req, DeleteBackupCodes(r) PROVE SharesInv'
  <2>1. UNCHANGED <<shares, late>> /\ req[r].stage = "dropCodes"
    BY <1>11 DEF DeleteBackupCodes, mpcVars, At
  <2>2. Others(r) /\ req'[r].stage = "dropRecord"
    BY <1>11, <1>req, GotoEffect DEF DeleteBackupCodes
  <2> QED
    BY <2>1, <2>2, <1>req DEF SharesInv, SharesAtStage, Others
<1>12. ASSUME NEW r \in Req,
              \/ SetupReply(r) \/ InsufficientShares(r) \/ CheckOTP(r)
              \/ LookupBackupCode(r) \/ MarkBackupCodeUsed(r) \/ EnableTwoFA(r)
              \/ DeleteTwoFARecord(r) \/ Stop(r)
       PROVE  SharesInv'
  <2>1. UNCHANGED <<shares, late>>
    BY <1>12 DEF SetupReply, InsufficientShares, CheckOTP, LookupBackupCode,
                 MarkBackupCodeUsed, EnableTwoFA, DeleteTwoFARecord, Stop, mpcVars
  <2>2. \/ \E a \in Answer : Finish(r, a)
        \/ \E stage \in {"erase", "enable", "mark"} : Goto(r, stage)
    BY <1>12 DEF SetupReply, InsufficientShares, CheckOTP, LookupBackupCode,
                 MarkBackupCodeUsed, EnableTwoFA, DeleteTwoFARecord, Stop, Accepted,
                 Answer
  <2>3. /\ Others(r)
        /\ \/ req'[r].stage \in {"idle", "enable", "mark"}
           \/ req'[r].stage = "erase" /\ \A n \in Node : req'[r].call[n] = "todo"
    BY <2>2, <1>req, GotoEffect, FinishEffect
  <2> QED
    BY <2>1, <2>3, <1>1
<1>13. CASE UNCHANGED vars \/ Network
  <2>1. UNCHANGED <<shares, late, req>>
    BY <1>13, <1>req DEF vars, Network, DeliverLate, LoseLate, CalmDown
  <2> QED
    BY <2>1, <1>req DEF SharesInv, SharesAtStage
<1> QED
  BY <1>2, <1>3, <1>4, <1>5, <1>6, <1>8, <1>9, <1>10, <1>11, <1>12, <1>13 DEF Next, Proceed

\* A request relies on the shares it stored or erased with good reason.
THEOREM SharesInvariant ==
  ASSUME "setup" \notin Concurrent, MaxLate = 0
  PROVE  Spec => []SharesInv
<1>1. Init => SharesInv
  BY DEF Init, MpcInit, SharesInv, SharesAtStage, Idle
<1>2. AloneInv /\ SharesInv /\ [Next]_vars => SharesInv'
  BY SharesInvStep
<1> QED
  BY <1>1, <1>2, SetupRunsAlone, PTL DEF Spec

\* Disable forgets the user only when nothing is left of the user's factor: the
\* record goes last, after every node confirmed its delete and the codes are gone.
THEOREM DisableErasesFirst ==
  ASSUME "setup" \notin Concurrent, MaxLate = 0
  PROVE  Spec => ErasedBeforeForgotten
<1> DEFINE Erased == record # "absent" /\ record' = "absent"
                       => unused = {} /\ \A n \in Node : shares[n] = NoSecret
<1>1. RecordInv /\ SharesInv /\ [Next]_vars => [Erased]_vars
  <2> SUFFICES ASSUME RecordInv, SharesInv, [Next]_vars,
                      record # "absent", record' = "absent"
               PROVE  unused = {} /\ \A n \in Node : shares[n] = NoSecret
    OBVIOUS
  <2>1. ASSUME NEW r \in Req, DeleteTwoFARecord(r)
        PROVE  unused = {} /\ \A n \in Node : shares[n] = NoSecret
    BY <2>1 DEF DeleteTwoFARecord, At, RecordInv, RecordAtStage, SharesInv, SharesAtStage
  <2>2. \E r \in Req : DeleteTwoFARecord(r)
    <3>1. CASE UNCHANGED vars \/ Network
      BY <3>1 DEF vars, Network
    <3>2. ASSUME NEW r \in Req, SetupBegin(r) \/ VerifyBegin(r) \/ DisableBegin(r)
          PROVE  FALSE
      BY <3>2 DEF SetupBegin, VerifyBegin, DisableBegin, BeginProof
    <3>3. ASSUME NEW r \in Req, NEW n \in Node,
                 \/ SetupStore(r, n) \/ SetupUndo(r, n) \/ FetchShare(r, n)
                 \/ FetchFails(r, n) \/ EraseShare(r, n)
          PROVE  FALSE
      BY <3>3 DEF SetupStore, SetupUndo, FetchShare, FetchFails, EraseShare
    <3>4. ASSUME NEW r \in Req,
                 \/ SetupStored(r) \/ CreateTwoFARecord(r) \/ StoreBatchBackupCodes(r)
                 \/ SetupReply(r) \/ InsufficientShares(r) \/ CheckOTP(r)
                 \/ LookupBackupCode(r) \/ MarkBackupCodeUsed(r) \/ EnableTwoFA(r)
                 \/ SharesErased(r) \/ DeleteBackupCodes(r) \/ Stop(r)
          PROVE  FALSE
      BY <3>4 DEF SetupStored, CreateTwoFARecord, StoreBatchBackupCodes, SetupReply,
                  InsufficientShares, CheckOTP, LookupBackupCode, MarkBackupCodeUsed,
                  EnableTwoFA, SharesErased, DeleteBackupCodes, Stop
    <3> QED
      BY <3>1, <3>2, <3>3, <3>4 DEF Next, Proceed
  <2> QED
    BY <2>1, <2>2
<1> QED
  BY <1>1, RecordInvariant, SharesInvariant, PTL DEF Spec, ErasedBeforeForgotten

=============================================================================
