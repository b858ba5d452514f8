-------------------------- MODULE EnrolmentProofs --------------------------
(***************************************************************************)
(* Theorems about where the shares of a user's second factor are: what a    *)
(* proved code says of them, what a failed Setup leaves behind, and what an *)
(* enabled user can rely on.  They rest on the invariants of TwoFAProofs    *)
(* and hold for every number of nodes, secrets, requests and backup codes;  *)
(* each theorem states what it asks of the faulty nodes, of the calls that  *)
(* may overlap and of the stages a request may be cut short at.             *)
(***************************************************************************)
EXTENDS TwoFAProofs

-----------------------------------------------------------------------------
(* Counting nodes.                                                         *)

\* Sets of nodes are finite, so that they can be counted and compared.
LEMMA NodeSets ==
  /\ IsFiniteSet(Node) /\ Cardinality(Node) = NodeCount
  /\ \A S \in SUBSET Node : IsFiniteSet(S) /\ Cardinality(S) \in Nat
  /\ \A S \in SUBSET Node : \A T \in SUBSET S : Cardinality(T) <= Cardinality(S)
<1>1. IsFiniteSet(Node) /\ Cardinality(Node) = NodeCount
  BY MpcAssumption, FS_Interval DEF Node
<1>2. ASSUME NEW S \in SUBSET Node
      PROVE  IsFiniteSet(S) /\ Cardinality(S) \in Nat
  BY <1>1, FS_Subset, FS_CardinalityType
<1>3. ASSUME NEW S \in SUBSET Node, NEW T \in SUBSET S
      PROVE  Cardinality(T) <= Cardinality(S)
  BY <1>2, FS_Subset
<1> QED
  BY <1>1, <1>2, <1>3

\* The nodes that never fail.
Reliable == Node \ FaultyNode

\* Where at most NodeCount - Threshold nodes are faulty, the others are enough
\* to rebuild a secret.
LEMMA ReliableSuffice ==
  ASSUME Cardinality(FaultyNode) <= NodeCount - Threshold
  PROVE  Cardinality(Reliable) >= Threshold
<1>1. FaultyNode \in SUBSET Node /\ Node \cap FaultyNode = FaultyNode
  BY MpcAssumption
<1>2. Cardinality(Reliable) = NodeCount - Cardinality(FaultyNode)
  BY <1>1, NodeSets, FS_Difference DEF Reliable
<1>3. NodeCount \in Nat /\ Threshold \in Nat /\ Cardinality(FaultyNode) \in Nat
  BY <1>1, NodeSets, MpcAssumption, TwoFAAssumption
<1> QED
  BY <1>2, <1>3

-----------------------------------------------------------------------------
(* The life of a record.  Setup needs a record that is not enabled, Disable *)
(* one that is, and neither lets the other begin while it runs.            *)

PhaseInv ==
  /\ \A r \in Req : req[r].op = "setup" => record # "enabled"
  /\ record = "pending" => \A r \in Req : req[r].op # "disable"

\* Every step keeps Setup away from an enabled record and Disable away from a
\* pending one, if Setup runs alone.
LEMMA PhaseInvStep == AloneInv /\ PhaseInv /\ [Next]_vars => PhaseInv'
<1> SUFFICES ASSUME AloneInv, PhaseInv, [Next]_vars PROVE PhaseInv'
  OBVIOUS
<1>req. req \in [Req -> Request] /\ OpOfStage /\ SetupAlone /\ record \in Status
  BY DEF AloneInv, TypeInv, TypeOK
<1>0. CASE UNCHANGED <<record, req>>
  BY <1>0 DEF PhaseInv
\* A step that writes no record, and starts nothing.
<1>1. ASSUME NEW r \in Req, Others(r), req'[r].op \in {req[r].op, "none"},
             UNCHANGED record
      PROVE  PhaseInv'
  BY <1>1 DEF PhaseInv, Others
<1>2. ASSUME NEW r \in Req, SetupBegin(r) PROVE PhaseInv'
  <2>1. \E s \in Secret : Start(r, "setup", "store", <<s, 0>>)
    BY <1>2 DEF SetupBegin
  <2>2. Others(r) /\ req'[r].op = "setup"
    BY <2>1, <1>req, StartEffect
  <2> QED
    BY <1>2, <2>2 DEF SetupBegin, PhaseInv, Others
<1>3. ASSUME NEW r \in Req, VerifyBegin(r) \/ DisableBegin(r) PROVE PhaseInv'
  <2>1. PICK op \in {"verify", "disable"} :
          BeginProof(r, op) /\ (op = "disable" => record = "enabled")
    BY <1>3 DEF VerifyBegin, DisableBegin
  <2>2. \E stage, c : Start(r, op, stage, c)
    BY <2>1 DEF BeginProof
  <2>3. Others(r) /\ req'[r].op = op /\ UNCHANGED record
    BY <2>1, <2>2, <1>req, StartEffect DEF BeginProof
  <2> QED
    BY <2>1, <2>3 DEF PhaseInv, Others
<1>4. ASSUME NEW r \in Req, NEW n \in Node,
             \/ SetupStore(r, n) \/ SetupUndo(r, n) \/ FetchFails(r, n)
             \/ EraseShare(r, n) \/ FetchShare(r, n)
      PROVE  PhaseInv'
  <2>1. (\E ok \in BOOLEAN : Returned(r, n, ok)) \/ Finish(r, "failed") \/ FetchShare(r, n)
    BY <1>4 DEF SetupStore, SetupUndo, FetchFails, EraseShare
  <2>2. UNCHANGED record
    BY <1>4 DEF SetupStore, SetupUndo, FetchFails, EraseShare, FetchShare
  <2> QED
    BY <2>1, <2>2, <1>1, <1>req, ReturnedEffect, FinishEffect, FetchEffect
<1>5. ASSUME NEW r \in Req,
             \/ SetupStored(r) \/ StoreBatchBackupCodes(r) \/ SetupReply(r)
             \/ InsufficientShares(r) \/ CheckOTP(r) \/ LookupBackupCode(r)
             \/ MarkBackupCodeUsed(r) \/ SharesErased(r) \/ DeleteBackupCodes(r)
             \/ Stop(r)
      PROVE  PhaseInv'
  <2>1. (\E stage \in Stage : Goto(r, stage)) \/ (\E a \in Answer : Finish(r, a))
    BY <1>5 DEF SetupStored, StoreBatchBackupCodes, SetupReply, InsufficientShares,
                CheckOTP, LookupBackupCode, MarkBackupCodeUsed, SharesErased,
                DeleteBackupCodes, Stop, Accepted, Stage, Answer
  <2>2. UNCHANGED record
    BY <1>5 DEF SetupStored, StoreBatchBackupCodes, SetupReply, InsufficientShares,
                CheckOTP, LookupBackupCode, MarkBackupCodeUsed, SharesErased,
                DeleteBackupCodes, Stop
  <2> QED
    BY <2>1, <2>2, <1>1, <1>req, GotoEffect, FinishEffect
\* The Setup that creates the record is alone.
<1>6. ASSUME NEW r \in Req, CreateTwoFARecord(r) PROVE PhaseInv'
  <2>1. (\E stage \in Stage : Goto(r, stage)) \/ (\E a \in Answer : Finish(r, a))
    BY <1>6 DEF CreateTwoFARecord, Stage, Answer
  <2>2. Others(r) /\ req'[r].op \in {"setup", "none"} /\ req[r].op = "setup"
    BY <1>6, <2>1, <1>req, GotoEffect, FinishEffect
    DEF CreateTwoFARecord, At, OpOfStage, SetupStage
  <2>3. \A q \in Req : q # r => req'[q].op = "none"
    BY <2>2, <1>req DEF SetupAlone, Others
  <2>4. record' \in {record, "pending"}
    BY <1>6 DEF CreateTwoFARecord
  <2> QED
    BY <2>2, <2>3, <2>4 DEF PhaseInv
\* The Verify that enables the record overlaps no Setup.
<1>7. ASSUME NEW r \in Req, EnableTwoFA(r) PROVE PhaseInv'
  <2>1. (\E a \in Answer : Finish(r, a)) /\ record' \in {record, "enabled"}
    BY <1>7 DEF EnableTwoFA, Answer
  <2>2. Others(r) /\ req'[r].op = "none"
    BY <2>1, <1>req, FinishEffect
  <2>3. \A q \in Req : req[q].op # "setup"
    BY <1>7, <1>req DEF EnableTwoFA, At, OpOfStage, SetupAlone, SetupStage
  <2> QED
    BY <2>1, <2>2, <2>3 DEF PhaseInv, Others
<1>8. ASSUME NEW r \in Req, DeleteTwoFARecord(r) PROVE PhaseInv'
  <2>1. Others(r) /\ req'[r].op = "none" /\ record' = "absent"
    BY <1>8, <1>req, FinishEffect DEF DeleteTwoFARecord
  <2> QED
    BY <2>1 DEF PhaseInv, Others
<1> QED
  BY <1>0, <1>2, <1>3, <1>4, <1>5, <1>6, <1>7, <1>8 DEF Next, Proceed, Network, vars

\* No Setup is under way while 2FA is enabled, and no Disable while a first code
\* is still awaited.
THEOREM PhaseInvariant ==
  ASSUME "setup" \notin Concurrent
  PROVE  Spec => []PhaseInv
<1>1. Init => PhaseInv
  BY DEF Init, PhaseInv, Idle
<1>2. AloneInv /\ PhaseInv /\ [Next]_vars => PhaseInv'
  BY PhaseInvStep
<1> QED
  BY <1>1, <1>2, SetupRunsAlone, PTL DEF Spec

-----------------------------------------------------------------------------
(* Codes checked against shares, when a call that failed for its caller is  *)
(* never executed later (MaxLate = 0) and Setup runs alone.                *)

\* As long as no Setup is under way shares are only deleted, and none while the
\* record is pending.
LEMMA ShrinkStep ==
  ASSUME MaxLate = 0, AloneInv, PhaseInv, SharesInv, [Next]_vars,
         \A r \in Req : req[r].op # "setup"
  PROVE  /\ \A n \in Node : shares'[n] \in {shares[n], NoSecret}
         /\ record' = "pending" => record = "pending" /\ shares' = shares
<1>req. /\ req \in [Req -> Request] /\ OpOfStage /\ MpcTypeOK /\ late = {}
        /\ \A r \in Req : req[r].stage \notin SetupStage
  BY DEF AloneInv, TypeInv, TypeOK, SharesInv, OpOfStage
<1> DEFINE Shrink == /\ \A n \in Node : shares'[n] \in {shares[n], NoSecret}
                     /\ record' = "pending" => record = "pending" /\ shares' = shares
<1>1. CASE UNCHANGED vars \/ Network
  BY <1>1, <1>req DEF vars, Network, DeliverLate, LoseLate, CalmDown
<1>2. ASSUME NEW r \in Req, SetupBegin(r) \/ VerifyBegin(r) \/ DisableBegin(r)
      PROVE  Shrink
  BY <1>2 DEF SetupBegin, VerifyBegin, DisableBegin, BeginProof, mpcVars
<1>3. ASSUME NEW r \in Req, NEW n \in Node, EraseShare(r, n) PROVE Shrink
  <2>1. \E ok \in BOOLEAN : DeleteShare(n, ok, Faulty(n) \/ Cancelled(r))
    BY <1>3 DEF EraseShare
  <2>2. \A m \in Node : shares'[m] \in {shares[m], NoSecret}
    BY <2>1, <1>req, DeleteShareEffect
  <2>3. record' = record /\ req[r].op = "disable"
    BY <1>3, <1>req DEF EraseShare, At, OpOfStage
  <2> QED
    BY <2>2, <2>3 DEF PhaseInv
<1>4. ASSUME NEW r \in Req, NEW n \in Node, FetchShare(r, n) \/ FetchFails(r, n)
      PROVE  Shrink
  BY <1>4 DEF FetchShare, FetchFails, mpcVars
<1>5. ASSUME NEW r \in Req, NEW n \in Node, SetupStore(r, n) \/ SetupUndo(r, n)
      PROVE  FALSE
  BY <1>5, <1>req DEF SetupStore, SetupUndo, At, SetupStage
<1>6. ASSUME NEW r \in Req,
             \/ InsufficientShares(r) \/ CheckOTP(r) \/ LookupBackupCode(r)
             \/ MarkBackupCodeUsed(r) \/ EnableTwoFA(r) \/ SharesErased(r)
             \/ DeleteBackupCodes(r) \/ DeleteTwoFARecord(r) \/ Stop(r)
      PROVE  Shrink
  BY <1>6 DEF InsufficientShares, CheckOTP, LookupBackupCode, MarkBackupCodeUsed,
              EnableTwoFA, SharesErased, DeleteBackupCodes, DeleteTwoFARecord, Stop,
              mpcVars
<1>7. ASSUME NEW r \in Req,
             SetupStored(r) \/ CreateTwoFARecord(r) \/ StoreBatchBackupCodes(r) \/ SetupReply(r)
      PROVE  FALSE
  BY <1>7, <1>req DEF SetupStored, CreateTwoFARecord, StoreBatchBackupCodes, SetupReply,
                      At, SetupStage
<1> QED
  BY <1>1, <1>2, <1>3, <1>4, <1>5, <1>6, <1>7 DEF Next, Proceed

\* What a request that fetches shares knows of the nodes that have answered: a
\* share it got is where it got it from, unless a Disable has deleted it since;
\* a node that failed has no share or may fail.
FetchOf(r) ==
  /\ \A n \in Node :
       /\ req[r].call[n] = "ok" => shares[n] \in req[r].got \cup {NoSecret}
       /\ req[r].call[n] = "ok" => req[r].got # {}
       /\ req[r].call[n] = "ok" /\ record = "pending" => shares[n] # NoSecret
       /\ req[r].call[n] = "err" => shares[n] = NoSecret \/ n \in FaultyNode
  /\ \A t \in req[r].got : \E n \in Node : shares[n] \in {t, NoSecret}

FetchInv ==
  \A r \in Req :
    /\ req[r].stage = "fetch" => FetchOf(r)
    /\ req[r].stage = "enable" /\ record = "pending" => Recoverable(req[r].code[1])

\* Every step keeps what a request knows of the shares it fetched.
LEMMA FetchInvStep ==
  ASSUME MaxLate = 0
  PROVE  AloneInv /\ PhaseInv /\ SharesInv /\ FetchInv /\ [Next]_vars => FetchInv'
<1> SUFFICES ASSUME AloneInv, PhaseInv, SharesInv, FetchInv, [Next]_vars
             PROVE  FetchInv'
  OBVIOUS
<1>req. req \in [Req -> Request] /\ OpOfStage /\ SetupAlone /\ MpcTypeOK
  BY DEF AloneInv, TypeInv, TypeOK
\* The requests that do not move: the shares only shrink under them.
<1>1. ASSUME NEW q \in Req, req'[q] = req[q],
             \A r \in Req : req[r].op # "setup"
      PROVE  /\ req'[q].stage = "fetch" => FetchOf(q)'
             /\ req'[q].stage = "enable" /\ record' = "pending" => Recoverable(req[q].code[1])'
  <2>1. /\ \A n \in Node : shares'[n] \in {shares[n], NoSecret}
        /\ record' = "pending" => record = "pending" /\ shares' = shares
    BY <1>1, ShrinkStep
  <2>2. ASSUME req[q].stage = "fetch" PROVE FetchOf(q)'
    <3>1. FetchOf(q)
      BY <2>2 DEF FetchInv
    <3>2. \A t \in req[q].got : \E n \in Node : shares'[n] \in {t, NoSecret}
      BY <3>1, <2>1 DEF FetchOf
    <3> QED
      BY <3>1, <3>2, <2>1, <1>1 DEF FetchOf
  <2>3. ASSUME req[q].stage = "enable", record' = "pending"
        PROVE  Recoverable(req[q].code[1])'
    BY <2>1, <2>3, <1>1 DEF FetchInv, Recoverable, Holders
  <2> QED
    BY <1>1, <2>2, <2>3
\* The request that moves is not there to prove a code, or has not begun.
<1>2. ASSUME NEW r \in Req, Others(r), \A q \in Req : req[q].op # "setup",
             req'[r].stage \notin {"fetch", "enable"}
      PROVE  FetchInv'
  BY <1>1, <1>2 DEF FetchInv, Others
\* A Setup moves: all the others are idle.
<1>3. ASSUME NEW r \in Req, Others(r), req[r].stage \in SetupStage,
             req'[r].stage \in SetupStage \cup {"idle"}
      PROVE  FetchInv'
  <2>1. \A q \in Req : q # r => req'[q].stage = "idle"
    BY <1>3, <1>req DEF OpOfStage, SetupAlone, Others
  <2> QED
    BY <1>3, <2>1 DEF FetchInv, SetupStage
<1>4. ASSUME NEW r \in Req, req[r].stage \notin SetupStage \cup {"idle"}
      PROVE  \A q \in Req : req[q].op # "setup"
  BY <1>4, <1>req DEF OpOfStage, SetupAlone
<1>5. ASSUME NEW r \in Req, SetupBegin(r) PROVE FetchInv'
  <2>1. \E s \in Secret : Start(r, "setup", "store", <<s, 0>>)
    BY <1>5 DEF SetupBegin
  <2>2. Others(r) /\ req'[r].stage = "store"
    BY <2>1, <1>req, StartEffect
  <2>3. UNCHANGED <<shares, record>>
    BY <1>5 DEF SetupBegin, mpcVars
  <2> QED
    BY <2>2, <2>3 DEF FetchInv, FetchOf, Others, Recoverable, Holders
<1>6. ASSUME NEW r \in Req, VerifyBegin(r) \/ DisableBegin(r) PROVE FetchInv'
  <2>1. \E op \in {"verify", "disable"}, stage \in {"fetch", "lookup"}, c \in Presentable :
          Start(r, op, stage, c)
    BY <1>6 DEF VerifyBegin, DisableBegin, BeginProof
  <2>2. /\ Others(r) /\ req'[r].stage \in {"fetch", "lookup"} /\ req'[r].got = {}
        /\ \A n \in Node : req'[r].call[n] = "todo"
    BY <2>1, <1>req, StartEffect
  <2>3. UNCHANGED <<shares, record>>
    BY <1>6 DEF VerifyBegin, DisableBegin, BeginProof, mpcVars
  <2>4. FetchOf(r)'
    BY <2>2 DEF FetchOf
  <2> QED
    BY <2>2, <2>3, <2>4 DEF FetchInv, FetchOf, Others, Recoverable, Holders
<1>7. ASSUME NEW r \in Req, NEW n \in Node, SetupStore(r, n) \/ SetupUndo(r, n)
      PROVE  FetchInv'
  <2>1. (\E ok \in BOOLEAN : Returned(r, n, ok)) \/ Finish(r, "failed")
    BY <1>7 DEF SetupStore, SetupUndo
  <2>2. req[r].stage \in {"store", "undo"}
    BY <1>7 DEF SetupStore, SetupUndo, At
  <2> QED
    BY <2>1, <2>2, <1>3, <1>req, ReturnedEffect, FinishEffect DEF SetupStage
<1>8. ASSUME NEW r \in Req,
             \/ SetupStored(r) \/ CreateTwoFARecord(r) \/ StoreBatchBackupCodes(r)
             \/ SetupReply(r)
      PROVE  FetchInv'
  <2>1. (\E stage \in SetupStage : Goto(r, stage)) \/ (\E a \in Answer : Finish(r, a))
    BY <1>8 DEF SetupStored, CreateTwoFARecord, StoreBatchBackupCodes, SetupReply,
                SetupStage, Answer
  <2>2. req[r].stage \in SetupStage
    BY <1>8 DEF SetupStored, CreateTwoFARecord, StoreBatchBackupCodes, SetupReply, At,
                SetupStage
  <2> QED
    BY <2>1, <2>2, <1>3, <1>req, GotoEffect, FinishEffect
\* One more answer.
<1>9. ASSUME NEW r \in Req, NEW n \in Node, FetchShare(r, n) \/ FetchFails(r, n)
      PROVE  FetchInv'
  <2>1. req[r].stage = "fetch" /\ UNCHANGED <<shares, record>>
    BY <1>9 DEF FetchShare, FetchFails, Fetching, At, mpcVars
  <2>2. FetchOf(r)
    BY <2>1 DEF FetchInv
  <2>3. CASE FetchShare(r, n)
    <3>1. /\ Others(r) /\ req'[r].stage = "fetch"
          /\ shares[n] \in Secret /\ req'[r].got = req[r].got \cup {shares[n]}
          /\ req'[r].call[n] = "ok"
          /\ \A m \in Node : m # n => req'[r].call[m] = req[r].call[m]
      BY <2>3, <1>req, FetchEffect
    <3>2. FetchOf(r)'
      BY <3>1, <2>1, <2>2, MpcAssumption DEF FetchOf
    <3> QED
      BY <3>1, <3>2, <2>1, <1>1, <1>4 DEF FetchInv, Others, SetupStage
  <2>4. CASE FetchFails(r, n)
    <3>1. Returned(r, n, FALSE) /\ RetrieveFails(n)
      BY <2>4 DEF FetchFails
    <3>2. /\ Others(r) /\ req'[r].stage = "fetch" /\ req'[r].got = req[r].got
          /\ req'[r].call[n] = "err"
          /\ \A m \in Node : m # n => req'[r].call[m] = req[r].call[m]
      BY <3>1, <2>1, <1>req, ReturnedEffect
    <3>3. FetchOf(r)'
      BY <3>1, <3>2, <2>1, <2>2 DEF FetchOf, RetrieveFails, Faulty
    <3> QED
      BY <3>2, <3>3, <2>1, <1>1, <1>4 DEF FetchInv, Others, SetupStage
  <2> QED
    BY <1>9, <2>3, <2>4
\* The code matches: Threshold nodes hold shares of its secret, and no Disable
\* is there to delete them while the record is pending.
<1>10. ASSUME NEW r \in Req, CheckOTP(r) PROVE FetchInv'
  <2>1. req[r].stage = "fetch" /\ UNCHANGED <<shares, record>>
    BY <1>10 DEF CheckOTP, At, mpcVars
  <2>2. \A q \in Req : req[q].op # "setup"
    BY <2>1, <1>4 DEF SetupStage
  <2>3. CASE (\E a \in Answer : Finish(r, a)) \/ Goto(r, "erase")
    <3>1. Others(r) /\ req'[r].stage \in {"idle", "erase"}
      BY <2>3, <1>req, FinishEffect, GotoEffect
    <3> QED
      BY <3>1, <2>2, <1>2
  <2>4. CASE MatchesOTP(r) /\ Goto(r, "enable")
    <3>1. Others(r) /\ req'[r].stage = "enable" /\ req'[r].code = req[r].code
      BY <2>4, <1>req, GotoEffect
    <3>2. ASSUME record = "pending" PROVE Recoverable(req[r].code[1])
      <4>1. FetchOf(r) /\ req[r].got = {req[r].code[1]}
        BY <2>1, <2>4 DEF FetchInv, MatchesOTP
      <4>2. Succeeded(r) \in SUBSET Holders(req[r].code[1])
        BY <4>1, <3>2 DEF FetchOf, Succeeded, Holders
      <4>3. Holders(req[r].code[1]) \in SUBSET Node
        BY DEF Holders
      <4>4. Cardinality(Succeeded(r)) <= Cardinality(Holders(req[r].code[1]))
        BY <4>2, <4>3, NodeSets
      <4>5. Cardinality(Succeeded(r)) = Threshold
        BY <1>10 DEF CheckOTP, Combined
      <4> QED
        BY <4>4, <4>5 DEF Recoverable
    <3>3. record' = "pending" => Recoverable(req[r].code[1])'
      BY <3>1, <3>2, <2>1 DEF Recoverable, Holders
    <3> QED
      BY <3>1, <3>3, <2>2, <1>1 DEF FetchInv, Others
  <2> QED
    BY <1>10, <2>3, <2>4 DEF CheckOTP, Accepted, Answer
<1>11. ASSUME NEW r \in Req, NEW n \in Node, EraseShare(r, n) PROVE FetchInv'
  <2>1. \E ok \in BOOLEAN : Returned(r, n, ok)
    BY <1>11 DEF EraseShare
  <2>2. Others(r) /\ req[r].stage = "erase" /\ req'[r].stage = "erase"
    BY <1>11, <2>1, <1>req, ReturnedEffect DEF EraseShare, At
  <2> QED
    BY <2>2, <1>2, <1>4 DEF SetupStage
<1>12. ASSUME NEW r \in Req,
              \/ InsufficientShares(r) \/ LookupBackupCode(r) \/ MarkBackupCodeUsed(r)
              \/ EnableTwoFA(r) \/ SharesErased(r) \/ DeleteBackupCodes(r)
              \/ DeleteTwoFARecord(r)
       PROVE  FetchInv'
  <2>1. req[r].stage \in {"fetch", "lookup", "mark", "enable", "erase", "dropCodes",
                          "dropRecord"}
    BY <1>12 DEF InsufficientShares, LookupBackupCode, MarkBackupCodeUsed, EnableTwoFA,
                 SharesErased, DeleteBackupCodes, DeleteTwoFARecord, At
  <2>2. \/ \E a \in Answer : Finish(r, a)
        \/ \E stage \in {"mark", "erase", "dropCodes", "dropRecord"} : Goto(r, stage)
    BY <1>12 DEF InsufficientShares, LookupBackupCode, MarkBackupCodeUsed, EnableTwoFA,
                 SharesErased, DeleteBackupCodes, DeleteTwoFARecord, Accepted, At, Answer
  <2>3. Others(r) /\ req'[r].stage \notin {"fetch", "enable"}
    BY <2>2, <1>req, FinishEffect, GotoEffect
  <2> QED
    BY <2>1, <2>3, <1>2, <1>4 DEF SetupStage
<1>13. ASSUME NEW r \in Req, Stop(r) PROVE FetchInv'
  <2>1. Others(r) /\ req'[r].stage = "idle" /\ UNCHANGED <<shares, record>>
    BY <1>13, <1>req, FinishEffect DEF Stop, mpcVars
  <2> QED
    BY <2>1 DEF FetchInv, FetchOf, Others, Recoverable, Holders
<1>14. CASE UNCHANGED vars \/ Network
  <2>1. UNCHANGED <<shares, record, req>>
    BY <1>14 DEF vars, Network, DeliverLate, LoseLate, CalmDown, SharesInv
  <2> QED
    BY <2>1 DEF FetchInv, FetchOf, Recoverable, Holders
<1> QED
  BY <1>5, <1>6, <1>7, <1>8, <1>9, <1>10, <1>11, <1>12, <1>13, <1>14 DEF Next, Proceed

\* A request knows where the shares it fetched are, in every reachable state.
THEOREM FetchInvariant ==
  ASSUME "setup" \notin Concurrent, MaxLate = 0
  PROVE  Spec => []FetchInv
<1>1. Init => FetchInv
  BY DEF Init, FetchInv, Idle
<1>2. AloneInv /\ PhaseInv /\ SharesInv /\ FetchInv /\ [Next]_vars => FetchInv'
  BY FetchInvStep
<1> QED
  BY <1>1, <1>2, SetupRunsAlone, PhaseInvariant, SharesInvariant, PTL DEF Spec

\* Only EnableTwoFA sets the flag, and only of a record that is there.
LEMMA OnlyPendingIsEnabled ==
  ASSUME TypeOK, [Next]_vars, record # "enabled", record' = "enabled"
  PROVE  record = "pending"
<1>1. ASSUME NEW r \in Req, EnableTwoFA(r) PROVE record = "pending"
  BY <1>1 DEF EnableTwoFA, TypeOK, Status
<1>2. CASE UNCHANGED vars \/ Network
  BY <1>2 DEF vars, Network
<1>3. ASSUME NEW r \in Req, SetupBegin(r) \/ VerifyBegin(r) \/ DisableBegin(r)
      PROVE  FALSE
  BY <1>3 DEF SetupBegin, VerifyBegin, DisableBegin, BeginProof
<1>4. ASSUME NEW r \in Req, NEW n \in Node,
             \/ SetupStore(r, n) \/ SetupUndo(r, n) \/ FetchShare(r, n)
             \/ FetchFails(r, n) \/ EraseShare(r, n)
      PROVE  FALSE
  BY <1>4 DEF SetupStore, SetupUndo, FetchShare, FetchFails, EraseShare
<1>5. ASSUME NEW r \in Req,
             \/ SetupStored(r) \/ CreateTwoFARecord(r) \/ StoreBatchBackupCodes(r)
             \/ SetupReply(r) \/ InsufficientShares(r) \/ CheckOTP(r)
             \/ LookupBackupCode(r) \/ MarkBackupCodeUsed(r) \/ SharesErased(r)
             \/ DeleteBackupCodes(r) \/ DeleteTwoFARecord(r) \/ Stop(r)
      PROVE  FALSE
  BY <1>5 DEF SetupStored, CreateTwoFARecord, StoreBatchBackupCodes, SetupReply,
              InsufficientShares, CheckOTP, LookupBackupCode, MarkBackupCodeUsed,
              SharesErased, DeleteBackupCodes, DeleteTwoFARecord, Stop
<1> QED
  BY <1>1, <1>2, <1>3, <1>4, <1>5 DEF Next, Proceed

\* The secret a Verify enables is held by enough nodes at that moment, although
\* its shares were fetched long before: nothing may take them away while the
\* record is pending.
THEOREM EnabledSecretIsProved ==
  ASSUME "setup" \notin Concurrent, MaxLate = 0
  PROVE  Spec => EnableProvesSecret
<1> DEFINE Proved ==
      \A r \in Req : record # "enabled" /\ record' = "enabled" /\ At(r, "enable")
                       /\ ~(At(r, "enable"))'
        => Recoverable(req[r].code[1])
<1>1. TypeOK /\ FetchInv /\ [Next]_vars => [Proved]_vars
  BY OnlyPendingIsEnabled DEF FetchInv, At
<1> QED
  BY <1>1, TypeCorrectness, FetchInvariant, PTL DEF Spec, EnableProvesSecret

\* Nothing but a delete takes a share from an enabled user, of a Disable whose code
\* was accepted or one its caller gave up on before, however many of those there
\* are: no Setup runs then, a late store leaves the row that is there, and the
\* rest of the handlers leave the nodes alone.
THEOREM FactorOnlyDisabled ==
  ASSUME "setup" \notin Concurrent
  PROVE  Spec => OnlyDisableTakesApart
<1> DEFINE Apart ==
      \A n \in Node :
        record = "enabled" /\ shares[n] \in delivered /\ shares'[n] # shares[n]
          => \/ \E r \in Req : req[r].op = "disable" /\ At(r, "erase")
             \/ \E c \in late \ late' : c.kind = "delete" /\ c.node = n
<1>1. AloneInv /\ PhaseInv /\ [Next]_vars => [Apart]_vars
  <2> SUFFICES ASSUME AloneInv, PhaseInv, [Next]_vars, record = "enabled",
                      NEW n \in Node, shares[n] \in delivered, shares'[n] # shares[n]
               PROVE  \/ \E r \in Req : req[r].op = "disable" /\ At(r, "erase")
                      \/ \E c \in late \ late' : c.kind = "delete" /\ c.node = n
    OBVIOUS
  <2>req. /\ OpOfStage /\ \A r \in Req : req[r].stage \notin SetupStage
          /\ shares[n] # NoSecret /\ late \subseteq Call
          /\ shares \in [Node -> Secret \cup {NoSecret}]
    BY MpcAssumption
    DEF AloneInv, PhaseInv, OpOfStage, TypeInv, TypeOK, MpcTypeOK
  <2>1. ASSUME NEW r \in Req, NEW m \in Node, EraseShare(r, m)
        PROVE  req[r].op = "disable" /\ At(r, "erase")
    BY <2>1, <2>req DEF EraseShare, At, OpOfStage
  <2>2. CASE Network
    <3>1. PICK c \in late : Execute(c) /\ late' = late \ {c}
      BY <2>2 DEF Network, DeliverLate, LoseLate, CalmDown
    <3>2. c.kind # "store"
      BY <2>req, <3>1 DEF Execute, CreateShare
    <3>3. c.node = n
      BY <2>req, <3>1, <3>2 DEF Execute, DeleteSharesByUserID
    <3> QED
      BY <2>req, <3>1, <3>2, <3>3 DEF Execute
  <2>3. ASSUME NEW r \in Req, NEW m \in Node, SetupStore(r, m) \/ SetupUndo(r, m)
        PROVE  FALSE
    BY <2>3, <2>req DEF SetupStore, SetupUndo, At, SetupStage
  <2>4. ASSUME NEW r \in Req, NEW m \in Node, FetchShare(r, m) \/ FetchFails(r, m)
        PROVE  FALSE
    BY <2>4 DEF FetchShare, FetchFails, mpcVars
  <2>5. ASSUME NEW r \in Req, SetupBegin(r) \/ VerifyBegin(r) \/ DisableBegin(r)
        PROVE  FALSE
    BY <2>5 DEF SetupBegin, VerifyBegin, DisableBegin, BeginProof, mpcVars
  <2>6. ASSUME NEW r \in Req,
               \/ SetupStored(r) \/ CreateTwoFARecord(r) \/ StoreBatchBackupCodes(r)
               \/ SetupReply(r) \/ InsufficientShares(r) \/ CheckOTP(r)
               \/ LookupBackupCode(r) \/ MarkBackupCodeUsed(r) \/ EnableTwoFA(r)
               \/ SharesErased(r) \/ DeleteBackupCodes(r) \/ DeleteTwoFARecord(r)
               \/ Stop(r)
        PROVE  FALSE
    BY <2>6 DEF SetupStored, CreateTwoFARecord, StoreBatchBackupCodes, SetupReply,
                InsufficientShares, CheckOTP, LookupBackupCode, MarkBackupCodeUsed,
                EnableTwoFA, SharesErased, DeleteBackupCodes, DeleteTwoFARecord, Stop,
                mpcVars
  <2>7. CASE UNCHANGED vars
    BY <2>7 DEF vars
  <2> QED
    BY <2>1, <2>2, <2>3, <2>4, <2>5, <2>6, <2>7 DEF Next, Proceed
<1> QED
  BY <1>1, SetupRunsAlone, PhaseInvariant, PTL DEF Spec, OnlyDisableTakesApart

\* What the stages of a proof say of the code that is being proved: shares are
\* fetched for the current code of a secret, rows are looked up for a backup
\* code, and only a Verify goes on to enable.
ProofStage ==
  \A r \in Req :
    /\ req[r].stage \in {"lookup", "mark"} => req[r].code[2] # 0
    /\ req[r].stage = "enable" => req[r].op = "verify"

\* Every step keeps stage and code of a proof in agreement.
LEMMA ProofStageStep == AloneInv /\ ProofStage /\ [Next]_vars => ProofStage'
<1> SUFFICES ASSUME AloneInv, ProofStage, [Next]_vars PROVE ProofStage'
  OBVIOUS
<1>req. req \in [Req -> Request] /\ OpOfStage
  BY DEF AloneInv, TypeInv, TypeOK
<1>1. ASSUME NEW r \in Req, Others(r), req'[r].stage \notin {"lookup", "mark", "enable"}
      PROVE  ProofStage'
  BY <1>1 DEF ProofStage, Others
<1>2. ASSUME NEW r \in Req, SetupBegin(r) PROVE ProofStage'
  <2>1. \E s \in Secret : Start(r, "setup", "store", <<s, 0>>)
    BY <1>2 DEF SetupBegin
  <2> QED
    BY <2>1, <1>1, <1>req, StartEffect
<1>3. ASSUME NEW r \in Req, VerifyBegin(r) \/ DisableBegin(r) PROVE ProofStage'
  <2>1. PICK op \in {"verify", "disable"} : \E c \in Presentable :
          Start(r, op, IF c[2] = 0 THEN "fetch" ELSE "lookup", c)
    BY <1>3 DEF VerifyBegin, DisableBegin, BeginProof
  <2>2. PICK c \in Presentable : Start(r, op, IF c[2] = 0 THEN "fetch" ELSE "lookup", c)
    BY <2>1
  <2>3. /\ Others(r) /\ req'[r].code = c
        /\ req'[r].stage = IF c[2] = 0 THEN "fetch" ELSE "lookup"
    BY <2>2, <1>req, StartEffect
  <2> QED
    BY <2>3 DEF ProofStage, Others
<1>4. ASSUME NEW r \in Req, NEW n \in Node,
             \/ SetupStore(r, n) \/ SetupUndo(r, n) \/ FetchFails(r, n)
             \/ EraseShare(r, n) \/ FetchShare(r, n)
      PROVE  ProofStage'
  <2>1. (\E ok \in BOOLEAN : Returned(r, n, ok)) \/ Finish(r, "failed") \/ FetchShare(r, n)
    BY <1>4 DEF SetupStore, SetupUndo, FetchFails, EraseShare
  <2>2. req[r].stage \in {"store", "undo", "fetch", "erase"}
    BY <1>4 DEF SetupStore, SetupUndo, FetchFails, EraseShare, FetchShare, Fetching, At
  <2> QED
    BY <2>1, <2>2, <1>1, <1>req, ReturnedEffect, FinishEffect, FetchEffect
<1>5. ASSUME NEW r \in Req, CheckOTP(r) \/ LookupBackupCode(r) \/ MarkBackupCodeUsed(r)
      PROVE  ProofStage'
  <2>1. \/ \E a \in Answer : Finish(r, a)
        \/ Goto(r, "erase")
        \/ Goto(r, "enable") /\ req[r].stage = "fetch" /\ req[r].op # "disable"
        \/ Goto(r, "mark") /\ req[r].stage = "lookup"
    BY <1>5 DEF CheckOTP, LookupBackupCode, MarkBackupCodeUsed, Accepted, At, Answer
  <2>2. CASE (\E a \in Answer : Finish(r, a)) \/ Goto(r, "erase")
    BY <2>2, <1>1, <1>req, FinishEffect, GotoEffect
  <2>3. CASE Goto(r, "enable") /\ req[r].stage = "fetch" /\ req[r].op # "disable"
    <3>1. req[r].op = "verify"
      BY <2>3, <1>req DEF OpOfStage, SetupStage, Request
    <3>2. Others(r) /\ req'[r].stage = "enable" /\ req'[r].op = "verify"
      BY <2>3, <3>1, <1>req, GotoEffect
    <3> QED
      BY <3>2 DEF ProofStage, Others
  <2>4. CASE Goto(r, "mark") /\ req[r].stage = "lookup"
    <3>1. Others(r) /\ req'[r].stage = "mark" /\ req'[r].code = req[r].code
      BY <2>4, <1>req, GotoEffect
    <3> QED
      BY <2>4, <3>1 DEF ProofStage, Others
  <2> QED
    BY <2>1, <2>2, <2>3, <2>4
<1>6. ASSUME NEW r \in Req,
             \/ SetupStored(r) \/ CreateTwoFARecord(r) \/ StoreBatchBackupCodes(r)
             \/ SetupReply(r) \/ InsufficientShares(r) \/ EnableTwoFA(r)
             \/ SharesErased(r) \/ DeleteBackupCodes(r) \/ DeleteTwoFARecord(r)
             \/ Stop(r)
      PROVE  ProofStage'
  <2>1. \/ \E a \in Answer : Finish(r, a)
        \/ \E stage \in SetupStage \cup {"dropCodes", "dropRecord"} : Goto(r, stage)
    BY <1>6 DEF SetupStored, CreateTwoFARecord, StoreBatchBackupCodes, SetupReply,
                InsufficientShares, EnableTwoFA, SharesErased, DeleteBackupCodes,
                DeleteTwoFARecord, Stop, Answer, SetupStage
  <2>2. Others(r) /\ req'[r].stage \in SetupStage \cup {"dropCodes", "dropRecord", "idle"}
    BY <2>1, <1>req, FinishEffect, GotoEffect
  <2> QED
    BY <2>2, <1>1 DEF SetupStage
<1>7. CASE UNCHANGED vars \/ Network
  BY <1>7 DEF vars, Network, ProofStage
<1> QED
  BY <1>2, <1>3, <1>4, <1>5, <1>6, <1>7 DEF Next, Proceed

\* Stage and code of a proof agree in every reachable state.
THEOREM ProofStageInvariant ==
  ASSUME "setup" \notin Concurrent
  PROVE  Spec => []ProofStage
<1>1. Init => ProofStage
  BY DEF Init, ProofStage, Idle
<1>2. AloneInv /\ ProofStage /\ [Next]_vars => ProofStage'
  BY ProofStageStep
<1> QED
  BY <1>1, <1>2, SetupRunsAlone, PTL DEF Spec

\* Only three steps turn a code down, and each is a step of the request itself.
LEMMA CodeTurnedDown ==
  ASSUME AloneInv, [Next]_vars, NEW r \in Req, req[r].op # "none",
         req'[r].op = "none", req'[r].answer \in {"invalid", "insufficient"}
  PROVE  InsufficientShares(r) \/ (CheckOTP(r) /\ ~MatchesOTP(r)) \/ LookupBackupCode(r)
<1>req. req \in [Req -> Request] /\ OpOfStage
  BY DEF AloneInv, TypeInv, TypeOK
\* A step of another request, or one that answers something else.
<1>1. ASSUME NEW q \in Req, Others(q),
             q # r \/ req'[q].op # "none"
               \/ req'[q].answer \notin {"invalid", "insufficient"}
      PROVE  FALSE
  BY <1>1 DEF Others
<1>2. ASSUME NEW q \in Req, SetupBegin(q) \/ VerifyBegin(q) \/ DisableBegin(q)
      PROVE  FALSE
  <2>1. \E op \in {"setup", "verify", "disable"} : \E stage, c : Start(q, op, stage, c)
    BY <1>2 DEF SetupBegin, VerifyBegin, DisableBegin, BeginProof
  <2> QED
    BY <2>1, <1>1, <1>req, StartEffect
<1>3. ASSUME NEW q \in Req, NEW n \in Node,
             \/ SetupStore(q, n) \/ SetupUndo(q, n) \/ FetchFails(q, n)
             \/ EraseShare(q, n) \/ FetchShare(q, n)
      PROVE  FALSE
  <2>1. (\E ok \in BOOLEAN : Returned(q, n, ok)) \/ Finish(q, "failed") \/ FetchShare(q, n)
    BY <1>3 DEF SetupStore, SetupUndo, FetchFails, EraseShare
  <2>2. /\ Others(q)
        /\ req'[q].op = req[q].op \/ req'[q].answer = "failed"
    BY <2>1, <1>req, ReturnedEffect, FinishEffect, FetchEffect
  <2> QED
    BY <2>2, <1>1
<1>4. ASSUME NEW q \in Req, q # r \/ ~(CheckOTP(q) /\ ~MatchesOTP(q)),
             \/ SetupStored(q) \/ CreateTwoFARecord(q) \/ StoreBatchBackupCodes(q)
             \/ SetupReply(q) \/ CheckOTP(q) \/ MarkBackupCodeUsed(q) \/ EnableTwoFA(q)
             \/ SharesErased(q) \/ DeleteBackupCodes(q) \/ DeleteTwoFARecord(q)
             \/ Stop(q)
      PROVE  FALSE
  <2>1. \/ \E a \in Answer : /\ Finish(q, a)
                             /\ q # r \/ a \notin {"invalid", "insufficient"}
        \/ \E stage \in Stage : Goto(q, stage)
    BY <1>4 DEF SetupStored, CreateTwoFARecord, StoreBatchBackupCodes, SetupReply,
                CheckOTP, MarkBackupCodeUsed, EnableTwoFA, SharesErased,
                DeleteBackupCodes, DeleteTwoFARecord, Stop, Accepted, Answer, Stage
  <2>2. CASE \E stage \in Stage : Goto(q, stage)
    <3>1. Others(q) /\ req'[q].op = req[q].op
      BY <2>2, <1>req, GotoEffect
    <3> QED
      BY <3>1, <1>1
  <2>3. ASSUME NEW a \in Answer, Finish(q, a),
               q # r \/ a \notin {"invalid", "insufficient"}
        PROVE  FALSE
    <3>1. Others(q) /\ req'[q].answer = a
      BY <2>3, <1>req, FinishEffect
    <3> QED
      BY <2>3, <3>1, <1>1
  <2> QED
    BY <2>1, <2>2, <2>3
<1>5. ASSUME NEW q \in Req, q # r, InsufficientShares(q) \/ LookupBackupCode(q)
      PROVE  FALSE
  <2>1. (\E a \in Answer : Finish(q, a)) \/ Goto(q, "mark")
    BY <1>5 DEF InsufficientShares, LookupBackupCode, Answer
  <2>2. Others(q)
    BY <2>1, <1>req, FinishEffect, GotoEffect
  <2> QED
    BY <1>5, <2>2, <1>1
<1>6. CASE UNCHANGED vars \/ Network
  BY <1>6 DEF vars, Network
<1> QED
  BY <1>2, <1>3, <1>4, <1>5, <1>6 DEF Next, Proceed

\* Where at most NodeCount - Threshold nodes are faulty, the current code of the
\* secret that all nodes hold is never called invalid or given up for lack of
\* shares: what a request fetched before is still what the nodes hold.
THEOREM ValidCodesAccepted ==
  ASSUME "setup" \notin Concurrent, MaxLate = 0,
         Cardinality(FaultyNode) <= NodeCount - Threshold
  PROVE  Spec => ValidCodeAccepted
<1> DEFINE Refused(r, op) == Answers(r, op, "invalid") \/ Answers(r, op, "insufficient")
<1> DEFINE Valid ==
      \A r \in Req, op \in {"verify", "disable"} :
        Refused(r, op) => \A s \in Secret : req[r].code = <<s, 0>> => Holders(s) # Node
<1>1. AloneInv /\ ProofStage /\ FetchInv /\ [Next]_vars => [Valid]_vars
  <2> SUFFICES ASSUME AloneInv, ProofStage, FetchInv, [Next]_vars, NEW r \in Req,
                      NEW op \in {"verify", "disable"}, Refused(r, op),
                      NEW s \in Secret, req[r].code = <<s, 0>>, Holders(s) = Node
               PROVE  FALSE
    OBVIOUS
  <2>req. /\ req \in [Req -> Request] /\ req[r].op = op
          /\ req'[r].op = "none" /\ req'[r].answer \in {"invalid", "insufficient"}
    BY DEF AloneInv, TypeInv, TypeOK, Answers
  <2>hold. \A n \in Node : shares[n] = s
    BY DEF Holders
  <2>some. 1 \in Node /\ NoSecret # s
    BY MpcAssumption DEF Node
  <2>1. CASE InsufficientShares(r)
    <3>1. Failures(r) \in SUBSET FaultyNode
      BY <2>1, <2>hold, <2>some
      DEF InsufficientShares, At, FetchInv, FetchOf, Failures
    <3>2. FaultyNode \in SUBSET Node
      BY MpcAssumption
    <3>3. Cardinality(Failures(r)) <= Cardinality(FaultyNode)
      BY <3>1, <3>2, NodeSets
    <3>4. Cardinality(Failures(r)) \in Nat /\ Cardinality(FaultyNode) \in Nat
      BY <3>1, <3>2, NodeSets
    <3>5. Cardinality(Failures(r)) > NodeCount - Threshold
      BY <2>1 DEF InsufficientShares
    <3> QED
      BY <3>3, <3>4, <3>5, MpcAssumption, TwoFAAssumption
  <2>2. CASE CheckOTP(r) /\ ~MatchesOTP(r)
    <3>1. FetchOf(r)
      BY <2>2 DEF FetchInv, CheckOTP, At
    <3>2. \A t \in req[r].got : t = s
      BY <3>1, <2>hold, <2>some DEF FetchOf
    <3>3. Succeeded(r) # {}
      <4>1. Cardinality(Succeeded(r)) = Threshold
        BY <2>2 DEF CheckOTP, Combined
      <4> QED
        BY <4>1, FS_EmptySet, TwoFAAssumption
    <3>4. req[r].got # {}
      BY <3>1, <3>3 DEF FetchOf, Succeeded
    <3>5. req[r].got = {s}
      BY <3>2, <3>4
    <3> QED
      BY <2>2, <3>5 DEF MatchesOTP
  <2>3. CASE LookupBackupCode(r)
    BY <2>3 DEF LookupBackupCode, At, ProofStage
  <2> QED
    BY <2>1, <2>2, <2>3, <2>req, CodeTurnedDown
<1> QED
  BY <1>1, SetupRunsAlone, ProofStageInvariant, FetchInvariant, PTL
  DEF Spec, ValidCodeAccepted

-----------------------------------------------------------------------------
(* What a failed Setup leaves behind, when no call executes after its       *)
(* caller gave up (MaxLate = 0), Setup runs alone, and it is not cut short  *)
(* between its first share and its record.                                 *)

\* Without a record, a node that never fails holds a share only while a Setup
\* is storing shares or has yet to take this one back.
UnderWay(r, n) ==
  \/ req[r].stage \in {"store", "create"}
  \/ req[r].stage = "undo" /\ Pending(r, n)

OrphanInv ==
  record = "absent" =>
    \A n \in Reliable : shares[n] = NoSecret \/ \E r \in Req : UnderWay(r, n)

\* Every step leaves no share on a reliable node without someone to account for
\* it.
LEMMA OrphanInvStep ==
  ASSUME MaxLate = 0, StopsAt \cap {"store", "undo", "create"} = {}
  PROVE  AloneInv /\ RecordInv /\ SharesInv /\ OrphanInv /\ [Next]_vars => OrphanInv'
<1> SUFFICES ASSUME AloneInv, RecordInv, SharesInv, OrphanInv, [Next]_vars,
                    record' = "absent", NEW n \in Reliable, shares'[n] # NoSecret
             PROVE  \E r \in Req : UnderWay(r, n)'
  BY DEF OrphanInv
<1>req. /\ req \in [Req -> Request] /\ OpOfStage /\ SetupAlone /\ MpcTypeOK
        /\ late = {} /\ n \in Node /\ n \notin FaultyNode
  BY DEF AloneInv, TypeInv, TypeOK, SharesInv, Reliable
<1> USE DEF UnderWay, Pending
\* The request that moves accounts for nothing, and writes no share.
<1>1. ASSUME NEW r \in Req, Others(r), record' = record,
             shares'[n] \in {shares[n], NoSecret},
             req[r].stage \notin {"store", "create", "undo"}
      PROVE  \E q \in Req : UnderWay(q, n)'
  <2>1. PICK q \in Req : UnderWay(q, n)
    BY <1>1 DEF OrphanInv
  <2> QED
    BY <1>1, <2>1 DEF Others
<1>2. ASSUME NEW r \in Req, SetupBegin(r) PROVE \E q \in Req : UnderWay(q, n)'
  <2>1. \E s \in Secret : Start(r, "setup", "store", <<s, 0>>)
    BY <1>2 DEF SetupBegin
  <2>2. req'[r].stage = "store"
    BY <2>1, <1>req, StartEffect
  <2> QED
    BY <2>2
<1>3. ASSUME NEW r \in Req, VerifyBegin(r) \/ DisableBegin(r)
      PROVE  \E q \in Req : UnderWay(q, n)'
  <2>1. /\ At(r, "idle")
        /\ \E op \in {"verify", "disable"} : \E stage, c : Start(r, op, stage, c)
    BY <1>3 DEF VerifyBegin, DisableBegin, BeginProof, MayStart
  <2>2. Others(r) /\ req[r].stage = "idle"
    BY <2>1, <1>req, StartEffect DEF At
  <2>3. UNCHANGED <<shares, record>>
    BY <1>3 DEF VerifyBegin, DisableBegin, BeginProof, mpcVars
  <2> QED
    BY <2>2, <2>3, <1>1
<1>4. ASSUME NEW r \in Req, NEW m \in Node, SetupStore(r, m)
      PROVE  \E q \in Req : UnderWay(q, n)'
  <2>1. (\E ok \in BOOLEAN : Returned(r, m, ok)) /\ req[r].stage = "store"
    BY <1>4 DEF SetupStore, At
  <2>2. req'[r].stage = "store"
    BY <2>1, <1>req, ReturnedEffect
  <2> QED
    BY <2>2
\* The rollback: a reliable node that was asked to delete its share did, and the
\* last node is asked when all the others were.
<1>5. ASSUME NEW r \in Req, NEW m \in Node, SetupUndo(r, m)
      PROVE  \E q \in Req : UnderWay(q, n)'
  <2>1. PICK ok \in BOOLEAN :
          /\ DeleteShare(m, ok, Faulty(m))
          /\ IF m = NodeCount THEN Finish(r, "failed") ELSE Returned(r, m, ok)
    BY <1>5 DEF SetupUndo
  <2>2. /\ req[r].stage = "undo" /\ record' = record
        /\ \A k \in 1..(m - 1) : req[r].call[k] # "todo"
    BY <1>5 DEF SetupUndo, At
  <2>3. m \notin FaultyNode => ok
    BY <2>1 DEF DeleteShare, Faulty
  <2>4. /\ ok => shares'[m] = NoSecret
        /\ shares'[n] \in {shares[n], NoSecret}
    BY <2>1, <1>req, DeleteShareEffect
  <2>5. n # m /\ shares[n] # NoSecret
    BY <2>3, <2>4, <1>req
  <2>6. req[r].call[n] = "todo"
    <3>1. PICK q \in Req : UnderWay(q, n)
      BY <2>2, <2>5 DEF OrphanInv
    <3>2. q = r
      BY <3>1, <2>2, <1>req DEF OpOfStage, SetupAlone, SetupStage
    <3> QED
      BY <3>1, <3>2, <2>2
  <2>7. n \in 1..NodeCount /\ m \in 1..NodeCount /\ n \notin 1..(m - 1)
    BY <2>2, <2>6, <1>req DEF Node
  <2>8. Returned(r, m, ok)
    BY <2>1, <2>5, <2>7, MpcAssumption
  <2>9. req'[r].stage = "undo" /\ req'[r].call[n] = "todo"
    BY <2>2, <2>5, <2>6, <2>8, <1>req, ReturnedEffect
  <2> QED
    BY <2>9
<1>6. ASSUME NEW r \in Req, NEW m \in Node, EraseShare(r, m)
      PROVE  \E q \in Req : UnderWay(q, n)'
  <2>1. PICK ok \in BOOLEAN :
          /\ DeleteShare(m, ok, Faulty(m) \/ Cancelled(r))
          /\ Returned(r, m, ok)
    BY <1>6 DEF EraseShare
  <2>2. shares'[n] \in {shares[n], NoSecret}
    BY <2>1, <1>req, DeleteShareEffect
  <2>3. Others(r) /\ req[r].stage = "erase" /\ record' = record
    BY <1>6, <2>1, <1>req, ReturnedEffect DEF EraseShare, At
  <2> QED
    BY <2>2, <2>3, <1>1
<1>7. ASSUME NEW r \in Req, NEW m \in Node, FetchShare(r, m) \/ FetchFails(r, m)
      PROVE  \E q \in Req : UnderWay(q, n)'
  <2>1. FetchShare(r, m) \/ Returned(r, m, FALSE)
    BY <1>7 DEF FetchFails
  <2>2. req[r].stage = "fetch" /\ UNCHANGED <<shares, record>>
    BY <1>7 DEF FetchShare, FetchFails, Fetching, At, mpcVars
  <2>3. Others(r)
    BY <2>1, <1>req, FetchEffect, ReturnedEffect
  <2> QED
    BY <2>2, <2>3, <1>1
\* A Setup that read no record goes on to create one; a Setup that read one
\* still finds it.
<1>8. ASSUME NEW r \in Req, SetupStored(r) PROVE \E q \in Req : UnderWay(q, n)'
  <2>1. req[r].stage = "store" /\ record' = record
    BY <1>8 DEF SetupStored, At
  <2>2. req[r].seen = "absent"
    BY <2>1 DEF RecordInv, RecordAtStage
  <2>3. \E stage \in {"undo", "create"} : Goto(r, stage)
    BY <1>8, <2>2 DEF SetupStored
  <2>4. req'[r].stage \in {"undo", "create"} /\ req'[r].call[n] = "todo"
    BY <2>3, <1>req, GotoEffect
  <2> QED
    BY <2>4
<1>9. ASSUME NEW r \in Req,
             \/ StoreBatchBackupCodes(r) \/ SetupReply(r) \/ InsufficientShares(r)
             \/ CheckOTP(r) \/ LookupBackupCode(r) \/ MarkBackupCodeUsed(r)
             \/ EnableTwoFA(r) \/ SharesErased(r) \/ DeleteBackupCodes(r) \/ Stop(r)
      PROVE  \E q \in Req : UnderWay(q, n)'
  <2>1. /\ req[r].stage \notin {"store", "create", "undo"} /\ record' = record
        /\ shares' = shares
    BY <1>9 DEF StoreBatchBackupCodes, SetupReply, InsufficientShares, CheckOTP,
                LookupBackupCode, MarkBackupCodeUsed, EnableTwoFA, SharesErased,
                DeleteBackupCodes, Stop, At, mpcVars
  <2>2. (\E stage \in Stage : Goto(r, stage)) \/ (\E a \in Answer : Finish(r, a))
    BY <1>9 DEF StoreBatchBackupCodes, SetupReply, InsufficientShares, CheckOTP,
                LookupBackupCode, MarkBackupCodeUsed, EnableTwoFA, SharesErased,
                DeleteBackupCodes, Stop, Accepted, Stage, Answer
  <2>3. Others(r)
    BY <2>2, <1>req, GotoEffect, FinishEffect
  <2> QED
    BY <2>1, <2>3, <1>1
<1>10. ASSUME NEW r \in Req, CreateTwoFARecord(r) PROVE FALSE
  BY <1>10 DEF CreateTwoFARecord
\* The record goes when the shares are gone.
<1>11. ASSUME NEW r \in Req, DeleteTwoFARecord(r) PROVE FALSE
  BY <1>11, <1>req DEF DeleteTwoFARecord, At, mpcVars, SharesInv, SharesAtStage
<1>12. CASE UNCHANGED vars \/ Network
  <2>1. UNCHANGED <<shares, record, req>>
    BY <1>12, <1>req DEF vars, Network, DeliverLate, LoseLate, CalmDown
  <2> QED
    BY <2>1 DEF OrphanInv
<1> QED
  BY <1>2, <1>3, <1>4, <1>5, <1>6, <1>7, <1>8, <1>9, <1>10, <1>11, <1>12
  DEF Next, Proceed

\* Where fewer than Threshold nodes are faulty, a user without a record leaves too
\* few shares behind to rebuild any secret, once nothing is under way: the
\* rollback of a failed Setup reaches every node that does not fail.
THEOREM NothingLeftToRebuild ==
  ASSUME "setup" \notin Concurrent, MaxLate = 0, Cardinality(FaultyNode) < Threshold,
         StopsAt \cap {"store", "undo", "create"} = {}
  PROVE  Spec => []OrphansBelowThreshold
<1>1. Init => OrphanInv
  BY DEF Init, MpcInit, OrphanInv, Reliable
<1>2. AloneInv /\ RecordInv /\ SharesInv /\ OrphanInv /\ [Next]_vars => OrphanInv'
  BY OrphanInvStep
<1>3. OrphanInv => OrphansBelowThreshold
  <2> SUFFICES ASSUME OrphanInv, record = "absent", AllIdle, NEW s \in Secret
               PROVE  ~Recoverable(s)
    BY DEF OrphansBelowThreshold
  <2>1. \A n \in Reliable : shares[n] = NoSecret
    BY DEF OrphanInv, UnderWay, AllIdle, At
  <2>2. Holders(s) \in SUBSET FaultyNode /\ FaultyNode \in SUBSET Node
    BY <2>1, MpcAssumption DEF Holders, Reliable
  <2>3. Cardinality(Holders(s)) <= Cardinality(FaultyNode)
    BY <2>2, NodeSets
  <2>4. Cardinality(Holders(s)) \in Nat /\ Cardinality(FaultyNode) \in Nat
    BY <2>2, NodeSets
  <2> QED
    BY <2>3, <2>4, TwoFAAssumption, MpcAssumption DEF Recoverable
<1> QED
  BY <1>1, <1>2, <1>3, SetupRunsAlone, RecordInvariant, SharesInvariant, PTL DEF Spec

-----------------------------------------------------------------------------
(* What an enabled user can rely on, with any number of calls that execute  *)
(* after their caller gave up.  Nobody disables 2FA, Setup runs alone, and  *)
(* a rollback is not cut short.                                            *)

\* A store may write the share of its caller on one empty node; if it failed for
\* its caller it may be left to execute later.
LEMMA StoreShareOutcome ==
  ASSUME MpcTypeOK, NEW n \in Node, NEW s \in Secret, NEW ok \in BOOLEAN, NEW mayFail,
         StoreShare(n, s, ok, mayFail)
  PROVE  /\ ok => shares'[n] = s /\ late' = late
         /\ \A m \in Node : \/ shares'[m] = shares[m]
                            \/ shares[m] = NoSecret /\ shares'[m] = s
         /\ \/ late' = late
            \/ late' = late \cup {[kind |-> "store", node |-> n, secret |-> s]}
<1> DEFINE c == [kind |-> "store", node |-> n, secret |-> s]
<1>1. CASE ok /\ shares[n] = NoSecret /\ CreateShare(n, s) /\ UNCHANGED late
  BY <1>1 DEF CreateShare, MpcTypeOK
<1>2. CASE ~ok /\ UNCHANGED <<shares, late>>
  BY <1>2
<1>3. CASE ~ok /\ Abandoned(c)
  BY <1>3 DEF Abandoned, Execute, CreateShare, MpcTypeOK
<1> QED
  BY <1>1, <1>2, <1>3 DEF StoreShare

\* A delete empties one node; only if it may fail it can be left to execute later.
LEMMA DeleteShareOutcome ==
  ASSUME MpcTypeOK, NEW n \in Node, NEW ok \in BOOLEAN, NEW mayFail,
         DeleteShare(n, ok, mayFail)
  PROVE  /\ ok => shares'[n] = NoSecret
         /\ \A m \in Node : shares'[m] = shares[m] \/ shares'[m] = NoSecret
         /\ ~mayFail => ok
         /\ \/ late' = late
            \/ /\ mayFail
               /\ late' = late \cup {[kind |-> "delete", node |-> n, secret |-> NoSecret]}
<1> DEFINE c == [kind |-> "delete", node |-> n, secret |-> NoSecret]
<1>1. CASE ok /\ DeleteSharesByUserID(n) /\ UNCHANGED late
  BY <1>1 DEF DeleteSharesByUserID, MpcTypeOK
<1>2. CASE ~ok /\ mayFail /\ Abandoned(c)
  BY <1>2 DEF Abandoned, Execute, DeleteSharesByUserID, MpcTypeOK
<1> QED
  BY <1>1, <1>2 DEF DeleteShare

\* All the nodes that never fail hold shares of s.
Whole(s) == \A n \in Reliable : shares[n] = s

\* A call that may still execute deletes a share of a node that fails, or stores
\* one of a secret no user was given.
LateInv ==
  \A c \in late : IF c.kind = "delete" THEN c.node \in FaultyNode
                  ELSE c.secret \notin delivered

\* What a request at a stage may rely on, as far as the reliable nodes go.
EnrolOf(r) ==
  /\ req[r].op # "disable"
  /\ req[r].op = "setup" => req[r].code[1] \notin delivered
  /\ req[r].stage = "store" =>
       \A n \in Reliable : req[r].call[n] = "ok" => shares[n] = req[r].code[1]
  /\ (req[r].stage = "store" /\ ~SomeFailed(r)) \/ req[r].stage \in {"create", "codes", "reply"}
       => \A c \in late : c.kind = "store" => c.secret # req[r].code[1]
  /\ req[r].stage \in {"create", "codes", "reply"} => Whole(req[r].code[1])
  /\ req[r].stage = "undo" =>
       \A n \in Reliable : ~Pending(r, n) => shares[n] \notin delivered
  /\ req[r].op = "verify" => req[r].code[1] \in delivered \cup {NoSecret}
  /\ req[r].stage = "fetch" =>
       \A n \in Reliable : req[r].call[n] = "ok" => shares[n] \in req[r].got
  /\ req[r].stage = "enable" => req[r].code[1] \in delivered /\ Whole(req[r].code[1])

\* A secret that a user was given is on every reliable node or, once a later
\* Setup was rolled back, on none of them.
WholeOrNone ==
  (\A r \in Req : req[r].stage # "undo") =>
    \A s \in delivered, n \in Reliable : shares[n] = s => Whole(s)

EnabledWhole == record = "enabled" => \E s \in delivered : Whole(s)

EnrolInv == LateInv /\ (\A r \in Req : EnrolOf(r)) /\ WholeOrNone /\ EnabledWhole

\* A step that stores at most a share of a secret no user was given on a reliable
\* node that has none.
Grows ==
  /\ \A n \in Reliable :
       shares'[n] = shares[n] \/ (shares[n] = NoSecret /\ shares'[n] \notin delivered)
  /\ delivered' = delivered

\* Under such a step, what is whole stays whole.
LEMMA WholeKept ==
  ASSUME Grows, NEW s \in Secret, Whole(s)
  PROVE  Whole(s)'
BY MpcAssumption DEF Grows, Whole

\* What a request that does not move relies on is still there after such a step.
LEMMA EnrolOfKept ==
  ASSUME TypeInv, NEW q \in Req, EnrolOf(q), req'[q] = req[q], Grows,
         late' \subseteq late \/ req[q].stage \notin SetupStage
  PROVE  EnrolOf(q)'
<1>req. /\ req[q] \in Request /\ delivered \subseteq Secret /\ NoSecret \notin Secret
        /\ req[q].stage \in SetupStage => req[q].code[1] \in Secret
        /\ req[q].got \subseteq Secret
  BY MpcAssumption DEF TypeInv, TypeOK, SetupHasSecret, Request
<1>1. /\ req'[q].op # "disable"
      /\ req'[q].op = "setup" => req'[q].code[1] \notin delivered'
      /\ req'[q].op = "verify" => req'[q].code[1] \in delivered' \cup {NoSecret}
  BY DEF EnrolOf, Grows
<1>2. req'[q].stage = "store" =>
        \A n \in Reliable : req'[q].call[n] = "ok" => shares'[n] = req'[q].code[1]
  BY <1>req DEF EnrolOf, Grows, SetupStage
<1>3. (req'[q].stage = "store" /\ ~SomeFailed(q)') \/ req'[q].stage \in {"create", "codes", "reply"}
        => \A c \in late' : c.kind = "store" => c.secret # req'[q].code[1]
  BY DEF EnrolOf, SomeFailed, SetupStage
<1>4. req'[q].stage \in {"create", "codes", "reply"} => Whole(req[q].code[1])'
  BY <1>req, WholeKept DEF EnrolOf, SetupStage
<1>5. req'[q].stage = "undo" =>
        \A n \in Reliable : ~Pending(q, n)' => shares'[n] \notin delivered'
  BY DEF EnrolOf, Grows, Pending
<1>6. req'[q].stage = "fetch" =>
        \A n \in Reliable : req'[q].call[n] = "ok" => shares'[n] \in req'[q].got
  BY <1>req DEF EnrolOf, Grows
<1>7. req'[q].stage = "enable" => req'[q].code[1] \in delivered' /\ Whole(req[q].code[1])'
  BY <1>req, WholeKept DEF EnrolOf, Grows
<1> QED
  BY <1>1, <1>2, <1>3, <1>4, <1>5, <1>6, <1>7 DEF EnrolOf

\* So is what every user was given.
LEMMA WholeOrNoneKept ==
  ASSUME TypeInv, WholeOrNone, Grows, \A r \in Req : req[r].stage # "undo"
  PROVE  WholeOrNone'
<1> SUFFICES ASSUME NEW s \in delivered, NEW n \in Reliable, shares'[n] = s
             PROVE  Whole(s)'
  BY DEF WholeOrNone, Grows
<1>1. s \in Secret /\ shares[n] = s
  BY DEF TypeInv, TypeOK, Grows
<1>2. Whole(s)
  BY <1>1 DEF WholeOrNone
<1> QED
  BY <1>1, <1>2, WholeKept

\* Every step keeps what an enabled user and every request rely on.
LEMMA EnrolInvStep ==
  ASSUME "setup" \notin Concurrent, "disable" \notin Ops, "undo" \notin StopsAt,
         Cardinality(FaultyNode) < Threshold
  PROVE  AloneInv /\ PhaseInv /\ EnrolInv /\ [Next]_vars => EnrolInv'
<1> SUFFICES ASSUME AloneInv, PhaseInv, EnrolInv, [Next]_vars PROVE EnrolInv'
  OBVIOUS
<1>req. /\ TypeInv /\ req \in [Req -> Request] /\ OpOfStage /\ SetupAlone /\ MpcTypeOK
        /\ delivered \subseteq Secret /\ NoSecret \notin Secret
        /\ Reliable \subseteq Node /\ Reliable \cap FaultyNode = {}
  BY MpcAssumption DEF AloneInv, TypeInv, TypeOK, Reliable
<1>inv. /\ LateInv /\ WholeOrNone /\ EnabledWhole
        /\ \A q \in Req : EnrolOf(q) /\ req[q].op # "disable"
  BY DEF EnrolInv, EnrolOf
<1>idle. ASSUME NEW q \in Req, req'[q].stage = "idle", req'[q].op = "none"
         PROVE  EnrolOf(q)'
  BY <1>idle DEF EnrolOf
\* Nothing is taken from a reliable node, and a rollback goes on.
<1>0. ASSUME Grows, late' \subseteq late, \A q \in Req : EnrolOf(q)',
             \A q \in Req : req[q].stage = "undo" => req'[q].stage = "undo",
             record' = "enabled" => record = "enabled" \/ \E s \in delivered : Whole(s)
      PROVE  EnrolInv'
  <2>1. WholeOrNone'
    <3>1. CASE \A q \in Req : req[q].stage # "undo"
      BY <3>1, <1>0, <1>req, <1>inv, WholeOrNoneKept
    <3>2. CASE \E q \in Req : req[q].stage = "undo"
      BY <3>2, <1>0 DEF WholeOrNone
    <3> QED
      BY <3>1, <3>2
  <2>2. EnabledWhole'
    BY <1>0, <1>req, <1>inv, WholeKept DEF EnabledWhole, Grows
  <2>3. LateInv'
    BY <1>0, <1>inv DEF LateInv, Grows
  <2> QED
    BY <1>0, <2>1, <2>2, <2>3 DEF EnrolInv
\* A request that is no Setup moves.
<1>1. ASSUME Grows, late' \subseteq late, NEW r \in Req, Others(r),
             req[r].stage \notin SetupStage, EnrolOf(r)',
             record' = "enabled" => record = "enabled" \/ \E s \in delivered : Whole(s)
      PROVE  EnrolInv'
  <2>1. \A q \in Req : EnrolOf(q)'
    BY <1>1, <1>req, <1>inv, EnrolOfKept DEF Others
  <2>2. \A q \in Req : req[q].stage = "undo" => req'[q].stage = "undo"
    BY <1>1 DEF Others, SetupStage
  <2> QED
    BY <1>0, <1>1, <2>1, <2>2
\* A Setup moves: it is alone, and the record is not enabled.
<1>2. ASSUME NEW r \in Req, Others(r), req[r].stage \in SetupStage, EnrolOf(r)',
             record' # "enabled", LateInv', WholeOrNone'
      PROVE  EnrolInv'
  <2>1. \A q \in Req : q # r => req'[q].stage = "idle" /\ req'[q].op = "none"
    BY <1>2, <1>req DEF OpOfStage, SetupAlone, Others
  <2> QED
    BY <1>2, <2>1, <1>idle DEF EnrolInv, EnabledWhole
<1>3. CASE UNCHANGED vars
  BY <1>3 DEF vars, EnrolInv, EnrolOf, LateInv, WholeOrNone, EnabledWhole, Whole,
              SomeFailed, Pending
<1>4. CASE Network
  <2>1. record' = record /\ delivered' = delivered /\ req' = req /\ late' \subseteq late
    BY <1>4 DEF Network, DeliverLate, LoseLate, CalmDown
  <2>2. Grows
    <3>1. ASSUME NEW c \in late, Execute(c) PROVE Grows
      <4>1. c \in Call /\ IF c.kind = "delete" THEN c.node \in FaultyNode
                          ELSE c.secret \notin delivered
        BY <3>1, <1>req, <1>inv DEF MpcTypeOK, LateInv
      <4>2. CASE c.kind = "delete"
        BY <3>1, <4>1, <4>2, <2>1, <1>req
        DEF Execute, DeleteSharesByUserID, MpcTypeOK, Grows
      <4>3. CASE c.kind = "store"
        BY <3>1, <4>1, <4>3, <2>1, <1>req
        DEF Execute, CreateShare, MpcTypeOK, Grows
      <4> QED
        BY <4>1, <4>2, <4>3 DEF Call
    <3>2. CASE UNCHANGED shares
      BY <3>2, <2>1 DEF Grows
    <3> QED
      BY <1>4, <3>1, <3>2 DEF Network, DeliverLate, LoseLate, CalmDown
  <2>3. \A q \in Req : EnrolOf(q)'
    BY <2>1, <2>2, <1>req, <1>inv, EnrolOfKept
  <2> QED
    BY <2>1, <2>2, <2>3, <1>0
\* A new secret: nothing holds it, nothing is on its way with it, and no user has
\* what an earlier enrolment called by the same name.
<1>5. ASSUME NEW r \in Req, SetupBegin(r) PROVE EnrolInv'
  <2> PICK s \in Secret \ InUse : /\ Start(r, "setup", "store", <<s, 0>>)
                                 /\ delivered' = delivered \ {s}
    BY <1>5 DEF SetupBegin
  <2>1. /\ Others(r) /\ req'[r].stage = "store" /\ req'[r].op = "setup"
        /\ req'[r].code = <<s, 0>> /\ \A n \in Node : req'[r].call[n] = "todo"
    BY <1>req, StartEffect
  <2>2. UNCHANGED <<shares, late, record>> /\ record # "enabled"
    BY <1>5 DEF SetupBegin, mpcVars
  <2>3. \A q \in Req : req[q].stage = "idle"
    BY <1>5, <1>req DEF SetupBegin, MayStart, At, OpOfStage
  <2>4. \A q \in Req : q # r => EnrolOf(q)'
    BY <2>1, <2>3, <1>req, <1>idle DEF Others, OpOfStage
  <2>5. \A c \in late' : c.secret # s
    BY <2>2 DEF InUse
  <2>6. EnrolOf(r)'
    BY <2>1, <2>5, <1>req DEF EnrolOf
  <2>7. LateInv'
    BY <2>2, <1>inv DEF LateInv
  <2>8. WholeOrNone'
    BY <2>2, <2>3, <1>req, <1>inv DEF WholeOrNone, Whole, OpOfStage, SetupStage
  <2> QED
    BY <2>2, <2>4, <2>6, <2>7, <2>8 DEF EnrolInv, EnabledWhole
<1>6. ASSUME NEW r \in Req, VerifyBegin(r) \/ DisableBegin(r) PROVE EnrolInv'
  <2>1. PICK op \in {"verify", "disable"} : BeginProof(r, op)
    BY <1>6 DEF VerifyBegin, DisableBegin
  <2>2. op = "verify" /\ req[r].stage = "idle"
    BY <2>1 DEF BeginProof, MayStart, At
  <2>3. PICK c \in Presentable : Start(r, op, IF c[2] = 0 THEN "fetch" ELSE "lookup", c)
    BY <2>1 DEF BeginProof
  <2>4. /\ Others(r) /\ req'[r].stage \in {"fetch", "lookup"} /\ req'[r].op = "verify"
        /\ req'[r].code = c /\ \A n \in Node : req'[r].call[n] = "todo"
    BY <2>2, <2>3, <1>req, StartEffect
  <2>5. UNCHANGED <<shares, late, record, delivered>>
    BY <2>1 DEF BeginProof, mpcVars
  <2>6. c[1] \in delivered \cup {NoSecret}
    BY DEF Presentable
  <2>7. EnrolOf(r)'
    BY <2>4, <2>5, <2>6, <1>req DEF EnrolOf
  <2> QED
    BY <2>2, <2>4, <2>5, <2>7, <1>1 DEF Grows, SetupStage
\* A store that failed leaves at most a call with a secret the user will not be
\* given, for this Setup is going to be rolled back.
<1>7. ASSUME NEW r \in Req, NEW n \in Node, SetupStore(r, n) PROVE EnrolInv'
  <2> DEFINE s == req[r].code[1]
  <2>1. PICK ok \in BOOLEAN :
          /\ StoreShare(n, s, ok, Faulty(n) \/ Cancelled(r))
          /\ Returned(r, n, ok)
    BY <1>7 DEF SetupStore
  <2>2. /\ req[r].stage = "store" /\ s \in Secret /\ s \notin delivered
        /\ req[r].op = "setup" /\ UNCHANGED <<record, delivered>>
    BY <1>7, <1>req, <1>inv
    DEF SetupStore, At, TypeInv, SetupHasSecret, SetupStage, OpOfStage, EnrolOf
  <2>3. /\ ok => shares'[n] = s /\ late' = late
        /\ \A m \in Node : shares'[m] = shares[m] \/ (shares[m] = NoSecret /\ shares'[m] = s)
        /\ \/ late' = late
           \/ late' = late \cup {[kind |-> "store", node |-> n, secret |-> s]}
    BY <2>1, <2>2, <1>req, StoreShareOutcome
  <2>4. /\ Others(r) /\ req'[r].stage = "store" /\ req'[r].op = "setup"
        /\ req'[r].code = req[r].code
        /\ req'[r].call[n] = IF ok THEN "ok" ELSE "err"
        /\ \A m \in Node : m # n => req'[r].call[m] = req[r].call[m]
    BY <2>1, <2>2, <1>req, ReturnedEffect
  <2>5. Grows
    BY <2>2, <2>3, <1>req DEF Grows
  <2>6. \A m \in Reliable : req'[r].call[m] = "ok" => shares'[m] = s
    BY <2>2, <2>3, <2>4, <1>req, <1>inv DEF EnrolOf
  <2>7. ~SomeFailed(r)' => \A c \in late' : c.kind = "store" => c.secret # s
    <3>1. ASSUME ~SomeFailed(r)' PROVE ok /\ ~SomeFailed(r)
      BY <1>7, <3>1, <2>4 DEF SetupStore, Pending, SomeFailed
    <3> QED
      BY <3>1, <2>2, <2>3, <1>inv DEF EnrolOf
  <2>8. EnrolOf(r)'
    BY <2>2, <2>4, <2>6, <2>7 DEF EnrolOf
  <2>9. LateInv'
    BY <2>2, <2>3, <1>inv DEF LateInv
  <2>10. WholeOrNone'
    <3>1. \A q \in Req : req[q].stage # "undo"
      BY <2>2, <1>req DEF OpOfStage, SetupAlone, SetupStage
    <3> QED
      BY <3>1, <2>5, <1>req, <1>inv, WholeOrNoneKept
  <2> QED
    BY <2>2, <2>4, <2>8, <2>9, <2>10, <1>2 DEF PhaseInv, SetupStage
\* The rollback takes every secret a user was given from every reliable node.
<1>8. ASSUME NEW r \in Req, NEW n \in Node, SetupUndo(r, n) PROVE EnrolInv'
  <2>1. PICK ok \in BOOLEAN :
          /\ DeleteShare(n, ok, Faulty(n))
          /\ IF n = NodeCount THEN Finish(r, "failed") ELSE Returned(r, n, ok)
    BY <1>8 DEF SetupUndo
  <2>2. /\ req[r].stage = "undo" /\ req[r].op = "setup"
        /\ UNCHANGED <<record, delivered>> /\ record # "enabled"
        /\ \A m \in 1..(n - 1) : ~Pending(r, m)
    BY <1>8, <1>req DEF SetupUndo, At, OpOfStage, SetupStage, PhaseInv
  <2>3. /\ ok => shares'[n] = NoSecret
        /\ \A m \in Node : shares'[m] = shares[m] \/ shares'[m] = NoSecret
        /\ n \notin FaultyNode => ok
        /\ \/ late' = late
           \/ /\ n \in FaultyNode
              /\ late' = late \cup {[kind |-> "delete", node |-> n, secret |-> NoSecret]}
    BY <2>1, <1>req, DeleteShareOutcome DEF Faulty
  <2>4. \A m \in Reliable : ~Pending(r, m) \/ m = n => shares'[m] \notin delivered
    BY <2>2, <2>3, <1>req, <1>inv DEF EnrolOf
  <2>5. LateInv'
    BY <2>2, <2>3, <1>inv DEF LateInv
  <2>6. CASE n = NodeCount
    <3>1. Others(r) /\ req'[r].stage = "idle" /\ req'[r].op = "none"
      BY <2>1, <2>6, <1>req, FinishEffect
    <3>2. \A m \in Reliable : shares'[m] \notin delivered
      BY <2>2, <2>4, <2>6, <1>req, MpcAssumption DEF Node
    <3>3. WholeOrNone'
      BY <2>2, <3>2 DEF WholeOrNone
    <3> QED
      BY <2>2, <2>5, <3>1, <3>3, <1>2, <1>idle DEF SetupStage
  <2>7. CASE n # NodeCount
    <3>1. /\ Others(r) /\ req'[r].stage = "undo" /\ req'[r].op = "setup"
          /\ req'[r].code = req[r].code
          /\ \A m \in Node : m # n => req'[r].call[m] = req[r].call[m]
      BY <2>1, <2>2, <2>7, <1>req, ReturnedEffect
    <3>2. \A m \in Reliable : ~Pending(r, m)' => shares'[m] \notin delivered
      BY <2>4, <3>1, <1>req DEF Pending
    <3>3. EnrolOf(r)'
      BY <2>2, <3>1, <3>2, <1>inv DEF EnrolOf
    <3>4. WholeOrNone'
      BY <3>1 DEF WholeOrNone
    <3> QED
      BY <2>2, <2>5, <3>1, <3>3, <3>4, <1>2 DEF SetupStage
  <2> QED
    BY <2>6, <2>7
\* All calls returned and none failed: every node stored its share.
<1>9. ASSUME NEW r \in Req, SetupStored(r) PROVE EnrolInv'
  <2>1. /\ req[r].stage = "store" /\ req[r].op = "setup"
        /\ UNCHANGED <<shares, late, record, delivered>> /\ record # "enabled"
        /\ \A q \in Req : req[q].stage # "undo"
    BY <1>9, <1>req
    DEF SetupStored, At, mpcVars, OpOfStage, SetupAlone, SetupStage, PhaseInv
  <2>2. Grows
    BY <2>1 DEF Grows
  <2>3. LateInv' /\ WholeOrNone'
    BY <2>1, <2>2, <1>req, <1>inv, WholeOrNoneKept DEF LateInv
  <2>4. CASE SomeFailed(r)
    <3>1. Goto(r, "undo")
      BY <1>9, <2>4 DEF SetupStored
    <3>2. /\ Others(r) /\ req'[r].stage = "undo" /\ req'[r].op = "setup"
          /\ req'[r].code = req[r].code /\ \A n \in Node : req'[r].call[n] = "todo"
      BY <2>1, <3>1, <1>req, GotoEffect
    <3>3. EnrolOf(r)'
      BY <2>1, <3>2, <1>req, <1>inv DEF EnrolOf, Pending
    <3> QED
      BY <2>1, <2>3, <3>2, <3>3, <1>2 DEF SetupStage
  <2>5. CASE ~SomeFailed(r)
    <3>1. \E stage \in {"create", "codes"} : Goto(r, stage)
      BY <1>9, <2>5 DEF SetupStored
    <3>2. /\ Others(r) /\ req'[r].stage \in {"create", "codes"} /\ req'[r].op = "setup"
          /\ req'[r].code = req[r].code
      BY <2>1, <3>1, <1>req, GotoEffect
    <3>3. \A n \in Node : req[r].call[n] = "ok"
      BY <1>9, <2>5, <1>req DEF SetupStored, AllReturned, Pending, SomeFailed, Request
    <3>4. EnrolOf(r)'
      BY <2>1, <2>5, <3>2, <3>3, <1>req, <1>inv DEF EnrolOf, Whole
    <3> QED
      BY <2>1, <2>3, <3>2, <3>4, <1>2 DEF SetupStage
  <2> QED
    BY <2>4, <2>5
<1>10. ASSUME NEW r \in Req, CreateTwoFARecord(r) \/ StoreBatchBackupCodes(r)
       PROVE  EnrolInv'
  <2>1. /\ req[r].stage \in {"create", "codes"} /\ req[r].op = "setup"
        /\ UNCHANGED <<shares, late, delivered>> /\ record' # "enabled"
        /\ \A q \in Req : req[q].stage # "undo"
    BY <1>10, <1>req
    DEF CreateTwoFARecord, StoreBatchBackupCodes, At, mpcVars, OpOfStage, SetupAlone,
        SetupStage, PhaseInv
  <2>2. (\E stage \in {"codes", "reply"} : Goto(r, stage)) \/ Finish(r, "failed")
    BY <1>10 DEF CreateTwoFARecord, StoreBatchBackupCodes
  <2>3. /\ Others(r)
        /\ \/ req'[r].stage = "idle" /\ req'[r].op = "none"
           \/ /\ req'[r].stage \in {"codes", "reply"} /\ req'[r].op = "setup"
              /\ req'[r].code = req[r].code
    BY <2>1, <2>2, <1>req, GotoEffect, FinishEffect
  <2>4. LateInv' /\ WholeOrNone'
    <3>1. Grows
      BY <2>1 DEF Grows
    <3> QED
      BY <2>1, <3>1, <1>req, <1>inv, WholeOrNoneKept DEF LateInv
  <2>5. EnrolOf(r)'
    BY <2>1, <2>3, <1>inv, <1>idle DEF EnrolOf, Whole
  <2> QED
    BY <2>1, <2>3, <2>4, <2>5, <1>2 DEF SetupStage
\* The user is given the secret: every reliable node holds a share, and nothing
\* on its way can become one.
<1>11. ASSUME NEW r \in Req, SetupReply(r) PROVE EnrolInv'
  <2> DEFINE s == req[r].code[1]
  <2>1. /\ req[r].stage = "reply" /\ req[r].op = "setup"
        /\ UNCHANGED <<shares, late, record>> /\ record # "enabled"
        /\ delivered' = delivered \cup {s}
        /\ \A q \in Req : req[q].stage # "undo"
    BY <1>11, <1>req
    DEF SetupReply, At, mpcVars, OpOfStage, SetupAlone, SetupStage, PhaseInv
  <2>2. Others(r) /\ req'[r].stage = "idle" /\ req'[r].op = "none"
    BY <1>11, <1>req, FinishEffect DEF SetupReply
  <2>3. LateInv'
    BY <2>1, <1>req, <1>inv DEF LateInv, EnrolOf, MpcTypeOK, Call
  <2>4. WholeOrNone'
    BY <2>1, <1>inv DEF WholeOrNone, Whole, EnrolOf
  <2> QED
    BY <2>1, <2>2, <2>3, <2>4, <1>2, <1>idle DEF SetupStage
<1>12. ASSUME NEW r \in Req, NEW n \in Node, FetchShare(r, n) \/ FetchFails(r, n)
       PROVE  EnrolInv'
  <2>1. req[r].stage = "fetch" /\ UNCHANGED <<shares, late, record, delivered>>
    BY <1>12 DEF FetchShare, FetchFails, Fetching, At, mpcVars
  <2>2. /\ Others(r) /\ req'[r].stage = "fetch" /\ req'[r].op = req[r].op
        /\ req'[r].code = req[r].code
        /\ \A m \in Node :
             req'[r].call[m] = "ok" => \/ req[r].call[m] = "ok" /\ req[r].got \subseteq req'[r].got
                                      \/ shares[m] \in req'[r].got
    <3>1. CASE FetchShare(r, n)
      BY <3>1, <1>req, FetchEffect
    <3>2. CASE FetchFails(r, n)
      <4>1. Returned(r, n, FALSE)
        BY <3>2 DEF FetchFails
      <4> QED
        BY <4>1, <2>1, <1>req, ReturnedEffect
    <3> QED
      BY <1>12, <3>1, <3>2
  <2>3. EnrolOf(r)'
    BY <2>1, <2>2, <1>req, <1>inv DEF EnrolOf, OpOfStage, SetupStage
  <2> QED
    BY <2>1, <2>2, <2>3, <1>1 DEF Grows, SetupStage
\* The code matches: one of the shares came from a reliable node, so that all of
\* them hold the secret.
<1>13. ASSUME NEW r \in Req, CheckOTP(r) PROVE EnrolInv'
  <2> DEFINE s == req[r].code[1]
  <2>1. /\ req[r].stage = "fetch" /\ UNCHANGED <<shares, late, record, delivered>>
        /\ req[r].op = "verify" /\ \A q \in Req : req[q].stage # "undo"
    BY <1>13, <1>req, <1>inv
    DEF CheckOTP, At, mpcVars, OpOfStage, SetupAlone, SetupStage, Request
  <2>2. CASE \E a \in Answer : Finish(r, a)
    <3>1. Others(r) /\ req'[r].stage = "idle" /\ req'[r].op = "none"
      BY <2>2, <1>req, FinishEffect
    <3> QED
      BY <2>1, <3>1, <1>1, <1>idle DEF Grows, SetupStage
  <2>3. CASE MatchesOTP(r) /\ Goto(r, "enable")
    <3>1. /\ Others(r) /\ req'[r].stage = "enable" /\ req'[r].op = "verify"
          /\ req'[r].code = req[r].code
      BY <2>1, <2>3, <1>req, GotoEffect
    <3>2. PICK n \in Reliable : req[r].call[n] = "ok"
      <4>1. ~(Succeeded(r) \in SUBSET FaultyNode)
        <5>1. FaultyNode \in SUBSET Node /\ Cardinality(Succeeded(r)) = Threshold
          BY <1>13, MpcAssumption DEF CheckOTP, Combined
        <5>2. Cardinality(FaultyNode) \in Nat
          BY <5>1, NodeSets
        <5> QED
          BY <5>1, <5>2, NodeSets, TwoFAAssumption, MpcAssumption
      <4> QED
        BY <4>1 DEF Succeeded, Reliable
    <3>3. shares[n] = s /\ s \in Secret
      BY <2>1, <2>3, <3>2, <1>req, <1>inv DEF EnrolOf, MatchesOTP, Request
    <3>4. s \in delivered
      BY <2>1, <3>3, <1>req, <1>inv DEF EnrolOf
    <3>5. Whole(s)
      BY <2>1, <3>2, <3>3, <3>4, <1>inv DEF WholeOrNone
    <3>6. EnrolOf(r)'
      BY <2>1, <3>1, <3>4, <3>5, <1>req DEF EnrolOf, Whole
    <3> QED
      BY <2>1, <3>1, <3>6, <1>1 DEF Grows, SetupStage
  <2> QED
    BY <1>13, <2>1, <2>2, <2>3 DEF CheckOTP, Accepted, Answer
\* What Verify enables, every reliable node holds.
<1>14. ASSUME NEW r \in Req, EnableTwoFA(r) PROVE EnrolInv'
  <2>1. req[r].stage = "enable" /\ UNCHANGED <<shares, late, delivered>>
    BY <1>14 DEF EnableTwoFA, At, mpcVars
  <2>2. \E a \in Answer : Finish(r, a)
    BY <1>14 DEF EnableTwoFA, Answer
  <2>3. Others(r) /\ req'[r].stage = "idle" /\ req'[r].op = "none"
    BY <2>2, <1>req, FinishEffect
  <2>4. \E s \in delivered : Whole(s)
    BY <2>1, <1>inv DEF EnrolOf
  <2> QED
    BY <2>1, <2>3, <2>4, <1>1, <1>idle DEF Grows, SetupStage
<1>15. ASSUME NEW r \in Req,
              InsufficientShares(r) \/ LookupBackupCode(r) \/ MarkBackupCodeUsed(r)
       PROVE  EnrolInv'
  <2>1. /\ req[r].stage \in {"fetch", "lookup", "mark"} /\ req[r].op = "verify"
        /\ UNCHANGED <<shares, late, record, delivered>>
    BY <1>15, <1>req, <1>inv
    DEF InsufficientShares, LookupBackupCode, MarkBackupCodeUsed, At, mpcVars, OpOfStage,
        SetupStage, Request
  <2>2. (\E a \in Answer : Finish(r, a)) \/ (Goto(r, "mark") /\ req[r].stage = "lookup")
    BY <1>15, <2>1
    DEF InsufficientShares, LookupBackupCode, MarkBackupCodeUsed, Accepted, At, Answer
  <2>3. /\ Others(r)
        /\ \/ req'[r].stage = "idle" /\ req'[r].op = "none"
           \/ /\ req'[r].stage = "mark" /\ req'[r].op = "verify"
              /\ req'[r].code = req[r].code
    BY <2>1, <2>2, <1>req, FinishEffect, GotoEffect
  <2>4. EnrolOf(r)'
    BY <2>1, <2>3, <1>inv, <1>idle DEF EnrolOf
  <2> QED
    BY <2>1, <2>3, <2>4, <1>1 DEF Grows, SetupStage
\* Nobody disables.
<1>16. ASSUME NEW r \in Req, req[r].stage \in {"erase", "dropCodes", "dropRecord"}
       PROVE  FALSE
  BY <1>16, <1>req, <1>inv DEF OpOfStage
<1>17. ASSUME NEW r \in Req, NEW n \in Node, EraseShare(r, n) PROVE FALSE
  BY <1>16, <1>17 DEF EraseShare, At
<1>18. ASSUME NEW r \in Req, SharesErased(r) \/ DeleteBackupCodes(r) \/ DeleteTwoFARecord(r)
       PROVE  FALSE
  BY <1>16, <1>18 DEF SharesErased, DeleteBackupCodes, DeleteTwoFARecord, At
<1>19. ASSUME NEW r \in Req, Stop(r) PROVE EnrolInv'
  <2>1. req[r].stage # "undo" /\ UNCHANGED <<shares, late, record, delivered>>
    BY <1>19 DEF Stop, mpcVars
  <2>2. Others(r) /\ req'[r].stage = "idle" /\ req'[r].op = "none"
    BY <1>19, <1>req, FinishEffect DEF Stop
  <2>3. Grows
    BY <2>1 DEF Grows
  <2>4. \A q \in Req : EnrolOf(q)'
    BY <2>1, <2>2, <2>3, <1>req, <1>inv, <1>idle, EnrolOfKept DEF Others
  <2> QED
    BY <2>1, <2>2, <2>3, <2>4, <1>0 DEF Others
<1> QED
  BY <1>3, <1>4, <1>5, <1>6, <1>7, <1>8, <1>9, <1>10, <1>11, <1>12, <1>13, <1>14, <1>15,
     <1>17, <1>18, <1>19
  DEF Next, Proceed

\* What an enabled user relies on is there in every reachable state.
THEOREM EnrolInvariant ==
  ASSUME "setup" \notin Concurrent, "disable" \notin Ops, "undo" \notin StopsAt,
         Cardinality(FaultyNode) < Threshold
  PROVE  Spec => []EnrolInv
<1>1. Init => EnrolInv
  BY DEF Init, MpcInit, EnrolInv, LateInv, EnrolOf, WholeOrNone, EnabledWhole, Idle
<1>2. AloneInv /\ PhaseInv /\ EnrolInv /\ [Next]_vars => EnrolInv'
  BY EnrolInvStep
<1> QED
  BY <1>1, <1>2, SetupRunsAlone, PhaseInvariant, PTL DEF Spec

\* A user who has proved a code can log in for as long as nobody disables 2FA,
\* although the nodes may fail, answers get lost, and calls of earlier Setups and
\* rollbacks still execute: the nodes that do not fail hold the secret, and they
\* are enough.
THEOREM EnabledUsersCanLogIn ==
  ASSUME "setup" \notin Concurrent, "disable" \notin Ops, "undo" \notin StopsAt,
         Cardinality(FaultyNode) < Threshold,
         Cardinality(FaultyNode) <= NodeCount - Threshold
  PROVE  Spec => []EnabledImpliesRecoverable
<1>1. EnrolInv => EnabledImpliesRecoverable
  <2> SUFFICES ASSUME NEW s \in delivered, Whole(s)
               PROVE  Recoverable(s)
    BY DEF EnrolInv, EnabledWhole, EnabledImpliesRecoverable
  <2>1. Reliable \in SUBSET Holders(s) /\ Holders(s) \in SUBSET Node
    BY DEF Whole, Holders, Reliable
  <2>2. /\ Cardinality(Reliable) <= Cardinality(Holders(s))
        /\ Cardinality(Reliable) \in Nat /\ Cardinality(Holders(s)) \in Nat
    BY <2>1, NodeSets DEF Reliable
  <2> QED
    BY <2>2, ReliableSuffice, TwoFAAssumption, MpcAssumption DEF Recoverable
<1> QED
  BY <1>1, EnrolInvariant, PTL

-----------------------------------------------------------------------------
(* TwoFA implements Enrolment, when no call executes after its caller gave  *)
(* up (MaxLate = 0) and Setup runs alone, whatever stage a request is cut   *)
(* short at and whatever nodes fail.                                       *)

\* What a request knows of the secrets users were given: a Setup issues one that
\* nobody was given, a proof presents one that somebody was, or none at all.
GivenInv ==
  \A r \in Req :
    /\ req[r].op = "setup" => req[r].code[1] \notin delivered
    /\ req[r].stage = "reply" => record # "absent"
    /\ req[r].op \in {"verify", "disable"} => req[r].code[1] \in delivered \cup {NoSecret}
    /\ req[r].stage \in {"mark", "enable"} => req[r].code[1] \in delivered

\* Every step keeps what requests know of the secrets that were given.
LEMMA GivenInvStep ==
  ASSUME "setup" \notin Concurrent
  PROVE  AloneInv /\ RecordInv /\ GivenInv /\ [Next]_vars => GivenInv'
<1> SUFFICES ASSUME AloneInv, RecordInv, GivenInv, [Next]_vars PROVE GivenInv'
  OBVIOUS
<1>req. /\ req \in [Req -> Request] /\ OpOfStage /\ SetupAlone
        /\ unused \subseteq BackupCode /\ NoSecret \notin Secret
  BY MpcAssumption DEF AloneInv, TypeInv, TypeOK
\* A request goes on with the code it has, or is answered.
<1>1. ASSUME NEW r \in Req, Others(r), UNCHANGED <<record, delivered>>,
             \/ req'[r].op = "none" /\ req'[r].stage = "idle"
             \/ req'[r].op = req[r].op /\ req'[r].code = req[r].code,
             req'[r].stage \in {"reply", "mark", "enable"} => req'[r].stage = req[r].stage
      PROVE  GivenInv'
  BY <1>1 DEF GivenInv, Others
<1>2. ASSUME NEW r \in Req, SetupBegin(r) PROVE GivenInv'
  <2>1. PICK s \in Secret : Start(r, "setup", "store", <<s, 0>>) /\ delivered' = delivered \ {s}
    BY <1>2 DEF SetupBegin
  <2>2. \A q \in Req : q # r => req[q].stage = "idle" /\ req[q].op = "none"
    BY <1>2, <1>req DEF SetupBegin, MayStart, At, OpOfStage
  <2>3. /\ Others(r) /\ req'[r].stage = "store" /\ req'[r].op = "setup"
        /\ req'[r].code = <<s, 0>>
    BY <2>1, <1>req, StartEffect
  <2> QED
    BY <2>1, <2>2, <2>3 DEF GivenInv, Others
<1>3. ASSUME NEW r \in Req, VerifyBegin(r) \/ DisableBegin(r) PROVE GivenInv'
  <2>1. \E op \in {"verify", "disable"}, stage \in {"fetch", "lookup"}, c \in Presentable :
          Start(r, op, stage, c)
    BY <1>3 DEF VerifyBegin, DisableBegin, BeginProof
  <2>2. PICK c \in Presentable : \E op \in {"verify", "disable"}, stage \in {"fetch", "lookup"} :
          Start(r, op, stage, c)
    BY <2>1
  <2>3. /\ Others(r) /\ req'[r].stage \in {"fetch", "lookup"}
        /\ req'[r].op \in {"verify", "disable"} /\ req'[r].code = c
    BY <2>2, <1>req, StartEffect
  <2>4. UNCHANGED <<record, delivered>> /\ c[1] \in delivered \cup {NoSecret}
    BY <1>3 DEF VerifyBegin, DisableBegin, BeginProof, Presentable
  <2> QED
    BY <2>3, <2>4 DEF GivenInv, Others
<1>4. ASSUME NEW r \in Req, NEW n \in Node,
             \/ SetupStore(r, n) \/ SetupUndo(r, n) \/ FetchFails(r, n)
             \/ EraseShare(r, n) \/ FetchShare(r, n)
      PROVE  GivenInv'
  <2>1. (\E ok \in BOOLEAN : Returned(r, n, ok)) \/ Finish(r, "failed") \/ FetchShare(r, n)
    BY <1>4 DEF SetupStore, SetupUndo, FetchFails, EraseShare
  <2>2. /\ req[r].stage \in {"store", "undo", "fetch", "erase"}
        /\ UNCHANGED <<record, delivered>>
    BY <1>4 DEF SetupStore, SetupUndo, FetchFails, EraseShare, FetchShare, Fetching, At
  <2>3. CASE \E ok \in BOOLEAN : Returned(r, n, ok)
    BY <2>2, <2>3, <1>1, <1>req, ReturnedEffect
  <2>4. CASE Finish(r, "failed")
    BY <2>2, <2>4, <1>1, <1>req, FinishEffect
  <2>5. CASE FetchShare(r, n)
    BY <2>2, <2>5, <1>1, <1>req, FetchEffect
  <2> QED
    BY <2>1, <2>3, <2>4, <2>5
<1>5. ASSUME NEW r \in Req,
             SetupStored(r) \/ InsufficientShares(r) \/ SharesErased(r)
               \/ DeleteBackupCodes(r) \/ Stop(r)
      PROVE  GivenInv'
  <2>1. \/ \E a \in Answer : Finish(r, a)
        \/ \E stage \in {"undo", "create", "codes", "dropCodes", "dropRecord"} : Goto(r, stage)
    BY <1>5 DEF SetupStored, InsufficientShares, SharesErased, DeleteBackupCodes, Stop, Answer
  <2>2. UNCHANGED <<record, delivered>>
    BY <1>5 DEF SetupStored, InsufficientShares, SharesErased, DeleteBackupCodes, Stop
  <2>3. CASE \E a \in Answer : Finish(r, a)
    BY <2>2, <2>3, <1>1, <1>req, FinishEffect
  <2>4. CASE \E stage \in {"undo", "create", "codes", "dropCodes", "dropRecord"} : Goto(r, stage)
    BY <2>2, <2>4, <1>1, <1>req, GotoEffect
  <2> QED
    BY <2>1, <2>3, <2>4
\* A code that matches is of a secret.
<1>6. ASSUME NEW r \in Req, CheckOTP(r) \/ LookupBackupCode(r) \/ MarkBackupCodeUsed(r)
      PROVE  GivenInv'
  <2>1. /\ req[r].stage \in {"fetch", "lookup", "mark"} /\ req[r].op \in {"verify", "disable"}
        /\ UNCHANGED <<record, delivered>>
    BY <1>6, <1>req DEF CheckOTP, LookupBackupCode, MarkBackupCodeUsed, At, OpOfStage,
                        SetupStage, Request
  <2>2. \/ \E a \in Answer : Finish(r, a)
        \/ Goto(r, "erase")
        \/ \E stage \in {"mark", "enable"} : Goto(r, stage) /\ req[r].code[1] \in Secret
    <3>1. CASE CheckOTP(r)
      BY <3>1, <1>req DEF CheckOTP, MatchesOTP, Accepted, Answer, Request
    <3>2. CASE LookupBackupCode(r)
      BY <3>2, <1>req DEF LookupBackupCode, BackupCode, Answer
    <3>3. CASE MarkBackupCodeUsed(r)
      BY <3>3 DEF MarkBackupCodeUsed, Accepted, At, Answer
    <3> QED
      BY <1>6, <3>1, <3>2, <3>3
  <2>3. CASE \E a \in Answer : Finish(r, a)
    BY <2>1, <2>3, <1>1, <1>req, FinishEffect
  <2>4. CASE Goto(r, "erase")
    BY <2>1, <2>4, <1>1, <1>req, GotoEffect
  <2>5. ASSUME NEW stage \in {"mark", "enable"}, Goto(r, stage), req[r].code[1] \in Secret
        PROVE  GivenInv'
    <3>1. /\ Others(r) /\ req'[r].stage = stage /\ req'[r].op = req[r].op
          /\ req'[r].code = req[r].code
      BY <2>5, <1>req, GotoEffect
    <3>2. req[r].code[1] \in delivered
      BY <2>1, <2>5, <1>req DEF GivenInv
    <3> QED
      BY <2>1, <3>1, <3>2 DEF GivenInv, Others
  <2> QED
    BY <2>2, <2>3, <2>4, <2>5
\* A Setup goes on: all the others are idle.
<1>7. ASSUME NEW r \in Req,
             CreateTwoFARecord(r) \/ StoreBatchBackupCodes(r) \/ SetupReply(r)
      PROVE  GivenInv'
  <2>1. /\ req[r].op = "setup"
        /\ \A q \in Req : q # r => req[q].stage = "idle" /\ req[q].op = "none"
    BY <1>7, <1>req DEF CreateTwoFARecord, StoreBatchBackupCodes, SetupReply, At,
                        OpOfStage, SetupStage, SetupAlone
  <2>2. \/ \E a \in Answer : Finish(r, a)
        \/ Goto(r, "codes") /\ delivered' = delivered
        \/ Goto(r, "reply") /\ delivered' = delivered /\ record' # "absent"
    BY <1>7 DEF CreateTwoFARecord, StoreBatchBackupCodes, SetupReply, Answer, At,
                RecordInv, RecordAtStage
  <2>3. /\ Others(r)
        /\ \/ req'[r].stage = "idle" /\ req'[r].op = "none"
           \/ /\ req'[r].stage \in {"codes", "reply"} /\ req'[r].op = "setup"
              /\ req'[r].code = req[r].code /\ delivered' = delivered
              /\ req'[r].stage = "reply" => record' # "absent"
    BY <2>1, <2>2, <1>req, FinishEffect, GotoEffect
  <2> QED
    BY <2>1, <2>3 DEF GivenInv, Others
\* A Setup at its reply would be alone.
<1>8. ASSUME NEW r \in Req, EnableTwoFA(r) \/ DeleteTwoFARecord(r) PROVE GivenInv'
  <2>1. /\ req[r].stage \in {"enable", "dropRecord"} /\ (\E a \in Answer : Finish(r, a))
        /\ delivered' = delivered
    BY <1>8 DEF EnableTwoFA, DeleteTwoFARecord, At, Answer
  <2>2. Others(r) /\ req'[r].stage = "idle" /\ req'[r].op = "none"
    BY <2>1, <1>req, FinishEffect
  <2>3. \A q \in Req : req[q].stage # "reply"
    BY <2>1, <1>req DEF OpOfStage, SetupAlone, SetupStage
  <2> QED
    BY <2>1, <2>2, <2>3 DEF GivenInv, Others
<1>9. CASE UNCHANGED vars \/ Network
  BY <1>9 DEF vars, Network, GivenInv
<1> QED
  BY <1>2, <1>3, <1>4, <1>5, <1>6, <1>7, <1>8, <1>9 DEF Next, Proceed

\* Requests know which secrets were given in every reachable state.
THEOREM GivenInvariant ==
  ASSUME "setup" \notin Concurrent
  PROVE  Spec => []GivenInv
<1>1. Init => GivenInv
  BY DEF Init, GivenInv, Idle
<1>2. AloneInv /\ RecordInv /\ GivenInv /\ [Next]_vars => GivenInv'
  BY GivenInvStep
<1> QED
  BY <1>1, <1>2, SetupRunsAlone, RecordInvariant, PTL DEF Spec

\* A secret of which no share was added can be rebuilt after a step only if it
\* could before.
LEMMA LiveShrinks ==
  ASSUME NEW t \in Secret, \A n \in Node : shares'[n] = t => shares[n] = t
  PROVE  t \in Live' => t \in Live
<1>1. Holders(t)' \in SUBSET Holders(t) /\ Holders(t) \in SUBSET Node
  BY DEF Holders
<1>2. /\ Cardinality(Holders(t)') <= Cardinality(Holders(t))
      /\ Cardinality(Holders(t)') \in Nat /\ Cardinality(Holders(t)) \in Nat
  BY <1>1, NodeSets
<1> QED
  BY <1>2, TwoFAAssumption, MpcAssumption DEF Live, Recoverable

\* A secret that every node has a share of can be rebuilt.
LEMMA SharedIsLive ==
  ASSUME NEW s \in Secret, \A n \in Node : shares[n] = s
  PROVE  s \in Live
<1>1. Holders(s) = Node
  BY DEF Holders
<1> QED
  BY <1>1, NodeSets, TwoFAAssumption, MpcAssumption DEF Live, Recoverable

\* A secret that no node has a share of cannot.
LEMMA UnsharedIsNot ==
  ASSUME NEW s \in Secret, \A n \in Node : shares[n] # s
  PROVE  s \notin Live
<1>1. Cardinality(Holders(s)) = 0
  BY FS_EmptySet DEF Holders
<1> QED
  BY <1>1, TwoFAAssumption, MpcAssumption DEF Live, Recoverable

\* What each step needs of the invariants.
Relied == AloneInv /\ PhaseInv /\ RecordInv /\ SharesInv /\ FetchInv /\ GivenInv

\* As long as the record is not enabled, the enrolment stands where the record
\* does; an enabled one is ending as long as a Disable erases.
LEMMA StandingIs ==
  ASSUME Relied
  PROVE  /\ record \in {"absent", "pending"} => Standing = record
         /\ record = "enabled" => Standing = IF Disabling THEN "ending" ELSE "enabled"
         /\ record \in {"absent", "pending", "enabled"}
         /\ \A r \in Req : req[r].stage \in {"erase", "dropCodes", "dropRecord"} =>
              Disabling /\ req[r].op = "disable" /\ record # "pending"
BY DEF Relied, AloneInv, TypeInv, TypeOK, Status, Standing, Disabling, OpOfStage, PhaseInv

\* A request moves on, or is answered, and the tables stay as they are: nothing
\* happens to the enrolment, unless the last Disable gives up.
LEMMA QuietStep ==
  ASSUME Relied, NEW r \in Req, Others(r),
         req'[r].stage \notin {"erase", "dropCodes", "dropRecord"},
         UNCHANGED <<shares, record, unused, delivered>>
  PROVE  [Promise!EnrolmentNext]_(Promise!enrolmentVars)
<1>1. Live' = Live
  BY DEF Live, Recoverable, Holders
<1>2. Disabling' => Disabling
  BY DEF Disabling, Others
<1>3. CASE Standing' = Standing
  BY <1>1, <1>3 DEF Promise!enrolmentVars
<1>4. CASE Standing' # Standing
  <2>1. Standing = "ending" /\ Standing' = "enabled"
    BY <1>2, <1>4 DEF Standing
  <2>2. Promise!GiveUp
    BY <1>1, <2>1 DEF Promise!GiveUp
  <2> QED
    BY <2>2 DEF Promise!EnrolmentNext
<1> QED
  BY <1>3, <1>4

\* The steps of a Setup: none of them touches an enabled enrolment, and the
\* secret at hand is one that nobody was given.
LEMMA SetupKeepsPromise ==
  ASSUME MaxLate = 0, Relied, NEW r \in Req,
         \/ SetupBegin(r) \/ SetupStored(r) \/ CreateTwoFARecord(r)
         \/ StoreBatchBackupCodes(r) \/ SetupReply(r)
         \/ \E n \in Node : SetupStore(r, n) \/ SetupUndo(r, n)
  PROVE  [Promise!EnrolmentNext]_(Promise!enrolmentVars)
<1> DEFINE s == req[r].code[1]
<1>req. /\ req \in [Req -> Request] /\ OpOfStage /\ SetupAlone /\ MpcTypeOK /\ late = {}
        /\ NoSecret \notin Secret /\ unused \subseteq BackupCode
  BY MpcAssumption DEF Relied, AloneInv, TypeInv, TypeOK, SharesInv
<1>setup. ASSUME req[r].stage \in SetupStage
          PROVE  /\ req[r].op = "setup" /\ s \in Secret /\ s \notin delivered
                 /\ record \in {"absent", "pending"}
                 /\ Standing = record /\ (record' = record => Standing' = record)
  <2>1. /\ req[r].op = "setup" /\ s \in Secret /\ s \notin delivered /\ record # "enabled"
    BY <1>setup, <1>req DEF OpOfStage, Relied, AloneInv, TypeInv, SetupHasSecret, GivenInv,
                            PhaseInv
  <2> QED
    BY <2>1, StandingIs DEF Standing
<1>live. ASSUME req[r].stage \in {"create", "codes", "reply"}
         PROVE  s \in Live \ delivered
  <2>1. s \in Secret /\ s \notin delivered /\ \A n \in Node : shares[n] = s
    BY <1>live, <1>setup DEF Relied, SharesInv, SharesAtStage, SetupStage
  <2> QED
    BY <2>1, SharedIsLive
<1>same. shares' = shares => Live' = Live
  BY DEF Live, Recoverable, Holders
<1>1. CASE SetupBegin(r)
  <2>1. PICK t \in Secret \ InUse : delivered' = delivered \ {t}
    BY <1>1 DEF SetupBegin
  <2>2. record # "enabled" /\ UNCHANGED <<shares, record, unused>>
    BY <1>1 DEF SetupBegin, mpcVars
  <2>3. t \notin Live
    BY <2>1, UnsharedIsNot DEF InUse
  <2>4. Standing \in {"absent", "pending"} /\ Standing' = Standing
    BY <2>2, StandingIs DEF Standing
  <2>5. Promise!Draw
    BY <2>1, <2>2, <2>3, <2>4, <1>same DEF Promise!Draw
  <2> QED
    BY <2>5 DEF Promise!EnrolmentNext
<1>2. ASSUME NEW n \in Node, SetupStore(r, n) \/ SetupUndo(r, n)
      PROVE  [Promise!EnrolmentNext]_(Promise!enrolmentVars)
  <2>1. req[r].stage \in SetupStage /\ UNCHANGED <<record, unused, delivered>>
    BY <1>2 DEF SetupStore, SetupUndo, At, SetupStage
  <2>2. \A m \in Node : shares'[m] \in {shares[m], s, NoSecret}
    <3>1. CASE SetupStore(r, n)
      <4>1. \E ok \in BOOLEAN : StoreShare(n, s, ok, Faulty(n) \/ Cancelled(r))
        BY <3>1 DEF SetupStore
      <4> QED
        BY <4>1, <2>1, <1>req, <1>setup, StoreShareOutcome
    <3>2. CASE SetupUndo(r, n)
      <4>1. \E ok \in BOOLEAN : DeleteShare(n, ok, Faulty(n))
        BY <3>2 DEF SetupUndo
      <4> QED
        BY <4>1, <1>req, DeleteShareOutcome
    <3> QED
      BY <1>2, <3>1, <3>2
  <2>3. \A t \in Live' \cap delivered : t \in Live
    <3> SUFFICES ASSUME NEW t \in Live', t \in delivered PROVE t \in Live
      OBVIOUS
    <3>1. t \in Secret /\ t # s /\ t # NoSecret
      BY <2>1, <1>setup, <1>req DEF Live
    <3> QED
      BY <2>2, <3>1, LiveShrinks
  <2>4. Live' \in SUBSET Secret
    BY DEF Live
  <2>5. Promise!Share
    BY <2>1, <2>3, <2>4, <1>setup DEF Promise!Share
  <2> QED
    BY <2>5 DEF Promise!EnrolmentNext
<1>3. CASE SetupStored(r)
  <2>1. /\ \E stage \in {"undo", "create", "codes"} : Goto(r, stage)
        /\ UNCHANGED <<shares, record, unused, delivered>>
    BY <1>3 DEF SetupStored, mpcVars
  <2>2. Others(r) /\ req'[r].stage \in {"undo", "create", "codes"}
    BY <2>1, <1>req, GotoEffect
  <2> QED
    BY <2>1, <2>2, QuietStep
<1>4. CASE CreateTwoFARecord(r)
  <2>1. req[r].stage = "create" /\ UNCHANGED <<shares, unused, delivered>>
    BY <1>4 DEF CreateTwoFARecord, At, mpcVars
  <2>2. CASE record = "absent"
    <3>1. record' = "pending" /\ Standing' = "pending" /\ Standing = "absent"
      BY <1>4, <2>1, <2>2, <1>setup DEF CreateTwoFARecord, Standing, SetupStage
    <3>2. Promise!Open
      BY <2>1, <3>1, <1>live, <1>same DEF Promise!Open
    <3> QED
      BY <3>2 DEF Promise!EnrolmentNext
  <2>3. CASE record # "absent"
    <3>1. record' = record
      BY <1>4, <2>3 DEF CreateTwoFARecord
    <3> QED
      BY <2>1, <3>1, <1>setup, <1>same DEF Promise!enrolmentVars, SetupStage
  <2> QED
    BY <2>2, <2>3
<1>5. CASE StoreBatchBackupCodes(r)
  <2>1. /\ req[r].stage = "codes" /\ UNCHANGED <<shares, record, delivered>>
        /\ unused' = unused \cup ({s} \X (1..BackupCodeCount))
    BY <1>5 DEF StoreBatchBackupCodes, At, mpcVars
  <2>2. Standing = "pending" /\ Standing' = "pending"
    BY <2>1, <1>setup DEF Relied, RecordInv, RecordAtStage, SetupStage
  <2>3. Promise!AddCodes
    BY <2>1, <2>2, <1>live, <1>same DEF Promise!AddCodes
  <2> QED
    BY <2>3 DEF Promise!EnrolmentNext
<1>6. CASE SetupReply(r)
  <2>1. /\ req[r].stage = "reply" /\ UNCHANGED <<shares, record, unused>>
        /\ delivered' = delivered \cup {s}
    BY <1>6 DEF SetupReply, At, mpcVars
  <2>2. Standing = "pending" /\ Standing' = "pending"
    BY <2>1, <1>setup DEF Relied, GivenInv, SetupStage
  <2>3. Promise!Give
    BY <2>1, <2>2, <1>live, <1>same DEF Promise!Give
  <2> QED
    BY <2>3 DEF Promise!EnrolmentNext
<1> QED
  BY <1>1, <1>2, <1>3, <1>4, <1>5, <1>6

\* The steps that prove a code: they confirm, spend a backup code, or let a
\* Disable begin to erase.
LEMMA ProofKeepsPromise ==
  ASSUME MaxLate = 0, Relied, NEW r \in Req,
         \/ VerifyBegin(r) \/ DisableBegin(r) \/ InsufficientShares(r) \/ CheckOTP(r)
         \/ LookupBackupCode(r) \/ MarkBackupCodeUsed(r) \/ EnableTwoFA(r)
         \/ \E n \in Node : FetchShare(r, n) \/ FetchFails(r, n)
  PROVE  [Promise!EnrolmentNext]_(Promise!enrolmentVars)
<1> DEFINE c == req[r].code
           Step == [Promise!EnrolmentNext]_(Promise!enrolmentVars)
<1>req. /\ req \in [Req -> Request] /\ OpOfStage /\ NoSecret \notin Secret
        /\ record \in {"absent", "pending", "enabled"}
  BY MpcAssumption, StandingIs DEF Relied, AloneInv, TypeInv, TypeOK
<1>same. shares' = shares => Live' = Live
  BY DEF Live, Recoverable, Holders
<1>1. ASSUME VerifyBegin(r) \/ DisableBegin(r) PROVE Step
  <2>1. \E op \in {"verify", "disable"}, stage \in {"fetch", "lookup"}, d \in Presentable :
          Start(r, op, stage, d)
    BY <1>1 DEF VerifyBegin, DisableBegin, BeginProof
  <2>2. Others(r) /\ req'[r].stage \in {"fetch", "lookup"}
    BY <2>1, <1>req, StartEffect
  <2>3. UNCHANGED <<shares, record, unused, delivered>>
    BY <1>1 DEF VerifyBegin, DisableBegin, BeginProof, mpcVars
  <2> QED
    BY <2>2, <2>3, QuietStep
<1>2. ASSUME NEW n \in Node, FetchShare(r, n) \/ FetchFails(r, n) PROVE Step
  <2>1. req[r].stage = "fetch" /\ UNCHANGED <<shares, record, unused, delivered>>
    BY <1>2 DEF FetchShare, FetchFails, Fetching, At, mpcVars
  <2>2. FetchShare(r, n) \/ Returned(r, n, FALSE)
    BY <1>2 DEF FetchFails
  <2>3. Others(r) /\ req'[r].stage = "fetch"
    BY <2>1, <2>2, <1>req, FetchEffect, ReturnedEffect
  <2> QED
    BY <2>1, <2>3, QuietStep
<1>3. ASSUME InsufficientShares(r) \/ LookupBackupCode(r) PROVE Step
  <2>1. /\ (\E a \in Answer : Finish(r, a)) \/ Goto(r, "mark")
        /\ UNCHANGED <<shares, record, unused, delivered>>
    BY <1>3 DEF InsufficientShares, LookupBackupCode, mpcVars, Answer
  <2>2. Others(r) /\ req'[r].stage \in {"idle", "mark"}
    BY <2>1, <1>req, FinishEffect, GotoEffect
  <2> QED
    BY <2>1, <2>2, QuietStep
\* A Disable whose code is accepted while no other one erases.
<1>erase. ASSUME Goto(r, "erase"), req[r].op = "disable", c[1] \in delivered,
                 UNCHANGED <<shares, record, delivered>>, unused' \in {unused, unused \ {c}}
          PROVE  Step
  <2>1. Others(r) /\ req'[r].stage = "erase" /\ Disabling'
    BY <1>erase, <1>req, GotoEffect DEF Disabling
  <2>2. record # "pending"
    BY <1>erase DEF Relied, PhaseInv
  <2>3. CASE record = "absent"
    <3>1. unused = {}
      BY <2>3 DEF Relied, RecordInv, CodesImplyRecord
    <3>2. unused' = unused
      BY <1>erase, <3>1
    <3>3. Standing = record /\ Standing' = record
      BY <1>erase, <2>3 DEF Standing
    <3> QED
      BY <1>erase, <3>2, <3>3, <1>same DEF Promise!enrolmentVars
  <2>4. CASE record = "enabled" /\ Disabling
    <3>1. Standing = "ending" /\ Standing' = "ending"
      BY <1>erase, <2>1, <2>4 DEF Standing
    <3>2. Promise!Erase
      BY <1>erase, <3>1, <1>same DEF Promise!Erase
    <3> QED
      BY <3>2 DEF Promise!EnrolmentNext
  <2>5. CASE record = "enabled" /\ ~Disabling
    <3>1. Standing = "enabled" /\ Standing' = "ending"
      BY <1>erase, <2>1, <2>5 DEF Standing
    <3>2. unused' \in {unused} \cup {unused \ {d} : d \in unused}
      BY <1>erase
    <3>3. Promise!TakeApart
      BY <1>erase, <3>1, <3>2, <1>same DEF Promise!TakeApart
    <3> QED
      BY <3>3 DEF Promise!EnrolmentNext
  <2> QED
    BY <2>2, <2>3, <2>4, <2>5, <1>req
<1>4. ASSUME CheckOTP(r) PROVE Step
  <2>1. req[r].stage = "fetch" /\ UNCHANGED <<shares, record, unused, delivered>>
    BY <1>4 DEF CheckOTP, At, mpcVars
  <2>2. \/ (\E a \in Answer : Finish(r, a)) \/ Goto(r, "enable")
        \/ MatchesOTP(r) /\ req[r].op = "disable" /\ Goto(r, "erase")
    BY <1>4 DEF CheckOTP, Accepted, Answer
  <2>3. CASE (\E a \in Answer : Finish(r, a)) \/ Goto(r, "enable")
    <3>1. Others(r) /\ req'[r].stage \in {"idle", "enable"}
      BY <2>3, <1>req, FinishEffect, GotoEffect
    <3> QED
      BY <2>1, <3>1, QuietStep
  <2>4. CASE MatchesOTP(r) /\ req[r].op = "disable" /\ Goto(r, "erase")
    <3>1. c[1] \in delivered
      BY <2>4, <1>req DEF MatchesOTP, Request, Relied, GivenInv
    <3> QED
      BY <2>1, <2>4, <3>1, <1>erase
  <2> QED
    BY <2>2, <2>3, <2>4
<1>5. ASSUME MarkBackupCodeUsed(r) PROVE Step
  <2>1. /\ req[r].stage = "mark" /\ UNCHANGED <<shares, record, delivered>>
        /\ unused' = unused \ {c}
    BY <1>5 DEF MarkBackupCodeUsed, At, mpcVars
  <2>2. (req[r].op = "disable" /\ Goto(r, "erase")) \/ Finish(r, "ok")
    BY <1>5, <2>1 DEF MarkBackupCodeUsed, Accepted, At
  <2>3. CASE req[r].op = "disable" /\ Goto(r, "erase")
    BY <2>1, <2>3, <1>erase DEF Relied, GivenInv
  <2>4. CASE Finish(r, "ok")
    <3>1. Others(r) /\ req'[r].stage = "idle"
      BY <2>4, <1>req, FinishEffect
    <3>2. Standing' = Standing
      BY <2>1, <3>1 DEF Standing, Disabling, Others
    <3>3. CASE c \notin unused
      BY <2>1, <3>1, <3>3, QuietStep
    <3>4. CASE c \in unused /\ Standing = "ending"
      <4>1. Promise!Erase
        BY <2>1, <3>2, <3>4, <1>same DEF Promise!Erase
      <4> QED
        BY <4>1 DEF Promise!EnrolmentNext
    <3>5. CASE c \in unused /\ Standing # "ending"
      <4>1. Standing \in {"pending", "enabled"}
        BY <3>5, <1>req DEF Standing, Relied, RecordInv, CodesImplyRecord
      <4>2. Promise!Spend
        BY <2>1, <3>2, <3>5, <4>1, <1>same DEF Promise!Spend
      <4> QED
        BY <4>2 DEF Promise!EnrolmentNext
    <3> QED
      BY <3>3, <3>4, <3>5
  <2> QED
    BY <2>2, <2>3, <2>4
\* The secret of a pending record that is confirmed can be rebuilt: nobody has
\* erased since its shares were fetched.
<1>6. ASSUME EnableTwoFA(r) PROVE Step
  <2>1. /\ req[r].stage = "enable" /\ UNCHANGED <<shares, unused, delivered>>
        /\ \E a \in Answer : Finish(r, a)
    BY <1>6 DEF EnableTwoFA, At, mpcVars, Answer
  <2>2. Others(r) /\ req'[r].stage = "idle"
    BY <2>1, <1>req, FinishEffect
  <2>3. CASE record' = record
    BY <2>1, <2>2, <2>3, QuietStep
  <2>4. CASE record' # record
    <3>1. record = "pending" /\ record' = "enabled"
      BY <1>6, <2>4, <1>req DEF EnableTwoFA
    <3>2. ~Disabling /\ ~Disabling'
      BY <2>2, <3>1, StandingIs DEF Disabling, Others
    <3>3. Standing = "pending" /\ Standing' = "enabled"
      BY <3>1, <3>2 DEF Standing
    <3>4. c[1] \in delivered /\ c[1] \in Secret /\ Recoverable(c[1])
      BY <2>1, <3>1 DEF Relied, GivenInv, FetchInv, AloneInv, TypeInv, TypeOK
    <3>5. Promise!Confirm
      BY <2>1, <3>3, <3>4, <1>same DEF Promise!Confirm, Live
    <3> QED
      BY <3>5 DEF Promise!EnrolmentNext
  <2> QED
    BY <2>3, <2>4
<1> QED
  BY <1>1, <1>2, <1>3, <1>4, <1>5, <1>6

\* The steps of a Disable that was accepted: the enrolment is ending, and the
\* record goes last; where another Disable was faster there is nothing left.
LEMMA DisableKeepsPromise ==
  ASSUME MaxLate = 0, Relied, NEW r \in Req,
         \/ SharesErased(r) \/ DeleteBackupCodes(r) \/ DeleteTwoFARecord(r)
         \/ \E n \in Node : EraseShare(r, n)
  PROVE  [Promise!EnrolmentNext]_(Promise!enrolmentVars)
<1> DEFINE Step == [Promise!EnrolmentNext]_(Promise!enrolmentVars)
<1>req. /\ req \in [Req -> Request] /\ MpcTypeOK /\ late = {} /\ NoSecret \notin Secret
        /\ req[r].stage \in {"erase", "dropCodes", "dropRecord"}
  BY MpcAssumption DEF Relied, AloneInv, TypeInv, TypeOK, SharesInv, SharesErased,
                       DeleteBackupCodes, DeleteTwoFARecord, EraseShare, At
<1>rec. /\ Disabling /\ record \in {"absent", "enabled"}
        /\ Standing = IF record = "enabled" THEN "ending" ELSE "absent"
  BY <1>req, StandingIs
<1>same. shares' = shares => Live' = Live
  BY DEF Live, Recoverable, Holders
\* The request goes on erasing.
<1>on. ASSUME req'[r].stage \in {"erase", "dropCodes", "dropRecord"}, record' = record
       PROVE  Standing' = Standing
  BY <1>on, <1>rec DEF Standing, Disabling
<1>1. ASSUME NEW n \in Node, EraseShare(r, n) PROVE Step
  <2>1. PICK ok \in BOOLEAN :
          DeleteShare(n, ok, Faulty(n) \/ Cancelled(r)) /\ Returned(r, n, ok)
    BY <1>1 DEF EraseShare
  <2>2. UNCHANGED <<record, unused, delivered>> /\ req[r].stage = "erase"
    BY <1>1 DEF EraseShare, At
  <2>3. req'[r].stage = "erase"
    BY <2>1, <2>2, <1>req, ReturnedEffect
  <2>4. \A m \in Node : shares'[m] \in {shares[m], NoSecret}
    BY <2>1, <1>req, DeleteShareEffect
  <2>5. Live' \in SUBSET Live
    <3> SUFFICES ASSUME NEW t \in Live' PROVE t \in Live
      OBVIOUS
    <3>1. t \in Secret /\ t # NoSecret
      BY <1>req DEF Live
    <3> QED
      BY <2>4, <3>1, LiveShrinks
  <2>6. Standing' = Standing
    BY <2>2, <2>3, <1>on
  <2>7. CASE record = "enabled"
    <3>1. Promise!Erase
      BY <2>2, <2>5, <2>6, <2>7, <1>rec DEF Promise!Erase
    <3> QED
      BY <3>1 DEF Promise!EnrolmentNext
  <2>8. CASE record = "absent"
    <3>1. Live' \in SUBSET Secret /\ Live' \cap delivered \subseteq Live
      BY <2>5 DEF Live
    <3>2. Promise!Share
      BY <2>2, <2>6, <2>8, <3>1, <1>rec DEF Promise!Share
    <3> QED
      BY <3>2 DEF Promise!EnrolmentNext
  <2> QED
    BY <2>7, <2>8, <1>rec
<1>2. ASSUME SharesErased(r) PROVE Step
  <2>1. /\ Finish(r, "failed") \/ Goto(r, "dropCodes")
        /\ UNCHANGED <<shares, record, unused, delivered>>
    BY <1>2 DEF SharesErased, mpcVars
  <2>2. CASE Finish(r, "failed")
    <3>1. Others(r) /\ req'[r].stage = "idle"
      BY <2>2, <1>req, FinishEffect
    <3> QED
      BY <2>1, <3>1, QuietStep
  <2>3. CASE Goto(r, "dropCodes")
    <3>1. req'[r].stage = "dropCodes"
      BY <2>3, <1>req, GotoEffect
    <3> QED
      BY <2>1, <3>1, <1>on, <1>same DEF Promise!enrolmentVars
  <2> QED
    BY <2>1, <2>2, <2>3
<1>3. ASSUME DeleteBackupCodes(r) PROVE Step
  <2>1. /\ Goto(r, "dropRecord") /\ unused' = {}
        /\ UNCHANGED <<shares, record, delivered>>
    BY <1>3 DEF DeleteBackupCodes, mpcVars
  <2>2. req'[r].stage = "dropRecord"
    BY <2>1, <1>req, GotoEffect
  <2>3. Standing' = Standing
    BY <2>1, <2>2, <1>on
  <2>4. CASE record = "enabled"
    <3>1. Promise!Erase
      BY <2>1, <2>3, <2>4, <1>rec, <1>same DEF Promise!Erase
    <3> QED
      BY <3>1 DEF Promise!EnrolmentNext
  <2>5. CASE record = "absent"
    <3>1. unused' = unused
      BY <2>1, <2>5 DEF Relied, RecordInv, CodesImplyRecord
    <3> QED
      BY <2>1, <2>3, <3>1, <1>same DEF Promise!enrolmentVars
  <2> QED
    BY <2>4, <2>5, <1>rec
<1>4. ASSUME DeleteTwoFARecord(r) PROVE Step
  <2>1. /\ req[r].stage = "dropRecord" /\ record' = "absent"
        /\ UNCHANGED <<shares, unused, delivered>>
    BY <1>4 DEF DeleteTwoFARecord, At, mpcVars
  <2>2. Standing' = "absent"
    BY <2>1 DEF Standing
  <2>3. unused = {} /\ \A n \in Node : shares[n] = NoSecret
    BY <2>1 DEF Relied, RecordInv, RecordAtStage, SharesInv, SharesAtStage
  <2>4. Live = {}
    <3> SUFFICES ASSUME NEW t \in Secret PROVE t \notin Live
      BY DEF Live
    <3> QED
      BY <2>3, <1>req, UnsharedIsNot
  <2>5. CASE record = "enabled"
    <3>1. Promise!Forget
      BY <2>1, <2>2, <2>3, <2>4, <2>5, <1>rec, <1>same DEF Promise!Forget
    <3> QED
      BY <3>1 DEF Promise!EnrolmentNext
  <2>6. CASE record = "absent"
    BY <2>1, <2>2, <2>6, <1>rec, <1>same DEF Promise!enrolmentVars
  <2> QED
    BY <2>5, <2>6, <1>rec
<1> QED
  BY <1>1, <1>2, <1>3, <1>4

\* Every step of TwoFA is a step of Enrolment, or none.
LEMMA EnrolmentStep ==
  ASSUME MaxLate = 0
  PROVE  Relied /\ [Next]_vars => [Promise!EnrolmentNext]_(Promise!enrolmentVars)
<1> SUFFICES ASSUME Relied, [Next]_vars
             PROVE  [Promise!EnrolmentNext]_(Promise!enrolmentVars)
  OBVIOUS
<1>req. req \in [Req -> Request] /\ late = {}
  BY DEF Relied, AloneInv, TypeInv, TypeOK, SharesInv
<1>1. CASE UNCHANGED vars \/ Network
  <2>1. UNCHANGED <<shares, record, unused, delivered, req>>
    BY <1>1, <1>req DEF vars, Network, DeliverLate, LoseLate, CalmDown
  <2>2. Live' = Live /\ Standing' = Standing
    BY <2>1 DEF Live, Recoverable, Holders, Standing, Disabling
  <2> QED
    BY <2>1, <2>2 DEF Promise!enrolmentVars
<1>2. ASSUME NEW r \in Req, Stop(r)
      PROVE  [Promise!EnrolmentNext]_(Promise!enrolmentVars)
  <2>1. Finish(r, "failed") /\ UNCHANGED <<shares, record, unused, delivered>>
    BY <1>2 DEF Stop, mpcVars
  <2>2. Others(r) /\ req'[r].stage = "idle"
    BY <2>1, <1>req, FinishEffect
  <2> QED
    BY <2>1, <2>2, QuietStep
<1> QED
  BY <1>1, <1>2, SetupKeepsPromise, ProofKeepsPromise, DisableKeepsPromise DEF Next, Proceed

\* If no Setup overlaps another request and no call executes after its caller gave
\* up, the handlers over the nodes and the database implement the abstract
\* enrolment, wherever requests are cut short and whatever nodes fail: an enabled
\* user's secrets stay until a Disable was accepted, what is confirmed can be
\* rebuilt, and an enrolment is forgotten when nothing is left of it.
THEOREM EnrolmentIsKept ==
  ASSUME "setup" \notin Concurrent, MaxLate = 0
  PROVE  Spec => KeepsEnrolment
<1>1. Init => Promise!EnrolmentInit
  <2> SUFFICES ASSUME Init PROVE Promise!EnrolmentInit
    OBVIOUS
  <2>1. \A s \in Secret, n \in Node : shares[n] # s
    BY MpcAssumption DEF Init, MpcInit
  <2>2. Live = {}
    BY <2>1, UnsharedIsNot DEF Live
  <2> QED
    BY <2>2 DEF Init, Standing, Promise!EnrolmentInit
<1>2. Relied /\ [Next]_vars => [Promise!EnrolmentNext]_(Promise!enrolmentVars)
  BY EnrolmentStep
<1>3. Spec => []Relied
  BY SetupRunsAlone, PhaseInvariant, RecordInvariant, SharesInvariant, FetchInvariant,
     GivenInvariant, PTL DEF Relied
<1> QED
  BY <1>1, <1>2, <1>3, PTL DEF Spec, KeepsEnrolment, Promise!EnrolmentSpec

=============================================================================
