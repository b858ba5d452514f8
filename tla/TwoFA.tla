------------------------------- MODULE TwoFA -------------------------------
(***************************************************************************)
(* The 2FA orchestrator (src/twofa) over the MPC nodes: Setup, Verify and   *)
(* Disable of one user, as requests that interleave at every call to a node *)
(* or to the database.                                                      *)
(*                                                                         *)
(* A request is a record that walks through the stages of its handler; it   *)
(* holds what the handler holds in local variables, so what was read before *)
(* a call and is used after it is stale here exactly when it is stale there.*)
(*                                                                         *)
(* A credential is <<s, i>>: the current TOTP code of secret s when i = 0,  *)
(* the i-th backup code issued together with s otherwise.                   *)
(***************************************************************************)
EXTENDS MpcNodes

CONSTANTS
    Threshold,          \* shares that rebuild a secret
    BackupCodeCount,    \* backup codes issued by one Setup
    Req,                \* the requests that may be under way at once
    Ops,                \* the operations this user calls
    Concurrent,         \* those of them that may overlap one another
    StopsAt             \* the stages at which a request may be cut short

Stage == {"idle", "store", "undo", "create", "codes", "reply", "fetch",
          "enable", "lookup", "mark", "erase", "dropCodes", "dropRecord"}

ASSUME TwoFAAssumption ==
    /\ Threshold \in 1..NodeCount
    /\ BackupCodeCount \in Nat
    /\ Ops \subseteq {"setup", "verify", "disable"}
    /\ Concurrent \subseteq Ops
    /\ StopsAt \subseteq Stage \ {"idle"}

VARIABLES
    record,         \* the row of twofa_records: absent, pending or enabled
    unused,         \* the rows of backup_codes with is_used = FALSE
    delivered,      \* secrets whose URI and backup codes reached the user
    req             \* req[r]: the request r is serving

vars == <<shares, late, calm, record, unused, delivered, req>>

Status == {"absent", "pending", "enabled"}
Credential == (Secret \cup {NoSecret}) \X (0..BackupCodeCount)
BackupCode == Secret \X (1..BackupCodeCount)

Answer == {"none", "ok", "invalid", "reused", "insufficient", "failed"}

Request ==
    [op     : {"none", "setup", "verify", "disable"},
     stage  : Stage,
     seen   : Status,                        \* the record as read first
     code   : Credential,                    \* presented, or being issued
     got    : SUBSET Secret,                 \* secrets of the shares fetched
     call   : [Node -> {"todo", "ok", "err"}],
     answer : Answer]                        \* of the last request served

NoCalls == [n \in Node |-> "todo"]

Idle == [op |-> "none", stage |-> "idle", seen |-> "absent",
         code |-> <<NoSecret, 0>>, got |-> {}, call |-> NoCalls,
         answer |-> "none"]

TypeOK ==
    /\ MpcTypeOK
    /\ record \in Status
    /\ unused \subseteq BackupCode
    /\ delivered \subseteq Secret
    /\ req \in [Req -> Request]

Init ==
    /\ MpcInit
    /\ record = "absent"
    /\ unused = {}
    /\ delivered = {}
    /\ req = [r \in Req |-> Idle]

-----------------------------------------------------------------------------
(* The stages of a request.                                                *)

At(r, stage) == req[r].stage = stage

Goto(r, stage) ==
    req' = [req EXCEPT ![r].stage = stage, ![r].call = NoCalls]

Finish(r, answer) ==
    req' = [req EXCEPT ![r] = [Idle EXCEPT !.answer = answer]]

Returned(r, n, ok) ==
    req' = [req EXCEPT ![r].call[n] = IF ok THEN "ok" ELSE "err"]

Pending(r, n) == req[r].call[n] = "todo"
AllReturned(r) == \A n \in Node : ~Pending(r, n)
SomeFailed(r) == \E n \in Node : req[r].call[n] = "err"
Succeeded(r) == {n \in Node : req[r].call[n] = "ok"}
Failures(r) == {n \in Node : req[r].call[n] = "err"}

\* The errgroup's context is cancelled by the first failure of a sibling, and
\* by the caller going away.
Cancelled(r) == SomeFailed(r) \/ (req[r].stage \in StopsAt /\ ~calm)

MayStart(r, op) ==
    /\ op \in Ops
    /\ At(r, "idle")
    /\ \A q \in Req \ {r} : At(q, "idle") \/ {op, req[q].op} \subseteq Concurrent

Start(r, op, stage, code) ==
    req' = [req EXCEPT ![r] = [Idle EXCEPT !.op = op, !.stage = stage,
                                           !.seen = record, !.code = code]]

-----------------------------------------------------------------------------
(* Setup: enrol the user with a fresh secret.                              *)

InUse == {shares[n] : n \in Node} \cup {c.secret : c \in late}
           \cup {c[1] : c \in unused} \cup {req[r].code[1] : r \in Req}

\* Mutant: an enabled user is not refused.
SetupBegin_EvenIfEnabled(r) ==
    /\ MayStart(r, "setup")
    /\ \E s \in Secret \ InUse :
         /\ Start(r, "setup", "store", <<s, 0>>)
         /\ delivered' = delivered \ {s}
    /\ UNCHANGED <<mpcVars, record, unused>>

\* Refused (no step) while 2FA is enabled.  A secret nothing refers to any more
\* may be drawn again: what the user was given for it proves nothing.
SetupBegin(r) ==
    /\ MayStart(r, "setup")
    /\ record # "enabled"
    /\ \E s \in Secret \ InUse :
         /\ Start(r, "setup", "store", <<s, 0>>)
         /\ delivered' = delivered \ {s}
    /\ UNCHANGED <<mpcVars, record, unused>>

\* The share of node n is sent by a goroutine of its own.
SetupStore(r, n) ==
    /\ At(r, "store")
    /\ Pending(r, n)
    /\ \E ok \in BOOLEAN :
         /\ StoreShare(n, req[r].code[1], ok, Faulty(n) \/ Cancelled(r))
         /\ Returned(r, n, ok)
    /\ UNCHANGED <<calm, record, unused, delivered>>

\* Mutant: as many failed stores are tolerated as reading tolerates.
SetupStored_TolerateFailure(r) ==
    /\ At(r, "store")
    /\ AllReturned(r)
    /\ Goto(r, IF Cardinality(Failures(r)) > NodeCount - Threshold THEN "undo"
               ELSE IF req[r].seen = "absent" THEN "create" ELSE "codes")
    /\ UNCHANGED <<mpcVars, record, unused, delivered>>

\* Mutant: no compensation.
SetupStored_NoUndo(r) ==
    /\ At(r, "store")
    /\ AllReturned(r)
    /\ IF SomeFailed(r) THEN Finish(r, "failed")
       ELSE Goto(r, IF req[r].seen = "absent" THEN "create" ELSE "codes")
    /\ UNCHANGED <<mpcVars, record, unused, delivered>>

\* g.Wait: the record is created only if none was there at the beginning.
SetupStored(r) ==
    /\ At(r, "store")
    /\ AllReturned(r)
    /\ Goto(r, IF SomeFailed(r) THEN "undo"
               ELSE IF req[r].seen = "absent" THEN "create" ELSE "codes")
    /\ UNCHANGED <<mpcVars, record, unused, delivered>>

\* Mutant: the first node that fails ends the compensation.
SetupUndo_StopAtError(r, n) ==
    /\ At(r, "undo")
    /\ Pending(r, n)
    /\ \A m \in 1..(n - 1) : ~Pending(r, m)
    /\ \E ok \in BOOLEAN :
         /\ DeleteShare(n, ok, Faulty(n))
         /\ IF n = NodeCount \/ ~ok THEN Finish(r, "failed") ELSE Returned(r, n, ok)
    /\ UNCHANGED <<calm, record, unused, delivered>>

\* Compensation: every node in turn, under a context of its own, whatever each
\* of them answers.
SetupUndo(r, n) ==
    /\ At(r, "undo")
    /\ Pending(r, n)
    /\ \A m \in 1..(n - 1) : ~Pending(r, m)
    /\ \E ok \in BOOLEAN :
         /\ DeleteShare(n, ok, Faulty(n))
         /\ IF n = NodeCount THEN Finish(r, "failed") ELSE Returned(r, n, ok)
    /\ UNCHANGED <<calm, record, unused, delivered>>

\* INSERT INTO twofa_records: the primary key refuses a second row, and then
\* the shares already stored stay where they are.
CreateTwoFARecord(r) ==
    /\ At(r, "create")
    /\ IF record = "absent"
         THEN record' = "pending" /\ Goto(r, "codes")
         ELSE Finish(r, "failed") /\ UNCHANGED record
    /\ UNCHANGED <<mpcVars, unused, delivered>>

\* Mutant: one row too many.
StoreBatchBackupCodes_OneMore(r) ==
    /\ At(r, "codes")
    /\ unused' = unused \cup ({req[r].code[1]} \X (0..BackupCodeCount))
    /\ Goto(r, "reply")
    /\ UNCHANGED <<mpcVars, record, delivered>>

\* One transaction; it adds to whatever codes the user already has.
StoreBatchBackupCodes(r) ==
    /\ At(r, "codes")
    /\ unused' = unused \cup ({req[r].code[1]} \X (1..BackupCodeCount))
    /\ Goto(r, "reply")
    /\ UNCHANGED <<mpcVars, record, delivered>>

SetupReply(r) ==
    /\ At(r, "reply")
    /\ delivered' = delivered \cup {req[r].code[1]}
    /\ Finish(r, "ok")
    /\ UNCHANGED <<mpcVars, record, unused>>

-----------------------------------------------------------------------------
(* Proving a code, as Verify and Disable do.                               *)

\* What the user may type: anything that was delivered, or something else.
Presentable == (delivered \cup {NoSecret}) \X (0..BackupCodeCount)

BeginProof(r, op) ==
    /\ MayStart(r, op)
    /\ \E c \in Presentable :
         Start(r, op, IF c[2] = 0 THEN "fetch" ELSE "lookup", c)
    /\ UNCHANGED <<mpcVars, record, unused, delivered>>

VerifyBegin(r) == record # "absent" /\ BeginProof(r, "verify")
DisableBegin(r) == record = "enabled" /\ BeginProof(r, "disable")

\* The code is good: Verify enables a record it read as not enabled (a backup
\* code never does), Disable goes on to erase.
Accepted(r) ==
    IF req[r].op = "disable" THEN Goto(r, "erase")
    ELSE IF At(r, "fetch") /\ req[r].seen # "enabled" THEN Goto(r, "enable")
    ELSE Finish(r, "ok")

\* Mutant: nothing is read from the channels after the last tolerable failure.
Fetching_OneFailureLess(r) ==
    /\ At(r, "fetch")
    /\ Cardinality(Succeeded(r)) < Threshold
    /\ Cardinality(Failures(r)) < NodeCount - Threshold

\* The answers of all nodes are awaited until Threshold shares are there or
\* too many nodes failed.
Fetching(r) ==
    /\ At(r, "fetch")
    /\ Cardinality(Succeeded(r)) < Threshold
    /\ Cardinality(Failures(r)) <= NodeCount - Threshold

FetchShare(r, n) ==
    /\ Fetching(r)
    /\ Pending(r, n)
    /\ \E s \in Secret :
         /\ RetrieveShare(n, s)
         /\ req' = [req EXCEPT ![r].got = @ \cup {s}, ![r].call[n] = "ok"]
    /\ UNCHANGED <<mpcVars, record, unused, delivered>>

FetchFails(r, n) ==
    /\ Fetching(r)
    /\ Pending(r, n)
    /\ RetrieveFails(n)
    /\ Returned(r, n, FALSE)
    /\ UNCHANGED <<mpcVars, record, unused, delivered>>

\* Mutant: the first failure is one too many.
InsufficientShares_Early(r) ==
    /\ At(r, "fetch")
    /\ Cardinality(Failures(r)) >= NodeCount - Threshold
    /\ Finish(r, "insufficient")
    /\ UNCHANGED <<mpcVars, record, unused, delivered>>

InsufficientShares(r) ==
    /\ At(r, "fetch")
    /\ Cardinality(Failures(r)) > NodeCount - Threshold
    /\ Finish(r, "insufficient")
    /\ UNCHANGED <<mpcVars, record, unused, delivered>>

\* Mutant: one share is enough to go on.
Combined_OneLess(r) == Cardinality(Succeeded(r)) >= Threshold - 1

\* Shamir rebuilds the secret from shares of one secret, and something that
\* fits no code from shares of several.
Combined(r) == Cardinality(Succeeded(r)) = Threshold
MatchesOTP(r) == req[r].got = {req[r].code[1]}

\* A matching code may still have been used before (see module CodeCheck).
CheckOTP(r) ==
    /\ At(r, "fetch")
    /\ Combined(r)
    /\ \/ MatchesOTP(r) /\ Accepted(r)
       \/ MatchesOTP(r) /\ Finish(r, "reused")
       \/ ~MatchesOTP(r) /\ Finish(r, "invalid")
    /\ UNCHANGED <<mpcVars, record, unused, delivered>>

\* The first half of VerifyBackupCode: the unused rows are read and compared.
LookupBackupCode(r) ==
    /\ At(r, "lookup")
    /\ IF req[r].code \in unused THEN Goto(r, "mark") ELSE Finish(r, "invalid")
    /\ UNCHANGED <<mpcVars, record, unused, delivered>>

\* The second half: UPDATE by id, whatever became of the row in between.
MarkBackupCodeUsed(r) ==
    /\ At(r, "mark")
    /\ unused' = unused \ {req[r].code}
    /\ Accepted(r)
    /\ UNCHANGED <<mpcVars, record, delivered>>

\* Mutant: INSERT ... ON CONFLICT DO UPDATE.
EnableTwoFA_Upsert(r) ==
    /\ At(r, "enable")
    /\ record' = "enabled"
    /\ Finish(r, "ok")
    /\ UNCHANGED <<mpcVars, unused, delivered>>

\* UPDATE twofa_records: an error if the row is gone.
EnableTwoFA(r) ==
    /\ At(r, "enable")
    /\ IF record = "absent"
         THEN Finish(r, "failed") /\ UNCHANGED record
         ELSE record' = "enabled" /\ Finish(r, "ok")
    /\ UNCHANGED <<mpcVars, unused, delivered>>

-----------------------------------------------------------------------------
(* Disable, once the code is proved.                                       *)

EraseShare(r, n) ==
    /\ At(r, "erase")
    /\ Pending(r, n)
    /\ \E ok \in BOOLEAN :
         /\ DeleteShare(n, ok, Faulty(n) \/ Cancelled(r))
         /\ Returned(r, n, ok)
    /\ UNCHANGED <<calm, record, unused, delivered>>

\* Mutant: the deletes are best effort.
SharesErased_BestEffort(r) ==
    /\ At(r, "erase")
    /\ AllReturned(r)
    /\ Goto(r, "dropCodes")
    /\ UNCHANGED <<mpcVars, record, unused, delivered>>

\* Mutant: the backup codes are forgotten.
SharesErased_SkipCodes(r) ==
    /\ At(r, "erase")
    /\ AllReturned(r)
    /\ IF SomeFailed(r) THEN Finish(r, "failed") ELSE Goto(r, "dropRecord")
    /\ UNCHANGED <<mpcVars, record, unused, delivered>>

\* One node that failed ends the request; what the others deleted is gone.
SharesErased(r) ==
    /\ At(r, "erase")
    /\ AllReturned(r)
    /\ IF SomeFailed(r) THEN Finish(r, "failed") ELSE Goto(r, "dropCodes")
    /\ UNCHANGED <<mpcVars, record, unused, delivered>>

DeleteBackupCodes(r) ==
    /\ At(r, "dropCodes")
    /\ unused' = {}
    /\ Goto(r, "dropRecord")
    /\ UNCHANGED <<mpcVars, record, delivered>>

DeleteTwoFARecord(r) ==
    /\ At(r, "dropRecord")
    /\ record' = "absent"
    /\ Finish(r, "ok")
    /\ UNCHANGED <<mpcVars, unused, delivered>>

-----------------------------------------------------------------------------

\* The process dies, the caller goes away, or the call of this stage to the
\* database fails: no handler compensates what it did before.
Stop(r) ==
    /\ req[r].stage \in StopsAt
    /\ ~calm
    /\ Finish(r, "failed")
    /\ UNCHANGED <<mpcVars, record, unused, delivered>>

\* The steps a request takes by itself once it was started.
Proceed(r) ==
    \/ \E n \in Node : SetupStore(r, n) \/ SetupUndo(r, n) \/ FetchShare(r, n)
                         \/ FetchFails(r, n) \/ EraseShare(r, n)
    \/ SetupStored(r)
    \/ CreateTwoFARecord(r)
    \/ StoreBatchBackupCodes(r)
    \/ SetupReply(r)
    \/ InsufficientShares(r)
    \/ CheckOTP(r)
    \/ LookupBackupCode(r)
    \/ MarkBackupCodeUsed(r)
    \/ EnableTwoFA(r)
    \/ SharesErased(r)
    \/ DeleteBackupCodes(r)
    \/ DeleteTwoFARecord(r)

Network ==
    /\ DeliverLate \/ LoseLate \/ CalmDown
    /\ UNCHANGED <<record, unused, delivered, req>>

Next ==
    \/ \E r \in Req : SetupBegin(r) \/ VerifyBegin(r) \/ DisableBegin(r)
    \/ \E r \in Req : Proceed(r) \/ Stop(r)
    \/ Network

Spec == Init /\ [][Next]_vars

\* A started request runs on (every call has a timeout), and the user keeps
\* asking to be enrolled.
Fairness ==
    /\ \A r \in Req : WF_vars(Proceed(r))
    /\ \A r \in Req : SF_vars(SetupBegin(r))

LiveSpec == Spec /\ Fairness

-----------------------------------------------------------------------------
(* Properties.                                                             *)

AllIdle == \A r \in Req : At(r, "idle")
Holders(s) == {n \in Node : shares[n] = s}
Recoverable(s) == Cardinality(Holders(s)) >= Threshold

\* Request r is answered by this step.
Answers(r, op, answer) ==
    req[r].op = op /\ req'[r].op = "none" /\ req'[r].answer = answer

\* Backup codes never outlive the record they are a proof for: an orphan code
\* would be good again for whatever enrolment comes next (disable.go deletes
\* codes and record in two statements, setup.go writes them in two).
CodesImplyRecord == unused # {} => record # "absent"

\* Disable forgets the user (deletes the record) only when no node holds a
\* share and no backup code is left: a leftover share blocks the next Setup.
ErasedBeforeForgotten ==
    [][record # "absent" /\ record' = "absent"
         => unused = {} /\ \A n \in Node : shares[n] = NoSecret]_vars

\* While 2FA is enabled and nobody disables it, the user can log in: enough
\* nodes hold shares of one secret that was delivered to the user.
EnabledImpliesRecoverable ==
    record = "enabled" => \E s \in delivered : Recoverable(s)

\* A share of an enabled user is taken by a Disable whose code was accepted, or by
\* a DELETE that was sent before and that its caller, such a Disable or the
\* rollback of a failed Setup, gave up on: the node that carries it out late takes
\* a share nobody meant any more.  A Setup, a Verify and a store that is carried
\* out late never do.
OnlyDisableTakesApart ==
    [][\A n \in Node :
         record = "enabled" /\ shares[n] \in delivered /\ shares'[n] # shares[n]
           => \/ \E r \in Req : req[r].op = "disable" /\ At(r, "erase")
              \/ \E c \in late \ late' : c.kind = "delete" /\ c.node = n]_vars

\* Without a record and with nothing under way, the nodes hold too few shares of
\* any secret to rebuild it: a failed Setup leaves nothing behind that counts.
OrphansBelowThreshold ==
    record = "absent" /\ AllIdle => \A s \in Secret : ~Recoverable(s)

\* A Setup that overlaps no other call for its user and is answered with a URI has
\* a share of its secret on every node, so the loss of NodeCount - Threshold nodes
\* is tolerated from the first login on (distributeShares, g.Wait).  Setups that
\* overlap lose this: one's compensation deletes what the other stored.
SuccessMeansFullyShared ==
    [][\A r \in Req : Answers(r, "setup", "ok") =>
         \A n \in Node : shares[n] = req[r].code[1]]_vars

\* The current code of the secret all nodes hold is never called invalid, nor
\* given up for lack of shares, whichever node is down.
ValidCodeAccepted ==
    [][\A r \in Req, op \in {"verify", "disable"} :
         Answers(r, op, "invalid") \/ Answers(r, op, "insufficient")
           => \A s \in Secret : req[r].code = <<s, 0>> => Holders(s) # Node]_vars

\* What Verify enables is the secret it was given a code for: enough nodes still
\* hold it when the flag is set, long after the shares were fetched.
EnableProvesSecret ==
    [][\A r \in Req : record # "enabled" /\ record' = "enabled" /\ At(r, "enable")
                        /\ ~(At(r, "enable"))'
         => Recoverable(req[r].code[1])]_vars

\* Whatever the other calls left behind, Disable that was answered "failed"
\* can be tried again: an enabled user can still prove something.
DisableCanBeRetried ==
    record = "enabled" /\ AllIdle =>
      unused # {} \/ \E s \in delivered : Recoverable(s)

\* The second factor as the user knows it: the secrets the nodes together could
\* give back, and a record that is ending once a Disable has begun to erase.
Live == {s \in Secret : Recoverable(s)}
Disabling == \E r \in Req : req[r].stage \in {"erase", "dropCodes", "dropRecord"}
Standing == IF record = "enabled" /\ Disabling THEN "ending" ELSE record

Promise == INSTANCE Enrolment
    WITH status <- Standing, live <- Live, given <- delivered, codes <- unused

\* The handlers, step by step over the nodes and the database, implement module
\* Enrolment: confirmed is only a secret that can be rebuilt at that moment,
\* nothing but an accepted Disable takes from an enabled user, codes come only
\* with the secret they were issued for, and nothing is forgotten before it is
\* gone (setup.go, verify.go and disable.go, each over several statements).
KeepsEnrolment == Promise!EnrolmentSpec

\* Every request is answered.
RequestTerminates == \A r \in Req : ~At(r, "idle") ~> At(r, "idle")

\* Once the nodes answer again, a user who keeps asking is enrolled, whatever
\* failed Setups left on the nodes.  This is claimed without late calls (MaxLate =
\* 0): a store that is carried out after its Setup was rolled back makes the next
\* Setup fail, whose stores can be carried out late in turn.
SetupEventuallySucceeds ==
    calm ~> (record = "enabled" \/ \E s \in delivered : Holders(s) = Node)

=============================================================================
