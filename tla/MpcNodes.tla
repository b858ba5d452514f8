------------------------------ MODULE MpcNodes ------------------------------
(***************************************************************************)
(* The MPC nodes (src/mpc) as the 2FA orchestrator sees them, for one user. *)
(* A node keeps at most one share of the user: its table is UNIQUE on       *)
(* (user_id, share_index) and node n only ever receives index n.  What the  *)
(* properties need of a share is which secret it was cut from.              *)
(*                                                                         *)
(* An RPC is one step.  It is answered, or it fails for the caller; a       *)
(* failed store or delete was never executed, was executed although the     *)
(* answer is lost, or is still under way and executes later (late).         *)
(***************************************************************************)
EXTENDS Integers, FiniteSets

CONSTANTS
    NodeCount,      \* number of MPC nodes (three in every deployment)
    Secret,         \* the TOTP secrets
    NoSecret,       \* no share stored; also a code that is of no secret
    FaultyNode,     \* the nodes whose calls may fail
    MaxLate         \* bound: calls under way after their caller gave up

Node == 1..NodeCount

ASSUME MpcAssumption ==
    /\ NodeCount \in Nat \ {0}
    /\ NoSecret \notin Secret
    /\ FaultyNode \subseteq Node
    /\ MaxLate \in Nat

VARIABLES
    shares,         \* shares[n]: the secret the row of node n is a share of
    late,           \* abandoned calls a node may still execute
    calm            \* TRUE from some moment on: nothing fails any more

mpcVars == <<shares, late, calm>>

Call == [kind : {"store", "delete"}, node : Node, secret : Secret \cup {NoSecret}]

MpcTypeOK ==
    /\ shares \in [Node -> Secret \cup {NoSecret}]
    /\ late \subseteq Call
    /\ calm \in BOOLEAN

MpcInit ==
    /\ shares = [n \in Node |-> NoSecret]
    /\ late = {}
    /\ calm = FALSE

-----------------------------------------------------------------------------

\* The node may be down, unreachable, or slower than mpc_timeout.
Faulty(n) == ~calm /\ n \in FaultyNode

\* INSERT INTO shares: the row that is already there stays.
CreateShare(n, s) ==
    shares' = [shares EXCEPT ![n] = IF @ = NoSecret THEN s ELSE @]

\* DELETE FROM shares: deletes nothing when there is nothing.
DeleteSharesByUserID(n) ==
    shares' = [shares EXCEPT ![n] = NoSecret]

Execute(c) ==
    \/ c.kind = "store" /\ CreateShare(c.node, c.secret)
    \/ c.kind = "delete" /\ DeleteSharesByUserID(c.node)

\* The caller gave up on call c.
Abandoned(c) ==
    \/ UNCHANGED <<shares, late>>
    \/ Execute(c) /\ UNCHANGED late
    \/ /\ Cardinality(late) < MaxLate
       /\ late' = late \cup {c}
       /\ UNCHANGED shares

\* StoreShare of secret s at node n, as its caller sees it: ok or an error.
StoreShare(n, s, ok, mayFail) ==
    \/ ok /\ shares[n] = NoSecret /\ CreateShare(n, s) /\ UNCHANGED late
    \/ ~ok /\ shares[n] # NoSecret /\ UNCHANGED <<shares, late>>
    \/ ~ok /\ mayFail /\ Abandoned([kind |-> "store", node |-> n, secret |-> s])

\* DeleteShare at node n succeeds whether or not a share is there.
DeleteShare(n, ok, mayFail) ==
    \/ ok /\ DeleteSharesByUserID(n) /\ UNCHANGED late
    \/ ~ok /\ mayFail /\ Abandoned([kind |-> "delete", node |-> n, secret |-> NoSecret])

\* RetrieveShare at node n answers with the share of secret s.
RetrieveShare(n, s) == shares[n] = s /\ s \in Secret

\* RetrieveShare at node n fails: no row, or the node is not answering.
RetrieveFails(n) == shares[n] = NoSecret \/ Faulty(n)

\* A call nobody waits for any more takes effect, or is dropped.
DeliverLate == \E c \in late : Execute(c) /\ late' = late \ {c} /\ UNCHANGED calm

LoseLate == \E c \in late : late' = late \ {c} /\ UNCHANGED <<shares, calm>>

\* From here on every node answers every call.
CalmDown == ~calm /\ calm' = TRUE /\ UNCHANGED <<shares, late>>

=============================================================================
