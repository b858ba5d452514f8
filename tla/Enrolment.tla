----------------------------- MODULE Enrolment -----------------------------
(***************************************************************************)
(* What the 2FA service promises about the second factor of one user,       *)
(* without nodes, requests or failures: which of the secrets could be       *)
(* rebuilt, which of them the user was given, and which backup codes are    *)
(* good.  An enrolment is opened for a secret that is there, is confirmed   *)
(* with one the user was given, is taken apart by nothing but a Disable,    *)
(* and is forgotten once nothing is left of it.                             *)
(* Module TwoFA is shown to implement it.                                   *)
(***************************************************************************)
EXTENDS Naturals

CONSTANTS Secret, BackupCodeCount

VARIABLES
    status,         \* absent, pending, enabled, or ending: being disabled
    live,           \* the secrets that can be rebuilt
    given,          \* the secrets the user was given
    codes           \* the backup codes that are good

enrolmentVars == <<status, live, given, codes>>

EnrolmentInit ==
    /\ status = "absent"
    /\ live = {} /\ given = {} /\ codes = {}

\* A secret that cannot be rebuilt is drawn for a new enrolment.
Draw ==
    /\ status \in {"absent", "pending"}
    /\ \E s \in Secret \ live : given' = given \ {s}
    /\ UNCHANGED <<status, live, codes>>

\* Until the enrolment is confirmed shares come and go, but no secret the user
\* was given comes back.
Share ==
    /\ status \in {"absent", "pending"}
    /\ live' \in SUBSET Secret
    /\ live' \cap given \subseteq live
    /\ UNCHANGED <<status, given, codes>>

Open ==
    /\ status = "absent"
    /\ live \ given # {}
    /\ status' = "pending"
    /\ UNCHANGED <<live, given, codes>>

\* Codes are added, never replaced, for a secret the user is still to be given.
AddCodes ==
    /\ status = "pending"
    /\ \E s \in live \ given : \E new \in SUBSET ({s} \X (1..BackupCodeCount)) :
         codes' = codes \cup new
    /\ UNCHANGED <<status, live, given>>

Give ==
    /\ status = "pending"
    /\ \E s \in live \ given : given' = given \cup {s}
    /\ UNCHANGED <<status, live, codes>>

\* The user has shown a code of a secret that can be rebuilt at this moment.
Confirm ==
    /\ status = "pending"
    /\ live \cap given # {}
    /\ status' = "enabled"
    /\ UNCHANGED <<live, given, codes>>

Spend ==
    /\ status \in {"pending", "enabled"}
    /\ \E c \in codes : codes' = codes \ {c}
    /\ UNCHANGED <<status, live, given>>

\* Disable has accepted a code, which is spent if it was a backup code.
TakeApart ==
    /\ status = "enabled"
    /\ given # {}
    /\ codes' \in {codes} \cup {codes \ {c} : c \in codes}
    /\ status' = "ending"
    /\ UNCHANGED <<live, given>>

Erase ==
    /\ status = "ending"
    /\ live' \in SUBSET live
    /\ codes' \in SUBSET codes
    /\ UNCHANGED <<status, given>>

\* Disable failed on its way.
GiveUp ==
    /\ status = "ending"
    /\ status' = "enabled"
    /\ UNCHANGED <<live, given, codes>>

Forget ==
    /\ status = "ending"
    /\ live = {} /\ codes = {}
    /\ status' = "absent"
    /\ UNCHANGED <<live, given, codes>>

EnrolmentNext ==
    \/ Draw \/ Share \/ Open \/ AddCodes \/ Give \/ Confirm
    \/ Spend \/ TakeApart \/ Erase \/ GiveUp \/ Forget

EnrolmentSpec == EnrolmentInit /\ [][EnrolmentNext]_enrolmentVars

=============================================================================
