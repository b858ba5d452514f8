------------------------------ MODULE Sessions ------------------------------
(***************************************************************************)
(* What the auth service promises about sessions, without saying how: a     *)
(* session (token family) accepts refresh tokens that were issued for it;   *)
(* who presents one while it is accepted may get one new token for it; and  *)
(* a session that accepts nothing, with no such exchange under way, is over *)
(* for good.  It does not promise that a token is accepted only once: the   *)
(* old one stays good until the rotation has deleted it.                    *)
(* Module AuthSessions is shown to implement it.                            *)
(***************************************************************************)
CONSTANTS Family, Token, Req, NoFamily

VARIABLES
    opened,         \* sessions that were ever begun
    accepted,       \* accepted[f]: the tokens session f accepts
    past,           \* tokens that were ever issued
    exchange        \* exchange[r]: the session r is about to get a token of

sessionVars == <<opened, accepted, past, exchange>>

SessionsInit ==
    /\ opened = {}
    /\ accepted = [f \in Family |-> {}]
    /\ past = {}
    /\ exchange = [r \in Req |-> NoFamily]

Issue(f) ==
    \E t \in Token \ past :
      /\ accepted' = [accepted EXCEPT ![f] = accepted[f] \cup {t}]
      /\ past' = past \cup {t}

Open(f) ==
    /\ f \notin opened
    /\ Issue(f)
    /\ opened' = opened \cup {f}
    /\ UNCHANGED exchange

Present(r, f) ==
    /\ accepted[f] # {}
    /\ exchange' = [exchange EXCEPT ![r] = f]
    /\ UNCHANGED <<opened, accepted, past>>

Rotate(r, f) ==
    /\ exchange[r] = f
    /\ Issue(f)
    /\ exchange' = [exchange EXCEPT ![r] = NoFamily]
    /\ UNCHANGED opened

Abandon(r) ==
    /\ exchange' = [exchange EXCEPT ![r] = NoFamily]
    /\ UNCHANGED <<opened, accepted, past>>

\* Rotation's second half, logout, logout everywhere, theft, age.
Revoke ==
    /\ accepted' \in [Family -> SUBSET Token]
    /\ \A f \in Family : accepted'[f] \subseteq accepted[f]
    /\ UNCHANGED <<opened, past, exchange>>

SessionsNext ==
    \/ \E f \in Family : Open(f)
    \/ \E r \in Req, f \in Family : Present(r, f) \/ Rotate(r, f)
    \/ \E r \in Req : Abandon(r)
    \/ Revoke

SessionsSpec == SessionsInit /\ [][SessionsNext]_sessionVars

=============================================================================
