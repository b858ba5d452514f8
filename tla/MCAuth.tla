------------------------------- MODULE MCAuth -------------------------------
(***************************************************************************)
(* Model checking AuthSessions: two families of one user, of which one may  *)
(* race; the request slots are interchangeable.                             *)
(***************************************************************************)
EXTENDS AuthSessions, TLC

CONSTANTS u1

OneOwner == [f \in Family |-> u1]
Symmetry == Permutations(Req)

=============================================================================
