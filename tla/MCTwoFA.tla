------------------------------ MODULE MCTwoFA ------------------------------
(***************************************************************************)
(* Model checking TwoFA: the symmetries of its instances.  Secrets are only *)
(* compared for equality and so are request slots; nodes are not symmetric, *)
(* the rollback visits them in index order.                                 *)
(***************************************************************************)
EXTENDS TwoFA, TLC

Symmetry == Permutations(Secret) \cup Permutations(Req)

=============================================================================
