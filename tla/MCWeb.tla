------------------------------- MODULE MCWeb --------------------------------
(***************************************************************************)
(* Model checking WebSession: one user, the threads of the tabs.            *)
(***************************************************************************)
EXTENDS WebSession

CONSTANTS u1

OneOwner == [f \in Family |-> u1]
Slots == Tab \X Name

=============================================================================
