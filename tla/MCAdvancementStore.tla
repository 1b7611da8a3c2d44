-------------------------- MODULE MCAdvancementStore --------------------------
(* A first batch of at most two fixtures, played at one time, and two teams. *)
EXTENDS AdvancementStore

MCKickoff == [f \in Fixtures |-> 0]
=============================================================================
