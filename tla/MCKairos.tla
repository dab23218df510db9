------------------------------ MODULE MCKairos ------------------------------
(* Kairos with an hour of four minutes, one start request, and one user task *)
(* with a minute on each of the two grids of ticks.                          *)
EXTENDS Kairos

MCCron == [t \in UserTask |-> [form |-> "list", values |-> {1, 2}]]
=============================================================================
