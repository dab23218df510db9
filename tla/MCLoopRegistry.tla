-------------------------- MODULE MCLoopRegistry --------------------------
(* LoopRegistry on three requests, two slots and two Shutdown calls. *)
EXTENDS LoopRegistry, TLC

CONSTANTS s1, s2, s3, k1, k2

MCSession == {s1, s2, s3}
MCStopper == {k1, k2}
===========================================================================
