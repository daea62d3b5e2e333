-------------------------- MODULE MCLocalOptimizer --------------------------
(* Two objectives, the first with a leeway of a half. *)
EXTENDS LocalOptimizer

MCTypes  == <<"time", "energy">>
MCLeeway == <<50, 0>>
MCValues == <<{0, 1, 2}, {1, 2}>>
=============================================================================
