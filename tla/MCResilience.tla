---------------------------- MODULE MCResilience ----------------------------
(***************************************************************************)
(* Instances of Resilience for TLC.                                        *)
(***************************************************************************)
EXTENDS Resilience

AllButConsole == 1 .. N - 1
=============================================================================
