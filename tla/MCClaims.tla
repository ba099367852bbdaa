------------------------------ MODULE MCClaims ------------------------------
(* Claims for TLC: the constants are given by the configurations. *)
EXTENDS Claims
=============================================================================
