-------------------------- MODULE MCCRDValidation --------------------------
(* CRDValidation for TLC: the constants are given by the configurations. *)
EXTENDS CRDValidation
=============================================================================
