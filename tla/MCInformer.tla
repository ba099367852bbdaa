----------------------------- MODULE MCInformer -----------------------------
(* Informer for TLC: keys are model values. *)
EXTENDS Informer
=============================================================================
