------------------------- MODULE MCMXJobController -------------------------
(* Small instances of MXJobController for TLC. *)
EXTENDS MXJobController

OneOfEach == [t \in RType |-> 1]
=============================================================================
