----------------------------- MODULE MCVarchunk ------------------------------
(* Varchunk with small numbers, all of them given in the configurations.    *)
EXTENDS Varchunk
=============================================================================
