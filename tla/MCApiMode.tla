----------------------------- MODULE MCApiMode -----------------------------
(***************************************************************************)
(* Instances of ApiMode: the bounds are set in the configurations.         *)
(***************************************************************************)
EXTENDS ApiMode
=============================================================================
