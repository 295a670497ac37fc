--------------------------- MODULE MCServiceMode ---------------------------
(***************************************************************************)
(* Instances of ServiceMode: the bounds are set in the configurations.     *)
(***************************************************************************)
EXTENDS ServiceMode
=============================================================================
