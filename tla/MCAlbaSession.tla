--------------------------- MODULE MCAlbaSession ---------------------------
(***************************************************************************)
(* Small instances of AlbaSession: the bounds are set in the configuration.*)
(***************************************************************************)
EXTENDS AlbaSession
=============================================================================
