--------------------------- MODULE MCAriendiLink ---------------------------
(***************************************************************************)
(* Small instances of AriendiLink: the bounds are set in the configuration.*)
(***************************************************************************)
EXTENDS AriendiLink
=============================================================================
