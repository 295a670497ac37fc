---------------------------- MODULE MCBaseClient ----------------------------
(* Small instances of BaseClient.                                            *)
EXTENDS BaseClient
=============================================================================
