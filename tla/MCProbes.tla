------------------------------ MODULE MCProbes ------------------------------
(* ProbeRun with every script. *)
EXTENDS ProbeRun

AllScripts == DOMAIN Program

=============================================================================
