----------------------------- MODULE MCMeraLink -----------------------------
(* Small instances of MeraLink.                                              *)
EXTENDS MeraLink

\* Frame numbers and counts of responses of up to six frames.
MCIndex == 1..5
MCCount == 1..6
MCPayload == [msg : 1..Requests, idx : 0..5]

=============================================================================
