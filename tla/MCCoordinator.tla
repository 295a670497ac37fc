--------------------------- MODULE MCCoordinator ---------------------------
(***************************************************************************)
(* Small instances of Coordinator: two coordinator objects and a config    *)
(* flow, of one entry (reload) or of two entries on one proxy.             *)
(***************************************************************************)
EXTENDS Coordinator

OneDevice == [o \in Owners |-> 1]
TwoDevices == [o \in Owners |-> IF o = 2 THEN 2 ELSE 1]
=============================================================================
