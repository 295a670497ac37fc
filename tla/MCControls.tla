----------------------------- MODULE MCControls -----------------------------
(* The three installations with either device; one request of any kind, or two *)
(* of those that meet in a table or a handler; and two faults: a lost or failed *)
(* BLE request, a lost link, or a change made at the device.                   *)
EXTENDS Controls

MCTouched == {<<"profile", 2>>, <<"common", 2>>, <<"active", "ActivePosition">>}

MCCompanions == {"AnalShowerPressure", "ActivePosition", "profile",
                 "common", "state", "ToggleLid"}
=============================================================================
