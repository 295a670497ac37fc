----------------------------- MODULE MCMeraMock -----------------------------
(* Small instances of MeraMock: the budgets of a behaviour put the weight on *)
(* one part of the mock or another.                                          *)
EXTENDS MeraMock

Budget(c, p, q, w, e, u, f, x) ==
    [connects |-> c, presses |-> p, queries |-> q, changes |-> w, edits |-> e,
     updates |-> u, faults |-> f, crashes |-> x]

MCScenarios ==
    {Budget(2, 1, 1, 0, 0, 0, 0, 0),   \* bursts, requests and removals
     Budget(2, 2, 0, 0, 0, 0, 1, 0),   \* button and advertisement
     Budget(1, 0, 0, 2, 0, 1, 0, 0),   \* updates by web page and client
     Budget(1, 0, 0, 1, 1, 0, 0, 1),   \* the store and a crash
     Budget(0, 0, 0, 0, 2, 0, 0, 2)}   \* the store and two crashes

MCApps == <<"mera", "rc">>

=============================================================================
