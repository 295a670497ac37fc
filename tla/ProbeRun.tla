------------------------------ MODULE ProbeRun ------------------------------
(***************************************************************************)
(* One stand-alone script at work: it takes the next statement of its      *)
(* program, anything it awaits may fail, and Ctrl+C may arrive once while  *)
(* it waits.  The ESP32 proxy and the Geberit serve one client at a time:  *)
(* what a script leaves open, or closes in the wrong order, is what the    *)
(* next program finds in use.                                              *)
(***************************************************************************)
EXTENDS ProbeScripts, SequencesExt

CONSTANT Scripts        \* the names of the scripts to run, of DOMAIN Program

\* Every script with its program.
Program ==
    [ test_local     |-> ConnectionTestLocal,  test_proxy     |-> ConnectionTestProxy,
      gatt           |-> GattProbe,            no_adv         |-> NoAdvProbe,
      v4             |-> ProbeV4,              v3             |-> ProbeV3,
      v1             |-> ProbeV1,              ble_scan       |-> ScanViaProxy,
      bleak          |-> BleakEsphomeProbe,    discovery      |-> GattDiscoveryTest,
      alba           |-> AlbaBle20Probe,       geberit        |-> GeberitBleProbe,
      unlock         |-> UnlockProbe,          getspl         |-> GetSplFilterProbe,
      filter         |-> FilterProbe,          monitor        |-> SplMonitor,
      active         |-> ActiveCommonSettingsProbe,
      central        |-> MinimalCentral,       peripheral     |-> MinimalPeripheral,
      replay         |-> BleSessionReplay,     remote         |-> FindRemoteLive,
      setup_mdns     |-> SetupMdns,            setup_mdns_ha  |-> SetupMdnsHa,
      setup_proxy    |-> SetupScanProxy,       setup_local    |-> SetupScanLocal,
      cli_bridge     |-> RunCliBridge,         cli_device     |-> RunCliDevice ]

ASSUME ScriptsAssumption == Scripts \subseteq DOMAIN Program

VARIABLES
    script,     \* the script that runs
    todo,       \* what it has still to execute, with the marks below
    held,       \* the resources it has open
    facts,      \* what it has found out
    dropped,    \* the ESP32 gave up the script's BLE link
    stop,       \* when Ctrl+C came: "never", "work" or "cleanup"
    ended       \* "run", "done", "crashed" or "stopped"

vars == << script, todo, held, facts, dropped, stop, ended >>

\* Marks: the end of a function, of a try, of a try..finally, of a finally.
Frame == [do |-> "frame"]
Catch(hs) == [do |-> "catch", handlers |-> hs]
Final(f) == [do |-> "final", last |-> f]
EndFinal == [do |-> "endfinal"]

Top == Head(todo)
Rest == Tail(todo)
Running(kinds) == ended = "run" /\ todo # <<>> /\ Top.do \in kinds
CleaningUp == \E i \in DOMAIN todo : todo[i].do = "endfinal"

-----------------------------------------------------------------------------
\* Leaving blocks

\* The marks of a program at which an exception of class e, or a return, is
\* taken up.
TakesUp(m, e) ==
    \/ m.do = "final"
    \/ m.do = "catch" /\ e \in DOMAIN m.handlers
    \/ m.do = "frame" /\ e = "return"

\* What is executed next when e leaves the block that continues with s.
Left(s, e) ==
    LET ms == {i \in DOMAIN s : TakesUp(s[i], e)}
        i  == CHOOSE k \in ms : \A j \in ms : k <= j
        after == SubSeq(s, i + 1, Len(s))
        again == IF e = "return" THEN Return ELSE Throw(e)
    IN  CASE ms = {}            -> <<>>
          [] s[i].do = "final"  -> s[i].last \o <<EndFinal, again>> \o after
          [] s[i].do = "catch"  -> s[i].handlers[e] \o after
          [] s[i].do = "frame"  -> after

Unwind(e) ==
    /\ todo' = Left(Rest, e)
    /\ ended' = IF e = "return" \/ \E i \in DOMAIN Rest : TakesUp(Rest[i], e) THEN "run"
                ELSE IF e = "stop" THEN "stopped" ELSE "crashed"

Goes(s) == todo' = s /\ UNCHANGED ended

-----------------------------------------------------------------------------
\* Calls that touch the world

\* The ESP32 gives up a link when the advertisements it was found with are
\* unsubscribed.
Closed(r) ==
    /\ held' = held \ {r}
    /\ dropped' = IF r = "adv" /\ "ble" \in held THEN TRUE
                  ELSE IF r = "ble" THEN FALSE ELSE dropped

\* An open call succeeds, or it raises and leaves nothing.
Opens ==
    /\ Running({"open"})
    /\ \/ held' = held \cup {Top.res} /\ Goes(Rest)
       \/ \E e \in {"error"} \cup (IF Top.waits THEN {"timeout"} ELSE {}) :
             Unwind(e) /\ UNCHANGED held
    /\ UNCHANGED << script, facts, dropped, stop >>

\* A close call is made only on what is open; it may raise, and the resource
\* is gone all the same.
Closes ==
    /\ Running({"close"})
    /\ \/ Top.res \in held /\ Closed(Top.res) /\ (Goes(Rest) \/ Unwind("error"))
       \/ Top.res \notin held /\ Goes(Rest) /\ UNCHANGED << held, dropped >>
    /\ UNCHANGED << script, facts, stop >>

\* Any other call: it returns, raises, or the wait for it times out.
Calls ==
    /\ Running({"use", "work", "wait", "await"})
    /\ \/ Goes(Rest)
       \/ Top.do \in {"use", "work"} /\ Unwind("error")
       \/ Top.do \in {"use", "wait"} /\ Unwind("timeout")
    /\ UNCHANGED << script, held, facts, dropped, stop >>

\* Ctrl+C while the script waits: asyncio cancels the task it runs in.
Waits ==
    \/ Top.do \in {"use", "work", "wait", "await"}
    \/ Top.do \in {"open", "close"} /\ Top.waits

Interrupt ==
    /\ Running({"use", "work", "wait", "await", "open", "close"}) /\ Waits
    /\ stop = "never" /\ stop' = IF CleaningUp THEN "cleanup" ELSE "work"
    /\ Unwind("stop")
    /\ UNCHANGED << script, held, facts, dropped >>

-----------------------------------------------------------------------------
\* Control

Chooses ==
    /\ Running({"either", "loop", "knows"})
    /\ \/ Top.do = "either" /\ \E b \in Top.blocks : Goes(b \o Rest)
       \/ Top.do = "loop" /\ (Goes(Rest) \/ Goes(Top.body \o todo))
       \/ Top.do = "knows" /\ Goes((IF Top.fact \in facts THEN Top.yes ELSE Top.no) \o Rest)
    /\ UNCHANGED << script, held, facts, dropped, stop >>

Enters ==
    /\ Running({"call", "try", "finally"})
    /\ Goes(Top.body \o << CASE Top.do = "call"    -> Frame
                             [] Top.do = "try"     -> Catch(Top.handlers)
                             [] Top.do = "finally" -> Final(Top.last) >> \o Rest)
    /\ UNCHANGED << script, held, facts, dropped, stop >>

Leaves ==
    /\ Running({"frame", "catch", "final", "endfinal", "return", "throw"})
    /\ \/ Top.do \in {"frame", "catch", "endfinal"} /\ Goes(Rest)
       \/ Top.do = "final" /\ Goes(Top.last \o <<EndFinal>> \o Rest)
       \/ Top.do = "return" /\ Unwind("return")
       \/ Top.do = "throw" /\ Unwind(Top.exc)
    /\ UNCHANGED << script, held, facts, dropped, stop >>

Learns ==
    /\ Running({"learn"}) /\ facts' = facts \cup {Top.fact} /\ Goes(Rest)
    /\ UNCHANGED << script, held, dropped, stop >>

Ends ==
    /\ ended = "run" /\ todo = <<>> /\ ended' = "done"
    /\ UNCHANGED << script, todo, held, facts, dropped, stop >>

Init ==
    /\ script \in Scripts /\ todo = Program[script]
    /\ held = {} /\ facts = {} /\ dropped = FALSE /\ stop = "never" /\ ended = "run"

Step == Opens \/ Closes \/ Calls \/ Chooses \/ Enters \/ Leaves \/ Learns \/ Ends
Next == Step \/ Interrupt

Spec == Init /\ [][Next]_vars

-----------------------------------------------------------------------------
\* Properties

\* The scripts that open their connection to the device or the proxy inside
\* try..finally, or right before it.
Guarded ==
    { "gatt", "alba", "geberit", "unlock", "replay", "discovery", "central",
      "setup_mdns", "setup_mdns_ha", "setup_proxy", "setup_local", "cli_bridge",
      "cli_device" }

\* A script that comes to its end has given back everything it opened, in all the
\* returns and handlers on the way (the connection test runs its steps one after the
\* other on the same proxy), except the settings probe, whose disconnect_async does
\* not exist.  The guarded scripts have no connection open however they end, by an
\* exception or by Ctrl+C, unless Ctrl+C hits the clean-up itself.
GivesBack ==
    /\ ended = "done" /\ script # "active" => held = {}
    /\ ended # "run" /\ script \in Guarded /\ stop # "cleanup" => held \subseteq {"scan"}

\* A script never closes its API connection under a BLE link of its own (the
\* ESP32 would keep the link and refuse the next client), except that Ctrl+C
\* in the connect step of the connection test does; and none opens a second
\* connection to the device or a second subscription: the connector of the
\* identification step finds the proxy free.  No script talks over a link that the
\* ESP32 has given up because the advertisement subscription was dropped first.
OneSlot ==
    [][ /\ "tcp" \in held \ held' /\ (stop = "never" \/ script # "test_proxy")
              => "ble" \notin held
        /\ "link" \in held' \ held => held \cap {"tcp", "adv", "ble"} = {}
        /\ Running({"open"}) => Top.res \notin held
        /\ Running({"use", "wait"}) /\ Top.res = "ble" => "ble" \in held /\ ~dropped ]_vars
=============================================================================
