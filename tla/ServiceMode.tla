----------------------------- MODULE ServiceMode -----------------------------
(***************************************************************************)
(* ServiceMode.run of main.py: the recovery loop that keeps one permanent  *)
(* BLE session, with its inner polling loop, the recovery protocol, the    *)
(* requests that arrive from REST and MQTT (reconnect, disconnect, poll    *)
(* interval, shutdown) and the commands that share the session's client    *)
(* through the call_count gate of send_request.                            *)
(*                                                                         *)
(* One action per stretch of code between two suspension points of the     *)
(* event loop (publishing to MQTT and to the SSE queues does not suspend). *)
(* A session has a client of its own, numbered by `session`; call_count is *)
(* per client.  The sequence of requests that connect() makes, and the one *)
(* that follows it, are each represented by a single request.              *)
(***************************************************************************)
EXTENDS Naturals

CONSTANTS
    Cmd,         \* command tasks: REST requests and MQTT messages
    ViaMqtt,     \* those for which the MQTT network thread waits
    MaxSession,  \* bound: sessions in one behaviour
    MaxFail,     \* bound: failing connects, requests and disconnects
    MaxSwitch,   \* bound: reconnect and disconnect requests
    MaxChange,   \* bound: poll interval changes
    MaxCmd       \* bound: commands

ASSUME ServiceAssumption ==
    /\ ViaMqtt \subseteq Cmd
    /\ MaxSession \in Nat /\ MaxFail \in Nat /\ MaxSwitch \in Nat
    /\ MaxChange \in Nat /\ MaxCmd \in Nat

VARIABLES
    pc,                   \* where run() is suspended
    after,                \* what follows the finally block
    shutdown,             \* _shutdown_event
    connection_allowed,   \* _connection_allowed
    woken,                \* the waiter on _connection_allowed has been resolved
    reconnect_requested,  \* _reconnect_requested
    poll_interval_event,  \* _poll_interval_event
    polling_on,           \* poll_interval > 0
    session,              \* number of self.client, 0 before the first one
    links,                \* sessions whose BLE link is up
    unclosed,             \* history: sessions whose last client.disconnect() raised,
                          \* or was cut short by the cancellation of run()
    uninvited,            \* history: sessions begun since the latest disconnect request
    racing,               \* history: that request came when the waiter was resolved
    call_count,           \* per client
    poll,                 \* the task running start_polling
    cmd,                  \* the command tasks and the client each one has
    ble_status,           \* device_state["ble_status"]
    fails, switches, changes, cmds

requestVars == <<shutdown, connection_allowed, woken, reconnect_requested,
                 poll_interval_event, polling_on, switches, changes, racing>>
linkVars == <<links, unclosed>>
sessionVars == <<session, uninvited, linkVars>>
vars == <<pc, after, requestVars, sessionVars, call_count, poll, cmd, ble_status,
          fails, cmds>>

Client == 1..MaxSession

\* Waiting places of run(): recovering after a timeout; the finally block is behind
\* it; over.
Recovering == {"gone", "back"}
Ended == {"stopped", "exited", "dead"}
Between == {"top", "parked", "stopping", "hung"} \cup Ended

Init ==
    /\ pc = "top"
    /\ after = "loop"
    /\ shutdown = FALSE
    /\ connection_allowed \in BOOLEAN
    /\ woken = FALSE
    /\ reconnect_requested = FALSE
    /\ poll_interval_event = FALSE
    /\ polling_on \in BOOLEAN
    /\ session = 0
    /\ links = {} /\ unclosed = {}
    /\ uninvited = 0 /\ racing = FALSE
    /\ call_count = [k \in Client |-> 0]
    /\ poll = "none"
    /\ cmd = [c \in Cmd |-> [pc |-> "idle", client |-> 0]]
    /\ ble_status = "disconnected"
    /\ fails = 0 /\ switches = 0 /\ changes = 0 /\ cmds = 0

-----------------------------------------------------------------------------
\* The recovery loop.

\* A new connector and client; the connect starts.
StartSession ==
    /\ session < MaxSession
    /\ session' = session + 1
    /\ uninvited' = IF connection_allowed THEN uninvited ELSE uninvited + 1
    /\ ble_status' = "connecting"
    /\ pc' = "scan"

\* while not shutdown: park when a disconnect was requested, else connect.
LoopTop ==
    /\ pc = "top"
    /\ \/ /\ shutdown
          /\ pc' = "stopping"
          /\ UNCHANGED <<session, uninvited, ble_status>>
       \/ /\ ~shutdown /\ ~connection_allowed
          /\ pc' = "parked"
          /\ UNCHANGED <<session, uninvited, ble_status>>
       \/ /\ ~shutdown /\ connection_allowed
          /\ StartSession
    /\ UNCHANGED <<after, requestVars, linkVars, call_count, poll, cmd, fails, cmds>>

\* asyncio.wait on _connection_allowed and _shutdown_event.  The waiter stays
\* resolved when the event is cleared again before run() goes on.
Unpark ==
    /\ pc = "parked"
    /\ \/ /\ shutdown
          /\ pc' = "stopping"
          /\ UNCHANGED <<session, uninvited, ble_status>>
       \/ /\ ~shutdown /\ woken
          /\ StartSession
    /\ woken' = FALSE
    /\ UNCHANGED <<after, shutdown, connection_allowed, reconnect_requested,
                   poll_interval_event, polling_on, switches, changes, racing,
                   linkVars, call_count, poll, cmd, fails, cmds>>

\* The exception handlers of run(), by kind of exception.
Handle(kind) ==
    \/ /\ kind = "retry"       \* ESPHome*Error, BleakError, TimeoutError: wait 30 s
       /\ ble_status' = "error"
       /\ pc' = "backoff" /\ after' = "loop"
    \/ /\ kind = "timeout"     \* BLEPeripheralTimeoutError: recovery protocol
       /\ pc' = "drop" /\ after' = "loop"
       /\ UNCHANGED ble_status
    \/ /\ kind = "unsupported" \* UnsupportedDeviceError: break
       /\ ble_status' = "error"
       /\ pc' = "closing" /\ after' = "stop"
    \/ /\ kind = "manual"      \* ManualReconnectRequested
       /\ pc' = "closing" /\ after' = "loop"
       /\ UNCHANGED ble_status
    \/ /\ kind = "shutdown"    \* break out of both loops
       /\ pc' = "closing" /\ after' = "stop"
       /\ UNCHANGED ble_status
    \/ /\ kind = "fatal"       \* handle_exception: sys.exit(1)
       /\ pc' = "closing" /\ after' = "exit"
       /\ UNCHANGED ble_status

\* The BLE link is established (connector.client is set from here on).
Linked ==
    /\ pc = "scan"
    /\ links' = links \cup {session}
    /\ pc' = "init"
    /\ UNCHANGED <<after, requestVars, session, uninvited, unclosed, call_count, poll,
                   cmd, ble_status, fails, cmds>>

\* Scan or connect fails.
ScanFails ==
    /\ pc = "scan" /\ fails < MaxFail
    /\ \E kind \in {"retry", "fatal"} : Handle(kind)
    /\ fails' = fails + 1
    /\ UNCHANGED <<requestVars, sessionVars, call_count, poll, cmd, cmds>>

\* The device turns out to be of an unsupported variant.
Unsupported ==
    /\ pc = "init" /\ fails < MaxFail
    /\ Handle("unsupported")
    /\ fails' = fails + 1
    /\ UNCHANGED <<requestVars, sessionVars, call_count, poll, cmd, cmds>>

\* The gate of send_request of the session's client.
GateOpen == call_count[session] = 0

\* run() itself makes a request: it waits at the gate of send_request.
SessionRequest ==
    /\ pc \in {"init", "fetch"} /\ GateOpen
    /\ call_count' = [call_count EXCEPT ![session] = @ + 1]
    /\ pc' = IF pc = "init" THEN "init_flight" ELSE "fetch_flight"
    /\ UNCHANGED <<after, requestVars, sessionVars, poll, cmd, ble_status, fails, cmds>>

\* connect() is through: status "connected", the settings are fetched next.
InitDone ==
    /\ pc = "init_flight"
    /\ call_count' = [call_count EXCEPT ![session] = @ - 1]
    /\ ble_status' = "connected"
    /\ pc' = "fetch"
    /\ UNCHANGED <<after, requestVars, sessionVars, poll, cmd, fails, cmds>>

\* A request of connect() times out or its write fails (no release of the gate).
InitFails ==
    /\ pc = "init_flight" /\ fails < MaxFail
    /\ \/ /\ Handle("timeout")
          /\ call_count' = [call_count EXCEPT ![session] = @ - 1]
       \/ /\ Handle("retry")
          /\ UNCHANGED call_count
    /\ fails' = fails + 1
    /\ UNCHANGED <<requestVars, sessionVars, poll, cmd, cmds>>

\* The polling task of the inner loop.
StartPolling == poll' = IF polling_on THEN "gate" ELSE "none"

\* The settings are fetched; a timeout of these requests is swallowed.
FetchDone ==
    /\ pc = "fetch_flight"
    /\ call_count' = [call_count EXCEPT ![session] = @ - 1]
    /\ StartPolling
    /\ pc' = "inner"
    /\ UNCHANGED <<after, requestVars, sessionVars, cmd, ble_status, fails, cmds>>

FetchFails ==
    /\ pc = "fetch_flight" /\ fails < MaxFail
    /\ Handle("retry")
    /\ fails' = fails + 1
    /\ UNCHANGED <<requestVars, sessionVars, call_count, poll, cmd, cmds>>

-----------------------------------------------------------------------------
\* start_polling, in a task of its own.
PollEnter ==
    /\ poll = "gate" /\ GateOpen
    /\ call_count' = [call_count EXCEPT ![session] = @ + 1]
    /\ poll' = "flight"
    /\ UNCHANGED <<pc, after, requestVars, sessionVars, cmd, ble_status, fails, cmds>>

PollDone ==
    /\ poll = "flight"
    /\ call_count' = [call_count EXCEPT ![session] = @ - 1]
    /\ poll' = "sleep"
    /\ UNCHANGED <<pc, after, requestVars, sessionVars, cmd, ble_status, fails, cmds>>

PollFails ==
    /\ poll = "flight" /\ fails < MaxFail
    /\ \/ /\ poll' = "timeout"
          /\ call_count' = [call_count EXCEPT ![session] = @ - 1]
       \/ /\ poll' \in {"retry", "fatal"}
          /\ UNCHANGED call_count
    /\ fails' = fails + 1
    /\ UNCHANGED <<pc, after, requestVars, sessionVars, cmd, ble_status, cmds>>

PollAgain ==
    /\ poll = "sleep"
    /\ poll' = "gate"
    /\ UNCHANGED <<pc, after, requestVars, sessionVars, call_count, cmd, ble_status,
                   fails, cmds>>

PollFailed == poll \in {"timeout", "retry", "fatal"}

\* asyncio.wait in the inner loop returns: the other tasks are cancelled (a poll
\* in flight does not release the gate), then shutdown goes before reconnect,
\* reconnect before an interval change, and that before the poll's exception.
InnerWaits == pc = "inner" /\ ~shutdown

InnerShutdown ==
    /\ pc = "inner" /\ shutdown
    /\ Handle("shutdown") /\ poll' = "none"
    /\ UNCHANGED <<requestVars, sessionVars, call_count, cmd, fails, cmds>>

innerFrame == <<shutdown, connection_allowed, woken, polling_on, switches, changes,
                racing, sessionVars, call_count, cmd, fails, cmds>>

\* Mutated form: the request is taken for an interval change.
InnerReconnectDropped ==
    /\ InnerWaits /\ reconnect_requested
    /\ reconnect_requested' = FALSE
    /\ StartPolling
    /\ UNCHANGED <<pc, after, ble_status, poll_interval_event, innerFrame>>

InnerReconnect ==
    /\ InnerWaits /\ reconnect_requested
    /\ reconnect_requested' = FALSE
    /\ Handle("manual") /\ poll' = "none"
    /\ UNCHANGED <<poll_interval_event, innerFrame>>

\* Mutated form: the polling task is not started again.
InnerChangeForgetsPoll ==
    /\ InnerWaits /\ ~reconnect_requested /\ poll_interval_event
    /\ poll_interval_event' = FALSE
    /\ poll' = "none"
    /\ UNCHANGED <<pc, after, ble_status, reconnect_requested, innerFrame>>

InnerChange ==
    /\ InnerWaits /\ ~reconnect_requested /\ poll_interval_event
    /\ poll_interval_event' = FALSE
    /\ StartPolling
    /\ UNCHANGED <<pc, after, ble_status, reconnect_requested, innerFrame>>

InnerPollFailed ==
    /\ InnerWaits /\ ~reconnect_requested /\ ~poll_interval_event
    /\ PollFailed
    /\ Handle(poll) /\ poll' = "none"
    /\ UNCHANGED <<reconnect_requested, poll_interval_event, innerFrame>>

InnerWake == InnerShutdown \/ InnerReconnect \/ InnerChange \/ InnerPollFailed

-----------------------------------------------------------------------------
\* The recovery protocol and the finally block.

\* client.disconnect() closes the link, or raises: the handlers pass over the
\* exception, and the link may stay.
Disconnects ==
    \/ /\ links' = links \ {session}
       /\ unclosed' = unclosed \ {session}
       /\ UNCHANGED fails
    \/ /\ session \in links /\ fails < MaxFail
       /\ links' \in {links, links \ {session}}
       /\ unclosed' = unclosed \cup {session}
       /\ fails' = fails + 1

\* client.disconnect() of the timeout handler.  The status becomes "error" only
\* when the ESP32 cannot be reached for the recovery scan (E2005).
Dropped ==
    /\ pc = "drop"
    /\ Disconnects
    /\ ble_status' \in {ble_status, "error"}
    /\ pc' = "gone"
    /\ UNCHANGED <<after, requestVars, session, uninvited, call_count, poll, cmd, cmds>>

\* Phase 1 ends: the device disappeared, two minutes passed, or shutdown.
DeviceGone ==
    /\ pc = "gone"
    /\ pc' = "back"
    /\ UNCHANGED <<after, requestVars, sessionVars, call_count, poll, cmd, ble_status,
                   fails, cmds>>

\* Phase 2 ends (device seen again, two minutes, shutdown); or the 30 s wait does.
RecoveryEnds ==
    /\ pc \in {"back", "backoff"}
    /\ pc' = "closing"
    /\ UNCHANGED <<after, requestVars, sessionVars, call_count, poll, cmd, ble_status,
                   fails, cmds>>

\* A scan of the recovery raises: nothing catches it, and run() ends.
RecoveryFails ==
    /\ pc \in Recovering /\ fails < MaxFail
    /\ pc' = "closing" /\ after' = "dead"
    /\ fails' = fails + 1
    /\ UNCHANGED <<requestVars, sessionVars, call_count, poll, cmd, ble_status, cmds>>

\* Where run() goes after the finally block.
Afterwards == CASE after = "loop" -> "top"
                [] after = "stop" -> "stopping"
                [] after = "dead" -> "dead"
                [] after = "exit" -> "exited"

\* The finally block after client.disconnect(), with the status it leaves.
CloseSession(status) ==
    /\ pc = "closing"
    /\ ble_status' = status
    /\ pc' = Afterwards
    /\ UNCHANGED <<after, requestVars, session, uninvited, call_count, poll, cmd, cmds>>

\* Mutated forms: a session that is to be followed by another one is given up without
\* client.disconnect(); the status is only published at shutdown.
FinallyKeepsLink ==
    /\ CloseSession("disconnected")
    /\ IF after = "loop" THEN UNCHANGED <<linkVars, fails>> ELSE Disconnects
FinallyKeepsStatus ==
    CloseSession(IF shutdown THEN "disconnected" ELSE ble_status) /\ Disconnects

\* finally: client.disconnect(), then status "disconnected".
Finally == CloseSession("disconnected") /\ Disconnects

\* mqtt_service.stop(): loop_stop() joins the network thread, and the event loop
\* with it waits for the thread, which waits for the command's result.
MqttBusy == \E c \in ViaMqtt : cmd[c].pc # "idle"

StopMqtt ==
    /\ pc = "stopping"
    /\ pc' = IF MqttBusy THEN "hung" ELSE "stopped"
    /\ UNCHANGED <<after, requestVars, sessionVars, call_count, poll, cmd, ble_status,
                   fails, cmds>>

\* Mutated form: only a run() that is parked is cancelled.
CancellableParked == pc = "parked"

Cancellable == pc \notin Ended \cup {"hung", "top"}

\* ApiMode.run: 5 s after the shutdown run() is cancelled.  The finally block
\* still runs, unless it is itself what is interrupted: then its disconnect may
\* not have closed the link.
CancelRun ==
    /\ shutdown /\ Cancellable /\ after # "exit"
    /\ pc' = IF pc \in {"parked", "stopping", "closing"} THEN "exited" ELSE "closing"
    /\ after' = "exit"
    /\ poll' = "none"
    /\ unclosed' = IF pc = "closing" THEN unclosed \cup {session} ELSE unclosed
    /\ UNCHANGED <<requestVars, session, uninvited, links, call_count, cmd, ble_status,
                   fails, cmds>>

-----------------------------------------------------------------------------
\* Requests.

\* The process handles requests until it has ended.
Alive == pc \notin {"hung", "exited"} /\ ~(shutdown /\ pc \in Ended)

\* connection_allowed.set() resolves a waiter; reconnect_requested ends a session.
RequestReconnect ==
    /\ Alive /\ switches < MaxSwitch
    /\ connection_allowed' = TRUE
    /\ reconnect_requested' = TRUE
    /\ woken' = (woken \/ pc = "parked")
    /\ uninvited' = 0 /\ racing' = FALSE
    /\ switches' = switches + 1
    /\ UNCHANGED <<pc, after, shutdown, poll_interval_event, polling_on, changes, session,
                   linkVars, call_count, poll, cmd, ble_status, fails, cmds>>

RequestDisconnect ==
    /\ Alive /\ switches < MaxSwitch
    /\ connection_allowed' = FALSE
    /\ reconnect_requested' = TRUE
    /\ uninvited' = 0 /\ racing' = woken
    /\ switches' = switches + 1
    /\ UNCHANGED <<pc, after, shutdown, woken, poll_interval_event, polling_on, changes,
                   session, linkVars, call_count, poll, cmd, ble_status, fails, cmds>>

\* set_poll_interval: any new interval, 0 included, wakes the inner loop.
SetPollInterval ==
    /\ Alive /\ changes < MaxChange
    /\ polling_on' \in BOOLEAN
    /\ poll_interval_event' = TRUE
    /\ changes' = changes + 1
    /\ UNCHANGED <<pc, after, shutdown, connection_allowed, woken, reconnect_requested,
                   switches, racing, sessionVars, call_count, poll, cmd, ble_status,
                   fails, cmds>>

Shutdown ==
    /\ Alive /\ ~shutdown
    /\ shutdown' = TRUE
    /\ UNCHANGED <<pc, after, connection_allowed, woken, reconnect_requested,
                   poll_interval_event, polling_on, switches, changes, racing,
                   sessionVars, call_count, poll, cmd, ble_status, fails, cmds>>

-----------------------------------------------------------------------------
\* Commands: run_command and the handlers of the MQTT service.

notCmd == <<pc, after, requestVars, sessionVars, poll, ble_status, fails>>

Usable(k) == k \in links

\* _persistent_query takes service.client; None only before the first session.
CmdStart(c) ==
    /\ Alive /\ session > 0 /\ cmds < MaxCmd
    /\ cmd[c].pc = "idle"
    /\ cmd' = [cmd EXCEPT ![c] = [pc |-> "gate", client |-> session]]
    /\ cmds' = cmds + 1
    /\ UNCHANGED <<notCmd, call_count>>

\* The gate of send_request, then the write.  Without a link connector.client is
\* None: the write raises at once and the count is not taken back.
CmdEnter(c) ==
    LET k == cmd[c].client IN
    /\ Alive /\ cmd[c].pc = "gate" /\ call_count[k] = 0
    /\ call_count' = [call_count EXCEPT ![k] = @ + 1]
    /\ cmd' = [cmd EXCEPT ![c].pc = IF Usable(k) THEN "flight" ELSE "idle"]
    /\ UNCHANGED <<notCmd, cmds>>

\* The answer (over a usable link) or the 5 s timeout.
CmdEnd(c) ==
    LET k == cmd[c].client IN
    /\ Alive /\ cmd[c].pc = "flight"
    /\ call_count' = [call_count EXCEPT ![k] = @ - 1]
    /\ cmd' = [cmd EXCEPT ![c].pc = "idle"]
    /\ UNCHANGED <<notCmd, cmds>>

-----------------------------------------------------------------------------
RunStep ==
    \/ LoopTop \/ Unpark \/ Linked \/ SessionRequest \/ InitDone \/ FetchDone
    \/ InnerWake \/ Dropped \/ DeviceGone \/ RecoveryEnds \/ Finally \/ StopMqtt

PollStep == Alive /\ (PollEnter \/ PollDone \/ PollAgain)

Failure ==
    \/ ScanFails \/ Unsupported \/ InitFails \/ FetchFails \/ PollFails \/ RecoveryFails

Request == RequestReconnect \/ RequestDisconnect \/ SetPollInterval \/ Shutdown

Next ==
    \/ RunStep \/ PollStep \/ Failure \/ Request \/ CancelRun
    \/ \E c \in Cmd : CmdStart(c) \/ CmdEnter(c) \/ CmdEnd(c)

Spec == Init /\ [][Next]_vars

\* The event loop runs every ready task, and every wait of run() is bounded; the
\* busy-waits at the gate look every 0.1 s, hence only weak fairness there.
FairSpec ==
    /\ Spec
    /\ WF_vars(RunStep)
    /\ WF_vars(PollStep)
    /\ WF_vars(CancelRun)
    /\ \A c \in Cmd : WF_vars(CmdEnter(c)) /\ WF_vars(CmdEnd(c))

-----------------------------------------------------------------------------
PC == Between \cup Recovering
        \cup {"scan", "init", "init_flight", "fetch", "fetch_flight", "inner", "drop",
              "backoff", "closing"}

\* Session k has been left: run() is past its finally block.
Over(k) == k < session \/ (k = session /\ pc \in Between)

\* Whatever ends a session (timeout, write error, unsupported device, manual reconnect,
\* shutdown, fatal error, a failing recovery, cancellation), its link is closed when
\* run() parks, starts another session or ends, and already while the recovery protocol
\* waits for the device.  Only a disconnect that raised, or that the cancellation of
\* run() cut short, leaves a link behind, and then that session's.
NoLinkLeftBehind ==
    \A k \in links : Over(k) \/ pc \in Recovering => k \in unclosed

\* The published status says "connected" without a link only while the recovery
\* protocol runs and until the finally block behind it (main.py 926-935, 1014).
NoPhantomConnection ==
    ble_status = "connected" /\ session \notin links =>
        pc \in Recovering \cup {"closing", "exited"}

\* The invariant behind the two: where the link is up for certain, and where the
\* status may say "connected".
Open == {"init", "init_flight", "fetch", "fetch_flight", "inner", "drop"}

StatusInv ==
    /\ pc \in PC /\ after \in {"loop", "stop", "exit", "dead"}
    /\ session \in Nat /\ links \subseteq 1..session
    /\ pc \in Open => session \in links
    /\ pc = "scan" => session > 0 /\ session \notin links
    /\ NoLinkLeftBehind
    /\ ble_status = "connected" => pc \in Open \cup Recovering \cup {"closing", "exited"}

\* The gate of the session's client is closed and nobody is left to open it: a poll
\* was cancelled in flight (main.py 882), a write raised, or a command met a client
\* without a link.
GateLeaked ==
    /\ session > 0 /\ call_count[session] > 0
    /\ pc \notin {"init_flight", "fetch_flight"} /\ poll # "flight"
    /\ \A c \in Cmd : ~(cmd[c].pc = "flight" /\ cmd[c].client = session)

\* After a disconnect request no session begins until a reconnect is requested; but
\* one does when the request found run() parked with its waiter already resolved by a
\* reconnect request that it takes back: run() does not look at the event again.
StaysDisconnected ==
    ~connection_allowed => uninvited <= IF racing THEN 1 ELSE 0

\* request_disconnect: "Disconnect and stay disconnected until reconnect is
\* requested" (main.py 1431).  Whatever run() is doing at that moment, the session
\* that it has, the one begun against the request included, comes to its end: only a
\* session stuck at a leaked gate does not notice.  And it stays at that.
DisconnectHonoured ==
    /\ []StaysDisconnected
    /\ \A k \in Client :
          session = k /\ ~connection_allowed ~>
              Over(k) \/ (pc \in {"init", "fetch"} /\ GateLeaked)

\* The inner loop keeps polling: as long as it is in charge and polling is on, the
\* polling task comes back to its sleep, and only a leaked gate stops it.
PollsGoOn ==
    pc = "inner" /\ polling_on ~> poll = "sleep" \/ pc # "inner" \/ ~polling_on \/ GateLeaked

\* After the shutdown event run() ends, by itself or by the cancellation of
\* ApiMode.run, and the process with it.
ShutdownEnds == shutdown ~> pc \in Ended
=============================================================================
