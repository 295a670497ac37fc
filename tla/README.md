# TLA+ verification of the Geberit AquaClean bridge

The bridge (`src/aquaclean_console_app`) talks to a Geberit AquaClean toilet over
Bluetooth Low Energy, directly or through an ESP32 that runs the ESPHome Bluetooth
proxy, and offers the device to MQTT, a REST API, a web page and Home Assistant. The
repository also has a Home Assistant integration on the same client library, mocks of
two device families, and probes. This directory holds TLA+ models of these parts, the
TLC runs that check them on small instances, and TLAPS proofs for every value of the
constants. `PROJECT.json` maps each definition to its source lines and lists runs,
mutants, findings, hazards and theorems.

    tlc -workers 2 -config MCServiceMode.cfg MCServiceMode     # one run
    tlapm ServiceModeProofs.tla                                # one proof module

## 1. The system

Bridge, integration and mocks each run in one asyncio event loop; only the MQTT
library has a thread of its own. A task runs alone until an `await` really suspends, so
the unit of interleaving, and of an action in these modules, is the code between two
such suspensions.

| Component | State | Operations | Talks to |
|---|---|---|---|
| Frame layer: `FrameCollector`, `FrameService` | received frames, bitmap, expected count, frames buffered outside a transaction | `process_data`, `start_transaction`, `add_frame` | notifications from the connector; control frames back; complete messages to the client |
| `AquaCleanBaseClient` | `call_count`, `_transaction_event`, `message_context` | `send_request` and the procedures built on it | frame layer; callers are the poll task, REST, MQTT |
| `BluetoothLeConnector`, `ESPHomeAPIClient` | bleak or ESP32 client, TCP connection, the proxy's advertisement subscription | connect, post_connect, disconnect, disconnect_ble_only | BLE stack, ESP32 |
| `ServiceMode` (main.py) | `_connection_allowed`, `_reconnect_requested`, `_poll_interval_event`, `_shutdown_event`, the current client, published status | `run`, `request_reconnect`, `request_disconnect`, recovery | client, MQTT, SSE |
| `ApiMode` (main.py) | mode settings, `_on_demand_lock`, shared ESP32 connector and client, counters of `_polling_loop`, cached settings | `_on_demand`, `_polling_loop`, setters, REST and MQTT handlers | ServiceMode, connector, client |
| `MqttService`, `RestApiService` | network thread; routes | subscriptions, dispatch, publications | ServiceMode, ApiMode |
| Alba security: `AriendiSecurity` | receive queue, keys, cipher positions, sequence numbers | handshake, encrypted I-frames | connector; `alba_mock` at the other end |
| Alba client: `Ble20Client`, `AlbaBaseClient`, `AlbaClient` | receive queue, inventory, last reported state | inventory, read, write, poll, toggle | security layer; main.py chooses it by the device found |
| Home Assistant integration | locks per proxy and per coordinator, connector kept between polls, failure count, caches | set-up, reload, poll, command, settings write, config flow test | client library, connector |
| Mera mock | connection, bursts and their gate, button and advertisement, firmware update, persisted state, registered GATT applications | procedures, web page actions, removal of clients | bridge and vendor apps over BLE, BlueZ over D-Bus, web page |
| Setup, command line, probes | what each script has open | scans, connects, reads | proxy and device, which serve one client at a time |
| `PollStats`, `ErrorCodes`, `FirmwareUpdateService`, analysers | little or none | formatting, HTTP, statistics | |

**What is hard here.** Notifications are handled by tasks that suspend while they
acknowledge frames; the request channel is guarded by a counter that nobody resets on
an error path; the permanent session can be interrupted at a dozen awaits by five kinds
of events; settings switch the mode of operation while sessions are in progress; an MQTT
thread and the event loop can wait for each other; the encrypted channel depends on both
sides' cipher positions through restarted handshakes; Alba calls share a queue without a
lock; a proxy has one subscription slot and keeps it after its user has gone; caches and
comparison states are patched from several places; tables kept by hand connect labels to
procedures. `PROJECT.json` lists the hazards, each at its line and with the properties
aimed at it.

**What makes each component correct.** The frame layer delivers each message once, whole
and unmixed, and acknowledges exactly what it has. The request channel has one request
in flight, gives each caller its own answer and becomes free again. ServiceMode leaves no
link behind, tells the truth in its status, honours a disconnect, keeps polling and ends
at shutdown. ApiMode keeps sessions apart, serves every request, restarts the ESP32 once
per outage and does not use stale identification data. The security layer never decrypts
with the wrong key or position. The Alba client gets its own answers, initialises the
device on every connection and publishes changes that add up. Coordinator and connector
forget no connection, give the subscription back and recover. The mock serves after a
restart what it served before. A script gives back what it opened. A control does what
its label says, and a label shows the value it names.

## 2. Modules

| Module | Models | Composition |
|---|---|---|
| `FrameCollector` | `FrameCollector.py` driven by `FrameService.process_data` | most general environment |
| `MeraLink` | one caller, the frame layer and the peripheral side of `mera_mock.py` | EXTENDS `FrameCollector`; implements `AskAnswer` |
| `AskAnswer` | abstract: requests are answered one at a time and in order; when `fallible`, an answer may fail | |
| `BaseClient` | `send_request` with concurrent callers | |
| `ServiceMode` | `ServiceMode.run`, `start_polling`, requests, commands | has the gate of `BaseClient`, one per session |
| `ApiMode` | `_on_demand`, `_polling_loop`, setters | ServiceMode in three states; the gate as the flag `leaked` |
| `AriendiLink` | `AriendiSecurity` and the session loop of `alba_mock.py` | both ends and the air |
| `AlbaSession` | `Ble20Client`, `AlbaBaseClient`, `AlbaClient`, the dispatch in main.py | assumes `AriendiLink`'s promise: frames arrive in order or not at all |
| `Connector` | `BluetoothLeConnector`, `ESPHomeAPIClient`, the proxy | a component: `Connector` has no specification of its own |
| `Coordinator` | `coordinator.py`, set-up and unload, `config_flow.py`'s test | EXTENDS `Connector`: several owners on one proxy |
| `MeraMock` | `mera_mock.py` above the frame level, `mock_persistence.py` | |
| `Wiring` | tables of main.py, `MqttService`, `RestApiService`, `number.py`, `button.py`, `sensor.py`, the clients | constants and operators |
| `Controls` | settings, commands and reads from a user to the device and back | EXTENDS `Wiring` |
| `ProbeStatements`, `ProbeScripts` | a small language for what scripts open, use and close; every script written in it | |
| `ProbeRun` | one script at work, with failures and Ctrl+C | EXTENDS `ProbeScripts` |
| `*Proofs` | TLAPS proofs | EXTENDS the component's module; `ChannelProofs` both `BaseClient` and `AriendiLink` |
| `MC*` | instances for TLC | |

Variables keep the names of the fields they stand for where there is one. Operators
called "Mutated form" or "Mutant" are plausible bugs; `PROJECT.json` says which property
each of them breaks. They are part of no specification.

### FrameCollector and MeraLink

`running` is the notification task the event loop executes, `todo` the `add_frame` calls
it has still to make (its own frame and the replayed buffer), `sending` the control frame
write it is suspended in, together with the message it will deliver after that write. The
bitmap is the set of its bits; `BitmapBits` is 64 and `AckEvery` is 4 in the code. `txn`
and `fired` are history variables. Exceptions are actions of their own: a frame number
beyond the bitmap (`OverflowFrame`), as many frames as expected but not the expected ones
(`AddKeyError`), a control frame that cannot be written (`ControlFailed`).

`MeraLink` adds `send_request` for a single caller, the two directions of the link and the
handlers of the peripheral. `air` is chosen at the start: "good" air loses nothing and
carries responses of `FrameCounts` frames, "lossy" air loses up to `MaxLost` frames and
carries `LossyCounts`, in order. In good air notifications may overtake each other (they
come on four characteristics). A request times out only when nothing is under way: an
exchange takes about 600 ms, the timeout is 5 s. In this module control frames are always
written; their failure is checked in `FrameCollector`.

### BaseClient

`pc` says where a caller is suspended: at the gate, in the first or second write, after
the write reached the device, or waiting. The device answers a request at some time or
never, before its timeout or after it. Neither `WriteFails` nor `Cancel` restores
`call_count`, as in the code. `heard` (a response has come since the present request took
the channel), `overdue` (some request has timed out before the device answered it) and
`astray` (requests that may still be answered although their caller has gone on) are
history variables: an outcome is the caller's own response, another one that came while
it waited, or a stale one that was there before.

### ServiceMode

`pc` is the place where `run()` is suspended:

    top -> parked | scan -> init -> init_flight -> fetch -> fetch_flight -> inner
    any failure   -> drop -> gone -> back -> closing      (recovery protocol)
                  -> backoff -> closing                   (30 s wait)
    closing       -> top | stopping -> stopped | exited | dead

`after` remembers what follows the finally block. The requests of `connect()` and those
of the settings fetch are represented by one request each, since every one of them passes
the same gate. `woken` is the resolved waiter on `_connection_allowed`: in asyncio it
stays resolved when the event is cleared again before the waiting task runs. `CancelRun`
is the cancellation of `ApiMode.run` 5 s after the shutdown; there is no clock, so it may
come at any time after it. `client.disconnect()` may raise, which both callers pass over
(`Disconnects`); so `links` is the set of sessions whose link is up, and `unclosed` says
whose disconnect raised or was cut short. `uninvited` counts the sessions begun since a
disconnect request, `racing` says whether that request found the waiter already resolved.

### ApiMode

`task` is the stage of each task's session (`idle`, `queued`, `connect`, `query`, `ok`,
`failed`), `uses` its connector: its own, the shared one, or what a teardown made of the
shared one (`cut` off, `detached` while opening TCP, then `stray`; `hung` at the gate).
`lock_queue` is `_on_demand_lock` with its FIFO of waiters. The toilet accepts one BLE
connection, so an on-demand session cannot connect while ServiceMode's session is up, and
vice versa. `failures` saturates at `FailureCap`; nothing in the loop tells larger counts
apart. `restarts`, `id_stale` and `stray` are history variables. In persistent mode most
endpoints refuse a request while ServiceMode has no client (`has_client`);
`get_common_settings` opens a session of its own then, and `early` names the tasks that
have done so.

### AriendiLink

A key is named by the two sides' key pairs and nonces, a cipher is its key and its
position in the key stream; a data frame carries both, and decrypts to something sensible
only at the same key and position. The bridge's `cpc` follows `perform_handshake` (`ua`,
`version`, `ep`, `ke`), the mock's `spc` its `_handshake_loop` with the mid-session SABM,
the session timeout, the bursts of its app handler and the pusher. `secret` says whether
the device has the bridge's secret, or another one and checks the CMAC or not. Frames may
be lost in either direction, and the mock may miss a disconnect. `Respond` emits the next
frame of a burst. The frame is encrypted before `asyncio.wait_for(send_fn(...))`
(alba_mock.py 1100-1103), which on Python 3.11 is a task of its own behind the ready
ones: notifications of the pusher may be encrypted after the response and sent before it.
The timeout of that wait is left out because it cannot fire: `send_notify` (1245-1257)
never suspends. `upset` are the connections that lost a frame or had one overtaken.

### AlbaSession

Two kinds of installation: `service` (a new connector per session, polling and a command
at once) and `esphome` (one connector and its client for all sessions). A task's program
is the sequence of calls it makes; a call writes a request and takes frames from `rxq`
until one has its command byte. Frames carry the number of the request they answer, which
the code does not have; the property uses it. `handlers` are the clients registered on
the connector: the Mera client must be gone when an Alba was found. `known` and `events`
give the device two shapes of inventory and event storage. Besides polls, commands and
writes a program may be the read of one field (`ShowState`), which publishes the field
without the client's last poll knowing; `bypassed` are the fields last published so, or by
a client other than the session's.

### Connector and Coordinator

The proxy is external and modelled from the connector's comments: one advertisement
subscription for all TCP connections, a second one hears nothing, unsubscribing aborts
BLE links, and a lost TCP connection leaves slot and link taken until the proxy notices
(`Expire`) or is restarted. An owner's session goes through `pc`: reuse or open TCP,
`device_info`, release and take the subscription, scan, connect, discover, up.
`Coordinator` adds Home Assistant: coordinator objects that are set up, polled,
commanded, reloaded and unloaded, the two locks, the failure count with the restart at
`Threshold` (5 in the code, 2 in the run), the early restart for a new entry, detection
of the device type, the settings caches, and a config flow test beside them. `setting` is
the version of a device's stored settings, `written` the newest version whose write was
seen to succeed, `cache` the version an object holds. Commands leave all three alone.
`leaky` and `late` are history variables used by the properties to name their exceptions.

### MeraMock

Clients connect, subscribe, send procedures and go; a generation number tells
connections apart. `burst` and `recon` are the tasks that send frames after a connect or
an identification request while `gate` keeps responses back. `advQ` is the lock of
`_update_advert` with its waiters, `rmTasks` the removals of clients that unregister and
register the GATT applications one by one, `fwTasks` the timers of firmware updates,
`stored` what is served and `disk` what `mock_state.db` holds, `shown` what the pages
were last sent. A crash may come at any suspension and between any two commits of a
handler, and the next process reads the disk. `asked` holds the values last written to a
row, or being written when the process was killed, and `wiped` the firmware rows a reset
that was killed had deleted and not yet written. `onAir` says what is advertised:
unregistering may fail (`stayed`), and building or registering the new advertisement too;
`jammed` says that a burst ended by such an error without opening the gate.

### Wiring and Controls

`Wiring` has the tables as the code has them: the later of two tables of the same name in
main.py wins, as in Python. `Controls` runs requests of two callers through them on one
of three installations: the caller's surface routes and validates the request, a session
is awaited, the client method found or not, the device changed, cache and publications
updated. The background task is the poll or the connect sequence. Settings hold small
numbers; `unsure` collects the settings that were changed behind the installation's back.
`shower`, `shown`, `last` and `heard` follow one running state from the device to the
monitor topic.

### Probes

Every script is a sequence of statements over five kinds of resources: the TCP
connection to the proxy (`tcp`), its subscription (`adv`), a BLE link over it (`ble`), a
local BLE link or a connector (`link`), scans and logs. `Try`, `Except`, `Finally`,
`Return` and `Loop` are those of Python; `ProbeRun` executes them, lets every awaited
statement fail or time out, and delivers Ctrl+C once.

## 3. Runs

| Run | Shows | Bounds | States |
|---|---|---|---|
| `collector` | `BitmapExact`, `CompleteIsNoticed`, `AtMostOnce` | 2 tasks, 3 transactions, counts 0..4 with a bitmap of 3 bits and an acknowledgement every 2 frames, so that overflow and intermediate acknowledgements happen in short messages | 86 234 |
| `link` | `ImplementsAskAnswer`, `RequestsEnd` | 3 requests; in good air 1 to 4 frames, in lossy air 2 or 6 frames with one lost | 239 651 |
| `client` | `OneInFlight`, `OwnAnswerInv`, `CallsEnd` | 3 callers, 2 requests each, one cancellation, one failing write, responses at any time | 325 725 |
| `service` | `NoLinkLeftBehind`, `NoPhantomConnection`, `DisconnectHonoured`, `PollsGoOn`, `ShutdownEnds` | 3 sessions, 2 failures, 2 switches, 1 interval change, 1 REST command | 635 482 |
| `api` | `SessionsApart`, `RestartedOnce`, `IdentificationRefetched`, `RequestsServed`, `PollsComeRound` | 4 failures (one beyond the threshold), 1 request, 1 switch, 1 setting change, ESP32 | 1 624 430 |
| `ariendi` | `KeysAgree`, `NothingGarbled`, `AcceptsAgain` | 3 connections, 2 requests, 2 pushes, 1 lost frame, three kinds of secret | 1 103 939 |
| `ble20` | `OwnAnswers`, `InitialisedFirst`, `ViewIsLast`, `CallsEnd` | 2 sessions, 2 actions, single-field reads among them, 1 late or lost answer, both installations | 893 634 |
| `coordinator` | `NoConnectionForgotten`, `SettingsFresh`, `SlotReleased`, `PollsRecover` | 2 coordinator objects of one entry, config flow, 5 connection ids, 1 fault, 1 command or write, both adapters | 494 497 |
| `mera_mock` | `RestartKeeps`, `OneUpdate`, `SeenIsTrue`, `Settles` | five budgets of 2 connections, button presses, queries, changes, edits, updates, a fault, two crashes; 2 GATT applications | 620 350 |
| `probes` | `GivesBack`, `OneSlot` | all 27 scripts, one Ctrl+C, failures without bound | 2 008 |
| `controls` | `CacheExact`, `LabelsTrue`, `Honoured`, `NothingBlank`, `MonitorTrue` | 3 installations, both devices; any single request, or 2 of those that meet; 2 faults | 1 418 832 |
| `service_mqtt` | violates `ShutdownEnds` | 1 session, 1 MQTT command | |

Why these bounds: each hazard needs two actors and at most two failures or switches, or,
for a circuit breaker, as many failures as its threshold and one more. Three sessions of
ServiceMode are needed to see one begin after one that was left abnormally and after one
that was called off; three handshakes, to see one restarted after one that was left
behind; two sessions of an Alba client, to see a client and a queue used again. The
budgets of the mock put a fault or a crash next to each group of tasks it can meet. In
`controls` a request that shares no table or handler with another one cannot meet it, so
only those of `Companions` come in pairs. The safety invariants that matter most are
proved without bounds (section 6). `CHECK_DEADLOCK FALSE` is set everywhere because the
behaviours end: the callers have made their requests, the service has been shut down, a
script has ended, or a bound is used up.

`ImplementsAskAnswer` is a refinement: with `air` good the link is the abstract channel
that answers every request with its own response, in order and without a timeout; in
lossy air it is the one that may time out or answer wrongly, and still ends every
request. `NoPhantomConnection`, `SlotReleased`, `CacheExact` and others name their
exceptions; each exception is a behaviour of the code, shown by the run when it is taken
out, and described in section 5.

Several liveness properties name the one thing that can defeat them: the gate of
`send_request` left closed, because neither a cancellation nor a failing write takes
`call_count` back (`GateLeaked`, `leaked`). The runs show that it is the *only* thing.

## 4. Fairness

Weak fairness of the steps the event loop or a timer owes, and of nothing else, except
where a lock is FIFO:

- `MeraLink`: `Bridge` and `Peripheral`, two event loops that keep running. Losing a
  frame is never owed.
- `BaseClient`: each caller's steps (`wait_for` has a timer), and the device answers or
  loses a request. The gate is polled every 0.1 s without a queue, so a caller is only
  promised to pass when the gate stays open: weak, not strong fairness. `Cancel` and
  `WriteFails` are not fair.
- `ServiceMode`: `RunStep` (every wait of `run()` is bounded, except for the gate and
  for parking, which are not enabled), `PollStep`, the cancellation after shutdown, and
  the commands' steps. Failures and requests are not owed.
- `ApiMode`: `LoopStep` and each task's `SessionStep`; the lock is FIFO, so weak
  fairness suffices. The gate of a leaked client is not enabled.
- `AriendiLink`: the bridge's and the mock's steps, each with its timeouts.
- `AlbaSession`: each task's steps, timeouts included, and the progress of the session.
- `Coordinator`: tasks, the steps of a connector (each await has a timeout), the end of
  `async_close`, and the proxy noticing a dead connection. Strong fairness for taking the
  locks: an `asyncio.Lock` serves its waiters in order, and the model keeps no queue.
- `MeraMock`: the update timers, bursts, the pending request, the advertisement and the
  removals, each a task of the event loop whose D-Bus calls return.
- `Controls` and `ProbeRun` state safety only and need none.

## 5. What the models show of the code

`service_mqtt` is a run of its own: a shutdown during an MQTT command makes event loop
and MQTT thread wait for each other (main.py 1021, MqttService.py 249), although main.py
1770 says "Let the service exit gracefully via the shutdown event". The other
disagreements below are behaviours of the models. Where a property names an exception,
taking the exception out of the property gives the trace.

**The gate of `send_request`.**
- A poll interval change cancels a poll in flight (main.py 882): the next polling task
  waits for ever (`PollsGoOn`), although main.py 863 says the loop reacts to interval
  changes without disconnecting.
- A command that meets a client which is still connecting (`service.client` is assigned
  before the connect, main.py 736) closes its gate: `connect()` waits for ever, although
  AquaCleanClient.py 49 says "No infinite loop here". Every session of ServiceMode has a
  client, and a gate, of its own, which limits the damage.
- When a write fails in persistent ESP32 mode, where sessions share a client, a later
  session waits with `_on_demand_lock` in its hands, and every request behind it
  (`RequestsServed`).
- `docs/developer/polling-architecture.md` suspects that two callers can pass the gate
  together. They cannot: there is no `await` between the check and the increment
  (theorem `MutualExclusion`).

**Late and mixed responses.**
- Clearing the event "so we don't pick up a stale signal from" a previous transaction
  (AquaCleanBaseClient.py 453) keeps what it says: nobody takes a response that was there
  before. But a response that arrives after the 5 s of its request, while the next one
  waits, answers that one, and its own response the one after: from then on every caller
  may get the answer to the request before. `OwnAnswer` allows it once a request has timed
  out before its answer came (`overdue`), and only then.
- The collector acknowledges after 4 of 6 frames (FrameCollector.py 70); the peripheral
  takes that bitmap for a gap and retransmits frames 4 and 5 (mera_mock.py 725). They
  arrive after completion, are buffered and replayed into the next response, which is
  delivered with them: mixed data on a lossless link (add 6 to `FrameCounts`).
  docs/developer/mock-geberit-mera.md 1102 calls the retransmission "cosmetic". A wrong
  checksum is only logged (MessageService.py 22).
- Ble20Client takes answers from one queue without a lock and compares only the command
  byte: two calls at once, or an answer later than 30 s, give a call the value of another
  data point (`OwnAnswers`).

**Sessions of the bridge.**
- A disconnect that raises is passed over (main.py 931-934, 1010-1013), and one that is
  cancelled in the finally block does not come to its end: the link stays up, and the next
  session may begin beside it (`NoLinkLeftBehind`).
- A connect request followed by a disconnect request while `run()` is parked starts a
  session all the same: the waiter is resolved and the event is not looked at again
  (main.py 717-734), although main.py 1431 says "stay disconnected until reconnect is
  requested". It is at most one, and it ends when it next looks at `_reconnect_requested`
  (`StaysDisconnected`, `DisconnectHonoured`).
- `get_common_settings` opens an on-demand session in persistent mode while ServiceMode
  has no client (main.py 2462-2466); ServiceMode may connect beside it (`SessionsApart`).
- An exception of the recovery scan, awaited inside an except clause (main.py 935), ends
  `run()` for good; docs/error-codes.md 56 says "recovery will attempt reconnection".
- An unsupported device is polled for ever: `_on_demand_inner` turns every exception
  into an HTTPException (main.py 2671), so the handler at main.py 2868 ("stop polling
  permanently; bridge stays alive for REST access") is unreachable.
- Leaving persistent ESP32 mode while a session opens TCP leaves that connection open,
  referred to by nobody (main.py 1859, `SessionsApart`).
- "No conflict is possible in on-demand mode" (polling-architecture.md 208) holds only as
  long as nobody switches the mode or sends the MQTT connect command, which reaches
  `request_reconnect` in any mode (main.py 693).
- A reconnect requested while `run()` is parked leaves `_reconnect_requested` set (main.py
  1428): the new session is torn down once as soon as it is up.
- After a timeout the handler has disconnected, yet the status stays "connected" until
  the recovery protocol is over (`NoPhantomConnection`).
- The circuit opens at 3 failures (main.py 2766); docs/on-demand-ble.md 132 and
  polling-architecture.md 114 say 5. The loop looks at the mode before the 60 s sleep and
  not after it (main.py 2791-2800). docs/developer/esphome-developer-notes.md 361 says
  the bridge does not fall back to local BLE; the recovery protocol does (main.py
  1479-1491).
- With MQTT switched off the start in api mode fails: `NullMqttService` (main.py 465),
  "Drop-in replacement for MqttService when MQTT is disabled", has no `Stop`, which
  main.py 1738 subscribes to.

**Alba.**
- On Python 3.11, which pyproject.toml allows, a notification of the Alba mock can be
  encrypted after a response and sent before it (alba_mock.py 1100-1103): both decrypt to
  garbage although no frame was lost (`NothingGarbled`). The wind-down after a stop command
  (554-562) puts three notifications in the way of whatever is being answered.
- From the second session on one persistent connector `device_type` says "mera" for an
  Alba (main.py 2592): the characteristics are swapped already.
- `poll_state` swallows failed reads, which are then reported as a user who is gone; a
  request that outlives its session does so over the new session's view, and a REST read
  of one state publishes past the client's last poll (main.py 2273-2345): the polls see no
  change to correct (`ViewIsLast`). The lady shower is never polled, although `AlbaClient`
  reports it.

**Home Assistant integration.**
- Two entries on one proxy starve each other: `disconnect_ble_only` keeps the
  subscription between polls (BluetoothLeConnector.py 895), so the other entry's scans
  find nothing, restarts included (`Dev <- TwoDevices`, `Shared = TRUE` and no fault
  refute `PollsRecover`).
- A disconnect cut off after 5 s (coordinator.py 687), or a coordinator closed under its
  own task (227), leaves a TCP connection that nobody refers to (`NoConnectionForgotten`).
- A command before the device type is known creates a Mera client on the persistent
  connector, whose handler keeps an Alba's answers from its client (`PollsRecover`).
- The settings caches are cleared by the object's own successful writes only. A write
  whose answer is lost leaves the device with a value the coordinator does not report; a
  write that ends after its coordinator was closed under it leaves the cache of the new
  coordinator as it was (`SettingsFresh`).

**Settings and controls.**
- The second `_COMMON_SETTING` tables (main.py 578-592) exchange light colour and
  activation and lack the lid settings; main.py 542 says "id=2 = color (confirmed via BLE
  log 2026-04-15)" (`LabelsTrue`, `Honoured`).
- A lid or filter message that finds no permanent session raises in paho's thread and
  ends it, and with it every MQTT control (main.py 1621, MqttService.py 246-250).
- In persistent mode a REST read of one state stores and publishes it without the client
  that compares polls: when it changes back, nothing is published (main.py 2273-2345,
  AquaCleanClient.py 100-126), although docs/mqtt.md 52 says the states are published
  every poll cycle (`MonitorTrue`).
- A settings write whose answer is lost leaves the cached profile stale: nothing reads it
  again (`CacheExact`).

**Mera mock.**
- A factory reset that is killed after `mock_persistence.reset` and before it has written
  the firmware rows (mera_mock.py 2210-2215) leaves them empty. The next process serves
  the newer firmware of `__init__`, not the "known-good defaults" of the docstring
  (`RestartKeeps`).
- An article the identity form accepts (2185-2195) but that is not ASCII breaks the
  constructor of the advertisement, outside the try (1473). A burst that meets it ends
  with the gate closed, and each response of that connection waits 3 s (`Settles`).
- When the old advertisement cannot be unregistered it stays on air, whatever the button
  says now (`SeenIsTrue`).
- Removals that overlap, or BlueZ expiring a client by itself, leave a GATT application
  unregistered (mera_mock.py 2740-2754, `SeenIsTrue`).
- An update started by an app stays "done" when the app does not ping again; the web page
  is then refused with 409 (1739-1743), hence the condition in `Settles`.

**Probes.** Ctrl+C in the connect step of the connection test closes TCP under the BLE
link; `active-common-settings-probe` calls a `disconnect_async` that does not exist; the
scripts outside `Guarded` leave the connection to the operating system on Ctrl+C.

## 6. Proofs

Proved by TLAPS for every value of the constants under the named ASSUMEs of the modules
(finite task sets, bounds in `Nat`, disjoint names):

- `MeraLinkProofs`, first about `FrameCollector`: `CollectorCorrect` (`CollectorInv`), and
  from it `AcknowledgesExactly`, `NoticesCompletion` and `DeliversAtMostOnce`. `AtMostOnce`
  alone is not inductive: a task suspended in a control frame write will announce a message
  later, so the invariant needs `HeldOnce` (such a message belongs to a closed
  transaction, to no other task, and is not announced yet), `OpenNotFired` and
  `TasksConsistent`. `CompleteIsNoticed` rests on cardinality: a frame set of the
  expected size that contains `0..n-1` is `0..n-1`.
- `MeraLinkProofs`, then about `MeraLink`: `LinkCollects` (a step of the link is a step of
  the collector or leaves it alone, so `CollectorInv` holds in the link) and `LinkAnswers`,
  the safety part of the refinement of `AskAnswer`: `LinkInit` implies its `Init`, and
  every step of the link is a step of it or a stutter, for any number of tasks, requests,
  losses and retransmissions. In lossy air this needs only that an announced message has a
  frame 0 (`MessagesWhole`). In good air it needs `GoodInv`, the stages of a request:
  asked, arriving, completing, answered. While a response arrives each of its frames is in
  exactly one of five places (`Parted`): still to push, on the air, in the calls of the
  running task, buffered, stored. So nothing times out (if four places are empty, all
  frames are stored, which `CompleteIsNoticed` excludes), the number of frames never
  matches without the frames matching (no `AddKeyError`), and the last control frame
  acknowledges all of them, so nothing is retransmitted into the next response. The
  hypothesis `ShortResponses` says that a response of good air has at most `AckEvery`
  frames (4 in the code), and `AckEvery` is at most 8, the bits of the one bitmap byte that
  the peripheral reads. Longer responses exist, and the statement is false for them
  (section 5).
- `ChannelProofs`, first about `BaseClient`: `TypeCorrect`, `MutualExclusion`, and
  `OwnAnswerCorrect`, for responses at any time, late ones included. Its steps are
  `AnswersFollow` (nothing is answered twice or before it is sent) and
  `OnlyCurrentPending`: what can still be answered is the request in flight or one that
  went astray, the signal a caller sees was set since it took the channel, and before the
  first unanswered timeout nothing is astray. It survives cancellation because a cancelled
  request leaves the gate closed, the very defect that `CallsEnd` has to except.
- `ChannelProofs`, then about `AriendiLink`: `KeysAlwaysAgree` and `NothingIsGarbled`, for
  any number of connections, requests, notifications, losses and timeouts; the second for
  connections that lost no frame and had none overtaken. Both follow from `LinkInv`,
  which says of every stage of the handshake which frames may be on their way in each
  direction, and of an open session that the n-th data frame waiting, in the air or in a
  queue of either end, was encrypted n - 1 places behind the receiver's position. The key
  agreement needs it because a handshake restarted on a live session meets data frames
  and handshake answers of the one before; `ExchangeInv`, `RequestInv` and `ResponseInv`
  exclude that an old answer is taken for a new one.
- `ServiceModeProofs`: `NoLinkIsLeftBehind` and `StatusIsHonest`, from `StatusInv`, which
  says where the link is certainly up and where the status may say "connected". One lemma
  per group of steps, one for the exception handlers. `DisconnectedStays` is the safety
  part of `DisconnectHonoured`: a session begins uninvited only from a waiter that was
  resolved when the request came, and there is one such waiter.
- `ApiModeProofs`: `RestartAtMostOnce` and `IdentificationIsRefetched`, from `RestartInv`:
  the restart belongs to the third failure exactly, and the probe behind it moves the
  count on, or clears it, before the loop can come back. `SessionsKeepApart` proves the
  three parts of `SessionsApart`. The first needs `LineInv` (exactly the tasks that are
  not idle stand in line for the lock, each once, and those behind the first have not
  begun; a cancelled loop leaves the line from any place), the second `ModeInv` (without a
  switch ServiceMode leaves its idle state in persistent mode only, where a task runs only
  when it came before ServiceMode had a client), the third `StrayInv` (only a session
  whose connector was taken away while it was using it can leave a connection behind).
- `AlbaSessionProofs`: `AlwaysInitialisedFirst`, `ViewIsAlwaysLast` and
  `AlwaysOwnAnswers`. The first needs to know of every caller how far its initialisation
  has come and that its commands reach the device in order (`ClientInv`, `AskInv`); the
  second relates the published view, the cache of the last poll, the fields published past
  it and the snapshot a running poll has made (`ViewInv`). The third rests on `AnswerInv`:
  only the client made last receives, and it is the session's (`HandlersInv`,
  `NewestInv`); while nothing is late or lost (`Calm`) a client has at most one call under
  way, of which either the request or the whole answer is in the air or in the queue, and
  without a call nothing is (`ExchangeInv`).
- `CoordinatorProofs`: `NoneForgotten`, `SettingsAlwaysFresh` and the action property
  `SlotIsReleased`, for any number of coordinators, connections and faults, with a local
  adapter or a proxy, shared or not. `CoordinatorInv` says at which step which owner holds
  a TCP connection and which object knows it, that no two owners hold the same, and that
  the subscription slot belongs to an open connection whose owner can release it.
  `SettingsAlwaysFresh` rests on `OneAtATime`: a device is behind one coordinator object
  at a time unless one was closed under its own task, so no poll puts a table from before
  a write in the cache after it (`SettingsInv`). One lemma, `OwnerStep`, reduces a step to
  what it says about its owner; the rest is one lemma per step.
- `MeraMockProofs`: `RestartAlwaysKeeps`, `AlwaysOneUpdate` and `SeenIsAlwaysTrue`, from
  `MockInv`, for any budgets, lengths of bursts and updates, and any list of distinct GATT
  applications. `RestartAlwaysKeeps` cuts a handler off after any of its commits
  (`KillKept`), whichever rows it writes (`EditForms`). `SeenIsTrue` speaks of quiet
  states only. In between, the last caller in line at `_advert_lock` carries the button as
  it is (`AirInv`), and the applications registered are those before the index of the one
  removal past RemoveDevice (`GattInv`).
- `ControlsProofs`: `CacheIsExact`, `LabelsAreTrue`, `OffersAreHonoured`,
  `NothingStaysBlank` and `MonitorIsTrue`, from `ControlsInvariant`, for any
  installation, any number of requests and faults, and any settings changed at the device
  (the run has 2 of each and three settings). None of the five properties is inductive;
  the invariant has these layers, each preserved given the ones before it:
  - Facts about the tables of `Wiring`, proved from the tables themselves: a label names
    one setting (`LabelInjective`), a key of the bridge's tables publishes the setting of
    its own label unless it is one of the two exchanged (`KeysOfTable`), what a table
    read returns belongs to the table and the device (`ReadIdsAre`).
  - `LockInv`: outside the permanent session one task at a time is past the lock.
    `ReadInv`: the table in a task's hands is the first of those it has to read, and
    whole. `TakenInv`: each value in its hands is the device's, or the setting is marked
    as written meanwhile.
  - `CacheExact` itself is inductive over these: a kept table is what was taken, a write
    patches what is cached and marks what others have in their hands.
  - `BlankInv` (what the device lacks is never cached; a table not known is neither cached
    nor published), `PublishedInv` (under a key of its own label the bridge publishes
    the device's value) and `EntitiesInv` (between two polls the entities show it): two
    invariants, because the bridge publishes at each read and each write, the integration
    at the end of a poll. A step's publication rests on `CacheExact` after the step.
  - `FedInv` and `ShownInv` say what is fed and which numbers are shown when a first poll
    succeeds, and on the way there; the announced sensors are compared with that by their
    lists. `MonitorInv` relates the published state, the client's last reading and the
    latest poll. `AskedInv` follows a request through routing, validation and the client:
    what is under way was offered and accepted.

Each inductive invariant was checked with TLC on the run's instance before it was proved
(but for the type of a task in `ControlsProofs`, whose dicts are too many to enumerate).

With that every safety property of the runs is a theorem, except those of `ProbeRun`.
Only model-checked are:

- all liveness properties, with them the fairness part of `ImplementsAskAnswer`: fairness
  and ENABLED are outside this prover's reach;
- `GivesBack` and `OneSlot` of `ProbeRun`. Its only constant is the set of scripts and it
  has no bounds: the state space is finite, the run takes all scripts, and a smaller set
  has fewer behaviours, so TLC's search is complete. A general argument would be an
  induction over the syntax of programs, which is out of reach as well.

## 7. Not modelled

- Encoding and decoding of procedures and data points, cryptography, CRC, header bits,
  INFO frames, texts, icons and units: data without concurrent state.
- `tools/nrf-ble-analyze.py`, `ble-decode.py` and the other analysers: batch decoders of
  captured files without state over time. `tools/mock-geberit-*.py` are earlier copies of
  the mocks.
- `PollStats`, `ErrorCodes`, `FirmwareUpdateService` and the firmware check loop, SSE and
  log streaming, configuration files, the web pages.
- Of the Mera mock: RC pairing, registration level, active settings, SPL values. Of the
  Alba mock: its data points and web page. Process supervision (`mock_service.py`).
- The connector's path over Home Assistant's own Bluetooth stack, except for the local
  adapter in `Connector`; the fallback from the ESP32 to a local scan within one recovery
  (both scans are the same two phases of the model).

## 8. Plan

1. Done: frame layer, Mera link, request channel, ServiceMode, ApiMode; Alba security and
   client; connector and coordinator; Mera mock; settings and controls; scripts.
2. Done: the safety properties of all runs but `probes` as theorems (section 6).
3. A specification of "a device has one session, kept while allowed", implemented by
   `ServiceMode` and composed with `ApiMode` in place of its `service`.
4. `PollStats` and the frame and CRC encodings as operators against reference definitions.
