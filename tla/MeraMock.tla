------------------------------ MODULE MeraMock ------------------------------
(***************************************************************************)
(* MeraMock (aquaclean_ble_relay/mera_mock.py): the simulated Mera Comfort *)
(* that stands in for a toilet.  One asyncio process serves BLE clients    *)
(* through BlueZ, a web page, and an SQLite file that outlives it.         *)
(*                                                                         *)
(*   - connection tracking and the InfoFrame bursts: one task per          *)
(*     connection, and one more for each GetDeviceIdentification, that     *)
(*     share the flag _a6_burst_done with the request handler;             *)
(*   - the button of the web page and the advertisement that shows it;     *)
(*   - the removal of a disconnected client from BlueZ, which takes the    *)
(*     GATT applications with it, and their registration anew;             *)
(*   - stored settings, firmware versions and identity, in memory and in   *)
(*     the file, and the simulated firmware update;                        *)
(*   - the state broadcast to the open web pages.                          *)
(*                                                                         *)
(* The frames of a request and its response are MeraLink's; a request is   *)
(* here what waits at the gate, is dispatched and answered.  The phone has *)
(* a rotating address, the remote control a public one.                    *)
(***************************************************************************)
EXTENDS Naturals, Sequences, FiniteSets, SequencesExt

CONSTANTS
    Scenarios,    \* budgets a behaviour may start with (bounds, see left)
    BurstFrames,  \* frames of a burst (10 on A5 and 9 on A6 in the code)
    Ticks,        \* progress frames of a firmware update (10 in the code)
    MaxGen,       \* bound: connections of one process
    Apps          \* the GATT applications, in the order of their registration

ASSUME MockAssumption ==
    /\ BurstFrames \in Nat \ {0}
    /\ Ticks \in Nat \ {0}
    /\ Apps \in Seq(STRING) /\ Apps # <<>>
    /\ \A i, j \in DOMAIN Apps : Apps[i] = Apps[j] => i = j
    /\ \A s \in Scenarios : s.connects <= MaxGen

Devs == {"phone", "remote"}
NoDev == "none"

\* What is kept in the file: a setting (common and profile settings go the same
\* way), the version of two firmware components and an identity field.
FwKeys == {"fw:1", "fw:11"}
Settings == {"setting"}
Keys == FwKeys \cup Settings \cup {"name"}
Absent == "absent"

VARIABLES
    left,      \* what remains of the budgets for what others may do
    stored,    \* the values in memory
    disk,      \* the rows of mock_state.db
    asked,     \* (history) asked[k]: what was last written to k, or was being written
               \* when the process was killed
    wiped,     \* (history) firmware rows a killed factory reset has not written anew
    fw,        \* _fw_update_state
    fwTasks,   \* the tasks of _fw_update_run and _fw_update_finalize
    links,     \* clients with a BLE link
    known,     \* clients BlueZ has a device object for
    cur,       \* _current_device_path, NoDev when _connected is False
    gen,       \* _connection_gen
    subs,      \* the CCCDs that are on
    burst,     \* burst[g]: the task _send_info_frame_burst of connection g
    recon,     \* the tasks _send_a6_reconnect_burst
    gate,      \* _a6_burst_done
    button,    \* _button_pressed
    advQ,      \* callers of _update_advert, the holder of _advert_lock first
    onAir,     \* the button shown by the registered advertisement
    stayed,    \* (history) the advertisement on air could not be taken down
    jammed,    \* (history) a burst has ended without opening the gate
    apps,      \* GATT applications BlueZ serves
    rmTasks,   \* the tasks _force_remove_and_reregister
    torn,      \* a client has expired in BlueZ, or two removals have overlapped
    req,       \* the request that holds _request_lock
    shown      \* the state last broadcast to the web pages

storeVars == <<stored, disk, asked, wiped>>
fwVars == <<fw, fwTasks>>
linkVars == <<links, known, cur, gen, subs>>
burstVars == <<burst, recon, gate>>
faultVars == <<stayed, jammed>>
airVars == <<button, advQ, onAir, stayed, jammed>>
gattVars == <<apps, rmTasks, torn>>
vars == <<left, storeVars, fwVars, linkVars, burstVars, airVars, gattVars, req, shown>>

AllApps == ToSet(Apps)
Gens == 1..gen
NoReq == [proc |-> "none", gen |-> 0]
NoTask == [pc |-> "done", n |-> 0]

-----------------------------------------------------------------------------
\* Budgets.
Has(b) == left[b] > 0
Spend(b) == left' = [left EXCEPT ![b] = @ - 1]

\* _broadcast_state_nowait, which every _log calls.
Snapshot == [conn |-> cur, button |-> button, fw |-> fw, stored |-> stored]
Log == shown' = Snapshot'
LogIf(c) == IF c THEN Log ELSE UNCHANGED shown

-----------------------------------------------------------------------------
\* The store.

Default(k) == IF k \in FwKeys THEN "rs30" ELSE "1"
Factory(k) == IF k \in FwKeys THEN "rs28" ELSE "1"

\* __init__: the rows of the file over the defaults.
Loaded(d) == [k \in Keys |-> IF d[k] = Absent THEN Default(k) ELSE d[k]]

\* Mutated form: the factory firmware is put in memory only.
FactoryOpsNoFw == << [key |-> "wipe"], [key |-> "name", value |-> Factory("name")] >>

\* What a handler writes to the file, one commit after the other.
FactoryOps ==
    << [key |-> "wipe"],
       [key |-> "fw:1", value |-> Factory("fw:1")],
       [key |-> "fw:11", value |-> Factory("fw:11")],
       [key |-> "name", value |-> Factory("name")] >>

SaveOps(k, v) == << [key |-> k, value |-> v] >>
ProfileOps(p) ==
    << [key |-> "fw:1", value |-> p], [key |-> "fw:11", value |-> p] >>

\* save and reset of mock_persistence: what a handler leaves of the row of k is up
\* to the last commit that is about it, and a reset is about every row.
Touching(ops, k) == {n \in DOMAIN ops : ops[n].key \in {"wipe", k}}
Written(op) == IF op.key = "wipe" THEN Absent ELSE op.value

CommitAll(d, ops) ==
    [k \in Keys |-> IF Touching(ops, k) = {} THEN d[k]
                    ELSE Written(ops[Max(Touching(ops, k))])]

\* The memory after a handler: it assigns what it saves, and a factory reset
\* everything.
Assigned(ops) ==
    IF ops # <<>> /\ ops[1].key = "wipe" THEN [k \in Keys |-> Factory(k)]
    ELSE CommitAll(stored, ops)

Perform(ops) ==
    /\ stored' = Assigned(ops)
    /\ disk' = CommitAll(disk, ops)
    /\ asked' = [k \in Keys |-> IF Touching(ops, k) = {} THEN asked[k]
                                ELSE {Assigned(ops)[k]}]
    /\ wiped' = {k \in wiped : Touching(ops, k) = {}}

\* What the forms of the web page save.
SettingEdits == {SaveOps(k, v) : k \in Settings, v \in {"1", "2"}}
IdentityEdits == {SaveOps("name", v) : v \in {"1", "2"}}
ComponentEdits == {SaveOps(k, v) : k \in FwKeys, v \in {"rs28", "rs30"}}
ProfileEdits == {ProfileOps(p) : p \in {"rs28", "rs30"}}
EditOps == {FactoryOps} \cup SettingEdits \cup IdentityEdits \cup ComponentEdits
           \cup ProfileEdits

\* The handlers of the web page that write: a setting, a firmware profile or
\* component, an identity field, the factory reset.
Edit ==
    /\ Has("edits") /\ Spend("edits")
    /\ \E ops \in EditOps : Perform(ops)
    /\ UNCHANGED <<fwVars, linkVars, burstVars, airVars, gattVars, req>>
    /\ Log

-----------------------------------------------------------------------------
\* The simulated firmware update.

Without(tasks, i) == RemoveAt(tasks, i)
Run(auto) == [pc |-> "run", n |-> Ticks, auto |-> auto, dev |-> NoDev]
Finalize(auto) == [pc |-> "apply", n |-> 0, auto |-> auto, dev |-> NoDev]

\* _handle_trigger_fw_update; while an update is in progress it answers 409.
TriggerUpdate ==
    /\ Has("updates") /\ Spend("updates")
    /\ fw = "idle"
    /\ fw' = "started"
    /\ fwTasks' = Append(fwTasks, Run(TRUE))
    /\ UNCHANGED <<storeVars, linkVars, burstVars, airVars, gattVars, req>>
    /\ Log

\* Mutated form: the webui's update waits for a finalize ping as well.
AfterFlashWaits(t) == fw' = "done" /\ fwTasks' = Without(fwTasks, t)

\* The end of _fw_update_run.  The webui's update goes on by itself; its last
\* state is not broadcast before the next task logs.
AfterFlash(t) ==
    IF fwTasks[t].auto
    THEN /\ fw' = "rebooting"
         /\ fwTasks' = [fwTasks EXCEPT ![t] = Finalize(TRUE)]
    ELSE /\ fw' = "done"
         /\ fwTasks' = Without(fwTasks, t)

UpdateRun(t) ==
    /\ fwTasks[t].pc = "run"
    /\ \/ /\ fwTasks[t].n > 0
          /\ fwTasks' = [fwTasks EXCEPT ![t].n = @ - 1]
          /\ shown' = Snapshot
          /\ UNCHANGED fw
       \/ /\ fwTasks[t].n = 0
          /\ AfterFlash(t)
          /\ shown' = [Snapshot EXCEPT !.fw = "done"]
    /\ UNCHANGED <<left, storeVars, linkVars, burstVars, airVars, gattVars, req>>

\* _fw_update_finalize up to its first await: the new versions are written, and
\* the client of that moment is the one to disconnect.
FinalizeApply(t) ==
    /\ fwTasks[t].pc = "apply"
    /\ Perform(ProfileOps("rs30"))
    /\ fwTasks' = [fwTasks EXCEPT ![t].dev = cur,
                                  ![t].pc = IF cur = NoDev THEN "sleep" ELSE "drop"]
    /\ UNCHANGED <<left, fw, linkVars, burstVars, airVars, gattVars, req>>
    /\ Log

\* The reboot is over.
FinalizeEnds(t) ==
    /\ fwTasks[t].pc = "sleep"
    /\ fw' = "idle"
    /\ fwTasks' = Without(fwTasks, t)
    /\ UNCHANGED <<left, storeVars, linkVars, burstVars, airVars, gattVars, req>>
    /\ Log

-----------------------------------------------------------------------------
\* Clients.

\* _on_device_connected: a second client is not tracked.
Connect(d) ==
    /\ Has("connects") /\ Spend("connects")
    /\ d \notin links
    /\ links' = links \cup {d}
    /\ known' = known \cup {d}
    /\ IF cur = NoDev
       THEN /\ cur' = d
            /\ gen' = gen + 1
            /\ burst' = [burst EXCEPT ![gen + 1] = [pc |-> "wait5", n |-> 0]]
       ELSE UNCHANGED <<cur, gen, burst>>
    /\ UNCHANGED <<subs, recon, gate, storeVars, fwVars, airVars, gattVars, req>>
    /\ LogIf(cur = NoDev)

\* The client writes a CCCD.
Subscribe(c) ==
    /\ links # {} /\ "mera" \in apps
    /\ c \notin subs
    /\ subs' = subs \cup {c}
    /\ UNCHANGED <<left, storeVars, fwVars, links, known, cur, gen, burstVars, airVars,
                   gattVars, req, shown>>

\* The link of d is gone, and _on_device_disconnected has heard of it: while the
\* button is pressed the client is to be removed from BlueZ.
Gone(d) ==
    /\ links' = links \ {d}
    /\ subs' = IF links' = {} THEN {} ELSE subs
    /\ cur' = IF cur = d THEN NoDev ELSE cur
    /\ UNCHANGED gen

RemovalOf(d) == IF cur = d /\ button THEN <<[pc |-> "address", i |-> 1, dev |-> d]>>
                ELSE <<>>

Disconnect(d) ==
    /\ d \in links
    /\ Gone(d)
    /\ rmTasks' = rmTasks \o RemovalOf(d)
    /\ UNCHANGED <<left, storeVars, fwVars, known, burstVars, airVars, apps, torn, req>>
    /\ LogIf(cur = d)

\* The simulated reboot disconnects its client, if that still has a link.
FinalizeDrops(t) ==
    /\ fwTasks[t].pc = "drop"
    /\ fwTasks' = [fwTasks EXCEPT ![t].pc = "sleep"]
    /\ IF fwTasks[t].dev \in links
       THEN /\ Gone(fwTasks[t].dev)
            /\ rmTasks' = rmTasks \o RemovalOf(fwTasks[t].dev)
       ELSE UNCHANGED <<links, subs, cur, gen, rmTasks>>
    /\ UNCHANGED <<left, fw, storeVars, known, burstVars, airVars, apps, torn, req>>
    /\ LogIf(cur = fwTasks[t].dev)

-----------------------------------------------------------------------------
\* The bursts.

Live(g) == cur # NoDev /\ gen = g
Close == gate' = FALSE
Caller(name, s) == [who |-> name, s |-> s, pc |-> "unregister"]

\* Waiting for the CCCD of A5, for 8 s at most.
BurstWaits5(g) ==
    /\ burst[g].pc = "wait5"
    /\ \/ /\ Live(g) /\ "A5" \in subs
          /\ burst' = [burst EXCEPT ![g] = [pc |-> "send5", n |-> BurstFrames]]
          /\ Close
       \/ /\ ~Live(g) \/ "A5" \notin subs
          /\ burst' = [burst EXCEPT ![g] = NoTask]
          /\ UNCHANGED gate
    /\ UNCHANGED <<left, storeVars, fwVars, linkVars, recon, airVars, gattVars, req>>
    /\ LogIf(gen = g)

\* The frames on A5, then those on A6.  Neither loop looks at the connection.
BurstSends(g) ==
    /\ burst[g].pc \in {"send5", "send6"}
    /\ burst' = [burst EXCEPT ![g] =
                    IF burst[g].n > 1 THEN [@ EXCEPT !.n = @ - 1]
                    ELSE [pc |-> IF burst[g].pc = "send5" THEN "wait6" ELSE "release",
                          n |-> 0]]
    /\ UNCHANGED <<left, storeVars, fwVars, linkVars, recon, gate, airVars,
                   gattVars, req>>
    /\ Log

\* Waiting for the CCCD of A6, for 3 s at most.
BurstWaits6(g) ==
    /\ burst[g].pc = "wait6"
    /\ \/ /\ Live(g) /\ "A6" \in subs
          /\ burst' = [burst EXCEPT ![g] = [pc |-> "send6", n |-> BurstFrames]]
       \/ /\ ~Live(g) \/ "A6" \notin subs
          /\ burst' = [burst EXCEPT ![g].pc = "release"]
    /\ UNCHANGED <<left, storeVars, fwVars, linkVars, recon, gate, airVars,
                   gattVars, req>>
    /\ Log

\* The button is released, and the gate opens when the advertisement says so.
BurstReleases(g) ==
    /\ burst[g].pc = "release"
    /\ \/ /\ button
          /\ button' = FALSE
          /\ advQ' = Append(advQ, Caller(<<"burst", g>>, FALSE))
          /\ burst' = [burst EXCEPT ![g].pc = "adv"]
          /\ UNCHANGED gate
       \/ /\ ~button
          /\ burst' = [burst EXCEPT ![g] = NoTask]
          /\ gate' = TRUE
          /\ UNCHANGED <<button, advQ>>
    /\ UNCHANGED <<left, storeVars, fwVars, linkVars, recon, onAir, faultVars, gattVars,
                   req, shown>>

ReconEnds(t) == recon' = Without(recon, t) /\ gate' = TRUE

\* _send_a6_reconnect_burst, up to its first frame and frame by frame.
ReconStarts(t) ==
    /\ recon[t].pc = "start"
    /\ IF Live(recon[t].gen) /\ "A6" \in subs
       THEN /\ recon' = [recon EXCEPT ![t].pc = "send"]
            /\ Close
       ELSE /\ recon' = Without(recon, t)
            /\ UNCHANGED gate
    /\ UNCHANGED <<left, storeVars, fwVars, linkVars, burst, airVars, gattVars, req>>
    /\ Log

ReconSends(t) ==
    /\ recon[t].pc = "send"
    /\ IF Live(recon[t].gen) /\ recon[t].n > 0
       THEN recon' = [recon EXCEPT ![t].n = @ - 1] /\ UNCHANGED gate
       ELSE ReconEnds(t)
    /\ UNCHANGED <<left, storeVars, fwVars, linkVars, burst, airVars, gattVars, req>>
    /\ LogIf(Len(recon') = Len(recon))

-----------------------------------------------------------------------------
\* Requests.

Procs == {"identification", "set_stored", "fw_start", "fw_ping", "other"}

\* A request is complete; its handler holds _request_lock and waits at the gate.
BudgetOf(p) == IF p \in {"identification", "other"} THEN "queries" ELSE "changes"
Receive(p) ==
    /\ Has(BudgetOf(p)) /\ Spend(BudgetOf(p))
    /\ links # {} /\ "mera" \in apps
    /\ req = NoReq
    /\ req' = [proc |-> p, gen |-> gen]
    /\ UNCHANGED <<storeVars, fwVars, linkVars, burstVars, airVars, gattVars, shown>>

\* Mutated form: StartFirmwareUpdate whatever the state.
StartUpdateAgain == fw' = "started" /\ fwTasks' = Append(fwTasks, Run(FALSE))

StartUpdate ==
    IF fw = "idle" THEN fw' = "started" /\ fwTasks' = Append(fwTasks, Run(FALSE))
    ELSE UNCHANGED fwVars

\* The effect of _dispatch.  The finalize ping counts once the flash window is over.
Effect(p) ==
    \/ /\ p = "set_stored"
       /\ \E ops \in SettingEdits : Perform(ops)
       /\ UNCHANGED fwVars
    \/ /\ p = "fw_start"
       /\ StartUpdate
       /\ UNCHANGED storeVars
    \/ /\ p = "fw_ping"
       /\ IF fw = "done"
          THEN fw' = "rebooting" /\ fwTasks' = Append(fwTasks, Finalize(FALSE))
          ELSE UNCHANGED fwVars
       /\ UNCHANGED storeVars
    \/ /\ p \in {"identification", "other"}
       /\ UNCHANGED <<storeVars, fwVars>>

MayAnswer == gate

\* _on_request_reassembled behind the gate: another burst for an identification
\* request, the effect, and the response.
Answer ==
    /\ Effect(req.proc)
    /\ recon' = IF req.proc = "identification" /\ gate /\ "A6" \in subs
                THEN Append(recon, [pc |-> "start", gen |-> gen, n |-> BurstFrames])
                ELSE recon
    /\ req' = NoReq
    /\ UNCHANGED <<left, linkVars, burst, gate, airVars, gattVars>>
    /\ Log

AnswerInTime == req # NoReq /\ MayAnswer /\ Answer

\* The gate stays closed for 3 s.
AnswerLate == req # NoReq /\ ~gate /\ Answer

-----------------------------------------------------------------------------
\* The button and the advertisement.

\* _handle_button.
Press ==
    /\ Has("presses") /\ Spend("presses")
    /\ ~button
    /\ button' = TRUE
    /\ advQ' = Append(advQ, Caller(<<"web">>, TRUE))
    /\ UNCHANGED <<storeVars, fwVars, linkVars, burstVars, onAir, faultVars, gattVars, req>>
    /\ Log

Holders == {1} \cap DOMAIN advQ

\* _update_advert, by the holder of the lock.  An error of unregister is passed over:
\* there was nothing on air, or what was there stays.
AdvertUnregister(i) ==
    /\ advQ[i].pc = "unregister"
    /\ advQ' = [advQ EXCEPT ![i].pc = "register"]
    /\ \/ onAir' = "nothing" /\ stayed' = FALSE /\ UNCHANGED left
       \/ /\ Has("faults") /\ Spend("faults")
          /\ onAir # "nothing"
          /\ stayed' = TRUE
          /\ UNCHANGED onAir
    /\ UNCHANGED <<storeVars, fwVars, linkVars, burstVars, button, jammed, gattVars, req,
                   shown>>

\* The caller goes on: a burst opens the gate.
CallerDone(i) ==
    IF advQ[i].who[1] = "burst"
    THEN /\ burst' = [burst EXCEPT ![advQ[i].who[2]] = NoTask]
         /\ gate' = TRUE
    ELSE UNCHANGED <<burst, gate>>

AdvertRegister(i) ==
    /\ advQ[i].pc = "register" /\ onAir = "nothing"
    /\ onAir' = IF advQ[i].s THEN "pressed" ELSE "idle"
    /\ advQ' = Without(advQ, i)
    /\ CallerDone(i)
    /\ UNCHANGED <<left, storeVars, fwVars, linkVars, recon, button, faultVars, gattVars,
                   req>>
    /\ Log

\* register raises, as it does when the path is taken: the error goes to the log file
\* only.
AdvertFails(i) ==
    /\ IF onAir = "nothing" THEN Has("faults") /\ Spend("faults") ELSE UNCHANGED left
    /\ advQ[i].pc = "register"
    /\ advQ' = Without(advQ, i)
    /\ CallerDone(i)
    /\ UNCHANGED <<storeVars, fwVars, linkVars, recon, button, onAir, faultVars, gattVars,
                   req>>
    /\ LogIf(advQ[i].who[1] = "removal")

\* The advertisement cannot be built, and the exception ends the caller: an article
\* that is not ASCII, for one.
AdvertBreaks(i) ==
    /\ Has("faults") /\ Spend("faults")
    /\ advQ[i].pc = "register"
    /\ advQ' = Without(advQ, i)
    /\ IF advQ[i].who[1] = "burst"
       THEN /\ burst' = [burst EXCEPT ![advQ[i].who[2]] = NoTask]
            /\ jammed' = TRUE
       ELSE UNCHANGED <<burst, jammed>>
    /\ UNCHANGED <<storeVars, fwVars, linkVars, recon, gate, button, onAir, stayed,
                   gattVars, req, shown>>

-----------------------------------------------------------------------------
\* The removal of a disconnected client.

Ends(t) == rmTasks' = Without(rmTasks, t)

\* The address type of the client: for a public one only the button is reset.
RemovalReadsAddress(t) ==
    LET d == rmTasks[t].dev IN
    /\ rmTasks[t].pc = "address"
    /\ IF d \in known /\ d = "remote"
       THEN /\ Ends(t)
            /\ button' = FALSE
            /\ advQ' = IF button THEN Append(advQ, Caller(<<"removal">>, FALSE)) ELSE advQ
       ELSE /\ rmTasks' = [rmTasks EXCEPT ![t].pc = "remove"]
            /\ UNCHANGED <<button, advQ>>
    /\ UNCHANGED <<left, storeVars, fwVars, linkVars, burstVars, onAir, faultVars, apps,
                   torn, req>>
    /\ LogIf(button' = button)

\* RemoveDevice.  BlueZ drops the applications with the device, and the link of a
\* client that has come back.
RemovalRemoves(t) ==
    LET d == rmTasks[t].dev IN
    /\ rmTasks[t].pc = "remove"
    /\ d \in known
    /\ known' = known \ {d}
    /\ Gone(d)
    /\ apps' = {}
    /\ rmTasks' = [rmTasks EXCEPT ![t].pc = "unregister"] \o RemovalOf(d)
    /\ torn' = (torn \/ \E u \in ToSet(rmTasks) : u.pc \in {"unregister", "register"})
    /\ UNCHANGED <<left, storeVars, fwVars, burstVars, airVars, req>>
    /\ Log

\* RemoveDevice raises: there is no such device any more.
RemovalFails(t) ==
    /\ rmTasks[t].pc = "remove"
    /\ rmTasks[t].dev \notin known
    /\ Ends(t)
    /\ UNCHANGED <<left, storeVars, fwVars, linkVars, burstVars, airVars, apps, torn, req>>
    /\ Log

\* After half a second: unregister each application, ...
RemovalUnregisters(t) ==
    LET more == rmTasks[t].i < Len(Apps) IN
    /\ rmTasks[t].pc = "unregister"
    /\ apps' = apps \ {Apps[rmTasks[t].i]}
    /\ rmTasks' = [rmTasks EXCEPT ![t].i = IF more THEN @ + 1 ELSE 1,
                                  ![t].pc = IF more THEN @ ELSE "register"]
    /\ UNCHANGED <<left, storeVars, fwVars, linkVars, burstVars, airVars, torn, req, shown>>

\* Mutated form: the last application is forgotten.
LastAppForgotten == Len(Apps) - 1

LastApp == Len(Apps)

\* BlueZ refuses an application that is registered.
Fresh(a) == a \notin apps

\* ... and register them again, up to the first that is refused.
RemovalRegisters(t) ==
    LET a == Apps[rmTasks[t].i] IN
    /\ rmTasks[t].pc = "register"
    /\ IF Fresh(a)
       THEN /\ apps' = apps \cup {a}
            /\ IF rmTasks[t].i < LastApp
               THEN rmTasks' = [rmTasks EXCEPT ![t].i = @ + 1]
               ELSE Ends(t)
       ELSE Ends(t) /\ UNCHANGED apps
    /\ UNCHANGED <<left, storeVars, fwVars, linkVars, burstVars, airVars, torn, req>>
    /\ LogIf(Len(rmTasks') < Len(rmTasks))

\* BlueZ drops a client without a link after some 20 s, and the applications.
Expire(d) ==
    /\ d \in known \ links
    /\ d # "remote"
    /\ \A t \in ToSet(rmTasks) : t.dev # d
    /\ known' = known \ {d}
    /\ apps' = {}
    /\ torn' = TRUE
    /\ UNCHANGED <<left, storeVars, fwVars, links, cur, gen, subs, burstVars, airVars,
                   rmTasks, req, shown>>

-----------------------------------------------------------------------------
\* A new process: __init__ reads the file, run() unpairs the clients and registers
\* everything.
Init ==
    /\ left \in Scenarios
    /\ disk = [k \in Keys |-> Absent]
    /\ stored = Loaded(disk)
    /\ asked = [k \in Keys |-> {Default(k)}] /\ wiped = {}
    /\ fw = "idle" /\ fwTasks = <<>>
    /\ links = {} /\ known = {} /\ cur = NoDev /\ gen = 0 /\ subs = {}
    /\ burst = [g \in 1..MaxGen |-> NoTask] /\ recon = <<>>
    /\ gate = TRUE
    /\ button = FALSE /\ advQ = <<>> /\ onAir = "idle"
    /\ stayed = FALSE /\ jammed = FALSE
    /\ apps = AllApps /\ rmTasks = <<>> /\ torn = FALSE
    /\ req = NoReq
    /\ shown = Snapshot

\* The rows a handler has deleted by its nth commit and does not get to write anew,
\* where the default of __init__ is not what the reset restores.
Lost(ops, n) ==
    {k \in FwKeys : /\ \E m \in 1..n : ops[m].key = "wipe"
                    /\ \E m \in (n + 1)..Len(ops) : ops[m].key = k}

\* The handler that writes ops is killed after its nth commit.
Killed(ops, n) ==
    /\ disk' = CommitAll(disk, SubSeq(ops, 1, n))
    /\ asked' = [k \in Keys |-> IF Touching(ops, k) = {} THEN asked[k]
                                ELSE asked[k] \cup {Assigned(ops)[k]}]
    /\ wiped' = {k \in wiped : Touching(SubSeq(ops, 1, n), k) = {}} \cup Lost(ops, n)

\* The process is killed, between two commits of a handler perhaps, and started.
Crash ==
    /\ Has("crashes") /\ Spend("crashes")
    /\ \E ops \in EditOps : \E n \in 0..Len(ops) : Killed(ops, n)
    /\ stored' = Loaded(disk')
    /\ fw' = "idle" /\ fwTasks' = <<>>
    /\ links' = {} /\ known' = {} /\ cur' = NoDev /\ gen' = 0 /\ subs' = {}
    /\ burst' = [g \in 1..MaxGen |-> NoTask] /\ recon' = <<>>
    /\ gate' = TRUE
    /\ button' = FALSE /\ advQ' = <<>> /\ onAir' = "idle"
    /\ stayed' = FALSE /\ jammed' = FALSE
    /\ apps' = AllApps /\ rmTasks' = <<>> /\ torn' = FALSE
    /\ req' = NoReq
    /\ Log

-----------------------------------------------------------------------------
Client ==
    \/ \E d \in Devs : Connect(d) \/ Disconnect(d)
    \/ \E c \in {"A5", "A6"} : Subscribe(c)
    \/ \E p \in Procs : Receive(p)

WebPage == Edit \/ TriggerUpdate \/ Press

UpdateTask == \E t \in DOMAIN fwTasks :
    UpdateRun(t) \/ FinalizeApply(t) \/ FinalizeDrops(t) \/ FinalizeEnds(t)

BurstTask(g) == BurstWaits5(g) \/ BurstSends(g) \/ BurstWaits6(g) \/ BurstReleases(g)

ReconTask == \E t \in DOMAIN recon : ReconStarts(t) \/ ReconSends(t)

Request == AnswerInTime \/ AnswerLate

Advert == \E i \in Holders :
    AdvertUnregister(i) \/ AdvertRegister(i) \/ AdvertFails(i) \/ AdvertBreaks(i)

Removal == \E t \in DOMAIN rmTasks :
    \/ RemovalReadsAddress(t) \/ RemovalRemoves(t) \/ RemovalFails(t)
    \/ RemovalUnregisters(t) \/ RemovalRegisters(t)

Next ==
    \/ Client \/ WebPage
    \/ UpdateTask \/ ReconTask \/ Request \/ Advert \/ Removal
    \/ \E g \in Gens : BurstTask(g)
    \/ \E d \in Devs : Expire(d)
    \/ Crash

\* The event loop runs every task, and D-Bus calls return.
Spec ==
    /\ Init /\ [][Next]_vars
    /\ WF_vars(UpdateTask) /\ WF_vars(ReconTask) /\ WF_vars(Request)
    /\ WF_vars(Advert) /\ WF_vars(Removal)
    /\ \A g \in 1..MaxGen : WF_vars(g <= gen /\ BurstTask(g))

-----------------------------------------------------------------------------
\* What the mock serves is what was last written, by the web page, a client or a
\* firmware update, through any number of restarts: the file holds what is served
\* whenever no handler is at work, and a handler that is killed leaves each value as it
\* was or as it was to be.  A factory reset alone does not: killed before it has written
\* the factory firmware, it leaves those rows empty, and the next process serves the
\* newer firmware of __init__ until they are written again.
RestartKeeps ==
    /\ stored = Loaded(disk)
    /\ \A k \in Keys : stored[k] \in asked[k] \/ k \in wiped

\* Web page and BLE clients never have two firmware updates under way, and the
\* state says started or rebooting exactly while one is.
OneUpdate ==
    /\ Len(fwTasks) <= 1
    /\ (fwTasks # <<>>) = (fw \in {"started", "rebooting"})

\* What is under way comes to its end: an update triggered on the web page, a reboot
\* however it came about, and the closed gate of a burst, whatever cuts it short but
\* an advertisement that cannot be built.
Settles ==
    /\ (fw = "rebooting" \/ \E t \in ToSet(fwTasks) : t.auto) ~> (fw = "idle")
    /\ []<>(gate \/ jammed)

\* What clients and pages see is the state of the mock once nothing is under way.  The
\* advertisement shows the button, whichever of web page, burst and removal changed it
\* last, unless it could not be taken down; every GATT application is registered again
\* after the removals, whoever connected meanwhile, unless BlueZ has expired a client
\* that was left to it or two removals have overlapped; an open web page is up to date,
\* except while the advertisement changes or could not be changed, and before a reboot
\* begins.
SeenIsTrue ==
    /\ advQ = <<>> /\ onAir # "nothing" => (onAir = "pressed") = button \/ stayed
    /\ rmTasks = <<>> /\ ~torn => apps = AllApps
    /\ \/ shown = Snapshot
       \/ advQ # <<>> \/ onAir = "nothing" \/ stayed
       \/ \E t \in ToSet(fwTasks) : t.pc = "apply"

-----------------------------------------------------------------------------
\* The inductive invariant behind RestartKeeps, OneUpdate and SeenIsTrue.

Updates == [pc : {"run", "apply", "drop", "sleep"}, n : Nat, auto : BOOLEAN,
            dev : Devs \cup {NoDev}]
Callers == [who : {<<"web">>, <<"removal">>} \cup {<<"burst", g>> : g \in Nat},
            s : BOOLEAN, pc : {"unregister", "register"}]
Removals == [pc : {"address", "remove", "unregister", "register"}, i : 1..Len(Apps),
             dev : Devs]

MockTypeOK ==
    /\ fwTasks \in Seq(Updates)
    /\ links \subseteq Devs /\ cur \in Devs \cup {NoDev} /\ gen \in Nat
    /\ button \in BOOLEAN /\ advQ \in Seq(Callers) /\ stayed \in BOOLEAN
    /\ rmTasks \in Seq(Removals) /\ torn \in BOOLEAN

\* The last caller of _update_advert in line brings the button as it is, and the
\* holder of the lock alone has taken the advertisement down.
AirInv ==
    /\ advQ # <<>> => advQ[Len(advQ)].s = button
    /\ advQ # <<>> /\ advQ[1].pc = "register" => onAir = "nothing" \/ stayed
    /\ \A i \in 2..Len(advQ) : advQ[i].pc = "unregister"
    /\ advQ = <<>> /\ onAir # "nothing" => (onAir = "pressed") = button \/ stayed

\* The applications of a client that has been removed come back one by one, at the
\* hands of the one removal that has got past RemoveDevice.
Busy == {t \in DOMAIN rmTasks : rmTasks[t].pc \in {"unregister", "register"}}
Back(u) == IF u.pc = "unregister" THEN {} ELSE {Apps[j] : j \in 1..(u.i - 1)}
GattInv ==
    ~torn => /\ \A t, u \in Busy : t = u
             /\ \A t \in Busy : apps = Back(rmTasks[t])
             /\ Busy = {} => apps = AllApps

PagesInv ==
    \/ shown = Snapshot
    \/ advQ # <<>> \/ onAir = "nothing" \/ stayed
    \/ \E t \in DOMAIN fwTasks : fwTasks[t].pc = "apply"

MockInv == MockTypeOK /\ RestartKeeps /\ OneUpdate /\ AirInv /\ GattInv /\ PagesInv
=============================================================================
