---------------------------- MODULE Coordinator ----------------------------
(***************************************************************************)
(* The Home Assistant integration: AquaCleanCoordinator over a connector   *)
(* of its own, setup, reload and unload of config entries, the connection  *)
(* test of the config flow, and the commands of buttons and numbers.       *)
(*                                                                         *)
(* A coordinator object is an owner of Connector.  Polls and commands of   *)
(* all coordinators on one proxy take the proxy lock and then the lock of  *)
(* the coordinator; over the local adapter there is only the latter.       *)
(* async_close, the config flow and the restart button take no lock.       *)
(***************************************************************************)
EXTENDS Connector

CONSTANTS
    Coordinators,  \* coordinator objects
    Flow,          \* the connector of the config flow's connection test
    Shared,        \* the coordinators belong to two entries on one proxy; else the
                   \* later ones replace the earlier ones of one entry
    Threshold,     \* _CIRCUIT_OPEN_THRESHOLD
    MaxCommands    \* bound: commands

ASSUME CoordinatorAssumption ==
    /\ Owners = Coordinators \cup {Flow} /\ Flow \notin Coordinators
    /\ Coordinators \subseteq Nat \ {0} /\ Shared \in BOOLEAN
    \* The config flow makes the address of the device the unique id of an entry.
    /\ Shared => \A i, j \in Coordinators : Dev[i] = Dev[j] => i = j
    /\ Threshold \in Nat \ {0} /\ MaxCommands \in Nat

VARIABLES
    kind,       \* of the devices: mera or alba
    live,       \* coordinators that Home Assistant polls
    created,    \* coordinators that have been set up
    queued,     \* tasks of each coordinator that wait for the locks
    task,       \* the task that has them: poll, retry or command
    held,       \* _esphome_connector (or _habluetooth_connector) is set
    closing,    \* async_close of a coordinator waits for the end of its link
    typed,      \* _device_type is known
    handlers,   \* clients with a handler on the connector
    fails,      \* _consecutive_failures, at most Threshold + 1
    fired,      \* _onboarding_restart_fired contains the entry
    restarts,   \* restarts of the proxy by coordinators since the last good poll
    setting,    \* version of the stored settings of each device
    written,    \* the version after the last write that was seen to succeed
    cache,      \* version of the settings each coordinator has cached, 0 for none
    commands,
    leaky,      \* a disconnect timed out, or a coordinator was closed under its own task
    late        \* a fault has come when the circuit was open already

entryVars == <<live, created, closing>>
taskVars == <<queued, task, commands>>
settingsVars == <<setting, written, cache>>
objectVars == <<typed, handlers>>
circuitVars == <<fails, fired, restarts>>
haVars == <<entryVars, taskVars, held, objectVars, settingsVars, circuitVars, leaky, late,
            kind>>
vars == <<connVars, haVars>>

Init ==
    /\ ConnectorInit
    /\ kind \in {"mera", "alba"}
    /\ live = {} /\ created = {} /\ queued = [i \in Coordinators |-> {}]
    /\ task = [i \in Coordinators |-> "none"]
    /\ held = [i \in Coordinators |-> FALSE] /\ closing = {}
    \* Once the type is known the protocols differ only in when settings are read again.
    /\ typed \in {[i \in Coordinators |-> b] : b \in {FALSE, kind = "mera"}}
    /\ handlers = [i \in Coordinators |-> {}]
    /\ fails = [i \in Coordinators |-> 0] /\ fired = FALSE /\ restarts = 0
    /\ setting = [d \in Devices |-> 1] /\ written = setting
    /\ cache = [i \in Coordinators |-> 0]
    /\ commands = 0 /\ leaky = FALSE /\ late = FALSE

\* The connector acts; a fault of it is late when some circuit is open.
Connecting(A) ==
    /\ A
    /\ late' = (late \/ (faults' # faults /\ \E i \in Coordinators : fails[i] >= Threshold))
    /\ UNCHANGED <<entryVars, taskVars, held, objectVars, settingsVars, circuitVars, leaky,
                   kind>>

-----------------------------------------------------------------------------
\* Entries.

\* async_setup_entry: a coordinator of the same entry has been closed before.
SetupEntry(i) ==
    /\ i \notin created /\ \A j \in Coordinators : j < i => j \in created
    /\ Shared \/ (live = {} /\ closing = {})
    /\ pc[Flow] = "idle" /\ attempt[Flow] = 1
    /\ live' = live \cup {i} /\ created' = created \cup {i}
    /\ UNCHANGED <<connVars, taskVars, held, closing, objectVars, settingsVars, circuitVars,
                   leaky, late, kind>>

\* A coordinator object that has nothing to do any more is gone with what it knew.
Collected(i) ==
    /\ typed' = [typed EXCEPT ![i] = FALSE] /\ handlers' = [handlers EXCEPT ![i] = {}]
    /\ cache' = [cache EXCEPT ![i] = 0] /\ fails' = [fails EXCEPT ![i] = 0]

Busy(i) == pc[i] # "idle" \/ queued[i] # {}

\* async_close of an unload or a reload, without the locks: it waits for the end of a
\* BLE link, otherwise it closes all at once.  The last coordinator object stays.
AsyncClose(i) ==
    /\ i \in live /\ ~Shared /\ created # Coordinators
    /\ live' = live \ {i}
    /\ leaky' = (leaky \/ Busy(i))
    /\ IF Busy(i) THEN UNCHANGED <<objectVars, cache, fails>> ELSE Collected(i)
    /\ \/ /\ held[i] /\ client[i] /\ LinkUp(i)
          /\ closing' = closing \cup {i}
          /\ UNCHANGED <<proxyVars, connectorVars, held>>
       \/ /\ held[i] /\ ~(client[i] /\ LinkUp(i))
          /\ Disconnect(i) /\ held' = [held EXCEPT ![i] = FALSE]
          /\ UNCHANGED closing
       \/ /\ ~held[i]
          /\ UNCHANGED <<closing, proxyVars, connectorVars, held>>
    /\ UNCHANGED <<esphome, away, sessionVars, faults, created, taskVars, setting, written,
                   fired, restarts, late, kind>>

\* The wait is over: confirmed, or the timeout of 5 s.
AsyncClosed(i) ==
    /\ i \in closing
    /\ closing' = closing \ {i}
    /\ held' = [held EXCEPT ![i] = FALSE]
    /\ \/ Disconnect(i) /\ UNCHANGED <<faults, leaky>>
       \/ Fault /\ leaky' = TRUE /\ Unconfirmed(i)
    /\ UNCHANGED <<esphome, away, sessionVars, live, created, taskVars, objectVars,
                   settingsVars, circuitVars, late, kind>>

-----------------------------------------------------------------------------
\* The tasks.

Rivals(i) == IF esphome THEN Coordinators ELSE {i}
LocksFree(i) == \A j \in Rivals(i) : pc[j] = "idle"

\* The update interval has passed, or an entity asks for a refresh; a button or a number
\* is used, which are there before the first poll and after each that did not fail.
Due(i, t) ==
    /\ i \in live /\ t \notin queued[i]
    /\ t = "poll" => task[i] \notin {"poll", "retry"}
    /\ t = "command" => commands < MaxCommands /\ fails[i] = 0

Count(t) == commands' = IF t = "command" THEN commands + 1 ELSE commands

\* The task waits for the locks.
Wait(i, t) ==
    /\ Due(i, t) /\ ~LocksFree(i)
    /\ queued' = [queued EXCEPT ![i] = @ \cup {t}] /\ Count(t)
    /\ UNCHANGED <<connVars, entryVars, task, held, objectVars, settingsVars, circuitVars,
                   leaky, late, kind>>

\* The client a task makes sure of before it connects: a poll that does not know the
\* type makes none.
Client(i, t) ==
    CASE typed[i] -> {kind}
      [] ~typed[i] /\ t = "command" -> {"mera"}
      [] OTHER -> {}

\* A connector object that is new knows nothing of the connection of an earlier one.
NewConnector(i) ==
    /\ api' = [api EXCEPT ![i] = 0] /\ unsub' = [unsub EXCEPT ![i] = 0]
    /\ client' = [client EXCEPT ![i] = FALSE]

\* The locks are taken, waiting tasks first; _get_esphome_connector makes a connector
\* unless one is held, over the local adapter there is a new one each time.
Acquire(i, t) ==
    /\ LocksFree(i)
    /\ \/ t \in queued[i] /\ queued' = [queued EXCEPT ![i] = @ \ {t}] /\ UNCHANGED commands
       \/ /\ Due(i, t) /\ \A j \in Rivals(i) : queued[j] = {}
          /\ Count(t) /\ UNCHANGED queued
    /\ task' = [task EXCEPT ![i] = t]
    /\ held' = [held EXCEPT ![i] = esphome \/ t = "poll"]
    /\ IF held[i] THEN UNCHANGED connectorVars ELSE NewConnector(i)
    /\ handlers' = [handlers EXCEPT ![i] = @ \cup Client(i, t)]
    /\ Go(i, "start")
    /\ UNCHANGED <<esphome, away, proxyVars, conn, err, attempt, faults, entryVars, typed,
                   circuitVars, settingsVars, leaky, late, kind>>

\* The device answers, and nothing keeps the answers from the client: the handler of a
\* Mera client raises on the data of an Alba before the other handlers see them.
Answers(i) == LinkUp(i) /\ ~(kind = "alba" /\ "mera" \in handlers[i])

\* A table of stored settings is read and cached.
Filled(i) == cache' = [cache EXCEPT ![i] = setting[Dev[i]]]

\* The type is known from here on.  _build_mera_result and _build_alba_result read
\* everything, the stored settings only when they are not cached, those of an Alba also
\* now and then (_ALBA_SLOW_POLL_EVERY).  What a poll of a Mera has cached before it
\* fails stays.
Fetch(i) ==
    /\ pc[i] = "up" /\ task[i] \in {"poll", "retry"}
    /\ typed' = [typed EXCEPT ![i] = TRUE]
    /\ handlers' = [handlers EXCEPT ![i] = @ \cup {kind}]
    /\ \/ /\ Answers(i)
          /\ \/ cache[i] = 0 /\ Filled(i)
             \/ cache[i] # 0 /\ (UNCHANGED cache \/ (kind = "alba" /\ Filled(i)))
          /\ Go(i, "close") /\ UNCHANGED <<err, faults>>
       \/ /\ Answers(i) /\ Fault
          /\ UNCHANGED cache \/ (kind = "mera" /\ cache[i] = 0 /\ Filled(i))
          /\ Fails(i, "E0003")
       \/ /\ ~Answers(i) /\ UNCHANGED <<faults, cache>>
          /\ Fails(i, "E0003")
    /\ late' = (late \/ (faults' # faults /\ fails[i] >= Threshold))
    /\ UNCHANGED <<esphome, away, proxyVars, connectorVars, conn, attempt, entryVars,
                   taskVars, held, setting, written, circuitVars, leaky, kind>>

\* Mutated form: the cached settings stay.
CacheKept(i) == UNCHANGED cache

\* A write that succeeds clears the cache of its coordinator.
CacheCleared(i) == cache' = [cache EXCEPT ![i] = 0]

\* The device takes a write.
Stored(i) == setting' = [setting EXCEPT ![Dev[i]] = @ + 1]

\* async_set_profile_setting and async_set_common_setting write a setting; the device may
\* have done so although the answer is lost.  async_execute_command and
\* async_execute_alba_command leave the stored settings and the caches alone.
Execute(i) ==
    /\ pc[i] = "up" /\ task[i] = "command"
    /\ \/ /\ Answers(i)
          /\ \/ /\ Stored(i) /\ CacheCleared(i)
                /\ written' = [written EXCEPT ![Dev[i]] = setting'[Dev[i]]]
             \/ UNCHANGED settingsVars
          /\ Go(i, "close") /\ UNCHANGED <<err, faults>>
       \/ /\ IF Answers(i) THEN Fault ELSE UNCHANGED faults
          /\ (LinkUp(i) /\ Stored(i)) \/ UNCHANGED setting
          /\ UNCHANGED <<written, cache>>
          /\ Fails(i, "E0003")
    /\ late' = (late \/ (faults' # faults /\ fails[i] >= Threshold))
    /\ UNCHANGED <<esphome, away, proxyVars, connectorVars, conn, attempt, entryVars,
                   taskVars, held, objectVars, circuitVars, leaky, kind>>

\* After a scan that found nothing a poll closes the TCP connection too.
ClosesAll(i) == ~esphome \/ (task[i] # "command" /\ ~client[i])

\* The finally clause, with its timeout of 5 s, and whether the coordinator keeps the
\* connector; ESPHomeConnectionError has reset it before.
Finally(i) ==
    \/ /\ IF ClosesAll(i) THEN Disconnect(i) ELSE DisconnectBleOnly(i)
       /\ held' = [held EXCEPT ![i] = @ /\ ~ClosesAll(i) /\ err[i] # "E1002"]
       /\ UNCHANGED <<faults, leaky>>
    \/ /\ LinkUp(i) /\ Fault /\ leaky' = TRUE
       /\ held' = [held EXCEPT ![i] = FALSE]
       /\ Unconfirmed(i)

-----------------------------------------------------------------------------
\* _async_update_data: what a poll's result leads to.

Ok(i) == err[i] = "none"

\* The first poll of a new entry whose scan has found nothing.
FastRestart(i) ==
    /\ task[i] = "poll" /\ err[i] = "E0002" /\ esphome
    /\ ~typed[i] /\ fails[i] = 0 /\ ~fired

Counted(i) == IF fails[i] > Threshold THEN fails[i] ELSE fails[i] + 1

\* Mutated form: the restart is for the local adapter.
RestartDueLocal(i) == ~esphome /\ task[i] = "poll" /\ fails[i] + 1 = Threshold

\* The circuit opens: one restart, at the threshold.
RestartDue(i) == esphome /\ task[i] = "poll" /\ fails[i] + 1 = Threshold

\* The task is over and the locks are free.
Released(i) ==
    task' = [task EXCEPT ![i] = "none"] /\ Go(i, "idle")

Account(i) ==
    \/ /\ task[i] = "command"
       /\ Released(i) /\ UNCHANGED circuitVars
    \/ /\ task[i] # "command" /\ Ok(i)
       /\ fails' = [fails EXCEPT ![i] = 0] /\ fired' = (fired /\ task[i] = "retry")
       /\ restarts' = 0
       /\ Released(i)
    \/ /\ task[i] # "command" /\ ~Ok(i) /\ FastRestart(i)
       /\ fired' = TRUE
       /\ Go(i, "reboot") /\ UNCHANGED <<fails, restarts, task>>
    \/ /\ task[i] # "command" /\ ~Ok(i) /\ ~FastRestart(i)
       /\ fails' = [fails EXCEPT ![i] = Counted(i)]
       /\ IF RestartDue(i) THEN Go(i, "reboot") /\ UNCHANGED task ELSE Released(i)
       /\ UNCHANGED <<fired, restarts>>

\* The end of a session: nothing is awaited between the end of the disconnect and the
\* accounting.  A connector the coordinator does not keep is forgotten.
CloseSession(i) ==
    /\ pc[i] \in {"close", "failed"}
    /\ Finally(i)
    /\ Account(i)
    /\ handlers' = [handlers EXCEPT ![i] = IF held'[i] THEN @ ELSE {}]
    /\ err' = [err EXCEPT ![i] = "none"] /\ conn' = [conn EXCEPT ![i] = 0]
    /\ attempt' = [attempt EXCEPT ![i] = 0]
    /\ late' = (late \/ (faults' # faults /\ fails[i] >= Threshold))
    /\ UNCHANGED <<esphome, away, queued, commands, entryVars, typed, settingsVars, kind>>

\* async_restart_esp32 and the wait for the reboot; the poll of a new entry is then
\* tried once more.
Reboot(i) ==
    /\ pc[i] = "reboot"
    /\ \/ /\ ProxyRestarts
          /\ restarts' = restarts + 1
          /\ UNCHANGED <<fails, faults, late>>
          /\ IF fails[i] = 0
             THEN /\ task' = [task EXCEPT ![i] = "retry"] /\ Go(i, "start")
                  /\ held' = [held EXCEPT ![i] = TRUE]
             ELSE Released(i) /\ UNCHANGED held
       \/ /\ Fault /\ late' = TRUE
          /\ fails' = [fails EXCEPT ![i] = IF @ = 0 THEN 1 ELSE @]
          /\ Released(i)
          /\ UNCHANGED <<tcp, slot, link, restarts, held>>
    /\ UNCHANGED <<esphome, away, notifying, connectorVars, conn, err, attempt, entryVars,
                   queued, objectVars, settingsVars, fired, commands, leaky, kind>>

\* Esp32RestartButton: no lock.
RestartButton(i) ==
    /\ i \in live /\ esphome /\ commands < MaxCommands
    /\ commands' = commands + 1
    /\ ProxyRestarts
    /\ UNCHANGED <<esphome, away, notifying, connectorVars, sessionVars, faults, entryVars,
                   queued, task, held, objectVars, settingsVars, circuitVars, leaky, late,
                   kind>>

-----------------------------------------------------------------------------
\* The connection test of the config flow, before the entry exists.

TestConnection ==
    /\ pc[Flow] = "idle" /\ attempt[Flow] = 0
    /\ pc' = [pc EXCEPT ![Flow] = "start"] /\ err' = [err EXCEPT ![Flow] = "none"]
    /\ UNCHANGED <<esphome, away, proxyVars, connectorVars, conn, attempt, faults, haVars>>

\* It ends with disconnect(), whatever it has found; an entry is made if it has
\* connected, marked here by attempt 1, else the user may try again.
TestEnds ==
    /\ pc[Flow] \in {"up", "failed"}
    /\ Disconnect(Flow)
    /\ attempt' = [attempt EXCEPT ![Flow] = IF pc[Flow] = "up" THEN 1 ELSE 0]
    /\ conn' = [conn EXCEPT ![Flow] = 0] /\ err' = [err EXCEPT ![Flow] = "none"]
    /\ pc' = [pc EXCEPT ![Flow] = "idle"]
    /\ UNCHANGED <<esphome, away, faults, haVars>>

-----------------------------------------------------------------------------
Task(i) ==
    \/ Fetch(i) \/ Execute(i) \/ CloseSession(i) \/ Reboot(i)

Next ==
    \/ \E i \in Coordinators :
        \/ SetupEntry(i) \/ AsyncClose(i) \/ AsyncClosed(i)
        \/ \E t \in {"poll", "command"} : Wait(i, t) \/ Acquire(i, t)
        \/ Task(i) \/ RestartButton(i)
    \/ TestConnection \/ TestEnds
    \/ \E o \in Owners : Connecting(ConnectStep(o))
    \/ Connecting(Environment)

\* Home Assistant polls a coordinator that is set up; the event loop runs what can run;
\* a lock that is free again and again is taken; the proxy notices lost connections.
Spec ==
    /\ Init /\ [][Next]_vars
    /\ \A i \in Coordinators :
        /\ WF_vars(AsyncClosed(i)) /\ SF_vars(Acquire(i, "poll"))
        /\ SF_vars("command" \in queued[i] /\ Acquire(i, "command"))
        /\ WF_vars(Task(i) \/ Connecting(ConnectStep(i)))
    /\ WF_vars(TestEnds \/ Connecting(ConnectStep(Flow)))
    /\ WF_vars(Connecting(Expire))

-----------------------------------------------------------------------------
\* Only a connection that is lost leaves the subscription slot of the proxy taken: one
\* that is closed, by a poll, a command, a reload or the config flow, and whatever else
\* happens to the connector at that time, has given it back first.
SlotReleased == [][slot # 0 /\ slot \in tcp \ tcp' /\ slot' = slot => faults' # faults]_vars

\* Every open TCP connection is one that a coordinator, a running task or the config
\* flow can still close, unless a disconnect timed out or a coordinator was closed
\* under its own task.
NoConnectionForgotten ==
    \A c \in tcp :
        \/ \E i \in Coordinators : (held[i] \/ pc[i] # "idle") /\ c \in {api[i], conn[i]}
        \/ pc[Flow] # "idle" /\ conn[Flow] = c
        \/ leaky

\* No coordinator reports settings from before a write to its device that the integration
\* has seen succeed, by this coordinator object or by an earlier one of the same entry,
\* over failed polls and writes, reloads and restarts of the proxy; unless a coordinator
\* was closed under its own task, whose late write the new object then misses.
SettingsFresh ==
    \A i \in Coordinators : cache[i] = 0 \/ cache[i] >= written[Dev[i]] \/ leaky

-----------------------------------------------------------------------------
\* The inductive invariant behind NoConnectionForgotten and SlotReleased.

Fetching == {"sensors", "scan", "post", "up", "close", "failed"}
Places == {"idle", "start", "opening", "info", "reboot"} \cup Fetching

CoordinatorTypeOK ==
    /\ esphome \in BOOLEAN
    /\ tcp \subseteq Conns /\ slot \in Conns \cup {0}
    /\ api \in [Owners -> Conns \cup {0}] /\ unsub \in [Owners -> Conns \cup {0}]
    /\ conn \in [Owners -> Conns \cup {0}] /\ pc \in [Owners -> Places]
    /\ DOMAIN err = Owners
    /\ held \in [Coordinators -> BOOLEAN] /\ leaky \in BOOLEAN
    /\ DOMAIN queued = Coordinators /\ live \subseteq created /\ closing \subseteq created

\* A session has no connection before it has opened one or found the connector's; from
\* then on the connector has it or, closed from outside, none.
SessionAt(o) ==
    /\ pc[o] \notin Fetching \cup {"info"} => conn[o] = 0
    /\ pc[o] \in {"opening", "info"} => api[o] = 0
    /\ pc[o] \in Fetching => api[o] \in {0, conn[o]}
    /\ err[o] = "E1002" => pc[o] = "failed" /\ api[o] = 0

SessionInv ==
    /\ ~esphome => tcp = {} /\ \A o \in Owners : pc[o] # "opening"
    /\ esphome => \A o \in Owners : SessionAt(o)

\* As long as nothing was closed under a running task, the session's connection is the
\* connector's, and a coordinator holds the connector that has one.
KnownAt(o) == pc[o] \in Fetching => conn[o] \in {0, api[o]}
KeptAt(i) ==
    /\ held[i] \/ (api[i] = 0 /\ pc[i] \in {"idle", "reboot"})
    /\ i \in closing => i \notin live /\ ~Busy(i)

HeldInv ==
    esphome /\ ~leaky =>
        /\ \A o \in Owners : KnownAt(o)
        /\ pc[Flow] \in {"idle", "start"} => api[Flow] = 0
        /\ \A i \in Coordinators : KeptAt(i)

\* No two owners have one connection, and the connector with the subscribed connection
\* knows how to unsubscribe.
Apart(o, p) == {api[o], conn[o]} \cap {api[p], conn[p]} \subseteq {0}
SlotAt(o) ==
    slot # 0 =>
        /\ slot \in tcp /\ api[o] = slot => unsub[o] = slot
        /\ pc[o] = "info" => slot # conn[o]

SlotInv ==
    /\ \A o, p \in Owners : o # p => Apart(o, p)
    /\ \A o \in Owners : SlotAt(o)

CoordinatorInv ==
    /\ CoordinatorTypeOK /\ SessionInv /\ HeldInv /\ SlotInv /\ NoConnectionForgotten

-----------------------------------------------------------------------------
\* The inductive invariant behind SettingsFresh: a device is behind one coordinator object
\* at a time, the one that is set up, and only that one has something cached or a task.
OneAtATime ==
    /\ \A i \in Coordinators : Busy(i) \/ cache[i] # 0 => i \in live
    /\ ~Shared => \A i, j \in live : i = j

SettingsInv ==
    /\ live \subseteq Coordinators /\ cache \in [Coordinators -> Nat]
    /\ setting \in [Devices -> Nat \ {0}] /\ written \in [Devices -> Nat]
    /\ \A d \in Devices : written[d] <= setting[d]
    /\ ~leaky => OneAtATime
    /\ SettingsFresh

-----------------------------------------------------------------------------
\* The answers of an Alba are kept away by the client a command has made.
WrongClient(i) == kind = "alba" /\ "mera" \in handlers[i]

\* A coordinator that is set up does not fail for ever, whatever the faults have left
\* behind on the proxy: the restart at the threshold clears it.  Not when the device
\* stays away, when faults go on after the restart or the restart fails, or when a
\* command has put the wrong client on the connector.  Nor is the proxy restarted over
\* and over while it waits: once for the entry and once for each coordinator object,
\* however often the entry is set up again.
PollsRecover ==
    /\ \A i \in Coordinators :
        []<>(i \notin live \/ fails[i] = 0 \/ Dev[i] \in away \/ late \/ WrongClient(i))
    /\ [](restarts <= 1 + Cardinality(created))
=============================================================================
