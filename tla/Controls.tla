------------------------------ MODULE Controls ------------------------------
(***************************************************************************)
(* A control from the user's hand to the device and back.  Two callers use *)
(* one installation: the bridge with on-demand sessions, the bridge with   *)
(* its permanent session, or the Home Assistant integration.  In the       *)
(* bridge the first caller is the MQTT broker, whose messages paho's one   *)
(* thread hands over one at a time and waits for, the second a REST client;*)
(* in the integration both are Home Assistant service calls.  A request    *)
(* passes the tables of Wiring, gets a session, and ends.  The background  *)
(* task is the poll loop (on-demand, integration) or the connect sequence  *)
(* of the permanent session.                                               *)
(*                                                                         *)
(* Inside one session everything is serialised by _on_demand_lock or       *)
(* _ble_lock.  The permanent session has no such lock: its callers         *)
(* interleave between two BLE requests, so a table of settings, one        *)
(* request per id, is read in two steps, Take (the values) and Keep (the   *)
(* cache); whatever is written in between has been read too early.  From   *)
(* the last answer to the end of the handler nothing suspends, so a write  *)
(* and its cache update are one step.                                      *)
(***************************************************************************)
EXTENDS Wiring

CONSTANTS
    Installs,      \* subset of {"on-demand", "persistent", "hacs"}
    MaxRequests,   \* how many requests of Companions the callers make;
    Companions,    \*   any other request is the only one of its behaviour
    Touched,       \* settings that are changed at the device itself
    MaxFaults      \* lost or failed BLE requests, and changes made at the device

ASSUME ControlsAssumption ==
    /\ Installs \subseteq {"on-demand", "persistent", "hacs"}
    /\ MaxRequests \in Nat /\ MaxFaults \in Nat /\ IsFiniteSet(Companions)

VARIABLES
    install, kind, model,  \* the installation and the device, fixed
    mqtt,      \* "up", "dead" (paho's thread has ended) or "off" (not configured)
    client,    \* persistent: ServiceMode.client is connected
    dev,       \* the device's stored settings
    cache,     \* device_state / the coordinator's caches: value or NoVal
    known,     \* per table: the cached dict is not None
    view,      \* what the user sees per label: retained topic or entity value
    fed,       \* sensor groups that have had a value
    lock,      \* holder of _on_demand_lock / _ble_lock
    task,      \* the callers and the background task
    polled,    \* a first poll (connect and poll) has succeeded
    okay,      \* hacs: last_update_success
    refresh,   \* hacs: async_request_refresh is pending
    sitting,   \* hacs: is_user_sitting of the last poll
    missed,    \* tables whose first read timed out
    shower,    \* whether the anal shower runs: the device, ...
    shown,     \* ... device_state and the monitor topic, ...
    last,      \* ... persistent: last_device_state_changed_event_args
    heard,     \* what the latest poll has read, "none" once that is old, or
               \*   "bypassed": shown was changed behind the client's back
    unsure,    \* settings changed at the device without the installation knowing
    asked, faults

fixed == <<install, kind, model>>
vars == <<install, kind, model, mqtt, client, dev, cache, known, view, fed, lock, task,
          polled, okay, refresh, sitting, missed, shower, shown, last, heard, unsure, asked, faults>>
monitor == <<shower, shown, last, heard>>

Callers == {"c1", "c2"}
Tasks == Callers \cup {"poll"}
Tables == {"profile", "common", "active"}
NoVal == -1
Free == "free"

Ids(table) == CASE table = "profile" -> DOMAIN ProfileSettings
                [] table = "common"  -> DOMAIN CommonSettings
                [] table = "active"  -> AlbaActive
Settings == UNION {{table} \X Ids(table) : table \in Tables}
Label(s) == CASE s[1] = "profile" -> ProfileSettings[s[2]]
              [] s[1] = "common"  -> CommonSettings[s[2]]
              [] s[1] = "active"  -> s[2]
Labels == {Label(s) : s \in Settings}
In(table) == {s \in Settings : s[1] = table}

(* What the device has: the ids its client can read and write *)
Has(s) == IF kind = "alba"
          THEN s[1] = "active" \/ (s[1] = "profile" /\ s[2] \in AlbaProfile)
          ELSE s[1] # "active"

(* ... and what a read of the table returns *)
ReadIds(table) == {s \in In(table) : Has(s) /\ s # <<"profile", 10>>}

Bridge == install # "hacs"
Surface(c) == IF ~Bridge THEN "hacs" ELSE IF c = "c1" THEN "mqtt" ELSE "rest"

(* A request: a setting to write, a command, or a REST read *)
SetReq(table, id, val, label) ==
    [type |-> "set", name |-> label, set |-> <<table, id>>, val |-> val]
CmdReq(name) == [type |-> "cmd", name |-> name, set |-> <<>>, val |-> 0]
ReadReq(name) == [type |-> "read", name |-> name, set |-> <<>>, val |-> 0]
NoReq == [type |-> "none", name |-> "", set |-> <<>>, val |-> 0]

Idle == [pc |-> "idle", req |-> NoReq, todo |-> <<>>, got |-> <<>>, dirty |-> {},
         out |-> "", did |-> ""]

-----------------------------------------------------------------------------
Init ==
    /\ install \in Installs
    /\ kind \in {"mera", "alba"}
    /\ model \in (IF install = "hacs"
                  THEN {"unknown", IF kind = "alba" THEN "alba" ELSE "mera_comfort"}
                  ELSE {"unknown"})
    /\ mqtt \in (IF install = "hacs" THEN {"off"} ELSE {"up", "off"})
    /\ client = FALSE
    /\ dev = [s \in Settings |-> 0]
    /\ cache = [s \in Settings |-> NoVal]
    /\ known = [t \in Tables |-> FALSE]
    /\ view = [l \in Labels |-> NoVal]
    /\ fed = {}
    /\ lock = Free
    /\ task = [t \in Tasks |-> Idle]
    /\ polled = FALSE /\ okay = FALSE /\ refresh = FALSE /\ sitting = FALSE
    /\ shower = "off" /\ shown = "none" /\ last = "none" /\ heard = "none"
    /\ missed = {} /\ unsure = {} /\ asked = 0 /\ faults = 0

(* The process is there: without a broker ApiMode.run may not get past its wiring *)
Running == Bridge => Starts(mqtt)

-----------------------------------------------------------------------------
(* What a caller may ask *)

Numbers(table) == CASE table = "profile" -> PROFILE_NUMBERS
                    [] table = "common"  -> COMMON_NUMBERS
                    [] table = "active"  -> {<<n[1], n[1], n[2]>> : n \in ALBA_ACTIVE_NUMBERS}

SetsOf(table, numbers) == {SetReq(table, n[2], n[3], n[1]) : n \in numbers}

MqttRequests == SetsOf("profile", DiscoveryProfileNumbers)
                \cup SetsOf("common", DiscoveryCommonNumbers)
                \cup {CmdReq(c) : c \in Subscribed}

(* POST /config/profile-setting and /config/common-setting take any id and value *)
RestRequests ==
    {SetReq("profile", i, 1, IF i \in Ids("profile") THEN ProfileSettings[i] ELSE "none") :
        i \in 0 .. 13}
    \cup {SetReq("common", i, 1, IF i \in Ids("common") THEN CommonSettings[i] ELSE "none") :
        i \in 0 .. 7}
    \cup {CmdReq(c) : c \in RestCommands}
    \cup {CmdReq(c) : c \in AlbaCommands}
    \cup {ReadReq(r) : r \in RestReads}

HacsRequests ==
    (UNION {SetsOf(table, Numbers(table)) : table \in NumberTables(model, kind)})
    \cup {CmdReq(c) : c \in {b \in Buttons(model) : ButtonAvailable(b, kind, sitting)}}

Requests(surface) == CASE surface = "mqtt" -> MqttRequests
                       [] surface = "rest" -> RestRequests
                       [] surface = "hacs" -> HacsRequests

(* set_profile_setting and set_common_setting check id and value before the session; *)
(* the integration's entities carry their own range                                  *)
Accepted(surface, req) ==
    \/ surface = "hacs" \/ req.type # "set"
    \/ /\ req.set[1] = "profile" /\ req.set[2] \in DOMAIN ProfileSettings
       /\ req.val <= ProfileMax(req.set[2])
    \/ /\ req.set[1] = "common" /\ req.set[2] \in DOMAIN COMMON_SETTING_RANGES
       /\ req.val <= COMMON_SETTING_RANGES[req.set[2]]

(* The client of the device has a method that takes the request *)
Supported(req) ==
    CASE req.type = "set" -> req.set \in Settings /\ Has(req.set)
      [] req.type = "read" -> kind = "mera" \/ req.name \notin {"filter", "descale"}
      [] req.type = "cmd" ->
            IF kind = "alba" THEN req.name \in AlbaMethods \cup (AlbaCommands \ AlbaMiscalled)
            ELSE req.name \in MeraMethods

(* The handler is one of ServiceMode's two, which use its client as it is *)
OnServiceClient(c, req) == Surface(c) = "mqtt" /\ req.name \in ServiceWired

(* on_message raises an event for the topic and a handler is on it *)
Routed(c, req) ==
    Surface(c) = "mqtt" /\ req.type = "cmd" =>
        req.name \in Dispatched \cap (ApiWired \cup ServiceWired)

Cost(req) == IF req.name \in Companions THEN 1 ELSE MaxRequests

(* get_status of a permanent session answers from device_state; get_identification, *)
(* get_info and get_initial_operation_date after the first on-demand poll            *)
FromCache(req) == \/ req.name = "status" /\ install = "persistent"
                  \/ req.name = "identification" /\ install = "on-demand" /\ polled

(* A caller's request reaches the program, which ignores, refuses, answers or queues it *)
Issue(c) ==
    /\ Running /\ task[c].pc = "idle"
    /\ Surface(c) = "mqtt" => mqtt = "up"
    /\ Surface(c) = "hacs" => polled /\ okay
    /\ \E req \in Requests(Surface(c)) :
          /\ asked + Cost(req) <= MaxRequests
          /\ asked' = asked + Cost(req)
          /\ task' = [task EXCEPT ![c] =
                IF ~Routed(c, req)
                THEN [Idle EXCEPT !.req = req, !.pc = "ended", !.out = "ignored"]
                ELSE IF ~Accepted(Surface(c), req)
                THEN [Idle EXCEPT !.req = req, !.pc = "ended", !.out = "refused"]
                ELSE IF FromCache(req)
                THEN [Idle EXCEPT !.req = req, !.pc = "ended", !.out = "done"]
                ELSE [Idle EXCEPT !.req = req, !.pc = "wait"]]
    /\ UNCHANGED <<fixed, mqtt, client, dev, cache, known, view, fed, lock, polled, okay,
                   refresh, sitting, missed, monitor, unsure, faults>>

(* An exception in a handler: ApiMode's are logged or become an HTTP error; *)
(* ServiceMode's two escape into paho's thread and end it                    *)
Escapes(c, req) == OnServiceClient(c, req)

Ends(c, out) ==
    /\ task' = [task EXCEPT ![c].pc = "ended", ![c].out = out]
    /\ mqtt' = IF out # "done" /\ Escapes(c, task[c].req) THEN "dead" ELSE mqtt
    /\ lock' = IF lock = c THEN Free ELSE lock

(* get_common_settings falls back to a session of its own without a client *)
NeedsLock(req) == \/ install # "persistent"
                  \/ req.type = "read" /\ req.name = "common" /\ ~client

(* The tables a request reads: _fetch_state reads the profile if it is not known *)
TablesAsked(req) ==
    CASE req.type = "read" /\ req.name \in Tables -> <<req.name>>
      [] req.name \in {"parameters", "status"} /\ install = "on-demand" /\ ~known["profile"]
            -> <<"profile">>
      [] OTHER -> <<>>

(* _on_demand, _persistent_query, or the coordinator's lock: the request has a link *)
Start(c) ==
    LET req == task[c].req IN
    /\ task[c].pc = "wait"
    /\ UNCHANGED <<fixed, client, dev, cache, known, view, fed, polled, okay, refresh,
                   sitting, missed, monitor, unsure, asked, faults>>
    /\ \/ /\ OnServiceClient(c, req) /\ ~client
          /\ Ends(c, "failed")
       \/ /\ ~OnServiceClient(c, req) /\ install = "persistent" /\ ~client /\ ~NeedsLock(req)
          /\ Ends(c, "offline")
       \/ /\ ~OnServiceClient(c, req) /\ NeedsLock(req) /\ lock = Free
          /\ lock' = c
          /\ task' = [task EXCEPT ![c].pc = "run", ![c].todo = TablesAsked(req)]
          /\ UNCHANGED mqtt
       \/ /\ client /\ install = "persistent"
          /\ task' = [task EXCEPT ![c].pc = "run", ![c].todo = TablesAsked(req)]
          /\ UNCHANGED <<lock, mqtt>>

-----------------------------------------------------------------------------
(* The device *)

(* Tables read but not kept yet have read the setting too early *)
Overtaken(s, tasks) ==
    [t \in Tasks |-> IF tasks[t].got # <<>> /\ tasks[t].got[1] = s[1]
                     THEN [tasks[t] EXCEPT !.dirty = @ \cup {s}] ELSE tasks[t]]

(* The bridge publishes a whole table under the keys of its two MQTT tables *)
MqttKeys(table) == CASE table = "profile" -> PROFILE_SETTING_MQTT_KEYS
                     [] table = "common"  -> COMMON_SETTING_MQTT_KEYS
                     [] table = "active"  -> <<>>

Published(table, dict) ==
    [l \in Labels |->
        IF \E i \in DOMAIN MqttKeys(table) : MqttKeys(table)[i] = l /\ dict[<<table, i>>] # NoVal
        THEN dict[<<table, CHOOSE i \in DOMAIN MqttKeys(table) : MqttKeys(table)[i] = l>>]
        ELSE view[l]]

(* Mutant: the cached dict is patched before the answer *)
ConfirmedAlways(outcome) == outcome \in {"ok", "lost", "failed"}

(* The cached table gets the value when the device has confirmed it, not before *)
Confirmed(outcome) == outcome = "ok"

(* The integration forgets the table instead, and asks for a refresh *)
StoreWritten(s, val, outcome) ==
    IF ~Confirmed(outcome) THEN UNCHANGED <<cache, known, view, refresh>>
    ELSE IF Bridge
    THEN /\ cache' = [cache EXCEPT ![s] = val]
         /\ known' = [known EXCEPT ![s[1]] = TRUE]
         /\ view' = IF mqtt = "up" THEN Published(s[1], cache') ELSE view
         /\ UNCHANGED refresh
    ELSE /\ known' = [known EXCEPT ![s[1]] = FALSE]
         /\ refresh' = TRUE
         /\ UNCHANGED <<cache, view>>

(* A setting is written: "ok", "lost" (written, but the answer never came) or *)
(* "failed" (not written)                                                     *)
Write(c) ==
    LET s == task[c].req.set  val == task[c].req.val IN
    /\ task[c].pc = "run" /\ task[c].req.type = "set" /\ Supported(task[c].req)
    /\ \E outcome \in {"ok"} \cup (IF faults < MaxFaults THEN {"lost", "failed"} ELSE {}) :
          /\ faults' = IF outcome = "ok" THEN faults ELSE faults + 1
          /\ dev' = IF outcome = "failed" THEN dev ELSE [dev EXCEPT ![s] = val]
          /\ unsure' = CASE outcome = "ok"     -> unsure \ {s}
                         [] outcome = "lost"   -> unsure \cup {s}
                         [] outcome = "failed" -> unsure
          /\ StoreWritten(s, val, outcome)
          /\ lock' = IF lock = c THEN Free ELSE lock
          /\ task' = [(IF outcome = "failed" THEN task ELSE Overtaken(s, task)) EXCEPT
                        ![c].pc = "ended", ![c].did = Label(s),
                        ![c].out = IF outcome = "ok" THEN "done" ELSE "failed"]
    /\ UNCHANGED <<fixed, mqtt, client, fed, polled, okay, sitting, missed, monitor, asked>>

(* The command of _execute_command or run_alba_command; a filter reset reads *)
(* the filter status again and publishes it                                  *)
Command(c) ==
    LET req == task[c].req IN
    /\ task[c].pc = "run" /\ req.type = "cmd" /\ Supported(req)
    /\ \/ /\ task' = [task EXCEPT ![c].pc = "ended", ![c].out = "done", ![c].did = req.name]
          /\ lock' = IF lock = c THEN Free ELSE lock
          /\ fed' = IF req.name = "ResetFilter" /\ Bridge /\ mqtt = "up"
                    THEN fed \cup {"filter"} ELSE fed
          /\ UNCHANGED <<mqtt, faults>>
       \/ /\ faults < MaxFaults
          /\ faults' = faults + 1
          /\ Ends(c, "failed")
          /\ UNCHANGED fed
    /\ UNCHANGED <<fixed, client, dev, cache, known, view, polled, okay, refresh, sitting,
                   missed, monitor, unsure, asked>>

(* The client has no such method, or it raises at once *)
Unsupported(c) ==
    /\ task[c].pc = "run" /\ ~Supported(task[c].req)
    /\ Ends(c, "unsupported")
    /\ UNCHANGED <<fixed, client, dev, cache, known, view, fed, polled, okay, refresh,
                   sitting, missed, monitor, unsure, asked, faults>>

(* The GET routes that publish what they read, or nothing *)
ReadSensor(c) ==
    LET req == task[c].req IN
    /\ task[c].pc = "run" /\ req.type = "read" /\ Supported(req)
    /\ req.name \in RestSensors
    /\ fed' = IF mqtt = "up" THEN fed \cup {req.name} ELSE fed
    /\ Ends(c, "done")
    /\ UNCHANGED <<fixed, client, dev, cache, known, view, polled, okay, refresh, sitting,
                   missed, monitor, unsure, asked, faults>>

(* Mutant: only a client's first reading raises the event *)
ChangesFirst == last = "none"

(* _state_changed_timer_elapsed raises an event, on_device_state_changed publishes, *)
(* only what differs from the client's last reading                                 *)
Changes == last = "none" \/ last # shower

PolledState ==
    /\ shown' = IF Changes THEN shower ELSE shown
    /\ last' = shower
    /\ heard' = IF heard = "bypassed" /\ ~Changes THEN heard ELSE shower

(* get_system_parameters and get_status poll; get_*_state read one parameter, store *)
(* and publish it, and leave the client's last reading alone                        *)
ReadState(c) ==
    LET req == task[c].req IN
    /\ task[c].pc = "run" /\ req.name \in RestStates /\ task[c].todo = <<>>
    /\ Ends(c, "done")
    /\ IF install = "persistent" /\ req.name = "parameters" THEN PolledState
       ELSE /\ shown' = shower
            /\ heard' = IF install = "persistent" THEN "bypassed" ELSE "none"
            /\ UNCHANGED last
    /\ UNCHANGED <<fixed, client, dev, cache, known, view, fed, polled, okay, refresh,
                   sitting, missed, shower, unsure, asked, faults>>

(* The user starts or stops the shower *)
ShowerChanges ==
    /\ faults < MaxFaults
    /\ shower' = IF shower = "on" THEN "off" ELSE "on"
    /\ heard' = IF heard = "bypassed" THEN heard ELSE "none"
    /\ faults' = faults + 1
    /\ UNCHANGED <<fixed, mqtt, client, dev, cache, known, view, fed, lock, task, polled,
                   okay, refresh, sitting, missed, shown, last, unsure, asked>>

(* Someone uses the remote control or the vendor's app *)
ChangeAtDevice(s) ==
    /\ faults < MaxFaults /\ Has(s)
    /\ dev' = [dev EXCEPT ![s] = 1]
    /\ dev' # dev
    /\ unsure' = unsure \cup {s}
    /\ task' = Overtaken(s, task)
    /\ faults' = faults + 1
    /\ UNCHANGED <<fixed, mqtt, client, cache, known, view, fed, lock, polled, okay,
                   refresh, sitting, missed, monitor, asked>>

-----------------------------------------------------------------------------
(* Reading the settings *)

Reading(t) == task[t].pc = "run" /\ task[t].todo # <<>>

NextTable(t) == Head(task[t].todo)

(* get_profile_settings and get_common_settings end with the table *)
EndsWithTable(t) == t \in Callers /\ task[t].req.name \in Tables

(* get_stored_*_settings_async: one request per id *)
Take(t) ==
    /\ Reading(t) /\ task[t].got = <<>>
    /\ task' = [task EXCEPT ![t].dirty = {},
                            ![t].got = <<NextTable(t),
                                         [s \in ReadIds(NextTable(t)) |-> dev[s]]>>]
    /\ UNCHANGED <<fixed, mqtt, client, dev, cache, known, view, fed, lock, polled, okay,
                   refresh, sitting, missed, monitor, unsure, asked, faults>>

Merged(table, dict) ==
    [s \in Settings |-> IF s \in DOMAIN dict THEN dict[s]
                        ELSE IF s[1] = table THEN NoVal ELSE cache[s]]

(* The dict replaces the cached one; the bridge publishes it *)
Keep(t) ==
    LET table == task[t].got[1] IN
    /\ task[t].pc = "run" /\ task[t].got # <<>>
    /\ cache' = Merged(table, task[t].got[2])
    /\ known' = [known EXCEPT ![table] = TRUE]
    /\ unsure' = (unsure \ In(table)) \cup task[t].dirty
    /\ view' = IF Bridge /\ mqtt = "up" /\ (t = "poll" \/ EndsWithTable(t))
               THEN Published(table, cache') ELSE view
    /\ task' = [task EXCEPT ![t] = IF EndsWithTable(t)
                                   THEN [Idle EXCEPT !.req = task[t].req, !.pc = "ended",
                                                     !.out = "done"]
                                   ELSE [task[t] EXCEPT !.todo = Tail(task[t].todo),
                                                        !.got = <<>>, !.dirty = {}]]
    /\ lock' = IF EndsWithTable(t) /\ lock = t THEN Free ELSE lock
    /\ UNCHANGED <<fixed, mqtt, client, dev, fed, polled, okay, refresh, sitting, missed, monitor,
                   asked, faults>>

(* A caller's read times out *)
ReadFails(c) ==
    /\ Reading(c) /\ faults < MaxFaults
    /\ faults' = faults + 1
    /\ task' = [task EXCEPT ![c] = [Idle EXCEPT !.req = task[c].req, !.pc = "ended", !.out = "failed"]]
    /\ lock' = IF lock = c THEN Free ELSE lock
    /\ UNCHANGED <<fixed, mqtt, client, dev, cache, known, view, fed, polled, okay, refresh,
                   sitting, missed, monitor, unsure, asked>>

-----------------------------------------------------------------------------
(* The background task *)

(* _fetch_state_and_info reads both tables; _fetch_state the profile if it is not known; *)
(* the integration what its caches lack, the live sliders always                         *)
TablesToRead ==
    CASE install = "on-demand" -> IF ~polled THEN <<"profile", "common">>
                                  ELSE IF known["profile"] THEN <<>> ELSE <<"profile">>
      [] install = "hacs" ->
            (IF known["profile"] THEN <<>> ELSE <<"profile">>)
            \o (IF kind = "alba" THEN <<"active">>
                ELSE IF known["common"] THEN <<>> ELSE <<"common">>)
      [] install = "persistent" -> <<"profile", "common">>

PollStart ==
    /\ Running /\ task["poll"].pc = "idle"
    /\ IF install = "persistent" THEN ~client ELSE lock = Free
    /\ IF install = "persistent" THEN client' = TRUE /\ last' = "none" /\ UNCHANGED lock
       ELSE lock' = "poll" /\ UNCHANGED <<client, last>>
    /\ task' = [task EXCEPT !["poll"] = [Idle EXCEPT !.pc = "run", !.todo = TablesToRead]]
    /\ fed' = IF install = "persistent" /\ mqtt = "up" THEN fed \cup ConnectFeeds ELSE fed
    /\ UNCHANGED <<fixed, mqtt, dev, cache, known, view, polled, okay, refresh, sitting,
                   missed, shower, shown, heard, unsure, asked, faults>>

(* The whole poll fails *)
PollFails ==
    /\ task["poll"].pc = "run" /\ install # "persistent" /\ faults < MaxFaults
    /\ faults' = faults + 1
    /\ task' = [task EXCEPT !["poll"] = Idle]
    /\ lock' = Free
    /\ okay' = FALSE
    /\ UNCHANGED <<fixed, mqtt, client, dev, cache, known, view, fed, polled, refresh,
                   sitting, missed, monitor, unsure, asked>>

(* A table's read times out and the poll goes on with an empty dict: the common *)
(* settings of the first on-demand poll, both tables of a permanent connect     *)
Skips(table) == install = "persistent" \/ (install = "on-demand" /\ table = "common")

TableTimesOut ==
    LET table == NextTable("poll") IN
    /\ Reading("poll") /\ faults < MaxFaults
    /\ Skips(table)
    /\ faults' = faults + 1
    /\ cache' = Merged(table, <<>>)
    /\ known' = [known EXCEPT ![table] = TRUE]
    /\ missed' = missed \cup {table}
    /\ task' = [task EXCEPT !["poll"].todo = Tail(@), !["poll"].got = <<>>,
                            !["poll"].dirty = {}]
    /\ UNCHANGED <<fixed, mqtt, client, dev, view, fed, lock, polled, okay, refresh,
                   sitting, unsure, asked, monitor>>

(* The entities show the caches once the result is handed over *)
Shown == [l \in Labels |->
            LET from == {s \in Settings : /\ s[2] \in DOMAIN HacsKeys(s[1])
                                          /\ HacsKeys(s[1])[s[2]] = l
                                          /\ known[s[1]]}
            IN IF from = {} THEN NoVal ELSE cache[CHOOSE s \in from : TRUE]]

(* The on-demand poll and the integration's publish and give the session back; the *)
(* permanent session goes on to its polling loop                                    *)
PollEnds ==
    /\ task["poll"].pc = "run" /\ task["poll"].todo = <<>>
    /\ task' = [task EXCEPT !["poll"] = IF install = "persistent"
                                        THEN [Idle EXCEPT !.pc = "polling"] ELSE Idle]
    /\ lock' = IF lock = "poll" THEN Free ELSE lock
    /\ polled' = (polled \/ install # "persistent")
    /\ fed' = CASE install = "hacs" -> fed \cup Supply(kind)
                [] install = "on-demand" /\ mqtt = "up" ->
                      fed \cup (IF kind = "mera" THEN FirstPollFeeds
                                ELSE FirstPollFeeds \ {"filter"})
                [] OTHER -> fed
    /\ IF install = "persistent" THEN UNCHANGED <<shown, heard>>
       ELSE shown' = shower /\ heard' = shower
    /\ view' = IF Bridge THEN view ELSE Shown
    /\ refresh' = FALSE
    /\ okay' = TRUE
    /\ sitting' \in (IF Bridge THEN {sitting} ELSE BOOLEAN)
    /\ UNCHANGED <<fixed, mqtt, client, dev, cache, known, missed, shower, last, unsure,
                   asked, faults>>

(* One poll of the permanent session's loop *)
Tick ==
    /\ task["poll"].pc = "polling"
    /\ PolledState
    /\ polled' = TRUE
    /\ fed' = IF mqtt = "up" THEN fed \cup PersistentPollFeeds ELSE fed
    /\ UNCHANGED <<fixed, mqtt, client, dev, cache, known, view, lock, task, okay, refresh,
                   sitting, missed, shower, unsure, asked, faults>>

(* The permanent session is lost; requests on it fail *)
LinkLost ==
    /\ install = "persistent" /\ client /\ faults < MaxFaults
    /\ client' = FALSE
    /\ faults' = faults + 1
    /\ task' = [t \in Tasks |->
                    IF t = "poll" THEN Idle
                    ELSE IF task[t].pc = "run" /\ lock # t
                    THEN [Idle EXCEPT !.req = task[t].req, !.pc = "ended", !.out = "failed"]
                    ELSE task[t]]
    /\ mqtt' = IF \E c \in Callers : /\ task[c].pc = "run" /\ lock # c
                                     /\ Escapes(c, task[c].req)
               THEN "dead" ELSE mqtt
    /\ UNCHANGED <<fixed, dev, cache, known, view, fed, lock, polled, okay, refresh,
                   sitting, missed, monitor, unsure, asked>>

(* The caller has its answer *)
Return(c) ==
    /\ task[c].pc = "ended"
    /\ task' = [task EXCEPT ![c] = Idle]
    /\ UNCHANGED <<fixed, mqtt, client, dev, cache, known, view, fed, lock, polled, okay,
                   refresh, sitting, missed, monitor, unsure, asked, faults>>

-----------------------------------------------------------------------------
Step(c) == Start(c) \/ Write(c) \/ Command(c) \/ Unsupported(c) \/ ReadSensor(c)
           \/ ReadState(c) \/ Take(c) \/ Keep(c) \/ ReadFails(c) \/ Return(c)
PollStep == Take("poll") \/ Keep("poll") \/ TableTimesOut \/ PollFails \/ PollEnds

Next ==
    \/ \E c \in Callers : Issue(c) \/ Step(c)
    \/ \E s \in Touched : ChangeAtDevice(s)
    \/ ShowerChanges
    \/ PollStart \/ PollStep \/ Tick \/ LinkLost

Spec == Init /\ [][Next]_vars

-----------------------------------------------------------------------------
(* The cached settings are the device's, although set_profile_setting and       *)
(* set_common_setting patch a cached dict that polls, REST reads and a permanent *)
(* connect replace, and the integration drops its own: they differ only where    *)
(* the device was changed behind the installation's back, where the answer to a  *)
(* write was lost, or where a permanent session read the table around a write.   *)
CacheExact ==
    \A s \in Settings :
        known[s[1]] /\ cache[s] # NoVal /\ s \notin unsure => cache[s] = dev[s]

Quiet == \A t \in Tasks : task[t].pc \in {"idle", "polling"}

(* The bridge still publishes; the entities have been given the last poll *)
Current == IF Bridge THEN mqtt = "up" ELSE okay /\ ~refresh

(* The label, hung on the id that the device uses for something else *)
Swapped == {"LightColor", "LightActivation"}

(* What a user reads under a label (a retained topic, a number entity) is the    *)
(* device's value of the setting with that label once nothing is under way, but  *)
(* for the two labels that the bridge's second table exchanges.                  *)
LabelsTrue ==
    Quiet /\ Current =>
        \A s \in Settings :
            \/ view[Label(s)] \in {NoVal, dev[s]}
            \/ s \in unsure
            \/ Bridge /\ Label(s) \in Swapped

(* Requests the wiring cannot serve: the bridge's second table has no lid settings *)
(* and takes a colour for an activation; AlbaClient lacks what an Alba lacks       *)
Gap(surface, req) ==
    \/ /\ Bridge /\ req.type = "set" /\ req.set[1] = "common"
       /\ req.set[2] \in {4, 6, 7} \/ (req.name = "LightColor" /\ req.val > 2)
    \/ surface = "rest" /\ req.name = "none"
    \/ Bridge /\ ~Supported(req)

(* Every control that a surface offers for the device at hand leads to the       *)
(* request its label names: a subscription, an event, a handler, a command and a *)
(* client method that fit together.  A request is turned away or meets a client  *)
(* without such a method only in the named gaps, and never in the integration.   *)
Honoured ==
    \A c \in Callers :
        /\ task[c].out \in {"refused", "ignored", "unsupported"}
              => Gap(Surface(c), task[c].req)
        /\ task[c].out = "done" /\ task[c].req.type # "read"
              => task[c].did = task[c].req.name

(* After every poll device_state, and with it the web page and the monitor topic,  *)
(* say what the poll has read, although a permanent session publishes changes only *)
(* and its client is replaced when the link is lost.  The one way out: a REST read *)
(* of a single state stores and publishes a value that the client does not take    *)
(* for its last reading, so the change back is no change to it.                    *)
MonitorTrue == heard \in {"on", "off"} => shown = heard

(* After the first poll every sensor and number that is announced shows a value, *)
(* but for those fed only on demand and those whose first read timed out.        *)
NothingBlank ==
    /\ polled /\ install = "hacs" =>
          \A g \in Sensors(model) :
             SensorAvailable(g, kind) =>
                g \in fed \/ (model = "unknown" /\ kind = "alba" /\ g \in SensorsOld)
    /\ polled /\ Bridge /\ kind = "mera" /\ mqtt = "up" =>
          /\ DiscoverySensors \ fed \subseteq
                {"descale", "soc", "pollInterval"}
                \cup (IF install = "persistent" THEN {"filter"} ELSE {})
          /\ \A n \in DiscoveryProfileNumbers : view[n[1]] # NoVal \/ "profile" \in missed
=============================================================================
