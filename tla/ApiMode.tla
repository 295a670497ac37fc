------------------------------- MODULE ApiMode -------------------------------
(***************************************************************************)
(* ApiMode of main.py: on-demand BLE sessions under _on_demand_lock, the   *)
(* background polling loop with its circuit breaker, and the switches that *)
(* REST and MQTT throw at run time (connection mode, ESP32 API mode, poll  *)
(* interval).  The permanent session of ServiceMode appears only as the    *)
(* three states of `service`; module ServiceMode has its details.          *)
(*                                                                         *)
(* A session is: wait for the lock, connect (TCP to the ESP32, then BLE),  *)
(* query, disconnect in the finally block, release the lock.               *)
(***************************************************************************)
EXTENDS Naturals, Sequences

CONSTANTS
    Req,        \* REST and MQTT requests that open an on-demand session
    Loop,       \* the task of _polling_loop
    Esp,        \* esphome_host is configured
    MaxFail,    \* bound: failing sessions
    MaxReq,     \* bound: on-demand requests
    MaxSwitch,  \* bound: connection mode changes, connect and disconnect
    MaxSet      \* bound: changes of the poll interval and of the ESP32 API mode

ASSUME ApiAssumption ==
    /\ Loop \notin Req
    /\ Esp \in BOOLEAN
    /\ MaxFail \in Nat /\ MaxReq \in Nat /\ MaxSwitch \in Nat /\ MaxSet \in Nat

VARIABLES
    ble_connection,          \* "on-demand" or "persistent"
    esphome_api_connection,  \* "on-demand" or "persistent"
    poll_on,                 \* _poll_interval > 0
    wakeup,                  \* _poll_wakeup
    shutdown,                \* _shutdown_event
    loop,                    \* where _polling_loop is
    first,                   \* _first_poll
    failures,                \* _consecutive_poll_failures
    id_fetched,              \* _identification_fetched
    task,                    \* stage of each task's session
    uses,                    \* the connector each session has
    lock_queue,              \* _on_demand_lock: its owner, then the waiters in order
    shared,                  \* _esphome_connector: "none", "closed" or "open" (TCP)
    leaked,                  \* call_count of _esphome_client is stuck above 0
    connection_allowed,      \* ServiceMode._connection_allowed
    service,                 \* ServiceMode's session: "idle", "connecting" or "up"
    has_client,              \* service.client is not None: ServiceMode has begun a session
    early,                   \* history: requests whose last session is a fallback (below)
    supported,               \* the device is of a supported variant; never changes
    restarts,                \* history: ESP32 restarts since the last good poll
    id_stale,                \* history: a poll failed since the identification was read
    stray,                   \* history: a TCP connection nobody refers to is open
    fails, reqs, switches, sets

modeVars == <<ble_connection, esphome_api_connection, poll_on, wakeup, shutdown,
              connection_allowed, supported>>
loopVars == <<loop, first, failures, id_fetched, restarts, id_stale>>
sessionVars == <<task, uses, lock_queue, shared, leaked, stray>>
serviceVars == <<service, has_client, early>>
bounds == <<fails, reqs, switches, sets>>
vars == <<modeVars, loopVars, sessionVars, serviceVars, bounds>>

Task == Req \cup {Loop}
CIRCUIT_OPEN_THRESHOLD == 3

\* The count of failures is not told apart above FailureCap.
FailureCap == 5
OneMoreFailure == IF failures < FailureCap THEN failures + 1 ELSE failures

Init ==
    /\ ble_connection \in {"on-demand", "persistent"}
    /\ esphome_api_connection \in {"on-demand", "persistent"}
    /\ poll_on \in BOOLEAN
    /\ wakeup = FALSE /\ shutdown = FALSE
    /\ loop = "sleep" /\ first = TRUE /\ failures = 0 /\ id_fetched = FALSE
    /\ task = [t \in Task |-> "idle"]
    /\ uses = [t \in Task |-> "own"]
    /\ lock_queue = <<>>
    /\ shared = "none" /\ leaked = FALSE
    /\ connection_allowed = (ble_connection = "persistent")
    /\ service = "idle" /\ has_client = FALSE /\ early = {}
    /\ supported \in BOOLEAN
    /\ restarts = 0 /\ id_stale = FALSE /\ stray = FALSE
    /\ fails = 0 /\ reqs = 0 /\ switches = 0 /\ sets = 0

-----------------------------------------------------------------------------
\* _on_demand and _on_demand_inner, for requests and for the polling loop.

\* async with _on_demand_lock: asyncio.Lock serves its waiters in order.
Queue(t) ==
    /\ task' = [task EXCEPT ![t] = "queued"]
    /\ lock_queue' = Append(lock_queue, t)

UsePersistent == Esp /\ esphome_api_connection = "persistent"

\* Mutated form: the next waiter is let in before the disconnect is through.
HasLockEarly(t) ==
    \/ Head(lock_queue) = t
    \/ Len(lock_queue) > 1 /\ lock_queue[2] = t /\ task[Head(lock_queue)] = "failed"

HasLock(t) == Head(lock_queue) = t

\* The lock is ours: choose the connector, begin to connect.  _get_esphome_connector
\* creates the shared connector, with a new client, when there is none.
Begin(t) ==
    /\ task[t] = "queued" /\ HasLock(t)
    /\ task' = [task EXCEPT ![t] = "connect"]
    /\ uses' = [uses EXCEPT ![t] = IF UsePersistent THEN "shared" ELSE "own"]
    /\ shared' = IF UsePersistent /\ shared = "none" THEN "closed" ELSE shared
    /\ leaked' = (leaked /\ ~(UsePersistent /\ shared = "none"))
    /\ UNCHANGED <<modeVars, loopVars, lock_queue, stray, serviceVars, bounds>>

\* connect_ble_only is through.  The shared connector's TCP connection stays; one
\* that was taken from ApiMode meanwhile has opened a connection of nobody's.  The
\* toilet accepts one BLE connection, so ServiceMode must not have it.
Connected(t) ==
    /\ task[t] = "connect" /\ supported /\ service # "up" /\ uses[t] # "cut"
    /\ task' = [task EXCEPT ![t] = "query"]
    /\ shared' = IF uses[t] = "shared" THEN "open" ELSE shared
    /\ uses' = [uses EXCEPT ![t] = IF @ = "detached" THEN "stray" ELSE @]
    /\ UNCHANGED <<modeVars, loopVars, lock_queue, leaked, stray, serviceVars, bounds>>

\* UnsupportedDeviceError, or a device whose one connection ServiceMode has: caught
\* like every other exception of the session.
Refused(t) ==
    /\ task[t] = "connect" /\ (~supported \/ service = "up") /\ uses[t] # "cut"
    /\ task' = [task EXCEPT ![t] = "failed"]
    /\ UNCHANGED <<modeVars, loopVars, uses, lock_queue, shared, leaked, stray, serviceVars,
                   bounds>>

\* The action's requests are answered.  They wait at the gate of send_request, and
\* the shared client keeps its gate from one session to the next.
QueryDone(t) ==
    /\ task[t] = "query" /\ uses[t] \notin {"cut", "hung"}
    /\ uses[t] = "shared" => ~leaked
    /\ task' = [task EXCEPT ![t] = "ok"]
    /\ UNCHANGED <<modeVars, loopVars, uses, lock_queue, shared, leaked, stray, serviceVars,
                   bounds>>

\* A failing connect, a timeout, or a write that raises inside send_request and so
\* leaves the gate of its client closed.
SessionFails(t) ==
    /\ fails < MaxFail
    /\ fails' = fails + 1
    /\ \/ /\ task[t] = "connect"
          /\ UNCHANGED leaked
       \/ /\ task[t] = "query" /\ uses[t] # "hung" /\ (uses[t] = "shared" => ~leaked)
          /\ leaked' \in {leaked, leaked \/ uses[t] = "shared"}
    /\ task' = [task EXCEPT ![t] = "failed"]
    /\ UNCHANGED <<modeVars, loopVars, uses, lock_queue, shared, stray, serviceVars, reqs,
                   switches, sets>>

\* A session whose connector was disconnected under it ends with an error.
CutFails(t) ==
    /\ task[t] \in {"connect", "query"} /\ uses[t] = "cut"
    /\ task' = [task EXCEPT ![t] = "failed"]
    /\ UNCHANGED <<modeVars, loopVars, uses, lock_queue, shared, leaked, stray, serviceVars,
                   bounds>>

\* A poll is over, with the count and the flag that it leaves.
PollLeaves(ok, count, fetched) ==
    /\ loop' = "sleep"
    /\ failures' = count
    /\ id_fetched' = fetched
    /\ restarts' = IF ok THEN 0 ELSE restarts
    /\ id_stale' = IF ok THEN id_stale /\ id_fetched ELSE TRUE
    /\ UNCHANGED first

\* Mutated form: a poll that succeeds after an outage keeps the identification.
PollEndsKeepsId(ok) ==
    PollLeaves(ok, IF ok THEN 0 ELSE OneMoreFailure, id_fetched \/ ok)

\* The rest of the loop's body: success closes the circuit, and after an outage the
\* identification is read again; every failure arrives as an HTTPException.
PollEnds(ok) ==
    PollLeaves(ok, IF ok THEN 0 ELSE OneMoreFailure, IF ok THEN failures = 0 ELSE id_fetched)

\* Mutated form: a failed session does not release the lock.
ReleasedIfOk(t) == IF task[t] = "ok" THEN Tail(lock_queue) ELSE lock_queue

\* The lock goes to the next waiter.
Released(t) == Tail(lock_queue)

\* The finally block, the release of the lock, and what the caller does then.  A
\* shared connector only drops BLE: a stray TCP connection stays open.
Close(t) ==
    /\ task[t] \in {"ok", "failed"}
    /\ task' = [task EXCEPT ![t] = "idle"]
    /\ lock_queue' = Released(t)
    /\ stray' = (stray \/ uses[t] = "stray")
    /\ IF t = Loop THEN PollEnds(task[t] = "ok") ELSE UNCHANGED loopVars
    /\ UNCHANGED <<modeVars, uses, shared, leaked, serviceVars, bounds>>

-----------------------------------------------------------------------------
\* _polling_loop.

\* Mutated form: _poll_wakeup is not cleared.
WokenStaysSet ==
    /\ loop = "sleep" /\ wakeup /\ ~(first /\ poll_on)
    /\ UNCHANGED vars

\* _poll_wakeup ends the sleep: clear it and sleep again with the new interval.
Woken ==
    /\ loop = "sleep" /\ wakeup /\ ~(first /\ poll_on)
    /\ wakeup' = FALSE
    /\ UNCHANGED <<ble_connection, esphome_api_connection, poll_on, shutdown, supported,
                   connection_allowed, loopVars, sessionVars, serviceVars, bounds>>

StartPoll == loop' = "poll" /\ Queue(Loop)

\* Mutated form: the ESP32 is restarted at every probe of an open circuit.
RestartDueAlways == Esp

\* The ESP32 is restarted when the circuit opens, not at the later probes.
RestartDue == failures = CIRCUIT_OPEN_THRESHOLD /\ Esp

\* The interval is over (the first poll does not wait for it): look at shutdown,
\* at the mode and at the circuit, in this order.
Elapsed ==
    /\ loop = "sleep" /\ poll_on /\ (first \/ ~wakeup)
    /\ first' = FALSE
    /\ \/ /\ shutdown
          /\ loop' = "ended"
          /\ UNCHANGED <<task, lock_queue>>
       \/ /\ ~shutdown /\ ble_connection # "on-demand"
          /\ UNCHANGED <<loop, task, lock_queue>>
       \/ /\ ~shutdown /\ ble_connection = "on-demand"
          /\ failures >= CIRCUIT_OPEN_THRESHOLD
          /\ loop' = IF RestartDue THEN "restart" ELSE "circuit"
          /\ UNCHANGED <<task, lock_queue>>
       \/ /\ ~shutdown /\ ble_connection = "on-demand"
          /\ failures < CIRCUIT_OPEN_THRESHOLD
          /\ StartPoll
    /\ UNCHANGED <<modeVars, failures, id_fetched, restarts, id_stale, uses, shared,
                   leaked, stray, serviceVars, bounds>>

\* _trigger_esphome_restart: the button may be missing or the ESP32 out of reach.
TriggerRestart ==
    /\ loop = "restart"
    /\ loop' = "circuit"
    /\ restarts' \in {restarts, restarts + 1}
    /\ UNCHANGED <<modeVars, first, failures, id_fetched, id_stale, sessionVars, serviceVars,
                   bounds>>

\* The 60 s of an open circuit are over; nothing is looked at again.
Probe ==
    /\ loop = "circuit"
    /\ StartPoll
    /\ UNCHANGED <<modeVars, first, failures, id_fetched, restarts, id_stale, uses, shared,
                   leaked, stray, serviceVars, bounds>>

\* The owner and the waiters of the lock but t.
Without(t) ==
    IF \E i \in 1..Len(lock_queue) : lock_queue[i] = t
    THEN [i \in 1..(Len(lock_queue) - 1) |->
            IF \E j \in 1..i : lock_queue[j] = t THEN lock_queue[i + 1] ELSE lock_queue[i]]
    ELSE lock_queue

\* ApiMode.run cancels the loop 5 s after the shutdown; a session's finally block
\* and the release of the lock are part of it.
CancelLoop ==
    /\ shutdown /\ loop # "ended"
    /\ loop' = "ended"
    /\ task' = [task EXCEPT ![Loop] = "idle"]
    /\ lock_queue' = Without(Loop)
    /\ UNCHANGED <<modeVars, first, failures, id_fetched, restarts, id_stale, uses, shared,
                   leaked, stray, serviceVars, bounds>>

-----------------------------------------------------------------------------
\* Requests.

\* run_command, get_status and the other endpoints open a session in on-demand mode.
\* In persistent mode they answer 503 while ServiceMode has no client; only
\* get_common_settings falls back to a session of its own then.
OpensSession(r) ==
    \/ ble_connection = "on-demand" /\ early' = early \ {r}
    \/ ble_connection = "persistent" /\ ~has_client /\ early' = early \cup {r}

Request(r) ==
    /\ ~shutdown /\ reqs < MaxReq
    /\ task[r] = "idle" /\ OpensSession(r)
    /\ Queue(r)
    /\ reqs' = reqs + 1
    /\ UNCHANGED <<modeVars, loopVars, uses, shared, leaked, stray, service, has_client,
                   fails, switches, sets>>

\* set_ble_connection: request_reconnect or request_disconnect of the service.
SetBleConnection(v) ==
    /\ ~shutdown /\ switches < MaxSwitch
    /\ ble_connection' = v
    /\ connection_allowed' = (v = "persistent")
    /\ switches' = switches + 1
    /\ UNCHANGED <<esphome_api_connection, poll_on, wakeup, shutdown, supported, loopVars,
                   sessionVars, serviceVars, fails, reqs, sets>>

\* MQTT connect goes to request_reconnect whatever the mode; do_connect of REST and
\* do_disconnect do nothing to the service in on-demand mode.
Connect ==
    /\ ~shutdown /\ switches < MaxSwitch
    /\ connection_allowed' = TRUE
    /\ switches' = switches + 1
    /\ UNCHANGED <<ble_connection, esphome_api_connection, poll_on, wakeup, shutdown, supported,
                   loopVars, sessionVars, serviceVars, fails, reqs, sets>>

DoDisconnect ==
    /\ ~shutdown /\ switches < MaxSwitch
    /\ ble_connection = "persistent"
    /\ connection_allowed' = FALSE
    /\ switches' = switches + 1
    /\ UNCHANGED <<ble_connection, esphome_api_connection, poll_on, wakeup, shutdown, supported,
                   loopVars, sessionVars, serviceVars, fails, reqs, sets>>

\* What becomes of a session at some stage when its connector is taken away.
Torn(stage) == CASE stage = "connect" /\ shared = "closed" -> "detached"
                 [] stage = "query" /\ leaked -> "hung"
                 [] OTHER -> "cut"

\* set_esphome_api_connection: going on-demand disconnects the shared connector and
\* forgets it, without the lock.  A session that is still opening its TCP connection
\* goes on with the forgotten connector; one that waits at the gate waits on; any
\* other one is cut off.
SetEsphomeApiConnection(v) ==
    /\ ~shutdown /\ sets < MaxSet
    /\ sets' = sets + 1
    /\ esphome_api_connection' = v
    /\ \/ /\ v = "on-demand" /\ shared # "none"
          /\ uses' = [t \in Task |->
                        IF uses[t] = "shared" /\ task[t] \in {"connect", "query"}
                        THEN Torn(task[t]) ELSE uses[t]]
          /\ shared' = "none"
          /\ leaked' = FALSE
       \/ /\ v = "persistent" \/ shared = "none"
          /\ UNCHANGED <<uses, shared, leaked>>
    /\ UNCHANGED <<ble_connection, poll_on, wakeup, shutdown, connection_allowed, supported,
                   loopVars, task, lock_queue, stray, serviceVars, fails, reqs, switches>>

SetPollInterval ==
    /\ ~shutdown /\ sets < MaxSet
    /\ poll_on' \in BOOLEAN
    /\ wakeup' = TRUE
    /\ sets' = sets + 1
    /\ UNCHANGED <<ble_connection, esphome_api_connection, shutdown, connection_allowed,
                   supported, loopVars, sessionVars, serviceVars, fails, reqs, switches>>

Shutdown ==
    /\ ~shutdown
    /\ shutdown' = TRUE
    /\ UNCHANGED <<ble_connection, esphome_api_connection, poll_on, wakeup,
                   connection_allowed, supported, loopVars, sessionVars, serviceVars, bounds>>

MayConnect == connection_allowed /\ ~shutdown

\* ServiceMode in brief: it connects when it is allowed to, with a client that it
\* keeps, and a session that is connecting is not called back when it no longer is.
ServiceStep ==
    /\ \/ /\ service = "idle" /\ MayConnect
          /\ service' = "connecting" /\ has_client' = TRUE
       \/ /\ service = "connecting" /\ \A t \in Task : task[t] \notin {"query", "ok"}
          /\ service' = "up" /\ UNCHANGED has_client
       \/ /\ service \in {"connecting", "up"}
          /\ service' = "idle" /\ UNCHANGED has_client
    /\ UNCHANGED <<modeVars, loopVars, sessionVars, early, bounds>>

-----------------------------------------------------------------------------
LoopStep == Woken \/ Elapsed \/ TriggerRestart \/ Probe \/ CancelLoop

SessionStep(t) ==
    Begin(t) \/ Connected(t) \/ Refused(t) \/ QueryDone(t) \/ CutFails(t) \/ Close(t)

Next ==
    \/ LoopStep \/ ServiceStep \/ Shutdown \/ SetPollInterval \/ Connect \/ DoDisconnect
    \/ \E t \in Task : SessionStep(t) \/ SessionFails(t)
    \/ \E r \in Req : Request(r)
    \/ \E v \in {"on-demand", "persistent"} : SetBleConnection(v) \/ SetEsphomeApiConnection(v)

Spec == Init /\ [][Next]_vars

\* The timers of the loop run out and every stage of a session is bounded, except
\* for the gate of send_request; the environment owes nothing.
FairSpec == Spec /\ WF_vars(LoopStep) /\ \A t \in Task : WF_vars(SessionStep(t))

-----------------------------------------------------------------------------
InSession(t) == task[t] \in {"connect", "query", "ok", "failed"}

\* Sessions keep apart: from the connect to the end of the disconnect a session holds
\* _on_demand_lock.  None finds the device occupied by ServiceMode ("No conflict is
\* possible in on-demand mode", polling-architecture.md 208) as long as nobody switches
\* the mode or sends the MQTT connect command, but for a get_common_settings that came
\* in persistent mode before ServiceMode had a client.  And a TCP connection that
\* nobody refers to is left open only by set_esphome_api_connection, which tears the
\* shared connector down without the lock.
SessionsApart ==
    /\ \A t \in Task : InSession(t) => lock_queue # <<>> /\ Head(lock_queue) = t
    /\ switches = 0 /\ service = "up" => \A t \in Task : InSession(t) => t \in early
    /\ stray => sets > 0

\* The invariant behind its first part: exactly the tasks that are not idle are in
\* line for the lock, each once, and those behind the first have not begun.
LineInv(line, stage) ==
    /\ line \in Seq(Task)
    /\ \A i, j \in 1..Len(line) : line[i] = line[j] => i = j
    /\ \A t \in Task : stage[t] # "idle" <=> \E i \in 1..Len(line) : line[i] = t
    /\ \A i \in 2..Len(line) : stage[line[i]] = "queued"

LockInv == LineInv(lock_queue, task)

\* Behind its second part: until somebody switches, ServiceMode leaves its rest only
\* in persistent mode, and sessions but the fallbacks are opened only in on-demand mode.
ModeInv ==
    /\ switches \in Nat
    /\ switches = 0 =>
          /\ connection_allowed = (ble_connection = "persistent")
          /\ service # "idle" => ble_connection = "persistent"
          /\ loop \in {"restart", "circuit"} => ble_connection = "on-demand"
          /\ \A t \in Task \ early : task[t] # "idle" => ble_connection = "on-demand"

\* Behind its third part: only a session whose connector was taken away while it was
\* connecting can open a TCP connection of nobody's.
StrayInv ==
    /\ uses \in [Task -> {"own", "shared", "cut", "hung", "detached", "stray"}]
    /\ sets \in Nat
    /\ stray \/ (\E t \in Task : uses[t] \in {"detached", "stray"}) => sets > 0

\* An outage makes the loop restart the ESP32 once at most, however many probes
\* fail and however the mode and the interval are switched meanwhile.
RestartedOnce == restarts <= 1

\* The invariant behind it: the restart belongs to the third failure, and the probe
\* that follows it moves the count on before the loop can come back.
RestartInv ==
    /\ loop \in {"sleep", "restart", "circuit", "poll", "ended"}
    /\ failures \in 0..FailureCap
    /\ restarts \in {0, 1}
    /\ task[Loop] # "idle" => loop = "poll"
    /\ loop = "restart" => failures = CIRCUIT_OPEN_THRESHOLD /\ restarts = 0
    /\ restarts = 1 => failures >= CIRCUIT_OPEN_THRESHOLD
    /\ restarts = 1 /\ loop = "sleep" => failures > CIRCUIT_OPEN_THRESHOLD
    /\ task \in [Task -> {"idle", "queued", "connect", "query", "ok", "failed"}]

\* When polls succeed again after an outage, the identification that was read before
\* it is not used on: the next poll reads it again.
IdentificationRefetched == failures = 0 /\ id_stale => ~id_fetched

\* A request waits for the lock only as long as the sessions before it take, unless
\* a failing write has closed the gate of the shared client, where the next session
\* waits with the lock in its hands.
RequestsServed ==
    \A r \in Req : task[r] = "queued" ~>
        task[r] = "idle" \/ shutdown \/ leaked \/ (\E t \in Task : uses[t] = "hung")

\* In on-demand mode with polling on, the loop comes to its next session, through
\* interval changes and open circuits.
PollsComeRound ==
    loop = "sleep" /\ ble_connection = "on-demand" /\ poll_on
      ~> task[Loop] = "queued" \/ ble_connection # "on-demand" \/ ~poll_on \/ shutdown
=============================================================================
