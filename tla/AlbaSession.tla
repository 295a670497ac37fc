---------------------------- MODULE AlbaSession ----------------------------
(***************************************************************************)
(* Sessions with an Alba above the encrypted channel: Ble20Client,         *)
(* AlbaBaseClient and AlbaClient of the bridge, the dispatch to AlbaClient *)
(* in main.py, and the device's application layer (_Ble20AppLayer).        *)
(*                                                                         *)
(* A Ble20Client has one _rx_queue and no lock.  Its calls write a request *)
(* and then take frames from the queue until one has the command byte they *)
(* wait for; no call compares the data point of the answer.  A frame here  *)
(* carries the number of the request it answers, which the code does not   *)
(* have: the properties use it to tell a stray answer.                     *)
(*                                                                         *)
(* mode "service" is the permanent session of ServiceMode (a new connector *)
(* for each session, polling and commands at once), "esphome" the sessions *)
(* of ApiMode with a persistent ESPHome connection (one connector and its  *)
(* client for all sessions, one action in each).                           *)
(***************************************************************************)
EXTENDS Integers, Sequences, FiniteSets

CONSTANTS
    MaxSessions,  \* bound: connections
    MaxActions,   \* bound: polls and commands
    MaxFaults     \* bound: answers later than the 30 s of RECV_TIMEOUT, frames lost

ASSUME AlbaAssumption ==
    MaxSessions \in Nat /\ MaxActions \in Nat /\ MaxFaults \in Nat

VARIABLES
    mode,
    stage,      \* of the session: down, dispatch (a new AlbaClient), again and twice
                \* (an old one, whose post_connect runs two times), ready, closing
    conn,       \* connections so far
    client,     \* the client held: 0 the Mera client, n the n-th AlbaClient
    made,       \* AlbaClients created
    handlers,   \* data_received_handlers of the connector
    inv,        \* AlbaClients that hold an inventory
    rxq,        \* _rx_queue of each AlbaClient
    last,       \* last_device_state_changed_event_args of each AlbaClient
    view,       \* the fields of device_state that have been published
    bypassed,   \* fields last published past the client of the session
    devType,    \* device_state["device_type"]
    prog,       \* what each task still has to do
    wait,       \* the call each task is in
    vals,       \* what the task's reads have returned
    cl,         \* the AlbaClient the task uses
    alive,      \* frames of this connection still decrypt
    toDev,      \* requests on their way; the channel keeps answers in order
    sit, status,  \* data points 607 and 564 of the device
    stops,      \* steps left of the wind-downs (_stop_sequence), one entry each
    known,      \* data points of the device
    events,     \* records of its event storage
    seen,       \* commands the device has seen on this connection
    reqs, actions, late, lost,
    overlapped, \* two calls of one client were under way at once
    cut,        \* a command has outlived its session
    stray,      \* a call has returned the answer to another one
    expired     \* a call has timed out with nothing under way

clientVars == <<client, made, handlers, inv, last, view, bypassed, devType>>
taskVars == <<prog, wait, vals, cl>>
deviceVars == <<sit, status, stops, known, events>>
ghostVars == <<overlapped, cut, stray, expired>>
vars == <<mode, stage, conn, clientVars, rxq, taskVars, alive, toDev, deviceVars,
          seen, reqs, actions, late, lost, ghostVars>>

Tasks == {"main", "cmd"}
Clients == 1..MaxSessions
Idle == [cmd |-> "none"]
NoArgs == [none |-> TRUE]

\* A call: its command, its data point, and what an exception in it leads to: the
\* next step of the program (caught) or the end of the program.
Call(cmd, dp, caught) == [cmd |-> cmd, dp |-> dp, caught |-> caught]

Busy(t) == wait[t] # Idle

Init ==
    /\ mode \in {"service", "esphome"}
    /\ stage = "down" /\ conn = 0 /\ client = 0 /\ made = 0 /\ handlers = <<0>>
    /\ inv = {} /\ rxq = [c \in Clients |-> <<>>] /\ last = [c \in Clients |-> NoArgs]
    /\ view = [k \in {} |-> FALSE] /\ bypassed = {} /\ devType = "unknown"
    /\ prog = [t \in Tasks |-> <<>>] /\ wait = [t \in Tasks |-> Idle]
    /\ vals = [t \in Tasks |-> [sit |-> 0, status |-> 0]] /\ cl = [t \in Tasks |-> 1]
    /\ alive = FALSE /\ toDev = <<>>
    /\ sit = 0 /\ status = 1 /\ stops = <<>>
    /\ \/ known = {"sit", "status"} /\ events = 0
       \/ known = {"status"} /\ events = 1
    /\ seen = {} /\ reqs = 0 /\ actions = 0 /\ late = 0 /\ lost = 0
    /\ overlapped = FALSE /\ cut = FALSE /\ stray = FALSE /\ expired = FALSE

-----------------------------------------------------------------------------
\* The programs.

\* Mutated form: nothing is sent when the inventory is cached.
PostConnectCached(c) ==
    IF c \in inv THEN <<>>
    ELSE <<Call("inventory", "all", FALSE), Call("caps", "none", TRUE),
           Call("storage", "none", TRUE), Call("read", "firmware", TRUE)>>

\* AlbaClient.post_connect: the inventory unless there is one, then capabilities,
\* event storage and firmware versions.
PostConnect(c) ==
    (IF c \in inv THEN <<>> ELSE <<Call("inventory", "all", FALSE)>>)
    \o <<Call("caps", "none", TRUE), Call("storage", "none", TRUE),
         Call("read", "firmware", TRUE)>>

\* poll_state, then the comparison in _state_changed_timer_elapsed.
PollState == <<Call("read", "sit", TRUE), Call("read", "status", TRUE),
               Call("publish", "none", FALSE)>>

\* toggle_anal_shower: the write depends on what was read.
ToggleAnalShower == <<Call("read", "status", TRUE), Call("write", "start", FALSE)>>

\* get_misc_state_async and its siblings: one read after the other, a failing one
\* leaves its field empty.  "other" is a data point this device does not have.
MiscState == <<Call("read", "other", TRUE), Call("read", "sit", TRUE)>>

\* write_dp_async and the commands that write one data point.
WriteDp == <<Call("write", "other", FALSE)>>

\* get_user_sitting_state, get_anal_shower_state: the whole poll_state for one field,
\* which is published past the client's last poll.
ShowState(field) == <<Call("read", "sit", TRUE), Call("read", "status", TRUE),
                      Call("publish", field, FALSE)>>

Fields == {"sit", "shower"}

Programs == {PollState, ToggleAnalShower, MiscState, WriteDp} \cup {ShowState(k) : k \in Fields}

-----------------------------------------------------------------------------
\* Sessions.

\* The Mera client has registered its handler before any AlbaClient.
WithoutMera(hs) == IF hs # <<>> /\ Head(hs) = 0 THEN Tail(hs) ELSE hs

\* Mutated form: the frame handler of the Mera client stays registered.
KeepsMera(hs) == hs

\* _dispatch_to_alba_if_needed takes the Mera client's handler away; "-=" on a
\* handler that is gone is caught.
Unregistered(hs) == WithoutMera(hs)

\* connect(), connect_ble_only() and _dispatch_to_alba_if_needed.  A client that is
\* an AlbaClient already runs post_connect itself; the dispatch then does it again.
\* The device begins with a fresh store; the user has sat down or left
\* (_user_sitting).
Open ==
    /\ stage = "down" /\ conn < MaxSessions
    /\ prog["main"] = <<>> /\ ~Busy("main")
    /\ conn' = conn + 1
    /\ alive' = TRUE /\ sit' = 1 - sit /\ status' = 2 - sit
    /\ \/ /\ mode = "esphome" /\ client # 0
          /\ stage' = "again"
          /\ prog' = [prog EXCEPT !["main"] = PostConnect(client)]
          /\ cl' = [cl EXCEPT !["main"] = client]
          /\ UNCHANGED <<client, made, handlers>>
       \/ /\ mode = "service" \/ client = 0
          /\ stage' = "dispatch"
          /\ made' = made + 1
          /\ handlers' = Append(Unregistered(IF mode = "service" THEN <<0>> ELSE handlers),
                                made + 1)
          /\ client' = 0
          /\ prog' = [prog EXCEPT !["main"] = PostConnect(made + 1)]
          /\ cl' = [cl EXCEPT !["main"] = made + 1]
    /\ UNCHANGED <<mode, inv, last, view, bypassed, devType, rxq, wait, vals, toDev, stops,
                   known, events, seen, reqs, actions, late, lost, ghostVars>>

\* post_connect has ended.  device_type says "alba" only when the client was swapped.
Dispatched ==
    /\ stage \in {"dispatch", "again"} /\ prog["main"] = <<>> /\ ~Busy("main")
    /\ \/ /\ stage = "again"
          /\ stage' = "twice"
          /\ prog' = [prog EXCEPT !["main"] = PostConnect(client)]
          /\ UNCHANGED <<client, devType>>
       \/ /\ stage = "dispatch"
          /\ stage' = "ready" /\ client' = cl["main"] /\ devType' = "alba"
          /\ UNCHANGED prog
    /\ UNCHANGED <<mode, conn, made, handlers, inv, last, view, bypassed, rxq, wait, vals, cl,
                   alive, toDev, deviceVars, seen, reqs, actions, late, lost, ghostVars>>

DispatchedAgain ==
    /\ stage = "twice" /\ prog["main"] = <<>> /\ ~Busy("main")
    /\ stage' = "ready" /\ devType' = "mera"
    /\ UNCHANGED <<mode, conn, client, made, handlers, inv, last, view, bypassed, rxq,
                   taskVars, alive, toDev, deviceVars, seen, reqs, actions, late, lost,
                   ghostVars>>

\* A poll of start_polling or a command of the web UI or MQTT; the action of an
\* on-demand session.
Start(t, p) ==
    /\ stage = "ready" /\ prog[t] = <<>> /\ ~Busy(t) /\ actions < MaxActions
    /\ \/ mode = "service" /\ (t = "main" => p = PollState)
       \/ mode = "esphome" /\ t = "main"
    /\ prog' = [prog EXCEPT ![t] = p]
    /\ cl' = [cl EXCEPT ![t] = client]
    /\ vals' = [vals EXCEPT ![t] = [sit |-> 0, status |-> 0]]
    /\ actions' = actions + 1
    /\ stage' = IF mode = "esphome" THEN "closing" ELSE stage
    /\ UNCHANGED <<mode, conn, clientVars, rxq, wait, alive, toDev, deviceVars, seen,
                   reqs, late, lost, ghostVars>>

\* The session ends: its action is done or has failed, or it is disconnected, which
\* cancels the poll.  Nothing ends a command of the web UI or MQTT.
Close ==
    /\ \/ stage = "closing" /\ prog["main"] = <<>> /\ ~Busy("main")
       \/ stage = "ready" /\ mode = "service"
    /\ stage' = "down"
    /\ prog' = [prog EXCEPT !["main"] = <<>>]
    /\ wait' = [wait EXCEPT !["main"] = Idle]
    /\ cut' = (cut \/ Busy("cmd") \/ prog["cmd"] # <<>>)
    /\ alive' = FALSE /\ toDev' = <<>> /\ seen' = {} /\ stops' = <<>>
    /\ UNCHANGED <<mode, conn, clientVars, rxq, vals, cl, sit, status, known, events, reqs,
                   actions, late, lost, overlapped, stray, expired>>

-----------------------------------------------------------------------------
\* The calls of Ble20Client.

\* The connector of the task's client is connected.
Connected(t) == stage # "down" /\ (mode = "service" => cl[t] = made)

\* A call begins: its request is written, also when nobody will read it.
Send(t) ==
    /\ ~Busy(t) /\ prog[t] # <<>> /\ Head(prog[t]).cmd # "publish"
    /\ Connected(t)
    /\ LET call == Head(prog[t])
           val == IF call.dp = "start" /\ vals[t].status >= 3 THEN 0 ELSE 1
           req == [cmd |-> call.cmd, dp |-> call.dp, val |-> val, id |-> reqs + 1]
       IN  /\ wait' = [wait EXCEPT ![t] =
                         [cmd |-> call.cmd, dp |-> call.dp, id |-> reqs + 1, left |-> 0,
                          caught |-> call.caught]]
           /\ toDev' = IF alive THEN Append(toDev, req) ELSE toDev
    /\ reqs' = reqs + 1
    /\ prog' = [prog EXCEPT ![t] = Tail(@)]
    /\ overlapped' = (overlapped \/ \E o \in Tasks \ {t} : Busy(o) /\ cl[o] = cl[t])
    /\ UNCHANGED <<mode, stage, conn, clientVars, rxq, vals, cl, alive, deviceVars,
                   seen, actions, late, lost, cut, stray, expired>>

\* The write of a command whose session is over raises.
SendFails(t) ==
    /\ ~Busy(t) /\ prog[t] # <<>> /\ Head(prog[t]).cmd # "publish"
    /\ ~Connected(t)
    /\ prog' = [prog EXCEPT ![t] = IF Head(@).caught THEN Tail(@) ELSE <<>>]
    /\ UNCHANGED <<mode, stage, conn, clientVars, rxq, wait, vals, cl, alive, toDev,
                   deviceVars, seen, reqs, actions, late, lost, ghostVars>>

\* _on_data of every client whose handler is registered; process_data of the Mera
\* client raises, so the handlers behind it are not called.  What a client that no
\* task uses keeps in its queue is left out.
Receives(c) ==
    \E i \in DOMAIN handlers : handlers[i] = c /\ \A j \in 1..i : handlers[j] # 0

OnData(fs) ==
    rxq' = [c \in Clients |->
              IF Receives(c) /\ (c = client \/ \E t \in Tasks : cl[t] = c)
              THEN rxq[c] \o fs ELSE rxq[c]]

\* The command bytes a call waits for; other frames are skipped.
Accepts(w, f) ==
    CASE w.cmd = "read"      -> f.cmd \in {"readAns", "readError"}
      [] w.cmd = "write"     -> f.cmd \in {"writeAck", "writeError"}
      [] w.cmd = "caps"      -> f.cmd = "capsAck"
      [] w.cmd = "inventory" -> f.cmd = (IF w.left = 0 THEN "invCount" ELSE "invData")
      [] w.cmd = "storage"   -> f.cmd \in {"storCount", "storData"}

\* Frames still to come after f: the inventory counts to what was announced, the
\* event storage counts down from it.
Left(w, f) ==
    CASE f.cmd \in {"invCount", "storCount"} -> f.val
      [] f.cmd \in {"invData", "storData"}   -> w.left - 1
      [] OTHER -> 0

\* What ends a call: the value it returns is kept, an exception ends the program
\* unless it is caught.
Ended(t, failed) ==
    /\ wait' = [wait EXCEPT ![t] = Idle]
    /\ prog' = IF failed /\ ~wait[t].caught THEN [prog EXCEPT ![t] = <<>>] ELSE prog
    /\ stage' = IF failed /\ ~wait[t].caught /\ t = "main" THEN "closing" ELSE stage

\* A call takes a frame.  Of several calls that wait, the queue wakes the first, and
\* one that arrives in between may be quicker.
Take(t) ==
    /\ Busy(t) /\ rxq[cl[t]] # <<>>
    /\ LET w == wait[t]
           f == Head(rxq[cl[t]])
           done == Accepts(w, f) /\ Left(w, f) <= 0
       IN  /\ \/ /\ ~Accepts(w, f)
                 /\ UNCHANGED <<stage, wait, prog>>
              \/ /\ Accepts(w, f) /\ ~done
                 /\ wait' = [wait EXCEPT ![t].left = Left(w, f)]
                 /\ UNCHANGED <<stage, prog>>
              \/ done /\ Ended(t, f.cmd \in {"readError", "writeError"})
           /\ vals' = IF done /\ w.cmd = "read" /\ w.dp \in {"sit", "status"}
                      THEN [vals EXCEPT ![t][w.dp] = IF f.cmd = "readAns" THEN f.val ELSE 0]
                      ELSE vals
           /\ inv' = IF done /\ w.cmd = "inventory" THEN inv \cup {cl[t]} ELSE inv
           /\ stray' = (stray \/ (Accepts(w, f) /\ f.id # w.id))
           /\ rxq' = [rxq EXCEPT ![cl[t]] = Tail(@)]
    /\ UNCHANGED <<mode, conn, client, made, handlers, last, view, bypassed, devType, cl, alive,
                   toDev, deviceVars, seen, reqs, actions, late, lost, overlapped, cut, expired>>

\* Mutated form: only read has a timeout.
ExpireRead(t) ==
    /\ Busy(t) /\ wait[t].cmd = "read"
    /\ rxq[cl[t]] = <<>> /\ toDev = <<>>
    /\ expired' = TRUE /\ Ended(t, TRUE)
    /\ UNCHANGED <<mode, conn, clientVars, rxq, vals, cl, alive, toDev, deviceVars, seen,
                   reqs, actions, late, lost, overlapped, cut, stray>>

\* RECV_TIMEOUT: 30 s are longer than any exchange, unless the device is late.
Expire(t) ==
    /\ Busy(t)
    /\ \/ /\ rxq[cl[t]] = <<>> /\ toDev = <<>>
          /\ expired' = TRUE /\ UNCHANGED late
       \/ /\ rxq[cl[t]] = <<>> /\ late + lost < MaxFaults
          /\ late' = late + 1 /\ UNCHANGED expired
    /\ Ended(t, TRUE)
    /\ UNCHANGED <<mode, conn, clientVars, rxq, vals, cl, alive, toDev, deviceVars,
                   seen, reqs, actions, lost, overlapped, cut, stray>>

-----------------------------------------------------------------------------
\* Publication.

\* The arguments of DeviceStateChanged: any status but 0 counts as running.
Args(t) == [sit |-> vals[t].sit # 0, shower |-> vals[t].status # 0]

\* get_system_parameter_list_async: from 3 on the shower is active.
SystemParameters(t) == [sit |-> vals[t].sit # 0, shower |-> vals[t].status >= 3]

\* Mutated form: only what has become true is published.
PublishedOnly(prev, args) ==
    IF prev = NoArgs THEN DOMAIN args ELSE {k \in DOMAIN args : args[k] /\ ~prev[k]}

\* The fields of a DeviceStateChanged event that are not None.
Published(prev, args) ==
    IF prev = NoArgs THEN DOMAIN args ELSE {k \in DOMAIN args : args[k] # prev[k]}

\* The fields ks become those of args.
Shown(ks, args) == [k \in DOMAIN view \cup ks |-> IF k \in ks THEN args[k] ELSE view[k]]

\* The end of _state_changed_timer_elapsed and on_device_state_changed, of _fetch_state,
\* which an on-demand session ends with, or of the fetch of one field; nothing suspends
\* between the comparison and the assignment, or the assignment and the message.
Publish(t) ==
    /\ ~Busy(t) /\ prog[t] # <<>> /\ Head(prog[t]).cmd = "publish"
    /\ LET field == Head(prog[t]).dp
           ks == Published(last[cl[t]], Args(t))
       IN  \/ /\ field = "none" /\ mode = "service"
              /\ view' = Shown(ks, Args(t))
              /\ last' = [last EXCEPT ![cl[t]] = Args(t)]
              /\ bypassed' = IF cl[t] = client THEN bypassed \ ks ELSE bypassed \cup ks
           \/ /\ field = "none" /\ mode = "esphome"
              /\ view' = SystemParameters(t)
              /\ UNCHANGED <<last, bypassed>>
           \/ /\ field # "none"
              /\ view' = Shown({field}, SystemParameters(t))
              /\ bypassed' = bypassed \cup {field}
              /\ UNCHANGED last
    /\ prog' = [prog EXCEPT ![t] = Tail(@)]
    /\ UNCHANGED <<mode, stage, conn, client, made, handlers, inv, devType, rxq, wait, vals,
                   cl, alive, toDev, deviceVars, seen, reqs, actions, late, lost,
                   ghostVars>>

-----------------------------------------------------------------------------
\* The device.

Value(dp) == CASE dp = "sit" -> sit [] dp = "status" -> status [] OTHER -> 0

Frame(cmd, r, val) == [cmd |-> cmd, id |-> r.id, val |-> val]

\* The frames _dispatch_sync answers a request with.
Answer(r) ==
    CASE r.cmd = "inventory" ->
            <<Frame("invCount", r, Cardinality(known))>>
            \o [i \in 1..Cardinality(known) |-> Frame("invData", r, i)]
      [] r.cmd = "caps"    -> <<Frame("capsAck", r, 0)>>
      [] r.cmd = "storage" -> <<Frame("storCount", r, events)>>
                              \o [i \in 1..events |-> Frame("storData", r, i)]
      [] r.cmd = "write"   -> <<Frame(IF r.dp = "start" THEN "writeAck" ELSE "writeError", r, 0)>>
      [] r.cmd = "read"    ->
            IF r.dp \in known \cup {"firmware"}
            THEN <<Frame("readAns", r, Value(r.dp))>> ELSE <<Frame("readError", r, 0)>>

\* dispatch: one request; starting the shower shows at once, stopping it begins a
\* wind-down of its own.
Dispatch ==
    /\ toDev # <<>>
    /\ LET r == Head(toDev) IN
        /\ OnData(Answer(r))
        /\ status' = IF r.dp = "start" /\ r.val = 1 THEN 5 ELSE status
        /\ stops' = IF r.dp = "start" /\ r.val = 0 THEN Append(stops, <<6, 7, 2>>) ELSE stops
        /\ seen' = seen \cup {r.cmd}
    /\ toDev' = Tail(toDev)
    /\ UNCHANGED <<mode, stage, conn, clientVars, taskVars, alive, sit, known, events, reqs,
                   actions, late, lost, ghostVars>>

\* _stop_sequence: 6 (retracting), 7 (postrinsing), 2 (ready).
StopSequence ==
    \E i \in DOMAIN stops :
        /\ status' = Head(stops[i])
        /\ stops' = IF Len(stops[i]) > 1 THEN [stops EXCEPT ![i] = Tail(@)]
                    ELSE SubSeq(stops, 1, i - 1) \o SubSeq(stops, i + 1, Len(stops))
        /\ UNCHANGED <<mode, stage, conn, clientVars, rxq, taskVars, alive, toDev, sit,
                       known, events, seen, reqs, actions, late, lost, ghostVars>>

\* A frame is lost: no later frame of the connection decrypts (AriendiLink).
Lose ==
    /\ alive /\ late + lost < MaxFaults
    /\ alive' = FALSE /\ toDev' = <<>>
    /\ lost' = lost + 1
    /\ UNCHANGED <<mode, stage, conn, clientVars, rxq, taskVars, deviceVars, seen, reqs,
                   actions, late, ghostVars>>

Step(t) == \/ Send(t) \/ SendFails(t) \/ Take(t) \/ Publish(t) \/ Expire(t)
Progress == \/ Dispatched \/ DispatchedAgain \/ Close \/ Dispatch

Next ==
    \/ Open \/ Progress
    \/ \E t \in Tasks : Step(t)
    \/ \E t \in Tasks, p \in Programs : Start(t, p)
    \/ StopSequence \/ Lose

\* The event loop runs every task that can go on, and the device answers.
Spec ==
    /\ Init /\ [][Next]_vars
    /\ WF_vars(Progress) /\ \A t \in Tasks : WF_vars(Step(t))

-----------------------------------------------------------------------------
\* Every call gets the answer to itself.  It returns another one only after two calls
\* of one client were under way at once, or one has timed out whose answer came later:
\* over as many sessions as one Ble20Client lives, nothing else leaves a frame behind
\* that a later call would take for its own.  And it waits out its 30 s only when
\* disturbed in such a way, when the answer is lost or when its session ends first: no
\* registered handler keeps the answer from it.
OwnAnswers ==
    /\ stray => overlapped \/ late > 0
    /\ expired => overlapped \/ cut \/ late > 0 \/ lost > 0

\* On every connection the device has been asked for capabilities and event storage
\* before the first data point of an action is read or written, with a cached
\* inventory too; without both the device drops its remote control.
InitialisedFirst ==
    \A i \in DOMAIN toDev :
        toDev[i].dp \in {"sit", "status", "start"} =>
            {"caps", "storage"} \subseteq seen \cup {toDev[j].cmd : j \in 1..i}

\* What the published changes add up to is, field by field, the state of the last poll of
\* the session's client, from its first poll on: over new clients and sessions, polls of
\* two tasks at once, and a request of an earlier session that still polls its old
\* client.  Apart are the fields last published by such a request or by a read of one
\* field: the client's later polls see no change to correct.
ViewIsLast ==
    client # 0 /\ last[client] # NoArgs =>
        \A k \in Fields \ bypassed : k \in DOMAIN view /\ view[k] = last[client][k]

-----------------------------------------------------------------------------
\* The inductive invariant behind InitialisedFirst and ViewIsLast.

Calls == [cmd : {"inventory", "caps", "storage", "read", "write", "publish"},
          dp : {"all", "none", "firmware", "sit", "shower", "status", "start", "other"},
          caught : BOOLEAN]
Requests == [cmd : {"inventory", "caps", "storage", "read", "write"},
             dp : {"all", "none", "firmware", "sit", "shower", "status", "start", "other"},
             val : {0, 1}, id : Nat]
ViewArgs == [sit : BOOLEAN, shower : BOOLEAN]

PostConnecting == stage \in {"dispatch", "again", "twice"}

SessionTypeOK ==
    /\ mode \in {"service", "esphome"}
    /\ stage \in {"down", "dispatch", "again", "twice", "ready", "closing"}
    /\ conn \in 0..MaxSessions /\ made \in 0..conn /\ client \in 0..made
    /\ last \in [Clients -> ViewArgs \cup {NoArgs}]
    /\ prog \in [Tasks -> Seq(Calls)] /\ cl \in [Tasks -> Nat] /\ toDev \in Seq(Requests)
    /\ DOMAIN wait = Tasks
    /\ alive \in BOOLEAN /\ reqs \in Nat

\* What a task has still to do.
Publishes(t) == \E i \in 1..Len(prog[t]) : prog[t][i].cmd = "publish"
Acts(t) == \E i \in 1..Len(prog[t]) : prog[t][i].dp \in {"sit", "status", "start"}

\* Commands the device has been sent on this connection, and the ones to come.
Asked == seen \cup {toDev[j].cmd : j \in 1..Len(toDev)}
Pending == {prog["main"][i].cmd : i \in 1..Len(prog["main"])}

\* A task uses a client that has been made, post_connect runs on the session's client,
\* publishes nothing and reads no data point of an action, and a command of an earlier
\* session has its old client.
ClientInv ==
    /\ \A t \in Tasks : prog[t] # <<>> => cl[t] \in 1..made
    /\ \A c \in Clients : c > made => last[c] = NoArgs
    /\ mode = "esphome" => prog["cmd"] = <<>> /\ \A c \in Clients : last[c] = NoArgs
    /\ stage = "down" => prog["main"] = <<>> /\ wait["main"] = Idle
    /\ stage \in {"again", "twice", "ready"} => client # 0
    /\ PostConnecting =>
          /\ cl["main"] \in 1..made /\ (mode = "service" => cl["main"] = made)
          /\ ~Publishes("main") /\ ~Acts("main")
          /\ prog["cmd"] # <<>> => cl["cmd"] # made

\* A new client has not published yet.
ViewInv ==
    /\ stage = "dispatch" => last[cl["main"]] = NoArgs
    /\ ViewIsLast

\* Who may read or write a data point of an action on a live connection has asked for
\* capabilities and event storage before; post_connect asks for what is missing.
AskInv ==
    /\ ~alive => toDev = <<>>
    /\ alive => /\ PostConnecting => {"caps", "storage"} \subseteq Asked \cup Pending
                /\ stage = "ready" => {"caps", "storage"} \subseteq Asked
                /\ \A t \in Tasks :
                      Acts(t) /\ Connected(t) => {"caps", "storage"} \subseteq Asked

AlbaInv == SessionTypeOK /\ ClientInv /\ ViewInv /\ AskInv /\ InitialisedFirst

-----------------------------------------------------------------------------
\* The inductive invariant behind OwnAnswers.

Waits == [cmd : {"inventory", "caps", "storage", "read", "write"},
          dp : {"all", "none", "firmware", "sit", "shower", "status", "start", "other"},
          id : Nat, left : Nat, caught : BOOLEAN]
Frames == [cmd : {"invCount", "invData", "capsAck", "storCount", "storData", "readAns",
                  "readError", "writeAck", "writeError"}, id : Nat, val : Int]
WindDowns == {<<6, 7, 2>>, <<7, 2>>, <<2>>}

ExchangeTypeOK ==
    /\ wait \in [Tasks -> Waits \cup {Idle}] /\ rxq \in [Clients -> Seq(Frames)]
    /\ sit \in Int /\ status \in Int /\ stops \in Seq(WindDowns)
    /\ IsFiniteSet(known) /\ events \in Nat /\ late \in Nat /\ lost \in Nat
    /\ overlapped \in BOOLEAN /\ cut \in BOOLEAN /\ stray \in BOOLEAN

\* The frames of a connection reach the AlbaClient made last, and nobody else who waits.
HandlersInv ==
    /\ handlers \in Seq(0..made)
    /\ made = 0 => handlers = <<0>>
    /\ made > 0 => /\ \A i \in DOMAIN handlers : handlers[i] # 0
                   /\ \E i \in DOMAIN handlers : handlers[i] = made
                   /\ mode = "service" => handlers = <<made>>

\* That one is the client of the session; a call on another has outlived its own.
NewestInv ==
    /\ client \in {0, made}
    /\ stage = "down" => ~alive
    /\ stage # "down" => made > 0 /\ (alive \/ lost > 0)
    /\ PostConnecting \/ Busy("main") \/ prog["main"] # <<>> => cl["main"] = made
    /\ mode = "esphome" => ~Busy("cmd")
    /\ \A t \in Tasks : Busy(t) => /\ cl[t] \in 1..made
                                   /\ cl[t] # made \/ stage = "down" => cut

\* Two calls of one client have never been under way at once, no answer was late.
Calm == ~overlapped /\ late = 0

\* The frames q are what the call w is still to take, all of it.
Counts(w) == IF w.cmd = "inventory" THEN "invCount" ELSE "storCount"
Records(w) == IF w.cmd = "inventory" THEN "invData" ELSE "storData"
Whole(w, q) ==
    /\ q # <<>> /\ \A i \in DOMAIN q : q[i].id = w.id
    /\ IF w.cmd \in {"inventory", "storage"}
       THEN /\ w.left = 0 => q[1].cmd = Counts(w) /\ q[1].val = Len(q) - 1
            /\ w.left > 0 => q[1].cmd = Records(w) /\ w.left = Len(q)
            /\ \A i \in 2..Len(q) : q[i].cmd = Records(w)
       ELSE /\ Len(q) = 1 /\ Accepts(w, q[1])
            /\ q[1].cmd \notin {"invCount", "invData", "storCount", "storData"}

\* At most one call is under way at a client, and either its request or its whole
\* answer is, unless a frame was lost or the session was over; when none is, nothing
\* is left for the next one.
Asking(t) ==
    /\ Busy(t) /\ cl[t] = made /\ rxq[made] = <<>> /\ wait[t].left = 0
    /\ Len(toDev) = 1 /\ toDev[1].id = wait[t].id /\ toDev[1].cmd = wait[t].cmd
Waiting(t) ==
    \/ Asking(t)
    \/ Whole(wait[t], rxq[cl[t]])
    \/ rxq[cl[t]] = <<>> /\ (lost > 0 \/ cut)
ExchangeInv ==
    /\ \A t, o \in Tasks : Busy(t) /\ Busy(o) /\ cl[t] = cl[o] => t = o
    /\ \A t \in Tasks : Busy(t) => Waiting(t)
    /\ toDev # <<>> => \E t \in Tasks : Asking(t)
    /\ /\ made > 0 /\ (stage # "down" \/ mode = "esphome")
       /\ \A t \in Tasks : Busy(t) => cl[t] # made
       => rxq[made] = <<>>
    /\ \A c \in Clients : c > made => rxq[c] = <<>>

AnswerInv ==
    ExchangeTypeOK /\ HandlersInv /\ NewestInv /\ (Calm => ExchangeInv) /\ OwnAnswers

-----------------------------------------------------------------------------
\* Every call comes to an end.
CallsEnd == \A t \in Tasks : Busy(t) ~> ~Busy(t)
=============================================================================
