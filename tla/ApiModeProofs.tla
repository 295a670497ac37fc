--------------------------- MODULE ApiModeProofs ---------------------------
(***************************************************************************)
(* The circuit breaker of _polling_loop and the exclusion of on-demand     *)
(* sessions, for every set of requests and every bound.                    *)
(***************************************************************************)
EXTENDS ApiMode, TLAPS

\* The polling loop's task is one of the tasks.
LEMMA LoopIsTask == Loop \in Task
BY DEF Task

\* The loop starts asleep, with no failure counted.
LEMMA InitRestart == Init => RestartInv
BY LoopIsTask DEF Init, RestartInv, FailureCap, CIRCUIT_OPEN_THRESHOLD

\* Steps that leave the loop's place and its counters alone, and do not wake its
\* session up from "idle", preserve the invariant.
LEMMA FrameRestart ==
    ASSUME RestartInv, UNCHANGED <<loop, failures, restarts>>,
           task' \in [Task -> {"idle", "queued", "connect", "query", "ok", "failed"}],
           task[Loop] = "idle" => task'[Loop] = "idle"
    PROVE  RestartInv'
BY DEF RestartInv, FailureCap, CIRCUIT_OPEN_THRESHOLD

\* The stages of a session.
LEMMA SessionRestart ==
    ASSUME RestartInv, NEW t \in Task,
           Begin(t) \/ Connected(t) \/ Refused(t) \/ QueryDone(t) \/ CutFails(t)
             \/ SessionFails(t)
    PROVE  RestartInv'
<1>1. UNCHANGED <<loop, failures, restarts>> /\ task[t] # "idle"
      BY DEF Begin, Connected, Refused, QueryDone, CutFails, SessionFails, loopVars
<1>2. PICK s \in {"connect", "query", "ok", "failed"} : task' = [task EXCEPT ![t] = s]
      BY DEF Begin, Connected, Refused, QueryDone, CutFails, SessionFails
<1>3. /\ task' \in [Task -> {"idle", "queued", "connect", "query", "ok", "failed"}]
      /\ task[Loop] = "idle" => task'[Loop] = "idle"
      BY <1>1, <1>2, LoopIsTask DEF RestartInv
<1> QED BY <1>1, <1>3, FrameRestart

\* The end of a session: a poll that failed moves the count past the threshold, one
\* that succeeded clears count and restarts together.
LEMMA CloseRestart == ASSUME RestartInv, NEW t \in Task, Close(t) PROVE RestartInv'
<1>1. /\ task' \in [Task -> {"idle", "queued", "connect", "query", "ok", "failed"}]
      /\ task'[t] = "idle"
      BY DEF Close, RestartInv
<1>2. CASE t = Loop
      <2>1. task'[Loop] = "idle" /\ loop = "poll"
            BY <1>1, <1>2 DEF Close, RestartInv
      <2>2. PollEnds(task[t] = "ok")
            BY <1>2 DEF Close
      <2> QED BY <1>1, <2>1, <2>2
              DEF PollEnds, PollLeaves, OneMoreFailure, RestartInv, FailureCap, CIRCUIT_OPEN_THRESHOLD
<1>3. CASE t # Loop
      <2>1. task'[Loop] = task[Loop]
            BY <1>3, LoopIsTask DEF Close, RestartInv
      <2>2. UNCHANGED <<loop, failures, restarts>>
            BY <1>3 DEF Close, loopVars
      <2> QED BY <1>1, <2>1, <2>2, FrameRestart
<1> QED BY <1>2, <1>3

\* The steps of the loop itself.
LEMMA LoopRestart == RestartInv /\ LoopStep => RestartInv'
<1> SUFFICES ASSUME RestartInv, LoopStep PROVE RestartInv'
    OBVIOUS
<1> USE LoopIsTask DEF RestartInv, FailureCap, CIRCUIT_OPEN_THRESHOLD
<1>1. CASE Woken
      BY <1>1 DEF Woken, loopVars, sessionVars
<1>2. CASE Elapsed
      <2>1. UNCHANGED <<failures, restarts>> /\ loop = "sleep"
            BY <1>2 DEF Elapsed
      <2>2. CASE UNCHANGED task
            BY <1>2, <2>1, <2>2 DEF Elapsed, RestartDue, StartPoll, Queue
      <2>3. CASE StartPoll
            BY <2>1, <2>3 DEF StartPoll, Queue
      <2> QED BY <1>2, <2>2, <2>3 DEF Elapsed, RestartDue
<1>3. CASE TriggerRestart
      BY <1>3 DEF TriggerRestart, sessionVars
<1>4. CASE Probe
      BY <1>4 DEF Probe, StartPoll, Queue
<1>5. CASE CancelLoop
      BY <1>5 DEF CancelLoop
<1> QED BY <1>1, <1>2, <1>3, <1>4, <1>5 DEF LoopStep

\* Requests and the service: a request queues a task that is not the loop's.
LEMMA OthersRestart ==
    ASSUME RestartInv,
           \/ ServiceStep \/ Shutdown \/ SetPollInterval \/ Connect \/ DoDisconnect
           \/ \E r \in Req : Request(r)
           \/ \E v \in {"on-demand", "persistent"} :
                 SetBleConnection(v) \/ SetEsphomeApiConnection(v)
           \/ UNCHANGED vars
    PROVE  RestartInv'
<1>1. UNCHANGED <<loop, failures, restarts>>
      BY DEF ServiceStep, Shutdown, SetPollInterval, Connect, DoDisconnect, Request,
             SetBleConnection, SetEsphomeApiConnection, vars, loopVars
<1>2. CASE \E r \in Req : Request(r)
      <2>1. PICK r \in Req : task' = [task EXCEPT ![r] = "queued"]
            BY <1>2 DEF Request, Queue
      <2>2. r \in Task /\ r # Loop
            BY ApiAssumption DEF Task
      <2> QED BY <1>1, <2>1, <2>2, LoopIsTask, FrameRestart DEF RestartInv
<1>3. CASE UNCHANGED task
      BY <1>1, <1>3, FrameRestart DEF RestartInv
<1> QED BY <1>2, <1>3 DEF ServiceStep, Shutdown, SetPollInterval, Connect, DoDisconnect,
             SetBleConnection, SetEsphomeApiConnection, vars, sessionVars

\* Every step preserves the invariant.
LEMMA StepRestart == RestartInv /\ [Next]_vars => RestartInv'
BY SessionRestart, CloseRestart, LoopRestart, OthersRestart DEF Next, SessionStep

\* _polling_loop restarts the ESP32 at most once between two good polls (main.py
\* 2795-2800), for any interleaving with requests, switches and other sessions.
THEOREM RestartAtMostOnce == Spec => []RestartedOnce
<1>1. RestartInv => RestartedOnce
      BY DEF RestartInv, RestartedOnce
<1> QED BY <1>1, InitRestart, StepRestart, PTL DEF Spec

\* One step keeps IdentificationRefetched: only the end of a poll touches what it is
\* about, and a success after an outage forgets that the identification was read.
LEMMA StepIdentification ==
    RestartInv /\ IdentificationRefetched /\ [Next]_vars => IdentificationRefetched'
<1> SUFFICES ASSUME RestartInv, IdentificationRefetched, [Next]_vars
             PROVE  IdentificationRefetched'
    OBVIOUS
<1>1. CASE UNCHANGED <<failures, id_stale, id_fetched>>
      BY <1>1 DEF IdentificationRefetched
<1>2. CASE PollEnds(TRUE)
      BY <1>2 DEF PollEnds, PollLeaves, IdentificationRefetched
<1>3. CASE PollEnds(FALSE)
      BY <1>3 DEF PollEnds, PollLeaves, OneMoreFailure, IdentificationRefetched, RestartInv, FailureCap
<1>4. (\E t \in Task : Close(t)) => UNCHANGED <<failures, id_stale, id_fetched>>
                                     \/ PollEnds(TRUE) \/ PollEnds(FALSE)
      BY DEF Close, loopVars
<1>5. LoopStep => UNCHANGED <<failures, id_stale, id_fetched>>
      BY DEF LoopStep, Woken, Elapsed, TriggerRestart, Probe, CancelLoop, loopVars
<1>6. (\E t \in Task : Begin(t) \/ Connected(t) \/ Refused(t) \/ QueryDone(t) \/ CutFails(t)
                         \/ SessionFails(t))
        => UNCHANGED <<failures, id_stale, id_fetched>>
      BY DEF Begin, Connected, Refused, QueryDone, CutFails, SessionFails, loopVars
<1>7. ASSUME \/ ServiceStep \/ Shutdown \/ SetPollInterval \/ Connect \/ DoDisconnect
             \/ \E r \in Req : Request(r)
             \/ \E v \in {"on-demand", "persistent"} :
                   SetBleConnection(v) \/ SetEsphomeApiConnection(v)
             \/ UNCHANGED vars
      PROVE  UNCHANGED <<failures, id_stale, id_fetched>>
      BY <1>7 DEF ServiceStep, Shutdown, SetPollInterval, Connect, DoDisconnect, Request,
             SetBleConnection, SetEsphomeApiConnection, vars, loopVars
<1>8. UNCHANGED <<failures, id_stale, id_fetched>> \/ PollEnds(TRUE) \/ PollEnds(FALSE)
      BY <1>4, <1>5, <1>6, <1>7 DEF Next, SessionStep
<1> QED BY <1>1, <1>2, <1>3, <1>8

\* After an outage the identification cached before it is read again (main.py
\* 2823-2827), whatever happened in between.
THEOREM IdentificationIsRefetched == Spec => []IdentificationRefetched
<1>1. Init => IdentificationRefetched
      BY DEF Init, IdentificationRefetched
<1> QED BY <1>1, InitRestart, StepRestart, StepIdentification, PTL DEF Spec

-----------------------------------------------------------------------------
\* The line at _on_demand_lock.

Stage == {"idle", "queued", "connect", "query", "ok", "failed"}

\* A task that was idle joins the line.
LEMMA JoinLine ==
    ASSUME NEW line, NEW stage \in [Task -> Stage], LineInv(line, stage),
           NEW t \in Task, stage[t] = "idle"
    PROVE  LineInv(Append(line, t), [stage EXCEPT ![t] = "queued"])
<1> DEFINE joined == Append(line, t)
           now == [stage EXCEPT ![t] = "queued"]
<1>1. /\ line \in Seq(Task) /\ joined \in Seq(Task)
      /\ Len(line) \in Nat /\ Len(joined) = Len(line) + 1
      /\ \A i \in 1..Len(line) : joined[i] = line[i] /\ line[i] \in Task
      /\ joined[Len(line) + 1] = t
      BY DEF LineInv
<1>2. \A i \in 1..Len(line) : line[i] # t
      BY DEF LineInv
<1>3. \A u \in Task : now[u] = IF u = t THEN "queued" ELSE stage[u]
      OBVIOUS
<1> HIDE DEF joined, now
<1>4. \A i, j \in 1..Len(joined) : joined[i] = joined[j] => i = j
      BY <1>1, <1>2 DEF LineInv
<1>5. ASSUME NEW u \in Task
      PROVE  now[u] # "idle" <=> \E i \in 1..Len(joined) : joined[i] = u
      <2>1. CASE u = t
            BY <1>1, <1>3, <2>1
      <2>2. CASE u # t
            BY <1>1, <1>3, <2>2 DEF LineInv
      <2> QED BY <2>1, <2>2
<1>6. \A i \in 2..Len(joined) : now[joined[i]] = "queued"
      BY <1>1, <1>3 DEF LineInv
<1> QED BY <1>1, <1>4, <1>5, <1>6 DEF LineInv, joined, now

\* The task at the head of the line goes from one stage to another.
LEMMA StageOfHead ==
    ASSUME NEW line, NEW stage \in [Task -> Stage], LineInv(line, stage),
           NEW t \in Task, line # <<>>, Head(line) = t, NEW s \in Stage \ {"idle"}
    PROVE  LineInv(line, [stage EXCEPT ![t] = s])
<1>1. line \in Seq(Task) /\ Len(line) \in Nat \ {0} /\ line[1] = t
      BY DEF LineInv
<1>2. \A i \in 2..Len(line) : line[i] # t /\ line[i] \in Task
      BY <1>1 DEF LineInv
<1> QED BY <1>1, <1>2 DEF LineInv, Stage

\* The head of the line leaves it.
LEMMA LeaveLine ==
    ASSUME NEW line, NEW stage \in [Task -> Stage], LineInv(line, stage),
           NEW t \in Task, line # <<>>, Head(line) = t
    PROVE  LineInv(Tail(line), [stage EXCEPT ![t] = "idle"])
<1> DEFINE rest == Tail(line)
           now == [stage EXCEPT ![t] = "idle"]
<1>1. /\ line \in Seq(Task) /\ rest \in Seq(Task)
      /\ Len(line) \in Nat \ {0} /\ Len(rest) = Len(line) - 1
      /\ \A i \in 1..Len(rest) : rest[i] = line[i + 1] /\ rest[i] \in Task
      /\ line[1] = t
      BY DEF LineInv
<1>2. \A i \in 1..Len(rest) : rest[i] # t /\ stage[rest[i]] = "queued"
      BY <1>1 DEF LineInv
<1>3. \A u \in Task : now[u] = IF u = t THEN "idle" ELSE stage[u]
      OBVIOUS
<1> HIDE DEF rest, now
<1>4. \A i, j \in 1..Len(rest) : rest[i] = rest[j] => i = j
      BY <1>1 DEF LineInv
<1>5. ASSUME NEW u \in Task
      PROVE  now[u] # "idle" <=> \E i \in 1..Len(rest) : rest[i] = u
      <2>1. CASE u = t
            BY <1>2, <1>3, <2>1
      <2>2. ASSUME u # t, stage[u] # "idle"
            PROVE  \E i \in 1..Len(rest) : rest[i] = u
            <3>1. PICK i \in 1..Len(line) : line[i] = u
                  BY <2>2 DEF LineInv
            <3>2. i # 1 /\ i - 1 \in 1..Len(rest) /\ rest[i - 1] = u
                  BY <1>1, <2>2, <3>1
            <3> QED BY <3>2
      <2>3. ASSUME u # t, NEW i \in 1..Len(rest), rest[i] = u
            PROVE  now[u] # "idle"
            BY <1>2, <1>3, <2>3
      <2> QED BY <1>3, <2>1, <2>2, <2>3
<1>6. \A i \in 2..Len(rest) : now[rest[i]] = "queued"
      BY <1>1, <1>2, <1>3
<1> QED BY <1>1, <1>4, <1>5, <1>6 DEF LineInv, rest, now

\* A cancelled task leaves the line wherever it stands.
LEMMA CancelLine ==
    ASSUME task \in [Task -> Stage], LockInv, NEW t \in Task
    PROVE  LineInv(Without(t), [task EXCEPT ![t] = "idle"])
<1> DEFINE now == [task EXCEPT ![t] = "idle"]
<1>1. lock_queue \in Seq(Task) /\ Len(lock_queue) \in Nat
      BY DEF LockInv, LineInv
<1>2. \A u \in Task : now[u] = IF u = t THEN "idle" ELSE task[u]
      OBVIOUS
<1>3. CASE \A i \in 1..Len(lock_queue) : lock_queue[i] # t
      <2>1. now = task
            BY <1>3 DEF LockInv, LineInv
      <2> QED BY <1>3, <2>1 DEF Without, LockInv
<1>4. ASSUME NEW k \in 1..Len(lock_queue), lock_queue[k] = t
      PROVE  LineInv(Without(t), now)
      <2> DEFINE rest == Without(t)
      <2>1. \A i \in 1..Len(lock_queue) : lock_queue[i] = t <=> i = k
            BY <1>4 DEF LockInv, LineInv
      <2>2. \A i \in 1..(Len(lock_queue) - 1) :
                (\E j \in 1..i : lock_queue[j] = t) <=> i >= k
            BY <1>1, <2>1
      <2>3. rest = [i \in 1..(Len(lock_queue) - 1) |->
                       IF i >= k THEN lock_queue[i + 1] ELSE lock_queue[i]]
            BY <1>4, <2>2 DEF Without
      <2> HIDE DEF rest, now
      <2>4. /\ rest \in Seq(Task) /\ Len(rest) = Len(lock_queue) - 1
            /\ \A i \in 1..Len(rest) :
                  /\ rest[i] = IF i >= k THEN lock_queue[i + 1] ELSE lock_queue[i]
                  /\ rest[i] \in Task
            <3>1. \A i \in 1..(Len(lock_queue) - 1) : rest[i] \in Task
                  BY <1>1, <2>3
            <3>2. rest \in [1..(Len(lock_queue) - 1) -> Task] /\ Len(lock_queue) - 1 \in Nat
                  BY <1>1, <1>4, <2>3, <3>1
            <3>3. rest \in Seq(Task) /\ Len(rest) = Len(lock_queue) - 1
                  BY <3>2
            <3> QED BY <2>3, <3>1, <3>3
      <2>5. \A i, j \in 1..Len(rest) : rest[i] = rest[j] => i = j
            BY <1>1, <2>4 DEF LockInv, LineInv
      <2>6. \A i \in 1..Len(rest) : rest[i] # t
            BY <1>1, <2>1, <2>4
      <2>7. ASSUME NEW u \in Task
            PROVE  now[u] # "idle" <=> \E i \in 1..Len(rest) : rest[i] = u
            <3>1. CASE u = t
                  BY <1>2, <2>6, <3>1
            <3>2. ASSUME u # t, NEW i \in 1..Len(lock_queue), lock_queue[i] = u
                  PROVE  \E j \in 1..Len(rest) : rest[j] = u
                  <4>1. CASE i < k
                        BY <1>1, <2>4, <3>2, <4>1
                  <4>2. CASE i > k
                        <5>1. i - 1 \in 1..Len(rest) /\ rest[i - 1] = u
                              BY <1>1, <2>4, <3>2, <4>2
                        <5> QED BY <5>1
                  <4> QED BY <1>4, <3>2, <4>1, <4>2
            <3>3. ASSUME u # t, NEW i \in 1..Len(rest), rest[i] = u
                  PROVE  \E j \in 1..Len(lock_queue) : lock_queue[j] = u
                  BY <1>1, <2>4, <3>3
            <3> QED BY <1>2, <3>1, <3>2, <3>3 DEF LockInv, LineInv
      <2>8. ASSUME NEW i \in 2..Len(rest) PROVE now[rest[i]] = "queued"
            <3>1. PICK j \in 2..Len(lock_queue) : rest[i] = lock_queue[j]
                  BY <1>1, <2>4
            <3>2. rest[i] \in Task /\ rest[i] # t
                  BY <2>4, <2>6
            <3> QED BY <1>2, <3>1, <3>2 DEF LockInv, LineInv
      <2> QED BY <2>4, <2>5, <2>7, <2>8 DEF LineInv, rest, now
<1> QED BY <1>3, <1>4

\* A session in progress is the one at the head of the line.
LEMMA SessionIsHead ==
    ASSUME LockInv, NEW t \in Task, task[t] \notin {"idle", "queued"}
    PROVE  lock_queue # <<>> /\ Head(lock_queue) = t
<1>1. lock_queue \in Seq(Task) /\ Len(lock_queue) \in Nat
      BY DEF LockInv, LineInv
<1>2. PICK i \in 1..Len(lock_queue) : lock_queue[i] = t
      BY DEF LockInv, LineInv
<1>3. i = 1
      BY <1>1, <1>2 DEF LockInv, LineInv
<1> QED BY <1>1, <1>2, <1>3

\* Every step keeps the line: it is joined by an idle task, its head changes its
\* stage or leaves, the loop's task is cancelled, or line and stages stay.
LEMMA StepLine == RestartInv /\ LockInv /\ [Next]_vars => LockInv'
<1> SUFFICES ASSUME RestartInv, LockInv, [Next]_vars PROVE LineInv(lock_queue', task')
    BY DEF LockInv
<1>1. task \in [Task -> Stage] /\ LineInv(lock_queue, task)
      BY DEF RestartInv, Stage, LockInv
<1>2. CASE UNCHANGED <<task, lock_queue>>
      BY <1>1, <1>2
<1>3. ASSUME NEW t \in Task, Queue(t), task[t] = "idle" PROVE LineInv(lock_queue', task')
      BY <1>1, <1>3, JoinLine DEF Queue
<1>4. ASSUME NEW t \in Task, Begin(t) PROVE LineInv(lock_queue', task')
      <2>1. lock_queue # <<>>
            BY <1>1, <1>4 DEF Begin, LineInv
      <2>2. "connect" \in Stage \ {"idle"}
            BY DEF Stage
      <2> QED BY <1>1, <1>4, <2>1, <2>2, StageOfHead DEF Begin, HasLock
<1>5. ASSUME NEW t \in Task,
             Connected(t) \/ Refused(t) \/ QueryDone(t) \/ CutFails(t) \/ SessionFails(t)
      PROVE  LineInv(lock_queue', task')
      <2>1. PICK s \in {"query", "ok", "failed"} : task' = [task EXCEPT ![t] = s]
            BY <1>5 DEF Connected, Refused, QueryDone, CutFails, SessionFails
      <2>2. task[t] \notin {"idle", "queued"} /\ UNCHANGED lock_queue
            BY <1>5 DEF Connected, Refused, QueryDone, CutFails, SessionFails
      <2>3. s \in Stage \ {"idle"}
            BY DEF Stage
      <2> QED BY <1>1, <2>1, <2>2, <2>3, SessionIsHead, StageOfHead
<1>6. ASSUME NEW t \in Task, Close(t) PROVE LineInv(lock_queue', task')
      <2>1. task[t] \notin {"idle", "queued"}
            BY <1>6 DEF Close
      <2> QED BY <1>1, <1>6, <2>1, SessionIsHead, LeaveLine DEF Close, Released
<1>7. CASE CancelLoop
      BY <1>1, <1>7, LoopIsTask, CancelLine DEF CancelLoop
<1>8. CASE Elapsed \/ Probe
      <2>1. UNCHANGED <<task, lock_queue>> \/ Queue(Loop)
            BY <1>8 DEF Elapsed, Probe, StartPoll
      <2>2. task[Loop] = "idle"
            BY <1>8, LoopIsTask DEF Elapsed, Probe, RestartInv
      <2> QED BY <1>2, <1>3, <2>1, <2>2, LoopIsTask
<1>9. ASSUME NEW r \in Req, Request(r) PROVE LineInv(lock_queue', task')
      BY <1>3, <1>9 DEF Request, Task
<1>10. CASE \/ Woken \/ TriggerRestart \/ ServiceStep \/ Shutdown \/ SetPollInterval
            \/ Connect \/ DoDisconnect \/ UNCHANGED vars
            \/ \E v \in {"on-demand", "persistent"} :
                  SetBleConnection(v) \/ SetEsphomeApiConnection(v)
      BY <1>2, <1>10 DEF Woken, TriggerRestart, ServiceStep, Shutdown, SetPollInterval,
         Connect, DoDisconnect, SetBleConnection, SetEsphomeApiConnection, vars, sessionVars
<1> QED BY <1>4, <1>5, <1>6, <1>7, <1>8, <1>9, <1>10 DEF Next, LoopStep, SessionStep

\* As long as nobody has switched anything, ServiceMode and sessions are of
\* different modes, but for the fallback of get_common_settings.
LEMMA StepMode == RestartInv /\ ModeInv /\ [Next]_vars => ModeInv'
<1> SUFFICES ASSUME RestartInv, ModeInv, [Next]_vars PROVE ModeInv'
    OBVIOUS
<1>1. task \in [Task -> Stage] /\ Loop \in Task
      BY LoopIsTask DEF RestartInv, Stage
<1>2. ASSUME UNCHANGED <<switches, connection_allowed, ble_connection, service>>,
             loop' \in {"restart", "circuit"}
                => loop \in {"restart", "circuit"} \/ ble_connection = "on-demand",
             \A t \in Task \ early' : task'[t] # "idle"
                => (t \notin early /\ task[t] # "idle") \/ ble_connection = "on-demand"
      PROVE  ModeInv'
      BY <1>2 DEF ModeInv
<1>3. ASSUME NEW t \in Task, SessionStep(t) \/ SessionFails(t) PROVE ModeInv'
      <2>1. /\ UNCHANGED <<switches, connection_allowed, ble_connection, service, early>>
            /\ loop' = loop \/ loop' = "sleep"
            BY <1>3 DEF SessionStep, SessionFails, Begin, Connected, Refused, QueryDone,
               CutFails, Close, PollEnds, PollLeaves, modeVars, loopVars, serviceVars, bounds
      <2>2. \E s \in Stage : task' = [task EXCEPT ![t] = s]
            BY <1>3 DEF SessionStep, SessionFails, Begin, Connected, Refused, QueryDone,
               CutFails, Close, Stage
      <2>3. task[t] # "idle"
            BY <1>3 DEF SessionStep, SessionFails, Begin, Connected, Refused, QueryDone,
               CutFails, Close
      <2>4. \A u \in Task : task'[u] # "idle" => task[u] # "idle"
            BY <1>1, <2>2, <2>3
      <2> QED BY <1>2, <2>1, <2>4
<1>4. CASE LoopStep
      <2>1. UNCHANGED <<switches, connection_allowed, ble_connection, service, early>>
            BY <1>4 DEF LoopStep, Woken, Elapsed, TriggerRestart, Probe, CancelLoop, modeVars,
               serviceVars, bounds
      <2>2. loop' \in {"restart", "circuit"}
                => loop \in {"restart", "circuit"} \/ ble_connection = "on-demand"
            BY <1>4 DEF LoopStep, Woken, Elapsed, TriggerRestart, Probe, CancelLoop, StartPoll,
               loopVars
      <2>3. CASE Probe
            <3>1. switches = 0 => ble_connection = "on-demand"
                  BY <2>3 DEF Probe, ModeInv
            <3> QED BY <2>1, <2>3, <3>1 DEF Probe, StartPoll, ModeInv
      <2>4. CASE ~Probe
            <3>1. \A t \in Task : task'[t] # "idle" => task[t] # "idle" \/ ble_connection = "on-demand"
                  BY <1>1, <1>4, <2>4 DEF LoopStep, Woken, Elapsed, TriggerRestart, CancelLoop,
                     StartPoll, Queue, sessionVars
            <3> QED BY <1>2, <2>1, <2>2, <3>1
      <2> QED BY <2>3, <2>4
<1>5. ASSUME NEW r \in Req, Request(r) PROVE ModeInv'
      <2>1. UNCHANGED <<switches, connection_allowed, ble_connection, service, loop>>
            BY <1>5 DEF Request, modeVars, loopVars
      <2>2. \/ ble_connection = "on-demand"
            \/ early' = early \cup {r}
            BY <1>5 DEF Request, OpensSession
      <2>3. \A t \in Task : t # r => task'[t] = task[t]
            BY <1>1, <1>5 DEF Request, Queue
      <2> QED BY <1>2, <2>1, <2>2, <2>3
<1>6. CASE ServiceStep
      <2>1. UNCHANGED <<switches, connection_allowed, ble_connection, loop, task, early>>
            BY <1>6 DEF ServiceStep, modeVars, loopVars, sessionVars, bounds
      <2>2. service' # "idle" => service # "idle" \/ connection_allowed
            BY <1>6 DEF ServiceStep, MayConnect
      <2> QED BY <2>1, <2>2 DEF ModeInv
<1>7. ASSUME switches' = switches + 1 PROVE ModeInv'
      BY <1>7 DEF ModeInv
<1>8. CASE \/ Connect \/ DoDisconnect \/ \E v \in {"on-demand", "persistent"} : SetBleConnection(v)
      BY <1>7, <1>8 DEF Connect, DoDisconnect, SetBleConnection
<1>9. CASE \/ Shutdown \/ SetPollInterval \/ UNCHANGED vars
           \/ \E v \in {"on-demand", "persistent"} : SetEsphomeApiConnection(v)
      BY <1>9 DEF Shutdown, SetPollInterval, SetEsphomeApiConnection, ModeInv, vars, modeVars,
         loopVars, sessionVars, serviceVars, bounds
<1> QED BY <1>3, <1>4, <1>5, <1>6, <1>8, <1>9 DEF Next

\* Only set_esphome_api_connection detaches a session from its connector.
LEMMA StepStray == RestartInv /\ StrayInv /\ [Next]_vars => StrayInv'
<1> SUFFICES ASSUME RestartInv, StrayInv, [Next]_vars PROVE StrayInv'
    OBVIOUS
<1>1. CASE UNCHANGED <<uses, sets, stray>>
      BY <1>1 DEF StrayInv
<1>2. ASSUME NEW t \in Task, Begin(t) PROVE StrayInv'
      BY <1>2 DEF Begin, StrayInv, bounds
<1>3. ASSUME NEW t \in Task, Connected(t) PROVE StrayInv'
      BY <1>3 DEF Connected, StrayInv, bounds
<1>4. ASSUME NEW t \in Task, Close(t) PROVE StrayInv'
      BY <1>4 DEF Close, StrayInv, bounds
<1>5. ASSUME NEW v, SetEsphomeApiConnection(v) PROVE StrayInv'
      BY <1>5 DEF SetEsphomeApiConnection, StrayInv, Torn
<1>6. CASE SetPollInterval
      BY <1>6 DEF SetPollInterval, StrayInv, sessionVars
<1>7. CASE \/ LoopStep \/ ServiceStep \/ Shutdown \/ Connect \/ DoDisconnect
           \/ \E t \in Task : Refused(t) \/ QueryDone(t) \/ CutFails(t) \/ SessionFails(t)
           \/ \E r \in Req : Request(r)
           \/ \E v \in {"on-demand", "persistent"} : SetBleConnection(v)
           \/ UNCHANGED vars
      BY <1>1, <1>7 DEF LoopStep, Woken, Elapsed, TriggerRestart, Probe, CancelLoop, ServiceStep,
         Shutdown, Connect, DoDisconnect, Refused, QueryDone, CutFails, SessionFails, Request,
         SetBleConnection, vars, sessionVars, bounds
<1> QED BY <1>2, <1>3, <1>4, <1>5, <1>6, <1>7 DEF Next, SessionStep

\* On-demand sessions exclude each other under _on_demand_lock (main.py 2293-2316),
\* do not meet ServiceMode in the device before the first switch, except where
\* get_common_settings fell back to a session of its own (2462-2466), and leave a TCP
\* connection open only when the ESP32 API mode or the interval was set, for every
\* set of requests.
THEOREM SessionsKeepApart == Spec => []SessionsApart
<1>1. Init => LockInv /\ ModeInv /\ StrayInv
      BY DEF Init, LockInv, LineInv, ModeInv, StrayInv
<1>2. LockInv /\ ModeInv /\ StrayInv => SessionsApart
      <2> SUFFICES ASSUME LockInv, ModeInv, StrayInv PROVE SessionsApart
          OBVIOUS
      <2>1. \A t \in Task : InSession(t) => lock_queue # <<>> /\ Head(lock_queue) = t
            BY SessionIsHead DEF InSession
      <2>2. switches = 0 /\ service = "up" => \A t \in Task : InSession(t) => t \in early
            BY DEF ModeInv, InSession
      <2>3. stray => sets > 0
            BY DEF StrayInv
      <2> QED BY <2>1, <2>2, <2>3 DEF SessionsApart
<1> QED BY <1>1, <1>2, InitRestart, StepRestart, StepLine, StepMode, StepStray, PTL DEF Spec
=============================================================================
