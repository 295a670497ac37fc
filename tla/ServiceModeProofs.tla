------------------------- MODULE ServiceModeProofs -------------------------
(***************************************************************************)
(* The link and the published status of ServiceMode, for every set of      *)
(* commands and every bound.                                               *)
(***************************************************************************)
EXTENDS ServiceMode, TLAPS

\* The initial state: no session, no link, status "disconnected".
LEMMA InitStatus == Init => StatusInv
BY DEF Init, StatusInv, NoLinkLeftBehind, PC, Open, Between, Recovering, Ended, Over

\* Each exception handler of run() leaves an open session towards the finally
\* block, the 30 s wait or the recovery protocol, and keeps the link for them.
LEMMA HandleStatus ==
    ASSUME NEW kind, StatusInv, Handle(kind), UNCHANGED <<session, linkVars>>,
           pc \in Open \cup {"scan"}, kind = "timeout" => pc \in Open
    PROVE  StatusInv'
<1>1. /\ pc' \in {"backoff", "drop", "closing"} /\ after' \in {"loop", "stop", "exit"}
      /\ UNCHANGED <<session, links, unclosed>>
      /\ pc' = "drop" => kind = "timeout"
      /\ ble_status' \in {ble_status, "error"}
      BY DEF Handle, linkVars
<1>2. \A k \in links : Over(k)' => Over(k)
      BY <1>1 DEF Over, Between, Ended
<1>3. ble_status' = "connected" => pc' \in Open \cup {"closing"}
      BY DEF Handle, StatusInv, Open, Recovering
<1> QED BY <1>1, <1>2, <1>3
        DEF StatusInv, NoLinkLeftBehind, PC, Open, Between, Recovering, Ended

\* A new session has a number of its own and no link.
LEMMA StartStatus ==
    ASSUME StatusInv, pc \in {"top", "parked"}, StartSession, UNCHANGED <<linkVars, after>>
    PROVE  StatusInv'
<1> USE DEF StatusInv, NoLinkLeftBehind, Over
<1>1. /\ pc' = "scan" /\ session' = session + 1 /\ ble_status' = "connecting"
      /\ UNCHANGED <<links, unclosed>>
      BY DEF StartSession, linkVars
<1>2. \A k \in links : Over(k)
      BY DEF Between
<1> QED BY <1>2, <1>1 DEF PC, Open, Between, Recovering, Ended

\* The steps of run() from the top of the loop into the inner loop.
LEMMA SessionStatus ==
    ASSUME StatusInv,
           LoopTop \/ Unpark \/ Linked \/ SessionRequest \/ InitDone \/ FetchDone
    PROVE  StatusInv'
<1> USE DEF StatusInv, NoLinkLeftBehind, PC, Open, Between, Recovering, Ended, Over
<1>1. CASE LoopTop
      <2>1. CASE ~shutdown /\ connection_allowed BY <1>1, <2>1, StartStatus DEF LoopTop
      <2>2. CASE shutdown \/ ~connection_allowed BY <1>1, <2>2 DEF LoopTop, linkVars
      <2> QED BY <2>1, <2>2
<1>2. CASE Unpark
      <2>1. CASE ~shutdown BY <1>2, <2>1, StartStatus DEF Unpark
      <2>2. CASE shutdown BY <1>2, <2>2 DEF Unpark, linkVars
      <2> QED BY <2>1, <2>2
<1>3. CASE Linked BY <1>3 DEF Linked
<1>4. CASE SessionRequest BY <1>4 DEF SessionRequest, sessionVars, linkVars
<1>5. CASE InitDone BY <1>5 DEF InitDone, sessionVars, linkVars
<1>6. CASE FetchDone BY <1>6 DEF FetchDone, sessionVars, linkVars
<1> QED BY <1>1, <1>2, <1>3, <1>4, <1>5, <1>6

\* The inner loop is left through a handler, or goes on with a new polling task.
LEMMA InnerStatus == StatusInv /\ InnerWake => StatusInv'
<1> SUFFICES ASSUME StatusInv, InnerWake PROVE StatusInv'
    OBVIOUS
<1>1. pc \in Open /\ UNCHANGED <<session, linkVars>>
      BY DEF InnerWake, InnerShutdown, InnerReconnect, InnerChange, InnerPollFailed,
             InnerWaits, innerFrame, Open, sessionVars
<1>2. CASE InnerShutdown \/ InnerReconnect \/ InnerPollFailed
      <2>1. \E kind \in {"shutdown", "manual", poll} : Handle(kind)
            BY <1>2 DEF InnerShutdown, InnerReconnect, InnerPollFailed
      <2> QED BY <1>1, <2>1, HandleStatus
<1>3. CASE InnerChange
      BY <1>1, <1>3 DEF InnerChange, StatusInv, NoLinkLeftBehind, Over, linkVars
<1> QED BY <1>2, <1>3 DEF InnerWake

\* client.disconnect() ends with the session's link closed, or with the session noted
\* as not closed.
LEMMA DisconnectsWell ==
    ASSUME links \subseteq 1..session, Disconnects
    PROVE  /\ links' \subseteq links
           /\ session \in links' => session \in unclosed'
           /\ \A k \in links' : k # session => (k \in unclosed' <=> k \in unclosed)
BY DEF Disconnects

\* Leaving the open session for the recovery protocol, or the session altogether.
LEMMA ClosedStatus ==
    ASSUME StatusInv, pc \in {"drop", "closing"}, Disconnects, session' = session,
           after' = after, pc' \in {"gone"} \cup Between,
           pc' \in Between => ble_status' # "connected"
    PROVE  StatusInv'
<1>1. links \subseteq 1..session /\ session \in Nat
      BY DEF StatusInv
<1>2. /\ links' \subseteq links
      /\ \A k \in links' : k # session => (k \in unclosed' <=> k \in unclosed)
      /\ session \in links' => session \in unclosed'
      BY <1>1, DisconnectsWell
<1>3. ASSUME NEW k \in links' PROVE k \in unclosed'
      <2>1. CASE k = session BY <1>2, <2>1
      <2>2. CASE k # session
            <3>1. k \in links /\ k < session
                  BY <1>1, <1>2, <2>2
            <3> QED BY <1>2, <2>2, <3>1 DEF StatusInv, NoLinkLeftBehind, Over
      <2> QED BY <2>1, <2>2
<1> QED BY <1>1, <1>2, <1>3
        DEF StatusInv, NoLinkLeftBehind, PC, Open, Between, Recovering, Ended

\* The recovery protocol, the finally block and the end.
LEMMA ClosingStatus ==
    ASSUME StatusInv,
           Dropped \/ DeviceGone \/ RecoveryEnds \/ RecoveryFails \/ Finally \/ StopMqtt
             \/ CancelRun
    PROVE  StatusInv'
<1>1. CASE Dropped BY <1>1, ClosedStatus DEF Dropped, Between, Ended
<1>2. CASE Finally
      <2>1. Afterwards \in Between
            BY DEF Afterwards, StatusInv, Between, Ended
      <2> QED BY <1>2, <2>1, ClosedStatus DEF Finally, CloseSession
<1> USE DEF StatusInv, NoLinkLeftBehind, PC, Open, Between, Recovering, Ended, Over,
            sessionVars, linkVars
<1>3. CASE DeviceGone BY <1>3 DEF DeviceGone
<1>4. CASE RecoveryEnds BY <1>4 DEF RecoveryEnds
<1>5. CASE RecoveryFails BY <1>5 DEF RecoveryFails
<1>6. CASE StopMqtt BY <1>6 DEF StopMqtt
<1>7. CASE CancelRun BY <1>7 DEF CancelRun, Cancellable
<1> QED BY <1>1, <1>2, <1>3, <1>4, <1>5, <1>6, <1>7

\* A failing connect, request or poll.
LEMMA FailureStatus ==
    ASSUME StatusInv, ScanFails \/ Unsupported \/ InitFails \/ FetchFails \/ PollFails
    PROVE  StatusInv'
<1> USE DEF sessionVars
<1>1. CASE ScanFails BY <1>1, HandleStatus DEF ScanFails, Open
<1>2. CASE Unsupported BY <1>2, HandleStatus DEF Unsupported, Open
<1>3. CASE InitFails BY <1>3, HandleStatus DEF InitFails, Open
<1>4. CASE FetchFails BY <1>4, HandleStatus DEF FetchFails, Open
<1>5. CASE PollFails
      BY <1>5 DEF PollFails, StatusInv, NoLinkLeftBehind, Over, linkVars
<1> QED BY <1>1, <1>2, <1>3, <1>4, <1>5

\* What pollers, commands and requests do: they touch neither run()'s place, nor
\* the links, nor the status.
LEMMA OthersStatus ==
    ASSUME StatusInv,
           PollStep \/ Request \/ (\E c \in Cmd : CmdStart(c) \/ CmdEnter(c) \/ CmdEnd(c))
             \/ UNCHANGED vars
    PROVE  StatusInv'
<1>1. UNCHANGED <<pc, after, session, links, unclosed, ble_status>>
      BY DEF PollStep, PollEnter, PollDone, PollAgain, Request, RequestReconnect,
             RequestDisconnect, SetPollInterval, Shutdown, CmdStart, CmdEnter, CmdEnd,
             notCmd, vars, sessionVars, linkVars
<1> QED BY <1>1 DEF StatusInv, NoLinkLeftBehind, Over

\* Every step of the service preserves the invariant.
LEMMA StepStatus == StatusInv /\ [Next]_vars => StatusInv'
BY SessionStatus, InnerStatus, ClosingStatus, FailureStatus, OthersStatus
   DEF Next, RunStep, Failure

\* The invariant gives the two properties of the runs.
LEMMA StatusImplies == StatusInv => NoLinkLeftBehind /\ NoPhantomConnection
BY DEF StatusInv, NoPhantomConnection

\* However sessions, failures, requests and commands interleave, a session that is
\* over, or given up by the recovery protocol, has no link, unless its disconnect
\* raised or was cut short (the finally block of ServiceMode.run, main.py 1004-1017).
THEOREM NoLinkIsLeftBehind == Spec => []NoLinkLeftBehind
BY InitStatus, StepStatus, StatusImplies, PTL DEF Spec

\* The published status never says "connected" without a link, except while the
\* recovery protocol runs and in the finally block after it.
THEOREM StatusIsHonest == Spec => []NoPhantomConnection
BY InitStatus, StepStatus, StatusImplies, PTL DEF Spec

-----------------------------------------------------------------------------
\* A resolved waiter is used up by the session it starts, and between a disconnect
\* request and the next reconnect request none is resolved.
AllowedInv ==
    /\ uninvited \in 0..1
    /\ connection_allowed => uninvited = 0
    /\ ~connection_allowed /\ woken => uninvited = 0
    /\ ~connection_allowed /\ woken => racing
    /\ uninvited = 1 => racing

\* The steps that start a session, by the top of the loop or out of the parked state.
LEMMA StartAllowed ==
    ASSUME AllowedInv, LoopTop \/ Unpark PROVE AllowedInv'
<1> USE DEF AllowedInv
<1>1. CASE LoopTop
      <2>1. /\ UNCHANGED <<connection_allowed, woken, racing>>
            /\ uninvited' = uninvited
            BY <1>1 DEF LoopTop, StartSession, requestVars
      <2> QED BY <2>1
<1>2. CASE Unpark
      <2>1. UNCHANGED <<connection_allowed, racing>> /\ ~woken'
            BY <1>2 DEF Unpark
      <2>2. CASE uninvited' = uninvited
            BY <2>1, <2>2
      <2>3. CASE uninvited' # uninvited
            <3>1. woken /\ ~connection_allowed /\ uninvited' = uninvited + 1
                  BY <1>2, <2>3 DEF Unpark, StartSession
            <3>2. uninvited' = 1 /\ racing
                  BY <3>1
            <3> QED BY <2>1, <3>1, <3>2
      <2> QED BY <2>2, <2>3
<1> QED BY <1>1, <1>2

\* The requests that allow or call off a connection.
LEMMA SwitchAllowed ==
    ASSUME AllowedInv, RequestReconnect \/ RequestDisconnect PROVE AllowedInv'
<1>1. CASE RequestReconnect
      <2>1. uninvited' = 0 /\ connection_allowed'
            BY <1>1 DEF RequestReconnect
      <2> QED BY <2>1 DEF AllowedInv
<1>2. CASE RequestDisconnect
      <2>1. uninvited' = 0 /\ ~connection_allowed' /\ (woken' => racing')
            BY <1>2 DEF RequestDisconnect
      <2> QED BY <2>1 DEF AllowedInv
<1> QED BY <1>1, <1>2

\* No other step touches what the invariant speaks of.
LEMMA OthersAllowed ==
    ASSUME [Next]_vars, ~LoopTop, ~Unpark, ~RequestReconnect, ~RequestDisconnect
    PROVE  UNCHANGED <<connection_allowed, woken, racing, uninvited>>
<1> USE DEF requestVars, sessionVars
<1>1. CASE RunStep
      BY <1>1 DEF RunStep, Linked, SessionRequest, InitDone, FetchDone, InnerWake,
            InnerShutdown, InnerReconnect, InnerChange, InnerPollFailed, innerFrame,
            Dropped, DeviceGone, RecoveryEnds, Finally, CloseSession, StopMqtt
<1>2. CASE PollStep \/ Failure \/ CancelRun
      BY <1>2 DEF PollStep, PollEnter, PollDone, PollAgain, Failure, ScanFails,
            Unsupported, InitFails, FetchFails, PollFails, RecoveryFails, CancelRun
<1>3. CASE Request
      BY <1>3 DEF Request, SetPollInterval, Shutdown
<1>4. CASE (\E c \in Cmd : CmdStart(c) \/ CmdEnter(c) \/ CmdEnd(c)) \/ UNCHANGED vars
      BY <1>4 DEF CmdStart, CmdEnter, CmdEnd, notCmd, vars
<1> QED BY <1>1, <1>2, <1>3, <1>4 DEF Next

\* Every step preserves it.
LEMMA StepAllowed == AllowedInv /\ [Next]_vars => AllowedInv'
<1> SUFFICES ASSUME AllowedInv, [Next]_vars PROVE AllowedInv'
    OBVIOUS
<1>1. CASE LoopTop \/ Unpark BY <1>1, StartAllowed
<1>2. CASE RequestReconnect \/ RequestDisconnect BY <1>2, SwitchAllowed
<1>3. CASE ~LoopTop /\ ~Unpark /\ ~RequestReconnect /\ ~RequestDisconnect
      BY <1>3, OthersAllowed DEF AllowedInv
<1> QED BY <1>1, <1>2, <1>3

\* After request_disconnect no session begins before a reconnect is requested, but one
\* when the request met a waiter that was resolved (main.py 717-734, 1430-1434).
THEOREM DisconnectedStays == Spec => []StaysDisconnected
<1>1. Init => AllowedInv
      BY DEF Init, AllowedInv
<1>2. AllowedInv => StaysDisconnected
      BY DEF AllowedInv, StaysDisconnected
<1> QED BY <1>1, <1>2, StepAllowed, PTL DEF Spec
=============================================================================
