----------------------------- MODULE BaseClient -----------------------------
(***************************************************************************)
(* AquaCleanBaseClient.send_request: concurrent callers (the polling task, *)
(* REST and MQTT commands) share one BLE request channel.  A caller spins  *)
(* until call_count is 0, takes the channel, clears _transaction_event,    *)
(* writes the request frame (and, for some procedures, a CONS frame) and   *)
(* waits up to 5 s for on_transaction_completeForBaseClient to set the     *)
(* event; it then reads the shared message_context.                        *)
(*                                                                         *)
(* One action per stretch of code between two suspension points.  The      *)
(* device is external: it answers a request at some later time, also after *)
(* the 5 s of the request, or never.                                       *)
(***************************************************************************)
EXTENDS Naturals

CONSTANTS
    Caller,        \* tasks that make requests
    MaxReq,        \* bound: requests per caller
    MaxCancel,     \* bound: cancellations in one behaviour
    MaxWriteFail   \* bound: failing GATT writes in one behaviour

ASSUME ClientAssumption ==
    MaxReq \in Nat /\ MaxCancel \in Nat /\ MaxWriteFail \in Nat

VARIABLES
    call_count,
    event,            \* _transaction_event
    message_context,  \* the request whose response is stored
    pc,               \* where each caller is suspended
    nreq,             \* number of each caller's latest request
    outcome,          \* how each caller's latest request ended
    unanswered,       \* requests the device has and may still answer
    heard,            \* history: a response came since the channel was last taken
    overdue,          \* history: a request has timed out before the device answered
    astray,           \* requests that the device may still answer although their
                      \* caller has left, by timeout or with another response;
                      \* and the one whose response is stored, if it was such
    cancels, writeFails

historyVars == <<heard, overdue, astray>>
channelVars == <<call_count, event, message_context, pc, nreq, outcome, unanswered,
                 cancels, writeFails, historyVars>>

Request == Caller \X (0..MaxReq)
NoMessage == <<>>

\* The request that caller t is making.
Cur(t) == <<t, nreq[t]>>

\* Caller t has passed the gate and not left send_request.
InFlight(t) == pc[t] \in {"writing", "cons", "written", "waiting"}

ChannelInit ==
    /\ call_count = 0
    /\ event = FALSE
    /\ message_context = NoMessage
    /\ pc = [t \in Caller |-> "idle"]
    /\ nreq = [t \in Caller |-> 0]
    /\ outcome = [t \in Caller |-> "none"]
    /\ unanswered = {}
    /\ heard = FALSE /\ overdue = FALSE /\ astray = {}
    /\ cancels = 0
    /\ writeFails = 0

\* Caller t calls send_request.
Call(t) ==
    /\ pc[t] = "idle" /\ nreq[t] < MaxReq
    /\ pc' = [pc EXCEPT ![t] = "gate"]
    /\ nreq' = [nreq EXCEPT ![t] = @ + 1]
    /\ outcome' = [outcome EXCEPT ![t] = "none"]
    /\ UNCHANGED <<call_count, event, message_context, unanswered, cancels, writeFails,
                   historyVars>>

\* Mutated form: one request too many is let in.
GateOpenTooEarly == call_count <= 1

GateOpen == call_count = 0

\* Caller t passes the gate and leaves the event as given.
Takes(t, signal) ==
    /\ pc[t] = "gate" /\ GateOpen
    /\ call_count' = call_count + 1
    /\ event' = signal
    /\ heard' = FALSE
    /\ pc' = [pc EXCEPT ![t] = "writing"]
    /\ UNCHANGED <<message_context, nreq, outcome, unanswered, overdue, astray,
                   cancels, writeFails>>

\* Mutated form: the event is not cleared.
EnterKeepsEvent(t) == Takes(t, event)

\* while call_count > 0: sleep.  The check and the increment are not separated
\* by an await; neither are the event's clearing and the start of the write.
Enter(t) == Takes(t, FALSE)

\* send_as_first_cons: the first frame is written, the CONS frame follows.
WriteFirst(t) ==
    /\ pc[t] = "writing"
    /\ pc' = [pc EXCEPT ![t] = "cons"]
    /\ UNCHANGED <<call_count, event, message_context, nreq, outcome, unanswered,
                   cancels, writeFails, historyVars>>

\* The last frame reaches the device; the write has still to return.
Reach(t) ==
    /\ pc[t] \in {"writing", "cons"}
    /\ pc' = [pc EXCEPT ![t] = "written"]
    /\ unanswered' = unanswered \cup {Cur(t)}
    /\ UNCHANGED <<call_count, event, message_context, nreq, outcome, cancels, writeFails,
                   historyVars>>

\* The write returns; the caller sleeps 10 ms and waits for the event.
Written(t) ==
    /\ pc[t] = "written"
    /\ pc' = [pc EXCEPT ![t] = "waiting"]
    /\ UNCHANGED <<call_count, event, message_context, nreq, outcome, unanswered,
                   cancels, writeFails, historyVars>>

\* A write raises (connection gone, write timeout): the exception passes
\* send_request, which has no finally: call_count stays as it is.
WriteFails(t) ==
    /\ pc[t] \in {"writing", "cons", "written"}
    /\ writeFails < MaxWriteFail
    /\ pc' = [pc EXCEPT ![t] = "idle"]
    /\ outcome' = [outcome EXCEPT ![t] = "failed"]
    /\ writeFails' = writeFails + 1
    /\ UNCHANGED <<call_count, event, message_context, nreq, unanswered, cancels,
                   historyVars>>

\* A complete response: on_transaction_completeForBaseClient stores it and sets
\* the event.  No field of it is compared with the request.
Reply(r) ==
    /\ r \in unanswered
    /\ unanswered' = unanswered \ {r}
    /\ message_context' = r
    /\ event' = TRUE /\ heard' = TRUE
    /\ astray' = astray \cap unanswered
    /\ UNCHANGED <<call_count, pc, nreq, outcome, overdue, cancels, writeFails>>

\* No usable response: lost, never sent, or not parsed (parse_message1 returns
\* None for a foreign message id and the handler raises before event.set()).
NoReply(r) ==
    /\ r \in unanswered
    /\ unanswered' = unanswered \ {r}
    /\ astray' = astray \ {r}
    /\ UNCHANGED <<call_count, event, message_context, pc, nreq, outcome, heard, overdue,
                   cancels, writeFails>>

\* The request of caller t, if the device may answer it yet.
Outstanding(t) == unanswered \cap {Cur(t)}

\* What caller t finds in message_context: its own response, the response to a
\* request whose caller has left, come since t took the channel, or neither.
Found(t) ==
    CASE message_context = Cur(t) -> "own"
      [] message_context # Cur(t) /\ message_context \in astray /\ heard -> "other"
      [] OTHER -> "stale"

\* wait_for returns; the caller reads message_context without another await.
Wake(t) ==
    /\ pc[t] = "waiting" /\ event
    /\ call_count' = call_count - 1
    /\ pc' = [pc EXCEPT ![t] = "idle"]
    /\ outcome' = [outcome EXCEPT ![t] = Found(t)]
    /\ astray' = astray \cup Outstanding(t)
    /\ UNCHANGED <<event, message_context, nreq, unanswered, heard, overdue,
                   cancels, writeFails>>

\* asyncio.TimeoutError, with the count that it leaves.  The device may answer yet.
TimesOut(t, count) ==
    /\ pc[t] = "waiting" /\ ~event
    /\ call_count' = count
    /\ pc' = [pc EXCEPT ![t] = "idle"]
    /\ outcome' = [outcome EXCEPT ![t] = "timeout"]
    /\ overdue' = (overdue \/ Cur(t) \in unanswered)
    /\ astray' = astray \cup Outstanding(t)
    /\ UNCHANGED <<event, message_context, nreq, unanswered, heard, cancels, writeFails>>

\* Mutated form: the channel is not released.
TimeoutKeepsCount(t) == TimesOut(t, call_count)

\* The channel is released and BLEPeripheralTimeoutError raised.
Timeout(t) == TimesOut(t, call_count - 1)

\* The caller's task is cancelled at an await (task.cancel(), asyncio.timeout):
\* CancelledError is caught nowhere in send_request.
Cancel(t) ==
    /\ pc[t] # "idle"
    /\ cancels < MaxCancel
    /\ pc' = [pc EXCEPT ![t] = "idle"]
    /\ outcome' = [outcome EXCEPT ![t] = "cancelled"]
    /\ cancels' = cancels + 1
    /\ UNCHANGED <<call_count, event, message_context, nreq, unanswered, writeFails,
                   historyVars>>

Step(t) == Enter(t) \/ WriteFirst(t) \/ Reach(t) \/ Written(t) \/ Wake(t) \/ Timeout(t)
Device(r) == Reply(r) \/ NoReply(r)

ChannelNext ==
    \/ \E t \in Caller : Call(t) \/ Step(t) \/ WriteFails(t) \/ Cancel(t)
    \/ \E r \in Request : Device(r)

ChannelSpec == ChannelInit /\ [][ChannelNext]_channelVars

\* The event loop runs every task that can run, and a timer that is armed goes
\* off; the device answers a request or loses it.
FairChannelSpec ==
    /\ ChannelSpec
    /\ \A t \in Caller : WF_channelVars(Step(t))
    /\ \A r \in Request : WF_channelVars(Device(r))

-----------------------------------------------------------------------------
\* The types of the client's fields.
TypeOK ==
    /\ call_count \in Nat
    /\ event \in BOOLEAN
    /\ message_context \in Request \cup {NoMessage}
    /\ pc \in [Caller -> {"idle", "gate", "writing", "cons", "written", "waiting"}]
    /\ nreq \in [Caller -> 0..MaxReq]
    /\ outcome \in [Caller -> {"none", "own", "other", "stale", "timeout", "failed", "cancelled"}]
    /\ unanswered \subseteq Request
    /\ heard \in BOOLEAN
    /\ overdue \in BOOLEAN
    /\ astray \subseteq Request
    /\ cancels \in 0..MaxCancel
    /\ writeFails \in 0..MaxWriteFail

\* At most one caller is between the gate of send_request and its end, whatever
\* is cancelled, fails or times out: frames of two requests are never mixed.
OneInFlight == \A t, u \in Caller : InFlight(t) /\ InFlight(u) => t = u

\* A request never returns on a signal from before it took the channel ("so we
\* don't pick up a stale signal from a previous transaction"), nor with the response
\* to a request that was cancelled or failed, or that is still being made.  It may
\* return with a response that came while it was waiting and belongs to an earlier
\* request; but only after some request had timed out before its answer came.
OwnAnswer ==
    \A t \in Caller :
        /\ outcome[t] # "stale"
        /\ outcome[t] = "other" => overdue

\* A caller that waits at the gate gets through send_request, unless a cancellation
\* or a failing write has left the gate closed.
CallsEnd ==
    \A t \in Caller : pc[t] = "gate" ~> pc[t] = "idle" \/ cancels + writeFails > 0

\* Nothing is answered twice or before it is sent.
AnswersFollow ==
    /\ message_context \notin unanswered
    /\ \A t \in Caller, n \in 0..MaxReq :
            <<t, n>> \in unanswered \cup {message_context} =>
                /\ n <= nreq[t]
                /\ n = nreq[t] => pc[t] \notin {"gate", "writing", "cons"}

\* Why OwnAnswer holds.  What the device can still answer is astray, or the request
\* in flight, or that of a caller who was cancelled or failed and left the gate
\* closed, so that nobody follows.  A signal that a caller can see came since it
\* took the channel, and is to its own request or to an astray one.  Before the
\* first request is overdue none is astray: a caller gets its own.
OnlyCurrentPending ==
    /\ call_count <= 1
    /\ \A t \in Caller : InFlight(t) => call_count = 1
    /\ \A r \in unanswered \ astray :
            /\ call_count = 1
            /\ \A t \in Caller : InFlight(t) => r = Cur(t)
    /\ \A t \in Caller : InFlight(t) /\ event =>
            heard /\ message_context \in astray \cup {Cur(t)}
    /\ astray # {} => overdue

OwnAnswerInv == TypeOK /\ OneInFlight /\ OnlyCurrentPending /\ AnswersFollow /\ OwnAnswer
=============================================================================
