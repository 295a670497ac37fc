------------------------------ MODULE MeraLink ------------------------------
(***************************************************************************)
(* One BLE link to a Mera: the bridge's frame layer (FrameCollector), a    *)
(* caller that makes one request after the other with send_request, and    *)
(* the peripheral as the repository implements it, GeberitService of       *)
(* aquaclean_ble_relay/mera_mock.py, which answers with the frames of a    *)
(* response and retransmits what a control frame reports as missing.       *)
(*                                                                         *)
(* The peripheral serialises its handlers with _request_lock, so `pushing` *)
(* is the rest of the one handler that holds it.  Frames travel on four    *)
(* notify characteristics.  A behaviour has one of two kinds of air: in    *)
(* "good" air nothing is lost but frames overtake one another, in "lossy"  *)
(* air they keep their order and up to MaxLost of them are swallowed.  An  *)
(* exchange takes less than the 5 s of send_request: a request times out   *)
(* only when nothing is under way.                                         *)
(***************************************************************************)
EXTENDS FrameCollector

CONSTANTS
    Requests,       \* number of requests the caller makes
    FrameCounts,    \* frame counts a response can have in good air
    LossyCounts,    \* ... and in lossy air
    MaxRetransmit,  \* retransmissions before the peripheral gives up (3)
    MaxLost         \* bound: notifications lost in one behaviour

ASSUME LinkAssumption ==
    /\ Requests \in Nat
    /\ FrameCounts \cup LossyCounts \subseteq Nat \ {0}
    /\ MaxRetransmit \in Nat
    /\ MaxLost \in Nat

\* The collector knows the frames of every response.
ASSUME ResponseAssumption ==
    \A n \in FrameCounts \cup LossyCounts :
        /\ n \in Count /\ 1..(n - 1) \subseteq Index
        /\ [msg : 1..Requests, idx : 0..(n - 1)] \subseteq Payload

VARIABLES
    air,             \* "good" or "lossy"
    nframes,         \* nframes[k]: frames of the response to request k
    req,             \* number of the latest request
    event,           \* _transaction_event of AquaCleanBaseClient
    message_context, \* the last complete message
    answers,         \* per request: Pending, TimedOut, or the data it returned
    toDev,           \* bytes written by the bridge, in order
    toApp,           \* notifications on their way to the bridge
    last_a5,         \* _last_a5_frames: number of the response and its frame count
    retransmits,     \* _retransmit_count
    pushing,         \* frame numbers the lock holder has still to push
    lost

linkVars == <<air, nframes, req, event, message_context, answers, toDev, toApp,
              last_a5, retransmits, pushing, lost>>
allVars == <<vars, linkVars>>

Pending == <<"pending">>
TimedOut == <<"timeout">>
NoFrames == [msg |-> 0, n |-> 0]
Waiting == req > 0 /\ answers[req] = Pending

\* The wire form of frame i of response m (_build_frames): frame 0 carries the
\* frame count, the others their number.
FrameOf(m, i) ==
    IF i = 0
    THEN [kind |-> "FIRST", count |-> nframes[m], payload |-> [msg |-> m, idx |-> 0]]
    ELSE [kind |-> "CONS", index |-> i, payload |-> [msg |-> m, idx |-> i]]

LinkInit ==
    /\ Init
    /\ air \in {"good", "lossy"}
    /\ nframes \in [1..Requests -> IF air = "good" THEN FrameCounts ELSE LossyCounts]
    /\ req = 0
    /\ event = FALSE
    /\ message_context = Pending
    /\ answers = [k \in 1..Requests |-> Pending]
    /\ toDev = <<>>
    /\ toApp = <<>>
    /\ last_a5 = NoFrames
    /\ retransmits = 0
    /\ pushing = {}
    /\ lost = 0

-----------------------------------------------------------------------------
\* The bridge.

\* send_request up to its wait: the event is cleared and the frame written.
SendRequest ==
    /\ req < Requests /\ ~Waiting
    /\ running = NoTask
    /\ req' = req + 1
    /\ event' = FALSE
    /\ toDev' = Append(toDev, [kind |-> "REQ", msg |-> req + 1])
    /\ UNCHANGED <<vars, air, nframes, message_context, answers, toApp, last_a5, retransmits,
                   pushing, lost>>

\* send_request after its wait: the caller reads message_context.
ReceiveAnswer ==
    /\ Waiting /\ event
    /\ running = NoTask
    /\ answers' = [answers EXCEPT ![req] = message_context]
    /\ UNCHANGED <<vars, air, nframes, req, event, message_context, toDev, toApp, last_a5,
                   retransmits, pushing, lost>>

\* Nothing is on its way and no handler is active at either end.
Quiet ==
    /\ toDev = <<>> /\ toApp = <<>> /\ pushing = {}
    /\ \A t \in Task : Idle(t)

\* asyncio.wait_for runs into its timeout.
Timeout ==
    /\ Waiting /\ ~event
    /\ Quiet
    /\ answers' = [answers EXCEPT ![req] = TimedOut]
    /\ UNCHANGED <<vars, air, nframes, req, event, message_context, toDev, toApp, last_a5,
                   retransmits, pushing, lost>>

\* A notification reaches a task of its own.
Notify(t) ==
    \E k \in DOMAIN toApp :
        /\ k = 1 \/ air = "good"
        /\ ProcessData(t, toApp[k])
        /\ toApp' = SubSeq(toApp, 1, k - 1) \o SubSeq(toApp, k + 1, Len(toApp))
        /\ UNCHANGED <<air, nframes, req, event, message_context, answers, toDev, last_a5,
                       retransmits, pushing, lost>>

\* The collector works on; a written control frame is on its way to the
\* peripheral, a complete message is parsed and wakes the caller
\* (on_transaction_completeForBaseClient).
Collect(t) ==
    \/ /\ \/ BufferFrame(t) \/ AddPartial(t) \/ AddLast(t) \/ AddKeyError(t)
       /\ UNCHANGED linkVars
    \/ /\ ControlSent(t)
       /\ toDev' = Append(toDev, [kind |-> "CTRL", bits |-> sending[t].bits])
       /\ message_context' = IF sending[t].done = 0 THEN message_context
                             ELSE sending[t].data
       /\ event' = (event \/ sending[t].done # 0)
       /\ UNCHANGED <<air, nframes, req, answers, toApp, last_a5, retransmits, pushing, lost>>

-----------------------------------------------------------------------------
\* The peripheral.

\* _handle_request for a request, up to the pushes of _on_request_reassembled.
HandleRequest ==
    /\ pushing = {} /\ toDev # <<>>
    /\ Head(toDev).kind = "REQ"
    /\ LET m == Head(toDev).msg IN
        /\ last_a5' = [msg |-> m, n |-> nframes[m]]
        /\ pushing' = 0..(nframes[m] - 1)
    /\ retransmits' = 0
    /\ toDev' = Tail(toDev)
    /\ UNCHANGED <<vars, air, nframes, req, event, message_context, answers, toApp, lost>>

\* _handle_request for a control frame: only the first bitmap byte is looked at.
Acked == Head(toDev).bits \cap 0..7
Missing == 0..(last_a5.n - 1) \ Acked

AllAcked == Acked = 0..(last_a5.n - 1)

HandleControl ==
    /\ pushing = {} /\ toDev # <<>>
    /\ Head(toDev).kind = "CTRL"
    /\ toDev' = Tail(toDev)
    /\ \/ /\ last_a5.n = 0
          /\ UNCHANGED <<last_a5, retransmits, pushing>>
       \/ /\ last_a5.n > 0
          /\ AllAcked \/ retransmits >= MaxRetransmit
          /\ last_a5' = NoFrames
          /\ retransmits' = 0
          /\ UNCHANGED pushing
       \/ /\ last_a5.n > 0
          /\ ~AllAcked /\ retransmits < MaxRetransmit
          /\ retransmits' = retransmits + 1
          /\ pushing' = Missing
          /\ UNCHANGED last_a5
    /\ UNCHANGED <<vars, air, nframes, req, event, message_context, answers, toApp, lost>>

\* The handler pushes its next frame; it goes through them in ascending order.
Push ==
    /\ \E i \in pushing :
        /\ \A j \in pushing : i <= j
        /\ toApp' = Append(toApp, FrameOf(last_a5.msg, i))
        /\ pushing' = pushing \ {i}
    /\ UNCHANGED <<vars, air, nframes, req, event, message_context, answers, toDev, last_a5,
                   retransmits, lost>>

\* A notification is lost on the air or in the proxy.
Lose ==
    /\ air = "lossy" /\ lost < MaxLost /\ toApp # <<>>
    /\ toApp' = Tail(toApp)
    /\ lost' = lost + 1
    /\ UNCHANGED <<vars, air, nframes, req, event, message_context, answers, toDev, last_a5,
                   retransmits, pushing>>

Bridge == \/ SendRequest \/ ReceiveAnswer \/ Timeout
          \/ \E t \in Task : Notify(t) \/ Collect(t)
Peripheral == HandleRequest \/ HandleControl \/ Push

LinkNext == Bridge \/ Peripheral \/ Lose

\* The event loops at both ends keep running.
LinkSpec ==
    LinkInit /\ [][LinkNext]_allVars /\ WF_allVars(Bridge) /\ WF_allVars(Peripheral)

-----------------------------------------------------------------------------
\* The data of response m: its frames, in order.
Response(m) == [i \in 0..(nframes[m] - 1) |-> [msg |-> m, idx |-> i]]

\* Every request of the caller comes to an end, with data or with a timeout.
RequestsEnd == <>(req = Requests /\ ~Waiting)

\* The link as its caller sees it.
Outcome(k) == IF answers[k] = Pending THEN "none"
              ELSE IF answers[k] = TimedOut THEN "timeout"
              ELSE IF answers[k] = Response(k) THEN "own" ELSE "other"

Abstract == INSTANCE AskAnswer WITH
    fallible <- (air = "lossy"),
    asked <- req,
    outcome <- [k \in 1..Requests |-> Outcome(k)]

\* Requests are answered one at a time and in order, and an answer is never revised;
\* in good air, where frames overtake one another, every request gets its own
\* response and none times out: the frame layer implements AskAnswer.
ImplementsAskAnswer == Abstract!Spec

-----------------------------------------------------------------------------
\* The inductive invariant behind the safety part of ImplementsAskAnswer.

\* In good air a response fits in one acknowledgement, and that in the one bitmap byte
\* the peripheral looks at.  A longer one may be retransmitted although nothing is lost.
ShortResponses ==
    FrameCounts \subseteq 1..AckEvery /\ AckEvery <= 8 /\ 8 <= BitmapBits

AppFrames == UNION {{FrameOf(m, i) : i \in 0..(nframes[m] - 1)} : m \in 1..Requests}
DevFrames == [kind : {"REQ"}, msg : 1..Requests] \cup [kind : {"CTRL"}, bits : SUBSET Nat]

\* What is under way are requests, control frames and frames of responses.
LinkTypeOK ==
    /\ air \in {"good", "lossy"} /\ event \in BOOLEAN
    /\ nframes \in [1..Requests -> IF air = "good" THEN FrameCounts ELSE LossyCounts]
    /\ req \in 0..Requests /\ DOMAIN answers = 1..Requests
    /\ \A k \in 1..Requests : k > req => answers[k] = Pending
    /\ toDev \in Seq(DevFrames) /\ toApp \in Seq(AppFrames)
    /\ \/ last_a5 = NoFrames
       \/ last_a5.msg \in 1..Requests /\ last_a5.n = nframes[last_a5.msg]
    /\ pushing \subseteq 0..(last_a5.n - 1)

\* A complete message has at least a frame 0: it is neither Pending nor TimedOut.
MessagesWhole ==
    /\ event => message_context \notin {Pending, TimedOut}
    /\ transaction_in_progress => expected_frames > 0
    /\ \A t \in Task : sending[t].active /\ sending[t].done # 0 =>
                          sending[t].data \notin {Pending, TimedOut}

\* Where the frames of a response are: on the air, in the calls of the running task,
\* buffered, stored.
Numbers(calls) == {calls[i].index : i \in DOMAIN calls}
InAir == {toApp[i].payload.idx : i \in DOMAIN toApp}
InHand == IF running = NoTask THEN {} ELSE Numbers(todo[running])
InTemp == Numbers(temp_frame_data)
InStore == IF transaction_in_progress THEN DOMAIN frame_data ELSE {}

\* No frame is in two places.
Parted(p, a, h, b, s, n) ==
    /\ p \cup a \cup h \cup b \cup s = 0..(n - 1)
    /\ p \cap a = {} /\ (p \cup a) \cap (h \cup b \cup s) = {} /\ h \cap (b \cup s) = {}

\* The calls are for frames of response m, each for another one.
CallsOf(m, calls) ==
    /\ \A i \in DOMAIN calls : calls[i].payload = [msg |-> m, idx |-> calls[i].index]
    /\ \A i, j \in DOMAIN calls : calls[i].index = calls[j].index => i = j
Distinct(frames) ==
    \A i, j \in DOMAIN frames : frames[i].payload.idx = frames[j].payload.idx => i = j
FramesOf(m) ==
    /\ \A i \in DOMAIN toApp : toApp[i] = FrameOf(m, toApp[i].payload.idx)
    /\ Distinct(toApp)

\* Only the running task has calls to make; no task writes a control frame.
NoCalls == \A t \in Task : t # running => todo[t] = <<>>
NoWrites == \A t \in Task : ~sending[t].active

\* Every frame of response m is in exactly one place; the transaction is open from the
\* moment that frame 0 arrives.
Arriving(m) ==
    /\ toDev = <<>> /\ last_a5.msg = m /\ last_a5.n > 0 /\ ~event /\ NoCalls /\ NoWrites
    /\ Parted(pushing, InAir, InHand, InTemp, InStore, nframes[m])
    /\ FramesOf(m) /\ CallsOf(m, temp_frame_data) /\ \A t \in Task : CallsOf(m, todo[t])
    /\ ~transaction_in_progress => 0 \in pushing \cup InAir
    /\ transaction_in_progress =>
          /\ 0 \notin pushing \cup InAir /\ expected_frames = nframes[m] /\ temp_frame_data = <<>>
          /\ \A i \in DOMAIN frame_data : frame_data[i] = [msg |-> m, idx |-> i]

\* Nothing of a response is left at either end or on the air.
Cleared ==
    /\ pushing = {} /\ toApp = <<>> /\ running = NoTask /\ NoCalls
    /\ ~transaction_in_progress /\ temp_frame_data = <<>>

\* The last control frame of response m is being written.
Completing(m) ==
    /\ Cleared /\ toDev = <<>> /\ last_a5.msg = m /\ last_a5.n > 0 /\ ~event
    /\ \E t \in Task :
        /\ sending[t].active /\ sending[t].done # 0 /\ sending[t].data = Response(m)
        /\ sending[t].bits = 0..(nframes[m] - 1)
        /\ \A u \in Task : sending[u].active => u = t

\* The peripheral has had its acknowledgement, or will find it before the rest.
Settled(rest) ==
    \/ toDev = rest /\ last_a5 = NoFrames
    \/ /\ toDev # <<>> /\ Tail(toDev) = rest /\ last_a5.n > 0
       /\ Head(toDev) = [kind |-> "CTRL", bits |-> 0..(last_a5.n - 1)]

\* The stages of a request in good air.
Asked(m) == Cleared /\ NoWrites /\ ~event /\ Settled(<<[kind |-> "REQ", msg |-> m]>>)
Answered(m) == Cleared /\ NoWrites /\ event /\ message_context = Response(m) /\ Settled(<<>>)
AtRest == Cleared /\ NoWrites /\ Settled(<<>>)

GoodInv ==
    air = "good" =>
        IF Waiting THEN Asked(req) \/ Arriving(req) \/ Completing(req) \/ Answered(req)
        ELSE AtRest
=============================================================================
