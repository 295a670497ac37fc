--------------------------- MODULE FrameCollector ---------------------------
(***************************************************************************)
(* Reassembly of Mera messages from 20-byte BLE notifications:             *)
(* aquaclean_core/Frames/FrameCollector.py driven by                       *)
(* FrameService.process_data.                                              *)
(*                                                                         *)
(* Every notification is handled by an asyncio task.  All tasks run in one *)
(* event loop, so a task runs alone until it really suspends, and the only *)
(* suspension inside process_data is the GATT write of a control frame     *)
(* (add_frame, "Fire events OUTSIDE the lock").  The variable `running` is *)
(* the task the loop is executing; a task in `sending` is suspended in     *)
(* that write with the data it has still to deliver.                       *)
(*                                                                         *)
(* The bitmap of acknowledged frames (8 bytes, bit i for frame i) is the   *)
(* set of its bits.  The environment of this module is the most general    *)
(* one: any notification at any time, in any order, any number of times.   *)
(***************************************************************************)
EXTENDS Naturals, FiniteSets, Sequences

CONSTANTS
    Task,         \* notification tasks that can be alive together
    NoTask,       \* the event loop is idle
    Payload,      \* frame payloads, told apart only by identity
    Index,        \* frame numbers that can appear in a CONS frame
    Count,        \* frame counts that can appear in a FIRST frame
    BitmapBits,   \* size of the acknowledgement bitmap (64 in the code)
    AckEvery,     \* a control frame goes out after this many frames (4)
    MaxTxn        \* bound: transactions started in one behaviour

ASSUME TaskAssumption == IsFiniteSet(Task) /\ NoTask \notin Task
ASSUME FrameAssumption ==
    /\ Index \subseteq Nat
    /\ Count \subseteq Nat
    /\ BitmapBits \in Nat
    /\ AckEvery \in Nat \ {0}
    /\ MaxTxn \in Nat

VARIABLES
    frame_data,               \* received payloads of the transaction, by frame number
    bitmap,                   \* frame numbers whose bit is set
    expected_frames,
    transaction_in_progress,
    temp_frame_data,          \* frames received outside a transaction, in arrival order
    running,                  \* task the event loop is executing
    todo,                     \* add_frame calls a task has still to make
    sending,                  \* the control frame write a task is suspended in
    txn,                      \* ghost: number of the current transaction
    fired                     \* ghost: TransactionCompleteFC events per transaction

collectorVars == <<frame_data, bitmap, expected_frames, transaction_in_progress,
                   temp_frame_data>>
taskVars == <<running, todo, sending>>
vars == <<collectorVars, taskVars, txn, fired>>

-----------------------------------------------------------------------------
\* Frames, as FrameFactory.CreateFrameFromBytes tells them apart: a FIRST frame
\* (or a SINGLE frame that carries a count) opens a transaction and is frame 0,
\* a CONS frame (or a SINGLE frame that carries an index) continues one.
FirstFrame == [kind : {"FIRST"}, count : Count, payload : Payload]
ConsFrame == [kind : {"CONS"}, index : Index, payload : Payload]
Frame == FirstFrame \cup ConsFrame

\* One pending add_frame(frame_index, payload) call.
Call == [index : Nat, payload : Payload]

\* Dict assignment: a key that is present keeps its place in the order.
PutTemp(i, p) ==
    IF \E k \in DOMAIN temp_frame_data : temp_frame_data[k].index = i
    THEN [k \in DOMAIN temp_frame_data |->
            IF temp_frame_data[k].index = i THEN [index |-> i, payload |-> p]
            ELSE temp_frame_data[k]]
    ELSE Append(temp_frame_data, [index |-> i, payload |-> p])

PutFrame(i, p) ==
    [k \in DOMAIN frame_data \cup {i} |-> IF k = i THEN p ELSE frame_data[k]]

\* A suspended or absent write.  `done` is the number of the transaction whose
\* complete data the task will deliver after the write, 0 when there is none.
NoWrite == [active |-> FALSE, bits |-> {}, done |-> 0, data |-> <<>>]

Idle(t) == t # running /\ todo[t] = <<>> /\ ~sending[t].active

-----------------------------------------------------------------------------
Init ==
    /\ frame_data = <<>>
    /\ bitmap = {}
    /\ expected_frames = 0
    /\ transaction_in_progress = FALSE
    /\ temp_frame_data = <<>>
    /\ running = NoTask
    /\ todo = [t \in Task |-> <<>>]
    /\ sending = [t \in Task |-> NoWrite]
    /\ txn = 0
    /\ fired = [k \in 1..MaxTxn |-> 0]

\* A new transaction of n frames begins, and task t has some calls to make.
Reset(t, n, frames, bits, calls) ==
    /\ frame_data' = frames
    /\ expected_frames' = n
    /\ bitmap' = bits
    /\ transaction_in_progress' = TRUE
    /\ temp_frame_data' = <<>>
    /\ todo' = [todo EXCEPT ![t] = calls]
    /\ txn' = txn + 1

FirstCall(payload) == <<[index |-> 0, payload |-> payload]>>

\* Mutated form: the bitmap is not reset.
StartTransactionKeepsBitmap(t, n, payload) ==
    Reset(t, n, <<>>, bitmap, temp_frame_data \o FirstCall(payload))

\* start_transaction(n): everything is reset and the buffered frames are taken
\* out; the task goes on with add_frame for each of them, then for its own frame.
StartTransaction(t, n, payload) ==
    Reset(t, n, <<>>, {}, temp_frame_data \o FirstCall(payload))

\* process_data for a frame that opens a transaction.
ProcessFirst(t, f) ==
    /\ running = NoTask
    /\ Idle(t)
    /\ txn < MaxTxn
    /\ StartTransaction(t, f.count, f.payload)
    /\ running' = t
    /\ UNCHANGED <<sending, fired>>

\* process_data for a frame that continues one.
ProcessCons(t, f) ==
    /\ running = NoTask
    /\ Idle(t)
    /\ todo' = [todo EXCEPT ![t] = <<[index |-> f.index, payload |-> f.payload]>>]
    /\ running' = t
    /\ UNCHANGED <<collectorVars, sending, txn, fired>>

\* process_data: dispatch on the frame type.
ProcessData(t, f) ==
    \/ f.kind = "FIRST" /\ ProcessFirst(t, f)
    \/ f.kind = "CONS" /\ ProcessCons(t, f)

\* The rest of task t after the add_frame at the head of todo returned.
Continue(t) ==
    /\ todo' = [todo EXCEPT ![t] = Tail(@)]
    /\ running' = IF Len(todo[t]) = 1 THEN NoTask ELSE t

\* Mutated form: the exception leaves the collector's lock held.
RaiseKeepsLock(t) ==
    /\ todo' = [todo EXCEPT ![t] = <<>>]
    /\ UNCHANGED running

\* An exception leaves process_data: the task is gone, what it still had to do too.
Raise(t) ==
    /\ todo' = [todo EXCEPT ![t] = <<>>]
    /\ running' = NoTask

\* add_frame outside a transaction: buffer the frame and return.
BufferFrame(t) ==
    /\ running = t /\ todo[t] # <<>>
    /\ ~transaction_in_progress
    /\ temp_frame_data' = PutTemp(Head(todo[t]).index, Head(todo[t]).payload)
    /\ Continue(t)
    /\ UNCHANGED <<frame_data, bitmap, expected_frames, transaction_in_progress,
                   sending, txn, fired>>

\* set_bitmap indexes bitmap[frame_number // 8] of 8 bytes: beyond the last bit
\* it raises, after the payload has been stored.
OverflowFrame(t) ==
    /\ running = t /\ todo[t] # <<>>
    /\ transaction_in_progress
    /\ Head(todo[t]).index >= BitmapBits
    /\ frame_data' = PutFrame(Head(todo[t]).index, Head(todo[t]).payload)
    /\ Raise(t)
    /\ UNCHANGED <<bitmap, expected_frames, transaction_in_progress,
                   temp_frame_data, sending, txn, fired>>

\* The payload and its bit are stored.
StoreFrame(c) ==
    /\ c.index < BitmapBits
    /\ frame_data' = PutFrame(c.index, c.payload)
    /\ bitmap' = bitmap \cup {c.index}

\* Mutated form: the frames are counted before the new one is stored.
StoredBefore == Cardinality(DOMAIN frame_data)

Stored == Cardinality(DOMAIN frame_data')

\* add_frame inside a transaction, message not complete: every AckEvery frames
\* the task suspends in the write of a control frame.
AddPartial(t) ==
    /\ running = t /\ todo[t] # <<>>
    /\ transaction_in_progress
    /\ StoreFrame(Head(todo[t]))
    /\ Stored # expected_frames
    /\ \/ /\ Stored % AckEvery = 0
          /\ sending' = [sending EXCEPT ![t] =
                [active |-> TRUE, bits |-> bitmap', done |-> 0, data |-> <<>>]]
          /\ todo' = [todo EXCEPT ![t] = Tail(@)]
          /\ running' = NoTask
       \/ /\ Stored % AckEvery # 0
          /\ Continue(t)
          /\ UNCHANGED sending
    /\ UNCHANGED <<expected_frames, transaction_in_progress, temp_frame_data, txn, fired>>

\* The message is complete: the task suspends in the last control frame.
Complete(t, bits, open) ==
    /\ running = t /\ todo[t] # <<>>
    /\ transaction_in_progress
    /\ StoreFrame(Head(todo[t]))
    /\ Stored = expected_frames
    /\ \A i \in 0..(expected_frames - 1) : i \in DOMAIN frame_data'
    /\ transaction_in_progress' = open
    /\ temp_frame_data' = <<>>
    /\ sending' = [sending EXCEPT ![t] =
            [active |-> TRUE, bits |-> bits, done |-> txn, data |-> frame_data']]
    /\ todo' = [todo EXCEPT ![t] = Tail(@)]
    /\ running' = NoTask
    /\ UNCHANGED <<expected_frames, txn, fired>>

\* Mutated forms: the last control frame carries the bitmap without the last frame;
\* transaction_in_progress stays set.
AddLastStaleBitmap(t) == Complete(t, bitmap, FALSE)
AddLastStaysOpen(t) == Complete(t, bitmap \cup {Head(todo[t]).index}, TRUE)

\* add_frame that completes the message: the payloads are joined in frame order and
\* the transaction ends.
AddLast(t) == Complete(t, bitmap \cup {Head(todo[t]).index}, FALSE)

\* As many frames as expected, but not the expected ones: self.frame_data[i]
\* raises KeyError with the transaction still open and no control frame sent.
AddKeyError(t) ==
    /\ running = t /\ todo[t] # <<>>
    /\ transaction_in_progress
    /\ StoreFrame(Head(todo[t]))
    /\ Stored = expected_frames
    /\ \E i \in 0..(expected_frames - 1) : i \notin DOMAIN frame_data'
    /\ Raise(t)
    /\ UNCHANGED <<expected_frames, transaction_in_progress, temp_frame_data,
                   sending, txn, fired>>

\* The control frame is written (on_send_control_frame); a complete message is
\* handed to TransactionCompleteFC, then the task goes on with its other calls.
ControlSent(t) ==
    /\ running = NoTask
    /\ sending[t].active
    /\ sending' = [sending EXCEPT ![t] = NoWrite]
    /\ fired' = IF sending[t].done = 0 THEN fired
                ELSE [fired EXCEPT ![sending[t].done] = @ + 1]
    /\ running' = IF todo[t] = <<>> THEN NoTask ELSE t
    /\ UNCHANGED <<collectorVars, todo, txn>>

\* write_gatt_char raised: the exception passes add_frame before the
\* TransactionCompleteFC event, a complete message is dropped.
ControlFailed(t) ==
    /\ running = NoTask
    /\ sending[t].active
    /\ sending' = [sending EXCEPT ![t] = NoWrite]
    /\ Raise(t)
    /\ UNCHANGED <<collectorVars, txn, fired>>

TaskStep(t) ==
    \/ BufferFrame(t)
    \/ OverflowFrame(t)
    \/ AddPartial(t)
    \/ AddLast(t)
    \/ AddKeyError(t)
    \/ ControlSent(t)
    \/ ControlFailed(t)

Next ==
    \E t \in Task :
        \/ \E f \in Frame : ProcessData(t, f)
        \/ TaskStep(t)

Spec == Init /\ [][Next]_vars

-----------------------------------------------------------------------------
\* The types of the collector's fields and of the tasks' local state.
TypeOK ==
    /\ DOMAIN frame_data \subseteq Nat
    /\ IsFiniteSet(DOMAIN frame_data)
    /\ \A i \in DOMAIN frame_data : frame_data[i] \in Payload
    /\ bitmap \subseteq Nat
    /\ expected_frames \in Nat
    /\ transaction_in_progress \in BOOLEAN
    /\ temp_frame_data \in Seq(Call)
    /\ running \in Task \cup {NoTask}
    /\ todo \in [Task -> Seq(Call)]
    /\ sending = [t \in Task |-> sending[t]]
    /\ \A t \in Task : /\ sending[t].active \in BOOLEAN
                       /\ sending[t].bits \subseteq Nat
                       /\ sending[t].done \in 0..MaxTxn
    /\ txn \in 0..MaxTxn
    /\ fired \in [1..MaxTxn -> Nat]

\* The bitmap that a control frame acknowledges is exactly the set of frames the
\* collector holds, as far as the bitmap reaches: set_bitmap and frame_data never
\* drift apart, whatever replay, overflow or exception happens in add_frame.
BitmapExact == bitmap = {i \in DOMAIN frame_data : i < BitmapBits}

\* A transaction that holds exactly its frames has been completed: add_frame never
\* leaves a whole message lying in frame_data (only a message with more frames
\* than the bitmap has bits, or with no frame at all, may be stuck).
CompleteIsNoticed ==
    transaction_in_progress /\ expected_frames \in 1..BitmapBits
        => DOMAIN frame_data # 0..(expected_frames - 1)

\* TransactionCompleteFC fires at most once for every start_transaction, although
\* frames are duplicated and several tasks are suspended in control frame writes.
AtMostOnce == \A k \in 1..MaxTxn : fired[k] <= 1

\* What the notification tasks still hold is consistent with the transactions: a
\* completion waiting behind its control frame belongs to a closed transaction,
\* to no other task, and has not been announced.
HeldOnce ==
    \A t \in Task : sending[t].active /\ sending[t].done # 0 =>
        /\ sending[t].done <= txn
        /\ sending[t].done = txn => ~transaction_in_progress
        /\ fired[sending[t].done] = 0
        /\ \A u \in Task \ {t} : sending[u].active => sending[u].done # sending[t].done

\* Transactions that are open or still to come have not been announced.
OpenNotFired ==
    \A k \in 1..MaxTxn : k > txn \/ (k = txn /\ transaction_in_progress) => fired[k] = 0

\* An open transaction has a number; the running task is not suspended.
TasksConsistent ==
    /\ transaction_in_progress => txn # 0
    /\ running # NoTask => ~sending[running].active

\* The inductive invariant: what the collector promises, and the bookkeeping of
\* the suspended tasks that it rests on.
CollectorInv ==
    /\ TypeOK
    /\ BitmapExact
    /\ CompleteIsNoticed
    /\ AtMostOnce
    /\ HeldOnce
    /\ OpenNotFired
    /\ TasksConsistent
=============================================================================
