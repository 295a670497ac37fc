--------------------------- MODULE MeraLinkProofs ---------------------------
(***************************************************************************)
(* Proofs about the frame layer of a Mera link.  First FrameCollector, for *)
(* every set of notification tasks, every bitmap size and every stream of  *)
(* frames; then MeraLink, which is the collector in one environment: the   *)
(* safety part of its refinement of AskAnswer, for any number of requests, *)
(* tasks, losses and retransmissions.                                      *)
(***************************************************************************)
EXTENDS MeraLink, FiniteSetTheorems, SequenceTheorems, TLAPS

\* Storing a frame (add_frame, set_bitmap) keeps the collector's dictionary finite
\* and adds exactly its number.
LEMMA PutFrameDomain ==
  ASSUME NEW i \in Nat, NEW p \in Payload, TypeOK
  PROVE  /\ DOMAIN PutFrame(i, p) = DOMAIN frame_data \cup {i}
         /\ DOMAIN PutFrame(i, p) \subseteq Nat
         /\ IsFiniteSet(DOMAIN PutFrame(i, p))
         /\ \A k \in DOMAIN PutFrame(i, p) : PutFrame(i, p)[k] \in Payload
<1>1. IsFiniteSet(DOMAIN frame_data \cup {i})
  BY FS_AddElement DEF TypeOK
<1>2. QED
  BY <1>1 DEF PutFrame, TypeOK

\* Buffering a frame (temp_frame_data[frame_index] = payload) keeps the buffer a
\* sequence of calls.
LEMMA PutTempType ==
  ASSUME NEW i \in Nat, NEW p \in Payload, TypeOK
  PROVE  PutTemp(i, p) \in Seq(Call)
<1> DEFINE c == [index |-> i, payload |-> p]
           q == temp_frame_data
<1>1. c \in Call /\ q \in Seq(Call)
  BY DEF TypeOK, Call
<1>2. CASE \E k \in DOMAIN q : q[k].index = i
  <2>1. PutTemp(i, p) = [k \in DOMAIN q |-> IF q[k].index = i THEN c ELSE q[k]]
    BY <1>2 DEF PutTemp
  <2>2. DOMAIN q = 1..Len(q) /\ Len(q) \in Nat /\ \A k \in 1..Len(q) : q[k] \in Call
    BY <1>1
  <2>3. PutTemp(i, p) \in [1..Len(q) -> Call]
    BY <1>1, <2>1, <2>2
  <2>4. QED
    BY <2>2, <2>3
<1>3. CASE ~\E k \in DOMAIN q : q[k].index = i
  <2>1. PutTemp(i, p) = Append(q, c)
    BY <1>3 DEF PutTemp
  <2>2. QED
    BY <1>1, <2>1
<1>4. QED
  BY <1>2, <1>3

\* A complete message has as many frames as the transaction expects.
LEMMA IntervalSize ==
  ASSUME NEW n \in Nat
  PROVE  Cardinality(0..(n - 1)) = n
  BY FS_Interval

\* The head of a non-empty list of calls is a call, the rest a list of calls.
LEMMA TodoHead ==
  ASSUME TypeOK, NEW t \in Task, todo[t] # <<>>
  PROVE  /\ Head(todo[t]).index \in Nat
         /\ Head(todo[t]).payload \in Payload
         /\ Tail(todo[t]) \in Seq(Call)
<1>1. todo[t] \in Seq(Call)
  BY DEF TypeOK
<1>2. Head(todo[t]) \in Call /\ Tail(todo[t]) \in Seq(Call)
  BY <1>1
<1>3. QED
  BY <1>2 DEF Call

\* The invariant holds when the collector is created.
LEMMA InvInit == Init => CollectorInv
<1> SUFFICES ASSUME Init PROVE CollectorInv
  OBVIOUS
<1> USE FrameAssumption, TaskAssumption DEF Init, NoWrite
<1>1. DOMAIN frame_data = {}
  OBVIOUS
<1>2. IsFiniteSet(DOMAIN frame_data) /\ DOMAIN frame_data = {}
  BY <1>1, FS_EmptySet
<1>3. TypeOK
  <2>1. temp_frame_data \in Seq(Call) /\ todo \in [Task -> Seq(Call)]
    OBVIOUS
  <2>2. /\ sending = [t \in Task |-> sending[t]]
        /\ \A t \in Task : sending[t] = NoWrite
    OBVIOUS
  <2>3. \A t \in Task : /\ sending[t].active \in BOOLEAN
                         /\ sending[t].bits \subseteq Nat
                         /\ sending[t].done \in 0..MaxTxn
    <3>1. ASSUME NEW t \in Task
          PROVE  sending[t].active = FALSE /\ sending[t].bits = {} /\ sending[t].done = 0
      BY <2>2
    <3>2. {} \subseteq Nat /\ 0 \in 0..MaxTxn /\ FALSE \in BOOLEAN
      OBVIOUS
    <3>3. QED
      BY <3>1, <3>2, Zenon
  <2>4. fired \in [1..MaxTxn -> Nat] /\ txn \in 0..MaxTxn
    OBVIOUS
  <2>5. QED
    BY <1>2, <2>1, <2>2, <2>3, <2>4 DEF TypeOK
<1>4. QED
  BY <1>2, <1>3 DEF CollectorInv, BitmapExact, CompleteIsNoticed, AtMostOnce,
                    HeldOnce, OpenNotFired, TasksConsistent

\* What StoreFrame does to the parts of the invariant that look at the frames.
LEMMA StoreFrameFacts ==
  ASSUME CollectorInv, NEW c, c.index \in Nat, c.payload \in Payload, StoreFrame(c)
  PROVE  /\ DOMAIN frame_data' = DOMAIN frame_data \cup {c.index}
         /\ DOMAIN frame_data' \subseteq Nat
         /\ IsFiniteSet(DOMAIN frame_data')
         /\ \A k \in DOMAIN frame_data' : frame_data'[k] \in Payload
         /\ bitmap' \subseteq Nat
         /\ BitmapExact'
<1>1. /\ DOMAIN frame_data' = DOMAIN frame_data \cup {c.index}
      /\ DOMAIN frame_data' \subseteq Nat
      /\ IsFiniteSet(DOMAIN frame_data')
      /\ \A k \in DOMAIN frame_data' : frame_data'[k] \in Payload
  BY PutFrameDomain DEF StoreFrame, CollectorInv
<1>2. bitmap' \subseteq Nat
  BY DEF StoreFrame, CollectorInv, TypeOK
<1>3. BitmapExact'
  BY <1>1 DEF StoreFrame, CollectorInv, BitmapExact
<1>4. QED
  BY <1>1, <1>2, <1>3

\* The conjuncts of the invariant that do not look at the frames depend only on
\* the variables below.
LEMMA BookkeepingStable ==
  ASSUME CollectorInv, UNCHANGED <<transaction_in_progress, sending, txn, fired>>,
         running' = NoTask \/ running' = running
  PROVE  AtMostOnce' /\ HeldOnce' /\ OpenNotFired' /\ TasksConsistent'
  BY DEF CollectorInv, AtMostOnce, HeldOnce, OpenNotFired, TasksConsistent

\* start_transaction and the dispatch of a FIRST frame keep the invariant.
LEMMA ProcessFirstStep ==
  ASSUME CollectorInv, NEW t \in Task, NEW f \in FirstFrame, ProcessFirst(t, f)
  PROVE  CollectorInv'
<1> USE FrameAssumption, TaskAssumption DEF ProcessFirst, StartTransaction, Reset, FirstCall
<1>1. f.count \in Nat /\ f.payload \in Payload
  BY DEF FirstFrame
<1>2. DOMAIN frame_data' = {} /\ IsFiniteSet(DOMAIN frame_data')
  BY FS_EmptySet
<1>3. [index |-> 0, payload |-> f.payload] \in Call
  BY <1>1 DEF Call
<1>4. todo' \in [Task -> Seq(Call)]
  <2>1. <<[index |-> 0, payload |-> f.payload]>> \in Seq(Call)
    BY <1>3
  <2>2. temp_frame_data \in Seq(Call) /\ todo \in [Task -> Seq(Call)]
    BY DEF CollectorInv, TypeOK
  <2>3. temp_frame_data \o <<[index |-> 0, payload |-> f.payload]>> \in Seq(Call)
    BY <2>1, <2>2
  <2>4. QED
    BY <2>2, <2>3
<1>5. txn \in Nat /\ txn' = txn + 1 /\ txn' \in 0..MaxTxn
  BY DEF CollectorInv, TypeOK
<1>6. TypeOK'
  BY <1>1, <1>2, <1>4, <1>5 DEF CollectorInv, TypeOK
<1>7. BitmapExact'
  BY <1>2 DEF BitmapExact
<1>8. CompleteIsNoticed'
  <2>1. \A n \in 1..BitmapBits : 0 \in 0..(n - 1)
    OBVIOUS
  <2>2. QED
    BY <1>2, <2>1 DEF CompleteIsNoticed
<1>9. AtMostOnce'
  BY DEF CollectorInv, AtMostOnce
<1>10. HeldOnce'
  <2>1. \A u \in Task : sending[u].done \in 0..MaxTxn
    BY DEF CollectorInv, TypeOK
  <2>2. QED
    BY <1>5, <2>1 DEF CollectorInv, HeldOnce
<1>11. OpenNotFired'
  BY <1>5 DEF CollectorInv, OpenNotFired
<1>12. TasksConsistent'
  BY <1>5 DEF CollectorInv, TasksConsistent, Idle
<1>13. QED
  BY <1>6, <1>7, <1>8, <1>9, <1>10, <1>11, <1>12 DEF CollectorInv

\* The dispatch of a CONS frame keeps the invariant.
LEMMA ProcessConsStep ==
  ASSUME CollectorInv, NEW t \in Task, NEW f \in ConsFrame, ProcessCons(t, f)
  PROVE  CollectorInv'
<1> USE FrameAssumption, TaskAssumption DEF ProcessCons, collectorVars
<1>1. f.index \in Nat /\ f.payload \in Payload
  BY DEF ConsFrame
<1>2. <<[index |-> f.index, payload |-> f.payload]>> \in Seq(Call)
  BY <1>1 DEF Call
<1>3. TypeOK'
  BY <1>2 DEF CollectorInv, TypeOK
<1>4. BitmapExact' /\ CompleteIsNoticed'
  BY DEF CollectorInv, BitmapExact, CompleteIsNoticed
<1>5. AtMostOnce' /\ HeldOnce' /\ OpenNotFired' /\ TasksConsistent'
  BY DEF CollectorInv, AtMostOnce, HeldOnce, OpenNotFired, TasksConsistent, Idle
<1>6. QED
  BY <1>3, <1>4, <1>5 DEF CollectorInv

\* add_frame outside a transaction keeps the invariant.
LEMMA BufferFrameStep ==
  ASSUME CollectorInv, NEW t \in Task, BufferFrame(t)
  PROVE  CollectorInv'
<1> USE DEF BufferFrame, Continue
<1>1. TypeOK'
  <2>1. temp_frame_data' \in Seq(Call)
    BY TodoHead, PutTempType DEF CollectorInv
  <2>2. todo' \in [Task -> Seq(Call)] /\ running' \in Task \cup {NoTask}
    BY TodoHead DEF CollectorInv, TypeOK
  <2>3. QED
    BY <2>1, <2>2 DEF CollectorInv, TypeOK
<1>2. BitmapExact' /\ CompleteIsNoticed'
  BY DEF CollectorInv, BitmapExact, CompleteIsNoticed
<1>3. AtMostOnce' /\ HeldOnce' /\ OpenNotFired' /\ TasksConsistent'
  BY BookkeepingStable
<1>4. QED
  BY <1>1, <1>2, <1>3 DEF CollectorInv

\* A frame number beyond the bitmap keeps the invariant.
LEMMA OverflowFrameStep ==
  ASSUME CollectorInv, NEW t \in Task, OverflowFrame(t)
  PROVE  CollectorInv'
<1> USE FrameAssumption DEF OverflowFrame, Raise
<1> DEFINE i == Head(todo[t]).index
<1>1. /\ i \in Nat /\ i >= BitmapBits
      /\ DOMAIN frame_data' = DOMAIN frame_data \cup {i}
      /\ DOMAIN frame_data' \subseteq Nat
      /\ IsFiniteSet(DOMAIN frame_data')
      /\ \A k \in DOMAIN frame_data' : frame_data'[k] \in Payload
  BY TodoHead, PutFrameDomain DEF CollectorInv
<1>2. TypeOK'
  <2>1. <<>> \in Seq(Call)
    OBVIOUS
  <2>2. QED
    BY <1>1, <2>1 DEF CollectorInv, TypeOK
<1>3. BitmapExact'
  BY <1>1 DEF CollectorInv, BitmapExact
<1>4. CompleteIsNoticed'
  <2>1. \A n \in 1..BitmapBits : i \notin 0..(n - 1)
    BY <1>1
  <2>2. QED
    BY <1>1, <2>1 DEF CompleteIsNoticed
<1>5. AtMostOnce' /\ HeldOnce' /\ OpenNotFired' /\ TasksConsistent'
  BY BookkeepingStable
<1>6. QED
  BY <1>2, <1>3, <1>4, <1>5 DEF CollectorInv

\* What every add_frame inside a transaction establishes about the frames.
LEMMA AddFrameFacts ==
  ASSUME CollectorInv, NEW t \in Task, todo[t] # <<>>, StoreFrame(Head(todo[t]))
  PROVE  /\ DOMAIN frame_data' \subseteq Nat
         /\ IsFiniteSet(DOMAIN frame_data')
         /\ \A k \in DOMAIN frame_data' : frame_data'[k] \in Payload
         /\ bitmap' \subseteq Nat
         /\ BitmapExact'
         /\ Tail(todo[t]) \in Seq(Call)
<1>1. TypeOK
  BY DEF CollectorInv
<1>2. Head(todo[t]).index \in Nat /\ Head(todo[t]).payload \in Payload
  BY <1>1, TodoHead
<1>3. Tail(todo[t]) \in Seq(Call)
  BY <1>1, TodoHead
<1>4. QED
  BY <1>2, <1>3, StoreFrameFacts

\* A task that suspends in a control frame write without a complete message.
LEMMA AddPartialStep ==
  ASSUME CollectorInv, NEW t \in Task, AddPartial(t)
  PROVE  CollectorInv'
<1> USE FrameAssumption, TaskAssumption DEF AddPartial, Continue
<1>1. /\ DOMAIN frame_data' \subseteq Nat /\ IsFiniteSet(DOMAIN frame_data')
      /\ \A k \in DOMAIN frame_data' : frame_data'[k] \in Payload
      /\ bitmap' \subseteq Nat /\ BitmapExact' /\ Tail(todo[t]) \in Seq(Call)
  BY AddFrameFacts
<1>2. CompleteIsNoticed'
  <2>1. expected_frames \in Nat
    BY DEF CollectorInv, TypeOK
  <2>2. DOMAIN frame_data' # 0..(expected_frames - 1)
    BY <2>1, IntervalSize DEF Stored
  <2>3. QED
    BY <2>2 DEF CompleteIsNoticed
<1>3. todo' \in [Task -> Seq(Call)] /\ running' \in Task \cup {NoTask}
  BY <1>1 DEF CollectorInv, TypeOK
<1>4. CASE sending' = sending
  <2>1. TypeOK'
    BY <1>1, <1>3, <1>4 DEF CollectorInv, TypeOK
  <2>2. AtMostOnce' /\ HeldOnce' /\ OpenNotFired' /\ TasksConsistent'
    BY <1>4, BookkeepingStable
  <2>3. QED
    BY <1>1, <1>2, <2>1, <2>2 DEF CollectorInv
<1>5. CASE /\ sending' = [sending EXCEPT ![t] =
                  [active |-> TRUE, bits |-> bitmap', done |-> 0, data |-> <<>>]]
           /\ running' = NoTask
  <2>1. /\ sending' = [u \in Task |-> sending'[u]]
        /\ sending'[t] = [active |-> TRUE, bits |-> bitmap', done |-> 0, data |-> <<>>]
        /\ \A u \in Task : u # t => sending'[u] = sending[u]
    BY <1>5 DEF CollectorInv, TypeOK
  <2>2. sending'[t].active = TRUE /\ sending'[t].bits = bitmap' /\ sending'[t].done = 0
    BY <2>1
  <2>3. \A u \in Task : /\ sending'[u].active \in BOOLEAN
                         /\ sending'[u].bits \subseteq Nat
                         /\ sending'[u].done \in 0..MaxTxn
    <3>1. TRUE \in BOOLEAN /\ 0 \in 0..MaxTxn
      OBVIOUS
    <3>2. /\ sending'[t].active \in BOOLEAN /\ sending'[t].bits \subseteq Nat
          /\ sending'[t].done \in 0..MaxTxn
      BY <1>1, <2>2, <3>1, Zenon
    <3>3. ASSUME NEW u \in Task, u # t
          PROVE  /\ sending'[u].active \in BOOLEAN /\ sending'[u].bits \subseteq Nat
                 /\ sending'[u].done \in 0..MaxTxn
      BY <2>1, <3>3 DEF CollectorInv, TypeOK
    <3>4. QED
      BY <3>2, <3>3
  <2>4. TypeOK'
    BY <1>1, <1>3, <2>1, <2>3 DEF CollectorInv, TypeOK
  <2>5. HeldOnce'
    BY <2>1, <2>2 DEF CollectorInv, HeldOnce
  <2>6. AtMostOnce' /\ OpenNotFired' /\ TasksConsistent'
    BY <1>5 DEF CollectorInv, AtMostOnce, OpenNotFired, TasksConsistent
  <2>7. QED
    BY <1>1, <1>2, <2>4, <2>5, <2>6 DEF CollectorInv
<1>6. QED
  BY <1>4, <1>5

\* A completed message: the transaction closes and its number moves into the
\* suspended write.
LEMMA AddLastStep ==
  ASSUME CollectorInv, NEW t \in Task, AddLast(t)
  PROVE  CollectorInv'
<1> USE FrameAssumption, TaskAssumption DEF AddLast, Complete
<1>1. /\ DOMAIN frame_data' \subseteq Nat /\ IsFiniteSet(DOMAIN frame_data')
      /\ \A k \in DOMAIN frame_data' : frame_data'[k] \in Payload
      /\ bitmap' \subseteq Nat /\ BitmapExact' /\ Tail(todo[t]) \in Seq(Call)
  BY AddFrameFacts
<1>2. CompleteIsNoticed'
  BY DEF CompleteIsNoticed
<1>3. todo' \in [Task -> Seq(Call)] /\ <<>> \in Seq(Call)
  BY <1>1 DEF CollectorInv, TypeOK
<1>4. txn \in 1..MaxTxn /\ fired[txn] = 0
  BY DEF CollectorInv, TypeOK, TasksConsistent, OpenNotFired
<1>5. /\ sending' = [u \in Task |-> sending'[u]]
      /\ sending'[t] = [active |-> TRUE, bits |-> bitmap', done |-> txn,
                        data |-> frame_data']
      /\ \A u \in Task : u # t => sending'[u] = sending[u]
  BY DEF CollectorInv, TypeOK, StoreFrame
<1>6. sending'[t].active = TRUE /\ sending'[t].bits = bitmap' /\ sending'[t].done = txn
  BY <1>5
<1>7. \A u \in Task : /\ sending'[u].active \in BOOLEAN
                       /\ sending'[u].bits \subseteq Nat
                       /\ sending'[u].done \in 0..MaxTxn
  <2>1. TRUE \in BOOLEAN /\ txn \in 0..MaxTxn
    BY <1>4
  <2>2. /\ sending'[t].active \in BOOLEAN /\ sending'[t].bits \subseteq Nat
        /\ sending'[t].done \in 0..MaxTxn
    BY <1>1, <1>6, <2>1, Zenon
  <2>3. ASSUME NEW u \in Task, u # t
        PROVE  /\ sending'[u].active \in BOOLEAN /\ sending'[u].bits \subseteq Nat
               /\ sending'[u].done \in 0..MaxTxn
    BY <1>5, <2>3 DEF CollectorInv, TypeOK
  <2>4. QED
    BY <2>2, <2>3
<1>8. TypeOK'
  BY <1>1, <1>3, <1>5, <1>7 DEF CollectorInv, TypeOK
<1>9. HeldOnce'
  <2>1. ASSUME NEW u \in Task \ {t}, sending[u].active
        PROVE  sending[u].done # txn
    BY <1>4, <2>1 DEF CollectorInv, HeldOnce
  <2>2. \A u \in Task : sending[u].done \in 0..MaxTxn
    BY DEF CollectorInv, TypeOK
  <2>3. QED
    BY <1>4, <1>5, <1>6, <2>1, <2>2 DEF CollectorInv, HeldOnce
<1>10. AtMostOnce' /\ OpenNotFired' /\ TasksConsistent'
  BY DEF CollectorInv, AtMostOnce, OpenNotFired, TasksConsistent
<1>11. QED
  BY <1>1, <1>2, <1>8, <1>9, <1>10 DEF CollectorInv

\* The KeyError of a message with foreign frames keeps the invariant.
LEMMA AddKeyErrorStep ==
  ASSUME CollectorInv, NEW t \in Task, AddKeyError(t)
  PROVE  CollectorInv'
<1> USE FrameAssumption DEF AddKeyError, Raise
<1>1. /\ DOMAIN frame_data' \subseteq Nat /\ IsFiniteSet(DOMAIN frame_data')
      /\ \A k \in DOMAIN frame_data' : frame_data'[k] \in Payload
      /\ bitmap' \subseteq Nat /\ BitmapExact' /\ <<>> \in Seq(Call)
  BY AddFrameFacts
<1>2. TypeOK'
  BY <1>1 DEF CollectorInv, TypeOK
<1>3. CompleteIsNoticed'
  BY DEF CompleteIsNoticed
<1>4. AtMostOnce' /\ HeldOnce' /\ OpenNotFired' /\ TasksConsistent'
  BY BookkeepingStable
<1>5. QED
  BY <1>1, <1>2, <1>3, <1>4 DEF CollectorInv

\* The end of a control frame write, successful or not, as the bookkeeping sees it.
LEMMA WriteEndFacts ==
  ASSUME CollectorInv, NEW t \in Task, sending' = [sending EXCEPT ![t] = NoWrite]
  PROVE  /\ sending' = [u \in Task |-> sending'[u]]
         /\ sending'[t].active = FALSE /\ sending'[t].done = 0
         /\ \A u \in Task : u # t => sending'[u] = sending[u]
         /\ \A u \in Task : /\ sending'[u].active \in BOOLEAN
                             /\ sending'[u].bits \subseteq Nat
                             /\ sending'[u].done \in 0..MaxTxn
<1>1. /\ sending' = [u \in Task |-> sending'[u]]
      /\ sending'[t] = NoWrite
      /\ \A u \in Task : u # t => sending'[u] = sending[u]
  BY DEF CollectorInv, TypeOK
<1>2. sending'[t].active = FALSE /\ sending'[t].bits = {} /\ sending'[t].done = 0
  BY <1>1 DEF NoWrite
<1>3. FALSE \in BOOLEAN /\ {} \subseteq Nat /\ 0 \in 0..MaxTxn
  BY FrameAssumption
<1>4. /\ sending'[t].active \in BOOLEAN /\ sending'[t].bits \subseteq Nat
      /\ sending'[t].done \in 0..MaxTxn
  BY <1>2, <1>3, Zenon
<1>5. ASSUME NEW u \in Task, u # t
      PROVE  /\ sending'[u].active \in BOOLEAN /\ sending'[u].bits \subseteq Nat
             /\ sending'[u].done \in 0..MaxTxn
  BY <1>1, <1>5 DEF CollectorInv, TypeOK
<1>6. QED
  BY <1>1, <1>2, <1>4, <1>5

\* A written control frame, and the completion behind it, keep the invariant.
LEMMA ControlSentStep ==
  ASSUME CollectorInv, NEW t \in Task, ControlSent(t)
  PROVE  CollectorInv'
<1> USE FrameAssumption, TaskAssumption DEF ControlSent, collectorVars
<1> DEFINE d == sending[t].done
<1>1. /\ sending' = [u \in Task |-> sending'[u]]
      /\ sending'[t].active = FALSE /\ sending'[t].done = 0
      /\ \A u \in Task : u # t => sending'[u] = sending[u]
      /\ \A u \in Task : /\ sending'[u].active \in BOOLEAN
                          /\ sending'[u].bits \subseteq Nat
                          /\ sending'[u].done \in 0..MaxTxn
  BY WriteEndFacts
<1>2. d \in 0..MaxTxn /\ txn \in 0..MaxTxn /\ fired \in [1..MaxTxn -> Nat]
  BY DEF CollectorInv, TypeOK
<1>3. d # 0 => /\ d \in 1..MaxTxn /\ fired[d] = 0 /\ d <= txn
               /\ d = txn => ~transaction_in_progress
               /\ \A u \in Task \ {t} : sending[u].active => sending[u].done # d
  BY <1>2 DEF CollectorInv, HeldOnce
<1>4. /\ fired' \in [1..MaxTxn -> Nat]
      /\ d # 0 => fired'[d] = 1
      /\ \A k \in 1..MaxTxn : k # d => fired'[k] = fired[k]
  <2>1. CASE d = 0
    BY <1>2, <2>1
  <2>2. CASE d # 0
    BY <1>2, <1>3, <2>2
  <2>3. QED
    BY <2>1, <2>2
<1>5. TypeOK'
  BY <1>1, <1>4 DEF CollectorInv, TypeOK
<1>6. BitmapExact' /\ CompleteIsNoticed'
  BY DEF CollectorInv, BitmapExact, CompleteIsNoticed
<1>7. AtMostOnce'
  BY <1>2, <1>3, <1>4 DEF CollectorInv, AtMostOnce
<1>8. HeldOnce'
  <2>1. ASSUME NEW u \in Task, sending'[u].active, sending'[u].done # 0
        PROVE  /\ u # t /\ sending[u].active /\ sending[u].done # 0
               /\ sending'[u].done = sending[u].done
               /\ sending[u].done \in 1..MaxTxn
    BY <1>1, <2>1
  <2>2. ASSUME NEW u \in Task, sending'[u].active, sending'[u].done # 0
        PROVE  sending[u].done # d
    BY <1>3, <2>1, <2>2
  <2>3. ASSUME NEW u \in Task, sending'[u].active, sending'[u].done # 0
        PROVE  /\ sending'[u].done <= txn
               /\ sending'[u].done = txn => ~transaction_in_progress
               /\ fired'[sending'[u].done] = 0
    BY <1>4, <2>1, <2>2, <2>3 DEF CollectorInv, HeldOnce
  <2>4. ASSUME NEW u \in Task, sending'[u].active, sending'[u].done # 0,
               NEW v \in Task \ {u}, sending'[v].active
        PROVE  sending'[v].done # sending'[u].done
    BY <1>1, <2>1, <2>4 DEF CollectorInv, HeldOnce
  <2>5. QED
    BY <2>3, <2>4 DEF HeldOnce
<1>9. OpenNotFired'
  BY <1>2, <1>3, <1>4 DEF CollectorInv, OpenNotFired
<1>10. TasksConsistent'
  BY <1>1 DEF CollectorInv, TasksConsistent
<1>11. QED
  BY <1>5, <1>6, <1>7, <1>8, <1>9, <1>10 DEF CollectorInv

\* A failed control frame write keeps the invariant.
LEMMA ControlFailedStep ==
  ASSUME CollectorInv, NEW t \in Task, ControlFailed(t)
  PROVE  CollectorInv'
<1> USE FrameAssumption, TaskAssumption DEF ControlFailed, collectorVars, Raise
<1>1. /\ sending' = [u \in Task |-> sending'[u]]
      /\ sending'[t].active = FALSE /\ sending'[t].done = 0
      /\ \A u \in Task : u # t => sending'[u] = sending[u]
      /\ \A u \in Task : /\ sending'[u].active \in BOOLEAN
                          /\ sending'[u].bits \subseteq Nat
                          /\ sending'[u].done \in 0..MaxTxn
  BY WriteEndFacts
<1>2. <<>> \in Seq(Call)
  OBVIOUS
<1>3. TypeOK'
  BY <1>1, <1>2 DEF CollectorInv, TypeOK
<1>4. BitmapExact' /\ CompleteIsNoticed' /\ AtMostOnce' /\ OpenNotFired'
  BY DEF CollectorInv, BitmapExact, CompleteIsNoticed, AtMostOnce, OpenNotFired
<1>5. HeldOnce'
  BY <1>1 DEF CollectorInv, HeldOnce
<1>6. TasksConsistent'
  BY DEF CollectorInv, TasksConsistent
<1>7. QED
  BY <1>3, <1>4, <1>5, <1>6 DEF CollectorInv

-----------------------------------------------------------------------------
\* Every step of the frame layer keeps the invariant.
LEMMA InvStep == CollectorInv /\ [Next]_vars => CollectorInv'
<1> SUFFICES ASSUME CollectorInv, [Next]_vars PROVE CollectorInv'
  OBVIOUS
<1>1. ASSUME NEW t \in Task, NEW f \in Frame, ProcessData(t, f)
      PROVE  CollectorInv'
  <2>1. CASE f.kind = "FIRST" /\ ProcessFirst(t, f)
    <3>1. f \in FirstFrame
      BY <2>1 DEF Frame, FirstFrame, ConsFrame
    <3>2. QED
      BY <2>1, <3>1, ProcessFirstStep
  <2>2. CASE f.kind = "CONS" /\ ProcessCons(t, f)
    <3>1. f \in ConsFrame
      BY <2>2 DEF Frame, FirstFrame, ConsFrame
    <3>2. QED
      BY <2>2, <3>1, ProcessConsStep
  <2>3. QED
    BY <1>1, <2>1, <2>2 DEF ProcessData
<1>2. ASSUME NEW t \in Task, TaskStep(t) PROVE CollectorInv'
  BY <1>2, BufferFrameStep, OverflowFrameStep, AddPartialStep, AddLastStep,
     AddKeyErrorStep, ControlSentStep, ControlFailedStep DEF TaskStep
<1>3. CASE UNCHANGED vars
  BY <1>3 DEF vars, collectorVars, taskVars, CollectorInv, TypeOK, BitmapExact,
              CompleteIsNoticed, AtMostOnce, HeldOnce, OpenNotFired, TasksConsistent
<1>4. QED
  BY <1>1, <1>2, <1>3 DEF Next

\* The collector's invariant holds in every behaviour: its types, the exactness of
\* the acknowledgement bitmap (set_bitmap), the detection of complete messages
\* and the bookkeeping of the suspended notification tasks.
THEOREM CollectorCorrect == Spec => []CollectorInv
  BY InvInit, InvStep, PTL DEF Spec

\* The control frames add_frame sends acknowledge exactly the stored frames.
THEOREM AcknowledgesExactly == Spec => []BitmapExact
<1>1. CollectorInv => BitmapExact
  BY DEF CollectorInv
<1>2. QED
  BY <1>1, CollectorCorrect, PTL

\* A whole message never stays behind unannounced in an open transaction.
THEOREM NoticesCompletion == Spec => []CompleteIsNoticed
<1>1. CollectorInv => CompleteIsNoticed
  BY DEF CollectorInv
<1>2. QED
  BY <1>1, CollectorCorrect, PTL

\* TransactionCompleteFC fires at most once per transaction, with any number of
\* concurrent notification tasks and any duplication or reordering of frames.
THEOREM DeliversAtMostOnce == Spec => []AtMostOnce
<1>1. CollectorInv => AtMostOnce
  BY DEF CollectorInv
<1>2. QED
  BY <1>1, CollectorCorrect, PTL

-----------------------------------------------------------------------------
\* The link.

\* The number of frames of a response.
LEMMA FrameCount ==
  ASSUME LinkTypeOK, NEW m \in 1..Requests
  PROVE  /\ nframes[m] \in FrameCounts \cup LossyCounts /\ nframes[m] \in Nat \ {0}
         /\ nframes[m] \in Count /\ 1..(nframes[m] - 1) \subseteq Index
         /\ \A i \in 0..(nframes[m] - 1) : [msg |-> m, idx |-> i] \in Payload
<1>1. nframes[m] \in FrameCounts \cup LossyCounts
  BY DEF LinkTypeOK
<1>2. PICK n \in FrameCounts \cup LossyCounts : n = nframes[m]
  BY <1>1
<1>3. n \in Nat \ {0}
  BY LinkAssumption DEF LinkAssumption
<1>4. /\ n \in Count /\ 1..(n - 1) \subseteq Index
      /\ [msg : 1..Requests, idx : 0..(n - 1)] \subseteq Payload
  BY ResponseAssumption DEF ResponseAssumption
<1>5. \A i \in 0..(n - 1) : [msg |-> m, idx |-> i] \in Payload
  BY <1>4
<1>6. QED
  BY <1>1, <1>2, <1>3, <1>4, <1>5

\* The fields of a frame of response m.
LEMMA FrameFields ==
  ASSUME LinkTypeOK
  PROVE  \A m \in 1..Requests : \A i \in 0..(nframes[m] - 1) :
            /\ FrameOf(m, i).payload = [msg |-> m, idx |-> i] /\ FrameOf(m, i) \in Frame
            /\ i = 0 => FrameOf(m, i).kind = "FIRST" /\ FrameOf(m, i).count = nframes[m]
            /\ i # 0 => FrameOf(m, i).kind = "CONS" /\ FrameOf(m, i).index = i
<1> TAKE m \in 1..Requests
<1> TAKE i \in 0..(nframes[m] - 1)
<1> DEFINE pl == [msg |-> m, idx |-> i]
<1>1. pl \in Payload /\ nframes[m] \in Count
  BY FrameCount
<1>2. i # 0 => i \in Index
  <2>1. 1..(nframes[m] - 1) \subseteq Index /\ nframes[m] \in Nat
    BY FrameCount
  <2>2. QED
    BY <2>1
<1> HIDE DEF pl
<1>3. CASE i = 0
  <2>1. FrameOf(m, i) = [kind |-> "FIRST", count |-> nframes[m], payload |-> pl]
    BY <1>3 DEF FrameOf, pl
  <2>2. FrameOf(m, i) \in FirstFrame
    BY <1>1, <2>1 DEF FirstFrame
  <2>3. QED
    BY <1>3, <2>1, <2>2 DEF Frame, pl
<1>4. CASE i # 0
  <2>1. FrameOf(m, i) = [kind |-> "CONS", index |-> i, payload |-> pl]
    BY <1>4 DEF FrameOf, pl
  <2>2. FrameOf(m, i) \in ConsFrame
    BY <1>1, <1>2, <1>4, <2>1 DEF ConsFrame
  <2>3. QED
    BY <1>4, <2>1, <2>2 DEF Frame, pl
<1>5. QED
  BY <1>3, <1>4

\* A frame on the air is a frame the collector knows, and announces at least one frame.
LEMMA AirFrame ==
  ASSUME LinkTypeOK, NEW f \in AppFrames
  PROVE  f \in Frame /\ (f.kind = "FIRST" => f.count \in Nat /\ f.count > 0)
<1>1. PICK m \in 1..Requests : f \in {FrameOf(m, i) : i \in 0..(nframes[m] - 1)}
  BY DEF AppFrames
<1>2. PICK i \in 0..(nframes[m] - 1) : f = FrameOf(m, i)
  BY <1>1
<1>3. nframes[m] \in Nat \ {0}
  BY FrameCount
<1>4. /\ FrameOf(m, i).payload = [msg |-> m, idx |-> i] /\ FrameOf(m, i) \in Frame
      /\ i = 0 => FrameOf(m, i).kind = "FIRST" /\ FrameOf(m, i).count = nframes[m]
      /\ i # 0 => FrameOf(m, i).kind = "CONS" /\ FrameOf(m, i).index = i
  BY FrameFields
<1>5. QED
  BY <1>2, <1>3, <1>4

\* A step of the link is a step of the collector, or leaves it alone.
LEMMA LinkStepCollects ==
  ASSUME LinkTypeOK, [LinkNext]_allVars
  PROVE  [Next]_vars
<1>1. ASSUME NEW t \in Task, Notify(t) PROVE Next
  <2>1. PICK k \in DOMAIN toApp : ProcessData(t, toApp[k])
    BY <1>1 DEF Notify
  <2>2. toApp \in Seq(AppFrames)
    BY DEF LinkTypeOK
  <2>3. toApp[k] \in AppFrames
    BY <2>2, LenProperties, ElementOfSeq
  <2>4. QED
    BY <2>1, <2>3, AirFrame DEF Next
<1>2. ASSUME NEW t \in Task, Collect(t) PROVE Next
  BY <1>2 DEF Collect, Next, TaskStep
<1>3. CASE SendRequest \/ ReceiveAnswer \/ Timeout \/ Peripheral \/ Lose \/ UNCHANGED allVars
  BY <1>3 DEF SendRequest, ReceiveAnswer, Timeout, Peripheral, HandleRequest, HandleControl, Push,
              Lose, allVars
<1>4. QED
  BY <1>1, <1>2, <1>3 DEF LinkNext, Bridge

\* A sequence without its k-th element.
LEMMA Removed ==
  ASSUME NEW S, NEW q \in Seq(S), NEW k \in DOMAIN q, NEW r,
         r = SubSeq(q, 1, k - 1) \o SubSeq(q, k + 1, Len(q))
  PROVE  /\ r \in Seq(S) /\ Len(r) = Len(q) - 1
         /\ \A i \in 1..(Len(q) - 1) : r[i] = IF i < k THEN q[i] ELSE q[i + 1]
<1>1. Len(q) \in Nat /\ DOMAIN q = 1..Len(q) /\ k \in 1..Len(q) /\ k \in Int
  BY LenProperties
<1>2. \A i \in 1..Len(q) : q[i] \in S
  BY ElementOfSeq
<1>3. PICK a, b : a = SubSeq(q, 1, k - 1) /\ b = SubSeq(q, k + 1, Len(q))
  OBVIOUS
<1>4. a \in Seq(S) /\ Len(a) = k - 1 /\ \A i \in 1..(k - 1) : a[i] = q[i]
  <2>1. \A i \in 1..(k - 1) : q[i] \in S
    BY <1>1, <1>2
  <2>2. /\ a \in Seq(S) /\ Len(a) = (IF 1 <= k - 1 THEN k - 1 - 1 + 1 ELSE 0)
        /\ \A i \in 1..(k - 1 - 1 + 1) : a[i] = q[1 + i - 1]
    BY <1>1, <1>3, <2>1, SubSeqProperties
  <2>3. QED
    BY <1>1, <2>2
<1>5. /\ b \in Seq(S) /\ Len(b) = Len(q) - k
      /\ \A i \in 1..(Len(q) - k) : b[i] = q[k + i]
  <2>1. k + 1 \in Int /\ Len(q) \in Int
    BY <1>1
  <2>2. PICK m \in Int, n \in Int : m = k + 1 /\ n = Len(q)
    BY <2>1, Zenon
  <2>3. \A i \in m..n : q[i] \in S
    BY <1>1, <1>2, <2>2
  <2>4. b = SubSeq(q, m, n)
    BY <1>3, <2>2
  <2>5. /\ b \in Seq(S) /\ Len(b) = (IF m <= n THEN n - m + 1 ELSE 0)
        /\ \A i \in 1..(n - m + 1) : b[i] = q[m + i - 1]
    BY <2>3, <2>4, SubSeqProperties
  <2>6. Len(b) = Len(q) - k /\ n - m + 1 = Len(q) - k
    BY <1>1, <2>2, <2>5
  <2>7. ASSUME NEW i \in 1..(Len(q) - k) PROVE b[i] = q[k + i]
    <3>1. m + i - 1 = k + i
      BY <1>1, <2>2
    <3>2. QED
      BY <2>5, <2>6, <3>1
  <2>8. QED
    BY <2>5, <2>6, <2>7
<1>6. /\ r \in Seq(S) /\ Len(r) = Len(a) + Len(b)
      /\ \A i \in 1..(Len(a) + Len(b)) : r[i] = IF i <= Len(a) THEN a[i] ELSE b[i - Len(a)]
  <2>1. r = a \o b
    BY <1>3
  <2>2. QED
    BY ONLY <1>4, <1>5, <2>1, ConcatProperties
<1>7. Len(a) + Len(b) = Len(q) - 1
  BY <1>1, <1>4, <1>5
<1>8. ASSUME NEW i \in 1..(Len(q) - 1)
      PROVE  r[i] = IF i < k THEN q[i] ELSE q[i + 1]
  <2>1. r[i] = IF i <= k - 1 THEN a[i] ELSE b[i - (k - 1)]
    BY <1>4, <1>6, <1>7
  <2>2. CASE i < k
    <3>1. i <= k - 1 /\ i \in 1..(k - 1)
      BY <1>1, <2>2
    <3>2. QED
      BY <1>4, <2>1, <2>2, <3>1
  <2>3. CASE ~(i < k)
    <3>1. /\ i - (k - 1) \in 1..(Len(q) - k) /\ k + (i - (k - 1)) = i + 1 /\ ~(i <= k - 1)
      <4>1. i \in Int /\ k \in Int /\ Len(q) \in Int /\ i >= k /\ i <= Len(q) - 1 /\ k >= 1
        BY <1>1, <2>3
      <4>2. QED
        BY ONLY <4>1
    <3>2. PICK j \in 1..(Len(q) - k) : j = i - (k - 1) /\ k + j = i + 1 /\ ~(i <= k - 1)
      BY <3>1, Zenon
    <3>3. r[i] = b[j] /\ b[j] = q[k + j]
      BY <1>5, <2>1, <3>2
    <3>4. QED
      BY <2>3, <3>2, <3>3
  <2>4. QED
    BY <2>2, <2>3
<1>9. QED
  BY <1>6, <1>7, <1>8

\* Nothing is under way at the start.
LEMMA LinkTypeInit == ASSUME LinkInit PROVE LinkTypeOK /\ MessagesWhole
<1>1. <<>> \in Seq(DevFrames) /\ <<>> \in Seq(AppFrames) /\ Requests \in Nat
  BY EmptySeq, LinkAssumption DEF LinkAssumption
<1>2. DOMAIN answers = 1..Requests /\ \A k \in 1..Requests : answers[k] = Pending
  BY DEF LinkInit
<1>3. LinkTypeOK
  <2>1. toDev \in Seq(DevFrames) /\ toApp \in Seq(AppFrames)
    BY <1>1 DEF LinkInit
  <2>2. req \in 0..Requests
    <3>1. req = 0
      BY DEF LinkInit
    <3>2. QED
      BY <1>1, <3>1
  <2>3. air \in {"good", "lossy"} /\ event \in BOOLEAN
    BY Zenon DEF LinkInit
  <2>4. nframes \in [1..Requests -> IF air = "good" THEN FrameCounts ELSE LossyCounts]
    BY Zenon DEF LinkInit
  <2>5. last_a5 = NoFrames /\ pushing \subseteq 0..(last_a5.n - 1)
    BY DEF LinkInit, NoFrames
  <2>6. QED
    BY <1>2, <2>1, <2>2, <2>3, <2>4, <2>5 DEF LinkTypeOK
<1>4. MessagesWhole
  BY DEF LinkInit, MessagesWhole, Init, NoWrite
<1>5. QED
  BY <1>3, <1>4

\* The device frames and responses under way, step by step.
LEMMA LinkTypeStep ==
  ASSUME LinkTypeOK, CollectorInv, [LinkNext]_allVars
  PROVE  LinkTypeOK'
<1>1. air' = air /\ nframes' = nframes /\ AppFrames' = AppFrames
  <2>1. air' = air /\ nframes' = nframes
    BY DEF LinkNext, Bridge, Peripheral, SendRequest, ReceiveAnswer, Timeout, Notify, Collect,
           HandleRequest, HandleControl, Push, Lose, allVars, linkVars
  <2>2. QED
    BY <2>1 DEF AppFrames, FrameOf
<1>2. /\ toDev \in Seq(DevFrames) /\ toApp \in Seq(AppFrames) /\ req \in 0..Requests
      /\ Requests \in Nat /\ DOMAIN answers = 1..Requests /\ event \in BOOLEAN
      /\ \A k \in 1..Requests : k > req => answers[k] = Pending
  BY LinkAssumption DEF LinkTypeOK, LinkAssumption
<1>3. CASE SendRequest
  <2>1. req' \in 0..Requests /\ [kind |-> "REQ", msg |-> req + 1] \in DevFrames /\ req' = req + 1
    BY <1>2, <1>3 DEF SendRequest, DevFrames
  <2>2. toDev' \in Seq(DevFrames) /\ event' = FALSE
    BY <1>2, <1>3, <2>1, AppendProperties DEF SendRequest
  <2>3. UNCHANGED <<answers, toApp, last_a5, pushing>>
    BY <1>3 DEF SendRequest
  <2>4. \A k \in 1..Requests : k > req' => answers'[k] = Pending
    BY <1>2, <2>1, <2>3
  <2>5. QED
    BY <1>1, <2>1, <2>2, <2>3, <2>4 DEF LinkTypeOK
<1>4. CASE ReceiveAnswer \/ Timeout
  <2>1. UNCHANGED <<req, event, toDev, toApp, last_a5, pushing>> /\ req > 0
    BY <1>4 DEF ReceiveAnswer, Timeout, Waiting
  <2>2. PICK a : answers' = [answers EXCEPT ![req] = a]
    BY <1>4 DEF ReceiveAnswer, Timeout
  <2>3. DOMAIN answers' = 1..Requests /\ \A k \in 1..Requests : k > req => answers'[k] = Pending
    BY <1>2, <2>2
  <2>4. QED
    BY <1>1, <2>1, <2>3 DEF LinkTypeOK
<1>5. CASE \E t \in Task : Notify(t)
  <2>1. PICK k \in DOMAIN toApp : toApp' = SubSeq(toApp, 1, k - 1) \o SubSeq(toApp, k + 1, Len(toApp))
    BY <1>5 DEF Notify
  <2>2. toApp' \in Seq(AppFrames)
    BY <1>2, <2>1, Removed
  <2>3. UNCHANGED <<req, event, answers, toDev, last_a5, pushing>>
    BY <1>5 DEF Notify
  <2>4. QED
    BY <1>1, <2>2, <2>3 DEF LinkTypeOK
<1>6. ASSUME NEW t \in Task, Collect(t) PROVE LinkTypeOK'
  <2>1. CASE UNCHANGED linkVars
    BY <1>1, <2>1 DEF linkVars, LinkTypeOK
  <2>2. CASE ~UNCHANGED linkVars
    <3>1. /\ toDev' = Append(toDev, [kind |-> "CTRL", bits |-> sending[t].bits])
          /\ event' = (event \/ sending[t].done # 0)
          /\ UNCHANGED <<req, answers, toApp, last_a5, pushing>>
      BY <1>6, <2>2 DEF Collect
    <3>2. sending[t].bits \in SUBSET Nat
      BY DEF CollectorInv, TypeOK
    <3>3. [kind |-> "CTRL", bits |-> sending[t].bits] \in DevFrames
      BY <3>2 DEF DevFrames
    <3>4. toDev' \in Seq(DevFrames) /\ event' \in BOOLEAN
      BY <1>2, <3>1, <3>3, AppendProperties
    <3>5. QED
      BY <1>1, <3>1, <3>4 DEF LinkTypeOK
  <2>3. QED
    BY <2>1, <2>2
<1>7. CASE HandleRequest
  <2>1. /\ UNCHANGED <<req, event, answers, toApp>> /\ toDev # <<>> /\ toDev' = Tail(toDev)
        /\ Head(toDev).kind = "REQ"
    BY <1>7 DEF HandleRequest
  <2>2. Head(toDev) \in DevFrames /\ toDev' \in Seq(DevFrames)
    BY <1>2, <2>1, HeadTailProperties
  <2>3. PICK m \in 1..Requests : m = Head(toDev).msg
    BY <2>1, <2>2 DEF DevFrames
  <2>4. last_a5' = [msg |-> m, n |-> nframes[m]] /\ pushing' = 0..(nframes[m] - 1)
    BY <1>7, <2>3 DEF HandleRequest
  <2>5. /\ last_a5'.msg \in 1..Requests /\ last_a5'.n = nframes'[last_a5'.msg]
        /\ pushing' \subseteq 0..(last_a5'.n - 1)
    BY <1>1, <2>4
  <2>6. QED
    BY <1>1, <2>1, <2>2, <2>5 DEF LinkTypeOK
<1>8. CASE HandleControl
  <2>1. /\ UNCHANGED <<req, event, answers, toApp>> /\ toDev # <<>> /\ toDev' = Tail(toDev)
        /\ pushing = {}
    BY <1>8 DEF HandleControl
  <2>2. toDev' \in Seq(DevFrames)
    BY <1>2, <2>1, HeadTailProperties
  <2>3. \/ last_a5' = last_a5 /\ pushing' = {}
        \/ last_a5' = NoFrames /\ pushing' = {}
        \/ last_a5' = last_a5 /\ pushing' \subseteq 0..(last_a5.n - 1)
    BY <1>8, <2>1 DEF HandleControl, Missing
  <2>4. QED
    BY <1>1, <2>1, <2>2, <2>3 DEF LinkTypeOK
<1>9. CASE Push
  <2>1. PICK i \in pushing : /\ toApp' = Append(toApp, FrameOf(last_a5.msg, i))
                             /\ pushing' = pushing \ {i}
    BY <1>9 DEF Push
  <2>2. UNCHANGED <<req, event, answers, toDev, last_a5>>
    BY <1>9 DEF Push
  <2>3. last_a5.msg \in 1..Requests /\ i \in 0..(nframes[last_a5.msg] - 1)
    BY <2>1 DEF LinkTypeOK, NoFrames
  <2>4. FrameOf(last_a5.msg, i) \in AppFrames
    BY <2>3 DEF AppFrames
  <2>5. toApp' \in Seq(AppFrames)
    BY <1>2, <2>1, <2>4, AppendProperties
  <2>6. QED
    BY <1>1, <2>1, <2>2, <2>5 DEF LinkTypeOK
<1>10. CASE Lose
  <2>1. UNCHANGED <<req, event, answers, toDev, last_a5, pushing>> /\ toApp # <<>> /\ toApp' = Tail(toApp)
    BY <1>10 DEF Lose
  <2>2. toApp' \in Seq(AppFrames)
    BY <1>2, <2>1, HeadTailProperties
  <2>3. QED
    BY <1>1, <2>1, <2>2 DEF LinkTypeOK
<1>11. CASE UNCHANGED allVars
  BY <1>1, <1>11 DEF allVars, linkVars, LinkTypeOK
<1>12. QED
  BY <1>3, <1>4, <1>5, <1>6, <1>7, <1>8, <1>9, <1>10, <1>11 DEF LinkNext, Bridge, Peripheral

\* A message that is announced has a frame 0.
LEMMA MessagesStep ==
  ASSUME LinkTypeOK, CollectorInv, MessagesWhole, [LinkNext]_allVars
  PROVE  MessagesWhole'
<1>1. /\ sending = [t \in Task |-> sending[t]] /\ expected_frames \in Nat
  BY DEF CollectorInv, TypeOK
<1>2. CASE SendRequest \/ ReceiveAnswer \/ Timeout \/ Peripheral \/ Lose \/ UNCHANGED allVars
  <2>1. UNCHANGED <<transaction_in_progress, expected_frames, sending, message_context>>
    BY <1>2 DEF SendRequest, ReceiveAnswer, Timeout, Peripheral, HandleRequest, HandleControl,
                Push, Lose, allVars, linkVars, vars, collectorVars, taskVars
  <2>2. event' => event
    BY <1>2 DEF SendRequest, ReceiveAnswer, Timeout, Peripheral, HandleRequest, HandleControl,
                Push, Lose, allVars, linkVars
  <2>3. QED
    BY <2>1, <2>2 DEF MessagesWhole
<1>3. ASSUME NEW t \in Task, Notify(t) PROVE MessagesWhole'
  <2>1. PICK k \in DOMAIN toApp : ProcessData(t, toApp[k])
    BY <1>3 DEF Notify
  <2>2. UNCHANGED <<event, message_context, sending>>
    BY <1>3, <2>1 DEF Notify, ProcessData, ProcessFirst, ProcessCons
  <2>3. toApp[k] \in AppFrames
    BY LenProperties, ElementOfSeq DEF LinkTypeOK
  <2>4. toApp[k].kind = "FIRST" => toApp[k].count > 0
    BY <2>3, AirFrame
  <2>5. transaction_in_progress' => expected_frames' > 0
    BY <2>1, <2>4 DEF MessagesWhole, ProcessData, ProcessFirst, ProcessCons, StartTransaction,
                     Reset, collectorVars
  <2>6. QED
    BY <2>2, <2>5 DEF MessagesWhole
<1>4. ASSUME NEW t \in Task, Collect(t) PROVE MessagesWhole'
  <2>1. CASE ControlSent(t)
    <3>1. /\ UNCHANGED <<transaction_in_progress, expected_frames>>
          /\ sending' = [sending EXCEPT ![t] = NoWrite] /\ sending[t].active
      BY <2>1 DEF ControlSent, collectorVars
    <3>2. \A u \in Task : sending'[u].active => sending'[u] = sending[u]
      BY <1>1, <3>1 DEF NoWrite
    <3>3. event' => message_context' \notin {Pending, TimedOut}
      <4>1. CASE UNCHANGED linkVars
        BY <4>1 DEF linkVars, MessagesWhole
      <4>2. CASE ~UNCHANGED linkVars
        <5>1. /\ message_context' = IF sending[t].done = 0 THEN message_context ELSE sending[t].data
              /\ event' = (event \/ sending[t].done # 0)
          BY <1>4, <4>2 DEF Collect
        <5>2. QED
          BY <3>1, <5>1 DEF MessagesWhole
      <4>3. QED
        BY <4>1, <4>2
    <3>4. QED
      BY <3>1, <3>2, <3>3 DEF MessagesWhole
  <2>2. CASE ~ControlSent(t)
    <3>1. UNCHANGED linkVars /\ (BufferFrame(t) \/ AddPartial(t) \/ AddLast(t) \/ AddKeyError(t))
      BY <1>4, <2>2 DEF Collect
    <3>2. UNCHANGED <<event, message_context>>
      BY <3>1 DEF linkVars
    <3>3. CASE BufferFrame(t) \/ AddPartial(t) \/ AddKeyError(t)
      <4>1. UNCHANGED <<transaction_in_progress, expected_frames>>
        BY <3>3 DEF BufferFrame, AddPartial, AddKeyError
      <4>2. \/ sending' = sending
            \/ sending' = [sending EXCEPT ![t] = [active |-> TRUE, bits |-> bitmap', done |-> 0, data |-> <<>>]]
        BY <3>3 DEF BufferFrame, AddPartial, AddKeyError
      <4>3. \A u \in Task : sending'[u] = sending[u] \/ sending'[u].done = 0
        BY <1>1, <4>2
      <4>4. QED
        BY <3>2, <4>1, <4>3 DEF MessagesWhole
    <3>4. CASE AddLast(t)
      <4>1. /\ transaction_in_progress /\ transaction_in_progress' = FALSE
            /\ \A i \in 0..(expected_frames - 1) : i \in DOMAIN frame_data'
            /\ sending' = [sending EXCEPT ![t] =
                  [active |-> TRUE, bits |-> bitmap \cup {Head(todo[t]).index}, done |-> txn,
                   data |-> frame_data']]
        BY <3>4 DEF AddLast, Complete
      <4>2. 0 \in DOMAIN frame_data'
        BY <1>1, <4>1 DEF MessagesWhole
      <4>3. frame_data' \notin {Pending, TimedOut}
        <5>1. DOMAIN Pending = {1} /\ DOMAIN TimedOut = {1}
          BY DEF Pending, TimedOut
        <5>2. QED
          BY <4>2, <5>1
      <4>4. \A u \in Task : sending'[u] = sending[u] \/ sending'[u].data = frame_data'
        BY <1>1, <4>1
      <4>5. QED
        BY <3>2, <4>1, <4>3, <4>4 DEF MessagesWhole
    <3>5. QED
      BY <3>1, <3>3, <3>4
  <2>3. QED
    BY <2>1, <2>2
<1>5. QED
  BY <1>2, <1>3, <1>4 DEF LinkNext, Bridge

\* The frame layer of the link is the collector: what holds of the collector in every
\* environment holds in the link.
THEOREM LinkCollects == LinkInit /\ [][LinkNext]_allVars => [](LinkTypeOK /\ MessagesWhole /\ CollectorInv)
<1>1. LinkInit => LinkTypeOK /\ MessagesWhole /\ CollectorInv
  BY LinkTypeInit, InvInit DEF LinkInit
<1>2. LinkTypeOK /\ MessagesWhole /\ CollectorInv /\ [LinkNext]_allVars
      => (LinkTypeOK /\ MessagesWhole /\ CollectorInv)'
  BY LinkTypeStep, MessagesStep, LinkStepCollects, InvStep
<1>3. QED
  BY <1>1, <1>2, PTL

-----------------------------------------------------------------------------
\* Good air: where the frames of a response are.

\* A frame goes from one place to the next.
LEMMA Moved ==
  ASSUME NEW p, NEW a, NEW h, NEW b, NEW s, NEW n, NEW x, Parted(p, a, h, b, s, n)
  PROVE  /\ x \in p => Parted(p \ {x}, a \cup {x}, h, b, s, n)
         /\ x \in a /\ h = {} => Parted(p, a \ {x}, {x}, b, s, n)
         /\ x \in a /\ h = {} /\ s = {} => Parted(p, a \ {x}, b \cup {x}, {}, {}, n)
         /\ x \in h /\ s = {} => Parted(p, a, h \ {x}, b \cup {x}, {}, n)
         /\ x \in h => Parted(p, a, h \ {x}, b, s \cup {x}, n) 
<1>1. x \in p => Parted(p \ {x}, a \cup {x}, h, b, s, n)
  BY DEF Parted
<1>2. x \in a /\ h = {} => Parted(p, a \ {x}, {x}, b, s, n)
  BY DEF Parted
<1>3. x \in a /\ h = {} /\ s = {} => Parted(p, a \ {x}, b \cup {x}, {}, {}, n)
  BY DEF Parted
<1>4. x \in h /\ s = {} => Parted(p, a, h \ {x}, b \cup {x}, {}, n)
  BY DEF Parted
<1>5. x \in h => Parted(p, a, h \ {x}, b, s \cup {x}, n)
  BY DEF Parted
<1>6. QED
  BY <1>1, <1>2, <1>3, <1>4, <1>5

\* A task makes the first of its calls.
LEMMA CallMade ==
  ASSUME NEW m, NEW q \in Seq(Call), q # <<>>, CallsOf(m, q)
  PROVE  /\ Tail(q) \in Seq(Call) /\ CallsOf(m, Tail(q))
         /\ Numbers(Tail(q)) = Numbers(q) \ {Head(q).index} /\ Head(q).index \in Numbers(q)
         /\ Head(q).payload = [msg |-> m, idx |-> Head(q).index] /\ Head(q) \in Call
         /\ Len(q) = 1 <=> Tail(q) = <<>>
<1>1. /\ Len(q) \in Nat /\ DOMAIN q = 1..Len(q) /\ Len(q) # 0 /\ Head(q) = q[1] /\ 1 \in 1..Len(q)
  BY LenProperties
<1>2. PICK r : r = Tail(q)
  OBVIOUS
<1>3. /\ r \in Seq(Call) /\ Len(r) = Len(q) - 1 /\ DOMAIN r = 1..(Len(q) - 1)
      /\ \A i \in 1..(Len(q) - 1) : i + 1 \in 1..Len(q) /\ r[i] = q[i + 1]
  BY <1>1, <1>2, HeadTailProperties
<1>4. CallsOf(m, r)
  <2>1. \A i \in DOMAIN q : q[i].payload = [msg |-> m, idx |-> q[i].index]
    BY DEF CallsOf
  <2>2. \A i, j \in DOMAIN q : q[i].index = q[j].index => i = j
    BY DEF CallsOf
  <2>3. \A i \in DOMAIN r : r[i].payload = [msg |-> m, idx |-> r[i].index]
    BY <1>1, <1>3, <2>1
  <2>4. ASSUME NEW i \in DOMAIN r, NEW j \in DOMAIN r, r[i].index = r[j].index PROVE i = j
    <3>1. i + 1 \in DOMAIN q /\ j + 1 \in DOMAIN q /\ r[i] = q[i + 1] /\ r[j] = q[j + 1]
      BY <1>1, <1>3
    <3>2. i + 1 = j + 1
      BY <2>2, <2>4, <3>1
    <3>3. QED
      BY <1>1, <1>3, <3>2
  <2>5. QED
    BY <2>3, <2>4 DEF CallsOf
<1>5. Head(q).index \in Numbers(q) /\ Head(q).payload = [msg |-> m, idx |-> Head(q).index]
  BY <1>1 DEF Numbers, CallsOf
<1>6. Numbers(r) \subseteq Numbers(q) \ {Head(q).index}
  <2> SUFFICES ASSUME NEW i \in DOMAIN r PROVE r[i].index \in Numbers(q) /\ r[i].index # q[1].index
    BY <1>1 DEF Numbers
  <2>1. i + 1 \in DOMAIN q /\ 1 \in DOMAIN q /\ r[i] = q[i + 1] /\ i + 1 # 1
    BY <1>1, <1>3
  <2>2. q[i + 1].index # q[1].index
    BY <2>1 DEF CallsOf
  <2>3. QED
    BY <2>1, <2>2 DEF Numbers
<1>7. Numbers(q) \ {Head(q).index} \subseteq Numbers(r)
  <2> SUFFICES ASSUME NEW j \in 1..Len(q), q[j].index # q[1].index
               PROVE  q[j].index \in Numbers(r)
    BY <1>1 DEF Numbers
  <2>1. j - 1 \in 1..(Len(q) - 1) /\ (j - 1) + 1 = j
    BY <1>1
  <2>2. r[j - 1] = q[j]
    BY <1>3, <2>1
  <2>3. QED
    BY <1>3, <2>1, <2>2 DEF Numbers
<1>8. Len(q) = 1 <=> r = <<>>
  BY <1>1, <1>3
<1>9. Head(q) \in Call
  BY <1>1, ElementOfSeq
<1>10. QED
  BY <1>2, <1>3, <1>4, <1>5, <1>6, <1>7, <1>8, <1>9

\* A call is put behind the others.
LEMMA CallAdded ==
  ASSUME NEW m, NEW q \in Seq(Call), CallsOf(m, q), NEW c \in Call,
         c.payload = [msg |-> m, idx |-> c.index], c.index \notin Numbers(q)
  PROVE  /\ Append(q, c) \in Seq(Call) /\ CallsOf(m, Append(q, c))
         /\ Numbers(Append(q, c)) = Numbers(q) \cup {c.index}
<1>1. Len(q) \in Nat /\ DOMAIN q = 1..Len(q)
  BY LenProperties
<1>2. PICK r : r = Append(q, c)
  OBVIOUS
<1>3. /\ r \in Seq(Call) /\ Len(r) = Len(q) + 1 /\ DOMAIN r = 1..(Len(q) + 1)
      /\ \A i \in 1..Len(q) : r[i] = q[i]
      /\ r[Len(q) + 1] = c
  BY <1>1, <1>2, AppendProperties, LenProperties
<1>4. \A i \in 1..(Len(q) + 1) : i \in 1..Len(q) \/ i = Len(q) + 1
  BY <1>1
<1>5. \A i \in 1..Len(q) : r[i].index # c.index
  BY <1>1, <1>3 DEF Numbers
<1>6. CallsOf(m, r)
  <2>1. \A i \in DOMAIN r : r[i].payload = [msg |-> m, idx |-> r[i].index]
    BY <1>1, <1>3, <1>4 DEF CallsOf
  <2>2. \A i, j \in DOMAIN r : r[i].index = r[j].index => i = j
    BY <1>1, <1>3, <1>4, <1>5 DEF CallsOf
  <2>3. QED
    BY <2>1, <2>2 DEF CallsOf
<1>7. Numbers(r) \subseteq Numbers(q) \cup {c.index}
  BY <1>1, <1>3, <1>4 DEF Numbers
<1>8. Numbers(q) \cup {c.index} \subseteq Numbers(r)
  <2>1. Len(q) + 1 \in DOMAIN r /\ \A i \in 1..Len(q) : i \in DOMAIN r
    BY <1>1, <1>3
  <2>2. QED
    BY <1>1, <1>3, <2>1 DEF Numbers
<1>9. QED
  BY <1>2, <1>3, <1>6, <1>7, <1>8

\* r holds the elements of q except the k-th.
Without(r, q, k) ==
    /\ \A i \in DOMAIN r : \E j \in DOMAIN q : j # k /\ r[i] = q[j]
    /\ \A j \in DOMAIN q : j # k => \E i \in DOMAIN r : r[i] = q[j]

\* A frame is taken off the air.
LEMMA FrameTaken ==
  ASSUME NEW S, NEW q \in Seq(S), NEW k \in DOMAIN q, NEW r,
         r = SubSeq(q, 1, k - 1) \o SubSeq(q, k + 1, Len(q)),
         Distinct(q)
  PROVE  Without(r, q, k) /\ Distinct(r)
<1>1. Len(q) \in Nat /\ DOMAIN q = 1..Len(q) /\ k \in 1..Len(q)
  BY LenProperties
<1>2. /\ r \in Seq(S) /\ Len(r) = Len(q) - 1
      /\ \A i \in 1..(Len(q) - 1) : r[i] = IF i < k THEN q[i] ELSE q[i + 1]
  <2>1. r = SubSeq(q, 1, k - 1) \o SubSeq(q, k + 1, Len(q)) /\ q \in Seq(S) /\ k \in DOMAIN q
    OBVIOUS
  <2>2. QED
    BY ONLY <2>1, Removed, Zenon
<1>3. DOMAIN r = 1..(Len(q) - 1)
  BY <1>2, LenProperties
<1>4. ASSUME NEW i \in DOMAIN r
      PROVE  \E j \in DOMAIN q : j # k /\ r[i] = q[j] /\ j = IF i < k THEN i ELSE i + 1
  <2>1. CASE i < k
    <3>1. i \in DOMAIN q /\ i # k /\ r[i] = q[i]
      BY <1>1, <1>2, <1>3, <2>1
    <3>2. QED
      BY <2>1, <3>1
  <2>2. CASE ~(i < k)
    <3>1. i \in Int /\ k \in Int /\ Len(q) \in Int /\ i >= k /\ i <= Len(q) - 1 /\ i >= 1
      BY <1>1, <1>3, <2>2
    <3>2. i + 1 \in 1..Len(q) /\ i + 1 # k
      BY ONLY <3>1
    <3>3. r[i] = q[i + 1]
      BY <1>2, <1>3, <2>2
    <3>4. QED
      BY <1>1, <2>2, <3>2, <3>3, Zenon
  <2>3. QED
    BY <2>1, <2>2
<1>5. ASSUME NEW j \in DOMAIN q, j # k
      PROVE  \E i \in DOMAIN r : r[i] = q[j]
  <2>1. CASE j < k
    <3>1. j \in DOMAIN r /\ r[j] = q[j]
      BY <1>1, <1>2, <1>3, <2>1
    <3>2. QED
      BY <3>1
  <2>2. CASE j > k
    <3>1. j \in Int /\ k \in Int /\ Len(q) \in Int /\ j > k /\ j <= Len(q) /\ k >= 1
      BY <1>1, <2>2
    <3>2. j - 1 \in 1..(Len(q) - 1) /\ ~(j - 1 < k) /\ (j - 1) + 1 = j
      BY ONLY <3>1
    <3>3. r[j - 1] = q[j]
      BY <1>2, <3>2
    <3>4. QED
      BY <1>3, <3>2, <3>3
  <2>3. j < k \/ j > k
    <3>1. j \in Int /\ k \in Int /\ j # k
      BY <1>1, <1>5
    <3>2. QED
      BY ONLY <3>1
  <2>4. QED
    BY <2>1, <2>2, <2>3
<1>6. ASSUME NEW i \in DOMAIN r, NEW j \in DOMAIN r, r[i].payload.idx = r[j].payload.idx
      PROVE  i = j
  <2>1. PICK a \in DOMAIN q : r[i] = q[a] /\ a = IF i < k THEN i ELSE i + 1
    BY <1>4
  <2>2. PICK b \in DOMAIN q : r[j] = q[b] /\ b = IF j < k THEN j ELSE j + 1
    BY <1>4
  <2>3. a = b
    BY <1>6, <2>1, <2>2 DEF Distinct
  <2>4. i \in Int /\ j \in Int /\ k \in Int
    BY <1>1, <1>3
  <2>5. (IF i < k THEN i ELSE i + 1) = (IF j < k THEN j ELSE j + 1)
    BY <2>1, <2>2, <2>3
  <2>6. QED
    BY ONLY <2>4, <2>5
<1>7. \A i \in DOMAIN r : \E j \in DOMAIN q : j # k /\ r[i] = q[j]
  BY <1>4
<1>8. QED
  BY <1>5, <1>6, <1>7 DEF Distinct, Without

\* The length of a response in good air.
LEMMA GoodCount ==
  ASSUME ShortResponses, LinkTypeOK, air = "good", NEW m \in 1..Requests
  PROVE  /\ nframes[m] \in Nat /\ nframes[m] \in 1..AckEvery /\ nframes[m] <= 8
         /\ nframes[m] <= BitmapBits /\ AckEvery \in Nat \ {0} /\ BitmapBits \in Nat
<1>1. nframes[m] \in FrameCounts
  BY DEF LinkTypeOK
<1>2. nframes[m] \in 1..AckEvery /\ AckEvery <= 8 /\ 8 <= BitmapBits
  BY <1>1 DEF ShortResponses
<1>3. AckEvery \in Nat \ {0} /\ BitmapBits \in Nat
  BY FrameAssumption DEF FrameAssumption
<1>4. QED
  BY <1>2, <1>3

\* The running task in the stages of a request.
LEMMA ClearedIdle ==
  ASSUME CollectorInv, Cleared
  PROVE  /\ running = NoTask /\ toApp = <<>> /\ pushing = {} /\ \A t \in Task : todo[t] = <<>>
         /\ \A t \in Task : running # t
<1>1. \A t \in Task : running # t
  BY TaskAssumption DEF TaskAssumption, Cleared
<1>2. QED
  BY <1>1 DEF Cleared, NoCalls

\* send_request writes the request; the last acknowledgement may still be before it.
LEMMA GoodSend ==
  ASSUME LinkTypeOK, AtRest, SendRequest
  PROVE  Waiting' /\ Asked(req)'
<1>1. /\ req' = req + 1 /\ req < Requests /\ event' = FALSE /\ req \in Nat /\ req' \in 1..Requests
      /\ toDev' = Append(toDev, [kind |-> "REQ", msg |-> req']) /\ toDev \in Seq(DevFrames)
      /\ UNCHANGED <<vars, answers, toApp, last_a5, pushing>>
  BY LinkAssumption DEF SendRequest, LinkTypeOK, LinkAssumption
<1>2. Waiting'
  <2>1. answers[req'] = Pending
    BY <1>1 DEF LinkTypeOK
  <2>2. QED
    BY <1>1, <2>1 DEF Waiting
<1>3. Cleared' /\ NoWrites'
  BY <1>1 DEF AtRest, Cleared, NoWrites, NoCalls, vars, collectorVars, taskVars
<1>4. Settled(<<[kind |-> "REQ", msg |-> req]>>)'
  <2>1. PICK x : x = [kind |-> "REQ", msg |-> req']
    OBVIOUS
  <2>2. x \in DevFrames
    BY <1>1, <2>1 DEF DevFrames
  <2>3. CASE toDev = <<>> /\ last_a5 = NoFrames
    BY <1>1, <2>1, <2>3 DEF Settled
  <2>4. CASE /\ toDev # <<>> /\ Tail(toDev) = <<>> /\ last_a5.n > 0
             /\ Head(toDev) = [kind |-> "CTRL", bits |-> 0..(last_a5.n - 1)]
    <3>1. PICK d : d = Append(toDev, x)
      OBVIOUS
    <3>2. d # <<>> /\ Head(d) = Head(toDev) /\ Tail(d) = Append(Tail(toDev), x)
      BY <1>1, <2>2, <2>4, <3>1, AppendProperties, HeadTailAppend
    <3>3. toDev' = d
      BY <1>1, <2>1, <3>1
    <3>4. Append(<<>>, x) = <<x>>
      OBVIOUS
    <3>5. Tail(d) = <<x>>
      BY <2>4, <3>2, <3>4
    <3>6. QED
      BY <1>1, <2>1, <2>4, <3>2, <3>3, <3>5 DEF Settled
  <2>5. QED
    BY <2>3, <2>4 DEF AtRest, Settled
<1>5. QED
  BY <1>1, <1>2, <1>3, <1>4 DEF Asked

\* The caller takes the answer.
LEMMA GoodReceive ==
  ASSUME LinkTypeOK, MessagesWhole, Waiting, Answered(req), ReceiveAnswer
  PROVE  ~Waiting' /\ AtRest' /\ answers'[req] = Response(req)
<1>1. /\ answers' = [answers EXCEPT ![req] = message_context] /\ event
      /\ UNCHANGED <<vars, req, toDev, toApp, last_a5, pushing>>
  BY DEF ReceiveAnswer
<1>2. req \in 1..Requests /\ DOMAIN answers = 1..Requests
  BY LinkAssumption DEF LinkTypeOK, Waiting, LinkAssumption
<1>3. answers'[req] = message_context /\ message_context # Pending
  BY <1>1, <1>2 DEF MessagesWhole
<1>4. ~Waiting'
  BY <1>1, <1>3 DEF Waiting
<1>5. AtRest'
  BY <1>1 DEF Answered, AtRest, Cleared, NoCalls, NoWrites, Settled, vars, collectorVars, taskVars
<1>6. QED
  BY <1>3, <1>4, <1>5 DEF Answered

\* A frame of the response is always somewhere: nothing times out.
LEMMA GoodTimeout ==
  ASSUME ShortResponses, LinkTypeOK, CollectorInv, air = "good", Waiting, GoodInv, Timeout
  PROVE  FALSE
<1>1. /\ ~event /\ toDev = <<>> /\ toApp = <<>> /\ pushing = {} /\ \A t \in Task : Idle(t)
  BY DEF Timeout, Quiet
<1>2. req \in 1..Requests
  BY LinkAssumption DEF LinkTypeOK, Waiting, LinkAssumption
<1>3. ~Asked(req)
  BY <1>1 DEF Asked, Settled
<1>4. ~Completing(req)
  BY <1>1 DEF Completing, Idle
<1>5. ~Answered(req)
  BY <1>1 DEF Answered
<1>6. ASSUME Arriving(req) PROVE FALSE
  <2>1. running = NoTask
    BY <1>1 DEF CollectorInv, TypeOK, Idle
  <2>2. InAir = {} /\ InHand = {}
    BY <1>1, <2>1 DEF InAir, InHand
  <2>3. transaction_in_progress
    BY <1>1, <1>6, <2>2 DEF Arriving
  <2>4. InTemp = {} /\ InStore = DOMAIN frame_data /\ expected_frames = nframes[req]
    BY <1>6, <2>3 DEF Arriving, InTemp, Numbers, InStore
  <2>5. DOMAIN frame_data = 0..(expected_frames - 1)
    BY <1>1, <1>6, <2>2, <2>4 DEF Arriving, Parted
  <2>6. expected_frames \in 1..BitmapBits
    BY <1>2, <2>4, GoodCount
  <2>7. QED
    BY <2>3, <2>5, <2>6 DEF CollectorInv, CompleteIsNoticed
<1>7. QED
  BY <1>3, <1>4, <1>5, <1>6 DEF GoodInv

\* The last control frame is written and the message announced.
LEMMA GoodControlSent ==
  ASSUME ShortResponses, LinkTypeOK, CollectorInv, air = "good", NEW m \in 1..Requests, Completing(m),
         NEW t \in Task, Collect(t), ControlSent(t)
  PROVE  Answered(m)'
<1>1. PICK u \in Task : /\ sending[u].active /\ sending[u].done # 0 /\ sending[u].data = Response(m)
                        /\ sending[u].bits = 0..(nframes[m] - 1)
                        /\ \A v \in Task : sending[v].active => v = u
  BY DEF Completing
<1>2. /\ u = t /\ sending' = [sending EXCEPT ![t] = NoWrite] /\ UNCHANGED <<collectorVars, todo>>
      /\ running' = IF todo[t] = <<>> THEN NoTask ELSE t
  BY <1>1 DEF ControlSent
<1>3. sending'[t] # sending[t] /\ \A v \in Task : ~sending'[v].active
  <2>1. sending = [v \in Task |-> sending[v]]
    BY DEF CollectorInv, TypeOK
  <2>2. QED
    BY <1>1, <1>2, <2>1 DEF NoWrite
<1>4. /\ toDev' = Append(toDev, [kind |-> "CTRL", bits |-> sending[t].bits])
      /\ message_context' = sending[t].data /\ event' = (event \/ sending[t].done # 0)
      /\ UNCHANGED <<nframes, toApp, last_a5, pushing>>
  <2>1. ~(BufferFrame(t) \/ AddPartial(t) \/ AddLast(t) \/ AddKeyError(t))
    BY <1>2, ClearedIdle DEF BufferFrame, AddPartial, AddLast, AddKeyError, Complete, Completing
  <2>2. QED
    BY <1>1, <1>2, <2>1 DEF Collect
<1>5. Cleared' /\ NoWrites'
  <2>1. todo[t] = <<>>
    BY ClearedIdle DEF Completing
  <2>2. QED
    BY <1>2, <1>3, <1>4, <2>1 DEF Completing, Cleared, NoCalls, NoWrites, collectorVars
<1>6. event' /\ message_context' = Response(m)'
  BY <1>1, <1>2, <1>4 DEF Response
<1>7. Settled(<<>>)'
  <2>1. toDev = <<>> /\ last_a5.msg = m /\ last_a5.n > 0
    BY DEF Completing
  <2>2. last_a5.n = nframes[m]
    BY <2>1 DEF LinkTypeOK, NoFrames
  <2>3. toDev' = <<[kind |-> "CTRL", bits |-> 0..(last_a5.n - 1)]>>
    BY <1>1, <1>2, <1>4, <2>1, <2>2
  <2>4. QED
    BY <1>4, <2>1, <2>3 DEF Settled
<1>8. QED
  BY <1>5, <1>6, <1>7 DEF Answered

\* The peripheral answers a request.
LEMMA GoodRequest ==
  ASSUME ShortResponses, LinkTypeOK, CollectorInv, air = "good", NEW m \in 1..Requests, Asked(m),
         HandleRequest
  PROVE  Arriving(m)'
<1>1. toDev = <<[kind |-> "REQ", msg |-> m]>> /\ last_a5 = NoFrames
  BY DEF Asked, Settled, HandleRequest
<1>2. /\ last_a5' = [msg |-> m, n |-> nframes[m]] /\ pushing' = 0..(nframes[m] - 1) /\ toDev' = <<>>
      /\ UNCHANGED <<vars, nframes, event, toApp>>
  BY <1>1 DEF HandleRequest
<1>3. UNCHANGED <<running, todo, sending, transaction_in_progress, temp_frame_data>>
  BY <1>2 DEF vars, collectorVars, taskVars
<1>4. /\ toApp' = <<>> /\ running' = NoTask /\ temp_frame_data' = <<>> /\ ~transaction_in_progress'
      /\ \A t \in Task : todo'[t] = <<>>
  BY <1>2, <1>3, ClearedIdle DEF Asked, Cleared
<1>5. InAir' = {} /\ InHand' = {} /\ InTemp' = {} /\ InStore' = {}
  BY <1>4 DEF InAir, InHand, InTemp, InStore, Numbers
<1>6. nframes[m] \in Nat /\ nframes[m] > 0
  BY GoodCount
<1>7. Parted(pushing, InAir, InHand, InTemp, InStore, nframes[m])'
  BY <1>2, <1>5 DEF Parted
<1>8. FramesOf(m)' /\ CallsOf(m, temp_frame_data)' /\ \A t \in Task : CallsOf(m, todo[t])'
  BY <1>4 DEF FramesOf, CallsOf, Distinct
<1>9. 0 \in pushing'
  BY <1>2, <1>6
<1>10. NoCalls' /\ NoWrites' /\ ~event'
  BY <1>2, <1>3, <1>4 DEF Asked, NoCalls, NoWrites
<1>11. QED
  BY <1>2, <1>4, <1>6, <1>7, <1>8, <1>9, <1>10 DEF Arriving

\* The peripheral takes the acknowledgement of a whole response.
LEMMA GoodControl ==
  ASSUME ShortResponses, LinkTypeOK, air = "good", NEW rest, Settled(rest), HandleControl,
         rest = <<>> \/ Head(rest).kind # "CTRL"
  PROVE  Settled(rest)' /\ UNCHANGED <<pushing, toApp, event, message_context, vars>>
<1>1. /\ toDev # <<>> /\ Tail(toDev) = rest /\ last_a5.n > 0
      /\ Head(toDev) = [kind |-> "CTRL", bits |-> 0..(last_a5.n - 1)]
  BY DEF Settled, HandleControl
<1>2. last_a5.msg \in 1..Requests /\ last_a5.n = nframes[last_a5.msg]
  BY <1>1 DEF LinkTypeOK, NoFrames
<1>3. last_a5.n \in Nat /\ last_a5.n <= 8
  BY <1>2, GoodCount
<1>4. Acked = 0..(last_a5.n - 1)
  BY <1>1, <1>3 DEF Acked
<1>5. AllAcked
  BY <1>4 DEF AllAcked
<1>6. last_a5' = NoFrames /\ toDev' = rest
  BY <1>1, <1>3, <1>5 DEF HandleControl
<1>7. UNCHANGED <<pushing, toApp, event, message_context, vars>>
  BY <1>1, <1>3, <1>5 DEF HandleControl
<1>8. QED
  BY <1>6, <1>7 DEF Settled

\* r holds the elements of q, and f.
With(r, q, f) ==
    /\ \A i \in DOMAIN r : r[i] = f \/ \E j \in DOMAIN q : r[i] = q[j]
    /\ {r[i].payload.idx : i \in DOMAIN r} = {q[i].payload.idx : i \in DOMAIN q} \cup {f.payload.idx}

\* A frame is put on the air.
LEMMA FrameSent ==
  ASSUME NEW S, NEW q \in Seq(S), NEW f \in S, NEW r, r = Append(q, f),
         f.payload.idx \notin {q[i].payload.idx : i \in DOMAIN q},
         Distinct(q)
  PROVE  With(r, q, f) /\ Distinct(r)
<1>1. /\ Len(q) \in Nat /\ DOMAIN q = 1..Len(q) /\ r \in Seq(S) /\ Len(r) = Len(q) + 1
      /\ \A i \in 1..Len(q) : r[i] = q[i]
      /\ r[Len(q) + 1] = f
  BY LenProperties, AppendProperties
<1>2. DOMAIN r = 1..(Len(q) + 1)
  BY <1>1, LenProperties
<1>3. /\ \A i \in DOMAIN r : i \in DOMAIN q \/ i = Len(q) + 1
      /\ Len(q) + 1 \in DOMAIN r /\ \A i \in DOMAIN q : i \in DOMAIN r
  BY <1>1, <1>2
<1>4. \A i \in DOMAIN q : r[i] = q[i] /\ r[i].payload.idx # f.payload.idx
  BY <1>1
<1>5. \A i \in DOMAIN r : r[i] = f \/ \E j \in DOMAIN q : r[i] = q[j]
  BY <1>1, <1>3, <1>4
<1>6. ASSUME NEW i \in DOMAIN r, NEW j \in DOMAIN r, r[i].payload.idx = r[j].payload.idx
      PROVE  i = j
  <2>1. CASE i \in DOMAIN q /\ j \in DOMAIN q
    BY <1>4, <1>6, <2>1 DEF Distinct
  <2>2. CASE i \notin DOMAIN q \/ j \notin DOMAIN q
    BY <1>1, <1>3, <1>4, <1>6, <2>2
  <2>3. QED
    BY <2>1, <2>2
<1>7. {r[i].payload.idx : i \in DOMAIN r} \subseteq {q[i].payload.idx : i \in DOMAIN q} \cup {f.payload.idx}
  BY <1>5
<1>8. {q[i].payload.idx : i \in DOMAIN q} \cup {f.payload.idx} \subseteq {r[i].payload.idx : i \in DOMAIN r}
  BY <1>1, <1>3, <1>4
<1>9. QED
  BY <1>5, <1>6, <1>7, <1>8 DEF Distinct, With

\* The peripheral pushes a frame.
LEMMA GoodPush ==
  ASSUME LinkTypeOK, NEW m \in 1..Requests, Arriving(m), Push
  PROVE  Arriving(m)'
<1>1. PICK i \in pushing : toApp' = Append(toApp, FrameOf(m, i)) /\ pushing' = pushing \ {i}
  BY DEF Push, Arriving
<1>2. UNCHANGED <<vars, nframes, event, toDev, last_a5>> /\ toApp \in Seq(AppFrames)
  BY DEF Push, LinkTypeOK
<1>3. UNCHANGED <<frame_data, expected_frames, running, todo, sending, transaction_in_progress, temp_frame_data>>
  BY <1>2 DEF vars, collectorVars, taskVars
<1>4. Parted(pushing, InAir, InHand, InTemp, InStore, nframes[m]) /\ FramesOf(m)
  BY DEF Arriving
<1>5. i \in 0..(nframes[m] - 1) /\ i \notin InAir
  BY <1>4 DEF Parted
<1>6. PICK f : f = FrameOf(m, i)
  OBVIOUS
<1>7. f.payload.idx = i /\ f \in AppFrames /\ f = FrameOf(m, f.payload.idx)
  <2>1. FrameOf(m, i).payload = [msg |-> m, idx |-> i]
    BY <1>5, FrameFields
  <2>2. FrameOf(m, i) \in AppFrames
    BY <1>5 DEF AppFrames
  <2>3. QED
    BY <1>6, <2>1, <2>2
<1>8. /\ \A k \in DOMAIN toApp' : toApp'[k] = f \/ \E j \in DOMAIN toApp : toApp'[k] = toApp[j]
      /\ Distinct(toApp')
      /\ InAir' = InAir \cup {i}
  <2>1. /\ f.payload.idx \notin {toApp[k].payload.idx : k \in DOMAIN toApp}
        /\ Distinct(toApp)
    BY <1>4, <1>5, <1>7 DEF InAir, FramesOf
  <2>2. toApp' = Append(toApp, f)
    BY <1>1, <1>6
  <2>3. With(toApp', toApp, f) /\ Distinct(toApp')
    BY <1>2, <1>7, <2>1, <2>2, FrameSent, Zenon
  <2>4. QED
    BY <1>7, <2>3 DEF With, InAir
<1>9. FramesOf(m)'
  <2>1. \A k \in DOMAIN toApp' : toApp'[k] = FrameOf(m, toApp'[k].payload.idx)
    BY <1>4, <1>7, <1>8 DEF FramesOf
  <2>2. QED
    BY <1>2, <1>8, <2>1 DEF FramesOf, FrameOf
<1>10. InHand' = InHand /\ InTemp' = InTemp /\ InStore' = InStore
  BY <1>3 DEF InHand, InTemp, InStore
<1>11. Parted(pushing, InAir, InHand, InTemp, InStore, nframes[m])'
  BY <1>1, <1>2, <1>4, <1>8, <1>10, Moved
<1>12. pushing' \cup InAir' = pushing \cup InAir
  BY <1>1, <1>8
<1>13. NoCalls' /\ NoWrites'
  BY <1>3 DEF Arriving, NoCalls, NoWrites
<1>14. /\ CallsOf(m, temp_frame_data)' /\ \A t \in Task : CallsOf(m, todo[t])'
  BY <1>3 DEF Arriving, CallsOf
<1>15. QED
  BY <1>2, <1>3, <1>9, <1>11, <1>12, <1>13, <1>14 DEF Arriving

\* A frame of the response is taken off the air.
LEMMA ResponseTaken ==
  ASSUME LinkTypeOK, NEW m \in 1..Requests, FramesOf(m), NEW k \in DOMAIN toApp, nframes' = nframes,
         InAir \subseteq 0..(nframes[m] - 1),
         toApp' = SubSeq(toApp, 1, k - 1) \o SubSeq(toApp, k + 1, Len(toApp))
  PROVE  \E x \in InAir :
            /\ toApp[k].payload = [msg |-> m, idx |-> x] /\ [msg |-> m, idx |-> x] \in Payload
            /\ toApp[k].kind = "FIRST" => x = 0 /\ toApp[k].count = nframes[m]
            /\ toApp[k].kind = "CONS" => x # 0 /\ toApp[k].index = x
            /\ InAir' = InAir \ {x} /\ FramesOf(m)'
<1>1. PICK q, r, x : q = toApp /\ r = toApp' /\ x = toApp[k].payload.idx
  OBVIOUS
<1>2. q \in Seq(AppFrames) /\ k \in DOMAIN q /\ r = SubSeq(q, 1, k - 1) \o SubSeq(q, k + 1, Len(q))
  BY <1>1 DEF LinkTypeOK
<1>3. /\ \A i \in DOMAIN q : q[i] = FrameOf(m, q[i].payload.idx)
      /\ Distinct(q)
  BY <1>1 DEF FramesOf
<1>4. /\ \A i \in DOMAIN r : \E j \in DOMAIN q : j # k /\ r[i] = q[j]
      /\ \A j \in DOMAIN q : j # k => \E i \in DOMAIN r : r[i] = q[j]
      /\ Distinct(r)
  <2>1. Distinct(q)
    BY <1>3
  <2>2. Without(r, q, k) /\ Distinct(r)
    BY ONLY <1>2, <2>1, FrameTaken, Zenon
  <2>3. QED
    BY <2>2 DEF Without
<1>5. InAir' = InAir \ {x} /\ x \in InAir /\ toApp[k] = FrameOf(m, x)
  <2>1. InAir = {q[i].payload.idx : i \in DOMAIN q} /\ x = q[k].payload.idx
    BY <1>1 DEF InAir
  <2>2. InAir' = {r[i].payload.idx : i \in DOMAIN r}
    BY <1>1 DEF InAir
  <2>3. x \in InAir
    BY <1>2, <2>1
  <2>4. toApp[k] = FrameOf(m, x)
    BY <1>1, <1>2, <1>3
  <2>5. ASSUME NEW i \in DOMAIN r PROVE r[i].payload.idx \in InAir \ {x}
    <3>1. PICK j \in DOMAIN q : j # k /\ r[i] = q[j]
      BY <1>4
    <3>2. q[j].payload.idx # q[k].payload.idx
      BY <1>2, <1>3, <3>1 DEF Distinct
    <3>3. QED
      BY <2>1, <3>1, <3>2
  <2>6. ASSUME NEW j \in DOMAIN q, q[j].payload.idx # x PROVE q[j].payload.idx \in InAir'
    <3>1. PICK i \in DOMAIN r : r[i] = q[j]
      BY <1>4, <2>1, <2>6
    <3>2. QED
      BY <2>2, <3>1
  <2>7. InAir' \subseteq InAir \ {x}
    BY <2>2, <2>5
  <2>8. InAir \ {x} \subseteq InAir'
    BY <2>1, <2>6
  <2>9. QED
    BY <2>3, <2>4, <2>7, <2>8
<1>6. FramesOf(m)'
  <2>1. ASSUME NEW i \in DOMAIN r PROVE r[i] = FrameOf(m, r[i].payload.idx)
    <3>1. PICK j \in DOMAIN q : r[i] = q[j]
      BY <1>4
    <3>2. QED
      BY <1>3, <3>1
  <2>2. ASSUME NEW i \in DOMAIN r PROVE r[i] = FrameOf(m, r[i].payload.idx)'
    BY <1>1, <2>1 DEF FrameOf
  <2>3. QED
    BY <1>1, <1>4, <2>2 DEF FramesOf
<1>7. x \in 0..(nframes[m] - 1)
  BY <1>5
<1>8. PICK f : f = FrameOf(m, x)
  OBVIOUS
<1>9. /\ f.payload = [msg |-> m, idx |-> x]
      /\ x = 0 => f.kind = "FIRST" /\ f.count = nframes[m]
      /\ x # 0 => f.kind = "CONS" /\ f.index = x
  <2>1. \A l \in 1..Requests : \A i \in 0..(nframes[l] - 1) :
            /\ FrameOf(l, i).payload = [msg |-> l, idx |-> i] /\ FrameOf(l, i) \in Frame
            /\ i = 0 => FrameOf(l, i).kind = "FIRST" /\ FrameOf(l, i).count = nframes[l]
            /\ i # 0 => FrameOf(l, i).kind = "CONS" /\ FrameOf(l, i).index = i
    BY FrameFields
  <2>2. /\ FrameOf(m, x).payload = [msg |-> m, idx |-> x]
        /\ x = 0 => FrameOf(m, x).kind = "FIRST" /\ FrameOf(m, x).count = nframes[m]
        /\ x # 0 => FrameOf(m, x).kind = "CONS" /\ FrameOf(m, x).index = x
    BY ONLY <1>7, <2>1, m \in 1..Requests
  <2>3. QED
    BY <1>8, <2>2
<1>10. [msg |-> m, idx |-> x] \in Payload
  <2>1. \A i \in 0..(nframes[m] - 1) : [msg |-> m, idx |-> i] \in Payload
    BY FrameCount
  <2>2. QED
    BY <1>7, <2>1, Zenon
<1>11. QED
  BY <1>5, <1>6, <1>8, <1>9, <1>10

\* A frame that continues a message reaches its task.
LEMMA GoodNotifyCons ==
  ASSUME LinkTypeOK, CollectorInv, NEW m \in 1..Requests, Arriving(m), NEW t \in Task, Notify(t),
         NEW k \in DOMAIN toApp, toApp[k].kind = "CONS", ProcessCons(t, toApp[k]),
         toApp' = SubSeq(toApp, 1, k - 1) \o SubSeq(toApp, k + 1, Len(toApp))
  PROVE  Arriving(m)'
<1>1. UNCHANGED <<nframes, event, toDev, last_a5, pushing>>
  BY DEF Notify
<1>2. Parted(pushing, InAir, InHand, InTemp, InStore, nframes[m]) /\ FramesOf(m)
  BY DEF Arriving
<1>3. PICK x \in InAir : /\ toApp[k].payload = [msg |-> m, idx |-> x] /\ x # 0 /\ toApp[k].index = x
                        /\ InAir' = InAir \ {x} /\ FramesOf(m)'
  <2>1. InAir \subseteq 0..(nframes[m] - 1)
    BY <1>2 DEF Parted
  <2>2. QED
    BY <1>1, <1>2, <2>1, ResponseTaken
<1>4. PICK c : c = [index |-> x, payload |-> [msg |-> m, idx |-> x]]
  OBVIOUS
<1>5. /\ running = NoTask /\ running' = t /\ todo' = [todo EXCEPT ![t] = <<c>>]
      /\ UNCHANGED <<frame_data, expected_frames, transaction_in_progress, temp_frame_data, sending>>
  BY <1>3, <1>4 DEF ProcessCons, collectorVars
<1>6. todo'[t] = <<c>> /\ \A u \in Task : u # t => todo'[u] = todo[u]
  BY <1>5 DEF CollectorInv, TypeOK
<1>7. InHand = {} /\ InHand' = {x} /\ InTemp' = InTemp /\ InStore' = InStore
  <2>1. Numbers(<<c>>) = {x}
    BY <1>4 DEF Numbers
  <2>2. t # NoTask
    BY TaskAssumption DEF TaskAssumption
  <2>3. InHand' = Numbers(todo'[t])
    BY <1>5, <2>2 DEF InHand, Numbers
  <2>4. QED
    BY <1>5, <1>6, <2>1, <2>3 DEF InHand, InTemp, InStore, Numbers
<1>8. Parted(pushing, InAir, InHand, InTemp, InStore, nframes[m])'
  BY <1>1, <1>2, <1>3, <1>7, Moved
<1>9. 0 \in pushing' \cup InAir' <=> 0 \in pushing \cup InAir
  BY <1>1, <1>3
<1>10. NoCalls' /\ NoWrites'
  BY <1>5, <1>6, TaskAssumption DEF Arriving, NoCalls, NoWrites, TaskAssumption
<1>11. CallsOf(m, temp_frame_data)' /\ \A u \in Task : CallsOf(m, todo[u])'
  <2>1. CallsOf(m, <<c>>)
    BY <1>4 DEF CallsOf
  <2>2. \A u \in Task : CallsOf(m, todo'[u])
    BY <1>6, <2>1 DEF Arriving
  <2>3. QED
    BY <1>5, <2>2 DEF Arriving, CallsOf
<1>12. QED
  BY <1>1, <1>3, <1>5, <1>8, <1>9, <1>10, <1>11 DEF Arriving

\* Frame 0 opens the transaction; the buffered frames go into it.
LEMMA GoodNotifyFirst ==
  ASSUME LinkTypeOK, CollectorInv, NEW m \in 1..Requests, Arriving(m), NEW t \in Task, Notify(t),
         NEW k \in DOMAIN toApp, toApp[k].kind = "FIRST", ProcessFirst(t, toApp[k]),
         toApp' = SubSeq(toApp, 1, k - 1) \o SubSeq(toApp, k + 1, Len(toApp))
  PROVE  Arriving(m)'
<1>1. UNCHANGED <<nframes, event, toDev, last_a5, pushing>>
  BY DEF Notify
<1>2. Parted(pushing, InAir, InHand, InTemp, InStore, nframes[m]) /\ FramesOf(m)
  BY DEF Arriving
<1>3. /\ 0 \in InAir /\ toApp[k].payload = [msg |-> m, idx |-> 0] /\ toApp[k].count = nframes[m]
      /\ [msg |-> m, idx |-> 0] \in Payload
      /\ InAir' = InAir \ {0} /\ FramesOf(m)'
  <2>1. InAir \subseteq 0..(nframes[m] - 1)
    BY <1>2 DEF Parted
  <2>2. QED
    BY <1>1, <1>2, <2>1, ResponseTaken
<1>4. PICK c : c = [index |-> 0, payload |-> [msg |-> m, idx |-> 0]]
  OBVIOUS
<1>5. c \in Call
  BY <1>3, <1>4 DEF Call
<1>6. /\ running = NoTask /\ running' = t
      /\ todo' = [todo EXCEPT ![t] = temp_frame_data \o <<c>>]
      /\ frame_data' = <<>> /\ expected_frames' = nframes[m] /\ transaction_in_progress' = TRUE
      /\ temp_frame_data' = <<>> /\ sending' = sending
  BY <1>3, <1>4 DEF ProcessFirst, StartTransaction, Reset, FirstCall
<1>7. /\ ~transaction_in_progress /\ InStore = {} /\ InHand = {} /\ 0 \notin InTemp
      /\ CallsOf(m, temp_frame_data) /\ temp_frame_data \in Seq(Call)
  <2>1. ~transaction_in_progress
    BY <1>3 DEF Arriving
  <2>2. 0 \notin InTemp
    BY <1>2, <1>3 DEF Parted
  <2>3. QED
    BY <1>6, <2>1, <2>2 DEF InStore, InHand, Arriving, CollectorInv, TypeOK
<1>8. PICK calls : calls = Append(temp_frame_data, c)
  OBVIOUS
<1>9. CallsOf(m, calls) /\ Numbers(calls) = InTemp \cup {0}
  <2>1. c.payload = [msg |-> m, idx |-> c.index] /\ c.index = 0
    BY <1>4
  <2>2. c.index \notin Numbers(temp_frame_data)
    BY <1>7, <2>1 DEF InTemp
  <2>3. QED
    BY <1>5, <1>7, <1>8, <2>1, <2>2, CallAdded DEF InTemp
<1>10. todo'[t] = calls /\ \A u \in Task : u # t => todo'[u] = todo[u]
  <2>1. temp_frame_data \o <<c>> = Append(temp_frame_data, c)
    BY <1>5, <1>7, AppendIsConcat
  <2>2. QED
    BY <1>6, <1>8, <2>1 DEF CollectorInv, TypeOK
<1>11. InHand' = InTemp \cup {0} /\ InTemp' = {} /\ InStore' = {}
  <2>1. t # NoTask
    BY TaskAssumption DEF TaskAssumption
  <2>2. InHand' = Numbers(todo'[t])
    BY <1>6, <2>1 DEF InHand, Numbers
  <2>3. InTemp' = {}
    BY <1>6 DEF InTemp, Numbers
  <2>4. InStore' = {}
    <3>1. DOMAIN frame_data' = {}
      BY <1>6
    <3>2. QED
      BY <1>6, <3>1 DEF InStore
  <2>5. QED
    BY <1>9, <1>10, <2>2, <2>3, <2>4
<1>12. Parted(pushing, InAir, InHand, InTemp, InStore, nframes[m])'
  BY <1>1, <1>2, <1>3, <1>7, <1>11 DEF Parted
<1>13. 0 \notin pushing' \cup InAir'
  BY <1>1, <1>2, <1>3 DEF Parted
<1>14. NoCalls' /\ NoWrites'
  BY <1>6, <1>10, TaskAssumption DEF Arriving, NoCalls, NoWrites, TaskAssumption
<1>15. CallsOf(m, temp_frame_data)' /\ \A u \in Task : CallsOf(m, todo[u])'
  <2>1. \A u \in Task : CallsOf(m, todo'[u])
    BY <1>9, <1>10 DEF Arriving
  <2>2. CallsOf(m, temp_frame_data)'
    BY <1>6 DEF CallsOf
  <2>3. QED
    BY <2>1, <2>2 DEF CallsOf
<1>16. \A i \in DOMAIN frame_data' : frame_data'[i] = [msg |-> m, idx |-> i]
  BY <1>6
<1>17. QED
  BY <1>1, <1>3, <1>6, <1>16, <1>12, <1>13, <1>14, <1>15 DEF Arriving

\* The call that the running task makes next.
LEMMA NextCall ==
  ASSUME LinkTypeOK, CollectorInv, NEW m \in 1..Requests, Arriving(m), NEW t \in Task, running = t,
         todo[t] # <<>>
  PROVE  \E x \in InHand :
            /\ Head(todo[t]) = [index |-> x, payload |-> [msg |-> m, idx |-> x]]
            /\ Head(todo[t]) \in Call /\ x \in 0..(nframes[m] - 1)
            /\ CallsOf(m, Tail(todo[t])) /\ Numbers(Tail(todo[t])) = InHand \ {x}
            /\ Len(todo[t]) = 1 <=> Tail(todo[t]) = <<>>
<1>1. todo[t] \in Seq(Call) /\ CallsOf(m, todo[t])
  BY DEF CollectorInv, TypeOK, Arriving
<1>2. InHand = Numbers(todo[t])
  BY TaskAssumption DEF InHand, TaskAssumption
<1>3. PICK q : q = todo[t]
  OBVIOUS
<1>4. /\ Tail(q) \in Seq(Call) /\ CallsOf(m, Tail(q))
      /\ Numbers(Tail(q)) = Numbers(q) \ {Head(q).index} /\ Head(q).index \in Numbers(q)
      /\ Head(q).payload = [msg |-> m, idx |-> Head(q).index] /\ Head(q) \in Call
      /\ Len(q) = 1 <=> Tail(q) = <<>>
  BY <1>1, <1>3, CallMade
<1>5. Head(q) = [index |-> Head(q).index, payload |-> [msg |-> m, idx |-> Head(q).index]]
  BY <1>4 DEF Call
<1>6. InHand \subseteq 0..(nframes[m] - 1)
  BY DEF Arriving, Parted
<1>7. QED
  BY <1>2, <1>3, <1>4, <1>5, <1>6

\* The task has made its call and goes on with the others, or has none left.
LEMMA CallsGoOn ==
  ASSUME CollectorInv, NEW m, Arriving(m), NEW t \in Task, running = t, todo[t] # <<>>, NEW x,
         CallsOf(m, Tail(todo[t])), Numbers(Tail(todo[t])) = InHand \ {x},
         Len(todo[t]) = 1 <=> Tail(todo[t]) = <<>>, Continue(t)
  PROVE  InHand' = InHand \ {x} /\ NoCalls' /\ \A u \in Task : CallsOf(m, todo'[u])
<1>1. /\ todo' = [todo EXCEPT ![t] = Tail(todo[t])]
      /\ running' = IF Tail(todo[t]) = <<>> THEN NoTask ELSE t
  BY DEF Continue
<1>2. todo'[t] = Tail(todo[t]) /\ \A u \in Task : u # t => todo'[u] = todo[u] /\ todo[u] = <<>>
  BY <1>1 DEF CollectorInv, TypeOK, Arriving, NoCalls
<1>3. \A u \in Task : CallsOf(m, todo'[u])
  BY <1>2 DEF Arriving
<1>4. NoCalls'
  BY <1>1, <1>2 DEF NoCalls
<1>5. InHand' = InHand \ {x}
  <2>1. CASE Tail(todo[t]) = <<>>
    <3>1. InHand' = {} /\ Numbers(Tail(todo[t])) = {}
      BY <1>1, <2>1 DEF InHand, Numbers
    <3>2. QED
      BY <3>1
  <2>2. CASE Tail(todo[t]) # <<>>
    <3>1. running' = t /\ t # NoTask
      BY <1>1, <2>2, TaskAssumption DEF TaskAssumption
    <3>2. InHand' = Numbers(todo'[t])
      BY <3>1 DEF InHand, Numbers
    <3>3. QED
      BY <1>2, <3>2
  <2>3. QED
    BY <2>1, <2>2
<1>6. QED
  BY <1>3, <1>4, <1>5

\* A frame before frame 0 is buffered.
LEMMA GoodBuffer ==
  ASSUME LinkTypeOK, CollectorInv, NEW m \in 1..Requests, Arriving(m), NEW t \in Task,
         BufferFrame(t), UNCHANGED linkVars
  PROVE  Arriving(m)'
<1>1. /\ running = t /\ todo[t] # <<>> /\ ~transaction_in_progress /\ Continue(t)
      /\ temp_frame_data' = PutTemp(Head(todo[t]).index, Head(todo[t]).payload)
      /\ UNCHANGED <<frame_data, expected_frames, transaction_in_progress, sending>>
  BY DEF BufferFrame
<1>2. UNCHANGED <<nframes, event, toDev, last_a5, pushing, toApp>>
  BY DEF linkVars
<1>3. PICK x \in InHand : /\ Head(todo[t]) = [index |-> x, payload |-> [msg |-> m, idx |-> x]]
                          /\ Head(todo[t]) \in Call
                          /\ CallsOf(m, Tail(todo[t])) /\ Numbers(Tail(todo[t])) = InHand \ {x}
                          /\ Len(todo[t]) = 1 <=> Tail(todo[t]) = <<>>
  BY <1>1, NextCall
<1>4. InHand' = InHand \ {x} /\ NoCalls' /\ \A u \in Task : CallsOf(m, todo'[u])
  BY <1>1, <1>3, CallsGoOn
<1>5. PICK c : c = [index |-> x, payload |-> [msg |-> m, idx |-> x]]
  OBVIOUS
<1>6. Parted(pushing, InAir, InHand, InTemp, InStore, nframes[m]) /\ x \notin InTemp
  BY DEF Arriving, Parted
<1>7. temp_frame_data' = Append(temp_frame_data, c)
  <2>1. ~\E k \in DOMAIN temp_frame_data : temp_frame_data[k].index = x
    BY <1>6 DEF InTemp, Numbers
  <2>2. QED
    BY <1>1, <1>3, <1>5, <2>1 DEF PutTemp
<1>8. CallsOf(m, temp_frame_data') /\ InTemp' = InTemp \cup {x}
  <2>1. temp_frame_data \in Seq(Call) /\ CallsOf(m, temp_frame_data) /\ x \notin Numbers(temp_frame_data)
    BY <1>6 DEF CollectorInv, TypeOK, Arriving, InTemp
  <2>2. c \in Call /\ c.index = x /\ c.payload = [msg |-> m, idx |-> c.index]
    BY <1>3, <1>5
  <2>3. /\ CallsOf(m, Append(temp_frame_data, c))
        /\ Numbers(Append(temp_frame_data, c)) = Numbers(temp_frame_data) \cup {c.index}
    BY <2>1, <2>2, CallAdded
  <2>4. InTemp' = Numbers(temp_frame_data')
    BY DEF InTemp, Numbers
  <2>5. QED
    BY <1>7, <2>2, <2>3, <2>4 DEF InTemp
<1>9. InAir' = InAir /\ InStore' = {} /\ InStore = {}
  BY <1>1, <1>2 DEF InAir, InStore
<1>10. Parted(pushing, InAir, InHand, InTemp, InStore, nframes[m])'
  BY <1>2, <1>4, <1>6, <1>8, <1>9, Moved
<1>11. FramesOf(m)'
  BY <1>2 DEF Arriving, FramesOf, FrameOf, Distinct
<1>12. NoWrites'
  BY <1>1 DEF Arriving, NoWrites
<1>13. CallsOf(m, temp_frame_data)' /\ \A u \in Task : CallsOf(m, todo[u])'
  BY <1>4, <1>8 DEF CallsOf
<1>14. QED
  BY <1>1, <1>2, <1>4, <1>9, <1>10, <1>11, <1>12, <1>13 DEF Arriving

\* Every payload stored is that of its frame of response m.
Holds(data, m) == data = [i \in DOMAIN data |-> [msg |-> m, idx |-> i]]

\* A frame of the open transaction is stored.
LEMMA GoodStore ==
  ASSUME ShortResponses, LinkTypeOK, CollectorInv, air = "good", NEW m \in 1..Requests, Arriving(m),
         NEW t \in Task, running = t, todo[t] # <<>>, transaction_in_progress,
         StoreFrame(Head(todo[t])), NEW x \in InHand,
         Head(todo[t]) = [index |-> x, payload |-> [msg |-> m, idx |-> x]]
  PROVE  /\ DOMAIN frame_data' = DOMAIN frame_data \cup {x}
         /\ DOMAIN frame_data \cup {x} \subseteq 0..(nframes[m] - 1)
         /\ Holds(frame_data', m)
         /\ bitmap \cup {x} = DOMAIN frame_data \cup {x}
         /\ expected_frames = nframes[m] /\ temp_frame_data = <<>>
         /\ Stored \in 1..nframes[m]
         /\ Stored = nframes[m] => DOMAIN frame_data' = 0..(nframes[m] - 1)
<1>1. /\ Parted(pushing, InAir, InHand, InTemp, InStore, nframes[m]) /\ InStore = DOMAIN frame_data
      /\ expected_frames = nframes[m] /\ temp_frame_data = <<>>
      /\ \A i \in DOMAIN frame_data : frame_data[i] = [msg |-> m, idx |-> i]
  BY DEF Arriving, InStore
<1>2. /\ nframes[m] \in Nat /\ nframes[m] <= BitmapBits /\ BitmapBits \in Nat
  BY GoodCount
<1>3. frame_data' = [k \in DOMAIN frame_data \cup {x} |->
                        IF k = x THEN [msg |-> m, idx |-> x] ELSE frame_data[k]]
  BY DEF StoreFrame, PutFrame
<1>4. DOMAIN frame_data' = DOMAIN frame_data \cup {x}
  BY <1>3
<1>5. DOMAIN frame_data \cup {x} \subseteq 0..(nframes[m] - 1)
  BY <1>1 DEF Parted
<1>6. Holds(frame_data', m)
  BY <1>1, <1>3 DEF Holds
<1>7. bitmap = DOMAIN frame_data
  <2>1. \A i \in DOMAIN frame_data : i < BitmapBits
    BY <1>2, <1>5
  <2>2. QED
    BY <2>1 DEF CollectorInv, BitmapExact
<1>8. Stored \in 1..nframes[m] /\ (Stored = nframes[m] => DOMAIN frame_data' = 0..(nframes[m] - 1))
  <2>1. PICK D : D = DOMAIN frame_data'
    OBVIOUS
  <2>2. D \subseteq 0..(nframes[m] - 1) /\ x \in D
    BY <1>4, <1>5, <2>1
  <2>3. IsFiniteSet(0..(nframes[m] - 1)) /\ Cardinality(0..(nframes[m] - 1)) = nframes[m]
    <3>1. PICK b \in Int : b = nframes[m] - 1
      BY <1>2
    <3>2. IsFiniteSet(0..b)
      BY FS_Interval
    <3>3. Cardinality(0..(nframes[m] - 1)) = nframes[m]
      BY <1>2, IntervalSize
    <3>4. QED
      BY <3>1, <3>2, <3>3
  <2>4. /\ IsFiniteSet(D) /\ Cardinality(D) <= nframes[m]
        /\ Cardinality(D) = nframes[m] => D = 0..(nframes[m] - 1)
    BY <2>2, <2>3, FS_Subset
  <2>5. Cardinality(D) \in Nat /\ Cardinality(D) # 0
    BY <2>2, <2>4, FS_CardinalityType, FS_EmptySet
  <2>6. QED
    BY <1>2, <2>1, <2>4, <2>5 DEF Stored
<1>9. QED
  BY <1>1, <1>4, <1>5, <1>6, <1>7, <1>8

\* Fewer frames than a control frame acknowledges are stored.
LEMMA Remainder ==
  ASSUME NEW a \in Nat, NEW c \in Nat, 0 < c, c < a
  PROVE  c % a = c
  OBVIOUS

\* The frame is not the last one: no control frame is due.
LEMMA GoodPartial ==
  ASSUME ShortResponses, LinkTypeOK, CollectorInv, air = "good", NEW m \in 1..Requests, Arriving(m),
         NEW t \in Task, AddPartial(t), UNCHANGED linkVars
  PROVE  Arriving(m)'
<1>1. /\ running = t /\ todo[t] # <<>> /\ transaction_in_progress /\ StoreFrame(Head(todo[t]))
      /\ Stored # expected_frames
      /\ UNCHANGED <<expected_frames, transaction_in_progress, temp_frame_data>>
  BY DEF AddPartial
<1>2. UNCHANGED <<nframes, event, toDev, last_a5, pushing, toApp>>
  BY DEF linkVars
<1>3. PICK x \in InHand : /\ Head(todo[t]) = [index |-> x, payload |-> [msg |-> m, idx |-> x]]
                          /\ CallsOf(m, Tail(todo[t])) /\ Numbers(Tail(todo[t])) = InHand \ {x}
                          /\ Len(todo[t]) = 1 <=> Tail(todo[t]) = <<>>
  BY <1>1, NextCall
<1>4. /\ DOMAIN frame_data' = DOMAIN frame_data \cup {x}
      /\ Holds(frame_data', m)
      /\ expected_frames = nframes[m] /\ temp_frame_data = <<>> /\ Stored \in 1..nframes[m]
  BY <1>1, <1>3, GoodStore
<1>5. Continue(t) /\ sending' = sending
  <2>1. /\ nframes[m] \in Nat /\ nframes[m] \in 1..AckEvery /\ AckEvery \in Nat
    BY GoodCount
  <2>2. PICK c \in Nat : c = Stored /\ 0 < c /\ c < AckEvery
    BY <1>1, <1>4, <2>1
  <2>3. c % AckEvery # 0
    BY <2>1, <2>2, Remainder
  <2>4. QED
    BY <2>2, <2>3 DEF AddPartial
<1>6. InHand' = InHand \ {x} /\ NoCalls' /\ \A u \in Task : CallsOf(m, todo'[u])
  BY <1>1, <1>3, <1>5, CallsGoOn
<1>7. InAir' = InAir /\ InTemp' = InTemp /\ InStore' = InStore \cup {x}
  BY <1>1, <1>2, <1>4 DEF InAir, InTemp, Numbers, InStore
<1>8. Parted(pushing, InAir, InHand, InTemp, InStore, nframes[m])'
  <2>1. Parted(pushing, InAir, InHand, InTemp, InStore, nframes[m])
    BY DEF Arriving
  <2>2. QED
    BY <1>2, <1>6, <1>7, <2>1, Moved
<1>9. FramesOf(m)'
  BY <1>2 DEF Arriving, FramesOf, FrameOf, Distinct
<1>10. NoWrites'
  BY <1>5 DEF Arriving, NoWrites
<1>11. CallsOf(m, temp_frame_data)' /\ \A u \in Task : CallsOf(m, todo[u])'
  BY <1>1, <1>6 DEF Arriving, CallsOf
<1>12. \A i \in DOMAIN frame_data' : frame_data'[i] = [msg |-> m, idx |-> i]
  BY <1>4 DEF Holds
<1>13. QED
  BY <1>1, <1>2, <1>4, <1>6, <1>7, <1>8, <1>9, <1>10, <1>11, <1>12 DEF Arriving

\* The last frame: the whole response waits behind its control frame.
LEMMA GoodLast ==
  ASSUME ShortResponses, LinkTypeOK, CollectorInv, air = "good", NEW m \in 1..Requests, Arriving(m),
         NEW t \in Task, AddLast(t), UNCHANGED linkVars
  PROVE  Completing(m)'
<1>1. /\ running = t /\ todo[t] # <<>> /\ transaction_in_progress /\ StoreFrame(Head(todo[t]))
      /\ Stored = expected_frames /\ transaction_in_progress' = FALSE /\ temp_frame_data' = <<>>
      /\ sending' = [sending EXCEPT ![t] =
            [active |-> TRUE, bits |-> bitmap \cup {Head(todo[t]).index}, done |-> txn, data |-> frame_data']]
      /\ todo' = [todo EXCEPT ![t] = Tail(todo[t])] /\ running' = NoTask
  BY DEF AddLast, Complete
<1>2. UNCHANGED <<nframes, event, toDev, last_a5, pushing, toApp>> /\ toApp \in Seq(AppFrames)
  BY DEF linkVars, LinkTypeOK
<1>3. PICK x \in InHand : /\ Head(todo[t]) = [index |-> x, payload |-> [msg |-> m, idx |-> x]]
                          /\ Numbers(Tail(todo[t])) = InHand \ {x}
  BY <1>1, NextCall
<1>4. /\ DOMAIN frame_data' = DOMAIN frame_data \cup {x}
      /\ Holds(frame_data', m)
      /\ bitmap \cup {x} = DOMAIN frame_data \cup {x}
      /\ DOMAIN frame_data' = 0..(nframes[m] - 1)
  BY <1>1, <1>3, GoodStore
<1>5. pushing = {} /\ InAir = {} /\ InHand = {x}
  <2>1. Parted(pushing, InAir, InHand, InTemp, InStore, nframes[m]) /\ InStore = DOMAIN frame_data
    BY <1>1 DEF Arriving, InStore
  <2>2. QED
    BY <1>4, <2>1 DEF Parted
<1>6. toApp = <<>>
  <2>1. DOMAIN toApp = {}
    BY <1>5 DEF InAir
  <2>2. Len(toApp) \in Nat /\ DOMAIN toApp = 1..Len(toApp)
    BY <1>2, LenProperties
  <2>3. Len(toApp) = 0
    BY <2>1, <2>2
  <2>4. QED
    BY <1>2, <2>3
<1>7. Tail(todo[t]) = <<>>
  <2>1. PICK q : q = Tail(todo[t])
    OBVIOUS
  <2>2. q \in Seq(Call) /\ Numbers(q) = {}
    BY <1>1, <1>3, <1>5, <2>1, TodoHead DEF CollectorInv
  <2>3. Len(q) \in Nat /\ DOMAIN q = 1..Len(q) /\ DOMAIN q = {}
    <3>1. DOMAIN q = {}
      BY <2>2 DEF Numbers
    <3>2. QED
      BY <2>2, <3>1, LenProperties
  <2>4. Len(q) = 0
    BY <2>3
  <2>5. QED
    BY <2>1, <2>2, <2>4
<1>8. \A u \in Task : todo'[u] = <<>>
  BY <1>1, <1>7 DEF CollectorInv, TypeOK, Arriving, NoCalls
<1>9. Cleared'
  BY <1>1, <1>2, <1>5, <1>6, <1>8 DEF Cleared, NoCalls
<1>10. /\ sending'[t].active /\ sending'[t].done # 0 /\ sending'[t].bits = 0..(nframes[m] - 1)
       /\ sending'[t].data = frame_data' /\ \A u \in Task : u # t => ~sending'[u].active
  <2>1. sending = [u \in Task |-> sending[u]] /\ txn # 0
    BY <1>1 DEF CollectorInv, TypeOK, TasksConsistent
  <2>2. sending'[t] = [active |-> TRUE, bits |-> bitmap \cup {x}, done |-> txn, data |-> frame_data']
    <3>1. PICK w : w = [active |-> TRUE, bits |-> bitmap \cup {Head(todo[t]).index}, done |-> txn,
                        data |-> frame_data']
      OBVIOUS
    <3>2. sending' = [sending EXCEPT ![t] = w]
      BY <1>1, <3>1
    <3>3. sending'[t] = w
      BY <2>1, <3>2
    <3>4. Head(todo[t]).index = x
      BY <1>3
    <3>5. QED
      BY <3>1, <3>3, <3>4
  <2>3. \A u \in Task : u # t => ~sending'[u].active
    BY <1>1, <2>1 DEF Arriving, NoWrites
  <2>4. QED
    BY <1>4, <2>1, <2>2, <2>3
<1>11. frame_data' = Response(m)'
  BY <1>2, <1>4 DEF Response, Holds
<1>12. QED
  BY <1>2, <1>9, <1>10, <1>11 DEF Arriving, Completing

\* As many frames as expected are the expected ones.
LEMMA GoodKeyError ==
  ASSUME ShortResponses, LinkTypeOK, CollectorInv, air = "good", NEW m \in 1..Requests, Arriving(m),
         NEW t \in Task, AddKeyError(t)
  PROVE  FALSE
<1>1. /\ running = t /\ todo[t] # <<>> /\ transaction_in_progress /\ StoreFrame(Head(todo[t]))
      /\ Stored = expected_frames /\ \E i \in 0..(expected_frames - 1) : i \notin DOMAIN frame_data'
  BY DEF AddKeyError
<1>2. PICK x \in InHand : Head(todo[t]) = [index |-> x, payload |-> [msg |-> m, idx |-> x]]
  BY <1>1, NextCall
<1>3. DOMAIN frame_data' = 0..(nframes[m] - 1) /\ expected_frames = nframes[m]
  BY <1>1, <1>2, GoodStore
<1>4. QED
  BY <1>1, <1>3

\* Nothing is under way at the start.
LEMMA GoodInit == ASSUME LinkInit PROVE GoodInv
<1>1. ~Waiting
  BY DEF LinkInit, Waiting
<1>2. Cleared /\ NoWrites
  BY DEF LinkInit, Init, Cleared, NoCalls, NoWrites, NoWrite
<1>3. Settled(<<>>)
  BY DEF LinkInit, Settled
<1>4. QED
  BY <1>1, <1>2, <1>3 DEF GoodInv, AtRest

\* What a step of a handler or of the collector leaves alone.
LEMMA CallerUnchanged ==
  ASSUME Peripheral \/ Lose \/ (\E t \in Task : Notify(t) \/ Collect(t)) \/ UNCHANGED allVars
  PROVE  UNCHANGED <<air, nframes, req, answers>> /\ (Waiting' <=> Waiting)
<1>1. UNCHANGED <<air, nframes, req, answers>>
  <2>1. CASE Peripheral \/ Lose
    BY <2>1 DEF Peripheral, HandleRequest, HandleControl, Push, Lose
  <2>2. CASE \E t \in Task : Notify(t) \/ Collect(t)
    BY <2>2 DEF Notify, Collect, linkVars
  <2>3. CASE UNCHANGED allVars
    BY <2>3 DEF allVars, linkVars
  <2>4. QED
    BY <2>1, <2>2, <2>3
<1>2. QED
  BY <1>1 DEF Waiting

\* Without a caller waiting, only an acknowledgement is under way.
LEMMA RestStep ==
  ASSUME ShortResponses, LinkTypeOK, CollectorInv, air = "good", AtRest,
         Peripheral \/ Lose \/ (\E t \in Task : Notify(t) \/ Collect(t))
  PROVE  AtRest'
<1>1. /\ running = NoTask /\ toApp = <<>> /\ pushing = {} /\ \A t \in Task : todo[t] = <<>>
      /\ \A t \in Task : running # t
  BY ClearedIdle DEF AtRest
<1>2. ~Push /\ ~Lose
  BY <1>1 DEF Push, Lose
<1>3. ~HandleRequest
  BY DEF HandleRequest, AtRest, Settled
<1>4. ASSUME NEW t \in Task PROVE ~Notify(t) /\ ~Collect(t)
  <2>1. ~Notify(t)
    BY <1>1 DEF Notify
  <2>2. ~Collect(t)
    BY <1>1 DEF Collect, BufferFrame, AddPartial, AddLast, AddKeyError, Complete, ControlSent,
                AtRest, NoWrites
  <2>3. QED
    BY <2>1, <2>2
<1>5. HandleControl
  BY <1>2, <1>3, <1>4 DEF Peripheral
<1>6. Settled(<<>>)' /\ UNCHANGED <<pushing, toApp, event, message_context, vars>>
  BY <1>5, GoodControl DEF AtRest
<1>7. QED
  BY <1>6 DEF AtRest, Cleared, NoCalls, NoWrites, vars, collectorVars, taskVars

\* A request on its way is taken, after the acknowledgement that may be before it.
LEMMA AskedStep ==
  ASSUME ShortResponses, LinkTypeOK, CollectorInv, air = "good", NEW m \in 1..Requests, Asked(m),
         Peripheral \/ Lose \/ (\E t \in Task : Notify(t) \/ Collect(t))
  PROVE  Asked(m)' \/ Arriving(m)'
<1>1. /\ running = NoTask /\ toApp = <<>> /\ pushing = {} /\ \A t \in Task : todo[t] = <<>>
      /\ \A t \in Task : running # t
  BY ClearedIdle DEF Asked
<1>2. ~Push /\ ~Lose
  BY <1>1 DEF Push, Lose
<1>3. ASSUME NEW t \in Task PROVE ~Notify(t) /\ ~Collect(t)
  <2>1. ~Notify(t)
    BY <1>1 DEF Notify
  <2>2. ~Collect(t)
    BY <1>1 DEF Collect, BufferFrame, AddPartial, AddLast, AddKeyError, Complete, ControlSent,
                Asked, NoWrites
  <2>3. QED
    BY <2>1, <2>2
<1>4. CASE HandleRequest
  BY <1>4, GoodRequest
<1>5. CASE HandleControl
  <2>1. Settled(<<[kind |-> "REQ", msg |-> m]>>)' /\ UNCHANGED <<pushing, toApp, event, message_context, vars>>
    <3>1. PICK rest : rest = <<[kind |-> "REQ", msg |-> m]>>
      OBVIOUS
    <3>2. Settled(rest) /\ Head(rest).kind # "CTRL"
      BY <3>1 DEF Asked
    <3>3. QED
      BY <1>5, <3>1, <3>2, GoodControl
  <2>2. QED
    BY <2>1 DEF Asked, Cleared, NoCalls, NoWrites, vars, collectorVars, taskVars
<1>6. QED
  BY <1>2, <1>3, <1>4, <1>5 DEF Peripheral

\* The frames of the response make their way; the last one completes it.
LEMMA ArrivingStep ==
  ASSUME ShortResponses, LinkTypeOK, CollectorInv, air = "good", NEW m \in 1..Requests, Arriving(m),
         Peripheral \/ Lose \/ (\E t \in Task : Notify(t) \/ Collect(t))
  PROVE  Arriving(m)' \/ Completing(m)'
<1>1. ~HandleRequest /\ ~HandleControl /\ ~Lose
  BY DEF Arriving, HandleRequest, HandleControl, Lose
<1>2. CASE Push
  BY <1>2, GoodPush
<1>3. ASSUME NEW t \in Task, Notify(t) PROVE Arriving(m)'
  <2>1. PICK k \in DOMAIN toApp :
            ProcessData(t, toApp[k]) /\ toApp' = SubSeq(toApp, 1, k - 1) \o SubSeq(toApp, k + 1, Len(toApp))
    BY <1>3 DEF Notify
  <2>2. CASE toApp[k].kind = "FIRST" /\ ProcessFirst(t, toApp[k])
    BY <1>3, <2>1, <2>2, GoodNotifyFirst
  <2>3. CASE toApp[k].kind = "CONS" /\ ProcessCons(t, toApp[k])
    BY <1>3, <2>1, <2>3, GoodNotifyCons
  <2>4. QED
    BY <2>1, <2>2, <2>3 DEF ProcessData
<1>4. ASSUME NEW t \in Task, Collect(t) PROVE Arriving(m)' \/ Completing(m)'
  <2>1. ~ControlSent(t)
    BY DEF ControlSent, Arriving, NoWrites
  <2>2. UNCHANGED linkVars /\ (BufferFrame(t) \/ AddPartial(t) \/ AddLast(t) \/ AddKeyError(t))
    BY <1>4, <2>1 DEF Collect
  <2>3. QED
    BY <2>2, GoodBuffer, GoodPartial, GoodLast, GoodKeyError
<1>5. QED
  BY <1>1, <1>2, <1>3, <1>4 DEF Peripheral

\* The control frame is written, and the message announced behind it.
LEMMA CompletingStep ==
  ASSUME ShortResponses, LinkTypeOK, CollectorInv, air = "good", NEW m \in 1..Requests, Completing(m),
         Peripheral \/ Lose \/ (\E t \in Task : Notify(t) \/ Collect(t))
  PROVE  Answered(m)'
<1>1. /\ running = NoTask /\ toApp = <<>> /\ pushing = {} /\ \A t \in Task : todo[t] = <<>>
      /\ \A t \in Task : running # t
  BY ClearedIdle DEF Completing
<1>2. ~Peripheral /\ ~Lose
  BY <1>1 DEF Peripheral, HandleRequest, HandleControl, Push, Lose, Completing
<1>3. ASSUME NEW t \in Task PROVE ~Notify(t)
  BY <1>1 DEF Notify
<1>4. ASSUME NEW t \in Task, Collect(t) PROVE ControlSent(t)
  BY <1>1, <1>4 DEF Collect, BufferFrame, AddPartial, AddLast, AddKeyError, Complete
<1>5. QED
  BY <1>2, <1>3, <1>4, GoodControlSent

\* The answer waits for its caller; the peripheral may take the acknowledgement before.
LEMMA AnsweredStep ==
  ASSUME ShortResponses, LinkTypeOK, CollectorInv, air = "good", NEW m \in 1..Requests, Answered(m),
         Peripheral \/ Lose \/ (\E t \in Task : Notify(t) \/ Collect(t)), nframes' = nframes
  PROVE  Answered(m)'
<1>1. /\ running = NoTask /\ toApp = <<>> /\ pushing = {} /\ \A t \in Task : todo[t] = <<>>
      /\ \A t \in Task : running # t
  BY ClearedIdle DEF Answered
<1>2. ~Push /\ ~Lose /\ ~HandleRequest
  <2>1. ~Push /\ ~Lose
    BY <1>1 DEF Push, Lose
  <2>2. Settled(<<>>)
    BY DEF Answered
  <2>3. ~HandleRequest
    BY <2>2 DEF HandleRequest, Settled
  <2>4. QED
    BY <2>1, <2>3
<1>3. ASSUME NEW t \in Task PROVE ~Notify(t) /\ ~Collect(t)
  <2>1. ~Notify(t)
    BY <1>1 DEF Notify
  <2>2. ~Collect(t)
    BY <1>1 DEF Collect, BufferFrame, AddPartial, AddLast, AddKeyError, Complete, ControlSent,
                Answered, NoWrites
  <2>3. QED
    BY <2>1, <2>2
<1>4. HandleControl
  BY <1>2, <1>3 DEF Peripheral
<1>5. Settled(<<>>)' /\ UNCHANGED <<pushing, toApp, event, message_context, vars>>
  BY <1>4, GoodControl DEF Answered
<1>6. message_context' = Response(m)'
  <2>1. message_context' = message_context /\ message_context = Response(m)
    BY <1>5 DEF Answered
  <2>2. Response(m)' = Response(m)
    BY DEF Response
  <2>3. QED
    BY <2>1, <2>2
<1>7. QED
  BY <1>5, <1>6 DEF Answered, Cleared, NoCalls, NoWrites, vars, collectorVars, taskVars

\* In good air a request goes through its stages and nothing else happens.
LEMMA GoodStep ==
  ASSUME ShortResponses, LinkTypeOK, MessagesWhole, CollectorInv, GoodInv, [LinkNext]_allVars
  PROVE  GoodInv'
<1>1. air' = air
  BY DEF LinkNext, Bridge, Peripheral, SendRequest, ReceiveAnswer, Timeout, Notify, Collect,
         HandleRequest, HandleControl, Push, Lose, allVars, linkVars
<1> SUFFICES ASSUME air = "good" PROVE GoodInv'
  BY <1>1 DEF GoodInv
<1>2. CASE SendRequest
  <2>1. AtRest
    BY <1>2 DEF SendRequest, GoodInv
  <2>2. Waiting' /\ Asked(req)'
    BY <1>2, <2>1, GoodSend
  <2>3. QED
    BY <2>2 DEF GoodInv
<1>3. CASE ReceiveAnswer
  <2>1. Waiting /\ event
    BY <1>3 DEF ReceiveAnswer
  <2>2. Answered(req)
    BY <2>1 DEF GoodInv, Asked, Arriving, Completing
  <2>3. ~Waiting' /\ AtRest'
    BY <1>3, <2>1, <2>2, GoodReceive
  <2>4. QED
    BY <2>3 DEF GoodInv
<1>4. CASE Timeout
  <2>1. Waiting
    BY <1>4 DEF Timeout
  <2>2. QED
    BY <1>4, <2>1, GoodTimeout
<1>5. CASE Peripheral \/ Lose \/ (\E t \in Task : Notify(t) \/ Collect(t))
  <2>1. UNCHANGED <<air, nframes, req, answers>> /\ (Waiting' <=> Waiting)
    BY <1>5, CallerUnchanged
  <2>2. CASE ~Waiting
    <3>1. AtRest'
      BY <1>5, <2>2, RestStep DEF GoodInv
    <3>2. QED
      BY <2>1, <2>2, <3>1 DEF GoodInv
  <2>3. CASE Waiting
    <3>1. PICK m \in 1..Requests : m = req
      BY <2>3, LinkAssumption DEF LinkTypeOK, Waiting, LinkAssumption
    <3>2. Asked(m) \/ Arriving(m) \/ Completing(m) \/ Answered(m)
      BY <2>3, <3>1 DEF GoodInv
    <3>3. Asked(m)' \/ Arriving(m)' \/ Completing(m)' \/ Answered(m)'
      BY <1>5, <2>1, <3>2, AskedStep, ArrivingStep, CompletingStep, AnsweredStep
    <3>4. req' = m
      BY <2>1, <3>1
    <3>5. QED
      BY <2>1, <2>3, <3>3, <3>4 DEF GoodInv
  <2>4. QED
    BY <2>2, <2>3
<1>6. CASE UNCHANGED allVars
  BY <1>6 DEF GoodInv, AtRest, Asked, Arriving, Completing, Answered, Cleared, NoCalls, NoWrites,
              Settled, Waiting, InAir, InHand, InTemp, InStore, FramesOf, FrameOf, Response,
              allVars, linkVars, vars, collectorVars, taskVars
<1>7. QED
  BY <1>2, <1>3, <1>4, <1>5, <1>6 DEF LinkNext, Bridge

-----------------------------------------------------------------------------
\* The refinement.

\* The caller's view of a step.
LEMMA AbstractStep ==
  ASSUME ShortResponses, LinkTypeOK, MessagesWhole, CollectorInv, GoodInv, [LinkNext]_allVars
  PROVE  [Abstract!Next]_(Abstract!vars)
<1> DEFINE out == [k \in 1..Requests |-> Outcome(k)]
<1>1. air' = air /\ nframes' = nframes
  BY DEF LinkNext, Bridge, Peripheral, SendRequest, ReceiveAnswer, Timeout, Notify, Collect,
         HandleRequest, HandleControl, Push, Lose, allVars, linkVars
<1>2. req \in 0..Requests /\ Requests \in Nat /\ DOMAIN answers = 1..Requests
  BY LinkAssumption DEF LinkTypeOK, LinkAssumption
<1>3. (air = "lossy")' = (air = "lossy")
  BY <1>1
<1>4. ASSUME answers' = answers PROVE out' = out
  BY <1>1, <1>4 DEF Outcome, Response
<1>5. CASE SendRequest
  <2>1. req < Requests /\ req' = req + 1 /\ answers' = answers /\ ~Waiting
    BY <1>5 DEF SendRequest
  <2>2. req > 0 => out[req] # "none"
    BY <1>2, <2>1 DEF Waiting, Outcome
  <2>3. Abstract!Ask
    BY <1>3, <1>4, <2>1, <2>2 DEF Abstract!Ask
  <2>4. QED
    BY <2>3 DEF Abstract!Next
<1>6. ASSUME Waiting, NEW a, answers' = [answers EXCEPT ![req] = a], req' = req, a # Pending,
             air = "good" => a = Response(req)
      PROVE  Abstract!Next
  <2>1. req \in 1..Requests /\ req > 0 /\ out[req] = "none"
    BY <1>2, <1>6 DEF Waiting, Outcome
  <2>2. PICK o : o = Outcome(req)'
    OBVIOUS
  <2>3. out' = [out EXCEPT ![req] = o]
    <3>1. \A k \in 1..Requests : k # req => Outcome(k)' = Outcome(k)
      BY <1>1, <1>2, <1>6 DEF Outcome, Response
    <3>2. out' = [k \in 1..Requests |-> Outcome(k)']
      OBVIOUS
    <3>3. Outcome(req)' = o
      BY <2>2
    <3>4. QED
      BY <1>6, <2>1, <3>1, <3>2, <3>3
  <2>4. o \in {"own", "timeout", "other"} /\ (air = "good" => o = "own")
    <3>1. answers'[req] = a /\ req' = req
      BY <1>2, <1>6, <2>1
    <3>2. Response(req)' = Response(req)
      BY <1>1, <1>6 DEF Response
    <3>3. o = IF a = Pending THEN "none" ELSE IF a = TimedOut THEN "timeout"
              ELSE IF a = Response(req) THEN "own" ELSE "other"
      BY <2>2, <3>1, <3>2 DEF Outcome
    <3>4. air = "good" => a # TimedOut
      <4>1. ASSUME air = "good" PROVE 0 \in DOMAIN Response(req)
        <5>1. nframes[req] \in Nat \ {0}
          BY <2>1, FrameCount
        <5>2. QED
          BY <5>1 DEF Response
      <4>2. DOMAIN TimedOut = {1}
        BY DEF TimedOut
      <4>3. QED
        BY <1>6, <4>1, <4>2
    <3>5. QED
      BY <1>6, <3>3, <3>4
  <2>5. CASE o = "own"
    BY <1>3, <1>6, <2>1, <2>3, <2>5 DEF Abstract!Next, Abstract!Answer
  <2>6. CASE o \in {"timeout", "other"}
    <3>1. air = "lossy"
      BY <2>4, <2>6 DEF LinkTypeOK
    <3>2. QED
      BY <1>3, <1>6, <2>1, <2>3, <2>6, <3>1 DEF Abstract!Next, Abstract!Fail
  <2>7. QED
    BY <2>4, <2>5, <2>6
<1>7. CASE ReceiveAnswer
  <2>1. Waiting /\ event /\ req' = req /\ answers' = [answers EXCEPT ![req] = message_context]
    BY <1>7 DEF ReceiveAnswer
  <2>2. message_context # Pending
    BY <2>1 DEF MessagesWhole
  <2>3. air = "good" => message_context = Response(req)
    BY <2>1 DEF GoodInv, Asked, Arriving, Completing, Answered
  <2>4. QED
    BY <1>6, <2>1, <2>2, <2>3
<1>8. CASE Timeout
  <2>1. Waiting /\ req' = req /\ answers' = [answers EXCEPT ![req] = TimedOut]
    BY <1>8 DEF Timeout
  <2>2. air # "good"
    BY <1>8, <2>1, GoodTimeout
  <2>3. TimedOut # Pending
    BY DEF TimedOut, Pending
  <2>4. QED
    BY <1>6, <2>1, <2>2, <2>3
<1>9. CASE Peripheral \/ Lose \/ (\E t \in Task : Notify(t) \/ Collect(t)) \/ UNCHANGED allVars
  <2>1. UNCHANGED <<air, nframes, req, answers>>
    BY <1>9, CallerUnchanged
  <2>2. QED
    BY <1>3, <1>4, <2>1 DEF Abstract!vars
<1>10. QED
  BY <1>5, <1>7, <1>8, <1>9 DEF LinkNext, Bridge

\* The safety part of ImplementsAskAnswer: send_request on the frame layer answers the
\* requests one at a time and in order and never revises an answer; in good air, where
\* frames overtake one another, every request gets its own response and none times out.
\* A response in good air has no more frames than one control frame acknowledges.
THEOREM LinkAnswers ==
  ASSUME ShortResponses
  PROVE  LinkInit /\ [][LinkNext]_allVars => Abstract!Init /\ [][Abstract!Next]_(Abstract!vars)
<1>1. LinkInit => GoodInv
  BY GoodInit
<1>2. LinkTypeOK /\ MessagesWhole /\ CollectorInv /\ GoodInv /\ [LinkNext]_allVars => GoodInv'
  BY GoodStep
<1>3. LinkTypeOK /\ MessagesWhole /\ CollectorInv /\ GoodInv /\ [LinkNext]_allVars
      => [Abstract!Next]_(Abstract!vars)
  BY AbstractStep
<1>4. LinkInit => Abstract!Init
  <2> SUFFICES ASSUME LinkInit PROVE Abstract!Init
    OBVIOUS
  <2>1. \A k \in 1..Requests : Outcome(k) = "none"
    BY DEF LinkInit, Outcome
  <2>2. req = 0
    BY DEF LinkInit
  <2>3. (air = "lossy") \in BOOLEAN
    OBVIOUS
  <2>4. [k \in 1..Requests |-> Outcome(k)] = [k \in 1..Requests |-> "none"]
    BY <2>1
  <2>5. QED
    BY <2>2, <2>3, <2>4 DEF Abstract!Init
<1>5. QED
  BY <1>1, <1>2, <1>3, <1>4, LinkCollects, PTL
=============================================================================
