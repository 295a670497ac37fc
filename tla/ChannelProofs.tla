---------------------------- MODULE ChannelProofs ----------------------------
(***************************************************************************)
(* The channels that carry requests.  First send_request, which the        *)
(* callers of a Mera share: at most one request at a time, and its own     *)
(* answer, for any number of callers, requests, cancellations and failing  *)
(* writes.  Then the encrypted channel to an Alba, which keeps its two     *)
(* ends in step for any number of connections, requests, notifications and *)
(* lost frames.                                                            *)
(***************************************************************************)
EXTENDS AriendiLink, BaseClient, FunctionTheorems, FiniteSetTheorems, SequenceTheorems, TLAPS

-----------------------------------------------------------------------------
\* send_request of AquaCleanBaseClient.

\* The part of the argument that does not depend on when responses arrive: the
\* channel is taken exactly once, by the one caller that is past the gate.
GateInv ==
    /\ TypeOK
    /\ call_count <= 1
    /\ \A t \in Caller : InFlight(t) => call_count = 1
    /\ OneInFlight

\* The gate invariant holds initially.
LEMMA GateInit == ChannelInit => GateInv
<1> SUFFICES ASSUME ChannelInit PROVE GateInv
  OBVIOUS
<1> USE ClientAssumption DEF ChannelInit
<1>1. /\ message_context \in Request \cup {NoMessage} /\ unanswered \subseteq Request
      /\ heard \in BOOLEAN /\ overdue \in BOOLEAN /\ astray \subseteq Request
  OBVIOUS
<1>2. /\ pc \in [Caller -> {"idle", "gate", "writing", "cons", "written", "waiting"}]
      /\ outcome \in [Caller -> {"none", "own", "other", "stale", "timeout", "failed", "cancelled"}]
      /\ nreq \in [Caller -> 0..MaxReq]
      /\ cancels \in 0..MaxCancel /\ writeFails \in 0..MaxWriteFail
  OBVIOUS
<1>3. TypeOK
  BY <1>1, <1>2 DEF TypeOK
<1>4. QED
  BY <1>3 DEF GateInv, OneInFlight, InFlight

\* Every step of send_request, of the device and of a cancellation keeps it.
LEMMA GateStep == GateInv /\ [ChannelNext]_channelVars => GateInv'
<1> SUFFICES ASSUME GateInv, [ChannelNext]_channelVars PROVE GateInv'
  OBVIOUS
<1> USE ClientAssumption DEF GateInv, TypeOK, OneInFlight, InFlight
<1>1. ASSUME NEW t \in Caller, Call(t) PROVE GateInv'
  <2>1. nreq' \in [Caller -> 0..MaxReq]
    BY <1>1 DEF Call
  <2>2. QED
    BY <1>1, <2>1 DEF Call, historyVars
<1>2. ASSUME NEW t \in Caller, Enter(t) PROVE GateInv'
  <2>0. call_count' = 1 /\ event' = FALSE /\ heard' = FALSE
    BY <1>2 DEF Enter, Takes, GateOpen
  <2>1. TypeOK'
    <3>1. pc' \in [Caller -> {"idle", "gate", "writing", "cons", "written", "waiting"}]
      BY <1>2 DEF Enter, Takes, GateOpen
    <3>2. event' \in BOOLEAN /\ call_count' \in Nat /\ heard' \in BOOLEAN
      BY <2>0
    <3>3. /\ message_context' \in Request \cup {NoMessage} /\ unanswered' \subseteq Request
          /\ overdue' \in BOOLEAN /\ astray' \subseteq Request
      BY <1>2 DEF Enter, Takes, GateOpen
    <3>4. nreq' \in [Caller -> 0..MaxReq] /\ cancels' \in 0..MaxCancel /\ writeFails' \in 0..MaxWriteFail
      BY <1>2 DEF Enter, Takes, GateOpen
    <3>5. outcome' \in [Caller -> {"none", "own", "other", "stale", "timeout", "failed", "cancelled"}]
      BY <1>2 DEF Enter, Takes, GateOpen
    <3>6. QED
      BY <3>1, <3>2, <3>3, <3>4, <3>5
  <2>2. call_count' = 1 /\ \A u \in Caller : ~InFlight(u)
    BY <1>2 DEF Enter, Takes, GateOpen
  <2>3. \A u \in Caller : u # t => pc'[u] = pc[u]
    BY <1>2 DEF Enter, Takes, GateOpen
  <2>4. QED
    BY <2>1, <2>2, <2>3
<1>3. ASSUME NEW t \in Caller, WriteFirst(t) PROVE GateInv'
  BY <1>3 DEF WriteFirst, historyVars
<1>4. ASSUME NEW t \in Caller, Reach(t) PROVE GateInv'
  <2>1. Cur(t) \in Request
    BY DEF Cur, Request
  <2>2. QED
    BY <1>4, <2>1 DEF Reach, historyVars
<1>5. ASSUME NEW t \in Caller, Written(t) PROVE GateInv'
  BY <1>5 DEF Written, historyVars
<1>6. ASSUME NEW t \in Caller, Wake(t) PROVE GateInv'
  <2>1. Found(t) \in {"own", "other", "stale"} /\ Outstanding(t) \subseteq Request
    BY DEF Found, Outstanding
  <2>2. astray' \subseteq Request
    BY <1>6, <2>1 DEF Wake
  <2>3. QED
    BY <1>6, <2>1, <2>2 DEF Wake
<1>7. ASSUME NEW t \in Caller, Timeout(t) PROVE GateInv'
  <2>1. astray' \subseteq Request /\ overdue' \in BOOLEAN
    BY <1>7 DEF Timeout, TimesOut, Outstanding
  <2>2. QED
    BY <1>7, <2>1 DEF Timeout, TimesOut
<1>8. ASSUME NEW t \in Caller, WriteFails(t) PROVE GateInv'
  BY <1>8 DEF WriteFails, historyVars
<1>9. ASSUME NEW t \in Caller, Cancel(t) PROVE GateInv'
  BY <1>9 DEF Cancel, historyVars
<1>10. ASSUME NEW r \in Request, Device(r) PROVE GateInv'
  BY <1>10 DEF Device, Reply, NoReply
<1>11. CASE UNCHANGED channelVars
  BY <1>11 DEF channelVars, historyVars
<1>12. QED
  BY <1>1, <1>2, <1>3, <1>4, <1>5, <1>6, <1>7, <1>8, <1>9, <1>10, <1>11
  DEF ChannelNext, Step

\* The client's fields keep their types (AquaCleanBaseClient.__init__,
\* send_request), call_count never below zero included.
THEOREM TypeCorrect == ChannelSpec => []TypeOK
<1>1. GateInv => TypeOK
  BY DEF GateInv
<1>2. QED
  BY <1>1, GateInit, GateStep, PTL DEF ChannelSpec

\* Mutual exclusion of send_request: at most one request is between the gate and
\* its end, with any cancellation, write failure, timeout or late response.
THEOREM MutualExclusion == ChannelSpec => []OneInFlight
<1>1. GateInv => OneInFlight
  BY DEF GateInv
<1>2. QED
  BY <1>1, GateInit, GateStep, PTL DEF ChannelSpec

-----------------------------------------------------------------------------
\* The inductive invariant of OwnAnswer holds initially.
LEMMA OwnAnswerInit == ChannelInit => OwnAnswerInv
<1>1. ChannelInit => OnlyCurrentPending /\ AnswersFollow /\ OwnAnswer
  BY DEF ChannelInit, OnlyCurrentPending, AnswersFollow, NoMessage, OwnAnswer, InFlight
<1>2. QED
  BY <1>1, GateInit DEF GateInv, OwnAnswerInv

\* No step answers a request twice or before it is sent.
LEMMA AnswersFollowStep ==
  ASSUME GateInv, AnswersFollow, [ChannelNext]_channelVars
  PROVE  AnswersFollow'
<1> USE ClientAssumption DEF AnswersFollow, GateInv, TypeOK, Cur
<1>1. ASSUME NEW t \in Caller, Call(t) PROVE AnswersFollow'
  BY <1>1 DEF Call
<1>2. ASSUME NEW t \in Caller, Enter(t) PROVE AnswersFollow'
  BY <1>2 DEF Enter, Takes
<1>3. ASSUME NEW t \in Caller, WriteFirst(t) PROVE AnswersFollow'
  BY <1>3 DEF WriteFirst
<1>4. ASSUME NEW t \in Caller, Reach(t) PROVE AnswersFollow'
  <2>1. nreq[t] \in 0..MaxReq /\ <<t, nreq[t]>> # message_context
    BY <1>4 DEF Reach
  <2>2. /\ nreq' = nreq /\ message_context' = message_context
        /\ unanswered' = unanswered \cup {<<t, nreq[t]>>}
        /\ pc' = [pc EXCEPT ![t] = "written"]
    BY <1>4 DEF Reach
  <2>3. message_context' \notin unanswered'
    BY <2>1, <2>2
  <2>4. ASSUME NEW u \in Caller, NEW n \in 0..MaxReq,
               <<u, n>> \in unanswered' \cup {message_context'}
        PROVE  n <= nreq'[u] /\ (n = nreq'[u] => pc'[u] \notin {"gate", "writing", "cons"})
    <3>1. CASE <<u, n>> = <<t, nreq[t]>>
      BY <2>1, <2>2, <3>1
    <3>2. CASE <<u, n>> \in unanswered \cup {message_context}
      BY <2>2, <3>2
    <3>3. QED
      BY <2>2, <2>4, <3>1, <3>2
  <2>5. QED
    BY <2>3, <2>4
<1>5. ASSUME NEW t \in Caller, Written(t) PROVE AnswersFollow'
  BY <1>5 DEF Written
<1>6. ASSUME NEW t \in Caller, Wake(t) PROVE AnswersFollow'
  BY <1>6 DEF Wake
<1>7. ASSUME NEW t \in Caller, Timeout(t) PROVE AnswersFollow'
  BY <1>7 DEF Timeout, TimesOut
<1>8. ASSUME NEW t \in Caller, WriteFails(t) PROVE AnswersFollow'
  BY <1>8 DEF WriteFails
<1>9. ASSUME NEW t \in Caller, Cancel(t) PROVE AnswersFollow'
  BY <1>9 DEF Cancel
<1>10. ASSUME NEW r \in Request, Device(r) PROVE AnswersFollow'
  BY <1>10 DEF Device, Reply, NoReply
<1>11. CASE UNCHANGED channelVars
  BY <1>11 DEF channelVars
<1>12. QED
  BY <1>1, <1>2, <1>3, <1>4, <1>5, <1>6, <1>7, <1>8, <1>9, <1>10, <1>11
  DEF ChannelNext, Step

\* Every step keeps the inductive invariant of OwnAnswer, late responses included.
LEMMA OwnAnswerStep == OwnAnswerInv /\ [ChannelNext]_channelVars => OwnAnswerInv'
<1> SUFFICES ASSUME OwnAnswerInv, [ChannelNext]_channelVars
             PROVE  OwnAnswerInv'
  OBVIOUS
<1>0. GateInv /\ GateInv'
  BY GateStep DEF OwnAnswerInv, GateInv, OnlyCurrentPending
<1>b. AnswersFollow'
  BY <1>0, AnswersFollowStep DEF OwnAnswerInv
<1>a. SUFFICES OnlyCurrentPending' /\ OwnAnswer'
  BY <1>0, <1>b DEF OwnAnswerInv, GateInv
<1> USE <1>0, ClientAssumption
    DEF OwnAnswerInv, OnlyCurrentPending, OwnAnswer, TypeOK, OneInFlight,
        InFlight, Cur, GateInv
<1>1. ASSUME NEW t \in Caller, Call(t) PROVE OnlyCurrentPending' /\ OwnAnswer'
  BY <1>1 DEF Call, historyVars
<1>2. ASSUME NEW t \in Caller, Enter(t) PROVE OnlyCurrentPending' /\ OwnAnswer'
  BY <1>2 DEF Enter, Takes, GateOpen
<1>3. ASSUME NEW t \in Caller, WriteFirst(t) PROVE OnlyCurrentPending' /\ OwnAnswer'
  BY <1>3 DEF WriteFirst, historyVars
<1>4. ASSUME NEW t \in Caller, Reach(t) PROVE OnlyCurrentPending' /\ OwnAnswer'
  <2>1. /\ InFlight(t) /\ call_count = 1 /\ call_count' = 1
        /\ unanswered' = unanswered \cup {Cur(t)} /\ astray' = astray
        /\ UNCHANGED <<event, heard, overdue, message_context, outcome>>
    BY <1>4 DEF Reach, historyVars
  <2>2. \A u \in Caller : InFlight(u)' => u = t
    BY <1>4, <2>1 DEF Reach
  <2>3. pc'[t] = "written" /\ Cur(t)' = Cur(t)
    BY <1>4 DEF Reach
  <2>4. \A r \in unanswered \ astray : r = Cur(t)
    BY <2>1
  <2>5. OnlyCurrentPending'
    BY <2>1, <2>2, <2>3, <2>4
  <2>6. QED
    BY <2>1, <2>5
<1>5. ASSUME NEW t \in Caller, Written(t) PROVE OnlyCurrentPending' /\ OwnAnswer'
  BY <1>5 DEF Written, historyVars
<1>6. ASSUME NEW t \in Caller, Wake(t) PROVE OnlyCurrentPending' /\ OwnAnswer'
  <2>1. /\ InFlight(t) /\ call_count = 1 /\ call_count' = 0
        /\ heard /\ message_context \in astray \cup {Cur(t)}
    BY <1>6 DEF Wake
  <2>2. Found(t) # "stale" /\ (Found(t) = "other" => overdue)
    BY <2>1 DEF Found
  <2>3. OwnAnswer'
    BY <1>6, <2>2 DEF Wake
  <2>4. \A u \in Caller : ~InFlight(u)'
    BY <1>6, <2>1 DEF Wake
  <2>5. /\ unanswered' = unanswered /\ astray' = astray \cup (unanswered \cap {Cur(t)})
        /\ \A r \in unanswered \ astray : r = Cur(t)
    BY <1>6, <2>1 DEF Wake, Outstanding
  <2>6. unanswered' \ astray' = {}
    BY <2>5
  <2>7. astray' # {} => overdue'
    <3>1. CASE astray # {}
      BY <1>6, <3>1 DEF Wake
    <3>2. CASE astray = {}
      <4>1. message_context = Cur(t) /\ Cur(t) \notin unanswered
        BY <2>1, <3>2 DEF AnswersFollow
      <4>2. QED
        BY <2>5, <3>2, <4>1
    <3>3. QED
      BY <3>1, <3>2
  <2>8. OnlyCurrentPending'
    BY <2>1, <2>4, <2>6, <2>7
  <2>9. QED
    BY <2>3, <2>8
<1>7. ASSUME NEW t \in Caller, Timeout(t) PROVE OnlyCurrentPending' /\ OwnAnswer'
  <2>1. /\ InFlight(t) /\ call_count = 1 /\ call_count' = 0
        /\ \A u \in Caller : ~InFlight(u)'
    BY <1>7 DEF Timeout, TimesOut
  <2>2. /\ unanswered' = unanswered /\ astray' = astray \cup (unanswered \cap {Cur(t)})
        /\ \A r \in unanswered \ astray : r = Cur(t)
        /\ outcome' = [outcome EXCEPT ![t] = "timeout"]
    BY <1>7, <2>1 DEF Timeout, TimesOut, Outstanding
  <2>3. overdue \/ Cur(t) \in unanswered => overdue'
    BY <1>7 DEF Timeout, TimesOut
  <2>4. unanswered' \ astray' = {}
    BY <2>2
  <2>5. astray' # {} => astray # {} \/ Cur(t) \in unanswered
    BY <2>2
  <2>6. astray # {} => overdue
    OBVIOUS
  <2>7. astray' # {} => overdue'
    BY <2>3, <2>5, <2>6
  <2>8. OnlyCurrentPending'
    BY <2>1, <2>4, <2>7
  <2>9. OwnAnswer'
    BY <2>2, <2>3
  <2>10. QED
    BY <2>8, <2>9
<1>8. ASSUME NEW t \in Caller, WriteFails(t) PROVE OnlyCurrentPending' /\ OwnAnswer'
  BY <1>8 DEF WriteFails, historyVars
<1>9. ASSUME NEW t \in Caller, Cancel(t) PROVE OnlyCurrentPending' /\ OwnAnswer'
  BY <1>9 DEF Cancel, historyVars
<1>10. ASSUME NEW r \in Request, Reply(r) PROVE OnlyCurrentPending' /\ OwnAnswer'
  <2>1. /\ r \in unanswered /\ unanswered' = unanswered \ {r} /\ astray' = astray \cap unanswered
        /\ message_context' = r /\ event' = TRUE /\ heard' = TRUE
        /\ UNCHANGED <<call_count, pc, nreq, outcome, overdue>>
    BY <1>10 DEF Reply
  <2>2. unanswered' \ astray' \subseteq unanswered \ astray
    BY <2>1
  <2>3. ASSUME NEW t \in Caller, InFlight(t) PROVE r \in astray' \cup {Cur(t)}
    BY <2>1, <2>3
  <2>4. astray' # {} => overdue'
    BY <2>1
  <2>5. OnlyCurrentPending'
    BY <2>1, <2>2, <2>3, <2>4
  <2>6. QED
    BY <2>1, <2>5
<1>11. ASSUME NEW r \in Request, NoReply(r) PROVE OnlyCurrentPending' /\ OwnAnswer'
  <2>1. r # message_context
    BY <1>11 DEF NoReply, AnswersFollow
  <2>2. QED
    BY <1>11, <2>1 DEF NoReply
<1>12. CASE UNCHANGED channelVars
  BY <1>12 DEF channelVars, historyVars
<1>13. QED
  BY <1>1, <1>2, <1>3, <1>4, <1>5, <1>6, <1>7, <1>8, <1>9, <1>10, <1>11, <1>12
  DEF ChannelNext, Step, Device

\* A request returns with its own response, or with one that came since it took the
\* channel, belongs to a request whose caller had left, and only after a request had
\* timed out before the device answered: for any number of concurrent callers,
\* requests, cancellations, failing writes and late responses.
THEOREM OwnAnswerCorrect == ChannelSpec => []OwnAnswerInv
<1>1. QED
  BY OwnAnswerInit, OwnAnswerStep, PTL DEF ChannelSpec


-----------------------------------------------------------------------------
\* Frames that are left out.

\* p is q with some frames left out, the others in their order.
Thin(p, q) ==
    \E e \in [1..Len(p) -> 1..Len(q)] :
        /\ \A i \in 1..Len(p) : p[i] = q[e[i]]
        /\ \A i, j \in 1..Len(p) : i < j => e[i] < e[j]

\* Nothing is left out.
LEMMA ThinSame == ASSUME NEW S, NEW q \in Seq(S) PROVE Thin(q, q)
<1> DEFINE e == [i \in 1..Len(q) |-> i]
<1>1. e \in [1..Len(q) -> 1..Len(q)] /\ \A i \in 1..Len(q) : e[i] = i
      OBVIOUS
<1> HIDE DEF e
<1> QED BY <1>1 DEF Thin

\* Everything is left out.
LEMMA ThinNone == ASSUME NEW S, NEW q \in Seq(S) PROVE Thin(<<>>, q)
<1> DEFINE e == [i \in 1..0 |-> i]
<1>1. Len(<<>>) = 0 /\ 1..0 = {}
      OBVIOUS
<1>2. e \in [1..Len(<<>>) -> 1..Len(q)]
      BY <1>1
<1> HIDE DEF e
<1> QED BY <1>1, <1>2 DEF Thin

\* The first frame is left out.
LEMMA ThinTail == ASSUME NEW S, NEW q \in Seq(S), q # <<>> PROVE Thin(Tail(q), q)
<1> DEFINE e == [i \in 1..Len(Tail(q)) |-> i + 1]
<1>1. Len(Tail(q)) = Len(q) - 1 /\ \A i \in 1..Len(Tail(q)) : Tail(q)[i] = q[i + 1]
      OBVIOUS
<1>2. e \in [1..Len(Tail(q)) -> 1..Len(q)] /\ \A i \in 1..Len(Tail(q)) : e[i] = i + 1
      BY <1>1
<1> HIDE DEF e
<1> QED BY <1>1, <1>2 DEF Thin

\* Frames in three places are the same frames however they are grouped.
LEMMA Regrouped ==
    ASSUME NEW S, NEW p \in Seq(S), NEW q \in Seq(S), NEW r \in Seq(S)
    PROVE  (p \o q) \o r = p \o (q \o r)
BY ConcatAssociative

\* What is left of two sequences is left of their concatenation.
LEMMA ThinConcat ==
    ASSUME NEW S, NEW p \in Seq(S), NEW q \in Seq(S), NEW p1 \in Seq(S), NEW q1 \in Seq(S),
           Thin(p1, p), Thin(q1, q)
    PROVE  Thin(p1 \o q1, p \o q)
<1>1. PICK d \in [1..Len(p1) -> 1..Len(p)] :
        /\ \A i \in 1..Len(p1) : p1[i] = p[d[i]]
        /\ \A i, j \in 1..Len(p1) : i < j => d[i] < d[j]
      BY DEF Thin
<1>2. PICK e \in [1..Len(q1) -> 1..Len(q)] :
        /\ \A i \in 1..Len(q1) : q1[i] = q[e[i]]
        /\ \A i, j \in 1..Len(q1) : i < j => e[i] < e[j]
      BY DEF Thin
<1> DEFINE k == Len(p)  l == Len(q)  k1 == Len(p1)  l1 == Len(q1)
           c == [i \in 1..(k1 + l1) |-> IF i <= k1 THEN d[i] ELSE k + e[i - k1]]
<1>3. /\ k \in Nat /\ l \in Nat /\ k1 \in Nat /\ l1 \in Nat
      /\ Len(p1 \o q1) = k1 + l1 /\ Len(p \o q) = k + l
      /\ d \in [1..k1 -> 1..k] /\ e \in [1..l1 -> 1..l]
      OBVIOUS
<1>4. /\ \A i \in 1..k1 : (p1 \o q1)[i] = p1[i]
      /\ \A i \in 1..l1 : (p1 \o q1)[k1 + i] = q1[i]
      /\ \A i \in 1..k : (p \o q)[i] = p[i]
      /\ \A i \in 1..l : (p \o q)[k + i] = q[i]
      BY SMTT(20)
<1> HIDE DEF k, l, k1, l1
<1>5. ASSUME NEW i \in 1..(k1 + l1)
      PROVE  \/ /\ i \in 1..k1 /\ c[i] = d[i] /\ d[i] \in 1..k
             \/ /\ i > k1 /\ i - k1 \in 1..l1 /\ c[i] = k + e[i - k1]
                /\ e[i - k1] \in 1..l
      <2>1. CASE i <= k1
            BY <1>3, <2>1
      <2>2. CASE i > k1
            <3>1. i - k1 \in 1..l1 /\ c[i] = k + e[i - k1]
                  BY <1>3, <2>2
            <3> QED BY <1>3, <2>2, <3>1
      <2> QED BY <1>3, <2>1, <2>2
<1> HIDE DEF c
<1>6. c \in [1..(k1 + l1) -> 1..(k + l)]
      <2>1. ASSUME NEW i \in 1..(k1 + l1) PROVE c[i] \in 1..(k + l)
            <3>1. CASE c[i] = d[i] /\ d[i] \in 1..k
                  BY <1>3, <3>1
            <3>2. CASE c[i] = k + e[i - k1] /\ e[i - k1] \in 1..l
                  <4>1. PICK x \in 1..l : c[i] = k + x
                        BY <3>2
                  <4> QED BY <1>3, <4>1
            <3> QED BY <1>5, <3>1, <3>2
      <2> QED BY <2>1 DEF c
<1>7. ASSUME NEW i \in 1..(k1 + l1) PROVE (p1 \o q1)[i] = (p \o q)[c[i]]
      <2>1. CASE i \in 1..k1 /\ c[i] = d[i] /\ d[i] \in 1..k
            BY <1>1, <1>4, <2>1 DEF k, k1
      <2>2. CASE i > k1 /\ i - k1 \in 1..l1 /\ c[i] = k + e[i - k1] /\ e[i - k1] \in 1..l
            <3>1. i = k1 + (i - k1)
                  BY <1>3, <2>2
            <3>2. (p1 \o q1)[i] = q1[i - k1]
                  BY <1>4, <2>2, <3>1
            <3> QED BY <1>2, <1>4, <2>2, <3>2 DEF l, l1
      <2> QED BY <1>5, <2>1, <2>2
<1>8. ASSUME NEW i \in 1..(k1 + l1), NEW j \in 1..(k1 + l1), i < j PROVE c[i] < c[j]
      <2>1. CASE j \in 1..k1
            <3>1. i \in 1..k1
                  BY <1>3, <1>8, <2>1
            <3>2. c[i] = d[i] /\ c[j] = d[j]
                  BY <1>3, <2>1, <3>1 DEF c
            <3> QED BY <1>1, <1>8, <2>1, <3>1, <3>2 DEF k1
      <2>2. CASE j > k1 /\ i \in 1..k1
            <3>1. c[i] = d[i] /\ d[i] \in 1..k
                  BY <1>3, <2>2 DEF c
            <3>2. j \notin 1..k1
                  BY <1>3, <2>2
            <3>3. e[j - k1] \in 1..l /\ c[j] = k + e[j - k1]
                  BY <1>5, <3>2
            <3>4. \E x \in 1..l : c[j] = k + x
                  BY <3>3
            <3> QED BY <1>3, <3>1, <3>4
      <2>3. CASE i > k1
            <3>1. i - k1 \in 1..l1 /\ j - k1 \in 1..l1 /\ i - k1 < j - k1
                  BY <1>3, <1>8, <2>3
            <3>2. e[i - k1] < e[j - k1]
                  BY <1>2, <3>1 DEF l1
            <3> QED BY <1>3, <1>5, <1>8, <2>3, <3>2
      <2> QED BY <1>3, <2>1, <2>2, <2>3
<1> QED BY <1>3, <1>6, <1>7, <1>8 DEF Thin

-----------------------------------------------------------------------------
\* Exchanges, requests and the order of data, when frames are left out or added.

\* Leaving frames out keeps the names of exchanges apart.
LEMMA ExchangesThin ==
    ASSUME NEW S, NEW R, NEW p \in Seq(S), NEW a \in Seq(R), NEW p1 \in Seq(S),
           NEW a1 \in Seq(R), NEW n \in Nat, Exchanges(p, a, n), Thin(p1, p), Thin(a1, a)
    PROVE  Exchanges(p1, a1, n)
<1>1. PICK d \in [1..Len(p1) -> 1..Len(p)] : \A i \in 1..Len(p1) : p1[i] = p[d[i]]
      BY DEF Thin
<1>2. PICK e \in [1..Len(a1) -> 1..Len(a)] :
        /\ \A i \in 1..Len(a1) : a1[i] = a[e[i]]
        /\ \A i, j \in 1..Len(a1) : i < j => e[i] < e[j]
      BY DEF Thin
<1>3. /\ \A i \in 1..Len(p1) : d[i] \in 1..Len(p)
      /\ \A i \in 1..Len(a1) : e[i] \in 1..Len(a)
      OBVIOUS
<1>4. ASSUME NEW i \in 1..Len(a1), NEW j \in 1..Len(a1), e[i] = e[j] PROVE i = j
      <2>1. e[i] \in Int /\ e[j] \in Int
            BY <1>3
      <2>2. ~(e[i] < e[j]) /\ ~(e[j] < e[i])
            BY <1>4, <2>1
      <2>3. ~(i < j) /\ ~(j < i)
            BY <1>2, <2>2
      <2>4. i \in Int /\ j \in Int
            OBVIOUS
      <2> QED BY <2>3, <2>4
<1>5. \A i \in 1..Len(p1) : p1[i].t = "KE_REQ" => p1[i].mac \in 1..n
      <2> SUFFICES ASSUME NEW i \in 1..Len(p1), p1[i].t = "KE_REQ" PROVE p1[i].mac \in 1..n
          OBVIOUS
      <2>1. d[i] \in 1..Len(p) /\ p1[i] = p[d[i]]
            BY <1>1, <1>3
      <2> QED BY <2>1 DEF Exchanges
<1>6. \A i \in 1..Len(a1) :
            a1[i].t = "KE_RESP" => a1[i].mac \in 1..n /\ a1[i].pub = a1[i].mac
      <2> SUFFICES ASSUME NEW i \in 1..Len(a1), a1[i].t = "KE_RESP"
                   PROVE  a1[i].mac \in 1..n /\ a1[i].pub = a1[i].mac
          OBVIOUS
      <2>1. e[i] \in 1..Len(a) /\ a1[i] = a[e[i]]
            BY <1>2, <1>3
      <2> QED BY <2>1 DEF Exchanges
<1>7. ASSUME NEW i \in 1..Len(a1), a1[i].t = "EP_RESP"
      PROVE  /\ a1[i].nonce \in 1..n
             /\ \A j \in 1..Len(p1) : p1[j].t = "KE_REQ" => p1[j].mac # a1[i].nonce
             /\ \A j \in 1..Len(a1) : a1[j].t = "KE_RESP" => a1[j].mac # a1[i].nonce
             /\ \A j \in 1..Len(a1) : a1[j].t = "EP_RESP" /\ a1[j].nonce = a1[i].nonce => i = j
      <2>1. e[i] \in 1..Len(a) /\ a[e[i]].t = "EP_RESP" /\ a1[i] = a[e[i]]
            BY <1>2, <1>3, <1>7
      <2>2. ASSUME NEW j \in 1..Len(p1), p1[j].t = "KE_REQ" PROVE p1[j].mac # a1[i].nonce
            <3>1. d[j] \in 1..Len(p) /\ p1[j] = p[d[j]]
                  BY <1>1, <1>3
            <3> QED BY <2>1, <2>2, <3>1 DEF Exchanges
      <2>3. ASSUME NEW j \in 1..Len(a1)
            PROVE  /\ a1[j].t = "KE_RESP" => a1[j].mac # a1[i].nonce
                   /\ a1[j].t = "EP_RESP" /\ a1[j].nonce = a1[i].nonce => i = j
            <3>1. e[j] \in 1..Len(a) /\ a1[j] = a[e[j]]
                  BY <1>2, <1>3
            <3>2. a1[j].t = "EP_RESP" /\ a1[j].nonce = a1[i].nonce => e[i] = e[j]
                  BY <2>1, <3>1 DEF Exchanges
            <3>3. a1[j].t = "KE_RESP" => a1[j].mac # a1[i].nonce
                  BY <2>1, <3>1 DEF Exchanges
            <3> QED BY <1>4, <3>2, <3>3
      <2>4. a1[i].nonce \in 1..n
            BY <2>1 DEF Exchanges
      <2> QED BY <2>2, <2>3, <2>4
<1> QED BY <1>5, <1>6, <1>7 DEF Exchanges

\* A frame for the mock that names no exchange.
LEMMA ExchangesWrite ==
    ASSUME NEW S, NEW R, NEW p \in Seq(S), NEW a \in Seq(R), NEW n \in Nat, NEW f \in S,
           Exchanges(p, a, n), f.t # "KE_REQ"
    PROVE  Exchanges(Append(p, f), a, n)
<1>1. \A i \in 1..Len(Append(p, f)) : Append(p, f)[i] = f \/ (i \in 1..Len(p) /\ Append(p, f)[i] = p[i])
      OBVIOUS
<1> QED BY <1>1 DEF Exchanges

\* A frame for the bridge that names no exchange.
LEMMA ExchangesEmit ==
    ASSUME NEW S, NEW R, NEW p \in Seq(S), NEW a \in Seq(R), NEW n \in Nat, NEW f \in R,
           Exchanges(p, a, n), f.t \notin {"EP_RESP", "KE_RESP"}
    PROVE  Exchanges(p, Append(a, f), n)
<1>1. \A i \in 1..Len(Append(a, f)) : Append(a, f)[i].t \in {"EP_RESP", "KE_RESP"} =>
        i \in 1..Len(a) /\ Append(a, f)[i] = a[i]
      OBVIOUS
<1> QED BY <1>1 DEF Exchanges

\* Frames of a that name no exchange are added or not.
LEMMA ExchangesBurst ==
    ASSUME NEW p, NEW a, NEW b, NEW n, Exchanges(p, a, n),
           \A i \in 1..Len(b) : b[i].t \in {"EP_RESP", "KE_RESP"} =>
               i \in 1..Len(a) /\ b[i] = a[i]
    PROVE  Exchanges(p, b, n)
BY DEF Exchanges

\* The EP response that begins an exchange.
LEMMA ExchangesBegin ==
    ASSUME NEW S, NEW R, NEW p \in Seq(S), NEW a \in Seq(R), NEW n \in Nat, NEW f \in R,
           Exchanges(p, a, n), f.t = "EP_RESP", f.nonce = n + 1
    PROVE  Exchanges(p, Append(a, f), n + 1)
<1>1. \A i \in 1..Len(Append(a, f)) :
        \/ i = Len(a) + 1 /\ Append(a, f)[i] = f
        \/ i \in 1..Len(a) /\ Append(a, f)[i] = a[i]
      OBVIOUS
<1>2. 1..n \subseteq 1..(n + 1) /\ n + 1 \in 1..(n + 1) /\ n + 1 \notin 1..n
      OBVIOUS
<1> QED BY <1>1, <1>2 DEF Exchanges

\* More exchanges may have begun.
LEMMA ExchangesMore ==
    ASSUME NEW p, NEW a, NEW n \in Nat, Exchanges(p, a, n)
    PROVE  Exchanges(p, a, n + 1)
<1>1. 1..n \subseteq 1..(n + 1)
      OBVIOUS
<1> QED BY <1>1 DEF Exchanges

\* The KE request takes the name over from the EP response at the head of a.
LEMMA ExchangesRequest ==
    ASSUME NEW S, NEW R, NEW p \in Seq(S), NEW a \in Seq(R), NEW n \in Nat, NEW f \in S,
           Exchanges(p, a, n), a # <<>>, Head(a).t = "EP_RESP", f.mac = Head(a).nonce
    PROVE  Exchanges(Append(p, f), Tail(a), n)
<1>1. \A i \in 1..Len(Append(p, f)) : Append(p, f)[i] = f \/ (i \in 1..Len(p) /\ Append(p, f)[i] = p[i])
      OBVIOUS
<1>2. \A i \in 1..Len(Tail(a)) : i + 1 \in 1..Len(a) /\ i + 1 # 1 /\ Tail(a)[i] = a[i + 1]
      OBVIOUS
<1>3. 1 \in 1..Len(a) /\ Head(a) = a[1]
      OBVIOUS
<1>4. f.mac \in 1..n /\ \A i \in 1..Len(a) : a[i].t = "EP_RESP" /\ i # 1 => a[i].nonce # f.mac
      BY <1>3 DEF Exchanges
<1>5. ASSUME NEW i \in 1..Len(Tail(a)), Tail(a)[i].t = "EP_RESP"
      PROVE  /\ Tail(a)[i].nonce \in 1..n
             /\ \A j \in 1..Len(Append(p, f)) :
                   Append(p, f)[j].t = "KE_REQ" => Append(p, f)[j].mac # Tail(a)[i].nonce
             /\ \A j \in 1..Len(Tail(a)) :
                   Tail(a)[j].t = "KE_RESP" => Tail(a)[j].mac # Tail(a)[i].nonce
             /\ \A j \in 1..Len(Tail(a)) :
                   Tail(a)[j].t = "EP_RESP" /\ Tail(a)[j].nonce = Tail(a)[i].nonce => i = j
      <2>1. i + 1 \in 1..Len(a) /\ a[i + 1].t = "EP_RESP" /\ a[i + 1].nonce # f.mac
            BY <1>2, <1>4, <1>5
      <2>2. \A j \in 1..Len(Tail(a)) :
              Tail(a)[j].t = "EP_RESP" /\ Tail(a)[j].nonce = Tail(a)[i].nonce => i + 1 = j + 1
            BY <1>2, <2>1 DEF Exchanges
      <2> QED BY <1>1, <1>2, <2>1, <2>2 DEF Exchanges
<1> QED BY <1>1, <1>2, <1>4, <1>5 DEF Exchanges

\* The KE response takes the name over from the KE request at the head of p.
LEMMA ExchangesRespond ==
    ASSUME NEW S, NEW R, NEW p \in Seq(S), NEW a \in Seq(R), NEW n \in Nat, NEW f \in R,
           Exchanges(p, a, n), p # <<>>, Head(p).t = "KE_REQ",
           f.t = "KE_RESP", f.mac = Head(p).mac, f.pub = f.mac
    PROVE  Exchanges(Tail(p), Append(a, f), n)
<1>1. \A i \in 1..Len(Append(a, f)) :
        \/ i = Len(a) + 1 /\ Append(a, f)[i] = f
        \/ i \in 1..Len(a) /\ Append(a, f)[i] = a[i]
      OBVIOUS
<1>2. \A i \in 1..Len(Tail(p)) : i + 1 \in 1..Len(p) /\ Tail(p)[i] = p[i + 1]
      OBVIOUS
<1>3. 1 \in 1..Len(p) /\ Head(p) = p[1]
      OBVIOUS
<1> QED BY <1>1, <1>2, <1>3 DEF Exchanges

\* The last request stays the last one.
LEMMA RequestThin ==
    ASSUME NEW S, NEW p \in Seq(S), NEW p1 \in Seq(S), NEW n, NEW c,
           RequestLast(p, n, c), Thin(p1, p)
    PROVE  RequestLast(p1, n, c)
<1>1. PICK e \in [1..Len(p1) -> 1..Len(p)] :
        /\ \A i \in 1..Len(p1) : p1[i] = p[e[i]]
        /\ \A i, j \in 1..Len(p1) : i < j => e[i] < e[j]
      BY DEF Thin
<1>2. ASSUME NEW i \in 1..Len(p1), p1[i].t = "KE_REQ", p1[i].mac = n
      PROVE  i = Len(p1) /\ p1[i].pub = c
      <2>1. e[i] = Len(p) /\ p1[i].pub = c
            BY <1>1, <1>2 DEF RequestLast
      <2>2. CASE i < Len(p1)
            <3>1. Len(p1) \in 1..Len(p1) /\ e[i] < e[Len(p1)] /\ e[Len(p1)] \in 1..Len(p)
                  BY <1>1, <2>2
            <3> QED BY <2>1, <3>1
      <2> QED BY <2>1, <2>2
<1> QED BY <1>2 DEF RequestLast

\* Data stays ahead of everything else.
LEMMA DataFirstThin ==
    ASSUME NEW S, NEW p \in Seq(S), NEW p1 \in Seq(S), DataFirst(p), Thin(p1, p)
    PROVE  DataFirst(p1)
<1>1. PICK e \in [1..Len(p1) -> 1..Len(p)] :
        /\ \A i \in 1..Len(p1) : p1[i] = p[e[i]]
        /\ \A i, j \in 1..Len(p1) : i < j => e[i] < e[j]
      BY DEF Thin
<1> QED BY <1>1 DEF DataFirst

\* A frame other than data may come last.
LEMMA DataFirstWrite ==
    ASSUME NEW S, NEW p \in Seq(S), NEW f \in S, DataFirst(p), ~IsData(f)
    PROVE  DataFirst(Append(p, f))
<1>1. \A i \in 1..Len(Append(p, f)) :
        \/ i = Len(p) + 1 /\ Append(p, f)[i] = f
        \/ i \in 1..Len(p) /\ Append(p, f)[i] = p[i]
      OBVIOUS
<1> QED BY <1>1 DEF DataFirst

-----------------------------------------------------------------------------
\* Counting data frames.

\* The count is a number.
LEMMA DataInType ==
    ASSUME NEW q, NEW n \in Nat
    PROVE  IsFiniteSet({j \in 1..n : IsData(q[j])}) /\ DataIn(q, n) \in Nat
<1>1. IsFiniteSet(1..n)
      BY FS_Interval
<1>2. IsFiniteSet({j \in 1..n : IsData(q[j])})
      BY <1>1, FS_Subset
<1> QED BY <1>2, FS_CardinalityType DEF DataIn

\* The count depends on the frames counted.
LEMMA DataInSame ==
    ASSUME NEW p, NEW q, NEW n \in Nat, \A j \in 1..n : p[j] = q[j]
    PROVE  DataIn(p, n) = DataIn(q, n)
<1>1. {j \in 1..n : IsData(p[j])} = {j \in 1..n : IsData(q[j])}
      OBVIOUS
<1> QED BY <1>1 DEF DataIn

\* Counting one more frame.
LEMMA DataInNext ==
    ASSUME NEW q, NEW n \in Nat
    PROVE  DataIn(q, n + 1) = IF IsData(q[n + 1]) THEN DataIn(q, n) + 1 ELSE DataIn(q, n)
<1> DEFINE T == {j \in 1..n : IsData(q[j])}
<1>1. IsFiniteSet(T)
      BY DataInType
<1>2. CASE IsData(q[n + 1])
      <2>1. {j \in 1..(n + 1) : IsData(q[j])} = T \cup {n + 1} /\ n + 1 \notin T
            BY <1>2
      <2> QED BY <1>1, <1>2, <2>1, FS_AddElement DEF DataIn
<1>3. CASE ~IsData(q[n + 1])
      <2>1. {j \in 1..(n + 1) : IsData(q[j])} = T
            BY <1>3
      <2> QED BY <1>3, <2>1 DEF DataIn
<1> QED BY <1>2, <1>3

\* No frames, no data.
LEMMA DataInNone == ASSUME NEW q PROVE DataIn(q, 0) = 0
<1>1. {j \in 1..0 : IsData(q[j])} = {}
      OBVIOUS
<1> QED BY <1>1, FS_EmptySet DEF DataIn

\* p is q without its frame r.
Removed(p, q, r) ==
    /\ Len(p) = Len(q) - 1
    /\ \A j \in 1..Len(p) : p[j] = IF j < r THEN q[j] ELSE q[j + 1]

\* The count behind a frame that is removed.
LEMMA DataInRemoved ==
    ASSUME NEW S, NEW p \in Seq(S), NEW q \in Seq(S), NEW r \in 1..Len(q), Removed(p, q, r),
           NEW n \in Nat, r <= n + 1, n <= Len(p)
    PROVE  DataIn(q, n + 1) = DataIn(p, n) + (IF IsData(q[r]) THEN 1 ELSE 0)
<1> DEFINE P == {j \in 1..n : IsData(p[j])}
           Q == {j \in 1..(n + 1) : IsData(q[j])}
           e == [j \in P |-> IF j < r THEN j ELSE j + 1]
<1>1. \A j \in 1..n : p[j] = IF j < r THEN q[j] ELSE q[j + 1]
      BY DEF Removed
<1>2. \A j \in P : j \in Int /\ e[j] = IF j < r THEN j ELSE j + 1
      OBVIOUS
<1>3. \A j \in P : e[j] \in Q \ {r}
      BY <1>1
<1>4. e \in [P -> Q \ {r}]
      BY <1>3
<1>5. \A i, j \in P : e[i] = e[j] => i = j
      BY <1>2
<1>6. \A k \in Q \ {r} : \E j \in P : e[j] = k
      <2> SUFFICES ASSUME NEW k \in Q \ {r} PROVE \E j \in P : e[j] = k
          OBVIOUS
      <2>1. CASE k < r
            <3>1. k \in P /\ e[k] = k
                  BY <1>1, <2>1
            <3> QED BY <3>1
      <2>2. CASE k > r
            <3>1. k - 1 \in 1..n /\ ~(k - 1 < r) /\ (k - 1) + 1 = k
                  BY <2>2
            <3>2. k - 1 \in P /\ e[k - 1] = k
                  BY <1>1, <3>1
            <3> QED BY <3>2
      <2> QED BY <2>1, <2>2
<1> HIDE DEF e
<1>7. ExistsBijection(P, Q \ {r})
      BY <1>4, <1>5, <1>6, Fun_IsBij, Fun_ExistsBij
<1> HIDE DEF P, Q
<1>8. IsFiniteSet(P) /\ IsFiniteSet(Q) /\ Cardinality(Q) \in Nat
      <2>1. IsFiniteSet(P)
            BY DataInType DEF P
      <2>2. n + 1 \in Nat
            OBVIOUS
      <2>3. IsFiniteSet(Q)
            BY <2>2, DataInType DEF Q
      <2> QED BY <2>1, <2>3, FS_CardinalityType
<1>9. Cardinality(P) = Cardinality(Q \ {r})
      BY <1>7, <1>8, FS_Bijection
<1>10. Cardinality(Q \ {r}) = IF r \in Q THEN Cardinality(Q) - 1 ELSE Cardinality(Q)
      BY <1>8, FS_RemoveElement
<1>11. r \in Q <=> IsData(q[r])
      BY DEF Q
<1>12. DataIn(p, n) = Cardinality(P) /\ DataIn(q, n + 1) = Cardinality(Q)
      BY DEF DataIn, P, Q
<1> QED BY <1>8, <1>9, <1>10, <1>11, <1>12

\* p is q without its first m frames.
Dropped(p, q, m) ==
    /\ Len(p) = Len(q) - m
    /\ \A j \in 1..Len(p) : p[j] = q[m + j]

\* The count behind the frames that are dropped.
LEMMA DataInDropped ==
    ASSUME NEW S, NEW p \in Seq(S), NEW q \in Seq(S), NEW m \in Nat, Dropped(p, q, m),
           NEW n \in Nat, n <= Len(p)
    PROVE  DataIn(q, m + n) = DataIn(q, m) + DataIn(p, n)
<1> DEFINE P == {j \in 1..n : IsData(p[j])}
           M == {j \in 1..m : IsData(q[j])}
           Q == {j \in 1..(m + n) : IsData(q[j])}
           e == [j \in P |-> m + j]
<1>1. \A j \in 1..n : p[j] = q[m + j]
      BY DEF Dropped
<1>2. \A j \in P : j \in Int /\ e[j] = m + j
      OBVIOUS
<1>3. \A j \in P : e[j] \in Q \ M
      BY <1>1
<1>4. e \in [P -> Q \ M]
      BY <1>3
<1>5. \A i, j \in P : e[i] = e[j] => i = j
      BY <1>2
<1>6. \A k \in Q \ M : \E j \in P : e[j] = k
      <2> SUFFICES ASSUME NEW k \in Q \ M PROVE \E j \in P : e[j] = k
          OBVIOUS
      <2>1. k - m \in 1..n /\ m + (k - m) = k
            OBVIOUS
      <2>2. k - m \in P /\ e[k - m] = k
            BY <1>1, <2>1
      <2> QED BY <2>2
<1> HIDE DEF e
<1>7. ExistsBijection(P, Q \ M)
      BY <1>4, <1>5, <1>6, Fun_IsBij, Fun_ExistsBij
<1>8. M = Q \cap M
      OBVIOUS
<1> HIDE DEF P, Q, M
<1>9. IsFiniteSet(P) /\ IsFiniteSet(Q) /\ IsFiniteSet(M)
      <2>1. IsFiniteSet(P) /\ IsFiniteSet(M)
            BY DataInType DEF P, M
      <2>2. m + n \in Nat
            OBVIOUS
      <2>3. IsFiniteSet(Q)
            BY <2>2, DataInType DEF Q
      <2> QED BY <2>1, <2>3
<1>10. Cardinality(P) = Cardinality(Q \ M)
      BY <1>7, <1>9, FS_Bijection
<1>11. Cardinality(Q \ M) = Cardinality(Q) - Cardinality(M)
      BY <1>8, <1>9, FS_Difference
<1>12. Cardinality(P) \in Nat /\ Cardinality(Q) \in Nat /\ Cardinality(M) \in Nat
      BY <1>9, FS_CardinalityType
<1>13. DataIn(p, n) = Cardinality(P) /\ DataIn(q, m + n) = Cardinality(Q) /\ DataIn(q, m) = Cardinality(M)
      BY DEF DataIn, P, Q, M
<1> QED BY <1>10, <1>11, <1>12, <1>13

-----------------------------------------------------------------------------
\* Data in step, when frames are added, removed or taken.

\* Frames and counts of a sequence that has grown by one frame.
LEMMA Grown ==
    ASSUME NEW R, NEW a \in Seq(R), NEW f \in R
    PROVE  /\ Len(Append(a, f)) = Len(a) + 1 /\ Len(a) \in Nat
           /\ \A i \in 1..Len(a) : Append(a, f)[i] = a[i]
           /\ Append(a, f)[Len(a) + 1] = f
           /\ \A n \in 0..Len(a) : DataIn(Append(a, f), n) = DataIn(a, n) /\ DataIn(a, n) \in Nat
           /\ DataIn(Append(a, f), Len(a) + 1) =
                IF IsData(f) THEN DataIn(a, Len(a)) + 1 ELSE DataIn(a, Len(a))
<1>1. /\ Len(Append(a, f)) = Len(a) + 1 /\ Len(a) \in Nat
      /\ \A i \in 1..Len(a) : Append(a, f)[i] = a[i]
      /\ Append(a, f)[Len(a) + 1] = f
      OBVIOUS
<1>2. ASSUME NEW n \in 0..Len(a)
      PROVE  DataIn(Append(a, f), n) = DataIn(a, n) /\ DataIn(a, n) \in Nat
      <2>1. n \in Nat /\ \A j \in 1..n : Append(a, f)[j] = a[j]
            BY <1>1
      <2> QED BY <2>1, DataInSame, DataInType
<1>3. DataIn(Append(a, f), Len(a) + 1) =
        IF IsData(f) THEN DataIn(Append(a, f), Len(a)) + 1 ELSE DataIn(Append(a, f), Len(a))
      BY <1>1, DataInNext
<1>4. Len(a) \in 0..Len(a)
      BY <1>1
<1> QED BY <1>1, <1>2, <1>3, <1>4

\* A frame other than data is added.
LEMMA StepEmit ==
    ASSUME NEW R, NEW a \in Seq(R), NEW f \in R, ~IsData(f), NEW k \in 0..Len(a), NEW key,
           NEW at \in Nat, OneKey(a, k, key)
    PROVE  /\ OneKey(Append(a, f), k, key)
           /\ NoGap(a, k, at) => NoGap(Append(a, f), k, at)
           /\ Behind(Append(a, f), k, at) = Behind(a, k, at)
<1> USE Grown
<1>1. OneKey(Append(a, f), k, key)
      BY DEF OneKey
<1>2. ASSUME NoGap(a, k, at) PROVE NoGap(Append(a, f), k, at)
      <2>1. \A i \in (k + 1)..Len(Append(a, f)) : IsData(Append(a, f)[i]) =>
              i \in (k + 1)..Len(a) /\ Append(a, f)[i] = a[i] /\ i - 1 \in 0..Len(a)
            OBVIOUS
      <2> QED BY <1>2, <2>1 DEF NoGap
<1>3. Behind(Append(a, f), k, at) = Behind(a, k, at)
      BY DEF Behind
<1> QED BY <1>1, <1>2, <1>3

\* The next piece of data is added.
LEMMA StepData ==
    ASSUME NEW R, NEW a \in Seq(R), NEW f \in R, IsData(f), NEW k \in 0..Len(a),
           NEW at \in Nat, OneKey(a, k, f.key)
    PROVE  /\ OneKey(Append(a, f), k, f.key)
           /\ NoGap(a, k, at) /\ f.pos = Behind(a, k, at) => NoGap(Append(a, f), k, at)
           /\ Behind(Append(a, f), k, at) = Behind(a, k, at) + 1
<1> USE Grown
<1>1. OneKey(Append(a, f), k, f.key)
      BY DEF OneKey
<1>2. ASSUME NoGap(a, k, at), f.pos = Behind(a, k, at) PROVE NoGap(Append(a, f), k, at)
      <2> SUFFICES ASSUME NEW i \in (k + 1)..Len(Append(a, f)), IsData(Append(a, f)[i])
                   PROVE  Append(a, f)[i].pos =
                            at + DataIn(Append(a, f), i - 1) - DataIn(Append(a, f), k)
          BY DEF NoGap
      <2>1. i - 1 \in 0..Len(a) /\ DataIn(Append(a, f), i - 1) = DataIn(a, i - 1)
            OBVIOUS
      <2>2. DataIn(Append(a, f), k) = DataIn(a, k)
            OBVIOUS
      <2>3. CASE i \in (k + 1)..Len(a)
            <3>1. Append(a, f)[i] = a[i]
                  BY <2>3
            <3> QED BY <1>2, <2>1, <2>2, <2>3, <3>1 DEF NoGap
      <2>4. CASE i = Len(a) + 1
            <3>1. Append(a, f)[i] = f /\ i - 1 = Len(a)
                  BY <2>4
            <3> QED BY <1>2, <2>1, <2>2, <3>1 DEF Behind
      <2> QED BY <2>3, <2>4
<1>3. Behind(Append(a, f), k, at) = Behind(a, k, at) + 1
      BY DEF Behind
<1> QED BY <1>1, <1>2, <1>3

\* A frame up to place k is removed, and what is at place k is no data.
LEMMA StepRemoved ==
    ASSUME NEW R, NEW a \in Seq(R), NEW b \in Seq(R), NEW k \in 1..Len(a), NEW r \in 1..k,
           Removed(b, a, r), ~IsData(a[k]), NEW key, NEW at \in Nat, OneKey(a, k, key)
    PROVE  /\ OneKey(b, k - 1, key)
           /\ NoGap(a, k, at) => NoGap(b, k - 1, at)
           /\ Behind(b, k - 1, at) = Behind(a, k, at)
<1> DEFINE d == IF IsData(a[r]) THEN 1 ELSE 0
<1>1. /\ Len(a) \in Nat /\ Len(b) = Len(a) - 1 /\ d \in {0, 1} /\ k - 1 \in Nat
      /\ \A i \in k..Len(b) : b[i] = a[i + 1] /\ i + 1 \in (k + 1)..Len(a)
      BY DEF Removed
<1>2. ASSUME NEW n \in (k - 1)..Len(b)
      PROVE  DataIn(a, n + 1) = DataIn(b, n) + d /\ DataIn(b, n) \in Nat
      <2>1. n \in Nat /\ r <= n + 1 /\ n <= Len(b) /\ r \in 1..Len(a)
            BY <1>1
      <2> QED BY <2>1, DataInRemoved, DataInType
<1>3. DataIn(a, k) = DataIn(b, k - 1) + d /\ DataIn(b, k - 1) \in Nat
      <2>1. k - 1 \in (k - 1)..Len(b) /\ (k - 1) + 1 = k
            BY <1>1
      <2> QED BY <1>2, <2>1
<1> HIDE DEF d
<1>4. OneKey(b, k - 1, key)
      BY <1>1 DEF OneKey
<1>5. ASSUME NoGap(a, k, at), NEW i \in k..Len(b), IsData(b[i])
      PROVE  b[i].pos = at + DataIn(b, i - 1) - DataIn(b, k - 1)
      <2>1. b[i].pos = at + DataIn(a, i) - DataIn(a, k)
            <3>1. i + 1 \in (k + 1)..Len(a) /\ b[i] = a[i + 1] /\ (i + 1) - 1 = i
                  BY <1>1
            <3> QED BY <1>5, <3>1 DEF NoGap
      <2>2. DataIn(a, i) = DataIn(b, i - 1) + d /\ DataIn(b, i - 1) \in Nat
            <3>1. i - 1 \in (k - 1)..Len(b) /\ (i - 1) + 1 = i
                  BY <1>1
            <3> QED BY <1>2, <3>1
      <2> QED BY <1>1, <1>3, <2>1, <2>2
<1>6. Behind(b, k - 1, at) = Behind(a, k, at)
      <2>1. DataIn(a, Len(a)) = DataIn(b, Len(b)) + d /\ DataIn(b, Len(b)) \in Nat
            <3>1. Len(b) \in (k - 1)..Len(b) /\ Len(b) + 1 = Len(a)
                  BY <1>1
            <3> QED BY <1>2, <3>1
      <2> QED BY <1>1, <1>3, <2>1 DEF Behind
<1>7. (k - 1) + 1 = k
      OBVIOUS
<1>8. NoGap(a, k, at) => NoGap(b, k - 1, at)
      BY <1>5, <1>7 DEF NoGap
<1> QED BY <1>4, <1>6, <1>8

\* The first m frames are taken: the stream goes on behind their data.
LEMMA StepDropped ==
    ASSUME NEW R, NEW a \in Seq(R), NEW b \in Seq(R), NEW m \in 0..Len(a), Dropped(b, a, m),
           NEW key, NEW at \in Nat, OneKey(a, 0, key)
    PROVE  /\ OneKey(b, 0, key)
           /\ NoGap(a, 0, at) => NoGap(b, 0, at + DataIn(a, m))
           /\ Behind(b, 0, at + DataIn(a, m)) = Behind(a, 0, at)
<1>1. /\ Len(a) \in Nat /\ Len(b) = Len(a) - m /\ m \in Nat
      /\ \A i \in 1..Len(b) : b[i] = a[m + i] /\ m + i \in 1..Len(a)
      BY DEF Dropped
<1>2. DataIn(a, 0) = 0 /\ DataIn(b, 0) = 0 /\ DataIn(a, m) \in Nat
      BY <1>1, DataInNone, DataInType
<1>3. ASSUME NEW n \in 0..Len(b)
      PROVE  DataIn(a, m + n) = DataIn(a, m) + DataIn(b, n) /\ DataIn(b, n) \in Nat
      <2>1. m \in Nat /\ n \in Nat /\ n <= Len(b)
            BY <1>1
      <2> QED BY <2>1, DataInDropped, DataInType
<1>4. OneKey(b, 0, key)
      BY <1>1 DEF OneKey
<1>5. ASSUME NoGap(a, 0, at), NEW i \in 1..Len(b), IsData(b[i])
      PROVE  b[i].pos = at + DataIn(a, m) + DataIn(b, i - 1) - DataIn(b, 0)
      <2>1. b[i].pos = at + DataIn(a, (m + i) - 1) - DataIn(a, 0)
            <3>1. m + i \in (0 + 1)..Len(a) /\ b[i] = a[m + i]
                  BY <1>1
            <3> QED BY <1>5, <3>1 DEF NoGap
      <2>2. (m + i) - 1 = m + (i - 1) /\ i - 1 \in 0..Len(b)
            BY <1>1
      <2>3. DataIn(a, m + (i - 1)) = DataIn(a, m) + DataIn(b, i - 1) /\ DataIn(b, i - 1) \in Nat
            BY <1>3, <2>2
      <2> QED BY <1>2, <2>1, <2>2, <2>3
<1>6. Behind(b, 0, at + DataIn(a, m)) = Behind(a, 0, at)
      <2>1. Len(b) \in 0..Len(b) /\ m + Len(b) = Len(a)
            BY <1>1
      <2>2. DataIn(a, Len(a)) = DataIn(a, m) + DataIn(b, Len(b)) /\ DataIn(b, Len(b)) \in Nat
            BY <1>3, <2>1
      <2> QED BY <1>2, <2>2 DEF Behind
<1> QED BY <1>4, <1>5, <1>6 DEF NoGap

-----------------------------------------------------------------------------
\* Types.

\* The frames that the two ends make.
LEMMA Frames ==
    /\ \A t \in {"SABM", "VERSION_REQ", "EP_REQ", "DISCONNECT"} :
          U(t) \in DevFrame /\ U(t).t = t /\ ~IsData(U(t))
    /\ \A t \in {"UA", "VERSION_RESP", "DISC"} : U(t) \in AppFrame /\ U(t).t = t /\ ~IsData(U(t))
    /\ \A c, n \in Nat : [t |-> "KE_REQ", pub |-> c, mac |-> n] \in DevFrame
    /\ \A n \in Nat : [t |-> "EP_RESP", nonce |-> n] \in AppFrame
    /\ \A c, n \in Nat : [t |-> "KE_RESP", pub |-> c, mac |-> n] \in AppFrame
    /\ \A key \in Key, n \in Nat, b \in Body :
          Data(key, n, b) \in DevFrame /\ Data(key, n, b) \in AppFrame
<1>1. \A key \in Key, n \in Nat, b \in Body : Data(key, n, b) \in DataFrame
      BY DEF Data, DataFrame
<1> QED BY <1>1 DEF U, DevFrame, AppFrame, IsData

\* What the frames carry.
LEMMA Contents ==
    /\ \A f \in AppFrame : /\ f.t = "EP_RESP" => f.nonce \in Nat
                           /\ f.t = "KE_RESP" => f.pub \in Nat /\ f.mac \in Nat
                           /\ IsData(f) => f.key \in Key /\ f.pos \in Nat
    /\ \A f \in DevFrame : /\ f.t = "KE_REQ" => f.pub \in Nat /\ f.mac \in Nat
                           /\ IsData(f) => f.key \in Key /\ f.pos \in Nat /\ f.body \in Body
BY DEF AppFrame, DevFrame, DataFrame, IsData

\* The end of the link.
LEMMA HangupType ==
    ASSUME LinkTypeOK, Hangup
    PROVE  cpc' = "down" /\ up' = FALSE /\ toApp' = <<>> /\ toDev' \in Seq(DevFrame) /\ AirTypeOK'
<1>1. <<U("DISCONNECT")>> \in Seq(DevFrame) /\ <<>> \in Seq(DevFrame) /\ <<>> \in Seq(AppFrame)
      BY Frames
<1>2. PICK w \in {<<>>, toDev}, s \in {<<>>, <<U("DISCONNECT")>>} : toDev' = w \o s
      BY DEF Hangup
<1>3. w \in Seq(DevFrame) /\ s \in Seq(DevFrame)
      BY <1>1 DEF LinkTypeOK, AirTypeOK
<1>4. w \o s \in Seq(DevFrame)
      BY <1>3
<1> QED BY <1>1, <1>2, <1>4 DEF Hangup, AirTypeOK

\* Steps that leave the mock alone keep its types.
LEMMA MockTypeKept == ASSUME LinkTypeOK, UNCHANGED serverVars PROVE MockTypeOK'
BY DEF LinkTypeOK, MockTypeOK, serverVars

\* Steps of the bridge keep the types.
LEMMA BridgeType ==
    ASSUME LinkTypeOK, Connect \/ Bridge \/ \E kind \in Kinds : WrapForSend(kind)
    PROVE  LinkTypeOK'
<1>1. NoKey \in Key /\ Kinds \subseteq Body
      BY DEF NoKey, Key, Body
<1>2. CASE Connect
      <2>1. U("SABM") \in DevFrame
            BY Frames
      <2>2. AirTypeOK'
            BY <1>2, <2>1 DEF Connect, LinkTypeOK, AirTypeOK
      <2>3. BridgeTypeOK'
            BY <1>1, <1>2 DEF Connect, Reset, LinkTypeOK, BridgeTypeOK, Waits
      <2> QED BY <1>2, <2>2, <2>3, MockTypeKept DEF Connect, LinkTypeOK
<1>3. CASE FeedAttBytes
      <2>1. Head(toApp) \in AppFrame /\ AirTypeOK'
            BY <1>3 DEF FeedAttBytes, LinkTypeOK, AirTypeOK
      <2>2. cq' \in Seq(AppFrame)
            <3>1. cq \in Seq(AppFrame)
                  BY DEF LinkTypeOK, BridgeTypeOK
            <3>2. cq' = Append(cq, Head(toApp)) \/ cq' = <<>>
                  BY <1>3 DEF FeedAttBytes
            <3>3. Append(cq, Head(toApp)) \in Seq(AppFrame)
                  BY <2>1, <3>1
            <3>4. <<>> \in Seq(AppFrame)
                  BY EmptySeq
            <3> QED BY <3>2, <3>3, <3>4
      <2>3. crx' \in Nat
            <3>1. Len(Drained(Head(toApp))) \in Nat
                  BY <2>1 DEF Drained, LinkTypeOK, BridgeTypeOK
            <3>2. DataIn(Drained(Head(toApp)), Len(Drained(Head(toApp)))) \in Nat
                  BY <3>1, DataInType
            <3> QED BY <1>3, <3>2 DEF FeedAttBytes, LinkTypeOK, BridgeTypeOK
      <2>4. BridgeTypeOK'
            BY <1>3, <2>2, <2>3 DEF FeedAttBytes, LinkTypeOK, BridgeTypeOK
      <2> QED BY <1>3, <2>1, <2>4, MockTypeKept DEF FeedAttBytes, LinkTypeOK
<1>4. CASE HandshakeStep
      <2>1. Head(cq) \in AppFrame /\ cq' \in Seq(AppFrame) /\ MockTypeOK'
            BY <1>4, MockTypeKept DEF HandshakeStep, LinkTypeOK, BridgeTypeOK
      <2>2. UNCHANGED attempt
            BY <1>4 DEF HandshakeStep
      <2>3. CASE Hangup /\ UNCHANGED <<nonce, ckey, crx, ctx>>
            BY <2>1, <2>2, <2>3, HangupType DEF LinkTypeOK, BridgeTypeOK
      <2>4. CASE UNCHANGED <<up, toApp>> /\ cpc' \in Waits \cup {"rr"}
            <3>1. nonce' \in Nat /\ ckey' \in Key /\ crx' \in Nat /\ ctx' \in Nat
                  BY <1>4, <2>1, <2>4, Contents
                  DEF HandshakeStep, Expected, LinkTypeOK, BridgeTypeOK, Key, Hangup, Waits
            <3>2. UNCHANGED toDev \/ \E f \in DevFrame : toDev' = Append(toDev, f)
                  <4>1. U("VERSION_REQ") \in DevFrame /\ U("EP_REQ") \in DevFrame
                        BY Frames
                  <4>2. Expected(Head(cq)) /\ cpc = "ep" =>
                          [t |-> "KE_REQ", pub |-> attempt, mac |-> Head(cq).nonce] \in DevFrame
                        BY <2>1, Contents, Frames DEF Expected, LinkTypeOK, BridgeTypeOK
                  <4> QED BY <1>4, <2>4, <4>1, <4>2 DEF HandshakeStep, Write, Hangup, Waits
            <3>3. toDev' \in Seq(DevFrame)
                  BY <3>2 DEF LinkTypeOK, AirTypeOK
            <3>4. up = TRUE /\ cpc' # "down"
                  BY <1>4, <2>4 DEF HandshakeStep, LinkTypeOK, AirTypeOK, Waits
            <3> QED BY <2>1, <2>2, <2>4, <3>1, <3>3, <3>4
                    DEF LinkTypeOK, BridgeTypeOK, AirTypeOK
      <2> QED BY <1>4, <2>3, <2>4 DEF HandshakeStep, Waits
<1>5. CASE HandshakeDone
      BY <1>5, MockTypeKept DEF HandshakeDone, LinkTypeOK, BridgeTypeOK, AirTypeOK, airVars
<1>6. CASE Disconnect
      BY <1>6, HangupType, MockTypeKept DEF Disconnect, LinkTypeOK, BridgeTypeOK
<1>7. ASSUME NEW kind \in Kinds, WrapForSend(kind) PROVE LinkTypeOK'
      <2>1. Data(ckey, ctx, kind) \in DevFrame
            BY <1>1, Frames DEF LinkTypeOK, BridgeTypeOK
      <2>2. AirTypeOK'
            BY <1>7, <2>1 DEF WrapForSend, Write, LinkTypeOK, AirTypeOK
      <2>3. BridgeTypeOK'
            BY <1>7 DEF WrapForSend, LinkTypeOK, BridgeTypeOK
      <2> QED BY <1>7, <2>2, <2>3, MockTypeKept DEF WrapForSend, LinkTypeOK
<1> QED BY <1>2, <1>3, <1>4, <1>5, <1>6, <1>7 DEF Bridge

\* What app_handler answers, and what the pusher sends, are bodies of data frames.
LEMMA BurstType ==
    ASSUME NEW kind \in Body
    PROVE  Answers(kind) \o Farewell(kind) \in Seq(Body \cup {"DISC"})
<1>1. Answers(kind) \in Seq(Body \cup {"DISC"}) /\ Farewell(kind) \in Seq(Body \cup {"DISC"})
      <2>1. {"count", "data", "answer", "DISC"} \subseteq Body \cup {"DISC"}
            BY DEF Body
      <2>2. Answers(kind) = <<"count", "data">> \/ Answers(kind) = <<"answer">>
            BY DEF Answers
      <2>3. Farewell(kind) = <<"DISC">> \/ Farewell(kind) = <<>>
            BY DEF Farewell
      <2>4. <<"count", "data">> \in Seq(Body \cup {"DISC"})
            BY <2>1
      <2>5. <<"answer">> \in Seq(Body \cup {"DISC"}) /\ <<"DISC">> \in Seq(Body \cup {"DISC"})
            BY <2>1
      <2> QED BY <2>2, <2>3, <2>4, <2>5, EmptySeq
<1> QED BY <1>1

\* Emitted frames.
LEMMA EmittedType ==
    ASSUME LinkTypeOK, NEW f \in AppFrame, toApp' = Emitted(<<f>>)
    PROVE  /\ toApp' \in Seq(AppFrame)
           /\ toApp' = IF up THEN Append(toApp, f) ELSE toApp
<1>1. toApp \in Seq(AppFrame) /\ up \in BOOLEAN
      BY DEF LinkTypeOK, AirTypeOK
<1>2. toApp \o <<f>> = Append(toApp, f) /\ Append(toApp, f) \in Seq(AppFrame)
      BY <1>1, AppendIsConcat
<1>3. CASE up
      BY <1>2, <1>3 DEF Emitted
<1>4. CASE ~up
      BY <1>1, <1>4 DEF Emitted
<1> QED BY <1>3, <1>4

\* The end of a session object.
LEMMA OverType ==
    ASSUME LinkTypeOK, NEW soon \in BOOLEAN, SessionOver(soon), UNCHANGED <<fresh, srx, stx>>
    PROVE  MockTypeOK'
<1>1. NoKey \in Key
      BY DEF NoKey, Key
<1> QED BY <1>1 DEF SessionOver, LinkTypeOK, MockTypeOK

\* Steps that leave the bridge alone keep its types.
LEMMA BridgeTypeKept == ASSUME LinkTypeOK, UNCHANGED clientVars PROVE BridgeTypeOK'
BY DEF LinkTypeOK, BridgeTypeOK, clientVars

\* The frames of Respond: the notifications, then the response.
LEMMA ResponseFrames ==
    ASSUME skey \in Key, stx \in Nat, NEW n \in Nat, NEW b \in Body
    PROVE  /\ Append(Notifications(n, stx + 1), Data(skey, stx, b)) \in Seq(AppFrame)
           /\ \A i \in 1..Len(Append(Notifications(n, stx + 1), Data(skey, stx, b))) :
                 /\ IsData(Append(Notifications(n, stx + 1), Data(skey, stx, b))[i])
                 /\ Append(Notifications(n, stx + 1), Data(skey, stx, b))[i].key = skey
           /\ n = 0 => Append(Notifications(n, stx + 1), Data(skey, stx, b)) = <<Data(skey, stx, b)>>
<1> DEFINE f == Data(skey, stx, b)
           ns == Notifications(n, stx + 1)
<1>1. f \in AppFrame /\ IsData(f) /\ f.key = skey
      BY Frames DEF Data, IsData
<1>2. \A i \in 1..n : /\ Data(skey, (stx + 1) + i - 1, "notify") \in AppFrame
                      /\ IsData(Data(skey, (stx + 1) + i - 1, "notify"))
                      /\ Data(skey, (stx + 1) + i - 1, "notify").key = skey
      <2>1. \A i \in 1..n : (stx + 1) + i - 1 \in Nat
            OBVIOUS
      <2>2. "notify" \in Body
            BY DEF Body, Kinds
      <2> QED BY <2>1, <2>2, Frames DEF Data, IsData
<1>3. ns \in [1..n -> AppFrame] /\ \A i \in 1..n : IsData(ns[i]) /\ ns[i].key = skey
      BY <1>2 DEF Notifications
<1>4. ns \in Seq(AppFrame) /\ Len(ns) = n
      BY <1>3
<1> HIDE DEF f, ns
<1>5. /\ Append(ns, f) \in Seq(AppFrame) /\ Len(Append(ns, f)) = n + 1
      /\ Append(ns, f)[n + 1] = f
      /\ \A i \in 1..n : Append(ns, f)[i] = ns[i]
      BY <1>1, <1>4
<1>6. \A i \in 1..Len(Append(ns, f)) : IsData(Append(ns, f)[i]) /\ Append(ns, f)[i].key = skey
      BY <1>1, <1>3, <1>5
<1>7. ASSUME n = 0 PROVE Append(ns, f) = <<f>>
      <2>1. ns = <<>>
            BY <1>4, <1>7
      <2> QED BY <1>1, <2>1
<1> QED BY <1>5, <1>6, <1>7 DEF f, ns

\* Steps of the mock keep the types.
LEMMA MockType ==
    ASSUME LinkTypeOK, Mock \/ SessionTimeout \/ Pusher \/ Lose
    PROVE  LinkTypeOK'
<1>1. CASE Feed
      <2>1. AirTypeOK' /\ Head(toDev) \in DevFrame
            BY <1>1 DEF Feed, LinkTypeOK, AirTypeOK, clientVars
      <2>2. MockTypeOK'
            BY <1>1, <2>1 DEF Feed, LinkTypeOK, MockTypeOK
      <2> QED BY <1>1, <2>1, <2>2, BridgeTypeKept DEF Feed, LinkTypeOK
<1>2. CASE ServerHandshake
      <2>1. Head(sq) \in DevFrame /\ Tail(sq) \in Seq(DevFrame)
            BY <1>2 DEF ServerHandshake, LinkTypeOK, MockTypeOK
      <2>2. CASE SessionOver(FALSE) /\ UNCHANGED <<fresh, srx, stx, toApp>>
            BY <1>2, <2>2, OverType, BridgeTypeKept
            DEF ServerHandshake, LinkTypeOK, AirTypeOK, clientVars
      <2>3. CASE ~SessionOver(FALSE)
            <3>1. UNCHANGED toApp \/ \E f \in AppFrame : toApp' = Emitted(<<f>>)
                  <4>1. U("UA") \in AppFrame /\ U("VERSION_RESP") \in AppFrame
                        BY Frames
                  <4>2. fresh \in Nat /\ fresh + 1 \in Nat
                        BY DEF LinkTypeOK, MockTypeOK
                  <4>3. /\ [t |-> "EP_RESP", nonce |-> fresh + 1] \in AppFrame
                        /\ [t |-> "KE_RESP", pub |-> fresh, mac |-> fresh] \in AppFrame
                        BY <4>2, Frames
                  <4> QED BY <1>2, <2>3, <4>1, <4>3 DEF ServerHandshake
            <3>2. AirTypeOK'
                  BY <1>2, <3>1, EmittedType DEF ServerHandshake, LinkTypeOK, AirTypeOK, clientVars
            <3>3. skey' \in Key
                  <4>1. UNCHANGED skey \/ (Head(sq).t = "KE_REQ" /\ NewCiphers(Head(sq).pub))
                        BY <1>2, <2>3 DEF ServerHandshake, ServerExpected
                  <4> QED BY <2>1, <4>1, Contents DEF NewCiphers, LinkTypeOK, MockTypeOK, Key
            <3>4. /\ spc' \in {"sabm", "version", "ep", "ke", "loop"}
                  /\ fresh' \in {fresh, fresh + 1} /\ srx' \in {srx, 0} /\ stx' \in {stx, 0}
                  /\ sq' = Tail(sq) /\ sdone' \in BOOLEAN /\ UNCHANGED <<burst, pre, subscribed>>
                  <4> USE <1>2, <2>3 DEF ServerHandshake, NewCiphers
                  <4>1. spc' \in {"sabm", "version", "ep", "ke", "loop"}
                        BY DEF LinkTypeOK, MockTypeOK
                  <4>2. fresh' \in {fresh, fresh + 1} /\ srx' \in {srx, 0} /\ stx' \in {stx, 0}
                        OBVIOUS
                  <4>3. sq' = Tail(sq) /\ UNCHANGED <<burst, pre, subscribed>>
                        OBVIOUS
                  <4>4. sdone' \in BOOLEAN
                        BY DEF LinkTypeOK, MockTypeOK
                  <4> QED BY <4>1, <4>2, <4>3, <4>4
            <3>5. MockTypeOK'
                  BY <2>1, <3>3, <3>4 DEF LinkTypeOK, MockTypeOK
            <3> QED BY <1>2, <3>2, <3>5, BridgeTypeKept DEF ServerHandshake, LinkTypeOK
      <2>4. SessionOver(FALSE) => UNCHANGED <<fresh, srx, stx, toApp>>
            BY <1>2 DEF ServerHandshake, SessionOver
      <2> QED BY <2>2, <2>3, <2>4
<1>3. CASE FrameLoop
      <2>1. Head(sq) \in DevFrame /\ Tail(sq) \in Seq(DevFrame)
            BY <1>3 DEF FrameLoop, LinkTypeOK, MockTypeOK
      <2>2. CASE Head(sq).t = "DISCONNECT"
            BY <1>3, <2>2, OverType, BridgeTypeKept
            DEF FrameLoop, LinkTypeOK, AirTypeOK, clientVars
      <2>3. CASE Head(sq).t = "SABM"
            <3>1. U("UA") \in AppFrame
                  BY Frames
            <3>2. AirTypeOK'
                  BY <1>3, <2>3, <3>1, EmittedType
                  DEF FrameLoop, MidSessionSabm, LinkTypeOK, AirTypeOK, clientVars
            <3>3. MockTypeOK'
                  BY <1>3, <2>1, <2>3 DEF FrameLoop, MidSessionSabm, Restart, LinkTypeOK, MockTypeOK
            <3> QED BY <1>3, <3>2, <3>3, BridgeTypeKept DEF FrameLoop, LinkTypeOK
      <2>4. CASE Head(sq).t \notin {"DISCONNECT", "SABM"}
            <3>1. AirTypeOK'
                  BY <1>3, <2>4 DEF FrameLoop, LinkTypeOK, AirTypeOK, clientVars
            <3>2. burst' \in Seq(Body \cup {"DISC"})
                  <4>1. IsData(Head(sq)) => Head(sq).body \in Body
                        BY <2>1, Contents
                  <4>2. \/ burst' = <<>>
                        \/ IsData(Head(sq)) /\ burst' = Answers(Head(sq).body) \o Farewell(Head(sq).body)
                        BY <1>3, <2>4 DEF FrameLoop
                  <4> QED BY <4>1, <4>2, BurstType, EmptySeq
            <3>3. srx' \in Nat
                  <4>1. srx' = IF IsData(Head(sq)) THEN srx + 1 ELSE srx
                        BY <1>3, <2>4 DEF FrameLoop
                  <4> QED BY <4>1 DEF LinkTypeOK, MockTypeOK
            <3>5. subscribed' \in BOOLEAN
                  <4>1. subscribed' = (subscribed \/ (/\ IsData(Head(sq)) /\ Head(sq).key = skey
                                                      /\ Head(sq).pos = srx /\ Head(sq).body = "notify"))
                        BY <1>3, <2>4 DEF FrameLoop
                  <4> QED BY <4>1
            <3>4. MockTypeOK'
                  BY <1>3, <2>1, <2>4, <3>2, <3>3, <3>5 DEF FrameLoop, LinkTypeOK, MockTypeOK
            <3> QED BY <1>3, <3>1, <3>4, BridgeTypeKept DEF FrameLoop, LinkTypeOK
      <2> QED BY <2>2, <2>3, <2>4
<1>4. CASE Respond
      <2>1. Head(burst) \in Body \cup {"DISC"} /\ Tail(burst) \in Seq(Body \cup {"DISC"})
            BY <1>4 DEF Respond, LinkTypeOK, MockTypeOK
      <2>2. /\ stx' \in Nat
            /\ \E fs \in Seq(AppFrame) : toApp' = Emitted(fs)
            <3>1. CASE Head(burst) = "DISC"
                  <4>1. <<U("DISC")>> \in Seq(AppFrame)
                        BY Frames
                  <4>2. toApp' = Emitted(<<U("DISC")>>) /\ stx' = stx
                        BY <1>4, <3>1 DEF Respond
                  <4> QED BY <4>1, <4>2 DEF LinkTypeOK, MockTypeOK
            <3>2. CASE Head(burst) # "DISC"
                  <4>1. PICK n \in 0..MaxPushes :
                            /\ toApp' = Emitted(Append(Notifications(n, stx + 1),
                                                       Data(skey, stx, Head(burst))))
                            /\ stx' = stx + 1 + n
                        BY <1>4, <3>2 DEF Respond
                  <4>2. n \in Nat /\ skey \in Key /\ stx \in Nat /\ Head(burst) \in Body
                        BY <2>1, <3>2, AriendiAssumption DEF LinkTypeOK, MockTypeOK
                  <4>3. Append(Notifications(n, stx + 1), Data(skey, stx, Head(burst))) \in Seq(AppFrame)
                        BY <4>2, ResponseFrames
                  <4>4. stx' \in Nat
                        BY <4>1, <4>2
                  <4> QED BY <4>1, <4>3, <4>4
            <3> QED BY <3>1, <3>2
      <2>3. AirTypeOK'
            <3>1. toApp' \in Seq(AppFrame)
                  BY <2>2 DEF Emitted, LinkTypeOK, AirTypeOK
            <3> QED BY <1>4, <3>1 DEF Respond, LinkTypeOK, AirTypeOK, clientVars
      <2>4. MockTypeOK'
            BY <1>4, <2>1, <2>2 DEF Respond, LinkTypeOK, MockTypeOK
      <2> QED BY <1>4, <2>3, <2>4, BridgeTypeKept DEF Respond, LinkTypeOK
<1>5. CASE Pusher
      <2>1. Data(skey, stx, "notify") \in AppFrame
            BY Frames DEF LinkTypeOK, MockTypeOK, Body, Kinds
      <2>2. AirTypeOK'
            BY <1>5, <2>1, EmittedType DEF Pusher, LinkTypeOK, AirTypeOK, clientVars
      <2>3. MockTypeOK'
            BY <1>5 DEF Pusher, LinkTypeOK, MockTypeOK
      <2> QED BY <1>5, <2>2, <2>3, BridgeTypeKept DEF Pusher, LinkTypeOK
<1>6. CASE SessionTimeout
      <2>1. (spc = "loop" /\ phase >= 2) \in BOOLEAN
            OBVIOUS
      <2> QED BY <1>6, <2>1, OverType, BridgeTypeKept
              DEF SessionTimeout, LinkTypeOK, AirTypeOK, airVars, clientVars
<1>7. CASE NextSession
      <2>1. MockTypeOK'
            <3>1. NoKey \in Key
                  BY DEF NoKey, Key
            <3>2. sq' \in {sq, <<>>}
                  BY <1>7 DEF NextSession
            <3> QED BY <1>7, <3>1, <3>2, EmptySeq DEF NextSession, LinkTypeOK, MockTypeOK
      <2>2. AirTypeOK' /\ cpc' \in {cpc, "down"}
            <3>1. CASE Hangup
                  BY <3>1, HangupType
            <3>2. CASE UNCHANGED <<up, toApp, toDev, cpc>>
                  BY <3>2 DEF LinkTypeOK, AirTypeOK
            <3> QED BY <1>7, <3>1, <3>2 DEF NextSession, ForceDisconnect
      <2>3. BridgeTypeOK'
            BY <1>7, <2>2 DEF NextSession, LinkTypeOK, BridgeTypeOK
      <2> QED BY <2>1, <2>2, <2>3 DEF LinkTypeOK
<1>8. CASE Lose
      <2>1. AirTypeOK'
            <3>1. toApp \in Seq(AppFrame) /\ toDev \in Seq(DevFrame)
                  BY DEF LinkTypeOK, AirTypeOK
            <3>2. toApp' \in Seq(AppFrame) /\ toDev' \in Seq(DevFrame)
                  <4>1. \/ toApp # <<>> /\ toApp' = Tail(toApp) /\ UNCHANGED toDev
                        \/ toDev # <<>> /\ toDev' = Tail(toDev) /\ UNCHANGED toApp
                        BY <1>8 DEF Lose
                  <4>2. toApp # <<>> => Tail(toApp) \in Seq(AppFrame)
                        BY <3>1
                  <4>3. toDev # <<>> => Tail(toDev) \in Seq(DevFrame)
                        BY <3>1
                  <4> QED BY <3>1, <4>1, <4>2, <4>3
            <3> QED BY <1>8, <3>2 DEF Lose, LinkTypeOK, AirTypeOK, clientVars
      <2> QED BY <1>8, <2>1, BridgeTypeKept, MockTypeKept DEF Lose, LinkTypeOK
<1> QED BY <1>1, <1>2, <1>3, <1>4, <1>5, <1>6, <1>7, <1>8 DEF Mock

\* Every step keeps the types.
LEMMA StepType == ASSUME LinkTypeOK, [Next]_vars PROVE LinkTypeOK'
<1>1. CASE UNCHANGED vars
      BY <1>1, BridgeTypeKept, MockTypeKept
      DEF vars, LinkTypeOK, AirTypeOK, airVars, clientVars
<1> QED BY <1>1, BridgeType, MockType DEF Next

-----------------------------------------------------------------------------
\* What the steps do to the frames under way.

\* The head and the tail of a concatenation.
LEMMA Joined ==
    ASSUME NEW S, NEW p \in Seq(S), NEW q \in Seq(S)
    PROVE  /\ p \o q \in Seq(S) /\ Len(p \o q) = Len(p) + Len(q)
           /\ p # <<>> => p \o q # <<>> /\ Head(p \o q) = Head(p) /\ Tail(p \o q) = Tail(p) \o q
<1>1. p \o q \in Seq(S) /\ Len(p \o q) = Len(p) + Len(q)
      OBVIOUS
<1>2. ASSUME p # <<>> PROVE p \o q # <<>> /\ Head(p \o q) = Head(p)
      BY <1>2
<1>3. ASSUME p # <<>> PROVE Tail(p \o q) = Tail(p) \o q
      <2>1. Tail(p) \in Seq(S) /\ Tail(p \o q) \in Seq(S) /\ Tail(p) \o q \in Seq(S)
            BY <1>2, <1>3
      <2>2. Len(Tail(p \o q)) = Len(Tail(p) \o q)
            BY <1>3, <2>1
      <2>3. \A i \in 1..Len(Tail(p \o q)) : Tail(p \o q)[i] = (Tail(p) \o q)[i]
            BY <1>3, <2>1
      <2> QED BY <2>1, <2>2, <2>3, SeqEqual
<1> QED BY <1>1, <1>2, <1>3

\* The frames under way, by their places.
LEMMA Places ==
    ASSUME LinkTypeOK
    PROVE  /\ sq \in Seq(DevFrame) /\ toDev \in Seq(DevFrame) /\ pipe \in Seq(DevFrame)
           /\ cq \in Seq(AppFrame) /\ toApp \in Seq(AppFrame) /\ air \in Seq(AppFrame)
           /\ Len(pipe) = Len(sq) + Len(toDev) /\ Len(air) = Len(cq) + Len(toApp)
           /\ sq # <<>> => pipe # <<>> /\ Head(pipe) = Head(sq) /\ Tail(pipe) = Tail(sq) \o toDev
           /\ cq # <<>> => air # <<>> /\ Head(air) = Head(cq) /\ Tail(air) = Tail(cq) \o toApp
<1>1. /\ sq \in Seq(DevFrame) /\ toDev \in Seq(DevFrame)
      /\ cq \in Seq(AppFrame) /\ toApp \in Seq(AppFrame)
      BY DEF LinkTypeOK, BridgeTypeOK, MockTypeOK, AirTypeOK
<1>2. /\ pipe \in Seq(DevFrame) /\ Len(pipe) = Len(sq) + Len(toDev)
      /\ sq # <<>> => pipe # <<>> /\ Head(pipe) = Head(sq) /\ Tail(pipe) = Tail(sq) \o toDev
      BY <1>1, Joined, Zenon DEF pipe
<1>3. /\ air \in Seq(AppFrame) /\ Len(air) = Len(cq) + Len(toApp)
      /\ cq # <<>> => air # <<>> /\ Head(air) = Head(cq) /\ Tail(air) = Tail(cq) \o toApp
      BY <1>1, Joined, Zenon DEF air
<1> QED BY <1>1, <1>2, <1>3

\* A frame written by the bridge is the last one for the mock.
LEMMA WrittenOut ==
    ASSUME LinkTypeOK, NEW f \in DevFrame, toDev' = Append(toDev, f), UNCHANGED sq
    PROVE  pipe' = Append(pipe, f)
<1>1. sq \in Seq(DevFrame) /\ toDev \in Seq(DevFrame)
      BY Places
<1>2. sq \o Append(toDev, f) = Append(sq \o toDev, f)
      BY <1>1
<1> QED BY <1>2 DEF pipe

\* A frame emitted by the mock is the last one for the bridge.
LEMMA EmittedLast ==
    ASSUME LinkTypeOK, NEW f \in AppFrame, toApp' = Emitted(<<f>>), UNCHANGED cq
    PROVE  air' = IF up THEN Append(air, f) ELSE air
<1>1. cq \in Seq(AppFrame) /\ toApp \in Seq(AppFrame) /\ up \in BOOLEAN
      BY Places DEF LinkTypeOK, AirTypeOK
<1>2. toApp' = IF up THEN Append(toApp, f) ELSE toApp
      BY EmittedType
<1>3. cq \o Append(toApp, f) = Append(cq \o toApp, f)
      BY <1>1
<1> QED BY <1>1, <1>2, <1>3 DEF air

\* A hangup may drop what was written last, and may be signalled behind it.
LEMMA HangupPipe ==
    ASSUME LinkTypeOK, Hangup, sq' \in {sq, <<>>}
    PROVE  /\ Thin(pipe', Append(pipe, U("DISCONNECT")))
           /\ sq' = sq => \A i \in 1..Len(pipe') : IsData(pipe'[i]) =>
                              i \in 1..Len(pipe) /\ pipe'[i] = pipe[i]
<1> DEFINE D == <<U("DISCONNECT")>>
<1>1. PICK w \in {<<>>, toDev}, s \in {<<>>, D} : toDev' = w \o s
      BY DEF Hangup
<1>2. /\ sq \in Seq(DevFrame) /\ toDev \in Seq(DevFrame) /\ D \in Seq(DevFrame)
      /\ w \in Seq(DevFrame) /\ s \in Seq(DevFrame) /\ sq' \in Seq(DevFrame)
      /\ U("DISCONNECT") \in DevFrame /\ ~IsData(U("DISCONNECT"))
      <2>1. U("DISCONNECT") \in DevFrame /\ ~IsData(U("DISCONNECT"))
            BY Frames
      <2>2. D \in Seq(DevFrame) /\ <<>> \in Seq(DevFrame)
            BY <2>1, EmptySeq
      <2>3. sq \in Seq(DevFrame) /\ toDev \in Seq(DevFrame)
            BY Places
      <2> HIDE DEF D
      <2> QED BY <2>1, <2>2, <2>3
<1>3. w \o s \in Seq(DevFrame) /\ toDev \o D \in Seq(DevFrame)
      BY <1>2
<1>4. Thin(w, toDev) /\ Thin(s, D) /\ Thin(sq', sq)
      BY <1>2, ThinSame, ThinNone
<1>5. Thin(w \o s, toDev \o D)
      BY <1>2, <1>4, ThinConcat
<1>6. Thin(sq' \o (w \o s), sq \o (toDev \o D))
      BY <1>2, <1>3, <1>4, <1>5, ThinConcat
<1>7. sq \o (toDev \o D) = Append(sq \o toDev, U("DISCONNECT"))
      <2>1. toDev \o D = Append(toDev, U("DISCONNECT"))
            BY <1>2
      <2>2. sq \o Append(toDev, U("DISCONNECT")) = Append(sq \o toDev, U("DISCONNECT"))
            BY <1>2
      <2> QED BY <2>1, <2>2
<1>8. Thin(pipe', Append(pipe, U("DISCONNECT")))
      BY <1>1, <1>6, <1>7 DEF pipe
<1>9. ASSUME sq' = sq, NEW i \in 1..Len(pipe'), IsData(pipe'[i])
      PROVE  i \in 1..Len(pipe) /\ pipe'[i] = pipe[i]
      <2>1. pipe' = sq \o (w \o s) /\ pipe = sq \o toDev
            BY <1>1, <1>9 DEF pipe
      <2>2. CASE s = <<>>
            <3>1. w \o s = w
                  BY <1>2, <2>2
            <3> QED BY <1>2, <1>9, <2>1, <3>1
      <2>3. CASE s = D
            <3>1. w \o s = Append(w, U("DISCONNECT"))
                  BY <1>2, <2>3
            <3>2. sq \o Append(w, U("DISCONNECT")) = Append(sq \o w, U("DISCONNECT"))
                  BY <1>2
            <3>3. pipe' = Append(sq \o w, U("DISCONNECT"))
                  BY <2>1, <3>1, <3>2
            <3>4. sq \o w \in Seq(DevFrame)
                  BY <1>2
            <3>5. i \in 1..Len(sq \o w) /\ pipe'[i] = (sq \o w)[i]
                  BY <1>2, <1>9, <3>3, <3>4, Grown
            <3>6. CASE w = toDev
                  BY <2>1, <3>5, <3>6
            <3>7. CASE w = <<>>
                  <4>1. sq \o w = sq
                        BY <1>2, <3>7
                  <4> QED BY <1>2, <2>1, <3>5, <4>1
            <3> QED BY <3>6, <3>7
      <2> QED BY <2>2, <2>3
<1> QED BY <1>8, <1>9
-----------------------------------------------------------------------------
\* What the mock sends keeps both ends in step.

\* The session object keeps its ciphers, or has none.
SameCiphers == sdone' => sdone /\ UNCHANGED <<skey, stx>>

\* The mock sends nothing; a frame other than data; the next piece of data.
Silent == UNCHANGED air /\ SameCiphers
Plain(f) ==
    /\ ~IsData(f) /\ f.t # "KE_RESP"
    /\ air' = IF up THEN Append(air, f) ELSE air
    /\ SameCiphers
Piece(f) ==
    /\ IsData(f) /\ f.key = skey /\ f.pos = stx
    /\ air' = IF up THEN Append(air, f) ELSE air
    /\ sdone /\ sdone' /\ skey' = skey /\ stx' = stx + 1

Sends == Silent \/ \E f \in AppFrame : Plain(f) \/ Piece(f)

\* The air behind place k stays in step with the bridge and with the mock.
LEMMA InStepKept ==
    ASSUME LinkTypeOK, up, Sends, NEW k \in 0..Len(air), NEW key, NEW at \in Nat,
           OneKey(air, k, key),
           attempt \notin upset => NoGap(air, k, at) /\ (sdone => stx = Behind(air, k, at)),
           sdone => skey = key
    PROVE  /\ OneKey(air', k, key)
           /\ attempt \notin upset => NoGap(air', k, at) /\ (sdone' => stx' = Behind(air', k, at))
           /\ sdone' => skey' = key
<1>1. air \in Seq(AppFrame)
      BY Places
<1>2. CASE Silent
      BY <1>2 DEF Silent, SameCiphers
<1>3. ASSUME NEW f \in AppFrame, Plain(f)
      PROVE  /\ OneKey(air', k, key)
             /\ attempt \notin upset => NoGap(air', k, at) /\ (sdone' => stx' = Behind(air', k, at))
             /\ sdone' => skey' = key
      <2>1. air' = Append(air, f) /\ ~IsData(f)
            BY <1>3 DEF Plain
      <2>2. /\ OneKey(air', k, key)
            /\ NoGap(air, k, at) => NoGap(air', k, at)
            /\ Behind(air', k, at) = Behind(air, k, at)
            BY <1>1, <2>1, StepEmit
      <2> QED BY <1>3, <2>2 DEF Plain, SameCiphers
<1>4. ASSUME NEW f \in AppFrame, Piece(f)
      PROVE  /\ OneKey(air', k, key)
             /\ attempt \notin upset => NoGap(air', k, at) /\ (sdone' => stx' = Behind(air', k, at))
             /\ sdone' => skey' = key
      <2>1. air' = Append(air, f) /\ IsData(f) /\ f.key = key /\ f.pos = stx /\ stx' = stx + 1
            BY <1>4 DEF Piece
      <2>2. OneKey(air, k, f.key)
            BY <2>1
      <2>3. /\ OneKey(air', k, key)
            /\ NoGap(air, k, at) /\ f.pos = Behind(air, k, at) => NoGap(air', k, at)
            /\ Behind(air', k, at) = Behind(air, k, at) + 1
            BY <1>1, <2>1, <2>2, StepData
      <2> QED BY <1>4, <2>1, <2>3 DEF Piece
<1> QED BY <1>2, <1>3, <1>4 DEF Sends

\* The frames of the air stay where they are, and no exchange is finished.
LEMMA AirKept ==
    ASSUME LinkTypeOK, Sends
    PROVE  /\ Len(air) \in Nat /\ \A k \in 1..Len(air) : k \in 1..Len(air') /\ air'[k] = air[k]
           /\ \A k \in 1..Len(air') : air'[k].t = "KE_RESP" => k \in 1..Len(air) /\ air'[k] = air[k]
<1>1. air \in Seq(AppFrame) /\ Len(air) \in Nat
      BY Places
<1>2. CASE air' = air
      BY <1>1, <1>2
<1>3. ASSUME NEW f \in AppFrame, f.t # "KE_RESP", air' = Append(air, f)
      PROVE  /\ \A k \in 1..Len(air) : k \in 1..Len(air') /\ air'[k] = air[k]
             /\ \A k \in 1..Len(air') : air'[k].t = "KE_RESP" => k \in 1..Len(air) /\ air'[k] = air[k]
      <2>1. /\ Len(air') = Len(air) + 1 /\ \A i \in 1..Len(air) : air'[i] = air[i]
            /\ air'[Len(air) + 1] = f
            BY <1>1, <1>3, Grown
      <2> QED BY <1>1, <1>3, <2>1
<1> QED BY <1>1, <1>2, <1>3 DEF Sends, Silent, Plain, Piece, IsData

\* A step of the mock that finishes no exchange keeps what the bridge relies on.
LEMMA MockKeeps ==
    ASSUME LinkInv, MockTypeOK', Sends, UNCHANGED clientVars, UNCHANGED <<upset, up>>,
           pipe = <<>> => pipe' = <<>>, Thin(pipe', pipe), pipe' \in Seq(DevFrame),
           (\A i \in 1..Len(pipe) : IsData(pipe[i])) /\ spc \in {"loop", "over", "sabm"} =>
              /\ spc' \in {"loop", "over", "sabm"}
              /\ spc' = "loop" => spc = "loop" /\ srx' + Len(pipe') = srx + Len(pipe)
    PROVE  RequestInv' /\ ResponseInv' /\ OpenInv' /\ DataFirst(pipe')
<1>1. LinkTypeOK /\ pipe \in Seq(DevFrame) /\ Len(air) \in Nat
      BY Places DEF LinkInv
<1>2. RequestInv'
      BY <1>1, RequestThin DEF LinkInv, RequestInv, clientVars
<1>3. DataFirst(pipe')
      BY <1>1, DataFirstThin DEF LinkInv, PipeInv
<1>4. ASSUME cpc = "ke", NEW k \in 1..Len(air'), air'[k].t = "KE_RESP", air'[k].mac = nonce
      PROVE  /\ pipe' = <<>>
             /\ MockReady(<<attempt, nonce>>)' /\ (spc' = "loop" => srx' = 0)
             /\ InStep(k, <<attempt, nonce>>, 0)'
      <2>1. k \in 1..Len(air) /\ air[k].t = "KE_RESP" /\ air[k].mac = nonce
            BY <1>1, <1>4, AirKept
      <2>2. /\ pipe = <<>> /\ MockReady(<<attempt, nonce>>) /\ (spc = "loop" => srx = 0)
            /\ InStep(k, <<attempt, nonce>>, 0)
            BY <1>4, <2>1 DEF LinkInv, ResponseInv
      <2>3. up /\ k \in 0..Len(air)
            BY <1>1, <1>4, <2>1 DEF LinkTypeOK, AirTypeOK
      <2>4. /\ OneKey(air', k, <<attempt, nonce>>)
            /\ attempt \notin upset => NoGap(air', k, 0) /\ (sdone' => stx' = Behind(air', k, 0))
            /\ sdone' => skey' = <<attempt, nonce>>
            BY <1>1, <2>2, <2>3, InStepKept DEF InStep, MockReady
      <2>5. pipe' = <<>> /\ Len(pipe) = 0 /\ Len(pipe') = 0
            BY <2>2
      <2>6. spc' \in {"loop", "over", "sabm"} /\ (spc' = "loop" => srx' = 0)
            <3>1. srx \in Nat /\ srx' \in Nat
                  BY <1>1 DEF LinkTypeOK, MockTypeOK
            <3>2. spc \in {"loop", "over", "sabm"} /\ \A i \in 1..Len(pipe) : IsData(pipe[i])
                  BY <2>2, <2>5 DEF MockReady
            <3>3. /\ spc' \in {"loop", "over", "sabm"}
                  /\ spc' = "loop" => spc = "loop" /\ srx' + Len(pipe') = srx + Len(pipe)
                  BY <3>2
            <3>4. spc' = "loop" => srx' + 0 = 0 + 0
                  BY <2>2, <2>5, <3>3
            <3>5. \A x \in Nat : x + 0 = 0 + 0 => x = 0
                  OBVIOUS
            <3> QED BY <3>1, <3>3, <3>4, <3>5, Zenon
      <2> QED BY <2>4, <2>5, <2>6 DEF InStep, MockReady, clientVars
<1>5. ResponseInv'
      BY <1>4 DEF ResponseInv, clientVars
<1>6. ASSUME cpc \in {"rr", "open"}
      PROVE  /\ ckey[1] = attempt
             /\ \A i \in 1..Len(pipe') : IsData(pipe'[i]) /\ pipe'[i].key = ckey
             /\ MockReady(ckey)'
             /\ spc' = "loop" /\ attempt \notin upset => ctx = srx' + Len(pipe')
             /\ InStep(0, ckey, crx)'
      <2>1. /\ ckey[1] = attempt
            /\ \A i \in 1..Len(pipe) : IsData(pipe[i]) /\ pipe[i].key = ckey
            /\ MockReady(ckey)
            /\ spc = "loop" /\ attempt \notin upset => ctx = srx + Len(pipe)
            /\ InStep(0, ckey, crx)
            BY <1>6 DEF LinkInv, OpenInv
      <2>2. up /\ 0 \in 0..Len(air) /\ crx \in Nat
            BY <1>1, <1>6 DEF LinkTypeOK, AirTypeOK, BridgeTypeOK
      <2>3. /\ OneKey(air', 0, ckey)
            /\ attempt \notin upset => NoGap(air', 0, crx) /\ (sdone' => stx' = Behind(air', 0, crx))
            /\ sdone' => skey' = ckey
            BY <1>1, <2>1, <2>2, InStepKept DEF InStep, MockReady
      <2>4. \A i \in 1..Len(pipe') : IsData(pipe'[i]) /\ pipe'[i].key = ckey
            <3>1. PICK e \in [1..Len(pipe') -> 1..Len(pipe)] : \A i \in 1..Len(pipe') : pipe'[i] = pipe[e[i]]
                  BY DEF Thin
            <3> QED BY <2>1, <3>1
      <2>5. /\ spc' \in {"loop", "over", "sabm"}
            /\ spc' = "loop" => spc = "loop" /\ srx' + Len(pipe') = srx + Len(pipe)
            BY <2>1 DEF MockReady
      <2> QED BY <2>1, <2>3, <2>4, <2>5 DEF InStep, MockReady, clientVars
<1>7. OpenInv'
      BY <1>6 DEF OpenInv, InStep, MockReady, clientVars
<1> QED BY <1>2, <1>3, <1>5, <1>7
-----------------------------------------------------------------------------
\* The steps of the bridge.

\* With the link, everything that the bridge relied on ends.
LEMMA Downed ==
    ASSUME LinkInv, Hangup, sq' \in {sq, <<>>}, cq' \in Seq(AppFrame), Thin(cq', cq),
           UNCHANGED fresh
    PROVE  /\ ExchangeInv' /\ RequestInv' /\ ResponseInv' /\ OpenInv' /\ DataFirst(pipe')
           /\ sq' = sq /\ UNCHANGED <<spc, skey, srx, upset>> => PipeInv'
<1>1. LinkTypeOK /\ pipe \in Seq(DevFrame) /\ air \in Seq(AppFrame) /\ fresh \in Nat
      BY Places DEF LinkInv, LinkTypeOK, MockTypeOK
<1>2. cpc' = "down" /\ toApp' = <<>> /\ toDev' \in Seq(DevFrame)
      BY <1>1, HangupType
<1>3. pipe' \in Seq(DevFrame)
      <2>1. sq' \in Seq(DevFrame)
            BY <1>1, Places, EmptySeq
      <2>2. sq' \o toDev' \in Seq(DevFrame)
            BY <1>2, <2>1
      <2> QED BY <2>2 DEF pipe
<1> DEFINE D == U("DISCONNECT")
<1>4. D \in DevFrame /\ ~IsData(D) /\ D.t # "KE_REQ"
      BY Frames
<1> HIDE DEF D
<1>5. Append(pipe, D) \in Seq(DevFrame)
      BY <1>1, <1>4
<1>6. Thin(pipe', Append(pipe, D))
      BY <1>1, HangupPipe DEF D
<1>7. ExchangeInv'
      <2>1. Exchanges(Append(pipe, D), air, fresh)
            BY <1>1, <1>4, ExchangesWrite DEF LinkInv, ExchangeInv
      <2>2. Thin(air', air) /\ air' \in Seq(AppFrame)
            <3>1. cq \in Seq(AppFrame) /\ toApp \in Seq(AppFrame) /\ <<>> \in Seq(AppFrame)
                  BY <1>1, Places, EmptySeq
            <3>2. Thin(<<>>, toApp)
                  BY <3>1, ThinNone
            <3>3. Thin(cq' \o <<>>, cq \o toApp)
                  BY <3>1, <3>2, ThinConcat
            <3>4. cq' \o <<>> \in Seq(AppFrame)
                  BY <3>1
            <3> QED BY <1>2, <3>3, <3>4 DEF air
      <2>3. Exchanges(pipe', air', fresh)
            BY <1>1, <1>3, <1>5, <1>6, <2>1, <2>2, ExchangesThin
      <2> QED BY <2>3 DEF ExchangeInv
<1>8. RequestInv' /\ ResponseInv' /\ OpenInv'
      BY <1>2 DEF RequestInv, ResponseInv, OpenInv
<1>9. DataFirst(pipe')
      <2>1. DataFirst(Append(pipe, D))
            BY <1>1, <1>4, DataFirstWrite DEF LinkInv, PipeInv
      <2> QED BY <1>3, <1>5, <1>6, <2>1, DataFirstThin
<1>10. ASSUME sq' = sq, UNCHANGED <<spc, skey, srx, upset>> PROVE PipeInv'
      <2>1. \A i \in 1..Len(pipe') : IsData(pipe'[i]) => i \in 1..Len(pipe) /\ pipe'[i] = pipe[i]
            BY <1>1, <1>10, HangupPipe
      <2> QED BY <1>9, <1>10, <2>1 DEF LinkInv, PipeInv
<1> QED BY <1>7, <1>8, <1>9, <1>10

\* A frame other than data, written behind the others.
LEMMA PipeWrite ==
    ASSUME LinkInv, NEW f \in DevFrame, ~IsData(f), pipe' = Append(pipe, f),
           UNCHANGED <<spc, skey, srx, upset>>
    PROVE  PipeInv'
<1>1. pipe \in Seq(DevFrame)
      BY Places DEF LinkInv
<1>2. DataFirst(pipe')
      BY <1>1, DataFirstWrite DEF LinkInv, PipeInv
<1>3. \A i \in 1..Len(pipe') : IsData(pipe'[i]) => i \in 1..Len(pipe) /\ pipe'[i] = pipe[i]
      BY <1>1, Grown
<1> QED BY <1>2, <1>3 DEF LinkInv, PipeInv

\* Steps that leave the pipe and the mock alone.
LEMMA PipeKept ==
    ASSUME LinkInv, pipe' = pipe, UNCHANGED <<spc, skey, srx, upset>>
    PROVE  PipeInv'
BY DEF LinkInv, PipeInv

\* A new connection.
LEMMA StepConnect == ASSUME LinkInv, LinkTypeOK', Connect PROVE LinkInv'
<1>1. LinkTypeOK /\ pipe \in Seq(DevFrame) /\ air \in Seq(AppFrame) /\ fresh \in Nat
      BY Places DEF LinkInv, LinkTypeOK, MockTypeOK
<1> DEFINE f == U("SABM")
<1>2. f \in DevFrame /\ ~IsData(f) /\ f.t # "KE_REQ"
      BY Frames
<1> HIDE DEF f
<1>3. cpc' = "ua" /\ pipe' = Append(pipe, f) /\ air' = <<>>
      <2>1. toDev' = Append(toDev, f) /\ UNCHANGED sq
            BY DEF Connect, serverVars, f
      <2>2. cq' \o toApp' = <<>> \o <<>>
            BY DEF Connect, Reset
      <2> QED BY <1>1, <1>2, <2>1, <2>2, WrittenOut DEF air, Connect
<1>4. ExchangeInv'
      <2>1. Exchanges(Append(pipe, f), air, fresh) /\ Append(pipe, f) \in Seq(DevFrame)
            BY <1>1, <1>2, ExchangesWrite DEF LinkInv, ExchangeInv
      <2>2. <<>> \in Seq(AppFrame)
            BY EmptySeq
      <2>3. Thin(<<>>, air) /\ Thin(Append(pipe, f), Append(pipe, f))
            BY <1>1, <2>1, ThinNone, ThinSame
      <2>4. Exchanges(Append(pipe, f), <<>>, fresh)
            BY <1>1, <2>1, <2>2, <2>3, ExchangesThin
      <2> QED BY <1>3, <2>4 DEF ExchangeInv, Connect, serverVars
<1>5. RequestInv' /\ ResponseInv' /\ OpenInv'
      BY <1>3 DEF RequestInv, ResponseInv, OpenInv
<1>6. PipeInv'
      BY <1>2, <1>3, PipeWrite DEF Connect, serverVars, faultVars
<1>7. SessionInv' /\ NothingGarbled'
      BY DEF LinkInv, SessionInv, NothingGarbled, Connect, serverVars, faultVars
<1> QED BY <1>4, <1>5, <1>6, <1>7 DEF LinkInv
\* A frame goes from the head of one queue to the end of the queue before it.
LEMMA MovedOn ==
    ASSUME NEW S, NEW p \in Seq(S), NEW q \in Seq(S), q # <<>>
    PROVE  Append(p, Head(q)) \o Tail(q) = p \o q
<1>1. Head(q) \in S /\ Tail(q) \in Seq(S) /\ Append(p, Head(q)) \in Seq(S)
      OBVIOUS
<1>2. Append(p, Head(q)) \o Tail(q) \in Seq(S) /\ p \o q \in Seq(S)
      BY <1>1
<1>3. Len(Append(p, Head(q)) \o Tail(q)) = Len(p \o q)
      BY <1>1
<1>4. \A i \in 1..Len(p \o q) : (Append(p, Head(q)) \o Tail(q))[i] = (p \o q)[i]
      BY <1>1
<1> QED BY <1>2, <1>3, <1>4, SeqEqual

\* A frame moves and nothing else does.
LEMMA NothingMoves ==
    ASSUME LinkInv, LinkTypeOK', UNCHANGED <<air, pipe>>, UNCHANGED <<cpc, attempt, nonce, ckey, crx, ctx>>,
           UNCHANGED <<spc, fresh, skey, srx, stx, sdone>>, UNCHANGED <<upset, garbled>>
    PROVE  LinkInv'
<1>1. SessionInv' /\ ExchangeInv' /\ RequestInv'
      BY DEF LinkInv, SessionInv, ExchangeInv, RequestInv
<1>2. ResponseInv'
      BY DEF LinkInv, ResponseInv, MockReady, InStep
<1>3. OpenInv'
      BY DEF LinkInv, OpenInv, MockReady, InStep
<1>4. PipeInv' /\ NothingGarbled'
      BY PipeKept DEF LinkInv, NothingGarbled
<1> QED BY <1>1, <1>2, <1>3, <1>4 DEF LinkInv

\* What the bridge receives.
LEMMA StepFeedAtt == ASSUME LinkInv, LinkTypeOK', FeedAttBytes PROVE LinkInv'
<1>1. /\ LinkTypeOK /\ pipe \in Seq(DevFrame) /\ air \in Seq(AppFrame) /\ fresh \in Nat
      /\ cq \in Seq(AppFrame) /\ toApp \in Seq(AppFrame) /\ toApp # <<>>
      BY Places DEF LinkInv, LinkTypeOK, MockTypeOK, FeedAttBytes
<1>2. pipe' = pipe
      BY DEF FeedAttBytes, serverVars, pipe
<1>3. CASE cpc # "open"
      <2>1. air' = air
            BY <1>1, <1>3, MovedOn DEF FeedAttBytes, air
      <2>2. UNCHANGED <<crx, garbled>>
            BY <1>3 DEF FeedAttBytes
      <2> QED BY <1>2, <2>1, <2>2, NothingMoves DEF FeedAttBytes, serverVars, faultVars
<1>4. CASE cpc = "open"
      <2> DEFINE q == Append(cq, Head(toApp))
      <2>1. /\ cq' = <<>> /\ toApp' = Tail(toApp) /\ crx' = crx + DataIn(q, Len(q))
            /\ garbled' = IF \A i \in 1..Len(q) : IsData(q[i]) => Decrypts(q, i)
                          THEN garbled ELSE garbled \cup {attempt}
            BY <1>4 DEF FeedAttBytes, Drained
      <2>2. /\ Head(toApp) \in AppFrame /\ Tail(toApp) \in Seq(AppFrame)
            /\ Len(Tail(toApp)) = Len(toApp) - 1 /\ Len(toApp) \in Nat /\ Len(cq) \in Nat
            BY <1>1
      <2>3. air' = Tail(toApp)
            BY <2>1, <2>2 DEF air
      <2>4. q \in Seq(AppFrame) /\ Len(q) = Len(cq) + 1
            BY <1>1, <2>2
      <2>5. \A i \in 1..Len(q) : q[i] = air[i]
            <3>1. q \o Tail(toApp) = air
                  BY <1>1, MovedOn DEF air
            <3>2. \A i \in 1..Len(q) : (q \o Tail(toApp))[i] = q[i]
                  BY <2>2, <2>4
            <3> QED BY <3>1, <3>2
      <2>6. /\ Len(q) \in 0..Len(air) /\ Dropped(air', air, Len(q))
            <3>1. air = cq \o toApp /\ Len(air) = Len(cq) + Len(toApp)
                  BY <1>1 DEF air
            <3>2. \A j \in 1..Len(Tail(toApp)) : Tail(toApp)[j] = air[Len(cq) + 1 + j]
                  BY <1>1, <2>2, <3>1
            <3>3. Len(toApp) >= 1
                  BY <1>1
            <3> QED BY <2>2, <2>3, <2>4, <3>1, <3>2, <3>3 DEF Dropped
      <2> HIDE DEF q
      <2>7. DataIn(q, Len(q)) = DataIn(air, Len(q)) /\ Len(q) \in Nat
            BY <2>2, <2>4, <2>5, DataInSame
      <2>8. /\ ckey[1] = attempt /\ crx \in Nat
            /\ OneKey(air, 0, ckey)
            /\ attempt \notin upset => NoGap(air, 0, crx) /\ (sdone => stx = Behind(air, 0, crx))
            BY <1>1, <1>4 DEF LinkInv, OpenInv, InStep, LinkTypeOK, BridgeTypeOK
      <2>9. /\ OneKey(air', 0, ckey)
            /\ NoGap(air, 0, crx) => NoGap(air', 0, crx')
            /\ Behind(air', 0, crx') = Behind(air, 0, crx)
            <3>1. air' \in Seq(AppFrame) /\ crx' = crx + DataIn(air, Len(q))
                  BY <2>1, <2>2, <2>3, <2>7 DEF q
            <3>2. /\ OneKey(air', 0, ckey)
                  /\ NoGap(air, 0, crx) => NoGap(air', 0, crx + DataIn(air, Len(q)))
                  /\ Behind(air', 0, crx + DataIn(air, Len(q))) = Behind(air, 0, crx)
                  BY <1>1, <2>6, <2>8, <3>1, StepDropped
            <3> QED BY <3>1, <3>2
      <2>10. OpenInv'
            <3>1. /\ UNCHANGED <<cpc, attempt, ckey, ctx>>
                  /\ UNCHANGED <<spc, skey, srx, stx, sdone>> /\ UNCHANGED upset
                  BY DEF FeedAttBytes, serverVars, faultVars
            <3>2. InStep(0, ckey, crx)'
                  BY <2>8, <2>9, <3>1 DEF InStep
            <3>3. MockReady(ckey)'
                  BY <1>4, <3>1 DEF LinkInv, OpenInv, MockReady
            <3>4. /\ \A i \in 1..Len(pipe') : IsData(pipe'[i]) /\ pipe'[i].key = ckey'
                  /\ spc' = "loop" /\ attempt' \notin upset' => ctx' = srx' + Len(pipe')
                  BY <1>2, <1>4, <3>1 DEF LinkInv, OpenInv
            <3> QED BY <2>8, <3>1, <3>2, <3>3, <3>4 DEF OpenInv
      <2>11. NothingGarbled'
            <3>1. CASE attempt \in upset
                  BY <2>1, <3>1 DEF LinkInv, NothingGarbled, FeedAttBytes, faultVars
            <3>2. CASE attempt \notin upset
                  <4>1. ASSUME NEW i \in 1..Len(q), IsData(q[i]) PROVE Decrypts(q, i)
                        <5>1. q[i] = air[i] /\ i \in (0 + 1)..Len(air) /\ i - 1 \in Nat
                              BY <2>5, <2>6
                        <5>2. /\ air[i].key = ckey
                              /\ air[i].pos = crx + DataIn(air, i - 1) - DataIn(air, 0)
                              BY <2>8, <3>2, <4>1, <5>1 DEF OneKey, NoGap
                        <5>3. DataIn(q, i - 1) = DataIn(air, i - 1)
                              <6>1. \A j \in 1..(i - 1) : q[j] = air[j]
                                    BY <2>5, <2>7
                              <6> QED BY <5>1, <6>1, DataInSame
                        <5>4. DataIn(air, 0) = 0 /\ DataIn(air, i - 1) \in Nat
                              BY <5>1, DataInNone, DataInType
                        <5> QED BY <2>8, <5>1, <5>2, <5>3, <5>4 DEF Decrypts
                  <4> QED BY <2>1, <4>1 DEF LinkInv, NothingGarbled, FeedAttBytes, faultVars
            <3> QED BY <3>1, <3>2
      <2>12. ExchangeInv'
            <3>1. Thin(<<>>, cq) /\ Thin(Tail(toApp), toApp) /\ <<>> \in Seq(AppFrame)
                  BY <1>1, ThinNone, ThinTail, EmptySeq
            <3>2. Thin(<<>> \o Tail(toApp), cq \o toApp)
                  BY <1>1, <2>2, <3>1, ThinConcat
            <3>3. <<>> \o Tail(toApp) = Tail(toApp)
                  BY <2>2
            <3>4. Thin(air', air) /\ Thin(pipe, pipe)
                  BY <1>1, <2>3, <3>2, <3>3, ThinSame DEF air
            <3>5. Exchanges(pipe, air', fresh)
                  BY <1>1, <2>2, <2>3, <3>4, ExchangesThin DEF LinkInv, ExchangeInv
            <3> QED BY <1>2, <3>5 DEF ExchangeInv, FeedAttBytes, serverVars
      <2>13. SessionInv' /\ RequestInv' /\ ResponseInv'
            BY <1>4 DEF LinkInv, SessionInv, RequestInv, ResponseInv, FeedAttBytes, serverVars
      <2>14. PipeInv'
            BY <1>2, PipeKept DEF FeedAttBytes, serverVars, faultVars
      <2> QED BY <2>10, <2>11, <2>12, <2>13, <2>14 DEF LinkInv
<1> QED BY <1>3, <1>4
\* perform_handshake takes a frame it does not wait for.
LEMMA HandshakeOther ==
    ASSUME LinkInv, LinkTypeOK', HandshakeStep, ~Expected(Head(cq)), air' = Tail(air), air # <<>>,
           Head(air) = Head(cq)
    PROVE  ExchangeInv' /\ RequestInv' /\ ResponseInv' /\ OpenInv' /\ PipeInv'
<1>1. LinkTypeOK /\ pipe \in Seq(DevFrame) /\ air \in Seq(AppFrame) /\ fresh \in Nat
      BY Places DEF LinkInv, LinkTypeOK, MockTypeOK
<1>2. /\ UNCHANGED <<cpc, nonce, ckey, crx, ctx, toDev, attempt>> /\ UNCHANGED upset
      /\ UNCHANGED <<spc, fresh, skey, srx, stx, sq, sdone>> /\ cpc \in Waits
      BY DEF HandshakeStep, serverVars, faultVars
<1>3. pipe' = pipe
      BY <1>2 DEF pipe
<1>4. ExchangeInv'
      <2>1. Thin(air', air) /\ Thin(pipe, pipe) /\ air' \in Seq(AppFrame)
            BY <1>1, ThinTail, ThinSame
      <2>2. Exchanges(pipe, air', fresh)
            BY <1>1, <2>1, ExchangesThin DEF LinkInv, ExchangeInv
      <2> QED BY <1>2, <1>3, <2>2 DEF ExchangeInv
<1>5. RequestInv' /\ OpenInv' /\ PipeInv'
      BY <1>2, <1>3, PipeKept DEF LinkInv, RequestInv, OpenInv, Waits
<1>6. ASSUME cpc = "ke", NEW k \in 1..Len(air'), air'[k].t = "KE_RESP", air'[k].mac = nonce
      PROVE  /\ pipe = <<>>
             /\ MockReady(<<attempt, nonce>>) /\ (spc = "loop" => srx = 0)
             /\ OneKey(air', k, <<attempt, nonce>>)
             /\ attempt \notin upset => NoGap(air', k, 0) /\ (sdone => stx = Behind(air', k, 0))
      <2>1. /\ k + 1 \in 1..Len(air) /\ air[k + 1] = air'[k] /\ 1 \in 1..(k + 1)
            /\ Removed(air', air, 1) /\ air' \in Seq(AppFrame) /\ (k + 1) - 1 = k
            BY <1>1 DEF Removed
      <2>2. /\ pipe = <<>> /\ MockReady(<<attempt, nonce>>) /\ (spc = "loop" => srx = 0)
            /\ InStep(k + 1, <<attempt, nonce>>, 0)
            BY <1>6, <2>1 DEF LinkInv, ResponseInv
      <2>3. ~IsData(air[k + 1])
            BY <1>6, <2>1 DEF IsData
      <2>4. /\ OneKey(air', (k + 1) - 1, <<attempt, nonce>>)
            /\ NoGap(air, k + 1, 0) => NoGap(air', (k + 1) - 1, 0)
            /\ Behind(air', (k + 1) - 1, 0) = Behind(air, k + 1, 0)
            <3>1. OneKey(air, k + 1, <<attempt, nonce>>) /\ 0 \in Nat
                  BY <2>2 DEF InStep
            <3> QED BY <1>1, <2>1, <2>3, <3>1, StepRemoved, Zenon
      <2> QED BY <2>1, <2>2, <2>4 DEF InStep
<1>7. ResponseInv'
      BY <1>2, <1>3, <1>6 DEF ResponseInv, MockReady, InStep
<1> QED BY <1>4, <1>5, <1>7

\* perform_handshake sends the version request or the EP request.
LEMMA HandshakeAsk ==
    ASSUME LinkInv, LinkTypeOK', HandshakeStep, cpc' \in {"version", "ep"},
           air' = Tail(air), air # <<>>, NEW f \in DevFrame, ~IsData(f), f.t # "KE_REQ",
           pipe' = Append(pipe, f)
    PROVE  ExchangeInv' /\ RequestInv' /\ ResponseInv' /\ OpenInv' /\ PipeInv'
<1>1. LinkTypeOK /\ pipe \in Seq(DevFrame) /\ air \in Seq(AppFrame) /\ fresh \in Nat
      BY Places DEF LinkInv, LinkTypeOK, MockTypeOK
<1>2. UNCHANGED upset /\ UNCHANGED <<spc, fresh, skey, srx>>
      BY DEF HandshakeStep, serverVars, faultVars
<1>3. ExchangeInv'
      <2>1. Exchanges(Append(pipe, f), air, fresh) /\ Append(pipe, f) \in Seq(DevFrame)
            BY <1>1, ExchangesWrite DEF LinkInv, ExchangeInv
      <2>2. Thin(air', air) /\ air' \in Seq(AppFrame)
            BY <1>1, ThinTail
      <2>3. Thin(Append(pipe, f), Append(pipe, f))
            BY <2>1, ThinSame
      <2>4. Exchanges(Append(pipe, f), air', fresh)
            BY <1>1, <2>1, <2>2, <2>3, ExchangesThin
      <2> QED BY <1>2, <2>4 DEF ExchangeInv
<1>4. RequestInv' /\ ResponseInv' /\ OpenInv'
      BY DEF RequestInv, ResponseInv, OpenInv
<1>5. PipeInv'
      BY <1>2, PipeWrite
<1> QED BY <1>3, <1>4, <1>5

\* perform_handshake takes the EP response and sends the KE request.
LEMMA HandshakeRequest ==
    ASSUME LinkInv, LinkTypeOK', HandshakeStep, cpc' = "ke", UNCHANGED attempt,
           air' = Tail(air), air # <<>>, Head(air).t = "EP_RESP", nonce' = Head(air).nonce,
           NEW f \in DevFrame, f.t = "KE_REQ", f.pub = attempt, f.mac = nonce',
           pipe' = Append(pipe, f)
    PROVE  ExchangeInv' /\ RequestInv' /\ ResponseInv' /\ OpenInv' /\ PipeInv'
<1>1. LinkTypeOK /\ pipe \in Seq(DevFrame) /\ air \in Seq(AppFrame) /\ fresh \in Nat
      BY Places DEF LinkInv, LinkTypeOK, MockTypeOK
<1>2. UNCHANGED upset /\ UNCHANGED <<spc, fresh, skey, srx>>
      BY DEF HandshakeStep, serverVars, faultVars
<1>3. ExchangeInv'
      <2>1. Exchanges(Append(pipe, f), Tail(air), fresh)
            BY <1>1, ExchangesRequest DEF LinkInv, ExchangeInv
      <2> QED BY <1>2, <2>1 DEF ExchangeInv
<1>4. 1 \in 1..Len(air) /\ Head(air) = air[1]
      BY <1>1
<1>5. RequestInv'
      <2>1. \A i \in 1..Len(pipe) : pipe[i].t = "KE_REQ" => pipe[i].mac # nonce'
            BY <1>4 DEF LinkInv, ExchangeInv, Exchanges
      <2>2. /\ Len(pipe') = Len(pipe) + 1 /\ pipe'[Len(pipe) + 1] = f
            /\ \A i \in 1..Len(pipe) : pipe'[i] = pipe[i]
            /\ Len(pipe) \in Nat
            BY <1>1, Grown
      <2>3. \A i \in 1..Len(pipe') : pipe'[i].t = "KE_REQ" /\ pipe'[i].mac = nonce' => i = Len(pipe')
            BY <2>1, <2>2
      <2>4. RequestLast(pipe', nonce', attempt)
            BY <2>2, <2>3 DEF RequestLast
      <2> QED BY <2>4 DEF RequestInv
<1>6. ResponseInv'
      <2>1. \A i \in 1..Len(air) : air[i].t = "KE_RESP" => air[i].mac # nonce'
            BY <1>4 DEF LinkInv, ExchangeInv, Exchanges
      <2>2. \A k \in 1..Len(air') : k + 1 \in 1..Len(air) /\ air'[k] = air[k + 1]
            BY <1>1
      <2>3. \A k \in 1..Len(air') : air'[k].t = "KE_RESP" => air'[k].mac # nonce'
            BY <2>1, <2>2
      <2> QED BY <2>3 DEF ResponseInv
<1>7. OpenInv'
      BY DEF OpenInv
<1>8. ~IsData(f)
      BY DEF IsData
<1>9. PipeInv'
      BY <1>2, <1>8, PipeWrite
<1> QED BY <1>3, <1>5, <1>6, <1>7, <1>9

\* perform_handshake takes the KE response and makes its ciphers.
LEMMA HandshakeKey ==
    ASSUME LinkInv, LinkTypeOK', HandshakeStep, cpc = "ke", cpc' = "rr", UNCHANGED attempt,
           air' = Tail(air), air # <<>>, Head(air).t = "KE_RESP", Head(air).mac = nonce,
           ckey' = <<attempt, Head(air).pub>>, crx' = 0, ctx' = 0, pipe' = pipe
    PROVE  ExchangeInv' /\ RequestInv' /\ ResponseInv' /\ OpenInv' /\ PipeInv'
<1>1. LinkTypeOK /\ pipe \in Seq(DevFrame) /\ air \in Seq(AppFrame) /\ fresh \in Nat
      BY Places DEF LinkInv, LinkTypeOK, MockTypeOK
<1>2. UNCHANGED upset /\ UNCHANGED <<spc, fresh, skey, srx, stx, sdone>>
      BY DEF HandshakeStep, serverVars, faultVars
<1>3. ExchangeInv'
      <2>1. Thin(air', air) /\ Thin(pipe, pipe) /\ air' \in Seq(AppFrame)
            BY <1>1, ThinTail, ThinSame
      <2>2. Exchanges(pipe, air', fresh)
            BY <1>1, <2>1, ExchangesThin DEF LinkInv, ExchangeInv
      <2> QED BY <1>2, <2>2 DEF ExchangeInv
<1>4. RequestInv' /\ ResponseInv' /\ PipeInv'
      BY <1>2, PipeKept DEF RequestInv, ResponseInv
<1>5. /\ 1 \in 1..Len(air) /\ Head(air) = air[1] /\ Removed(air', air, 1) /\ air' \in Seq(AppFrame)
      /\ ~IsData(air[1])
      BY <1>1 DEF Removed, IsData
<1>6. ckey' = <<attempt, nonce>>
      BY <1>5 DEF LinkInv, ExchangeInv, Exchanges
<1>7. /\ pipe = <<>> /\ MockReady(<<attempt, nonce>>) /\ (spc = "loop" => srx = 0)
      /\ InStep(1, <<attempt, nonce>>, 0)
      BY <1>5 DEF LinkInv, ResponseInv
<1>8. /\ OneKey(air', 1 - 1, <<attempt, nonce>>)
      /\ NoGap(air, 1, 0) => NoGap(air', 1 - 1, 0)
      /\ Behind(air', 1 - 1, 0) = Behind(air, 1, 0)
      <2>1. OneKey(air, 1, <<attempt, nonce>>) /\ 0 \in Nat /\ 1 \in 1..1
            BY <1>7 DEF InStep
      <2> QED BY <1>1, <1>5, <2>1, StepRemoved, Zenon
<1>9. 1 - 1 = 0
      OBVIOUS
<1>10. InStep(0, ckey, crx)'
      BY <1>2, <1>6, <1>7, <1>8, <1>9 DEF InStep
<1>11. MockReady(ckey)' /\ ckey'[1] = attempt'
      BY <1>2, <1>6, <1>7 DEF MockReady
<1>12. /\ \A i \in 1..Len(pipe') : IsData(pipe'[i]) /\ pipe'[i].key = ckey'
       /\ spc' = "loop" /\ attempt' \notin upset' => ctx' = srx' + Len(pipe')
      <2>1. Len(pipe') = 0
            BY <1>7
      <2>2. spc' = "loop" => srx' = 0
            BY <1>2, <1>7
      <2> QED BY <2>1, <2>2
<1>13. OpenInv'
      BY <1>10, <1>11, <1>12 DEF OpenInv
<1> QED BY <1>3, <1>4, <1>13

\* A frame is taken by perform_handshake.
LEMMA StepHandshake == ASSUME LinkInv, LinkTypeOK', HandshakeStep PROVE LinkInv'
<1> DEFINE f == Head(cq)
<1>1. /\ LinkTypeOK /\ cq \in Seq(AppFrame) /\ cq # <<>> /\ f \in AppFrame
      /\ air # <<>> /\ Head(air) = f /\ Tail(air) = Tail(cq) \o toApp
      <2>1. LinkTypeOK /\ cq # <<>>
            BY DEF LinkInv, HandshakeStep
      <2>2. /\ cq \in Seq(AppFrame) /\ air # <<>> /\ Head(air) = f
            /\ Tail(air) = Tail(cq) \o toApp
            BY <2>1, Places
      <2> QED BY <2>1, <2>2
<1> HIDE DEF f
<1>2. /\ cq' = Tail(cq) /\ UNCHANGED attempt /\ UNCHANGED <<spc, fresh, skey, srx, stx, sq, sdone>>
      /\ UNCHANGED <<upset, garbled>>
      BY DEF HandshakeStep, serverVars, faultVars
<1>3. SessionInv' /\ NothingGarbled'
      BY <1>2 DEF LinkInv, SessionInv, NothingGarbled
<1>4. UNCHANGED toApp => air' = Tail(air)
      BY <1>1, <1>2 DEF air
<1>5. UNCHANGED toDev => pipe' = pipe
      BY <1>2 DEF pipe
<1>6. CASE ~Expected(f)
      <2>1. UNCHANGED toApp
            BY <1>6 DEF HandshakeStep, f
      <2>2. ExchangeInv' /\ RequestInv' /\ ResponseInv' /\ OpenInv' /\ PipeInv'
            BY <1>1, <1>4, <1>6, <2>1, HandshakeOther DEF f
      <2> QED BY <1>3, <2>2 DEF LinkInv
<1>7. CASE Expected(f) /\ cpc \in {"ua", "version"}
      <2>1. PICK g \in {U("VERSION_REQ"), U("EP_REQ")} :
              toDev' = Append(toDev, g) /\ UNCHANGED toApp /\ cpc' \in {"version", "ep"}
            BY <1>7 DEF HandshakeStep, f, Write
      <2>2. g \in DevFrame /\ ~IsData(g) /\ g.t # "KE_REQ"
            BY Frames
      <2>3. pipe' = Append(pipe, g)
            BY <1>1, <1>2, <2>1, <2>2, WrittenOut
      <2>4. ExchangeInv' /\ RequestInv' /\ ResponseInv' /\ OpenInv' /\ PipeInv'
            BY <1>1, <1>4, <2>1, <2>2, <2>3, HandshakeAsk
      <2> QED BY <1>3, <2>4 DEF LinkInv
<1>8. CASE Expected(f) /\ cpc = "ep"
      <2> DEFINE g == [t |-> "KE_REQ", pub |-> attempt, mac |-> f.nonce]
      <2>1. toDev' = Append(toDev, g) /\ UNCHANGED toApp /\ cpc' = "ke" /\ nonce' = f.nonce
            BY <1>8 DEF HandshakeStep, f, Write
      <2>2. f.t = "EP_RESP" /\ f.nonce \in Nat
            BY <1>1, <1>8, Contents DEF Expected
      <2>3. g \in DevFrame /\ g.t = "KE_REQ" /\ g.pub = attempt /\ g.mac = f.nonce
            BY <1>1, <2>2, Frames DEF LinkTypeOK, BridgeTypeOK
      <2> HIDE DEF g
      <2>4. pipe' = Append(pipe, g)
            BY <1>1, <1>2, <2>1, <2>3, WrittenOut
      <2>5. ExchangeInv' /\ RequestInv' /\ ResponseInv' /\ OpenInv' /\ PipeInv'
            BY <1>1, <1>2, <1>4, <2>1, <2>2, <2>3, <2>4, HandshakeRequest
      <2> QED BY <1>3, <2>5 DEF LinkInv
<1>9. CASE Expected(f) /\ cpc = "ke" /\ ~Hangup
      <2>1. /\ f.t = "KE_RESP" /\ f.mac = nonce /\ ckey' = <<attempt, f.pub>> /\ crx' = 0
            /\ ctx' = 0 /\ cpc' = "rr" /\ UNCHANGED <<toDev, toApp>>
            BY <1>9 DEF HandshakeStep, Expected, f
      <2>2. ExchangeInv' /\ RequestInv' /\ ResponseInv' /\ OpenInv' /\ PipeInv'
            BY <1>1, <1>2, <1>4, <1>5, <1>9, <2>1, HandshakeKey
      <2> QED BY <1>3, <2>2 DEF LinkInv
<1>10. CASE Hangup
      <2>1. cq' \in Seq(AppFrame) /\ Thin(cq', cq)
            BY <1>1, <1>2, ThinTail
      <2>2. ExchangeInv' /\ RequestInv' /\ ResponseInv' /\ OpenInv' /\ PipeInv'
            BY <1>2, <1>10, <2>1, Downed
      <2> QED BY <1>3, <2>2 DEF LinkInv
<1> QED BY <1>6, <1>7, <1>8, <1>9, <1>10 DEF HandshakeStep, Waits
\* The bridge's side of the handshake is done.
LEMMA StepDone == ASSUME LinkInv, LinkTypeOK', HandshakeDone PROVE LinkInv'
<1>1. /\ cpc = "rr" /\ cpc' = "open" /\ UNCHANGED <<attempt, nonce, ckey, crx, ctx, cq>>
      /\ UNCHANGED <<spc, fresh, skey, srx, stx, sq, sdone>> /\ UNCHANGED <<toDev, toApp>>
      /\ UNCHANGED <<upset, garbled>>
      BY DEF HandshakeDone, serverVars, airVars, faultVars
<1>2. UNCHANGED <<pipe, air>>
      BY <1>1 DEF pipe, air
<1>3. SessionInv' /\ ExchangeInv' /\ NothingGarbled' /\ RequestInv' /\ ResponseInv'
      BY <1>1, <1>2
      DEF LinkInv, SessionInv, ExchangeInv, NothingGarbled, RequestInv, ResponseInv
<1>4. PipeInv'
      BY <1>1, <1>2, PipeKept
<1>5. OpenInv'
      BY <1>1, <1>2 DEF LinkInv, OpenInv, MockReady, InStep
<1> QED BY <1>3, <1>4, <1>5 DEF LinkInv

\* The bridge sends a request.
LEMMA StepWrap ==
    ASSUME LinkInv, LinkTypeOK', NEW kind \in Kinds, WrapForSend(kind) PROVE LinkInv'
<1>1. /\ LinkTypeOK /\ pipe \in Seq(DevFrame) /\ air \in Seq(AppFrame) /\ fresh \in Nat
      /\ ctx \in Nat /\ ckey \in Key /\ srx \in Nat
      BY Places DEF LinkInv, LinkTypeOK, MockTypeOK, BridgeTypeOK
<1>2. /\ cpc = "open" /\ UNCHANGED <<cpc, attempt, nonce, ckey, crx, cq>> /\ ctx' = ctx + 1
      /\ UNCHANGED <<spc, fresh, skey, srx, stx, sq, sdone>> /\ UNCHANGED toApp
      /\ UNCHANGED <<upset, garbled>>
      BY DEF WrapForSend, serverVars, faultVars
<1> DEFINE f == Data(ckey, ctx, kind)
<1>3. f \in DevFrame /\ IsData(f) /\ f.t # "KE_REQ" /\ f.key = ckey /\ f.pos = ctx
      <2>1. kind \in Body
            BY DEF Body
      <2> QED BY <1>1, <2>1, Frames DEF Data, IsData
<1>4. toDev' = Append(toDev, f)
      BY DEF WrapForSend, Write
<1> HIDE DEF f
<1>5. pipe' = Append(pipe, f) /\ air' = air
      BY <1>1, <1>2, <1>3, <1>4, WrittenOut DEF air
<1>6. /\ Len(pipe') = Len(pipe) + 1 /\ pipe'[Len(pipe) + 1] = f /\ Len(pipe) \in Nat
      /\ \A i \in 1..Len(pipe) : pipe'[i] = pipe[i]
      BY <1>1, <1>3, <1>5, Grown
<1>7. /\ ckey[1] = attempt
      /\ \A i \in 1..Len(pipe) : IsData(pipe[i]) /\ pipe[i].key = ckey
      /\ MockReady(ckey)
      /\ spc = "loop" /\ attempt \notin upset => ctx = srx + Len(pipe)
      /\ InStep(0, ckey, crx)
      BY <1>2 DEF LinkInv, OpenInv
<1>8. \A i \in 1..Len(pipe') : IsData(pipe'[i]) /\ pipe'[i].key = ckey
      BY <1>3, <1>6, <1>7
<1>9. SessionInv' /\ NothingGarbled' /\ RequestInv' /\ ResponseInv'
      BY <1>2 DEF LinkInv, SessionInv, NothingGarbled, RequestInv, ResponseInv
<1>10. ExchangeInv'
      <2>1. Exchanges(Append(pipe, f), air, fresh)
            BY <1>1, <1>3, ExchangesWrite DEF LinkInv, ExchangeInv
      <2> QED BY <1>2, <1>5, <2>1 DEF ExchangeInv
<1>11. OpenInv'
      <2>1. InStep(0, ckey, crx)' /\ MockReady(ckey)'
            BY <1>2, <1>5, <1>7 DEF InStep, MockReady
      <2>2. spc' = "loop" /\ attempt' \notin upset' => ctx' = srx' + Len(pipe')
            BY <1>1, <1>2, <1>6, <1>7
      <2> QED BY <1>2, <1>7, <1>8, <2>1, <2>2 DEF OpenInv
<1>12. PipeInv'
      <2>1. DataFirst(pipe')
            BY <1>8 DEF DataFirst
      <2>2. ASSUME spc = "loop", NEW i \in 1..Len(pipe')
            PROVE  \/ pipe'[i].key = skey /\ pipe'[i].pos = srx + i - 1
                   \/ pipe'[i].key[1] \in upset
            <3>1. CASE i \in 1..Len(pipe)
                  BY <1>6, <1>7, <2>2, <3>1 DEF LinkInv, PipeInv
            <3>2. CASE i = Len(pipe) + 1 /\ attempt \notin upset
                  <4>1. skey = ckey
                        BY <1>7, <2>2 DEF LinkInv, SessionInv, MockReady
                  <4>2. pipe'[i].key = skey /\ pipe'[i].pos = ctx
                        BY <1>3, <1>6, <3>2, <4>1
                  <4> QED BY <1>1, <1>6, <1>7, <2>2, <3>2, <4>2
            <3>3. CASE attempt \in upset
                  BY <1>7, <1>8, <3>3
            <3> QED BY <1>6, <3>1, <3>2, <3>3
      <2> QED BY <1>2, <2>1, <2>2 DEF PipeInv
<1> QED BY <1>9, <1>10, <1>11, <1>12 DEF LinkInv

\* The bridge hangs up.
LEMMA StepDisconnect == ASSUME LinkInv, LinkTypeOK', Disconnect PROVE LinkInv'
<1>1. /\ Hangup /\ UNCHANGED cq /\ UNCHANGED <<spc, fresh, skey, srx, sq, sdone>>
      /\ UNCHANGED <<upset, garbled>>
      BY DEF Disconnect, serverVars, faultVars
<1>2. cq' \in Seq(AppFrame) /\ Thin(cq', cq)
      <2>1. cq \in Seq(AppFrame)
            BY Places DEF LinkInv
      <2> QED BY <1>1, <2>1, ThinSame
<1>3. ExchangeInv' /\ RequestInv' /\ ResponseInv' /\ OpenInv' /\ PipeInv'
      BY <1>1, <1>2, Downed
<1>4. SessionInv' /\ NothingGarbled'
      BY <1>1 DEF LinkInv, SessionInv, NothingGarbled
<1> QED BY <1>3, <1>4 DEF LinkInv
-----------------------------------------------------------------------------
\* The steps of the mock.

\* The mock sends no name of an exchange.
LEMMA ExchangeKept ==
    ASSUME LinkInv, Thin(pipe', pipe), pipe' \in Seq(DevFrame), UNCHANGED fresh,
           air' = air \/ \E f \in AppFrame : f.t \notin {"EP_RESP", "KE_RESP"} /\ air' = Append(air, f)
    PROVE  ExchangeInv'
<1>1. LinkTypeOK /\ pipe \in Seq(DevFrame) /\ air \in Seq(AppFrame) /\ fresh \in Nat
      BY Places DEF LinkInv, LinkTypeOK, MockTypeOK
<1>2. Exchanges(pipe', air, fresh)
      <2>1. Thin(air, air)
            BY <1>1, ThinSame
      <2> QED BY <1>1, <2>1, ExchangesThin DEF LinkInv, ExchangeInv
<1>3. Exchanges(pipe', air', fresh)
      BY <1>1, <1>2, ExchangesEmit
<1> QED BY <1>3 DEF ExchangeInv

\* The mock reads the frame at the head of its queue, or drops the whole queue.
LEMMA Taken ==
    ASSUME LinkTypeOK, sq # <<>>, UNCHANGED toDev, sq' \in {Tail(sq), <<>>}
    PROVE  /\ pipe # <<>> /\ Head(pipe) = Head(sq) /\ Head(sq) \in DevFrame
           /\ Thin(pipe', pipe) /\ pipe' \in Seq(DevFrame)
           /\ sq' = Tail(sq) => pipe' = Tail(pipe)
<1>1. /\ sq \in Seq(DevFrame) /\ toDev \in Seq(DevFrame) /\ pipe # <<>> /\ Head(pipe) = Head(sq)
      /\ Tail(pipe) = Tail(sq) \o toDev
      BY Places
<1>2. Head(sq) \in DevFrame /\ Tail(sq) \in Seq(DevFrame) /\ <<>> \in Seq(DevFrame)
      BY <1>1, EmptySeq
<1>3. Thin(sq', sq) /\ Thin(toDev, toDev) /\ sq' \in Seq(DevFrame)
      BY <1>1, <1>2, ThinTail, ThinNone, ThinSame
<1>4. Thin(sq' \o toDev, sq \o toDev)
      BY <1>1, <1>3, ThinConcat
<1>5. sq' \o toDev \in Seq(DevFrame)
      BY <1>1, <1>3
<1> QED BY <1>1, <1>2, <1>4, <1>5 DEF pipe

\* The write handler.
LEMMA StepFeed == ASSUME LinkInv, LinkTypeOK', Feed PROVE LinkInv'
<1>1. /\ LinkTypeOK /\ sq \in Seq(DevFrame) /\ toDev \in Seq(DevFrame)
      /\ Len(pipe) = Len(sq) + Len(toDev)
      BY Places DEF LinkInv
<1>2. /\ toDev # <<>> /\ toDev' = Tail(toDev) /\ UNCHANGED clientVars
      /\ UNCHANGED <<spc, fresh, skey, srx, stx, sdone>> /\ UNCHANGED <<up, toApp>>
      /\ UNCHANGED <<upset, garbled>>
      BY DEF Feed, faultVars
<1>3. air' = air
      BY <1>2 DEF clientVars, air
<1>4. CASE sq' = Append(sq, Head(toDev))
      <2>1. pipe' = pipe
            BY <1>1, <1>2, <1>4, MovedOn DEF pipe
      <2> QED BY <1>2, <1>3, <2>1, NothingMoves DEF clientVars
<1>5. CASE sq' = sq /\ spc = "over"
      <2>1. Thin(sq, sq) /\ Thin(Tail(toDev), toDev) /\ Tail(toDev) \in Seq(DevFrame)
            BY <1>1, <1>2, ThinSame, ThinTail
      <2>2. Thin(sq \o Tail(toDev), sq \o toDev)
            BY <1>1, <2>1, ThinConcat
      <2>3. sq \o Tail(toDev) \in Seq(DevFrame)
            BY <1>1, <2>1
      <2>4. Thin(pipe', pipe) /\ pipe' \in Seq(DevFrame)
            BY <1>2, <1>5, <2>2, <2>3 DEF pipe
      <2>5. pipe # <<>>
            BY <1>1, <1>2
      <2>6. Sends /\ MockTypeOK'
            BY <1>2, <1>3 DEF Sends, Silent, SameCiphers, LinkTypeOK
      <2>7. RequestInv' /\ ResponseInv' /\ OpenInv' /\ DataFirst(pipe')
            BY <1>2, <1>5, <2>4, <2>5, <2>6, MockKeeps
      <2>8. ExchangeInv'
            BY <1>2, <1>3, <2>4, ExchangeKept
      <2>9. SessionInv' /\ NothingGarbled'
            BY <1>2 DEF LinkInv, SessionInv, NothingGarbled
      <2> QED BY <1>2, <1>5, <2>7, <2>8, <2>9 DEF LinkInv, PipeInv
<1> QED BY <1>4, <1>5 DEF Feed

\* The mock takes a frame of the handshake that finishes no exchange.
LEMMA ServerOther ==
    ASSUME LinkInv, LinkTypeOK', ServerHandshake, Sends, spc' \in {"sabm", "version", "ep", "ke", "over"},
           sq' \in {Tail(sq), <<>>},
           IsData(Head(sq)) => spc' \in {spc, "over"}
    PROVE  RequestInv' /\ ResponseInv' /\ OpenInv' /\ PipeInv'
<1>1. LinkTypeOK /\ sq # <<>>
      BY DEF LinkInv, ServerHandshake
<1>2. UNCHANGED clientVars /\ UNCHANGED <<upset, up>> /\ UNCHANGED toDev
      BY DEF ServerHandshake, faultVars
<1>3. /\ pipe # <<>> /\ Head(pipe) = Head(sq) /\ Thin(pipe', pipe) /\ pipe' \in Seq(DevFrame)
      /\ pipe \in Seq(DevFrame)
      BY <1>1, <1>2, Taken, Places
<1>4. (\A i \in 1..Len(pipe) : IsData(pipe[i])) => IsData(Head(sq))
      <2>1. 1 \in 1..Len(pipe) /\ Head(pipe) = pipe[1]
            BY <1>3
      <2> QED BY <1>3, <2>1
<1>5. RequestInv' /\ ResponseInv' /\ OpenInv' /\ DataFirst(pipe')
      <2>1. MockTypeOK'
            BY DEF LinkTypeOK
      <2>2. (\A i \in 1..Len(pipe) : IsData(pipe[i])) /\ spc \in {"loop", "over", "sabm"} =>
              spc' \in {"loop", "over", "sabm"} /\ spc' # "loop"
            BY <1>4
      <2> QED BY <1>2, <1>3, <2>1, <2>2, MockKeeps
<1> QED BY <1>5 DEF PipeInv

\* The mock finishes an exchange.
LEMMA ServerKey ==
    ASSUME LinkInv, LinkTypeOK', ServerHandshake, spc = "ke", Head(sq).t = "KE_REQ", Head(sq).mac = fresh,
           sq' = Tail(sq), NewCiphers(Head(sq).pub), sdone', spc' = "loop", UNCHANGED fresh,
           toApp' = Emitted(<<[t |-> "KE_RESP", pub |-> fresh, mac |-> fresh]>>)
    PROVE  ExchangeInv' /\ RequestInv' /\ ResponseInv' /\ OpenInv' /\ PipeInv'
<1>1. /\ LinkTypeOK /\ sq # <<>> /\ pipe \in Seq(DevFrame) /\ air \in Seq(AppFrame) /\ fresh \in Nat
      /\ Len(air) \in Nat
      BY Places DEF LinkInv, LinkTypeOK, MockTypeOK, ServerHandshake
<1>2. /\ UNCHANGED clientVars /\ UNCHANGED <<cpc, attempt, nonce, cq>> /\ UNCHANGED <<upset, up>>
      /\ UNCHANGED toDev
      BY DEF ServerHandshake, faultVars, clientVars
<1>3. /\ pipe # <<>> /\ Head(pipe) = Head(sq) /\ Thin(pipe', pipe) /\ pipe' \in Seq(DevFrame)
      /\ pipe' = Tail(pipe)
      BY <1>1, <1>2, Taken
<1>4. 1 \in 1..Len(pipe) /\ Head(pipe) = pipe[1] /\ pipe[1].t = "KE_REQ" /\ pipe[1].mac = fresh
      BY <1>1, <1>3
<1> DEFINE f == [t |-> "KE_RESP", pub |-> fresh, mac |-> fresh]
<1>5. f \in AppFrame /\ f.t = "KE_RESP" /\ f.mac = fresh /\ f.pub = fresh
      BY <1>1, Frames
<1>6. air' = IF up THEN Append(air, f) ELSE air
      BY <1>1, <1>2, <1>5, EmittedLast
<1> HIDE DEF f
<1>7. ExchangeInv'
      <2>1. CASE up
            <3>1. Exchanges(Tail(pipe), Append(air, f), fresh)
                  BY <1>1, <1>3, <1>5, ExchangesRespond DEF LinkInv, ExchangeInv
            <3> QED BY <1>3, <1>6, <2>1, <3>1 DEF ExchangeInv
      <2>2. CASE ~up
            BY <1>3, <1>6, <2>2, ExchangeKept
      <2> QED BY <2>1, <2>2
<1>8. RequestInv'
      BY <1>1, <1>2, <1>3, RequestThin DEF LinkInv, RequestInv
<1>9. OpenInv'
      BY <1>2 DEF LinkInv, OpenInv, MockReady
<1>10. PipeInv'
      <2>1. DataFirst(pipe')
            BY <1>1, <1>3, DataFirstThin DEF LinkInv, PipeInv
      <2>2. \A i \in 1..Len(pipe') : ~IsData(pipe'[i])
            <3>1. ~IsData(pipe[1])
                  BY <1>4 DEF IsData
            <3>2. \A i \in 1..Len(pipe') : i + 1 \in 1..Len(pipe) /\ 1 < i + 1 /\ pipe'[i] = pipe[i + 1]
                  BY <1>1, <1>3
            <3> QED BY <1>4, <3>1, <3>2 DEF LinkInv, PipeInv, DataFirst
      <2> QED BY <2>1, <2>2 DEF PipeInv
<1>11. ASSUME cpc = "ke", NEW k \in 1..Len(air'), air'[k].t = "KE_RESP", air'[k].mac = nonce
      PROVE  /\ pipe' = <<>> /\ skey' = <<attempt, nonce>> /\ srx' = 0
             /\ OneKey(air', k, <<attempt, nonce>>) /\ NoGap(air', k, 0) /\ stx' = Behind(air', k, 0)
      <2>1. ASSUME k \in 1..Len(air), air'[k] = air[k] PROVE FALSE
            BY <1>3, <1>11, <2>1 DEF LinkInv, ResponseInv
      <2>2. air' = Append(air, f)
            BY <1>6, <1>11, <2>1
      <2>3. k = Len(air) + 1 /\ Len(air') = k /\ nonce = fresh
            <3>1. /\ Len(air') = Len(air) + 1 /\ air'[Len(air) + 1] = f
                  /\ \A i \in 1..Len(air) : air'[i] = air[i]
                  BY <1>1, <1>5, <2>2, Grown
            <3>2. k = Len(air) + 1
                  <4>1. k \notin 1..Len(air)
                        BY <2>1, <3>1
                  <4> QED BY <1>1, <3>1, <4>1
            <3> QED BY <1>5, <1>11, <3>1, <3>2
      <2>4. Len(pipe) = 1 /\ pipe[1].pub = attempt
            BY <1>4, <1>11, <2>3 DEF LinkInv, RequestInv, RequestLast
      <2>5. pipe' = <<>>
            BY <1>1, <1>3, <2>4
      <2>6. skey' = <<attempt, nonce>> /\ srx' = 0 /\ stx' = 0
            BY <1>3, <1>4, <2>3, <2>4 DEF NewCiphers
      <2>7. (k + 1)..Len(air') = {} /\ k \in Nat
            BY <1>1, <2>3
      <2>8. OneKey(air', k, <<attempt, nonce>>) /\ NoGap(air', k, 0)
            BY <2>7 DEF OneKey, NoGap
      <2>9. Behind(air', k, 0) = 0
            <3>1. DataIn(air', k) \in Nat /\ Len(air') = k
                  BY <2>3, <2>7, DataInType
            <3> QED BY <3>1 DEF Behind
      <2> QED BY <2>5, <2>6, <2>8, <2>9
<1>12. ResponseInv'
      BY <1>2, <1>11 DEF ResponseInv, MockReady, InStep
<1> QED BY <1>7, <1>8, <1>9, <1>10, <1>12
\* The mock takes a frame of the handshake.
LEMMA StepServer == ASSUME LinkInv, LinkTypeOK', ServerHandshake PROVE LinkInv'
<1> DEFINE f == Head(sq)
<1>1. LinkTypeOK /\ sq # <<>> /\ fresh \in Nat /\ pipe \in Seq(DevFrame) /\ air \in Seq(AppFrame)
      BY Places DEF LinkInv, LinkTypeOK, MockTypeOK, ServerHandshake
<1>2. /\ UNCHANGED <<upset, garbled, up, toDev>> /\ UNCHANGED cq
      /\ spc \in {"sabm", "version", "ep", "ke"} /\ ~sdone
      BY DEF ServerHandshake, faultVars, clientVars, LinkInv, SessionInv
<1>3. NothingGarbled'
      BY <1>2 DEF LinkInv, NothingGarbled
<1>4. CASE ~ServerExpected(f) /\ f.t # "DISCONNECT"
      <2>1. sq' = Tail(sq) /\ UNCHANGED <<spc, fresh, skey, stx, sdone, toApp>>
            BY <1>4 DEF ServerHandshake
      <2>2. air' = air /\ Sends
            BY <1>2, <2>1 DEF air, Sends, Silent, SameCiphers
      <2>3. RequestInv' /\ ResponseInv' /\ OpenInv' /\ PipeInv'
            BY <1>2, <2>1, <2>2, ServerOther
      <2>4. ExchangeInv'
            BY <1>1, <1>2, <2>1, <2>2, Taken, ExchangeKept
      <2>5. SessionInv'
            BY <2>1 DEF LinkInv, SessionInv
      <2> QED BY <1>3, <2>3, <2>4, <2>5 DEF LinkInv
<1>5. CASE SessionOver(FALSE)
      <2>1. sq' = <<>> /\ spc' = "over" /\ UNCHANGED <<fresh, toApp>> /\ ~sdone'
            BY <1>2, <1>5 DEF ServerHandshake, SessionOver
      <2>2. air' = air /\ Sends
            BY <1>2, <2>1 DEF air, Sends, Silent, SameCiphers
      <2>3. RequestInv' /\ ResponseInv' /\ OpenInv' /\ PipeInv'
            BY <1>2, <2>1, <2>2, ServerOther
      <2>4. ExchangeInv'
            BY <1>1, <1>2, <2>1, <2>2, Taken, ExchangeKept
      <2>5. SessionInv'
            BY <2>1 DEF SessionInv
      <2> QED BY <1>3, <2>3, <2>4, <2>5 DEF LinkInv
<1>6. CASE ServerExpected(f) /\ spc \in {"sabm", "version"}
      <2>1. PICK g \in {U("UA"), U("VERSION_RESP")} :
              /\ toApp' = Emitted(<<g>>) /\ spc' \in {"version", "ep"} /\ sq' = Tail(sq)
              /\ UNCHANGED <<fresh, skey, stx, sdone>>
            BY <1>6 DEF ServerHandshake, ServerExpected
      <2>2. g \in AppFrame /\ ~IsData(g) /\ g.t \notin {"EP_RESP", "KE_RESP"}
            BY Frames
      <2>3. air' = IF up THEN Append(air, g) ELSE air
            BY <1>1, <1>2, <2>1, <2>2, EmittedLast
      <2>4. Sends
            BY <2>1, <2>2, <2>3 DEF Sends, Plain, SameCiphers
      <2>5. ~IsData(f)
            BY <1>6 DEF ServerExpected, IsData
      <2>6. RequestInv' /\ ResponseInv' /\ OpenInv' /\ PipeInv'
            BY <2>1, <2>4, <2>5, ServerOther
      <2>7. ExchangeInv'
            BY <1>1, <1>2, <2>1, <2>2, <2>3, Taken, ExchangeKept
      <2>8. SessionInv'
            BY <1>2, <2>1 DEF SessionInv
      <2> QED BY <1>3, <2>6, <2>7, <2>8 DEF LinkInv
<1>7. CASE ServerExpected(f) /\ spc = "ep"
      <2> DEFINE g == [t |-> "EP_RESP", nonce |-> fresh + 1]
      <2>1. /\ toApp' = Emitted(<<g>>) /\ spc' = "ke" /\ sq' = Tail(sq) /\ fresh' = fresh + 1
            /\ UNCHANGED <<skey, stx, sdone>>
            BY <1>7 DEF ServerHandshake, ServerExpected
      <2>2. g \in AppFrame /\ ~IsData(g) /\ g.t = "EP_RESP" /\ g.nonce = fresh + 1
            BY <1>1, Frames DEF IsData
      <2>3. air' = IF up THEN Append(air, g) ELSE air
            BY <1>1, <1>2, <2>1, <2>2, EmittedLast
      <2> HIDE DEF g
      <2>4. Sends
            BY <2>1, <2>2, <2>3 DEF Sends, Plain, SameCiphers
      <2>5. ~IsData(f)
            BY <1>7 DEF ServerExpected, IsData
      <2>6. RequestInv' /\ ResponseInv' /\ OpenInv' /\ PipeInv'
            BY <2>1, <2>4, <2>5, ServerOther
      <2>7. ExchangeInv'
            <3>1. Exchanges(pipe', air, fresh) /\ pipe' \in Seq(DevFrame)
                  <4>1. Thin(pipe', pipe) /\ pipe' \in Seq(DevFrame) /\ Thin(air, air)
                        BY <1>1, <1>2, <2>1, Taken, ThinSame
                  <4> QED BY <1>1, <4>1, ExchangesThin DEF LinkInv, ExchangeInv
            <3>2. Exchanges(pipe', Append(air, g), fresh + 1) /\ fresh + 1 \in Nat
                  BY <1>1, <2>2, <3>1, ExchangesBegin
            <3>3. Exchanges(pipe', air, fresh + 1)
                  BY <1>1, <3>1, ExchangesMore
            <3> QED BY <2>1, <2>3, <3>2, <3>3 DEF ExchangeInv
      <2>8. SessionInv'
            BY <1>2, <2>1 DEF SessionInv
      <2> QED BY <1>3, <2>6, <2>7, <2>8 DEF LinkInv
<1>8. CASE ServerExpected(f) /\ spc = "ke" /\ ~SessionOver(FALSE)
      <2>1. /\ f.t = "KE_REQ" /\ f.mac = fresh /\ sq' = Tail(sq) /\ NewCiphers(f.pub) /\ sdone'
            /\ spc' = "loop" /\ UNCHANGED fresh
            /\ toApp' = Emitted(<<[t |-> "KE_RESP", pub |-> fresh, mac |-> fresh]>>)
            BY <1>8 DEF ServerHandshake, ServerExpected
      <2>2. ExchangeInv' /\ RequestInv' /\ ResponseInv' /\ OpenInv' /\ PipeInv'
            BY <1>8, <2>1, ServerKey
      <2>3. SessionInv'
            BY <2>1 DEF SessionInv
      <2> QED BY <1>3, <2>2, <2>3 DEF LinkInv
<1> QED BY <1>2, <1>4, <1>5, <1>6, <1>7, <1>8 DEF ServerHandshake

\* The mock takes a frame in its frame loop.
LEMMA StepLoop == ASSUME LinkInv, LinkTypeOK', FrameLoop PROVE LinkInv'
<1> DEFINE f == Head(sq)
<1>1. /\ LinkTypeOK /\ sq # <<>> /\ pipe \in Seq(DevFrame) /\ spc = "loop" /\ MockTypeOK'
      /\ srx \in Nat
      BY Places DEF LinkInv, LinkTypeOK, MockTypeOK, FrameLoop
<1>2. UNCHANGED clientVars /\ UNCHANGED cq /\ UNCHANGED <<upset, up, toDev, fresh, stx>>
      BY DEF FrameLoop, faultVars, clientVars
<1>3. sq' \in {Tail(sq), <<>>}
      BY DEF FrameLoop, SessionOver
<1>4. /\ pipe # <<>> /\ Head(pipe) = f /\ f \in DevFrame /\ Thin(pipe', pipe)
      /\ pipe' \in Seq(DevFrame) /\ (sq' = Tail(sq) => pipe' = Tail(pipe))
      BY <1>1, <1>2, <1>3, Taken
<1>5. 1 \in 1..Len(pipe) /\ pipe[1] = f
      BY <1>1, <1>4
<1> HIDE DEF f
<1>6. CASE f.t = "DISCONNECT"
      <2>1. SessionOver(TRUE) /\ UNCHANGED <<toApp, garbled>>
            BY <1>6 DEF FrameLoop, f
      <2>2. spc' = "over" /\ ~sdone' /\ air' = air
            BY <1>2, <2>1 DEF SessionOver, air
      <2>3. Sends
            BY <2>2 DEF Sends, Silent, SameCiphers
      <2>4. RequestInv' /\ ResponseInv' /\ OpenInv' /\ DataFirst(pipe')
            BY <1>1, <1>2, <1>4, <2>2, <2>3, MockKeeps
      <2>5. ExchangeInv'
            BY <1>2, <1>4, <2>2, ExchangeKept
      <2>6. SessionInv' /\ NothingGarbled' /\ PipeInv'
            BY <1>2, <2>1, <2>2, <2>4 DEF LinkInv, SessionInv, NothingGarbled, PipeInv
      <2> QED BY <2>4, <2>5, <2>6 DEF LinkInv
<1>7. CASE f.t = "SABM"
      <2>1. /\ toApp' = Emitted(<<U("UA")>>) /\ spc' = "version" /\ sdone' = FALSE
            /\ UNCHANGED <<skey, garbled>>
            BY <1>7 DEF FrameLoop, MidSessionSabm, Restart, f
      <2>2. U("UA") \in AppFrame /\ ~IsData(U("UA")) /\ U("UA").t = "UA"
            BY Frames
      <2>3. air' = IF up THEN Append(air, U("UA")) ELSE air
            BY <1>1, <1>2, <2>1, <2>2, EmittedLast
      <2>4. Plain(U("UA"))
            BY <2>1, <2>2, <2>3 DEF Plain, SameCiphers
      <2>5. Sends
            BY <2>2, <2>4 DEF Sends
      <2>6. ~IsData(pipe[1])
            BY <1>5, <1>7 DEF IsData
      <2>7. RequestInv' /\ ResponseInv' /\ OpenInv' /\ DataFirst(pipe')
            BY <1>1, <1>2, <1>4, <1>5, <2>5, <2>6, MockKeeps
      <2>8. ExchangeInv'
            <3>1. air' = air \/ \E g \in AppFrame : g.t \notin {"EP_RESP", "KE_RESP"} /\ air' = Append(air, g)
                  BY <2>2, <2>3
            <3> QED BY <1>2, <1>4, <3>1, ExchangeKept
      <2>9. SessionInv' /\ NothingGarbled' /\ PipeInv'
            BY <1>2, <2>1, <2>7 DEF LinkInv, SessionInv, NothingGarbled, PipeInv
      <2> QED BY <2>7, <2>8, <2>9 DEF LinkInv
<1>8. CASE f.t \notin {"DISCONNECT", "SABM"}
      <2>1. /\ pipe' = Tail(pipe) /\ UNCHANGED <<spc, skey, sdone, toApp>>
            /\ srx' = IF IsData(f) THEN srx + 1 ELSE srx
            BY <1>4, <1>8 DEF FrameLoop, f
      <2>2. garbled' = IF (IsData(f) /\ f.key = skey /\ f.pos = srx) \/ ~IsData(f)
                       THEN garbled ELSE garbled \cup {f.key[1]}
            BY <1>8 DEF FrameLoop, f
      <2>3. air' = air
            BY <1>2, <2>1 DEF air
      <2>4. Sends
            BY <1>2, <2>1, <2>3 DEF Sends, Silent, SameCiphers
      <2>5. /\ Len(pipe') = Len(pipe) - 1 /\ Len(pipe) \in Nat
            /\ \A i \in 1..Len(pipe') : i + 1 \in 1..Len(pipe) /\ 1 < i + 1 /\ pipe'[i] = pipe[i + 1]
            BY <1>1, <1>4, <2>1
      <2>6. ASSUME IsData(f) PROVE srx' + Len(pipe') = srx + Len(pipe)
            <3>1. \A x, y \in Nat : (x + 1) + (y - 1) = x + y
                  OBVIOUS
            <3>2. srx' = srx + 1 /\ Len(pipe') = Len(pipe) - 1 /\ srx \in Nat /\ Len(pipe) \in Nat
                  BY <1>1, <2>1, <2>5, <2>6
            <3> QED BY <3>1, <3>2, Zenon
      <2>7. RequestInv' /\ ResponseInv' /\ OpenInv' /\ DataFirst(pipe')
            <3>1. (\A i \in 1..Len(pipe) : IsData(pipe[i])) => IsData(f)
                  BY <1>5
            <3> QED BY <1>1, <1>2, <1>4, <2>1, <2>4, <2>6, <3>1, MockKeeps
      <2>8. ExchangeInv'
            BY <1>2, <1>4, <2>3, ExchangeKept
      <2>9. SessionInv'
            BY <2>1 DEF LinkInv, SessionInv
      <2>10. NothingGarbled'
            <3>1. IsData(f) => \/ f.key = skey /\ f.pos = srx + 1 - 1
                               \/ f.key[1] \in upset
                  BY <1>1, <1>5 DEF LinkInv, PipeInv
            <3>2. srx + 1 - 1 = srx
                  BY <1>1
            <3> QED BY <1>2, <2>2, <3>1, <3>2 DEF LinkInv, NothingGarbled
      <2>11. PipeInv'
            <3>1. ASSUME NEW i \in 1..Len(pipe'), IsData(pipe'[i])
                  PROVE  \/ pipe'[i].key = skey /\ pipe'[i].pos = srx' + i - 1
                         \/ pipe'[i].key[1] \in upset
                  <4>1. i + 1 \in 1..Len(pipe) /\ pipe'[i] = pipe[i + 1] /\ IsData(pipe[i + 1])
                        BY <2>5, <3>1
                  <4>2. IsData(f)
                        BY <1>5, <2>5, <4>1 DEF LinkInv, PipeInv, DataFirst
                  <4>3. \/ pipe'[i].key = skey /\ pipe'[i].pos = srx + (i + 1) - 1
                        \/ pipe'[i].key[1] \in upset
                        BY <1>1, <4>1 DEF LinkInv, PipeInv
                  <4>4. srx' + i - 1 = srx + (i + 1) - 1
                        BY <1>1, <2>1, <4>2
                  <4> QED BY <4>3, <4>4
            <3> QED BY <1>2, <2>1, <2>7, <3>1 DEF PipeInv
      <2> QED BY <2>7, <2>8, <2>9, <2>10, <2>11 DEF LinkInv
<1> QED BY <1>6, <1>7, <1>8

\* The mock sends a response or a notification.
LEMMA SentKeeps ==
    ASSUME LinkInv, LinkTypeOK', UNCHANGED clientVars,
           UNCHANGED <<spc, fresh, skey, srx, sq, sdone>>, UNCHANGED <<upset, garbled, up, toDev>>,
           NEW f \in AppFrame, toApp' = Emitted(<<f>>), f.t \notin {"EP_RESP", "KE_RESP"},
           \/ ~IsData(f) /\ stx' = stx
           \/ IsData(f) /\ f.key = skey /\ f.pos = stx /\ stx' = stx + 1 /\ sdone
    PROVE  LinkInv'
<1>1. LinkTypeOK /\ pipe \in Seq(DevFrame) /\ MockTypeOK' /\ UNCHANGED cq
      BY Places DEF LinkInv, LinkTypeOK, clientVars
<1>2. air' = IF up THEN Append(air, f) ELSE air
      BY <1>1, EmittedLast
<1>3. Sends
      BY <1>2 DEF Sends, Plain, Piece, SameCiphers
<1>4. pipe' = pipe /\ Thin(pipe', pipe)
      <2>1. pipe' = pipe
            BY DEF pipe
      <2> QED BY <1>1, <2>1, ThinSame
<1>5. RequestInv' /\ ResponseInv' /\ OpenInv'
      <2>1. srx' + Len(pipe') = srx + Len(pipe)
            BY <1>4
      <2> QED BY <1>1, <1>3, <1>4, <2>1, MockKeeps
<1>6. ExchangeInv'
      BY <1>1, <1>2, <1>4, ExchangeKept
<1>7. SessionInv' /\ NothingGarbled' /\ PipeInv'
      BY <1>4, PipeKept DEF LinkInv, SessionInv, NothingGarbled
<1> QED BY <1>5, <1>6, <1>7 DEF LinkInv

\* A burst of data of one key goes to the end of a.
LEMMA BurstAdded ==
    ASSUME NEW R, NEW a \in Seq(R), NEW s \in Seq(R), NEW key,
           \A i \in 1..Len(s) : IsData(s[i]) /\ s[i].key = key
    PROVE  /\ a \o s \in Seq(R) /\ Len(a) \in Nat
           /\ \A i \in 1..Len(a) : i \in 1..Len(a \o s) /\ (a \o s)[i] = a[i]
           /\ \A i \in 1..Len(a \o s) : i \notin 1..Len(a) =>
                  IsData((a \o s)[i]) /\ (a \o s)[i].key = key
           /\ \A k \in 0..Len(a) : OneKey(a, k, key) => OneKey(a \o s, k, key)
<1>1. /\ a \o s \in Seq(R) /\ Len(a) \in Nat /\ Len(s) \in Nat /\ Len(a \o s) = Len(a) + Len(s)
      /\ \A i \in 1..Len(a) : (a \o s)[i] = a[i]
      /\ \A i \in 1..Len(s) : (a \o s)[Len(a) + i] = s[i]
      OBVIOUS
<1>2. \A i \in 1..Len(a \o s) : i \notin 1..Len(a) =>
          IsData((a \o s)[i]) /\ (a \o s)[i].key = key
      <2>1. ASSUME NEW i \in 1..Len(a \o s), i \notin 1..Len(a)
            PROVE  i - Len(a) \in 1..Len(s) /\ (a \o s)[i] = s[i - Len(a)]
            BY <1>1, <2>1
      <2> QED BY <2>1
<1>3. ASSUME NEW k \in 0..Len(a), OneKey(a, k, key) PROVE OneKey(a \o s, k, key)
      <2>1. ASSUME NEW i \in (k + 1)..Len(a \o s), IsData((a \o s)[i])
            PROVE  (a \o s)[i].key = key
            <3>1. CASE i \in 1..Len(a)
                  <4>1. i \in (k + 1)..Len(a) /\ (a \o s)[i] = a[i]
                        BY <1>1, <3>1
                  <4> QED BY <1>3, <2>1, <4>1 DEF OneKey
            <3>2. CASE i \notin 1..Len(a)
                  BY <1>1, <1>2, <3>2
            <3> QED BY <3>1, <3>2
      <2> QED BY <2>1 DEF OneKey
<1> QED BY <1>1, <1>2, <1>3

\* Notifications overtake a response: the connection is upset from now on, and all
\* its data frames are still of one key.
LEMMA OvertakenKeeps ==
    ASSUME LinkInv, LinkTypeOK', UNCHANGED clientVars, sdone,
           UNCHANGED <<spc, fresh, skey, srx, sq, sdone>>, UNCHANGED <<garbled, up, toDev>>,
           NEW s \in Seq(AppFrame), \A i \in 1..Len(s) : IsData(s[i]) /\ s[i].key = skey,
           toApp' = Emitted(s), upset' = IF up THEN upset \cup {skey[1]} ELSE upset
    PROVE  LinkInv'
<1>1. /\ LinkTypeOK /\ pipe \in Seq(DevFrame) /\ air \in Seq(AppFrame) /\ UNCHANGED cq
      /\ cq \in Seq(AppFrame) /\ toApp \in Seq(AppFrame) /\ up \in BOOLEAN
      /\ UNCHANGED <<cpc, attempt, nonce, ckey, crx, ctx>>
      BY Places DEF LinkInv, LinkTypeOK, AirTypeOK, clientVars
<1>2. upset \subseteq upset' /\ pipe' = pipe
      BY DEF pipe
<1>3. SessionInv' /\ NothingGarbled' /\ RequestInv'
      BY <1>1, <1>2 DEF LinkInv, SessionInv, NothingGarbled, RequestInv
<1>4. PipeInv'
      BY <1>2 DEF LinkInv, PipeInv
<1>5. CASE ~up
      <2>1. air' = air /\ cpc = "down"
            BY <1>1, <1>5 DEF air, Emitted, LinkTypeOK, AirTypeOK
      <2>2. ExchangeInv' /\ ResponseInv' /\ OpenInv'
            BY <1>1, <1>2, <2>1 DEF LinkInv, ExchangeInv, ResponseInv, OpenInv
      <2> QED BY <1>3, <1>4, <2>2 DEF LinkInv
<1>6. CASE up
      <2>1. air' = air \o s
            <3>1. (cq \o toApp) \o s = cq \o (toApp \o s)
                  BY <1>1, Regrouped
            <3> QED BY <1>1, <1>6, <3>1 DEF air, Emitted
      <2>2. /\ air' \in Seq(AppFrame) /\ Len(air) \in Nat
            /\ \A i \in 1..Len(air) : i \in 1..Len(air') /\ air'[i] = air[i]
            /\ \A i \in 1..Len(air') : i \notin 1..Len(air) =>
                   IsData(air'[i]) /\ air'[i].key = skey
            /\ \A k \in 0..Len(air) : OneKey(air, k, skey) => OneKey(air', k, skey)
            <3>1. /\ air \o s \in Seq(AppFrame) /\ Len(air) \in Nat
                  /\ \A i \in 1..Len(air) : i \in 1..Len(air \o s) /\ (air \o s)[i] = air[i]
                  /\ \A i \in 1..Len(air \o s) : i \notin 1..Len(air) =>
                         IsData((air \o s)[i]) /\ (air \o s)[i].key = skey
                  /\ \A k \in 0..Len(air) : OneKey(air, k, skey) => OneKey(air \o s, k, skey)
                  BY <1>1, BurstAdded, Zenon
            <3> QED BY <2>1, <3>1, Zenon
      <2>3. \A i \in 1..Len(air') : air'[i].t \in {"EP_RESP", "KE_RESP"} =>
                i \in 1..Len(air) /\ air'[i] = air[i]
            BY <2>2 DEF IsData
      <2>4. ExchangeInv'
            <3>1. Exchanges(pipe, air', fresh)
                  BY <2>3, ExchangesBurst DEF LinkInv, ExchangeInv
            <3> QED BY <1>2, <3>1 DEF ExchangeInv
      <2>5. skey[1] \in upset'
            BY <1>6
      <2>6. ASSUME cpc = "ke", NEW k \in 1..Len(air'), air'[k].t = "KE_RESP", air'[k].mac = nonce
            PROVE  /\ pipe' = <<>>
                   /\ MockReady(<<attempt, nonce>>)' /\ (spc' = "loop" => srx' = 0)
                   /\ InStep(k, <<attempt, nonce>>, 0)'
            <3>1. k \in 1..Len(air) /\ air[k].t = "KE_RESP" /\ air[k].mac = nonce
                  BY <2>3, <2>6
            <3>2. /\ pipe = <<>> /\ MockReady(<<attempt, nonce>>) /\ (spc = "loop" => srx = 0)
                  /\ InStep(k, <<attempt, nonce>>, 0)
                  BY <2>6, <3>1 DEF LinkInv, ResponseInv
            <3>3. skey = <<attempt, nonce>> /\ k \in 0..Len(air)
                  BY <2>2, <3>1, <3>2 DEF MockReady
            <3>4. OneKey(air', k, <<attempt, nonce>>) /\ attempt \in upset'
                  BY <2>2, <2>5, <3>2, <3>3 DEF InStep
            <3> QED BY <1>1, <1>2, <3>2, <3>4 DEF InStep, MockReady
      <2>7. ResponseInv'
            BY <1>1, <2>6 DEF ResponseInv
      <2>8. ASSUME cpc \in {"rr", "open"}
            PROVE  /\ ckey[1] = attempt
                   /\ \A i \in 1..Len(pipe') : IsData(pipe'[i]) /\ pipe'[i].key = ckey
                   /\ MockReady(ckey)' /\ attempt \in upset'
                   /\ InStep(0, ckey, crx)'
            <3>1. /\ ckey[1] = attempt /\ MockReady(ckey) /\ InStep(0, ckey, crx)
                  /\ \A i \in 1..Len(pipe) : IsData(pipe[i]) /\ pipe[i].key = ckey
                  BY <2>8 DEF LinkInv, OpenInv
            <3>2. skey = ckey /\ 0 \in 0..Len(air)
                  BY <2>2, <3>1 DEF MockReady
            <3>3. OneKey(air', 0, ckey) /\ attempt \in upset'
                  BY <2>2, <2>5, <3>1, <3>2 DEF InStep
            <3> QED BY <1>1, <1>2, <3>1, <3>3 DEF InStep, MockReady
      <2>9. OpenInv'
            BY <1>1, <2>8 DEF OpenInv
      <2> QED BY <1>3, <1>4, <2>4, <2>7, <2>9 DEF LinkInv
<1> QED BY <1>1, <1>5, <1>6

\* The next frame of a burst is sent.
LEMMA StepRespond == ASSUME LinkInv, LinkTypeOK', Respond PROVE LinkInv'
<1>1. LinkTypeOK /\ skey \in Key /\ stx \in Nat /\ Head(burst) \in Body \cup {"DISC"} /\ sdone
      BY DEF LinkInv, LinkTypeOK, MockTypeOK, SessionInv, Respond
<1>2. /\ UNCHANGED clientVars /\ UNCHANGED <<spc, fresh, skey, srx, sq, sdone>>
      /\ UNCHANGED <<garbled, up, toDev>>
      BY DEF Respond
<1>3. CASE Head(burst) = "DISC"
      <2>1. U("DISC") \in AppFrame /\ ~IsData(U("DISC")) /\ U("DISC").t = "DISC"
            BY Frames
      <2>2. toApp' = Emitted(<<U("DISC")>>) /\ stx' = stx /\ UNCHANGED upset
            BY <1>3 DEF Respond
      <2> QED BY <1>2, <2>1, <2>2, SentKeeps
<1>4. CASE Head(burst) # "DISC"
      <2> DEFINE f == Data(skey, stx, Head(burst))
                 fs(n) == Append(Notifications(n, stx + 1), f)
      <2>1. f \in AppFrame /\ IsData(f) /\ f.t = "DATA" /\ f.key = skey /\ f.pos = stx
            BY <1>1, <1>4, Frames DEF Data, IsData
      <2>2. PICK n \in 0..MaxPushes :
                 /\ toApp' = Emitted(fs(n)) /\ stx' = stx + 1 + n
                 /\ upset' = IF up /\ n > 0 THEN upset \cup {skey[1]} ELSE upset
            BY <1>4 DEF Respond
      <2>3. n \in Nat
            BY AriendiAssumption
      <2>4. /\ fs(n) \in Seq(AppFrame)
            /\ \A i \in 1..Len(fs(n)) : IsData(fs(n)[i]) /\ fs(n)[i].key = skey
            /\ n = 0 => fs(n) = <<f>>
            BY <1>1, <1>4, <2>3, ResponseFrames
      <2> HIDE DEF f, fs
      <2>5. CASE n = 0
            <3>1. toApp' = Emitted(<<f>>) /\ stx' = stx + 1 /\ upset' = upset
                  BY <1>1, <2>2, <2>4, <2>5
            <3> QED BY <1>1, <1>2, <2>1, <3>1, SentKeeps
      <2>6. CASE n > 0
            <3>1. upset' = IF up THEN upset \cup {skey[1]} ELSE upset
                  BY <2>2, <2>6
            <3> QED BY <1>1, <1>2, <2>2, <2>4, <3>1, OvertakenKeeps
      <2> QED BY <2>3, <2>5, <2>6
<1> QED BY <1>3, <1>4

\* The pusher sends a notification.
LEMMA StepPusher == ASSUME LinkInv, LinkTypeOK', Pusher PROVE LinkInv'
<1>1. LinkTypeOK /\ skey \in Key /\ stx \in Nat /\ "notify" \in Body /\ sdone
      BY DEF LinkInv, LinkTypeOK, MockTypeOK, Pusher, MayPush, Body, Kinds
<1>2. /\ UNCHANGED clientVars /\ UNCHANGED <<spc, fresh, skey, srx, sq, sdone>>
      /\ UNCHANGED <<upset, garbled, up, toDev>>
      BY DEF Pusher, faultVars
<1> DEFINE f == Data(skey, stx, "notify")
<1>3. f \in AppFrame /\ IsData(f) /\ f.t = "DATA" /\ f.key = skey /\ f.pos = stx
      BY <1>1, Frames DEF Data, IsData
<1>4. toApp' = Emitted(<<f>>) /\ stx' = stx + 1
      BY DEF Pusher
<1> HIDE DEF f
<1> QED BY <1>1, <1>2, <1>3, <1>4, SentKeeps
\* Nothing is left of nothing.
LEMMA ThinEmpty == ASSUME NEW S, NEW p \in Seq(S), Thin(p, <<>>) PROVE p = <<>>
<1>1. PICK e \in [1..Len(p) -> 1..Len(<<>>)] : \A i \in 1..Len(p) : p[i] = <<>>[e[i]]
      BY DEF Thin
<1>2. Len(<<>>) = 0 /\ Len(p) \in Nat /\ 1..0 = {}
      OBVIOUS
<1>3. ~(1 \in 1..Len(p))
      BY <1>1, <1>2
<1> QED BY <1>2, <1>3

\* A wait of the mock times out.
LEMMA StepTimeout == ASSUME LinkInv, LinkTypeOK', SessionTimeout PROVE LinkInv'
<1>1. LinkTypeOK /\ pipe \in Seq(DevFrame) /\ MockTypeOK'
      BY Places DEF LinkInv, LinkTypeOK
<1>2. /\ UNCHANGED clientVars /\ UNCHANGED cq /\ UNCHANGED <<upset, garbled, up, toDev, toApp, fresh, stx>>
      /\ sq = <<>> /\ toDev = <<>>
      BY DEF SessionTimeout, airVars, faultVars, clientVars
<1>3. spc' = "over" /\ sq' = <<>> /\ (sdone' => sdone /\ skey' = skey)
      BY DEF SessionTimeout, SessionOver
<1>4. pipe' = pipe /\ air' = air /\ Thin(pipe', pipe)
      <2>1. pipe' = pipe /\ air' = air
            BY <1>2, <1>3 DEF pipe, air
      <2> QED BY <1>1, <2>1, ThinSame
<1>5. Sends
      BY <1>2, <1>3, <1>4 DEF Sends, Silent, SameCiphers
<1>6. RequestInv' /\ ResponseInv' /\ OpenInv' /\ DataFirst(pipe')
      BY <1>1, <1>2, <1>3, <1>4, <1>5, MockKeeps
<1>7. ExchangeInv'
      BY <1>1, <1>2, <1>4, ExchangeKept
<1>8. SessionInv' /\ NothingGarbled' /\ PipeInv'
      BY <1>2, <1>3, <1>6 DEF LinkInv, SessionInv, NothingGarbled, PipeInv
<1> QED BY <1>6, <1>7, <1>8 DEF LinkInv

\* The mock waits for the next client.
LEMMA StepNextSession == ASSUME LinkInv, LinkTypeOK', NextSession PROVE LinkInv'
<1>1. /\ LinkTypeOK /\ pipe \in Seq(DevFrame) /\ MockTypeOK' /\ sq \in Seq(DevFrame)
      /\ toDev \in Seq(DevFrame) /\ cq \in Seq(AppFrame)
      BY Places DEF LinkInv, LinkTypeOK
<1>2. /\ UNCHANGED <<attempt, nonce, ckey, crx, ctx, cq, requests>> /\ UNCHANGED <<upset, garbled, fresh>>
      /\ spc' = "sabm" /\ sq' \in {sq, <<>>} /\ ~sdone'
      BY DEF NextSession, faultVars
<1>3. SessionInv' /\ NothingGarbled'
      BY <1>2 DEF LinkInv, SessionInv, NothingGarbled
<1>4. ExchangeInv' /\ RequestInv' /\ ResponseInv' /\ OpenInv' /\ DataFirst(pipe')
      <2>1. CASE Hangup
            <3>1. cq' \in Seq(AppFrame) /\ Thin(cq', cq)
                  BY <1>1, <1>2, ThinSame
            <3> QED BY <1>2, <2>1, <3>1, Downed
      <2>2. CASE UNCHANGED <<up, toApp, toDev, cpc>>
            <3>1. UNCHANGED clientVars /\ air' = air
                  BY <1>2, <2>2 DEF clientVars, air
            <3>2. Sends
                  BY <1>2, <3>1 DEF Sends, Silent, SameCiphers
            <3>3. Thin(pipe', pipe) /\ pipe' \in Seq(DevFrame)
                  <4>1. Thin(sq', sq) /\ Thin(toDev, toDev) /\ sq' \in Seq(DevFrame)
                        BY <1>1, <1>2, ThinSame, ThinNone, EmptySeq
                  <4>2. Thin(sq' \o toDev, sq \o toDev)
                        BY <1>1, <4>1, ThinConcat
                  <4>3. sq' \o toDev \in Seq(DevFrame)
                        BY <1>1, <4>1
                  <4> QED BY <2>2, <4>2, <4>3 DEF pipe
            <3>4. pipe = <<>> => pipe' = <<>>
                  BY <3>3, ThinEmpty
            <3>5. RequestInv' /\ ResponseInv' /\ OpenInv' /\ DataFirst(pipe')
                  BY <1>1, <1>2, <2>2, <3>1, <3>2, <3>3, <3>4, MockKeeps
            <3>6. ExchangeInv'
                  BY <1>2, <3>1, <3>3, ExchangeKept
            <3> QED BY <3>5, <3>6
      <2> QED BY <2>1, <2>2 DEF NextSession, ForceDisconnect
<1> QED BY <1>2, <1>3, <1>4 DEF LinkInv, PipeInv

-----------------------------------------------------------------------------
\* A frame is lost.

\* The frame behind the first queue is removed.
LEMMA RemovedHead ==
    ASSUME NEW S, NEW p \in Seq(S), NEW q \in Seq(S), q # <<>>
    PROVE  /\ Removed(p \o Tail(q), p \o q, Len(p) + 1) /\ Len(p) + 1 \in 1..Len(p \o q)
           /\ (p \o q)[Len(p) + 1] = Head(q)
           /\ p \o Tail(q) \in Seq(S) /\ Thin(p \o Tail(q), p \o q)
<1>1. Tail(q) \in Seq(S) /\ Len(Tail(q)) = Len(q) - 1 /\ Len(q) \in Nat /\ Len(q) >= 1 /\ Len(p) \in Nat
      OBVIOUS
<1>2. Thin(p, p) /\ Thin(Tail(q), q)
      BY ThinSame, ThinTail
<1>3. p \o Tail(q) \in Seq(S) /\ Thin(p \o Tail(q), p \o q)
      <2>1. p \o Tail(q) \in Seq(S)
            BY <1>1
      <2>2. Thin(p \o Tail(q), p \o q)
            BY <1>1, <1>2, ThinConcat, Zenon
      <2> QED BY <2>1, <2>2
<1>4. Len(p \o Tail(q)) = Len(p) + Len(q) - 1 /\ Len(p \o q) = Len(p) + Len(q)
      BY <1>1
<1>5. (p \o q)[Len(p) + 1] = Head(q)
      BY <1>1
<1>6. \A j \in 1..Len(p \o Tail(q)) :
        (p \o Tail(q))[j] = IF j < Len(p) + 1 THEN (p \o q)[j] ELSE (p \o q)[j + 1]
      <2> SUFFICES ASSUME NEW j \in 1..Len(p \o Tail(q))
                   PROVE  (p \o Tail(q))[j] = IF j < Len(p) + 1 THEN (p \o q)[j] ELSE (p \o q)[j + 1]
          OBVIOUS
      <2>1. CASE j < Len(p) + 1
            <3>1. j \in 1..Len(p)
                  BY <1>1, <2>1
            <3> QED BY <1>1, <2>1, <3>1
      <2>2. CASE j >= Len(p) + 1
            <3>1. /\ j - Len(p) \in 1..Len(Tail(q)) /\ (j + 1) - Len(p) = (j - Len(p)) + 1
                  /\ (j + 1) - Len(p) \in 1..Len(q) /\ ~(j < Len(p) + 1) /\ j \in Nat
                  BY <1>1, <1>4, <2>2
            <3>2. (p \o Tail(q))[j] = Tail(q)[j - Len(p)]
                  BY <1>1, <2>2, <3>1
            <3>3. (p \o q)[j + 1] = q[(j + 1) - Len(p)]
                  BY <1>1, <2>2, <3>1
            <3>4. Tail(q)[j - Len(p)] = q[(j - Len(p)) + 1]
                  BY <1>1, <3>1
            <3> QED BY <3>1, <3>2, <3>3, <3>4
      <2> QED BY <1>1, <2>1, <2>2
<1> QED BY <1>1, <1>3, <1>4, <1>5, <1>6 DEF Removed

\* A notification is lost.
LEMMA LostApp ==
    ASSUME LinkInv, LinkTypeOK', Lose, toApp # <<>>, LoseFrame(Head(toApp)), toApp' = Tail(toApp),
           UNCHANGED toDev
    PROVE  LinkInv'
<1> DEFINE r == Len(cq) + 1
<1>1. /\ LinkTypeOK /\ pipe \in Seq(DevFrame) /\ air \in Seq(AppFrame) /\ cq \in Seq(AppFrame)
      /\ toApp \in Seq(AppFrame) /\ Len(air) \in Nat
      BY Places DEF LinkInv
<1>2. /\ UNCHANGED <<cpc, attempt, nonce, ckey, crx, ctx, cq>> /\ UNCHANGED <<up, garbled>>
      /\ UNCHANGED <<spc, fresh, skey, srx, stx, sq, sdone>>
      BY DEF Lose, clientVars, serverVars
<1>3. /\ Removed(air', air, r) /\ r \in 1..Len(air) /\ air[r] = Head(toApp)
      /\ air' \in Seq(AppFrame) /\ Thin(air', air)
      BY <1>1, <1>2, RemovedHead DEF air
<1>4. pipe' = pipe
      BY <1>2 DEF pipe
<1> HIDE DEF r
<1>5. upset' = upset \cup {IF IsData(air[r]) THEN air[r].key[1] ELSE attempt}
      BY <1>3 DEF LoseFrame
<1>6. Len(air') = Len(air) - 1 /\ \A j \in 1..Len(air') : air'[j] = IF j < r THEN air[j] ELSE air[j + 1]
      BY <1>3 DEF Removed
<1>7. ExchangeInv'
      <2>1. Thin(pipe, pipe) /\ fresh \in Nat
            BY <1>1, ThinSame DEF LinkTypeOK, MockTypeOK
      <2>2. Exchanges(pipe, air', fresh)
            BY <1>1, <1>3, <2>1, ExchangesThin DEF LinkInv, ExchangeInv
      <2> QED BY <1>2, <1>4, <2>2 DEF ExchangeInv
<1>8. ASSUME NEW k \in 0..Len(air'), NEW key, OneKey(air, k, key), k < r, key[1] = attempt
      PROVE  OneKey(air', k, key) /\ attempt \in upset'
      <2>1. r \in (k + 1)..Len(air)
            BY <1>3, <1>8
      <2>2. IsData(air[r]) => air[r].key = key
            BY <1>8, <2>1 DEF OneKey
      <2>3. \A i \in (k + 1)..Len(air') : \E j \in (k + 1)..Len(air) : air'[i] = air[j]
            <3> SUFFICES ASSUME NEW i \in (k + 1)..Len(air')
                         PROVE  \E j \in (k + 1)..Len(air) : air'[i] = air[j]
                OBVIOUS
            <3>1. /\ i \in 1..Len(air') /\ i \in (k + 1)..Len(air) /\ i + 1 \in (k + 1)..Len(air)
                  BY <1>1, <1>6
            <3> QED BY <1>6, <3>1
      <2> QED BY <1>5, <1>8, <2>2, <2>3 DEF OneKey
<1>9. ASSUME cpc = "ke", NEW k \in 1..Len(air'), air'[k].t = "KE_RESP", air'[k].mac = nonce
      PROVE  /\ pipe = <<>>
             /\ MockReady(<<attempt, nonce>>) /\ (spc = "loop" => srx = 0)
             /\ OneKey(air', k, <<attempt, nonce>>)
             /\ attempt \notin upset' => NoGap(air', k, 0) /\ (sdone => stx = Behind(air', k, 0))
      <2>1. CASE k < r
            <3>1. k \in 1..Len(air) /\ air[k] = air'[k] /\ k \in 0..Len(air')
                  BY <1>1, <1>6, <2>1
            <3>2. /\ pipe = <<>> /\ MockReady(<<attempt, nonce>>) /\ (spc = "loop" => srx = 0)
                  /\ OneKey(air, k, <<attempt, nonce>>)
                  BY <1>9, <3>1 DEF LinkInv, ResponseInv, InStep
            <3>3. <<attempt, nonce>>[1] = attempt
                  OBVIOUS
            <3> QED BY <1>8, <2>1, <3>1, <3>2, <3>3
      <2>2. CASE k >= r
            <3>0. k \in Nat /\ r \in Nat /\ 1 <= r /\ 1 <= k /\ r <= k /\ k <= Len(air) - 1
                  BY <1>1, <1>3, <1>6, <2>2
            <3>1. /\ k + 1 \in 1..Len(air) /\ air[k + 1] = air'[k] /\ r \in 1..(k + 1)
                  /\ (k + 1) - 1 = k
                  BY <1>1, <1>6, <2>2, <3>0
            <3>2. /\ pipe = <<>> /\ MockReady(<<attempt, nonce>>) /\ (spc = "loop" => srx = 0)
                  /\ InStep(k + 1, <<attempt, nonce>>, 0)
                  BY <1>9, <3>1 DEF LinkInv, ResponseInv
            <3>3. ~IsData(air[k + 1]) /\ 0 \in Nat
                  BY <1>9, <3>1 DEF IsData
            <3>4. OneKey(air, k + 1, <<attempt, nonce>>)
                  BY <3>2 DEF InStep
            <3>5. /\ OneKey(air', (k + 1) - 1, <<attempt, nonce>>)
                  /\ NoGap(air, k + 1, 0) => NoGap(air', (k + 1) - 1, 0)
                  /\ Behind(air', (k + 1) - 1, 0) = Behind(air, k + 1, 0)
                  BY <1>1, <1>3, <3>1, <3>3, <3>4, StepRemoved, Zenon
            <3> QED BY <1>5, <3>1, <3>2, <3>5 DEF InStep
      <2> QED BY <1>3, <2>1, <2>2
<1>10. ResponseInv'
      BY <1>2, <1>4, <1>9 DEF ResponseInv, MockReady, InStep
<1>11. OpenInv'
      <2> SUFFICES ASSUME cpc \in {"rr", "open"} PROVE OpenInv'
          BY <1>2 DEF OpenInv
      <2>1. ckey[1] = attempt /\ OneKey(air, 0, ckey) /\ 0 \in 0..Len(air') /\ 0 < r
            BY <1>1, <1>3, <1>6 DEF LinkInv, OpenInv, InStep
      <2>2. OneKey(air', 0, ckey) /\ attempt \in upset'
            BY <1>8, <2>1
      <2>3. InStep(0, ckey, crx)'
            BY <1>2, <2>2 DEF InStep
      <2>4. MockReady(ckey)'
            BY <1>2 DEF LinkInv, OpenInv, MockReady
      <2>5. \A i \in 1..Len(pipe') : IsData(pipe'[i]) /\ pipe'[i].key = ckey'
            BY <1>2, <1>4 DEF LinkInv, OpenInv
      <2> QED BY <1>2, <2>1, <2>2, <2>3, <2>4, <2>5 DEF OpenInv
<1>12. SessionInv' /\ RequestInv' /\ NothingGarbled'
      BY <1>2, <1>4, <1>5 DEF LinkInv, SessionInv, RequestInv, NothingGarbled
<1>13. PipeInv'
      BY <1>2, <1>4, <1>5 DEF LinkInv, PipeInv
<1> QED BY <1>7, <1>10, <1>11, <1>12, <1>13 DEF LinkInv

\* A write is lost.
LEMMA LostDev ==
    ASSUME LinkInv, LinkTypeOK', Lose, toDev # <<>>, LoseFrame(Head(toDev)), toDev' = Tail(toDev),
           UNCHANGED toApp
    PROVE  LinkInv'
<1> DEFINE r == Len(sq) + 1
<1>1. /\ LinkTypeOK /\ pipe \in Seq(DevFrame) /\ air \in Seq(AppFrame) /\ sq \in Seq(DevFrame)
      /\ toDev \in Seq(DevFrame) /\ Len(pipe) \in Nat
      BY Places DEF LinkInv
<1>2. /\ UNCHANGED <<cpc, attempt, nonce, ckey, crx, ctx, cq>> /\ UNCHANGED <<up, garbled>>
      /\ UNCHANGED <<spc, fresh, skey, srx, stx, sq, sdone>>
      BY DEF Lose, clientVars, serverVars
<1>3. /\ Removed(pipe', pipe, r) /\ r \in 1..Len(pipe) /\ pipe[r] = Head(toDev)
      /\ pipe' \in Seq(DevFrame) /\ Thin(pipe', pipe)
      BY <1>1, <1>2, RemovedHead DEF pipe
<1>4. air' = air
      BY <1>2 DEF air
<1> HIDE DEF r
<1>5. upset' = upset \cup {IF IsData(pipe[r]) THEN pipe[r].key[1] ELSE attempt}
      BY <1>3 DEF LoseFrame
<1>6. Len(pipe') = Len(pipe) - 1 /\ \A j \in 1..Len(pipe') : pipe'[j] = IF j < r THEN pipe[j] ELSE pipe[j + 1]
      BY <1>3 DEF Removed
<1>7. \A i \in 1..Len(pipe') : \E j \in 1..Len(pipe) : pipe'[i] = pipe[j] /\ (i = j \/ r < j)
      <2> SUFFICES ASSUME NEW i \in 1..Len(pipe')
                   PROVE  \E j \in 1..Len(pipe) : pipe'[i] = pipe[j] /\ (i = j \/ r < j)
          OBVIOUS
      <2>1. i \in 1..Len(pipe) /\ i + 1 \in 1..Len(pipe)
            BY <1>1, <1>6
      <2>2. CASE i < r
            BY <1>6, <2>1, <2>2
      <2>3. CASE r <= i
            <3>1. pipe'[i] = pipe[i + 1] /\ r < i + 1
                  BY <1>3, <1>6, <2>3
            <3> QED BY <2>1, <3>1
      <2> QED BY <1>3, <2>2, <2>3
<1>8. ExchangeInv'
      BY <1>2, <1>3, <1>4, ExchangeKept
<1>9. RequestInv' /\ DataFirst(pipe')
      BY <1>1, <1>2, <1>3, RequestThin, DataFirstThin DEF LinkInv, RequestInv, PipeInv
<1>10. ResponseInv'
      <2>1. pipe # <<>>
            BY <1>3
      <2>2. cpc = "ke" => \A k \in 1..Len(air) : ~(air[k].t = "KE_RESP" /\ air[k].mac = nonce)
            BY <2>1 DEF LinkInv, ResponseInv
      <2> QED BY <1>2, <1>4, <2>2 DEF ResponseInv
<1>11. OpenInv'
      <2> SUFFICES ASSUME cpc \in {"rr", "open"} PROVE OpenInv'
          BY <1>2 DEF OpenInv
      <2>1. /\ ckey[1] = attempt /\ \A i \in 1..Len(pipe) : IsData(pipe[i]) /\ pipe[i].key = ckey
            /\ OneKey(air, 0, ckey) /\ MockReady(ckey)
            BY DEF LinkInv, OpenInv, InStep
      <2>2. attempt \in upset'
            BY <1>3, <1>5, <2>1
      <2>3. InStep(0, ckey, crx)' /\ MockReady(ckey)'
            BY <1>2, <1>4, <2>1, <2>2 DEF InStep, MockReady
      <2>4. \A i \in 1..Len(pipe') : IsData(pipe'[i]) /\ pipe'[i].key = ckey'
            BY <1>2, <1>7, <2>1
      <2> QED BY <1>2, <2>1, <2>2, <2>3, <2>4 DEF OpenInv
<1>12. SessionInv' /\ NothingGarbled'
      BY <1>2, <1>5 DEF LinkInv, SessionInv, NothingGarbled
<1>13. ASSUME spc = "loop", NEW i \in 1..Len(pipe'), IsData(pipe'[i])
      PROVE  \/ pipe'[i].key = skey /\ pipe'[i].pos = srx + i - 1
             \/ pipe'[i].key[1] \in upset'
      <2>1. PICK j \in 1..Len(pipe) : pipe'[i] = pipe[j] /\ (i = j \/ r < j)
            BY <1>7
      <2>2. CASE i = j
            BY <1>5, <1>13, <2>1, <2>2 DEF LinkInv, PipeInv
      <2>3. CASE r < j
            <3>1. IsData(pipe[r]) /\ pipe[r].key = pipe[j].key
                  BY <1>3, <1>13, <2>1, <2>3 DEF LinkInv, PipeInv, DataFirst
            <3> QED BY <1>5, <2>1, <3>1
      <2> QED BY <2>1, <2>2, <2>3
<1>14. PipeInv'
      BY <1>2, <1>9, <1>13 DEF PipeInv
<1> QED BY <1>8, <1>9, <1>10, <1>11, <1>12, <1>14 DEF LinkInv

-----------------------------------------------------------------------------
\* The initial states.
LEMMA LinkInit == ASSUME Init PROVE LinkInv
<1>1. sq = <<>> /\ toDev = <<>> /\ cq = <<>> /\ toApp = <<>> /\ burst = <<>>
      BY DEF Init
<1>2. pipe = <<>> /\ air = <<>> /\ Len(pipe) = 0 /\ Len(air) = 0
      BY <1>1 DEF pipe, air
<1>3. NoKey \in Key
      BY DEF NoKey, Key
<1>4. LinkTypeOK
      BY <1>1, <1>3, EmptySeq DEF Init, LinkTypeOK, BridgeTypeOK, MockTypeOK, AirTypeOK
<1>5. SessionInv /\ NothingGarbled /\ RequestInv /\ ResponseInv /\ OpenInv
      BY DEF Init, SessionInv, NothingGarbled, RequestInv, ResponseInv, OpenInv
<1>6. ExchangeInv /\ PipeInv
      BY <1>2 DEF Init, ExchangeInv, Exchanges, PipeInv, DataFirst
<1> QED BY <1>4, <1>5, <1>6 DEF LinkInv

\* Every step keeps the invariant.
LEMMA LinkStep == ASSUME LinkInv, [Next]_vars PROVE LinkInv'
<1>1. LinkTypeOK'
      BY StepType DEF LinkInv
<1>2. CASE UNCHANGED vars
      <2>1. UNCHANGED <<pipe, air>>
            BY <1>2 DEF vars, clientVars, serverVars, airVars, pipe, air
      <2> QED BY <1>1, <1>2, <2>1, NothingMoves
              DEF vars, clientVars, serverVars, airVars, faultVars
<1>3. CASE Bridge
      BY <1>1, <1>3, StepFeedAtt, StepHandshake, StepDone, StepDisconnect DEF Bridge
<1>4. CASE Mock
      BY <1>1, <1>4, StepFeed, StepServer, StepLoop, StepRespond, StepNextSession DEF Mock
<1>5. CASE Lose
      BY <1>1, <1>5, LostApp, LostDev DEF Lose
<1> QED BY <1>1, <1>2, <1>3, <1>4, <1>5, StepConnect, StepWrap, StepTimeout, StepPusher DEF Next

\* Whenever the bridge talks to a session that is past its handshake, the two hold the
\* key of the same exchange: perform_handshake has finished only with the KE response
\* of its own nonce, behind which it has sent nothing but data, so no SABM can have
\* made the mock start over since.
THEOREM KeysAlwaysAgree == Spec => []KeysAgree
<1>1. ASSUME LinkInv PROVE KeysAgree
      BY <1>1 DEF LinkInv, OpenInv, SessionInv, MockReady, KeysAgree
<1> QED BY <1>1, LinkInit, LinkStep, PTL DEF Spec

\* Neither end decrypts a data frame with the wrong piece of key stream on a connection
\* that has lost no frame: the frames on the way, the ones that wait in _rx_queue
\* included, continue the receiver's stream without a gap.
THEOREM NothingIsGarbled == Spec => []NothingGarbled
<1>1. ASSUME LinkInv PROVE NothingGarbled
      BY <1>1 DEF LinkInv
<1> QED BY <1>1, LinkInit, LinkStep, PTL DEF Spec
=============================================================================
