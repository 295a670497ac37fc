------------------------- MODULE AlbaSessionProofs -------------------------
(***************************************************************************)
(* Sessions with an Alba, for any number of connections, actions and       *)
(* faults: the device is initialised before an action reads from it, the   *)
(* published changes add up to the last poll, and every call gets its own  *)
(* answer unless calls overlap or an answer is late.                       *)
(***************************************************************************)
EXTENDS AlbaSession, SequenceTheorems, FiniteSetTheorems, TLAPS

-----------------------------------------------------------------------------
\* The programs.

\* The calls of post_connect: capabilities and event storage are among them.
LEMMA PostConnectCalls ==
    ASSUME NEW c
    PROVE  /\ PostConnect(c) \in Seq(Calls) /\ PostConnect(c) # <<>>
           /\ \A i \in 1..Len(PostConnect(c)) :
                 /\ PostConnect(c)[i].cmd # "publish"
                 /\ PostConnect(c)[i].dp \notin {"sit", "status", "start"}
           /\ \E i \in 1..Len(PostConnect(c)) : PostConnect(c)[i].cmd = "caps"
           /\ \E i \in 1..Len(PostConnect(c)) : PostConnect(c)[i].cmd = "storage"
<1> DEFINE i0 == Call("inventory", "all", FALSE)
           i1 == Call("caps", "none", TRUE)
           i2 == Call("storage", "none", TRUE)
           i3 == Call("read", "firmware", TRUE)
<1>1. i0 \in Calls /\ i1 \in Calls /\ i2 \in Calls /\ i3 \in Calls
      BY DEF Call, Calls
<1>2. /\ \A i \in {i0, i1, i2, i3} : i.cmd # "publish" /\ i.dp \notin {"sit", "status", "start"}
      /\ i1.cmd = "caps" /\ i2.cmd = "storage"
      BY DEF Call
<1>3. CASE c \in inv
      <2>1. PostConnect(c) = <<>> \o <<i1, i2, i3>>
            BY <1>3 DEF PostConnect
      <2> HIDE DEF i0, i1, i2, i3
      <2>2. PostConnect(c) = <<i1, i2, i3>>
            BY <2>1
      <2> QED BY <1>1, <1>2, <2>2
<1>4. CASE c \notin inv
      <2>1. PostConnect(c) = <<i0>> \o <<i1, i2, i3>>
            BY <1>4 DEF PostConnect
      <2> HIDE DEF i0, i1, i2, i3
      <2> DEFINE a == <<i0>>  b == <<i1, i2, i3>>
      <2>2. a \in Seq(Calls) /\ b \in Seq(Calls) /\ Len(a) = 1 /\ Len(b) = 3
            BY <1>1
      <2>3. a[1] = i0 /\ b[1] = i1 /\ b[2] = i2 /\ b[3] = i3
            OBVIOUS
      <2> HIDE DEF a, b
      <2>4. a \o b \in Seq(Calls) /\ Len(a \o b) = 4
            <3>1. a \o b \in Seq(Calls) /\ Len(a \o b) = Len(a) + Len(b)
                  BY <2>2, ConcatProperties, Zenon
            <3> QED BY <2>2, <3>1
      <2>5. (a \o b)[1] = i0 /\ (a \o b)[2] = i1 /\ (a \o b)[3] = i2 /\ (a \o b)[4] = i3
            <3>1. \A i \in 1..Len(a) + Len(b) :
                    (a \o b)[i] = IF i <= Len(a) THEN a[i] ELSE b[i - Len(a)]
                  BY <2>2, ConcatProperties
            <3>2. PICK s : s = a \o b
                  OBVIOUS
            <3>3. \A i \in 1..Len(a) + Len(b) : s[i] = IF i <= Len(a) THEN a[i] ELSE b[i - Len(a)]
                  BY <3>1, <3>2, Zenon
            <3>4. s[1] = a[1] /\ s[2] = b[1] /\ s[3] = b[2] /\ s[4] = b[3]
                  BY <2>2, <3>3
            <3> QED BY <2>3, <3>2, <3>4, Zenon
      <2>6. PostConnect(c) = a \o b
            BY <2>1 DEF a, b
      <2>7. \A i \in 1..Len(a \o b) : (a \o b)[i] \in {i0, i1, i2, i3}
            BY <2>4, <2>5
      <2>8. 2 \in 1..Len(a \o b) /\ 3 \in 1..Len(a \o b) /\ a \o b # <<>>
            BY <2>4
      <2> QED BY <1>2, <2>4, <2>5, <2>6, <2>7, <2>8
<1> QED BY <1>3, <1>4

\* The calls of an action.
LEMMA ProgramCalls == ASSUME NEW p \in Programs PROVE p \in Seq(Calls)
<1> DEFINE sits == Call("read", "sit", TRUE)     stats == Call("read", "status", TRUE)
           pub(k) == Call("publish", k, FALSE)   start == Call("write", "start", FALSE)
           misc == Call("read", "other", TRUE)   other == Call("write", "other", FALSE)
<1>1. /\ sits \in Calls /\ stats \in Calls /\ start \in Calls /\ misc \in Calls /\ other \in Calls
      /\ \A k \in {"none", "sit", "shower"} : pub(k) \in Calls
      BY DEF Call, Calls
<1>2. /\ PollState = <<sits, stats, pub("none")>> /\ ToggleAnalShower = <<stats, start>>
      /\ MiscState = <<misc, sits>> /\ WriteDp = <<other>>
      /\ \A k \in Fields : ShowState(k) = <<sits, stats, pub(k)>>
      BY DEF PollState, ToggleAnalShower, MiscState, WriteDp, ShowState
<1> HIDE DEF sits, stats, pub, start, misc, other
<1>3. \A k \in {"none", "sit", "shower"} : <<sits, stats, pub(k)>> \in Seq(Calls)
      BY <1>1
<1>4. <<stats, start>> \in Seq(Calls) /\ <<misc, sits>> \in Seq(Calls) /\ <<other>> \in Seq(Calls)
      BY <1>1
<1> QED BY <1>2, <1>3, <1>4 DEF Programs, Fields

-----------------------------------------------------------------------------
\* Steps within a session.

\* A task goes on with its program, or its program ends.
Shrinks == \A t \in Tasks : \/ prog'[t] \in {prog[t], <<>>}
                            \/ prog[t] # <<>> /\ prog'[t] = Tail(prog[t])

\* Nothing comes into a program that shrinks.
LEMMA Shrunk ==
    ASSUME prog \in [Tasks -> Seq(Calls)], Shrinks, NEW t \in Tasks
    PROVE  /\ \A i \in 1..Len(prog'[t]) : \E j \in 1..Len(prog[t]) : prog'[t][i] = prog[t][j]
           /\ prog'[t] # <<>> => prog[t] # <<>>
           /\ prog'[t] \in Seq(Calls)
<1>1. prog[t] \in Seq(Calls)
      OBVIOUS
<1>2. CASE prog'[t] = prog[t]
      BY <1>1, <1>2
<1>3. CASE prog'[t] = <<>>
      BY <1>3, EmptySeq
<1>4. CASE prog[t] # <<>> /\ prog'[t] = Tail(prog[t])
      <2>1. /\ Tail(prog[t]) \in Seq(Calls)
            /\ \A i \in 1..Len(Tail(prog[t])) : i + 1 \in 1..Len(prog[t]) /\ Tail(prog[t])[i] = prog[t][i + 1]
            BY <1>1, <1>4
      <2> QED BY <1>4, <2>1
<1> QED BY <1>2, <1>3, <1>4 DEF Shrinks

\* A step within a session that publishes nothing keeps the invariant, if on a live
\* connection it forgets no request.
LEMMA StepWithin ==
    ASSUME AlbaInv, SessionTypeOK', Shrinks, InitialisedFirst',
           UNCHANGED <<mode, conn, made, client, cl, last, view, bypassed>>,
           stage' = stage \/ (stage # "down" /\ stage' = "closing"),
           stage = "down" => wait'["main"] = Idle,
           ~alive' => toDev' = <<>>, alive' => alive /\ Asked \subseteq Asked',
           alive' /\ PostConnecting' => {"caps", "storage"} \subseteq Asked' \cup Pending'
    PROVE  AlbaInv'
<1>1. prog \in [Tasks -> Seq(Calls)] /\ "main" \in Tasks /\ "cmd" \in Tasks
      BY DEF AlbaInv, SessionTypeOK, Tasks
<1>2. \A t \in Tasks : /\ Publishes(t)' => Publishes(t)
                       /\ Acts(t)' => Acts(t)
                       /\ prog'[t] # <<>> => prog[t] # <<>>
      <2> SUFFICES ASSUME NEW t \in Tasks
                   PROVE  /\ Publishes(t)' => Publishes(t)
                          /\ Acts(t)' => Acts(t)
                          /\ prog'[t] # <<>> => prog[t] # <<>>
          OBVIOUS
      <2>1. /\ \A i \in 1..Len(prog'[t]) : \E j \in 1..Len(prog[t]) : prog'[t][i] = prog[t][j]
            /\ prog'[t] # <<>> => prog[t] # <<>>
            BY <1>1, Shrunk
      <2> QED BY <2>1 DEF Publishes, Acts
<1>3. PostConnecting' => PostConnecting
      BY DEF PostConnecting
<1>4. ClientInv'
      <2>1. /\ \A t \in Tasks : prog'[t] # <<>> => cl'[t] \in 1..made'
            /\ \A c \in Clients : c > made' => last'[c] = NoArgs
            /\ mode' = "esphome" => prog'["cmd"] = <<>> /\ \A c \in Clients : last'[c] = NoArgs
            BY <1>1, <1>2 DEF AlbaInv, ClientInv
      <2>2. /\ stage' = "down" => prog'["main"] = <<>> /\ wait'["main"] = Idle
            /\ stage' \in {"again", "twice", "ready"} => client' # 0
            BY <1>1, <1>2 DEF AlbaInv, ClientInv
      <2>3. PostConnecting' =>
              /\ cl'["main"] \in 1..made' /\ (mode' = "service" => cl'["main"] = made')
              /\ ~Publishes("main")' /\ ~Acts("main")'
              /\ prog'["cmd"] # <<>> => cl'["cmd"] # made'
            BY <1>1, <1>2, <1>3 DEF AlbaInv, ClientInv
      <2> QED BY <2>1, <2>2, <2>3 DEF ClientInv
<1>5. ViewInv'
      BY DEF AlbaInv, ViewInv, ViewIsLast
<1>6. AskInv'
      <2>1. \A t \in Tasks : Connected(t)' => Connected(t)
            BY DEF Connected
      <2>2. ASSUME alive' PROVE stage' = "ready" => {"caps", "storage"} \subseteq Asked'
            BY <2>2 DEF AlbaInv, AskInv
      <2>3. ASSUME alive', NEW t \in Tasks, Acts(t)', Connected(t)'
            PROVE  {"caps", "storage"} \subseteq Asked'
            BY <1>2, <2>1, <2>3 DEF AlbaInv, AskInv
      <2> QED BY <2>2, <2>3 DEF AskInv
<1> QED BY <1>4, <1>5, <1>6 DEF AlbaInv

-----------------------------------------------------------------------------
\* The calls of a task.

\* Head and tail of a program.
LEMMA HeadTail ==
    ASSUME prog \in [Tasks -> Seq(Calls)], NEW t \in Tasks, prog[t] # <<>>
    PROVE  /\ Head(prog[t]) \in Calls /\ Tail(prog[t]) \in Seq(Calls)
           /\ 1 \in 1..Len(prog[t]) /\ Head(prog[t]) = prog[t][1]
           /\ \A i \in 1..Len(prog[t]) : i = 1 \/ \E j \in 1..Len(Tail(prog[t])) : Tail(prog[t])[j] = prog[t][i]
<1>1. PICK p \in Seq(Calls) : p = prog[t]
      OBVIOUS
<1>2. p # <<>>
      BY <1>1
<1>3. Head(p) \in Calls /\ Tail(p) \in Seq(Calls) /\ 1 \in 1..Len(p) /\ Head(p) = p[1]
      BY <1>2
<1>4. \A i \in 1..Len(p) : i = 1 \/ (i - 1 \in 1..Len(Tail(p)) /\ Tail(p)[i - 1] = p[i])
      BY <1>2
<1>5. \A i \in 1..Len(p) : i = 1 \/ \E j \in 1..Len(Tail(p)) : Tail(p)[j] = p[i]
      BY <1>4
<1> QED BY <1>1, <1>3, <1>5

\* The request a call writes.
LEMMA SendRequest ==
    ASSUME SessionTypeOK, NEW t \in Tasks, Send(t)
    PROVE  \E req \in Requests :
              /\ req.cmd = Head(prog[t]).cmd /\ req.dp = Head(prog[t]).dp
              /\ toDev' = IF alive THEN Append(toDev, req) ELSE toDev
<1>1. Head(prog[t]) \in Calls /\ Head(prog[t]).cmd # "publish"
      BY HeadTail DEF SessionTypeOK, Send
<1> DEFINE call == Head(prog[t])
           val == IF call.dp = "start" /\ vals[t].status >= 3 THEN 0 ELSE 1
           req == [cmd |-> call.cmd, dp |-> call.dp, val |-> val, id |-> reqs + 1]
<1>2. toDev' = IF alive THEN Append(toDev, req) ELSE toDev
      BY DEF Send
<1>3. val \in {0, 1} /\ reqs + 1 \in Nat
      BY DEF SessionTypeOK
<1> HIDE DEF val
<1>4. req \in Requests
      BY <1>1, <1>3 DEF Calls, Requests
<1> QED BY <1>2, <1>4

\* The type invariant is kept by the calls of a task.
LEMMA StepType ==
    ASSUME SessionTypeOK, NEW t \in Tasks, Step(t)
    PROVE  SessionTypeOK'
<1>1. CASE Send(t)
      <2>1. prog' \in [Tasks -> Seq(Calls)]
            BY <1>1, HeadTail DEF SessionTypeOK, Send
      <2>2. PICK req \in Requests : toDev' = IF alive THEN Append(toDev, req) ELSE toDev
            BY <1>1, SendRequest
      <2>3. toDev' \in Seq(Requests)
            BY <2>2, AppendProperties DEF SessionTypeOK
      <2>4. DOMAIN wait' = Tasks /\ reqs' \in Nat
            BY <1>1 DEF SessionTypeOK, Send
      <2>5. UNCHANGED <<mode, stage, conn, made, client, last, cl, alive>>
            BY <1>1 DEF Send, clientVars
      <2> QED BY <2>1, <2>3, <2>4, <2>5 DEF SessionTypeOK
<1>2. CASE SendFails(t)
      <2>1. prog' \in [Tasks -> Seq(Calls)]
            BY <1>2, HeadTail, EmptySeq DEF SessionTypeOK, SendFails
      <2>2. UNCHANGED <<mode, stage, conn, made, client, last, cl, alive, toDev, wait, reqs>>
            BY <1>2 DEF SendFails, clientVars
      <2> QED BY <2>1, <2>2 DEF SessionTypeOK
<1>3. CASE Take(t)
      <2>1. prog' \in [Tasks -> Seq(Calls)]
            BY <1>3, EmptySeq DEF SessionTypeOK, Take, Ended
      <2>2. stage' \in {stage, "closing"} /\ DOMAIN wait' = Tasks
            BY <1>3 DEF SessionTypeOK, Take, Ended
      <2>3. UNCHANGED <<mode, conn, made, client, last, cl, alive, toDev, reqs>>
            BY <1>3 DEF Take
      <2> QED BY <2>1, <2>2, <2>3 DEF SessionTypeOK
<1>4. CASE Publish(t)
      <2>1. prog' \in [Tasks -> Seq(Calls)]
            BY <1>4, HeadTail DEF SessionTypeOK, Publish
      <2>2. Args(t) \in ViewArgs
            BY DEF Args, ViewArgs
      <2>3. last' \in [Clients -> ViewArgs \cup {NoArgs}]
            BY <1>4, <2>2 DEF SessionTypeOK, Publish
      <2>4. UNCHANGED <<mode, stage, conn, made, client, cl, alive, toDev, wait, reqs>>
            BY <1>4 DEF Publish
      <2> QED BY <2>1, <2>3, <2>4 DEF SessionTypeOK
<1>5. CASE Expire(t)
      <2>1. prog' \in [Tasks -> Seq(Calls)]
            BY <1>5, EmptySeq DEF SessionTypeOK, Expire, Ended
      <2>2. stage' \in {stage, "closing"} /\ DOMAIN wait' = Tasks
            BY <1>5 DEF SessionTypeOK, Expire, Ended
      <2>3. UNCHANGED <<mode, conn, made, client, last, cl, alive, toDev, reqs>>
            BY <1>5 DEF Expire, clientVars
      <2> QED BY <2>1, <2>2, <2>3 DEF SessionTypeOK
<1> QED BY <1>1, <1>2, <1>3, <1>4, <1>5 DEF Step

\* Requests written and answered on a connection, in order: what is asked is not
\* forgotten, and an action's request comes behind capabilities and event storage.
LEMMA AskedGrows ==
    ASSUME toDev \in Seq(Requests), NEW req \in Requests, toDev' = Append(toDev, req),
           seen' = seen
    PROVE  Asked' = Asked \cup {req.cmd}
<1>1. /\ Len(toDev') = Len(toDev) + 1 /\ Len(toDev) \in Nat
      /\ \A j \in 1..Len(toDev) : toDev'[j] = toDev[j]
      /\ toDev'[Len(toDev) + 1] = req
      BY AppendProperties
<1>2. \A j \in 1..Len(toDev') : j \in 1..Len(toDev) \/ j = Len(toDev) + 1
      BY <1>1
<1>3. /\ \A j \in 1..Len(toDev) : j \in 1..Len(toDev')
      /\ Len(toDev) + 1 \in 1..Len(toDev')
      BY <1>1
<1> QED BY <1>1, <1>2, <1>3 DEF Asked

LEMMA BehindTheRest ==
    ASSUME toDev \in Seq(Requests), NEW req \in Requests, toDev' = Append(toDev, req),
           seen' = seen, InitialisedFirst,
           req.dp \in {"sit", "status", "start"} => {"caps", "storage"} \subseteq Asked
    PROVE  InitialisedFirst'
<1>1. /\ Len(toDev') = Len(toDev) + 1 /\ Len(toDev) \in Nat
      /\ \A j \in 1..Len(toDev) : toDev'[j] = toDev[j]
      /\ toDev'[Len(toDev) + 1] = req /\ toDev' \in Seq(Requests)
      BY AppendProperties
<1>2. DOMAIN toDev = 1..Len(toDev) /\ DOMAIN toDev' = 1..Len(toDev')
      BY <1>1
<1> SUFFICES ASSUME NEW i \in 1..Len(toDev'), toDev'[i].dp \in {"sit", "status", "start"}
             PROVE  {"caps", "storage"} \subseteq seen' \cup {toDev'[j].cmd : j \in 1..i}
    BY <1>2 DEF InitialisedFirst
<1>3. CASE i \in 1..Len(toDev)
      <2>1. {"caps", "storage"} \subseteq seen \cup {toDev[j].cmd : j \in 1..i}
            BY <1>1, <1>2, <1>3 DEF InitialisedFirst
      <2>2. \A j \in 1..i : j \in 1..Len(toDev)
            BY <1>1, <1>3
      <2> QED BY <1>1, <2>1, <2>2
<1>4. CASE i = Len(toDev) + 1
      <2>1. {"caps", "storage"} \subseteq seen \cup {toDev[j].cmd : j \in 1..Len(toDev)}
            BY <1>1, <1>4 DEF Asked
      <2>2. \A j \in 1..Len(toDev) : j \in 1..i
            BY <1>1, <1>4
      <2> QED BY <1>1, <2>1, <2>2
<1> QED BY <1>1, <1>3, <1>4

LEMMA SendKeeps ==
    ASSUME AlbaInv, NEW t \in Tasks, Send(t)
    PROVE  AlbaInv'
<1>1. SessionTypeOK /\ SessionTypeOK'
      BY StepType DEF AlbaInv, Step
<1>2. /\ prog \in [Tasks -> Seq(Calls)] /\ toDev \in Seq(Requests) /\ alive \in BOOLEAN
      /\ "main" \in Tasks /\ prog[t] # <<>>
      BY <1>1 DEF SessionTypeOK, Send, Tasks
<1>3. PICK req \in Requests :
              /\ req.cmd = Head(prog[t]).cmd /\ req.dp = Head(prog[t]).dp
              /\ toDev' = IF alive THEN Append(toDev, req) ELSE toDev
      BY <1>1, SendRequest
<1>4. /\ UNCHANGED <<mode, stage, conn, made, client, cl, last, view, bypassed, alive, seen>>
      /\ prog' = [prog EXCEPT ![t] = Tail(@)] /\ Connected(t)
      BY DEF Send, clientVars
<1>5. Shrinks
      BY <1>2, <1>4 DEF Shrinks
<1>6. alive => Asked' = Asked \cup {req.cmd}
      BY <1>2, <1>3, <1>4, AskedGrows
<1>7. req.dp \in {"sit", "status", "start"} /\ alive => {"caps", "storage"} \subseteq Asked
      <2>1. Head(prog[t]) = prog[t][1] /\ 1 \in 1..Len(prog[t])
            BY <1>2, HeadTail
      <2>2. req.dp \in {"sit", "status", "start"} => Acts(t)
            BY <1>3, <2>1 DEF Acts
      <2> QED BY <1>4, <2>2 DEF AlbaInv, AskInv
<1>8. InitialisedFirst'
      <2>1. CASE alive
            BY <1>2, <1>3, <1>4, <1>7, <2>1, BehindTheRest DEF AlbaInv
      <2>2. CASE ~alive
            BY <1>3, <1>4, <2>2 DEF AlbaInv, InitialisedFirst
      <2> QED BY <2>1, <2>2
<1>9. alive => Pending \subseteq Pending' \cup {req.cmd}
      <2>1. CASE t = "main"
            <3>1. /\ Head(prog["main"]) = prog["main"][1]
                  /\ \A i \in 1..Len(prog["main"]) : i = 1 \/
                        \E j \in 1..Len(Tail(prog["main"])) : Tail(prog["main"])[j] = prog["main"][i]
                  BY <1>2, <2>1, HeadTail
            <3>2. prog'["main"] = Tail(prog["main"])
                  BY <1>2, <1>4, <2>1
            <3>3. \A i \in 1..Len(prog["main"]) : prog["main"][i].cmd = req.cmd \/
                        \E j \in 1..Len(prog'["main"]) : prog'["main"][j].cmd = prog["main"][i].cmd
                  BY <1>3, <2>1, <3>1, <3>2
            <3> QED BY <3>3, Zenon DEF Pending
      <2>2. CASE t # "main"
            <3>1. prog'["main"] = prog["main"]
                  BY <1>2, <1>4, <2>2
            <3> QED BY <3>1 DEF Pending
      <2> QED BY <2>1, <2>2
<1>10. alive' /\ PostConnecting' => {"caps", "storage"} \subseteq Asked' \cup Pending'
      <2>1. alive /\ PostConnecting => {"caps", "storage"} \subseteq Asked \cup Pending
            BY DEF AlbaInv, AskInv
      <2> QED BY <1>4, <1>6, <1>9, <2>1 DEF PostConnecting
<1>11. ~alive' => toDev' = <<>>
      BY <1>3, <1>4 DEF AlbaInv, AskInv
<1>12. stage # "down"
      BY <1>4 DEF Connected
<1> QED BY <1>1, <1>4, <1>5, <1>6, <1>8, <1>10, <1>11, <1>12, StepWithin

\* A step that leaves the connection alone.
LEMMA ConnectionLeft ==
    ASSUME AlbaInv, UNCHANGED <<toDev, seen, alive>>
    PROVE  /\ InitialisedFirst' /\ Asked' = Asked /\ (~alive' => toDev' = <<>>)
           /\ PostConnecting /\ alive' /\ Pending' = Pending
                => {"caps", "storage"} \subseteq Asked' \cup Pending'
<1>1. InitialisedFirst' /\ Asked' = Asked /\ (~alive' => toDev' = <<>>)
      BY DEF AlbaInv, InitialisedFirst, Asked, AskInv
<1>2. ASSUME PostConnecting, alive', Pending' = Pending
      PROVE  {"caps", "storage"} \subseteq Asked' \cup Pending'
      BY <1>1, <1>2 DEF AlbaInv, AskInv
<1> QED BY <1>1, <1>2

LEMMA SendFailsKeeps ==
    ASSUME AlbaInv, NEW t \in Tasks, SendFails(t)
    PROVE  AlbaInv'
<1>1. SessionTypeOK /\ SessionTypeOK'
      BY StepType DEF AlbaInv, Step
<1>2. /\ UNCHANGED <<mode, stage, conn, made, client, cl, last, view, bypassed, alive, seen, toDev, wait>>
      /\ ~Connected(t) /\ prog' \in [Tasks -> Seq(Calls)] /\ prog[t] # <<>>
      /\ prog' = [prog EXCEPT ![t] = IF Head(@).caught THEN Tail(@) ELSE <<>>]
      BY <1>1 DEF SendFails, clientVars, ghostVars, SessionTypeOK
<1>3. prog \in [Tasks -> Seq(Calls)] /\ "main" \in Tasks
      BY <1>1 DEF SessionTypeOK, Tasks
<1>4. Shrinks
      BY <1>2, <1>3 DEF Shrinks
<1>5. PostConnecting => Pending' = Pending
      <2>1. PostConnecting => t # "main"
            BY <1>2 DEF AlbaInv, ClientInv, PostConnecting, Connected
      <2>2. t # "main" => prog'["main"] = prog["main"]
            BY <1>2, <1>3
      <2> QED BY <2>1, <2>2 DEF Pending
<1>6. stage = "down" => wait'["main"] = Idle
      BY <1>2 DEF AlbaInv, ClientInv
<1>7. PostConnecting' => PostConnecting
      BY <1>2 DEF PostConnecting
<1>8. InitialisedFirst' /\ Asked' = Asked /\ (~alive' => toDev' = <<>>)
      BY <1>2, ConnectionLeft
<1>9. alive' /\ PostConnecting' => {"caps", "storage"} \subseteq Asked' \cup Pending'
      BY <1>2, <1>5, <1>7, ConnectionLeft
<1> QED BY <1>1, <1>2, <1>4, <1>6, <1>8, <1>9, StepWithin

\* A call ends, or goes on.
LEMMA CallKeeps ==
    ASSUME AlbaInv, NEW t \in Tasks, Take(t) \/ Expire(t)
    PROVE  AlbaInv'
<1>1. SessionTypeOK /\ SessionTypeOK'
      BY StepType DEF AlbaInv, Step
<1>2. UNCHANGED <<mode, conn, made, client, cl, last, view, bypassed, alive, seen, toDev>>
      BY DEF Take, Expire, clientVars
<1>3. /\ prog \in [Tasks -> Seq(Calls)] /\ "main" \in Tasks /\ DOMAIN wait = Tasks
      /\ "main" \in DOMAIN wait /\ Busy(t)
      BY <1>1 DEF SessionTypeOK, Tasks, Take, Expire
<1>4. \/ prog' = prog /\ stage' = stage
      \/ prog' = [prog EXCEPT ![t] = <<>>] /\ stage' = IF t = "main" THEN "closing" ELSE stage
      BY DEF Take, Expire, Ended
<1>5. t # "main" => wait'["main"] = wait["main"]
      BY <1>3 DEF Take, Expire, Ended
<1>6. stage = "down" => t # "main" /\ wait["main"] = Idle
      BY <1>3 DEF AlbaInv, ClientInv, Busy
<1>7. stage = "down" => wait'["main"] = Idle
      BY <1>5, <1>6
<1>8. stage' = stage \/ (stage # "down" /\ stage' = "closing")
      BY <1>4, <1>6
<1>9. Shrinks
      BY <1>3, <1>4 DEF Shrinks
<1>10. PostConnecting' => PostConnecting /\ Pending' = Pending
      <2>1. PostConnecting' => PostConnecting
            BY <1>8 DEF PostConnecting
      <2>2. PostConnecting' => prog'["main"] = prog["main"]
            BY <1>3, <1>4 DEF PostConnecting
      <2> QED BY <2>1, <2>2 DEF Pending
<1>11. InitialisedFirst' /\ Asked' = Asked /\ (~alive' => toDev' = <<>>)
      BY <1>2, ConnectionLeft
<1>12. alive' /\ PostConnecting' => {"caps", "storage"} \subseteq Asked' \cup Pending'
      BY <1>2, <1>10, ConnectionLeft
<1> QED BY <1>1, <1>2, <1>7, <1>8, <1>9, <1>11, <1>12, StepWithin

-----------------------------------------------------------------------------
\* The device and the connection.

LEMMA DispatchKeeps ==
    ASSUME AlbaInv, Dispatch
    PROVE  AlbaInv'
<1>1. SessionTypeOK /\ InitialisedFirst /\ toDev \in Seq(Requests) /\ toDev # <<>>
      BY DEF AlbaInv, SessionTypeOK, Dispatch
<1>2. /\ UNCHANGED <<mode, stage, conn, made, client, cl, last, view, bypassed, alive, prog, wait, reqs>>
      /\ toDev' = Tail(toDev) /\ seen' = seen \cup {Head(toDev).cmd}
      BY DEF Dispatch, clientVars, taskVars, ghostVars
<1>3. /\ toDev' \in Seq(Requests) /\ Len(toDev) \in Nat /\ Len(toDev') = Len(toDev) - 1
      /\ \A i \in 1..Len(toDev') : toDev'[i] = toDev[i + 1]
      /\ Head(toDev) = toDev[1] /\ 1 \in 1..Len(toDev)
      /\ DOMAIN toDev = 1..Len(toDev) /\ DOMAIN toDev' = 1..Len(toDev')
      BY <1>1, <1>2
<1>4. SessionTypeOK'
      BY <1>1, <1>2, <1>3 DEF SessionTypeOK
<1>5. \A n \in 1..Len(toDev) : \A j \in 1..n :
         j = 1 \/ (j - 1 \in 1..(n - 1) /\ j - 1 \in 1..Len(toDev') /\ toDev'[j - 1] = toDev[j])
      BY <1>3
<1>6. ASSUME NEW n \in 1..Len(toDev)
      PROVE  seen \cup {toDev[j].cmd : j \in 1..n} \subseteq seen' \cup {toDev'[j].cmd : j \in 1..(n - 1)}
      <2>1. \A j \in 1..n : toDev[j].cmd = Head(toDev).cmd \/
               \E k \in 1..(n - 1) : toDev[j].cmd = toDev'[k].cmd
            BY <1>3, <1>5
      <2> QED BY <1>2, <2>1, Zenon
<1>7. InitialisedFirst'
      <2> SUFFICES ASSUME NEW i \in 1..Len(toDev'), toDev'[i].dp \in {"sit", "status", "start"}
                   PROVE  {"caps", "storage"} \subseteq seen' \cup {toDev'[j].cmd : j \in 1..i}
          BY <1>3 DEF InitialisedFirst
      <2>1. i + 1 \in 1..Len(toDev) /\ toDev[i + 1] = toDev'[i] /\ (i + 1) - 1 = i
            BY <1>3
      <2>2. {"caps", "storage"} \subseteq seen \cup {toDev[j].cmd : j \in 1..(i + 1)}
            BY <1>1, <1>3, <2>1 DEF InitialisedFirst
      <2>3. seen \cup {toDev[j].cmd : j \in 1..(i + 1)} \subseteq seen' \cup {toDev'[j].cmd : j \in 1..((i + 1) - 1)}
            BY <1>6, <2>1
      <2> QED BY <2>1, <2>2, <2>3
<1>8. Asked \subseteq Asked'
      <2>1. Len(toDev) \in 1..Len(toDev)
            BY <1>3
      <2>2. seen \cup {toDev[j].cmd : j \in 1..Len(toDev)} \subseteq seen' \cup {toDev'[j].cmd : j \in 1..(Len(toDev) - 1)}
            BY <1>6, <2>1
      <2> QED BY <1>3, <2>2 DEF Asked
<1>9. Shrinks
      BY <1>2 DEF Shrinks
<1>10. ~alive' => toDev' = <<>>
      BY <1>1, <1>2 DEF AlbaInv, AskInv
<1>11. alive' /\ PostConnecting' => {"caps", "storage"} \subseteq Asked' \cup Pending'
      <2>1. alive /\ PostConnecting => {"caps", "storage"} \subseteq Asked \cup Pending
            BY DEF AlbaInv, AskInv
      <2> QED BY <1>2, <1>8, <2>1 DEF PostConnecting, Pending
<1>12. stage = "down" => wait'["main"] = Idle
      BY <1>2 DEF AlbaInv, ClientInv
<1> QED BY <1>2, <1>4, <1>7, <1>8, <1>9, <1>10, <1>11, <1>12, StepWithin

LEMMA LoseKeeps ==
    ASSUME AlbaInv, Lose
    PROVE  AlbaInv'
<1>1. /\ UNCHANGED <<mode, stage, conn, made, client, cl, last, view, bypassed, prog, wait, reqs>>
      /\ toDev' = <<>> /\ alive' = FALSE
      BY DEF Lose, clientVars, taskVars, ghostVars
<1>2. SessionTypeOK'
      BY <1>1, EmptySeq DEF AlbaInv, SessionTypeOK
<1>3. InitialisedFirst'
      BY <1>1 DEF InitialisedFirst
<1>4. Shrinks
      BY <1>1 DEF Shrinks
<1>5. stage = "down" => wait'["main"] = Idle
      BY <1>1 DEF AlbaInv, ClientInv
<1> QED BY <1>1, <1>2, <1>3, <1>4, <1>5, StepWithin

LEMMA StutterKeeps ==
    ASSUME AlbaInv, StopSequence \/ UNCHANGED vars
    PROVE  AlbaInv'
<1>1. UNCHANGED <<mode, stage, conn, made, client, cl, last, view, bypassed, prog, wait, reqs, alive, toDev, seen>>
      BY DEF StopSequence, vars, clientVars, taskVars, ghostVars
<1>2. SessionTypeOK'
      BY <1>1 DEF AlbaInv, SessionTypeOK
<1>3. Shrinks
      BY <1>1 DEF Shrinks
<1>4. stage = "down" => wait'["main"] = Idle
      BY <1>1 DEF AlbaInv, ClientInv
<1>5. InitialisedFirst' /\ Asked' = Asked /\ (~alive' => toDev' = <<>>)
      BY <1>1, ConnectionLeft
<1>6. alive' /\ PostConnecting' => {"caps", "storage"} \subseteq Asked' \cup Pending'
      <2>1. Pending' = Pending /\ (PostConnecting' => PostConnecting)
            BY <1>1 DEF Pending, PostConnecting
      <2> QED BY <1>1, <2>1, ConnectionLeft
<1> QED BY <1>1, <1>2, <1>3, <1>4, <1>5, <1>6, StepWithin

-----------------------------------------------------------------------------
\* Publication.

\* What is published of a poll of the session's client is what the view lacks, and
\* whatever else is published marks its fields.
LEMMA PublishedView ==
    ASSUME AlbaAssumption, SessionTypeOK, ViewIsLast, ClientInv, NEW t \in Tasks, Publish(t),
           cl[t] \in Clients
    PROVE  ViewIsLast'
<1> DEFINE prev == last[cl[t]]
           args == Args(t)
           ks == Published(prev, args)
           field == Head(prog[t]).dp
<1>1. /\ args \in ViewArgs /\ DOMAIN args = Fields /\ prev \in ViewArgs \cup {NoArgs}
      /\ \A x \in ViewArgs : DOMAIN x = Fields
      BY DEF Args, ViewArgs, SessionTypeOK, Fields
<1>2. client' = client /\ mode' = mode
      BY DEF Publish
<1>3. SUFFICES ASSUME client # 0, last'[client] # NoArgs, NEW k \in Fields \ bypassed'
               PROVE  k \in DOMAIN view' /\ view'[k] = last'[client][k]
      BY <1>2 DEF ViewIsLast
<1>4. CASE /\ mode = "service" /\ view' = Shown(ks, args)
           /\ last' = [last EXCEPT ![cl[t]] = args]
           /\ bypassed' = IF cl[t] = client THEN bypassed \ ks ELSE bypassed \cup ks
      <2> HIDE DEF args, prev
      <2>1. /\ DOMAIN view' = DOMAIN view \cup ks
            /\ k \in DOMAIN view' => view'[k] = IF k \in ks THEN args[k] ELSE view[k]
            BY <1>4 DEF Shown
      <2>2. CASE cl[t] = client
            <3>1. last'[client] = args
                  BY <1>4, <2>2 DEF SessionTypeOK
            <3>2. CASE k \in ks
                  BY <2>1, <3>1, <3>2
            <3>3. CASE k \notin ks
                  <4>1. prev # NoArgs /\ args[k] = prev[k]
                        BY <1>1, <3>3 DEF Published
                  <4>2. k \notin bypassed
                        BY <1>3, <1>4, <2>2, <3>3
                  <4>3. k \in DOMAIN view /\ view[k] = prev[k]
                        BY <1>3, <2>2, <4>1, <4>2 DEF ViewIsLast, prev
                  <4> QED BY <2>1, <3>1, <3>3, <4>1, <4>3
            <3> QED BY <3>2, <3>3
      <2>3. CASE cl[t] # client
            <3>1. last'[client] = last[client]
                  BY <1>2, <1>4, <2>3 DEF SessionTypeOK
            <3>2. k \notin bypassed /\ k \notin ks
                  BY <1>3, <1>4, <2>3
            <3> QED BY <1>3, <2>1, <3>1, <3>2 DEF ViewIsLast
      <2> QED BY <2>2, <2>3
<1>5. CASE mode = "esphome" /\ last' = last
      <2>1. client \in Clients
            BY <1>3 DEF SessionTypeOK, Clients, AlbaAssumption
      <2> QED BY <1>3, <1>5, <2>1 DEF ClientInv
<1>6. CASE /\ view' = Shown({field}, SystemParameters(t)) /\ last' = last
           /\ bypassed' = bypassed \cup {field}
      <2> HIDE DEF field
      <2>1. k # field /\ k \notin bypassed
            BY <1>3, <1>6
      <2>2. k \in DOMAIN view /\ view[k] = last[client][k]
            BY <1>3, <1>6, <2>1 DEF ViewIsLast
      <2> QED BY <1>6, <2>1, <2>2 DEF Shown
<1> QED BY <1>4, <1>5, <1>6 DEF Publish

LEMMA PublishKeeps ==
    ASSUME AlbaInv, AlbaAssumption, NEW t \in Tasks, Publish(t)
    PROVE  AlbaInv'
<1>1. SessionTypeOK /\ SessionTypeOK' /\ ClientInv /\ ViewInv /\ AskInv
      BY StepType DEF AlbaInv, Step
<1>2. /\ UNCHANGED <<mode, stage, conn, made, client, cl, cut, alive, seen, toDev, wait>>
      /\ prog' = [prog EXCEPT ![t] = Tail(@)] /\ prog[t] # <<>> /\ Head(prog[t]).cmd = "publish"
      BY DEF Publish, ghostVars
<1>3. prog \in [Tasks -> Seq(Calls)] /\ "main" \in Tasks /\ "cmd" \in Tasks
      BY <1>1 DEF SessionTypeOK, Tasks
<1>4. Shrinks
      BY <1>2, <1>3 DEF Shrinks
<1>5. \A o \in Tasks : /\ Publishes(o)' => Publishes(o)
                       /\ Acts(o)' => Acts(o)
                       /\ prog'[o] # <<>> => prog[o] # <<>>
      <2> SUFFICES ASSUME NEW o \in Tasks
                   PROVE  /\ Publishes(o)' => Publishes(o)
                          /\ Acts(o)' => Acts(o)
                          /\ prog'[o] # <<>> => prog[o] # <<>>
          OBVIOUS
      <2>1. /\ \A i \in 1..Len(prog'[o]) : \E j \in 1..Len(prog[o]) : prog'[o][i] = prog[o][j]
            /\ prog'[o] # <<>> => prog[o] # <<>>
            BY <1>3, <1>4, Shrunk
      <2> QED BY <2>1 DEF Publishes, Acts
<1>6. Publishes(t)
      BY <1>2, <1>3, HeadTail DEF Publishes
<1>7. cl[t] \in 1..made /\ 1..made \subseteq Clients
      BY <1>1, <1>2 DEF ClientInv, SessionTypeOK, Clients, AlbaAssumption
<1>8. \A c \in Clients : c = cl[t] \/ last'[c] = last[c]
      BY <1>1, <1>7 DEF Publish, SessionTypeOK
<1>9. mode = "esphome" => last' = last
      BY DEF Publish
<1>10. PostConnecting' <=> PostConnecting
      BY <1>2 DEF PostConnecting
<1>11. PostConnecting => t # "main"
      BY <1>1, <1>6 DEF ClientInv
<1>12. ClientInv'
      <2>1. /\ \A o \in Tasks : prog'[o] # <<>> => cl'[o] \in 1..made'
            /\ stage' = "down" => prog'["main"] = <<>> /\ wait'["main"] = Idle
            /\ stage' \in {"again", "twice", "ready"} => client' # 0
            BY <1>1, <1>2, <1>3, <1>5 DEF ClientInv
      <2>2. \A c \in Clients : c > made' => last'[c] = NoArgs
            <3>1. ~(cl[t] > made)
                  BY <1>1, <1>7 DEF SessionTypeOK
            <3> QED BY <1>1, <1>2, <1>8, <3>1 DEF ClientInv
      <2>3. mode' = "esphome" => prog'["cmd"] = <<>> /\ \A c \in Clients : last'[c] = NoArgs
            BY <1>1, <1>2, <1>3, <1>5, <1>9 DEF ClientInv
      <2>4. PostConnecting' =>
              /\ cl'["main"] \in 1..made' /\ (mode' = "service" => cl'["main"] = made')
              /\ ~Publishes("main")' /\ ~Acts("main")'
              /\ prog'["cmd"] # <<>> => cl'["cmd"] # made'
            BY <1>1, <1>2, <1>3, <1>5, <1>10 DEF ClientInv
      <2> QED BY <2>1, <2>2, <2>3, <2>4 DEF ClientInv
<1>13. ViewInv'
      <2>1. stage' = "dispatch" => last'[cl'["main"]] = NoArgs
            <3>1. SUFFICES ASSUME stage = "dispatch" PROVE last'[cl["main"]] = NoArgs
                  BY <1>2
            <3>2. PostConnecting /\ t # "main"
                  BY <1>11, <3>1 DEF PostConnecting
            <3>3. t = "cmd" /\ mode = "service" /\ cl["main"] = made /\ cl[t] # made
                  BY <1>1, <1>2, <1>3, <3>2 DEF ClientInv, Tasks, SessionTypeOK
            <3>4. cl["main"] \in Clients
                  BY <1>1, <1>7, <3>2 DEF ClientInv
            <3> QED BY <1>1, <1>8, <3>1, <3>3, <3>4 DEF ViewInv
      <2>2. ViewIsLast'
            <3>1. ViewIsLast /\ cl[t] \in Clients
                  BY <1>1, <1>7 DEF ViewInv
            <3> QED BY <1>1, <3>1, PublishedView
      <2> QED BY <2>1, <2>2 DEF ViewInv
<1>14. InitialisedFirst' /\ Asked' = Asked /\ (~alive' => toDev' = <<>>)
      BY <1>2, ConnectionLeft
<1>15. AskInv'
      <2>1. \A o \in Tasks : Connected(o)' <=> Connected(o)
            BY <1>2 DEF Connected
      <2>2. PostConnecting => Pending' = Pending
            <3>1. t # "main" => prog'["main"] = prog["main"]
                  BY <1>2, <1>3
            <3> QED BY <1>11, <3>1 DEF Pending
      <2>3. ASSUME alive' PROVE stage' = "ready" => {"caps", "storage"} \subseteq Asked'
            BY <1>1, <1>2, <1>14, <2>3 DEF AskInv
      <2>4. ASSUME alive' PROVE PostConnecting' => {"caps", "storage"} \subseteq Asked' \cup Pending'
            BY <1>1, <1>2, <1>10, <1>14, <2>2, <2>4 DEF AskInv
      <2>5. ASSUME alive', NEW o \in Tasks, Acts(o)', Connected(o)'
            PROVE  {"caps", "storage"} \subseteq Asked'
            BY <1>1, <1>2, <1>5, <1>14, <2>1, <2>5 DEF AskInv
      <2> QED BY <1>14, <2>3, <2>4, <2>5 DEF AskInv
<1> QED BY <1>1, <1>12, <1>13, <1>14, <1>15 DEF AlbaInv

-----------------------------------------------------------------------------
\* Sessions and actions.

\* post_connect begins.
LEMMA PostConnectBegins ==
    ASSUME NEW c, prog'["main"] = PostConnect(c)
    PROVE  /\ prog'["main"] \in Seq(Calls) /\ prog'["main"] # <<>>
           /\ ~Publishes("main")' /\ ~Acts("main")'
           /\ {"caps", "storage"} \subseteq Pending'
<1>1. /\ PostConnect(c) \in Seq(Calls) /\ PostConnect(c) # <<>>
      /\ \A i \in 1..Len(PostConnect(c)) :
            /\ PostConnect(c)[i].cmd # "publish"
            /\ PostConnect(c)[i].dp \notin {"sit", "status", "start"}
      /\ \E i \in 1..Len(PostConnect(c)) : PostConnect(c)[i].cmd = "caps"
      /\ \E i \in 1..Len(PostConnect(c)) : PostConnect(c)[i].cmd = "storage"
      BY PostConnectCalls
<1>2. prog'["main"] \in Seq(Calls) /\ prog'["main"] # <<>>
      BY <1>1, Zenon
<1>3. ~Publishes("main")' /\ ~Acts("main")'
      BY <1>1 DEF Publishes, Acts
<1>4. {"caps", "storage"} \subseteq Pending'
      BY <1>1 DEF Pending
<1> QED BY <1>2, <1>3, <1>4

LEMMA OpenKeeps ==
    ASSUME AlbaInv, AlbaAssumption, Open
    PROVE  AlbaInv'
<1>1. SessionTypeOK /\ ClientInv /\ ViewInv /\ AskInv /\ InitialisedFirst
      BY DEF AlbaInv
<1>2. /\ stage = "down" /\ conn' = conn + 1 /\ conn < MaxSessions /\ alive' = TRUE
      /\ prog["main"] = <<>> /\ wait["main"] = Idle
      /\ UNCHANGED <<mode, last, view, bypassed, wait, toDev, seen, reqs>>
      BY DEF Open, Busy, ghostVars
<1>3. /\ prog \in [Tasks -> Seq(Calls)] /\ cl \in [Tasks -> Nat]
      /\ "main" \in Tasks /\ "cmd" \in Tasks /\ Tasks = {"main", "cmd"}
      BY <1>1 DEF SessionTypeOK, Tasks
<1>4. \E c \in Nat :
         /\ prog' = [prog EXCEPT !["main"] = PostConnect(c)]
         /\ cl' = [cl EXCEPT !["main"] = c] /\ c \in 1..made' /\ made' \in {made, made + 1}
         /\ \/ /\ mode = "esphome" /\ stage' = "again" /\ client # 0
               /\ UNCHANGED <<client, made>>
            \/ /\ c = made' /\ made' = made + 1 /\ client' = 0 /\ stage' = "dispatch"
      <2>1. CASE mode = "esphome" /\ client # 0 /\ stage' = "again"
            <3>1. client \in Nat /\ client \in 1..made
                  BY <1>1, <2>1 DEF SessionTypeOK
            <3>2. /\ prog' = [prog EXCEPT !["main"] = PostConnect(client)]
                  /\ cl' = [cl EXCEPT !["main"] = client] /\ UNCHANGED <<client, made>>
                  BY <2>1 DEF Open
            <3> QED BY <2>1, <3>1, <3>2
      <2>2. CASE stage' = "dispatch"
            <3>1. made + 1 \in Nat /\ made + 1 \in 1..(made + 1)
                  BY <1>1 DEF SessionTypeOK
            <3>2. /\ prog' = [prog EXCEPT !["main"] = PostConnect(made + 1)] /\ client' = 0
                  /\ cl' = [cl EXCEPT !["main"] = made + 1] /\ made' = made + 1
                  BY <2>2 DEF Open
            <3> QED BY <2>2, <3>1, <3>2
      <2> QED BY <2>1, <2>2 DEF Open
<1>5. PICK c \in Nat :
         /\ prog' = [prog EXCEPT !["main"] = PostConnect(c)]
         /\ cl' = [cl EXCEPT !["main"] = c] /\ c \in 1..made' /\ made' \in {made, made + 1}
         /\ \/ /\ mode = "esphome" /\ stage' = "again" /\ client # 0
               /\ UNCHANGED <<client, made>>
            \/ /\ c = made' /\ made' = made + 1 /\ client' = 0 /\ stage' = "dispatch"
      BY <1>4
<1>6. /\ prog'["main"] = PostConnect(c) /\ prog'["cmd"] = prog["cmd"]
      /\ cl'["main"] = c /\ cl'["cmd"] = cl["cmd"]
      BY <1>3, <1>5
<1>7. /\ prog'["main"] \in Seq(Calls) /\ prog'["main"] # <<>>
      /\ ~Publishes("main")' /\ ~Acts("main")'
      /\ {"caps", "storage"} \subseteq Pending'
      BY <1>6, PostConnectBegins
<1>8. SessionTypeOK'
      <2>1. prog' \in [Tasks -> Seq(Calls)] /\ cl' \in [Tasks -> Nat]
            BY <1>3, <1>5, <1>6, <1>7
      <2>2. conn' \in 0..MaxSessions /\ made' \in 0..conn' /\ client' \in 0..made'
            BY <1>1, <1>2, <1>5 DEF SessionTypeOK, AlbaAssumption
      <2>3. stage' \in {"again", "dispatch"} /\ alive' \in BOOLEAN
            BY <1>2, <1>5
      <2> QED BY <1>1, <1>2, <2>1, <2>2, <2>3 DEF SessionTypeOK
<1>9. mode = "esphome" => prog["cmd"] = <<>>
      BY <1>1 DEF ClientInv
<1>10. prog["cmd"] # <<>> => /\ cl["cmd"] \in 1..made /\ made' = made + 1
                             /\ cl["cmd"] \in 1..made' /\ cl["cmd"] # made'
      <2>1. prog["cmd"] # <<>> => cl["cmd"] \in 1..made /\ made' = made + 1
            BY <1>1, <1>3, <1>5, <1>9 DEF ClientInv
      <2> QED BY <1>1, <2>1 DEF SessionTypeOK
<1>11. ClientInv'
      <2>1. \A t \in Tasks : prog'[t] # <<>> => cl'[t] \in 1..made'
            BY <1>3, <1>5, <1>6, <1>10
      <2>2. \A d \in Clients : d > made' => last'[d] = NoArgs
            <3>1. \A d \in Clients : d > made' => d > made
                  BY <1>1, <1>5 DEF SessionTypeOK, Clients
            <3> QED BY <1>1, <1>2, <3>1 DEF ClientInv
      <2>3. mode' = "esphome" => prog'["cmd"] = <<>> /\ \A d \in Clients : last'[d] = NoArgs
            BY <1>1, <1>2, <1>6 DEF ClientInv
      <2>4. stage' \in {"again", "twice", "ready"} => client' # 0
            BY <1>5
      <2>5. /\ cl'["main"] \in 1..made' /\ (mode' = "service" => cl'["main"] = made')
            /\ prog'["cmd"] # <<>> => cl'["cmd"] # made'
            BY <1>2, <1>5, <1>6, <1>10
      <2>6. stage' # "down"
            BY <1>5
      <2> QED BY <1>7, <2>1, <2>2, <2>3, <2>4, <2>5, <2>6 DEF ClientInv
<1>12. ViewInv'
      <2>1. stage' = "dispatch" => last'[cl'["main"]] = NoArgs
            <3>1. stage' = "dispatch" => c > made /\ c \in Clients
                  BY <1>1, <1>2, <1>5 DEF SessionTypeOK, Clients, AlbaAssumption
            <3> QED BY <1>1, <1>2, <1>6, <3>1 DEF ClientInv
      <2>2. ViewIsLast'
            BY <1>1, <1>2, <1>5 DEF ViewInv, ViewIsLast
      <2> QED BY <2>1, <2>2 DEF ViewInv
<1>13. AskInv'
      <2>1. ~Acts("cmd")' \/ ~Connected("cmd")'
            <3>1. prog["cmd"] = <<>> => ~Acts("cmd")'
                  BY <1>6 DEF Acts
            <3>2. prog["cmd"] # <<>> => mode' = "service" /\ cl'["cmd"] # made'
                  BY <1>1, <1>2, <1>6, <1>9, <1>10 DEF SessionTypeOK
            <3> QED BY <3>1, <3>2 DEF Connected
      <2>2. stage' # "ready"
            BY <1>5
      <2> QED BY <1>2, <1>3, <1>7, <2>1, <2>2 DEF AskInv
<1>14. InitialisedFirst'
      BY <1>1, <1>2 DEF InitialisedFirst
<1> QED BY <1>8, <1>11, <1>12, <1>13, <1>14 DEF AlbaInv

\* post_connect of an AlbaClient of an earlier session runs a second time.
LEMMA AgainKeeps ==
    ASSUME AlbaInv, Dispatched, stage = "again"
    PROVE  AlbaInv'
<1>1. SessionTypeOK /\ ClientInv /\ ViewInv /\ AskInv /\ InitialisedFirst
      BY DEF AlbaInv
<1>2. /\ stage' = "twice" /\ prog' = [prog EXCEPT !["main"] = PostConnect(client)]
      /\ UNCHANGED <<mode, conn, made, client, last, view, bypassed, wait, cl, alive, toDev, seen,
                   reqs>>
      BY DEF Dispatched, ghostVars
<1>3. /\ prog \in [Tasks -> Seq(Calls)]
      /\ "main" \in Tasks /\ "cmd" \in Tasks /\ Tasks = {"main", "cmd"}
      BY <1>1 DEF SessionTypeOK, Tasks
<1>4. prog'["main"] = PostConnect(client) /\ prog'["cmd"] = prog["cmd"]
      BY <1>2, <1>3
<1>5. /\ prog'["main"] \in Seq(Calls) /\ prog'["main"] # <<>>
      /\ ~Publishes("main")' /\ ~Acts("main")'
      /\ {"caps", "storage"} \subseteq Pending'
      BY <1>4, PostConnectBegins
<1>6. SessionTypeOK'
      <2>1. prog' \in [Tasks -> Seq(Calls)]
            BY <1>2, <1>3, <1>4, <1>5
      <2> QED BY <1>1, <1>2, <2>1 DEF SessionTypeOK
<1>7. PostConnecting /\ PostConnecting'
      BY <1>2 DEF PostConnecting
<1>8. ClientInv'
      <2>1. \A t \in Tasks : prog'[t] # <<>> => cl'[t] \in 1..made'
            BY <1>1, <1>2, <1>3, <1>4, <1>7 DEF ClientInv
      <2>2. \A d \in Clients : d > made' => last'[d] = NoArgs
            BY <1>1, <1>2 DEF ClientInv
      <2>3. mode' = "esphome" => prog'["cmd"] = <<>> /\ \A d \in Clients : last'[d] = NoArgs
            BY <1>1, <1>2, <1>4 DEF ClientInv
      <2>4. stage' # "down" /\ client' # 0
            BY <1>1, <1>2 DEF ClientInv
      <2>5. /\ cl'["main"] \in 1..made' /\ (mode' = "service" => cl'["main"] = made')
            /\ prog'["cmd"] # <<>> => cl'["cmd"] # made'
            BY <1>1, <1>2, <1>4, <1>7 DEF ClientInv
      <2> QED BY <1>5, <2>1, <2>2, <2>3, <2>4, <2>5 DEF ClientInv
<1>9. ViewInv'
      BY <1>1, <1>2 DEF ViewInv, ViewIsLast
<1>10. InitialisedFirst' /\ Asked' = Asked /\ (~alive' => toDev' = <<>>)
      BY <1>2, ConnectionLeft
<1>11. AskInv'
      <2>1. Acts("cmd")' /\ Connected("cmd")' => Acts("cmd") /\ Connected("cmd")
            BY <1>2, <1>4 DEF Acts, Connected
      <2>2. ASSUME alive', Acts("cmd")', Connected("cmd")' PROVE {"caps", "storage"} \subseteq Asked'
            BY <1>1, <1>2, <1>3, <1>10, <2>1, <2>2 DEF AskInv
      <2> QED BY <1>2, <1>3, <1>5, <1>10, <2>2 DEF AskInv
<1> QED BY <1>6, <1>8, <1>9, <1>10, <1>11 DEF AlbaInv

\* The session is ready, with the client post_connect has run on.
LEMMA ReadyKeeps ==
    ASSUME AlbaInv, (Dispatched /\ stage = "dispatch") \/ DispatchedAgain
    PROVE  AlbaInv'
<1>1. SessionTypeOK /\ ClientInv /\ ViewInv /\ AskInv /\ InitialisedFirst
      BY DEF AlbaInv
<1>2. /\ stage' = "ready" /\ prog["main"] = <<>>
      /\ UNCHANGED <<mode, conn, made, last, view, bypassed, wait, prog, cl, alive, toDev, seen,
                   reqs>>
      /\ \/ stage = "dispatch" /\ client' = cl["main"]
         \/ stage = "twice" /\ client' = client
      BY DEF Dispatched, DispatchedAgain, ghostVars, taskVars
<1>3. "main" \in Tasks /\ "cmd" \in Tasks /\ Tasks = {"main", "cmd"}
      BY DEF Tasks
<1>4. PostConnecting /\ ~PostConnecting'
      BY <1>2 DEF PostConnecting
<1>5. client' \in 1..made
      BY <1>1, <1>2, <1>4 DEF ClientInv, SessionTypeOK
<1>6. SessionTypeOK'
      BY <1>1, <1>2, <1>5 DEF SessionTypeOK
<1>7. client' # 0
      BY <1>1, <1>5 DEF SessionTypeOK
<1>8. ClientInv'
      BY <1>1, <1>2, <1>4, <1>7 DEF ClientInv
<1>9. ViewInv'
      BY <1>1, <1>2 DEF ViewInv, ViewIsLast
<1>10. InitialisedFirst' /\ Asked' = Asked /\ (~alive' => toDev' = <<>>)
      BY <1>2, ConnectionLeft
<1>11. AskInv'
      <2>1. Pending = {}
            BY <1>2 DEF Pending
      <2>2. ASSUME alive' PROVE {"caps", "storage"} \subseteq Asked'
            BY <1>1, <1>2, <1>4, <1>10, <2>1, <2>2 DEF AskInv
      <2> QED BY <1>4, <1>10, <2>2 DEF AskInv
<1> QED BY <1>6, <1>8, <1>9, <1>10, <1>11 DEF AlbaInv

LEMMA StartKeeps ==
    ASSUME AlbaInv, NEW t \in Tasks, NEW p \in Programs, Start(t, p)
    PROVE  AlbaInv'
<1>1. SessionTypeOK /\ ClientInv /\ ViewInv /\ AskInv /\ InitialisedFirst
      BY DEF AlbaInv
<1>2. /\ stage = "ready" /\ stage' \in {"ready", "closing"}
      /\ prog' = [prog EXCEPT ![t] = p] /\ cl' = [cl EXCEPT ![t] = client]
      /\ mode = "esphome" => t = "main"
      /\ UNCHANGED <<mode, conn, made, client, last, view, bypassed, wait, alive, toDev, seen,
                   reqs>>
      BY DEF Start, ghostVars, clientVars
<1>3. /\ prog \in [Tasks -> Seq(Calls)] /\ cl \in [Tasks -> Nat] /\ p \in Seq(Calls)
      /\ "main" \in Tasks /\ "cmd" \in Tasks /\ Tasks = {"main", "cmd"}
      BY <1>1, ProgramCalls DEF SessionTypeOK, Tasks
<1>4. client \in Nat /\ client \in 1..made
      BY <1>1, <1>2 DEF SessionTypeOK, ClientInv
<1>5. /\ prog'[t] = p /\ cl'[t] = client
      /\ \A o \in Tasks : o # t => prog'[o] = prog[o] /\ cl'[o] = cl[o]
      BY <1>2, <1>3
<1>6. SessionTypeOK'
      <2>1. prog' \in [Tasks -> Seq(Calls)] /\ cl' \in [Tasks -> Nat]
            BY <1>2, <1>3, <1>4
      <2> QED BY <1>1, <1>2, <2>1 DEF SessionTypeOK
<1>7. ~PostConnecting'
      BY <1>2 DEF PostConnecting
<1>8. ClientInv'
      <2>1. \A o \in Tasks : prog'[o] # <<>> => cl'[o] \in 1..made'
            BY <1>1, <1>2, <1>4, <1>5 DEF ClientInv
      <2>2. \A d \in Clients : d > made' => last'[d] = NoArgs
            BY <1>1, <1>2 DEF ClientInv
      <2>3. mode' = "esphome" => prog'["cmd"] = <<>> /\ \A d \in Clients : last'[d] = NoArgs
            BY <1>1, <1>2, <1>3, <1>5 DEF ClientInv
      <2>4. stage' # "down" /\ client' # 0
            BY <1>1, <1>2 DEF ClientInv
      <2> QED BY <1>7, <2>1, <2>2, <2>3, <2>4 DEF ClientInv
<1>9. ViewInv'
      BY <1>1, <1>2 DEF ViewInv, ViewIsLast
<1>10. InitialisedFirst' /\ Asked' = Asked /\ (~alive' => toDev' = <<>>)
      BY <1>2, ConnectionLeft
<1>11. AskInv'
      <2>1. ASSUME alive' PROVE {"caps", "storage"} \subseteq Asked'
            BY <1>1, <1>2, <1>10, <2>1 DEF AskInv
      <2> QED BY <1>7, <1>10, <2>1 DEF AskInv
<1> QED BY <1>6, <1>8, <1>9, <1>10, <1>11 DEF AlbaInv

LEMMA CloseKeeps ==
    ASSUME AlbaInv, Close
    PROVE  AlbaInv'
<1>1. SessionTypeOK /\ ClientInv /\ ViewInv /\ AskInv
      BY DEF AlbaInv
<1>2. /\ stage' = "down" /\ alive' = FALSE /\ toDev' = <<>>
      /\ prog' = [prog EXCEPT !["main"] = <<>>] /\ wait' = [wait EXCEPT !["main"] = Idle]
      /\ UNCHANGED <<mode, conn, made, client, last, view, bypassed, cl, reqs>>
      BY DEF Close, clientVars
<1>3. /\ prog \in [Tasks -> Seq(Calls)] /\ DOMAIN wait = Tasks
      /\ "main" \in Tasks /\ "cmd" \in Tasks /\ Tasks = {"main", "cmd"}
      BY <1>1 DEF SessionTypeOK, Tasks
<1>4. prog'["main"] = <<>> /\ prog'["cmd"] = prog["cmd"] /\ wait'["main"] = Idle
      BY <1>2, <1>3
<1>5. SessionTypeOK'
      <2>1. prog' \in [Tasks -> Seq(Calls)] /\ DOMAIN wait' = Tasks /\ toDev' \in Seq(Requests)
            BY <1>2, <1>3, EmptySeq
      <2> QED BY <1>1, <1>2, <2>1 DEF SessionTypeOK
<1>6. ~PostConnecting'
      BY <1>2 DEF PostConnecting
<1>7. ClientInv'
      BY <1>1, <1>2, <1>3, <1>4, <1>6 DEF ClientInv
<1>8. ViewInv'
      BY <1>1, <1>2 DEF ViewInv, ViewIsLast
<1>9. AskInv' /\ InitialisedFirst'
      BY <1>2 DEF AskInv, InitialisedFirst
<1> QED BY <1>5, <1>7, <1>8, <1>9 DEF AlbaInv

-----------------------------------------------------------------------------
\* The theorems.

LEMMA InitAlba == ASSUME AlbaAssumption, Init PROVE AlbaInv
<1>1. SessionTypeOK
      <2>1. <<>> \in Seq(Calls) /\ <<>> \in Seq(Requests)
            BY EmptySeq
      <2>2. prog \in [Tasks -> Seq(Calls)] /\ toDev \in Seq(Requests)
            BY <2>1 DEF Init
      <2>3. cl \in [Tasks -> Nat] /\ DOMAIN wait = Tasks /\ last \in [Clients -> ViewArgs \cup {NoArgs}]
            BY DEF Init
      <2>4. conn \in 0..MaxSessions /\ made \in 0..conn /\ client \in 0..made /\ reqs \in Nat
            BY DEF Init, AlbaAssumption
      <2>5. /\ mode \in {"service", "esphome"} /\ alive \in BOOLEAN
            /\ stage \in {"down", "dispatch", "again", "twice", "ready", "closing"}
            BY DEF Init
      <2> QED BY <2>2, <2>3, <2>4, <2>5 DEF SessionTypeOK
<1>2. \A t \in Tasks : prog[t] = <<>> /\ ~Publishes(t) /\ ~Acts(t)
      BY DEF Init, Publishes, Acts
<1>3. ClientInv
      BY <1>2 DEF Init, ClientInv, PostConnecting, Tasks, Clients
<1>4. ViewInv
      BY <1>2 DEF Init, ViewInv, ViewIsLast, PostConnecting, Tasks
<1>5. AskInv /\ InitialisedFirst
      BY DEF Init, AskInv, InitialisedFirst
<1> QED BY <1>1, <1>3, <1>4, <1>5 DEF AlbaInv

\* The inductive invariant: every step keeps it.
THEOREM AlbaInvariant == Spec => []AlbaInv
<1>1. Init => AlbaInv
      BY AlbaAssumption, InitAlba
<1>2. AlbaInv /\ [Next]_vars => AlbaInv'
      <2> SUFFICES ASSUME AlbaInv, [Next]_vars PROVE AlbaInv'
          OBVIOUS
      <2> USE AlbaAssumption
      <2>1. CASE Open
            BY <2>1, OpenKeeps
      <2>2. CASE Dispatched
            <3>1. stage \in {"dispatch", "again"}
                  BY <2>2 DEF Dispatched
            <3> QED BY <2>2, <3>1, AgainKeeps, ReadyKeeps
      <2>3. CASE DispatchedAgain
            BY <2>3, ReadyKeeps
      <2>4. CASE Close
            BY <2>4, CloseKeeps
      <2>5. CASE Dispatch
            BY <2>5, DispatchKeeps
      <2>6. ASSUME NEW t \in Tasks, Step(t) PROVE AlbaInv'
            BY <2>6, SendKeeps, SendFailsKeeps, CallKeeps, PublishKeeps DEF Step
      <2>7. ASSUME NEW t \in Tasks, NEW p \in Programs, Start(t, p) PROVE AlbaInv'
            BY <2>7, StartKeeps
      <2>8. CASE Lose
            BY <2>8, LoseKeeps
      <2>9. CASE StopSequence \/ UNCHANGED vars
            BY <2>9, StutterKeeps
      <2> QED BY <2>1, <2>2, <2>3, <2>4, <2>5, <2>6, <2>7, <2>8, <2>9 DEF Next, Progress
<1> QED BY <1>1, <1>2, PTL DEF Spec

\* On no connection does a data point of an action reach the device before the requests
\* for capabilities and event storage, whichever client and inventory the bridge kept
\* from earlier sessions, and whatever a command of an earlier session still does.
THEOREM AlwaysInitialisedFirst == Spec => []InitialisedFirst
<1>1. AlbaInv => InitialisedFirst
      BY DEF AlbaInv
<1> QED BY <1>1, AlbaInvariant, PTL

\* The published changes add up, field by field, to the last poll of the session's client,
\* however polls, commands and sessions interleave, but for the fields that a request of
\* an earlier session or a read of one field has published since.
THEOREM ViewIsAlwaysLast == Spec => []ViewIsLast
<1>1. AlbaInv => ViewIsLast
      BY DEF AlbaInv, ViewInv, ViewIsLast
<1> QED BY <1>1, AlbaInvariant, PTL

-----------------------------------------------------------------------------
\* Calls and their answers.

\* The device answers a request with all that the call waits for.
LEMMA AnswerWhole ==
    ASSUME ExchangeTypeOK, NEW r \in Requests, NEW w \in Waits, w.left = 0,
           w.cmd = r.cmd, w.id = r.id
    PROVE  Answer(r) \in Seq(Frames) /\ Whole(w, Answer(r))
<1>1. /\ Cardinality(known) \in Nat /\ events \in Nat /\ sit \in Int /\ status \in Int
      BY FS_CardinalityType DEF ExchangeTypeOK
<1>2. r.cmd \in {"inventory", "caps", "storage", "read", "write"} /\ r.id \in Nat
      BY DEF Requests
<1>3. ASSUME NEW c \in {"invCount", "invData", "capsAck", "storCount", "storData", "readAns",
                        "readError", "writeAck", "writeError"}, NEW v \in Int
      PROVE  /\ Frame(c, r, v) \in Frames /\ Frame(c, r, v).cmd = c
             /\ Frame(c, r, v).id = r.id /\ Frame(c, r, v).val = v
      BY <1>2 DEF Frame, Frames
<1>4. ASSUME NEW f \in Frames, f.id = w.id, Accepts(w, f),
             f.cmd \notin {"invCount", "invData", "storCount", "storData"},
             w.cmd \notin {"inventory", "storage"}, Answer(r) = <<f>>
      PROVE  Answer(r) \in Seq(Frames) /\ Whole(w, Answer(r))
      BY <1>4 DEF Whole
<1>5. CASE r.cmd = "caps"
  <2>1. Answer(r) = <<Frame("capsAck", r, 0)>>
        BY <1>5 DEF Answer
  <2>2. Accepts(w, Frame("capsAck", r, 0))
        BY <1>3, <1>5 DEF Accepts
  <2> QED BY <1>3, <1>4, <1>5, <2>1, <2>2
<1>6. CASE r.cmd = "write"
  <2>1. PICK c \in {"writeAck", "writeError"} : Answer(r) = <<Frame(c, r, 0)>>
        BY <1>6 DEF Answer
  <2>2. Accepts(w, Frame(c, r, 0))
        BY <1>3, <1>6 DEF Accepts
  <2> QED BY <1>3, <1>4, <1>6, <2>1, <2>2
<1>7. CASE r.cmd = "read"
  <2>1. Value(r.dp) \in Int
        BY <1>1 DEF Value
  <2>2. PICK c \in {"readAns", "readError"}, v \in Int : Answer(r) = <<Frame(c, r, v)>>
        BY <1>7, <2>1 DEF Answer
  <2>3. Accepts(w, Frame(c, r, v))
        BY <1>3, <1>7 DEF Accepts
  <2> QED BY <1>3, <1>4, <1>7, <2>2, <2>3
<1>8. ASSUME NEW n \in Nat, NEW a \in {"invCount", "storCount"},
             NEW b \in {"invData", "storData"}, a = Counts(w), b = Records(w),
             w.cmd \in {"inventory", "storage"},
             Answer(r) = <<Frame(a, r, n)>> \o [i \in 1..n |-> Frame(b, r, i)]
      PROVE  Answer(r) \in Seq(Frames) /\ Whole(w, Answer(r))
  <2>1. PICK h : h = <<Frame(a, r, n)>>
        OBVIOUS
  <2>2. h \in Seq(Frames) /\ Len(h) = 1 /\ h[1] = Frame(a, r, n)
        BY <1>3, <2>1
  <2>3. PICK d : d = [i \in 1..n |-> Frame(b, r, i)]
        OBVIOUS
  <2>4. \A i \in 1..n : Frame(b, r, i) \in Frames
        BY <1>3
  <2>5. d \in Seq(Frames) /\ Len(d) = n /\ \A i \in 1..n : d[i] = Frame(b, r, i)
    <3>1. d \in [1..n -> Frames]
          BY <2>3, <2>4
    <3>2. d \in Seq(Frames) /\ DOMAIN d = 1..n
          BY <3>1, SeqDef
    <3>3. Len(d) = n
          BY <3>2, LenProperties
    <3> QED BY <2>3, <3>2, <3>3
  <2>6. PICK q : q = h \o d
        OBVIOUS
  <2>7. /\ q \in Seq(Frames) /\ Len(q) = n + 1
        /\ \A i \in 1..(n + 1) : q[i] = IF i <= 1 THEN h[i] ELSE d[i - 1]
    <3>1. /\ q \in Seq(Frames) /\ Len(q) = Len(h) + Len(d)
          /\ \A i \in 1..(Len(h) + Len(d)) : q[i] = IF i <= Len(h) THEN h[i] ELSE d[i - Len(h)]
          BY <2>2, <2>5, <2>6, ConcatProperties
    <3>2. Len(h) + Len(d) = n + 1
          BY <2>2, <2>5
    <3> QED BY <2>2, <3>1, <3>2
  <2>8. q[1] = Frame(a, r, n)
        BY <2>2, <2>7
  <2>9. ASSUME NEW i \in 2..(n + 1)
        PROVE  q[i].cmd = b /\ q[i].id = r.id
    <3>1. i - 1 \in 1..n /\ i \in 1..(n + 1) /\ ~(i <= 1) /\ i - 1 \in Int
          OBVIOUS
    <3>2. q[i] = Frame(b, r, i - 1)
          BY <2>5, <2>7, <3>1
    <3> QED BY <1>3, <3>1, <3>2
  <2>10. q[1].cmd = a /\ q[1].val = n /\ q[1].id = r.id
         BY <1>3, <2>8
  <2>11. DOMAIN q = 1..(n + 1) /\ q # <<>> /\ Len(q) - 1 = n
         BY <2>7, LenProperties
  <2>12. \A i \in 1..(n + 1) : q[i].id = w.id
         BY <2>9, <2>10
  <2>13. Whole(w, q)
         BY <1>8, <2>7, <2>9, <2>10, <2>11, <2>12 DEF Whole
  <2> QED BY <1>8, <2>1, <2>3, <2>6, <2>7, <2>13
<1>9. CASE r.cmd = "inventory"
  <2>1. Answer(r) = <<Frame("invCount", r, Cardinality(known))>>
                    \o [i \in 1..Cardinality(known) |-> Frame("invData", r, i)]
        BY <1>9 DEF Answer
  <2>2. Counts(w) = "invCount" /\ Records(w) = "invData"
        BY <1>9 DEF Counts, Records
  <2> QED BY <1>1, <1>8, <1>9, <2>1, <2>2
<1>10. CASE r.cmd = "storage"
  <2>1. Answer(r) = <<Frame("storCount", r, events)>>
                    \o [i \in 1..events |-> Frame("storData", r, i)]
        BY <1>10 DEF Answer
  <2>2. Counts(w) = "storCount" /\ Records(w) = "storData"
        BY <1>10 DEF Counts, Records
  <2> QED BY <1>1, <1>8, <1>10, <2>1, <2>2
<1> QED BY <1>2, <1>5, <1>6, <1>7, <1>9, <1>10

\* A call takes the next frame of its answer: it is done with the last one.
LEMMA WholeTaken ==
    ASSUME NEW w \in Waits, NEW q \in Seq(Frames), Whole(w, q), NEW f, f = Head(q)
    PROVE  /\ f \in Frames /\ Accepts(w, f) /\ f.id = w.id /\ Tail(q) \in Seq(Frames)
           /\ Left(w, f) <= 0 => Tail(q) = <<>>
           /\ ~(Left(w, f) <= 0) => /\ Left(w, f) \in Nat
                                    /\ Whole([w EXCEPT !.left = Left(w, f)], Tail(q))
<1>1. /\ q # <<>> /\ Len(q) \in Nat /\ DOMAIN q = 1..Len(q) /\ 1 \in 1..Len(q)
      /\ f = q[1] /\ f \in Frames /\ f.id = w.id
      BY LenProperties, ElementOfSeq DEF Whole
<1>2. /\ Tail(q) \in Seq(Frames) /\ Len(Tail(q)) = Len(q) - 1
      /\ DOMAIN Tail(q) = 1..(Len(q) - 1)
      /\ \A i \in 1..(Len(q) - 1) : Tail(q)[i] = q[i + 1]
      BY <1>1, HeadTailProperties
<1>3. w.left \in Nat /\ w.cmd \in {"inventory", "caps", "storage", "read", "write"}
      BY DEF Waits
<1>4. CASE w.cmd \notin {"inventory", "storage"}
  <2>1. /\ Accepts(w, f) /\ Len(q) = 1
        /\ f.cmd \notin {"invCount", "invData", "storCount", "storData"}
        BY <1>1, <1>4 DEF Whole
  <2>2. Left(w, f) = 0
        BY <2>1 DEF Left
  <2>3. Tail(q) = <<>>
        BY <1>2, <2>1
  <2> QED BY <1>1, <1>2, <2>1, <2>2, <2>3
<1>5. CASE w.cmd \in {"inventory", "storage"}
  <2>1. /\ w.left = 0 => f.cmd = Counts(w) /\ f.val = Len(q) - 1
        /\ w.left > 0 => f.cmd = Records(w) /\ w.left = Len(q)
        /\ \A i \in 2..Len(q) : q[i].cmd = Records(w)
        BY <1>1, <1>5 DEF Whole
  <2>2. Accepts(w, f)
    <3>1. w.left = 0 \/ w.left > 0
          BY <1>3
    <3>2. w.cmd = "inventory" => f.cmd = IF w.left = 0 THEN "invCount" ELSE "invData"
          BY <1>3, <2>1, <3>1 DEF Counts, Records
    <3>3. w.cmd = "storage" => f.cmd \in {"storCount", "storData"}
          BY <2>1, <3>1 DEF Counts, Records
    <3> QED BY <1>5, <3>2, <3>3 DEF Accepts
  <2>3. Left(w, f) = Len(q) - 1
    <3>1. CASE w.left = 0
      <4>1. f.cmd \in {"invCount", "storCount"} /\ f.val = Len(q) - 1
            BY <1>5, <2>1, <3>1 DEF Counts
      <4> QED BY <4>1 DEF Left
    <3>2. CASE w.left > 0
      <4>1. f.cmd \in {"invData", "storData"} /\ w.left = Len(q)
            BY <1>5, <2>1, <3>2 DEF Records
      <4>2. Left(w, f) = w.left - 1
            BY <4>1 DEF Left
      <4> QED BY <4>1, <4>2
    <3> QED BY <1>3, <3>1, <3>2
  <2>4. Left(w, f) <= 0 => Tail(q) = <<>>
        BY <1>1, <1>2, <2>3
  <2>5. ASSUME ~(Left(w, f) <= 0)
        PROVE  /\ Left(w, f) \in Nat
               /\ Whole([w EXCEPT !.left = Left(w, f)], Tail(q))
    <3>0. Len(q) - 1 \in Nat /\ Len(q) - 1 > 0
          BY <1>1, <2>3, <2>5
    <3>1. PICK n \in Nat : n = Len(q) - 1 /\ n > 0
          BY <3>0
    <3>2. PICK v : v = [w EXCEPT !.left = n]
          OBVIOUS
    <3>3. /\ v.cmd = w.cmd /\ v.id = w.id /\ v.left = n
          /\ Records(v) = Records(w)
      <4>1. v.cmd = w.cmd /\ v.id = w.id /\ v.left = n
            BY <3>2 DEF Waits
      <4> QED BY <4>1 DEF Records
    <3>4. Len(Tail(q)) = n /\ DOMAIN Tail(q) = 1..n /\ Tail(q) # <<>>
      <4>1. Len(Tail(q)) = n /\ DOMAIN Tail(q) = 1..n
            BY <1>2, <3>1
      <4>2. ASSUME Tail(q) = <<>> PROVE FALSE
            BY <3>1, <4>1, <4>2
      <4> QED BY <4>1, <4>2
    <3>5. ASSUME NEW i \in 1..n
          PROVE  Tail(q)[i].id = w.id /\ Tail(q)[i].cmd = Records(w)
      <4>1. i + 1 \in 2..Len(q) /\ i + 1 \in 1..Len(q) /\ i \in 1..(Len(q) - 1)
            BY <1>1, <3>1
      <4>2. Tail(q)[i] = q[i + 1]
            BY <1>2, <4>1
      <4>3. q[i + 1].id = w.id
            BY <1>1, <4>1 DEF Whole
      <4> QED BY <2>1, <4>1, <4>2, <4>3
    <3>6. Tail(q)[1].cmd = Records(v) /\ \A i \in 2..Len(Tail(q)) : Tail(q)[i].cmd = Records(v)
      <4>1. 1 \in 1..n /\ \A i \in 2..Len(Tail(q)) : i \in 1..n
            BY <3>1, <3>4
      <4>2. \A i \in 1..n : Tail(q)[i].cmd = Records(v)
            BY <3>3, <3>5
      <4> QED BY <4>1, <4>2
    <3>7. Whole(v, Tail(q))
          BY <1>5, <3>1, <3>3, <3>4, <3>5, <3>6 DEF Whole
    <3> QED BY <2>3, <3>1, <3>2, <3>7
  <2> QED BY <1>1, <1>2, <2>2, <2>4, <2>5
<1> QED BY <1>4, <1>5

\* Steps that touch no call, no queue and no request.
LEMMA AsideKeeps ==
    ASSUME AnswerInv,
           UNCHANGED <<mode, made, handlers, rxq, wait, alive, toDev, known, events, late, lost,
                       ghostVars>>,
           stage' = "down" <=> stage = "down",
           \A t \in Tasks : Busy(t) => cl'[t] = cl[t],
           sit' \in Int, status' \in Int, stops' \in Seq(WindDowns), client' \in {0, made},
           PostConnecting' \/ Busy("main") \/ prog'["main"] # <<>> => cl'["main"] = made
    PROVE  AnswerInv'
<1>0. UNCHANGED <<overlapped, cut, stray, expired>>
      BY DEF ghostVars
<1>1. \A t \in Tasks : Busy(t)' <=> Busy(t)
      BY DEF Busy
<1>2. "main" \in Tasks /\ "cmd" \in Tasks
      BY DEF Tasks
<1>3. ExchangeTypeOK'
      BY <1>0 DEF AnswerInv, ExchangeTypeOK
<1>4. HandlersInv'
      BY DEF AnswerInv, HandlersInv
<1>5. NewestInv'
  <2>1. \A t \in Tasks : Busy(t)' => /\ cl'[t] \in 1..made'
                                     /\ cl'[t] # made' \/ stage' = "down" => cut'
        BY <1>0, <1>1 DEF AnswerInv, NewestInv
  <2>2. mode' = "esphome" => ~Busy("cmd")'
        BY <1>1, <1>2 DEF AnswerInv, NewestInv
  <2>3. /\ stage' = "down" => ~alive'
        /\ stage' # "down" => made' > 0 /\ (alive' \/ lost' > 0)
        BY DEF AnswerInv, NewestInv
  <2>4. PostConnecting' \/ Busy("main")' \/ prog'["main"] # <<>> => cl'["main"] = made'
        BY <1>1, <1>2
  <2>5. client' \in {0, made'}
        OBVIOUS
  <2> QED BY ONLY <2>1, <2>2, <2>3, <2>4, <2>5 DEF NewestInv
<1>6. Calm' => ExchangeInv'
  <2> SUFFICES ASSUME Calm' PROVE ExchangeInv'
      OBVIOUS
  <2>1. ExchangeInv
        BY <1>0 DEF AnswerInv, Calm
  <2>2. \A t \in Tasks : Asking(t)' <=> Asking(t)
        BY <1>1 DEF Asking
  <2>3. \A t \in Tasks : Busy(t) => (Waiting(t)' <=> Waiting(t))
        BY <1>0, <2>2 DEF Waiting
  <2>4. \A t, o \in Tasks : Busy(t)' /\ Busy(o)' /\ cl'[t] = cl'[o] => t = o
        BY <1>1, <2>1 DEF ExchangeInv
  <2>5. \A t \in Tasks : Busy(t)' => Waiting(t)'
        BY <1>1, <2>1, <2>3 DEF ExchangeInv
  <2>6. toDev # <<>> => \E t \in Tasks : Asking(t)'
        BY <2>1, <2>2 DEF ExchangeInv
  <2>7. /\ made > 0 /\ (stage' # "down" \/ mode = "esphome")
        /\ \A t \in Tasks : Busy(t)' => cl'[t] # made
        => rxq[made] = <<>>
        BY <1>1, <2>1 DEF ExchangeInv
  <2>8. \A c \in Clients : c > made => rxq[c] = <<>>
        BY <2>1 DEF ExchangeInv
  <2> QED BY <2>4, <2>5, <2>6, <2>7, <2>8 DEF ExchangeInv
<1>7. OwnAnswers'
      BY <1>0 DEF AnswerInv, OwnAnswers
<1> QED BY <1>3, <1>4, <1>5, <1>6, <1>7 DEF AnswerInv

\* Two neighbouring pieces of a sequence, without what is between them.
LEMMA LeftOut ==
    ASSUME NEW S, NEW q \in Seq(S), NEW i \in DOMAIN q
    PROVE  SubSeq(q, 1, i - 1) \o SubSeq(q, i + 1, Len(q)) \in Seq(S)
<1>1. Len(q) \in Nat /\ DOMAIN q = 1..Len(q) /\ i \in 1..Len(q)
      BY LenProperties
<1>2. \A k \in 1..Len(q) : q[k] \in S
      BY ElementOfSeq
<1>3. SubSeq(q, 1, i - 1) \in Seq(S)
      BY <1>1, <1>2, SubSeqProperties
<1>4. SubSeq(q, i + 1, Len(q)) \in Seq(S)
      BY <1>1, <1>2, SubSeqProperties
<1> QED BY <1>3, <1>4, ConcatProperties

\* A wind-down of the shower touches no call.
LEMMA StopSequenceAnswers ==
    ASSUME AnswerInv, StopSequence
    PROVE  AnswerInv'
<1>1. PICK i \in DOMAIN stops :
         /\ status' = Head(stops[i])
         /\ stops' = IF Len(stops[i]) > 1 THEN [stops EXCEPT ![i] = Tail(@)]
                     ELSE SubSeq(stops, 1, i - 1) \o SubSeq(stops, i + 1, Len(stops))
      BY DEF StopSequence
<1>2. stops \in Seq(WindDowns) /\ i \in 1..Len(stops)
      BY LenProperties DEF AnswerInv, ExchangeTypeOK
<1>3. stops[i] \in WindDowns
      BY <1>2, ElementOfSeq
<1>4. PICK s : s = stops[i]
      OBVIOUS
<1>5. Head(s) \in Int /\ (Len(s) > 1 => Tail(s) \in WindDowns)
  <2>1. CASE s = <<6, 7, 2>>
        BY <2>1 DEF WindDowns
  <2>2. CASE s = <<7, 2>>
        BY <2>2 DEF WindDowns
  <2>3. CASE s = <<2>>
        BY <2>3 DEF WindDowns
  <2> QED BY <1>3, <1>4, <2>1, <2>2, <2>3 DEF WindDowns
<1>6. status' \in Int
      BY <1>1, <1>4, <1>5
<1>7. stops' \in Seq(WindDowns)
  <2>1. CASE Len(s) > 1
    <3>1. stops' = [stops EXCEPT ![i] = Tail(s)]
          BY <1>1, <1>4, <2>1
    <3> QED BY <1>2, <1>5, <2>1, <3>1, ExceptSeq
  <2>2. CASE ~(Len(s) > 1)
        BY <1>1, <1>2, <1>4, <2>2, LeftOut
  <2> QED BY <2>1, <2>2
<1>8. /\ UNCHANGED <<mode, stage, made, client, handlers, rxq, wait, prog, cl, alive, toDev, sit,
                     known, events, late, lost, ghostVars>>
      BY DEF StopSequence, clientVars, taskVars
<1>9. /\ sit' \in Int /\ client' \in {0, made}
      /\ PostConnecting' \/ Busy("main") \/ prog'["main"] # <<>> => cl'["main"] = made
      BY <1>8 DEF AnswerInv, ExchangeTypeOK, NewestInv, PostConnecting
<1> QED BY <1>6, <1>7, <1>8, <1>9, AsideKeeps

\* Steps of a program that are no call, and steps of the session between two programs.
LEMMA BetweenCalls ==
    ASSUME AlbaInv, AnswerInv,
           \/ \E t \in Tasks : SendFails(t) \/ Publish(t)
           \/ \E t \in Tasks, p \in Programs : Start(t, p)
           \/ Dispatched \/ DispatchedAgain \/ UNCHANGED vars
    PROVE  AnswerInv'
<1>1. UNCHANGED <<mode, made, handlers, rxq, wait, alive, toDev, sit, status, stops, known,
                  events, late, lost, ghostVars>>
      BY DEF SendFails, Publish, Start, Dispatched, DispatchedAgain, vars, clientVars, taskVars,
             deviceVars
<1>2. stage' = "down" <=> stage = "down"
      BY DEF SendFails, Publish, Start, Dispatched, DispatchedAgain, vars
<1>3. sit' \in Int /\ status' \in Int /\ stops' \in Seq(WindDowns)
      BY <1>1 DEF AnswerInv, ExchangeTypeOK
<1>4. /\ client \in {0, made} /\ "main" \in Tasks /\ cl \in [Tasks -> Nat]
      /\ PostConnecting \/ Busy("main") \/ prog["main"] # <<>> => cl["main"] = made
      /\ prog \in [Tasks -> Seq(Calls)]
      /\ stage \in {"again", "twice", "ready"} => client # 0
      BY DEF AnswerInv, NewestInv, AlbaInv, SessionTypeOK, ClientInv, Tasks
<1>5. CASE \E t \in Tasks : SendFails(t) \/ Publish(t)
  <2>1. PICK t \in Tasks : SendFails(t) \/ Publish(t)
        BY <1>5
  <2>2. UNCHANGED <<stage, client, cl>> /\ prog[t] # <<>>
        BY <2>1 DEF SendFails, Publish, clientVars
  <2>3. prog'["main"] # <<>> => prog["main"] # <<>>
        BY <1>4, <2>1 DEF SendFails, Publish
  <2>4. PostConnecting' \/ Busy("main") \/ prog'["main"] # <<>> => cl'["main"] = made
        BY <1>4, <2>2, <2>3 DEF PostConnecting
  <2> QED BY <1>1, <1>2, <1>3, <1>4, <2>2, <2>4, AsideKeeps
<1>6. CASE \E t \in Tasks, p \in Programs : Start(t, p)
  <2>1. PICK t \in Tasks, p \in Programs : Start(t, p)
        BY <1>6
  <2>2. /\ client' = client /\ stage = "ready" /\ stage' \in {"ready", "closing"} /\ ~Busy(t)
        /\ cl' = [cl EXCEPT ![t] = client] /\ prog' = [prog EXCEPT ![t] = p]
        BY <2>1 DEF Start, clientVars
  <2>3. client = made
        BY <1>4, <2>2
  <2>4. \A o \in Tasks : Busy(o) => cl'[o] = cl[o]
        BY <1>4, <2>2
  <2>5. PostConnecting' \/ Busy("main") \/ prog'["main"] # <<>> => cl'["main"] = made
        BY <1>4, <2>2, <2>3 DEF PostConnecting
  <2> QED BY <1>1, <1>2, <1>3, <1>4, <2>2, <2>4, <2>5, AsideKeeps
<1>7. CASE Dispatched \/ DispatchedAgain
  <2>1. cl' = cl /\ PostConnecting
        BY <1>7 DEF Dispatched, DispatchedAgain, taskVars, PostConnecting
  <2>2. client' \in {client, cl["main"]}
        BY <1>7 DEF Dispatched, DispatchedAgain
  <2>3. client' \in {0, made}
        BY <1>4, <2>1, <2>2
  <2> QED BY <1>1, <1>2, <1>3, <1>4, <2>1, <2>3, AsideKeeps
<1>8. CASE UNCHANGED vars
  <2>1. UNCHANGED <<client, cl, prog, stage>>
        BY <1>8 DEF vars, clientVars, taskVars
  <2> QED BY <1>1, <1>2, <1>3, <1>4, <2>1, AsideKeeps DEF PostConnecting
<1> QED BY <1>5, <1>6, <1>7, <1>8

\* A call under way is on an AlbaClient that has been made; one of task main is not
\* under way when the session is down.
LEMMA BusyCall ==
    ASSUME AlbaInv, AnswerInv, NEW t \in Tasks, Busy(t)
    PROVE  /\ wait[t] \in Waits /\ cl[t] \in 1..made /\ cl[t] \in Clients
           /\ rxq[cl[t]] \in Seq(Frames) /\ (t = "main" => stage # "down")
<1>1. wait[t] \in Waits
      BY DEF AnswerInv, ExchangeTypeOK, Busy
<1>2. cl[t] \in 1..made
      BY DEF AnswerInv, NewestInv
<1>3. MaxSessions \in Nat /\ conn \in 0..MaxSessions /\ made \in 0..conn
      BY AlbaAssumption DEF AlbaInv, SessionTypeOK, AlbaAssumption
<1>4. cl[t] \in Clients
      BY <1>2, <1>3 DEF Clients
<1>5. rxq[cl[t]] \in Seq(Frames)
      BY <1>4 DEF AnswerInv, ExchangeTypeOK
<1>6. t = "main" => stage # "down"
      BY DEF AlbaInv, ClientInv, Busy
<1> QED BY <1>1, <1>2, <1>4, <1>5, <1>6

\* A call begins on the session's client: unless another is under way there, nothing is
\* left in the queue or on its way.
LEMMA SendAnswers ==
    ASSUME AlbaInv, AnswerInv, NEW t \in Tasks, Send(t)
    PROVE  AnswerInv'
<1>0. /\ UNCHANGED <<mode, stage, made, client, handlers, rxq, cl, alive, sit, status, stops,
                     known, events, late, lost, cut, stray, expired>>
      /\ stage # "down" /\ ~Busy(t) /\ prog[t] # <<>> /\ (mode = "service" => cl[t] = made)
      /\ prog' = [prog EXCEPT ![t] = Tail(@)]
      BY DEF Send, Connected, clientVars, deviceVars
<1>1. /\ "main" \in Tasks /\ "cmd" \in Tasks /\ Tasks = {"main", "cmd"}
      BY DEF Tasks
<1>2. /\ SessionTypeOK /\ prog \in [Tasks -> Seq(Calls)] /\ DOMAIN wait = Tasks
      /\ reqs + 1 \in Nat /\ mode \in {"service", "esphome"} /\ made \in Nat
      BY DEF AlbaInv, SessionTypeOK
<1>3. mode = "esphome" => t = "main"
      BY <1>0, <1>1 DEF AlbaInv, ClientInv
<1>4. cl[t] = made /\ made > 0 /\ cl[t] \in 1..made /\ (alive \/ lost > 0)
      BY <1>0, <1>2, <1>3 DEF AnswerInv, NewestInv
<1>5. PICK call : call = Head(prog[t])
      OBVIOUS
<1>6. call \in Calls /\ call.cmd # "publish"
      BY <1>0, <1>2, <1>5, HeadTail DEF Send
<1>7. PICK w : w = [cmd |-> call.cmd, dp |-> call.dp, id |-> reqs + 1, left |-> 0,
                    caught |-> call.caught]
      OBVIOUS
<1>8. w \in Waits /\ w.left = 0 /\ w.cmd = call.cmd /\ w.id = reqs + 1
      BY <1>2, <1>6, <1>7 DEF Waits, Calls
<1>9. wait' = [wait EXCEPT ![t] = w]
      BY <1>5, <1>7 DEF Send
<1>10. w # Idle
       BY <1>7 DEF Idle
<1>11. \A o \in Tasks : /\ Busy(o)' <=> o = t \/ Busy(o)
                        /\ o # t => wait'[o] = wait[o]
                        /\ wait'[t] = w
       BY <1>2, <1>9, <1>10 DEF Busy
<1>12. overlapped' = (overlapped \/ \E o \in Tasks \ {t} : Busy(o) /\ cl[o] = cl[t])
       BY DEF Send
<1>13. PICK req : /\ req = [cmd |-> call.cmd, dp |-> call.dp,
                            val |-> IF call.dp = "start" /\ vals[t].status >= 3 THEN 0 ELSE 1,
                            id |-> reqs + 1]
                  /\ toDev' = IF alive THEN Append(toDev, req) ELSE toDev
       BY <1>5 DEF Send
<1>14. req.cmd = call.cmd /\ req.id = reqs + 1
       BY <1>13
<1>15. ExchangeTypeOK'
  <2>1. wait' \in [Tasks -> Waits \cup {Idle}]
        BY <1>8, <1>9 DEF AnswerInv, ExchangeTypeOK
  <2>2. overlapped' \in BOOLEAN
        BY <1>12 DEF AnswerInv, ExchangeTypeOK
  <2> QED BY <1>0, <2>1, <2>2 DEF AnswerInv, ExchangeTypeOK
<1>16. HandlersInv'
       BY <1>0 DEF AnswerInv, HandlersInv
<1>17. NewestInv'
  <2>1. \A o \in Tasks : Busy(o)' => /\ cl'[o] \in 1..made'
                                     /\ cl'[o] # made' \/ stage' = "down" => cut'
        BY <1>0, <1>4, <1>11 DEF AnswerInv, NewestInv
  <2>2. mode' = "esphome" => ~Busy("cmd")'
        BY <1>0, <1>1, <1>3, <1>11 DEF AnswerInv, NewestInv
  <2>3. /\ stage' = "down" => ~alive'
        /\ stage' # "down" => made' > 0 /\ (alive' \/ lost' > 0)
        BY <1>0 DEF AnswerInv, NewestInv
  <2>4. PostConnecting' \/ Busy("main")' \/ prog'["main"] # <<>> => cl'["main"] = made'
    <3>1. PostConnecting' => PostConnecting
          BY <1>0 DEF PostConnecting
    <3>2. Busy("main")' \/ prog'["main"] # <<>> => Busy("main") \/ prog["main"] # <<>>
          BY <1>0, <1>1, <1>2, <1>11
    <3>3. PostConnecting \/ Busy("main") \/ prog["main"] # <<>> => cl["main"] = made
          BY DEF AnswerInv, NewestInv
    <3> QED BY <1>0, <3>1, <3>2, <3>3
  <2>5. client' \in {0, made'}
        BY <1>0 DEF AnswerInv, NewestInv
  <2> QED BY ONLY <2>1, <2>2, <2>3, <2>4, <2>5 DEF NewestInv
<1>18. Calm' => ExchangeInv'
  <2> SUFFICES ASSUME Calm' PROVE ExchangeInv'
      OBVIOUS
  <2>1. ExchangeInv /\ \A o \in Tasks : o # t /\ Busy(o) => cl[o] # made
        BY <1>0, <1>4, <1>12 DEF AnswerInv, Calm
  <2>2. rxq[made] = <<>>
        BY <1>0, <1>4, <2>1 DEF ExchangeInv
  <2>3. toDev = <<>>
        BY <1>0, <2>1 DEF ExchangeInv, Asking
  <2>4. alive => Asking(t)' /\ toDev' # <<>>
    <3>1. alive => toDev' = <<req>>
          BY <1>13, <2>3
    <3>2. alive => Len(toDev') = 1 /\ toDev'[1] = req /\ toDev' # <<>>
          BY <3>1
    <3>3. /\ wait'[t].left = 0 /\ wait'[t].id = req.id /\ wait'[t].cmd = req.cmd
          /\ Busy(t)' /\ cl'[t] = made' /\ rxq'[made'] = <<>>
          BY <1>0, <1>4, <1>8, <1>11, <1>14, <2>2
    <3> QED BY <3>2, <3>3 DEF Asking
  <2>5. ~alive => lost' > 0 /\ rxq'[cl'[t]] = <<>> /\ toDev' = <<>>
        BY <1>0, <1>4, <1>13, <2>2, <2>3
  <2>6. \A o \in Tasks : Busy(o)' => Waiting(o)'
    <3> SUFFICES ASSUME NEW o \in Tasks, Busy(o)' PROVE Waiting(o)'
        OBVIOUS
    <3>1. CASE o = t
          BY <2>4, <2>5, <3>1 DEF Waiting
    <3>2. CASE o # t
      <4>1. Busy(o) /\ Waiting(o) /\ ~Asking(o) /\ wait'[o] = wait[o]
            BY <1>11, <2>1, <3>2 DEF ExchangeInv, Asking
      <4> QED BY <1>0, <4>1 DEF Waiting
    <3> QED BY <3>1, <3>2
  <2>7. \A a, o \in Tasks : Busy(a)' /\ Busy(o)' /\ cl'[a] = cl'[o] => a = o
        BY <1>0, <1>4, <1>11, <2>1 DEF ExchangeInv
  <2>8. toDev' # <<>> => \E o \in Tasks : Asking(o)'
        BY <2>4, <2>5
  <2>9. ~(\A o \in Tasks : Busy(o)' => cl'[o] # made')
        BY <1>0, <1>4, <1>11
  <2>10. \A c \in Clients : c > made' => rxq'[c] = <<>>
        BY <1>0, <2>1 DEF ExchangeInv
  <2> QED BY <2>6, <2>7, <2>8, <2>9, <2>10 DEF ExchangeInv
<1>19. OwnAnswers'
       BY <1>0, <1>12 DEF AnswerInv, OwnAnswers
<1> QED BY <1>15, <1>16, <1>17, <1>18, <1>19 DEF AnswerInv

\* A frame is lost.
LEMMA LoseAnswers ==
    ASSUME AlbaInv, AnswerInv, Lose
    PROVE  AnswerInv'
<1>0. /\ UNCHANGED <<mode, stage, made, client, handlers, rxq, wait, prog, cl, sit, status, stops,
                     known, events, late, overlapped, cut, stray, expired>>
      /\ alive' = FALSE /\ toDev' = <<>> /\ lost' = lost + 1 /\ lost \in Nat
      BY DEF Lose, clientVars, taskVars, deviceVars, ghostVars, AnswerInv, ExchangeTypeOK
<1>1. \A t \in Tasks : Busy(t)' <=> Busy(t)
      BY <1>0 DEF Busy
<1>2. lost' > 0 /\ lost' \in Nat
      BY <1>0
<1>3. ExchangeTypeOK'
      BY <1>0, <1>2 DEF AnswerInv, ExchangeTypeOK
<1>4. HandlersInv'
      BY <1>0 DEF AnswerInv, HandlersInv
<1>5. NewestInv'
  <2>1. \A o \in Tasks : Busy(o)' => /\ cl'[o] \in 1..made'
                                     /\ cl'[o] # made' \/ stage' = "down" => cut'
        BY <1>0, <1>1 DEF AnswerInv, NewestInv
  <2>2. mode' = "esphome" => ~Busy("cmd")'
        BY <1>0, <1>1 DEF AnswerInv, NewestInv, Tasks
  <2>3. /\ stage' = "down" => ~alive'
        /\ stage' # "down" => made' > 0 /\ (alive' \/ lost' > 0)
        BY <1>0, <1>2 DEF AnswerInv, NewestInv
  <2>4. PostConnecting' \/ Busy("main")' \/ prog'["main"] # <<>> => cl'["main"] = made'
        BY <1>0, <1>1 DEF AnswerInv, NewestInv, PostConnecting, Tasks
  <2>5. client' \in {0, made'}
        BY <1>0 DEF AnswerInv, NewestInv
  <2> QED BY ONLY <2>1, <2>2, <2>3, <2>4, <2>5 DEF NewestInv
<1>6. Calm' => ExchangeInv'
  <2> SUFFICES ASSUME Calm' PROVE ExchangeInv'
      OBVIOUS
  <2>1. ExchangeInv
        BY <1>0 DEF AnswerInv, Calm
  <2>2. \A t \in Tasks : Busy(t)' => Waiting(t)'
        BY <1>0, <1>1, <1>2, <2>1 DEF ExchangeInv, Waiting, Asking
  <2> QED BY <1>0, <1>1, <2>1, <2>2 DEF ExchangeInv
<1>7. OwnAnswers'
      BY <1>0, <1>2 DEF AnswerInv, OwnAnswers
<1> QED BY <1>3, <1>4, <1>5, <1>6, <1>7 DEF AnswerInv

\* Calls that go on or end keep the session's clients apart.
LEMMA CallsShrink ==
    ASSUME AlbaInv, AnswerInv, NEW t \in Tasks, Busy(t),
           UNCHANGED <<mode, made, client, handlers, cl, alive, lost, cut>>,
           \A o \in Tasks : Busy(o)' => Busy(o),
           \/ prog' = prog /\ stage' = stage
           \/ prog' = [prog EXCEPT ![t] = <<>>] /\ stage' = IF t = "main" THEN "closing" ELSE stage
    PROVE  HandlersInv' /\ NewestInv' /\ (stage' = "down" <=> stage = "down")
<1>1. /\ "main" \in Tasks /\ "cmd" \in Tasks /\ prog \in [Tasks -> Seq(Calls)]
      /\ t = "main" => stage # "down"
      BY BusyCall DEF Tasks, AlbaInv, SessionTypeOK
<1>2. stage' = "down" <=> stage = "down"
      BY <1>1
<1>3. HandlersInv'
      BY DEF AnswerInv, HandlersInv
<1>4. \A o \in Tasks : Busy(o)' => /\ cl'[o] \in 1..made'
                                   /\ cl'[o] # made' \/ stage' = "down" => cut'
      BY <1>2 DEF AnswerInv, NewestInv
<1>5. mode' = "esphome" => ~Busy("cmd")'
      BY <1>1 DEF AnswerInv, NewestInv
<1>6. /\ stage' = "down" => ~alive'
      /\ stage' # "down" => made' > 0 /\ (alive' \/ lost' > 0)
      BY <1>2 DEF AnswerInv, NewestInv
<1>7. PostConnecting' \/ Busy("main")' \/ prog'["main"] # <<>> => cl'["main"] = made'
  <2>1. PostConnecting' => PostConnecting
        BY DEF PostConnecting
  <2>2. prog'["main"] # <<>> => prog["main"] # <<>>
        BY <1>1
  <2> QED BY <1>1, <2>1, <2>2 DEF AnswerInv, NewestInv
<1>8. client' \in {0, made'}
      BY DEF AnswerInv, NewestInv
<1>9. NewestInv'
      BY ONLY <1>4, <1>5, <1>6, <1>7, <1>8 DEF NewestInv
<1> QED BY <1>2, <1>3, <1>9

\* A call takes a frame: when nothing has disturbed the calls, it is one of its answer.
LEMMA TakeAnswers ==
    ASSUME AlbaInv, AnswerInv, NEW t \in Tasks, Take(t)
    PROVE  AnswerInv'
<1>0. /\ UNCHANGED <<mode, made, client, handlers, cl, alive, toDev, sit, status, stops,
                     known, events, late, lost, overlapped, cut, expired>>
      /\ Busy(t) /\ rxq[cl[t]] # <<>>
      BY DEF Take, deviceVars
<1>1. PICK w, c, q, f : w = wait[t] /\ c = cl[t] /\ q = rxq[c] /\ f = Head(q)
      OBVIOUS
<1>2. /\ w \in Waits /\ c \in 1..made /\ c \in Clients /\ q \in Seq(Frames) /\ q # <<>>
      /\ f \in Frames /\ Tail(q) \in Seq(Frames) /\ DOMAIN wait = Tasks
      BY <1>0, <1>1, BusyCall, HeadTailProperties DEF AlbaInv, SessionTypeOK
<1>3. \/ wait' = wait /\ prog' = prog /\ stage' = stage /\ ~Accepts(w, f)
      \/ /\ wait' = [wait EXCEPT ![t].left = Left(w, f)] /\ prog' = prog /\ stage' = stage
         /\ Accepts(w, f) /\ ~(Left(w, f) <= 0)
      \/ /\ wait' = [wait EXCEPT ![t] = Idle] /\ Accepts(w, f) /\ Left(w, f) <= 0
         /\ \/ prog' = prog /\ stage' = stage
            \/ prog' = [prog EXCEPT ![t] = <<>>] /\ stage' = IF t = "main" THEN "closing" ELSE stage
      BY <1>1 DEF Take, Ended
<1>4. /\ rxq' = [rxq EXCEPT ![c] = Tail(q)]
      /\ stray' = (stray \/ (Accepts(w, f) /\ f.id # w.id))
      BY <1>1 DEF Take
<1>5. /\ rxq \in [Clients -> Seq(Frames)] /\ rxq' \in [Clients -> Seq(Frames)]
      /\ rxq'[c] = Tail(q) /\ \A d \in Clients : d # c => rxq'[d] = rxq[d]
      BY <1>2, <1>4 DEF AnswerInv, ExchangeTypeOK
<1>6. \A o \in Tasks : o # t => wait'[o] = wait[o]
      BY <1>2, <1>3
<1>7. \A o \in Tasks : Busy(o)' => Busy(o)
      BY <1>0, <1>6 DEF Busy
<1>8. Left(w, f) \in Int
      BY <1>2 DEF Left, Waits, Frames
<1>9. wait[t] \in Waits /\ wait \in [Tasks -> Waits \cup {Idle}]
      BY <1>1, <1>2 DEF AnswerInv, ExchangeTypeOK
<1>10. wait' \in [Tasks -> Waits \cup {Idle}]
  <2>1. CASE wait' = [wait EXCEPT ![t].left = Left(w, f)] /\ ~(Left(w, f) <= 0)
    <3>1. Left(w, f) \in Nat
          BY <1>8, <2>1
    <3>2. [w EXCEPT !.left = Left(w, f)] \in Waits
          BY <1>2, <3>1 DEF Waits
    <3>3. wait' = [wait EXCEPT ![t] = [w EXCEPT !.left = Left(w, f)]]
          BY <1>1, <1>9, <2>1
    <3> QED BY <1>9, <3>2, <3>3
  <2> QED BY <1>3, <1>9, <2>1
<1>11. ExchangeTypeOK'
  <2>1. stray' \in BOOLEAN
        BY <1>4 DEF AnswerInv, ExchangeTypeOK
  <2> QED BY <1>0, <1>5, <1>10, <2>1 DEF AnswerInv, ExchangeTypeOK
<1>12. HandlersInv' /\ NewestInv' /\ (stage' = "down" <=> stage = "down")
       BY <1>0, <1>3, <1>7, CallsShrink
<1>13. ASSUME Calm
       PROVE  ExchangeInv' /\ stray' = stray
  <2>1. ExchangeInv
        BY <1>13 DEF AnswerInv
  <2>2. ~Asking(t) /\ Whole(w, q)
    <3>1. Waiting(t)
          BY <1>0, <2>1 DEF ExchangeInv
    <3>2. ~Asking(t)
          BY <1>0 DEF Asking
    <3> QED BY <1>0, <1>1, <3>1, <3>2 DEF Waiting
  <2>3. /\ Accepts(w, f) /\ f.id = w.id
        /\ Left(w, f) <= 0 => Tail(q) = <<>>
        /\ ~(Left(w, f) <= 0) => Whole([w EXCEPT !.left = Left(w, f)], Tail(q))
        BY <1>1, <1>2, <2>2, WholeTaken
  <2>4. \/ ~Busy(t)' /\ rxq'[c] = <<>>
        \/ Busy(t)' /\ Whole(wait'[t], rxq'[c])
    <3>1. CASE Left(w, f) <= 0
          BY <1>3, <1>5, <1>9, <2>3, <3>1 DEF Busy
    <3>2. CASE ~(Left(w, f) <= 0)
      <4>1. wait'[t] = [w EXCEPT !.left = Left(w, f)]
            BY <1>1, <1>3, <1>9, <2>3, <3>2
      <4>2. wait'[t] \in Waits
            BY <1>2, <1>8, <3>2, <4>1 DEF Waits
      <4>3. wait'[t] # Idle
        <5>1. "left" \in DOMAIN wait'[t] /\ "left" \notin DOMAIN Idle
              BY <4>2 DEF Waits, Idle
        <5> QED BY <5>1
      <4> QED BY <1>5, <2>3, <3>2, <4>1, <4>3 DEF Busy
    <3> QED BY <3>1, <3>2
  <2>5. \A o \in Tasks : o # t /\ Busy(o) =>
           /\ cl[o] # c /\ cl[o] \in Clients /\ rxq'[cl[o]] = rxq[cl[o]] /\ wait'[o] = wait[o]
           /\ (Asking(o) => Asking(o)')
    <3> SUFFICES ASSUME NEW o \in Tasks, o # t, Busy(o)
                 PROVE  /\ cl[o] # c /\ cl[o] \in Clients /\ rxq'[cl[o]] = rxq[cl[o]]
                        /\ wait'[o] = wait[o] /\ (Asking(o) => Asking(o)')
        OBVIOUS
    <3>1. cl[o] # c /\ cl[o] \in Clients
          BY <1>0, <1>1, <2>1, BusyCall DEF ExchangeInv
    <3>2. rxq'[cl[o]] = rxq[cl[o]] /\ wait'[o] = wait[o]
          BY <1>5, <1>6, <3>1
    <3>3. Asking(o) => Asking(o)'
          BY <1>0, <3>2 DEF Asking, Busy
    <3> QED BY <3>1, <3>2, <3>3
  <2>6. \A o \in Tasks : Busy(o)' => Waiting(o)'
    <3> SUFFICES ASSUME NEW o \in Tasks, Busy(o)' PROVE Waiting(o)'
        OBVIOUS
    <3>1. CASE o = t
          BY <1>0, <1>1, <2>4, <3>1 DEF Waiting
    <3>2. CASE o # t
      <4>1. Busy(o) /\ Waiting(o)
            BY <1>7, <2>1 DEF ExchangeInv
      <4> QED BY <1>0, <2>5, <3>2, <4>1 DEF Waiting
    <3> QED BY <3>1, <3>2
  <2>7. \A a, o \in Tasks : Busy(a)' /\ Busy(o)' /\ cl'[a] = cl'[o] => a = o
        BY <1>0, <1>7, <2>1 DEF ExchangeInv
  <2>8. toDev' # <<>> => \E o \in Tasks : Asking(o)'
    <3>1. toDev' # <<>> => \E o \in Tasks : Asking(o)
          BY <1>0, <2>1 DEF ExchangeInv
    <3>2. \A o \in Tasks : Asking(o) => o # t /\ Busy(o)
          BY <2>2 DEF Asking
    <3> QED BY <2>5, <3>1, <3>2
  <2>9. /\ made' > 0 /\ (stage' # "down" \/ mode' = "esphome")
        /\ \A o \in Tasks : Busy(o)' => cl'[o] # made'
        => rxq'[made'] = <<>>
    <3> SUFFICES ASSUME made > 0, stage # "down" \/ mode = "esphome",
                        \A o \in Tasks : Busy(o)' => cl[o] # made
                 PROVE  rxq'[made] = <<>>
        BY <1>0, <1>12
    <3>1. CASE c = made
          BY <1>1, <2>4, <3>1
    <3>2. CASE c # made
      <4>1. \A o \in Tasks : Busy(o) => cl[o] # made
            BY <1>1, <1>6, <3>2 DEF Busy
      <4>2. rxq[made] = <<>>
            BY <2>1, <4>1 DEF ExchangeInv
      <4>3. made \in Clients
            BY AlbaAssumption DEF AlbaAssumption, AlbaInv, SessionTypeOK, Clients
      <4> QED BY <1>5, <3>2, <4>2, <4>3
    <3> QED BY <3>1, <3>2
  <2>10. \A d \in Clients : d > made' => rxq'[d] = <<>>
    <3>1. made \in Nat
          BY DEF AlbaInv, SessionTypeOK
    <3>2. \A d \in Clients : d > made => d # c
          BY <1>2, <3>1 DEF Clients
    <3> QED BY <1>0, <1>5, <2>1, <3>2 DEF ExchangeInv
  <2>11. stray' = stray
        <3>1. ~(Accepts(w, f) /\ f.id # w.id)
              BY <2>3
        <3> QED BY <1>4, <3>1 DEF AnswerInv, ExchangeTypeOK
  <2> QED BY <2>6, <2>7, <2>8, <2>9, <2>10, <2>11 DEF ExchangeInv
<1>14. Calm' <=> Calm
       BY <1>0 DEF Calm
<1>15. OwnAnswers'
  <2>1. CASE Calm
        BY <1>0, <1>13, <2>1 DEF AnswerInv, OwnAnswers
  <2>2. CASE ~Calm
        BY <1>0, <2>2 DEF AnswerInv, OwnAnswers, Calm, ExchangeTypeOK
  <2> QED BY <2>1, <2>2
<1> QED BY <1>11, <1>12, <1>13, <1>14, <1>15 DEF AnswerInv

\* A call times out: with nothing under way, because a frame was lost or its session is
\* over.
LEMMA ExpireAnswers ==
    ASSUME AlbaInv, AnswerInv, NEW t \in Tasks, Expire(t)
    PROVE  AnswerInv'
<1>0. /\ UNCHANGED <<mode, made, client, handlers, rxq, cl, alive, toDev, sit, status, stops,
                     known, events, lost, overlapped, cut, stray>>
      /\ Busy(t) /\ rxq[cl[t]] = <<>>
      /\ wait' = [wait EXCEPT ![t] = Idle]
      /\ \/ prog' = prog /\ stage' = stage
         \/ prog' = [prog EXCEPT ![t] = <<>>] /\ stage' = IF t = "main" THEN "closing" ELSE stage
      /\ \/ toDev = <<>> /\ late' = late
         \/ late' = late + 1 /\ expired' = expired
      BY DEF Expire, Ended, clientVars, deviceVars
<1>1. wait \in [Tasks -> Waits \cup {Idle}] /\ late \in Nat
      BY DEF AnswerInv, ExchangeTypeOK
<1>2. \A o \in Tasks : /\ Busy(o)' <=> o # t /\ Busy(o)
                       /\ o # t => wait'[o] = wait[o]
      BY <1>0, <1>1 DEF Busy
<1>3. ExchangeTypeOK'
  <2>1. wait' \in [Tasks -> Waits \cup {Idle}] /\ late' \in Nat
        BY <1>0, <1>1
  <2> QED BY <1>0, <2>1 DEF AnswerInv, ExchangeTypeOK
<1>4. HandlersInv' /\ NewestInv' /\ (stage' = "down" <=> stage = "down")
      BY <1>0, <1>2, CallsShrink
<1>5. ASSUME Calm, late' = late, toDev = <<>>
      PROVE  ExchangeInv' /\ (lost > 0 \/ cut)
  <2>1. ExchangeInv
        BY <1>5 DEF AnswerInv
  <2>2. \A o \in Tasks : ~Asking(o)
    <3>1. Len(toDev) = 0
          BY <1>5
    <3> QED BY <3>1 DEF Asking
  <2>3. \A o \in Tasks : Busy(o)' => Waiting(o)'
        BY <1>0, <1>2, <2>1, <2>2 DEF ExchangeInv, Waiting
  <2>4. lost > 0 \/ cut
    <3>1. Waiting(t) /\ ~Whole(wait[t], rxq[cl[t]])
          BY <1>0, <2>1 DEF ExchangeInv, Whole
    <3> QED BY <2>2, <3>1 DEF Waiting
  <2>5. /\ made > 0 /\ (stage # "down" \/ mode = "esphome")
        /\ \A o \in Tasks : Busy(o)' => cl[o] # made
        => rxq[made] = <<>>
    <3>1. CASE cl[t] = made
          BY <1>0, <3>1
    <3>2. CASE cl[t] # made
          BY <1>2, <2>1, <3>2 DEF ExchangeInv
    <3> QED BY <3>1, <3>2
  <2>6. \A a, o \in Tasks : Busy(a)' /\ Busy(o)' /\ cl'[a] = cl'[o] => a = o
        BY <1>0, <1>2, <2>1 DEF ExchangeInv
  <2>7. \A c \in Clients : c > made' => rxq'[c] = <<>>
        BY <1>0, <2>1 DEF ExchangeInv
  <2> QED BY <1>0, <1>4, <1>5, <2>3, <2>4, <2>5, <2>6, <2>7 DEF ExchangeInv
<1>6. Calm' => Calm /\ late' = late /\ toDev = <<>>
      BY <1>0, <1>1 DEF Calm
<1>7. OwnAnswers'
  <2>1. CASE Calm'
        BY <1>0, <1>5, <1>6, <2>1 DEF AnswerInv, OwnAnswers
  <2>2. CASE ~Calm'
        BY <1>0, <1>3, <2>2 DEF OwnAnswers, Calm, ExchangeTypeOK
  <2> QED BY <2>1, <2>2
<1> QED BY <1>3, <1>4, <1>5, <1>6, <1>7 DEF AnswerInv

\* The device answers: only the client made last, and the call that asked, get the frames.
LEMMA DispatchAnswers ==
    ASSUME AlbaInv, AnswerInv, Dispatch
    PROVE  AnswerInv'
<1>0. /\ UNCHANGED <<mode, stage, made, client, handlers, wait, prog, cl, alive, sit,
                     known, events, late, lost, overlapped, cut, stray, expired>>
      /\ toDev # <<>> /\ toDev' = Tail(toDev)
      BY DEF Dispatch, clientVars, taskVars, ghostVars
<1>1. toDev \in Seq(Requests) /\ made \in Nat /\ mode \in {"service", "esphome"}
      BY DEF AlbaInv, SessionTypeOK
<1>2. PICK r : r = Head(toDev)
      OBVIOUS
<1>3. r \in Requests /\ r = toDev[1]
      BY <1>0, <1>1, <1>2, HeadTailProperties
<1>4. PICK w : w = [cmd |-> r.cmd, dp |-> r.dp, id |-> r.id, left |-> 0, caught |-> TRUE]
      OBVIOUS
<1>5. w \in Waits /\ w.left = 0 /\ w.cmd = r.cmd /\ w.id = r.id
      BY <1>3, <1>4 DEF Waits, Requests
<1>6. Answer(r) \in Seq(Frames)
      BY <1>3, <1>5, AnswerWhole DEF AnswerInv
<1>7. rxq \in [Clients -> Seq(Frames)] /\ stops \in Seq(WindDowns) /\ status \in Int
      BY DEF AnswerInv, ExchangeTypeOK
<1>8. rxq' = [c \in Clients |->
                IF Receives(c) /\ (c = client \/ \E t \in Tasks : cl[t] = c)
                THEN rxq[c] \o Answer(r) ELSE rxq[c]]
      BY <1>2 DEF Dispatch, OnData
<1>9. ExchangeTypeOK'
  <2>1. \A c \in Clients : rxq[c] \o Answer(r) \in Seq(Frames)
        BY <1>6, <1>7, ConcatProperties
  <2>2. rxq' \in [Clients -> Seq(Frames)]
        BY <1>7, <1>8, <2>1
  <2>3. status' \in Int
        BY <1>7 DEF Dispatch
  <2>4. stops' = stops \/ stops' = Append(stops, <<6, 7, 2>>)
        BY DEF Dispatch
  <2>5. stops' \in Seq(WindDowns)
        BY <1>7, <2>4, AppendProperties DEF WindDowns
  <2> QED BY <1>0, <2>2, <2>3, <2>5 DEF AnswerInv, ExchangeTypeOK
<1>10. \A t \in Tasks : Busy(t)' <=> Busy(t)
       BY <1>0 DEF Busy
<1>11. HandlersInv'
       BY <1>0 DEF AnswerInv, HandlersInv
<1>12. NewestInv'
  <2>1. \A o \in Tasks : Busy(o)' => /\ cl'[o] \in 1..made'
                                     /\ cl'[o] # made' \/ stage' = "down" => cut'
        BY <1>0, <1>10 DEF AnswerInv, NewestInv
  <2>2. mode' = "esphome" => ~Busy("cmd")'
        BY <1>0, <1>10 DEF AnswerInv, NewestInv, Tasks
  <2>3. /\ stage' = "down" => ~alive'
        /\ stage' # "down" => made' > 0 /\ (alive' \/ lost' > 0)
        BY <1>0 DEF AnswerInv, NewestInv
  <2>4. PostConnecting' \/ Busy("main")' \/ prog'["main"] # <<>> => cl'["main"] = made'
        BY <1>0, <1>10 DEF AnswerInv, NewestInv, PostConnecting, Tasks
  <2>5. client' \in {0, made'}
        BY <1>0 DEF AnswerInv, NewestInv
  <2> QED BY ONLY <2>1, <2>2, <2>3, <2>4, <2>5 DEF NewestInv
<1>13. Calm' => ExchangeInv'
  <2> SUFFICES ASSUME Calm' PROVE ExchangeInv'
      OBVIOUS
  <2>1. ExchangeInv
        BY <1>0 DEF AnswerInv, Calm
  <2>2. PICK t \in Tasks : Asking(t)
        BY <1>0, <2>1 DEF ExchangeInv
  <2>3. /\ Busy(t) /\ cl[t] = made /\ rxq[made] = <<>> /\ wait[t].left = 0
        /\ Len(toDev) = 1 /\ r.id = wait[t].id /\ r.cmd = wait[t].cmd
        BY <1>3, <2>2 DEF Asking
  <2>4. wait[t] \in Waits /\ made \in 1..made /\ made \in Clients
        BY <2>3, BusyCall
  <2>5. Whole(wait[t], Answer(r))
        BY <1>3, <2>3, <2>4, AnswerWhole DEF AnswerInv
  <2>6. Receives(made)
    <3>1. PICK i \in DOMAIN handlers : handlers[i] = made
          BY <2>4 DEF AnswerInv, HandlersInv
    <3>2. \A j \in DOMAIN handlers : handlers[j] # 0
          BY <2>4 DEF AnswerInv, HandlersInv
    <3>3. handlers \in Seq(0..made)
          BY DEF AnswerInv, HandlersInv
    <3>4. Len(handlers) \in Nat /\ DOMAIN handlers = 1..Len(handlers)
          BY <3>3, LenProperties
    <3>5. \A j \in 1..i : j \in DOMAIN handlers
          BY <3>4
    <3> QED BY <3>1, <3>2, <3>5 DEF Receives
  <2>7. rxq'[made] = Answer(r)
    <3>1. rxq'[made] = rxq[made] \o Answer(r)
          BY <1>8, <2>3, <2>4, <2>6
    <3> QED BY <1>6, <2>3, <3>1
  <2>8. toDev' = <<>>
        BY <1>0, <1>1, <2>3, HeadTailProperties, EmptySeq
  <2>9. ASSUME NEW o \in Tasks, Busy(o), o # t
        PROVE  Waiting(o)'
    <3>1. cl[o] # made /\ cl[o] \in Clients
          BY <2>1, <2>3, <2>9, BusyCall DEF ExchangeInv
    <3>2. mode = "service"
          BY <1>1, <2>3, <2>9 DEF AnswerInv, NewestInv, Tasks
    <3>3. handlers = <<made>>
          BY <2>4, <3>2 DEF AnswerInv, HandlersInv
    <3>4. ~Receives(cl[o])
          BY <3>1, <3>3 DEF Receives
    <3>5. rxq'[cl[o]] = rxq[cl[o]]
          BY <1>8, <3>1, <3>4
    <3>6. Waiting(o) /\ ~Asking(o)
          BY <2>1, <2>9, <3>1 DEF ExchangeInv, Asking
    <3> QED BY <1>0, <3>5, <3>6 DEF Waiting
  <2>10. \A o \in Tasks : Busy(o)' => Waiting(o)'
    <3>1. Waiting(t)'
          BY <1>0, <2>3, <2>5, <2>7 DEF Waiting
    <3> QED BY <1>10, <2>9, <3>1
  <2>11. \A c \in Clients : c > made' => rxq'[c] = <<>>
    <3> SUFFICES ASSUME NEW c \in Clients, c > made PROVE rxq'[c] = <<>>
        BY <1>0
    <3>1. handlers \in Seq(0..made) /\ c \notin 0..made
          BY <1>1 DEF AnswerInv, HandlersInv, Clients
    <3>2. \A i \in DOMAIN handlers : handlers[i] \in 0..made
          BY <3>1, LenProperties, ElementOfSeq
    <3>3. ~Receives(c)
          BY <3>1, <3>2 DEF Receives
    <3> QED BY <1>8, <2>1, <3>3 DEF ExchangeInv
  <2>12. ~(\A o \in Tasks : Busy(o)' => cl'[o] # made')
        BY <1>0, <1>10, <2>3
  <2>13. \A a, o \in Tasks : Busy(a)' /\ Busy(o)' /\ cl'[a] = cl'[o] => a = o
        BY <1>0, <1>10, <2>1 DEF ExchangeInv
  <2> QED BY <2>8, <2>10, <2>11, <2>12, <2>13 DEF ExchangeInv
<1>14. OwnAnswers'
       BY <1>0 DEF AnswerInv, OwnAnswers
<1> QED BY <1>9, <1>11, <1>12, <1>13, <1>14 DEF AnswerInv

\* A session begins: on a new AlbaClient, whose queue is empty, or on the only one of a
\* persistent connection, with no call under way.
LEMMA OpenAnswers ==
    ASSUME AlbaInv, AnswerInv, Open
    PROVE  AnswerInv'
<1>0. /\ UNCHANGED <<mode, rxq, wait, toDev, stops, known, events, late, lost, overlapped, cut,
                     stray, expired>>
      /\ stage = "down" /\ ~Busy("main") /\ conn < MaxSessions /\ stage' # "down"
      /\ alive' = TRUE /\ sit' = 1 - sit /\ status' = 2 - sit
      BY DEF Open, ghostVars
<1>1. /\ MaxSessions \in Nat /\ conn \in 0..MaxSessions /\ made \in 0..conn /\ client \in 0..made
      /\ mode \in {"service", "esphome"} /\ cl \in [Tasks -> Nat] /\ made \in Nat
      /\ Tasks = {"main", "cmd"}
      BY AlbaAssumption DEF AlbaInv, SessionTypeOK, AlbaAssumption, Tasks
<1>2. toDev = <<>>
      BY <1>0 DEF AnswerInv, NewestInv, AlbaInv, AskInv
<1>3. \A t \in Tasks : /\ Busy(t)' <=> Busy(t)
                       /\ Busy(t) => t = "cmd" /\ cut /\ mode = "service" /\ cl[t] \in 1..made
      BY <1>0, <1>1 DEF Busy, AnswerInv, NewestInv
<1>4. ExchangeTypeOK'
  <2>1. sit' \in Int /\ status' \in Int
        BY <1>0 DEF AnswerInv, ExchangeTypeOK
  <2> QED BY <1>0, <2>1 DEF AnswerInv, ExchangeTypeOK
<1>5. OwnAnswers'
      BY <1>0 DEF AnswerInv, OwnAnswers
<1>6. \/ /\ mode = "esphome" /\ client # 0 /\ cl' = [cl EXCEPT !["main"] = client]
         /\ UNCHANGED <<client, made, handlers>>
      \/ /\ mode = "service" \/ client = 0
         /\ made' = made + 1 /\ client' = 0 /\ cl' = [cl EXCEPT !["main"] = made + 1]
         /\ handlers' = Append(Unregistered(IF mode = "service" THEN <<0>> ELSE handlers),
                               made + 1)
      BY DEF Open
<1>7. CASE /\ mode = "esphome" /\ client # 0 /\ cl' = [cl EXCEPT !["main"] = client]
           /\ UNCHANGED <<client, made, handlers>>
  <2>1. client = made /\ made > 0 /\ cl'["main"] = made
        BY <1>1, <1>7 DEF AnswerInv, NewestInv
  <2>2. \A t \in Tasks : ~Busy(t)'
        BY <1>3, <1>7
  <2>3. HandlersInv'
        BY <1>0, <1>7 DEF AnswerInv, HandlersInv
  <2>4. NewestInv'
        BY <1>0, <1>1, <1>7, <2>1, <2>2 DEF NewestInv
  <2>5. Calm' => ExchangeInv'
    <3> SUFFICES ASSUME Calm' PROVE ExchangeInv'
        OBVIOUS
    <3>1. ExchangeInv
          BY <1>0 DEF AnswerInv, Calm
    <3>2. rxq[made] = <<>>
          BY <1>3, <1>7, <2>1, <2>2, <3>1 DEF ExchangeInv
    <3>3. \A c \in Clients : c > made => rxq[c] = <<>>
          BY <3>1 DEF ExchangeInv
    <3> QED BY <1>0, <1>2, <1>7, <2>2, <3>2, <3>3 DEF ExchangeInv
  <2> QED BY <1>4, <1>5, <2>3, <2>4, <2>5 DEF AnswerInv
<1>8. CASE /\ mode = "service" \/ client = 0
           /\ made' = made + 1 /\ client' = 0 /\ cl' = [cl EXCEPT !["main"] = made + 1]
           /\ handlers' = Append(Unregistered(IF mode = "service" THEN <<0>> ELSE handlers),
                                 made + 1)
  <2>1. made' \in Nat /\ made' > 0 /\ made' \in Clients /\ made' > made
        BY <1>0, <1>1, <1>8 DEF Clients
  <2>2. cl'["main"] = made' /\ \A t \in Tasks : Busy(t) => cl'[t] = cl[t]
        BY <1>1, <1>3, <1>8
  <2>3. PICK h : h = Unregistered(IF mode = "service" THEN <<0>> ELSE handlers)
        OBVIOUS
  <2>4. /\ h \in Seq(1..made) /\ (mode = "service" => h = <<>>)
    <3>1. \A s : s = <<0>> => Unregistered(s) = <<>>
          BY DEF Unregistered, WithoutMera
    <3>2. CASE mode = "service" \/ made = 0
      <4>1. (IF mode = "service" THEN <<0>> ELSE handlers) = <<0>>
            BY <3>2 DEF AnswerInv, HandlersInv
      <4> QED BY <2>3, <3>1, <4>1, EmptySeq
    <3>3. CASE ~(mode = "service" \/ made = 0)
      <4>1. h = Unregistered(handlers)
            BY <2>3, <3>3
      <4>2. handlers \in Seq(0..made) /\ \A i \in DOMAIN handlers : handlers[i] # 0
            BY <1>1, <3>3 DEF AnswerInv, HandlersInv
      <4>3. Len(handlers) \in Nat /\ DOMAIN handlers = 1..Len(handlers)
            BY <4>2, LenProperties
      <4>4. \A i \in 1..Len(handlers) : handlers[i] \in 1..made
            BY <1>1, <4>2, <4>3, ElementOfSeq
      <4>5. handlers \in Seq(1..made)
        <5>1. handlers \in [1..Len(handlers) -> 1..made]
              BY <4>2, <4>3, <4>4, LenProperties
        <5> QED BY <4>3, <5>1, SeqDef
      <4>6. handlers # <<>> => Head(handlers) # 0
            BY <4>2, <4>3
      <4>7. h = handlers
            BY <4>1, <4>6 DEF Unregistered, WithoutMera
      <4> QED BY <3>3, <4>5, <4>7
    <3> QED BY <3>2, <3>3
  <2>5. PICK n \in Nat : n = Len(h)
        BY <2>4, LenProperties
  <2>6. handlers' = Append(h, made') /\ h \in Seq(1..made')
    <3>1. 1..made \subseteq 1..made'
          BY <1>1, <1>8
    <3> QED BY <1>8, <2>3, <2>4, <3>1, SeqMonotonic
  <2>7. /\ handlers' \in Seq(1..made') /\ Len(handlers') = n + 1 /\ handlers'[n + 1] = made'
        BY <2>1, <2>5, <2>6, AppendProperties
  <2>8. HandlersInv'
    <3>1. DOMAIN handlers' = 1..(n + 1) /\ \A i \in DOMAIN handlers' : handlers'[i] \in 1..made'
          BY <2>7, LenProperties, ElementOfSeq
    <3>2. \A i \in DOMAIN handlers' : handlers'[i] # 0
          BY <3>1
    <3>3. \E i \in DOMAIN handlers' : handlers'[i] = made'
          BY <2>7, <3>1
    <3>4. mode = "service" => handlers' = <<made'>>
          BY <2>4, <2>6
    <3>5. handlers' \in Seq(0..made')
      <4>1. 1..made' \subseteq 0..made'
            OBVIOUS
      <4> QED BY <2>7, <4>1, SeqMonotonic
    <3> QED BY <1>0, <2>1, <3>2, <3>3, <3>4, <3>5 DEF HandlersInv
  <2>9. NewestInv'
    <3>1. \A o \in Tasks : Busy(o)' => /\ cl'[o] \in 1..made'
                                       /\ cl'[o] # made' \/ stage' = "down" => cut'
          BY <1>0, <1>1, <1>3, <1>8, <2>2
    <3>2. mode' = "esphome" => ~Busy("cmd")'
          BY <1>0, <1>1, <1>3
    <3>3. /\ stage' = "down" => ~alive'
          /\ stage' # "down" => made' > 0 /\ (alive' \/ lost' > 0)
          BY <1>0, <2>1
    <3>4. PostConnecting' \/ Busy("main")' \/ prog'["main"] # <<>> => cl'["main"] = made'
          BY <2>2
    <3>5. client' \in {0, made'}
          BY <1>8
    <3> QED BY ONLY <3>1, <3>2, <3>3, <3>4, <3>5 DEF NewestInv
  <2>10. Calm' => ExchangeInv'
    <3> SUFFICES ASSUME Calm' PROVE ExchangeInv'
        OBVIOUS
    <3>1. ExchangeInv
          BY <1>0 DEF AnswerInv, Calm
    <3>2. \A c \in Clients : c > made' => rxq'[c] = <<>>
      <4>1. \A c \in Clients : c > made' => c > made
            BY <1>1, <1>8 DEF Clients
      <4> QED BY <1>0, <3>1, <4>1 DEF ExchangeInv
    <3>3. rxq'[made'] = <<>>
          BY <1>0, <2>1, <3>1 DEF ExchangeInv
    <3>4. \A a, o \in Tasks : Busy(a)' /\ Busy(o)' /\ cl'[a] = cl'[o] => a = o
          BY <1>3
    <3>5. \A o \in Tasks : Busy(o)' => Waiting(o)'
      <4> SUFFICES ASSUME NEW o \in Tasks, Busy(o) PROVE Waiting(o)'
          BY <1>3
      <4>1. Waiting(o) /\ ~Asking(o)
        <5>1. Len(toDev) = 0
              BY <1>2
        <5> QED BY <3>1, <5>1 DEF ExchangeInv, Asking
      <4> QED BY <1>0, <2>2, <4>1 DEF Waiting
    <3> QED BY <1>0, <1>2, <3>2, <3>3, <3>4, <3>5 DEF ExchangeInv
  <2> QED BY <1>4, <1>5, <2>8, <2>9, <2>10 DEF AnswerInv
<1> QED BY <1>6, <1>7, <1>8

\* A session ends: a call that goes on has outlived it.
LEMMA CloseAnswers ==
    ASSUME AlbaInv, AnswerInv, Close
    PROVE  AnswerInv'
<1>0. /\ UNCHANGED <<mode, made, client, handlers, rxq, cl, sit, status, known, events, late, lost,
                     overlapped, stray, expired>>
      /\ stage' = "down" /\ alive' = FALSE /\ toDev' = <<>> /\ stops' = <<>> /\ stage # "down"
      /\ prog' = [prog EXCEPT !["main"] = <<>>] /\ wait' = [wait EXCEPT !["main"] = Idle]
      /\ cut' = (cut \/ Busy("cmd") \/ prog["cmd"] # <<>>)
      /\ mode = "esphome" => ~Busy("main")
      BY DEF Close, clientVars
<1>1. /\ Tasks = {"main", "cmd"} /\ prog \in [Tasks -> Seq(Calls)]
      /\ wait \in [Tasks -> Waits \cup {Idle}]
      BY DEF Tasks, AlbaInv, SessionTypeOK, AnswerInv, ExchangeTypeOK
<1>2. \A t \in Tasks : /\ Busy(t)' => t = "cmd" /\ Busy(t) /\ cut' /\ wait'[t] = wait[t]
                       /\ mode = "esphome" => ~Busy(t) /\ ~Busy(t)'
      BY <1>0, <1>1 DEF Busy, AnswerInv, NewestInv
<1>3. ExchangeTypeOK'
  <2>1. wait' \in [Tasks -> Waits \cup {Idle}]
        BY <1>0, <1>1
  <2>2. cut' \in BOOLEAN
        BY <1>0 DEF AnswerInv, ExchangeTypeOK
  <2>3. stops' \in Seq(WindDowns)
        BY <1>0, EmptySeq
  <2> QED BY <1>0, <2>1, <2>2, <2>3 DEF AnswerInv, ExchangeTypeOK
<1>4. HandlersInv'
      BY <1>0 DEF AnswerInv, HandlersInv
<1>5. NewestInv'
  <2>1. \A o \in Tasks : Busy(o)' => /\ cl'[o] \in 1..made'
                                     /\ cl'[o] # made' \/ stage' = "down" => cut'
        BY <1>0, <1>2 DEF AnswerInv, NewestInv
  <2>2. mode' = "esphome" => ~Busy("cmd")'
        BY <1>0, <1>1, <1>2
  <2>3. /\ stage' = "down" => ~alive'
        /\ stage' # "down" => made' > 0 /\ (alive' \/ lost' > 0)
        BY <1>0
  <2>4. PostConnecting' \/ Busy("main")' \/ prog'["main"] # <<>> => cl'["main"] = made'
        BY <1>0, <1>1, <1>2 DEF PostConnecting
  <2>5. client' \in {0, made'}
        BY <1>0 DEF AnswerInv, NewestInv
  <2> QED BY ONLY <2>1, <2>2, <2>3, <2>4, <2>5 DEF NewestInv
<1>6. Calm' => ExchangeInv'
  <2> SUFFICES ASSUME Calm' PROVE ExchangeInv'
      OBVIOUS
  <2>1. ExchangeInv
        BY <1>0 DEF AnswerInv, Calm
  <2>2. \A o \in Tasks : Busy(o)' => Waiting(o)'
        BY <1>0, <1>2, <2>1 DEF ExchangeInv, Waiting, Asking
  <2>3. made > 0 /\ mode = "esphome" => rxq[made] = <<>>
        BY <1>2, <2>1 DEF ExchangeInv
  <2>4. \A c \in Clients : c > made => rxq[c] = <<>>
        BY <2>1 DEF ExchangeInv
  <2>5. \A a, o \in Tasks : Busy(a)' /\ Busy(o)' /\ cl'[a] = cl'[o] => a = o
        BY <1>2
  <2> QED BY <1>0, <2>2, <2>3, <2>4, <2>5 DEF ExchangeInv
<1>7. OwnAnswers'
      BY <1>0 DEF AnswerInv, OwnAnswers
<1> QED BY <1>3, <1>4, <1>5, <1>6, <1>7 DEF AnswerInv

LEMMA InitAnswers == ASSUME AlbaAssumption, Init PROVE AnswerInv
<1>1. ExchangeTypeOK
  <2>1. <<>> \in Seq(Frames) /\ <<>> \in Seq(WindDowns)
        BY EmptySeq
  <2>2. IsFiniteSet(known)
    <3>1. IsFiniteSet({"status"}) /\ IsFiniteSet({"status"} \cup {"sit"})
          BY FS_Singleton, FS_AddElement
    <3>2. {"sit", "status"} = {"status"} \cup {"sit"}
          OBVIOUS
    <3> QED BY <3>1, <3>2 DEF Init
  <2>3. wait \in [Tasks -> Waits \cup {Idle}] /\ rxq \in [Clients -> Seq(Frames)]
        BY <2>1 DEF Init
  <2>4. /\ sit \in Int /\ status \in Int /\ stops \in Seq(WindDowns) /\ events \in Nat
        /\ late \in Nat /\ lost \in Nat
        BY <2>1 DEF Init
  <2>5. overlapped \in BOOLEAN /\ cut \in BOOLEAN /\ stray \in BOOLEAN
        BY DEF Init
  <2> QED BY <2>2, <2>3, <2>4, <2>5 DEF ExchangeTypeOK
<1>2. \A t \in Tasks : ~Busy(t)
      BY DEF Init, Busy
<1>3. HandlersInv
  <2>1. made = 0 /\ handlers = <<0>> /\ 0 \in 0..made
        BY DEF Init
  <2>2. handlers \in Seq(0..made)
        BY <2>1
  <2> QED BY <2>1, <2>2 DEF HandlersInv
<1>4. NewestInv
      BY <1>2 DEF Init, NewestInv, PostConnecting, Tasks
<1>5. ExchangeInv
      BY <1>2 DEF Init, ExchangeInv
<1>6. OwnAnswers
      BY DEF Init, OwnAnswers
<1> QED BY <1>1, <1>3, <1>4, <1>5, <1>6 DEF AnswerInv

\* The inductive invariant of the calls, next to the one of the sessions.
THEOREM AnswerInvariant == Spec => []AnswerInv
<1>1. Init => AnswerInv
      BY AlbaAssumption, InitAnswers
<1>2. AlbaInv /\ AnswerInv /\ [Next]_vars => AnswerInv'
  <2> SUFFICES ASSUME AlbaInv, AnswerInv, [Next]_vars PROVE AnswerInv'
      OBVIOUS
  <2>1. CASE Open
        BY <2>1, OpenAnswers
  <2>2. CASE Dispatched \/ DispatchedAgain \/ UNCHANGED vars
        BY <2>2, BetweenCalls
  <2>3. CASE Close
        BY <2>3, CloseAnswers
  <2>4. CASE Dispatch
        BY <2>4, DispatchAnswers
  <2>5. ASSUME NEW t \in Tasks, Step(t) PROVE AnswerInv'
    <3>1. CASE Send(t)
          BY <3>1, SendAnswers
    <3>2. CASE SendFails(t) \/ Publish(t)
          BY <3>2, BetweenCalls
    <3>3. CASE Take(t)
          BY <3>3, TakeAnswers
    <3>4. CASE Expire(t)
          BY <3>4, ExpireAnswers
    <3> QED BY <2>5, <3>1, <3>2, <3>3, <3>4 DEF Step
  <2>6. ASSUME NEW t \in Tasks, NEW p \in Programs, Start(t, p) PROVE AnswerInv'
        BY <2>6, BetweenCalls
  <2>7. CASE Lose
        BY <2>7, LoseAnswers
  <2>8. CASE StopSequence
        BY <2>8, StopSequenceAnswers
  <2> QED BY <2>1, <2>2, <2>3, <2>4, <2>5, <2>6, <2>7, <2>8 DEF Next, Progress
<1> QED BY <1>1, <1>2, AlbaInvariant, PTL DEF Spec

\* Every call gets its own answer unless two calls of one client overlapped or an answer
\* was late, and a call waits out its 30 s only then, or after a lost frame or the end of
\* its session: for any number of sessions, actions and faults.
THEOREM AlwaysOwnAnswers == Spec => []OwnAnswers
<1>1. AnswerInv => OwnAnswers
      BY DEF AnswerInv
<1> QED BY <1>1, AnswerInvariant, PTL
=============================================================================
