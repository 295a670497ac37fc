---------------------------- MODULE AriendiLink ----------------------------
(***************************************************************************)
(* The Arendi Security channel to an Alba: AriendiSecurity of the bridge   *)
(* and _AriendiServerSide of aquaclean_ble_relay/alba_mock.py, with the    *)
(* session loop of the mock around it (_handshake_loop) and its pusher.    *)
(*                                                                         *)
(* A frame stands for one HDLC frame with a valid COBS coding and CRC.     *)
(* Both directions are encrypted with a key stream (AES-CTR): a data frame *)
(* carries its key and its place in the stream, and decrypts to something  *)
(* whose inner CRC is right only when the receiver's cipher has that key   *)
(* and stands at that place.  A receiver's cipher moves on with every data *)
(* frame, also with one it cannot read.  RR frames change nothing outside  *)
(* the mock's srr queue, which nobody waits on in ble20 mode.              *)
(***************************************************************************)
EXTENDS Integers, Sequences, FiniteSets

CONSTANTS
    MaxAttempts,  \* bound: connections the bridge opens
    MaxRequests,  \* bound: requests of the bridge
    MaxPushes,    \* bound: notifications of the mock's pusher
    MaxLost       \* bound: frames lost, in either direction

ASSUME AriendiAssumption ==
    MaxAttempts \in Nat /\ MaxRequests \in Nat /\ MaxPushes \in Nat /\ MaxLost \in Nat

VARIABLES
    cpc,         \* where the bridge is: down, a wait of perform_handshake, open
    attempt,     \* connections so far; names the bridge's ephemeral key pair
    nonce,       \* nonce1/nonce2 of the last EP response
    ckey,        \* key of _rx_cipher and _tx_cipher, NoKey before step 8
    crx, ctx,    \* their places in the key streams
    cq,          \* _rx_queue
    up,          \* the BLE link
    toDev, toApp,
    spc,         \* where the mock's session is
    fresh,       \* key exchanges the mock has started; names nonces and key pair
    skey,        \* key of its ciphers
    srx, stx,
    sq,          \* _rx_queue of the session object
    sdone,       \* handshake_done of the session object
    burst,       \* responses of app_handler still to be sent
    phase,       \* _ble_session_phase (1, 2, 3 for 3 and more)
    saw, disc,   \* _phase2_saw_storage, _disc_sent
    pre,         \* _session_pre_created
    subscribed,  \* the session's app layer has a subscription
    garbled,     \* connections of which a data frame was decrypted to garbage
    secret,      \* the device has the bridge's secret, or another one and checks
                 \* the bridge's CMAC as the mock does, or does not check it
    requests, pushes, lost,
    upset        \* history: connections of which a frame was lost, or of which a
                 \* response was overtaken by a notification

clientVars == <<cpc, attempt, nonce, ckey, crx, ctx, cq, requests>>
serverVars == <<spc, fresh, skey, srx, stx, sq, sdone, burst, phase, saw, disc, pre,
                subscribed, pushes>>
faultVars == <<lost, upset, secret>>
airVars == <<up, toDev, toApp, faultVars>>
vars == <<clientVars, serverVars, airVars, garbled>>

NoKey == <<0, 0>>
Waits == {"ua", "version", "ep", "ke"}
Kinds == {"read", "inventory", "storage", "notify"}

U(t) == [t |-> t]
Data(key, pos, body) == [t |-> "DATA", key |-> key, pos |-> pos, body |-> body]
IsData(f) == f.t = "DATA"

Init ==
    /\ cpc = "down" /\ attempt = 0 /\ nonce = 0 /\ ckey = NoKey /\ crx = 0 /\ ctx = 0
    /\ cq = <<>> /\ requests = 0
    /\ up = FALSE /\ toDev = <<>> /\ toApp = <<>> /\ lost = 0 /\ upset = {}
    /\ spc = "sabm" /\ fresh = 0 /\ skey = NoKey /\ srx = 0 /\ stx = 0 /\ sq = <<>>
    /\ sdone = FALSE /\ burst = <<>> /\ phase = 1 /\ saw = FALSE /\ disc = FALSE
    /\ pre = FALSE /\ subscribed = FALSE /\ pushes = 0
    /\ garbled = {}
    /\ secret \in {"same", "other", "unchecked"}

Write(f) == toDev' = Append(toDev, f)
\* send_notify: without a link the notification goes nowhere.
Emitted(fs) == IF up THEN toApp \o fs ELSE toApp

-----------------------------------------------------------------------------
\* The bridge.

\* reset(): called by the connector before each connection.
Reset ==
    /\ nonce' = 0 /\ ckey' = NoKey /\ crx' = 0 /\ ctx' = 0 /\ cq' = <<>>

\* A new BLE link; perform_handshake sends SABM.
Connect ==
    /\ cpc = "down" /\ attempt < MaxAttempts
    /\ attempt' = attempt + 1
    /\ Reset
    /\ cpc' = "ua"
    /\ up' = TRUE /\ toDev' = Append(toDev, U("SABM")) /\ toApp' = <<>>
    /\ UNCHANGED <<serverVars, requests, faultVars, garbled>>

\* The data frames among the first n of q.
DataIn(q, n) == Cardinality({j \in 1..n : IsData(q[j])})

\* The data frame q[i] decrypts when all the data frames before it are taken first.
Decrypts(q, i) == q[i].key = ckey /\ q[i].pos = crx + DataIn(q, i - 1)

\* Mutated form: frames queued during the handshake are thrown away.
DrainedNew(f) == <<f>>

\* feed_att_bytes after the handshake empties the whole queue.
Drained(f) == Append(cq, f)

\* feed_att_bytes: frames wait in _rx_queue until the handshake is done.
FeedAttBytes ==
    /\ toApp # <<>>
    /\ toApp' = Tail(toApp)
    /\ \/ /\ cpc # "open"
          /\ cq' = Append(cq, Head(toApp))
          /\ UNCHANGED <<crx, garbled>>
       \/ /\ cpc = "open"
          /\ LET q == Drained(Head(toApp)) IN
               /\ crx' = crx + DataIn(q, Len(q))
               /\ garbled' = IF \A i \in 1..Len(q) : IsData(q[i]) => Decrypts(q, i)
                             THEN garbled ELSE garbled \cup {attempt}
          /\ cq' = <<>>
    /\ UNCHANGED <<cpc, attempt, nonce, ckey, ctx, requests, serverVars, up, toDev,
                   faultVars>>

\* _await_u_frame and _await_i_security: the frame each wait is for; any other
\* frame is discarded.
Expected(f) ==
    \/ cpc = "ua" /\ f.t = "UA"
    \/ cpc = "version" /\ f.t = "VERSION_RESP"
    \/ cpc = "ep" /\ f.t = "EP_RESP"
    \/ cpc = "ke" /\ f.t = "KE_RESP"

\* The link goes down.  What the bridge wrote last may still reach the mock, and
\* behind it, unless the adapter misses it, the signal that makes
\* on_device_disconnected put DISCONNECT into the current session's queue.
Hangup ==
    /\ cpc' = "down"
    /\ up' = FALSE /\ toApp' = <<>>
    /\ \E written \in {<<>>, toDev}, signal \in {<<>>, <<U("DISCONNECT")>>} :
           toDev' = written \o signal

\* perform_handshake goes one step on with a frame of its queue.  A wrong server
\* CMAC raises, and the connector disconnects.
HandshakeStep ==
    /\ cpc \in Waits /\ cq # <<>>
    /\ LET f == Head(cq) IN
        \/ /\ ~Expected(f)
           /\ UNCHANGED <<cpc, nonce, ckey, crx, ctx, toDev, up, toApp>>
        \/ /\ Expected(f) /\ cpc = "ua"
           /\ cpc' = "version" /\ Write(U("VERSION_REQ"))
           /\ UNCHANGED <<nonce, ckey, crx, ctx, up, toApp>>
        \/ /\ Expected(f) /\ cpc = "version"
           /\ cpc' = "ep" /\ Write(U("EP_REQ"))
           /\ UNCHANGED <<nonce, ckey, crx, ctx, up, toApp>>
        \/ /\ Expected(f) /\ cpc = "ep"
           /\ cpc' = "ke" /\ nonce' = f.nonce
           /\ Write([t |-> "KE_REQ", pub |-> attempt, mac |-> f.nonce])
           /\ UNCHANGED <<ckey, crx, ctx, up, toApp>>
        \/ /\ Expected(f) /\ cpc = "ke" /\ f.mac = nonce /\ secret = "same"
           /\ ckey' = <<attempt, f.pub>> /\ crx' = 0 /\ ctx' = 0
           /\ cpc' = "rr"
           /\ UNCHANGED <<nonce, toDev, up, toApp>>
        \/ /\ Expected(f) /\ cpc = "ke" /\ (f.mac # nonce \/ secret # "same")
           /\ Hangup
           /\ UNCHANGED <<nonce, ckey, crx, ctx>>
    /\ cq' = Tail(cq)
    /\ UNCHANGED <<attempt, requests, serverVars, faultVars, garbled>>

\* The RR that acknowledges the KE response is sent: handshake_done.
HandshakeDone ==
    /\ cpc = "rr"
    /\ cpc' = "open"
    /\ UNCHANGED <<attempt, nonce, ckey, crx, ctx, cq, requests, serverVars, airVars,
                   garbled>>

\* wrap_for_send: encrypts with the next piece of the key stream.
WrapForSend(kind) ==
    /\ cpc = "open" /\ requests < MaxRequests
    /\ Write(Data(ckey, ctx, kind))
    /\ ctx' = ctx + 1
    /\ requests' = requests + 1
    /\ UNCHANGED <<cpc, attempt, nonce, ckey, crx, cq, serverVars, up, toApp, faultVars, garbled>>

\* The bridge is done, or a wait of the handshake runs into its 5 s, which is
\* longer than any exchange takes.
Disconnect ==
    /\ \/ cpc = "open"
       \/ cpc \in Waits /\ cq = <<>> /\ toApp = <<>> /\ toDev = <<>> /\ sq = <<>>
    /\ Hangup
    /\ UNCHANGED <<attempt, nonce, ckey, crx, ctx, cq, requests, serverVars, faultVars,
                   garbled>>

-----------------------------------------------------------------------------
\* The mock's session.

\* feed: the write handler queues the frame in the current session object.  While
\* the loop has not replaced a finished object, nobody will read it.
Feed ==
    /\ toDev # <<>>
    /\ toDev' = Tail(toDev)
    /\ sq' = IF spc = "over" /\ ~pre THEN sq ELSE Append(sq, Head(toDev))
    /\ UNCHANGED <<clientVars, spc, fresh, skey, srx, stx, sdone, burst, phase, saw,
                   disc, pre, subscribed, pushes, up, toApp, faultVars, garbled>>

\* run() returns; when the peer has closed the link or a phase 2 timeout fired
\* (soon), _handshake_loop creates the next session at once.
SessionOver(soon) ==
    /\ spc' = "over" /\ pre' = soon
    /\ sq' = <<>>
    /\ sdone' = (sdone /\ ~soon)
    /\ subscribed' = (subscribed /\ ~soon)
    /\ burst' = <<>>
    /\ skey' = IF soon THEN NoKey ELSE skey

\* A frame of the session's queue during the handshake: _await_u, _await_i.
ServerExpected(f) ==
    \/ spc = "sabm" /\ f.t = "SABM"
    \/ spc = "version" /\ f.t = "VERSION_REQ"
    \/ spc = "ep" /\ f.t = "EP_REQ"
    \/ spc = "ke" /\ f.t = "KE_REQ"

\* Mutated form: the ciphers of a session are created only once.
CiphersOnce(pub) ==
    /\ skey' = IF skey = NoKey THEN <<pub, fresh>> ELSE skey
    /\ srx' = 0 /\ stx' = 0

\* Both ciphers start anew from the key of this exchange.
NewCiphers(pub) ==
    /\ skey' = <<pub, fresh>>
    /\ srx' = 0 /\ stx' = 0

ServerHandshake ==
    /\ spc \in {"sabm", "version", "ep", "ke"} /\ sq # <<>>
    /\ LET f == Head(sq) IN
        \/ /\ ~ServerExpected(f) /\ f.t # "DISCONNECT"
           /\ sq' = Tail(sq)
           /\ UNCHANGED <<spc, fresh, skey, srx, stx, sdone, burst, pre, subscribed, toApp>>
        \/ /\ f.t = "DISCONNECT"
           /\ SessionOver(FALSE)
           /\ UNCHANGED <<fresh, srx, stx, toApp>>
        \/ /\ ServerExpected(f) /\ spc = "sabm"
           /\ spc' = "version" /\ sq' = Tail(sq)
           /\ toApp' = Emitted(<<U("UA")>>)
           /\ UNCHANGED <<fresh, skey, srx, stx, sdone, burst, pre, subscribed>>
        \/ /\ ServerExpected(f) /\ spc = "version"
           /\ spc' = "ep" /\ sq' = Tail(sq)
           /\ toApp' = Emitted(<<U("VERSION_RESP")>>)
           /\ UNCHANGED <<fresh, skey, srx, stx, sdone, burst, pre, subscribed>>
        \/ /\ ServerExpected(f) /\ spc = "ep"
           /\ spc' = "ke" /\ sq' = Tail(sq)
           /\ fresh' = fresh + 1
           /\ toApp' = Emitted(<<[t |-> "EP_RESP", nonce |-> fresh + 1]>>)
           /\ UNCHANGED <<skey, srx, stx, sdone, burst, pre, subscribed>>
        \/ /\ ServerExpected(f) /\ spc = "ke" /\ f.mac = fresh /\ secret # "other"
           /\ spc' = "loop" /\ sq' = Tail(sq)
           /\ NewCiphers(f.pub) /\ sdone' = TRUE
           /\ toApp' = Emitted(<<[t |-> "KE_RESP", pub |-> fresh, mac |-> fresh]>>)
           /\ UNCHANGED <<fresh, burst, pre, subscribed>>
        \/ /\ ServerExpected(f) /\ spc = "ke" /\ (f.mac # fresh \/ secret = "other")
           /\ SessionOver(FALSE)
           /\ UNCHANGED <<fresh, srx, stx, toApp>>
    /\ UNCHANGED <<clientVars, phase, saw, disc, pushes, up, toDev, faultVars, garbled>>

\* SABM in the frame loop: the handshake starts over on the same session object.
Restart ==
    /\ spc' = "version"
    /\ sdone' = FALSE

MidSessionSabm ==
    /\ Restart
    /\ toApp' = Emitted(<<U("UA")>>)
    /\ phase' = IF phase < 3 THEN phase + 1 ELSE 3
    /\ saw' = FALSE /\ disc' = FALSE

\* What dispatch answers to a request.
Answers(kind) == IF kind = "inventory" THEN <<"count", "data">> ELSE <<"answer">>

\* The end of phase 2, a read after the event storage inventory, is signalled once
\* with DISC, behind the answer; the bridge ignores it.
Farewell(kind) == IF kind = "read" /\ phase = 2 /\ saw /\ ~disc THEN <<"DISC">> ELSE <<>>

\* A frame of the queue in the frame loop.
FrameLoop ==
    /\ spc = "loop" /\ burst = <<>> /\ sq # <<>>
    /\ LET f == Head(sq) IN
        \/ /\ f.t = "DISCONNECT"
           /\ SessionOver(TRUE)
           /\ UNCHANGED <<srx, phase, saw, disc, toApp, garbled>>
        \/ /\ f.t = "SABM"
           /\ MidSessionSabm
           /\ sq' = Tail(sq)
           /\ UNCHANGED <<skey, srx, burst, pre, subscribed, garbled>>
        \/ /\ f.t \notin {"DISCONNECT", "SABM"}
           /\ sq' = Tail(sq)
           /\ srx' = IF IsData(f) THEN srx + 1 ELSE srx
           /\ LET ok == IsData(f) /\ f.key = skey /\ f.pos = srx IN
                /\ garbled' = IF ok \/ ~IsData(f) THEN garbled ELSE garbled \cup {f.key[1]}
                /\ burst' = IF ok THEN Answers(f.body) \o Farewell(f.body) ELSE <<>>
                /\ subscribed' = (subscribed \/ (ok /\ f.body = "notify"))
                /\ saw' = (saw \/ (ok /\ f.body = "storage" /\ phase = 2))
                /\ disc' = (disc \/ (ok /\ Farewell(f.body) # <<>>))
           /\ UNCHANGED <<spc, skey, sdone, phase, pre, toApp>>
    /\ UNCHANGED <<clientVars, fresh, stx, pushes, up, toDev, faultVars>>

\* _pusher sends only on a finished handshake and for a subscribed data point.
MayPush == sdone /\ subscribed

\* n notifications, encrypted from place at on.
Notifications(n, at) == [i \in 1..n |-> Data(skey, at + i - 1, "notify")]

\* The next frame of the burst.  A response is encrypted first; asyncio.wait_for then
\* makes a task of its own for send_fn on Python 3.11, behind the tasks that are ready.
\* A pusher among them encrypts and emits n notifications before it.  (From 3.12 on,
\* n is 0.  The timeout of that wait cannot fire, since send_notify never suspends.)
Respond ==
    /\ spc = "loop" /\ burst # <<>>
    /\ \/ /\ Head(burst) = "DISC"
          /\ toApp' = Emitted(<<U("DISC")>>)
          /\ UNCHANGED <<stx, pushes, upset>>
       \/ /\ Head(burst) # "DISC"
          /\ \E n \in 0..MaxPushes :
                /\ n > 0 => MayPush /\ pushes + n <= MaxPushes
                /\ toApp' = Emitted(Append(Notifications(n, stx + 1),
                                           Data(skey, stx, Head(burst))))
                /\ stx' = stx + 1 + n
                /\ pushes' = pushes + n
                /\ upset' = IF up /\ n > 0 THEN upset \cup {skey[1]} ELSE upset
    /\ burst' = Tail(burst)
    /\ UNCHANGED <<clientVars, spc, fresh, skey, srx, sq, sdone, phase, saw, disc, pre,
                   subscribed, up, toDev, lost, secret, garbled>>

\* A notification between the responses and when there are none.
Pusher ==
    /\ MayPush /\ pushes < MaxPushes
    /\ toApp' = Emitted(<<Data(skey, stx, "notify")>>)
    /\ stx' = stx + 1
    /\ pushes' = pushes + 1
    /\ UNCHANGED <<clientVars, spc, fresh, skey, srx, sq, sdone, burst, phase, saw, disc,
                   pre, subscribed, up, toDev, faultVars, garbled>>

\* Mutated form: only the waits of the handshake time out.
SessionTimeoutHandshake ==
    /\ spc \notin {"over", "loop"}
    /\ sq = <<>> /\ toDev = <<>>
    /\ SessionOver(FALSE)
    /\ UNCHANGED <<clientVars, fresh, srx, stx, phase, saw, disc, pushes, airVars, garbled>>

\* A wait of run() times out: 60 s, 5 s, or what the frame loop allows.
SessionTimeout ==
    /\ spc # "over" /\ burst = <<>>
    /\ sq = <<>> /\ toDev = <<>>
    /\ SessionOver(spc = "loop" /\ phase >= 2)
    /\ UNCHANGED <<clientVars, fresh, srx, stx, phase, saw, disc, pushes, airVars, garbled>>

\* The disconnect that _handshake_loop forces after each session; the call may fail.
ForceDisconnect ==
    \/ up /\ Hangup
    \/ UNCHANGED <<up, toApp, toDev, cpc>>

\* _handshake_loop waits for the next client with the session object it pre-created
\* or with a new one.
NextSession ==
    /\ spc = "over"
    /\ spc' = "sabm"
    /\ sq' = IF pre THEN sq ELSE <<>>
    /\ pre' = FALSE
    /\ sdone' = FALSE /\ subscribed' = FALSE /\ burst' = <<>> /\ skey' = NoKey
    /\ phase' = 1 /\ saw' = FALSE /\ disc' = FALSE
    /\ ForceDisconnect
    /\ UNCHANGED <<attempt, nonce, ckey, crx, ctx, cq, requests, fresh, srx, stx, pushes,
                    faultVars, garbled>>

-----------------------------------------------------------------------------
\* A notification or a write without response is dropped.
LoseFrame(f) == upset' = upset \cup {IF IsData(f) THEN f.key[1] ELSE attempt}

Lose ==
    /\ lost < MaxLost
    /\ \/ toApp # <<>> /\ LoseFrame(Head(toApp)) /\ toApp' = Tail(toApp) /\ UNCHANGED toDev
       \/ toDev # <<>> /\ LoseFrame(Head(toDev)) /\ toDev' = Tail(toDev) /\ UNCHANGED toApp
    /\ lost' = lost + 1
    /\ UNCHANGED <<clientVars, serverVars, up, garbled, secret>>

Bridge == \/ FeedAttBytes \/ HandshakeStep \/ HandshakeDone \/ Disconnect
Mock == \/ Feed \/ ServerHandshake \/ FrameLoop \/ Respond \/ NextSession

Next ==
    \/ Connect \/ Bridge
    \/ \E kind \in Kinds : WrapForSend(kind)
    \/ Mock \/ SessionTimeout \/ Pusher
    \/ Lose

\* Both event loops run, and a wait of the mock that nothing ends times out.
Spec == Init /\ [][Next]_vars /\ WF_vars(Bridge) /\ WF_vars(Mock) /\ WF_vars(SessionTimeout)

-----------------------------------------------------------------------------
\* Whenever the bridge talks to a session of the mock that is past its handshake,
\* the two hold the key of the same exchange, whatever connections, restarts on a
\* live session and lost frames came before.
KeysAgree ==
    cpc = "open" /\ spc = "loop" /\ up => ckey = skey

\* As long as a connection loses no frame and no notification overtakes a response on
\* Python 3.11, neither end ever decrypts a data frame with the wrong piece of key
\* stream: responses, pushed notifications and frames that waited in _rx_queue during
\* the handshake are taken in the order in which they were encrypted.
NothingGarbled == garbled \subseteq upset

-----------------------------------------------------------------------------
\* The inductive invariant behind KeysAgree and NothingGarbled.

\* What the mock has still to read, and what the bridge has: nothing overtakes.
pipe == sq \o toDev
air == cq \o toApp

Key == Nat \X Nat
Body == Kinds \cup {"count", "data", "answer"}
DataFrame == [t : {"DATA"}, key : Key, pos : Nat, body : Body]
DevFrame == [t : {"SABM", "VERSION_REQ", "EP_REQ", "DISCONNECT"}]
            \cup [t : {"KE_REQ"}, pub : Nat, mac : Nat] \cup DataFrame
AppFrame == [t : {"UA", "VERSION_RESP", "DISC"}] \cup [t : {"EP_RESP"}, nonce : Nat]
            \cup [t : {"KE_RESP"}, pub : Nat, mac : Nat] \cup DataFrame

BridgeTypeOK ==
    /\ cpc \in Waits \cup {"down", "rr", "open"}
    /\ attempt \in Nat /\ nonce \in Nat /\ ckey \in Key /\ crx \in Nat /\ ctx \in Nat
    /\ cq \in Seq(AppFrame)
MockTypeOK ==
    /\ spc \in {"sabm", "version", "ep", "ke", "loop", "over"}
    /\ fresh \in Nat /\ skey \in Key /\ srx \in Nat /\ stx \in Nat
    /\ sq \in Seq(DevFrame) /\ burst \in Seq(Body \cup {"DISC"})
    /\ sdone \in BOOLEAN /\ pre \in BOOLEAN /\ subscribed \in BOOLEAN
AirTypeOK ==
    /\ toDev \in Seq(DevFrame) /\ toApp \in Seq(AppFrame) /\ up \in BOOLEAN
    /\ up <=> cpc # "down"
LinkTypeOK == BridgeTypeOK /\ MockTypeOK /\ AirTypeOK

\* The ciphers of a session object exist from its handshake until it is replaced.
SessionInv ==
    /\ spc = "loop" => sdone
    /\ sdone => spc \in {"loop", "over"}

\* Key exchanges up to number n, in the frames p for the mock and a for the bridge: an
\* exchange is named once, its nonce is in one EP response, then in one KE request,
\* then in the KE response.
Exchanges(p, a, n) ==
    /\ \A i \in 1..Len(p) : p[i].t = "KE_REQ" => p[i].mac \in 1..n
    /\ \A i \in 1..Len(a) : a[i].t = "KE_RESP" => a[i].mac \in 1..n /\ a[i].pub = a[i].mac
    /\ \A i \in 1..Len(a) : a[i].t = "EP_RESP" =>
          /\ a[i].nonce \in 1..n
          /\ \A j \in 1..Len(p) : p[j].t = "KE_REQ" => p[j].mac # a[i].nonce
          /\ \A j \in 1..Len(a) : a[j].t = "KE_RESP" => a[j].mac # a[i].nonce
          /\ \A j \in 1..Len(a) : a[j].t = "EP_RESP" /\ a[j].nonce = a[i].nonce => i = j

ExchangeInv == Exchanges(pipe, air, fresh)

\* A KE request of exchange n is the last frame of p, and from connection c.
RequestLast(p, n, c) ==
    \A i \in 1..Len(p) :
        p[i].t = "KE_REQ" /\ p[i].mac = n => i = Len(p) /\ p[i].pub = c

\* The bridge sends nothing behind its KE request.
RequestInv == cpc = "ke" => RequestLast(pipe, nonce, attempt)

\* The mock's side of an exchange that only the bridge has still to finish.
MockReady(key) == spc \in {"loop", "over", "sabm"} /\ (sdone => skey = key)

\* The data frames of a behind place k: they are of one key; they begin at place at of
\* its stream and leave no gap; the place behind the last one.
OneKey(a, k, key) == \A i \in (k + 1)..Len(a) : IsData(a[i]) => a[i].key = key
NoGap(a, k, at) ==
    \A i \in (k + 1)..Len(a) :
        IsData(a[i]) => a[i].pos = at + DataIn(a, i - 1) - DataIn(a, k)
Behind(a, k, at) == at + DataIn(a, Len(a)) - DataIn(a, k)

\* Behind place k the air is in step with the bridge's cipher, which is to start at
\* place at, and with the mock's, if it has one.
InStep(k, key, at) ==
    /\ OneKey(air, k, key)
    /\ attempt \notin upset => NoGap(air, k, at) /\ (sdone => stx = Behind(air, k, at))

\* The KE response to the bridge's request is under way.
ResponseInv ==
    cpc = "ke" => \A k \in 1..Len(air) : air[k].t = "KE_RESP" /\ air[k].mac = nonce =>
        /\ pipe = <<>>
        /\ MockReady(<<attempt, nonce>>) /\ (spc = "loop" => srx = 0)
        /\ InStep(k, <<attempt, nonce>>, 0)

\* The bridge has the key: it sends nothing but data, and both directions are in step.
OpenInv ==
    cpc \in {"rr", "open"} =>
        /\ ckey[1] = attempt
        /\ \A i \in 1..Len(pipe) : IsData(pipe[i]) /\ pipe[i].key = ckey
        /\ MockReady(ckey)
        /\ spc = "loop" /\ attempt \notin upset => ctx = srx + Len(pipe)
        /\ InStep(0, ckey, crx)

\* Data frames of one key are ahead of everything else.
DataFirst(p) ==
    \A i, j \in 1..Len(p) : i < j /\ IsData(p[j]) => IsData(p[i]) /\ p[i].key = p[j].key

\* A mock in its frame loop is in step with the data frames that it has still to read.
PipeInv ==
    /\ DataFirst(pipe)
    /\ spc = "loop" => \A i \in 1..Len(pipe) : IsData(pipe[i]) =>
          \/ pipe[i].key = skey /\ pipe[i].pos = srx + i - 1
          \/ pipe[i].key[1] \in upset

LinkInv ==
    /\ LinkTypeOK /\ SessionInv /\ ExchangeInv /\ RequestInv /\ ResponseInv /\ OpenInv
    /\ PipeInv /\ NothingGarbled

-----------------------------------------------------------------------------
\* The mock always comes back to a session that waits for a client, also when it
\* never hears that the last one has gone.
AcceptsAgain == (cpc = "down") ~> (spc = "sabm" \/ cpc # "down")
=============================================================================
