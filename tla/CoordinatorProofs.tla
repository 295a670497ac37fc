------------------------- MODULE CoordinatorProofs -------------------------
(***************************************************************************)
(* The Home Assistant integration, for any number of coordinators,         *)
(* connections, commands and faults: no TCP connection is forgotten, a     *)
(* connection that is closed gives the proxy's subscription slot back, and *)
(* settings from before a write that succeeded are not reported.           *)
(***************************************************************************)
EXTENDS Coordinator, TLAPS

-----------------------------------------------------------------------------
\* Steps on behalf of one owner of a connector.

\* Connection c is one that owner o can still close.
OwnedBy(o, c) ==
    IF o = Flow THEN pc[Flow] # "idle" /\ conn[Flow] = c
    ELSE (held[o] \/ pc[o] # "idle") /\ c \in {api[o], conn[o]}

LEMMA Owned ==
    ASSUME CoordinatorAssumption
    PROVE  NoConnectionForgotten <=> \A c \in tcp : leaky \/ \E o \in Owners : OwnedBy(o, c)
<1>1. /\ Owners = Coordinators \cup {Flow} /\ Flow \notin Coordinators
      BY DEF CoordinatorAssumption
<1>2. \A c : (\E o \in Owners : OwnedBy(o, c)) <=>
               \/ \E i \in Coordinators : (held[i] \/ pc[i] # "idle") /\ c \in {api[i], conn[i]}
               \/ pc[Flow] # "idle" /\ conn[Flow] = c
      BY <1>1 DEF OwnedBy
<1> QED BY <1>2, Zenon DEF NoConnectionForgotten

\* Nothing changes at the other owners.
Only(o) ==
    /\ \A p \in Owners \ {o} : /\ api'[p] = api[p] /\ unsub'[p] = unsub[p] /\ conn'[p] = conn[p]
                               /\ pc'[p] = pc[p] /\ err'[p] = err[p]
    /\ \A i \in Coordinators \ {o} : /\ held'[i] = held[i] /\ queued'[i] = queued[i]
                                     /\ i \in closing' => i \in closing
                                     /\ i \in live' => i \in live

\* A step of one owner keeps the invariant if it keeps what is said of this owner, takes
\* no connection another one has, and forgets none of its own.
LEMMA OwnerStep ==
    ASSUME CoordinatorAssumption, CoordinatorInv, CoordinatorTypeOK', NEW o \in Owners, Only(o),
           esphome' = esphome, leaky => leaky',
           ~esphome => tcp' = {} /\ pc'[o] # "opening",
           esphome => SessionAt(o)',
           esphome /\ ~leaky' => /\ KnownAt(o)'
                                 /\ o \in Coordinators => KeptAt(o)'
                                 /\ o = Flow /\ pc'[o] \in {"idle", "start"} => api'[o] = 0,
           \A p \in Owners \ {o} :
               /\ {api'[o], conn'[o]} \cap {api[p], conn[p]} \subseteq {0}
               /\ slot' # 0 => \/ slot' = slot /\ (slot \in tcp' => slot \in tcp)
                               \/ slot' \notin {api[p], conn[p]},
           SlotAt(o)',
           \A c \in tcp' : ~leaky' /\ (c \notin tcp \/ OwnedBy(o, c)) => OwnedBy(o, c)'
    PROVE  CoordinatorInv'
<1>1. /\ Owners = Coordinators \cup {Flow} /\ Flow \notin Coordinators
      BY DEF CoordinatorAssumption
<1>2. SessionInv'
      <2>1. ~esphome => \A p \in Owners : pc'[p] # "opening"
            BY DEF CoordinatorInv, SessionInv, Only
      <2>2. esphome => \A p \in Owners \ {o} : SessionAt(p)'
            BY DEF CoordinatorInv, SessionInv, SessionAt, Only
      <2> QED BY <2>1, <2>2 DEF SessionInv
<1>3. HeldInv'
      <2> SUFFICES ASSUME esphome, ~leaky'
                   PROVE  /\ \A p \in Owners : KnownAt(p)'
                          /\ pc'[Flow] \in {"idle", "start"} => api'[Flow] = 0
                          /\ \A i \in Coordinators : KeptAt(i)'
          BY DEF HeldInv
      <2>1. \A p \in Owners \ {o} : KnownAt(p)'
            BY DEF CoordinatorInv, HeldInv, KnownAt, Only
      <2>2. pc'[Flow] \in {"idle", "start"} => api'[Flow] = 0
            BY <1>1 DEF CoordinatorInv, HeldInv, Only
      <2>3. \A i \in Coordinators \ {o} : KeptAt(i)'
            <3> SUFFICES ASSUME NEW i \in Coordinators \ {o} PROVE KeptAt(i)'
                OBVIOUS
            <3>1. KeptAt(i)
                  BY DEF CoordinatorInv, HeldInv
            <3>2. /\ api'[i] = api[i] /\ pc'[i] = pc[i] /\ held'[i] = held[i] /\ queued'[i] = queued[i]
                  /\ i \in closing' => i \in closing
                  /\ i \in live' => i \in live
                  BY <1>1 DEF Only
            <3> QED BY <3>1, <3>2 DEF KeptAt, Busy
      <2> QED BY <1>1, <2>1, <2>2, <2>3
<1>4. SlotInv'
      <2>1. ASSUME NEW p \in Owners, NEW q \in Owners, p # q PROVE Apart(p, q)'
            <3>1. Apart(p, q)
                  BY <2>1 DEF CoordinatorInv, SlotInv
            <3>2. CASE p = o
                  BY <2>1, <3>2 DEF Apart, Only
            <3>3. CASE q = o
                  BY <2>1, <3>3 DEF Apart, Only
            <3>4. CASE p # o /\ q # o
                  BY <2>1, <3>1, <3>4 DEF Apart, Only
            <3> QED BY <3>2, <3>3, <3>4
      <2>2. ASSUME NEW p \in Owners \ {o} PROVE SlotAt(p)'
            <3>1. SlotAt(p)
                  BY <2>2 DEF CoordinatorInv, SlotInv
            <3> QED BY <3>1, <2>2 DEF SlotAt, Only
      <2> QED BY <2>1, <2>2 DEF SlotInv
<1>5. NoConnectionForgotten'
      <2>1. \A c \in tcp : leaky \/ \E p \in Owners : OwnedBy(p, c)
            BY Owned DEF CoordinatorInv
      <2>2. \A c : \A p \in Owners \ {o} : OwnedBy(p, c) => OwnedBy(p, c)'
            BY <1>1 DEF OwnedBy, Only
      <2>3. \A c \in tcp' : leaky' \/ \E p \in Owners : OwnedBy(p, c)'
            <3> SUFFICES ASSUME NEW c \in tcp', ~leaky' PROVE \E p \in Owners : OwnedBy(p, c)'
                OBVIOUS
            <3>1. CASE c \notin tcp \/ OwnedBy(o, c)
                  BY <3>1
            <3>2. CASE c \in tcp /\ ~OwnedBy(o, c)
                  <4>1. PICK p \in Owners : OwnedBy(p, c)
                        BY <2>1, <3>2
                  <4> QED BY <2>2, <3>2, <4>1
            <3> QED BY <3>1, <3>2
      <2>4. NoConnectionForgotten' <=> \A c \in tcp' : leaky' \/ \E p \in Owners : OwnedBy(p, c)'
            <3>1. \A c : (\E p \in Owners : OwnedBy(p, c)') <=>
                     \/ \E i \in Coordinators : (held'[i] \/ pc'[i] # "idle") /\ c \in {api'[i], conn'[i]}
                     \/ pc'[Flow] # "idle" /\ conn'[Flow] = c
                  BY <1>1 DEF OwnedBy
            <3> QED BY <3>1, Zenon DEF NoConnectionForgotten
      <2> QED BY <2>3, <2>4
<1> QED BY <1>2, <1>3, <1>4, <1>5 DEF CoordinatorInv

-----------------------------------------------------------------------------
\* connect_async.

ConnectFrame == UNCHANGED <<esphome, held, leaky, live, created, closing, queued>>

\* What a step of connect_async changes at its own connector and session.
LEMMA ConnectStepAt ==
    ASSUME CoordinatorAssumption, CoordinatorInv, CoordinatorTypeOK', NEW o \in Owners,
           ConnectFrame, pc[o] \notin {"idle", "reboot"}, pc'[o] \notin {"idle", "reboot"},
           \A p \in Owners \ {o} : /\ api'[p] = api[p] /\ unsub'[p] = unsub[p] /\ conn'[p] = conn[p]
                                   /\ pc'[p] = pc[p] /\ err'[p] = err[p],
           ~esphome => tcp' = {} /\ pc'[o] # "opening",
           esphome => SessionAt(o)', esphome /\ ~leaky => KnownAt(o)',
           esphome /\ o = Flow /\ pc'[o] = "start" => pc[o] = "start" /\ api'[o] = api[o],
           \A p \in Owners \ {o} :
               /\ {api'[o], conn'[o]} \cap {api[p], conn[p]} \subseteq {0}
               /\ slot' # 0 => \/ slot' = slot /\ (slot \in tcp' => slot \in tcp)
                               \/ slot' \notin {api[p], conn[p]},
           SlotAt(o)',
           \A c \in tcp' : \/ c \in tcp /\ (c \in {api[o], conn[o]} => conn'[o] = c)
                          \/ conn'[o] = c
    PROVE  CoordinatorInv'
<1>1. /\ Owners = Coordinators \cup {Flow} /\ Flow \notin Coordinators
      BY DEF CoordinatorAssumption
<1>2. Only(o)
      BY <1>1 DEF Only, ConnectFrame
<1>3. esphome /\ ~leaky' => /\ o \in Coordinators => KeptAt(o)'
                            /\ o = Flow /\ pc'[o] \in {"idle", "start"} => api'[o] = 0
      BY DEF CoordinatorInv, HeldInv, KeptAt, Busy, ConnectFrame
<1>4. \A c : OwnedBy(o, c) => c \in {api[o], conn[o]}
      BY DEF OwnedBy
<1>5. \A c : conn'[o] = c => OwnedBy(o, c)'
      BY <1>1 DEF OwnedBy
<1>6. \A c \in tcp' : ~leaky' /\ (c \notin tcp \/ OwnedBy(o, c)) => OwnedBy(o, c)'
      BY <1>4, <1>5
<1>7. esphome' = esphome /\ (leaky => leaky')
      BY DEF ConnectFrame
<1> QED BY <1>2, <1>3, <1>6, <1>7, OwnerStep

\* What the invariant says of a session that is under way.
LEMMA SessionFacts ==
    ASSUME ConnectorAssumption, CoordinatorInv, NEW o \in Owners
    PROVE  /\ 0 \notin tcp /\ tcp \subseteq Conns /\ 0 \notin Conns
           /\ esphome => SessionAt(o)
           /\ esphome /\ ~leaky => KnownAt(o)
           /\ ~esphome => tcp = {} /\ pc[o] # "opening"
           /\ SlotAt(o)
           /\ \A p \in Owners \ {o} : Apart(o, p)
           /\ pc[o] \in Places
BY DEF ConnectorAssumption, CoordinatorInv, CoordinatorTypeOK, SessionInv, HeldInv, SlotInv

\* A session goes on at w.
LEMMA GoesTo ==
    ASSUME pc \in [Owners -> Places], NEW o \in Owners, NEW w \in Places, Go(o, w)
    PROVE  pc' \in [Owners -> Places]
BY DEF Go

LEMMA StepTyped ==
    ASSUME CoordinatorTypeOK, NEW o \in Owners, NEW w \in Places, Go(o, w), ConnectFrame,
           tcp' \subseteq Conns, slot' \in Conns \cup {0}, DOMAIN err' = Owners,
           api' \in [Owners -> Conns \cup {0}], unsub' \in [Owners -> Conns \cup {0}],
           conn' \in [Owners -> Conns \cup {0}]
    PROVE  CoordinatorTypeOK'
<1>1. pc' \in [Owners -> Places]
      BY GoesTo DEF CoordinatorTypeOK
<1> QED BY <1>1 DEF CoordinatorTypeOK, ConnectFrame

\* A session goes on at w with the connections as they are.
LEMMA GoesOn ==
    ASSUME ConnectorAssumption, CoordinatorAssumption, CoordinatorInv, NEW o \in Owners,
           NEW w \in {"start", "scan", "post", "up", "close", "failed"}, Go(o, w), ConnectFrame,
           pc[o] \notin {"idle", "reboot", "failed"}, esphome => pc[o] \in Fetching /\ w # "start",
           UNCHANGED <<tcp, api, conn>>,
           \/ UNCHANGED <<slot, unsub>>
           \/ slot' = SlotAfter(unsub[o]) /\ unsub' = [unsub EXCEPT ![o] = 0],
           \/ err' = err
           \/ w = "failed" /\ \E code \in {"E0002", "E0003"} : err' = [err EXCEPT ![o] = code]
    PROVE  CoordinatorInv'
<1>1. CoordinatorTypeOK /\ w \in Places /\ pc'[o] = w /\ \A p \in Owners \ {o} : pc'[p] = pc[p]
      BY DEF CoordinatorInv, CoordinatorTypeOK, Places, Fetching, Go
<1>2. /\ 0 \notin tcp /\ (esphome => SessionAt(o)) /\ SlotAt(o) /\ (~esphome => tcp = {})
      /\ \A p \in Owners \ {o} : Apart(o, p)
      /\ esphome /\ ~leaky => KnownAt(o)
      BY SessionFacts
<1>3. /\ slot' \in {slot, 0}
      /\ slot' # 0 /\ slot' \in tcp /\ unsub[o] = slot' => unsub'[o] = slot'
      BY DEF SlotAfter, Heard
<1>4. unsub' \in [Owners -> Conns \cup {0}] /\ \A p \in Owners \ {o} : unsub'[p] = unsub[p]
      BY <1>1 DEF CoordinatorTypeOK
<1>5. DOMAIN err' = Owners /\ \A p \in Owners \ {o} : err'[p] = err[p]
      BY <1>1 DEF CoordinatorTypeOK
<1>6. err'[o] = "E1002" => err[o] = "E1002"
      BY <1>1 DEF CoordinatorTypeOK
<1>7. CoordinatorTypeOK'
      <2>1. slot' \in Conns \cup {0} /\ tcp' \subseteq Conns
            BY <1>1, <1>3 DEF CoordinatorTypeOK
      <2>2. api' \in [Owners -> Conns \cup {0}] /\ conn' \in [Owners -> Conns \cup {0}]
            BY <1>1 DEF CoordinatorTypeOK
      <2> QED BY <1>1, <1>4, <1>5, <2>1, <2>2, StepTyped
<1>8. esphome => SessionAt(o)'
      <2> SUFFICES ASSUME esphome PROVE SessionAt(o)'
          OBVIOUS
      <2>1. w \in Fetching /\ pc[o] \in Fetching
            BY DEF Fetching
      <2>2. err'[o] = "E1002" => w = "failed" /\ api[o] = 0
            <3>1. err[o] = "E1002" => pc[o] = "failed" /\ api[o] = 0
                  BY <1>2 DEF SessionAt
            <3> QED BY <1>6, <3>1
      <2> QED BY <1>1, <1>2, <2>1, <2>2 DEF SessionAt, Fetching
<1>9. esphome /\ ~leaky => KnownAt(o)'
      BY <1>1, <1>2 DEF KnownAt
<1>10. SlotAt(o)'
      BY <1>1, <1>2, <1>3 DEF SlotAt
<1>11. \A p \in Owners \ {o} : {api'[o], conn'[o]} \cap {api[p], conn[p]} \subseteq {0}
      BY <1>2 DEF Apart
<1>12. \A c \in tcp' : \/ c \in tcp /\ (c \in {api[o], conn[o]} => conn'[o] = c)
                       \/ conn'[o] = c
      BY <1>2 DEF SessionAt
<1>13. /\ ~esphome => tcp' = {} /\ pc'[o] # "opening"
       /\ pc'[o] \notin {"idle", "reboot"} /\ ~(esphome /\ pc'[o] = "start")
      BY <1>1, <1>2
<1> QED BY <1>3, <1>1, <1>4, <1>5, <1>7, <1>8, <1>9, <1>10, <1>11, <1>12, <1>13, ConnectStepAt

LEMMA BeginKeeps ==
    ASSUME ConnectorAssumption, CoordinatorAssumption, CoordinatorInv, NEW o \in Owners,
           Begin(o), ConnectFrame
    PROVE  CoordinatorInv'
<1>1. /\ CoordinatorTypeOK /\ esphome /\ tcp' = tcp /\ err' = err /\ pc[o] = "start"
      /\ slot' = SlotAfter(unsub[o]) /\ unsub' = [unsub EXCEPT ![o] = 0]
      BY DEF Begin, CoordinatorInv
<1>2. /\ 0 \notin tcp /\ SessionAt(o) /\ SlotAt(o) /\ \A p \in Owners \ {o} : Apart(o, p)
      BY <1>1, SessionFacts
<1>3. \/ /\ api[o] \in tcp /\ conn' = [conn EXCEPT ![o] = api[o]] /\ api' = api
         /\ pc' = [pc EXCEPT ![o] = "sensors"]
      \/ /\ api[o] \notin tcp /\ api' = [api EXCEPT ![o] = 0] /\ conn' = conn
         /\ pc' = [pc EXCEPT ![o] = "opening"]
      BY DEF Begin, Go
<1>4. slot' \in {slot, 0} /\ (slot # 0 /\ slot \in tcp /\ unsub[o] = slot => slot' = 0)
      BY <1>1 DEF SlotAfter, Heard
<1>5. CoordinatorTypeOK'
      <2>1. "sensors" \in Places /\ "opening" \in Places
            BY DEF Places, Fetching
      <2>2. Go(o, "sensors") \/ Go(o, "opening")
            BY <1>3 DEF Go
      <2>3. slot' \in Conns \cup {0} /\ tcp' \subseteq Conns /\ DOMAIN err' = Owners
            BY <1>1, <1>4 DEF CoordinatorTypeOK
      <2>4. /\ api' \in [Owners -> Conns \cup {0}] /\ unsub' \in [Owners -> Conns \cup {0}]
            /\ conn' \in [Owners -> Conns \cup {0}]
            BY <1>1, <1>3 DEF CoordinatorTypeOK
      <2> QED BY <1>1, <2>1, <2>2, <2>3, <2>4, StepTyped
<1>6. /\ \A p \in Owners \ {o} : /\ api'[p] = api[p] /\ unsub'[p] = unsub[p] /\ conn'[p] = conn[p]
                                 /\ pc'[p] = pc[p] /\ err'[p] = err[p]
      /\ pc'[o] \in {"sensors", "opening"} /\ unsub'[o] = 0
      /\ \/ pc'[o] = "sensors" /\ api'[o] = api[o] /\ conn'[o] = api[o] /\ api[o] \in tcp
         \/ pc'[o] = "opening" /\ api'[o] = 0 /\ conn'[o] = conn[o] /\ api[o] \notin tcp
      BY <1>1, <1>3 DEF CoordinatorTypeOK
<1>7. err[o] # "E1002" /\ conn[o] = 0
      BY <1>1, <1>2 DEF SessionAt, Fetching
<1>8. SessionAt(o)' /\ KnownAt(o)'
      BY <1>1, <1>6, <1>7 DEF SessionAt, KnownAt, Fetching
<1>9. SlotAt(o)'
      BY <1>1, <1>2, <1>4, <1>6 DEF SlotAt
<1>10. \A p \in Owners \ {o} : {api'[o], conn'[o]} \cap {api[p], conn[p]} \subseteq {0}
      BY <1>2, <1>6 DEF Apart
<1>11. \A c \in tcp' : \/ c \in tcp /\ (c \in {api[o], conn[o]} => conn'[o] = c)
                       \/ conn'[o] = c
      BY <1>1, <1>2, <1>6, <1>7
<1> QED BY <1>1, <1>4, <1>5, <1>6, <1>8, <1>9, <1>10, <1>11, ConnectStepAt

LEMMA OpeningKeeps ==
    ASSUME ConnectorAssumption, CoordinatorAssumption, CoordinatorInv, NEW o \in Owners,
           Opening(o), ConnectFrame
    PROVE  CoordinatorInv'
<1>1. /\ CoordinatorTypeOK /\ pc[o] = "opening" /\ UNCHANGED <<slot, api, unsub>>
      BY DEF Opening, CoordinatorInv, connectorVars
<1>2. /\ 0 \notin tcp /\ esphome /\ SessionAt(o) /\ SlotAt(o) /\ 0 \notin Conns
      /\ \A p \in Owners \ {o} : Apart(o, p)
      BY <1>1, SessionFacts
<1>3. api[o] = 0 /\ conn[o] = 0 /\ err[o] # "E1002"
      BY <1>1, <1>2 DEF SessionAt, Fetching
<1>4. CASE Go(o, "failed")
      <2>1. UNCHANGED <<tcp, conn>> /\ err' = [err EXCEPT ![o] = "E1002"]
            <3>1. pc'[o] = "failed"
                  BY <1>1, <1>4 DEF Go, CoordinatorTypeOK
            <3>2. ~Go(o, "info")
                  BY <1>1, <3>1 DEF Go, CoordinatorTypeOK
            <3> QED BY <3>2 DEF Opening, Fails
      <2>2. CoordinatorTypeOK'
            <3>1. "failed" \in Places
                  BY DEF Places, Fetching
            <3>2. DOMAIN err' = Owners
                  BY <1>1, <2>1 DEF CoordinatorTypeOK
            <3> QED BY <1>1, <1>4, <2>1, <3>1, <3>2, StepTyped DEF CoordinatorTypeOK
      <2>3. /\ pc'[o] = "failed"
            /\ \A p \in Owners \ {o} : pc'[p] = pc[p] /\ err'[p] = err[p]
            BY <1>1, <1>4, <2>1 DEF Go, CoordinatorTypeOK
      <2>4. SessionAt(o)' /\ KnownAt(o)' /\ SlotAt(o)'
            BY <1>1, <1>2, <1>3, <2>1, <2>3 DEF SessionAt, KnownAt, SlotAt, Fetching
      <2>5. \A p \in Owners \ {o} : {api'[o], conn'[o]} \cap {api[p], conn[p]} \subseteq {0}
            BY <1>1, <1>3, <2>1
      <2>6. \A c \in tcp' : c \in tcp /\ (c \in {api[o], conn[o]} => conn'[o] = c)
            BY <1>2, <1>3, <2>1
      <2> QED BY <1>1, <1>2, <2>1, <2>2, <2>3, <2>4, <2>5, <2>6, ConnectStepAt
<1>5. ASSUME NEW c \in Conns, Unused(c), tcp' = tcp \cup {c}, conn' = [conn EXCEPT ![o] = c],
             Go(o, "info"), err' = err
      PROVE  CoordinatorInv'
      <2>1. /\ c \notin tcp /\ slot # c /\ \A p \in Owners : c \notin {api[p], conn[p]}
            BY <1>5 DEF Unused
      <2>2. CoordinatorTypeOK'
            <3>1. "info" \in Places
                  BY DEF Places
            <3>2. tcp' \subseteq Conns /\ conn' \in [Owners -> Conns \cup {0}]
                  BY <1>1, <1>5 DEF CoordinatorTypeOK
            <3> QED BY <1>1, <1>5, <3>1, <3>2, StepTyped DEF CoordinatorTypeOK
      <2>3. /\ pc'[o] = "info" /\ conn'[o] = c /\ err'[o] # "E1002"
            /\ \A p \in Owners \ {o} : pc'[p] = pc[p] /\ err'[p] = err[p] /\ conn'[p] = conn[p]
            BY <1>1, <1>3, <1>5 DEF Go, CoordinatorTypeOK
      <2>4. SessionAt(o)' /\ KnownAt(o)' /\ SlotAt(o)'
            BY <1>1, <1>2, <1>3, <2>1, <2>3 DEF SessionAt, KnownAt, SlotAt, Fetching
      <2>5. \A p \in Owners \ {o} : {api'[o], conn'[o]} \cap {api[p], conn[p]} \subseteq {0}
            BY <1>1, <1>3, <2>1, <2>3
      <2>6. \A b \in tcp' : \/ b \in tcp /\ (b \in {api[o], conn[o]} => conn'[o] = b)
                           \/ conn'[o] = b
            BY <1>2, <1>3, <1>5, <2>3
      <2>7. slot \in tcp' => slot \in tcp
            BY <1>5, <2>1
      <2> QED BY <1>1, <1>2, <2>2, <2>3, <2>4, <2>5, <2>6, <2>7, ConnectStepAt
<1> QED BY <1>4, <1>5 DEF Opening, Fails

LEMMA InfoKeeps ==
    ASSUME ConnectorAssumption, CoordinatorAssumption, CoordinatorInv, NEW o \in Owners,
           Info(o), ConnectFrame
    PROVE  CoordinatorInv'
<1>1. /\ CoordinatorTypeOK /\ pc[o] = "info" /\ UNCHANGED <<slot, tcp, unsub, conn, err>>
      /\ api' = [api EXCEPT ![o] = conn[o]] /\ Go(o, "sensors")
      BY DEF Info, CoordinatorInv, proxyVars
<1>2. /\ 0 \notin tcp /\ (esphome => SessionAt(o)) /\ SlotAt(o) /\ (~esphome => tcp = {})
      /\ \A p \in Owners \ {o} : Apart(o, p)
      BY SessionFacts
<1>3. esphome => api[o] = 0 /\ err[o] # "E1002"
      BY <1>1, <1>2 DEF SessionAt
<1>4. CoordinatorTypeOK'
      <2>1. "sensors" \in Places
            BY DEF Places, Fetching
      <2>2. api' \in [Owners -> Conns \cup {0}]
            BY <1>1 DEF CoordinatorTypeOK
      <2> QED BY <1>1, <2>1, <2>2, StepTyped DEF CoordinatorTypeOK
<1>5. /\ pc'[o] = "sensors" /\ api'[o] = conn[o]
      /\ \A p \in Owners \ {o} : pc'[p] = pc[p] /\ api'[p] = api[p]
      BY <1>1 DEF Go, CoordinatorTypeOK
<1>6. esphome => SessionAt(o)' /\ KnownAt(o)'
      BY <1>1, <1>3, <1>5 DEF SessionAt, KnownAt, Fetching
<1>7. SlotAt(o)'
      BY <1>1, <1>2, <1>5 DEF SlotAt
<1>8. \A p \in Owners \ {o} : {api'[o], conn'[o]} \cap {api[p], conn[p]} \subseteq {0}
      BY <1>1, <1>2, <1>5 DEF Apart
<1>9. \A c \in tcp' : c \in tcp /\ (c \in {api[o], conn[o]} => conn'[o] = c)
      BY <1>1, <1>2, <1>3
<1> QED BY <1>1, <1>2, <1>4, <1>5, <1>6, <1>7, <1>8, <1>9, ConnectStepAt

LEMMA SubscribeKeeps ==
    ASSUME ConnectorAssumption, CoordinatorAssumption, CoordinatorInv, NEW o \in Owners,
           Subscribe(o), ConnectFrame
    PROVE  CoordinatorInv'
<1>1. CoordinatorTypeOK /\ pc[o] = "sensors" /\ UNCHANGED <<tcp, api, conn>>
      BY DEF Subscribe, CoordinatorInv
<1>2. CASE conn[o] \notin tcp
      <2>1. Go(o, "failed") /\ err' = [err EXCEPT ![o] = "E0003"] /\ UNCHANGED <<slot, unsub>>
            BY <1>2 DEF Subscribe, Fails
      <2>2. pc[o] \in Fetching /\ pc[o] \notin {"idle", "reboot", "failed"}
            BY <1>1 DEF Fetching
      <2> QED BY <1>1, <2>1, <2>2, GoesOn
<1>3. CASE conn[o] \in tcp
      <2>1. /\ Go(o, "scan") /\ err' = err /\ unsub' = [unsub EXCEPT ![o] = conn[o]]
            /\ slot' = IF slot = 0 THEN conn[o] ELSE slot
            BY <1>3 DEF Subscribe
      <2>2. /\ 0 \notin tcp /\ esphome /\ SessionAt(o) /\ SlotAt(o) /\ conn[o] # 0
            /\ (~leaky => KnownAt(o)) /\ \A p \in Owners \ {o} : Apart(o, p)
            BY <1>3, SessionFacts
      <2>3. api[o] \in {0, conn[o]} /\ err[o] # "E1002"
            BY <1>1, <2>2 DEF SessionAt, Fetching
      <2>4. CoordinatorTypeOK'
            <3>1. "scan" \in Places
                  BY DEF Places, Fetching
            <3>2. unsub' \in [Owners -> Conns \cup {0}] /\ slot' \in Conns \cup {0}
                  BY <1>1, <2>1 DEF CoordinatorTypeOK
            <3> QED BY <1>1, <2>1, <3>1, <3>2, StepTyped DEF CoordinatorTypeOK
      <2>5. /\ pc'[o] = "scan" /\ unsub'[o] = conn[o]
            /\ \A p \in Owners \ {o} : pc'[p] = pc[p] /\ unsub'[p] = unsub[p]
            BY <1>1, <2>1 DEF Go, CoordinatorTypeOK
      <2>6. SessionAt(o)' /\ (~leaky => KnownAt(o)')
            BY <1>1, <2>1, <2>2, <2>3, <2>5 DEF SessionAt, KnownAt, Fetching
      <2>7. SlotAt(o)'
            BY <1>1, <2>1, <2>2, <2>3, <2>5 DEF SlotAt
      <2>8. \A p \in Owners \ {o} : /\ {api'[o], conn'[o]} \cap {api[p], conn[p]} \subseteq {0}
                                    /\ conn[o] \notin {api[p], conn[p]}
            BY <1>1, <2>2 DEF Apart
      <2>9. \A c \in tcp' : c \in tcp /\ (c \in {api[o], conn[o]} => conn'[o] = c)
            BY <1>1, <2>2, <2>3
      <2> QED BY <1>1, <2>1, <2>2, <2>4, <2>5, <2>6, <2>7, <2>8, <2>9, ConnectStepAt
<1> QED BY <1>2, <1>3

LEMMA ConnectKeeps ==
    ASSUME ConnectorAssumption, CoordinatorAssumption, CoordinatorInv, NEW o \in Owners,
           Connecting(ConnectStep(o))
    PROVE  CoordinatorInv'
<1>1. UNCHANGED <<held, leaky, live, created, closing, queued>> /\ ConnectStep(o)
      BY DEF Connecting, entryVars, taskVars, objectVars
<1>2. esphome' = esphome
      BY <1>1 DEF ConnectStep, Begin, Opening, Info, Subscribe, Found, ScanTimeout, DialFails,
                  BeginLocal, InvalidHandle, PostConnect
<1>3. ConnectFrame
      BY <1>1, <1>2 DEF ConnectFrame
<1>5. CASE Begin(o)
      BY <1>3, <1>5, BeginKeeps
<1>6. CASE Opening(o)
      BY <1>3, <1>6, OpeningKeeps
<1>7. CASE Info(o)
      BY <1>3, <1>7, InfoKeeps
<1>8. CASE Subscribe(o)
      BY <1>3, <1>8, SubscribeKeeps
<1>9. CASE Found(o)
      <2>1. UNCHANGED <<tcp, api, conn, slot, unsub, err>> /\ Go(o, "post") /\ pc[o] = "scan"
            BY <1>9 DEF Found
      <2>2. pc[o] \in Fetching /\ pc[o] \notin {"idle", "reboot", "failed"}
            BY <2>1 DEF Fetching
      <2> QED BY <1>3, <2>1, <2>2, GoesOn
<1>10. CASE ScanTimeout(o) \/ DialFails(o)
      <2>1. /\ UNCHANGED <<tcp, api, conn>> /\ Go(o, "failed") /\ pc[o] \in {"scan", "post"}
            /\ slot' = SlotAfter(unsub[o]) /\ unsub' = [unsub EXCEPT ![o] = 0]
            /\ \E code \in {"E0002", "E0003"} : err' = [err EXCEPT ![o] = code]
            BY <1>10 DEF ScanTimeout, DialFails, Fails
      <2>2. pc[o] \in Fetching /\ pc[o] \notin {"idle", "reboot", "failed"}
            BY <2>1 DEF Fetching
      <2> QED BY <1>3, <2>1, <2>2, GoesOn
<1>11. CASE BeginLocal(o)
      <2>1. /\ UNCHANGED <<tcp, api, conn, slot, unsub>> /\ pc[o] = "start" /\ ~esphome
            /\ \/ Go(o, "post") /\ err' = err
               \/ Go(o, "failed") /\ err' = [err EXCEPT ![o] = "E0003"]
            BY <1>11 DEF BeginLocal, Fails
      <2>2. CASE Go(o, "post") /\ err' = err
            BY <1>3, <2>1, <2>2, GoesOn
      <2>3. CASE Go(o, "failed") /\ err' = [err EXCEPT ![o] = "E0003"]
            BY <1>3, <2>1, <2>3, GoesOn
      <2> QED BY <2>1, <2>2, <2>3
<1>12. CASE InvalidHandle(o)
      <2>1. /\ UNCHANGED <<tcp, api, conn, slot, unsub, err>> /\ pc[o] = "post" /\ ~esphome
            /\ Go(o, "start")
            BY <1>12 DEF InvalidHandle
      <2> QED BY <1>3, <2>1, GoesOn
<1>13. CASE PostConnect(o)
      <2>1. /\ UNCHANGED <<tcp, api, conn, slot, unsub>> /\ pc[o] = "post"
            /\ \/ Go(o, "up") /\ err' = err
               \/ Go(o, "failed") /\ err' = [err EXCEPT ![o] = "E0003"]
            BY <1>13 DEF PostConnect, Fails, connectorVars
      <2>2. pc[o] \in Fetching /\ pc[o] \notin {"idle", "reboot", "failed"}
            BY <2>1 DEF Fetching
      <2>3. CASE Go(o, "up") /\ err' = err
            BY <1>3, <2>1, <2>2, <2>3, GoesOn
      <2>4. CASE Go(o, "failed") /\ err' = [err EXCEPT ![o] = "E0003"]
            BY <1>3, <2>1, <2>2, <2>4, GoesOn
      <2> QED BY <2>1, <2>3, <2>4
<1> QED BY <1>1, <1>5, <1>6, <1>7, <1>8, <1>9, <1>10, <1>11, <1>12, <1>13 DEF ConnectStep

-----------------------------------------------------------------------------
\* The proxy, and steps that leave all connectors and tasks alone.

LEMMA QuietStep ==
    ASSUME ConnectorAssumption, CoordinatorAssumption, CoordinatorInv,
           UNCHANGED <<esphome, api, unsub, conn, pc, err, held, leaky, live, created, closing,
                       queued>>,
           tcp' \subseteq tcp, slot' \in {slot, 0}
    PROVE  CoordinatorInv'
<1>1. /\ Owners = Coordinators \cup {Flow} /\ Flow \notin Coordinators /\ Flow \in Owners
      BY DEF CoordinatorAssumption
<1>2. CoordinatorTypeOK'
      BY DEF CoordinatorInv, CoordinatorTypeOK
<1>3. Only(Flow)
      BY DEF Only
<1>4. /\ esphome => SessionAt(Flow)
      /\ ~esphome => tcp = {} /\ pc[Flow] # "opening"
      /\ SlotAt(Flow) /\ \A p \in Owners \ {Flow} : Apart(Flow, p)
      /\ esphome /\ ~leaky => KnownAt(Flow)
      BY <1>1, SessionFacts
<1>5. (esphome => SessionAt(Flow)') /\ (esphome /\ ~leaky => KnownAt(Flow)') /\ SlotAt(Flow)'
      BY <1>4 DEF SessionAt, KnownAt, SlotAt
<1>6. esphome /\ ~leaky /\ pc'[Flow] \in {"idle", "start"} => api'[Flow] = 0
      BY DEF CoordinatorInv, HeldInv
<1>7. \A p \in Owners \ {Flow} : {api'[Flow], conn'[Flow]} \cap {api[p], conn[p]} \subseteq {0}
      BY <1>4 DEF Apart
<1>8. \A c : OwnedBy(Flow, c) => OwnedBy(Flow, c)'
      BY DEF OwnedBy
<1>9. \A c \in tcp' : c \in tcp
      OBVIOUS
<1>10. slot \in tcp' => slot \in tcp
      OBVIOUS
<1>11. ~esphome => tcp' = {} /\ pc'[Flow] # "opening"
      BY <1>4
<1> QED BY <1>1, <1>2, <1>3, <1>5, <1>6, <1>7, <1>8, <1>9, <1>10, <1>11, OwnerStep

LEMMA EnvironmentKeeps ==
    ASSUME ConnectorAssumption, CoordinatorAssumption, CoordinatorInv,
           \/ Connecting(Environment)
           \/ \E i \in Coordinators : RestartButton(i)
           \/ UNCHANGED vars
    PROVE  CoordinatorInv'
<1>1. CASE Connecting(Environment)
      <2>1. UNCHANGED <<held, leaky, live, created, closing, queued>> /\ Environment
            BY <1>1 DEF Connecting, entryVars, taskVars, objectVars
      <2>2. /\ UNCHANGED <<esphome, api, unsub, conn, pc, err>>
            /\ tcp' \subseteq tcp /\ slot' \in {slot, 0}
            BY <2>1 DEF Environment, Expire, TcpDrop, Leaves, Returns, connectorVars, sessionVars,
                        proxyVars
      <2> QED BY <2>1, <2>2, QuietStep
<1>2. ASSUME NEW i \in Coordinators, RestartButton(i) PROVE CoordinatorInv'
      <2>1. /\ UNCHANGED <<esphome, api, unsub, conn, pc, err, held, leaky, live, created, closing,
                           queued>>
            /\ tcp' \subseteq tcp /\ slot' \in {slot, 0}
            BY <1>2 DEF RestartButton, ProxyRestarts, connectorVars, sessionVars, entryVars, objectVars
      <2> QED BY <2>1, QuietStep
<1>3. CASE UNCHANGED vars
      <2>1. /\ UNCHANGED <<esphome, api, unsub, conn, pc, err, held, leaky, live, created, closing,
                           queued>>
            /\ tcp' \subseteq tcp /\ slot' \in {slot, 0}
            BY <1>3 DEF vars, connVars, haVars, proxyVars, connectorVars, sessionVars, entryVars,
                        taskVars, objectVars
      <2> QED BY <2>1, QuietStep
<1> QED BY <1>1, <1>2, <1>3

-----------------------------------------------------------------------------
\* The tasks of a coordinator.

LEMMA FetchKeeps ==
    ASSUME ConnectorAssumption, CoordinatorAssumption, CoordinatorInv, NEW i \in Coordinators,
           Fetch(i) \/ Execute(i)
    PROVE  CoordinatorInv'
<1>1. i \in Owners /\ CoordinatorTypeOK
      BY DEF CoordinatorAssumption, CoordinatorInv
<1>2. /\ UNCHANGED <<esphome, tcp, slot, api, unsub, conn, held, leaky, live, created, closing, queued>>
      /\ pc[i] = "up"
      /\ \/ Go(i, "close") /\ err' = err
         \/ Go(i, "failed") /\ err' = [err EXCEPT ![i] = "E0003"]
      BY DEF Fetch, Execute, Fails, proxyVars, connectorVars, entryVars, taskVars
<1>3. pc[i] \in Fetching /\ pc[i] \notin {"idle", "reboot", "failed"}
      BY <1>2 DEF Fetching
<1>5. ConnectFrame
      BY <1>2 DEF ConnectFrame
<1>6. CASE Go(i, "close") /\ err' = err
      BY <1>1, <1>2, <1>3, <1>5, <1>6, GoesOn
<1>7. CASE Go(i, "failed") /\ err' = [err EXCEPT ![i] = "E0003"]
      BY <1>1, <1>2, <1>3, <1>5, <1>7, GoesOn
<1> QED BY <1>2, <1>6, <1>7

\* disconnect() at the connector of o.
LEMMA DisconnectAt ==
    ASSUME CoordinatorTypeOK, NEW o \in Owners, Disconnect(o)
    PROVE  /\ tcp' = tcp \ {api[o]} /\ api'[o] = 0 /\ unsub'[o] = 0 /\ slot' \in {slot, 0}
           /\ slot # 0 /\ slot \in tcp /\ unsub[o] = slot => slot' = 0
           /\ tcp' \subseteq Conns /\ slot' \in Conns \cup {0}
           /\ api' \in [Owners -> Conns \cup {0}] /\ unsub' \in [Owners -> Conns \cup {0}]
           /\ \A p \in Owners \ {o} : api'[p] = api[p] /\ unsub'[p] = unsub[p]
<1>1. /\ tcp' = tcp \ {api[o]} /\ slot' = SlotAfter(unsub[o])
      /\ api' = [api EXCEPT ![o] = 0] /\ unsub' = [unsub EXCEPT ![o] = 0]
      BY DEF Disconnect
<1>2. /\ slot' \in {slot, 0} /\ (slot # 0 /\ slot \in tcp /\ unsub[o] = slot => slot' = 0)
      BY <1>1 DEF SlotAfter, Heard
<1>3. slot' \in Conns \cup {0} /\ tcp' \subseteq Conns
      BY <1>1, <1>2 DEF CoordinatorTypeOK
<1> QED BY <1>1, <1>2, <1>3 DEF CoordinatorTypeOK

\* The end of a session, of a coordinator or of the config flow.
LEMMA EndStep ==
    ASSUME ConnectorAssumption, CoordinatorAssumption, CoordinatorInv, CoordinatorTypeOK',
           NEW o \in Owners, Only(o), esphome' = esphome, leaky => leaky', pc[o] \in Fetching,
           pc'[o] \in {"idle", "reboot"}, conn'[o] = 0, err'[o] = "none",
           UNCHANGED <<closing, live, queued>>,
           \/ tcp' = tcp \ {api[o]} /\ api'[o] = 0 /\ slot' \in {slot, 0}
           \/ /\ UNCHANGED <<tcp, slot>> /\ api'[o] = api[o] /\ unsub'[o] = unsub[o]
              /\ o # Flow /\ (leaky' \/ (held[o] /\ err[o] # "E1002" => held'[o]))
    PROVE  CoordinatorInv'
<1>1. /\ Owners = Coordinators \cup {Flow} /\ Flow \notin Coordinators
      BY DEF CoordinatorAssumption
<1>2. /\ 0 \notin tcp /\ (esphome => SessionAt(o)) /\ SlotAt(o) /\ (~esphome => tcp = {})
      /\ \A p \in Owners \ {o} : Apart(o, p)
      /\ esphome /\ ~leaky => KnownAt(o)
      BY SessionFacts
<1>3. SessionAt(o)' /\ KnownAt(o)' /\ (~esphome => tcp' = {} /\ pc'[o] # "opening")
      BY <1>2 DEF SessionAt, KnownAt, Fetching
<1>4. SlotAt(o)'
      BY <1>2 DEF SlotAt
<1>5. \A p \in Owners \ {o} : {api'[o], conn'[o]} \cap {api[p], conn[p]} \subseteq {0}
      BY <1>2 DEF Apart
<1>6. ASSUME esphome, ~leaky', api'[o] # 0
      PROVE  /\ UNCHANGED tcp /\ api'[o] = api[o] /\ o # Flow /\ held'[o]
      <2>1. err[o] # "E1002"
            BY <1>2, <1>6 DEF SessionAt
      <2>2. o \in Coordinators /\ KeptAt(o)
            BY <1>1, <1>6 DEF CoordinatorInv, HeldInv
      <2>3. held[o]
            BY <2>2 DEF KeptAt, Fetching
      <2> QED BY <1>6, <2>1, <2>3
<1>7. esphome /\ ~leaky' => /\ o \in Coordinators => KeptAt(o)'
                            /\ o = Flow /\ pc'[o] \in {"idle", "start"} => api'[o] = 0
      <2> SUFFICES ASSUME esphome, ~leaky'
                   PROVE  /\ o \in Coordinators => KeptAt(o)'
                          /\ o = Flow => api'[o] = 0
          OBVIOUS
      <2>1. o \in Coordinators => held'[o] \/ (api'[o] = 0 /\ pc'[o] \in {"idle", "reboot"})
            BY <1>6
      <2>2. o \in Coordinators => o \notin closing
            <3>1. o \in Coordinators => KeptAt(o)
                  BY DEF CoordinatorInv, HeldInv
            <3> QED BY <3>1 DEF KeptAt, Busy, Fetching
      <2> QED BY <1>6, <2>1, <2>2 DEF KeptAt
<1>8. \A c \in tcp' : ~leaky' /\ (c \notin tcp \/ OwnedBy(o, c)) => OwnedBy(o, c)'
      <2> SUFFICES ASSUME NEW c \in tcp', ~leaky', OwnedBy(o, c) PROVE OwnedBy(o, c)'
          OBVIOUS
      <2>1. c \in tcp /\ esphome /\ c # 0
            BY <1>2
      <2>2. c = api[o]
            BY <1>2, <2>1 DEF OwnedBy, KnownAt
      <2>3. api'[o] # 0
            BY <2>1, <2>2
      <2>4. api'[o] = api[o] /\ o # Flow /\ held'[o]
            BY <1>6, <2>1, <2>3
      <2> QED BY <2>2, <2>4 DEF OwnedBy
<1>9. slot \in tcp' => slot \in tcp
      OBVIOUS
<1>10. slot' # 0 => slot' = slot
      OBVIOUS
<1> QED BY <1>3, <1>4, <1>5, <1>7, <1>8, <1>9, <1>10, OwnerStep

LEMMA CloseSessionKeeps ==
    ASSUME ConnectorAssumption, CoordinatorAssumption, CoordinatorInv, NEW i \in Coordinators,
           CloseSession(i)
    PROVE  CoordinatorInv'
<1>1. CoordinatorTypeOK /\ i \in Owners /\ i # Flow /\ Owners = Coordinators \cup {Flow}
      BY DEF CoordinatorAssumption, CoordinatorInv
<1>2. /\ UNCHANGED <<esphome, closing, live, created, queued>> /\ pc[i] \in {"close", "failed"}
      /\ err' = [err EXCEPT ![i] = "none"] /\ conn' = [conn EXCEPT ![i] = 0]
      /\ Finally(i) /\ (Go(i, "idle") \/ Go(i, "reboot"))
      BY DEF CloseSession, entryVars, Account, Released
<1>3. /\ pc' \in [Owners -> Places] /\ pc'[i] \in {"idle", "reboot"}
      /\ \A p \in Owners \ {i} : pc'[p] = pc[p]
      <2>1. "idle" \in Places /\ "reboot" \in Places
            BY DEF Places
      <2>2. pc' \in [Owners -> Places]
            BY <1>1, <1>2, <2>1, GoesTo DEF CoordinatorTypeOK
      <2> QED BY <1>1, <1>2, <2>2 DEF Go, CoordinatorTypeOK
<1>4. /\ conn' \in [Owners -> Conns \cup {0}] /\ conn'[i] = 0
      /\ \A p \in Owners \ {i} : conn'[p] = conn[p] /\ err'[p] = err[p]
      /\ DOMAIN err' = Owners /\ err'[i] = "none"
      BY <1>1, <1>2 DEF CoordinatorTypeOK
<1>5. held' \in [Coordinators -> BOOLEAN] /\ \A j \in Coordinators \ {i} : held'[j] = held[j]
      <2>1. PICK b \in BOOLEAN : held' = [held EXCEPT ![i] = b]
            <3>1. (held[i] /\ ~ClosesAll(i) /\ err[i] # "E1002") \in BOOLEAN
                  OBVIOUS
            <3>2. \/ held' = [held EXCEPT ![i] = held[i] /\ ~ClosesAll(i) /\ err[i] # "E1002"]
                  \/ held' = [held EXCEPT ![i] = FALSE]
                  BY <1>2 DEF Finally
            <3> QED BY <3>1, <3>2, Zenon
      <2>2. held \in [Coordinators -> BOOLEAN]
            BY <1>1 DEF CoordinatorTypeOK
      <2> QED BY <2>1, <2>2, Zenon
<1>6. leaky' \in BOOLEAN /\ (leaky => leaky')
      <2>1. leaky' = leaky \/ leaky' = TRUE
            BY <1>2 DEF Finally
      <2>2. leaky \in BOOLEAN
            BY <1>1 DEF CoordinatorTypeOK
      <2>3. leaky' \in BOOLEAN
            BY <2>1, <2>2
      <2>4. leaky => leaky'
            BY <2>1
      <2> QED BY <2>3, <2>4
<1>7. pc[i] \in Fetching
      BY <1>2 DEF Fetching
<1>8. CASE Disconnect(i)
      <2>1. /\ tcp' = tcp \ {api[i]} /\ api'[i] = 0 /\ slot' \in {slot, 0}
            /\ tcp' \subseteq Conns /\ slot' \in Conns \cup {0}
            /\ api' \in [Owners -> Conns \cup {0}] /\ unsub' \in [Owners -> Conns \cup {0}]
            /\ \A p \in Owners \ {i} : api'[p] = api[p] /\ unsub'[p] = unsub[p]
            BY <1>1, <1>8, DisconnectAt
      <2>2. CoordinatorTypeOK'
            BY <1>1, <1>2, <1>3, <1>4, <1>5, <1>6, <2>1 DEF CoordinatorTypeOK
      <2>3. Only(i)
            BY <1>2, <1>3, <1>4, <1>5, <2>1 DEF Only
      <2> QED BY <1>1, <1>2, <1>3, <1>4, <1>6, <1>7, <2>1, <2>2, <2>3, EndStep
<1>9. CASE ~Disconnect(i)
      <2>1. /\ UNCHANGED <<tcp, slot, api, unsub>>
            /\ leaky' \/ (held[i] /\ err[i] # "E1002" => held'[i])
            <3>1. CASE leaky' = TRUE /\ Unconfirmed(i)
                  BY <3>1 DEF Unconfirmed, connectorVars
            <3>2. CASE /\ ~ClosesAll(i) /\ DisconnectBleOnly(i)
                       /\ held' = [held EXCEPT ![i] = @ /\ ~ClosesAll(i) /\ err[i] # "E1002"]
                  BY <1>1, <3>2 DEF DisconnectBleOnly, CoordinatorTypeOK
            <3> QED BY <1>2, <1>9, <3>1, <3>2 DEF Finally
      <2>2. CoordinatorTypeOK'
            BY <1>1, <1>2, <1>3, <1>4, <1>5, <1>6, <2>1 DEF CoordinatorTypeOK
      <2>3. Only(i)
            BY <1>2, <1>3, <1>4, <1>5, <2>1 DEF Only
      <2> QED BY <1>1, <1>2, <1>3, <1>4, <1>6, <1>7, <2>1, <2>2, <2>3, EndStep
<1> QED BY <1>8, <1>9

LEMMA TestEndsKeeps ==
    ASSUME ConnectorAssumption, CoordinatorAssumption, CoordinatorInv, TestEnds
    PROVE  CoordinatorInv'
<1>1. CoordinatorTypeOK /\ Flow \in Owners
      BY DEF CoordinatorAssumption, CoordinatorInv
<1>2. /\ UNCHANGED <<esphome, closing, live, created, queued, held, leaky>>
      /\ pc[Flow] \in {"up", "failed"} /\ Disconnect(Flow) /\ Go(Flow, "idle")
      /\ err' = [err EXCEPT ![Flow] = "none"] /\ conn' = [conn EXCEPT ![Flow] = 0]
      BY DEF TestEnds, haVars, entryVars, taskVars, objectVars, Go
<1>3. /\ tcp' = tcp \ {api[Flow]} /\ api'[Flow] = 0 /\ slot' \in {slot, 0}
      /\ tcp' \subseteq Conns /\ slot' \in Conns \cup {0}
      /\ api' \in [Owners -> Conns \cup {0}] /\ unsub' \in [Owners -> Conns \cup {0}]
      /\ \A p \in Owners \ {Flow} : api'[p] = api[p] /\ unsub'[p] = unsub[p]
      BY <1>1, <1>2, DisconnectAt
<1>4. /\ pc' \in [Owners -> Places] /\ pc'[Flow] = "idle"
      /\ \A p \in Owners \ {Flow} : pc'[p] = pc[p]
      <2>1. "idle" \in Places
            BY DEF Places
      <2>2. pc' \in [Owners -> Places]
            BY <1>1, <1>2, <2>1, GoesTo DEF CoordinatorTypeOK
      <2> QED BY <1>1, <1>2, <2>2 DEF Go, CoordinatorTypeOK
<1>5. /\ conn' \in [Owners -> Conns \cup {0}] /\ conn'[Flow] = 0
      /\ \A p \in Owners \ {Flow} : conn'[p] = conn[p] /\ err'[p] = err[p]
      /\ DOMAIN err' = Owners /\ err'[Flow] = "none"
      BY <1>1, <1>2 DEF CoordinatorTypeOK
<1>6. CoordinatorTypeOK'
      BY <1>1, <1>2, <1>3, <1>4, <1>5 DEF CoordinatorTypeOK
<1>7. Only(Flow) /\ pc[Flow] \in Fetching
      BY <1>2, <1>3, <1>4, <1>5 DEF Only, Fetching
<1> QED BY <1>1, <1>2, <1>3, <1>4, <1>5, <1>6, <1>7, EndStep

LEMMA TestConnectionKeeps ==
    ASSUME ConnectorAssumption, CoordinatorAssumption, CoordinatorInv, TestConnection
    PROVE  CoordinatorInv'
<1>1. CoordinatorTypeOK /\ Flow \in Owners /\ Flow \notin Coordinators
      BY DEF CoordinatorAssumption, CoordinatorInv
<1>2. /\ UNCHANGED <<esphome, closing, live, created, queued, held, leaky, tcp, slot, api, unsub, conn>>
      /\ pc[Flow] = "idle" /\ Go(Flow, "start") /\ err' = [err EXCEPT ![Flow] = "none"]
      BY DEF TestConnection, haVars, entryVars, taskVars, objectVars, Go, proxyVars, connectorVars
<1>3. /\ pc' \in [Owners -> Places] /\ pc'[Flow] = "start"
      /\ \A p \in Owners \ {Flow} : pc'[p] = pc[p]
      <2>1. "start" \in Places
            BY DEF Places
      <2>2. pc' \in [Owners -> Places]
            BY <1>1, <1>2, <2>1, GoesTo DEF CoordinatorTypeOK
      <2> QED BY <1>1, <1>2, <2>2 DEF Go, CoordinatorTypeOK
<1>4. /\ \A p \in Owners \ {Flow} : err'[p] = err[p]
      /\ DOMAIN err' = Owners /\ err'[Flow] = "none"
      BY <1>1, <1>2 DEF CoordinatorTypeOK
<1>5. CoordinatorTypeOK'
      BY <1>1, <1>2, <1>3, <1>4 DEF CoordinatorTypeOK
<1>6. Only(Flow)
      BY <1>2, <1>3, <1>4 DEF Only
<1>7. /\ (esphome => SessionAt(Flow)) /\ SlotAt(Flow) /\ (~esphome => tcp = {})
      /\ \A p \in Owners \ {Flow} : Apart(Flow, p)
      BY <1>1, SessionFacts
<1>8. (esphome => SessionAt(Flow)') /\ KnownAt(Flow)' /\ SlotAt(Flow)'
      BY <1>2, <1>3, <1>4, <1>7 DEF SessionAt, KnownAt, SlotAt, Fetching
<1>9. esphome /\ ~leaky => api'[Flow] = 0
      BY <1>2 DEF CoordinatorInv, HeldInv
<1>10. \A p \in Owners \ {Flow} : {api'[Flow], conn'[Flow]} \cap {api[p], conn[p]} \subseteq {0}
      BY <1>2, <1>7 DEF Apart
<1>11. \A c : ~OwnedBy(Flow, c)
      BY <1>2 DEF OwnedBy
<1> QED BY <1>1, <1>2, <1>3, <1>5, <1>6, <1>7, <1>8, <1>9, <1>10, <1>11, OwnerStep

\* async_restart_esp32, which makes no connection of this coordinator.
LEMMA RebootKeeps ==
    ASSUME ConnectorAssumption, CoordinatorAssumption, CoordinatorInv, NEW i \in Coordinators,
           Reboot(i)
    PROVE  CoordinatorInv'
<1>1. CoordinatorTypeOK /\ i \in Owners /\ i # Flow /\ Owners = Coordinators \cup {Flow}
      BY DEF CoordinatorAssumption, CoordinatorInv
<1>2. /\ UNCHANGED <<esphome, closing, live, created, queued, leaky, api, unsub, conn, err>>
      /\ pc[i] = "reboot"
      BY DEF Reboot, entryVars, objectVars, connectorVars
<1>3. /\ tcp' \subseteq tcp /\ slot' \in {slot, 0}
      /\ \/ Go(i, "start") /\ held' = [held EXCEPT ![i] = TRUE] /\ tcp' = {}
         \/ Go(i, "idle") /\ held' = held
      BY DEF Reboot, ProxyRestarts, Released
<1>4. /\ pc' \in [Owners -> Places] /\ pc'[i] \in {"start", "idle"}
      /\ \A p \in Owners \ {i} : pc'[p] = pc[p]
      <2>1. "idle" \in Places /\ "start" \in Places
            BY DEF Places
      <2>2. pc' \in [Owners -> Places]
            BY <1>1, <1>3, <2>1, GoesTo DEF CoordinatorTypeOK
      <2> QED BY <1>1, <1>3, <2>2 DEF Go, CoordinatorTypeOK
<1>5. /\ held' \in [Coordinators -> BOOLEAN] /\ \A j \in Coordinators \ {i} : held'[j] = held[j]
      /\ held[i] => held'[i]
      <2>1. held \in [Coordinators -> BOOLEAN]
            BY <1>1 DEF CoordinatorTypeOK
      <2> QED BY <1>3, <2>1, Zenon
<1>6. pc'[i] = "start" => held'[i] /\ tcp' = {}
      <2>1. held \in [Coordinators -> BOOLEAN]
            BY <1>1 DEF CoordinatorTypeOK
      <2>2. Go(i, "idle") => pc'[i] # "start"
            BY <1>1 DEF Go, CoordinatorTypeOK
      <2> QED BY <1>3, <2>1, <2>2
<1>7. CoordinatorTypeOK'
      BY <1>1, <1>2, <1>3, <1>4, <1>5 DEF CoordinatorTypeOK
<1>8. Only(i)
      BY <1>2, <1>4, <1>5 DEF Only
<1>9. /\ 0 \notin tcp /\ (esphome => SessionAt(i)) /\ SlotAt(i) /\ (~esphome => tcp = {})
      /\ \A p \in Owners \ {i} : Apart(i, p)
      BY <1>1, SessionFacts
<1>10. (esphome => SessionAt(i)') /\ KnownAt(i)' /\ SlotAt(i)'
      BY <1>2, <1>3, <1>4, <1>9 DEF SessionAt, KnownAt, SlotAt, Fetching
<1>11. esphome /\ ~leaky => /\ held[i] \/ api[i] = 0
                            /\ i \notin closing /\ conn[i] = 0
      BY <1>2, <1>9 DEF CoordinatorInv, HeldInv, KeptAt, Busy, SessionAt, Fetching
<1>12. esphome /\ ~leaky => KeptAt(i)'
      BY <1>2, <1>4, <1>5, <1>6, <1>11 DEF KeptAt
<1>13. \A p \in Owners \ {i} : {api'[i], conn'[i]} \cap {api[p], conn[p]} \subseteq {0}
      BY <1>2, <1>9 DEF Apart
<1>14. \A c \in tcp' : ~leaky' /\ (c \notin tcp \/ OwnedBy(i, c)) => OwnedBy(i, c)'
      <2> SUFFICES ASSUME NEW c \in tcp', ~leaky, OwnedBy(i, c) PROVE OwnedBy(i, c)'
          BY <1>2, <1>3
      <2>1. c \in tcp /\ esphome /\ c # 0
            BY <1>3, <1>9
      <2>2. c = api[i] /\ held[i]
            BY <1>1, <1>11, <2>1 DEF OwnedBy
      <2> QED BY <1>1, <1>2, <1>5, <2>2 DEF OwnedBy
<1>15. (~esphome => tcp' = {} /\ pc'[i] # "opening") /\ (slot \in tcp' => slot \in tcp)
      BY <1>3, <1>4, <1>9
<1> QED BY <1>1, <1>2, <1>3, <1>7, <1>8, <1>10, <1>12, <1>13, <1>14, <1>15, OwnerStep

\* The locks: waiting for them and taking them.
LEMMA AcquireKeeps ==
    ASSUME ConnectorAssumption, CoordinatorAssumption, CoordinatorInv, NEW i \in Coordinators,
           NEW t, Acquire(i, t)
    PROVE  CoordinatorInv'
<1>1. CoordinatorTypeOK /\ i \in Owners /\ i # Flow /\ Owners = Coordinators \cup {Flow}
      BY DEF CoordinatorAssumption, CoordinatorInv
<1>2. /\ UNCHANGED <<esphome, closing, live, created, leaky, tcp, slot, conn, err>>
      /\ pc[i] = "idle" /\ Go(i, "start")
      /\ held' = [held EXCEPT ![i] = esphome \/ t = "poll"]
      BY DEF Acquire, LocksFree, Rivals, entryVars, proxyVars
<1>3. /\ pc' \in [Owners -> Places] /\ pc'[i] = "start"
      /\ \A p \in Owners \ {i} : pc'[p] = pc[p]
      <2>1. "start" \in Places
            BY DEF Places
      <2>2. pc' \in [Owners -> Places]
            BY <1>1, <1>2, <2>1, GoesTo DEF CoordinatorTypeOK
      <2> QED BY <1>1, <1>2, <2>2 DEF Go, CoordinatorTypeOK
<1>4. /\ held' \in [Coordinators -> BOOLEAN] /\ \A j \in Coordinators \ {i} : held'[j] = held[j]
      /\ esphome => held'[i]
      <2>1. held \in [Coordinators -> BOOLEAN] /\ (esphome \/ t = "poll") \in BOOLEAN
            BY <1>1 DEF CoordinatorTypeOK
      <2> QED BY <1>2, <2>1, Zenon
<1>5. /\ DOMAIN queued' = Coordinators /\ \A j \in Coordinators \ {i} : queued'[j] = queued[j]
      BY <1>1 DEF Acquire, CoordinatorTypeOK
<1>6. t \in queued[i] \/ i \in live
      BY DEF Acquire, Due
<1>7. \/ held[i] /\ UNCHANGED <<api, unsub>>
      \/ ~held[i] /\ api' = [api EXCEPT ![i] = 0] /\ unsub' = [unsub EXCEPT ![i] = 0]
      BY DEF Acquire, NewConnector, connectorVars
<1>8. /\ api' \in [Owners -> Conns \cup {0}] /\ unsub' \in [Owners -> Conns \cup {0}]
      /\ \A p \in Owners \ {i} : api'[p] = api[p] /\ unsub'[p] = unsub[p]
      /\ \/ held[i] /\ api'[i] = api[i] /\ unsub'[i] = unsub[i]
         \/ ~held[i] /\ api'[i] = 0 /\ unsub'[i] = 0
      BY <1>1, <1>7 DEF CoordinatorTypeOK
<1>9. CoordinatorTypeOK'
      BY <1>1, <1>2, <1>3, <1>4, <1>5, <1>8 DEF CoordinatorTypeOK
<1>10. Only(i)
      BY <1>2, <1>3, <1>4, <1>5, <1>8 DEF Only
<1>11. /\ 0 \notin tcp /\ (esphome => SessionAt(i)) /\ SlotAt(i) /\ (~esphome => tcp = {})
      /\ \A p \in Owners \ {i} : Apart(i, p)
      BY <1>1, SessionFacts
<1>12. (esphome => SessionAt(i)') /\ KnownAt(i)' /\ SlotAt(i)'
      BY <1>2, <1>3, <1>8, <1>11 DEF SessionAt, KnownAt, SlotAt, Fetching
<1>13. esphome /\ ~leaky => KeptAt(i)'
      <2>1. esphome /\ ~leaky => i \notin closing
            BY <1>6 DEF CoordinatorInv, HeldInv, KeptAt, Busy
      <2> QED BY <1>2, <1>4, <2>1 DEF KeptAt
<1>14. \A p \in Owners \ {i} : {api'[i], conn'[i]} \cap {api[p], conn[p]} \subseteq {0}
      BY <1>2, <1>8, <1>11 DEF Apart
<1>15. \A c \in tcp' : ~leaky' /\ (c \notin tcp \/ OwnedBy(i, c)) => OwnedBy(i, c)'
      BY <1>1, <1>2, <1>3, <1>8 DEF OwnedBy
<1>16. ~esphome => tcp' = {} /\ pc'[i] # "opening"
      BY <1>2, <1>3, <1>11
<1> QED BY <1>1, <1>2, <1>9, <1>10, <1>12, <1>13, <1>14, <1>15, <1>16, OwnerStep

\* A task comes, or an entry: nothing changes at the connectors.
LEMMA WaitKeeps ==
    ASSUME ConnectorAssumption, CoordinatorAssumption, CoordinatorInv, NEW i \in Coordinators,
           (\E t \in {"poll", "command"} : Wait(i, t)) \/ SetupEntry(i)
    PROVE  CoordinatorInv'
<1>1. CoordinatorTypeOK /\ i \in Owners /\ i # Flow /\ Owners = Coordinators \cup {Flow}
      BY DEF CoordinatorAssumption, CoordinatorInv
<1>2. UNCHANGED <<esphome, tcp, slot, api, unsub, conn, pc, err, held, leaky, closing>>
      BY DEF Wait, SetupEntry, connVars, proxyVars, connectorVars, sessionVars, entryVars, objectVars
<1>3. /\ DOMAIN queued' = Coordinators /\ \A j \in Coordinators \ {i} : queued'[j] = queued[j]
      /\ live' \subseteq created' /\ closing' \subseteq created'
      /\ \A j \in Coordinators \ {i} : j \in live' => j \in live
      BY <1>1 DEF Wait, SetupEntry, taskVars, entryVars, CoordinatorTypeOK
<1>4. CoordinatorTypeOK'
      BY <1>1, <1>2, <1>3 DEF CoordinatorTypeOK
<1>5. Only(i)
      BY <1>2, <1>3 DEF Only
<1>6. /\ (esphome => SessionAt(i)) /\ SlotAt(i) /\ (~esphome => tcp = {} /\ pc[i] # "opening")
      /\ \A p \in Owners \ {i} : Apart(i, p)
      /\ esphome /\ ~leaky => KnownAt(i)
      BY <1>1, SessionFacts
<1>7. /\ (esphome => SessionAt(i)') /\ SlotAt(i)' /\ (esphome /\ ~leaky => KnownAt(i)')
      BY <1>2, <1>6 DEF SessionAt, KnownAt, SlotAt
<1>8. esphome /\ ~leaky => KeptAt(i)'
      <2> SUFFICES ASSUME esphome, ~leaky PROVE KeptAt(i)'
          OBVIOUS
      <2>1. KeptAt(i)
            BY DEF CoordinatorInv, HeldInv
      <2>2. i \notin closing
            <3>1. CASE SetupEntry(i)
                  BY <1>1, <3>1 DEF SetupEntry, CoordinatorTypeOK
            <3>2. CASE \E t \in {"poll", "command"} : Wait(i, t)
                  BY <2>1, <3>2 DEF Wait, Due, KeptAt
            <3> QED BY <3>1, <3>2
      <2> QED BY <1>2, <2>1, <2>2 DEF KeptAt
<1>9. \A p \in Owners \ {i} : {api'[i], conn'[i]} \cap {api[p], conn[p]} \subseteq {0}
      BY <1>2, <1>6 DEF Apart
<1>10. \A c \in tcp' : c \in tcp /\ (OwnedBy(i, c) => OwnedBy(i, c)')
      BY <1>2 DEF OwnedBy
<1> QED BY <1>1, <1>2, <1>4, <1>5, <1>6, <1>7, <1>8, <1>9, <1>10, OwnerStep

\* async_close: with a task of the coordinator under way it is recorded in leaky.
LEMMA AsyncCloseKeeps ==
    ASSUME ConnectorAssumption, CoordinatorAssumption, CoordinatorInv, NEW i \in Coordinators,
           AsyncClose(i) \/ AsyncClosed(i)
    PROVE  CoordinatorInv'
<1>1. CoordinatorTypeOK /\ i \in Owners /\ i # Flow /\ Owners = Coordinators \cup {Flow}
      BY DEF CoordinatorAssumption, CoordinatorInv
<1>2. UNCHANGED <<esphome, conn, pc, err, created, queued>>
      BY DEF AsyncClose, AsyncClosed, sessionVars, taskVars
<1>3. /\ live' \subseteq live /\ closing' \subseteq closing \cup {i}
      /\ \A j \in Coordinators \ {i} : j \in closing' => j \in closing
      /\ AsyncClose(i) => i \in live /\ i \notin live'
      /\ AsyncClosed(i) => i \in closing /\ i \notin closing'
      BY DEF AsyncClose, AsyncClosed
<1>4. closing' \subseteq created' /\ live' \subseteq created'
      BY <1>1, <1>2, <1>3 DEF CoordinatorTypeOK
<1>5. leaky' \in BOOLEAN /\ (leaky => leaky')
      <2>1. leaky' = leaky \/ leaky' = TRUE \/ leaky' = (leaky \/ Busy(i))
            BY DEF AsyncClose, AsyncClosed
      <2>2. leaky \in BOOLEAN
            BY <1>1 DEF CoordinatorTypeOK
      <2>3. leaky' \in BOOLEAN
            BY <2>1, <2>2
      <2>4. leaky => leaky'
            BY <2>1
      <2> QED BY <2>3, <2>4
<1>6. esphome /\ ~leaky' => ~Busy(i) /\ pc[i] = "idle" /\ conn[i] = 0
      <2> SUFFICES ASSUME esphome, ~leaky' PROVE ~Busy(i) /\ pc[i] = "idle" /\ conn[i] = 0
          OBVIOUS
      <2>1. SessionAt(i)
            BY <1>1, SessionFacts
      <2>2. CASE AsyncClose(i)
            BY <2>1, <2>2 DEF AsyncClose, Busy, SessionAt, Fetching
      <2>3. CASE AsyncClosed(i)
            <3>1. KeptAt(i) /\ i \in closing
                  BY <1>3, <1>5, <2>3 DEF CoordinatorInv, HeldInv
            <3> QED BY <2>1, <3>1 DEF KeptAt, Busy, SessionAt, Fetching
      <2> QED BY <2>2, <2>3
<1>7. held' \in [Coordinators -> BOOLEAN] /\ \A j \in Coordinators \ {i} : held'[j] = held[j]
      <2>1. held' = held \/ held' = [held EXCEPT ![i] = FALSE]
            BY DEF AsyncClose, AsyncClosed
      <2>2. held \in [Coordinators -> BOOLEAN]
            BY <1>1 DEF CoordinatorTypeOK
      <2> QED BY <2>1, <2>2, Zenon
<1>9. \/ /\ tcp' = tcp \ {api[i]} /\ api'[i] = 0 /\ unsub'[i] = 0 /\ slot' \in {slot, 0}
         /\ tcp' \subseteq Conns /\ slot' \in Conns \cup {0}
         /\ api' \in [Owners -> Conns \cup {0}] /\ unsub' \in [Owners -> Conns \cup {0}]
         /\ \A p \in Owners \ {i} : api'[p] = api[p] /\ unsub'[p] = unsub[p]
      \/ UNCHANGED <<tcp, slot, api, unsub>> /\ (held' = held \/ leaky')
      <2>1. CASE Disconnect(i)
            BY <1>1, <2>1, DisconnectAt
      <2>2. CASE ~Disconnect(i)
            BY <2>2 DEF AsyncClose, AsyncClosed, Unconfirmed, proxyVars, connectorVars
      <2> QED BY <2>1, <2>2
<1>10. CoordinatorTypeOK'
      <2>1. /\ tcp' \subseteq Conns /\ slot' \in Conns \cup {0}
            /\ api' \in [Owners -> Conns \cup {0}] /\ unsub' \in [Owners -> Conns \cup {0}]
            BY <1>1, <1>9 DEF CoordinatorTypeOK
      <2> QED BY <1>1, <1>2, <1>4, <1>5, <1>7, <2>1 DEF CoordinatorTypeOK
<1>11. Only(i)
      <2>1. \A p \in Owners \ {i} : api'[p] = api[p] /\ unsub'[p] = unsub[p]
            BY <1>9
      <2> QED BY <1>2, <1>3, <1>7, <2>1 DEF Only
<1>12. /\ 0 \notin tcp /\ (esphome => SessionAt(i)) /\ SlotAt(i)
       /\ (~esphome => tcp = {} /\ pc[i] # "opening")
       /\ \A p \in Owners \ {i} : Apart(i, p)
      BY <1>1, SessionFacts
<1>13. api'[i] \in {api[i], 0} /\ slot' \in {slot, 0} /\ tcp' \subseteq tcp
      BY <1>9
<1>14. esphome => SessionAt(i)'
      BY <1>2, <1>12, <1>13 DEF SessionAt
<1>15. SlotAt(i)'
      BY <1>2, <1>9, <1>12 DEF SlotAt
<1>16. esphome /\ ~leaky' => KnownAt(i)' /\ KeptAt(i)'
      <2> SUFFICES ASSUME esphome, ~leaky' PROVE KnownAt(i)' /\ KeptAt(i)'
          OBVIOUS
      <2>1. KeptAt(i)
            BY <1>5 DEF CoordinatorInv, HeldInv
      <2>2. held'[i] \/ api'[i] = 0
            BY <1>9, <2>1 DEF KeptAt
      <2>3. i \in closing' => i \notin live' /\ ~Busy(i)'
            BY <1>2, <1>3, <1>6 DEF Busy
      <2> QED BY <1>2, <1>6, <2>2, <2>3 DEF KnownAt, KeptAt, Fetching
<1>17. \A p \in Owners \ {i} : {api'[i], conn'[i]} \cap {api[p], conn[p]} \subseteq {0}
      BY <1>2, <1>12, <1>13 DEF Apart
<1>18. \A c \in tcp' : ~leaky' /\ (c \notin tcp \/ OwnedBy(i, c)) => OwnedBy(i, c)'
      <2> SUFFICES ASSUME NEW c \in tcp', ~leaky', OwnedBy(i, c) PROVE OwnedBy(i, c)'
          BY <1>13
      <2>1. c \in tcp /\ esphome /\ c # 0
            BY <1>12, <1>13
      <2>2. c = api[i] /\ held[i]
            BY <1>1, <1>6, <2>1 DEF OwnedBy
      <2> QED BY <1>1, <1>9, <2>1, <2>2 DEF OwnedBy
<1>19. (~esphome => tcp' = {} /\ pc'[i] # "opening") /\ (slot \in tcp' => slot \in tcp)
      BY <1>2, <1>12, <1>13
<1> QED BY <1>1, <1>2, <1>5, <1>10, <1>11, <1>13, <1>14, <1>15, <1>16, <1>17, <1>18, <1>19, OwnerStep

-----------------------------------------------------------------------------
\* The theorems.

LEMMA InitCoordinator ==
    ASSUME ConnectorAssumption, CoordinatorAssumption, Init
    PROVE  CoordinatorInv
<1>1. CoordinatorTypeOK
      <2>1. "idle" \in Places
            BY DEF Places
      <2>2. pc \in [Owners -> Places]
            BY <2>1 DEF Init, ConnectorInit
      <2>3. held \in [Coordinators -> BOOLEAN] /\ esphome \in BOOLEAN /\ leaky \in BOOLEAN
            BY DEF Init, ConnectorInit
      <2>4. /\ tcp \subseteq Conns /\ slot \in Conns \cup {0} /\ DOMAIN err = Owners
            /\ api \in [Owners -> Conns \cup {0}] /\ unsub \in [Owners -> Conns \cup {0}]
            /\ conn \in [Owners -> Conns \cup {0}]
            BY DEF Init, ConnectorInit
      <2>5. /\ DOMAIN queued = Coordinators /\ live \subseteq created /\ closing \subseteq created
            BY DEF Init
      <2> QED BY <2>2, <2>3, <2>4, <2>5 DEF CoordinatorTypeOK
<1>2. Owners = Coordinators \cup {Flow}
      BY DEF CoordinatorAssumption
<1>3. \A o \in Owners : pc[o] = "idle" /\ conn[o] = 0 /\ api[o] = 0 /\ err[o] = "none"
      BY DEF Init, ConnectorInit
<1>4. SessionInv
      BY <1>3 DEF Init, ConnectorInit, SessionInv, SessionAt, Fetching
<1>5. HeldInv
      BY <1>2, <1>3 DEF Init, HeldInv, KnownAt, KeptAt, Fetching
<1>6. SlotInv
      BY <1>3 DEF Init, ConnectorInit, SlotInv, Apart, SlotAt
<1>7. NoConnectionForgotten
      BY DEF Init, ConnectorInit, NoConnectionForgotten
<1> QED BY <1>1, <1>4, <1>5, <1>6, <1>7 DEF CoordinatorInv

\* The inductive invariant: every step keeps it.
THEOREM CoordinatorInvariant == Spec => []CoordinatorInv
<1>1. Init => CoordinatorInv
      BY ConnectorAssumption, CoordinatorAssumption, InitCoordinator
<1>2. CoordinatorInv /\ [Next]_vars => CoordinatorInv'
      <2> SUFFICES ASSUME CoordinatorInv, [Next]_vars PROVE CoordinatorInv'
          OBVIOUS
      <2> USE ConnectorAssumption, CoordinatorAssumption
      <2>1. ASSUME NEW i \in Coordinators, SetupEntry(i) PROVE CoordinatorInv'
            BY <2>1, WaitKeeps
      <2>2. ASSUME NEW i \in Coordinators, AsyncClose(i) \/ AsyncClosed(i) PROVE CoordinatorInv'
            BY <2>2, AsyncCloseKeeps
      <2>3. ASSUME NEW i \in Coordinators, NEW t \in {"poll", "command"}, Wait(i, t)
            PROVE  CoordinatorInv'
            BY <2>3, WaitKeeps
      <2>4. ASSUME NEW i \in Coordinators, NEW t \in {"poll", "command"}, Acquire(i, t)
            PROVE  CoordinatorInv'
            BY <2>4, AcquireKeeps
      <2>5. ASSUME NEW i \in Coordinators, Task(i) PROVE CoordinatorInv'
            BY <2>5, FetchKeeps, CloseSessionKeeps, RebootKeeps DEF Task
      <2>6. CASE TestConnection
            BY <2>6, TestConnectionKeeps
      <2>7. CASE TestEnds
            BY <2>7, TestEndsKeeps
      <2>8. ASSUME NEW o \in Owners, Connecting(ConnectStep(o)) PROVE CoordinatorInv'
            BY <2>8, ConnectKeeps
      <2>9. CASE \/ Connecting(Environment)
                 \/ \E i \in Coordinators : RestartButton(i)
                 \/ UNCHANGED vars
            BY <2>9, EnvironmentKeeps
      <2> QED BY <2>1, <2>2, <2>3, <2>4, <2>5, <2>6, <2>7, <2>8, <2>9 DEF Next
<1> QED BY <1>1, <1>2, PTL DEF Spec

\* Every open TCP connection is one that a coordinator, a running task or the config
\* flow can still close, for any number of entries, reloads, commands and faults, unless
\* a disconnect timed out or a coordinator was closed under its own task.
THEOREM NoneForgotten == Spec => []NoConnectionForgotten
<1>1. CoordinatorInv => NoConnectionForgotten
      BY DEF CoordinatorInv
<1> QED BY <1>1, CoordinatorInvariant, PTL

-----------------------------------------------------------------------------
\* The cached settings.

\* A step that touches no settings keeps the invariant if it gives no task to a
\* coordinator that is not set up.
LEMMA SettingsFrame ==
    ASSUME SettingsInv, UNCHANGED settingsVars, live' = live, leaky => leaky',
           ~leaky' => \A i \in Coordinators : Busy(i)' => Busy(i) \/ i \in live
    PROVE  SettingsInv'
<1>1. UNCHANGED <<setting, written, cache>>
      BY DEF settingsVars
<1>2. ~leaky' => OneAtATime'
      BY <1>1 DEF SettingsInv, OneAtATime
<1> QED BY <1>1, <1>2 DEF SettingsInv, SettingsFresh

\* A coordinator that is set up starts with an empty cache.
LEMMA SetupSettings ==
    ASSUME SettingsInv, NEW i \in Coordinators, SetupEntry(i)
    PROVE  SettingsInv'
<1>1. /\ UNCHANGED <<setting, written, cache, leaky, pc, queued>>
      /\ live' = live \cup {i} /\ (Shared \/ live = {})
      BY DEF SetupEntry, settingsVars, connVars, sessionVars, taskVars
<1>2. ~leaky' => OneAtATime'
      BY <1>1 DEF SettingsInv, OneAtATime, Busy
<1> QED BY <1>1, <1>2 DEF SettingsInv, SettingsFresh

\* A coordinator that is closed takes its cache with it.
LEMMA AsyncCloseSettings ==
    ASSUME SettingsInv, NEW i \in Coordinators, AsyncClose(i)
    PROVE  SettingsInv'
<1>1. /\ UNCHANGED <<setting, written, pc, queued>> /\ live' = live \ {i}
      /\ leaky' = (leaky \/ Busy(i))
      /\ \/ Busy(i) /\ cache' = cache
         \/ ~Busy(i) /\ cache' = [cache EXCEPT ![i] = 0]
      BY DEF AsyncClose, Collected, sessionVars, taskVars
<1>2. cache' \in [Coordinators -> Nat] /\ \A j \in Coordinators : cache'[j] \in {cache[j], 0}
      BY <1>1 DEF SettingsInv
<1>3. SettingsFresh'
      BY <1>1, <1>2 DEF SettingsInv, SettingsFresh
<1>4. ASSUME ~leaky' PROVE OneAtATime'
      <2>1. ~leaky /\ ~Busy(i) /\ cache'[i] = 0 /\ \A j \in Coordinators : Busy(j)' <=> Busy(j)
            BY <1>1, <1>4 DEF SettingsInv, Busy
      <2>2. OneAtATime
            BY <2>1 DEF SettingsInv
      <2> QED BY <1>1, <1>2, <2>1, <2>2 DEF OneAtATime
<1> QED BY <1>1, <1>2, <1>3, <1>4 DEF SettingsInv

\* What a poll reads is what the last write left.
LEMMA FetchSettings ==
    ASSUME CoordinatorInv, CoordinatorAssumption, SettingsInv, NEW i \in Coordinators, Fetch(i)
    PROVE  SettingsInv'
<1>1. /\ UNCHANGED <<setting, written, live, leaky, queued>> /\ pc[i] = "up"
      /\ \/ cache' = cache
         \/ cache' = [cache EXCEPT ![i] = setting[Dev[i]]]
      BY DEF Fetch, Filled, entryVars, taskVars
<1>2. Busy(i) /\ \A j \in Coordinators \ {i} : Busy(j)' <=> Busy(j)
      <2>1. \A j \in Coordinators \ {i} : pc'[j] = pc[j]
            BY DEF Fetch, Fails, Go, CoordinatorInv, CoordinatorTypeOK, CoordinatorAssumption
      <2> QED BY <1>1, <2>1 DEF Busy
<1>3. Dev[i] \in Devices
      BY DEF Devices, CoordinatorAssumption
<1>4. /\ cache' \in [Coordinators -> Nat]
      /\ \A j \in Coordinators : cache'[j] = cache[j] \/ (j = i /\ cache'[j] = setting[Dev[i]])
      BY <1>1, <1>3 DEF SettingsInv
<1>5. SettingsFresh'
      BY <1>1, <1>3, <1>4 DEF SettingsInv, SettingsFresh
<1>6. ASSUME ~leaky' PROVE OneAtATime'
      <2>1. OneAtATime /\ i \in live
            BY <1>1, <1>2, <1>6 DEF SettingsInv, OneAtATime
      <2> QED BY <1>1, <1>2, <1>4, <2>1 DEF OneAtATime
<1> QED BY <1>1, <1>4, <1>5, <1>6 DEF SettingsInv

\* A write that succeeds is one of the coordinator that is set up, and it has nothing
\* cached afterwards.
LEMMA ExecuteSettings ==
    ASSUME CoordinatorInv, CoordinatorAssumption, SettingsInv, NEW i \in Coordinators, Execute(i)
    PROVE  SettingsInv'
<1>1. /\ UNCHANGED <<live, leaky, queued>> /\ pc[i] = "up"
      /\ \/ setting' = setting
         \/ setting' = [setting EXCEPT ![Dev[i]] = @ + 1]
      /\ \/ cache' = cache /\ written' = written
         \/ /\ setting' = [setting EXCEPT ![Dev[i]] = @ + 1]
            /\ cache' = [cache EXCEPT ![i] = 0]
            /\ written' = [written EXCEPT ![Dev[i]] = setting'[Dev[i]]]
      BY DEF Execute, Stored, CacheCleared, entryVars, taskVars, settingsVars
<1>2. Busy(i) /\ \A j \in Coordinators \ {i} : Busy(j)' <=> Busy(j)
      <2>1. \A j \in Coordinators \ {i} : pc'[j] = pc[j]
            BY DEF Execute, Fails, Go, CoordinatorInv, CoordinatorTypeOK, CoordinatorAssumption
      <2> QED BY <1>1, <2>1 DEF Busy
<1>3. Dev[i] \in Devices /\ \A j \in Coordinators : Dev[j] \in Devices
      BY DEF Devices, CoordinatorAssumption
<1>4. /\ setting' \in [Devices -> Nat \ {0}]
      /\ \A d \in Devices : setting'[d] \in Nat /\ setting'[d] >= setting[d]
      BY <1>1, <1>3 DEF SettingsInv
<1>5. /\ cache' \in [Coordinators -> Nat] /\ written' \in [Devices -> Nat]
      /\ \A j \in Coordinators : cache'[j] \in {cache[j], 0}
      /\ \A d \in Devices : written'[d] = written[d] \/ (d = Dev[i] /\ written'[d] = setting'[d])
      BY <1>1, <1>3, <1>4 DEF SettingsInv
<1>6. \A d \in Devices : written'[d] <= setting'[d]
      BY <1>4, <1>5 DEF SettingsInv
<1>7. ASSUME ~leaky' PROVE OneAtATime' /\ OneAtATime /\ i \in live
      <2>1. OneAtATime /\ i \in live
            BY <1>1, <1>2, <1>7 DEF SettingsInv, OneAtATime
      <2> QED BY <1>1, <1>2, <1>5, <2>1 DEF OneAtATime
<1>8. SettingsFresh'
      <2> SUFFICES ASSUME NEW j \in Coordinators, ~leaky', cache'[j] # 0
                   PROVE  cache'[j] >= written'[Dev[j]]
          BY DEF SettingsFresh
      <2>1. cache'[j] = cache[j] /\ cache[j] >= written[Dev[j]]
            BY <1>1, <1>5 DEF SettingsInv, SettingsFresh
      <2>2. written'[Dev[j]] = written[Dev[j]]
            <3>1. CASE written' = written
                  BY <3>1
            <3>2. CASE cache' = [cache EXCEPT ![i] = 0]
                  <4>1. j # i
                        BY <3>2 DEF SettingsInv
                  <4>2. j \in live /\ i \in live /\ (~Shared => \A k, l \in live : k = l)
                        BY <1>1, <1>7, <2>1 DEF OneAtATime
                  <4>3. Dev[j] # Dev[i]
                        BY <4>1, <4>2 DEF CoordinatorAssumption
                  <4> QED BY <1>3, <1>5, <4>3
            <3> QED BY <1>1, <3>1, <3>2
      <2> QED BY <2>1, <2>2
<1> QED BY <1>1, <1>4, <1>5, <1>6, <1>7, <1>8 DEF SettingsInv

\* A session that connects has begun.
LEMMA ConnectSettings ==
    ASSUME CoordinatorInv, CoordinatorAssumption, SettingsInv, NEW o \in Owners,
           Connecting(ConnectStep(o))
    PROVE  SettingsInv'
<1>1. UNCHANGED settingsVars /\ UNCHANGED <<live, leaky, queued>>
      BY DEF Connecting, entryVars, taskVars
<1>2. pc[o] # "idle" /\ \E w : Go(o, w)
      BY DEF Connecting, ConnectStep, Begin, Opening, Info, Subscribe, Found, ScanTimeout,
             DialFails, BeginLocal, InvalidHandle, PostConnect, Fails
<1>3. \A i \in Coordinators : i # o => pc'[i] = pc[i]
      BY <1>2 DEF Go, CoordinatorInv, CoordinatorTypeOK, CoordinatorAssumption
<1> QED BY <1>1, <1>2, <1>3, SettingsFrame DEF Busy

\* The other steps of a coordinator.
LEMMA TaskSettings ==
    ASSUME CoordinatorInv, CoordinatorAssumption, SettingsInv, NEW i \in Coordinators,
           \/ AsyncClosed(i) \/ CloseSession(i) \/ Reboot(i) \/ RestartButton(i)
           \/ \E t \in {"poll", "command"} : Wait(i, t) \/ Acquire(i, t)
    PROVE  SettingsInv'
<1>1. UNCHANGED settingsVars /\ live' = live /\ (leaky => leaky')
      BY DEF AsyncClosed, CloseSession, Finally, Reboot, RestartButton, Wait, Acquire, entryVars
<1>2. \A j \in Coordinators : j # i => pc'[j] = pc[j] /\ queued'[j] = queued[j]
      BY DEF AsyncClosed, CloseSession, Account, Released, Reboot, RestartButton, Wait, Acquire, Go,
             taskVars, connVars, sessionVars, CoordinatorInv, CoordinatorTypeOK,
             CoordinatorAssumption
<1>3. ~leaky' => Busy(i) \/ i \in live \/ ~Busy(i)'
      <2>1. CASE AsyncClosed(i) \/ RestartButton(i)
            BY <2>1 DEF AsyncClosed, RestartButton, Busy, sessionVars, taskVars
      <2>2. CASE CloseSession(i) \/ Reboot(i)
            BY <2>2 DEF CloseSession, Reboot, Busy
      <2>3. ASSUME NEW t \in {"poll", "command"}, Wait(i, t) \/ Acquire(i, t)
            PROVE  Busy(i) \/ i \in live
            BY <2>3 DEF Wait, Acquire, Due, Busy
      <2> QED BY <2>1, <2>2, <2>3
<1>4. ASSUME ~leaky', NEW j \in Coordinators, Busy(j)' PROVE Busy(j) \/ j \in live
      <2>1. CASE j = i
            BY <1>3, <1>4, <2>1
      <2>2. CASE j # i
            BY <1>2, <1>4, <2>2 DEF Busy
      <2> QED BY <2>1, <2>2
<1> QED BY <1>1, <1>4, SettingsFrame

\* Steps of nobody's task.
LEMMA QuietSettings ==
    ASSUME CoordinatorInv, CoordinatorAssumption, SettingsInv,
           TestConnection \/ TestEnds \/ Connecting(Environment) \/ UNCHANGED vars
    PROVE  SettingsInv'
<1>1. UNCHANGED settingsVars /\ UNCHANGED <<live, leaky, queued>>
      BY DEF TestConnection, TestEnds, Connecting, vars, haVars, entryVars, taskVars
<1>2. \A j \in Coordinators : pc'[j] = pc[j]
      <2>1. CASE TestConnection \/ TestEnds
            BY <2>1 DEF TestConnection, TestEnds, CoordinatorInv, CoordinatorTypeOK,
                        CoordinatorAssumption
      <2>2. CASE Connecting(Environment) \/ UNCHANGED vars
            BY <2>2 DEF Connecting, Environment, Expire, TcpDrop, Leaves, Returns, vars, connVars,
                        sessionVars
      <2> QED BY <2>1, <2>2
<1> QED BY <1>1, <1>2, SettingsFrame DEF Busy

\* No coordinator reports settings from before a write the integration has seen succeed,
\* for any number of entries, reloads, commands and faults, unless one was closed under
\* its own task.
THEOREM SettingsAlwaysFresh == Spec => []SettingsFresh
<1>1. Init => SettingsInv
      <2> SUFFICES ASSUME Init PROVE SettingsInv
          OBVIOUS
      <2>1. /\ live = {} /\ cache = [i \in Coordinators |-> 0] /\ leaky = FALSE
            /\ setting = [d \in Devices |-> 1] /\ written = setting
            /\ \A i \in Coordinators : pc[i] = "idle" /\ queued[i] = {}
            BY CoordinatorAssumption DEF Init, ConnectorInit, CoordinatorAssumption
      <2> QED BY <2>1 DEF SettingsInv, OneAtATime, Busy, SettingsFresh
<1>2. CoordinatorInv /\ SettingsInv /\ [Next]_vars => SettingsInv'
      <2> SUFFICES ASSUME CoordinatorInv, SettingsInv, [Next]_vars PROVE SettingsInv'
          OBVIOUS
      <2> USE CoordinatorAssumption
      <2>1. ASSUME NEW i \in Coordinators, SetupEntry(i) PROVE SettingsInv'
            BY <2>1, SetupSettings
      <2>2. ASSUME NEW i \in Coordinators, AsyncClose(i) PROVE SettingsInv'
            BY <2>2, AsyncCloseSettings
      <2>3. ASSUME NEW i \in Coordinators, Fetch(i) PROVE SettingsInv'
            BY <2>3, FetchSettings
      <2>4. ASSUME NEW i \in Coordinators, Execute(i) PROVE SettingsInv'
            BY <2>4, ExecuteSettings
      <2>5. ASSUME NEW i \in Coordinators,
                   \/ AsyncClosed(i) \/ CloseSession(i) \/ Reboot(i) \/ RestartButton(i)
                   \/ \E t \in {"poll", "command"} : Wait(i, t) \/ Acquire(i, t)
            PROVE  SettingsInv'
            BY <2>5, TaskSettings
      <2>6. ASSUME NEW o \in Owners, Connecting(ConnectStep(o)) PROVE SettingsInv'
            BY <2>6, ConnectSettings
      <2>7. CASE TestConnection \/ TestEnds \/ Connecting(Environment) \/ UNCHANGED vars
            BY <2>7, QuietSettings
      <2> QED BY <2>1, <2>2, <2>3, <2>4, <2>5, <2>6, <2>7 DEF Next, Task
<1>3. SettingsInv => SettingsFresh
      BY DEF SettingsInv
<1> QED BY <1>1, <1>2, <1>3, CoordinatorInvariant, PTL DEF Spec

-----------------------------------------------------------------------------
\* The subscription slot.

\* The faults are counted.
LEMMA FaultsCounted == Spec => [](faults \in Nat)
<1>1. Init => faults \in Nat
      BY DEF Init, ConnectorInit
<1>2. faults \in Nat /\ [Next]_vars => (faults \in Nat)'
      <2> SUFFICES ASSUME faults \in Nat, [Next]_vars PROVE faults' \in {faults, faults + 1}
          OBVIOUS
      <2>1. ASSUME NEW i \in Coordinators, SetupEntry(i) \/ AsyncClose(i) \/ AsyncClosed(i)
            PROVE  faults' \in {faults, faults + 1}
            BY <2>1 DEF SetupEntry, AsyncClose, AsyncClosed, connVars, Fault
      <2>2. ASSUME NEW i \in Coordinators, NEW t \in {"poll", "command"}, Wait(i, t) \/ Acquire(i, t)
            PROVE  faults' \in {faults, faults + 1}
            BY <2>2 DEF Wait, Acquire, connVars
      <2>3. ASSUME NEW i \in Coordinators, Fetch(i) \/ Execute(i)
            PROVE  faults' \in {faults, faults + 1}
            BY <2>3 DEF Fetch, Execute, Fault
      <2>4. ASSUME NEW i \in Coordinators, CloseSession(i)
            PROVE  faults' \in {faults, faults + 1}
            BY <2>4 DEF CloseSession, Finally, Fault
      <2>5. ASSUME NEW i \in Coordinators, Reboot(i) \/ RestartButton(i)
            PROVE  faults' \in {faults, faults + 1}
            BY <2>5 DEF Reboot, RestartButton, Fault
      <2>6. CASE TestConnection \/ TestEnds
            BY <2>6 DEF TestConnection, TestEnds
      <2>7. ASSUME NEW o \in Owners, ConnectStep(o) PROVE faults' \in {faults, faults + 1}
            BY <2>7 DEF ConnectStep, Begin, Opening, Info, Subscribe, Found, ScanTimeout, DialFails,
                        BeginLocal, InvalidHandle, PostConnect, Fault
      <2>8. CASE Environment
            BY <2>8 DEF Environment, Expire, TcpDrop, Leaves, Returns, Fault
      <2>9. CASE UNCHANGED vars
            BY <2>9 DEF vars, connVars
      <2> QED BY <2>1, <2>2, <2>3, <2>4, <2>5, <2>6, <2>7, <2>8, <2>9 DEF Next, Task, Connecting
<1> QED BY <1>1, <1>2, PTL DEF Spec

\* disconnect() unsubscribes before it closes: it does not close the connection that has
\* the slot and leave the slot taken.
LEMMA DisconnectReleases ==
    ASSUME CoordinatorInv, NEW o \in Owners, Disconnect(o)
    PROVE  ~(slot # 0 /\ slot \in tcp \ tcp' /\ slot' = slot)
<1>1. /\ tcp' = tcp \ {api[o]}
      /\ slot # 0 /\ slot \in tcp /\ unsub[o] = slot => slot' = 0
      BY DisconnectAt DEF CoordinatorInv
<1>2. SlotAt(o)
      BY DEF CoordinatorInv, SlotInv
<1> QED BY <1>1, <1>2 DEF SlotAt

\* Only a connection that is lost leaves the proxy's slot taken: a poll, a command, a
\* reload or the config flow that closes one has given the slot back first, whatever
\* else happens to the connector at that time.
THEOREM SlotIsReleased == Spec => SlotReleased
<1>1. CoordinatorInv /\ faults \in Nat /\ [Next]_vars
        => [slot # 0 /\ slot \in tcp \ tcp' /\ slot' = slot => faults' # faults]_vars
      <2> SUFFICES ASSUME CoordinatorInv, faults \in Nat, Next,
                          slot # 0, slot \in tcp \ tcp', slot' = slot
                   PROVE  faults' # faults
          OBVIOUS
      <2>1. slot \in tcp /\ slot \notin tcp' /\ tcp' # tcp /\ slot' # 0
            OBVIOUS
      <2>2. \A o \in Owners : ~Disconnect(o)
            BY DisconnectReleases
      <2>3. Coordinators \subseteq Owners /\ Flow \in Owners
            BY CoordinatorAssumption DEF CoordinatorAssumption
      <2>4. ASSUME NEW i \in Coordinators, SetupEntry(i) \/ AsyncClose(i) \/ AsyncClosed(i)
            PROVE  FALSE
            BY <2>1, <2>2, <2>3, <2>4 DEF SetupEntry, AsyncClose, AsyncClosed, connVars, proxyVars,
                                          Unconfirmed
      <2>5. ASSUME NEW i \in Coordinators, NEW t \in {"poll", "command"}, Wait(i, t) \/ Acquire(i, t)
            PROVE  FALSE
            BY <2>1, <2>5 DEF Wait, Acquire, connVars, proxyVars
      <2>6. ASSUME NEW i \in Coordinators, Fetch(i) \/ Execute(i)
            PROVE  FALSE
            BY <2>1, <2>6 DEF Fetch, Execute, proxyVars
      <2>7. ASSUME NEW i \in Coordinators, CloseSession(i)
            PROVE  FALSE
            BY <2>1, <2>2, <2>3, <2>7 DEF CloseSession, Finally, DisconnectBleOnly, Unconfirmed
      <2>8. ASSUME NEW i \in Coordinators, Reboot(i) \/ RestartButton(i)
            PROVE  FALSE
            BY <2>1, <2>8 DEF Reboot, RestartButton, ProxyRestarts
      <2>9. ~TestConnection /\ ~TestEnds
            BY <2>1, <2>2, <2>3 DEF TestConnection, TestEnds, proxyVars
      <2>10. ASSUME NEW o \in Owners, ConnectStep(o) PROVE FALSE
            BY <2>1, <2>10 DEF ConnectStep, Begin, Opening, Info, Subscribe, Found, ScanTimeout,
                               DialFails, BeginLocal, InvalidHandle, PostConnect, proxyVars
      <2>11. CASE Environment
            BY <2>1, <2>11 DEF Environment, Expire, TcpDrop, Leaves, Returns, Fault, proxyVars
      <2> QED BY <2>4, <2>5, <2>6, <2>7, <2>8, <2>9, <2>10, <2>11 DEF Next, Task, Connecting
<1>2. Spec => [][Next]_vars
      BY PTL DEF Spec
<1> QED BY <1>1, <1>2, CoordinatorInvariant, FaultsCounted, PTL DEF SlotReleased
=============================================================================
