----------------------------- MODULE Connector -----------------------------
(***************************************************************************)
(* BluetoothLeConnector and ESPHomeAPIClient: one BLE session at a time of *)
(* each owner, over an ESP32 proxy or over the local adapter.              *)
(*                                                                         *)
(* The proxy is modelled from what the connector's comments say of it: one *)
(* advertisement subscription for all TCP connections; a second one is     *)
(* refused and hears nothing; unsubscribing aborts the BLE links; a TCP    *)
(* connection that ends with its subscription leaves the slot, and its BLE *)
(* link, taken until the proxy notices.                                    *)
(*                                                                         *)
(* An owner has one connector object; what calls it is in the modules that *)
(* extend this one, which start a session with pc "start" and take it over *)
(* at "up" or "failed".                                                    *)
(***************************************************************************)
EXTENDS Integers, FiniteSets

CONSTANTS
    Owners,     \* owners of a connector
    Dev,        \* the device of each owner
    Conns,      \* bound: ids of TCP connections
    MaxFaults   \* bound: failures of proxy, device and link

ASSUME ConnectorAssumption ==
    /\ Conns \subseteq Nat \ {0} /\ IsFiniteSet(Conns)
    /\ MaxFaults \in Nat

VARIABLES
    esphome,    \* esphome_host is set
    tcp,        \* connections that are open
    slot,       \* connection with the advertisement subscription, 0 for none
    link,       \* connection that carries the BLE link of a device, 0 for none, -o
                \* for a link of owner o over the local adapter
    away,       \* devices that are out of range or off
    notifying,  \* devices whose characteristics BlueZ believes to be notifying
    api,        \* _esphome_api of each connector, 0 for None
    unsub,      \* connection _esphome_unsub_adv would unsubscribe on, 0 for None
    client,     \* self.client is set
    conn,       \* connection the running session uses
    pc,         \* where the session is
    err,        \* how it failed
    attempt,    \* attempts of connect_async
    faults      \* faults so far

proxyVars == <<tcp, slot, link, notifying>>
connectorVars == <<api, unsub, client>>
sessionVars == <<conn, pc, err, attempt>>
connVars == <<esphome, away, proxyVars, connectorVars, sessionVars, faults>>

Devices == {Dev[o] : o \in Owners}
Id(o) == IF esphome THEN conn[o] ELSE -o

LinkUp(o) == link[Dev[o]] = Id(o) /\ (esphome => conn[o] \in tcp)

Fault == faults < MaxFaults /\ faults' = faults + 1

Go(o, where) == pc' = [pc EXCEPT ![o] = where]

ConnectorInit ==
    /\ esphome \in BOOLEAN
    /\ tcp = {} /\ slot = 0 /\ link = [d \in Devices |-> 0] /\ notifying = {}
    /\ away = {}
    /\ api = [o \in Owners |-> 0] /\ unsub = [o \in Owners |-> 0]
    /\ client = [o \in Owners |-> FALSE]
    /\ conn = [o \in Owners |-> 0] /\ pc = [o \in Owners |-> "idle"]
    /\ err = [o \in Owners |-> "none"] /\ attempt = [o \in Owners |-> 0]
    /\ faults = 0

-----------------------------------------------------------------------------
\* The proxy.

\* Unsubscribing on connection c, if it still has the slot; over a connection that is
\* gone it reaches nobody.
Heard(c) == c # 0 /\ c \in tcp /\ slot = c

SlotAfter(c) == IF Heard(c) THEN 0 ELSE slot
LinksAfter(c) == IF Heard(c) THEN [d \in Devices |-> 0] ELSE link

\* The proxy notices that a connection has gone.
Expire ==
    /\ \/ slot # 0 /\ slot \notin tcp
       \/ \E d \in Devices : link[d] > 0 /\ link[d] \notin tcp
    /\ slot' = IF slot \in tcp THEN slot ELSE 0
    /\ link' = [d \in Devices |-> IF link[d] > 0 /\ link[d] \notin tcp THEN 0 ELSE link[d]]
    /\ UNCHANGED <<esphome, away, tcp, notifying, connectorVars, sessionVars, faults>>

\* The TCP connection is lost (the 90 s ping timeout).
TcpDrop ==
    /\ \E c \in tcp : tcp' = tcp \ {c}
    /\ Fault
    /\ UNCHANGED <<esphome, away, slot, link, notifying, connectorVars, sessionVars>>

\* A device goes out of range, and with it its link; it may come back.
Leaves(d) ==
    /\ d \notin away /\ away' = away \cup {d}
    /\ link' = [link EXCEPT ![d] = 0]
    /\ Fault
    /\ UNCHANGED <<esphome, tcp, slot, notifying, connectorVars, sessionVars>>

Returns(d) ==
    /\ d \in away /\ away' = away \ {d}
    /\ UNCHANGED <<esphome, proxyVars, connectorVars, sessionVars, faults>>

\* The button of restart_esp32_async; it has a TCP connection of its own.
ProxyRestarts == tcp' = {} /\ slot' = 0 /\ link' = [d \in Devices |-> 0]

-----------------------------------------------------------------------------
\* connect_async over the proxy.

\* Pre-scan cleanup of the subscription the last session left, then
\* _ensure_esphome_api_connected: a connection that is alive is used again.
Begin(o) ==
    /\ pc[o] = "start" /\ esphome
    /\ slot' = SlotAfter(unsub[o]) /\ link' = LinksAfter(unsub[o])
    /\ unsub' = [unsub EXCEPT ![o] = 0]
    /\ \/ /\ api[o] \in tcp
          /\ conn' = [conn EXCEPT ![o] = api[o]]
          /\ Go(o, "sensors") /\ UNCHANGED api
       \/ /\ api[o] \notin tcp
          /\ api' = [api EXCEPT ![o] = 0]
          /\ Go(o, "opening") /\ UNCHANGED conn
    /\ UNCHANGED <<esphome, away, tcp, notifying, client, err, attempt, faults>>

Unused(c) ==
    /\ c \notin tcp /\ slot # c /\ \A d \in Devices : link[d] # c
    /\ \A o \in Owners : c \notin {api[o], unsub[o], conn[o]}

Fails(o, code) == Go(o, "failed") /\ err' = [err EXCEPT ![o] = code]

\* api.connect: the connection is only in a local variable until device_info is back.
Opening(o) ==
    /\ pc[o] = "opening"
    /\ \/ /\ \E c \in Conns :
              /\ Unused(c) /\ \A b \in Conns : Unused(b) => c <= b
              /\ tcp' = tcp \cup {c} /\ conn' = [conn EXCEPT ![o] = c]
          /\ Go(o, "info") /\ UNCHANGED <<err, faults>>
       \/ Fault /\ Fails(o, "E1002") /\ UNCHANGED <<tcp, conn>>
    /\ UNCHANGED <<esphome, away, slot, link, notifying, connectorVars, attempt>>

\* device_info; its failure is tolerated.
Info(o) ==
    /\ pc[o] = "info"
    /\ api' = [api EXCEPT ![o] = conn[o]]
    /\ Go(o, "sensors")
    /\ UNCHANGED <<esphome, away, proxyVars, unsub, client, conn, err, attempt, faults>>

\* The sensors are read, which never fails, and the advertisements subscribed to.
Subscribe(o) ==
    /\ pc[o] = "sensors"
    /\ \/ /\ conn[o] \in tcp
          /\ slot' = IF slot = 0 THEN conn[o] ELSE slot
          /\ unsub' = [unsub EXCEPT ![o] = conn[o]]
          /\ Go(o, "scan") /\ UNCHANGED err
       \/ /\ conn[o] \notin tcp
          /\ Fails(o, "E0003") /\ UNCHANGED <<slot, unsub>>
    /\ UNCHANGED <<esphome, away, tcp, link, notifying, api, client, conn, attempt, faults>>

\* The device advertises while nobody is connected to it.
Advertises(o) == link[Dev[o]] = 0 /\ Dev[o] \notin away

Audible(o) == conn[o] \in tcp /\ slot = conn[o] /\ Advertises(o)

\* Found: the subscription is kept until the BLE connect has ended.
Found(o) ==
    /\ pc[o] = "scan" /\ Audible(o)
    /\ client' = [client EXCEPT ![o] = TRUE]
    /\ link' = [link EXCEPT ![Dev[o]] = conn[o]]
    /\ Go(o, "post")
    /\ UNCHANGED <<esphome, away, tcp, slot, notifying, api, unsub, conn, err, attempt,
                   faults>>

ScanTimeout(o) ==
    /\ pc[o] = "scan" /\ ~Audible(o)
    /\ slot' = SlotAfter(unsub[o]) /\ link' = LinksAfter(unsub[o])
    /\ unsub' = [unsub EXCEPT ![o] = 0]
    /\ Fails(o, "E0002")
    /\ UNCHANGED <<esphome, away, tcp, notifying, api, client, conn, attempt, faults>>

\* ESPHomeAPIClient.connect fails, also in _fetch_services: the subscription is given
\* back, which aborts a link that is up.
DialFails(o) ==
    /\ pc[o] = "post" /\ esphome
    /\ IF LinkUp(o) THEN Fault ELSE UNCHANGED faults
    /\ slot' = SlotAfter(unsub[o]) /\ link' = LinksAfter(unsub[o])
    /\ unsub' = [unsub EXCEPT ![o] = 0]
    /\ Fails(o, "E0003")
    /\ UNCHANGED <<esphome, away, tcp, notifying, api, client, conn, attempt>>

-----------------------------------------------------------------------------
\* connect_async over the local adapter.

\* _connect_local: Home Assistant's cache or scanner, or a scan of its own; one that
\* finds nothing is followed by a connect to the bare address.
BeginLocal(o) ==
    /\ pc[o] = "start" /\ ~esphome
    /\ \/ /\ Advertises(o)
          /\ client' = [client EXCEPT ![o] = TRUE]
          /\ link' = [link EXCEPT ![Dev[o]] = -o]
          /\ Go(o, "post") /\ UNCHANGED <<err, faults>>
       \/ /\ IF Advertises(o) THEN Fault ELSE UNCHANGED faults
          /\ Fails(o, "E0003") /\ UNCHANGED <<client, link>>
    /\ UNCHANGED <<esphome, away, tcp, slot, notifying, api, unsub, conn, attempt>>

\* GATT Invalid Handle on the first attempt: disconnect and connect once more.
InvalidHandle(o) ==
    /\ pc[o] = "post" /\ ~esphome /\ attempt[o] = 0
    /\ Fault
    /\ link' = IF LinkUp(o) THEN [link EXCEPT ![Dev[o]] = 0] ELSE link
    /\ client' = [client EXCEPT ![o] = FALSE]
    /\ attempt' = [attempt EXCEPT ![o] = 1]
    /\ Go(o, "start")
    /\ UNCHANGED <<esphome, away, tcp, slot, notifying, api, unsub, conn, err>>

\* What BlueZ has when start_notify is called: stop_notify comes first.
Before(o) == notifying \ {Dev[o]}

-----------------------------------------------------------------------------
\* _post_connect: start_notify, and the handshake of an Alba.
PostConnect(o) ==
    /\ pc[o] = "post"
    /\ \/ /\ LinkUp(o) /\ Dev[o] \notin Before(o)
          /\ notifying' = IF esphome THEN notifying ELSE notifying \cup {Dev[o]}
          /\ Go(o, "up") /\ UNCHANGED <<err, faults>>
       \/ /\ IF LinkUp(o) /\ Dev[o] \notin Before(o) THEN Fault ELSE UNCHANGED faults
          /\ Fails(o, "E0003") /\ UNCHANGED notifying
    /\ UNCHANGED <<esphome, away, tcp, slot, link, connectorVars, conn, attempt>>

-----------------------------------------------------------------------------
\* The end of a session: disconnect_ble_only or disconnect, or the caller's limit of 5 s.

BleClosed(o) == IF LinkUp(o) THEN [link EXCEPT ![Dev[o]] = 0] ELSE link

\* stop_notify succeeds only while the link is up.
NotifyStopped(o) == IF ~esphome /\ LinkUp(o) THEN notifying \ {Dev[o]} ELSE notifying

\* disconnect_ble_only: the subscription and the TCP connection stay.
DisconnectBleOnly(o) ==
    /\ link' = BleClosed(o)
    /\ client' = [client EXCEPT ![o] = FALSE]
    /\ UNCHANGED <<tcp, slot, notifying, api, unsub>>

\* Mutated form: TCP is closed first, and the unsubscription reaches nobody.
DisconnectTcpFirst(o) ==
    /\ link' = BleClosed(o)
    /\ notifying' = NotifyStopped(o)
    /\ tcp' = tcp \ {api[o]}
    /\ api' = [api EXCEPT ![o] = 0] /\ unsub' = [unsub EXCEPT ![o] = 0]
    /\ client' = [client EXCEPT ![o] = FALSE]
    /\ UNCHANGED slot

\* Mutated form: without a BLE client there is nothing to close.
DisconnectWithClient(o) ==
    /\ link' = IF Heard(unsub[o]) THEN [d \in Devices |-> 0] ELSE BleClosed(o)
    /\ slot' = SlotAfter(unsub[o])
    /\ notifying' = NotifyStopped(o)
    /\ tcp' = IF client[o] THEN tcp \ {api[o]} ELSE tcp
    /\ api' = [api EXCEPT ![o] = 0] /\ unsub' = [unsub EXCEPT ![o] = 0]
    /\ client' = [client EXCEPT ![o] = FALSE]

\* disconnect: BLE first, then the subscription, then TCP.
Disconnect(o) ==
    /\ link' = IF Heard(unsub[o]) THEN [d \in Devices |-> 0] ELSE BleClosed(o)
    /\ slot' = SlotAfter(unsub[o])
    /\ notifying' = NotifyStopped(o)
    /\ tcp' = tcp \ {api[o]}
    /\ api' = [api EXCEPT ![o] = 0] /\ unsub' = [unsub EXCEPT ![o] = 0]
    /\ client' = [client EXCEPT ![o] = FALSE]

\* The end of the link is not confirmed in time, and nothing else is closed.
Unconfirmed(o) ==
    /\ link' = BleClosed(o)
    /\ UNCHANGED <<tcp, slot, notifying, connectorVars>>

ConnectStep(o) ==
    \/ Begin(o) \/ Opening(o) \/ Info(o) \/ Subscribe(o) \/ Found(o) \/ ScanTimeout(o)
    \/ DialFails(o) \/ BeginLocal(o) \/ InvalidHandle(o) \/ PostConnect(o)

Environment == Expire \/ TcpDrop \/ \E d \in Devices : Leaves(d) \/ Returns(d)
=============================================================================
