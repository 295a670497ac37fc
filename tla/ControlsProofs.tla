------------------------- MODULE ControlsProofs -------------------------
(***************************************************************************)
(* What a user is shown and what a control does, for any number of         *)
(* requests, faults and settings changed at the device.  The argument is   *)
(* in layers, each resting on those before it: facts about the tables of   *)
(* Wiring; the types; who holds the session; what a table read has in its  *)
(* hands; what is cached against what the device has; what is published    *)
(* against what is cached; what has been fed by the end of a poll; the     *)
(* monitor; and what becomes of a request.                                 *)
(***************************************************************************)
EXTENDS Controls, SequenceTheorems, TLAPS

-----------------------------------------------------------------------------
(* Types *)

\* What a surface can ask at any time: the integration's buttons need not be available.
HacsOffered ==
    (UNION {SetsOf(table, Numbers(table)) : table \in NumberTables(model, kind)})
    \cup {CmdReq(c) : c \in {b \in Buttons(model) : ButtonAvailable(b, kind, TRUE)}}

Offered(surface) == CASE surface = "mqtt" -> MqttRequests
                      [] surface = "rest" -> RestRequests
                      [] surface = "hacs" -> HacsOffered

\* Every request there is, whatever the installation.
Req == {NoReq} \cup MqttRequests \cup RestRequests
       \cup (UNION {SetsOf(table, Numbers(table)) : table \in Tables})
       \cup {CmdReq(b) : b \in Buttons("unknown")}

Dicts == UNION {[D -> Nat] : D \in SUBSET Settings}

Outs == {"", "ignored", "refused", "done", "failed", "offline", "unsupported"}

\* What a request can have done: written a setting or run a command.
Deeds == {""} \cup Labels \cup {r.name : r \in Req}

TaskType == [pc : {"idle", "wait", "run", "ended", "polling"}, req : Req,
             todo : Seq(Tables), got : {<<>>} \cup (Tables \X Dicts),
             dirty : SUBSET Settings, out : Outs, did : Deeds]

\* The two fixed variables and the mode agree with each other.
InstallOK ==
    /\ install \in {"on-demand", "persistent", "hacs"}
    /\ kind \in {"mera", "alba"}
    /\ install = "hacs" =>
          model \in {"unknown", IF kind = "alba" THEN "alba" ELSE "mera_comfort"}

TypeInv ==
    /\ InstallOK
    /\ mqtt \in {"up", "dead", "off"}
    /\ dev \in [Settings -> Nat]
    /\ cache \in [Settings -> Nat \cup {NoVal}]
    /\ known \in [Tables -> BOOLEAN]
    /\ view \in [Labels -> Nat \cup {NoVal}]
    /\ lock \in Tasks \cup {Free}
    /\ task \in [Tasks -> TaskType]
    /\ unsure \subseteq Settings

-----------------------------------------------------------------------------
(* The inductive invariant *)

\* One session at a time, but for the permanent one; only that one goes on polling.
LockInv ==
    /\ install # "persistent" => \A t \in Tasks : task[t].pc = "run" => lock = t
    /\ task["poll"].pc = "polling" => install = "persistent"

\* The table read is the first of those to read.
GotOf(t) ==
    task[t].got # <<>> =>
        /\ task[t].todo # <<>> /\ task[t].got[1] = Head(task[t].todo)
        /\ DOMAIN task[t].got[2] = ReadIds(task[t].got[1])

\* A caller reads a table because a REST read asks for it, or, on demand, because it
\* is not known.
TodoOf(c) ==
    /\ task[c].pc = "wait" => task[c].todo = <<>>
    /\ task[c].todo # <<>> =>
          /\ task[c].req.type = "read" /\ Bridge
          /\ \/ EndsWithTable(c)
             \/ task[c].pc = "run" =>
                   /\ install = "on-demand" /\ ~known["profile"]
                   /\ task[c].todo = <<"profile">>

ReadInv == (\A t \in Tasks : GotOf(t)) /\ (\A c \in Callers : TodoOf(c))

\* A value read and not kept yet is the device's, or the setting is marked.
TakenInv ==
    \A t \in Tasks : task[t].got # <<>> =>
        \A s \in DOMAIN task[t].got[2] :
            s \in task[t].dirty \/ task[t].got[2][s] = dev[s]

\* The cache has a value only of what the device has; in the bridge, that of a table
\* not known has none.
BlankInv ==
    /\ \A s \in Settings : cache[s] # NoVal => Has(s)
    /\ Bridge => \A s \in Settings : ~known[s[1]] =>
                    cache[s] = NoVal /\ view[Label(s)] = NoVal

\* The settings that the bridge publishes under their own label.
Keyed == {s \in Settings : /\ s[1] \in {"profile", "common"} /\ s # <<"profile", 10>>
                           /\ Label(s) \notin Swapped
                           /\ s[1] = "common" => s[2] \in 0 .. 1}

\* What the bridge publishes under a label is the device's value; what it never reads, or
\* has no key for, it never publishes.
PublishedInv ==
    Bridge /\ mqtt = "up" =>
        \A s \in Settings : Label(s) \notin Swapped =>
            /\ view[Label(s)] # NoVal => s \in Keyed /\ s \in ReadIds(s[1])
            /\ view[Label(s)] \in {NoVal, dev[s]} \/ s \in unsure

\* Between two polls the integration's entities show the device's values.
EntitiesInv ==
    ~Bridge /\ okay /\ ~refresh /\ task["poll"].pc # "run" =>
        \A s \in Settings : view[Label(s)] \in {NoVal, dev[s]} \/ s \in unsure

\* What has been fed when a first poll has succeeded, and on the way there.
FedInv ==
    /\ install = "hacs" /\ polled => Supply(kind) \subseteq fed
    /\ install = "on-demand" /\ polled /\ mqtt = "up" /\ kind = "mera"
          => FirstPollFeeds \subseteq fed
    /\ install = "persistent" /\ mqtt = "up" =>
          /\ polled \/ task["poll"].pc \in {"run", "polling"} => ConnectFeeds \subseteq fed
          /\ polled => PersistentPollFeeds \subseteq fed

\* Every number that MQTT discovery announces for the profile table shows a value.
ProfileShown ==
    "profile" \in missed \/ \A n \in DiscoveryProfileNumbers : view[n[1]] # NoVal

ShownInv ==
    Bridge /\ kind = "mera" /\ mqtt = "up" =>
        /\ polled \/ task["poll"].pc = "polling" => ProfileShown
        /\ task["poll"].pc = "run" =>
              \/ ProfileShown
              \/ task["poll"].todo # <<>> /\ Head(task["poll"].todo) = "profile"

\* The monitor shows the permanent client's last reading, unless it was bypassed.
MonitorInv ==
    /\ shower \in {"on", "off"} /\ last \in {"none", "on", "off"}
    /\ heard \in {"none", "bypassed", "on", "off"}
    /\ install # "persistent" => last = "none"
    /\ last # "none" /\ heard # "bypassed" => shown = last
    /\ MonitorTrue

\* A request on its way was offered and accepted, and has no result yet; what is turned
\* away is a gap, and what is done is what was asked for.
RequestOf(c) ==
    /\ task[c].pc # "idle" => task[c].req \in Offered(Surface(c))
    /\ task[c].pc # "ended" => task[c].out = ""
    /\ task[c].pc \in {"wait", "run"} => Accepted(Surface(c), task[c].req)
    /\ task[c].out \in {"refused", "ignored", "unsupported"} => Gap(Surface(c), task[c].req)
    /\ task[c].out = "done" /\ task[c].req.type # "read" => task[c].did = task[c].req.name

AskedInv == \A c \in Callers : RequestOf(c)

-----------------------------------------------------------------------------
(* The tables of Wiring *)

\* The labels of a table.
ProfileLabels == {"OdourExtraction", "OscillatorState", "AnalShowerPressure",
                  "LadyShowerPressure", "AnalShowerPosition", "LadyShowerPosition",
                  "WaterTemperature", "WcSeatHeat", "DryerTemperature", "DryerState",
                  "SystemFlush", "DryerSprayIntensity"}

CommonLabels == {"OdourRunOn", "LightBrightness", "LightColor", "LightActivation",
                 "LidSensitivity", "LidOpens", "LidCloses"}

\* The profile table names twelve settings, each differently.
LEMMA ProfileTable ==
    /\ DOMAIN ProfileSettings = 0 .. 10 \cup {13}
    /\ \A i \in 0 .. 10 \cup {13} : ProfileSettings[i] \in ProfileLabels
    /\ \A i, j \in 0 .. 10 \cup {13} : ProfileSettings[i] = ProfileSettings[j] => i = j
<1>1. DOMAIN ProfileSettings = 0 .. 10 \cup {13}
      BY DEF ProfileSettings
<1>2. \A i \in 0 .. 10 \cup {13} : ProfileSettings[i] \in ProfileLabels
      BY SMT DEF ProfileSettings, ProfileLabels
<1>3. \A i, j \in 0 .. 10 \cup {13} : ProfileSettings[i] = ProfileSettings[j] => i = j
      BY SMT DEF ProfileSettings
<1> QED BY <1>1, <1>2, <1>3

\* So does the table of the common settings with seven.
LEMMA CommonTable ==
    /\ DOMAIN CommonSettings = (0 .. 7) \ {5}
    /\ \A i \in (0 .. 7) \ {5} : CommonSettings[i] \in CommonLabels
    /\ \A i, j \in (0 .. 7) \ {5} : CommonSettings[i] = CommonSettings[j] => i = j
<1>1. DOMAIN CommonSettings = (0 .. 7) \ {5}
      BY DEF CommonSettings
<1>2. \A i \in (0 .. 7) \ {5} : CommonSettings[i] \in CommonLabels
      BY SMT DEF CommonSettings, CommonLabels
<1>3. \A i, j \in (0 .. 7) \ {5} : CommonSettings[i] = CommonSettings[j] => i = j
      BY SMT DEF CommonSettings
<1> QED BY <1>1, <1>2, <1>3

\* The ids of the three tables.
LEMMA IdsAre ==
    /\ Ids("profile") = 0 .. 10 \cup {13}
    /\ Ids("common") = (0 .. 7) \ {5}
    /\ Ids("active") = AlbaActive
BY ProfileTable, CommonTable DEF Ids

\* A setting is a table and an id of it.
LEMMA SettingsAre ==
    /\ \A table \in Tables : \A i \in Ids(table) :
          <<table, i>> \in Settings /\ <<table, i>>[1] = table /\ <<table, i>>[2] = i
    /\ \A s \in Settings : s[1] \in Tables /\ s[2] \in Ids(s[1]) /\ s = <<s[1], s[2]>>
BY DEF Settings

\* The label of a setting, table by table.
LEMMA LabelIs ==
    ASSUME NEW s \in Settings
    PROVE  /\ s[1] = "profile" => Label(s) = ProfileSettings[s[2]] /\ Label(s) \in ProfileLabels
           /\ s[1] = "common" => Label(s) = CommonSettings[s[2]] /\ Label(s) \in CommonLabels
           /\ s[1] = "active" => Label(s) = s[2] /\ Label(s) \in AlbaActive
           /\ Label(s) \in Labels
<1>1. s[1] \in Tables /\ s[2] \in Ids(s[1])
      BY SettingsAre
<1>2. s[1] = "profile" => Label(s) = ProfileSettings[s[2]]
      BY DEF Label
<1>3. s[1] = "common" => Label(s) = CommonSettings[s[2]]
      BY DEF Label
<1>4. s[1] = "active" => Label(s) = s[2]
      BY DEF Label
<1>5. Label(s) \in Labels
      BY DEF Labels
<1> QED BY <1>1, <1>2, <1>3, <1>4, <1>5, ProfileTable, CommonTable, IdsAre

\* No two settings have the same label.
LEMMA LabelInjective == \A s, u \in Settings : Label(s) = Label(u) => s = u
<1> SUFFICES ASSUME NEW s \in Settings, NEW u \in Settings, Label(s) = Label(u)
             PROVE  s = u
    OBVIOUS
<1>1. /\ s[1] \in Tables /\ s[2] \in Ids(s[1]) /\ s = <<s[1], s[2]>>
      /\ u[1] \in Tables /\ u[2] \in Ids(u[1]) /\ u = <<u[1], u[2]>>
      BY SettingsAre
<1>2. /\ ProfileLabels \cap CommonLabels = {} /\ ProfileLabels \cap AlbaActive = {}
      /\ CommonLabels \cap AlbaActive = {}
      BY DEF ProfileLabels, CommonLabels, AlbaActive
<1>3. s[1] = u[1]
      BY <1>1, <1>2, LabelIs DEF Tables
<1>4. s[2] = u[2]
      <2>1. CASE s[1] = "profile"
            BY <2>1, <1>1, <1>3, LabelIs, ProfileTable, IdsAre
      <2>2. CASE s[1] = "common"
            BY <2>2, <1>1, <1>3, LabelIs, CommonTable, IdsAre
      <2>3. CASE s[1] = "active"
            BY <2>3, <1>3, LabelIs
      <2> QED BY <1>1, <2>1, <2>2, <2>3 DEF Tables
<1> QED BY <1>1, <1>3, <1>4

\* What a table read returns is in the table and in the device.
LEMMA ReadIdsAre ==
    /\ \A table \in Tables : ReadIds(table) \subseteq Settings
    /\ \A table \in Tables : \A s \in ReadIds(table) : s[1] = table /\ Has(s)
    /\ \A s \in Settings : Has(s) /\ s # <<"profile", 10>> => s \in ReadIds(s[1])
BY DEF ReadIds, In

-----------------------------------------------------------------------------
(* Publishing a table *)

\* The keys of the bridge's two tables.
LEMMA KeysAre ==
    /\ MqttKeys("profile") = PROFILE_SETTING_MQTT_KEYS
    /\ MqttKeys("common") = COMMON_SETTING_MQTT_KEYS
    /\ MqttKeys("active") = <<>>
    /\ DOMAIN PROFILE_SETTING_MQTT_KEYS = (0 .. 10 \cup {13}) \ {10}
    /\ \A i \in (0 .. 10 \cup {13}) \ {10} :
          PROFILE_SETTING_MQTT_KEYS[i] = ProfileSettings[i]
    /\ DOMAIN COMMON_SETTING_MQTT_KEYS = 0 .. 3
    /\ \A i \in 0 .. 1 : COMMON_SETTING_MQTT_KEYS[i] = CommonSettings[i]
    /\ \A i \in 2 .. 3 : COMMON_SETTING_MQTT_KEYS[i] \in Swapped
    /\ \A i \in 0 .. 3 : COMMON_SETTING_MQTT_KEYS[i] \in CommonLabels
<1>1. /\ MqttKeys("profile") = PROFILE_SETTING_MQTT_KEYS
      /\ MqttKeys("common") = COMMON_SETTING_MQTT_KEYS
      /\ MqttKeys("active") = <<>>
      BY DEF MqttKeys
<1>2. /\ DOMAIN PROFILE_SETTING_MQTT_KEYS = (0 .. 10 \cup {13}) \ {10}
      /\ \A i \in (0 .. 10 \cup {13}) \ {10} :
            PROFILE_SETTING_MQTT_KEYS[i] = ProfileSettings[i]
      BY ProfileTable DEF PROFILE_SETTING_MQTT_KEYS, ProfileRead
<1>3. DOMAIN COMMON_SETTING_MQTT_KEYS = 0 .. 3
      BY DEF COMMON_SETTING_MQTT_KEYS
<1>4. \A i \in 0 .. 1 : COMMON_SETTING_MQTT_KEYS[i] = CommonSettings[i]
      BY SMT DEF COMMON_SETTING_MQTT_KEYS, CommonSettings
<1>5. \A i \in 2 .. 3 : COMMON_SETTING_MQTT_KEYS[i] \in Swapped
      BY SMT DEF COMMON_SETTING_MQTT_KEYS, Swapped
<1>6. \A i \in 0 .. 3 : COMMON_SETTING_MQTT_KEYS[i] \in CommonLabels
      BY SMT DEF COMMON_SETTING_MQTT_KEYS, CommonLabels
<1> QED BY <1>1, <1>2, <1>3, <1>4, <1>5, <1>6

\* The keys of a table are labels of it, and no two are the same.
LEMMA KeysOfTable ==
    ASSUME NEW table \in Tables
    PROVE  /\ \A i \in DOMAIN MqttKeys(table) : <<table, i>> \in Settings
           /\ \A i, j \in DOMAIN MqttKeys(table) :
                 MqttKeys(table)[i] = MqttKeys(table)[j] => i = j
           /\ \A s \in Settings : \A i \in DOMAIN MqttKeys(table) :
                 MqttKeys(table)[i] = Label(s) =>
                    s[1] = table /\ (Label(s) \notin Swapped => s = <<table, i>> /\ s \in Keyed)
           /\ \A s \in Keyed : s[1] = table =>
                 s[2] \in DOMAIN MqttKeys(table) /\ MqttKeys(table)[s[2]] = Label(s)
<1>0. /\ ProfileLabels \cap CommonLabels = {} /\ ProfileLabels \cap AlbaActive = {}
      /\ CommonLabels \cap AlbaActive = {}
      BY DEF ProfileLabels, CommonLabels, AlbaActive
<1>1. CASE table = "profile"
      <2> DEFINE keys == MqttKeys("profile")
      <2>1. /\ DOMAIN keys = (0 .. 10 \cup {13}) \ {10}
            /\ \A i \in DOMAIN keys : /\ keys[i] = ProfileSettings[i] /\ i \in Ids("profile")
                                      /\ keys[i] \in ProfileLabels
            BY KeysAre, ProfileTable, IdsAre
      <2>2. ASSUME NEW i \in DOMAIN keys
            PROVE  <<"profile", i>> \in Settings /\ Label(<<"profile", i>>) = keys[i]
            <3> DEFINE s == <<"profile", i>>
            <3>1. s \in Settings /\ s[1] = "profile" /\ s[2] = i
                  BY <2>1, SettingsAre DEF Tables
            <3> HIDE DEF s
            <3>2. Label(s) = keys[i]
                  BY <2>1, <3>1, LabelIs
            <3> QED BY <3>1, <3>2 DEF s
      <2>3. \A i, j \in DOMAIN keys : keys[i] = keys[j] => i = j
            BY <2>1, ProfileTable
      <2>4. ASSUME NEW s \in Settings, NEW i \in DOMAIN keys, keys[i] = Label(s)
            PROVE  s = <<"profile", i>>
            BY <2>2, <2>4, LabelInjective
      <2>5. \A i \in DOMAIN keys : keys[i] \notin Swapped => <<"profile", i>> \in Keyed
            BY <2>1, <2>2 DEF Keyed
      <2>6. \A s \in Keyed : s[1] = "profile" =>
               /\ s[2] \in DOMAIN keys /\ keys[s[2]] = Label(s)
            BY <2>1, SettingsAre, LabelIs, IdsAre DEF Keyed
      <2> QED BY <1>1, <2>2, <2>3, <2>4, <2>5, <2>6
<1>2. CASE table = "common"
      <2> DEFINE keys == MqttKeys("common")
      <2>1. /\ DOMAIN keys = 0 .. 3
            /\ \A i \in 0 .. 1 : keys[i] = CommonSettings[i]
            /\ \A i \in 2 .. 3 : keys[i] \in Swapped
            /\ \A i \in 0 .. 3 : keys[i] \in CommonLabels /\ i \in Ids("common")
            BY KeysAre, IdsAre
      <2>2. \A i \in DOMAIN keys : <<"common", i>> \in Settings
            BY <2>1, SettingsAre DEF Tables
      <2>3. ASSUME NEW i \in 0 .. 1
            PROVE  Label(<<"common", i>>) = keys[i]
            <3> DEFINE s == <<"common", i>>
            <3>1. s \in Settings /\ s[1] = "common" /\ s[2] = i
                  BY <2>1, SettingsAre DEF Tables
            <3> HIDE DEF s
            <3>2. Label(s) = keys[i]
                  BY <2>1, <3>1, LabelIs
            <3> QED BY <3>2 DEF s
      <2>4. \A i, j \in DOMAIN keys : keys[i] = keys[j] => i = j
            BY <2>1, KeysAre, SMT DEF COMMON_SETTING_MQTT_KEYS
      <2>5. ASSUME NEW s \in Settings, NEW i \in DOMAIN keys, keys[i] = Label(s)
            PROVE  s[1] = "common"
            BY <1>0, <2>1, <2>5, LabelIs, SettingsAre DEF Tables
      <2>6. ASSUME NEW s \in Settings, NEW i \in DOMAIN keys, keys[i] = Label(s),
                   Label(s) \notin Swapped
            PROVE  s = <<"common", i>> /\ s \in Keyed
            <3>1. i \in 0 .. 1
                  BY <2>1, <2>6
            <3>2. s = <<"common", i>>
                  BY <2>2, <2>3, <2>6, <3>1, LabelInjective
            <3> QED BY <2>6, <3>1, <3>2 DEF Keyed
      <2>7. \A s \in Keyed : s[1] = "common" =>
               /\ s[2] \in DOMAIN keys /\ keys[s[2]] = Label(s)
            BY <2>1, LabelIs DEF Keyed
      <2> QED BY <1>2, <2>2, <2>4, <2>5, <2>6, <2>7
<1>3. CASE table = "active"
      BY <1>3, KeysAre DEF Keyed
<1> QED BY <1>1, <1>2, <1>3 DEF Tables

\* Publishing a table changes the labels of that table alone, takes no value away, and
\* under a key of the table's own label shows what the dict has.
LEMMA PublishedIs ==
    ASSUME NEW table \in Tables, NEW dict \in [Settings -> Nat \cup {NoVal}],
           view \in [Labels -> Nat \cup {NoVal}]
    PROVE  /\ Published(table, dict) \in [Labels -> Nat \cup {NoVal}]
           /\ \A l \in Labels : view[l] # NoVal => Published(table, dict)[l] # NoVal
           /\ \A s \in Settings : s[1] # table =>
                 Published(table, dict)[Label(s)] = view[Label(s)]
           /\ \A s \in Settings : s[1] = table /\ Label(s) \notin Swapped =>
                 Published(table, dict)[Label(s)] =
                    IF s \in Keyed /\ dict[s] # NoVal THEN dict[s] ELSE view[Label(s)]
<1> DEFINE keys == MqttKeys(table)
           shown_(l) == \E i \in DOMAIN keys : keys[i] = l /\ dict[<<table, i>>] # NoVal
           new(l) == IF shown_(l) THEN dict[<<table, CHOOSE i \in DOMAIN keys : keys[i] = l>>]
                     ELSE view[l]
<1>1. Published(table, dict) = [l \in Labels |-> new(l)]
      BY DEF Published
<1>2. ASSUME NEW l \in Labels, NEW i \in DOMAIN keys, keys[i] = l, dict[<<table, i>>] # NoVal
      PROVE  new(l) = dict[<<table, i>>]
      <2>1. (CHOOSE j \in DOMAIN keys : keys[j] = l) = i
            BY <1>2, KeysOfTable
      <2>2. shown_(l)
            BY <1>2
      <2> HIDE DEF keys, shown_
      <2> QED BY <2>1, <2>2
<1>3. \A l \in Labels : ~shown_(l) => new(l) = view[l]
      OBVIOUS
<1>4. ASSUME NEW l \in Labels
      PROVE  new(l) \in Nat \cup {NoVal} /\ (view[l] # NoVal => new(l) # NoVal)
      <2>1. CASE shown_(l)
            <3> PICK i \in DOMAIN keys : keys[i] = l /\ dict[<<table, i>>] # NoVal
                BY <2>1
            <3>1. new(l) = dict[<<table, i>>] /\ <<table, i>> \in Settings
                  BY <1>2, KeysOfTable
            <3> HIDE DEF new
            <3> QED BY <3>1
      <2>2. CASE ~shown_(l)
            <3>1. new(l) = view[l]
                  BY <1>3, <2>2
            <3> HIDE DEF new, shown_
            <3> QED BY <3>1
      <2> QED BY <2>1, <2>2
<1>5. ASSUME NEW s \in Settings, s[1] # table
      PROVE  new(Label(s)) = view[Label(s)]
      <2>1. ~shown_(Label(s))
            BY <1>5, KeysOfTable
      <2> QED BY <1>3, <2>1, LabelIs
<1>6. ASSUME NEW s \in Settings, s[1] = table, Label(s) \notin Swapped
      PROVE  new(Label(s)) = IF s \in Keyed /\ dict[s] # NoVal THEN dict[s]
                             ELSE view[Label(s)]
      <2>1. CASE s \in Keyed /\ dict[s] # NoVal
            <3>1. s[2] \in DOMAIN keys /\ keys[s[2]] = Label(s) /\ s = <<table, s[2]>>
                  BY <1>6, <2>1, KeysOfTable, SettingsAre
            <3>2. new(Label(s)) = dict[<<table, s[2]>>]
                  BY <1>2, <2>1, <3>1, LabelIs
            <3> HIDE DEF new, keys
            <3> QED BY <2>1, <3>1, <3>2
      <2>2. CASE ~(s \in Keyed /\ dict[s] # NoVal)
            <3>1. ASSUME NEW i \in DOMAIN keys, keys[i] = Label(s)
                  PROVE  dict[<<table, i>>] = NoVal
                  <4>1. s = <<table, i>> /\ s \in Keyed
                        BY <1>6, <3>1, KeysOfTable
                  <4> QED BY <2>2, <4>1
            <3>2. ~shown_(Label(s))
                  BY <3>1
            <3>3. new(Label(s)) = view[Label(s)]
                  BY <1>3, <3>2, LabelIs
            <3> HIDE DEF new, shown_
            <3> QED BY <2>2, <3>3
      <2> QED BY <2>1, <2>2
<1> HIDE DEF new
<1> QED BY <1>1, <1>4, <1>5, <1>6, LabelIs

-----------------------------------------------------------------------------
(* What can be asked *)

ReadNames == RestReads \cup Tables

\* A label is no name of a read, and no name of a command is.
LEMMA NamesApart ==
    /\ ProfileLabels \cap ReadNames = {} /\ CommonLabels \cap ReadNames = {}
    /\ AlbaActive \cap ReadNames = {} /\ "none" \notin ReadNames
    /\ Subscribed \cap ReadNames = {} /\ AlbaCommands \cap ReadNames = {}
<1> USE DEF ReadNames, RestReads, RestSensors, RestStates, Tables
<1>1. ProfileLabels \cap ReadNames = {} /\ CommonLabels \cap ReadNames = {}
      BY DEF ProfileLabels, CommonLabels
<1>2. AlbaActive \cap ReadNames = {} /\ "none" \notin ReadNames
      BY DEF AlbaActive
<1>3. Subscribed \cap ReadNames = {}
      BY DEF Subscribed, Announced, DiscoveryToggles, DiscoveryMaintenance,
             DiscoveryCalibration, Descaling, LidOffsets, LightModes
<1>4. AlbaCommands \cap ReadNames = {}
      BY DEF AlbaCommands, AlbaActive
<1> QED BY <1>1, <1>2, <1>3, <1>4

\* What set_profile_setting and set_common_setting accept.
LEMMA RangesAre ==
    /\ \A i \in 0 .. 9 : /\ PROFILE_SETTING_RANGES[i] \in 1 .. 5
                         /\ ProfileMax(i) = PROFILE_SETTING_RANGES[i]
    /\ ProfileMax(10) = 65535 /\ ProfileMax(13) = 65535
    /\ DOMAIN COMMON_SETTING_RANGES = 0 .. 3
    /\ \A i \in 0 .. 3 : COMMON_SETTING_RANGES[i] \in 1 .. 6
    /\ /\ COMMON_SETTING_RANGES[0] = 1 /\ COMMON_SETTING_RANGES[1] = 4
       /\ COMMON_SETTING_RANGES[2] = 2 /\ COMMON_SETTING_RANGES[3] = 6
<1>1. /\ DOMAIN PROFILE_SETTING_RANGES = 0 .. 9
      /\ \A i \in 0 .. 9 : PROFILE_SETTING_RANGES[i] \in 1 .. 5
      BY SMT DEF PROFILE_SETTING_RANGES
<1>2. DOMAIN COMMON_SETTING_RANGES = 0 .. 3
      BY DEF COMMON_SETTING_RANGES
<1>3. \A i \in 0 .. 3 : COMMON_SETTING_RANGES[i] \in 1 .. 6
      BY SMT DEF COMMON_SETTING_RANGES
<1>4. /\ COMMON_SETTING_RANGES[0] = 1 /\ COMMON_SETTING_RANGES[1] = 4
      /\ COMMON_SETTING_RANGES[2] = 2 /\ COMMON_SETTING_RANGES[3] = 6
      BY SMT DEF COMMON_SETTING_RANGES
<1> QED BY <1>1, <1>2, <1>3, <1>4 DEF ProfileMax

\* A number announced for the profile table has its setting's label and a maximum that
\* set_profile_setting accepts.
LEMMA ProfileNumbers ==
    \A n \in DiscoveryProfileNumbers :
        /\ n[2] \in (0 .. 10 \cup {13}) \ {10} /\ <<"profile", n[2]>> \in Settings
        /\ Label(<<"profile", n[2]>>) = n[1] /\ n[1] \in ProfileLabels
        /\ n[3] \in Nat /\ n[3] <= ProfileMax(n[2])
<1> SUFFICES ASSUME NEW i \in ProfileRead
             PROVE  LET n == <<ProfileSettings[i], i,
                               IF i = 13 THEN 4 ELSE PROFILE_SETTING_RANGES[i]>>
                    IN  /\ n[2] \in (0 .. 10 \cup {13}) \ {10} /\ <<"profile", n[2]>> \in Settings
                        /\ Label(<<"profile", n[2]>>) = n[1] /\ n[1] \in ProfileLabels
                        /\ n[3] \in Nat /\ n[3] <= ProfileMax(n[2])
    BY DEF DiscoveryProfileNumbers
<1> DEFINE s == <<"profile", i>>
<1>1. i \in (0 .. 10 \cup {13}) \ {10}
      BY ProfileTable DEF ProfileRead
<1>2. s \in Settings /\ s[1] = "profile" /\ s[2] = i
      BY <1>1, SettingsAre, IdsAre DEF Tables
<1>3. Label(s) = ProfileSettings[i] /\ ProfileSettings[i] \in ProfileLabels
      <2> HIDE DEF s
      <2> QED BY <1>2, LabelIs
<1>4. CASE i = 13
      BY <1>1, <1>2, <1>3, <1>4, RangesAre
<1>5. CASE i \in 0 .. 9
      BY <1>1, <1>2, <1>3, <1>5, RangesAre
<1> QED BY <1>1, <1>4, <1>5

\* A number announced for the common settings has its setting's label; the bridge does
\* not accept those of the lid, nor the larger values of the colour.
LEMMA CommonNumbers ==
    /\ COMMON_NUMBERS = DiscoveryCommonNumbers
    /\ \A n \in DiscoveryCommonNumbers :
          /\ n[2] \in (0 .. 7) \ {5} /\ <<"common", n[2]>> \in Settings
          /\ Label(<<"common", n[2]>>) = n[1] /\ n[1] \in CommonLabels
          /\ n[3] \in Nat
          /\ \/ n[2] \in DOMAIN COMMON_SETTING_RANGES /\ n[3] <= COMMON_SETTING_RANGES[n[2]]
             \/ n[2] \in {4, 6, 7}
             \/ n[1] = "LightColor" /\ n[3] > 2
<1>1. COMMON_NUMBERS = DiscoveryCommonNumbers
      BY DEF COMMON_NUMBERS, DiscoveryCommonNumbers
<1>2. \A n \in DiscoveryCommonNumbers :
         n[2] \in (0 .. 7) \ {5} /\ n[1] = CommonSettings[n[2]] /\ n[3] \in Nat
      BY SMT DEF DiscoveryCommonNumbers, CommonSettings
<1>3. \A n \in DiscoveryCommonNumbers :
         \/ n[2] \in 0 .. 3 /\ n[3] <= COMMON_SETTING_RANGES[n[2]]
         \/ n[2] \in {4, 6, 7}
         \/ n[1] = "LightColor" /\ n[3] > 2
      BY RangesAre DEF DiscoveryCommonNumbers
<1>4. ASSUME NEW n \in DiscoveryCommonNumbers
      PROVE  /\ <<"common", n[2]>> \in Settings
             /\ Label(<<"common", n[2]>>) = n[1] /\ n[1] \in CommonLabels
      <2> DEFINE s == <<"common", n[2]>>
      <2>1. s \in Settings /\ s[1] = "common" /\ s[2] = n[2]
            BY <1>2, SettingsAre, IdsAre DEF Tables
      <2> HIDE DEF s
      <2>2. Label(s) = n[1] /\ n[1] \in CommonLabels
            BY <1>2, <2>1, LabelIs
      <2> QED BY <2>1, <2>2 DEF s
<1> QED BY <1>1, <1>2, <1>3, <1>4, RangesAre

\* What is common to the requests of all surfaces: a write names its setting, and only
\* reads have the names of reads.
Sound(r) ==
    /\ r.type \in {"set", "cmd", "read"} /\ r.val \in Nat
    /\ r.type = "read" => r.name \in RestReads
    /\ r.type # "read" => r.name \notin ReadNames
    /\ r.type = "set" /\ r.set \in Settings => Label(r.set) = r.name

\* The bridge turns a write away only where its second table differs from the device's.
GapOfTable(r) ==
    /\ r.type = "set" /\ r.set[1] = "common"
    /\ r.set[2] \in {4, 6, 7} \/ (r.name = "LightColor" /\ r.val > 2)

\* The MQTT topics that the bridge subscribes to all have an event and a handler.
LEMMA MqttAsks ==
    \A r \in MqttRequests :
        /\ Sound(r) /\ r.type # "read"
        /\ r.type = "cmd" => r.name \in Dispatched \cap (ApiWired \cup ServiceWired)
        /\ ~Accepted("mqtt", r) => GapOfTable(r)
<1> SUFFICES ASSUME NEW r \in MqttRequests
             PROVE  /\ Sound(r) /\ r.type # "read"
                    /\ r.type = "cmd" => r.name \in Dispatched \cap (ApiWired \cup ServiceWired)
                    /\ ~Accepted("mqtt", r) => GapOfTable(r)
    OBVIOUS
<1>1. CASE r \in SetsOf("profile", DiscoveryProfileNumbers)
      <2> PICK n \in DiscoveryProfileNumbers : r = SetReq("profile", n[2], n[3], n[1])
          BY <1>1 DEF SetsOf
      <2>1. /\ r.type = "set" /\ r.name = n[1] /\ r.set = <<"profile", n[2]>>
            /\ r.val = n[3] /\ r.set[1] = "profile" /\ r.set[2] = n[2]
            BY DEF SetReq
      <2>2. Sound(r)
            BY <2>1, ProfileNumbers, NamesApart DEF Sound
      <2>3. Accepted("mqtt", r)
            BY <2>1, ProfileNumbers, ProfileTable DEF Accepted
      <2> QED BY <2>1, <2>2, <2>3
<1>2. CASE r \in SetsOf("common", DiscoveryCommonNumbers)
      <2> PICK n \in DiscoveryCommonNumbers : r = SetReq("common", n[2], n[3], n[1])
          BY <1>2 DEF SetsOf
      <2>1. /\ r.type = "set" /\ r.name = n[1] /\ r.set = <<"common", n[2]>>
            /\ r.val = n[3] /\ r.set[1] = "common" /\ r.set[2] = n[2]
            BY DEF SetReq
      <2>2. Sound(r)
            BY <2>1, CommonNumbers, NamesApart DEF Sound
      <2>3. ~Accepted("mqtt", r) => GapOfTable(r)
            BY <2>1, CommonNumbers DEF Accepted, GapOfTable
      <2> QED BY <2>1, <2>2, <2>3
<1>3. CASE r \in {CmdReq(c) : c \in Subscribed}
      <2>1. r.type = "cmd" /\ r.val = 0 /\ r.name \in Subscribed
            BY <1>3 DEF CmdReq
      <2>2. Sound(r) /\ Accepted("mqtt", r)
            BY <2>1, NamesApart DEF Sound, Accepted
      <2>3. r.name \in Dispatched \cap (ApiWired \cup ServiceWired)
            BY <2>1 DEF Dispatched, Subscribed, ApiWired
      <2> QED BY <2>1, <2>2, <2>3
<1> QED BY <1>1, <1>2, <1>3 DEF MqttRequests

\* The REST routes take any id: one that is no setting has no label.
LEMMA RestAsks ==
    \A r \in RestRequests :
        /\ Sound(r)
        /\ ~Accepted("rest", r) => GapOfTable(r) \/ r.name = "none"
<1> SUFFICES ASSUME NEW r \in RestRequests
             PROVE  Sound(r) /\ (~Accepted("rest", r) => GapOfTable(r) \/ r.name = "none")
    OBVIOUS
<1>1. ASSUME NEW i \in 0 .. 13,
             r = SetReq("profile", i, 1, IF i \in Ids("profile") THEN ProfileSettings[i] ELSE "none")
      PROVE  Sound(r) /\ (~Accepted("rest", r) => r.name = "none")
      <2>1. /\ r.type = "set" /\ r.set = <<"profile", i>> /\ r.val = 1
            /\ r.name = (IF i \in Ids("profile") THEN ProfileSettings[i] ELSE "none")
            /\ r.set[1] = "profile" /\ r.set[2] = i
            BY <1>1 DEF SetReq
      <2>2. r.set \in Settings => Label(r.set) = r.name
            BY <2>1, SettingsAre, LabelIs
      <2>3. r.name \notin ReadNames
            BY <2>1, IdsAre, ProfileTable, NamesApart
      <2>4. i \in Ids("profile") => Accepted("rest", r)
            BY <2>1, IdsAre, ProfileTable, RangesAre DEF Accepted
      <2> QED BY <2>1, <2>2, <2>3, <2>4 DEF Sound
<1>2. ASSUME NEW i \in 0 .. 7,
             r = SetReq("common", i, 1, IF i \in Ids("common") THEN CommonSettings[i] ELSE "none")
      PROVE  Sound(r) /\ (~Accepted("rest", r) => GapOfTable(r) \/ r.name = "none")
      <2>1. /\ r.type = "set" /\ r.set = <<"common", i>> /\ r.val = 1
            /\ r.name = (IF i \in Ids("common") THEN CommonSettings[i] ELSE "none")
            /\ r.set[1] = "common" /\ r.set[2] = i
            BY <1>2 DEF SetReq
      <2>2. r.set \in Settings => Label(r.set) = r.name
            BY <2>1, SettingsAre, LabelIs
      <2>3. r.name \notin ReadNames
            BY <2>1, IdsAre, CommonTable, NamesApart
      <2>4. i \in 0 .. 3 => Accepted("rest", r)
            BY <2>1, RangesAre DEF Accepted
      <2>5. i \in {4, 6, 7} => GapOfTable(r)
            BY <2>1 DEF GapOfTable
      <2>6. i = 5 => r.name = "none"
            BY <2>1, IdsAre
      <2> QED BY <2>1, <2>2, <2>3, <2>4, <2>5, <2>6 DEF Sound
<1>3. ASSUME NEW c \in RestCommands \cup AlbaCommands, r = CmdReq(c)
      PROVE  Sound(r) /\ Accepted("rest", r)
      <2>1. RestCommands \subseteq Subscribed
            BY DEF RestCommands, Subscribed, Announced, DiscoveryToggles,
                   DiscoveryMaintenance, DiscoveryCalibration, Descaling, LidOffsets
      <2> QED BY <1>3, <2>1, NamesApart DEF CmdReq, Sound, Accepted
<1>4. ASSUME NEW c \in RestReads, r = ReadReq(c)
      PROVE  Sound(r) /\ Accepted("rest", r)
      BY <1>4 DEF ReadReq, Sound, Accepted
<1> QED BY <1>1, <1>2, <1>3, <1>4 DEF RestRequests

\* What the integration offers for the device at hand, its client can do.
LEMMA HacsAsks ==
    ASSUME InstallOK, install = "hacs"
    PROVE  \A r \in HacsOffered : Sound(r) /\ r.type # "read" /\ Supported(r)
<1> SUFFICES ASSUME NEW r \in HacsOffered
             PROVE  Sound(r) /\ r.type # "read" /\ Supported(r)
    OBVIOUS
<1>0. /\ kind \in {"mera", "alba"}
      /\ kind = "alba" => model \in {"unknown", "alba"}
      /\ kind = "mera" => model \in {"unknown", "mera_comfort"}
      BY DEF InstallOK
<1>1. ASSUME NEW table \in NumberTables(model, kind), r \in SetsOf(table, Numbers(table))
      PROVE  Sound(r) /\ r.type # "read" /\ Supported(r)
      <2>1. /\ table \in Tables
            /\ table \in {"profile", "common"} => kind = "mera"
            /\ table = "active" => kind = "alba"
            BY <1>0 DEF NumberTables, Tables
      <2> PICK n \in Numbers(table) : r = SetReq(table, n[2], n[3], n[1])
          BY <1>1 DEF SetsOf
      <2>2. /\ r.type = "set" /\ r.name = n[1] /\ r.set = <<table, n[2]>>
            /\ r.val = n[3] /\ r.set[1] = table /\ r.set[2] = n[2]
            BY DEF SetReq
      <2>3. CASE table = "profile"
            <3>1. n \in DiscoveryProfileNumbers
                  BY <2>3 DEF Numbers, PROFILE_NUMBERS
            <3>2. Sound(r)
                  BY <2>2, <2>3, <3>1, ProfileNumbers, NamesApart DEF Sound
            <3> QED BY <2>1, <2>2, <2>3, <3>1, <3>2, ProfileNumbers DEF Supported, Has
      <2>4. CASE table = "common"
            <3>1. n \in DiscoveryCommonNumbers
                  BY <2>4, CommonNumbers DEF Numbers
            <3>2. Sound(r)
                  BY <2>2, <2>4, <3>1, CommonNumbers, NamesApart DEF Sound
            <3> QED BY <2>1, <2>2, <2>4, <3>1, <3>2, CommonNumbers DEF Supported, Has
      <2>5. CASE table = "active"
            <3>1. n[1] = n[2] /\ n[2] \in AlbaActive /\ n[3] \in Nat
                  BY <2>5 DEF Numbers, ALBA_ACTIVE_NUMBERS, AlbaActive
            <3>2. r.set \in Settings
                  BY <2>2, <2>5, <3>1, SettingsAre, IdsAre DEF Tables
            <3>3. Label(r.set) = n[2]
                  BY <2>2, <2>5, <3>2, LabelIs
            <3>4. Sound(r)
                  BY <2>2, <3>1, <3>3, NamesApart DEF Sound
            <3> QED BY <2>1, <2>2, <2>5, <3>2, <3>4 DEF Supported, Has
      <2> QED BY <2>1, <2>3, <2>4, <2>5 DEF Tables
<1>2. ASSUME NEW b \in Buttons(model), ButtonAvailable(b, kind, TRUE), r = CmdReq(b)
      PROVE  Sound(r) /\ r.type # "read" /\ Supported(r)
      <2>1. r.type = "cmd" /\ r.name = b /\ r.val = 0
            BY <1>2 DEF CmdReq
      <2>2. b \in Subscribed \cup AlbaCommands
            BY DEF Buttons, ButtonsAll, ButtonsMeraComfort, ButtonsSela, ButtonsAlba,
                   ALBA_COMMAND_BUTTONS, Subscribed, AlbaCommands, Announced,
                   DiscoveryToggles, DiscoveryMaintenance, DiscoveryCalibration,
                   Descaling, LidOffsets, LightModes
      <2>3. kind = "mera" => b \in MeraMethods
            <3>1. kind = "mera" => b \notin ButtonsAlba \cup ALBA_COMMAND_BUTTONS
                  BY <1>2 DEF ButtonAvailable
            <3>2. ButtonsAll \cup ButtonsMeraComfort \cup ButtonsSela \subseteq Subscribed
                  BY DEF ButtonsAll, ButtonsMeraComfort, ButtonsSela, Subscribed, Announced,
                         DiscoveryToggles, DiscoveryMaintenance, DiscoveryCalibration,
                         Descaling, LidOffsets, LightModes
            <3> QED BY <1>0, <3>1, <3>2 DEF Buttons, MeraMethods, Recognised
      <2>4. kind = "alba" => b \in AlbaMethods \cup (AlbaCommands \ AlbaMiscalled)
            <3>1. kind = "alba" => b \notin ButtonsMeraComfort \cup ButtonsSela
                  BY <1>2 DEF ButtonAvailable
            <3>2. kind = "alba" => b \in ButtonsAll \cup ButtonsAlba \cup ALBA_COMMAND_BUTTONS
                  BY <1>0, <3>1 DEF Buttons
            <3> QED BY <3>2 DEF ButtonsAll, ButtonsAlba, ALBA_COMMAND_BUTTONS, AlbaMethods,
                                AlbaCommands, AlbaMiscalled
      <2> QED BY <1>0, <2>1, <2>2, <2>3, <2>4, NamesApart DEF Sound, Supported
<1>3. CASE r \in UNION {SetsOf(table, Numbers(table)) : table \in NumberTables(model, kind)}
      <2>1. PICK table \in NumberTables(model, kind) : r \in SetsOf(table, Numbers(table))
            BY <1>3
      <2> QED BY <1>1, <2>1
<1>4. CASE r \in {CmdReq(c) : c \in {b \in Buttons(model) : ButtonAvailable(b, kind, TRUE)}}
      <2>1. PICK c \in Buttons(model) : ButtonAvailable(c, kind, TRUE) /\ r = CmdReq(c)
            BY <1>4
      <2> QED BY <1>2, <2>1
<1> QED BY <1>3, <1>4 DEF HacsOffered

-----------------------------------------------------------------------------
(* The pieces of a step have the right types *)

\* What a surface has to offer it can ask; both are requests.
LEMMA RequestsAre ==
    ASSUME NEW c \in Callers, InstallOK
    PROVE  /\ Requests(Surface(c)) \subseteq Offered(Surface(c))
           /\ Offered(Surface(c)) \subseteq Req
           /\ \A r \in Offered(Surface(c)) : Sound(r)
           /\ install = "hacs" <=> Surface(c) = "hacs"
           /\ Surface(c) \in {"mqtt", "rest", "hacs"}
<1>0. /\ install = "hacs" <=> Surface(c) = "hacs"
      /\ Surface(c) \in {"mqtt", "rest", "hacs"}
      BY DEF Surface, Bridge
<1>1. CASE Surface(c) = "mqtt"
      BY <1>0, <1>1, MqttAsks DEF Requests, Offered, Req
<1>2. CASE Surface(c) = "rest"
      BY <1>0, <1>2, RestAsks DEF Requests, Offered, Req
<1>3. CASE Surface(c) = "hacs"
      <2>1. Requests(Surface(c)) = HacsRequests /\ Offered(Surface(c)) = HacsOffered
            BY <1>3 DEF Requests, Offered
      <2>2. \A b \in Buttons(model) :
               ButtonAvailable(b, kind, sitting) => ButtonAvailable(b, kind, TRUE)
            BY DEF ButtonAvailable
      <2>3. HacsRequests \subseteq HacsOffered
            BY <2>2 DEF HacsRequests, HacsOffered
      <2>4. NumberTables(model, kind) \subseteq Tables
            BY DEF NumberTables, Tables
      <2>5. Buttons(model) \subseteq Buttons("unknown")
            BY DEF Buttons
      <2>6. HacsOffered \subseteq Req
            <3> SUFFICES ASSUME NEW r \in HacsOffered PROVE r \in Req
                OBVIOUS
            <3>1. CASE r \in UNION {SetsOf(table, Numbers(table)) :
                                      table \in NumberTables(model, kind)}
                  BY <2>4, <3>1 DEF Req
            <3>2. CASE r \in {CmdReq(b1) :
                                b1 \in {b \in Buttons(model) : ButtonAvailable(b, kind, TRUE)}}
                  BY <2>5, <3>2 DEF Req
            <3> QED BY <3>1, <3>2 DEF HacsOffered
      <2> QED BY <1>0, <1>3, <2>1, <2>3, <2>6, HacsAsks
<1> QED BY <1>0, <1>1, <1>2, <1>3

\* The lists of tables to read.
LEMMA ListsOfTables ==
    /\ \A t \in Tables : <<t>> \in Seq(Tables) /\ Head(<<t>>) = t /\ Tail(<<t>>) = <<>>
    /\ <<"profile", "common">> \in Seq(Tables) /\ Head(<<"profile", "common">>) = "profile"
    /\ \A q \in Seq(Tables) : q # <<>> => Head(q) \in Tables /\ Tail(q) \in Seq(Tables)
    /\ <<>> \in Seq(Tables)
    /\ \A r \in Req : TablesAsked(r) \in Seq(Tables)
    /\ InstallOK => TablesToRead \in Seq(Tables)
<1>1. /\ "profile" \in Tables /\ "common" \in Tables /\ "active" \in Tables
      BY DEF Tables
<1>2. /\ \A t \in Tables : <<t>> \in Seq(Tables) /\ Head(<<t>>) = t /\ Tail(<<t>>) = <<>>
      /\ <<"profile", "common">> \in Seq(Tables) /\ Head(<<"profile", "common">>) = "profile"
      /\ <<>> \in Seq(Tables)
      BY <1>1
<1>3. \A q \in Seq(Tables) : q # <<>> => Head(q) \in Tables /\ Tail(q) \in Seq(Tables)
      BY HeadTailProperties
<1>4. \A r \in Req : TablesAsked(r) \in Seq(Tables)
      BY <1>1, <1>2 DEF TablesAsked
<1>5. InstallOK => TablesToRead \in Seq(Tables)
      <2>1. CASE install = "on-demand"
            BY <2>1, <1>1, <1>2 DEF TablesToRead
      <2>2. CASE install = "persistent"
            BY <2>2, <1>1, <1>2 DEF TablesToRead
      <2>3. CASE install = "hacs"
            <3> DEFINE one == IF known["profile"] THEN <<>> ELSE <<"profile">>
                       two == IF kind = "alba" THEN <<"active">>
                              ELSE IF known["common"] THEN <<>> ELSE <<"common">>
            <3>1. one \in Seq(Tables) /\ two \in Seq(Tables)
                  BY <1>1, <1>2
            <3>2. TablesToRead = one \o two
                  BY <2>3 DEF TablesToRead
            <3> HIDE DEF one, two
            <3> QED BY <3>1, <3>2, ConcatProperties
      <2> QED BY <2>1, <2>2, <2>3 DEF InstallOK
<1> QED BY <1>2, <1>3, <1>4, <1>5

\* What a read returns and how it is merged into the cache.
LEMMA DictsAre ==
    ASSUME TypeInv
    PROVE  /\ \A table \in Tables : [s \in ReadIds(table) |-> dev[s]] \in Dicts
           /\ \A table \in Tables : \A dict \in Dicts :
                 /\ Merged(table, dict) \in [Settings -> Nat \cup {NoVal}]
                 /\ \A s \in DOMAIN dict : s \in Settings /\ dict[s] \in Nat
           /\ \A table \in Tables :
                 /\ Merged(table, <<>>) \in [Settings -> Nat \cup {NoVal}]
                 /\ \A s \in Settings : Merged(table, <<>>)[s] =
                       IF s[1] = table THEN NoVal ELSE cache[s]
<1> USE DEF TypeInv
<1>1. ASSUME NEW table \in Tables
      PROVE  [s \in ReadIds(table) |-> dev[s]] \in Dicts
      <2>1. ReadIds(table) \in SUBSET Settings
            BY ReadIdsAre
      <2>2. [s \in ReadIds(table) |-> dev[s]] \in [ReadIds(table) -> Nat]
            BY <2>1
      <2> QED BY <2>1, <2>2 DEF Dicts
<1>2. ASSUME NEW table \in Tables, NEW dict \in Dicts
      PROVE  /\ Merged(table, dict) \in [Settings -> Nat \cup {NoVal}]
             /\ \A s \in DOMAIN dict : s \in Settings /\ dict[s] \in Nat
      <2>1. PICK D \in SUBSET Settings : dict \in [D -> Nat]
            BY DEF Dicts
      <2> QED BY <2>1 DEF Merged
<1>3. ASSUME NEW table \in Tables
      PROVE  /\ Merged(table, <<>>) \in [Settings -> Nat \cup {NoVal}]
             /\ \A s \in Settings : Merged(table, <<>>)[s] =
                   IF s[1] = table THEN NoVal ELSE cache[s]
      <2>1. DOMAIN <<>> = {}
            OBVIOUS
      <2> QED BY <2>1 DEF Merged
<1> QED BY <1>1, <1>2, <1>3

\* What the entities show.
LEMMA ShownIs ==
    ASSUME TypeInv
    PROVE  /\ Shown \in [Labels -> Nat \cup {NoVal}]
           /\ \A s \in Settings :
                 \/ Shown[Label(s)] = NoVal
                 \/ known[s[1]] /\ Shown[Label(s)] = cache[s]
<1> DEFINE from(l) == {s \in Settings : /\ s[2] \in DOMAIN HacsKeys(s[1])
                                        /\ HacsKeys(s[1])[s[2]] = l
                                        /\ known[s[1]]}
<1>1. Shown = [l \in Labels |-> IF from(l) = {} THEN NoVal
                                ELSE cache[CHOOSE s \in from(l) : TRUE]]
      BY DEF Shown
<1>2. \A l : from(l) # {} => (CHOOSE s \in from(l) : TRUE) \in from(l)
      OBVIOUS
<1>3. \A l : from(l) \subseteq Settings
      OBVIOUS
<1>4. ASSUME NEW s \in Settings, s[2] \in DOMAIN HacsKeys(s[1])
      PROVE  HacsKeys(s[1])[s[2]] = Label(s)
      BY <1>4, LabelIs, SettingsAre, ProfileTable, IdsAre DEF HacsKeys, ProfileRead, Tables
<1>5. ASSUME NEW s \in Settings, from(Label(s)) # {}
      PROVE  (CHOOSE u \in from(Label(s)) : TRUE) = s /\ known[s[1]]
      <2> DEFINE u == CHOOSE u \in from(Label(s)) : TRUE
      <2>1. u \in from(Label(s))
            BY <1>2, <1>5
      <2>2. u \in Settings /\ Label(u) = Label(s) /\ known[u[1]]
            BY <2>1, <1>4
      <2>3. u = s
            BY <2>2, LabelInjective
      <2> QED BY <2>2, <2>3
<1> HIDE DEF from
<1>6. Shown \in [Labels -> Nat \cup {NoVal}]
      BY <1>1, <1>2, <1>3 DEF TypeInv
<1>7. \A s \in Settings : \/ Shown[Label(s)] = NoVal
                          \/ known[s[1]] /\ Shown[Label(s)] = cache[s]
      BY <1>1, <1>5, LabelIs
<1> QED BY <1>6, <1>7

\* Marking the tables read too early changes nothing else of a task.
LEMMA OvertakenIs ==
    ASSUME TypeInv, NEW s \in Settings
    PROVE  /\ Overtaken(s, task) \in [Tasks -> TaskType]
           /\ \A t \in Tasks :
                 LET k == Overtaken(s, task)[t] IN
                 /\ k.pc = task[t].pc /\ k.req = task[t].req /\ k.todo = task[t].todo
                 /\ k.got = task[t].got /\ k.out = task[t].out /\ k.did = task[t].did
                 /\ task[t].dirty \subseteq k.dirty
                 /\ task[t].got # <<>> /\ task[t].got[1] = s[1] => s \in k.dirty
<1> DEFINE k(t) == IF task[t].got # <<>> /\ task[t].got[1] = s[1]
                   THEN [task[t] EXCEPT !.dirty = @ \cup {s}] ELSE task[t]
<1>1. Overtaken(s, task) = [t \in Tasks |-> k(t)]
      BY DEF Overtaken
<1>2. ASSUME NEW t \in Tasks
      PROVE  /\ k(t) \in TaskType
             /\ k(t).pc = task[t].pc /\ k(t).req = task[t].req /\ k(t).todo = task[t].todo
             /\ k(t).got = task[t].got /\ k(t).out = task[t].out /\ k(t).did = task[t].did
             /\ task[t].dirty \subseteq k(t).dirty
             /\ task[t].got # <<>> /\ task[t].got[1] = s[1] => s \in k(t).dirty
      <2>1. task[t] \in TaskType
            BY DEF TypeInv
      <2>2. [task[t] EXCEPT !.dirty = @ \cup {s}]
               = [task[t] EXCEPT !.dirty = task[t].dirty \cup {s}]
            OBVIOUS
      <2> DEFINE d == task[t].dirty \cup {s}
      <2>3. d \in SUBSET Settings
            BY <2>1 DEF TaskType
      <2> QED BY <2>1, <2>2, <2>3 DEF TaskType
<1> HIDE DEF k
<1> QED BY <1>1, <1>2

\* The values that can be asked for are numbers.
LEMMA ValuesAre == \A r \in Req : r.val \in Nat
<1> SUFFICES ASSUME NEW r \in Req PROVE r.val \in Nat
    OBVIOUS
<1>1. CASE r = NoReq
      BY <1>1 DEF NoReq
<1>2. CASE r \in MqttRequests \cup RestRequests
      BY <1>2, MqttAsks, RestAsks DEF Sound
<1>3. CASE r \in UNION {SetsOf(table, Numbers(table)) : table \in Tables}
      <2>0. PICK table \in Tables : r \in SetsOf(table, Numbers(table))
            BY <1>3
      <2>1. PICK n \in Numbers(table) : r = SetReq(table, n[2], n[3], n[1])
            BY <2>0 DEF SetsOf
      <2>2. n[3] \in Nat
            <3>1. CASE table = "profile"
                  BY <3>1, ProfileNumbers DEF Numbers, PROFILE_NUMBERS
            <3>2. CASE table = "common"
                  BY <3>2, CommonNumbers DEF Numbers
            <3>3. CASE table = "active"
                  BY <3>3 DEF Numbers, ALBA_ACTIVE_NUMBERS
            <3> QED BY <3>1, <3>2, <3>3 DEF Tables
      <2> QED BY <2>1, <2>2 DEF SetReq
<1>4. CASE r \in {CmdReq(b) : b \in Buttons("unknown")}
      BY <1>4 DEF CmdReq
<1> QED BY <1>1, <1>2, <1>3, <1>4 DEF Req

-----------------------------------------------------------------------------
(* Types and the installation *)

\* The idle task is a task.
LEMMA IdleType == Idle \in TaskType
<1>1. NoReq \in Req /\ <<>> \in Seq(Tables) /\ "" \in Outs
      BY ListsOfTables DEF Req, Outs
<1> QED BY <1>1 DEF Idle, TaskType, Deeds

\* The initial state has the types.
LEMMA TypeInit == Init => TypeInv
<1> SUFFICES ASSUME Init PROVE TypeInv
    OBVIOUS
<1>1. InstallOK
      BY ControlsAssumption DEF Init, InstallOK
<1>2. Idle \in TaskType
      BY IdleType
<1>3. task \in [Tasks -> TaskType]
      BY <1>2 DEF Init
<1>4. /\ dev \in [Settings -> Nat] /\ cache \in [Settings -> Nat \cup {NoVal}]
      /\ known \in [Tables -> BOOLEAN] /\ view \in [Labels -> Nat \cup {NoVal}]
      BY DEF Init
<1> QED BY <1>1, <1>3, <1>4 DEF Init, TypeInv

\* A task may take any place, list and result; the reset one has the request kept.
LEMMA TaskTypes ==
    ASSUME NEW k \in TaskType
    PROVE  /\ Idle \in TaskType
           /\ \A q \in Seq(Tables) : [Idle EXCEPT !.pc = "run", !.todo = q] \in TaskType
           /\ [Idle EXCEPT !.pc = "polling"] \in TaskType
           /\ \A r \in Req : /\ [Idle EXCEPT !.req = r, !.pc = "wait"] \in TaskType
                             /\ \A o \in Outs :
                                   [Idle EXCEPT !.req = r, !.pc = "ended", !.out = o] \in TaskType
           /\ \A o \in Outs : [k EXCEPT !.pc = "ended", !.out = o] \in TaskType
           /\ \A q \in Seq(Tables) : /\ [k EXCEPT !.pc = "run", !.todo = q] \in TaskType
                                     /\ [k EXCEPT !.todo = q, !.got = <<>>, !.dirty = {}] \in TaskType
           /\ \A g \in Tables \X Dicts : [k EXCEPT !.dirty = {}, !.got = g] \in TaskType
           /\ k.req \in Req /\ k.todo \in Seq(Tables) /\ k.out \in Outs
           /\ k.got # <<>> => k.got[1] \in Tables /\ k.got[2] \in Dicts
<1>1. /\ Idle \in TaskType
      /\ k.req \in Req /\ k.todo \in Seq(Tables) /\ k.out \in Outs
      BY IdleType DEF TaskType
<1>2. /\ [Idle EXCEPT !.pc = "polling"] \in TaskType
      /\ \A q \in Seq(Tables) : [Idle EXCEPT !.pc = "run", !.todo = q] \in TaskType
      BY <1>1 DEF TaskType
<1>3. \A r \in Req : /\ [Idle EXCEPT !.req = r, !.pc = "wait"] \in TaskType
                     /\ \A o \in Outs :
                           [Idle EXCEPT !.req = r, !.pc = "ended", !.out = o] \in TaskType
      BY <1>1 DEF TaskType
<1>4. \A o \in Outs : [k EXCEPT !.pc = "ended", !.out = o] \in TaskType
      BY DEF TaskType
<1>5. \A q \in Seq(Tables) :
         /\ [k EXCEPT !.pc = "run", !.todo = q] \in TaskType
         /\ [k EXCEPT !.todo = q, !.got = <<>>, !.dirty = {}] \in TaskType
      BY DEF TaskType
<1>6. \A g \in Tables \X Dicts : [k EXCEPT !.dirty = {}, !.got = g] \in TaskType
      BY DEF TaskType
<1>7. k.got # <<>> => k.got[1] \in Tables /\ k.got[2] \in Dicts
      BY DEF TaskType
<1> QED BY <1>1, <1>2, <1>3, <1>4, <1>5, <1>6, <1>7

\* An exception or an answer ends a request.
LEMMA EndsIs ==
    ASSUME TypeInv, NEW c \in Callers, NEW o \in Outs, Ends(c, o)
    PROVE  /\ task' = [task EXCEPT ![c] = [task[c] EXCEPT !.pc = "ended", !.out = o]]
           /\ task' \in [Tasks -> TaskType]
           /\ mqtt' \in {"up", "dead", "off"} /\ (mqtt' = "up" => mqtt = "up")
           /\ lock' = IF lock = c THEN Free ELSE lock
           /\ lock' \in Tasks \cup {Free}
<1>1. c \in Tasks
      BY DEF Tasks
<1>2. task' = [task EXCEPT ![c] = [task[c] EXCEPT !.pc = "ended", !.out = o]]
      BY <1>1 DEF Ends, TypeInv
<1>3. [task[c] EXCEPT !.pc = "ended", !.out = o] \in TaskType
      BY <1>1, TaskTypes DEF TypeInv
<1>4. task' \in [Tasks -> TaskType]
      BY <1>1, <1>2, <1>3 DEF TypeInv
<1> QED BY <1>2, <1>4 DEF TypeInv, Ends

\* The steps of a caller: asking, getting a session, being answered.
LEMMA CallerTypes ==
    ASSUME TypeInv, NEW c \in Callers,
           Issue(c) \/ Start(c) \/ Command(c) \/ Unsupported(c) \/ ReadSensor(c)
             \/ ReadState(c) \/ ReadFails(c) \/ Return(c)
    PROVE  TypeInv'
<1>0. /\ c \in Tasks /\ task[c] \in TaskType /\ Idle \in TaskType
      /\ task[c].req \in Req
      BY IdleType, TaskTypes DEF Tasks, TypeInv
<1>1. CASE Issue(c)
      <2>1. \E k \in TaskType : task' = [task EXCEPT ![c] = k]
            <3> PICK r \in Requests(Surface(c)) :
                    task' = [task EXCEPT ![c] =
                      IF ~Routed(c, r)
                      THEN [Idle EXCEPT !.req = r, !.pc = "ended", !.out = "ignored"]
                      ELSE IF ~Accepted(Surface(c), r)
                      THEN [Idle EXCEPT !.req = r, !.pc = "ended", !.out = "refused"]
                      ELSE IF FromCache(r)
                      THEN [Idle EXCEPT !.req = r, !.pc = "ended", !.out = "done"]
                      ELSE [Idle EXCEPT !.req = r, !.pc = "wait"]]
                BY <1>1 DEF Issue
            <3>1. r \in Req
                  BY RequestsAre DEF TypeInv
            <3>2. /\ "ignored" \in Outs /\ "refused" \in Outs /\ "done" \in Outs
                  BY DEF Outs
            <3>3. /\ [Idle EXCEPT !.req = r, !.pc = "ended", !.out = "ignored"] \in TaskType
                  /\ [Idle EXCEPT !.req = r, !.pc = "ended", !.out = "refused"] \in TaskType
                  /\ [Idle EXCEPT !.req = r, !.pc = "ended", !.out = "done"] \in TaskType
                  /\ [Idle EXCEPT !.req = r, !.pc = "wait"] \in TaskType
                  BY <1>0, <3>1, <3>2, TaskTypes
            <3> QED BY <3>3
      <2>2. task' \in [Tasks -> TaskType]
            BY <2>1 DEF TypeInv
      <2> QED BY <1>1, <2>2 DEF Issue, TypeInv, InstallOK, fixed
<1>2. CASE Start(c)
      <2>1. CASE Ends(c, "failed") \/ Ends(c, "offline")
            <3>1. "failed" \in Outs /\ "offline" \in Outs
                  BY DEF Outs
            <3>2. /\ task' \in [Tasks -> TaskType] /\ mqtt' \in {"up", "dead", "off"}
                  /\ lock' \in Tasks \cup {Free}
                  BY <2>1, <3>1, EndsIs
            <3> QED BY <1>2, <3>2 DEF Start, TypeInv, InstallOK, fixed
      <2>2. CASE /\ task' = [task EXCEPT ![c].pc = "run", ![c].todo = TablesAsked(task[c].req)]
                 /\ UNCHANGED mqtt /\ (lock' = c \/ UNCHANGED lock)
            <3>1. TablesAsked(task[c].req) \in Seq(Tables)
                  BY <1>0, ListsOfTables
            <3>2. [task[c] EXCEPT !.pc = "run", !.todo = TablesAsked(task[c].req)] \in TaskType
                  BY <1>0, <3>1, TaskTypes
            <3>3. task' = [task EXCEPT ![c] =
                             [task[c] EXCEPT !.pc = "run", !.todo = TablesAsked(task[c].req)]]
                  BY <1>0, <2>2 DEF TypeInv
            <3>4. task' \in [Tasks -> TaskType]
                  BY <3>2, <3>3 DEF TypeInv
            <3> QED BY <1>0, <1>2, <2>2, <3>4 DEF Start, TypeInv, InstallOK, fixed
      <2> QED BY <1>2, <2>1, <2>2 DEF Start
<1>3. CASE Command(c)
      <2>1. "failed" \in Outs /\ "done" \in Outs /\ task[c].req.name \in Deeds
            BY <1>0 DEF Outs, Deeds
      <2>2. [task[c] EXCEPT !.pc = "ended", !.out = "done", !.did = task[c].req.name] \in TaskType
            BY <1>0, <2>1 DEF TaskType
      <2>3. task' \in [Tasks -> TaskType] /\ lock' \in Tasks \cup {Free}
            /\ mqtt' \in {"up", "dead", "off"}
            <3>1. CASE Ends(c, "failed")
                  BY <2>1, <3>1, EndsIs
            <3>2. CASE /\ task' = [task EXCEPT ![c].pc = "ended", ![c].out = "done",
                                              ![c].did = task[c].req.name]
                       /\ lock' = (IF lock = c THEN Free ELSE lock) /\ UNCHANGED mqtt
                  <4>1. task' = [task EXCEPT ![c] = [task[c] EXCEPT !.pc = "ended",
                                    !.out = "done", !.did = task[c].req.name]]
                        BY <1>0, <3>2 DEF TypeInv
                  <4> QED BY <2>2, <3>2, <4>1 DEF TypeInv
            <3> QED BY <1>3, <3>1, <3>2 DEF Command
      <2> QED BY <1>3, <2>3 DEF Command, TypeInv, InstallOK, fixed
<1>4. CASE Unsupported(c) \/ ReadSensor(c) \/ ReadState(c)
      <2>1. "unsupported" \in Outs /\ "done" \in Outs
            BY DEF Outs
      <2>2. Ends(c, "unsupported") \/ Ends(c, "done")
            BY <1>4 DEF Unsupported, ReadSensor, ReadState
      <2>3. /\ task' \in [Tasks -> TaskType] /\ mqtt' \in {"up", "dead", "off"}
            /\ lock' \in Tasks \cup {Free}
            BY <2>1, <2>2, EndsIs
      <2> QED BY <1>4, <2>3 DEF Unsupported, ReadSensor, ReadState, TypeInv, InstallOK, fixed
<1>5. CASE ReadFails(c)
      <2>1. "failed" \in Outs
            BY DEF Outs
      <2>2. task' \in [Tasks -> TaskType]
            BY <1>0, <1>5, <2>1, TaskTypes DEF ReadFails, TypeInv
      <2> QED BY <1>5, <2>2 DEF ReadFails, TypeInv, InstallOK, fixed
<1>6. CASE Return(c)
      <2>1. task' \in [Tasks -> TaskType]
            BY <1>0, <1>6 DEF Return, TypeInv
      <2> QED BY <1>6, <2>1 DEF Return, TypeInv, InstallOK, fixed
<1> QED BY <1>1, <1>2, <1>3, <1>4, <1>5, <1>6

\* What a write makes of the device, the caches and the tasks.
WriteEffect(c, s, val, outcome) ==
    /\ dev' = IF outcome = "failed" THEN dev ELSE [dev EXCEPT ![s] = val]
    /\ unsure' = IF outcome = "ok" THEN unsure \ {s}
                 ELSE IF outcome = "lost" THEN unsure \cup {s} ELSE unsure
    /\ StoreWritten(s, val, outcome)
    /\ lock' = IF lock = c THEN Free ELSE lock
    /\ \A t \in Tasks :
          /\ t # c => /\ task'[t].pc = task[t].pc /\ task'[t].out = task[t].out
                      /\ task'[t].did = task[t].did
          /\ task'[t].req = task[t].req /\ task'[t].todo = task[t].todo
          /\ task'[t].got = task[t].got /\ task[t].dirty \subseteq task'[t].dirty
          /\ outcome # "failed" /\ task[t].got # <<>> /\ task[t].got[1] = s[1]
               => s \in task'[t].dirty
    /\ task'[c].pc = "ended" /\ task'[c].did = Label(s)
    /\ task'[c].out = IF outcome = "ok" THEN "done" ELSE "failed"

\* Write has that effect, on a setting that the device has.
LEMMA WriteIs ==
    ASSUME TypeInv, NEW c \in Callers, Write(c)
    PROVE  /\ task[c].req.set \in Settings /\ Has(task[c].req.set)
           /\ task[c].req.val \in Nat /\ task[c].req.set[1] \in Tables
           /\ \E outcome \in {"ok", "lost", "failed"} :
                 WriteEffect(c, task[c].req.set, task[c].req.val, outcome)
           /\ task' \in [Tasks -> TaskType]
<1> DEFINE s == task[c].req.set
           val == task[c].req.val
<1>0. /\ c \in Tasks /\ task[c] \in TaskType /\ task[c].req \in Req
      BY TaskTypes DEF Tasks, TypeInv
<1>1. s \in Settings /\ Has(s)
      BY DEF Write, Supported
<1>2. val \in Nat /\ s[1] \in Tasks \cup Tables /\ s[1] \in Tables /\ Label(s) \in Labels
      BY <1>0, <1>1, ValuesAre, SettingsAre, LabelIs
<1>3. PICK outcome \in {"ok", "lost", "failed"} :
          /\ dev' = IF outcome = "failed" THEN dev ELSE [dev EXCEPT ![s] = val]
          /\ unsure' = IF outcome = "ok" THEN unsure \ {s}
                       ELSE IF outcome = "lost" THEN unsure \cup {s} ELSE unsure
          /\ StoreWritten(s, val, outcome)
          /\ lock' = IF lock = c THEN Free ELSE lock
          /\ task' = [(IF outcome = "failed" THEN task ELSE Overtaken(s, task)) EXCEPT
                        ![c].pc = "ended", ![c].did = Label(s),
                        ![c].out = IF outcome = "ok" THEN "done" ELSE "failed"]
      BY DEF Write
<1> DEFINE tasks == IF outcome = "failed" THEN task ELSE Overtaken(s, task)
           k == [tasks[c] EXCEPT !.pc = "ended", !.did = Label(s),
                                 !.out = IF outcome = "ok" THEN "done" ELSE "failed"]
<1>4. /\ tasks \in [Tasks -> TaskType]
      /\ \A t \in Tasks :
            /\ tasks[t].pc = task[t].pc /\ tasks[t].req = task[t].req
            /\ tasks[t].todo = task[t].todo /\ tasks[t].got = task[t].got
            /\ tasks[t].out = task[t].out /\ tasks[t].did = task[t].did
            /\ task[t].dirty \subseteq tasks[t].dirty
            /\ outcome # "failed" /\ task[t].got # <<>> /\ task[t].got[1] = s[1]
                  => s \in tasks[t].dirty
      <2>1. CASE outcome = "failed"
            BY <2>1 DEF TypeInv
      <2>2. CASE outcome # "failed"
            <3>1. tasks = Overtaken(s, task)
                  BY <2>2
            <3> HIDE DEF s, tasks
            <3> QED BY <1>1, <3>1, OvertakenIs
      <2> QED BY <2>1, <2>2
<1> HIDE DEF s, val, tasks
<1>5. k \in TaskType
      <2>1. tasks[c] \in TaskType /\ Label(s) \in Deeds
            BY <1>0, <1>2, <1>4 DEF Deeds
      <2>2. (IF outcome = "ok" THEN "done" ELSE "failed") \in Outs
            BY DEF Outs
      <2> QED BY <2>1, <2>2 DEF TaskType
<1>6. task' = [tasks EXCEPT ![c] = k]
      BY <1>0, <1>3, <1>4 DEF tasks
<1>7. task' \in [Tasks -> TaskType]
      BY <1>4, <1>5, <1>6
<1>8. /\ k.pc = "ended" /\ k.did = Label(s)
      /\ k.out = IF outcome = "ok" THEN "done" ELSE "failed"
      /\ k.req = tasks[c].req /\ k.todo = tasks[c].todo /\ k.got = tasks[c].got
      /\ k.dirty = tasks[c].dirty
      BY <1>0, <1>4 DEF TaskType
<1> HIDE DEF k
<1>9. \A t \in Tasks : task'[t] = IF t = c THEN k ELSE tasks[t]
      BY <1>4, <1>6
<1>10. /\ \A t \in Tasks :
             /\ t # c => /\ task'[t].pc = task[t].pc /\ task'[t].out = task[t].out
                         /\ task'[t].did = task[t].did
             /\ task'[t].req = task[t].req /\ task'[t].todo = task[t].todo
             /\ task'[t].got = task[t].got /\ task[t].dirty \subseteq task'[t].dirty
             /\ outcome # "failed" /\ task[t].got # <<>> /\ task[t].got[1] = s[1]
                  => s \in task'[t].dirty
       /\ task'[c].pc = "ended" /\ task'[c].did = Label(s)
       /\ task'[c].out = IF outcome = "ok" THEN "done" ELSE "failed"
       BY <1>0, <1>4, <1>8, <1>9
<1>11. WriteEffect(c, s, val, outcome)
       BY <1>3, <1>10 DEF WriteEffect
<1> QED BY <1>1, <1>2, <1>7, <1>11 DEF s, val

\* A write keeps the types.
LEMMA WriteTypes == ASSUME TypeInv, NEW c \in Callers, Write(c) PROVE TypeInv'
<1> DEFINE s == task[c].req.set
           val == task[c].req.val
<1>0. /\ s \in Settings /\ val \in Nat /\ s[1] \in Tables
      /\ \E outcome \in {"ok", "lost", "failed"} : WriteEffect(c, s, val, outcome)
      /\ task' \in [Tasks -> TaskType]
      BY WriteIs
<1>1. UNCHANGED <<fixed, mqtt>>
      BY DEF Write
<1> HIDE DEF s, val
<1> PICK outcome \in {"ok", "lost", "failed"} : WriteEffect(c, s, val, outcome)
    BY <1>0
<1>2. /\ dev' \in [Settings -> Nat] /\ unsure' \subseteq Settings
      /\ lock' \in Tasks \cup {Free}
      BY <1>0 DEF WriteEffect, TypeInv
<1>3. /\ cache' \in [Settings -> Nat \cup {NoVal}] /\ known' \in [Tables -> BOOLEAN]
      /\ view' \in [Labels -> Nat \cup {NoVal}]
      <2>1. StoreWritten(s, val, outcome)
            BY DEF WriteEffect
      <2>2. CASE ~Confirmed(outcome)
            BY <2>1, <2>2 DEF StoreWritten, TypeInv
      <2>3. CASE Confirmed(outcome) /\ Bridge
            <3>1. /\ cache' = [cache EXCEPT ![s] = val]
                  /\ known' = [known EXCEPT ![s[1]] = TRUE]
                  /\ view' = IF mqtt = "up" THEN Published(s[1], cache') ELSE view
                  BY <2>1, <2>3 DEF StoreWritten
            <3>2. cache' \in [Settings -> Nat \cup {NoVal}] /\ known' \in [Tables -> BOOLEAN]
                  BY <1>0, <3>1 DEF TypeInv
            <3>3. Published(s[1], cache') \in [Labels -> Nat \cup {NoVal}]
                  BY <1>0, <3>2, PublishedIs DEF TypeInv
            <3> QED BY <3>1, <3>2, <3>3 DEF TypeInv
      <2>4. CASE Confirmed(outcome) /\ ~Bridge
            BY <1>0, <2>1, <2>4 DEF StoreWritten, TypeInv
      <2> QED BY <2>2, <2>3, <2>4
<1> QED BY <1>0, <1>1, <1>2, <1>3 DEF TypeInv, InstallOK, fixed

\* What keeping a table makes of the caches and the tasks.
KeepEffect(t, table, dict) ==
    /\ table \in Tables /\ dict \in Dicts
    /\ cache' = Merged(table, dict)
    /\ known' = [known EXCEPT ![table] = TRUE]
    /\ unsure' = (unsure \ In(table)) \cup task[t].dirty
    /\ view' = IF Bridge /\ mqtt = "up" /\ (t = "poll" \/ EndsWithTable(t))
               THEN Published(table, cache') ELSE view
    /\ \A u \in Tasks : u # t => task'[u] = task[u]
    /\ task'[t].req = task[t].req /\ task'[t].got = <<>>
    /\ EndsWithTable(t) => /\ task'[t].pc = "ended" /\ task'[t].out = "done"
                           /\ task'[t].did = "" /\ task'[t].todo = <<>>
    /\ ~EndsWithTable(t) => /\ task'[t].pc = "run" /\ task'[t].out = task[t].out
                            /\ task'[t].did = task[t].did
                            /\ task'[t].todo = Tail(task[t].todo)

\* Keep has that effect, for any task.
LEMMA KeepIs ==
    ASSUME TypeInv, NEW t \in Tasks, Keep(t), task[t].todo # <<>>
    PROVE  /\ KeepEffect(t, task[t].got[1], task[t].got[2])
           /\ task' \in [Tasks -> TaskType]
           /\ cache' \in [Settings -> Nat \cup {NoVal}]
           /\ view' \in [Labels -> Nat \cup {NoVal}]
<1> DEFINE table == task[t].got[1]
           dict == task[t].got[2]
           ended == [Idle EXCEPT !.req = task[t].req, !.pc = "ended", !.out = "done"]
           next == [task[t] EXCEPT !.todo = Tail(task[t].todo), !.got = <<>>, !.dirty = {}]
<1>0. /\ task[t] \in TaskType /\ task[t].req \in Req /\ "done" \in Outs
      /\ table \in Tables /\ dict \in Dicts /\ Tail(task[t].todo) \in Seq(Tables)
      BY TaskTypes, ListsOfTables DEF Keep, TypeInv, Outs
<1>1. ended \in TaskType /\ next \in TaskType
      BY <1>0, TaskTypes
<1>2. /\ cache' = Merged(table, dict)
      /\ known' = [known EXCEPT ![table] = TRUE]
      /\ unsure' = (unsure \ In(table)) \cup task[t].dirty
      /\ view' = IF Bridge /\ mqtt = "up" /\ (t = "poll" \/ EndsWithTable(t))
                 THEN Published(table, cache') ELSE view
      BY DEF Keep
<1>3. task' = [task EXCEPT ![t] = IF EndsWithTable(t) THEN ended ELSE next]
      BY DEF Keep
<1>4. /\ ended.req = task[t].req /\ ended.got = <<>> /\ ended.pc = "ended"
      /\ ended.out = "done" /\ ended.did = "" /\ ended.todo = <<>>
      BY DEF Idle
<1>5. /\ next.req = task[t].req /\ next.got = <<>> /\ next.pc = task[t].pc
      /\ next.out = task[t].out /\ next.did = task[t].did
      /\ next.todo = Tail(task[t].todo) /\ task[t].pc = "run"
      BY <1>0 DEF Keep, TaskType
<1> HIDE DEF ended, next
<1>6. /\ task' \in [Tasks -> TaskType]
      /\ \A u \in Tasks : task'[u] = IF u = t THEN (IF EndsWithTable(t) THEN ended ELSE next)
                                     ELSE task[u]
      BY <1>1, <1>3 DEF TypeInv
<1>7. KeepEffect(t, table, dict)
      BY <1>0, <1>2, <1>4, <1>5, <1>6 DEF KeepEffect
<1>8. cache' \in [Settings -> Nat \cup {NoVal}]
      BY <1>0, <1>2, DictsAre
<1>9. view' \in [Labels -> Nat \cup {NoVal}]
      BY <1>0, <1>2, <1>8, PublishedIs DEF TypeInv
<1> QED BY <1>6, <1>7, <1>8, <1>9

\* What taking a table makes of the task.
LEMMA TakeIs ==
    ASSUME TypeInv, NEW t \in Tasks, Take(t)
    PROVE  /\ task' \in [Tasks -> TaskType]
           /\ \A u \in Tasks : u # t => task'[u] = task[u]
           /\ LET table == Head(task[t].todo) IN
              /\ table \in Tables
              /\ task'[t].got # <<>> /\ task'[t].got[1] = table
              /\ task'[t].got[2] = [s \in ReadIds(table) |-> dev[s]]
           /\ /\ task'[t].pc = task[t].pc /\ task'[t].req = task[t].req
              /\ task'[t].todo = task[t].todo /\ task'[t].todo # <<>>
              /\ task'[t].out = task[t].out /\ task'[t].did = task[t].did
<1> DEFINE table == Head(task[t].todo)
           g == <<table, [s \in ReadIds(table) |-> dev[s]]>>
           k == [task[t] EXCEPT !.dirty = {}, !.got = g]
<1>0. task[t] \in TaskType /\ task[t].todo # <<>> /\ table \in Tables
      BY ListsOfTables, TaskTypes DEF Take, Reading, TypeInv
<1>1. g \in Tables \X Dicts /\ g # <<>> /\ g[1] = table
      /\ g[2] = [s \in ReadIds(table) |-> dev[s]]
      BY <1>0, DictsAre
<1>2. task' = [task EXCEPT ![t] = k]
      BY <1>0 DEF Take, NextTable, TypeInv
<1> HIDE DEF g
<1>3. k \in TaskType
      BY <1>0, <1>1, TaskTypes
<1>4. /\ k.got = g /\ k.pc = task[t].pc /\ k.req = task[t].req /\ k.todo = task[t].todo
      /\ k.out = task[t].out /\ k.did = task[t].did
      BY <1>0 DEF TaskType
<1> HIDE DEF k
<1> QED BY <1>0, <1>1, <1>2, <1>3, <1>4 DEF TypeInv

\* Reading a table keeps the types.
LEMMA ReadTypes ==
    ASSUME TypeInv, ReadInv, NEW t \in Tasks, Take(t) \/ Keep(t)
    PROVE  TypeInv'
<1>1. CASE Take(t)
      BY <1>1, TakeIs DEF Take, TypeInv, InstallOK, fixed
<1>2. CASE Keep(t)
      <2>1. task[t].todo # <<>>
            BY <1>2 DEF Keep, ReadInv, GotOf, TodoOf
      <2>2. /\ KeepEffect(t, task[t].got[1], task[t].got[2])
            /\ task' \in [Tasks -> TaskType]
            /\ cache' \in [Settings -> Nat \cup {NoVal}]
            /\ view' \in [Labels -> Nat \cup {NoVal}]
            BY <1>2, <2>1, KeepIs
      <2>3. task[t].dirty \subseteq Settings
            BY DEF TypeInv, TaskType
      <2>4. known' \in [Tables -> BOOLEAN] /\ unsure' \subseteq Settings
            BY <2>2, <2>3 DEF KeepEffect, TypeInv
      <2>5. lock' \in Tasks \cup {Free}
            BY <1>2 DEF Keep, TypeInv
      <2> QED BY <1>2, <2>2, <2>4, <2>5 DEF Keep, TypeInv, InstallOK, fixed
<1> QED BY <1>1, <1>2

\* Changes at the device keep the types.
LEMMA DeviceTypes ==
    ASSUME TypeInv, ShowerChanges \/ \E s \in Touched : ChangeAtDevice(s)
    PROVE  TypeInv'
<1>1. CASE ShowerChanges
      BY <1>1 DEF ShowerChanges, TypeInv, InstallOK, fixed
<1>2. ASSUME NEW s \in Touched, ChangeAtDevice(s) PROVE TypeInv'
      <2>1. s \in Settings
            BY <1>2 DEF ChangeAtDevice, TypeInv
      <2>2. task' \in [Tasks -> TaskType]
            BY <1>2, <2>1, OvertakenIs DEF ChangeAtDevice
      <2> QED BY <1>2, <2>1, <2>2 DEF ChangeAtDevice, TypeInv, InstallOK, fixed
<1> QED BY <1>1, <1>2

\* What the loss of the permanent session makes of the tasks.
LEMMA LinkLostIs ==
    ASSUME TypeInv, LinkLost
    PROVE  /\ task' \in [Tasks -> TaskType]
           /\ \A t \in Tasks :
                 \/ task'[t] = task[t] /\ t # "poll"
                 \/ t = "poll" /\ task'[t] = Idle
                 \/ /\ t \in Callers /\ task[t].pc = "run"
                    /\ task'[t].pc = "ended" /\ task'[t].out = "failed" /\ task'[t].did = ""
                    /\ task'[t].req = task[t].req
                    /\ task'[t].got = <<>> /\ task'[t].todo = <<>>
<1> DEFINE ended(t) == [Idle EXCEPT !.req = task[t].req, !.pc = "ended", !.out = "failed"]
<1>1. task' = [t \in Tasks |-> IF t = "poll" THEN Idle
                               ELSE IF task[t].pc = "run" /\ lock # t THEN ended(t)
                               ELSE task[t]]
      BY DEF LinkLost
<1>2. ASSUME NEW t \in Tasks
      PROVE  ended(t) \in TaskType
      BY TaskTypes DEF TypeInv, Outs
<1>3. ASSUME NEW t \in Tasks
      PROVE  /\ ended(t).pc = "ended" /\ ended(t).out = "failed" /\ ended(t).did = ""
             /\ ended(t).req = task[t].req /\ ended(t).got = <<>> /\ ended(t).todo = <<>>
      BY DEF Idle
<1> HIDE DEF ended
<1> QED BY <1>1, <1>2, <1>3, IdleType DEF TypeInv, Tasks

\* What the background task's steps make of the tasks.
LEMMA PollIs ==
    ASSUME TypeInv, PollStart \/ TableTimesOut \/ PollFails \/ PollEnds
    PROVE  /\ task' \in [Tasks -> TaskType]
           /\ \A t \in Tasks : t # "poll" => task'[t] = task[t]
           /\ task'["poll"].got = <<>>
           /\ PollStart => task'["poll"].pc = "run" /\ task'["poll"].todo = TablesToRead
           /\ TableTimesOut => /\ task'["poll"].pc = task["poll"].pc
                               /\ task'["poll"].todo = Tail(task["poll"].todo)
                               /\ NextTable("poll") \in Tables
           /\ PollFails => task'["poll"] = Idle
           /\ PollEnds => /\ task'["poll"].todo = <<>>
                          /\ task'["poll"].pc = IF install = "persistent" THEN "polling" ELSE "idle"
<1>0. "poll" \in Tasks /\ task["poll"] \in TaskType /\ Idle \in TaskType
      BY IdleType DEF Tasks, TypeInv
<1>1. CASE PollStart
      <2> DEFINE k == [Idle EXCEPT !.pc = "run", !.todo = TablesToRead]
      <2>1. k \in TaskType
            BY <1>0, ListsOfTables, TaskTypes DEF TypeInv
      <2>2. k.got = <<>> /\ k.pc = "run" /\ k.todo = TablesToRead
            BY DEF Idle
      <2>3. task' = [task EXCEPT !["poll"] = k] /\ task["poll"].pc = "idle"
            BY <1>1 DEF PollStart
      <2>4. ~TableTimesOut /\ ~PollFails /\ ~PollEnds
            BY <2>3 DEF TableTimesOut, Reading, PollFails, PollEnds
      <2> HIDE DEF k
      <2> QED BY <1>0, <2>1, <2>2, <2>3, <2>4 DEF TypeInv
<1>2. CASE TableTimesOut
      <2> DEFINE k == [task["poll"] EXCEPT !.todo = Tail(task["poll"].todo), !.got = <<>>,
                                           !.dirty = {}]
      <2>1. task["poll"].todo # <<>> /\ task["poll"].pc = "run"
            /\ task["poll"].todo \in Seq(Tables)
            BY <1>0, <1>2 DEF TableTimesOut, Reading, TaskType
      <2>2. NextTable("poll") \in Tables /\ Tail(task["poll"].todo) \in Seq(Tables)
            BY <2>1, ListsOfTables DEF NextTable
      <2>3. k \in TaskType
            BY <1>0, <2>2, TaskTypes
      <2>4. k.got = <<>> /\ k.pc = task["poll"].pc /\ k.todo = Tail(task["poll"].todo)
            BY <1>0 DEF TaskType
      <2>5. task' = [task EXCEPT !["poll"] = k]
            BY <1>0, <1>2 DEF TableTimesOut, TypeInv
      <2>6. ~PollStart /\ ~PollEnds
            BY <2>1 DEF PollStart, PollEnds
      <2>7. ~PollFails
            <3>2. task'["poll"].pc = "run"
                  BY <1>0, <2>1, <2>4, <2>5 DEF TypeInv
            <3>3. Idle.pc = "idle"
                  BY DEF Idle
            <3>4. PollFails => task'["poll"].pc = "idle"
                  BY <1>0, <3>3 DEF PollFails, TypeInv
            <3> QED BY <3>2, <3>4
      <2> HIDE DEF k
      <2> QED BY <1>0, <2>2, <2>3, <2>4, <2>5, <2>6, <2>7 DEF TypeInv
<1>3. CASE PollFails
      <2>1. task' = [task EXCEPT !["poll"] = Idle] /\ task["poll"].pc = "run"
            /\ install # "persistent"
            BY <1>3 DEF PollFails
      <2>2. Idle.got = <<>> /\ Idle.todo = <<>> /\ Idle.pc = "idle"
            BY DEF Idle
      <2>3. ~PollStart
            BY <2>1 DEF PollStart
      <2>4. ~TableTimesOut
            <3>1. task'["poll"].pc = "idle"
                  BY <1>0, <2>1, <2>2 DEF TypeInv
            <3>2. TableTimesOut => task'["poll"].pc = "run"
                  BY <1>0 DEF TableTimesOut, Reading, TypeInv, TaskType
            <3> QED BY <3>1, <3>2
      <2> QED BY <1>0, <2>1, <2>2, <2>3, <2>4 DEF TypeInv
<1>4. CASE PollEnds
      <2> DEFINE k == IF install = "persistent" THEN [Idle EXCEPT !.pc = "polling"] ELSE Idle
      <2>1. task' = [task EXCEPT !["poll"] = k] /\ task["poll"].pc = "run"
            /\ task["poll"].todo = <<>>
            BY <1>4 DEF PollEnds
      <2>2. /\ k \in TaskType /\ k.got = <<>> /\ k.todo = <<>>
            /\ k.pc = IF install = "persistent" THEN "polling" ELSE "idle"
            BY <1>0, TaskTypes DEF Idle
      <2>3. ~PollStart /\ ~TableTimesOut
            BY <2>1 DEF PollStart, TableTimesOut, Reading
      <2>4. PollFails => k = Idle
            BY DEF PollFails
      <2>5. PollFails => task' = [task EXCEPT !["poll"] = Idle]
            BY DEF PollFails
      <2> HIDE DEF k
      <2> QED BY <1>0, <2>1, <2>2, <2>3, <2>4 DEF TypeInv
<1> QED BY <1>1, <1>2, <1>3, <1>4

\* The steps of the background task keep the types.
LEMMA PollTypes ==
    ASSUME TypeInv, PollStart \/ TableTimesOut \/ PollFails \/ PollEnds \/ Tick \/ LinkLost
    PROVE  TypeInv'
<1>0. "poll" \in Tasks
      BY DEF Tasks
<1>1. CASE PollStart
      BY <1>0, <1>1, PollIs DEF PollStart, TypeInv, InstallOK, fixed
<1>2. CASE TableTimesOut
      <2>1. NextTable("poll") \in Tables /\ task' \in [Tasks -> TaskType]
            BY <1>2, PollIs
      <2>2. cache' \in [Settings -> Nat \cup {NoVal}] /\ known' \in [Tables -> BOOLEAN]
            BY <1>2, <2>1, DictsAre DEF TableTimesOut, TypeInv
      <2> QED BY <1>2, <2>1, <2>2 DEF TableTimesOut, TypeInv, InstallOK, fixed
<1>3. CASE PollFails
      BY <1>3, PollIs DEF PollFails, TypeInv, InstallOK, fixed
<1>4. CASE PollEnds
      <2>1. view' \in [Labels -> Nat \cup {NoVal}]
            BY <1>4, ShownIs DEF PollEnds, TypeInv
      <2> QED BY <1>4, <2>1, PollIs DEF PollEnds, TypeInv, InstallOK, fixed
<1>5. CASE Tick
      BY <1>5 DEF Tick, TypeInv, InstallOK, fixed
<1>6. CASE LinkLost
      BY <1>6, LinkLostIs DEF LinkLost, TypeInv, InstallOK, fixed
<1> QED BY <1>1, <1>2, <1>3, <1>4, <1>5, <1>6

\* Every step keeps the types.
LEMMA TypeStep == TypeInv /\ ReadInv /\ [Next]_vars => TypeInv'
<1> SUFFICES ASSUME TypeInv, ReadInv, [Next]_vars PROVE TypeInv'
    OBVIOUS
<1>1. \A c \in Callers : c \in Tasks
      BY DEF Tasks
<1>2. "poll" \in Tasks
      BY DEF Tasks
<1>3. CASE UNCHANGED vars
      BY <1>3 DEF vars, fixed, TypeInv, InstallOK
<1>4. CASE \E c \in Callers : Issue(c) \/ Step(c)
      BY <1>1, <1>4, CallerTypes, WriteTypes, ReadTypes DEF Step
<1>5. CASE PollStep
      BY <1>2, <1>5, PollTypes, ReadTypes DEF PollStep
<1> QED BY <1>3, <1>4, <1>5, DeviceTypes, PollTypes DEF Next

-----------------------------------------------------------------------------
(* What a step of a caller makes of its task *)

Others(t) == \A u \in Tasks : u # t => task'[u] = task[u]

Released(c) == lock' = IF lock = c THEN Free ELSE lock

\* Asking takes an idle caller, and says at once what is ignored, refused or cached.
LEMMA IssueIs ==
    ASSUME TypeInv, NEW c \in Callers, Issue(c)
    PROVE  /\ Others(c) /\ task[c].pc = "idle" /\ UNCHANGED lock
           /\ task'[c].todo = <<>> /\ task'[c].got = <<>> /\ task'[c].did = ""
           /\ task'[c].req \in Requests(Surface(c))
           /\ \/ /\ task'[c].pc = "ended" /\ task'[c].out = "ignored"
                 /\ ~Routed(c, task'[c].req)
              \/ /\ task'[c].pc = "ended" /\ task'[c].out = "refused"
                 /\ ~Accepted(Surface(c), task'[c].req)
              \/ /\ task'[c].pc = "ended" /\ task'[c].out = "done"
                 /\ FromCache(task'[c].req)
              \/ /\ task'[c].pc = "wait" /\ task'[c].out = ""
                 /\ Accepted(Surface(c), task'[c].req)
<1>0. c \in Tasks
      BY DEF Tasks
<1> DEFINE ended(r, o) == [Idle EXCEPT !.req = r, !.pc = "ended", !.out = o]
           wait(r) == [Idle EXCEPT !.req = r, !.pc = "wait"]
<1> PICK r \in Requests(Surface(c)) :
        task' = [task EXCEPT ![c] =
           IF ~Routed(c, r) THEN ended(r, "ignored")
           ELSE IF ~Accepted(Surface(c), r) THEN ended(r, "refused")
           ELSE IF FromCache(r) THEN ended(r, "done") ELSE wait(r)]
    BY DEF Issue
<1>1. /\ ended(r, "ignored").todo = <<>> /\ ended(r, "ignored").got = <<>>
      /\ ended(r, "ignored").did = "" /\ ended(r, "ignored").req = r
      /\ ended(r, "ignored").pc = "ended" /\ ended(r, "ignored").out = "ignored"
      BY DEF Idle
<1>2. /\ ended(r, "refused").todo = <<>> /\ ended(r, "refused").got = <<>>
      /\ ended(r, "refused").did = "" /\ ended(r, "refused").req = r
      /\ ended(r, "refused").pc = "ended" /\ ended(r, "refused").out = "refused"
      BY DEF Idle
<1>3. /\ ended(r, "done").todo = <<>> /\ ended(r, "done").got = <<>>
      /\ ended(r, "done").did = "" /\ ended(r, "done").req = r
      /\ ended(r, "done").pc = "ended" /\ ended(r, "done").out = "done"
      BY DEF Idle
<1>4. /\ wait(r).todo = <<>> /\ wait(r).got = <<>> /\ wait(r).did = ""
      /\ wait(r).req = r /\ wait(r).pc = "wait" /\ wait(r).out = ""
      BY DEF Idle
<1> HIDE DEF ended, wait
<1>5. \/ task' = [task EXCEPT ![c] = ended(r, "ignored")] /\ ~Routed(c, r)
      \/ task' = [task EXCEPT ![c] = ended(r, "refused")] /\ ~Accepted(Surface(c), r)
      \/ task' = [task EXCEPT ![c] = ended(r, "done")] /\ FromCache(r)
      \/ task' = [task EXCEPT ![c] = wait(r)] /\ Accepted(Surface(c), r)
      OBVIOUS
<1>6. \/ task'[c] = ended(r, "ignored") /\ ~Routed(c, r)
      \/ task'[c] = ended(r, "refused") /\ ~Accepted(Surface(c), r)
      \/ task'[c] = ended(r, "done") /\ FromCache(r)
      \/ task'[c] = wait(r) /\ Accepted(Surface(c), r)
      BY <1>0, <1>5 DEF TypeInv
<1>7. Others(c)
      BY <1>0, <1>5 DEF TypeInv, Others
<1>8. task[c].pc = "idle" /\ UNCHANGED lock
      BY DEF Issue
<1>9. CASE task'[c] = ended(r, "ignored") /\ ~Routed(c, r)
      <2>1. /\ task'[c].todo = <<>> /\ task'[c].got = <<>> /\ task'[c].did = ""
            /\ task'[c].req = r /\ task'[c].pc = "ended" /\ task'[c].out = "ignored"
            BY <1>1, <1>9
      <2>2. ~Routed(c, task'[c].req)
            BY <1>9, <2>1
      <2> QED BY <1>7, <1>8, <2>1, <2>2
<1>10. CASE task'[c] = ended(r, "refused") /\ ~Accepted(Surface(c), r)
      <2>1. /\ task'[c].todo = <<>> /\ task'[c].got = <<>> /\ task'[c].did = ""
            /\ task'[c].req = r /\ task'[c].pc = "ended" /\ task'[c].out = "refused"
            BY <1>2, <1>10
      <2>2. ~Accepted(Surface(c), task'[c].req)
            BY <1>10, <2>1
      <2> QED BY <1>7, <1>8, <2>1, <2>2
<1>11. CASE task'[c] = ended(r, "done") /\ FromCache(r)
      <2>1. /\ task'[c].todo = <<>> /\ task'[c].got = <<>> /\ task'[c].did = ""
            /\ task'[c].req = r /\ task'[c].pc = "ended" /\ task'[c].out = "done"
            BY <1>3, <1>11
      <2>2. FromCache(task'[c].req)
            BY <1>11, <2>1
      <2> QED BY <1>7, <1>8, <2>1, <2>2
<1>12. CASE task'[c] = wait(r) /\ Accepted(Surface(c), r)
       BY <1>4, <1>7, <1>8, <1>12
<1> QED BY <1>6, <1>9, <1>10, <1>11, <1>12

\* A waiting caller gets a session, in which it reads what TablesAsked says, or fails.
LEMMA StartIs ==
    ASSUME TypeInv, NEW c \in Callers, Start(c)
    PROVE  /\ Others(c) /\ task[c].pc = "wait" /\ (mqtt' = "up" => mqtt = "up")
           /\ task'[c].req = task[c].req /\ task'[c].got = task[c].got
           /\ task'[c].did = task[c].did /\ task'[c].dirty = task[c].dirty
           /\ \/ /\ task'[c].pc = "ended" /\ task'[c].out \in {"failed", "offline"}
                 /\ task'[c].todo = task[c].todo /\ Released(c)
              \/ /\ task'[c].pc = "run" /\ task'[c].out = task[c].out
                 /\ task'[c].todo = TablesAsked(task[c].req)
                 /\ \/ lock = Free /\ lock' = c
                    \/ install = "persistent" /\ UNCHANGED lock
<1>0. c \in Tasks /\ task[c] \in TaskType /\ task[c].req \in Req
      BY TaskTypes DEF Tasks, TypeInv
<1>1. ASSUME NEW o \in {"failed", "offline"}, Ends(c, o)
      PROVE  /\ Others(c) /\ (mqtt' = "up" => mqtt = "up") /\ Released(c)
             /\ task'[c].req = task[c].req /\ task'[c].got = task[c].got
             /\ task'[c].did = task[c].did /\ task'[c].todo = task[c].todo
             /\ task'[c].dirty = task[c].dirty
             /\ task'[c].pc = "ended" /\ task'[c].out = o
      <2>1. /\ task' = [task EXCEPT ![c] = [task[c] EXCEPT !.pc = "ended", !.out = o]]
            /\ (mqtt' = "up" => mqtt = "up") /\ lock' = IF lock = c THEN Free ELSE lock
            BY <1>1, EndsIs DEF Outs
      <2> QED BY <1>0, <2>1 DEF TypeInv, Others, Released, TaskType
<1>2. ASSUME task' = [task EXCEPT ![c].pc = "run", ![c].todo = TablesAsked(task[c].req)]
      PROVE  /\ Others(c)
             /\ task'[c].req = task[c].req /\ task'[c].got = task[c].got
             /\ task'[c].did = task[c].did /\ task'[c].dirty = task[c].dirty
             /\ task'[c].pc = "run" /\ task'[c].out = task[c].out
             /\ task'[c].todo = TablesAsked(task[c].req)
      <2> DEFINE q == TablesAsked(task[c].req)
      <2> HIDE DEF q
      <2>1. task' = [task EXCEPT ![c] = [task[c] EXCEPT !.pc = "run", !.todo = q]]
            BY <1>0, <1>2 DEF TypeInv, q
      <2>2. /\ task'[c].req = task[c].req /\ task'[c].got = task[c].got
            /\ task'[c].did = task[c].did /\ task'[c].dirty = task[c].dirty
            /\ task'[c].pc = "run" /\ task'[c].out = task[c].out /\ task'[c].todo = q
            BY <1>0, <2>1 DEF TypeInv, TaskType
      <2>3. Others(c)
            BY <1>0, <2>1 DEF TypeInv, Others
      <2> QED BY <2>2, <2>3 DEF q
<1>3. task[c].pc = "wait"
      BY DEF Start
<1>4. \/ Ends(c, "failed") \/ Ends(c, "offline")
      \/ /\ task' = [task EXCEPT ![c].pc = "run", ![c].todo = TablesAsked(task[c].req)]
         /\ UNCHANGED mqtt
         /\ \/ lock = Free /\ lock' = c
            \/ install = "persistent" /\ UNCHANGED lock
      BY Zenon DEF Start
<1>5. CASE Ends(c, "failed")
      BY <1>1, <1>3, <1>5
<1>6. CASE Ends(c, "offline")
      BY <1>1, <1>3, <1>6
<1>7. CASE /\ task' = [task EXCEPT ![c].pc = "run", ![c].todo = TablesAsked(task[c].req)]
           /\ UNCHANGED mqtt
           /\ \/ lock = Free /\ lock' = c
              \/ install = "persistent" /\ UNCHANGED lock
      BY <1>2, <1>3, <1>7
<1> QED BY <1>4, <1>5, <1>6, <1>7

\* A command, a read of a sensor or a state, and a missing method end a request.
LEMMA AnswerIs ==
    ASSUME TypeInv, NEW c \in Callers,
           Command(c) \/ Unsupported(c) \/ ReadSensor(c) \/ ReadState(c)
    PROVE  /\ Others(c) /\ task[c].pc = "run" /\ (mqtt' = "up" => mqtt = "up") /\ Released(c)
           /\ task'[c].req = task[c].req /\ task'[c].got = task[c].got
           /\ task'[c].todo = task[c].todo /\ task'[c].dirty = task[c].dirty
           /\ task'[c].pc = "ended"
           /\ \/ task'[c].out = "failed"
              \/ Unsupported(c) /\ task'[c].out = "unsupported"
              \/ Command(c) /\ task'[c].out = "done" /\ task'[c].did = task[c].req.name
              \/ (ReadSensor(c) \/ ReadState(c)) /\ task'[c].out = "done"
<1>0. c \in Tasks /\ task[c] \in TaskType
      BY DEF Tasks, TypeInv
<1>1. ASSUME NEW o \in Outs, Ends(c, o)
      PROVE  /\ Others(c) /\ (mqtt' = "up" => mqtt = "up") /\ Released(c)
             /\ task'[c].req = task[c].req /\ task'[c].got = task[c].got
             /\ task'[c].todo = task[c].todo /\ task'[c].dirty = task[c].dirty
             /\ task'[c].pc = "ended" /\ task'[c].out = o
      <2>1. /\ task' = [task EXCEPT ![c] = [task[c] EXCEPT !.pc = "ended", !.out = o]]
            /\ (mqtt' = "up" => mqtt = "up") /\ lock' = IF lock = c THEN Free ELSE lock
            BY <1>1, EndsIs
      <2> QED BY <1>0, <2>1 DEF TypeInv, Others, Released, TaskType
<1>2. "failed" \in Outs /\ "done" \in Outs /\ "unsupported" \in Outs
      BY DEF Outs
<1>3. task[c].pc = "run"
      BY DEF Command, Unsupported, ReadSensor, ReadState
<1>4. CASE Unsupported(c)
      <2>1. Ends(c, "unsupported")
            BY <1>4 DEF Unsupported
      <2> QED BY <1>1, <1>2, <1>3, <1>4, <2>1
<1>5. CASE ReadSensor(c) \/ ReadState(c)
      <2>1. Ends(c, "done")
            BY <1>5 DEF ReadSensor, ReadState
      <2> QED BY <1>1, <1>2, <1>3, <1>5, <2>1
<1>6. CASE Command(c)
      <2>1. CASE Ends(c, "failed")
            BY <1>1, <1>2, <1>3, <2>1
      <2>2. CASE /\ task' = [task EXCEPT ![c].pc = "ended", ![c].out = "done",
                                        ![c].did = task[c].req.name]
                 /\ lock' = (IF lock = c THEN Free ELSE lock) /\ UNCHANGED mqtt
            <3> DEFINE k == [task[c] EXCEPT !.pc = "ended", !.out = "done",
                                            !.did = task[c].req.name]
            <3>1. task' = [task EXCEPT ![c] = k]
                  BY <1>0, <2>2 DEF TypeInv
            <3>2. /\ k.pc = "ended" /\ k.out = "done" /\ k.did = task[c].req.name
                  /\ k.req = task[c].req /\ k.got = task[c].got
                  /\ k.todo = task[c].todo /\ k.dirty = task[c].dirty
                  BY <1>0 DEF TaskType
            <3> HIDE DEF k
            <3>3. task'[c] = k /\ Others(c)
                  BY <1>0, <3>1 DEF TypeInv, Others
            <3> QED BY <1>3, <1>6, <2>2, <3>2, <3>3 DEF Released
      <2> QED BY <1>6, <2>1, <2>2 DEF Command
<1> QED BY <1>4, <1>5, <1>6

\* A failed read, and the return to the caller, leave nothing behind.
LEMMA OverIs ==
    ASSUME TypeInv, NEW c \in Callers, ReadFails(c) \/ Return(c)
    PROVE  /\ Others(c)
           /\ task'[c].got = <<>> /\ task'[c].todo = <<>> /\ task'[c].did = ""
           /\ ReadFails(c) => /\ task[c].pc = "run" /\ task'[c].pc = "ended" /\ Released(c)
                              /\ task'[c].out = "failed" /\ task'[c].req = task[c].req
           /\ Return(c) => /\ task[c].pc = "ended" /\ task'[c].pc = "idle"
                           /\ task'[c].out = "" /\ UNCHANGED lock
<1>0. c \in Tasks
      BY DEF Tasks
<1>1. CASE ReadFails(c)
      <2> DEFINE k == [Idle EXCEPT !.req = task[c].req, !.pc = "ended", !.out = "failed"]
      <2>1. /\ k.pc = "ended" /\ k.out = "failed" /\ k.did = "" /\ k.req = task[c].req
            /\ k.got = <<>> /\ k.todo = <<>>
            BY DEF Idle
      <2>2. task' = [task EXCEPT ![c] = k] /\ task[c].pc = "run" /\ Released(c)
            BY <1>1 DEF ReadFails, Reading, Released
      <2>3. ~Return(c)
            BY <2>2 DEF Return
      <2> HIDE DEF k
      <2> QED BY <1>0, <2>1, <2>2, <2>3 DEF TypeInv, Others
<1>2. CASE Return(c)
      <2>1. task' = [task EXCEPT ![c] = Idle] /\ task[c].pc = "ended" /\ UNCHANGED lock
            BY <1>2 DEF Return
      <2>2. /\ Idle.pc = "idle" /\ Idle.out = "" /\ Idle.did = "" /\ Idle.got = <<>>
            /\ Idle.todo = <<>>
            BY DEF Idle
      <2>3. ~ReadFails(c)
            BY <2>1 DEF ReadFails, Reading
      <2> QED BY <1>0, <2>1, <2>2, <2>3 DEF TypeInv, Others
<1> QED BY <1>1, <1>2

-----------------------------------------------------------------------------
(* Sessions, reads and requests *)

\* The installation and what depends on it alone never change.
LEMMA FixedIs ==
    ASSUME UNCHANGED fixed
    PROVE  /\ install' = install /\ kind' = kind /\ model' = model /\ (Bridge' <=> Bridge)
           /\ \A s : Has(s)' <=> Has(s)
           /\ \A table : ReadIds(table)' = ReadIds(table)
           /\ \A c : /\ Surface(c)' = Surface(c)
                     /\ Offered(Surface(c))' = Offered(Surface(c))
           /\ \A r : Supported(r)' <=> Supported(r)
           /\ \A sf, r : Gap(sf, r)' <=> Gap(sf, r)
<1>1. install' = install /\ kind' = kind /\ model' = model
      BY DEF fixed
<1>2. Bridge' <=> Bridge
      BY <1>1 DEF Bridge
<1>3. \A s : Has(s)' <=> Has(s)
      BY <1>1 DEF Has
<1>4. \A table : ReadIds(table)' = ReadIds(table)
      BY <1>1 DEF ReadIds, Has
<1>5. \A c : Surface(c)' = Surface(c)
      BY <1>2 DEF Surface
<1>6. \A sf : Offered(sf)' = Offered(sf)
      BY <1>1 DEF Offered, HacsOffered
<1>7. \A r : Supported(r)' <=> Supported(r)
      BY <1>1, <1>3 DEF Supported
<1>8. \A sf, r : Gap(sf, r)' <=> Gap(sf, r)
      BY <1>2, <1>7 DEF Gap
<1> QED BY <1>1, <1>2, <1>3, <1>4, <1>5, <1>6, <1>7, <1>8

\* No step changes the installation.
LEMMA FixedStep == [Next]_vars => UNCHANGED fixed
BY DEF vars, fixed, Next, Step, PollStep, Issue, Start, Write, Command, Unsupported,
       ReadSensor, ReadState, Take, Keep, ReadFails, Return, ChangeAtDevice, ShowerChanges,
       PollStart, TableTimesOut, PollFails, PollEnds, Tick, LinkLost

\* A task that stops running keeps the lock discipline, whether it had the lock or not.
LEMMA LockReleased ==
    ASSUME TypeInv, LockInv, install' = install, NEW t \in Tasks, Others(t),
           task'[t].pc \notin {"run", "polling"}, Released(t) \/ UNCHANGED lock
    PROVE  LockInv'
<1>1. ASSUME install # "persistent", NEW u \in Tasks, task'[u].pc = "run"
      PROVE  lock' = u
      <2>1. u # t /\ lock = u
            BY <1>1 DEF LockInv, Others
      <2> QED BY <2>1 DEF Released
<1>2. task'["poll"].pc = "polling" => install = "persistent"
      BY DEF LockInv, Others, Tasks
<1> QED BY <1>1, <1>2 DEF LockInv

\* A task that neither starts nor stops keeps it.
LEMMA LockKept ==
    ASSUME TypeInv, LockInv, install' = install, NEW t \in Tasks, Others(t),
           task'[t].pc = task[t].pc, UNCHANGED lock
    PROVE  LockInv'
<1>1. \A u \in Tasks : task'[u].pc = task[u].pc
      BY DEF Others
<1> QED BY <1>1 DEF LockInv, Tasks

\* One session at a time.
LEMMA LockStep == TypeInv /\ ReadInv /\ LockInv /\ [Next]_vars => LockInv'
<1> SUFFICES ASSUME TypeInv, ReadInv, LockInv, [Next]_vars PROVE LockInv'
    OBVIOUS
<1>0. install' = install /\ "poll" \in Tasks /\ \A c \in Callers : c \in Tasks /\ c # "poll"
      BY FixedStep, FixedIs DEF Tasks, Callers
<1>1. ASSUME NEW c \in Callers, Issue(c) PROVE LockInv'
      BY <1>0, <1>1, IssueIs, LockReleased
<1>2. ASSUME NEW c \in Callers, Start(c) PROVE LockInv'
      <2>1. CASE task'[c].pc = "ended"
            BY <1>0, <1>2, <2>1, StartIs, LockReleased
      <2>2. CASE task'[c].pc = "run"
            <3>1. Others(c) /\ \/ lock = Free /\ lock' = c
                               \/ install = "persistent" /\ UNCHANGED lock
                  BY <1>2, <2>2, StartIs
            <3>2. ASSUME install # "persistent", NEW u \in Tasks, task'[u].pc = "run"
                  PROVE  lock' = u
                  BY <3>1, <3>2 DEF LockInv, Others, Free, Tasks, Callers
            <3> QED BY <1>0, <3>1, <3>2 DEF LockInv, Others
      <2> QED BY <1>2, <2>1, <2>2, StartIs
<1>3. ASSUME NEW c \in Callers, Write(c) PROVE LockInv'
      <2>1. PICK outcome \in {"ok", "lost", "failed"} :
                WriteEffect(c, task[c].req.set, task[c].req.val, outcome)
            BY <1>3, WriteIs
      <2>2. /\ lock' = IF lock = c THEN Free ELSE lock
            /\ task'[c].pc = "ended"
            /\ \A t \in Tasks : t # c => task'[t].pc = task[t].pc
            BY <2>1 DEF WriteEffect
      <2>3. ASSUME install # "persistent", NEW u \in Tasks, task'[u].pc = "run"
            PROVE  lock' = u
            BY <2>2, <2>3 DEF LockInv
      <2> QED BY <1>0, <2>2, <2>3 DEF LockInv
<1>4. ASSUME NEW c \in Callers,
             Command(c) \/ Unsupported(c) \/ ReadSensor(c) \/ ReadState(c)
      PROVE  LockInv'
      BY <1>0, <1>4, AnswerIs, LockReleased
<1>5. ASSUME NEW c \in Callers, ReadFails(c) \/ Return(c) PROVE LockInv'
      BY <1>0, <1>5, OverIs, LockReleased
<1>6. ASSUME NEW t \in Tasks, Take(t) PROVE LockInv'
      BY <1>0, <1>6, TakeIs, LockKept DEF Take, Others
<1>7. ASSUME NEW t \in Tasks, Keep(t) PROVE LockInv'
      <2>1. task[t].todo # <<>> /\ task[t].pc = "run"
            BY <1>7 DEF Keep, ReadInv, GotOf, TodoOf
      <2>2. KeepEffect(t, task[t].got[1], task[t].got[2])
            BY <1>7, <2>1, KeepIs
      <2>3. Others(t)
            BY <2>2 DEF KeepEffect, Others
      <2>4. CASE EndsWithTable(t)
            BY <1>0, <1>7, <2>2, <2>3, <2>4, LockReleased DEF Keep, KeepEffect, Released
      <2>5. CASE ~EndsWithTable(t)
            BY <1>0, <1>7, <2>1, <2>2, <2>3, <2>5, LockKept DEF Keep, KeepEffect
      <2> QED BY <2>4, <2>5
<1>8. ASSUME NEW s \in Touched, ChangeAtDevice(s) PROVE LockInv'
      <2>1. s \in Settings /\ task' = Overtaken(s, task) /\ UNCHANGED lock
            BY <1>8 DEF ChangeAtDevice, TypeInv
      <2>2. \A t \in Tasks : task'[t].pc = task[t].pc
            BY <2>1, OvertakenIs
      <2> QED BY <1>0, <2>1, <2>2 DEF LockInv
<1>9. CASE PollStart
      <2>1. task'["poll"].pc = "run" /\ Others("poll")
            BY <1>9, PollIs DEF Others
      <2>2. install # "persistent" => lock = Free /\ lock' = "poll"
            BY <1>9 DEF PollStart
      <2>3. ASSUME install # "persistent", NEW u \in Tasks, task'[u].pc = "run"
            PROVE  lock' = u
            BY <2>1, <2>2, <2>3 DEF LockInv, Others, Free, Tasks, Callers
      <2> QED BY <1>0, <2>1, <2>3 DEF LockInv
<1>10. CASE TableTimesOut
       BY <1>0, <1>10, PollIs, LockKept DEF TableTimesOut, Others
<1>11. CASE PollFails
       <2>1. /\ task["poll"].pc = "run" /\ install # "persistent" /\ lock' = Free
             /\ task'["poll"] = Idle /\ Others("poll") /\ lock = "poll"
             BY <1>0, <1>11, PollIs DEF PollFails, Others, LockInv
       <2>2. Idle.pc = "idle"
             BY DEF Idle
       <2> QED BY <1>0, <2>1, <2>2, LockReleased DEF Released
<1>12. CASE PollEnds
       <2>1. /\ task'["poll"].pc = IF install = "persistent" THEN "polling" ELSE "idle"
             /\ Others("poll") /\ Released("poll")
             BY <1>12, PollIs DEF PollEnds, Others, Released
       <2>2. CASE install = "persistent"
             BY <1>0, <2>2 DEF LockInv
       <2>3. CASE install # "persistent"
             BY <1>0, <2>1, <2>3, LockReleased
       <2> QED BY <2>2, <2>3
<1>13. CASE Tick \/ ShowerChanges \/ UNCHANGED vars
       BY <1>0, <1>13 DEF Tick, ShowerChanges, vars, LockInv
<1>14. CASE LinkLost
       BY <1>0, <1>14 DEF LinkLost, LockInv
<1> QED BY <1>0, <1>1, <1>2, <1>3, <1>4, <1>5, <1>6, <1>7, <1>8, <1>9, <1>10, <1>11, <1>12,
           <1>13, <1>14 DEF Next, Step, PollStep

\* What a surface offers is routed; it is turned away, by a table or by the client, only
\* in the gaps.
LEMMA TurnedAway ==
    ASSUME TypeInv, NEW c \in Callers, NEW r \in Offered(Surface(c))
    PROVE  /\ Routed(c, r) /\ Sound(r)
           /\ ~Accepted(Surface(c), r) => Gap(Surface(c), r)
           /\ ~Supported(r) => Gap(Surface(c), r)
<1>1. Sound(r)
      BY RequestsAre DEF TypeInv
<1>2. Bridge <=> Surface(c) # "hacs"
      BY RequestsAre DEF TypeInv, Bridge
<1>3. CASE Surface(c) = "mqtt"
      <2>1. r \in MqttRequests
            BY <1>3 DEF Offered
      <2>2. Routed(c, r) /\ (~Accepted("mqtt", r) => GapOfTable(r))
            BY <1>3, <2>1, MqttAsks DEF Routed
      <2> QED BY <1>1, <1>2, <1>3, <2>2 DEF Gap, GapOfTable
<1>4. CASE Surface(c) = "rest"
      <2>1. r \in RestRequests
            BY <1>4 DEF Offered
      <2>2. Routed(c, r)
            BY <1>4 DEF Routed
      <2>3. ~Accepted("rest", r) => GapOfTable(r) \/ r.name = "none"
            BY <2>1, RestAsks
      <2> QED BY <1>1, <1>2, <1>4, <2>2, <2>3 DEF Gap, GapOfTable
<1>5. CASE Surface(c) = "hacs"
      <2>1. r \in HacsOffered /\ install = "hacs"
            BY <1>2, <1>5 DEF Offered, Bridge
      <2>2. Routed(c, r) /\ Accepted(Surface(c), r)
            BY <1>5 DEF Routed, Accepted
      <2>3. Supported(r)
            BY <2>1, HacsAsks DEF TypeInv
      <2> QED BY <1>1, <2>2, <2>3
<1> QED BY <1>3, <1>4, <1>5, RequestsAre DEF TypeInv

\* What answers without writing or running a command answers a read.
LEMMA OnlyReads ==
    ASSUME NEW r, Sound(r),
           FromCache(r) \/ r.name \in RestStates \/ r.name \in Tables
             \/ r.name \in {"parameters", "status"}
    PROVE  r.type = "read"
BY DEF Sound, FromCache, ReadNames, RestReads, RestStates, RestSensors, Tables

\* A caller whose request does not move on.
LEMMA RequestKept ==
    ASSUME UNCHANGED fixed, NEW c \in Callers, RequestOf(c),
           /\ task'[c].req = task[c].req /\ task'[c].pc = task[c].pc
           /\ task'[c].out = task[c].out /\ task'[c].did = task[c].did
    PROVE  RequestOf(c)'
<1>1. /\ Surface(c)' = Surface(c) /\ Offered(Surface(c))' = Offered(Surface(c))
      /\ \A sf, r : Gap(sf, r)' <=> Gap(sf, r)
      BY FixedIs
<1>2. Gap(Surface(c), task[c].req)' <=> Gap(Surface(c), task[c].req)
      BY FixedIs DEF Gap, Supported, Has, Bridge, Surface
<1>3. Accepted(Surface(c), task[c].req)' <=> Accepted(Surface(c), task[c].req)
      BY <1>1 DEF Accepted
<1> QED BY <1>1, <1>2, <1>3 DEF RequestOf

\* A caller whose request is over, with a result that is no refusal or is a gap.
LEMMA RequestEnded ==
    ASSUME UNCHANGED fixed, NEW c \in Callers, RequestOf(c),
           task[c].pc # "idle", task'[c].req = task[c].req, task'[c].pc = "ended",
           task'[c].out \in {"refused", "ignored", "unsupported"}
              => Gap(Surface(c), task[c].req),
           task'[c].out = "done" /\ task[c].req.type # "read"
              => task'[c].did = task[c].req.name
    PROVE  RequestOf(c)'
<1>1. /\ Surface(c)' = Surface(c) /\ Offered(Surface(c))' = Offered(Surface(c))
      BY FixedIs
<1>2. Gap(Surface(c), task[c].req)' <=> Gap(Surface(c), task'[c].req)
      BY FixedIs DEF Gap, Supported, Has, Bridge, Surface
<1> QED BY <1>1, <1>2 DEF RequestOf

\* A request reaches the program.
LEMMA AskedIssue ==
    ASSUME TypeInv, UNCHANGED fixed, NEW c \in Callers, Issue(c)
    PROVE  RequestOf(c)'
<1> DEFINE r == task'[c].req
<1>1. /\ Surface(c)' = Surface(c) /\ Offered(Surface(c))' = Offered(Surface(c))
      BY FixedIs
<1>2. Gap(Surface(c), task[c].req)' <=> Gap(Surface(c), r)
      BY FixedIs DEF Gap, Supported, Has, Bridge, Surface
<1>3. Accepted(Surface(c), task[c].req)' <=> Accepted(Surface(c), r)
      BY <1>1 DEF Accepted
<1>4. r \in Offered(Surface(c))
      BY IssueIs, RequestsAre DEF TypeInv
<1>5. /\ Routed(c, r) /\ Sound(r)
      /\ ~Accepted(Surface(c), r) => Gap(Surface(c), r)
      BY <1>4, TurnedAway
<1>6. FromCache(r) => r.type = "read"
      BY <1>5, OnlyReads
<1>7. /\ \/ task'[c].pc = "ended" /\ task'[c].out = "ignored" /\ ~Routed(c, r)
         \/ task'[c].pc = "ended" /\ task'[c].out = "refused" /\ ~Accepted(Surface(c), r)
         \/ task'[c].pc = "ended" /\ task'[c].out = "done" /\ FromCache(r)
         \/ task'[c].pc = "wait" /\ task'[c].out = "" /\ Accepted(Surface(c), r)
      BY IssueIs
<1> QED BY <1>1, <1>2, <1>3, <1>4, <1>5, <1>6, <1>7 DEF RequestOf

\* It gets a session, is answered, or fails.
LEMMA AskedCaller ==
    ASSUME TypeInv, UNCHANGED fixed, NEW c \in Callers, RequestOf(c),
           Start(c) \/ Command(c) \/ Unsupported(c) \/ ReadSensor(c) \/ ReadState(c)
             \/ ReadFails(c) \/ Return(c)
    PROVE  RequestOf(c)'
<1>1. CASE Start(c)
      <2>1. CASE task'[c].pc = "ended"
            BY <1>1, <2>1, StartIs, RequestEnded
      <2>2. CASE task'[c].pc = "run"
            <3>1. /\ task[c].pc = "wait" /\ task'[c].req = task[c].req
                  /\ task'[c].out = task[c].out
                  BY <1>1, <2>2, StartIs
            <3>2. /\ Surface(c)' = Surface(c) /\ Offered(Surface(c))' = Offered(Surface(c))
                  BY FixedIs
            <3>3. Accepted(Surface(c), task[c].req)' <=> Accepted(Surface(c), task[c].req)
                  BY <3>1, <3>2 DEF Accepted
            <3> QED BY <2>2, <3>1, <3>2, <3>3 DEF RequestOf
      <2> QED BY <1>1, <2>1, <2>2, StartIs
<1>2. CASE Command(c) \/ Unsupported(c) \/ ReadSensor(c) \/ ReadState(c)
      <2>1. /\ task[c].pc = "run" /\ task'[c].req = task[c].req /\ task'[c].pc = "ended"
            /\ \/ task'[c].out = "failed"
               \/ Unsupported(c) /\ task'[c].out = "unsupported"
               \/ Command(c) /\ task'[c].out = "done" /\ task'[c].did = task[c].req.name
               \/ (ReadSensor(c) \/ ReadState(c)) /\ task'[c].out = "done"
            BY <1>2, AnswerIs
      <2>2. task[c].req \in Offered(Surface(c))
            BY <2>1 DEF RequestOf
      <2>3. Unsupported(c) => Gap(Surface(c), task[c].req)
            BY <2>2, TurnedAway DEF Unsupported
      <2>4. ReadSensor(c) \/ ReadState(c) => task[c].req.type = "read"
            BY <2>2, TurnedAway, OnlyReads DEF ReadSensor, ReadState
      <2> QED BY <2>1, <2>3, <2>4, RequestEnded
<1>3. CASE ReadFails(c)
      BY <1>3, OverIs, RequestEnded
<1>4. CASE Return(c)
      <2>1. task'[c].pc = "idle" /\ task'[c].out = ""
            BY <1>4, OverIs
      <2> QED BY <2>1 DEF RequestOf
<1> QED BY <1>1, <1>2, <1>3, <1>4

\* A step of one task leaves the other callers' requests alone.
LEMMA AskedOthers ==
    ASSUME UNCHANGED fixed, AskedInv, NEW t \in Tasks, Others(t),
           t \in Callers => RequestOf(t)'
    PROVE  AskedInv'
<1>1. ASSUME NEW c \in Callers, c # t PROVE RequestOf(c)'
      <2>1. task'[c] = task[c]
            BY <1>1 DEF Others, Tasks
      <2> QED BY <2>1, RequestKept DEF AskedInv
<1> QED BY <1>1 DEF AskedInv

\* What becomes of a request, step by step.
LEMMA AskedStep == TypeInv /\ ReadInv /\ AskedInv /\ [Next]_vars => AskedInv'
<1> SUFFICES ASSUME TypeInv, ReadInv, AskedInv, [Next]_vars PROVE AskedInv'
    OBVIOUS
<1>0. /\ UNCHANGED fixed /\ "poll" \in Tasks /\ "poll" \notin Callers
      /\ \A c \in Callers : c \in Tasks /\ RequestOf(c)
      BY FixedStep DEF Tasks, Callers, AskedInv
<1>1. ASSUME NEW c \in Callers, Issue(c) PROVE AskedInv'
      BY <1>0, <1>1, IssueIs, AskedIssue, AskedOthers
<1>2. ASSUME NEW c \in Callers,
             Start(c) \/ Command(c) \/ Unsupported(c) \/ ReadSensor(c) \/ ReadState(c)
               \/ ReadFails(c) \/ Return(c)
      PROVE  AskedInv'
      <2>1. Others(c)
            BY <1>2, StartIs, AnswerIs, OverIs
      <2>2. RequestOf(c)'
            BY <1>0, <1>2, AskedCaller
      <2> QED BY <1>0, <2>1, <2>2, AskedOthers
<1>3. ASSUME NEW c \in Callers, Write(c) PROVE AskedInv'
      <2>1. PICK outcome \in {"ok", "lost", "failed"} :
                WriteEffect(c, task[c].req.set, task[c].req.val, outcome)
            BY <1>3, WriteIs
      <2>2. /\ \A t \in Tasks : t # c => /\ task'[t].pc = task[t].pc
                                         /\ task'[t].out = task[t].out
                                         /\ task'[t].did = task[t].did
            /\ \A t \in Tasks : task'[t].req = task[t].req
            /\ task'[c].pc = "ended" /\ task'[c].did = Label(task[c].req.set)
            /\ task'[c].out \in {"done", "failed"}
            BY <2>1 DEF WriteEffect
      <2>3. task[c].pc = "run" /\ task[c].req.type = "set" /\ task[c].req.set \in Settings
            BY <1>3, WriteIs DEF Write
      <2>4. Label(task[c].req.set) = task[c].req.name
            BY <1>0, <2>3, TurnedAway DEF RequestOf, Sound
      <2>5. RequestOf(c)'
            BY <1>0, <2>2, <2>3, <2>4, RequestEnded
      <2>6. ASSUME NEW d \in Callers, d # c PROVE RequestOf(d)'
            BY <1>0, <2>2, <2>6, RequestKept
      <2> QED BY <2>5, <2>6 DEF AskedInv
<1>4. ASSUME NEW t \in Tasks, Take(t) PROVE AskedInv'
      <2>1. /\ Others(t) /\ task'[t].req = task[t].req /\ task'[t].pc = task[t].pc
            /\ task'[t].out = task[t].out /\ task'[t].did = task[t].did
            BY <1>4, TakeIs DEF Others
      <2>2. t \in Callers => RequestOf(t)'
            BY <1>0, <2>1, RequestKept
      <2> QED BY <1>0, <2>1, <2>2, AskedOthers
<1>5. ASSUME NEW t \in Tasks, Keep(t) PROVE AskedInv'
      <2>1. task[t].todo # <<>> /\ task[t].pc = "run"
            BY <1>5 DEF Keep, ReadInv, GotOf, TodoOf
      <2>2. KeepEffect(t, task[t].got[1], task[t].got[2])
            BY <1>5, <2>1, KeepIs
      <2>3. Others(t) /\ task'[t].req = task[t].req
            BY <2>2 DEF KeepEffect, Others
      <2>4. CASE t \in Callers /\ EndsWithTable(t)
            <3>1. task[t].req.type = "read"
                  BY <2>1, <2>4 DEF ReadInv, GotOf, TodoOf
            <3>2. task'[t].pc = "ended" /\ task'[t].out = "done"
                  BY <2>2, <2>4 DEF KeepEffect
            <3>3. RequestOf(t)'
                  BY <1>0, <2>1, <2>3, <2>4, <3>1, <3>2, RequestEnded
            <3> QED BY <1>0, <2>3, <3>3, AskedOthers
      <2>5. CASE t \in Callers /\ ~EndsWithTable(t)
            <3>1. /\ task'[t].pc = "run" /\ task'[t].out = task[t].out
                  /\ task'[t].did = task[t].did
                  BY <2>2, <2>5 DEF KeepEffect
            <3>2. RequestOf(t)'
                  BY <1>0, <2>1, <2>3, <2>5, <3>1, RequestKept
            <3> QED BY <1>0, <2>3, <3>2, AskedOthers
      <2>6. CASE t \notin Callers
            BY <1>0, <2>3, <2>6, AskedOthers
      <2> QED BY <2>4, <2>5, <2>6
<1>6. ASSUME NEW s \in Touched, ChangeAtDevice(s) PROVE AskedInv'
      <2>1. s \in Settings /\ task' = Overtaken(s, task)
            BY <1>6 DEF ChangeAtDevice, TypeInv
      <2>2. \A t \in Tasks : /\ task'[t].req = task[t].req /\ task'[t].pc = task[t].pc
                             /\ task'[t].out = task[t].out /\ task'[t].did = task[t].did
            BY <2>1, OvertakenIs
      <2> QED BY <1>0, <2>2, RequestKept DEF AskedInv
<1>7. CASE PollStart \/ TableTimesOut \/ PollFails \/ PollEnds
      BY <1>0, <1>7, PollIs, AskedOthers DEF Others
<1>8. CASE Tick \/ ShowerChanges \/ UNCHANGED vars
      <2>1. task' = task
            BY <1>8 DEF Tick, ShowerChanges, vars
      <2> QED BY <1>0, <2>1, RequestKept DEF AskedInv
<1>9. CASE LinkLost
      <2>1. ASSUME NEW c \in Callers PROVE RequestOf(c)'
            <3>1. CASE task'[c] = task[c]
                  BY <1>0, <3>1, RequestKept
            <3>2. CASE /\ task[c].pc = "run" /\ task'[c].pc = "ended"
                       /\ task'[c].out = "failed" /\ task'[c].req = task[c].req
                  BY <1>0, <3>2, RequestEnded
            <3> QED BY <1>0, <1>9, <3>1, <3>2, LinkLostIs
      <2> QED BY <2>1 DEF AskedInv
<1> QED BY <1>0, <1>1, <1>2, <1>3, <1>4, <1>5, <1>6, <1>7, <1>8, <1>9
        DEF Next, Step, PollStep

\* A task that keeps what it has read, or has read nothing.
LEMMA GotKept ==
    ASSUME UNCHANGED fixed, NEW t \in Tasks,
           \/ GotOf(t) /\ task'[t].got = task[t].got /\ task'[t].todo = task[t].todo
           \/ task'[t].got = <<>>
    PROVE  GotOf(t)'
<1>1. CASE task'[t].got = <<>>
      BY <1>1 DEF GotOf
<1>2. CASE GotOf(t) /\ task'[t].got = task[t].got /\ task'[t].todo = task[t].todo
      <2>1. ReadIds(task[t].got[1])' = ReadIds(task'[t].got[1])
            BY FixedIs DEF ReadIds, Has
      <2> QED BY <1>2, <2>1 DEF GotOf
<1> QED BY <1>1, <1>2

\* A caller that goes on reading, while nobody else learns the profile, or has ended, or
\* has nothing to read.
LEMMA TodoKept ==
    ASSUME UNCHANGED fixed, NEW c \in Callers,
           \/ task'[c].todo = <<>>
           \/ /\ TodoOf(c) /\ task'[c].todo = task[c].todo /\ task'[c].req = task[c].req
              /\ \/ task'[c].pc = "ended"
                 \/ /\ task'[c].pc = task[c].pc
                    /\ task[c].pc = "run" /\ install = "on-demand" /\ ~known["profile"]
                          => ~known'["profile"]
    PROVE  TodoOf(c)'
<1>1. install' = install /\ (Bridge' <=> Bridge)
      BY FixedIs
<1>2. CASE task'[c].todo = <<>>
      BY <1>2 DEF TodoOf
<1>3. CASE task'[c].todo # <<>>
      <2>1. TodoOf(c) /\ task'[c].todo = task[c].todo /\ task'[c].req = task[c].req
            BY <1>3
      <2>2. EndsWithTable(c)' <=> EndsWithTable(c)
            BY <2>1 DEF EndsWithTable
      <2>3. /\ task[c].todo # <<>> /\ task[c].req.type = "read" /\ Bridge
            /\ \/ EndsWithTable(c)
               \/ task[c].pc = "run" =>
                     /\ install = "on-demand" /\ ~known["profile"]
                     /\ task[c].todo = <<"profile">>
            BY <1>3, <2>1 DEF TodoOf
      <2>4. task[c].pc # "wait"
            BY <2>1, <2>3 DEF TodoOf
      <2> QED BY <1>1, <1>3, <2>1, <2>2, <2>3, <2>4 DEF TodoOf
<1> QED BY <1>2, <1>3

\* A step of one task disturbs no other caller's reading: who makes a table known runs,
\* and on demand nobody else does.
LEMMA ReadOthers ==
    ASSUME LockInv, ReadInv, UNCHANGED fixed, NEW t \in Tasks, Others(t),
           UNCHANGED known \/ task[t].pc = "run",
           GotOf(t)', t \in Callers => TodoOf(t)'
    PROVE  ReadInv'
<1>1. ASSUME NEW u \in Tasks, u # t PROVE GotOf(u)'
      BY <1>1, GotKept DEF Others, ReadInv
<1>2. ASSUME NEW c \in Callers, c # t PROVE TodoOf(c)'
      <2>1. task'[c] = task[c] /\ c \in Tasks
            BY <1>2 DEF Others, Tasks
      <2>2. task[c].pc = "run" /\ install = "on-demand" /\ ~known["profile"]
               => ~known'["profile"]
            BY <1>2, <2>1 DEF LockInv
      <2> QED BY <2>1, <2>2, TodoKept DEF ReadInv
<1> QED BY <1>1, <1>2 DEF ReadInv

\* A caller gets a session: what it has to read is a read request's.
LEMMA ReadStart ==
    ASSUME TypeInv, AskedInv, ReadInv, UNCHANGED fixed, NEW c \in Callers, Start(c)
    PROVE  GotOf(c)' /\ TodoOf(c)'
<1>0. /\ c \in Tasks /\ task[c].pc = "wait" /\ task[c].todo = <<>> /\ task[c].got = <<>>
      /\ task'[c].got = task[c].got /\ task'[c].req = task[c].req
      BY StartIs DEF Tasks, ReadInv, GotOf, TodoOf
<1>1. GotOf(c)'
      BY <1>0, GotKept
<1>2. CASE task'[c].todo = task[c].todo
      BY <1>0, <1>1, <1>2, TodoKept
<1>3. CASE task'[c].todo # task[c].todo
      <2> DEFINE r == task[c].req
      <2>1. task'[c].pc = "run" /\ task'[c].todo = TablesAsked(r) /\ TablesAsked(r) # <<>>
            BY <1>0, <1>3, StartIs
      <2>2. r \in Offered(Surface(c)) /\ Sound(r)
            BY <1>0, TurnedAway DEF AskedInv, RequestOf
      <2>3. \/ r.type = "read" /\ r.name \in Tables
            \/ /\ r.name \in {"parameters", "status"} /\ install = "on-demand"
               /\ ~known["profile"] /\ TablesAsked(r) = <<"profile">>
            BY <2>1 DEF TablesAsked
      <2>4. r.type = "read"
            BY <2>2, <2>3, OnlyReads
      <2>5. Bridge
            <3>1. CASE Surface(c) = "hacs"
                  <4>1. install = "hacs" /\ r \in HacsOffered
                        BY <2>2, <3>1, RequestsAre DEF Offered, TypeInv
                  <4> QED BY <2>4, <4>1, HacsAsks DEF TypeInv
            <3>2. CASE Surface(c) # "hacs"
                  BY <3>2 DEF Surface
            <3> QED BY <3>1, <3>2
      <2>6. UNCHANGED known
            BY DEF Start
      <2>7. install' = install /\ (Bridge' <=> Bridge)
            BY FixedIs
      <2>8. EndsWithTable(c)' <=> r.name \in Tables
            BY <1>0 DEF EndsWithTable
      <2> HIDE DEF r
      <2>9. task'[c].req = r
            BY <1>0 DEF r
      <2> QED BY <1>0, <1>1, <2>1, <2>3, <2>4, <2>5, <2>6, <2>7, <2>8, <2>9 DEF TodoOf
<1> QED BY <1>2, <1>3

\* What is read, step by step.
LEMMA ReadStep == TypeInv /\ LockInv /\ ReadInv /\ AskedInv /\ [Next]_vars => ReadInv'
<1> SUFFICES ASSUME TypeInv, LockInv, ReadInv, AskedInv, [Next]_vars PROVE ReadInv'
    OBVIOUS
<1>0. /\ UNCHANGED fixed /\ "poll" \in Tasks /\ "poll" \notin Callers
      /\ \A c \in Callers : c \in Tasks /\ TodoOf(c)
      /\ \A t \in Tasks : GotOf(t)
      BY FixedStep DEF Tasks, Callers, ReadInv
<1>1. ASSUME NEW c \in Callers, Issue(c) PROVE ReadInv'
      <2>1. GotOf(c)' /\ TodoOf(c)'
            BY <1>0, <1>1, IssueIs, GotKept, TodoKept
      <2> QED BY <1>0, <1>1, <2>1, IssueIs, ReadOthers DEF Issue
<1>2. ASSUME NEW c \in Callers, Start(c) PROVE ReadInv'
      <2>1. GotOf(c)' /\ TodoOf(c)'
            BY <1>0, <1>2, ReadStart
      <2> QED BY <1>0, <1>2, <2>1, StartIs, ReadOthers DEF Start
<1>3. ASSUME NEW c \in Callers, Write(c) PROVE ReadInv'
      <2>1. PICK outcome \in {"ok", "lost", "failed"} :
                WriteEffect(c, task[c].req.set, task[c].req.val, outcome)
            BY <1>3, WriteIs
      <2>2. /\ \A t \in Tasks : t # c => task'[t].pc = task[t].pc
            /\ \A t \in Tasks : /\ task'[t].req = task[t].req /\ task'[t].got = task[t].got
                                /\ task'[t].todo = task[t].todo
            /\ task'[c].pc = "ended"
            BY <2>1 DEF WriteEffect
      <2>3. task[c].pc = "run"
            BY <1>3 DEF Write
      <2>4. ASSUME NEW t \in Tasks PROVE GotOf(t)'
            BY <1>0, <2>2, GotKept
      <2>5. ASSUME NEW d \in Callers PROVE TodoOf(d)'
            <3>1. CASE d = c
                  BY <1>0, <2>2, <3>1, TodoKept
            <3>2. CASE d # c
                  <4>1. task[d].pc = "run" => install # "on-demand"
                        BY <1>0, <2>3, <3>2 DEF LockInv
                  <4> QED BY <1>0, <2>2, <3>2, <4>1, TodoKept
            <3> QED BY <3>1, <3>2
      <2> QED BY <2>4, <2>5 DEF ReadInv
<1>4. ASSUME NEW c \in Callers,
             Command(c) \/ Unsupported(c) \/ ReadSensor(c) \/ ReadState(c)
      PROVE  ReadInv'
      <2>1. /\ Others(c) /\ task'[c].req = task[c].req /\ task'[c].got = task[c].got
            /\ task'[c].todo = task[c].todo /\ task'[c].pc = "ended" /\ task[c].pc = "run"
            BY <1>4, AnswerIs
      <2>2. GotOf(c)' /\ TodoOf(c)'
            BY <1>0, <2>1, GotKept, TodoKept
      <2> QED BY <1>0, <2>1, <2>2, ReadOthers
<1>5. ASSUME NEW c \in Callers, ReadFails(c) \/ Return(c) PROVE ReadInv'
      <2>1. Others(c) /\ task'[c].got = <<>> /\ task'[c].todo = <<>>
            BY <1>5, OverIs
      <2>2. GotOf(c)' /\ TodoOf(c)'
            BY <1>0, <2>1, GotKept, TodoKept
      <2>3. UNCHANGED known
            BY <1>5 DEF ReadFails, Return
      <2> QED BY <1>0, <2>1, <2>2, <2>3, ReadOthers
<1>6. ASSUME NEW t \in Tasks, Take(t) PROVE ReadInv'
      <2> DEFINE table == Head(task[t].todo)
      <2>1. /\ Others(t) /\ task'[t].req = task[t].req /\ task'[t].pc = task[t].pc
            /\ task'[t].todo = task[t].todo /\ task'[t].todo # <<>>
            /\ task'[t].got[1] = table
            /\ task'[t].got[2] = [s \in ReadIds(table) |-> dev[s]]
            BY <1>6, TakeIs DEF Others
      <2>2. UNCHANGED known
            BY <1>6 DEF Take
      <2>3. ReadIds(task[t].got[1])' = ReadIds(table)
            BY <1>0, <2>1, FixedIs DEF ReadIds, Has
      <2>4. DOMAIN task'[t].got[2] = ReadIds(table)
            BY <2>1
      <2>5. GotOf(t)'
            BY <2>1, <2>3, <2>4 DEF GotOf
      <2>6. t \in Callers => TodoOf(t)'
            BY <1>0, <2>1, <2>2, TodoKept
      <2> QED BY <1>0, <2>1, <2>2, <2>5, <2>6, ReadOthers
<1>7. ASSUME NEW t \in Tasks, Keep(t) PROVE ReadInv'
      <2>1. task[t].todo # <<>> /\ task[t].pc = "run"
            BY <1>7 DEF Keep, ReadInv, GotOf, TodoOf
      <2>2. KeepEffect(t, task[t].got[1], task[t].got[2])
            BY <1>7, <2>1, KeepIs
      <2>3. Others(t) /\ task'[t].got = <<>>
            BY <2>2 DEF KeepEffect, Others
      <2>4. GotOf(t)'
            BY <1>0, <2>3, GotKept
      <2>5. ASSUME t \in Callers PROVE TodoOf(t)'
            <3>1. CASE EndsWithTable(t)
                  BY <1>0, <2>2, <2>5, <3>1, TodoKept DEF KeepEffect
            <3>2. CASE ~EndsWithTable(t)
                  <4>1. task[t].todo = <<"profile">>
                        BY <1>0, <2>1, <2>5, <3>2 DEF TodoOf
                  <4>2. task'[t].todo = <<>>
                        BY <2>2, <3>2, <4>1, ListsOfTables DEF KeepEffect, Tables
                  <4> QED BY <1>0, <2>5, <4>2, TodoKept
            <3> QED BY <3>1, <3>2
      <2> QED BY <1>0, <2>1, <2>3, <2>4, <2>5, ReadOthers
<1>8. ASSUME NEW s \in Touched, ChangeAtDevice(s) PROVE ReadInv'
      <2>1. s \in Settings /\ task' = Overtaken(s, task) /\ UNCHANGED known
            BY <1>8 DEF ChangeAtDevice, TypeInv
      <2>2. \A t \in Tasks : /\ task'[t].req = task[t].req /\ task'[t].pc = task[t].pc
                             /\ task'[t].todo = task[t].todo /\ task'[t].got = task[t].got
            BY <2>1, OvertakenIs
      <2> QED BY <1>0, <2>1, <2>2, GotKept, TodoKept DEF ReadInv
<1>9. CASE PollStart \/ TableTimesOut \/ PollFails \/ PollEnds
      <2>1. Others("poll") /\ task'["poll"].got = <<>>
            BY <1>9, PollIs DEF Others
      <2>2. UNCHANGED known \/ task["poll"].pc = "run"
            BY <1>9 DEF PollStart, TableTimesOut, Reading, PollFails, PollEnds
      <2>3. GotOf("poll")'
            BY <1>0, <2>1, GotKept
      <2> QED BY <1>0, <2>1, <2>2, <2>3, ReadOthers
<1>10. CASE Tick \/ ShowerChanges \/ UNCHANGED vars
       <2>1. task' = task /\ known' = known
             BY <1>10 DEF Tick, ShowerChanges, vars
       <2> QED BY <1>0, <2>1, GotKept, TodoKept DEF ReadInv
<1>11. CASE LinkLost
       <2>1. UNCHANGED known
             BY <1>11 DEF LinkLost
       <2>2. Idle.got = <<>>
             BY DEF Idle
       <2>3. ASSUME NEW t \in Tasks PROVE GotOf(t)'
             BY <1>0, <1>11, <2>2, LinkLostIs, GotKept
       <2>4. ASSUME NEW c \in Callers PROVE TodoOf(c)'
             BY <1>0, <1>11, <2>1, LinkLostIs, TodoKept
       <2> QED BY <2>3, <2>4 DEF ReadInv
<1> QED BY <1>0, <1>1, <1>2, <1>3, <1>4, <1>5, <1>6, <1>7, <1>8, <1>9, <1>10, <1>11
        DEF Next, Step, PollStep

-----------------------------------------------------------------------------
(* What is cached against what the device has, and what is shown *)

\* A step that touches neither settings, caches nor labels, and takes no table.
Calm ==
    /\ UNCHANGED <<dev, cache, known, view, unsure>> /\ (mqtt' = "up" => mqtt = "up")
    /\ \A t \in Tasks : \/ task'[t].got = <<>>
                        \/ task'[t].got = task[t].got /\ task'[t].dirty = task[t].dirty
    /\ ~Bridge /\ okay' /\ ~refresh' /\ task'["poll"].pc # "run"
          => okay /\ ~refresh /\ task["poll"].pc # "run"

\* The steps that neither read, write nor publish a setting are calm.
LEMMA CalmIs ==
    ASSUME TypeInv, LockInv,
           \/ \E c \in Callers :
                 \/ Issue(c) \/ Start(c) \/ Command(c) \/ Unsupported(c) \/ ReadSensor(c)
                 \/ ReadState(c) \/ ReadFails(c) \/ Return(c)
           \/ ShowerChanges \/ PollStart \/ PollFails \/ Tick \/ LinkLost \/ UNCHANGED vars
    PROVE  Calm
<1>0. "poll" \in Tasks /\ \A c \in Callers : c \in Tasks /\ c # "poll"
      BY DEF Tasks, Callers
<1>1. ASSUME NEW c \in Callers,
             \/ Issue(c) \/ Start(c) \/ Command(c) \/ Unsupported(c) \/ ReadSensor(c)
             \/ ReadState(c) \/ ReadFails(c) \/ Return(c)
      PROVE  Calm
      <2>1. UNCHANGED <<dev, cache, known, view, unsure, okay, refresh>>
            BY <1>1 DEF Issue, Start, Command, Unsupported, ReadSensor, ReadState, ReadFails,
                        Return
      <2>2. /\ Others(c)
            /\ \/ task'[c].got = <<>>
               \/ task'[c].got = task[c].got /\ task'[c].dirty = task[c].dirty
            BY <1>1, IssueIs, StartIs, AnswerIs, OverIs
      <2>3. mqtt' = "up" => mqtt = "up"
            <3>1. CASE Issue(c) \/ ReadFails(c) \/ Return(c)
                  BY <3>1 DEF Issue, ReadFails, Return
            <3> QED BY <1>1, <3>1, StartIs, AnswerIs
      <2>4. task'["poll"] = task["poll"]
            BY <1>0, <2>2 DEF Others
      <2>5. \A t \in Tasks : \/ task'[t].got = <<>>
                             \/ task'[t].got = task[t].got /\ task'[t].dirty = task[t].dirty
            BY <2>2 DEF Others
      <2> QED BY <2>1, <2>3, <2>4, <2>5 DEF Calm
<1>2. CASE ShowerChanges \/ Tick \/ UNCHANGED vars
      <2>1. /\ UNCHANGED <<dev, cache, known, view, unsure, okay, refresh>>
            /\ task' = task /\ mqtt' = mqtt
            BY <1>2 DEF ShowerChanges, Tick, vars
      <2> QED BY <2>1 DEF Calm
<1>3. CASE PollStart
      <2>1. /\ UNCHANGED <<dev, cache, known, view, unsure>> /\ mqtt' = mqtt
            BY <1>3 DEF PollStart
      <2>2. /\ task'["poll"].pc = "run" /\ task'["poll"].got = <<>>
            /\ \A t \in Tasks : t # "poll" => task'[t] = task[t]
            BY <1>3, PollIs
      <2> QED BY <2>1, <2>2 DEF Calm
<1>4. CASE PollFails
      <2>1. /\ UNCHANGED <<dev, cache, known, view, unsure>> /\ mqtt' = mqtt /\ okay' = FALSE
            BY <1>4 DEF PollFails
      <2>2. /\ task'["poll"].got = <<>>
            /\ \A t \in Tasks : t # "poll" => task'[t] = task[t]
            BY <1>4, PollIs
      <2> QED BY <2>1, <2>2 DEF Calm
<1>5. CASE LinkLost
      <2>1. /\ UNCHANGED <<dev, cache, known, view, unsure>> /\ install = "persistent"
            /\ (mqtt' = "up" => mqtt = "up")
            BY <1>5 DEF LinkLost
      <2>2. Idle.got = <<>> /\ Bridge
            BY <2>1 DEF Idle, Bridge
      <2>3. \A t \in Tasks : task'[t].got = <<>> \/ task'[t] = task[t]
            BY <1>5, <2>2, LinkLostIs
      <2> QED BY <2>1, <2>2, <2>3 DEF Calm
<1> QED BY <1>1, <1>2, <1>3, <1>4, <1>5

\* Every other step writes or changes a setting, reads a table or ends a poll.
LEMMA StepIs ==
    ASSUME TypeInv, LockInv, [Next]_vars
    PROVE  \/ Calm
           \/ \E c \in Callers : Write(c)
           \/ \E s \in Touched : ChangeAtDevice(s)
           \/ \E t \in Tasks : Take(t) \/ Keep(t)
           \/ TableTimesOut \/ PollEnds
<1>1. "poll" \in Tasks /\ \A c \in Callers : c \in Tasks
      BY DEF Tasks
<1> QED BY <1>1, CalmIs DEF Next, Step, PollStep

\* What is taken is the device's, or marked.
LEMMA TakenStep ==
    TypeInv /\ LockInv /\ ReadInv /\ TakenInv /\ [Next]_vars => TakenInv'
<1> SUFFICES ASSUME TypeInv, LockInv, ReadInv, TakenInv, [Next]_vars PROVE TakenInv'
    OBVIOUS
<1>1. CASE Calm
      BY <1>1 DEF Calm, TakenInv
<1>2. ASSUME NEW s \in Settings,
             UNCHANGED dev \/ \E val : dev' = [dev EXCEPT ![s] = val],
             \A t \in Tasks :
                task'[t].got = task[t].got /\ task[t].dirty \subseteq task'[t].dirty,
             UNCHANGED dev \/ \A t \in Tasks :
                task[t].got # <<>> /\ task[t].got[1] = s[1] => s \in task'[t].dirty
      PROVE  TakenInv'
      <2> SUFFICES ASSUME NEW t \in Tasks, task'[t].got # <<>>, NEW u \in DOMAIN task[t].got[2]
                   PROVE  u \in task'[t].dirty \/ task[t].got[2][u] = dev'[u]
          BY <1>2 DEF TakenInv
      <2>1. /\ task[t].got # <<>> /\ task[t].got[1] \in Tables
            /\ DOMAIN task[t].got[2] = ReadIds(task[t].got[1])
            BY <1>2, TaskTypes DEF TypeInv, ReadInv, GotOf
      <2>2. u \in Settings /\ u[1] = task[t].got[1]
            BY <2>1, ReadIdsAre
      <2>3. u \in task'[t].dirty \/ task[t].got[2][u] = dev[u]
            BY <1>2, <2>1 DEF TakenInv
      <2>4. CASE u = s
            BY <1>2, <2>1, <2>2, <2>3, <2>4
      <2>5. CASE u # s
            BY <1>2, <2>2, <2>3, <2>5 DEF TypeInv
      <2> QED BY <2>4, <2>5
<1>3. ASSUME NEW c \in Callers, Write(c) PROVE TakenInv'
      <2> DEFINE s == task[c].req.set
                 val == task[c].req.val
      <2>1. PICK outcome \in {"ok", "lost", "failed"} : WriteEffect(c, s, val, outcome)
            BY <1>3, WriteIs
      <2>2. s \in Settings
            BY <1>3, WriteIs
      <2> HIDE DEF s, val
      <2> QED BY <1>2, <2>1, <2>2 DEF WriteEffect
<1>4. ASSUME NEW s \in Touched, ChangeAtDevice(s) PROVE TakenInv'
      <2>1. /\ s \in Settings /\ task' = Overtaken(s, task) /\ dev' = [dev EXCEPT ![s] = 1]
            BY <1>4 DEF ChangeAtDevice, TypeInv
      <2>2. \A t \in Tasks :
               /\ task'[t].got = task[t].got /\ task[t].dirty \subseteq task'[t].dirty
               /\ task[t].got # <<>> /\ task[t].got[1] = s[1] => s \in task'[t].dirty
            BY <2>1, OvertakenIs
      <2> QED BY <1>2, <2>1, <2>2
<1>5. ASSUME NEW t \in Tasks, Take(t) PROVE TakenInv'
      <2>1. /\ \A u \in Tasks : u # t => task'[u] = task[u]
            /\ task'[t].got[2] = [s \in ReadIds(Head(task[t].todo)) |-> dev[s]]
            BY <1>5, TakeIs
      <2>2. dev' = dev
            BY <1>5 DEF Take
      <2> QED BY <2>1, <2>2 DEF TakenInv
<1>6. ASSUME NEW t \in Tasks, Keep(t) PROVE TakenInv'
      <2>1. KeepEffect(t, task[t].got[1], task[t].got[2])
            BY <1>6, KeepIs DEF Keep, ReadInv, GotOf
      <2>2. dev' = dev
            BY <1>6 DEF Keep
      <2> QED BY <2>1, <2>2 DEF TakenInv, KeepEffect
<1>7. CASE TableTimesOut \/ PollEnds
      <2>1. dev' = dev
            BY <1>7 DEF TableTimesOut, PollEnds
      <2> QED BY <1>7, <2>1, PollIs DEF TakenInv
<1> QED BY <1>1, <1>3, <1>4, <1>5, <1>6, <1>7, StepIs

\* The four ends of a write.
LEMMA WrittenIs ==
    ASSUME TypeInv, NEW c \in Callers, Write(c)
    PROVE  LET s == task[c].req.set  val == task[c].req.val IN
           /\ s \in Settings /\ s[1] \in Tables /\ Has(s) /\ val \in Nat
           /\ UNCHANGED <<mqtt, okay>> /\ task'["poll"].pc = task["poll"].pc
           /\ \/ /\ Bridge /\ dev' = [dev EXCEPT ![s] = val] /\ unsure' = unsure \ {s}
                 /\ cache' = [cache EXCEPT ![s] = val]
                 /\ known' = [known EXCEPT ![s[1]] = TRUE]
                 /\ view' = (IF mqtt = "up" THEN Published(s[1], cache') ELSE view)
                 /\ refresh' = refresh
              \/ /\ ~Bridge /\ dev' = [dev EXCEPT ![s] = val] /\ unsure' = unsure \ {s}
                 /\ known' = [known EXCEPT ![s[1]] = FALSE]
                 /\ refresh' = TRUE /\ UNCHANGED <<cache, view>>
              \/ /\ dev' = [dev EXCEPT ![s] = val] /\ unsure' = unsure \cup {s}
                 /\ UNCHANGED <<cache, known, view, refresh>>
              \/ UNCHANGED <<dev, unsure, cache, known, view, refresh>>
<1> DEFINE s == task[c].req.set
           val == task[c].req.val
<1>1. PICK outcome \in {"ok", "lost", "failed"} : WriteEffect(c, s, val, outcome)
      BY WriteIs
<1>2. s \in Settings /\ s[1] \in Tables /\ Has(s) /\ val \in Nat
      BY WriteIs
<1>3. UNCHANGED <<mqtt, okay>>
      BY DEF Write
<1>4. task'["poll"].pc = task["poll"].pc
      BY <1>1 DEF WriteEffect, Tasks, Callers
<1> HIDE DEF s, val
<1>5. CASE outcome = "ok" /\ Bridge
      BY <1>1, <1>2, <1>3, <1>4, <1>5 DEF WriteEffect, StoreWritten, Confirmed, s, val
<1>6. CASE outcome = "ok" /\ ~Bridge
      BY <1>1, <1>2, <1>3, <1>4, <1>6 DEF WriteEffect, StoreWritten, Confirmed, s, val
<1>7. CASE outcome = "lost"
      BY <1>1, <1>2, <1>3, <1>4, <1>7 DEF WriteEffect, StoreWritten, Confirmed, s, val
<1>8. CASE outcome = "failed"
      BY <1>1, <1>2, <1>3, <1>4, <1>8 DEF WriteEffect, StoreWritten, Confirmed, s, val
<1> QED BY <1>5, <1>6, <1>7, <1>8

\* What keeping a table makes of the cache.
LEMMA KeptIs ==
    ASSUME TypeInv, ReadInv, TakenInv, NEW t \in Tasks, Keep(t)
    PROVE  LET table == task[t].got[1] IN
           /\ table \in Tables /\ task[t].pc = "run" /\ task[t].todo # <<>>
           /\ table = Head(task[t].todo)
           /\ dev' = dev /\ mqtt' = mqtt /\ known' = [known EXCEPT ![table] = TRUE]
           /\ cache' \in [Settings -> Nat \cup {NoVal}]
           /\ view' = IF Bridge /\ mqtt = "up" /\ (t = "poll" \/ EndsWithTable(t))
                      THEN Published(table, cache') ELSE view
           /\ \A s \in Settings :
                 /\ s[1] = table /\ s \in ReadIds(table) =>
                       cache'[s] # NoVal /\ (s \in unsure' \/ cache'[s] = dev[s])
                 /\ s[1] = table /\ s \notin ReadIds(table) => cache'[s] = NoVal
                 /\ s[1] # table => cache'[s] = cache[s] /\ (s \in unsure => s \in unsure')
<1> DEFINE table == task[t].got[1]
           dict == task[t].got[2]
<1>1. /\ task[t].got # <<>> /\ task[t].todo # <<>> /\ DOMAIN dict = ReadIds(table)
      /\ task[t].pc = "run" /\ table = Head(task[t].todo)
      BY DEF Keep, ReadInv, GotOf
<1>2. /\ KeepEffect(t, table, dict) /\ cache' \in [Settings -> Nat \cup {NoVal}]
      BY <1>1, KeepIs
<1>3. dev' = dev /\ mqtt' = mqtt
      BY DEF Keep
<1>4. \A s \in DOMAIN dict : s \in task[t].dirty \/ dict[s] = dev[s]
      BY <1>1 DEF TakenInv
<1> HIDE DEF table, dict
<1>5. /\ table \in Tables /\ dict \in Dicts /\ cache' = Merged(table, dict)
      /\ unsure' = (unsure \ In(table)) \cup task[t].dirty
      BY <1>2 DEF KeepEffect
<1>6. \A s \in DOMAIN dict : s \in Settings /\ dict[s] \in Nat /\ s[1] = table
      BY <1>1, <1>5, DictsAre, ReadIdsAre DEF table, dict
<1>7. \A s \in Settings : cache'[s] = IF s \in DOMAIN dict THEN dict[s]
                                      ELSE IF s[1] = table THEN NoVal ELSE cache[s]
      BY <1>5 DEF Merged
<1>8. \A s \in ReadIds(table) :
         cache'[s] # NoVal /\ (s \in unsure' \/ cache'[s] = dev[s])
      BY <1>1, <1>4, <1>5, <1>6, <1>7 DEF NoVal, table, dict
<1>9. \A s \in Settings : s[1] = table /\ s \notin ReadIds(table) => cache'[s] = NoVal
      BY <1>1, <1>7 DEF table, dict
<1>10. \A s \in Settings : s[1] # table =>
          cache'[s] = cache[s] /\ (s \in unsure => s \in unsure')
       BY <1>5, <1>6, <1>7 DEF In
<1> QED BY <1>1, <1>2, <1>3, <1>5, <1>8, <1>9, <1>10 DEF KeepEffect, table

\* A table that cannot be read is known and empty.
LEMMA TimedOutIs ==
    ASSUME TypeInv, TableTimesOut
    PROVE  LET table == Head(task["poll"].todo) IN
           /\ table \in Tables /\ UNCHANGED <<dev, mqtt, view, unsure>>
           /\ known' = [known EXCEPT ![table] = TRUE]
           /\ task["poll"].pc = "run" /\ task["poll"].todo # <<>>
           /\ \A s \in Settings : cache'[s] = IF s[1] = table THEN NoVal ELSE cache[s]
<1>1. Head(task["poll"].todo) \in Tables
      BY PollIs DEF NextTable
<1> QED BY <1>1, DictsAre DEF TableTimesOut, NextTable, Reading

\* The cache is exact, step by step.
LEMMA CacheStep ==
    TypeInv /\ LockInv /\ ReadInv /\ TakenInv /\ BlankInv /\ CacheExact /\ [Next]_vars
        => CacheExact'
<1> SUFFICES ASSUME TypeInv, LockInv, ReadInv, TakenInv, BlankInv, CacheExact, [Next]_vars,
                    NEW u \in Settings, known'[u[1]], cache'[u] # NoVal, u \notin unsure'
             PROVE  cache'[u] = dev'[u]
    BY DEF CacheExact
<1>0. u[1] \in Tables
      BY SettingsAre
<1>1. CASE Calm
      BY <1>1 DEF Calm, CacheExact
<1>2. ASSUME NEW c \in Callers, Write(c) PROVE cache'[u] = dev'[u]
      <2> DEFINE s == task[c].req.set
                 val == task[c].req.val
      <2>1. s \in Settings /\ s[1] \in Tables /\ val \in Nat
            BY <1>2, WrittenIs
      <2>2. \/ /\ Bridge /\ dev' = [dev EXCEPT ![s] = val] /\ unsure' = unsure \ {s}
               /\ cache' = [cache EXCEPT ![s] = val]
               /\ known' = [known EXCEPT ![s[1]] = TRUE]
            \/ /\ ~Bridge /\ dev' = [dev EXCEPT ![s] = val] /\ unsure' = unsure \ {s}
               /\ known' = [known EXCEPT ![s[1]] = FALSE]
               /\ UNCHANGED cache
            \/ /\ dev' = [dev EXCEPT ![s] = val] /\ unsure' = unsure \cup {s}
               /\ UNCHANGED <<cache, known>>
            \/ UNCHANGED <<dev, unsure, cache, known>>
            BY <1>2, WrittenIs
      <2> HIDE DEF s, val
      <2>3. CASE /\ Bridge /\ dev' = [dev EXCEPT ![s] = val] /\ unsure' = unsure \ {s}
                 /\ cache' = [cache EXCEPT ![s] = val]
                 /\ known' = [known EXCEPT ![s[1]] = TRUE]
            <3>1. CASE u = s
                  BY <2>1, <2>3, <3>1 DEF TypeInv
            <3>2. CASE u # s
                  <4>1. cache'[u] = cache[u] /\ dev'[u] = dev[u] /\ u \notin unsure
                        BY <2>1, <2>3, <3>2 DEF TypeInv
                  <4>2. known[u[1]]
                        BY <2>3, <4>1 DEF BlankInv
                  <4> QED BY <4>1, <4>2 DEF CacheExact
            <3> QED BY <3>1, <3>2
      <2>4. CASE /\ ~Bridge /\ dev' = [dev EXCEPT ![s] = val] /\ unsure' = unsure \ {s}
                 /\ known' = [known EXCEPT ![s[1]] = FALSE] /\ UNCHANGED cache
            <3>1. u[1] # s[1] /\ known[u[1]]
                  BY <1>0, <2>1, <2>4 DEF TypeInv
            <3>2. dev'[u] = dev[u] /\ u \notin unsure /\ cache'[u] = cache[u]
                  BY <2>1, <2>4, <3>1 DEF TypeInv
            <3> QED BY <3>1, <3>2 DEF CacheExact
      <2>5. CASE /\ dev' = [dev EXCEPT ![s] = val] /\ unsure' = unsure \cup {s}
                 /\ UNCHANGED <<cache, known>>
            BY <2>1, <2>5 DEF CacheExact, TypeInv
      <2>6. CASE UNCHANGED <<dev, unsure, cache, known>>
            BY <2>6 DEF CacheExact
      <2> QED BY <2>2, <2>3, <2>4, <2>5, <2>6
<1>3. ASSUME NEW s \in Touched, ChangeAtDevice(s) PROVE cache'[u] = dev'[u]
      <2>1. /\ s \in Settings /\ dev' = [dev EXCEPT ![s] = 1] /\ unsure' = unsure \cup {s}
            /\ UNCHANGED <<cache, known>>
            BY <1>3 DEF ChangeAtDevice, TypeInv
      <2> QED BY <2>1 DEF CacheExact, TypeInv
<1>4. ASSUME NEW t \in Tasks, Take(t) PROVE cache'[u] = dev'[u]
      BY <1>4 DEF Take, CacheExact
<1>5. ASSUME NEW t \in Tasks, Keep(t) PROVE cache'[u] = dev'[u]
      <2> DEFINE table == task[t].got[1]
      <2>1. /\ table \in Tables /\ dev' = dev /\ known' = [known EXCEPT ![table] = TRUE]
            /\ u[1] = table /\ u \in ReadIds(table) => u \in unsure' \/ cache'[u] = dev[u]
            /\ u[1] = table /\ u \notin ReadIds(table) => cache'[u] = NoVal
            /\ u[1] # table => cache'[u] = cache[u] /\ (u \in unsure => u \in unsure')
            BY <1>5, KeptIs
      <2> HIDE DEF table
      <2> QED BY <1>0, <2>1 DEF CacheExact, TypeInv
<1>6. CASE TableTimesOut
      <2> DEFINE table == Head(task["poll"].todo)
      <2>1. /\ table \in Tables /\ UNCHANGED <<dev, unsure>>
            /\ known' = [known EXCEPT ![table] = TRUE]
            /\ cache'[u] = IF u[1] = table THEN NoVal ELSE cache[u]
            BY <1>6, TimedOutIs
      <2> HIDE DEF table
      <2> QED BY <1>0, <2>1 DEF CacheExact, TypeInv
<1>7. CASE PollEnds
      BY <1>7 DEF PollEnds, CacheExact
<1> QED BY <1>1, <1>2, <1>3, <1>4, <1>5, <1>6, <1>7, StepIs

\* The cache has nothing that the device has not, step by step.
LEMMA BlankStep ==
    TypeInv /\ LockInv /\ ReadInv /\ TakenInv /\ BlankInv /\ [Next]_vars => BlankInv'
<1> SUFFICES ASSUME TypeInv, LockInv, ReadInv, TakenInv, BlankInv, [Next]_vars
             PROVE  BlankInv'
    OBVIOUS
<1>8. /\ \A s \in Settings : Has(s)' <=> Has(s)
      /\ Bridge' <=> Bridge
      BY FixedStep, FixedIs
<1> SUFFICES ASSUME NEW u \in Settings
             PROVE  /\ cache'[u] # NoVal => Has(u)
                    /\ Bridge /\ ~known'[u[1]] => cache'[u] = NoVal /\ view'[Label(u)] = NoVal
    BY <1>8 DEF BlankInv
<1>0. u[1] \in Tables /\ Label(u) \in Labels
      BY SettingsAre, LabelIs
<1>10. /\ cache[u] # NoVal => Has(u)
       /\ Bridge /\ ~known[u[1]] => cache[u] = NoVal /\ view[Label(u)] = NoVal
       BY DEF BlankInv
<1>1. CASE Calm
      BY <1>1, <1>10 DEF Calm
<1>2. ASSUME NEW c \in Callers, Write(c)
      PROVE  /\ cache'[u] # NoVal => Has(u)
             /\ Bridge /\ ~known'[u[1]] => cache'[u] = NoVal /\ view'[Label(u)] = NoVal
      <2> DEFINE s == task[c].req.set
                 val == task[c].req.val
      <2>1. s \in Settings /\ s[1] \in Tables /\ Has(s) /\ val \in Nat
            BY <1>2, WrittenIs
      <2>2. \/ /\ Bridge /\ cache' = [cache EXCEPT ![s] = val]
               /\ known' = [known EXCEPT ![s[1]] = TRUE]
               /\ view' = (IF mqtt = "up" THEN Published(s[1], cache') ELSE view)
            \/ ~Bridge /\ UNCHANGED cache
            \/ UNCHANGED <<cache, known, view>>
            BY <1>2, WrittenIs
      <2> HIDE DEF s, val
      <2>3. CASE /\ Bridge /\ cache' = [cache EXCEPT ![s] = val]
                 /\ known' = [known EXCEPT ![s[1]] = TRUE]
                 /\ view' = (IF mqtt = "up" THEN Published(s[1], cache') ELSE view)
            <3>1. cache'[u] # NoVal => Has(u)
                  BY <1>10, <2>1, <2>3 DEF TypeInv
            <3>2. ~known'[u[1]] => u[1] # s[1] /\ ~known[u[1]]
                  BY <1>0, <2>1, <2>3 DEF TypeInv
            <3>3. cache' \in [Settings -> Nat \cup {NoVal}]
                  BY <2>1, <2>3 DEF TypeInv
            <3>4. u[1] # s[1] => view'[Label(u)] = view[Label(u)]
                  <4>1. u[1] # s[1] => Published(s[1], cache')[Label(u)] = view[Label(u)]
                        BY <2>1, <3>3, PublishedIs DEF TypeInv
                  <4> QED BY <2>3, <4>1
            <3>5. u[1] # s[1] => cache'[u] = cache[u]
                  BY <2>1, <2>3 DEF TypeInv
            <3> QED BY <1>10, <3>1, <3>2, <3>4, <3>5
      <2>4. CASE ~Bridge /\ UNCHANGED cache
            BY <1>10, <2>4
      <2>5. CASE UNCHANGED <<cache, known, view>>
            BY <1>10, <2>5
      <2> QED BY <2>2, <2>3, <2>4, <2>5
<1>3. ASSUME NEW s \in Touched, ChangeAtDevice(s)
      PROVE  UNCHANGED <<cache, known, view>>
      BY <1>3 DEF ChangeAtDevice
<1>4. ASSUME NEW t \in Tasks, Take(t) PROVE UNCHANGED <<cache, known, view>>
      BY <1>4 DEF Take
<1>5. ASSUME NEW t \in Tasks, Keep(t)
      PROVE  /\ cache'[u] # NoVal => Has(u)
             /\ Bridge /\ ~known'[u[1]] => cache'[u] = NoVal /\ view'[Label(u)] = NoVal
      <2> DEFINE table == task[t].got[1]
      <2>1. /\ table \in Tables /\ known' = [known EXCEPT ![table] = TRUE]
            /\ u[1] = table /\ u \notin ReadIds(table) => cache'[u] = NoVal
            /\ u[1] # table => cache'[u] = cache[u]
            /\ cache' \in [Settings -> Nat \cup {NoVal}]
            /\ view' = Published(table, cache') \/ view' = view
            BY <1>5, KeptIs
      <2> HIDE DEF table
      <2>2. u \in ReadIds(table) => Has(u)
            BY <2>1, ReadIdsAre
      <2>3. u[1] # table => view'[Label(u)] = view[Label(u)]
            BY <2>1, PublishedIs DEF TypeInv
      <2> QED BY <1>0, <1>10, <2>1, <2>2, <2>3 DEF TypeInv
<1>6. CASE TableTimesOut
      <2> DEFINE table == Head(task["poll"].todo)
      <2>1. /\ table \in Tables /\ UNCHANGED view
            /\ known' = [known EXCEPT ![table] = TRUE]
            /\ cache'[u] = IF u[1] = table THEN NoVal ELSE cache[u]
            BY <1>6, TimedOutIs
      <2> HIDE DEF table
      <2> QED BY <1>0, <1>10, <2>1 DEF TypeInv
<1>7. CASE PollEnds
      BY <1>10, <1>7 DEF PollEnds
<1> QED BY <1>10, <1>1, <1>2, <1>3, <1>4, <1>5, <1>6, <1>7, StepIs

\* What the bridge publishes is the device's, step by step.
LEMMA PublishedStep ==
    /\ TypeInv /\ LockInv /\ ReadInv /\ TakenInv /\ BlankInv /\ PublishedInv /\ CacheExact'
    /\ BlankInv' /\ [Next]_vars
    => PublishedInv'
<1> SUFFICES ASSUME TypeInv, LockInv, ReadInv, TakenInv, BlankInv, PublishedInv, CacheExact',
                    BlankInv', [Next]_vars
             PROVE  PublishedInv'
    OBVIOUS
<1>8. /\ \A s \in Settings : ReadIds(s[1])' = ReadIds(s[1])
      /\ Bridge' <=> Bridge
      BY FixedStep, FixedIs
<1> SUFFICES ASSUME Bridge, mqtt' = "up", NEW u \in Settings, Label(u) \notin Swapped
             PROVE  /\ view'[Label(u)] # NoVal => u \in Keyed /\ u \in ReadIds(u[1])
                    /\ view'[Label(u)] \in {NoVal, dev'[u]} \/ u \in unsure'
    BY <1>8 DEF PublishedInv
<1> DEFINE Goal == /\ view'[Label(u)] # NoVal => u \in Keyed /\ u \in ReadIds(u[1])
                   /\ view'[Label(u)] \in {NoVal, dev'[u]} \/ u \in unsure'
<1>0. /\ u[1] \in Tables /\ Label(u) \in Labels
      /\ \A s \in Settings : (Has(s)' <=> Has(s))
      BY SettingsAre, LabelIs, FixedStep, FixedIs
<1>10. mqtt = "up" => /\ view[Label(u)] # NoVal => u \in Keyed /\ u \in ReadIds(u[1])
                      /\ view[Label(u)] \in {NoVal, dev[u]} \/ u \in unsure
       BY DEF PublishedInv
<1>11. /\ known'[u[1]] /\ cache'[u] # NoVal /\ u \notin unsure' => cache'[u] = dev'[u]
       /\ cache'[u] # NoVal => Has(u)
       BY <1>0 DEF CacheExact, BlankInv
<1>12. u \in Keyed /\ Has(u) => u \in ReadIds(u[1])
       BY ReadIdsAre DEF Keyed
<1>1. CASE Calm
      BY <1>1, <1>10 DEF Calm
<1>2. ASSUME NEW c \in Callers, Write(c) PROVE Goal
      <2> DEFINE s == task[c].req.set
                 val == task[c].req.val
      <2>1. s \in Settings /\ s[1] \in Tables /\ val \in Nat /\ mqtt' = mqtt
            BY <1>2, WrittenIs
      <2>2. \/ /\ dev' = [dev EXCEPT ![s] = val] /\ unsure' = unsure \ {s}
               /\ cache' = [cache EXCEPT ![s] = val]
               /\ known' = [known EXCEPT ![s[1]] = TRUE]
               /\ view' = (IF mqtt = "up" THEN Published(s[1], cache') ELSE view)
            \/ /\ dev' = [dev EXCEPT ![s] = val] /\ unsure' = unsure \cup {s}
               /\ UNCHANGED <<cache, known, view, refresh>>
            \/ UNCHANGED <<dev, unsure, cache, known, view, refresh>>
            BY <1>2, WrittenIs
      <2> HIDE DEF s, val
      <2>3. CASE /\ dev' = [dev EXCEPT ![s] = val] /\ unsure' = unsure \ {s}
                 /\ cache' = [cache EXCEPT ![s] = val]
                 /\ known' = [known EXCEPT ![s[1]] = TRUE]
                 /\ view' = (IF mqtt = "up" THEN Published(s[1], cache') ELSE view)
            <3>1. cache' \in [Settings -> Nat \cup {NoVal}]
                  BY <2>1, <2>3 DEF TypeInv
            <3>2. /\ u[1] # s[1] => view'[Label(u)] = view[Label(u)]
                  /\ u[1] = s[1] => view'[Label(u)] =
                        IF u \in Keyed /\ cache'[u] # NoVal THEN cache'[u] ELSE view[Label(u)]
                  <4> DEFINE pub == Published(s[1], cache')
                  <4>1. /\ u[1] # s[1] => pub[Label(u)] = view[Label(u)]
                        /\ u[1] = s[1] => pub[Label(u)] =
                              IF u \in Keyed /\ cache'[u] # NoVal THEN cache'[u]
                              ELSE view[Label(u)]
                        BY <2>1, <3>1, PublishedIs DEF TypeInv
                  <4>2. view' = pub
                        BY <2>1, <2>3
                  <4> HIDE DEF pub
                  <4> QED BY <4>1, <4>2
            <3>3. CASE u[1] = s[1] /\ u \in Keyed /\ cache'[u] # NoVal
                  <4>1. known'[u[1]]
                        BY <2>1, <2>3, <3>3 DEF TypeInv
                  <4> QED BY <1>11, <1>12, <3>2, <3>3, <4>1
            <3>4. CASE ~(u[1] = s[1] /\ u \in Keyed /\ cache'[u] # NoVal)
                  <4>1. view'[Label(u)] = view[Label(u)]
                        BY <3>2, <3>4
                  <4>2. u = s => u \notin Keyed
                        BY <2>1, <2>3, <3>4 DEF TypeInv, NoVal
                  <4>3. u = s => view[Label(u)] = NoVal
                        BY <1>10, <2>1, <4>2
                  <4>4. u # s => dev'[u] = dev[u] /\ (u \in unsure => u \in unsure')
                        BY <2>1, <2>3 DEF TypeInv
                  <4> QED BY <1>10, <2>1, <4>1, <4>3, <4>4
            <3> QED BY <3>3, <3>4
      <2>4. CASE /\ dev' = [dev EXCEPT ![s] = val] /\ unsure' = unsure \cup {s}
                 /\ UNCHANGED <<cache, known, view, refresh>>
            BY <1>10, <2>1, <2>4 DEF TypeInv
      <2>5. CASE UNCHANGED <<dev, unsure, cache, known, view, refresh>>
            BY <1>10, <2>1, <2>5
      <2> QED BY <2>2, <2>3, <2>4, <2>5
<1>3. ASSUME NEW s \in Touched, ChangeAtDevice(s) PROVE Goal
      <2>1. /\ s \in Settings /\ dev' = [dev EXCEPT ![s] = 1] /\ unsure' = unsure \cup {s}
            /\ UNCHANGED <<view, mqtt>>
            BY <1>3 DEF ChangeAtDevice, TypeInv
      <2> QED BY <1>10, <2>1 DEF TypeInv
<1>4. ASSUME NEW t \in Tasks, Take(t) PROVE Goal
      BY <1>4, <1>10 DEF Take
<1>5. ASSUME NEW t \in Tasks, Keep(t) PROVE Goal
      <2> DEFINE table == task[t].got[1]
      <2>1. /\ table \in Tables /\ known' = [known EXCEPT ![table] = TRUE]
            /\ dev' = dev /\ mqtt' = mqtt
            /\ table = Head(task[t].todo) /\ task[t].todo # <<>> /\ task[t].pc = "run"
            /\ cache' \in [Settings -> Nat \cup {NoVal}]
            /\ view' = IF Bridge /\ mqtt = "up" /\ (t = "poll" \/ EndsWithTable(t))
                       THEN Published(table, cache') ELSE view
            /\ u[1] = table /\ u \in ReadIds(table) => cache'[u] # NoVal
            /\ u[1] # table => (u \in unsure => u \in unsure')
            BY <1>5, KeptIs
      <2> HIDE DEF table
      <2>2. CASE u[1] # table
            <3>1. view'[Label(u)] = view[Label(u)]
                  BY <2>1, <2>2, PublishedIs DEF TypeInv
            <3> QED BY <1>10, <2>1, <2>2, <3>1
      <2>3. CASE u[1] = table /\ (t = "poll" \/ EndsWithTable(t))
            <3>1. view'[Label(u)] =
                     IF u \in Keyed /\ cache'[u] # NoVal THEN cache'[u] ELSE view[Label(u)]
                  BY <2>1, <2>3, PublishedIs DEF TypeInv
            <3>2. CASE u \in Keyed /\ cache'[u] # NoVal
                  <4>1. known'[u[1]]
                        BY <2>1, <2>3 DEF TypeInv
                  <4> QED BY <1>11, <1>12, <3>1, <3>2, <4>1
            <3>3. CASE ~(u \in Keyed /\ cache'[u] # NoVal)
                  <4>1. view[Label(u)] = NoVal
                        BY <1>10, <2>1, <2>3, <3>3
                  <4> QED BY <3>1, <3>3, <4>1
            <3> QED BY <3>2, <3>3
      <2>4. CASE u[1] = table /\ ~(t = "poll" \/ EndsWithTable(t))
            <3>1. t \in Callers /\ task[t].todo = <<"profile">> /\ ~known["profile"]
                  BY <2>1, <2>4 DEF Tasks, ReadInv, TodoOf
            <3>2. u[1] = "profile"
                  BY <2>1, <2>4, <3>1, ListsOfTables DEF Tables
            <3>3. view[Label(u)] = NoVal
                  BY <3>1, <3>2 DEF BlankInv
            <3>4. view' = view
                  BY <2>1, <2>4
            <3> QED BY <3>3, <3>4
      <2> QED BY <2>2, <2>3, <2>4
<1>6. CASE TableTimesOut
      <2>1. UNCHANGED <<dev, mqtt, view, unsure>>
            BY <1>6 DEF TableTimesOut
      <2> QED BY <1>10, <2>1
<1>7. CASE PollEnds
      BY <1>10, <1>7 DEF PollEnds
<1> QED BY <1>1, <1>2, <1>3, <1>4, <1>5, <1>6, <1>7, StepIs

\* What the entities show is the device's, step by step.
LEMMA EntitiesStep ==
    TypeInv /\ LockInv /\ ReadInv /\ CacheExact /\ EntitiesInv /\ [Next]_vars => EntitiesInv'
<1> SUFFICES ASSUME TypeInv, LockInv, ReadInv, CacheExact, EntitiesInv, [Next]_vars
             PROVE  EntitiesInv'
    OBVIOUS
<1>8. Bridge' <=> Bridge
      BY FixedStep, FixedIs
<1> SUFFICES ASSUME ~Bridge, okay', ~refresh', task'["poll"].pc # "run",
                    NEW u \in Settings
             PROVE  view'[Label(u)] \in {NoVal, dev'[u]} \/ u \in unsure'
    BY <1>8 DEF EntitiesInv
<1>0. /\ okay /\ ~refresh /\ task["poll"].pc # "run"
            => view[Label(u)] \in {NoVal, dev[u]} \/ u \in unsure
      BY DEF EntitiesInv
<1>1. CASE Calm
      BY <1>0, <1>1 DEF Calm
<1>2. ASSUME NEW c \in Callers, Write(c)
      PROVE  view'[Label(u)] \in {NoVal, dev'[u]} \/ u \in unsure'
      <2> DEFINE s == task[c].req.set
                 val == task[c].req.val
      <2>1. s \in Settings /\ okay' = okay /\ task'["poll"].pc = task["poll"].pc
            BY <1>2, WrittenIs
      <2>2. \/ /\ dev' = [dev EXCEPT ![s] = val] /\ unsure' = unsure \cup {s}
               /\ UNCHANGED <<view, refresh>>
            \/ UNCHANGED <<dev, unsure, view, refresh>>
            BY <1>2, WrittenIs
      <2> HIDE DEF s, val
      <2> QED BY <1>0, <2>1, <2>2 DEF TypeInv
<1>3. ASSUME NEW s \in Touched, ChangeAtDevice(s)
      PROVE  view'[Label(u)] \in {NoVal, dev'[u]} \/ u \in unsure'
      <2>1. /\ s \in Settings /\ dev' = [dev EXCEPT ![s] = 1] /\ unsure' = unsure \cup {s}
            /\ UNCHANGED <<view, okay, refresh>> /\ task' = Overtaken(s, task)
            BY <1>3 DEF ChangeAtDevice, TypeInv
      <2>2. task'["poll"].pc = task["poll"].pc
            BY <2>1, OvertakenIs DEF Tasks
      <2> QED BY <1>0, <2>1, <2>2 DEF TypeInv
<1>4. ASSUME NEW t \in Tasks, Take(t)
      PROVE  view'[Label(u)] \in {NoVal, dev'[u]} \/ u \in unsure'
      <2>1. task'["poll"].pc = task["poll"].pc
            BY <1>4, TakeIs DEF Tasks
      <2> QED BY <1>0, <1>4, <2>1 DEF Take
<1>5. ASSUME NEW t \in Tasks, Keep(t) PROVE FALSE
      <2>1. task[t].todo # <<>>
            BY <1>5 DEF Keep, ReadInv, GotOf
      <2>2. t = "poll"
            BY <2>1 DEF ReadInv, TodoOf, Tasks
      <2>3. task'["poll"].pc = "run"
            BY <1>5, <2>1, <2>2, KeepIs DEF KeepEffect, EndsWithTable, Callers
      <2> QED BY <2>3
<1>6. CASE TableTimesOut
      <2>1. FALSE
            BY <1>6, PollIs DEF TableTimesOut, Reading
      <2> QED BY <2>1
<1>7. CASE PollEnds
      <2>1. view' = Shown /\ UNCHANGED <<dev, unsure>>
            BY <1>7 DEF PollEnds
      <2>2. \/ Shown[Label(u)] = NoVal
            \/ known[u[1]] /\ Shown[Label(u)] = cache[u]
            BY ShownIs
      <2> QED BY <2>1, <2>2 DEF CacheExact
<1> QED BY <1>1, <1>2, <1>3, <1>4, <1>5, <1>6, <1>7, StepIs

-----------------------------------------------------------------------------
(* What is announced has a value, and the monitor is true *)

\* Nothing that was fed or missed is forgotten.
LEMMA FedGrows == [Next]_vars => fed \subseteq fed' /\ missed \subseteq missed'
<1> SUFFICES ASSUME [Next]_vars PROVE fed \subseteq fed' /\ missed \subseteq missed'
    OBVIOUS
<1>1. ASSUME NEW c \in Callers, Issue(c) \/ Step(c)
      PROVE  fed \subseteq fed' /\ missed \subseteq missed'
      <2>1. missed' = missed
            BY <1>1 DEF Step, Issue, Start, Write, Command, Unsupported, ReadSensor,
                        ReadState,
                        Take, Keep, ReadFails, Return
      <2>2. CASE Command(c) \/ ReadSensor(c)
            BY <2>1, <2>2 DEF Command, ReadSensor
      <2>3. CASE ~(Command(c) \/ ReadSensor(c))
            <3>1. fed' = fed
                  BY <1>1, <2>3 DEF Step, Issue, Start, Write, Unsupported, ReadState, Take,
                                    Keep, ReadFails, Return
            <3> QED BY <2>1, <3>1
      <2> QED BY <2>2, <2>3
<1>2. CASE \E s \in Touched : ChangeAtDevice(s)
      BY <1>2 DEF ChangeAtDevice
<1>3. CASE ShowerChanges \/ PollStart \/ TableTimesOut \/ PollFails \/ Tick \/ LinkLost
             \/ UNCHANGED vars
      BY <1>3 DEF ShowerChanges, PollStart, TableTimesOut, PollFails, Tick, LinkLost, vars
<1>4. CASE Take("poll") \/ Keep("poll")
      BY <1>4 DEF Take, Keep
<1>5. CASE PollEnds
      <2>1. missed' = missed
            BY <1>5 DEF PollEnds
      <2>2. fed \subseteq fed'
            BY <1>5 DEF PollEnds
      <2> QED BY <2>1, <2>2
<1> QED BY <1>1, <1>2, <1>3, <1>4, <1>5 DEF Next, PollStep

\* The bridge takes no value away, and never publishes again once paho's thread is dead.
LEMMA ViewGrows ==
    ASSUME TypeInv, LockInv, ReadInv, TakenInv, [Next]_vars
    PROVE  /\ mqtt' = "up" => mqtt = "up"
           /\ Bridge => \A l \in Labels : view[l] # NoVal => view'[l] # NoVal
<1>1. CASE Calm
      BY <1>1 DEF Calm
<1>2. ASSUME NEW table \in Tables, NEW dict \in [Settings -> Nat \cup {NoVal}],
             view' = Published(table, dict)
      PROVE  \A l \in Labels : view[l] # NoVal => view'[l] # NoVal
      BY <1>2, PublishedIs DEF TypeInv
<1>3. ASSUME NEW c \in Callers, Write(c)
      PROVE  /\ mqtt' = mqtt
             /\ Bridge => \A l \in Labels : view[l] # NoVal => view'[l] # NoVal
      <2> DEFINE s == task[c].req.set
                 val == task[c].req.val
      <2>1. /\ s \in Settings /\ s[1] \in Tables /\ val \in Nat /\ mqtt' = mqtt
            /\ \/ /\ cache' = [cache EXCEPT ![s] = val]
                  /\ view' = (IF mqtt = "up" THEN Published(s[1], cache') ELSE view)
               \/ view' = view
            BY <1>3, WrittenIs
      <2> HIDE DEF s, val
      <2>2. CASE view' = view
            BY <2>1, <2>2
      <2>3. CASE view' # view
            <3>1. cache' \in [Settings -> Nat \cup {NoVal}]
                  BY <2>1, <2>3 DEF TypeInv
            <3>2. view' = Published(s[1], cache')
                  BY <2>1, <2>3
            <3> QED BY <1>2, <2>1, <3>1, <3>2
      <2> QED BY <2>2, <2>3
<1>4. ASSUME NEW s \in Touched, ChangeAtDevice(s) PROVE UNCHANGED <<view, mqtt>>
      BY <1>4 DEF ChangeAtDevice
<1>5. ASSUME NEW t \in Tasks, Take(t) PROVE UNCHANGED <<view, mqtt>>
      BY <1>5 DEF Take
<1>6. ASSUME NEW t \in Tasks, Keep(t)
      PROVE  mqtt' = mqtt /\ \A l \in Labels : view[l] # NoVal => view'[l] # NoVal
      <2> DEFINE table == task[t].got[1]
      <2>1. /\ table \in Tables /\ mqtt' = mqtt
            /\ cache' \in [Settings -> Nat \cup {NoVal}]
            /\ view' = Published(table, cache') \/ view' = view
            BY <1>6, KeptIs
      <2> HIDE DEF table
      <2> QED BY <1>2, <2>1
<1>7. CASE TableTimesOut
      BY <1>7 DEF TableTimesOut
<1>8. CASE PollEnds
      BY <1>8 DEF PollEnds
<1> QED BY <1>1, <1>3, <1>4, <1>5, <1>6, <1>7, <1>8, StepIs

\* A step that is not the background task's.
Aside == /\ polled' = polled /\ task'["poll"].pc = task["poll"].pc
         /\ task'["poll"].todo = task["poll"].todo

\* Every step is aside, or one of those of the background task.
LEMMA AsideIs ==
    ASSUME TypeInv, ReadInv, [Next]_vars
    PROVE  \/ Aside
           \/ Keep("poll") \/ PollStart \/ TableTimesOut \/ PollFails \/ PollEnds \/ Tick
           \/ LinkLost
<1>0. "poll" \in Tasks /\ \A c \in Callers : c \in Tasks /\ c # "poll"
      BY DEF Tasks, Callers
<1>1. ASSUME NEW c \in Callers, Issue(c) \/ Step(c) PROVE Aside
      <2>1. polled' = polled
            BY <1>1 DEF Step, Issue, Start, Write, Command, Unsupported, ReadSensor,
                        ReadState,
                        Take, Keep, ReadFails, Return
      <2>2. CASE Write(c)
            <3>1. PICK outcome \in {"ok", "lost", "failed"} :
                      WriteEffect(c, task[c].req.set, task[c].req.val, outcome)
                  BY <2>2, WriteIs
            <3> QED BY <1>0, <2>1, <3>1 DEF WriteEffect, Aside
      <2>3. CASE ~Write(c)
            <3>1. Others(c)
                  <4>1. CASE Take(c)
                        BY <1>0, <4>1, TakeIs DEF Others
                  <4>2. CASE Keep(c)
                        BY <1>0, <4>2, KeepIs DEF Keep, KeepEffect, Others, ReadInv, GotOf
                  <4> QED BY <1>1, <2>3, <4>1, <4>2, IssueIs, StartIs, AnswerIs, OverIs
                             DEF Step
            <3> QED BY <1>0, <2>1, <3>1 DEF Others, Aside
      <2> QED BY <2>2, <2>3
<1>2. ASSUME NEW s \in Touched, ChangeAtDevice(s) PROVE Aside
      <2>1. s \in Settings /\ task' = Overtaken(s, task) /\ polled' = polled
            BY <1>2 DEF ChangeAtDevice, TypeInv
      <2> QED BY <1>0, <2>1, OvertakenIs DEF Aside
<1>3. CASE ShowerChanges \/ UNCHANGED vars
      BY <1>3 DEF ShowerChanges, vars, Aside
<1>4. CASE Take("poll")
      <2>1. polled' = polled
            BY <1>4 DEF Take
      <2> QED BY <1>0, <1>4, <2>1, TakeIs DEF Aside
<1> QED BY <1>1, <1>2, <1>3, <1>4 DEF Next, PollStep

\* What has been fed, step by step.
LEMMA FedStep ==
    TypeInv /\ LockInv /\ ReadInv /\ TakenInv /\ FedInv /\ [Next]_vars => FedInv'
<1> SUFFICES ASSUME TypeInv, LockInv, ReadInv, TakenInv, FedInv, [Next]_vars PROVE FedInv'
    OBVIOUS
<1>0. /\ install' = install /\ kind' = kind /\ Supply(kind)' = Supply(kind)
      /\ fed \subseteq fed' /\ (mqtt' = "up" => mqtt = "up") /\ "poll" \in Tasks
      BY FixedStep, FixedIs, FedGrows, ViewGrows DEF Supply, Tasks
<1>1. CASE /\ polled' = polled
           /\ task'["poll"].pc \in {"run", "polling"} => task["poll"].pc \in {"run", "polling"}
      BY <1>0, <1>1 DEF FedInv
<1>2. CASE Aside
      BY <1>1, <1>2 DEF Aside
<1>3. CASE Keep("poll")
      <2>1. polled' = polled /\ task["poll"].pc = "run"
            BY <1>3 DEF Keep
      <2> QED BY <1>1, <2>1
<1>4. CASE PollStart
      <2>1. polled' = polled
            BY <1>4 DEF PollStart
      <2>2. install = "persistent" /\ mqtt' = "up" => ConnectFeeds \subseteq fed'
            BY <1>4 DEF PollStart
      <2> QED BY <1>0, <2>1, <2>2 DEF FedInv
<1>5. CASE TableTimesOut
      <2>1. polled' = polled /\ task["poll"].pc = "run"
            BY <1>5 DEF TableTimesOut, Reading
      <2> QED BY <1>1, <2>1
<1>6. CASE PollFails
      <2>1. polled' = polled /\ task["poll"].pc = "run"
            BY <1>6 DEF PollFails
      <2> QED BY <1>1, <2>1
<1>7. CASE PollEnds
      <2>1. task["poll"].pc = "run" /\ mqtt' = mqtt
            BY <1>7 DEF PollEnds
      <2>2. CASE install = "hacs"
            <3>1. fed' = fed \cup Supply(kind)
                  BY <1>7, <2>2 DEF PollEnds
            <3> QED BY <1>0, <2>2, <3>1 DEF FedInv
      <2>3. CASE install = "on-demand"
            <3>1. mqtt = "up" /\ kind = "mera" => fed' = fed \cup FirstPollFeeds
                  BY <1>7, <2>3 DEF PollEnds
            <3> QED BY <1>0, <2>1, <2>3, <3>1 DEF FedInv
      <2>4. CASE install = "persistent"
            <3>1. polled' => polled
                  BY <1>7, <2>4 DEF PollEnds
            <3> QED BY <1>0, <2>1, <2>4, <3>1 DEF FedInv
      <2> QED BY <2>2, <2>3, <2>4 DEF TypeInv, InstallOK
<1>8. CASE Tick
      <2>1. /\ install = "persistent" /\ task' = task /\ mqtt' = mqtt
            /\ mqtt = "up" => fed' = fed \cup PersistentPollFeeds
            /\ task["poll"].pc = "polling"
            BY <1>8 DEF Tick, LockInv
      <2> QED BY <1>0, <2>1 DEF FedInv
<1>9. CASE LinkLost
      <2>1. polled' = polled /\ task'["poll"] = Idle /\ Idle.pc = "idle"
            BY <1>0, <1>9, LinkLostIs DEF LinkLost, Idle, Callers
      <2> QED BY <1>1, <2>1
<1> QED BY <1>2, <1>3, <1>4, <1>5, <1>6, <1>7, <1>8, <1>9, AsideIs

\* The numbers of the profile table once read, and as long as nothing is taken away.
LEMMA ProfileKept ==
    ASSUME TypeInv, LockInv, ReadInv, TakenInv, [Next]_vars, Bridge, ProfileShown
    PROVE  ProfileShown'
<1>1. \A n \in DiscoveryProfileNumbers : n[1] \in Labels
      BY ProfileNumbers, LabelIs
<1> QED BY <1>1, FedGrows, ViewGrows DEF ProfileShown

\* The background task reads the profile and publishes it, or misses it.
LEMMA ProfileIsRead ==
    ASSUME TypeInv, ReadInv, TakenInv, Bridge, kind = "mera", mqtt = "up", Keep("poll"),
           Head(task["poll"].todo) = "profile"
    PROVE  ProfileShown'
<1>1. /\ cache' \in [Settings -> Nat \cup {NoVal}]
      /\ view' = Published("profile", cache')
      /\ \A s \in Settings : s[1] = "profile" /\ s \in ReadIds("profile") => cache'[s] # NoVal
      BY KeptIs DEF Tasks
<1>2. ASSUME NEW n \in DiscoveryProfileNumbers PROVE view'[n[1]] # NoVal
      <2> DEFINE s == <<"profile", n[2]>>
      <2>1. /\ s \in Settings /\ Label(s) = n[1] /\ n[1] \in ProfileLabels
            /\ n[2] \in (0 .. 10 \cup {13}) \ {10} /\ s[1] = "profile" /\ s[2] = n[2]
            BY ProfileNumbers
      <2>2. Label(s) \notin Swapped
            BY <2>1 DEF Swapped, ProfileLabels
      <2>3. s \in Keyed
            BY <2>1, <2>2 DEF Keyed
      <2>4. s \in ReadIds("profile")
            BY <2>1, ReadIdsAre DEF Has
      <2> HIDE DEF s
      <2>5. view'[Label(s)] = cache'[s]
            BY <1>1, <2>1, <2>2, <2>3, <2>4, PublishedIs DEF TypeInv, Tables
      <2> QED BY <1>1, <2>1, <2>4, <2>5
<1> QED BY <1>2 DEF ProfileShown

\* What is announced and shown, step by step.
LEMMA ShownStep ==
    TypeInv /\ LockInv /\ ReadInv /\ TakenInv /\ ShownInv /\ [Next]_vars => ShownInv'
<1> SUFFICES ASSUME TypeInv, LockInv, ReadInv, TakenInv, ShownInv, [Next]_vars
             PROVE  ShownInv'
    OBVIOUS
<1>0. /\ install' = install /\ kind' = kind /\ (Bridge' <=> Bridge)
      /\ (mqtt' = "up" => mqtt = "up") /\ "poll" \in Tasks
      BY FixedStep, FixedIs, ViewGrows DEF Tasks
<1> SUFFICES ASSUME Bridge, kind = "mera", mqtt' = "up"
             PROVE  /\ polled' \/ task'["poll"].pc = "polling" => ProfileShown'
                    /\ task'["poll"].pc = "run" =>
                          \/ ProfileShown'
                          \/ task'["poll"].todo # <<>> /\ Head(task'["poll"].todo) = "profile"
    BY <1>0 DEF ShownInv
<1>10. /\ polled \/ task["poll"].pc = "polling" => ProfileShown
       /\ task["poll"].pc = "run" =>
              \/ ProfileShown
              \/ task["poll"].todo # <<>> /\ Head(task["poll"].todo) = "profile"
       /\ mqtt = "up"
       BY <1>0 DEF ShownInv
<1>11. ProfileShown => ProfileShown'
       BY ProfileKept
<1>1. CASE Aside
      BY <1>1, <1>10, <1>11 DEF Aside
<1>2. CASE Keep("poll")
      <2>1. task["poll"].pc = "run" /\ task["poll"].todo # <<>> /\ polled' = polled
            BY <1>0, <1>2 DEF Keep, ReadInv, GotOf
      <2>2. ProfileShown'
            BY <1>2, <1>10, <1>11, <2>1, ProfileIsRead
      <2> QED BY <2>2
<1>3. CASE PollStart
      <2>1. /\ task'["poll"].pc = "run" /\ task'["poll"].todo = TablesToRead
            /\ polled' = polled
            BY <1>3, PollIs DEF PollStart
      <2>2. CASE polled
            BY <1>10, <1>11, <2>1, <2>2
      <2>3. CASE ~polled
            <3>1. TablesToRead = <<"profile", "common">>
                  BY <2>3 DEF TablesToRead, TypeInv, InstallOK, Bridge
            <3>2. TablesToRead # <<>> /\ Head(TablesToRead) = "profile"
                  BY <3>1, ListsOfTables
            <3> QED BY <2>1, <2>3, <3>2
      <2> QED BY <2>2, <2>3
<1>4. CASE TableTimesOut
      <2> DEFINE table == Head(task["poll"].todo)
      <2>1. /\ task["poll"].pc = "run" /\ polled' = polled /\ missed' = missed \cup {table}
            BY <1>4 DEF TableTimesOut, Reading, NextTable
      <2>2. table = "profile" => ProfileShown'
            BY <2>1 DEF ProfileShown
      <2> HIDE DEF table
      <2>3. ProfileShown'
            BY <1>10, <1>11, <2>1, <2>2 DEF table
      <2> QED BY <2>3
<1>5. CASE PollFails
      <2>1. polled' = polled /\ task'["poll"] = Idle /\ Idle.pc = "idle"
            BY <1>5, PollIs DEF PollFails, Idle
      <2> QED BY <1>10, <1>11, <2>1
<1>6. CASE PollEnds
      <2>1. task["poll"].pc = "run" /\ task["poll"].todo = <<>>
            BY <1>6 DEF PollEnds
      <2> QED BY <1>10, <1>11, <2>1
<1>7. CASE Tick
      <2>1. task["poll"].pc = "polling" /\ task' = task
            BY <1>7 DEF Tick
      <2> QED BY <1>10, <1>11, <2>1
<1>8. CASE LinkLost
      <2>1. polled' = polled /\ task'["poll"] = Idle /\ Idle.pc = "idle"
            BY <1>0, <1>8, LinkLostIs DEF LinkLost, Idle, Callers
      <2> QED BY <1>10, <1>11, <2>1
<1> QED BY <1>1, <1>2, <1>3, <1>4, <1>5, <1>6, <1>7, <1>8, AsideIs

\* What the three installations feed is what they announce, but for the named groups.
LEMMA AllFed ==
    ASSUME TypeInv, FedInv, ShownInv
    PROVE  NothingBlank
<1>1. ASSUME polled, install = "hacs"
      PROVE  \A g \in Sensors(model) :
                SensorAvailable(g, kind) =>
                   g \in fed \/ (model = "unknown" /\ kind = "alba" /\ g \in SensorsOld)
      <2>1. Supply(kind) \subseteq fed
            BY <1>1 DEF FedInv
      <2>2. \A g \in Sensors(model) : SensorAvailable(g, kind) =>
               \/ g \in Supply(kind)
               \/ model = "unknown" /\ kind = "alba" /\ g \in SensorsOld
            <3>1. CASE kind = "mera"
                  <4>1. \A g \in SensorsAlba : ~SensorAvailable(g, kind)
                        BY <3>1 DEF SensorAvailable
                  <4>2. SensorsAll \cup Always \cup SensorsOld \subseteq Supply(kind)
                        BY <3>1 DEF Supply, SensorsAll, SensorsOld, CommonSupply, MeraSupply
                  <4> QED BY <4>1, <4>2 DEF Sensors
            <3>2. CASE kind = "alba"
                  <4>1. SensorsAll \cup Always \cup SensorsAlba \subseteq Supply(kind)
                        BY <3>2 DEF Supply, SensorsAll, CommonSupply, AlbaSupply
                  <4>2. model \in {"unknown", "alba"}
                        BY <1>1, <3>2 DEF TypeInv, InstallOK
                  <4> QED BY <3>2, <4>1, <4>2 DEF Sensors
            <3> QED BY <3>1, <3>2 DEF TypeInv, InstallOK
      <2> QED BY <2>1, <2>2
<1>2. ASSUME polled, Bridge, kind = "mera", mqtt = "up"
      PROVE  /\ DiscoverySensors \ fed \subseteq
                   {"descale", "soc", "pollInterval"}
                   \cup (IF install = "persistent" THEN {"filter"} ELSE {})
             /\ \A n \in DiscoveryProfileNumbers : view[n[1]] # NoVal \/ "profile" \in missed
      <2>1. /\ DiscoverySensors \ fed \subseteq
                 {"descale", "soc", "pollInterval"}
                 \cup (IF install = "persistent" THEN {"filter"} ELSE {})
            <3>1. CASE install = "on-demand"
                  <4>1. FirstPollFeeds \subseteq fed
                        BY <1>2, <3>1 DEF FedInv
                  <4>2. DiscoverySensors \ FirstPollFeeds
                           \subseteq {"descale", "soc", "pollInterval"}
                        BY DEF DiscoverySensors, DiscoveryMonitor, DiscoveryIdentification,
                               DiscoveryFilter, DiscoveryDescale, DiscoverySystem, FirstPollFeeds
                  <4> QED BY <4>1, <4>2
            <3>2. CASE install = "persistent"
                  <4>1. ConnectFeeds \cup PersistentPollFeeds \subseteq fed
                        BY <1>2, <3>2 DEF FedInv
                  <4>2. DiscoverySensors \ (ConnectFeeds \cup PersistentPollFeeds)
                           \subseteq {"descale", "soc", "pollInterval", "filter"}
                        BY DEF DiscoverySensors, DiscoveryMonitor, DiscoveryIdentification,
                               DiscoveryFilter, DiscoveryDescale, DiscoverySystem, ConnectFeeds,
                               PersistentPollFeeds
                  <4> QED BY <3>2, <4>1, <4>2
            <3> QED BY <1>2, <3>1, <3>2 DEF TypeInv, InstallOK, Bridge
      <2>2. ProfileShown
            BY <1>2 DEF ShownInv
      <2> QED BY <2>1, <2>2 DEF ProfileShown
<1> QED BY <1>1, <1>2 DEF NothingBlank

\* A poll of the permanent session leaves the monitor with the client's reading.
LEMMA MonitorPolled ==
    ASSUME MonitorInv, install' = install, install = "persistent", PolledState,
           UNCHANGED shower
    PROVE  MonitorInv'
BY DEF MonitorInv, MonitorTrue, PolledState, Changes

\* The monitor, step by step.
LEMMA MonitorStep == TypeInv /\ LockInv /\ MonitorInv /\ [Next]_vars => MonitorInv'
<1> SUFFICES ASSUME TypeInv, LockInv, MonitorInv, [Next]_vars PROVE MonitorInv'
    OBVIOUS
<1>0. install' = install
      BY FixedStep, FixedIs
<1>1. CASE UNCHANGED monitor
      BY <1>0, <1>1 DEF monitor, MonitorInv, MonitorTrue
<1>2. ASSUME NEW c \in Callers, Issue(c) \/ Step(c), ~ReadState(c) PROVE UNCHANGED monitor
      BY <1>2 DEF monitor, Step, Issue, Start, Write, Command, Unsupported, ReadSensor, Take,
                  Keep, ReadFails, Return
<1>3. ASSUME NEW c \in Callers, ReadState(c) PROVE MonitorInv'
      <2>1. UNCHANGED shower
            BY <1>3 DEF ReadState
      <2>2. CASE install = "persistent" /\ PolledState
            BY <1>0, <2>1, <2>2, MonitorPolled
      <2>3. CASE /\ shown' = shower /\ UNCHANGED last
                 /\ heard' = IF install = "persistent" THEN "bypassed" ELSE "none"
            BY <1>0, <2>1, <2>3 DEF MonitorInv, MonitorTrue
      <2> QED BY <1>3, <2>2, <2>3 DEF ReadState
<1>4. CASE (\E s \in Touched : ChangeAtDevice(s)) \/ Take("poll") \/ Keep("poll")
             \/ TableTimesOut \/ PollFails \/ LinkLost \/ UNCHANGED vars
      <2>1. UNCHANGED monitor
            BY <1>4 DEF monitor, ChangeAtDevice, Take, Keep, TableTimesOut, PollFails,
                        LinkLost,
                        vars
      <2> QED BY <1>1, <2>1
<1>5. CASE ShowerChanges
      BY <1>0, <1>5 DEF ShowerChanges, MonitorInv, MonitorTrue
<1>6. CASE PollStart
      BY <1>0, <1>6 DEF PollStart, MonitorInv, MonitorTrue
<1>7. CASE PollEnds
      BY <1>0, <1>7 DEF PollEnds, MonitorInv, MonitorTrue
<1>8. CASE Tick
      <2>1. install = "persistent" /\ PolledState /\ UNCHANGED shower
            BY <1>8 DEF Tick, LockInv
      <2> QED BY <1>0, <2>1, MonitorPolled
<1> QED BY <1>1, <1>2, <1>3, <1>4, <1>5, <1>6, <1>7, <1>8 DEF Next, Step, PollStep

-----------------------------------------------------------------------------
(* The invariant and what follows from it *)

\* Every layer of the argument.
ControlsInv ==
    /\ TypeInv /\ LockInv /\ ReadInv /\ TakenInv
    /\ BlankInv /\ CacheExact /\ PublishedInv /\ EntitiesInv
    /\ FedInv /\ ShownInv /\ MonitorInv /\ AskedInv

\* Nothing is known, shown or asked at the start.
LEMMA InvInit == Init => ControlsInv
<1> SUFFICES ASSUME Init PROVE ControlsInv
    OBVIOUS
<1>1. TypeInv
      BY TypeInit
<1>2. \A t \in Tasks : task[t] = Idle
      BY DEF Init
<1>3. \A c \in Callers : c \in Tasks
      BY DEF Tasks
<1>4. /\ Idle.pc = "idle" /\ Idle.req = NoReq /\ Idle.todo = <<>> /\ Idle.got = <<>>
      /\ Idle.out = "" /\ NoReq.type = "none"
      BY DEF Idle, NoReq
<1>5. "poll" \in Tasks
      BY DEF Tasks
<1>6. LockInv /\ ReadInv /\ TakenInv
      BY <1>2, <1>3, <1>4, <1>5 DEF LockInv, ReadInv, GotOf, TodoOf, TakenInv
<1>7. AskedInv
      BY <1>2, <1>3, <1>4 DEF AskedInv, RequestOf
<1>8. /\ \A s \in Settings : cache[s] = NoVal /\ view[Label(s)] = NoVal
      /\ \A t \in Tables : known[t] = FALSE
      BY LabelIs DEF Init
<1>9. BlankInv /\ PublishedInv /\ EntitiesInv
      BY <1>8 DEF BlankInv, PublishedInv, EntitiesInv
<1>10. CacheExact
      BY <1>8 DEF CacheExact
<1>11. ~polled /\ task["poll"].pc = "idle"
      BY <1>2, <1>4, <1>5 DEF Init
<1>12. FedInv /\ ShownInv
      BY <1>11 DEF FedInv, ShownInv
<1>13. MonitorInv
      BY DEF Init, MonitorInv, MonitorTrue
<1> QED BY <1>1, <1>6, <1>7, <1>9, <1>10, <1>12, <1>13 DEF ControlsInv

\* Every step preserves every layer; what is published rests on the cache after the step.
LEMMA InvStep == ControlsInv /\ [Next]_vars => ControlsInv'
<1> SUFFICES ASSUME ControlsInv, [Next]_vars PROVE ControlsInv'
    OBVIOUS
<1> USE DEF ControlsInv
<1>1. TypeInv' /\ LockInv' /\ ReadInv' /\ TakenInv'
      BY TypeStep, LockStep, ReadStep, TakenStep
<1>2. BlankInv' /\ CacheExact'
      BY BlankStep, CacheStep
<1>3. PublishedInv' /\ EntitiesInv'
      BY <1>2, PublishedStep, EntitiesStep
<1>4. FedInv' /\ ShownInv' /\ MonitorInv' /\ AskedInv'
      BY FedStep, ShownStep, MonitorStep, AskedStep
<1> QED BY <1>1, <1>2, <1>3, <1>4

\* The invariant holds in every reachable state.
THEOREM ControlsInvariant == Spec => []ControlsInv
BY InvInit, InvStep, PTL DEF Spec

\* The cached settings are the device's, whatever the order in which polls, REST reads,
\* writes and reconnects replace and patch the cached dicts.
THEOREM CacheIsExact == Spec => []CacheExact
<1>1. ControlsInv => CacheExact
      BY DEF ControlsInv
<1> QED BY <1>1, ControlsInvariant, PTL

\* What is read under a label is the device's value of the setting with that label: in the
\* bridge by what is published with each read, in the integration by its last poll.
THEOREM LabelsAreTrue == Spec => []LabelsTrue
<1>1. ASSUME ControlsInv, Quiet, Current, NEW s \in Settings
      PROVE  \/ view[Label(s)] \in {NoVal, dev[s]}
             \/ s \in unsure
             \/ Bridge /\ Label(s) \in Swapped
      <2>1. CASE Bridge
            BY <1>1, <2>1 DEF ControlsInv, PublishedInv, Current
      <2>2. CASE ~Bridge
            <3>1. task["poll"].pc # "run"
                  BY <1>1 DEF Quiet, Tasks
            <3> QED BY <1>1, <2>2, <3>1 DEF ControlsInv, EntitiesInv, Current
      <2> QED BY <2>1, <2>2
<1>2. ControlsInv => LabelsTrue
      BY <1>1 DEF LabelsTrue
<1> QED BY <1>2, ControlsInvariant, PTL

\* What a surface offers is carried out as asked; only the named gaps are turned away.
THEOREM OffersAreHonoured == Spec => []Honoured
<1>1. ControlsInv => Honoured
      BY DEF ControlsInv, AskedInv, RequestOf, Honoured
<1> QED BY <1>1, ControlsInvariant, PTL

\* After a first poll nothing that is announced stays blank, but for the named groups.
THEOREM NothingStaysBlank == Spec => []NothingBlank
<1>1. ControlsInv => NothingBlank
      BY AllFed DEF ControlsInv
<1> QED BY <1>1, ControlsInvariant, PTL

\* The monitor shows what the permanent session last heard, unless a REST read went past it.
THEOREM MonitorIsTrue == Spec => []MonitorTrue
<1>1. ControlsInv => MonitorTrue
      BY DEF ControlsInv, MonitorInv
<1> QED BY <1>1, ControlsInvariant, PTL
=============================================================================
