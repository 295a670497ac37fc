------------------------------- MODULE Wiring -------------------------------
(***************************************************************************)
(* The tables that lead from a control a user sees to a request the device *)
(* gets, and from what the device answers to what the user sees: the MQTT  *)
(* topics and Home Assistant discovery of the bridge, the REST routes, the *)
(* entity lists of the Home Assistant integration, and the two clients.    *)
(* Wording, icons, units and topic prefixes are left out.  A setting is    *)
(* <<table, id>>; a label is the name a surface gives to it.               *)
(***************************************************************************)
EXTENDS Integers, Sequences, FiniteSets

-----------------------------------------------------------------------------
(* What the device means by the ids *)

ProfileSettings ==
    [i \in 0 .. 10 \cup {13} |->
        CASE i = 0 -> "OdourExtraction"      [] i = 1 -> "OscillatorState"
          [] i = 2 -> "AnalShowerPressure"   [] i = 3 -> "LadyShowerPressure"
          [] i = 4 -> "AnalShowerPosition"   [] i = 5 -> "LadyShowerPosition"
          [] i = 6 -> "WaterTemperature"     [] i = 7 -> "WcSeatHeat"
          [] i = 8 -> "DryerTemperature"     [] i = 9 -> "DryerState"
          [] i = 10 -> "SystemFlush"         [] i = 13 -> "DryerSprayIntensity"]

(* get_stored_common_settings_async: the ids as read from the BLE log *)
CommonSettings ==
    [i \in (0 .. 7) \ {5} |->
        CASE i = 0 -> "OdourRunOn"           [] i = 1 -> "LightBrightness"
          [] i = 2 -> "LightColor"           [] i = 3 -> "LightActivation"
          [] i = 4 -> "LidSensitivity"       [] i = 6 -> "LidOpens"
          [] i = 7 -> "LidCloses"]

(* The ids get_stored_profile_settings_async reads: SystemFlush is not among them *)
ProfileRead == DOMAIN ProfileSettings \ {10}

(* AlbaBaseClient's _PROFILE_SETTING_DPID; it has no common settings *)
AlbaProfile == {1, 2, 4, 6}

(* The live sliders of the Alba, <<status DpId, command DpId>> behind each *)
AlbaActive == {"ActiveIntensity", "ActivePosition", "ActiveTemperature",
               "ActiveOscillation"}

-----------------------------------------------------------------------------
(* The bridge's tables: the later definitions of main.py replace the earlier ones *)

PROFILE_SETTING_MQTT_KEYS == [i \in ProfileRead |-> ProfileSettings[i]]

PROFILE_SETTING_RANGES ==
    [i \in 0 .. 9 |-> IF i \in {0, 1, 9} THEN 1 ELSE IF i \in 2 .. 5 THEN 4 ELSE 5]

(* set_profile_setting: .get(setting_id, (0, 65535)) *)
ProfileMax(i) == IF i \in DOMAIN PROFILE_SETTING_RANGES
                 THEN PROFILE_SETTING_RANGES[i] ELSE 65535

COMMON_SETTING_MQTT_KEYS ==
    [i \in 0 .. 3 |-> CASE i = 0 -> "OdourRunOn"      [] i = 1 -> "LightBrightness"
                        [] i = 2 -> "LightActivation" [] i = 3 -> "LightColor"]

COMMON_SETTING_RANGES ==
    [i \in 0 .. 3 |-> CASE i = 0 -> 1 [] i = 1 -> 4 [] i = 2 -> 2 [] i = 3 -> 6]

(* The numbers that MQTT discovery announces: label, id behind its command, maximum *)
DiscoveryProfileNumbers ==
    {<<ProfileSettings[i], i, IF i = 13 THEN 4 ELSE PROFILE_SETTING_RANGES[i]>> :
        i \in ProfileRead}

DiscoveryCommonNumbers ==
    {<<"LightBrightness", 1, 4>>, <<"LightActivation", 3, 2>>, <<"LightColor", 2, 6>>,
     <<"OdourRunOn", 0, 1>>, <<"LidSensitivity", 4, 4>>, <<"LidOpens", 6, 1>>,
     <<"LidCloses", 7, 1>>}

-----------------------------------------------------------------------------
(* Commands *)

Descaling == {"PrepareDescaling", "ConfirmDescaling", "CancelDescaling",
              "PostponeDescaling"}

LidOffsets == {"LidOffsetSave", "LidOffsetIncrement", "LidOffsetDecrement"}

LightModes == {"LightOff", "LightOn", "LightWhenApproached"}

(* The switches and buttons that MQTT discovery announces *)
DiscoveryToggles == {"ToggleLid", "ToggleAnal", "ToggleDryer", "ToggleLady", "ToggleLight"}

DiscoveryMaintenance == {"Flush", "StartCleaning", "NextCleaningStep"} \cup Descaling

DiscoveryCalibration == {"StartLidCalibration", "ResetFilter"} \cup LidOffsets

Announced == DiscoveryToggles \cup DiscoveryMaintenance \cup DiscoveryCalibration

(* MqttService.on_connect subscribes to more than discovery announces *)
Subscribed == Announced \cup LightModes \cup {"Stop", "ToggleOdour", "OdourRunOnNow"}

(* Mutant: a topic is subscribed to and not looked at *)
DispatchedSome == Announced \cup LightModes \cup {"Stop", "ToggleOdour"}

(* MqttService.on_message: the topics that raise an event *)
Dispatched == Announced \cup LightModes \cup {"Stop", "ToggleOdour", "OdourRunOnNow"}

(* ServiceMode.run hangs two events on the permanent client, unguarded *)
ServiceWired == {"ToggleLid", "ResetFilter"}

(* ApiMode.run hangs the others on run_command, each in a try that logs *)
ApiWired == Subscribed \ ServiceWired

(* The events NullMqttService has *)
NullEvents == Announced

(* ApiMode.run touches every event it wires: a missing one ends it at once *)
Starts(mqtt) == mqtt # "off" \/ ApiWired \subseteq NullEvents

(* _execute_command *)
Recognised == Subscribed

(* RestApiService: one POST route per command *)
RestCommands == {"ToggleLid", "ToggleAnal", "ToggleLady", "ToggleDryer", "ResetFilter",
                 "ToggleLight", "Flush", "StartCleaning", "NextCleaningStep",
                 "StartLidCalibration"} \cup Descaling \cup LidOffsets

(* RestApiService: the GET routes that read the device *)
RestSensors == {"descale", "soc", "filter", "nodes", "firmwareList", "identification"}

RestStates == {"state", "parameters", "status"}

RestReads == {"profile", "common"} \cup RestSensors \cup RestStates

(* run_alba_command *)
AlbaCommands == AlbaActive \cup {"SyncRtc", "SprayArmCleaning", "Reset", "StartBootloader",
                                 "Restart", "LoadProfile", "StartUserSession"}

(* run_alba_command passes a value that these methods do not take *)
AlbaMiscalled == {"Reset", "StartBootloader"}

(* AquaCleanClient has a method for each command; AlbaClient for these *)
MeraMethods == Recognised

AlbaMethods == {"ToggleAnal", "ToggleLady", "ToggleLid"} \cup Descaling

-----------------------------------------------------------------------------
(* The Home Assistant integration *)

(* BUTTONS: FS_ALL, the sets of the older models, FS_SELA_ONLY and FS_ALBA_ONLY *)
ButtonsAll == {"ToggleAnal"}

ButtonsMeraComfort ==
    {"ToggleLid", "Stop", "Flush", "StartCleaning", "NextCleaningStep", "ResetFilter",
     "ToggleLady", "ToggleDryer", "ToggleOdour", "OdourRunOnNow", "StartLidCalibration"}
    \cup Descaling \cup LightModes \cup LidOffsets

ButtonsSela == {"ToggleLight"}

ButtonsAlba == {"SyncRtc", "Restart"}

ALBA_COMMAND_BUTTONS == {"SprayArmCleaning"}

SITTING_REQUIRED == {"ToggleAnal", "ToggleLady", "ToggleDryer"}

(* get_feature_sets: the buttons created for the model found in the advertisement *)
Buttons(model) ==
    CASE model = "mera_comfort" -> ButtonsAll \cup ButtonsMeraComfort
      [] model = "alba"         -> ButtonsAll \cup ButtonsAlba \cup ALBA_COMMAND_BUTTONS
      [] OTHER -> ButtonsAll \cup ButtonsMeraComfort \cup ButtonsSela \cup ButtonsAlba
                  \cup ALBA_COMMAND_BUTTONS

(* AquaCleanButton.available and AlbaCommandButton.available *)
ButtonAvailable(c, deviceType, sitting) ==
    /\ c \in ButtonsMeraComfort \cup ButtonsSela => deviceType # "alba"
    /\ c \in ButtonsAlba \cup ALBA_COMMAND_BUTTONS => deviceType = "alba"
    /\ c \in SITTING_REQUIRED => sitting

(* PROFILE_NUMBERS and COMMON_NUMBERS, those wired: label, id, maximum *)
PROFILE_NUMBERS == DiscoveryProfileNumbers

COMMON_NUMBERS ==
    {<<"LightBrightness", 1, 4>>, <<"LightActivation", 3, 2>>, <<"LightColor", 2, 6>>,
     <<"OdourRunOn", 0, 1>>, <<"LidSensitivity", 4, 4>>, <<"LidOpens", 6, 1>>,
     <<"LidCloses", 7, 1>>}

ALBA_ACTIVE_NUMBERS ==
    {<<"ActiveIntensity", 4>>, <<"ActivePosition", 4>>, <<"ActiveTemperature", 5>>,
     <<"ActiveOscillation", 1>>}

(* async_setup_entry and available of the three number classes: the tables whose numbers can be set *)
NumberTables(model, deviceType) ==
    (IF deviceType # "alba" /\ model # "alba" THEN {"profile", "common"} ELSE {})
    \cup (IF deviceType = "alba" /\ model # "mera_comfort" THEN {"active"} ELSE {})

(* Mutant: the integration shares the bridge's table of common settings *)
HacsKeysShared(table) ==
    CASE table = "profile" -> [i \in ProfileRead |-> ProfileSettings[i]]
      [] table = "common"  -> COMMON_SETTING_MQTT_KEYS
      [] table = "active"  -> [a \in AlbaActive |-> a]

(* _build_mera_result: the label of each data key and the id it is taken from *)
HacsKeys(table) ==
    CASE table = "profile" -> [i \in ProfileRead |-> ProfileSettings[i]]
      [] table = "common"  -> CommonSettings
      [] table = "active"  -> [a \in AlbaActive |-> a]

-----------------------------------------------------------------------------
(* Sensors, by group: what is announced and what feeds them *)

(* MQTT discovery *)
DiscoveryMonitor == {"monitor"}

DiscoveryIdentification == {"identification", "firmware"}

DiscoveryFilter == {"filter"}

DiscoveryDescale == {"descale"}

DiscoverySystem == {"performance", "pollEpoch", "pollInterval", "soc"}

DiscoverySensors == DiscoveryMonitor \cup DiscoveryIdentification \cup DiscoveryFilter
                    \cup DiscoveryDescale \cup DiscoverySystem

(* Mutant: the first poll leaves the filter status out, as the permanent connect does *)
FirstPollFeedsNoFilter == {"monitor", "identification", "firmware", "pollEpoch",
                           "performance"}

(* _polling_loop and _publish_identification_to_mqtt after the first on-demand poll *)
FirstPollFeeds == {"monitor", "identification", "firmware", "filter", "pollEpoch",
                   "performance"}

(* ServiceMode.run up to its polling loop; the filter status goes to the cache only *)
ConnectFeeds == {"identification", "firmware", "pollEpoch"}

(* DeviceStateChanged and _on_poll_done *)
PersistentPollFeeds == {"monitor", "performance"}

(* The integration's SENSORS and BINARY_SENSORS with FS_ALL, but for the cloud check's *)
SensorsAll == {"identification", "firmware", "timing", "rssi", "state"}

(* ... and those of the older models *)
SensorsOld == {"soc", "descale", "descalingLive", "filter", "offsets", "ladyDryer"}

(* ALBA_SENSORS and ALBA_BINARY_SENSORS *)
SensorsAlba == {"albaMisc", "albaInstanced", "albaErrors", "albaModes"}

(* Performance, transport and RSSI statistics, created for every device *)
SensorsTimes == {"connectTimes", "pollTimes"}

SensorsSamples == {"samples", "transport", "rssiStats"}

(* The proxy's sensors, created when an ESPHome host is configured *)
SensorsProxy == {"proxyConnection", "proxyWifi", "proxyHeap"}

SensorsProxyWifi == {"proxyWifiStats"}

Always == SensorsTimes \cup SensorsSamples \cup SensorsProxy \cup SensorsProxyWifi

Sensors(model) == SensorsAll \cup Always
                  \cup (IF model = "alba" THEN {} ELSE SensorsOld)
                  \cup (IF model = "mera_comfort" THEN {} ELSE SensorsAlba)

(* Only the Alba's sensors and the lady and dryer flags look at the device's type *)
SensorAvailable(g, deviceType) ==
    /\ g \in SensorsAlba => deviceType = "alba"
    /\ g = "ladyDryer" => deviceType # "alba"

(* _fetch: the part of the result that every device's poll supplies *)
CommonSupply == {"timing", "rssi"} \cup Always

(* _build_mera_result *)
MeraSupply == {"identification", "firmware", "state", "soc", "descale", "descalingLive",
               "filter", "offsets", "ladyDryer"}

(* _build_alba_result *)
AlbaSupply == {"identification", "firmware", "state", "ladyDryer"} \cup SensorsAlba

Supply(deviceType) == CommonSupply \cup (IF deviceType = "alba" THEN AlbaSupply
                                         ELSE MeraSupply)
=============================================================================
