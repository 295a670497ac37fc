---------------------------- MODULE ProbeScripts ----------------------------
(***************************************************************************)
(* The scripts, each as a block of ProbeStatements: what they open, use    *)
(* and close, in which order, under which handlers, and where they return. *)
(* What they print, and the bytes they send, is left out.                  *)
(***************************************************************************)
EXTENDS ProbeStatements

-----------------------------------------------------------------------------
\* tools/aquaclean-connection-test.py

\* One dns-sd child: read until it ends or time is up, then kill it.
DnsSd ==
    << Open("proc"),
       Finally(<<OnTimeout(<<Wait("proc")>>, <<>>)>>, <<Quietly(Close("proc"))>>) >>

\* _discover_esphome_mdns_macos
MdnsMacos ==
    << Call(DnsSd), Loop(<<Except(<<Call(DnsSd), Maybe(<<Quietly(Work)>>)>>, <<>>)>>) >>

\* check_esphome_discovery with _discover_esphome_mdns.
EsphomeDiscovery ==
    << Either({ <<Call(MdnsMacos)>>, <<>>, <<Open("mdns"), Await, Unsub("mdns")>> }),
       Maybe(<<Learn("host")>>) >>

\* check_local_ble_scan: a list of devices, or None when bleak is missing or
\* nothing at all was seen.
LocalBleScan ==
    << Maybe(<<Return>>), Open("scan"), Await, Close("scan"), Maybe(<<Return>>),
       Learn("list") >>

\* check_tcp
CheckTcp ==
    << Except(<<Open("port"), Quietly(Close("port")), Learn("reachable")>>, <<>>) >>

\* check_api_connect
ApiConnect ==
    << Except(<<Open("tcp")>>, <<Return>>), Quietly(Use("tcp")), Learn("api") >>

\* check_ble_subscription
BleSubscription ==
    << Except(<<Sub("adv")>>, <<Return>>), Await, Quietly(Unsub("adv")),
       Maybe(<<Learn("sub")>>) >>

\* check_ble_scan
BleScan ==
    << Except(<<Sub("adv")>>, <<Return>>), Await, Quietly(Unsub("adv")),
       Maybe(<<Learn("mac")>>) >>

\* check_ble_connect: the subscription lives until the link is up.
BleConnect ==
    << Except(<<Sub("adv")>>, <<Return>>),
       OnTimeout(<<Wait("adv")>>, <<Quietly(Unsub("adv")), Return>>),
       Except(<<Open("ble")>>, <<Quietly(Unsub("adv")), Return>>),
       Quietly(Unsub("adv")), Quietly(Close("ble")) >>

\* _probe_via_bridge_stack
ProbeViaBridgeStack ==
    << Maybe(<<Return>>),
       Except(<<Open("link"), Use("link")>>, <<Quietly(Close("link")), Return>>),
       Finally(<<Quietly(Use("link"))>>, <<Quietly(Close("link"))>>) >>

\* check_gatt_services: the subscription is given up only after the link.
GattServices ==
    << Except(<<Open("tcp")>>, <<Return>>),
       Except(<<Sub("adv")>>, <<Close("tcp"), Return>>),
       OnTimeout(<<Wait("adv")>>, <<Quietly(Unsub("adv")), Close("tcp"), Return>>),
       Quietly(Use("tcp")),
       Except(<<Open("ble")>>,
              <<Quietly(Unsub("adv")), Quietly(Close("tcp")), Return>>),
       Quietly(Use("ble")),
       Quietly(Close("ble")), Quietly(Unsub("adv")), Quietly(Close("tcp")),
       Maybe(<<Call(ProbeViaBridgeStack)>>) >>

\* check_device_identification: the return inside the try leaves the function
\* through the finally block, so what follows that block is skipped.
DeviceIdentification ==
    << Maybe(<<Return>>),
       Finally(
         << Except(<<Open("link"), Use("link")>>, <<Return>>),
            Except(<<Use("link")>>, <<Learn("diagnose"), Return>>),
            Quietly(Use("link")), Quietly(Use("link")) >>,
         << Quietly(Close("link")) >>),
       Knows("diagnose", <<Learn("diagnosed"), Call(GattServices)>>, <<>>) >>

\* check_esp32_logs
Esp32Logs ==
    << Except(<<Open("tcp")>>, <<Return>>),
       Finally(<<Except(<<Sub("log"), Await>>, <<Return>>)>>,
               <<Quietly(Unsub("log")), Quietly(Close("tcp"))>>) >>

\* run with --local-ble: len(None) raises unless --mac is given.
ConnectionTestLocal ==
    << Call(LocalBleScan),
       Either({ <<Call(DeviceIdentification)>>,
                <<Knows("list", <<Maybe(<<Call(DeviceIdentification)>>)>>,
                        <<Throw("bug")>>)>> }) >>

\* run through the proxy.
ConnectionTestProxy ==
    << Either({ <<Learn("host")>>, <<Call(EsphomeDiscovery)>> }),
       Knows("host", <<>>, <<Return>>),
       Call(CheckTcp), Knows("reachable", <<>>, <<Return>>),
       Call(ApiConnect), Knows("api", <<>>, <<Return>>),
       Finally(
         << Call(BleSubscription),
            Knows("sub", <<Call(BleScan)>>, <<>>),
            Maybe(<<Learn("mac")>>),
            Knows("mac", <<Knows("sub", <<Call(BleConnect)>>, <<>>)>>, <<>>) >>,
         << Quietly(Close("tcp")) >>),
       Knows("mac",
         << Knows("sub",
              <<Either({<<Call(GattServices)>>, <<Call(DeviceIdentification)>>})>>,
              <<>>) >>, <<>>),
       Maybe(<<Call(Esp32Logs)>>) >>

-----------------------------------------------------------------------------
\* esphome/

\* gatt-probe.py, run_probe
GattProbe ==
    << Finally(
         << Open("logtcp"), Use("logtcp"), Sub("log"),
            Open("tcp"), Sub("adv"),
            OnTimeout(<<Wait("adv")>>, <<Return>>),
            Except(<<Open("ble")>>, <<Return>>),
            Except(<<Use("ble")>>, <<Return>>),
            Maybe(<<Return>>),
            Loop(<<Quietly(Use("ble"))>>), Maybe(<<Return>>),
            Await,
            Except(<<Use("ble")>>, <<Return>>),
            Loop(<<OnTimeout(<<Wait("ble")>>, <<>>)>>) >>,
         << Quietly(Close("ble")), Quietly(Unsub("adv")), Quietly(Close("tcp")),
            Quietly(Unsub("log")), Quietly(Close("logtcp")) >>) >>

\* esphome-no-adv-probe.py, scan_for_device: the caller gets the subscription.
ScanForDevice ==
    << Sub("adv"),
       OnTimeout(<<Wait("adv")>>, <<Quietly(Unsub("adv")), Throw("timeout")>>) >>

\* connect_ble
ConnectBle ==
    << Finally(<<Quietly(Open("ble"))>>,
               <<Quietly(Close("ble")), Quietly(Unsub("adv"))>>) >>

\* run_probe
NoAdvProbe ==
    << Open("tcp"), Use("tcp"), Sub("log"),
       Maybe(<<OnTimeout(<<Call(ScanForDevice)>>, <<>>), Call(ConnectBle), Await>>),
       OnTimeout(<<Call(ScanForDevice), Quietly(Unsub("adv"))>>, <<>>),
       Loop(<<Call(ConnectBle), Await>>),
       Quietly(Unsub("log")), Quietly(Close("tcp")) >>

\* esphome-aioesphomeapi-probe-v4.py, run_one_cycle
RunOneCycle ==
    << Finally(
         << Except(<<Sub("adv"), OnTimeout(<<Wait("adv")>>, <<>>), Open("ble")>>,
                   <<>>) >>,
         << Quietly(Close("ble")), Quietly(Unsub("adv")) >>) >>

\* run_probe
ProbeV4 ==
    << Open("logtcp"), Use("logtcp"), Sub("log"), Open("tcp"),
       Loop(<<Call(RunOneCycle), Await>>),
       Quietly(Close("tcp")), Quietly(Unsub("log")), Quietly(Close("logtcp")) >>

\* Mutant: the API connection is closed first.
TryConnectOneTcpFirst ==
    << Finally(
         << Except(<<Open("tcp"), Sub("adv"), OnTimeout(<<Wait("adv")>>, <<>>),
                     Open("ble"), Return>>, <<Return>>) >>,
         << Quietly(Close("tcp")), Quietly(Close("ble")), Quietly(Unsub("adv")) >>) >>

\* esphome-aioesphomeapi-probe-v3.py, try_connect_one
TryConnectOne ==
    << Finally(
         << Except(<<Open("tcp"), Sub("adv"), OnTimeout(<<Wait("adv")>>, <<>>),
                     Open("ble"), Return>>, <<Return>>) >>,
         << Quietly(Close("ble")), Quietly(Unsub("adv")), Quietly(Close("tcp")),
            Await >>) >>

\* run_probe
ProbeV3 ==
    << Open("logtcp"), Use("logtcp"), Sub("log"),
       Loop(<<Call(TryConnectOne)>>),
       Quietly(Unsub("log")), Quietly(Close("logtcp")) >>

\* esphome-aioesphomeapi-probe.py, probe: without device_info the feature flags
\* are unbound and the connect raises before it is made.
ProbeV1 ==
    << Open("tcp"),
       Except(<<Use("tcp"), Learn("flags"), Sub("adv"), Await>>, <<>>),
       Finally(
         << Except(<<Knows("flags", <<>>, <<Throw("bug")>>), Open("ble"), Use("ble"),
                     Loop(<<Quietly(Use("ble"))>>)>>, <<>>) >>,
         << Quietly(Close("ble")), Quietly(Unsub("adv")), Close("tcp") >>) >>

\* ble-scan.py, scan with check_port
ScanViaProxy ==
    << Except(<<Open("port"), Close("port")>>, <<Return>>),
       Except(<<Open("tcp")>>, <<Return>>),
       Sub("adv"),
       Finally(<<Await>>, <<Unsub("adv"), Quietly(Close("tcp"))>>) >>

\* bleak-esphome-probe.py, probe
BleakEsphomeProbe ==
    << Except(<<Open("tcp")>>, <<Return>>), Use("tcp"),
       Except(<<Work>>, <<Close("tcp"), Return>>),
       Except(<<Open("ble")>>, <<Close("tcp"), Return>>),
       Close("ble"), Close("tcp") >>

-----------------------------------------------------------------------------
\* tools/

\* gatt-discovery-test.py, run
GattDiscoveryTest ==
    << Work, Maybe(<<Return>>), Open("ble"), Finally(<<>>, <<Close("ble")>>) >>

\* alba-ble20-probe.py, scan_for_geberit
ScanForGeberit == << Open("scan"), Await, Close("scan") >>

\* _read_instanced_dpids
ReadInstanced == << Loop(<<OnIoError(<<Use("link")>>, <<>>)>>) >>

\* run: the "datetime" of --watch is the module the block above imported under
\* that name, and the first value read ends the script.
AlbaBle20Probe ==
    << Maybe(<<Call(ScanForGeberit), Maybe(<<Return>>)>>),
       Finally(
         << OnIoError(
              << Open("link"), Maybe(<<Return>>), Use("link"),
                 Maybe(<<Use("link")>>), Maybe(<<Use("link")>>),
                 Maybe(<<Loop(<<OnIoError(<<Use("link")>>, <<>>)>>), Call(ReadInstanced)>>),
                 Maybe(<<Maybe(<<Await, Maybe(<<Return>>)>>), Use("link")>>),
                 Maybe(<<OnStop(<<Use("link"), Throw("bug")>>, <<>>)>>) >>,
              << Return >>) >>,
         << Quietly(Close("link")) >>) >>

\* geberit-ble-probe.py, run
GeberitBleProbe ==
    << Finally(
         << Open("link"), Maybe(<<Use("link")>>), Maybe(<<Quietly(Use("link"))>>),
            Loop(<<Quietly(Use("link"))>>) >>,
         << Quietly(Close("link")) >>) >>

\* unlock-probe.py, run_stage with raw and get_spl
RunStage ==
    << Loop(<<OnTimeout(<<Use("link")>>, <<Maybe(<<Return>>)>>)>>),
       OnTimeout(<<Use("link")>>, <<>>) >>

\* connect_and_probe
ConnectAndProbe ==
    << Finally(<<Open("link"), Call(RunStage)>>, <<Quietly(Close("link"))>>) >>

\* main: one connection per stage until a stage succeeds.
UnlockProbe == << Loop(<<Call(ConnectAndProbe), Maybe(<<Return>>)>>) >>

\* getspl-filter-probe.py, probe
GetSplFilterProbe ==
    << Open("link"), Use("link"),
       Finally(<<Quietly(Use("link")), Quietly(Use("link"))>>,
               <<Quietly(Close("link"))>>) >>

\* filter-probe.py, probe
FilterProbe ==
    << Open("link"), Use("link"),
       Finally(<<Quietly(Use("link"))>>, <<Quietly(Close("link"))>>) >>

\* spl-monitor.py, monitor
SplMonitor ==
    << Open("link"), Use("link"),
       Finally(<<Loop(<<Quietly(Use("link")), Await>>)>>, <<Quietly(Close("link"))>>) >>

\* active-common-settings-probe.py, run: the client has no disconnect_async.
ActiveCommonSettingsProbe ==
    << Finally(
         << Open("link"), Use("link"), Loop(<<Quietly(Use("link"))>>),
            Maybe(<<Quietly(Use("link")), Await, Quietly(Use("link"))>>) >>,
         << Quietly(Throw("bug")) >>) >>

\* minimal-central.py, discover_by_service and discover_by_name: the scanner is
\* bleak's own.
DiscoverDevice == << Maybe(<<Work>>), Maybe(<<Work>>) >>

\* dump_advertisements
DumpAdvertisements == << Open("scan"), Await, Close("scan") >>

\* run: a second connect of the same client is a no-op or raises.
MinimalCentral ==
    << Maybe(<<Call(DumpAdvertisements), Return>>),
       Either({<<Work>>, <<Call(DiscoverDevice)>>}), Maybe(<<Return>>),
       Open("ble"),
       Finally(<<Loop(<<Await>>), Maybe(<<Quietly(Use("ble")), Loop(<<Await>>)>>)>>,
               <<Close("ble")>>) >>

\* minimal-peripheral.py, main
MinimalPeripheral ==
    << Work, Open("apps"), Open("advert"),
       Finally(<<Loop(<<Await>>)>>, <<Quietly(Close("advert")), Quietly(Close("apps"))>>) >>

\* ble-session-replay.py, run
BleSessionReplay ==
    << Maybe(<<Return>>),
       Finally(
         << Open("link"), Maybe(<<Use("link")>>), Maybe(<<Quietly(Use("link"))>>),
            Loop(<<Quietly(Use("link")), Maybe(<<Await>>)>>) >>,
         << Quietly(Close("link")) >>) >>

\* find-geberit-remote.py, _run_live
FindRemoteLive ==
    << Maybe(<<Return>>), Except(<<Open("serial")>>, <<Return>>), Await,
       Maybe(<<Use("serial"),
               Finally(<<OnStop(<<Loop(<<Use("serial")>>)>>, <<>>)>>, <<Close("serial")>>),
               Return>>),
       Use("serial"), Loop(<<Use("serial")>>), Maybe(<<Close("serial"), Return>>),
       Finally(<<OnStop(<<Loop(<<Use("serial")>>)>>, <<>>)>>, <<Close("serial")>>) >>

-----------------------------------------------------------------------------
\* aquaclean_console_app/setup/discovery.py and the command line

\* _discover_esphome_mdns_macos: the dns-sd children as above.
SetupMdnsMacos ==
    << Call(DnsSd), Loop(<<Except(<<Call(DnsSd), Maybe(<<Quietly(Work)>>)>>, <<>>)>>) >>

\* _discover_esphome_mdns
SetupMdns ==
    << Maybe(<<Call(SetupMdnsMacos), Return>>), Maybe(<<Return>>),
       Sub("mdns"),
       Finally(<<Await, Maybe(<<Await>>), Work>>, <<Close("mdns")>>) >>

\* _discover_esphome_mdns_ha: only the browser is its own.
SetupMdnsHa ==
    << Maybe(<<Return>>), Work, Sub("mdns"),
       Finally(<<Await, Maybe(<<Await>>)>>, <<Close("mdns")>>) >>

\* Mutant: clean-up without finally.
SetupScanProxyPlain ==
    << Maybe(<<Return>>), Except(<<Open("tcp")>>, <<Return>>),
       Sub("adv"), Await, Quietly(Unsub("adv")), Quietly(Close("tcp")) >>

\* async_scan_ble_via_esphome
SetupScanProxy ==
    << Maybe(<<Return>>), Except(<<Open("tcp")>>, <<Return>>),
       Finally(<<Sub("adv"), Await>>, <<Quietly(Unsub("adv")), Quietly(Close("tcp"))>>) >>

\* async_scan_ble_local
SetupScanLocal ==
    << Maybe(<<Return>>), Finally(<<Open("scan"), Await>>, <<Quietly(Close("scan"))>>) >>

\* main.py, run_cli without a device; esp32-connect is the one that connects.
RunCliBridge ==
    << Maybe(<<Finally(<<Quietly(Open("tcp"))>>, <<Quietly(Close("tcp"))>>)>>),
       Learn("printed") >>

\* run_cli with a device: the result is printed after the disconnect.
RunCliDevice ==
    << Finally(<<Except(<<Open("link"), Use("link"), Maybe(<<Use("link")>>)>>, <<>>)>>,
               <<Close("link"), Learn("printed")>>) >>

=============================================================================
