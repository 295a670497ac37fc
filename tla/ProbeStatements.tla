-------------------------- MODULE ProbeStatements ---------------------------
(***************************************************************************)
(* The language of ProbeScripts: the stand-alone scripts of the repository *)
(* (tools/, esphome/, the command line, the setup wizard) as programs that *)
(* open connections, use them and have to give them back.  A program is a  *)
(* block, a sequence of the statements below; ProbeRun executes it.        *)
(*                                                                         *)
(* Resources: "tcp" an API connection to the ESP32 proxy, "logtcp" a       *)
(* second one for its logs, "adv" the one advertisement subscription of    *)
(* the proxy, "log" a log subscription, "ble" a BLE link (of the proxy or  *)
(* of the local adapter), "link" the connection of a BluetoothLeConnector  *)
(* (module Connector), "scan" a running scanner, "mdns" a zeroconf         *)
(* browser, "port" a plain TCP connection, "proc" a child process,         *)
(* "serial" a serial port, "apps" and "advert" what a peripheral registers *)
(* with BlueZ.                                                             *)
(***************************************************************************)
EXTENDS Sequences, FiniteSets, Naturals

\* Awaited calls: they may raise, and Ctrl+C may arrive while they wait.
Open(r) == [do |-> "open", res |-> r, waits |-> TRUE]
Close(r) == [do |-> "close", res |-> r, waits |-> TRUE]
Use(r) == [do |-> "use", res |-> r, waits |-> TRUE]
\* Subscribing and unsubscribing do not await.
Sub(r) == [do |-> "open", res |-> r, waits |-> FALSE]
Unsub(r) == [do |-> "close", res |-> r, waits |-> FALSE]
\* asyncio.wait_for on an event that traffic over r sets: ends or times out.
Wait(r) == [do |-> "wait", res |-> r]
\* asyncio.sleep, input() and the like.
Await == [do |-> "await"]
\* A blocking or awaited call without a resource of the script.
Work == [do |-> "work"]

\* One of several blocks, as options, data or the user say.
Either(bs) == [do |-> "either", blocks |-> bs]
Maybe(b) == Either({b, <<>>})
\* What the script has found out, to be asked for later on.
Learn(f) == [do |-> "learn", fact |-> f]
Knows(f, b, c) == [do |-> "knows", fact |-> f, yes |-> b, no |-> c]
\* Any number of rounds.
Loop(b) == [do |-> "loop", body |-> b]
Call(b) == [do |-> "call", body |-> b]
Return == [do |-> "return"]
\* An exception in any case: "error", "timeout" or "bug", a programming error
\* (TypeError, AttributeError, an unbound name).
Throw(e) == [do |-> "throw", exc |-> e]

\* try: b, with the handlers of hs, a function from exception classes to
\* blocks; "stop" is the CancelledError or KeyboardInterrupt of Ctrl+C.
Try(b, hs) == [do |-> "try", body |-> b, handlers |-> hs]
\* try: b except Exception: h
Except(b, h) == Try(b, [e \in {"error", "timeout", "bug"} |-> h])
\* try: b except (IOError, asyncio.TimeoutError): h
OnIoError(b, h) == Try(b, [e \in {"error", "timeout"} |-> h])
\* try: b except asyncio.TimeoutError: h
OnTimeout(b, h) == Try(b, [e \in {"timeout"} |-> h])
\* try: b except (KeyboardInterrupt, CancelledError): h
OnStop(b, h) == Try(b, [e \in {"stop"} |-> h])
\* try: s except Exception: pass
Quietly(s) == Except(<<s>>, <<>>)
\* try: b finally: f
Finally(b, f) == [do |-> "finally", body |-> b, last |-> f]

=============================================================================
