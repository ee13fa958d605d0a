----------------------------- MODULE KndSession ----------------------------
(***************************************************************************)
(* One run of the app after another (app/src/main.cpp, ui.cpp): its        *)
(* switches in AppState against what they switch, which outlives it: the   *)
(* driver's CaptureActive and redirect (driver/ioctl.c), the driver itself *)
(* (knd_service.cpp), the Windows system proxy (win_integration.cpp), the  *)
(* settings file (settings.cpp) and the CA's files (module KndCa).  The    *)
(* app is closed or dies at any time; another is started.                  *)
(*                                                                         *)
(* The UI thread is one actor, a click one action; connections (module     *)
(* KndRedirect) run beside it.  One instance of the app at a time.         *)
(***************************************************************************)
EXTENDS KndCa, KndRedirect

CONSTANTS
  DefaultPort,  \* AppState's proxyPort, also that of the -mitm option
  MaxStarts     \* bound: times the app is started

ASSUME SessionAssumption == DefaultPort \in Ports /\ MaxStarts \in Nat

VARIABLES
  app,              \* "down", "boot" (up to the driver), "up", "exit" (past
                    \* the main loop, inside proxy.stop())
  stopping,         \* the UI thread is inside proxy.stop() for the Stop button
  handle, deviceConnected,    \* KndClient and AppState
  capturing, wfpRedirect, useSystemProxy, proxyPort,   \* AppState
  driver,           \* "out", "in", "leaving": stopped, waits for the handle
  captureActive,    \* ctx->CaptureActive
  systemProxy,      \* the port of ours it names, or NoProxy: it is off, or a
                    \* proxy of the user's own
  proxyStale,       \* systemProxy was left set by an earlier run of the app, by
                    \* its death, or because the registry could not be opened
  settings,         \* the settings file
  starts

appVars   == <<app, stopping, handle, deviceConnected, capturing, wfpRedirect,
               useSystemProxy, proxyPort>>
osVars    == <<systemProxy, proxyStale, settings>>
driverVars == <<driver, captureActive>>
vars == <<appVars, driverVars, osVars, starts, caVars, redirectVars>>

NoProxy == 0

(* What Load leaves in a new AppState without a file.                      *)
NoSettings == [port |-> DefaultPort, system |-> FALSE]

FreshApp ==
  /\ stopping' = FALSE /\ handle' = FALSE /\ deviceConnected' = FALSE
  /\ capturing' = FALSE /\ wfpRedirect' = FALSE

Init ==
  /\ app = "down" /\ stopping = FALSE /\ handle = FALSE /\ deviceConnected = FALSE
  /\ capturing = FALSE /\ wfpRedirect = FALSE
  /\ useSystemProxy = FALSE /\ proxyPort = DefaultPort
  /\ driver = "out" /\ captureActive = FALSE
  /\ systemProxy = NoProxy /\ proxyStale = FALSE
  /\ settings = NoSettings /\ starts = 0
  /\ CaInit /\ RedirectInit

-----------------------------------------------------------------------------
(* main(): start and end.                                                  *)

Ours(p) == p \in Ports

Start ==
  /\ app = "down" /\ starts < MaxStarts
  /\ app' = "boot" /\ starts' = starts + 1
  /\ FreshApp
  /\ useSystemProxy' = settings.system /\ proxyPort' = settings.port
  /\ proxyStale' = Ours(systemProxy)
  /\ UNCHANGED <<driverVars, systemProxy, settings, caVars, redirectVars>>

BootCa ==
  /\ app = "boot" /\ LoadOrCreate
  /\ UNCHANGED <<appVars, driverVars, osVars, starts, redirectVars>>

(* A handle, if the driver is there (a stopped one takes no new opens), or *)
(* the one already open.  Mapping the ring is left to KndDriver.           *)
CanOpen == handle \/ driver = "in"

(* -mitm starts the proxy at once, without the system proxy; both open()   *)
(* and mapRing() must succeed to be connected.                             *)
Attach ==
  /\ app = "boot" /\ caPc = "done"
  /\ app' = "up"
  /\ handle' = CanOpen
  /\ deviceConnected' \in {FALSE, CanOpen}
  /\ listen' \in {0} \cup (IF caReady THEN {DefaultPort} ELSE {})
  /\ UNCHANGED <<stopping, capturing, wfpRedirect, useSystemProxy, proxyPort, driverVars, osVars,
                 starts, caVars, redirectEnable, redirectPort, setRedirect, conn>>

(* The handle goes, with the mapping; a driver that was waiting for it is  *)
(* unloaded, once its callbacks have returned, and its context freed.      *)
DriverGone ==
  /\ conn.stage # "rewrite"
  /\ captureActive' = FALSE /\ redirectEnable' = FALSE /\ redirectPort' = 0

ClosesHandle ==
  IF driver = "leaving"
  THEN driver' = "out" /\ DriverGone
  ELSE UNCHANGED <<driver, captureActive, redirectEnable, redirectPort>>

(* The UI thread is in its loop, neither inside an IOCTL nor inside stop() *)
Click == app = "up" /\ ~setRedirect.pending /\ ~stopping

(* Past the main loop: Save, whose file may not open and is then kept, and *)
(* stop() closes the listener.                                             *)
Exit ==
  /\ Click
  /\ app' = "exit" /\ listen' = 0
  /\ settings' \in {settings, [port |-> proxyPort, system |-> useSystemProxy]}
  /\ UNCHANGED <<stopping, handle, deviceConnected, capturing, wfpRedirect, useSystemProxy,
                 proxyPort, driverVars, systemProxy, proxyStale, starts, caVars,
                 redirectEnable, redirectPort, setRedirect, conn>>

(* The process is gone: nothing but what it closes is switched off.        *)
Ends ==
  /\ ~setRedirect.pending
  /\ app' = "down" /\ FreshApp /\ ClosesHandle
  /\ useSystemProxy' = FALSE /\ proxyPort' = DefaultPort
  /\ listen' = 0 /\ conn' = Abandoned
  /\ CaDies
  /\ UNCHANGED <<systemProxy, settings, starts, setRedirect>>

(* stop() has joined the listener and every connection thread; close().    *)
ExitEnd ==
  /\ app = "exit" /\ ~InThread /\ Ends
  /\ UNCHANGED proxyStale

(* Killed, at any point, inside stop() too.                                *)
Crash ==
  /\ app # "down" /\ Ends
  /\ proxyStale' = Ours(systemProxy)

-----------------------------------------------------------------------------
(* The UI: one click.                                                      *)

(* Connect(): the menu, the Connect button and Settings' Reconnect.        *)
Connect ==
  /\ Click
  /\ handle' = CanOpen /\ deviceConnected' = CanOpen
  /\ UNCHANGED <<app, stopping, capturing, wfpRedirect, useSystemProxy, proxyPort, driverVars, osVars,
                 starts, caVars, redirectVars>>

(* Mutant: the switch is flipped whatever the IOCTL returned, and whether  *)
(* or not the device is connected.                                         *)
StartCaptureUnchecked ==
  /\ Click /\ ~capturing
  /\ capturing' = TRUE
  /\ captureActive' = (captureActive \/ handle)
  /\ UNCHANGED <<app, stopping, handle, deviceConnected, wfpRedirect, useSystemProxy,
                 proxyPort, driver, osVars, starts, caVars, redirectVars>>

(* The menu items and the big button.                                      *)
StartCapture ==
  /\ Click /\ deviceConnected /\ ~capturing /\ handle
  /\ capturing' = TRUE /\ captureActive' = TRUE
  /\ UNCHANGED <<app, stopping, handle, deviceConnected, wfpRedirect, useSystemProxy,
                 proxyPort, driver, osVars, starts, caVars, redirectVars>>

StopCapture ==
  /\ Click /\ deviceConnected /\ capturing /\ handle
  /\ capturing' = FALSE /\ captureActive' = FALSE
  /\ UNCHANGED <<app, stopping, handle, deviceConnected, wfpRedirect, useSystemProxy,
                 proxyPort, driver, osVars, starts, caVars, redirectVars>>

(* Load driver: a service that is to be deleted cannot be created again.   *)
(* (Once its WFP objects are committed a load succeeds only after a reboot *)
(* or their removal by hand, see KndDriver; neither is followed here.)     *)
LoadDriver ==
  /\ Click /\ driver = "out"
  /\ driver' = "in"
  /\ UNCHANGED <<appVars, captureActive, osVars, starts, caVars, redirectVars>>

(* Unload driver: stop and delete the service.  The driver's unload        *)
(* routine runs when nobody has the device open.                           *)
UnloadDriver ==
  /\ Click /\ driver = "in"
  /\ IF handle
     THEN driver' = "leaving" /\ UNCHANGED <<captureActive, redirectEnable, redirectPort>>
     ELSE driver' = "out" /\ DriverGone
  /\ UNCHANGED <<appVars, osVars, starts, caVars, setRedirect, listen, conn>>

(* Mutant: what was typed is not brought back into the range of ports.     *)
EditPortUnclamped(p) ==
  /\ Click /\ listen = 0
  /\ proxyPort' \in {0, 65536}
  /\ UNCHANGED <<app, stopping, handle, deviceConnected, capturing, wfpRedirect,
                 useSystemProxy, driverVars, osVars, starts, caVars, redirectVars>>

(* The port can be edited only while the proxy does not run.               *)
EditPort(p) ==
  /\ Click /\ listen = 0 /\ p # proxyPort
  /\ proxyPort' = p
  /\ UNCHANGED <<app, stopping, handle, deviceConnected, capturing, wfpRedirect,
                 useSystemProxy, driverVars, osVars, starts, caVars, redirectVars>>

ToggleSystemProxy ==
  /\ Click
  /\ useSystemProxy' = ~useSystemProxy
  /\ UNCHANGED <<app, stopping, handle, deviceConnected, capturing, wfpRedirect,
                 proxyPort, driverVars, osVars, starts, caVars, redirectVars>>

(* The box changes although setRedirect may fail.                          *)
ToggleRedirect ==
  /\ Click
  /\ wfpRedirect' = ~wfpRedirect
  /\ IF handle
     THEN SetRedirectPort(wfpRedirect', proxyPort)
     ELSE UNCHANGED <<redirectEnable, redirectPort, setRedirect>>
  /\ UNCHANGED <<app, stopping, handle, deviceConnected, capturing, useSystemProxy,
                 proxyPort, driverVars, osVars, starts, caVars, listen, conn>>

(* SetSystemProxy.  The registry key may not open; the callers do not look *)
(* at the result.                                                          *)
SetSystemProxy(value) ==
  \/ systemProxy' = value /\ proxyStale' = FALSE
  \/ proxyStale' = Ours(systemProxy) /\ UNCHANGED systemProxy

(* Start MITM proxy, when the CA is ready and the port can be bound.       *)
StartProxy ==
  /\ Click /\ listen = 0 /\ caReady
  /\ listen' = proxyPort
  /\ IF useSystemProxy THEN SetSystemProxy(proxyPort) ELSE UNCHANGED <<systemProxy, proxyStale>>
  /\ UNCHANGED <<appVars, driverVars, settings, starts, caVars,
                 redirectEnable, redirectPort, setRedirect, conn>>

(* Stop MITM proxy: stop() closes the listener and joins the listening and *)
(* the connection threads ...                                              *)
StopProxy ==
  /\ Click /\ listen # 0
  /\ listen' = 0 /\ stopping' = TRUE
  /\ UNCHANGED <<app, handle, deviceConnected, capturing, wfpRedirect, useSystemProxy, proxyPort,
                 driverVars, osVars, starts, caVars, redirectEnable, redirectPort, setRedirect,
                 conn>>

(* Mutant: the system proxy is switched off only if the box is still set.  *)
StopProxyIfBox ==
  /\ stopping /\ ~InThread
  /\ stopping' = FALSE
  /\ IF useSystemProxy THEN SetSystemProxy(NoProxy) ELSE UNCHANGED <<systemProxy, proxyStale>>
  /\ UNCHANGED <<app, handle, deviceConnected, capturing, wfpRedirect, useSystemProxy, proxyPort,
                 driverVars, settings, starts, caVars, redirectVars>>

(* ... and only then the system proxy goes too, whoever had set it.        *)
StopProxyEnd ==
  /\ stopping /\ ~InThread
  /\ stopping' = FALSE
  /\ SetSystemProxy(NoProxy)
  /\ UNCHANGED <<app, handle, deviceConnected, capturing, wfpRedirect, useSystemProxy, proxyPort,
                 driverVars, settings, starts, caVars, redirectVars>>

InstallCa ==
  /\ Click /\ InstallCaToRoot
  /\ UNCHANGED <<appVars, driverVars, osVars, starts, redirectVars>>

-----------------------------------------------------------------------------
(* Beside the UI.                                                          *)

(* The IOCTL's second store, and the classify callback.                    *)
DriverStep ==
  /\ \/ SetRedirectEnable
     \/ driver # "out" /\ ClassifyConnect
     \/ ClassifyRewrite
  /\ UNCHANGED <<appVars, driverVars, osVars, starts, caVars>>

(* Without the driver nothing is classified.                               *)
Unclassified ==
  /\ driver = "out" /\ conn.stage = "dial"
  /\ conn' = [conn EXCEPT !.stage = "go"]
  /\ UNCHANGED <<appVars, driverVars, osVars, starts, caVars,
                 redirectEnable, redirectPort, setRedirect, listen>>

Client ==
  /\ ClientDials(systemProxy) \/ Arrive
  /\ UNCHANGED <<appVars, driverVars, osVars, starts, caVars>>

Proxy ==
  /\ \/ \E h \in Hosts : CertForHost(h) /\ HandleConn(TRUE)
     \/ HandleConn(FALSE) /\ UNCHANGED caVars
  /\ UNCHANGED <<appVars, driverVars, osVars, starts>>

(* The user sets a proxy of their own in Windows, or switches it off.      *)
UserSetsProxy ==
  /\ Ours(systemProxy)
  /\ systemProxy' = NoProxy
  /\ proxyStale' = FALSE
  /\ UNCHANGED <<appVars, driverVars, settings, starts, caVars, redirectVars>>

Next ==
  \/ Start \/ BootCa \/ Attach \/ Exit \/ ExitEnd \/ Crash
  \/ Connect \/ StartCapture \/ StopCapture \/ LoadDriver \/ UnloadDriver
  \/ (\E p \in Ports : EditPort(p)) \/ ToggleSystemProxy \/ ToggleRedirect
  \/ StartProxy \/ StopProxy \/ StopProxyEnd \/ InstallCa
  \/ DriverStep \/ Unclassified \/ Client \/ Proxy \/ UserSetsProxy

Spec == Init /\ [][Next]_vars

-----------------------------------------------------------------------------
(* Properties.                                                             *)

(* Every variable has its type; the port stays in the range ui.cpp keeps.  *)
TypeOK ==
  /\ app \in {"down", "boot", "up", "exit"} /\ stopping \in BOOLEAN
  /\ handle \in BOOLEAN /\ deviceConnected \in BOOLEAN
  /\ capturing \in BOOLEAN /\ wfpRedirect \in BOOLEAN /\ useSystemProxy \in BOOLEAN
  /\ proxyPort \in Ports
  /\ driver \in {"out", "in", "leaving"} /\ captureActive \in BOOLEAN
  /\ systemProxy \in {NoProxy} \cup Ports /\ proxyStale \in BOOLEAN
  /\ settings \in [port : Ports, system : BOOLEAN]
  /\ starts \in 0 .. MaxStarts
  /\ CaTypeOK /\ RedirectTypeOK

(* ui.cpp shows "LIVE" from its own switch, never asking the driver.  Over *)
(* reconnects, unloads, restarts: when it says so, the driver records.     *)
LiveIsTruthful == capturing => driver # "out" /\ captureActive

(* While the app runs, and unless it was left so by an earlier run or the  *)
(* registry could not be written: the system proxy names the port the      *)
(* proxy listens on, or not this app.  Only inside stop(), for as long as  *)
(* the threads take to be joined, does it name a port nobody listens on.   *)
(* (The end of the app leaves it set, although ui.cpp calls the option     *)
(* "Set as Windows system proxy while running".)                           *)
SystemProxyListens ==
  app = "up" /\ ~stopping /\ Ours(systemProxy) /\ ~proxyStale => listen = systemProxy

=============================================================================
