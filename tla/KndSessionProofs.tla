-------------------------- MODULE KndSessionProofs -------------------------
(***************************************************************************)
(* The session's properties for any ports, hosts, number of starts and of  *)
(* key pairs.  Each has an invariant of its own over the few variables it  *)
(* is about; the actions that leave those alone are one step.              *)
(***************************************************************************)
EXTENDS KndSession, TLAPS

(* Capture is on in the driver if the app shows it, since the app then has *)
(* the device open, which keeps the driver, and with it its switch.        *)
LiveInv ==
  /\ capturing => handle /\ captureActive
  /\ handle => driver # "out"

LEMMA LiveStep == LiveInv /\ [Next]_vars => LiveInv'
<1> SUFFICES ASSUME LiveInv, [Next]_vars PROVE LiveInv'
  OBVIOUS
<1> USE DEF LiveInv
<1>1. CASE Start \/ Exit \/ ExitEnd \/ Crash
  BY <1>1 DEF Start, Exit, ExitEnd, Crash, Ends, FreshApp, driverVars
<1>2. CASE Attach \/ Connect
  <2>1. /\ handle' = (handle \/ driver = "in")
        /\ UNCHANGED <<capturing, driver, captureActive>>
    BY <1>2 DEF Attach, Connect, CanOpen, driverVars
  <2> QED
    BY <2>1, Zenon
<1>3. CASE StartCapture \/ StopCapture
  BY <1>3 DEF StartCapture, StopCapture
<1>4. CASE LoadDriver \/ UnloadDriver
  BY <1>4 DEF LoadDriver, UnloadDriver, appVars
<1>5. CASE BootCa \/ StartProxy \/ StopProxy \/ StopProxyEnd \/ InstallCa \/ DriverStep
  BY <1>5 DEF BootCa, StartProxy, StopProxy, StopProxyEnd, InstallCa, DriverStep, appVars,
              driverVars
<1>6. CASE Unclassified \/ Client \/ Proxy \/ UserSetsProxy
  <2>1. UNCHANGED <<appVars, driverVars>>
    BY <1>6 DEF Unclassified, Client, Proxy, UserSetsProxy
  <2> QED
    BY <2>1 DEF appVars, driverVars
<1>7. CASE (\E p \in Ports : EditPort(p)) \/ ToggleSystemProxy \/ ToggleRedirect
  BY <1>7 DEF EditPort, ToggleSystemProxy, ToggleRedirect, driverVars
<1>8. CASE UNCHANGED vars
  BY <1>8 DEF vars, appVars, driverVars
<1> QED
  BY <1>1, <1>2, <1>3, <1>4, <1>5, <1>6, <1>7, <1>8 DEF Next

(* The app's LIVE is true of the driver, in every behaviour (ui.cpp,       *)
(* knd_service.cpp, driver.c).                                             *)
THEOREM LiveCorrect == Spec => []LiveIsTruthful
<1>1. Init => LiveInv
  BY DEF Init, LiveInv
<1>2. LiveInv => LiveIsTruthful
  BY DEF LiveInv, LiveIsTruthful
<1> QED
  BY <1>1, <1>2, LiveStep, PTL DEF Spec

-----------------------------------------------------------------------------
(* What the system proxy names when the app starts is an earlier run's.    *)
ProxyInv ==
  /\ SystemProxyListens
  /\ app = "boot" /\ Ours(systemProxy) => proxyStale

LEMMA ProxyStep == ProxyInv /\ [Next]_vars => ProxyInv'
<1> SUFFICES ASSUME ProxyInv, [Next]_vars PROVE ProxyInv'
  OBVIOUS
<1> USE DEF ProxyInv, SystemProxyListens, Ours
<1>0. 0 \notin Ports
  BY PortsAssumption
<1>1. CASE Start \/ Exit \/ ExitEnd \/ Crash
  BY <1>1 DEF Start, Exit, ExitEnd, Crash, Ends, osVars, redirectVars
<1>2. CASE Attach
  BY <1>0, <1>2 DEF Attach, osVars
<1>3. CASE StartProxy \/ StopProxy
  BY <1>0, <1>3 DEF StartProxy, StopProxy, Click, SetSystemProxy, NoProxy, appVars, osVars
<1>a. CASE StopProxyEnd
  BY <1>0, <1>a DEF StopProxyEnd, SetSystemProxy, NoProxy
<1>4. CASE Connect \/ StartCapture \/ StopCapture
  BY <1>4 DEF Connect, StartCapture, StopCapture, osVars, redirectVars
<1>5. CASE LoadDriver \/ UnloadDriver
  BY <1>5 DEF LoadDriver, UnloadDriver, appVars, osVars, redirectVars
<1>6. CASE (\E p \in Ports : EditPort(p)) \/ ToggleSystemProxy \/ ToggleRedirect
  BY <1>6 DEF EditPort, ToggleSystemProxy, ToggleRedirect, osVars, redirectVars
<1>7. CASE BootCa \/ InstallCa
  BY <1>7 DEF BootCa, InstallCa, appVars, osVars, redirectVars
<1>8. CASE DriverStep \/ Unclassified
  BY <1>8 DEF DriverStep, Unclassified, SetRedirectEnable, ClassifyConnect, ClassifyRewrite,
              appVars, osVars
<1>9. CASE Client \/ Proxy
  BY <1>9 DEF Client, Proxy, ClientDials, Arrive, HandleConn, appVars, osVars
<1>10. CASE UserSetsProxy
  BY <1>0, <1>10 DEF UserSetsProxy, NoProxy, appVars, redirectVars
<1>11. CASE UNCHANGED vars
  BY <1>11 DEF vars, appVars, osVars, redirectVars
<1> QED
  BY <1>1, <1>2, <1>3, <1>a, <1>4, <1>5, <1>6, <1>7, <1>8, <1>9, <1>10, <1>11 DEF Next

(* While the app runs and is not inside stop(), the system proxy it set is *)
(* one that listens (ui.cpp, win_integration.cpp).                         *)
THEOREM SystemProxyCorrect == Spec => []SystemProxyListens
<1>1. Init => ProxyInv
  BY PortsAssumption DEF Init, RedirectInit, ProxyInv, SystemProxyListens, Ours, NoProxy
<1>2. ProxyInv => SystemProxyListens
  BY DEF ProxyInv
<1> QED
  BY <1>1, <1>2, ProxyStep, PTL DEF Spec

-----------------------------------------------------------------------------
(* A ClientHello goes to the server, or was sent to the proxy with the     *)
(* server as its origin.  The proxy itself opens only such connections.    *)
ConnInv ==
  /\ conn.byProxy => conn.proto = "tls"
  /\ conn.proto = "tls" => conn.origin \in {NoAddress, conn.want}
  /\ conn.proto = "tls" /\ conn.stage \in {"dial", "rewrite"} => conn.dest = conn.want

ConnFields ==
  conn = [stage |-> conn.stage, byProxy |-> conn.byProxy, proto |-> conn.proto,
          want |-> conn.want, dest |-> conn.dest, origin |-> conn.origin]

LEMMA ConnStep == ConnInv /\ ConnFields /\ [Next]_vars => ConnInv' /\ ConnFields'
<1> SUFFICES ASSUME ConnInv, ConnFields, [Next]_vars PROVE ConnInv' /\ ConnFields'
  OBVIOUS
<1> USE DEF ConnInv, ConnFields
<1>1. CASE conn' = conn
  BY <1>1
<1>2. CASE conn' = NoConn
  BY <1>2 DEF NoConn
<1>3. CASE ClassifyConnect
  BY <1>3 DEF ClassifyConnect
<1>4. CASE ClassifyRewrite
  BY <1>4 DEF ClassifyRewrite
<1>5. CASE \E proxy : ClientDials(proxy)
  <2>1. PICK proxy : ClientDials(proxy)
    BY <1>5
  <2>2. \/ conn' = Dial(FALSE, "tls", Server(443), Server(443))
        \/ conn' = Dial(FALSE, "http", Server(80), Server(80))
        \/ \E p \in Ports \cap {proxy} : conn' = Dial(FALSE, "connect", Server(443), Loopback(p))
    BY <2>1, Zenon DEF ClientDials
  <2> QED
    BY <2>2 DEF Dial
<1>6. CASE Arrive
  BY <1>6, <1>2 DEF Arrive
<1>7. CASE \E minted \in BOOLEAN : HandleConn(minted)
  BY <1>7, <1>2 DEF HandleConn, Upstream, Dial
<1>8. CASE conn.stage = "dial" /\ conn' = [conn EXCEPT !.stage = "go"]
  BY <1>8
<1>9. CASE Exit \/ ExitEnd \/ Crash \/ StopProxy \/ StopProxyEnd
  BY <1>9, <1>1, <1>2 DEF Exit, ExitEnd, Crash, Ends, StopProxy, StopProxyEnd, Abandoned,
                          redirectVars
<1>10. CASE Start \/ BootCa \/ Attach \/ Connect \/ StartCapture \/ StopCapture
  BY <1>10, <1>1 DEF Start, BootCa, Attach, Connect, StartCapture, StopCapture, redirectVars
<1>11. CASE LoadDriver \/ UnloadDriver \/ StartProxy \/ InstallCa \/ UserSetsProxy
  BY <1>11, <1>1 DEF LoadDriver, UnloadDriver, StartProxy, InstallCa, UserSetsProxy, redirectVars
<1>12. CASE (\E p \in Ports : EditPort(p)) \/ ToggleSystemProxy \/ ToggleRedirect
  BY <1>12, <1>1 DEF EditPort, ToggleSystemProxy, ToggleRedirect, redirectVars
<1>13. CASE DriverStep
  BY <1>13, <1>1, <1>3, <1>4 DEF DriverStep, SetRedirectEnable
<1>14. CASE Unclassified
  BY <1>14, <1>8 DEF Unclassified
<1>15. CASE Client
  BY <1>15, <1>5, <1>6 DEF Client
<1>16. CASE Proxy
  BY <1>16, <1>7 DEF Proxy
<1>17. CASE UNCHANGED vars
  BY <1>17, <1>1 DEF vars, redirectVars
<1> QED
  BY <1>9, <1>10, <1>11, <1>12, <1>13, <1>14, <1>15, <1>16, <1>17 DEF Next

(* However SET_REDIRECT and the callback interleave, and however often a   *)
(* connection is redirected, the proxy dials the server its client wanted  *)
(* (ioctl.c, wfp.c, mitm_proxy.cpp).                                       *)
THEOREM UpstreamCorrect == Spec => []UpstreamIsOrigin
<1>1. Init => ConnInv /\ ConnFields
  BY DEF Init, RedirectInit, ConnInv, ConnFields, NoConn
<1>2. ConnInv => UpstreamIsOrigin
  BY DEF ConnInv, UpstreamIsOrigin
<1> QED
  BY <1>1, <1>2, ConnStep, PTL DEF Spec

-----------------------------------------------------------------------------
(* The types of what belongs to the app, the driver and Windows.           *)
SwitchTypes ==
  /\ app \in {"down", "boot", "up", "exit"} /\ stopping \in BOOLEAN
  /\ handle \in BOOLEAN /\ deviceConnected \in BOOLEAN
  /\ capturing \in BOOLEAN /\ wfpRedirect \in BOOLEAN /\ useSystemProxy \in BOOLEAN
  /\ proxyPort \in Ports
  /\ driver \in {"out", "in", "leaving"} /\ captureActive \in BOOLEAN
  /\ systemProxy \in {NoProxy} \cup Ports /\ proxyStale \in BOOLEAN
  /\ settings \in [port : Ports, system : BOOLEAN]
  /\ starts \in 0 .. MaxStarts

LEMMA SwitchInit == Init => SwitchTypes
<1> SUFFICES ASSUME Init PROVE SwitchTypes
  OBVIOUS
<1>1. 0 \in 0 .. MaxStarts
  BY SessionAssumption
<1>2. settings \in [port : Ports, system : BOOLEAN]
  BY SessionAssumption DEF Init, NoSettings
<1> QED
  BY <1>1, <1>2, SessionAssumption DEF Init, SwitchTypes

LEMMA SwitchStep == SwitchTypes /\ [Next]_vars => SwitchTypes'
<1> SUFFICES ASSUME SwitchTypes, [Next]_vars PROVE SwitchTypes'
  OBVIOUS
<1> USE SessionAssumption DEF SwitchTypes
<1>1. CASE Start
  <2>1. starts' \in 0 .. MaxStarts
    BY <1>1 DEF Start
  <2>2. settings.port \in Ports /\ settings.system \in BOOLEAN
    OBVIOUS
  <2>3. proxyStale' \in BOOLEAN
    <3>1. proxyStale' = (systemProxy \in Ports)
      BY <1>1, Zenon DEF Start, Ours
    <3> QED
      BY <3>1
  <2> QED
    BY <1>1, <2>1, <2>2, <2>3 DEF Start, FreshApp, driverVars
<1>a. CASE Exit
  <2>1. settings' \in [port : Ports, system : BOOLEAN]
    BY <1>a DEF Exit
  <2> QED
    BY <1>a, <2>1 DEF Exit, driverVars
<1>2. CASE ExitEnd \/ Crash
  <2>1. Ends
    BY <1>2 DEF ExitEnd, Crash
  <2>2. settings' = settings
    BY <2>1 DEF Ends
  <2>3. /\ driver' \in {"out", "in", "leaving"} /\ captureActive' \in BOOLEAN
        /\ proxyStale' \in BOOLEAN
    <3>1. ClosesHandle /\ (proxyStale' = proxyStale \/ proxyStale' = (systemProxy \in Ports))
      BY <1>2, <2>1, Zenon DEF ExitEnd, Crash, Ends, Ours
    <3>2. proxyStale' \in BOOLEAN
      <4>1. CASE proxyStale' = proxyStale
        BY <4>1
      <4>2. CASE proxyStale' = (systemProxy \in Ports)
        BY <4>2
      <4> QED
        BY <3>1, <4>1, <4>2
    <3>3. driver' \in {"out", "in", "leaving"} /\ captureActive' \in BOOLEAN
      BY <3>1 DEF ClosesHandle, DriverGone
    <3> QED
      BY <3>2, <3>3
  <2> QED
    BY <2>1, <2>2, <2>3 DEF Ends, FreshApp
<1>3. CASE Attach \/ Connect
  <2>1. handle' \in BOOLEAN /\ deviceConnected' \in BOOLEAN
    BY <1>3, Zenon DEF Attach, Connect, CanOpen
  <2> QED
    BY <1>3, <2>1 DEF Attach, Connect, Click, driverVars, osVars
<1>4. CASE StartCapture \/ StopCapture
  BY <1>4 DEF StartCapture, StopCapture, osVars
<1>5. CASE LoadDriver \/ UnloadDriver
  BY <1>5 DEF LoadDriver, UnloadDriver, DriverGone, appVars, osVars
<1>6. CASE (\E p \in Ports : EditPort(p)) \/ ToggleSystemProxy \/ ToggleRedirect
  <2>1. useSystemProxy' \in BOOLEAN /\ wfpRedirect' \in BOOLEAN
    BY <1>6, Zenon DEF EditPort, ToggleSystemProxy, ToggleRedirect
  <2> QED
    BY <1>6, <2>1 DEF EditPort, ToggleSystemProxy, ToggleRedirect, driverVars, osVars
<1>7. CASE StartProxy \/ StopProxy \/ StopProxyEnd
  <2>1. systemProxy' \in {NoProxy} \cup Ports /\ proxyStale' \in BOOLEAN
    <3>1. SetSystemProxy(NoProxy) \/ SetSystemProxy(proxyPort) \/ UNCHANGED <<systemProxy, proxyStale>>
      BY <1>7 DEF StartProxy, StopProxy, StopProxyEnd, osVars
    <3>2. systemProxy' \in {NoProxy, proxyPort, systemProxy}
      BY <3>1 DEF SetSystemProxy
    <3>3. \/ proxyStale' = FALSE \/ proxyStale' = proxyStale
          \/ proxyStale' = (systemProxy \in Ports)
      BY <3>1, Zenon DEF SetSystemProxy, Ours
    <3>4. CASE proxyStale' = (systemProxy \in Ports)
      BY <3>2, <3>4
    <3>5. CASE proxyStale' = FALSE \/ proxyStale' = proxyStale
      BY <3>2, <3>5
    <3> QED
      BY <3>3, <3>4, <3>5
  <2> QED
    <3>1. stopping' \in BOOLEAN
      <4>1. stopping' = stopping \/ stopping' = TRUE \/ stopping' = FALSE
        BY <1>7 DEF StartProxy, StopProxy, StopProxyEnd, appVars
      <4> QED
        BY <4>1
    <3> QED
      BY <1>7, <2>1, <3>1 DEF StartProxy, StopProxy, StopProxyEnd, appVars, driverVars, osVars
<1>8. CASE BootCa \/ InstallCa \/ DriverStep \/ Unclassified \/ Client \/ Proxy
  <2>1. UNCHANGED <<appVars, driverVars, osVars, starts>>
    BY <1>8 DEF BootCa, InstallCa, DriverStep, Unclassified, Client, Proxy
  <2> QED
    BY <2>1 DEF appVars, driverVars, osVars
<1>9. CASE UserSetsProxy
  BY <1>9 DEF UserSetsProxy, appVars, driverVars
<1>10. CASE UNCHANGED vars
  BY <1>10 DEF vars, appVars, driverVars, osVars
<1> QED
  BY <1>1, <1>a, <1>2, <1>3, <1>4, <1>5, <1>6, <1>7, <1>8, <1>9, <1>10 DEF Next

-----------------------------------------------------------------------------
(* A port is in place before the flag is, and while a callback that saw    *)
(* the flag is on its way to read the port.                                *)
PortInv ==
  /\ redirectEnable \/ setRedirect.pending \/ conn.stage = "rewrite" => redirectPort \in Ports
  /\ RewriteHasPort

LEMMA PortStep == PortInv /\ ConnFields /\ SwitchTypes /\ [Next]_vars => PortInv'
<1> SUFFICES ASSUME PortInv, ConnFields, SwitchTypes, [Next]_vars PROVE PortInv'
  OBVIOUS
<1> USE DEF PortInv, RewriteHasPort, ConnFields
<1>0. proxyPort \in Ports
  BY DEF SwitchTypes
<1>1. CASE UNCHANGED <<redirectEnable, redirectPort, setRedirect, conn>>
  BY <1>1
<1>2. CASE UNCHANGED <<redirectEnable, redirectPort, setRedirect>> /\ conn' = NoConn
  BY <1>2 DEF NoConn, NoAddress
<1>3. CASE ClassifyConnect
  <2>1. UNCHANGED <<redirectEnable, redirectPort, setRedirect>>
    BY <1>3 DEF ClassifyConnect
  <2>2. CASE redirectEnable /\ conn' = [conn EXCEPT !.stage = "rewrite"]
    BY <2>1, <2>2
  <2>3. CASE conn' = [conn EXCEPT !.stage = "go"]
    BY <2>1, <2>3
  <2> QED
    BY <1>3, <2>2, <2>3 DEF ClassifyConnect, Redirects
<1>4. CASE ClassifyRewrite
  <2>1. UNCHANGED <<redirectEnable, redirectPort, setRedirect>> /\ conn.stage = "rewrite"
    BY <1>4 DEF ClassifyRewrite
  <2>2. CASE conn' = [conn EXCEPT !.stage = "go", !.dest = Loopback(redirectPort),
                                  !.origin = conn.dest]
    BY <2>1, <2>2 DEF Loopback
  <2>3. CASE conn' = [conn EXCEPT !.stage = "go"]
    BY <2>1, <2>3
  <2> QED
    BY <1>4, <2>2, <2>3 DEF ClassifyRewrite
<1>5. CASE SetRedirectEnable
  BY <1>5 DEF SetRedirectEnable, NoStore
<1>6. CASE \E proxy : ClientDials(proxy)
  <2>1. PICK proxy : ClientDials(proxy)
    BY <1>6
  <2>2. UNCHANGED <<redirectEnable, redirectPort, setRedirect>>
    BY <2>1 DEF ClientDials
  <2>3. \/ conn' = Dial(FALSE, "tls", Server(443), Server(443))
        \/ conn' = Dial(FALSE, "http", Server(80), Server(80))
        \/ \E p \in Ports \cap {proxy} : conn' = Dial(FALSE, "connect", Server(443), Loopback(p))
    BY <2>1, Zenon DEF ClientDials
  <2> QED
    BY <2>2, <2>3 DEF Dial
<1>7. CASE Arrive
  BY <1>7, <1>2 DEF Arrive
<1>8. CASE \E minted \in BOOLEAN : HandleConn(minted)
  BY <1>8, <1>2 DEF HandleConn, Dial
<1>9. CASE Unclassified
  BY <1>9 DEF Unclassified
<1>10. CASE ExitEnd \/ Crash
  <2>1. /\ ~setRedirect.pending /\ UNCHANGED setRedirect
        /\ conn' = conn \/ conn' = NoConn
        /\ \/ UNCHANGED <<redirectEnable, redirectPort>>
           \/ conn.stage # "rewrite" /\ redirectEnable' = FALSE
    BY <1>10 DEF ExitEnd, Crash, Ends, ClosesHandle, DriverGone, Abandoned
  <2> QED
    BY <2>1 DEF NoConn, NoAddress
<1>11. CASE UnloadDriver
  <2>1. /\ ~setRedirect.pending /\ UNCHANGED <<setRedirect, conn>>
        /\ \/ UNCHANGED <<redirectEnable, redirectPort>>
           \/ conn.stage # "rewrite" /\ redirectEnable' = FALSE
    BY <1>11 DEF UnloadDriver, Click, DriverGone
  <2> QED
    BY <2>1
<1>12. CASE ToggleRedirect
  BY <1>0, <1>1, <1>12 DEF ToggleRedirect, SetRedirectPort
<1>13. CASE Start \/ BootCa \/ Attach \/ Exit \/ Connect \/ StartCapture \/ StopCapture
  BY <1>13, <1>1 DEF Start, BootCa, Attach, Exit, Connect, StartCapture, StopCapture, redirectVars
<1>14. CASE LoadDriver \/ StartProxy \/ StopProxy \/ StopProxyEnd \/ InstallCa \/ UserSetsProxy
  BY <1>14, <1>1 DEF LoadDriver, StartProxy, StopProxy, StopProxyEnd, InstallCa, UserSetsProxy,
                     redirectVars
<1>15. CASE (\E p \in Ports : EditPort(p)) \/ ToggleSystemProxy
  BY <1>15, <1>1 DEF EditPort, ToggleSystemProxy, redirectVars
<1>16. CASE DriverStep
  BY <1>16, <1>3, <1>4, <1>5 DEF DriverStep
<1>17. CASE Client
  BY <1>17, <1>6, <1>7 DEF Client
<1>18. CASE Proxy
  BY <1>18, <1>8 DEF Proxy
<1>19. CASE UNCHANGED vars
  BY <1>19, <1>1 DEF vars, redirectVars
<1> QED
  BY <1>9, <1>10, <1>11, <1>12, <1>13, <1>14, <1>15, <1>16, <1>17, <1>18, <1>19 DEF Next

(* A redirected connection is sent to a port the proxy was given, however  *)
(* the two stores of SET_REDIRECT and the callback's reads interleave, and *)
(* over unloads and reloads of the driver (ioctl.c, wfp.c).                *)
THEOREM RewriteCorrect == Spec => []RewriteHasPort
<1>1. Init => PortInv /\ ConnFields
  BY DEF Init, RedirectInit, PortInv, RewriteHasPort, ConnFields, NoConn, NoStore, NoAddress
<1>2. Init => ConnInv
  BY DEF Init, RedirectInit, ConnInv, NoConn
<1>3. PortInv => RewriteHasPort
  BY DEF PortInv
<1> QED
  BY <1>1, <1>2, <1>3, SwitchInit, SwitchStep, ConnStep, PortStep, PTL DEF Spec

-----------------------------------------------------------------------------
(* Every step of the session is one of the CA's, or leaves the CA alone.   *)
LEMMA CaSteps == [Next]_vars => [CaNext]_caVars
<1> SUFFICES ASSUME [Next]_vars PROVE [CaNext]_caVars
  OBVIOUS
<1> USE DEF CaNext
<1>1. CASE BootCa \/ ExitEnd \/ Crash \/ InstallCa
  BY <1>1 DEF BootCa, ExitEnd, Crash, Ends, InstallCa
<1>2. CASE Proxy
  BY <1>2 DEF Proxy
<1>3. CASE Start \/ Attach \/ Exit \/ Connect \/ StartCapture \/ StopCapture
  BY <1>3 DEF Start, Attach, Exit, Connect, StartCapture, StopCapture
<1>4. CASE LoadDriver \/ UnloadDriver \/ StartProxy \/ StopProxy \/ StopProxyEnd
  BY <1>4 DEF LoadDriver, UnloadDriver, StartProxy, StopProxy, StopProxyEnd
<1>5. CASE (\E p \in Ports : EditPort(p)) \/ ToggleSystemProxy \/ ToggleRedirect
  BY <1>5 DEF EditPort, ToggleSystemProxy, ToggleRedirect
<1>6. CASE DriverStep \/ Unclassified \/ Client \/ UserSetsProxy
  BY <1>6 DEF DriverStep, Unclassified, Client, UserSetsProxy
<1>7. CASE UNCHANGED vars
  BY <1>7 DEF vars
<1> QED
  BY <1>1, <1>2, <1>3, <1>4, <1>5, <1>6, <1>7 DEF Next

LEMMA FileTypes ==
  /\ 0 \in Gens /\ Empty \in Files /\ NoLeaf \in Leaves
  /\ \A g \in Gens : Whole(g) \in Files /\ Torn(g) \in Files
<1>1. 0 \in Gens
  BY CaAssumption DEF Gens
<1> QED
  BY <1>1 DEF Files, Leaves, NoLeaf, Empty, Whole, Torn, File

LEMMA CaTypeInit == CaInit => CaTypeOK
BY FileTypes DEF CaInit, CaProcInit, CaTypeOK

LEMMA CaTypeStep == CaTypeOK /\ [CaNext]_caVars => CaTypeOK'
<1> SUFFICES ASSUME CaTypeOK, [CaNext]_caVars PROVE CaTypeOK'
  OBVIOUS
<1> USE FileTypes DEF CaTypeOK
<1>1. CASE LoadCa \/ CreateFails
  <2>1. keyFile.gen \in Gens
    BY DEF Files
  <2> QED
    BY <1>1, <2>1 DEF LoadCa, CreateFails, CaReturns, caFiles
<1>2. CASE CreateCa
  <2>1. gens' \in Gens
    BY <1>2, CaAssumption DEF CreateCa, Gens
  <2>2. misread' \in BOOLEAN
    BY <1>2 DEF CreateCa
  <2> QED
    BY <1>2, <2>1, <2>2 DEF CreateCa, caFiles
<1>3. CASE OpenCert \/ OpenKey
  BY <1>3 DEF OpenCert, OpenKey, OpenFile, CaReturns
<1>4. CASE WriteCert \/ WriteKey
  BY <1>4 DEF WriteCert, WriteKey, CaReturns
<1>5. CASE CaDies
  BY <1>5 DEF CaDies, caFiles
<1>6. CASE \E h \in Hosts : CertForHost(h)
  <2>1. [signer |-> caKey, ca |-> caCert] \in Leaves
    BY DEF Leaves
  <2> QED
    BY <1>6, <2>1 DEF CertForHost, caFiles
<1>7. CASE InstallCaToRoot
  <2>1. [gen |-> certFile.gen, ready |-> caReady] \in [gen : Gens, ready : BOOLEAN]
    BY DEF Files
  <2> QED
    BY <1>7, <2>1 DEF InstallCaToRoot, caFiles, caProc
<1>8. CASE UNCHANGED caVars
  BY <1>8 DEF caVars, caFiles, caProc
<1> QED
  BY <1>1, <1>2, <1>3, <1>4, <1>5, <1>6, <1>7, <1>8 DEF CaNext, LoadOrCreate

(* A whole key file means that the certificate file is its own: while a    *)
(* pair is being written the key file is torn, empty, or an older one that *)
(* could not be parsed, so that a start that finds it makes a new pair.    *)
PairInv ==
  /\ keyFile.whole => certFile = Whole(keyFile.gen)
  /\ caPc \in {"openCert", "writeCert", "openKey", "writeKey"} =>
       ~keyFile.whole /\ caCert = Whole(caKey)
  /\ caPc \in {"openKey", "writeKey"} => certFile = Whole(caKey)
  /\ caReady => keyFile = Whole(caKey) /\ caCert = Whole(caKey)
  /\ \A h \in Hosts : cache[h] # NoLeaf => cache[h] = [signer |-> caKey, ca |-> Whole(caKey)]
  /\ \A i \in installed : i.ready => keyFile = Whole(i.gen)

ChainInv ==
  /\ CaTypeOK
  /\ caReady => caPc = "done"
  /\ \A h \in Hosts : cache[h] # NoLeaf => caReady
  /\ ~misread => PairInv

LEMMA ChainStep == ChainInv /\ [CaNext]_caVars => ChainInv'
<1> SUFFICES ASSUME ChainInv, [CaNext]_caVars PROVE ChainInv'
  OBVIOUS
<1>t. CaTypeOK /\ CaTypeOK'
  BY CaTypeStep DEF ChainInv
<1>f. /\ keyFile \in [gen : Gens, whole : BOOLEAN]
      /\ certFile \in [gen : Gens, whole : BOOLEAN]
      /\ misread \in BOOLEAN /\ caReady \in BOOLEAN
  BY <1>t DEF CaTypeOK, Files
<1> USE <1>t, <1>f DEF ChainInv, PairInv, Empty, Whole, Torn, File
<1>1. CASE LoadCa
  BY <1>1 DEF LoadCa, Loads, CaReturns, caFiles
<1>2. CASE CreateFails
  BY <1>2 DEF CreateFails, CaReturns, caFiles
<1>3. CASE CreateCa
  BY <1>3 DEF CreateCa, Loads, caFiles
<1>4. CASE OpenCert \/ OpenKey
  BY <1>4 DEF OpenCert, OpenKey, OpenFile, CaReturns
<1>5. CASE WriteCert \/ WriteKey
  BY <1>5 DEF WriteCert, WriteKey, CaReturns
<1>6. CASE CaDies
  BY <1>6 DEF CaDies, caFiles
<1>7. CASE \E h \in Hosts : CertForHost(h)
  <2>1. PICK h \in Hosts : CertForHost(h)
    BY <1>7
  <2>2. /\ caReady /\ (~misread => caCert = Whole(caKey))
        /\ UNCHANGED <<caFiles, caPc, caReady, caCert, caKey, gens, misread, installed>>
    BY <2>1 DEF CertForHost
  <2>3. CASE cache[h] # NoLeaf
    <3>1. cache' = cache
      BY <2>1, <2>3, Zenon DEF CertForHost
    <3> QED
      BY <2>2, <3>1 DEF caFiles
  <2>4. CASE cache[h] = NoLeaf
    <3>1. /\ cache'[h] = [signer |-> caKey, ca |-> caCert]
          /\ \A k \in Hosts : k # h => cache'[k] = cache[k]
      BY <2>1, <2>4 DEF CertForHost, CaTypeOK
    <3> QED
      BY <2>2, <3>1 DEF caFiles
  <2> QED
    BY <2>3, <2>4
<1>8. CASE InstallCaToRoot
  <2>1. UNCHANGED <<certFile, keyFile, caPc, caReady, caCert, caKey, cache, gens, misread>>
    BY <1>8 DEF InstallCaToRoot, caFiles, caProc
  <2>2. ASSUME ~misread, NEW i \in installed', i.ready PROVE keyFile = Whole(i.gen)
    <3>1. CASE i \in installed
      BY <2>2, <3>1
    <3>2. CASE i = [gen |-> certFile.gen, ready |-> caReady]
      <4>1. caReady /\ i.gen = certFile.gen
        BY <2>2, <3>2
      <4> QED
        BY <2>2, <4>1
    <3> QED
      BY <1>8, <3>1, <3>2 DEF InstallCaToRoot
  <2> QED
    BY <2>1, <2>2
<1>9. CASE UNCHANGED caVars
  BY <1>9 DEF caVars, caFiles, caProc
<1> QED
  BY <1>1, <1>2, <1>3, <1>4, <1>5, <1>6, <1>7, <1>8, <1>9 DEF CaNext, LoadOrCreate

(* Whatever crash or failed write the CA's files met, and unless a pair    *)
(* could not be read, the chains minted verify against the certificate     *)
(* that was installed while the app said "CA ready" (mitm_ca.cpp,          *)
(* win_integration.cpp, ui.cpp).                                           *)
THEOREM ChainCorrect == CaSpec => []ChainTrusted
<1>1. CaInit => ChainInv
  <2> SUFFICES ASSUME CaInit PROVE ChainInv
    OBVIOUS
  <2>1. CaTypeOK
    BY CaTypeInit
  <2> QED
    BY <2>1 DEF CaInit, CaProcInit, ChainInv, PairInv, Empty, Whole, File
<1>2. ChainInv /\ [CaNext]_caVars => ChainInv'
  BY ChainStep
<1>3. ChainInv => ChainTrusted
  <2> SUFFICES ASSUME ChainInv, NEW h \in Hosts, cache[h] # NoLeaf, ~misread
               PROVE  /\ cache[h].ca = Whole(cache[h].signer)
                      /\ \A i \in installed : i.ready => i.gen = cache[h].signer
    BY DEF ChainTrusted
  <2>1. cache[h] = [signer |-> caKey, ca |-> Whole(caKey)] /\ keyFile = Whole(caKey)
    BY DEF ChainInv, PairInv
  <2>2. \A i \in installed : i.ready => i.gen = caKey
    <3> SUFFICES ASSUME NEW i \in installed, i.ready PROVE i.gen = caKey
      OBVIOUS
    <3>1. Whole(i.gen) = Whole(caKey)
      BY <2>1 DEF ChainInv, PairInv
    <3> QED
      BY <3>1 DEF Whole, File
  <2> QED
    BY <2>1, <2>2
<1> QED
  BY <1>1, <1>2, <1>3, PTL DEF CaSpec

(* The session uses the CA as KndCa specifies it: files, memory and root   *)
(* store change by the CA's own steps only, whatever else goes on.  So     *)
(* what is proved of the CA holds in the session (main.cpp, ui.cpp,        *)
(* mitm_proxy.cpp).                                                        *)
THEOREM SessionImplementsCa == Spec => CaSpec
<1>1. Init => CaInit
  BY DEF Init
<1> QED
  BY <1>1, CaSteps, PTL DEF Spec, CaSpec

(* The chains minted in the session are trusted.                           *)
THEOREM SessionChainCorrect == Spec => []ChainTrusted
BY SessionImplementsCa, ChainCorrect, PTL

-----------------------------------------------------------------------------
(* The rest of TypeOK: the connection and the redirect.                    *)
ConnType ==
  [stage : {"none", "dial", "rewrite", "go", "proxy"}, byProxy : BOOLEAN,
   proto : {"tls", "connect", "http"}, want : Addresses,
   dest : Addresses, origin : Addresses]

ConnTypes == conn \in ConnType

LEMMA AddressTypes ==
  /\ NoAddress \in Addresses /\ Server(443) \in Addresses /\ Server(80) \in Addresses
  /\ \A p \in {0} \cup Ports : Loopback(p) \in Addresses
BY DEF Addresses, NoAddress, Server, Loopback

LEMMA DialType ==
  ASSUME NEW proto \in {"tls", "connect", "http"},
         NEW want \in Addresses, NEW dest \in Addresses
  PROVE  Dial(TRUE, proto, want, dest) \in ConnType /\ Dial(FALSE, proto, want, dest) \in ConnType
BY AddressTypes DEF Dial, ConnType

LEMMA ConnTypeStep ==
  ConnTypes /\ redirectPort \in {0} \cup Ports /\ [Next]_vars => ConnTypes'
<1> SUFFICES ASSUME ConnTypes, redirectPort \in {0} \cup Ports, [Next]_vars PROVE ConnTypes'
  OBVIOUS
<1> USE AddressTypes DEF ConnTypes
<1>1. CASE conn' = conn
  BY <1>1
<1>2. CASE conn' = NoConn
  BY <1>2 DEF NoConn, ConnType
<1>3. CASE ClassifyConnect
  BY <1>3 DEF ClassifyConnect, ConnType
<1>4. CASE ClassifyRewrite
  BY <1>4 DEF ClassifyRewrite, ConnType
<1>5. CASE \E proxy : ClientDials(proxy)
  <2>1. PICK proxy : ClientDials(proxy)
    BY <1>5
  <2>2. \/ conn' = Dial(FALSE, "tls", Server(443), Server(443))
        \/ conn' = Dial(FALSE, "http", Server(80), Server(80))
        \/ \E p \in Ports \cap {proxy} : conn' = Dial(FALSE, "connect", Server(443), Loopback(p))
    BY <2>1, Zenon DEF ClientDials
  <2>3. CASE conn' = Dial(FALSE, "tls", Server(443), Server(443))
    BY <2>3, SMT DEF Dial, ConnType
  <2>4. CASE conn' = Dial(FALSE, "http", Server(80), Server(80))
    BY <2>4, SMT DEF Dial, ConnType
  <2>5. ASSUME NEW p \in Ports, conn' = Dial(FALSE, "connect", Server(443), Loopback(p))
        PROVE  ConnTypes'
    <3>1. Loopback(p) \in Addresses
      BY <2>5
    <3> QED
      BY <2>5, <3>1, SMT DEF Dial, ConnType
  <2> QED
    BY <2>2, <2>3, <2>4, <2>5, ZenonT(30)
<1>6. CASE Arrive
  BY <1>6, <1>2 DEF Arrive, ConnType
<1>7. CASE \E minted \in BOOLEAN : HandleConn(minted)
  <2>1. conn.want \in Addresses /\ conn.origin \in Addresses
    BY DEF ConnType
  <2>2. Upstream \in Addresses
    BY <2>1 DEF Upstream
  <2> QED
    <3>1. Dial(TRUE, "tls", conn.want, Upstream) \in ConnType
      BY <2>1, <2>2, DialType
    <3>2. conn' = Dial(TRUE, "tls", conn.want, Upstream) \/ conn' = NoConn
      BY <1>7, Zenon DEF HandleConn
    <3> QED
      BY <1>2, <3>1, <3>2, Zenon
<1>8. CASE conn' = [conn EXCEPT !.stage = "go"]
  BY <1>8 DEF ConnType
<1>9. CASE Exit \/ ExitEnd \/ Crash \/ StopProxy \/ StopProxyEnd
  BY <1>9, <1>1, <1>2 DEF Exit, ExitEnd, Crash, Ends, StopProxy, StopProxyEnd, Abandoned,
                          redirectVars
<1>10. CASE Start \/ BootCa \/ Attach \/ Connect \/ StartCapture \/ StopCapture
  BY <1>10, <1>1 DEF Start, BootCa, Attach, Connect, StartCapture, StopCapture, redirectVars
<1>11. CASE LoadDriver \/ UnloadDriver \/ StartProxy \/ InstallCa \/ UserSetsProxy
  BY <1>11, <1>1 DEF LoadDriver, UnloadDriver, StartProxy, InstallCa, UserSetsProxy, redirectVars
<1>12. CASE (\E p \in Ports : EditPort(p)) \/ ToggleSystemProxy \/ ToggleRedirect
  BY <1>12, <1>1 DEF EditPort, ToggleSystemProxy, ToggleRedirect, redirectVars
<1>13. CASE DriverStep
  BY <1>13, <1>1, <1>3, <1>4 DEF DriverStep, SetRedirectEnable
<1>14. CASE Unclassified
  BY <1>14, <1>8 DEF Unclassified
<1>15. CASE Client
  BY <1>15, <1>5, <1>6 DEF Client
<1>16. CASE Proxy
  BY <1>16, <1>7 DEF Proxy
<1>17. CASE UNCHANGED vars
  BY <1>17, <1>1 DEF vars, redirectVars
<1> QED
  BY <1>9, <1>10, <1>11, <1>12, <1>13, <1>14, <1>15, <1>16, <1>17 DEF Next

RedirectTypes ==
  /\ redirectEnable \in BOOLEAN /\ redirectPort \in {0} \cup Ports
  /\ setRedirect \in [pending : BOOLEAN, enable : BOOLEAN]
  /\ listen \in {0} \cup Ports

LEMMA RedirectTypeStep == RedirectTypes /\ SwitchTypes /\ [Next]_vars => RedirectTypes'
<1> SUFFICES ASSUME RedirectTypes, SwitchTypes, [Next]_vars PROVE RedirectTypes'
  OBVIOUS
<1> USE DEF RedirectTypes
<1>0. proxyPort \in Ports /\ wfpRedirect \in BOOLEAN
  BY DEF SwitchTypes
<1>1. CASE Start \/ BootCa \/ Connect \/ StartCapture \/ StopCapture
  BY <1>1 DEF Start, BootCa, Connect, StartCapture, StopCapture, redirectVars
<1>2. CASE Attach \/ StartProxy \/ StopProxy \/ StopProxyEnd
  BY <1>0, <1>2, SessionAssumption DEF Attach, StartProxy, StopProxy, StopProxyEnd, redirectVars
<1>3. CASE Exit \/ ExitEnd \/ Crash
  BY <1>3 DEF Exit, ExitEnd, Crash, Ends, ClosesHandle, DriverGone
<1>4. CASE LoadDriver \/ UnloadDriver
  BY <1>4 DEF LoadDriver, UnloadDriver, DriverGone, redirectVars
<1>5. CASE (\E p \in Ports : EditPort(p)) \/ ToggleSystemProxy
  BY <1>5 DEF EditPort, ToggleSystemProxy, redirectVars
<1>6. CASE ToggleRedirect
  <2>1. wfpRedirect' \in BOOLEAN
    BY <1>0, <1>6, Zenon DEF ToggleRedirect
  <2>2. [pending |-> TRUE, enable |-> wfpRedirect'] \in [pending : BOOLEAN, enable : BOOLEAN]
    BY <2>1
  <2> QED
    BY <1>0, <1>6, <2>2 DEF ToggleRedirect, SetRedirectPort
<1>7. CASE DriverStep
  <2>1. setRedirect.enable \in BOOLEAN /\ NoStore \in [pending : BOOLEAN, enable : BOOLEAN]
    BY DEF NoStore
  <2> QED
    BY <1>7, <2>1 DEF DriverStep, SetRedirectEnable, ClassifyConnect, ClassifyRewrite
<1>8. CASE Unclassified \/ Client \/ Proxy
  BY <1>8 DEF Unclassified, Client, Proxy, ClientDials, Arrive, HandleConn
<1>9. CASE InstallCa \/ UserSetsProxy
  BY <1>9 DEF InstallCa, UserSetsProxy, redirectVars
<1>10. CASE UNCHANGED vars
  BY <1>10 DEF vars, redirectVars
<1> QED
  BY <1>1, <1>2, <1>3, <1>4, <1>5, <1>6, <1>7, <1>8, <1>9, <1>10 DEF Next

LEMMA TypeParts == TypeOK <=> SwitchTypes /\ CaTypeOK /\ RedirectTypes /\ ConnTypes
BY DEF TypeOK, SwitchTypes, RedirectTypeOK, RedirectTypes, ConnTypes, ConnType

(* Every variable of the session keeps its type: the port stays one the    *)
(* user may set, key pairs stay within the bound, and the switches, files  *)
(* and addresses are what ui.cpp, mitm_ca.cpp and wfp.c make them.         *)
THEOREM SessionTypeCorrect == Spec => []TypeOK
<1>1. Init => SwitchTypes /\ CaTypeOK /\ RedirectTypes /\ ConnTypes
  <2> SUFFICES ASSUME Init PROVE SwitchTypes /\ CaTypeOK /\ RedirectTypes /\ ConnTypes
    OBVIOUS
  <2>1. SwitchTypes
    BY SwitchInit
  <2>2. CaTypeOK
    BY CaTypeInit DEF Init
  <2>3. RedirectTypes /\ ConnTypes
    BY AddressTypes DEF Init, RedirectInit, RedirectTypes, ConnTypes, ConnType, NoStore, NoConn
  <2> QED
    BY <2>1, <2>2, <2>3
<1>2. SwitchTypes /\ CaTypeOK /\ RedirectTypes /\ ConnTypes /\ [Next]_vars
        => (SwitchTypes /\ CaTypeOK /\ RedirectTypes /\ ConnTypes)'
  <2>1. RedirectTypes => redirectPort \in {0} \cup Ports
    BY DEF RedirectTypes
  <2> QED
    BY <2>1, SwitchStep, CaSteps, CaTypeStep, RedirectTypeStep, ConnTypeStep
<1> QED
  BY <1>1, <1>2, TypeParts, PTL DEF Spec

=============================================================================
