---------------------------- MODULE KndRedirect ----------------------------
(***************************************************************************)
(* Transparent redirect: the switch IOCTL_KND_SET_REDIRECT stores in two   *)
(* steps (driver/ioctl.c), KndClassifyConnectRedirect (driver/wfp.c),      *)
(* which reads it on another CPU for every outbound connection, and the    *)
(* part of handleConn (app/src/mitm_proxy.cpp) that decides where the      *)
(* proxy connects to.  That upstream connection is an outbound connection  *)
(* like any other and is classified too.                                   *)
(*                                                                         *)
(* One connection is followed at a time; when the proxy dials upstream, it *)
(* is that connection that is followed from there on.  Addresses are       *)
(* abstracted to "is it the loopback", the IP version and the byte order   *)
(* of ports are left out, and KndProxy has the relay itself.               *)
(***************************************************************************)
EXTENDS Naturals

CONSTANT Ports    \* ports the user may give the proxy, which ui.cpp keeps in 1 .. 65535

ASSUME PortsAssumption == Ports \subseteq Nat \ {0}

VARIABLES
  redirectEnable, redirectPort,  \* ctx->RedirectEnable, ctx->RedirectPort
  setRedirect,    \* SET_REDIRECT between its two stores: the flag still to
                  \* be stored
  listen,         \* the port KndMitmProxy listens on, 0: not running
  conn            \* the connection followed

redirectVars == <<redirectEnable, redirectPort, setRedirect, listen, conn>>

NoStore == [pending |-> FALSE, enable |-> FALSE]

(* An address: the loopback, or the server the client wants.               *)
Server(p) == [loopback |-> FALSE, port |-> p]
Loopback(p) == [loopback |-> TRUE, port |-> p]
NoAddress == Server(0)

(* stage "dial": classify has not run; "rewrite": it has decided to        *)
(* rewrite; "go": classified.  "proxy": accepted by handleConn.            *)
(* proto is what the first bytes look like: a ClientHello, a CONNECT       *)
(* preamble, or plain HTTP.  want is the server the client is after.       *)
NoConn == [stage |-> "none", byProxy |-> FALSE, proto |-> "tls", want |-> NoAddress,
           dest |-> NoAddress, origin |-> NoAddress]

Dial(byProxy, proto, want, dest) ==
  [stage |-> "dial", byProxy |-> byProxy, proto |-> proto, want |-> want,
   dest |-> dest, origin |-> NoAddress]

RedirectInit ==
  /\ redirectEnable = FALSE /\ redirectPort = 0 /\ setRedirect = NoStore
  /\ listen = 0 /\ conn = NoConn

-----------------------------------------------------------------------------
(* The driver.                                                             *)

(* Mutant: the flag is stored before the port.                             *)
EnableFirst(enable, port) ==
  /\ redirectEnable' = enable
  /\ setRedirect' = [pending |-> TRUE, enable |-> enable]
  /\ UNCHANGED redirectPort

(* IOCTL_KND_SET_REDIRECT, first the port ...                              *)
SetRedirectPort(enable, port) ==
  /\ redirectPort' = port
  /\ setRedirect' = [pending |-> TRUE, enable |-> enable]
  /\ UNCHANGED redirectEnable

(* ... then the flag.                                                      *)
SetRedirectEnable ==
  /\ setRedirect.pending
  /\ redirectEnable' = setRedirect.enable
  /\ setRedirect' = NoStore
  /\ UNCHANGED <<redirectPort, listen, conn>>

(* A TCP connection is rewritten if it goes to :443 or :80 and that is not *)
(* the proxy's own port.                                                   *)
Redirects(port) == redirectEnable /\ port \in {443, 80} /\ port # redirectPort

(* KndClassifyConnectRedirect: the early returns, a failed acquisition of  *)
(* the layer data, or on to the rewrite.                                   *)
ClassifyConnect ==
  /\ conn.stage = "dial"
  /\ \/ Redirects(conn.dest.port) /\ conn' = [conn EXCEPT !.stage = "rewrite"]
     \/ conn' = [conn EXCEPT !.stage = "go"]
  /\ UNCHANGED <<redirectEnable, redirectPort, setRedirect, listen>>

(* Mutant: the request is overwritten before the context is filled from it. *)
RewriteFirst ==
  /\ conn.stage = "rewrite"
  /\ conn' = [conn EXCEPT !.stage = "go", !.dest = Loopback(redirectPort),
                          !.origin = Loopback(redirectPort)]
  /\ UNCHANGED <<redirectEnable, redirectPort, setRedirect, listen>>

(* RedirectPort is read again here.  The original destination goes into    *)
(* the context the proxy asks for; without memory for it the request is    *)
(* applied as it was.                                                      *)
ClassifyRewrite ==
  /\ conn.stage = "rewrite"
  /\ \/ conn' = [conn EXCEPT !.stage = "go", !.dest = Loopback(redirectPort),
                             !.origin = conn.dest]
     \/ conn' = [conn EXCEPT !.stage = "go"]
  /\ UNCHANGED <<redirectEnable, redirectPort, setRedirect, listen>>

-----------------------------------------------------------------------------
(* Clients and the proxy.                                                  *)

(* A program connects to a server by itself, or through the system proxy   *)
(* proxy, if that is a port of the loopback.                               *)
ClientDials(proxy) ==
  /\ conn = NoConn
  /\ conn' \in
       {Dial(FALSE, "tls", Server(443), Server(443)), Dial(FALSE, "http", Server(80), Server(80))}
       \cup {Dial(FALSE, "connect", Server(443), Loopback(p)) : p \in Ports \cap {proxy}}
  /\ UNCHANGED <<redirectEnable, redirectPort, setRedirect, listen>>

(* The connection is established with the proxy, or with a server or       *)
(* nobody: then it is no longer followed.                                  *)
Arrive ==
  /\ conn.stage = "go"
  /\ conn' = IF conn.dest.loopback /\ conn.dest.port = listen
             THEN [conn EXCEPT !.stage = "proxy"] ELSE NoConn
  /\ UNCHANGED <<redirectEnable, redirectPort, setRedirect, listen>>

(* handleConn up to mbedtls_net_connect: a ClientHello means a redirected  *)
(* connection, whose destination QueryOriginalDest returns; else CONNECT   *)
(* names the host, and anything else is answered 501.  minted: certForHost *)
(* returned a certificate.                                                 *)
Upstream ==
  IF conn.proto = "connect" THEN conn.want
  ELSE IF conn.proto = "tls" THEN conn.origin ELSE NoAddress

HandleConn(minted) ==
  /\ conn.stage = "proxy"
  /\ \/ /\ minted /\ Upstream # NoAddress
        /\ conn' = Dial(TRUE, "tls", conn.want, Upstream)
     \/ conn' = NoConn
  /\ UNCHANGED <<redirectEnable, redirectPort, setRedirect, listen>>

(* The connection followed is in the hands of a connection thread, which   *)
(* stop() joins and which dies with the process.                           *)
InThread == conn.byProxy \/ conn.stage = "proxy"
Abandoned == IF InThread THEN NoConn ELSE conn

-----------------------------------------------------------------------------
(* Properties.                                                             *)

Addresses == [loopback : BOOLEAN, port : {0, 80, 443} \cup Ports]

(* Every variable of the redirect has its type.                            *)
RedirectTypeOK ==
  /\ redirectEnable \in BOOLEAN /\ redirectPort \in {0} \cup Ports
  /\ setRedirect \in [pending : BOOLEAN, enable : BOOLEAN]
  /\ listen \in {0} \cup Ports
  /\ conn \in [stage : {"none", "dial", "rewrite", "go", "proxy"}, byProxy : BOOLEAN,
               proto : {"tls", "connect", "http"}, want : Addresses,
               dest : Addresses, origin : Addresses]

(* knd_protocol.h: the proxy reads the context back "to recover the        *)
(* original destination it must connect to".  However often a connection   *)
(* is redirected, what the proxy dials is the server the client was after. *)
UpstreamIsOrigin == conn.byProxy /\ conn.stage = "dial" => conn.dest = conn.want

(* ioctl.c stores the port, then the flag; wfp.c looks at the flag, then   *)
(* reads the port, once to compare and once more to rewrite.  In whatever  *)
(* order a switch-over and a callback meet, also on a driver that was just *)
(* loaded: no connection is sent to a port that was never set.             *)
RewriteHasPort == conn.origin # NoAddress => conn.dest.port \in Ports

(* wfp.c: "avoid redirect loops".  A connection the proxy opens never ends *)
(* up at the proxy.                                                        *)
NoRedirectLoop == ~(conn.byProxy /\ conn.stage = "proxy")

=============================================================================
