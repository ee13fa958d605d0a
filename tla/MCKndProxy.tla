---------------------------- MODULE MCKndProxy -----------------------------
(* Two connections over two runs of the proxy.                             *)
EXTENDS KndProxy

CONSTANTS k1, k2

MCConns == {k1, k2}
=============================================================================
