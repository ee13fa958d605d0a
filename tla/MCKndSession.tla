---------------------------- MODULE MCKndSession ---------------------------
(* The default port and 443, which is also a port the driver redirects.    *)
EXTENDS KndSession

MCPorts == {443, 8888}
MCHosts == {"host"}

(* What no later step and no property reads is left out of the view of a   *)
(* state.  AppState's boxes past the main loop:                            *)
MCBoxes == IF app \in {"exit", "down"} THEN <<>> ELSE <<wfpRedirect, useSystemProxy, proxyPort>>

LastRun == starts = MaxStarts

(* the settings file after the last start;                                 *)
MCSettings == IF LastRun THEN NoSettings ELSE settings

(* of the CA, all that outlives the last run, and the key file and the     *)
(* number of pairs once the last loadOrCreate is over.  Of the root store  *)
(* ChainTrusted asks only for what was installed under "CA ready".         *)
MCCa ==
  LET kept == <<certFile, {i \in installed : i.ready}, misread>>
  IN  CASE LastRun /\ app = "down"  -> <<>>
        [] LastRun /\ caPc = "done" -> kept
        [] OTHER                    -> <<kept, keyFile, gens>>

MCView == <<app, stopping, handle, deviceConnected, capturing, MCBoxes, driverVars,
            systemProxy, proxyStale, MCSettings, starts, MCCa, caProc, redirectVars>>
=============================================================================
