---------------------------- MODULE MCKndFlows -----------------------------
(* Two connections, two CPUs; an indication of 4 bytes is cut to CopyMax,  *)
(* and 3 bytes are split into two chunks.                                  *)
EXTENDS KndFlows, TLC

CONSTANTS f1, f2, c1, c2, p1

MCFlows == {f1, f2}
MCOneFlow == {f1}
MCCpus == {c1, c2}
MCOneCpu == {c1}
MCClients == {p1}
MCPayloadCaps == {1, 5}
MCLengths == {3, 4}

(* CPUs are alike, and so are flows.                                       *)
MCSymmetry == Permutations(MCCpus) \cup Permutations(MCFlows)

(* All that a later step or a property but TypeOK depends on: not the copy *)
(* of the switch, which only the UI shows, nor an idle CPU's last job.     *)
MCView == <<wfpVars, CaptureActive, switching, switches, ringVars, appVars, pc,
            [c \in Cpus |-> IF pc[c] = "idle" THEN NoJob ELSE job[c]]>>
=============================================================================
