---------------------------- MODULE MCKndDriver ----------------------------
(* Two consumer processes, two CPUs, a callout of each kind: flow, stream, *)
(* and redirect, which is neither.                                         *)
EXTENDS KndDriver

CONSTANTS p1, p2, c1, c2

MCProcs == {p1, p2}
MCCpus == {c1, c2}
MCFlowCallouts == {1}
MCStreamCallouts == {2}
=============================================================================
