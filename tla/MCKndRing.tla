----------------------------- MODULE MCKndRing -----------------------------
(* Small instances of KndRing for TLC.  The proportions are the code's:    *)
(* a header of three alignment units, a data area that is a power of two.  *)
EXTENDS KndRingInv

CONSTANTS c1, c2

MCCpus == {c1, c2}

(* n = 7: 14 bytes, one of them padding, and two such records leave a tail  *)
(* of 4 to absorb; n = 20: 26 bytes, leaves exactly one header; n = 26: the *)
(* whole data area; n = 27: can never fit.                                  *)
MCRequests == [type : {"DATA"}, n : {7, 20, 26, 27}]

(* For a data area of 16: 6, 8 and 10 bytes.                                *)
MCRequestsTiny == [type : {"DATA"}, n : {0, 2, 3}]
MCOneCpu == {c1}
MCGarbage == {5, 8, 14}
=============================================================================
