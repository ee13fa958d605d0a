---------------------------- MODULE MCTlsDecrypt ---------------------------
(* Small instances of TlsDecrypt for TLC: data on both sides of an alert,  *)
(* and a renegotiation between two data records.                           *)
EXTENDS TlsDecrypt

MCAlert == [out |-> <<"H", "C", "F", "D", "A", "D">>, in |-> <<"H", "C", "F", "D">>]
MCRenegotiation == [out |-> <<"H", "C", "F", "D">>, in |-> <<"H", "C", "F", "D", "X", "F", "D">>]
MCBrief == [out |-> <<"H", "C", "F">>, in |-> <<"H", "C", "F", "D">>]
MCFlows ==
  [script : {MCAlert}, suite : {"gcm"}, keylog : {<<"wrong", "right", "torn">>}]
  \cup [script : {MCRenegotiation}, suite : {"gcm"}, keylog : {<<"right">>}]
  \cup [script : {MCBrief}, suite : {"gcm"}, keylog : {<<"right", "short">>, <<"right", "wrong">>, <<>>}]
  \cup [script : {MCBrief}, suite : {"other"}, keylog : {<<"right">>}]
MCPayload == [H |-> 3, C |-> 1, F |-> 2, D |-> 2, A |-> 1, X |-> 1]
MCHoledDirs == {{"out"}, {"in"}}
MCHoleLengths == {3, 4}
MCJunkLengths == {1, 3}
=============================================================================
