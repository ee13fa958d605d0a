---------------------------- MODULE MCHttpParse ----------------------------
(* Small instances of HttpParse for TLC.  Bodies hold what could be taken  *)
(* for framing: line ends, a digit, start lines.                           *)
EXTENDS HttpParse

Msg(f, c, e, t) == [framing |-> f, chunks |-> c, ext |-> e, trailers |-> t]

MCMessages ==
  { Msg("none", <<>>, FALSE, 0),
    Msg("close", << <<"lf", "p">> >>, FALSE, 0),
    Msg("length", << <<"cr", "lf", "REQ">> >>, FALSE, 0),
    Msg("chunked", << <<"cr", "lf">>, <<"2">> >>, TRUE, 0),
    Msg("chunked", << <<"p", "STS">>, <<"cr">> >>, FALSE, 1),
    Msg("chunked", <<>>, FALSE, 2) }
MCHoleLengths == {4}
=============================================================================
