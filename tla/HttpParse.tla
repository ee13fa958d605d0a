----------------------------- MODULE HttpParse -----------------------------
(***************************************************************************)
(* The HTTP/1.x parser of the inspector (http_parse.cpp): HttpParse runs   *)
(* over one direction of a captured flow, message after message.           *)
(*                                                                         *)
(* A buffer is a sequence of symbols.  A symbol is one byte ("cr", "lf",   *)
(* the digits, the letter "p") or a piece of text the parser only          *)
(* recognises as a whole:                                                  *)
(*   REQ "GET / HTTP/1.1"     STS "HTTP/1.1 200 OK"    HX "X:y"            *)
(*   CL  "Content-Length:"    TE  "Transfer-Encoding:chunked"              *)
(*   EXT ";n=v", a chunk extension                                         *)
(* A piece counts one position.  What follows or precedes a piece on its   *)
(* line is parsed as the concatenated text would be.                       *)
(*                                                                         *)
(* What was captured is the wire's stream with at most one hole: a tail    *)
(* not yet received or cut by the payload cap, or records the ring had no  *)
(* room for.                                                               *)
(***************************************************************************)
EXTENDS Integers, Sequences, FiniteSetsExt, SequencesExt

CONSTANTS
  Messages,      \* the messages a peer may send
  MaxSent,       \* bound: messages on one connection
  HoleLengths,   \* bound: lengths of a hole in the middle
  kMaxMessages,  \* stop after this many per direction
  kMaxBody       \* cap of the stored body

ASSUME HttpAssumption ==
  kMaxMessages \in Nat \ {0} /\ kMaxBody \in Nat \ {0} /\ HoleLengths \subseteq Nat

VARIABLES
  sent,        \* the messages on the wire, and where the hole begins
  holeAt,
  asResponse,
  buf,         \* the captured bytes
  off, out,    \* HttpParse
  m, p, len,   \* ParseOne: the message being built, its cursor in the body, the
               \* length of the body or of the chunk
  pc

inputVars == <<sent, holeAt, asResponse, buf>>
vars == <<inputVars, off, out, m, p, len, pc>>

n == Len(buf)

(* d[i], the code's index counting from 0.                                 *)
At(i) == buf[i + 1]
Slice(i, j) == SubSeq(buf, i + 1, j)

-----------------------------------------------------------------------------
(* The wire, as RFC 9112 frames it.                                        *)

CRLF == <<"cr", "lf">>
Digits == <<"0", "1", "2", "3">>
Digit(k) == <<Digits[k + 1]>>

(* A message: [framing, chunks, ext, trailers]; its body is the chunks     *)
(* joined.                                                                 *)
BodyOf(msg) == FlattenSeq(msg.chunks)

Symbols == {"cr", "lf", "p", "REQ", "STS", "HX", "CL", "TE", "EXT"} \cup {Digits[i] : i \in 1 .. 4}

(* Lengths are single digits here.                                         *)
ASSUME MessageAssumption ==
  \A msg \in Messages :
    /\ msg.framing \in {"chunked", "length", "close", "none"}
    /\ msg.chunks \in Seq(Seq(Symbols))
    /\ \A i \in DOMAIN msg.chunks : Len(msg.chunks[i]) \in 1 .. 3
    /\ msg.framing = "length" => Len(BodyOf(msg)) \in 0 .. 3
    /\ msg.framing = "none" => msg.chunks = <<>>
    /\ msg.ext \in BOOLEAN /\ msg.trailers \in Nat

ChunkOf(msg, c) ==
  Digit(Len(c)) \o (IF msg.ext THEN <<"EXT">> ELSE <<>>) \o CRLF \o c \o CRLF

Trailers(msg) == FlattenSeq([i \in 1 .. msg.trailers |-> <<"HX">> \o CRLF])

Framed(msg) ==
  CASE msg.framing = "chunked" ->
         <<"TE">> \o CRLF \o CRLF
           \o FlattenSeq([i \in DOMAIN msg.chunks |-> ChunkOf(msg, msg.chunks[i])])
           \o Digit(0) \o CRLF \o Trailers(msg) \o CRLF
    [] msg.framing = "length" ->
         <<"HX">> \o CRLF \o <<"CL">> \o Digit(Len(BodyOf(msg))) \o CRLF \o CRLF \o BodyOf(msg)
    [] msg.framing = "close" -> CRLF \o BodyOf(msg)
    [] msg.framing = "none"  -> CRLF

Encoded(msg, response) ==
  (IF response THEN <<"STS">> ELSE <<"REQ">>) \o CRLF \o Framed(msg)

Stream(msgs, response) == FlattenSeq([i \in DOMAIN msgs |-> Encoded(msgs[i], response)])

(* A response without a length ends with its connection; a request without *)
(* one has no body.                                                        *)
Sendable(msgs, response) ==
  \A i \in DOMAIN msgs :
    /\ msgs[i].framing = "close" => response /\ i = Len(msgs)
    /\ msgs[i].framing = "none" => ~ response

-----------------------------------------------------------------------------
(* Scanning.                                                               *)

None == -1   \* SIZE_MAX

IsCRLF(i) == At(i) = "cr" /\ At(i + 1) = "lf"
IsBlank(i) == At(i) \in {"cr", "lf"}

FindCRLF(from) ==
  IF \E i \in from .. n - 2 : IsCRLF(i)
  THEN CHOOSE i \in from .. n - 2 : IsCRLF(i) /\ \A j \in from .. i - 1 : ~ IsCRLF(j)
  ELSE None

FindDoubleCRLF(from) ==
  LET Here(i) == IsCRLF(i) /\ IsCRLF(i + 2) IN
  IF \E i \in from .. n - 4 : Here(i)
  THEN CHOOSE i \in from .. n - 4 : Here(i) /\ \A j \in from .. i - 1 : ~ Here(j)
  ELSE None

SkipBlanks(from) ==
  CHOOSE i \in from .. n : (i = n \/ ~ IsBlank(i)) /\ \A j \in from .. i - 1 : IsBlank(j)

IsDigit(s) == \E k \in DOMAIN Digits : Digits[k] = s

(* strtoul at the first non-blank of positions i .. e-1: the digits there, *)
(* 0 if there is none.  In base 16 the C of "Content-Length:" is a digit.  *)
StrToUl(i, e, base) ==
  LET from == SkipBlanks(i)
      to == CHOOSE j \in from .. n :
               /\ j >= e \/ ~ IsDigit(At(j))
               /\ \A k \in from .. j - 1 : k < e /\ IsDigit(At(k))
      digit(j) == (CHOOSE k \in DOMAIN Digits : Digits[k] = At(j)) - 1
      value[j \in from - 1 .. to - 1] ==
        IF j < from THEN 0 ELSE value[j - 1] * base + digit(j)
  IN  IF from >= e THEN 0
      ELSE IF base = 16 /\ to < e /\ At(to) = "CL" THEN value[to - 1] * 16 + 12
      ELSE value[to - 1]

(* A symbol with which a method token can begin.                           *)
IsAlpha(s) == ~ IsDigit(s) /\ s \notin {"cr", "lf", "EXT"}

LooksLikeStartLine(i) ==
  i < n /\ IF asResponse THEN At(i) = "STS" ELSE IsAlpha(At(i))

(* Where the lines of a header block behind its first one start; a line    *)
(* ends at the next line end.                                              *)
HeaderLines(i, hdrEnd) == {k + 2 : k \in {j \in i .. hdrEnd - 2 : IsCRLF(j)}}

(* METHOD TARGET HTTP/x.y: the first piece of the line that holds blanks   *)
(* must be REQ; or HTTP/x.y CODE REASON with a code in 100..599.           *)
StartLineParses(line) ==
  IF asResponse
  THEN line[1] = "STS"
  ELSE \E i \in DOMAIN line : line[i] = "REQ" /\ \A j \in 1 .. i - 1 : line[j] # "STS"

(* The header lines of that name, white space before it ignored.           *)
Headers(name, i, hdrEnd) ==
  {j \in HeaderLines(i, hdrEnd) : SkipBlanks(j) < FindCRLF(j) /\ At(SkipBlanks(j)) = name}

(* Mutant: the cap is tested before the piece only.                        *)
AppendedWhole(msg, piece) ==
  IF Len(msg.body) >= kMaxBody THEN [msg EXCEPT !.bodyTruncated = TRUE]
  ELSE [msg EXCEPT !.body = @ \o piece]

(* AppendCapped: what fits below the cap, and whether anything did not.    *)
Appended(msg, piece) ==
  LET body == msg.body \o piece IN
  [msg EXCEPT !.body = SubSeq(body, 1, Min({Len(body), kMaxBody})),
              !.bodyTruncated = @ \/ Len(msg.body) >= kMaxBody \/ Len(body) > kMaxBody]

-----------------------------------------------------------------------------
NoMessage == [chunked |-> FALSE, body |-> <<>>, bodyTruncated |-> FALSE, bodyBytes |-> 0,
              consumed |-> 0]

(* Any stream of up to MaxSent messages, whole or with a hole.             *)
Init ==
  /\ sent \in SeqOf(Messages, MaxSent) /\ sent # <<>>
  /\ asResponse \in BOOLEAN
  /\ Sendable(sent, asResponse)
  /\ LET s == Stream(sent, asResponse) IN
     /\ holeAt \in 0 .. Len(s)
     /\ \E k \in {Len(s) - holeAt} \cup {h \in HoleLengths : holeAt + h < Len(s)} :
           buf = SubSeq(s, 1, holeAt) \o SubSeq(s, holeAt + k + 1, Len(s))
  /\ off = 0 /\ out = <<>>
  /\ m = NoMessage /\ p = 0 /\ len = 0
  /\ pc = "scan"

(* The loop of HttpParse ends: nothing left, or enough messages.           *)
NoMore ==
  /\ pc = "scan"
  /\ off >= n \/ Len(out) >= kMaxMessages \/ SkipBlanks(off) >= n
  /\ pc' = "done"
  /\ UNCHANGED <<inputVars, off, out, m, p, len>>

(* Blank separators are skipped and a message is expected.                 *)
NextMessage ==
  /\ pc = "scan" /\ Len(out) < kMaxMessages
  /\ off < n /\ SkipBlanks(off) < n
  /\ off' = SkipBlanks(off)
  /\ m' = NoMessage
  /\ pc' = "head"
  /\ UNCHANGED <<inputVars, out, p, len>>

HeadParses ==
  /\ LooksLikeStartLine(off)
  /\ FindDoubleCRLF(off) # None
  /\ StartLineParses(Slice(off, FindCRLF(off)))

(* ParseOne returns false, which ends the whole parse.                     *)
HeadFails ==
  /\ pc = "head" /\ ~ HeadParses
  /\ pc' = "done"
  /\ UNCHANGED <<inputVars, off, out, m, p, len>>

(* The header block is complete: how the body is framed decides.           *)
ParseHead ==
  /\ pc = "head" /\ HeadParses
  /\ \E hdrEnd \in {FindDoubleCRLF(off)} :
       LET chunked == Headers("TE", off, hdrEnd) # {}
           cls == Headers("CL", off, hdrEnd)
           cl == CHOOSE j \in cls : \A k \in cls : j <= k   \* HttpFindHeader
       IN  /\ m' = [m EXCEPT !.chunked = chunked]
           /\ p' = hdrEnd + 4
           /\ \/ chunked /\ pc' = "size" /\ UNCHANGED len
              \/ /\ ~ chunked /\ cls # {}
                 /\ pc' = "length"
                 /\ len' = StrToUl(SkipBlanks(cl) + 1, FindCRLF(cl), 10)
              \/ ~ chunked /\ cls = {} /\ pc' = "rest" /\ UNCHANGED len
  /\ UNCHANGED <<inputVars, off, out>>

(* Mutant: the rest is kept as if it were data.                            *)
SizeLineCutKept ==
  /\ pc = "size" /\ FindCRLF(p) = None
  /\ m' = [Appended(m, Slice(p, n)) EXCEPT !.bodyTruncated = TRUE]
  /\ p' = n
  /\ pc' = "emit"
  /\ UNCHANGED <<inputVars, off, out, len>>

(* Mutant: the loop is not left.                                           *)
SizeLineCutGoesOn ==
  /\ pc = "size" /\ FindCRLF(p) = None
  /\ m' = [m EXCEPT !.bodyTruncated = TRUE]
  /\ p' = n
  /\ UNCHANGED <<inputVars, off, out, len, pc>>

(* No complete size line is left.                                          *)
SizeLineCut ==
  /\ pc = "size" /\ FindCRLF(p) = None
  /\ m' = [m EXCEPT !.bodyTruncated = TRUE]
  /\ p' = n
  /\ pc' = "emit"
  /\ UNCHANGED <<inputVars, off, out, len>>

SizeLine ==
  /\ pc = "size" /\ FindCRLF(p) # None
  /\ \E le \in {FindCRLF(p)} : len' = StrToUl(p, le, 16) /\ p' = le + 2
  /\ pc' = "chunk"
  /\ UNCHANGED <<inputVars, off, out, m>>

(* The last chunk, and one line behind it: a trailer or the blank line.    *)
LastChunk ==
  /\ pc = "chunk" /\ len = 0
  /\ p' = IF FindCRLF(p) = None THEN n ELSE FindCRLF(p) + 2
  /\ pc' = "emit"
  /\ UNCHANGED <<inputVars, off, out, m, len>>

(* The chunk reaches past what was captured: take what is there.           *)
ChunkCut ==
  /\ pc = "chunk" /\ len # 0 /\ p + len > n
  /\ m' = Appended(m, Slice(p, n))
  /\ p' = n
  /\ pc' = "emit"
  /\ UNCHANGED <<inputVars, off, out, len>>

(* Mutant: the line end behind the chunk is left in place.                 *)
ChunkKeepsCRLF ==
  /\ pc = "chunk" /\ len # 0 /\ p + len <= n
  /\ m' = Appended(m, Slice(p, p + len))
  /\ p' = p + len
  /\ pc' = "size"
  /\ UNCHANGED <<inputVars, off, out, len>>

(* A whole chunk and, if it is there, the line end behind it.              *)
Chunk ==
  /\ pc = "chunk" /\ len # 0 /\ p + len <= n
  /\ m' = Appended(m, Slice(p, p + len))
  /\ p' = IF p + len + 2 <= n /\ IsCRLF(p + len) THEN p + len + 2 ELSE p + len
  /\ pc' = "size"
  /\ UNCHANGED <<inputVars, off, out, len>>

(* Mutant: the parse advances by the length said.                          *)
LengthBelieved ==
  /\ pc = "length"
  /\ \E take \in {Min({len, n - p})} :
       m' = [Appended(m, Slice(p, p + take)) EXCEPT !.bodyTruncated = @ \/ take < len,
                                                    !.bodyBytes = take]
  /\ p' = p + len
  /\ pc' = "emit"
  /\ UNCHANGED <<inputVars, off, out, len>>

(* Content-Length: the length said, or what was captured of it.            *)
LengthBody ==
  /\ pc = "length"
  /\ \E take \in {Min({len, n - p})} :
       LET got == Appended(m, Slice(p, p + take)) IN
       /\ m' = [got EXCEPT !.bodyTruncated = @ \/ take < len, !.bodyBytes = take]
       /\ p' = p + take
  /\ pc' = "emit"
  /\ UNCHANGED <<inputVars, off, out, len>>

(* No length: a response runs to the end of the capture, a request has no  *)
(* body.                                                                   *)
RestBody ==
  /\ pc = "rest"
  /\ IF asResponse
     THEN /\ m' = [Appended(m, Slice(p, n)) EXCEPT !.bodyBytes = n - p]
          /\ p' = n
     ELSE UNCHANGED <<m, p>>
  /\ pc' = "emit"
  /\ UNCHANGED <<inputVars, off, out, len>>

(* The message is complete; the parse goes on only if it advanced.         *)
Emit ==
  /\ pc = "emit"
  /\ out' = Append(out, [m EXCEPT !.consumed = p,
                                  !.bodyBytes = IF m.chunked THEN Len(m.body) ELSE @])
  /\ off' = p
  /\ pc' = IF p <= off THEN "done" ELSE "scan"
  /\ UNCHANGED <<inputVars, m, p, len>>

Next == \/ NoMore \/ NextMessage \/ HeadFails \/ ParseHead
        \/ SizeLineCut \/ SizeLine \/ LastChunk \/ ChunkCut \/ Chunk
        \/ LengthBody \/ RestBody \/ Emit

(* One call runs to its end on the UI thread.                              *)
Spec == Init /\ [][Next]_vars /\ WF_vars(Next)

-----------------------------------------------------------------------------
(* Properties.                                                             *)

(* Every variable has its type.                                            *)
TypeOK ==
  /\ off \in Nat /\ p \in Nat /\ len \in Nat
  /\ pc \in {"scan", "head", "size", "chunk", "length", "rest", "emit", "done"}
  /\ m.chunked \in BOOLEAN /\ m.bodyTruncated \in BOOLEAN
  /\ Len(m.body) <= kMaxBody /\ Len(out) <= kMaxMessages

(* The differences n - p and n - bodyStart are unsigned, and the pointer   *)
(* d + p is read up to d + n: no position ever passes the end, however the *)
(* stream is cut.                                                          *)
InBounds == off <= n /\ p <= n

(* How many messages lie wholly before the hole.                           *)
Intact ==
  Max({k \in 0 .. Len(sent) : Len(Stream(SubSeq(sent, 1, k), asResponse)) <= holeAt})

(* Only one line is taken behind the last chunk: behind a message with     *)
(* more trailers the parser stands in front of a header line.              *)
Steady(k) == \A j \in 1 .. k : sent[j].framing = "chunked" => sent[j].trailers <= 1

Capped(body) == SubSeq(body, 1, Min({Len(body), kMaxBody}))

(* http_parse.h: "Handles multiple messages (keep-alive), Content-Length   *)
(* and chunked bodies".  Every message before the first lost byte is       *)
(* found, in order, with its own body up to the cap and the cut marked,    *)
(* whatever bytes its body has and however it was framed, unless a message *)
(* before it has two trailers or more.                                     *)
MessagesFound ==
  pc = "done" =>
    \A i \in {j \in 1 .. Min({Intact, kMaxMessages}) : Steady(j - 1)} :
      /\ i <= Len(out)
      /\ out[i].chunked = (sent[i].framing = "chunked")
      /\ out[i].body = Capped(BodyOf(sent[i]))
      /\ out[i].bodyTruncated = (Len(BodyOf(sent[i])) > kMaxBody)

(* While a flow is still being captured (the hole is the tail) the parser  *)
(* shows no message that was not sent: at most one more than the complete  *)
(* ones, with a prefix of its body.                                        *)
PartialIsPrefix ==
  pc = "done" /\ n = holeAt =>
    /\ Len(out) <= Intact + 1
    /\ Len(out) = Intact + 1 => IsPrefix(out[Len(out)].body, BodyOf(sent[Intact + 1]))

(* The parse ends on every capture, with or without a hole.                *)
ParseEnds == <>(pc = "done")
=============================================================================
