-------------------------- MODULE HttpParseProofs --------------------------
(***************************************************************************)
(* Proofs about http_parse.cpp, for any messages, holes and caps: no       *)
(* position passes the end of the capture, every message before the first  *)
(* lost byte is found with its own body, and of a flow that is still being *)
(* captured no message is shown that was not sent.                         *)
(*                                                                         *)
(* HttpInv bounds the positions.  Captured says how the capture and the    *)
(* stream agree, Tracked where in the stream the parser stands at every    *)
(* place of its control; the layout lemmas say what lies on the wire where *)
(* a message does, the scanning lemmas what the parser finds there.        *)
(***************************************************************************)
EXTENDS HttpParse, DataLemmas

-----------------------------------------------------------------------------
(* The wire is a sequence of symbols.                                      *)

(* Pieces of it are.                                                       *)
LEMMA PieceTypes ==
  /\ CRLF \in Seq(Symbols) /\ <<>> \in Seq(Symbols)
  /\ \A x \in {"TE", "HX", "CL", "STS", "REQ", "EXT"} : <<x>> \in Seq(Symbols)
  /\ \A k \in 0 .. 3 : Digit(k) \in Seq(Symbols)
<1>1. "cr" \in Symbols /\ "lf" \in Symbols
  BY DEF Symbols
<1>2. CRLF \in Seq(Symbols)
  BY <1>1 DEF CRLF
<1>3. ASSUME NEW x \in {"TE", "HX", "CL", "STS", "REQ", "EXT"} PROVE <<x>> \in Seq(Symbols)
  <2>1. x \in Symbols
    BY DEF Symbols
  <2> QED
    BY <2>1
<1>4. ASSUME NEW k \in 0 .. 3 PROVE Digit(k) \in Seq(Symbols)
  <2>1. k + 1 \in 1 .. 4
    OBVIOUS
  <2>2. Digits[k + 1] \in Symbols
    BY <2>1 DEF Symbols
  <2> QED
    BY <2>2 DEF Digit
<1> QED
  BY <1>2, <1>3, <1>4

(* Two pieces joined are one.                                              *)
LEMMA JoinType ==
  ASSUME NEW S, NEW a \in Seq(S), NEW b \in Seq(S)
  PROVE  a \o b \in Seq(S)
OBVIOUS

(* A chunk with its size line.                                             *)
LEMMA ChunkType ==
  ASSUME NEW msg, NEW c \in Seq(Symbols), Len(c) \in 1 .. 3
  PROVE  ChunkOf(msg, c) \in Seq(Symbols)
<1>1. Digit(Len(c)) \in Seq(Symbols) /\ CRLF \in Seq(Symbols)
  <2>1. PICK l \in 0 .. 3 : l = Len(c)
    OBVIOUS
  <2>2. Digit(l) \in Seq(Symbols) /\ CRLF \in Seq(Symbols)
    BY PieceTypes
  <2> QED
    BY <2>1, <2>2
<1>2. PICK e \in Seq(Symbols) : e = IF msg.ext THEN <<"EXT">> ELSE <<>>
  BY PieceTypes
<1>3. Digit(Len(c)) \o e \in Seq(Symbols)
  BY <1>1, JoinType
<1>4. (Digit(Len(c)) \o e) \o CRLF \in Seq(Symbols)
  BY <1>1, <1>3, JoinType
<1>5. ((Digit(Len(c)) \o e) \o CRLF) \o c \in Seq(Symbols)
  BY <1>4, JoinType
<1>6. (((Digit(Len(c)) \o e) \o CRLF) \o c) \o CRLF \in Seq(Symbols)
  BY <1>1, <1>5, JoinType
<1> QED
  BY <1>2, <1>6 DEF ChunkOf

(* The chunks of a message on the wire.                                    *)
Pieces(msg) == [i \in DOMAIN msg.chunks |-> ChunkOf(msg, msg.chunks[i])]

(* They are sequences of symbols.                                          *)
LEMMA PiecesType ==
  ASSUME NEW msg \in Messages
  PROVE  /\ Pieces(msg) \in Seq(Seq(Symbols)) /\ Len(Pieces(msg)) = Len(msg.chunks)
         /\ \A i \in 1 .. Len(msg.chunks) : Pieces(msg)[i] = ChunkOf(msg, msg.chunks[i])
<1>0. /\ msg.chunks \in Seq(Seq(Symbols))
      /\ \A i \in DOMAIN msg.chunks : Len(msg.chunks[i]) \in 1 .. 3
  BY MessageAssumption
<1>1. DOMAIN msg.chunks = 1 .. Len(msg.chunks) /\ Len(msg.chunks) \in Nat
  BY <1>0
<1>2. ASSUME NEW i \in DOMAIN msg.chunks PROVE ChunkOf(msg, msg.chunks[i]) \in Seq(Symbols)
  <2>1. msg.chunks[i] \in Seq(Symbols) /\ Len(msg.chunks[i]) \in 1 .. 3
    BY <1>0
  <2> QED
    BY <2>1, ChunkType
<1>3. [i \in DOMAIN msg.chunks |-> ChunkOf(msg, msg.chunks[i])] \in Seq(Seq(Symbols))
  BY <1>1, <1>2
<1>4. Len(Pieces(msg)) = Len(msg.chunks)
  BY <1>1 DEF Pieces
<1>5. \A i \in 1 .. Len(msg.chunks) : Pieces(msg)[i] = ChunkOf(msg, msg.chunks[i])
  BY <1>1 DEF Pieces
<1> QED
  BY <1>3, <1>4, <1>5 DEF Pieces

(* The trailers, one line after the other.                                 *)
TrailerLines(msg) == [i \in 1 .. msg.trailers |-> <<"HX">> \o CRLF]

(* They are sequences of symbols.                                          *)
LEMMA TrailersType ==
  ASSUME NEW msg \in Messages
  PROVE  /\ TrailerLines(msg) \in Seq(Seq(Symbols)) /\ Len(TrailerLines(msg)) = msg.trailers
         /\ \A i \in 1 .. msg.trailers : TrailerLines(msg)[i] = <<"HX">> \o CRLF
         /\ Trailers(msg) = FlattenSeq(TrailerLines(msg)) /\ Trailers(msg) \in Seq(Symbols)
<1>1. <<"HX">> \o CRLF \in Seq(Symbols)
  BY PieceTypes, JoinType
<1>2. PICK t \in Seq(Symbols) : t = <<"HX">> \o CRLF
  BY <1>1
<1>3. PICK k \in Nat : k = msg.trailers
  BY MessageAssumption
<1>4. [i \in 1 .. k |-> t] \in Seq(Seq(Symbols)) /\ Len([i \in 1 .. k |-> t]) = k
  OBVIOUS
<1>5. FlattenSeq([i \in 1 .. k |-> t]) \in Seq(Symbols)
  BY <1>4, FlattenType
<1>6. TrailerLines(msg) = [i \in 1 .. k |-> t]
  BY <1>2, <1>3 DEF TrailerLines
<1> QED
  BY <1>2, <1>3, <1>4, <1>5, <1>6 DEF Trailers, TrailerLines

(* What follows the start line.                                            *)
LEMMA FramedType ==
  ASSUME NEW msg \in Messages
  PROVE  Framed(msg) \in Seq(Symbols)
<1>0. /\ msg.framing \in {"chunked", "length", "close", "none"}
      /\ msg.chunks \in Seq(Seq(Symbols))
      /\ msg.framing = "length" => Len(BodyOf(msg)) \in 0 .. 3
  BY MessageAssumption
<1>1. BodyOf(msg) \in Seq(Symbols)
  BY <1>0, FlattenType DEF BodyOf
<1>2. PICK x \in Seq(Symbols) : x = FlattenSeq(Pieces(msg))
  <2>1. Pieces(msg) \in Seq(Seq(Symbols))
    BY PiecesType
  <2> QED
    BY <2>1, FlattenType
<1>3. Trailers(msg) \in Seq(Symbols)
  BY TrailersType
<1>4. PICK C \in Seq(Symbols), T \in Seq(Symbols), H \in Seq(Symbols), L \in Seq(Symbols),
           Z \in Seq(Symbols), B \in Seq(Symbols), R \in Seq(Symbols) :
        /\ C = CRLF /\ T = <<"TE">> /\ H = <<"HX">> /\ L = <<"CL">>
        /\ Z = Digit(0) /\ B = BodyOf(msg) /\ R = Trailers(msg)
  <2>1. <<"TE">> \in Seq(Symbols) /\ <<"HX">> \in Seq(Symbols) /\ <<"CL">> \in Seq(Symbols)
    BY PieceTypes
  <2>2. 0 \in 0 .. 3
    OBVIOUS
  <2>3. Digit(0) \in Seq(Symbols) /\ CRLF \in Seq(Symbols)
    BY <2>2, PieceTypes
  <2> QED
    BY <1>1, <1>3, <2>1, <2>3
<1>5. Framed(msg) \in Seq(Symbols)
  <2>1. CASE msg.framing = "chunked"
    <3>1. Framed(msg) = T \o C \o C \o x \o Z \o C \o R \o C
      BY <1>2, <1>4, <2>1 DEF Framed, Pieces
    <3>2. T \o C \in Seq(Symbols)
      OBVIOUS
    <3>3. T \o C \o C \in Seq(Symbols)
      BY <3>2, JoinType
    <3>4. T \o C \o C \o x \in Seq(Symbols)
      BY <3>3, JoinType
    <3>5. T \o C \o C \o x \o Z \in Seq(Symbols)
      BY <3>4, JoinType
    <3>6. T \o C \o C \o x \o Z \o C \in Seq(Symbols)
      BY <3>5, JoinType
    <3>7. T \o C \o C \o x \o Z \o C \o R \in Seq(Symbols)
      BY <3>6, JoinType
    <3>8. T \o C \o C \o x \o Z \o C \o R \o C \in Seq(Symbols)
      BY <3>7, JoinType
    <3> QED
      BY <3>1, <3>8
  <2>2. CASE msg.framing = "length"
    <3>1. PICK D \in Seq(Symbols) : D = Digit(Len(BodyOf(msg)))
      BY <1>0, <2>2, PieceTypes
    <3>2. Framed(msg) = H \o C \o L \o D \o C \o C \o B
      BY <1>4, <2>2, <3>1 DEF Framed
    <3>3. H \o C \in Seq(Symbols)
      OBVIOUS
    <3>4. H \o C \o L \in Seq(Symbols)
      BY <3>3, JoinType
    <3>5. H \o C \o L \o D \in Seq(Symbols)
      BY <3>4, JoinType
    <3>6. H \o C \o L \o D \o C \in Seq(Symbols)
      BY <3>5, JoinType
    <3>7. H \o C \o L \o D \o C \o C \in Seq(Symbols)
      BY <3>6, JoinType
    <3>8. H \o C \o L \o D \o C \o C \o B \in Seq(Symbols)
      BY <3>7, JoinType
    <3> QED
      BY <3>2, <3>8
  <2>3. CASE msg.framing = "close"
    <3>1. Framed(msg) = C \o B
      BY <1>4, <2>3 DEF Framed
    <3> QED
      BY <3>1
  <2>4. CASE msg.framing = "none"
    <3>1. Framed(msg) = C
      BY <1>4, <2>4 DEF Framed
    <3> QED
      BY <3>1
  <2> QED
    BY <1>0, <2>1, <2>2, <2>3, <2>4
<1> QED
  BY <1>5

(* A message.                                                              *)
LEMMA EncodedType ==
  ASSUME NEW msg \in Messages, NEW response \in BOOLEAN
  PROVE  Encoded(msg, response) \in Seq(Symbols)
<1>4. PICK C \in Seq(Symbols) : C = CRLF
  BY PieceTypes
<1>5. Framed(msg) \in Seq(Symbols)
  BY FramedType
<1>6. PICK S \in Seq(Symbols) : S = IF response THEN <<"STS">> ELSE <<"REQ">>
  BY PieceTypes
<1>7. S \o C \in Seq(Symbols)
  OBVIOUS
<1>8. (S \o C) \o Framed(msg) \in Seq(Symbols)
  BY <1>5, <1>7, JoinType
<1> QED
  BY <1>4, <1>6, <1>8 DEF Encoded

(* The messages of a connection.                                           *)
LEMMA StreamType ==
  ASSUME NEW msgs \in Seq(Messages), NEW response \in BOOLEAN
  PROVE  Stream(msgs, response) \in Seq(Symbols)
<1>1. DOMAIN msgs = 1 .. Len(msgs) /\ Len(msgs) \in Nat
  OBVIOUS
<1>2. ASSUME NEW i \in DOMAIN msgs PROVE Encoded(msgs[i], response) \in Seq(Symbols)
  <2>1. msgs[i] \in Messages
    OBVIOUS
  <2> QED
    BY <2>1, EncodedType
<1>3. [i \in DOMAIN msgs |-> Encoded(msgs[i], response)] \in Seq(Seq(Symbols))
  BY <1>1, <1>2
<1> QED
  BY <1>3, FlattenType DEF Stream
-----------------------------------------------------------------------------
(* Scanning stays in the capture.                                          *)

(* The end of the capture.                                                 *)
LEMMA EndType ==
  ASSUME buf \in Seq(Symbols)
  PROVE  n \in Nat
BY DEF n

(* A line end found lies in the capture with both its bytes.               *)
LEMMA FindLine ==
  ASSUME buf \in Seq(Symbols), NEW from \in Nat, FindCRLF(from) # None
  PROVE  FindCRLF(from) \in from .. n - 2
<1> DEFINE T == {i \in from .. n - 2 : IsCRLF(i)}
<1>0. n \in Nat
  BY EndType
<1>1. T # {}
  BY DEF FindCRLF
<1>2. T \subseteq Nat
  BY <1>0
<1>3. PICK i \in T : \A j \in T : i <= j
  <2> HIDE DEF T
  <2> QED
    BY <1>1, <1>2, LeastNumber
<1>4. i \in from .. n - 2 /\ IsCRLF(i)
  OBVIOUS
<1>5. \A j \in from .. i - 1 : ~ IsCRLF(j)
  <2> SUFFICES ASSUME NEW j \in from .. i - 1, IsCRLF(j) PROVE FALSE
    OBVIOUS
  <2>1. j \in T /\ j < i /\ j \in Nat /\ i \in Nat
    BY <1>0, <1>4
  <2>2. i <= j
    BY <1>3, <2>1
  <2> QED
    BY <2>1, <2>2
<1>6. \E k \in from .. n - 2 : IsCRLF(k) /\ \A j \in from .. k - 1 : ~ IsCRLF(j)
  BY <1>4, <1>5
<1>7. FindCRLF(from) = CHOOSE k \in from .. n - 2 : IsCRLF(k) /\ \A j \in from .. k - 1 : ~ IsCRLF(j)
  BY <1>4 DEF FindCRLF
<1> QED
  BY <1>6, <1>7

(* A blank line found lies in the capture with all its four bytes.         *)
LEMMA FindBlankLine ==
  ASSUME buf \in Seq(Symbols), NEW from \in Nat, FindDoubleCRLF(from) # None
  PROVE  FindDoubleCRLF(from) \in from .. n - 4
<1> DEFINE Here(i) == IsCRLF(i) /\ IsCRLF(i + 2)
           T == {i \in from .. n - 4 : Here(i)}
<1>0. n \in Nat
  BY EndType
<1>1. T # {}
  BY DEF FindDoubleCRLF
<1>2. T \subseteq Nat
  BY <1>0
<1>3. PICK i \in T : \A j \in T : i <= j
  <2> HIDE DEF T
  <2> QED
    BY <1>1, <1>2, LeastNumber
<1>4. i \in from .. n - 4 /\ Here(i)
  OBVIOUS
<1>5. \A j \in from .. i - 1 : ~ Here(j)
  <2> SUFFICES ASSUME NEW j \in from .. i - 1, Here(j) PROVE FALSE
    OBVIOUS
  <2>1. j \in T /\ j < i /\ j \in Nat /\ i \in Nat
    BY <1>0, <1>4
  <2>2. i <= j
    BY <1>3, <2>1
  <2> QED
    BY <2>1, <2>2
<1>6. \E k \in from .. n - 4 : Here(k) /\ \A j \in from .. k - 1 : ~ Here(j)
  BY <1>4, <1>5
<1>7. FindDoubleCRLF(from)
        = CHOOSE k \in from .. n - 4 : Here(k) /\ \A j \in from .. k - 1 : ~ Here(j)
  BY <1>4 DEF FindDoubleCRLF
<1> HIDE DEF Here
<1> QED
  BY <1>6, <1>7

(* Skipping blanks ends at the end of the capture at the latest.           *)
LEMMA SkipStays ==
  ASSUME buf \in Seq(Symbols), NEW from \in Nat, from <= n
  PROVE  SkipBlanks(from) \in from .. n
<1> DEFINE T == {i \in from .. n : i = n \/ ~ IsBlank(i)}
<1>0. n \in Nat
  BY EndType
<1>1. n \in T
  BY <1>0
<1>2. T \subseteq Nat
  BY <1>0
<1>3. PICK i \in T : \A j \in T : i <= j
  <2> HIDE DEF T
  <2> QED
    BY <1>1, <1>2, LeastNumber
<1>4. i \in from .. n /\ (i = n \/ ~ IsBlank(i))
  OBVIOUS
<1>5. \A j \in from .. i - 1 : IsBlank(j)
  <2> SUFFICES ASSUME NEW j \in from .. i - 1, ~ IsBlank(j) PROVE FALSE
    OBVIOUS
  <2>1. j \in T /\ j < i /\ j \in Nat /\ i \in Nat
    BY <1>0, <1>4
  <2>2. i <= j
    BY <1>3, <2>1
  <2> QED
    BY <2>1, <2>2
<1>6. \E k \in from .. n : (k = n \/ ~ IsBlank(k)) /\ \A j \in from .. k - 1 : IsBlank(j)
  BY <1>4, <1>5
<1>7. SkipBlanks(from)
        = CHOOSE k \in from .. n : (k = n \/ ~ IsBlank(k)) /\ \A j \in from .. k - 1 : IsBlank(j)
  BY DEF SkipBlanks
<1> QED
  BY <1>6, <1>7

(* The smaller of two numbers.                                             *)
LEMMA MinOfTwo ==
  ASSUME NEW a \in Nat, NEW b \in Nat
  PROVE  Min({a, b}) \in {a, b} /\ Min({a, b}) <= a /\ Min({a, b}) <= b
<1>1. \E x \in {a, b} : \A y \in {a, b} : x <= y
  <2>1. CASE a <= b
    BY <2>1
  <2>2. CASE b <= a
    BY <2>2
  <2> QED
    BY <2>1, <2>2
<1>2. Min({a, b}) = CHOOSE x \in {a, b} : \A y \in {a, b} : x <= y
  BY DEF Min
<1>3. Min({a, b}) \in {a, b} /\ \A y \in {a, b} : Min({a, b}) <= y
  BY <1>1, <1>2
<1> QED
  BY <1>3
-----------------------------------------------------------------------------
(* strtoul yields a number.                                                *)

(* What the digit at j stands for.                                         *)
DigitAt(j) == (CHOOSE k \in DOMAIN Digits : Digits[k] = At(j)) - 1

(* f is the table of values that StrToUl computes for the digits from a to *)
(* b - 1.                                                                  *)
Values(f, a, b, base) ==
  f = [j \in a - 1 .. b - 1 |-> IF j < a THEN 0 ELSE f[j - 1] * base + DigitAt(j)]

(* There is such a table, however many digits there are.                   *)
LEMMA ValuesExist ==
  ASSUME NEW a \in Nat, NEW k \in Nat, NEW base \in Nat
  PROVE  \E f : Values(f, a, a + k, base)
<1> DEFINE P == {x \in Nat : \E f : Values(f, a, a + x, base)}
<1>1. 0 \in P
  <2> DEFINE g == [j \in a - 1 .. (a + 0) - 1 |-> 0]
  <2>1. g = [j \in a - 1 .. (a + 0) - 1 |-> IF j < a THEN 0 ELSE g[j - 1] * base + DigitAt(j)]
    OBVIOUS
  <2>2. Values(g, a, a + 0, base)
    BY <2>1 DEF Values
  <2> QED
    BY <2>2
<1>2. ASSUME NEW x \in P PROVE x + 1 \in P
  <2>0. x \in Nat /\ x + 1 \in Nat
    BY <1>2
  <2>1. PICK f : Values(f, a, a + x, base)
    BY <1>2
  <2>2. PICK y \in Nat : y = a + x
    BY <2>0
  <2> DEFINE g == [j \in a - 1 .. y |-> IF j < a THEN 0 ELSE f[j - 1] * base + DigitAt(j)]
  <2>3. \A j \in a - 1 .. y - 1 : f[j] = IF j < a THEN 0 ELSE f[j - 1] * base + DigitAt(j)
    BY <2>1, <2>2 DEF Values
  <2>4. \A j \in a - 1 .. y : g[j] = IF j < a THEN 0 ELSE f[j - 1] * base + DigitAt(j)
    OBVIOUS
  <2>5. g = [j \in a - 1 .. y |-> g[j]]
    OBVIOUS
  <2> HIDE DEF g
  <2>6. \A j \in a - 1 .. y : ~ (j < a) => j - 1 \in a - 1 .. y - 1 /\ j - 1 \in a - 1 .. y
    BY <2>2
  <2>7. \A j \in a - 1 .. y - 1 : j \in a - 1 .. y
    BY <2>2
  <2>8. \A j \in a - 1 .. y - 1 : g[j] = f[j]
    BY <2>3, <2>4, <2>7
  <2>9. \A j \in a - 1 .. y : g[j] = IF j < a THEN 0 ELSE g[j - 1] * base + DigitAt(j)
    BY <2>4, <2>6, <2>8
  <2>10. y = (a + (x + 1)) - 1
    BY <2>0, <2>2
  <2>11. Values(g, a, a + (x + 1), base)
    BY <2>5, <2>9, <2>10 DEF Values
  <2> QED
    BY <2>0, <2>11
<1> HIDE DEF P
<1>3. P = Nat
  <2>1. P \subseteq Nat
    BY DEF P
  <2> QED
    BY <1>1, <1>2, <2>1, SetInduction
<1> QED
  BY <1>3 DEF P

(* Its entries are numbers if the digits are.                              *)
LEMMA ValuesType ==
  ASSUME NEW f, NEW a \in Nat, NEW b \in Nat, a <= b, NEW base \in Nat, Values(f, a, b, base),
         \A j \in a .. b - 1 : DigitAt(j) \in Nat
  PROVE  f[b - 1] \in Nat
<1> DEFINE P == {x \in Nat : a + x <= b => f[(a + x) - 1] \in Nat}
<1>0. \A j \in a - 1 .. b - 1 : f[j] = IF j < a THEN 0 ELSE f[j - 1] * base + DigitAt(j)
  BY DEF Values
<1>1. 0 \in P
  <2>1. (a + 0) - 1 \in a - 1 .. b - 1 /\ (a + 0) - 1 < a
    OBVIOUS
  <2>2. f[(a + 0) - 1] = 0
    BY <1>0, <2>1
  <2> QED
    BY <2>2
<1>2. ASSUME NEW x \in P PROVE x + 1 \in P
  <2>0. x \in Nat /\ x + 1 \in Nat /\ (a + x <= b => f[(a + x) - 1] \in Nat)
    BY <1>2
  <2>1. ASSUME a + (x + 1) <= b PROVE f[(a + (x + 1)) - 1] \in Nat
    <3>1. PICK j \in Nat : j = a + x
      BY <2>0
    <3>2. j \in a - 1 .. b - 1 /\ ~ (j < a) /\ j \in a .. b - 1 /\ (a + (x + 1)) - 1 = j /\ a + x <= b
      BY <2>0, <2>1, <3>1
    <3>3. PICK v \in Nat : v = f[j - 1]
      BY <2>0, <3>1, <3>2
    <3>4. PICK g \in Nat : g = DigitAt(j)
      BY <3>2
    <3>5. f[j] = v * base + g
      BY <1>0, <3>2, <3>3, <3>4
    <3>6. v * base + g \in Nat
      OBVIOUS
    <3> QED
      BY <3>2, <3>5, <3>6
  <2> QED
    BY <2>0, <2>1
<1> HIDE DEF P
<1>3. P = Nat
  <2>1. P \subseteq Nat
    BY DEF P
  <2> QED
    BY <1>1, <1>2, <2>1, SetInduction
<1>4. b - a \in P /\ a + (b - a) = b
  BY <1>3
<1> QED
  BY <1>4 DEF P

(* strtoul, on any part of the capture.                                    *)
LEMMA StrToUlType ==
  ASSUME buf \in Seq(Symbols), NEW i \in Nat, i <= n, NEW e \in Nat, e <= n, NEW base \in Nat
  PROVE  StrToUl(i, e, base) \in Nat
<1> DEFINE from == SkipBlanks(i)
           to == CHOOSE j \in from .. n : /\ j >= e \/ ~ IsDigit(At(j))
                                          /\ \A k \in from .. j - 1 : k < e /\ IsDigit(At(k))
           value == CHOOSE f : Values(f, from, to, base)
<1>0. n \in Nat /\ from \in i .. n
  BY EndType, SkipStays
<1>1. StrToUl(i, e, base) = IF from >= e THEN 0
                            ELSE IF base = 16 /\ to < e /\ At(to) = "CL" THEN value[to - 1] * 16 + 12
                            ELSE value[to - 1]
  BY DEF StrToUl, Values, DigitAt
<1> HIDE DEF value
<1>2. CASE ~ (from >= e)
  <2> DEFINE T == {j \in from .. n : j >= e \/ ~ IsDigit(At(j))}
  <2>1. e \in T /\ from \in Nat
    BY <1>0, <1>2
  <2>2. T \subseteq Nat
    BY <1>0
  <2>3. PICK t \in T : \A j \in T : t <= j
    <3> HIDE DEF T
    <3> QED
      BY <2>1, <2>2, LeastNumber
  <2>4. t \in from .. n /\ (t >= e \/ ~ IsDigit(At(t))) /\ t <= e /\ t \in Nat
    BY <1>0, <2>1, <2>3
  <2>5. ASSUME NEW k \in from .. t - 1 PROVE k < e /\ IsDigit(At(k))
    <3>1. k \in from .. n /\ k < t /\ k < e /\ k \in Nat
      BY <1>0, <2>1, <2>4
    <3>2. k \notin T
      BY <2>3, <2>4, <3>1
    <3> QED
      BY <3>1, <3>2
  <2>6. /\ to \in from .. n
        /\ \A k \in from .. to - 1 : k < e /\ IsDigit(At(k))
    <3>1. \E j \in from .. n : /\ j >= e \/ ~ IsDigit(At(j))
                               /\ \A k \in from .. j - 1 : k < e /\ IsDigit(At(k))
      BY <2>4, <2>5
    <3> QED
      BY <3>1
  <2> HIDE DEF to
  <2>7. to \in Nat /\ from <= to /\ to - from \in Nat /\ from + (to - from) = to
    BY <1>0, <2>1, <2>6
  <2>8. \A k \in from .. to - 1 : DigitAt(k) \in Nat
    <3> SUFFICES ASSUME NEW k \in from .. to - 1 PROVE DigitAt(k) \in Nat
      OBVIOUS
    <3>1. \E x \in DOMAIN Digits : Digits[x] = At(k)
      BY <2>6 DEF IsDigit
    <3>2. DOMAIN Digits = 1 .. 4
      BY DEF Digits
    <3>3. (CHOOSE x \in DOMAIN Digits : Digits[x] = At(k)) \in 1 .. 4
      BY <3>1, <3>2
    <3>4. PICK y \in 1 .. 4 : y = CHOOSE x \in DOMAIN Digits : Digits[x] = At(k)
      BY <3>3
    <3>5. DigitAt(k) = y - 1
      BY <3>4 DEF DigitAt
    <3> QED
      BY <3>5
  <2>9. Values(value, from, to, base)
    <3>1. \E f : Values(f, from, from + (to - from), base)
      BY <2>1, <2>7, ValuesExist
    <3> QED
      BY <2>7, <3>1 DEF value
  <2> HIDE DEF from
  <2>10. value[to - 1] \in Nat
    BY <2>1, <2>7, <2>8, <2>9, ValuesType
  <2> QED
    BY <1>1, <2>10
<1>3. CASE from >= e
  BY <1>1, <1>3
<1> QED
  BY <1>2, <1>3
-----------------------------------------------------------------------------
(* The inductive invariant.                                                *)

MsgType == [chunked : BOOLEAN, body : Seq(Symbols), bodyTruncated : BOOLEAN,
            bodyBytes : Nat, consumed : Nat]
CappedMsg == {msg \in MsgType : Len(msg.body) <= kMaxBody}
Places == {"scan", "head", "size", "chunk", "length", "rest", "emit", "done"}

(* Positions stay in the capture, bodies below the cap, and between two    *)
(* messages only is there the last of them.                                *)
HttpInv ==
  /\ buf \in Seq(Symbols) /\ asResponse \in BOOLEAN
  /\ off \in 0 .. n /\ p \in 0 .. n /\ len \in Nat
  /\ m \in CappedMsg
  /\ out \in Seq(MsgType) /\ Len(out) <= kMaxMessages
  /\ pc \in Places /\ (pc \notin {"scan", "done"} => Len(out) < kMaxMessages)

(* A stretch of the capture.                                               *)
LEMMA SliceType ==
  ASSUME buf \in Seq(Symbols), NEW i \in Nat, NEW j \in Nat, i <= j, j <= n
  PROVE  Slice(i, j) \in Seq(Symbols)
<1>1. n \in Nat /\ n = Len(buf)
  BY EndType DEF n
<1>2. i + 1 \in Nat /\ i + 1 >= 1
  OBVIOUS
<1>3. SubSeq(buf, i + 1, j) \in Seq(Symbols)
  BY <1>1, <1>2
<1> QED
  BY <1>3 DEF Slice

(* AppendCapped keeps below the cap and touches nothing but the body.      *)
LEMMA AppendedType ==
  ASSUME NEW msg \in CappedMsg, NEW piece \in Seq(Symbols)
  PROVE  Appended(msg, piece) \in CappedMsg
<1>1. /\ msg \in MsgType /\ msg.body \in Seq(Symbols)
      /\ msg.chunked \in BOOLEAN
  BY DEF CappedMsg, MsgType
<1>2. PICK b \in Seq(Symbols) : b = msg.body \o piece
  <2>1. msg.body \o piece \in Seq(Symbols)
    BY <1>1, JoinType
  <2> QED
    BY <2>1
<1>3. Len(b) \in Nat /\ kMaxBody \in Nat
  BY HttpAssumption
<1>4. PICK k \in Nat : k = Min({Len(b), kMaxBody}) /\ k <= Len(b) /\ k <= kMaxBody
  <2>1. PICK l \in Nat : l = Len(b)
    BY <1>3
  <2>2. Min({l, kMaxBody}) \in {l, kMaxBody} /\ Min({l, kMaxBody}) <= l /\ Min({l, kMaxBody}) <= kMaxBody
    BY <1>3, MinOfTwo
  <2> QED
    BY <1>3, <2>1, <2>2
<1>5. PICK c \in Seq(Symbols) : c = SubSeq(b, 1, k) /\ Len(c) = k
  <2>1. k \in 0 .. Len(b)
    BY <1>3, <1>4
  <2>2. SubSeq(b, 1, k) \in Seq(Symbols) /\ Len(SubSeq(b, 1, k)) = k
    BY <2>1
  <2> QED
    BY <2>2
<1>6. PICK t \in BOOLEAN : t = (msg.bodyTruncated \/ Len(msg.body) >= kMaxBody \/ Len(b) > kMaxBody)
  OBVIOUS
<1>7. Appended(msg, piece) = [msg EXCEPT !.body = c, !.bodyTruncated = t]
  BY <1>2, <1>4, <1>5, <1>6 DEF Appended
<1>8. /\ [msg EXCEPT !.body = c, !.bodyTruncated = t] \in MsgType
      /\ [msg EXCEPT !.body = c, !.bodyTruncated = t].body = c
  BY <1>1 DEF MsgType
<1> QED
  BY <1>3, <1>4, <1>5, <1>7, <1>8 DEF CappedMsg

(* Changing what is not the body.                                          *)
LEMMA FieldsType ==
  ASSUME NEW msg \in CappedMsg
  PROVE  /\ \A t \in BOOLEAN : [msg EXCEPT !.bodyTruncated = t] \in CappedMsg
         /\ \A t \in BOOLEAN : [msg EXCEPT !.chunked = t] \in CappedMsg
         /\ \A k \in Nat : [msg EXCEPT !.bodyBytes = k] \in CappedMsg
         /\ \A k \in Nat, l \in Nat : [msg EXCEPT !.consumed = k, !.bodyBytes = l] \in CappedMsg
         /\ msg.bodyTruncated \in BOOLEAN /\ msg.chunked \in BOOLEAN
         /\ msg.body \in Seq(Symbols) /\ msg.bodyBytes \in Nat
<1>1. msg \in MsgType /\ Len(msg.body) <= kMaxBody
  BY DEF CappedMsg
<1>2. \A t \in BOOLEAN : [msg EXCEPT !.bodyTruncated = t] \in CappedMsg
  BY <1>1 DEF CappedMsg, MsgType
<1>3. \A t \in BOOLEAN : [msg EXCEPT !.chunked = t] \in CappedMsg
  BY <1>1 DEF CappedMsg, MsgType
<1>4. \A k \in Nat : [msg EXCEPT !.bodyBytes = k] \in CappedMsg
  BY <1>1 DEF CappedMsg, MsgType
<1>5. \A k \in Nat, l \in Nat : [msg EXCEPT !.consumed = k, !.bodyBytes = l] \in CappedMsg
  BY <1>1 DEF CappedMsg, MsgType
<1>6. msg.bodyTruncated \in BOOLEAN /\ msg.chunked \in BOOLEAN
  BY <1>1 DEF MsgType
<1>7. msg.body \in Seq(Symbols) /\ msg.bodyBytes \in Nat
  BY <1>1 DEF MsgType
<1> QED
  BY <1>2, <1>3, <1>4, <1>5, <1>6, <1>7

(* A message not begun.                                                    *)
LEMMA NoMessageType == NoMessage \in CappedMsg
<1>1. <<>> \in Seq(Symbols) /\ Len(<<>>) = 0
  OBVIOUS
<1>2. NoMessage \in MsgType /\ NoMessage.body = <<>>
  BY <1>1 DEF NoMessage, MsgType
<1> QED
  BY <1>1, <1>2, HttpAssumption DEF CappedMsg

(* Every capture is typed.                                                 *)
LEMMA HttpInit == Init => HttpInv
<1> SUFFICES ASSUME Init PROVE HttpInv
  OBVIOUS
<1>1. sent \in Seq(Messages) /\ asResponse \in BOOLEAN
  BY DEF Init, SeqOf
<1>2. PICK s \in Seq(Symbols) : s = Stream(sent, asResponse)
  BY <1>1, StreamType
<1>3. holeAt \in 0 .. Len(s) /\ Len(s) \in Nat
  BY <1>2 DEF Init
<1>4. PICK k \in {Len(s) - holeAt} \cup {h \in HoleLengths : holeAt + h < Len(s)} :
        buf = SubSeq(s, 1, holeAt) \o SubSeq(s, holeAt + k + 1, Len(s))
  BY <1>2 DEF Init
<1>5. k \in Nat
  BY <1>3, <1>4, HttpAssumption
<1>6. buf \in Seq(Symbols)
  <2>1. PICK a \in Seq(Symbols) : a = SubSeq(s, 1, holeAt)
    <3>1. SubSeq(s, 1, holeAt) \in Seq(Symbols)
      BY <1>3
    <3> QED
      BY <3>1
  <2>2. PICK b \in Seq(Symbols) : b = SubSeq(s, holeAt + k + 1, Len(s))
    <3>1. PICK x \in Nat \ {0} : x = holeAt + k + 1
      BY <1>3, <1>5
    <3>2. SubSeq(s, x, Len(s)) \in Seq(Symbols)
      BY <1>3
    <3> QED
      BY <3>1, <3>2
  <2>3. a \o b \in Seq(Symbols)
    OBVIOUS
  <2> QED
    BY <1>4, <2>1, <2>2, <2>3
<1>7. n \in Nat
  BY <1>6, EndType
<1>8. /\ off = 0 /\ p = 0 /\ len = 0 /\ out = <<>> /\ m = NoMessage /\ pc = "scan"
  BY DEF Init
<1>9. out \in Seq(MsgType) /\ Len(out) = 0
  BY <1>8
<1> QED
  BY <1>1, <1>6, <1>7, <1>8, <1>9, NoMessageType, HttpAssumption DEF HttpInv, Places
-----------------------------------------------------------------------------
(* The steps.                                                              *)

(* Where a header line starts, and what HttpFindHeader finds.              *)
LEMMA HeaderPlace ==
  ASSUME buf \in Seq(Symbols), NEW name, NEW i \in Nat, NEW h \in Nat, h <= n - 4,
         NEW j \in Headers(name, i, h)
  PROVE  /\ j \in Nat /\ j <= n
         /\ SkipBlanks(j) + 1 \in Nat /\ SkipBlanks(j) + 1 <= n
         /\ FindCRLF(j) \in Nat /\ FindCRLF(j) <= n
<1>0. n \in Nat
  BY EndType
<1>1. j \in HeaderLines(i, h) /\ SkipBlanks(j) < FindCRLF(j)
  BY DEF Headers
<1>2. PICK k \in i .. h - 2 : j = k + 2
  BY <1>1 DEF HeaderLines
<1>3. j \in Nat /\ j <= n
  BY <1>0, <1>2
<1>4. PICK a \in j .. n : a = SkipBlanks(j)
  BY <1>3, SkipStays
<1>5. FindCRLF(j) # None
  <2>1. None < 0 /\ a >= 0 /\ a \in Int /\ None \in Int
    BY <1>0, <1>3, <1>4 DEF None
  <2>2. a < FindCRLF(j)
    BY <1>1, <1>4
  <2> QED
    BY <2>1, <2>2
<1>6. PICK b \in j .. n - 2 : b = FindCRLF(j)
  BY <1>3, <1>5, FindLine
<1>7. a < b
  BY <1>1, <1>4, <1>6
<1>8. a + 1 \in Nat /\ a + 1 <= n /\ b \in Nat /\ b <= n
  BY <1>0, <1>3, <1>6, <1>7
<1> QED
  BY <1>3, <1>4, <1>6, <1>8

(* The header block leaves the cursor behind itself and a length that is a *)
(* number.                                                                 *)
LEMMA ParseHeadInv ==
  ASSUME HttpInv, ParseHead
  PROVE  HttpInv'
<1>0. /\ buf \in Seq(Symbols) /\ off \in Nat /\ off <= n /\ len \in Nat /\ m \in CappedMsg
      /\ Len(out) < kMaxMessages /\ n \in Nat
  BY EndType DEF HttpInv, ParseHead
<1>1. UNCHANGED inputVars /\ off' = off /\ out' = out /\ HeadParses
  BY DEF ParseHead
<1>2. PICK h : h = FindDoubleCRLF(off)
  OBVIOUS
<1>3. h \in off .. n - 4
  BY <1>0, <1>1, <1>2, FindBlankLine DEF HeadParses
<1> DEFINE chunked == Headers("TE", off, h) # {}
           cls == Headers("CL", off, h)
           cl == CHOOSE j \in cls : \A k \in cls : j <= k
<1>4. /\ m' = [m EXCEPT !.chunked = chunked] /\ p' = h + 4
      /\ \/ pc' = "size" /\ len' = len
         \/ /\ cls # {} /\ pc' = "length"
            /\ len' = StrToUl(SkipBlanks(cl) + 1, FindCRLF(cl), 10)
         \/ pc' = "rest" /\ len' = len
  BY <1>2 DEF ParseHead
<1>5. m' \in CappedMsg
  <2>1. PICK t \in BOOLEAN : t = chunked
    OBVIOUS
  <2> HIDE DEF chunked
  <2> QED
    BY <1>0, <1>4, <2>1, FieldsType
<1>6. len' \in Nat
  <2>1. ASSUME cls # {} PROVE StrToUl(SkipBlanks(cl) + 1, FindCRLF(cl), 10) \in Nat
    <3>0. h \in Nat /\ h <= n - 4
      BY <1>0, <1>3
    <3>1. \A j \in cls : j \in Nat
      BY <1>0, <3>0, HeaderPlace
    <3>2. cls \subseteq Nat
      BY <3>1
    <3> HIDE DEF cls
    <3>3. \E j \in cls : \A k \in cls : j <= k
      BY <2>1, <3>2, LeastNumber
    <3>4. cl \in cls
      BY <3>3
    <3> HIDE DEF cl
    <3>5. PICK j \in Headers("CL", off, h) : j = cl
      BY <3>4 DEF cls
    <3>6. PICK a, b : a = SkipBlanks(j) + 1 /\ b = FindCRLF(j)
      OBVIOUS
    <3>7. a \in Nat /\ a <= n /\ b \in Nat /\ b <= n
      BY <1>0, <3>0, <3>6, HeaderPlace
    <3>8. 10 \in Nat
      OBVIOUS
    <3>9. StrToUl(a, b, 10) \in Nat
      BY <1>0, <3>7, <3>8, StrToUlType
    <3> QED
      BY <3>5, <3>6, <3>9
  <2> HIDE DEF cls, cl
  <2> QED
    BY <1>0, <1>4, <2>1
<1>7. pc' \in {"size", "length", "rest"}
  <2> HIDE DEF cls, cl
  <2> QED
    BY <1>4
<1>8. buf' = buf /\ asResponse' = asResponse /\ n' = n
  BY <1>1 DEF inputVars, n
<1>9. p' \in 0 .. n
  BY <1>0, <1>3, <1>4
<1>10. out \in Seq(MsgType) /\ asResponse \in BOOLEAN /\ Len(out) <= kMaxMessages /\ off \in 0 .. n
  BY DEF HttpInv
<1> QED
  BY <1>0, <1>1, <1>5, <1>6, <1>7, <1>8, <1>9, <1>10 DEF HttpInv, Places

(* What the body's steps have in common: they change the message, the      *)
(* cursor and the length only.                                             *)
LEMMA BodyStep ==
  ASSUME HttpInv, pc \notin {"scan", "done"}, UNCHANGED <<inputVars, off, out>>,
         m' \in CappedMsg, p' \in 0 .. n, len' \in Nat, pc' \in Places
  PROVE  HttpInv'
<1>1. buf' = buf /\ asResponse' = asResponse /\ n' = n /\ off' = off /\ out' = out
  BY DEF inputVars, n
<1> QED
  BY <1>1 DEF HttpInv

(* ... and they keep the invariant.                                        *)
LEMMA BodyInv ==
  ASSUME HttpInv,
         SizeLineCut \/ SizeLine \/ LastChunk \/ ChunkCut \/ Chunk \/ LengthBody \/ RestBody
  PROVE  HttpInv'
<1>0. /\ buf \in Seq(Symbols) /\ n \in Nat /\ p \in Nat /\ p <= n /\ len \in Nat /\ m \in CappedMsg
      /\ n \in 0 .. n /\ p \in 0 .. n
  BY EndType DEF HttpInv
<1>1. UNCHANGED <<inputVars, off, out>>
  BY DEF SizeLineCut, SizeLine, LastChunk, ChunkCut, Chunk, LengthBody, RestBody
<1>2. CASE SizeLineCut
  <2>1. m' = [m EXCEPT !.bodyTruncated = TRUE] /\ p' = n /\ len' = len /\ pc = "size" /\ pc' = "emit"
    BY <1>2 DEF SizeLineCut
  <2>2. m' \in CappedMsg
    BY <1>0, <2>1, FieldsType
  <2> QED
    BY <1>0, <1>1, <2>1, <2>2, BodyStep DEF Places
<1>3. CASE SizeLine
  <2>1. PICK le : /\ le = FindCRLF(p) /\ len' = StrToUl(p, le, 16) /\ p' = le + 2
                  /\ FindCRLF(p) # None /\ m' = m /\ pc = "size" /\ pc' = "chunk"
    BY <1>3 DEF SizeLine
  <2>2. le \in p .. n - 2
    BY <1>0, <2>1, FindLine
  <2>3. le \in Nat /\ le <= n /\ 16 \in Nat /\ p' \in 0 .. n
    BY <1>0, <2>1, <2>2
  <2>4. len' \in Nat
    BY <1>0, <2>1, <2>3, StrToUlType
  <2> QED
    BY <1>0, <1>1, <2>1, <2>3, <2>4, BodyStep DEF Places
<1>4. CASE LastChunk
  <2>1. /\ p' = IF FindCRLF(p) = None THEN n ELSE FindCRLF(p) + 2
        /\ m' = m /\ len' = len /\ pc = "chunk" /\ pc' = "emit"
    BY <1>4 DEF LastChunk
  <2>2. p' \in 0 .. n
    <3>1. CASE FindCRLF(p) = None
      BY <1>0, <2>1, <3>1
    <3>2. CASE FindCRLF(p) # None
      <4>1. PICK le \in p .. n - 2 : le = FindCRLF(p)
        BY <1>0, <3>2, FindLine
      <4>2. p' = le + 2
        BY <2>1, <3>2, <4>1
      <4> QED
        BY <1>0, <4>2
    <3> QED
      BY <3>1, <3>2
  <2> QED
    BY <1>0, <1>1, <2>1, <2>2, BodyStep DEF Places
<1>5. CASE ChunkCut
  <2>1. m' = Appended(m, Slice(p, n)) /\ p' = n /\ len' = len /\ pc = "chunk" /\ pc' = "emit"
    BY <1>5 DEF ChunkCut
  <2>2. m' \in CappedMsg
    <3>1. Slice(p, n) \in Seq(Symbols)
      BY <1>0, SliceType
    <3> QED
      BY <1>0, <2>1, <3>1, AppendedType
  <2> QED
    BY <1>0, <1>1, <2>1, <2>2, BodyStep DEF Places
<1>6. CASE Chunk
  <2>1. /\ p + len <= n /\ m' = Appended(m, Slice(p, p + len))
        /\ p' = IF p + len + 2 <= n /\ IsCRLF(p + len) THEN p + len + 2 ELSE p + len
        /\ len' = len /\ pc = "chunk" /\ pc' = "size"
    BY <1>6 DEF Chunk
  <2>2. m' \in CappedMsg
    <3>1. PICK e \in Nat : e = p + len /\ p <= e /\ e <= n
      BY <1>0, <2>1
    <3>2. Slice(p, e) \in Seq(Symbols)
      BY <1>0, <3>1, SliceType
    <3> QED
      BY <1>0, <2>1, <3>1, <3>2, AppendedType
  <2>3. p' \in 0 .. n
    BY <1>0, <2>1
  <2> QED
    BY <1>0, <1>1, <2>1, <2>2, <2>3, BodyStep DEF Places
<1>7. CASE LengthBody
  <2>1. PICK take : /\ take = Min({len, n - p})
                    /\ m' = [Appended(m, Slice(p, p + take)) EXCEPT
                               !.bodyTruncated = @ \/ take < len, !.bodyBytes = take]
                    /\ p' = p + take /\ len' = len /\ pc = "length" /\ pc' = "emit"
    BY <1>7 DEF LengthBody
  <2>2. PICK r \in Nat : r = n - p
    BY <1>0
  <2>3. take \in Nat /\ take <= r
    BY <1>0, <2>1, <2>2, MinOfTwo
  <2>4. PICK e \in Nat : e = p + take /\ p <= e /\ e <= n
    BY <1>0, <2>2, <2>3
  <2>5. Slice(p, e) \in Seq(Symbols)
    BY <1>0, <2>4, SliceType
  <2>6. PICK g \in CappedMsg : g = Appended(m, Slice(p, e))
    BY <1>0, <2>5, AppendedType
  <2>7. PICK t \in BOOLEAN : t = (g.bodyTruncated \/ take < len)
    OBVIOUS
  <2>8. m' = [g EXCEPT !.bodyTruncated = t, !.bodyBytes = take]
    BY <2>1, <2>4, <2>6, <2>7
  <2>9. PICK f \in CappedMsg : f = [g EXCEPT !.bodyTruncated = t]
    BY FieldsType
  <2>10. [f EXCEPT !.bodyBytes = take] \in CappedMsg
    BY <2>3, FieldsType
  <2>11. [f EXCEPT !.bodyBytes = take] = [g EXCEPT !.bodyTruncated = t, !.bodyBytes = take]
    BY <2>9 DEF CappedMsg, MsgType
  <2>12. p' \in 0 .. n
    BY <1>0, <2>1, <2>4
  <2> QED
    BY <1>0, <1>1, <2>1, <2>8, <2>10, <2>11, <2>12, BodyStep DEF Places
<1>8. CASE RestBody
  <2>1. /\ IF asResponse
           THEN m' = [Appended(m, Slice(p, n)) EXCEPT !.bodyBytes = n - p] /\ p' = n
           ELSE m' = m /\ p' = p
        /\ len' = len /\ pc = "rest" /\ pc' = "emit"
    BY <1>8 DEF RestBody
  <2>2. m' \in CappedMsg /\ p' \in 0 .. n
    <3>1. CASE asResponse
      <4>1. PICK r \in Nat : r = n - p
        BY <1>0
      <4>2. Slice(p, n) \in Seq(Symbols)
        BY <1>0, SliceType
      <4>3. PICK g \in CappedMsg : g = Appended(m, Slice(p, n))
        BY <1>0, <4>2, AppendedType
      <4>4. m' = [g EXCEPT !.bodyBytes = r] /\ p' = n
        BY <2>1, <3>1, <4>1, <4>3
      <4> QED
        BY <1>0, <4>4, FieldsType
    <3>2. CASE ~ asResponse
      BY <1>0, <2>1, <3>2
    <3> QED
      BY <3>1, <3>2
  <2> QED
    BY <1>0, <1>1, <2>1, <2>2, BodyStep DEF Places
<1> QED
  BY <1>2, <1>3, <1>4, <1>5, <1>6, <1>7, <1>8

(* The loop over the messages keeps the invariant.                         *)
LEMMA LoopInv ==
  ASSUME HttpInv, NoMore \/ NextMessage \/ HeadFails \/ Emit
  PROVE  HttpInv'
<1>0. /\ buf \in Seq(Symbols) /\ n \in Nat /\ p \in 0 .. n /\ off \in 0 .. n /\ len \in Nat
      /\ m \in CappedMsg /\ out \in Seq(MsgType) /\ Len(out) <= kMaxMessages
      /\ asResponse \in BOOLEAN /\ (pc \notin {"scan", "done"} => Len(out) < kMaxMessages)
  BY EndType DEF HttpInv
<1>1. buf' = buf /\ asResponse' = asResponse /\ n' = n
  BY DEF NoMore, NextMessage, HeadFails, Emit, inputVars, n
<1>2. CASE NoMore \/ HeadFails
  <2>1. UNCHANGED <<off, out, m, p, len>> /\ pc' = "done"
    BY <1>2 DEF NoMore, HeadFails
  <2> QED
    BY <1>0, <1>1, <2>1 DEF HttpInv, Places
<1>3. CASE NextMessage
  <2>1. /\ UNCHANGED <<out, p, len>> /\ off' = SkipBlanks(off) /\ m' = NoMessage /\ pc' = "head"
        /\ Len(out) < kMaxMessages
    BY <1>3 DEF NextMessage
  <2>2. off \in Nat /\ off <= n
    BY <1>0
  <2>3. off' \in off .. n
    BY <1>0, <2>1, <2>2, SkipStays
  <2>4. off' \in 0 .. n
    BY <1>0, <2>2, <2>3
  <2> QED
    BY <1>0, <1>1, <2>1, <2>4, NoMessageType DEF HttpInv, Places
<1>4. CASE Emit
  <2>1. /\ pc = "emit" /\ off' = p /\ UNCHANGED <<m, p, len>> /\ pc' \in {"done", "scan"}
        /\ out' = Append(out, [m EXCEPT !.consumed = p,
                                        !.bodyBytes = IF m.chunked THEN Len(m.body) ELSE @])
    BY <1>4 DEF Emit
  <2>2. PICK k \in Nat : k = IF m.chunked THEN Len(m.body) ELSE m.bodyBytes
    <3>1. m.body \in Seq(Symbols) /\ m.bodyBytes \in Nat
      BY <1>0, FieldsType
    <3>2. Len(m.body) \in Nat
      BY <3>1
    <3> QED
      BY <3>1, <3>2
  <2>3. PICK x \in CappedMsg : x = [m EXCEPT !.consumed = p, !.bodyBytes = k]
    <3>1. p \in Nat
      BY <1>0
    <3> QED
      BY <1>0, <3>1, FieldsType
  <2>4. out' = Append(out, x)
    BY <2>1, <2>2, <2>3
  <2>5. x \in MsgType
    BY DEF CappedMsg
  <2>6. Append(out, x) \in Seq(MsgType) /\ Len(Append(out, x)) = Len(out) + 1 /\ Len(out) \in Nat
    BY <1>0, <2>5
  <2>7. Len(out') <= kMaxMessages /\ out' \in Seq(MsgType)
    BY <1>0, <2>1, <2>4, <2>6, HttpAssumption
  <2> QED
    BY <1>0, <1>1, <2>1, <2>7 DEF HttpInv, Places
<1> QED
  BY <1>2, <1>3, <1>4

(* Every step keeps HttpInv.                                               *)
LEMMA HttpStep == HttpInv /\ [Next]_vars => HttpInv'
<1> SUFFICES ASSUME HttpInv, [Next]_vars PROVE HttpInv'
  OBVIOUS
<1>1. CASE NoMore \/ NextMessage \/ HeadFails \/ Emit
  BY <1>1, LoopInv
<1>2. CASE ParseHead
  BY <1>2, ParseHeadInv
<1>3. CASE SizeLineCut \/ SizeLine \/ LastChunk \/ ChunkCut \/ Chunk \/ LengthBody \/ RestBody
  BY <1>3, BodyInv
<1>4. CASE UNCHANGED vars
  BY <1>4 DEF vars, inputVars, HttpInv, n
<1> QED
  BY <1>1, <1>2, <1>3, <1>4 DEF Next
-----------------------------------------------------------------------------
(* What the parser has found, and where it stands in the stream.           *)

(* The bytes of each message, and where the k-th message ends.             *)
Wires == [i \in DOMAIN sent |-> Encoded(sent[i], asResponse)]
Pre(k) == Upto(Wires, k)

(* What is captured at b is e, as far as the capture goes.                 *)
Holds(b, e) == \A j \in 1 .. Len(e) : b + j <= n => buf[b + j] = e[j]
Byte(i, x) == i < n => At(i) = x
LineAt(b, x) == Byte(b, x) /\ Byte(b + 1, "cr") /\ Byte(b + 2, "lf")

(* Nothing before the end of the i-th message was lost but a tail.         *)
Seen(i) == n = holeAt \/ Pre(i) <= holeAt

(* The message the parser is at.                                           *)
Current == sent[Len(out) + 1]
Base == Pre(Len(out))
End == Pre(Len(out) + 1)
Active == Len(out) < Len(sent) /\ Steady(Len(out)) /\ Seen(Len(out) + 1)

(* Where its chunks lie on the wire.                                       *)
ChunkAt(b, msg, c) == b + 8 + Upto(Pieces(msg), c)
SizeLength(msg) == IF msg.ext THEN 2 ELSE 1

(* A body after x bytes of it were read.                                   *)
Kept(msg, x) == SubSeq(BodyOf(msg), 1, Least(x, kMaxBody))

(* got is message i: its framing, a prefix of its body, and the whole of   *)
(* it if it was captured whole.                                            *)
Shows(got, msg, e) ==
  /\ got.chunked = (msg.framing = "chunked")
  /\ \E x \in 0 .. Len(BodyOf(msg)) : got.body = Kept(msg, x)
  /\ e <= n => /\ got.body = Kept(msg, Len(BodyOf(msg)))
               /\ got.bodyTruncated = (Len(BodyOf(msg)) > kMaxBody)

(* Only blanks lie between o and e; a trailer begins at o.                 *)
Reaches(o, e) == o <= e /\ \A j \in o .. e - 1 : j < n => IsBlank(j)
Lost(o) == LineAt(o, "HX")

(* The next message after k is expected at o.                              *)
Between(k, o) ==
  /\ k <= Len(sent) /\ Steady(k) /\ Seen(k) => Reaches(o, Pre(k))
  /\ n = holeAt /\ ~ Steady(k) => Lost(o)

(* What is known at each place of the control.                             *)
AtHead ==
  /\ off < n
  /\ Active => off = Base
  /\ n = holeAt => Active \/ Lost(off)

AtSize(got, q) ==
  /\ Current.framing = "chunked" /\ got.chunked = TRUE
  /\ \E c \in 0 .. Len(Current.chunks) :
       /\ got.body = Kept(Current, Upto(Current.chunks, c))
       /\ got.bodyTruncated = (Upto(Current.chunks, c) > kMaxBody)
       /\ \/ q = ChunkAt(Base, Current, c)
          \/ q + 2 = ChunkAt(Base, Current, c) /\ n <= q + 1

AtChunk(got, q, l) ==
  /\ Current.framing = "chunked" /\ got.chunked = TRUE
  /\ \E c \in 0 .. Len(Current.chunks) :
       /\ got.body = Kept(Current, Upto(Current.chunks, c))
       /\ got.bodyTruncated = (Upto(Current.chunks, c) > kMaxBody)
       /\ \/ /\ c < Len(Current.chunks) /\ l = Len(Current.chunks[c + 1])
             /\ q = ChunkAt(Base, Current, c) + SizeLength(Current) + 2
          \/ c = Len(Current.chunks) /\ l = 0 /\ q = ChunkAt(Base, Current, c) + 3

Empty(got) == got.chunked = FALSE /\ got.body = <<>> /\ got.bodyTruncated = FALSE

AtLength(got, q, l) ==
  Current.framing = "length" /\ Empty(got) /\ l = Len(BodyOf(Current)) /\ q = Base + 12

AtRest(got, q) == Current.framing \in {"close", "none"} /\ Empty(got) /\ q = Base + 5

AtEmit(got, q) == Shows(got, Current, End) /\ Between(Len(out) + 1, q) /\ off < q

InBody(place, got, q, l) ==
  /\ n = holeAt => Active
  /\ Active => /\ off = Base /\ off < n
               /\ place = "size" => AtSize(got, q)
               /\ place = "chunk" => AtChunk(got, q, l)
               /\ place = "length" => AtLength(got, q, l)
               /\ place = "rest" => AtRest(got, q)
               /\ place = "emit" => AtEmit(got, q)

(* Every message emitted is the one sent.                                  *)
Shown ==
  \A i \in 1 .. Len(out) :
    i <= Len(sent) /\ Seen(i) /\ Steady(i - 1) => Shows(out[i], sent[i], Pre(i))

(* While the capture is a prefix of the stream, none but the last is cut.  *)
InStep ==
  n = holeAt =>
    /\ Len(out) <= Len(sent)
    /\ Len(out) > 0 => Steady(Len(out) - 1) /\ Pre(Len(out) - 1) < n

(* None is missed.                                                         *)
Complete ==
  \A i \in 1 .. Len(sent) :
    i <= kMaxMessages /\ Pre(i) <= holeAt /\ Steady(i - 1) => i <= Len(out)

(* The capture is the stream without the hole.                             *)
Captured ==
  /\ sent \in Seq(Messages) /\ asResponse \in BOOLEAN /\ Sendable(sent, asResponse)
  /\ holeAt \in 0 .. n /\ n <= Pre(Len(sent))
  /\ \A j \in 1 .. holeAt : buf[j] = FlattenSeq(Wires)[j]

Tracked ==
  /\ Shown /\ InStep
  /\ pc = "scan" => Between(Len(out), off)
  /\ pc = "head" => AtHead /\ m = NoMessage
  /\ pc \notin {"scan", "head", "done"} => InBody(pc, m, p, len)
  /\ pc = "done" => Complete
-----------------------------------------------------------------------------
(* The capture, piece by piece.                                            *)

(* What holds of two pieces joined holds of each at its place.             *)
LEMMA HoldsParts ==
  ASSUME NEW a \in Seq(Symbols), NEW e \in Seq(Symbols), NEW b \in Nat, Holds(b, a \o e)
  PROVE  /\ Holds(b, a) /\ Holds(b + Len(a), e)
         /\ a \o e \in Seq(Symbols) /\ Len(a \o e) = Len(a) + Len(e)
<1>1. /\ Len(a) \in Nat /\ Len(e) \in Nat /\ Len(a \o e) = Len(a) + Len(e) /\ a \o e \in Seq(Symbols)
      /\ \A j \in 1 .. Len(a) : (a \o e)[j] = a[j]
      /\ \A j \in 1 .. Len(e) : (a \o e)[Len(a) + j] = e[j]
  OBVIOUS
<1>2. \A j \in 1 .. Len(a) + Len(e) : b + j <= n => buf[b + j] = (a \o e)[j]
  BY <1>1 DEF Holds
<1>3. \A j \in 1 .. Len(a) : j \in 1 .. Len(a) + Len(e)
  BY <1>1
<1>4. \A j \in 1 .. Len(e) : Len(a) + j \in 1 .. Len(a) + Len(e) /\ (b + Len(a)) + j = b + (Len(a) + j)
  BY <1>1
<1>5. Holds(b, a)
  BY <1>1, <1>2, <1>3 DEF Holds
<1>6. Holds(b + Len(a), e)
  BY <1>1, <1>2, <1>4 DEF Holds
<1> QED
  BY <1>1, <1>5, <1>6

(* What holds of many pieces joined holds of each.                         *)
LEMMA HoldsFlatten ==
  ASSUME NEW ss \in Seq(Seq(Symbols)), NEW b \in Nat, Holds(b, FlattenSeq(ss)),
         NEW k \in 0 .. Len(ss) - 1
  PROVE  Holds(b + Upto(ss, k), ss[k + 1])
<1>1. PICK u \in Nat : u = Upto(ss, k)
  BY FirstExtends
<1>2. PICK e \in Seq(Symbols) : e = ss[k + 1]
  BY FirstExtends
<1>3. ASSUME NEW j \in 1 .. Len(e), (b + u) + j <= n PROVE buf[(b + u) + j] = e[j]
  <2>1. u + j \in 1 .. Len(FlattenSeq(ss)) /\ FlattenSeq(ss)[u + j] = e[j]
    BY <1>1, <1>2, FlattenAt
  <2>2. j \in Nat /\ (b + u) + j = b + (u + j)
    OBVIOUS
  <2>3. b + (u + j) <= n
    BY <1>3, <2>2
  <2>4. buf[b + (u + j)] = e[j]
    BY <2>1, <2>3 DEF Holds
  <2> QED
    BY <2>2, <2>4
<1> QED
  BY <1>1, <1>2, <1>3 DEF Holds

(* Single symbols and line ends.                                           *)
LEMMA HoldsBytes ==
  ASSUME n \in Nat, NEW b \in Nat
  PROVE  /\ \A x : Holds(b, <<x>>) => Byte(b, x)
         /\ Holds(b, CRLF) => Byte(b, "cr") /\ Byte(b + 1, "lf")
<1>1. ASSUME NEW x, Holds(b, <<x>>) PROVE Byte(b, x)
  <2>1. Len(<<x>>) = 1 /\ <<x>>[1] = x
    OBVIOUS
  <2>2. b + 1 <= n => buf[b + 1] = x
    BY <1>1, <2>1 DEF Holds
  <2> QED
    BY <2>2 DEF Byte, At
<1>2. ASSUME Holds(b, CRLF) PROVE Byte(b, "cr") /\ Byte(b + 1, "lf")
  <2>1. Len(CRLF) = 2 /\ CRLF[1] = "cr" /\ CRLF[2] = "lf"
    BY DEF CRLF
  <2>2. (b + 1 <= n => buf[b + 1] = "cr") /\ (b + 2 <= n => buf[b + 2] = "lf")
    BY <1>2, <2>1 DEF Holds
  <2>3. (b + 1) + 1 = b + 2
    OBVIOUS
  <2> QED
    BY <2>2, <2>3 DEF Byte, At
<1> QED
  BY <1>1, <1>2

(* The messages as a sequence of sequences of symbols.                     *)
LEMMA WiresType ==
  ASSUME sent \in Seq(Messages), asResponse \in BOOLEAN
  PROVE  /\ Wires \in Seq(Seq(Symbols)) /\ Len(Wires) = Len(sent)
         /\ \A i \in 1 .. Len(sent) : Wires[i] = Encoded(sent[i], asResponse)
<1>1. DOMAIN sent = 1 .. Len(sent) /\ Len(sent) \in Nat
  OBVIOUS
<1>2. ASSUME NEW i \in DOMAIN sent PROVE Encoded(sent[i], asResponse) \in Seq(Symbols)
  <2>1. sent[i] \in Messages
    OBVIOUS
  <2> QED
    BY <2>1, EncodedType
<1>3. [i \in DOMAIN sent |-> Encoded(sent[i], asResponse)] \in Seq(Seq(Symbols))
  BY <1>1, <1>2
<1>4. \A i \in 1 .. Len(sent) : Wires[i] = Encoded(sent[i], asResponse)
  BY <1>1 DEF Wires
<1>5. Len(Wires) = Len(sent)
  BY <1>1 DEF Wires
<1> QED
  BY <1>3, <1>4, <1>5 DEF Wires

(* The k-th message ends where the stream of the first k ends, and not     *)
(* before an earlier one.                                                  *)
LEMMA PreTypes ==
  ASSUME sent \in Seq(Messages), asResponse \in BOOLEAN
  PROVE  /\ \A k \in 0 .. Len(sent) : Pre(k) \in Nat
         /\ \A k \in 0 .. Len(sent) : \A l \in k .. Len(sent) : Pre(k) <= Pre(l)
         /\ Pre(0) = 0
         /\ Pre(Len(sent)) = Len(FlattenSeq(Wires))
<1>1. Wires \in Seq(Seq(Symbols)) /\ Len(Wires) = Len(sent)
  BY WiresType
<1>2. \A k \in 0 .. Len(Wires) : Upto(Wires, k) \in Nat
  BY <1>1, FirstType
<1>3. ASSUME NEW k \in 0 .. Len(Wires), NEW l \in k .. Len(Wires)
      PROVE  Upto(Wires, k) <= Upto(Wires, l)
  BY <1>1, FirstStays
<1>4. Upto(Wires, 0) = 0 /\ First(Wires, Len(Wires)) = FlattenSeq(Wires)
  BY <1>1, FirstType
<1>5. Upto(Wires, Len(Wires)) = Len(FlattenSeq(Wires))
  BY <1>4 DEF Upto
<1> QED
  BY <1>1, <1>2, <1>3, <1>4, <1>5 DEF Pre

(* What was captured of a message that was not lost is that message.       *)
LEMMA WireHolds ==
  ASSUME buf \in Seq(Symbols), Captured, NEW k \in 0 .. Len(sent) - 1, Seen(k + 1)
  PROVE  /\ sent[k + 1] \in Messages
         /\ Pre(k) \in Nat /\ Pre(k + 1) \in Nat
         /\ Pre(k + 1) = Pre(k) + Len(Encoded(sent[k + 1], asResponse))
         /\ Holds(Pre(k), Encoded(sent[k + 1], asResponse))
<1>0. sent \in Seq(Messages) /\ asResponse \in BOOLEAN /\ n \in Nat /\ holeAt \in 0 .. n
  BY EndType DEF Captured
<1>1. /\ Wires \in Seq(Seq(Symbols)) /\ Len(Wires) = Len(sent) /\ Len(sent) \in Nat
      /\ k + 1 \in 1 .. Len(sent) /\ k \in 0 .. Len(Wires) - 1
      /\ Wires[k + 1] = Encoded(sent[k + 1], asResponse)
  BY <1>0, WiresType
<1>2. PICK e \in Seq(Symbols) : e = Wires[k + 1]
  BY <1>1, FirstExtends
<1>3. Pre(k) \in Nat /\ Pre(k + 1) = Pre(k) + Len(e) /\ Pre(k + 1) \in Nat
  BY <1>1, <1>2, FirstExtends DEF Pre
<1>4. PICK u \in Nat : u = Pre(k)
  BY <1>3
<1>5. ASSUME NEW j \in 1 .. Len(e), u + j <= n PROVE buf[u + j] = e[j]
  <2>1. FlattenSeq(Wires)[u + j] = e[j]
    BY <1>1, <1>2, <1>4, FlattenAt DEF Pre
  <2>2. u + j <= holeAt
    <3>1. n = holeAt \/ u + Len(e) <= holeAt
      BY <1>3, <1>4 DEF Seen
    <3> QED
      BY <1>0, <1>5, <3>1
  <2>3. u + j \in 1 .. holeAt
    BY <1>0, <2>2
  <2> QED
    BY <2>1, <2>3 DEF Captured
<1>6. Holds(u, e)
  BY <1>5 DEF Holds
<1>7. sent[k + 1] \in Messages
  BY <1>0, <1>1
<1> QED
  BY <1>1, <1>2, <1>3, <1>4, <1>6, <1>7
-----------------------------------------------------------------------------
(* How a message is laid out.                                              *)

Start == IF asResponse THEN "STS" ELSE "REQ"

(* Joined pieces have the joined length.                                   *)
LEMMA JoinLength ==
  ASSUME NEW a \in Seq(Symbols), NEW e \in Seq(Symbols)
  PROVE  a \o e \in Seq(Symbols) /\ Len(a \o e) = Len(a) + Len(e) /\ Len(a) \in Nat /\ Len(e) \in Nat
OBVIOUS

(* The lengths of line ends and digits.                                    *)
LEMMA SmallPieces ==
  /\ CRLF \in Seq(Symbols) /\ Len(CRLF) = 2
  /\ \A x \in Symbols : <<x>> \in Seq(Symbols) /\ Len(<<x>>) = 1
  /\ Digit(0) = <<"0">>
  /\ \A x \in {"TE", "HX", "CL", "STS", "REQ", "EXT", "0", "1", "2", "3"} : x \in Symbols
<1>1. CRLF \in Seq(Symbols) /\ Len(CRLF) = 2
  BY PieceTypes DEF CRLF
<1>2. \A x \in Symbols : <<x>> \in Seq(Symbols) /\ Len(<<x>>) = 1
  OBVIOUS
<1>3. Digit(0) = <<"0">>
  BY DEF Digit, Digits
<1>4. ASSUME NEW x \in {"TE", "HX", "CL", "STS", "REQ", "EXT"} PROVE x \in Symbols
  BY DEF Symbols
<1>5. "0" \in Symbols /\ "1" \in Symbols /\ "2" \in Symbols /\ "3" \in Symbols
  <2>1. Digits[1] = "0" /\ Digits[2] = "1" /\ Digits[3] = "2" /\ Digits[4] = "3"
    BY DEF Digits
  <2>2. 1 \in 1 .. 4 /\ 2 \in 1 .. 4 /\ 3 \in 1 .. 4 /\ 4 \in 1 .. 4
    OBVIOUS
  <2> QED
    BY <2>1, <2>2 DEF Symbols
<1> QED
  BY <1>1, <1>2, <1>3, <1>4, <1>5

(* A piece with a line end, a symbol or another piece behind it.           *)
LEMMA Extended ==
  ASSUME NEW a \in Seq(Symbols)
  PROVE  /\ \E y \in Seq(Symbols) : y = a \o CRLF /\ Len(y) = Len(a) + 2
         /\ \A x \in Symbols : \E y \in Seq(Symbols) : y = a \o <<x>> /\ Len(y) = Len(a) + 1
         /\ \A e \in Seq(Symbols) : \E y \in Seq(Symbols) : y = a \o e /\ Len(y) = Len(a) + Len(e)
<1>1. \A e \in Seq(Symbols) : a \o e \in Seq(Symbols) /\ Len(a \o e) = Len(a) + Len(e)
  BY JoinLength
<1> QED
  BY <1>1, SmallPieces

(* A message begins with its start line.                                   *)
LEMMA StartLayout ==
  ASSUME n \in Nat, asResponse \in BOOLEAN, NEW msg \in Messages, NEW b \in Nat,
         Holds(b, Encoded(msg, asResponse))
  PROVE  /\ LineAt(b, Start) /\ Holds(b + 3, Framed(msg))
         /\ Len(Encoded(msg, asResponse)) = 3 + Len(Framed(msg)) /\ Len(Framed(msg)) \in Nat
<1>1. PICK S \in Seq(Symbols), C \in Seq(Symbols), F \in Seq(Symbols) :
        S = <<Start>> /\ C = CRLF /\ F = Framed(msg)
  <2>1. <<Start>> \in Seq(Symbols) /\ CRLF \in Seq(Symbols)
    BY PieceTypes DEF Start
  <2> QED
    BY <2>1, FramedType
<1>2. Encoded(msg, asResponse) = (S \o C) \o F
  BY <1>1 DEF Encoded, Start
<1>3. Len(S) = 1 /\ Len(C) = 2
  BY <1>1 DEF CRLF
<1>4. PICK x \in Seq(Symbols) : x = S \o C /\ Len(x) = Len(S) + 2
  BY <1>1, Extended
<1>5. Holds(b, x \o F)
  BY <1>2, <1>4
<1>6. Holds(b, x) /\ Holds(b + Len(x), F) /\ Len(x \o F) = Len(x) + Len(F)
  BY <1>5, HoldsParts
<1>7. Holds(b, S) /\ Holds(b + Len(S), C)
  BY <1>4, <1>6, HoldsParts
<1>8. PICK b1 \in Nat : b1 = b + 1
  OBVIOUS
<1>9. Byte(b, Start) /\ Byte(b1, "cr") /\ Byte(b1 + 1, "lf")
  BY <1>1, <1>3, <1>7, <1>8, HoldsBytes
<1>10. b1 + 1 = b + 2
  BY <1>8
<1>11. Len(F) \in Nat
  OBVIOUS
<1>12. Len(x) = 3
  BY <1>3, <1>4
<1>13. Encoded(msg, asResponse) = x \o F
  BY <1>2, <1>4
<1>14. Len(Encoded(msg, asResponse)) = 3 + Len(F) /\ Holds(b + 3, F)
  BY <1>6, <1>11, <1>12, <1>13
<1> QED
  BY <1>1, <1>8, <1>9, <1>10, <1>11, <1>14 DEF LineAt

(* A line end behind what holds at b.                                      *)
LEMMA PeelLineEnd ==
  ASSUME n \in Nat, NEW a \in Seq(Symbols), NEW b \in Nat, Holds(b, a \o CRLF)
  PROVE  /\ Holds(b, a) /\ Byte(b + Len(a), "cr") /\ Byte(b + Len(a) + 1, "lf")
         /\ a \o CRLF \in Seq(Symbols) /\ Len(a \o CRLF) = Len(a) + 2
<1>1. CRLF \in Seq(Symbols) /\ Len(CRLF) = 2
  BY PieceTypes DEF CRLF
<1>2. Holds(b, a) /\ Holds(b + Len(a), CRLF) /\ a \o CRLF \in Seq(Symbols) /\ Len(a \o CRLF) = Len(a) + 2
  BY <1>1, HoldsParts
<1>3. PICK c \in Nat : c = b + Len(a)
  OBVIOUS
<1>4. Byte(c, "cr") /\ Byte(c + 1, "lf")
  BY <1>2, <1>3, HoldsBytes
<1> QED
  BY <1>2, <1>3, <1>4

(* A symbol behind what holds at b.                                        *)
LEMMA PeelSymbol ==
  ASSUME n \in Nat, NEW a \in Seq(Symbols), NEW x \in Symbols, NEW b \in Nat, Holds(b, a \o <<x>>)
  PROVE  /\ Holds(b, a) /\ Byte(b + Len(a), x)
         /\ a \o <<x>> \in Seq(Symbols) /\ Len(a \o <<x>>) = Len(a) + 1
<1>1. PICK y \in Seq(Symbols) : y = <<x>> /\ Len(y) = 1
  BY SmallPieces
<1>2. Holds(b, a) /\ Holds(b + Len(a), y) /\ a \o y \in Seq(Symbols) /\ Len(a \o y) = Len(a) + 1
  BY <1>1, HoldsParts
<1>3. PICK c \in Nat : c = b + Len(a)
  OBVIOUS
<1>4. Byte(c, x)
  BY <1>1, <1>2, <1>3, HoldsBytes
<1> QED
  BY <1>1, <1>2, <1>3, <1>4

(* The header block of a chunked message.                                  *)
ChunkedHead(b) ==
  /\ LineAt(b, Start) /\ LineAt(b + 3, "TE") /\ Byte(b + 6, "cr") /\ Byte(b + 7, "lf")

(* A chunked message: its header block, its chunks, the last chunk and the *)
(* trailers.                                                               *)
LEMMA ChunkedLayout ==
  ASSUME n \in Nat, asResponse \in BOOLEAN, NEW msg \in Messages, msg.framing = "chunked",
         NEW b \in Nat, Holds(b, Encoded(msg, asResponse)),
         NEW z, z = ChunkAt(b, msg, Len(msg.chunks))
  PROVE  /\ ChunkedHead(b)
         /\ \A c \in 0 .. Len(msg.chunks) - 1 :
              Holds(ChunkAt(b, msg, c), ChunkOf(msg, msg.chunks[c + 1]))
         /\ z \in Nat /\ LineAt(z, "0") /\ Holds(z + 3, Trailers(msg))
         /\ Byte(z + 3 + Len(Trailers(msg)), "cr") /\ Byte(z + 4 + Len(Trailers(msg)), "lf")
         /\ Len(Trailers(msg)) \in Nat
         /\ b + Len(Encoded(msg, asResponse)) = z + 5 + Len(Trailers(msg))
<1>1. LineAt(b, Start) /\ Holds(b + 3, Framed(msg)) /\ Len(Encoded(msg, asResponse)) = 3 + Len(Framed(msg))
  BY StartLayout
<1>2. PICK x \in Seq(Symbols), R \in Seq(Symbols) : x = FlattenSeq(Pieces(msg)) /\ R = Trailers(msg)
  <2>1. Pieces(msg) \in Seq(Seq(Symbols))
    BY PiecesType
  <2> QED
    BY <2>1, FlattenType, TrailersType
<1>3. Framed(msg) = <<"TE">> \o CRLF \o CRLF \o x \o <<"0">> \o CRLF \o R \o CRLF
  BY <1>2, SmallPieces DEF Framed, Pieces
<1>4. PICK u1 \in Seq(Symbols) : u1 = <<"TE">> /\ Len(u1) = 1
  BY SmallPieces
<1>5. PICK u2 \in Seq(Symbols) : u2 = u1 \o CRLF /\ Len(u2) = Len(u1) + 2
  BY Extended
<1>6. PICK u3 \in Seq(Symbols) : u3 = u2 \o CRLF /\ Len(u3) = Len(u2) + 2
  BY Extended
<1>7. PICK u4 \in Seq(Symbols) : u4 = u3 \o x /\ Len(u4) = Len(u3) + Len(x)
  BY Extended
<1>8. PICK u5 \in Seq(Symbols) : u5 = u4 \o <<"0">> /\ Len(u5) = Len(u4) + 1
  BY SmallPieces, Extended
<1>9. PICK u6 \in Seq(Symbols) : u6 = u5 \o CRLF /\ Len(u6) = Len(u5) + 2
  BY Extended
<1>10. PICK u7 \in Seq(Symbols) : u7 = u6 \o R /\ Len(u7) = Len(u6) + Len(R)
  BY Extended
<1>a. PICK X \in Nat, Y \in Nat : X = Len(x) /\ Y = Len(R)
  OBVIOUS
<1>b. /\ Len(u1) = 1 /\ Len(u2) = 3 /\ Len(u3) = 5 /\ Len(u4) = 5 + X /\ Len(u5) = 6 + X
      /\ Len(u6) = 8 + X /\ Len(u7) = 8 + X + Y
  <2>1. Len(u1) = 1 /\ Len(u2) = 3 /\ Len(u3) = 5
    BY <1>4, <1>5, <1>6
  <2>2. Len(u4) = 5 + X /\ Len(u5) = 6 + X
    BY <1>7, <1>8, <1>a, <2>1
  <2> QED
    BY <1>9, <1>10, <1>a, <2>1, <2>2
<1>11. PICK d \in Nat : d = b + 3
  OBVIOUS
<1>12. Framed(msg) = u7 \o CRLF
  BY <1>3, <1>4, <1>5, <1>6, <1>7, <1>8, <1>9, <1>10
<1>13. /\ Holds(d, u7) /\ Byte(d + Len(u7), "cr") /\ Byte(d + Len(u7) + 1, "lf")
       /\ Len(Framed(msg)) = Len(u7) + 2
  BY <1>1, <1>11, <1>12, PeelLineEnd
<1>14. Holds(d, u6) /\ Holds(d + Len(u6), R)
  BY <1>10, <1>13, HoldsParts
<1>15. Holds(d, u5) /\ Byte(d + Len(u5), "cr") /\ Byte(d + Len(u5) + 1, "lf")
  BY <1>9, <1>14, PeelLineEnd
<1>16. Holds(d, u4) /\ Byte(d + Len(u4), "0")
  <2>1. "0" \in Symbols
    BY SmallPieces
  <2> QED
    BY <1>8, <1>15, <2>1, PeelSymbol
<1>17. Holds(d, u3) /\ Holds(d + Len(u3), x)
  BY <1>7, <1>16, HoldsParts
<1>18. Holds(d, u2) /\ Byte(d + Len(u2), "cr") /\ Byte(d + Len(u2) + 1, "lf")
  BY <1>6, <1>17, PeelLineEnd
<1>19. Holds(d, u1) /\ Byte(d + Len(u1), "cr") /\ Byte(d + Len(u1) + 1, "lf")
  BY <1>5, <1>18, PeelLineEnd
<1>20. Byte(d, "TE")
  BY <1>4, <1>19, HoldsBytes
<1>21. ChunkedHead(b)
  <2>1. /\ d + Len(u1) = (b + 3) + 1 /\ d + Len(u1) + 1 = (b + 3) + 2
        /\ d + Len(u2) = b + 6 /\ d + Len(u2) + 1 = b + 7
    BY <1>11, <1>b
  <2> QED
    BY <1>1, <1>11, <1>18, <1>19, <1>20, <2>1 DEF ChunkedHead, LineAt
<1>22. /\ Pieces(msg) \in Seq(Seq(Symbols)) /\ Len(Pieces(msg)) = Len(msg.chunks)
       /\ \A i \in 1 .. Len(msg.chunks) : Pieces(msg)[i] = ChunkOf(msg, msg.chunks[i])
       /\ Len(msg.chunks) \in Nat
  <2>1. msg.chunks \in Seq(Seq(Symbols))
    BY MessageAssumption
  <2>2. Len(msg.chunks) \in Nat
    BY <2>1
  <2> QED
    BY <2>2, PiecesType
<1>23. z = b + 8 + Len(x) /\ Len(x) \in Nat /\ Len(R) \in Nat
  <2>1. First(Pieces(msg), Len(Pieces(msg))) = x
    BY <1>2, <1>22, FirstType
  <2>2. Upto(Pieces(msg), Len(msg.chunks)) = Len(x)
    BY <1>22, <2>1 DEF Upto
  <2> QED
    BY <2>2 DEF ChunkAt
<1>24. ASSUME NEW c \in 0 .. Len(msg.chunks) - 1
       PROVE  Holds(ChunkAt(b, msg, c), ChunkOf(msg, msg.chunks[c + 1]))
  <2>1. PICK e \in Nat : e = d + Len(u3) /\ e = b + 8
    BY <1>11, <1>b
  <2>2. c \in 0 .. Len(Pieces(msg)) - 1 /\ c + 1 \in 1 .. Len(msg.chunks)
    BY <1>22
  <2>3. Holds(e, FlattenSeq(Pieces(msg)))
    BY <1>2, <1>17, <2>1
  <2>4. Holds(e + Upto(Pieces(msg), c), Pieces(msg)[c + 1])
    BY <1>22, <2>2, <2>3, HoldsFlatten
  <2> QED
    BY <1>22, <2>1, <2>2, <2>4 DEF ChunkAt
<1>25. LineAt(z, "0")
  <2>1. d + Len(u4) = z /\ d + Len(u5) = z + 1 /\ d + Len(u5) + 1 = z + 2
    BY <1>11, <1>23, <1>a, <1>b
  <2> QED
    BY <1>15, <1>16, <2>1 DEF LineAt
<1>26. Holds(z + 3, Trailers(msg))
  <2>1. d + Len(u6) = z + 3
    BY <1>11, <1>23, <1>a, <1>b
  <2> QED
    BY <1>2, <1>14, <2>1
<1>27. /\ Byte(z + 3 + Len(R), "cr") /\ Byte(z + 4 + Len(R), "lf")
       /\ b + Len(Encoded(msg, asResponse)) = z + 5 + Len(R)
  <2>1. d + Len(u7) = z + 3 + Len(R) /\ d + Len(u7) + 1 = z + 4 + Len(R)
    BY <1>11, <1>23, <1>a, <1>b
  <2>2. b + Len(Encoded(msg, asResponse)) = z + 5 + Len(R)
    BY <1>1, <1>13, <1>23, <1>a, <1>b
  <2> QED
    BY <1>13, <2>1, <2>2
<1>28. z \in Nat
  BY <1>23
<1> QED
  BY <1>2, <1>21, <1>23, <1>24, <1>25, <1>26, <1>27, <1>28
(* The digit that stands for l.                                            *)
DigitFor(l) == Digits[l + 1]

(* The header block of a message with a length.                            *)
LengthHead(b, l) ==
  /\ LineAt(b, Start) /\ LineAt(b + 3, "HX") /\ Byte(b + 6, "CL") /\ Byte(b + 7, DigitFor(l))
  /\ Byte(b + 8, "cr") /\ Byte(b + 9, "lf") /\ Byte(b + 10, "cr") /\ Byte(b + 11, "lf")

(* A message with a length: its header block and its body.                 *)
LEMMA LengthLayout ==
  ASSUME n \in Nat, asResponse \in BOOLEAN, NEW msg \in Messages, msg.framing = "length",
         NEW b \in Nat, Holds(b, Encoded(msg, asResponse))
  PROVE  /\ BodyOf(msg) \in Seq(Symbols) /\ Len(BodyOf(msg)) \in 0 .. 3
         /\ LengthHead(b, Len(BodyOf(msg))) /\ Holds(b + 12, BodyOf(msg))
         /\ b + Len(Encoded(msg, asResponse)) = b + 12 + Len(BodyOf(msg))
<1>1. LineAt(b, Start) /\ Holds(b + 3, Framed(msg)) /\ Len(Encoded(msg, asResponse)) = 3 + Len(Framed(msg))
  BY StartLayout
<1>2. PICK B \in Seq(Symbols) : B = BodyOf(msg)
  <2>1. msg.chunks \in Seq(Seq(Symbols))
    BY MessageAssumption
  <2>2. BodyOf(msg) \in Seq(Symbols)
    BY <2>1, FlattenType DEF BodyOf
  <2> QED
    BY <2>2
<1>3. PICK l \in 0 .. 3 : l = Len(B)
  BY <1>2, MessageAssumption
<1>4. DigitFor(l) \in Symbols /\ Digit(l) = <<DigitFor(l)>>
  <2>1. l + 1 \in 1 .. 4
    OBVIOUS
  <2> QED
    BY <2>1 DEF DigitFor, Digit, Symbols
<1>5. Framed(msg) = <<"HX">> \o CRLF \o <<"CL">> \o <<DigitFor(l)>> \o CRLF \o CRLF \o B
  BY <1>2, <1>3, <1>4 DEF Framed
<1>6. PICK u1 \in Seq(Symbols) : u1 = <<"HX">> /\ Len(u1) = 1
  BY SmallPieces
<1>7. PICK u2 \in Seq(Symbols) : u2 = u1 \o CRLF /\ Len(u2) = Len(u1) + 2
  BY Extended
<1>8. PICK u3 \in Seq(Symbols) : u3 = u2 \o <<"CL">> /\ Len(u3) = Len(u2) + 1
  BY SmallPieces, Extended
<1>9. PICK u4 \in Seq(Symbols) : u4 = u3 \o <<DigitFor(l)>> /\ Len(u4) = Len(u3) + 1
  BY <1>4, Extended
<1>10. PICK u5 \in Seq(Symbols) : u5 = u4 \o CRLF /\ Len(u5) = Len(u4) + 2
  BY Extended
<1>11. PICK u6 \in Seq(Symbols) : u6 = u5 \o CRLF /\ Len(u6) = Len(u5) + 2
  BY Extended
<1>12. /\ Len(u1) = 1 /\ Len(u2) = 3 /\ Len(u3) = 4 /\ Len(u4) = 5 /\ Len(u5) = 7 /\ Len(u6) = 9
  <2>1. Len(u1) = 1 /\ Len(u2) = 3 /\ Len(u3) = 4
    BY <1>6, <1>7, <1>8
  <2>2. Len(u4) = 5 /\ Len(u5) = 7
    BY <1>9, <1>10, <2>1
  <2> QED
    BY <1>11, <2>1, <2>2
<1>13. Framed(msg) = u6 \o B
  BY <1>5, <1>6, <1>7, <1>8, <1>9, <1>10, <1>11
<1>14. PICK d \in Nat : d = b + 3
  OBVIOUS
<1>15. Holds(d, u6) /\ Holds(d + Len(u6), B) /\ Len(Framed(msg)) = Len(u6) + Len(B)
  BY <1>1, <1>13, <1>14, HoldsParts
<1>16. Holds(d, u5) /\ Byte(d + Len(u5), "cr") /\ Byte(d + Len(u5) + 1, "lf")
  BY <1>11, <1>15, PeelLineEnd
<1>17. Holds(d, u4) /\ Byte(d + Len(u4), "cr") /\ Byte(d + Len(u4) + 1, "lf")
  BY <1>10, <1>16, PeelLineEnd
<1>18. Holds(d, u3) /\ Byte(d + Len(u3), DigitFor(l))
  BY <1>4, <1>9, <1>17, PeelSymbol
<1>19. Holds(d, u2) /\ Byte(d + Len(u2), "CL")
  BY <1>8, <1>18, PeelSymbol, SmallPieces
<1>20. Holds(d, u1) /\ Byte(d + Len(u1), "cr") /\ Byte(d + Len(u1) + 1, "lf")
  BY <1>7, <1>19, PeelLineEnd
<1>21. Byte(d, "HX")
  BY <1>6, <1>20, HoldsBytes
<1>22. /\ d + Len(u1) = (b + 3) + 1 /\ d + Len(u1) + 1 = (b + 3) + 2
       /\ d + Len(u2) = b + 6 /\ d + Len(u3) = b + 7 /\ d + Len(u4) = b + 8 /\ d + Len(u4) + 1 = b + 9
       /\ d + Len(u5) = b + 10 /\ d + Len(u5) + 1 = b + 11 /\ d + Len(u6) = b + 12
  BY <1>12, <1>14
<1>23. LengthHead(b, l)
  BY <1>1, <1>14, <1>16, <1>17, <1>18, <1>19, <1>20, <1>21, <1>22 DEF LengthHead, LineAt
<1>24. b + Len(Encoded(msg, asResponse)) = b + 12 + l
  BY <1>1, <1>3, <1>12, <1>15
<1> QED
  BY <1>2, <1>3, <1>15, <1>22, <1>23, <1>24

(* The header block of a message that says no length.                      *)
PlainHead(b) == LineAt(b, Start) /\ Byte(b + 3, "cr") /\ Byte(b + 4, "lf")

(* Such a message: its header block and the rest.                          *)
LEMMA PlainLayout ==
  ASSUME n \in Nat, asResponse \in BOOLEAN, NEW msg \in Messages, msg.framing \in {"close", "none"},
         NEW b \in Nat, Holds(b, Encoded(msg, asResponse))
  PROVE  /\ BodyOf(msg) \in Seq(Symbols) /\ (msg.framing = "none" => BodyOf(msg) = <<>>)
         /\ PlainHead(b) /\ Holds(b + 5, BodyOf(msg))
         /\ b + Len(Encoded(msg, asResponse)) = b + 5 + Len(BodyOf(msg))
<1>1. LineAt(b, Start) /\ Holds(b + 3, Framed(msg)) /\ Len(Encoded(msg, asResponse)) = 3 + Len(Framed(msg))
  BY StartLayout
<1>2. PICK B \in Seq(Symbols) : B = BodyOf(msg)
  <2>1. msg.chunks \in Seq(Seq(Symbols))
    BY MessageAssumption
  <2>2. BodyOf(msg) \in Seq(Symbols)
    BY <2>1, FlattenType DEF BodyOf
  <2> QED
    BY <2>2
<1>3. msg.framing = "none" => B = <<>>
  <2>1. msg.framing = "none" => msg.chunks = <<>>
    BY MessageAssumption
  <2>2. Len(<<>>) = 0
    OBVIOUS
  <2>3. FlattenSeq(<<>>) = <<>>
    BY <2>2 DEF FlattenSeq
  <2> QED
    BY <1>2, <2>1, <2>3 DEF BodyOf
<1>4. PICK C \in Seq(Symbols) : C = CRLF /\ Len(C) = 2
  BY SmallPieces
<1>5. Framed(msg) = C \o B
  <2>1. CASE msg.framing = "close"
    BY <1>2, <1>4, <2>1 DEF Framed
  <2>2. CASE msg.framing = "none"
    <3>1. C \o <<>> = C
      BY WholeAndNothing
    <3>2. Framed(msg) = C
      BY <1>4, <2>2 DEF Framed
    <3> QED
      BY <1>3, <2>2, <3>1, <3>2
  <2> QED
    BY <2>1, <2>2
<1>6. PICK d \in Nat : d = b + 3
  OBVIOUS
<1>7. Holds(d, C) /\ Holds(d + Len(C), B) /\ Len(Framed(msg)) = Len(C) + Len(B)
  BY <1>1, <1>5, <1>6, HoldsParts
<1>8. Byte(d, "cr") /\ Byte(d + 1, "lf")
  BY <1>4, <1>7, HoldsBytes
<1>9. d + 1 = b + 4 /\ d + Len(C) = b + 5
  BY <1>4, <1>6
<1>10. PlainHead(b)
  BY <1>1, <1>6, <1>8, <1>9 DEF PlainHead
<1>11. Len(B) \in Nat
  OBVIOUS
<1>12. b + Len(Encoded(msg, asResponse)) = b + 5 + Len(B)
  BY <1>1, <1>4, <1>7, <1>11
<1> QED
  BY <1>2, <1>3, <1>7, <1>9, <1>10, <1>12
(* A chunk of l symbols at q: its size, perhaps an extension, its data and *)
(* the line end behind it.                                                 *)
ChunkHead(q, s, l) ==
  /\ Byte(q, DigitFor(l)) /\ s \in {1, 2} /\ (s = 2 => Byte(q + 1, "EXT"))
  /\ Byte(q + s, "cr") /\ Byte(q + s + 1, "lf")

(* A chunk is laid out so.                                                 *)
LEMMA ChunkLayout ==
  ASSUME n \in Nat, NEW msg \in Messages, NEW c \in Seq(Symbols), Len(c) \in 1 .. 3, NEW q \in Nat,
         Holds(q, ChunkOf(msg, c)), NEW s \in Nat, s = SizeLength(msg)
  PROVE  /\ ChunkHead(q, s, Len(c)) /\ Holds(q + s + 2, c)
         /\ Byte(q + s + 2 + Len(c), "cr") /\ Byte(q + s + 3 + Len(c), "lf")
         /\ Len(ChunkOf(msg, c)) = s + 4 + Len(c)
<1>1. PICK l \in 1 .. 3 : l = Len(c)
  OBVIOUS
<1>2. DigitFor(l) \in Symbols /\ Digit(l) = <<DigitFor(l)>>
  <2>1. l + 1 \in 1 .. 4
    OBVIOUS
  <2> QED
    BY <2>1 DEF DigitFor, Digit, Symbols
<1>3. PICK u1 \in Seq(Symbols) : u1 = <<DigitFor(l)>> /\ Len(u1) = 1
  BY <1>2, SmallPieces
<1>a. PICK x : x = IF msg.ext THEN <<"EXT">> ELSE <<>>
  OBVIOUS
<1>4. PICK u2 \in Seq(Symbols) : /\ u2 = u1 \o x /\ Len(u2) = s
                                 /\ Holds(q, u2) => Holds(q, u1) /\ (s = 2 => Byte(q + 1, "EXT"))
  <2>1. CASE msg.ext
    <3>0. x = <<"EXT">>
      BY <1>a, <2>1
    <3>1. PICK y \in Seq(Symbols) : y = u1 \o <<"EXT">> /\ Len(y) = Len(u1) + 1
      BY Extended, SmallPieces
    <3>2. Holds(q, y) => Holds(q, u1) /\ Byte(q + Len(u1), "EXT")
      BY <3>1, PeelSymbol, SmallPieces
    <3>3. s = 2
      BY <2>1 DEF SizeLength
    <3>4. Len(y) = s
      BY <1>3, <3>1, <3>3
    <3>5. Holds(q, y) => Holds(q, u1) /\ Byte(q + 1, "EXT")
      BY <1>3, <3>2
    <3> QED
      BY <3>0, <3>1, <3>4, <3>5
  <2>2. CASE ~ msg.ext
    <3>0. x = <<>>
      BY <1>a, <2>2
    <3>1. u1 \o x = u1
      BY <3>0, WholeAndNothing
    <3>2. s = 1
      BY <2>2 DEF SizeLength
    <3>3. Len(u1) = s /\ s # 2
      BY <1>3, <3>2
    <3> QED
      BY <3>1, <3>3
  <2> QED
    BY <2>1, <2>2
<1>5. PICK u3 \in Seq(Symbols) : u3 = u2 \o CRLF /\ Len(u3) = Len(u2) + 2
  BY Extended
<1>6. PICK u4 \in Seq(Symbols) : u4 = u3 \o c /\ Len(u4) = Len(u3) + Len(c)
  BY Extended
<1>7. ChunkOf(msg, c) = u4 \o CRLF
  BY <1>1, <1>2, <1>3, <1>4, <1>5, <1>6, <1>a DEF ChunkOf
<1>8. /\ Holds(q, u4) /\ Byte(q + Len(u4), "cr") /\ Byte(q + Len(u4) + 1, "lf")
      /\ Len(ChunkOf(msg, c)) = Len(u4) + 2
  BY <1>7, PeelLineEnd
<1>9. Holds(q, u3) /\ Holds(q + Len(u3), c)
  BY <1>6, <1>8, HoldsParts
<1>10. Holds(q, u2) /\ Byte(q + Len(u2), "cr") /\ Byte(q + Len(u2) + 1, "lf")
  BY <1>5, <1>9, PeelLineEnd
<1>11. Holds(q, u1) /\ (s = 2 => Byte(q + 1, "EXT"))
  BY <1>4, <1>10
<1>12. Byte(q, DigitFor(l))
  BY <1>3, <1>11, HoldsBytes
<1>13. s \in {1, 2}
  BY DEF SizeLength
<1>14. Len(u2) = s /\ Len(u3) = s + 2 /\ Len(u4) = s + 2 + l
  BY <1>1, <1>4, <1>5, <1>6, <1>13
<1>15. /\ q + Len(u3) = q + s + 2 /\ q + Len(u4) = q + s + 2 + l /\ q + Len(u4) + 1 = q + s + 3 + l
       /\ Len(u4) + 2 = s + 4 + l
  <2>1. PICK w \in Nat : w = s
    OBVIOUS
  <2>2. PICK v \in Nat, y \in Nat : v = Len(u3) /\ y = Len(u4)
    OBVIOUS
  <2>3. v = w + 2 /\ y = w + 2 + l
    BY <1>14, <2>1, <2>2
  <2>4. q + v = q + w + 2 /\ q + y = q + w + 2 + l /\ q + y + 1 = q + w + 3 + l /\ y + 2 = w + 4 + l
    BY <2>3
  <2> QED
    BY <2>1, <2>2, <2>4
<1>16. ChunkHead(q, s, l)
  BY <1>10, <1>11, <1>12, <1>13, <1>14 DEF ChunkHead
<1> QED
  BY <1>1, <1>8, <1>9, <1>15, <1>16

(* The first trailers.                                                     *)
LEMMA TrailersLayout ==
  ASSUME n \in Nat, NEW msg \in Messages, NEW q \in Nat, Holds(q, Trailers(msg))
  PROVE  /\ msg.trailers \in Nat /\ Len(Trailers(msg)) \in Nat
         /\ msg.trailers = 0 => Len(Trailers(msg)) = 0
         /\ msg.trailers >= 1 => LineAt(q, "HX")
         /\ msg.trailers = 1 => Len(Trailers(msg)) = 3
         /\ msg.trailers >= 2 => Len(Trailers(msg)) >= 6 /\ LineAt(q + 3, "HX")
<1>1. PICK t \in Nat : t = msg.trailers
  BY MessageAssumption
<1>2. PICK ss \in Seq(Seq(Symbols)) :
        /\ ss = TrailerLines(msg) /\ Len(ss) = t /\ Trailers(msg) = FlattenSeq(ss)
        /\ \A i \in 1 .. t : ss[i] = <<"HX">> \o CRLF
  BY <1>1, TrailersType
<1>3. PICK e \in Seq(Symbols) : e = <<"HX">> \o CRLF /\ Len(e) = 3
  <2>1. PICK x \in Seq(Symbols) : x = <<"HX">> /\ Len(x) = 1
    BY SmallPieces
  <2>2. PICK y \in Seq(Symbols) : y = x \o CRLF /\ Len(y) = Len(x) + 2
    BY Extended
  <2>3. Len(y) = 3
    BY <2>1, <2>2
  <2> QED
    BY <2>1, <2>2, <2>3
<1>a. ASSUME NEW d \in Nat, Holds(d, e) PROVE LineAt(d, "HX")
  <2>1. PICK x \in Seq(Symbols) : x = <<"HX">> /\ Len(x) = 1
    BY SmallPieces
  <2>2. Holds(d, x \o CRLF)
    BY <1>3, <1>a, <2>1
  <2>3. Holds(d, x) /\ Byte(d + Len(x), "cr") /\ Byte(d + Len(x) + 1, "lf")
    BY <2>2, PeelLineEnd
  <2>4. Byte(d, "HX")
    BY <2>1, <2>3, HoldsBytes
  <2>5. d + Len(x) = d + 1 /\ d + Len(x) + 1 = d + 2
    BY <2>1
  <2> QED
    BY <2>3, <2>4, <2>5 DEF LineAt
<1>4. Holds(q, FlattenSeq(ss))
  BY <1>2
<1>5. Upto(ss, 0) = 0 /\ Upto(ss, t) = Len(Trailers(msg)) /\ Upto(ss, t) \in Nat
  <2>1. First(ss, t) = Trailers(msg) /\ Upto(ss, 0) = 0
    BY <1>2, FirstType
  <2>2. t \in 0 .. Len(ss)
    BY <1>2
  <2>3. Upto(ss, t) \in Nat
    BY <2>2, FirstType
  <2> QED
    BY <2>1, <2>3 DEF Upto
<1>6. ASSUME t >= 1 PROVE LineAt(q, "HX") /\ Upto(ss, 1) = 3
  <2>1. 0 \in 0 .. Len(ss) - 1 /\ ss[0 + 1] = e
    BY <1>2, <1>3, <1>6
  <2>2. Holds(q + Upto(ss, 0), ss[0 + 1])
    BY <1>4, <2>1, HoldsFlatten
  <2>3. Holds(q, e)
    BY <1>5, <2>1, <2>2
  <2>7. LineAt(q, "HX")
    BY <1>a, <2>3
  <2>8. Upto(ss, 0 + 1) = Upto(ss, 0) + Len(ss[0 + 1])
    BY <2>1, FirstExtends
  <2> QED
    BY <1>3, <1>5, <2>1, <2>7, <2>8
<1>7. ASSUME t >= 2 PROVE LineAt(q + 3, "HX") /\ Upto(ss, t) >= 6
  <2>1. 1 \in 0 .. Len(ss) - 1 /\ ss[1 + 1] = e
    BY <1>2, <1>3, <1>7
  <2>2. Holds(q + Upto(ss, 1), ss[1 + 1])
    BY <1>4, <2>1, HoldsFlatten
  <2>3. Upto(ss, 1) = 3
    BY <1>6, <1>7
  <2>4. Upto(ss, 1 + 1) = Upto(ss, 1) + Len(ss[1 + 1])
    BY <2>1, FirstExtends
  <2>5. Upto(ss, 2) = 6
    BY <1>3, <2>1, <2>3, <2>4
  <2>6. 2 \in 0 .. Len(ss) /\ t \in 2 .. Len(ss)
    BY <1>2, <1>7
  <2>7. Upto(ss, 2) <= Upto(ss, t)
    BY <2>6, FirstStays
  <2>8. PICK d \in Nat : d = q + 3
    OBVIOUS
  <2>9. LineAt(d, "HX")
    BY <1>a, <2>1, <2>2, <2>3, <2>8
  <2> QED
    BY <1>5, <2>5, <2>7, <2>8, <2>9
<1>8. t = 0 => Len(Trailers(msg)) = 0
  BY <1>5
<1>9. t = 1 => Len(Trailers(msg)) = 3
  BY <1>5, <1>6
<1> QED
  BY <1>1, <1>5, <1>6, <1>7, <1>8, <1>9
-----------------------------------------------------------------------------
(* What scanning finds.                                                    *)

(* The first line end.                                                     *)
LEMMA FindExact ==
  ASSUME n \in Nat, NEW from \in Nat, NEW i \in Nat, from <= i, i + 2 <= n, IsCRLF(i),
         \A j \in from .. i - 1 : ~ IsCRLF(j)
  PROVE  FindCRLF(from) = i
<1>1. i \in from .. n - 2
  OBVIOUS
<1>2. ASSUME NEW k \in from .. n - 2, IsCRLF(k), \A j \in from .. k - 1 : ~ IsCRLF(j) PROVE k = i
  <2>0. k \in Nat /\ from <= k
    BY <1>2
  <2>1. ~ (k < i)
    <3>1. k < i => k \in from .. i - 1
      BY <2>0
    <3> QED
      BY <1>2, <3>1
  <2>2. ~ (i < k)
    <3>1. i < k => i \in from .. k - 1
      BY <2>0
    <3> QED
      BY <1>2, <3>1
  <2> QED
    BY <2>0, <2>1, <2>2
<1>3. FindCRLF(from) = CHOOSE k \in from .. n - 2 : IsCRLF(k) /\ \A j \in from .. k - 1 : ~ IsCRLF(j)
  BY <1>1 DEF FindCRLF
<1>4. \E k \in from .. n - 2 : IsCRLF(k) /\ \A j \in from .. k - 1 : ~ IsCRLF(j)
  BY <1>1
<1>5. PICK k \in from .. n - 2 : k = FindCRLF(from) /\ IsCRLF(k) /\ \A j \in from .. k - 1 : ~ IsCRLF(j)
  BY <1>3, <1>4
<1> QED
  BY <1>2, <1>5

(* No line end.                                                            *)
LEMMA FindNothing ==
  ASSUME NEW from, \A j \in from .. n - 2 : ~ IsCRLF(j)
  PROVE  FindCRLF(from) = None
BY DEF FindCRLF

(* The first blank line.                                                   *)
LEMMA FindDoubleExact ==
  ASSUME n \in Nat, NEW from \in Nat, NEW i \in Nat, from <= i, i + 4 <= n, IsCRLF(i), IsCRLF(i + 2),
         \A j \in from .. i - 1 : ~ (IsCRLF(j) /\ IsCRLF(j + 2))
  PROVE  FindDoubleCRLF(from) = i
<1> DEFINE Here(k) == IsCRLF(k) /\ IsCRLF(k + 2)
<1>1. i \in from .. n - 4 /\ Here(i) /\ \A j \in from .. i - 1 : ~ Here(j)
  OBVIOUS
<1>3. FindDoubleCRLF(from) = CHOOSE k \in from .. n - 4 : Here(k) /\ \A j \in from .. k - 1 : ~ Here(j)
  BY <1>1 DEF FindDoubleCRLF
<1> HIDE DEF Here
<1>2. ASSUME NEW k \in from .. n - 4, Here(k), \A j \in from .. k - 1 : ~ Here(j) PROVE k = i
  <2>0. k \in Nat /\ from <= k
    BY <1>2
  <2>1. ~ (k < i)
    <3>1. k < i => k \in from .. i - 1
      BY <2>0
    <3> QED
      BY <1>1, <1>2, <3>1
  <2>2. ~ (i < k)
    <3>1. i < k => i \in from .. k - 1
      BY <2>0
    <3> QED
      BY <1>1, <1>2, <3>1
  <2> QED
    BY <2>0, <2>1, <2>2
<1>4. \E k \in from .. n - 4 : Here(k) /\ \A j \in from .. k - 1 : ~ Here(j)
  BY <1>1
<1>5. PICK k \in from .. n - 4 : k = FindDoubleCRLF(from) /\ Here(k) /\ \A j \in from .. k - 1 : ~ Here(j)
  BY <1>3, <1>4
<1> QED
  BY <1>2, <1>5

(* No blank line.                                                          *)
LEMMA FindDoubleNothing ==
  ASSUME NEW from, \A j \in from .. n - 4 : ~ (IsCRLF(j) /\ IsCRLF(j + 2))
  PROVE  FindDoubleCRLF(from) = None
BY DEF FindDoubleCRLF

(* Where the blanks end.                                                   *)
LEMMA SkipExact ==
  ASSUME n \in Nat, NEW from \in Nat, NEW i \in Nat, from <= i, i <= n, i = n \/ ~ IsBlank(i),
         \A j \in from .. i - 1 : IsBlank(j)
  PROVE  SkipBlanks(from) = i
<1>1. i \in from .. n
  OBVIOUS
<1>2. ASSUME NEW k \in from .. n, k = n \/ ~ IsBlank(k), \A j \in from .. k - 1 : IsBlank(j) PROVE k = i
  <2>0. k \in Nat /\ from <= k /\ k <= n
    BY <1>2
  <2>1. ~ (k < i)
    <3>1. k < i => k \in from .. i - 1 /\ k # n
      BY <2>0
    <3> QED
      BY <1>2, <3>1
  <2>2. ~ (i < k)
    <3>1. i < k => i \in from .. k - 1 /\ i # n
      BY <2>0
    <3> QED
      BY <1>2, <3>1
  <2> QED
    BY <2>0, <2>1, <2>2
<1>3. SkipBlanks(from)
        = CHOOSE k \in from .. n : (k = n \/ ~ IsBlank(k)) /\ \A j \in from .. k - 1 : IsBlank(j)
  BY DEF SkipBlanks
<1>4. \E k \in from .. n : (k = n \/ ~ IsBlank(k)) /\ \A j \in from .. k - 1 : IsBlank(j)
  BY <1>1
<1>5. PICK k \in from .. n : /\ k = SkipBlanks(from) /\ (k = n \/ ~ IsBlank(k))
                             /\ \A j \in from .. k - 1 : IsBlank(j)
  BY <1>3, <1>4
<1> QED
  BY <1>2, <1>5

(* A line of s symbols: its end, or none if the capture ends before.       *)
LEMMA LineEnd ==
  ASSUME n \in Nat, NEW q \in Nat, NEW s \in Nat, Byte(q + s, "cr"), Byte(q + s + 1, "lf"),
         \A j \in q .. q + s - 1 : j < n => At(j) # "cr"
  PROVE  /\ q + s + 2 <= n => FindCRLF(q) = q + s
         /\ q + s + 2 > n => FindCRLF(q) = None
<1>1. \A j \in q .. q + s - 1 : j < n => ~ IsCRLF(j)
  BY DEF IsCRLF
<1>2. ASSUME q + s + 2 <= n PROVE FindCRLF(q) = q + s
  <2>1. PICK i \in Nat : i = q + s
    OBVIOUS
  <2>2. IsCRLF(i)
    BY <1>2, <2>1 DEF Byte, IsCRLF
  <2>3. \A j \in q .. i - 1 : ~ IsCRLF(j)
    BY <1>1, <1>2, <2>1
  <2> QED
    BY <1>2, <2>1, <2>2, <2>3, FindExact
<1>3. ASSUME q + s + 2 > n PROVE FindCRLF(q) = None
  <2>1. \A j \in q .. n - 2 : j \in q .. q + s - 1 /\ j < n
    BY <1>3
  <2> QED
    BY <1>1, <2>1, FindNothing
<1> QED
  BY <1>2, <1>3

(* The digit that stands for l is no blank, and it is read as l.           *)
LEMMA DigitValue ==
  ASSUME NEW l \in 0 .. 3, NEW i, At(i) = DigitFor(l)
  PROVE  IsDigit(At(i)) /\ ~ IsBlank(i) /\ At(i) # "cr" /\ DigitAt(i) = l
<1>1. /\ DOMAIN Digits = 1 .. 4
      /\ Digits[1] = "0" /\ Digits[2] = "1" /\ Digits[3] = "2" /\ Digits[4] = "3"
  BY DEF Digits
<1>2. l + 1 \in 1 .. 4 /\ At(i) = Digits[l + 1]
  BY DEF DigitFor
<1>3. \A j \in 1 .. 4, k \in 1 .. 4 : Digits[j] = Digits[k] => j = k
  <2>1. \A j \in 1 .. 4 : j = 1 \/ j = 2 \/ j = 3 \/ j = 4
    OBVIOUS
  <2>2. "0" # "1" /\ "0" # "2" /\ "0" # "3" /\ "1" # "2" /\ "1" # "3" /\ "2" # "3"
    OBVIOUS
  <2> QED
    BY <1>1, <2>1, <2>2
<1>4. IsDigit(At(i))
  BY <1>1, <1>2 DEF IsDigit
<1>5. At(i) \in {"0", "1", "2", "3"}
  <2>1. l + 1 = 1 \/ l + 1 = 2 \/ l + 1 = 3 \/ l + 1 = 4
    OBVIOUS
  <2> QED
    BY <1>1, <1>2, <2>1
<1>6. ~ IsBlank(i) /\ At(i) # "cr"
  BY <1>5 DEF IsBlank
<1>7. PICK y \in 1 .. 4 : y = l + 1
  BY <1>2
<1>8. (CHOOSE k \in DOMAIN Digits : Digits[k] = At(i)) = y
  <2>1. \E k \in 1 .. 4 : Digits[k] = At(i)
    BY <1>2
  <2>2. PICK k \in 1 .. 4 : k = (CHOOSE x \in 1 .. 4 : Digits[x] = At(i)) /\ Digits[k] = At(i)
    BY <2>1
  <2>3. k = y
    BY <1>2, <1>3, <1>7, <2>2
  <2> QED
    BY <1>1, <2>2, <2>3
<1>9. DigitAt(i) = l
  <2>1. y - 1 = l
    BY <1>7
  <2> QED
    BY <1>8, <2>1 DEF DigitAt
<1> QED
  BY <1>4, <1>6, <1>9

(* strtoul on one digit, at the end or in front of an extension.           *)
LEMMA StrToUlDigit ==
  ASSUME buf \in Seq(Symbols), NEW i \in Nat, NEW e \in Nat, i < e, e <= n, NEW base \in Nat,
         NEW l \in 0 .. 3, At(i) = DigitFor(l), e = i + 1 \/ At(i + 1) = "EXT"
  PROVE  StrToUl(i, e, base) = l
<1> DEFINE from == SkipBlanks(i)
           to == CHOOSE j \in from .. n : /\ j >= e \/ ~ IsDigit(At(j))
                                          /\ \A k \in from .. j - 1 : k < e /\ IsDigit(At(k))
           value == CHOOSE f : Values(f, from, to, base)
<1>0. n \in Nat
  BY EndType
<1>1. IsDigit(At(i)) /\ ~ IsBlank(i) /\ DigitAt(i) = l
  BY DigitValue
<1>2. from = i
  <2>1. \A j \in i .. i - 1 : IsBlank(j)
    OBVIOUS
  <2>2. i <= i /\ i <= n
    BY <1>0
  <2> QED
    BY <1>0, <1>1, <2>1, <2>2, SkipExact
<1>3. StrToUl(i, e, base) = IF from >= e THEN 0
                            ELSE IF base = 16 /\ to < e /\ At(to) = "CL" THEN value[to - 1] * 16 + 12
                            ELSE value[to - 1]
  BY DEF StrToUl, Values, DigitAt
<1>4. e = i + 1 \/ (~ IsDigit(At(i + 1)) /\ At(i + 1) # "CL")
  <2>1. ~ IsDigit("EXT") /\ "EXT" # "CL"
    <3>1. \A k \in 1 .. 4 : Digits[k] # "EXT"
      <4>1. \A k \in 1 .. 4 : k = 1 \/ k = 2 \/ k = 3 \/ k = 4
        OBVIOUS
      <4> QED
        BY <4>1 DEF Digits
    <3>2. DOMAIN Digits = 1 .. 4
      BY DEF Digits
    <3> QED
      BY <3>1, <3>2 DEF IsDigit
  <2> QED
    BY <2>1
<1>5. to = i + 1
  <2> DEFINE Ends(j) == /\ j >= e \/ ~ IsDigit(At(j))
                        /\ \A k \in i .. j - 1 : k < e /\ IsDigit(At(k))
  <2>0. PICK y \in Nat : y = i + 1
    OBVIOUS
  <2>1. Ends(y) /\ y \in i .. n
    <3>1. \A k \in i .. y - 1 : k = i
      BY <2>0
    <3>2. y >= e \/ ~ IsDigit(At(y))
      BY <1>4, <2>0
    <3> QED
      BY <1>0, <1>1, <2>0, <3>1, <3>2
  <2>2. ASSUME NEW j \in i .. n, Ends(j) PROVE j = y
    <3>0. j \in Nat /\ i <= j
      BY <1>0, <2>2
    <3>1. j # i
      <4>1. ~ (i >= e)
        OBVIOUS
      <4> QED
        BY <1>1, <2>2, <4>1
    <3>2. ~ (y < j)
      <4>1. y < j => y \in i .. j - 1
        BY <2>0, <3>0
      <4>2. y < j => y < e /\ IsDigit(At(y))
        BY <2>2, <4>1
      <4>3. ~ (y < e) \/ ~ IsDigit(At(y))
        BY <1>4, <2>0
      <4> QED
        BY <4>2, <4>3
    <3> QED
      BY <2>0, <3>0, <3>1, <3>2
  <2>3. to = CHOOSE j \in i .. n : Ends(j)
    BY <1>2
  <2> HIDE DEF Ends, to
  <2>4. PICK j \in i .. n : j = to /\ Ends(j)
    BY <2>1, <2>3
  <2> QED
    BY <2>0, <2>2, <2>4
<1>6. Values(value, i, i + 1, base)
  <2>1. \E f : Values(f, i, i + 1, base)
    <3>1. 1 \in Nat
      OBVIOUS
    <3> QED
      BY <3>1, ValuesExist
  <2>2. value = CHOOSE f : Values(f, i, i + 1, base)
    BY <1>2, <1>5
  <2> QED
    BY <2>1, <2>2
<1> HIDE DEF value, to, from
<1>7. value[i] = l
  <2>1. \A j \in i - 1 .. (i + 1) - 1 : value[j] = IF j < i THEN 0 ELSE value[j - 1] * base + DigitAt(j)
    BY <1>6 DEF Values
  <2>2. i - 1 \in i - 1 .. (i + 1) - 1 /\ i - 1 < i /\ i \in i - 1 .. (i + 1) - 1 /\ ~ (i < i)
    OBVIOUS
  <2>3. value[i - 1] = 0
    BY <2>1, <2>2
  <2>4. value[i] = 0 * base + l
    BY <1>1, <2>1, <2>2, <2>3
  <2>5. 0 * base + l = l
    OBVIOUS
  <2> QED
    BY <2>4, <2>5
<1>8. ~ (from >= e) /\ (i + 1) - 1 = i /\ ~ (to < e /\ At(to) = "CL")
  <2>1. ~ (from >= e) /\ (i + 1) - 1 = i
    BY <1>2
  <2>2. ~ (to < e /\ At(to) = "CL")
    BY <1>4, <1>5
  <2> QED
    BY <2>1, <2>2
<1>9. StrToUl(i, e, base) = value[to - 1]
  BY <1>3, <1>8
<1> QED
  BY <1>5, <1>7, <1>8, <1>9
-----------------------------------------------------------------------------
(* Header blocks.                                                          *)

(* A blank line at h behind a block that has none: found, or cut.          *)
LEMMA BlockEnd ==
  ASSUME n \in Nat, NEW b \in Nat, NEW h \in Nat, b <= h,
         Byte(h, "cr"), Byte(h + 1, "lf"), Byte(h + 2, "cr"), Byte(h + 3, "lf"),
         \A j \in b .. h - 1 : j + 4 <= n => ~ (IsCRLF(j) /\ IsCRLF(j + 2))
  PROVE  /\ h + 4 <= n => FindDoubleCRLF(b) = h
         /\ h + 4 > n => FindDoubleCRLF(b) = None
<1>1. ASSUME h + 4 <= n PROVE FindDoubleCRLF(b) = h
  <2>1. At(h) = "cr" /\ At(h + 1) = "lf" /\ At(h + 2) = "cr" /\ At(h + 3) = "lf" /\ (h + 2) + 1 = h + 3
    BY <1>1 DEF Byte
  <2>2. IsCRLF(h) /\ IsCRLF(h + 2)
    BY <2>1 DEF IsCRLF
  <2>3. \A j \in b .. h - 1 : j + 4 <= n
    BY <1>1
  <2>4. \A j \in b .. h - 1 : ~ (IsCRLF(j) /\ IsCRLF(j + 2))
    BY <2>3
  <2> QED
    BY <1>1, <2>2, <2>4, FindDoubleExact
<1>2. ASSUME h + 4 > n PROVE FindDoubleCRLF(b) = None
  <2>1. \A j \in b .. n - 4 : j \in b .. h - 1 /\ j + 4 <= n
    BY <1>2
  <2>2. \A j \in b .. n - 4 : ~ (IsCRLF(j) /\ IsCRLF(j + 2))
    BY <2>1
  <2> QED
    BY <2>2, FindDoubleNothing
<1> QED
  BY <1>1, <1>2

(* A stretch of one symbol.                                                *)
LEMMA SliceOne ==
  ASSUME buf \in Seq(Symbols), NEW b \in Nat, b + 1 <= n
  PROVE  /\ Slice(b, b + 1)[1] = At(b)
         /\ DOMAIN Slice(b, b + 1) = 1 .. 1
<1>1. n = Len(buf) /\ n \in Nat
  BY EndType DEF n
<1>2. PICK i \in Nat : i = b + 1
  OBVIOUS
<1>3. i \in 1 .. Len(buf)
  BY <1>1, <1>2
<1>4. /\ SubSeq(buf, i, i) \in Seq(Symbols) /\ Len(SubSeq(buf, i, i)) = 1
      /\ SubSeq(buf, i, i)[1] = buf[i]
  BY <1>3
<1>5. DOMAIN SubSeq(buf, i, i) = 1 .. 1
  BY <1>4
<1> QED
  BY <1>2, <1>4, <1>5 DEF Slice, At

(* Where a line of one symbol ends.                                        *)
LEMMA OneSymbolLine ==
  ASSUME n \in Nat, NEW b \in Nat, NEW x, LineAt(b, x), x # "cr"
  PROVE  /\ b + 3 <= n => FindCRLF(b) = b + 1
         /\ b + 3 > n => FindCRLF(b) = None
<1>1. Byte(b + 1, "cr") /\ Byte(b + 1 + 1, "lf") /\ Byte(b, x)
  <2>1. b + 1 + 1 = b + 2
    OBVIOUS
  <2> QED
    BY <2>1 DEF LineAt
<1>2. \A j \in b .. b + 1 - 1 : j < n => At(j) # "cr"
  <2>1. \A j \in b .. b + 1 - 1 : j = b
    OBVIOUS
  <2> QED
    BY <1>1, <2>1 DEF Byte
<1>3. 1 \in Nat /\ b + 1 + 2 = b + 3
  OBVIOUS
<1>4. (b + 1 + 2 <= n => FindCRLF(b) = b + 1) /\ (b + 1 + 2 > n => FindCRLF(b) = None)
  BY <1>1, <1>2, <1>3, LineEnd
<1> QED
  BY <1>3, <1>4

(* The start line of a message parses.                                     *)
LEMMA StartParses ==
  ASSUME buf \in Seq(Symbols), asResponse \in BOOLEAN, NEW b \in Nat, LineAt(b, Start), b + 3 <= n
  PROVE  LooksLikeStartLine(b) /\ StartLineParses(Slice(b, FindCRLF(b)))
<1>0. n \in Nat
  BY EndType
<1>1. Start # "cr" /\ Start # "lf" /\ Start # "EXT" /\ ~ IsDigit(Start)
  <2>1. \A k \in 1 .. 4 : Digits[k] # "STS" /\ Digits[k] # "REQ"
    <3>1. \A k \in 1 .. 4 : k = 1 \/ k = 2 \/ k = 3 \/ k = 4
      OBVIOUS
    <3> QED
      BY <3>1 DEF Digits
  <2>2. DOMAIN Digits = 1 .. 4
    BY DEF Digits
  <2>3. Start = "STS" \/ Start = "REQ"
    BY DEF Start
  <2> QED
    BY <2>1, <2>2, <2>3 DEF IsDigit
<1>2. At(b) = Start /\ b < n
  BY <1>0 DEF LineAt, Byte
<1>3. FindCRLF(b) = b + 1
  BY <1>0, <1>1, OneSymbolLine
<1>4. LooksLikeStartLine(b)
  <2>1. IsAlpha(Start)
    BY <1>1 DEF IsAlpha
  <2>2. asResponse => Start = "STS"
    BY DEF Start
  <2> QED
    BY <1>2, <2>1, <2>2 DEF LooksLikeStartLine
<1>5. b + 1 <= n
  BY <1>0
<1>6. PICK line : line = Slice(b, b + 1) /\ line[1] = Start /\ DOMAIN line = 1 .. 1
  BY <1>2, <1>5, SliceOne
<1>7. StartLineParses(line)
  <2>1. CASE asResponse
    BY <1>6, <2>1 DEF StartLineParses, Start
  <2>2. CASE ~ asResponse
    <3>1. 1 \in DOMAIN line /\ line[1] = "REQ" /\ \A j \in 1 .. 1 - 1 : line[j] # "STS"
      BY <1>6, <2>2 DEF Start
    <3>2. \E i \in DOMAIN line : line[i] = "REQ" /\ \A j \in 1 .. i - 1 : line[j] # "STS"
      BY <3>1
    <3> QED
      BY <2>2, <3>2 DEF StartLineParses
  <2> QED
    BY <2>1, <2>2
<1> QED
  BY <1>3, <1>4, <1>6, <1>7

(* A trailer is not taken for a message.                                   *)
LEMMA LostFails ==
  ASSUME buf \in Seq(Symbols), off \in Nat, Lost(off), off < n
  PROVE  ~ HeadParses
<1>0. n \in Nat
  BY EndType
<1>1. LineAt(off, "HX") /\ At(off) = "HX"
  BY DEF Lost, LineAt, Byte
<1>2. CASE FindDoubleCRLF(off) = None
  BY <1>2 DEF HeadParses
<1>3. CASE FindDoubleCRLF(off) # None
  <2>1. PICK h \in off .. n - 4 : h = FindDoubleCRLF(off)
    BY <1>3, FindBlankLine
  <2>2. off + 3 <= n /\ off + 1 <= n
    BY <1>0, <2>1
  <2>3. FindCRLF(off) = off + 1
    BY <1>0, <1>1, <2>2, OneSymbolLine
  <2>4. PICK line : line = Slice(off, off + 1) /\ line[1] = "HX" /\ DOMAIN line = 1 .. 1
    BY <1>1, <2>2, SliceOne
  <2>5. \A i \in DOMAIN line : line[i] = "HX"
    BY <2>4
  <2>6. ~ StartLineParses(line)
    BY <2>4, <2>5 DEF StartLineParses
  <2> QED
    BY <2>3, <2>4, <2>6 DEF HeadParses
<1> QED
  BY <1>2, <1>3
(* Neither name of a start line is a line end or a header.                 *)
LEMMA StartIs == Start \in {"STS", "REQ"} /\ Start # "cr" /\ Start # "lf"
BY DEF Start

(* A symbol that is no blank ends a run of blanks at once.                 *)
LEMMA SkipNone ==
  ASSUME n \in Nat, NEW i \in Nat, i < n, At(i) \notin {"cr", "lf"}
  PROVE  SkipBlanks(i) = i
<1>1. \A j \in i .. i - 1 : IsBlank(j)
  OBVIOUS
<1>2. i <= i /\ i <= n /\ ~ IsBlank(i)
  BY DEF IsBlank
<1> QED
  BY <1>1, <1>2, SkipExact

(* The header block of a chunked message is found, and says so.            *)
LEMMA ChunkedBlock ==
  ASSUME n \in Nat, NEW b \in Nat, ChunkedHead(b)
  PROVE  /\ b + 8 <= n => FindDoubleCRLF(b) = b + 4 /\ Headers("TE", b, b + 4) # {}
         /\ b + 8 > n => FindDoubleCRLF(b) = None
<1>1. /\ Byte(b, Start) /\ Byte(b + 1, "cr") /\ Byte(b + 2, "lf") /\ Byte(b + 3, "TE")
      /\ Byte(b + 4, "cr") /\ Byte(b + 5, "lf") /\ Byte(b + 6, "cr") /\ Byte(b + 7, "lf")
  <2>1. (b + 3) + 1 = b + 4 /\ (b + 3) + 2 = b + 5
    OBVIOUS
  <2> QED
    BY <2>1 DEF ChunkedHead, LineAt
<1>2. PICK h \in Nat : h = b + 4
  OBVIOUS
<1>3. Byte(h, "cr") /\ Byte(h + 1, "lf") /\ Byte(h + 2, "cr") /\ Byte(h + 3, "lf") /\ b <= h
  <2>1. h + 1 = b + 5 /\ h + 2 = b + 6 /\ h + 3 = b + 7 /\ b <= h
    BY <1>2
  <2> QED
    BY <1>1, <1>2, <2>1
<1>4. ASSUME NEW j \in b .. h - 1, j + 4 <= n PROVE ~ (IsCRLF(j) /\ IsCRLF(j + 2))
  <2>1. j = b \/ j = b + 1 \/ j = b + 2 \/ j = b + 3
    BY <1>2
  <2>2. CASE j = b
    BY <1>1, <1>4, <2>2, StartIs DEF Byte, IsCRLF
  <2>3. CASE j = b + 1
    <3>1. j + 2 = b + 3 /\ b + 3 < n
      BY <1>4, <2>3
    <3> QED
      BY <1>1, <3>1 DEF Byte, IsCRLF
  <2>4. CASE j = b + 2
    BY <1>1, <1>4, <2>4 DEF Byte, IsCRLF
  <2>5. CASE j = b + 3
    BY <1>1, <1>4, <2>5 DEF Byte, IsCRLF
  <2> QED
    BY <2>1, <2>2, <2>3, <2>4, <2>5
<1>5. (h + 4 <= n => FindDoubleCRLF(b) = h) /\ (h + 4 > n => FindDoubleCRLF(b) = None)
  BY <1>3, <1>4, BlockEnd
<1>6. ASSUME b + 8 <= n PROVE b + 3 \in Headers("TE", b, h)
  <2>1. PICK j \in Nat : j = b + 3
    OBVIOUS
  <2>2. b + 1 \in b .. h - 2 /\ (b + 1) + 2 = j /\ (b + 1) + 1 = b + 2 /\ b + 1 < n /\ b + 2 < n
    BY <1>2, <1>6, <2>1
  <2>3. IsCRLF(b + 1)
    BY <1>1, <2>2 DEF Byte, IsCRLF
  <2>4. j \in HeaderLines(b, h)
    BY <2>2, <2>3 DEF HeaderLines
  <2>5. At(j) = "TE" /\ j < n
    BY <1>1, <1>6, <2>1 DEF Byte
  <2>6. SkipBlanks(j) = j
    BY <2>5, SkipNone
  <2>7. LineAt(j, "TE") /\ "TE" # "cr"
    BY <2>1 DEF ChunkedHead
  <2>8. j + 3 <= n
    BY <1>6, <2>1
  <2>9. FindCRLF(j) = j + 1
    BY <2>7, <2>8, OneSymbolLine
  <2>10. SkipBlanks(j) < FindCRLF(j) /\ At(SkipBlanks(j)) = "TE"
    BY <2>5, <2>6, <2>9
  <2> QED
    BY <2>1, <2>4, <2>10 DEF Headers
<1>7. h + 4 = b + 8
  BY <1>2
<1> QED
  BY <1>2, <1>5, <1>6, <1>7

(* That of a message with a length says the length.                        *)
LEMMA LengthBlock ==
  ASSUME buf \in Seq(Symbols), NEW b \in Nat, NEW l \in 0 .. 3, LengthHead(b, l)
  PROVE  /\ b + 12 <= n => /\ FindDoubleCRLF(b) = b + 8
                           /\ Headers("TE", b, b + 8) = {} /\ Headers("CL", b, b + 8) = {b + 6}
                           /\ StrToUl(SkipBlanks(b + 6) + 1, FindCRLF(b + 6), 10) = l
         /\ b + 12 > n => FindDoubleCRLF(b) = None
<1>0. n \in Nat
  BY EndType
<1>1. /\ Byte(b, Start) /\ Byte(b + 1, "cr") /\ Byte(b + 2, "lf") /\ Byte(b + 3, "HX")
      /\ Byte(b + 4, "cr") /\ Byte(b + 5, "lf") /\ Byte(b + 6, "CL") /\ Byte(b + 7, DigitFor(l))
      /\ Byte(b + 8, "cr") /\ Byte(b + 9, "lf") /\ Byte(b + 10, "cr") /\ Byte(b + 11, "lf")
  <2>1. (b + 3) + 1 = b + 4 /\ (b + 3) + 2 = b + 5
    OBVIOUS
  <2> QED
    BY <2>1 DEF LengthHead, LineAt
<1>2. PICK h \in Nat : h = b + 8
  OBVIOUS
<1>3. Byte(h, "cr") /\ Byte(h + 1, "lf") /\ Byte(h + 2, "cr") /\ Byte(h + 3, "lf") /\ b <= h
  <2>1. h + 1 = b + 9 /\ h + 2 = b + 10 /\ h + 3 = b + 11 /\ b <= h
    BY <1>2
  <2> QED
    BY <1>1, <1>2, <2>1
<1>d. b + 7 < n => At(b + 7) # "cr"
  <2>1. PICK i \in Nat : i = b + 7
    OBVIOUS
  <2>2. i < n => At(i) = DigitFor(l)
    BY <1>1, <2>1 DEF Byte
  <2>3. i < n => At(i) # "cr"
    BY <2>2, DigitValue
  <2> QED
    BY <2>1, <2>3
<1>4. ASSUME NEW j \in b .. h - 1, j < n, IsCRLF(j) PROVE j = b + 1 \/ j = b + 4
  <2>0. At(j) = "cr"
    BY <1>4 DEF IsCRLF
  <2>1. \/ j = b \/ j = b + 1 \/ j = b + 2 \/ j = b + 3 \/ j = b + 4
        \/ j = b + 5 \/ j = b + 6 \/ j = b + 7
    BY <1>2
  <2>2. /\ j # b /\ j # b + 2 /\ j # b + 3 /\ j # b + 5 /\ j # b + 6
    BY <1>1, <1>4, <2>0, StartIs DEF Byte
  <2>3. j # b + 7
    BY <1>4, <1>d, <2>0
  <2> QED
    BY <2>1, <2>2, <2>3
<1>5. ASSUME NEW j \in b .. h - 1, j + 4 <= n PROVE ~ (IsCRLF(j) /\ IsCRLF(j + 2))
  <2>1. CASE j = b + 1
    <3>1. j + 2 = b + 3 /\ b + 3 < n
      BY <1>0, <1>5, <2>1
    <3> QED
      BY <1>1, <3>1 DEF Byte, IsCRLF
  <2>2. CASE j = b + 4
    <3>1. j + 2 = b + 6 /\ b + 6 < n
      BY <1>0, <1>5, <2>2
    <3> QED
      BY <1>1, <3>1 DEF Byte, IsCRLF
  <2>3. j < n
    BY <1>0, <1>5
  <2> QED
    BY <1>4, <2>1, <2>2, <2>3
<1>6. (h + 4 <= n => FindDoubleCRLF(b) = h) /\ (h + 4 > n => FindDoubleCRLF(b) = None)
  BY <1>0, <1>3, <1>5, BlockEnd
<1>7. h + 4 = b + 12
  BY <1>2
<1>8. ASSUME b + 12 <= n
      PROVE  /\ Headers("TE", b, h) = {} /\ Headers("CL", b, h) = {b + 6}
             /\ StrToUl(SkipBlanks(b + 6) + 1, FindCRLF(b + 6), 10) = l
  <2>1. PICK x \in Nat, y \in Nat : x = b + 3 /\ y = b + 6
    OBVIOUS
  <2>2. \A j \in HeaderLines(b, h) : j = x \/ j = y
    <3> SUFFICES ASSUME NEW j \in HeaderLines(b, h) PROVE j = x \/ j = y
      OBVIOUS
    <3>1. PICK k \in b .. h - 2 : IsCRLF(k) /\ j = k + 2
      BY DEF HeaderLines
    <3>2. k \in b .. h - 1 /\ k < n
      BY <1>0, <1>2, <1>8, <3>1
    <3>3. k = b + 1 \/ k = b + 4
      BY <1>4, <3>1, <3>2
    <3> QED
      BY <2>1, <3>1, <3>3
  <2>3. At(x) = "HX" /\ At(y) = "CL" /\ x < n /\ y < n
    <3>1. x < n /\ y < n
      BY <1>0, <1>8, <2>1
    <3> QED
      BY <1>1, <2>1, <3>1 DEF Byte
  <2>4. SkipBlanks(x) = x /\ SkipBlanks(y) = y
    BY <1>0, <2>3, SkipNone
  <2>5. FindCRLF(y) = y + 2
    <3>1. y + 2 = b + 8 /\ y + 2 + 1 = b + 9 /\ y + 2 + 2 <= n
      BY <1>0, <1>8, <2>1
    <3>2. Byte(y + 2, "cr") /\ Byte(y + 2 + 1, "lf")
      BY <1>1, <3>1
    <3>3. ASSUME NEW j \in y .. y + 2 - 1, j < n PROVE At(j) # "cr"
      <4>1. j = y \/ j = b + 7
        BY <2>1
      <4> QED
        BY <1>d, <2>3, <3>3, <4>1
    <3>4. 2 \in Nat
      OBVIOUS
    <3> QED
      BY <1>0, <3>1, <3>2, <3>3, <3>4, LineEnd
  <2>6. y \in HeaderLines(b, h)
    <3>1. b + 4 \in b .. h - 2 /\ (b + 4) + 2 = y /\ (b + 4) + 1 = b + 5 /\ b + 4 < n /\ b + 5 < n
      BY <1>0, <1>2, <1>8, <2>1
    <3>2. IsCRLF(b + 4)
      BY <1>1, <3>1 DEF Byte, IsCRLF
    <3> QED
      BY <3>1, <3>2 DEF HeaderLines
  <2>7. Headers("TE", b, h) = {}
    BY <2>2, <2>3, <2>4 DEF Headers
  <2>8. Headers("CL", b, h) = {y}
    <3>1. y \in Headers("CL", b, h)
      BY <2>3, <2>4, <2>5, <2>6 DEF Headers
    <3>2. ASSUME NEW j \in Headers("CL", b, h) PROVE j = y
      BY <2>2, <2>3, <2>4 DEF Headers
    <3> QED
      BY <3>1, <3>2
  <2>9. StrToUl(y + 1, y + 2, 10) = l
    <3>1. PICK i \in Nat, e \in Nat : i = y + 1 /\ e = y + 2 /\ i = b + 7
      BY <2>1
    <3>2. i < e /\ e <= n /\ e = i + 1 /\ i < n
      BY <1>0, <1>8, <2>1, <3>1
    <3>3. At(i) = DigitFor(l)
      BY <1>1, <3>1, <3>2 DEF Byte
    <3>4. 10 \in Nat
      OBVIOUS
    <3>5. StrToUl(i, e, 10) = l
      BY <3>2, <3>3, <3>4, StrToUlDigit
    <3> QED
      BY <3>1, <3>5
  <2> QED
    BY <2>1, <2>4, <2>5, <2>7, <2>8, <2>9
<1> QED
  BY <1>2, <1>6, <1>7, <1>8

(* That of a message without a length says nothing.                        *)
LEMMA PlainBlock ==
  ASSUME n \in Nat, NEW b \in Nat, PlainHead(b)
  PROVE  /\ b + 5 <= n => /\ FindDoubleCRLF(b) = b + 1
                          /\ Headers("TE", b, b + 1) = {} /\ Headers("CL", b, b + 1) = {}
         /\ b + 5 > n => FindDoubleCRLF(b) = None
<1>1. /\ Byte(b, Start) /\ Byte(b + 1, "cr") /\ Byte(b + 2, "lf")
      /\ Byte(b + 3, "cr") /\ Byte(b + 4, "lf")
  BY DEF PlainHead, LineAt
<1>2. PICK h \in Nat : h = b + 1
  OBVIOUS
<1>3. Byte(h, "cr") /\ Byte(h + 1, "lf") /\ Byte(h + 2, "cr") /\ Byte(h + 3, "lf") /\ b <= h
  <2>1. h + 1 = b + 2 /\ h + 2 = b + 3 /\ h + 3 = b + 4 /\ b <= h
    BY <1>2
  <2> QED
    BY <1>1, <1>2, <2>1
<1>4. ASSUME NEW j \in b .. h - 1, j + 4 <= n PROVE ~ (IsCRLF(j) /\ IsCRLF(j + 2))
  <2>1. j = b /\ b < n
    BY <1>2, <1>4
  <2> QED
    BY <1>1, <2>1, StartIs DEF Byte, IsCRLF
<1>5. (h + 4 <= n => FindDoubleCRLF(b) = h) /\ (h + 4 > n => FindDoubleCRLF(b) = None)
  BY <1>3, <1>4, BlockEnd
<1>6. HeaderLines(b, h) = {}
  <2>1. \A j \in b .. h - 2 : FALSE
    BY <1>2
  <2> QED
    BY <2>1 DEF HeaderLines
<1>7. Headers("TE", b, h) = {} /\ Headers("CL", b, h) = {}
  BY <1>6 DEF Headers
<1>8. h + 4 = b + 5
  BY <1>2
<1> QED
  BY <1>2, <1>5, <1>7, <1>8
-----------------------------------------------------------------------------
(* Bodies.                                                                 *)

(* The smaller of two numbers, said twice.                                 *)
LEMMA MinIsLeast ==
  ASSUME NEW a \in Nat, NEW b \in Nat
  PROVE  Min({a, b}) = Least(a, b) /\ Least(a, b) \in Nat /\ Least(a, b) <= a /\ Least(a, b) <= b
<1>1. Min({a, b}) \in {a, b} /\ Min({a, b}) <= a /\ Min({a, b}) <= b
  BY MinOfTwo
<1>2. PICK x \in {a, b} : x = Min({a, b}) /\ x <= a /\ x <= b
  BY <1>1
<1>3. x = Least(a, b)
  BY <1>2 DEF Least
<1> QED
  BY <1>2, <1>3 DEF Least

(* The body of a message is a sequence of symbols, and its chunks lie in   *)
(* it one behind the other.                                                *)
LEMMA BodyPieces ==
  ASSUME NEW msg \in Messages
  PROVE  /\ BodyOf(msg) \in Seq(Symbols) /\ Len(BodyOf(msg)) \in Nat
         /\ msg.chunks \in Seq(Seq(Symbols)) /\ Len(msg.chunks) \in Nat
         /\ Upto(msg.chunks, 0) = 0 /\ Upto(msg.chunks, Len(msg.chunks)) = Len(BodyOf(msg))
         /\ \A c \in 0 .. Len(msg.chunks) :
              Upto(msg.chunks, c) \in Nat /\ Upto(msg.chunks, c) <= Len(BodyOf(msg))
<1>1. msg.chunks \in Seq(Seq(Symbols))
  BY MessageAssumption
<1>2. PICK ss \in Seq(Seq(Symbols)) : ss = msg.chunks
  BY <1>1
<1>3. FlattenSeq(ss) \in Seq(Symbols) /\ First(ss, Len(ss)) = FlattenSeq(ss) /\ Upto(ss, 0) = 0
  BY FlattenType, FirstType
<1>4. Upto(ss, Len(ss)) = Len(FlattenSeq(ss)) /\ Len(FlattenSeq(ss)) \in Nat /\ Len(ss) \in Nat
  BY <1>3 DEF Upto
<1>5. ASSUME NEW c \in 0 .. Len(ss) PROVE Upto(ss, c) \in Nat /\ Upto(ss, c) <= Len(FlattenSeq(ss))
  <2>1. Len(ss) \in c .. Len(ss)
    BY <1>4
  <2> QED
    BY <1>4, <2>1, FirstStays
<1> QED
  BY <1>2, <1>3, <1>4, <1>5 DEF BodyOf

(* The next chunk.                                                         *)
LEMMA ChunkBytes ==
  ASSUME NEW msg \in Messages, NEW c \in 0 .. Len(msg.chunks) - 1
  PROVE  /\ msg.chunks[c + 1] \in Seq(Symbols) /\ Len(msg.chunks[c + 1]) \in 1 .. 3
         /\ Upto(msg.chunks, c) \in Nat
         /\ Upto(msg.chunks, c + 1) = Upto(msg.chunks, c) + Len(msg.chunks[c + 1])
         /\ Upto(msg.chunks, c + 1) <= Len(BodyOf(msg))
         /\ \A j \in 1 .. Len(msg.chunks[c + 1]) :
              BodyOf(msg)[Upto(msg.chunks, c) + j] = msg.chunks[c + 1][j]
<1>1. PICK ss \in Seq(Seq(Symbols)) : ss = msg.chunks
  BY BodyPieces
<1>2. c \in 0 .. Len(ss) - 1 /\ c + 1 \in 1 .. Len(ss) /\ c + 1 \in 0 .. Len(ss)
  BY <1>1
<1>3. /\ ss[c + 1] \in Seq(Symbols) /\ Upto(ss, c) \in Nat
      /\ Upto(ss, c + 1) = Upto(ss, c) + Len(ss[c + 1])
  BY <1>2, FirstExtends
<1>4. Len(ss[c + 1]) \in 1 .. 3
  <2>1. \A i \in DOMAIN msg.chunks : Len(msg.chunks[i]) \in 1 .. 3
    BY MessageAssumption
  <2> QED
    BY <1>1, <1>2, <2>1
<1>5. \A j \in 1 .. Len(ss[c + 1]) : FlattenSeq(ss)[Upto(ss, c) + j] = ss[c + 1][j]
  BY <1>2, FlattenAt
<1>6. Upto(ss, c + 1) <= Len(BodyOf(msg))
  BY <1>1, <1>2, BodyPieces
<1> QED
  BY <1>1, <1>3, <1>4, <1>5, <1>6 DEF BodyOf

(* A stretch of the capture at a piece of the wire is that piece.          *)
LEMMA SliceHolds ==
  ASSUME buf \in Seq(Symbols), NEW q \in Nat, NEW t \in Nat, q + t <= n, NEW e \in Seq(Symbols),
         t <= Len(e), Holds(q, e)
  PROVE  /\ Slice(q, q + t) \in Seq(Symbols) /\ Len(Slice(q, q + t)) = t
         /\ \A j \in 1 .. t : Slice(q, q + t)[j] = e[j]
<1>0. n = Len(buf) /\ n \in Nat
  BY EndType DEF n
<1>1. PICK a \in Nat, z \in Nat : a = q + 1 /\ z = q + t
  OBVIOUS
<1>2. a \in 1 .. Len(buf) + 1 /\ z \in a - 1 .. Len(buf)
  BY <1>0, <1>1
<1>3. /\ SubSeq(buf, a, z) \in Seq(Symbols) /\ Len(SubSeq(buf, a, z)) = t
      /\ \A j \in 1 .. t : SubSeq(buf, a, z)[j] = buf[q + j]
  <2>1. SubSeq(buf, a, z) \in Seq(Symbols)
    BY <1>0, <1>1, <1>2
  <2>2. Len(SubSeq(buf, a, z)) = t
    BY <1>0, <1>1, <1>2
  <2>3. ASSUME NEW j \in 1 .. t PROVE SubSeq(buf, a, z)[j] = buf[q + j]
    <3>1. SubSeq(buf, a, z)[j] = buf[a + j - 1]
      BY <1>0, <1>1, <1>2, <2>2
    <3>2. a + j - 1 = q + j
      BY <1>1
    <3> QED
      BY <3>1, <3>2
  <2> QED
    BY <2>1, <2>2, <2>3
<1>4. ASSUME NEW j \in 1 .. t PROVE buf[q + j] = e[j]
  <2>1. j \in 1 .. Len(e) /\ q + j <= n
    BY <1>0
  <2> QED
    BY <2>1 DEF Holds
<1> QED
  BY <1>1, <1>3, <1>4 DEF Slice

(* AppendCapped, on a body of which x symbols were read: what is stored is *)
(* the body's beginning up to the cap, and the mark says whether it is all.*)
LEMMA AppendedKept ==
  ASSUME NEW msg \in Messages, NEW got \in CappedMsg, NEW x \in Nat, got.body = Kept(msg, x),
         NEW piece \in Seq(Symbols), x + Len(piece) <= Len(BodyOf(msg)),
         \A j \in 1 .. Len(piece) : piece[j] = BodyOf(msg)[x + j]
  PROVE  /\ Appended(got, piece).body = Kept(msg, x + Len(piece))
         /\ Appended(got, piece).chunked = got.chunked
         /\ (Len(piece) > 0 \/ x < kMaxBody) /\ got.bodyTruncated = (x > kMaxBody)
              => Appended(got, piece).bodyTruncated = (x + Len(piece) > kMaxBody)
<1>0. PICK B \in Seq(Symbols), L \in Nat, K \in Nat, cap \in Nat :
        B = BodyOf(msg) /\ L = Len(B) /\ K = Len(piece) /\ cap = kMaxBody
  BY BodyPieces, HttpAssumption
<1>1. got \in MsgType /\ got.body \in Seq(Symbols)
  BY DEF CappedMsg, MsgType
<1>2. PICK y \in Nat : y = Least(x, cap) /\ y <= x /\ y <= cap /\ (y < cap => y = x)
  BY DEF Least
<1>3. PICK w \in Seq(Symbols) : w = got.body
  BY <1>1
<1>4. y \in 0 .. L /\ x + K <= L
  BY <1>0, <1>2
<1>5. w \in Seq(Symbols) /\ Len(w) = y /\ \A i \in 1 .. y : w[i] = B[i]
  <2>1. w = SubSeq(B, 1, y)
    BY <1>0, <1>2, <1>3 DEF Kept
  <2>2. y \in 0 .. Len(B)
    BY <1>0, <1>4
  <2> QED
    BY <2>1, <2>2, PrefixType
<1>6. PICK v \in Seq(Symbols) :
        /\ v = w \o piece /\ Len(v) = y + K
        /\ \A i \in 1 .. y : v[i] = w[i]
        /\ \A i \in 1 .. K : v[y + i] = piece[i]
  <2>1. /\ w \o piece \in Seq(Symbols) /\ Len(w \o piece) = Len(w) + Len(piece)
        /\ \A i \in 1 .. Len(w) : (w \o piece)[i] = w[i]
        /\ \A i \in 1 .. Len(piece) : (w \o piece)[Len(w) + i] = piece[i]
    OBVIOUS
  <2> QED
    BY <1>0, <1>5, <2>1
<1>7. PICK r \in Nat : r = Least(y + K, cap) /\ r <= y + K /\ r <= cap /\ r = Least(x + K, cap) /\ r <= L
  BY <1>2, <1>4 DEF Least
<1>8. Min({Len(v), kMaxBody}) = r
  <2>1. PICK s \in Nat : s = y + K
    OBVIOUS
  <2>2. Min({s, cap}) = Least(s, cap)
    BY MinIsLeast
  <2> QED
    BY <1>0, <1>6, <1>7, <2>1, <2>2
<1>9. ASSUME NEW i \in 1 .. r PROVE v[i] = B[i]
  <2>1. CASE i <= y
    BY <1>5, <1>6, <2>1
  <2>2. CASE i > y
    <3>1. PICK j \in 1 .. K : i = y + j
      <4>1. i - y \in 1 .. K /\ i = y + (i - y)
        BY <1>7, <2>2
      <4> QED
        BY <4>1, Zenon
    <3>2. y = x
      BY <1>2, <1>7, <2>2
    <3>3. v[i] = piece[j]
      BY <1>6, <3>1
    <3>4. piece[j] = B[x + j]
      BY <1>0, <3>1
    <3> QED
      BY <3>1, <3>2, <3>3, <3>4
  <2>3. i <= y \/ i > y
    OBVIOUS
  <2> QED
    BY <2>1, <2>2, <2>3
<1>10. SubSeq(v, 1, r) = SubSeq(B, 1, r)
  <2>1. r \in 0 .. Len(v) /\ r \in 0 .. Len(B)
    BY <1>0, <1>6, <1>7
  <2>2. /\ SubSeq(v, 1, r) \in Seq(Symbols) /\ Len(SubSeq(v, 1, r)) = r
        /\ \A i \in 1 .. r : SubSeq(v, 1, r)[i] = v[i]
    BY <2>1, PrefixType
  <2>3. /\ SubSeq(B, 1, r) \in Seq(Symbols) /\ Len(SubSeq(B, 1, r)) = r
        /\ \A i \in 1 .. r : SubSeq(B, 1, r)[i] = B[i]
    BY <2>1, PrefixType
  <2>4. PICK f \in Seq(Symbols), g \in Seq(Symbols) : f = SubSeq(v, 1, r) /\ g = SubSeq(B, 1, r)
    BY <2>2, <2>3
  <2>5. Len(f) = Len(g) /\ \A i \in 1 .. Len(f) : f[i] = g[i]
    BY <1>9, <2>2, <2>3, <2>4
  <2>6. f = g
    BY <2>5, SameElements
  <2> QED
    BY <2>4, <2>6
<1>11. PICK t : t = (got.bodyTruncated \/ Len(got.body) >= kMaxBody \/ Len(v) > kMaxBody)
  OBVIOUS
<1>12. PICK k : k = SubSeq(v, 1, r)
  OBVIOUS
<1>13. Appended(got, piece) = [got EXCEPT !.body = k, !.bodyTruncated = t]
  BY <1>3, <1>6, <1>8, <1>11, <1>12 DEF Appended
<1>14. /\ Appended(got, piece).body = k /\ Appended(got, piece).chunked = got.chunked
       /\ Appended(got, piece).bodyTruncated = t
  BY <1>1, <1>13 DEF MsgType
<1>15. k = Kept(msg, x + Len(piece))
  BY <1>0, <1>7, <1>10, <1>12 DEF Kept
<1>16. ASSUME Len(piece) > 0 \/ x < kMaxBody, got.bodyTruncated = (x > kMaxBody)
       PROVE  t = (x + Len(piece) > kMaxBody)
  <2>1. t = ((x > cap) \/ y >= cap \/ y + K > cap)
    BY <1>0, <1>3, <1>5, <1>6, <1>11, <1>16
  <2>2. K > 0 \/ x < cap
    BY <1>0, <1>16
  <2>3. ((x > cap) \/ y >= cap \/ y + K > cap) <=> (x + K > cap)
    BY <1>2, <2>2 DEF Least
  <2> QED
    BY <1>0, <2>1, <2>3
<1> QED
  BY <1>14, <1>15, <1>16
-----------------------------------------------------------------------------
(* The message the parser is at.                                           *)

(* It is on the wire at Base, and only a tail of it may be missing.        *)
LEMMA ActiveHolds ==
  ASSUME HttpInv, Captured, Active
  PROVE  /\ Current \in Messages /\ Base \in Nat /\ End \in Nat /\ n \in Nat
         /\ asResponse \in BOOLEAN /\ buf \in Seq(Symbols) /\ Len(out) \in Nat
         /\ End = Base + Len(Encoded(Current, asResponse))
         /\ Holds(Base, Encoded(Current, asResponse))
         /\ End <= n \/ n = holeAt
         /\ Current.framing = "close" => asResponse /\ n <= End
         /\ Current.framing = "none" => ~ asResponse
<1>1. /\ sent \in Seq(Messages) /\ asResponse \in BOOLEAN /\ n \in Nat /\ buf \in Seq(Symbols)
      /\ Len(out) \in Nat /\ Len(sent) \in Nat /\ holeAt \in 0 .. n /\ n <= Pre(Len(sent))
  BY EndType DEF HttpInv, Captured
<1>2. PICK k \in 0 .. Len(sent) - 1 : k = Len(out) /\ Seen(k + 1)
  BY <1>1 DEF Active
<1>3. /\ sent[k + 1] \in Messages /\ Pre(k) \in Nat /\ Pre(k + 1) \in Nat
      /\ Pre(k + 1) = Pre(k) + Len(Encoded(sent[k + 1], asResponse))
      /\ Holds(Pre(k), Encoded(sent[k + 1], asResponse))
  BY <1>1, <1>2, WireHolds
<1>4. Pre(k + 1) <= n \/ n = holeAt
  BY <1>1, <1>2, <1>3 DEF Seen
<1>5. /\ sent[k + 1].framing = "close" => asResponse /\ n <= Pre(k + 1)
      /\ sent[k + 1].framing = "none" => ~ asResponse
  <2>1. k + 1 \in DOMAIN sent
    BY <1>1, <1>2
  <2>2. /\ sent[k + 1].framing = "close" => asResponse /\ k + 1 = Len(sent)
        /\ sent[k + 1].framing = "none" => ~ asResponse
    BY <2>1 DEF Captured, Sendable
  <2> QED
    BY <1>1, <2>2
<1> QED
  BY <1>1, <1>2, <1>3, <1>4, <1>5 DEF Current, Base, End

(* A message of which the tail is missing is shown with what there is of   *)
(* its body.                                                               *)
LEMMA CutEmit ==
  ASSUME HttpInv, Captured, Active, n < End, off < n, NEW got,
         got.chunked = (Current.framing = "chunked"),
         \E x \in 0 .. Len(BodyOf(Current)) : got.body = Kept(Current, x)
  PROVE  AtEmit(got, n)
<1>1. n \in Nat /\ End \in Nat
  BY ActiveHolds
<1>2. Shows(got, Current, End)
  BY <1>1 DEF Shows
<1>3. Reaches(n, End)
  BY <1>1 DEF Reaches
<1>4. Lost(n)
  BY <1>1 DEF Lost, LineAt, Byte
<1> QED
  BY <1>2, <1>3, <1>4 DEF AtEmit, Between, End

(* A message read to its end, or to the blank line behind it.              *)
LEMMA WholeEmit ==
  ASSUME HttpInv, Captured, Active, NEW q \in Nat, off < q, NEW got,
         got.chunked = (Current.framing = "chunked"),
         got.body = Kept(Current, Len(BodyOf(Current))),
         got.bodyTruncated = (Len(BodyOf(Current)) > kMaxBody),
         \/ Steady(Len(out) + 1) /\ Reaches(q, End)
         \/ ~ Steady(Len(out) + 1) /\ Lost(q)
  PROVE  AtEmit(got, q)
<1>1. Len(BodyOf(Current)) \in 0 .. Len(BodyOf(Current))
  <2>1. Current \in Messages
    BY ActiveHolds
  <2>2. Len(BodyOf(Current)) \in Nat
    BY <2>1, BodyPieces
  <2> QED
    BY <2>2
<1>2. Shows(got, Current, End)
  BY <1>1 DEF Shows
<1> QED
  BY <1>2 DEF AtEmit, Between, End

(* Whether the next message will be found.                                 *)
LEMMA SteadyNext ==
  ASSUME HttpInv, Captured, Active
  PROVE  Steady(Len(out) + 1) <=> (Current.framing = "chunked" => Current.trailers <= 1)
<1>1. PICK k \in Nat : k = Len(out)
  BY DEF HttpInv
<1>2. \A j \in 1 .. k + 1 : j \in 1 .. k \/ j = k + 1
  OBVIOUS
<1>3. k + 1 \in 1 .. k + 1 /\ \A j \in 1 .. k : j \in 1 .. k + 1
  OBVIOUS
<1>4. Steady(k)
  BY <1>1 DEF Active
<1> QED
  BY <1>1, <1>2, <1>3, <1>4 DEF Steady, Current
-----------------------------------------------------------------------------
(* Chunks.                                                                 *)

(* The length of a size line.                                              *)
LEMMA SizeLengthIs ==
  ASSUME NEW msg
  PROVE  SizeLength(msg) \in {1, 2} /\ SizeLength(msg) \in Nat
BY DEF SizeLength

(* A size line is read as the chunk's length, unless it is cut.            *)
LEMMA SizeRead ==
  ASSUME buf \in Seq(Symbols), NEW q \in Nat, NEW s \in Nat, NEW l \in 0 .. 3, ChunkHead(q, s, l)
  PROVE  /\ q + s + 2 <= n => FindCRLF(q) = q + s /\ StrToUl(q, q + s, 16) = l
         /\ q + s + 2 > n => FindCRLF(q) = None
<1>0. n \in Nat
  BY EndType
<1>1. /\ Byte(q, DigitFor(l)) /\ (s = 1 \/ s = 2) /\ (s = 2 => Byte(q + 1, "EXT"))
      /\ Byte(q + s, "cr") /\ Byte(q + s + 1, "lf")
  BY DEF ChunkHead
<1>2. ASSUME q < n PROVE At(q) = DigitFor(l) /\ At(q) # "cr"
  <2>1. At(q) = DigitFor(l)
    BY <1>1, <1>2 DEF Byte
  <2> QED
    BY <2>1, DigitValue
<1>3. ASSUME NEW j \in q .. q + s - 1, j < n PROVE At(j) # "cr"
  <2>1. j = q \/ (j = q + 1 /\ s = 2)
    BY <1>1
  <2> QED
    BY <1>1, <1>2, <1>3, <2>1 DEF Byte
<1>4. (q + s + 2 <= n => FindCRLF(q) = q + s) /\ (q + s + 2 > n => FindCRLF(q) = None)
  BY <1>0, <1>1, <1>3, LineEnd
<1>5. ASSUME q + s + 2 <= n PROVE StrToUl(q, q + s, 16) = l
  <2>1. PICK e \in Nat : e = q + s
    OBVIOUS
  <2>2. q < e /\ e <= n /\ q < n /\ 16 \in Nat /\ (s = 2 => q + 1 < n)
    BY <1>0, <1>1, <1>5, <2>1
  <2>3. e = q + 1 \/ At(q + 1) = "EXT"
    BY <1>1, <2>1, <2>2 DEF Byte
  <2>4. At(q) = DigitFor(l)
    BY <1>2, <2>2
  <2>5. StrToUl(q, e, 16) = l
    BY <2>2, <2>3, <2>4, StrToUlDigit
  <2> QED
    BY <2>1, <2>5
<1> QED
  BY <1>4, <1>5

(* The chunks of the message lie between its head and its end.             *)
LEMMA ChunkPlace ==
  ASSUME HttpInv, Captured, Active, Current.framing = "chunked", NEW c \in 0 .. Len(Current.chunks)
  PROVE  /\ ChunkAt(Base, Current, c) \in Nat
         /\ Base + 8 <= ChunkAt(Base, Current, c) /\ ChunkAt(Base, Current, c) + 5 <= End
<1>0. PICK msg \in Messages, b \in Nat, e \in Nat :
        /\ msg = Current /\ b = Base /\ e = End /\ n \in Nat /\ asResponse \in BOOLEAN
        /\ e = b + Len(Encoded(msg, asResponse)) /\ Holds(b, Encoded(msg, asResponse))
  BY ActiveHolds
<1>1. PICK z : z = ChunkAt(b, msg, Len(msg.chunks))
  OBVIOUS
<1>2. /\ z \in Nat /\ Len(Trailers(msg)) \in Nat
      /\ b + Len(Encoded(msg, asResponse)) = z + 5 + Len(Trailers(msg))
  BY <1>0, <1>1, ChunkedLayout
<1>3. PICK ss \in Seq(Seq(Symbols)) : ss = Pieces(msg) /\ Len(ss) = Len(msg.chunks) /\ Len(ss) \in Nat
  <2>1. Pieces(msg) \in Seq(Seq(Symbols)) /\ Len(Pieces(msg)) = Len(msg.chunks)
    BY PiecesType
  <2>2. Len(msg.chunks) \in Nat
    BY BodyPieces
  <2> QED
    BY <2>1, <2>2
<1>4. PICK u \in Nat, v \in Nat : u = Upto(ss, c) /\ v = Upto(ss, Len(ss)) /\ u <= v
  <2>1. c \in 0 .. Len(ss) /\ Len(ss) \in c .. Len(ss)
    BY <1>0, <1>3
  <2> QED
    BY <2>1, FirstStays
<1>5. PICK q \in Nat : q = b + 8 + u
  OBVIOUS
<1>6. ChunkAt(b, msg, c) = q /\ z = b + 8 + v
  BY <1>1, <1>3, <1>4, <1>5 DEF ChunkAt
<1>7. b + 8 <= q /\ q + 5 <= e
  <2>1. PICK t \in Nat : t = Len(Trailers(msg))
    BY <1>2
  <2>2. e = z + 5 + t
    BY <1>0, <1>2, <2>1
  <2>3. e = (b + 8 + v) + 5 + t
    BY <1>6, <2>2
  <2>4. u <= v
    BY <1>4
  <2> QED
    BY <1>5, <2>3, <2>4
<1> QED
  BY <1>0, <1>6, <1>7

(* What is captured where the last chunk lies.                             *)
LEMMA LastChunkPlace ==
  ASSUME HttpInv, Captured, Active, Current.framing = "chunked",
         NEW q \in Nat, q = ChunkAt(Base, Current, Len(Current.chunks))
  PROVE  /\ ChunkHead(q, 1, 0) /\ Holds(q + 3, Trailers(Current))
         /\ Byte(q + 3 + Len(Trailers(Current)), "cr") /\ Byte(q + 4 + Len(Trailers(Current)), "lf")
         /\ Len(Trailers(Current)) \in Nat /\ End = q + 5 + Len(Trailers(Current))
<1>0. PICK msg \in Messages, b \in Nat, e \in Nat :
        /\ msg = Current /\ b = Base /\ e = End /\ n \in Nat /\ asResponse \in BOOLEAN
        /\ e = b + Len(Encoded(msg, asResponse)) /\ Holds(b, Encoded(msg, asResponse))
  BY ActiveHolds
<1>1. /\ LineAt(q, "0") /\ Holds(q + 3, Trailers(msg))
      /\ Byte(q + 3 + Len(Trailers(msg)), "cr") /\ Byte(q + 4 + Len(Trailers(msg)), "lf")
      /\ Len(Trailers(msg)) \in Nat
      /\ b + Len(Encoded(msg, asResponse)) = q + 5 + Len(Trailers(msg))
  <2>1. msg.framing = "chunked" /\ q = ChunkAt(b, msg, Len(msg.chunks))
    BY <1>0
  <2> QED
    BY <1>0, <2>1, ChunkedLayout
<1>2. ChunkHead(q, 1, 0)
  <2>1. DigitFor(0) = "0"
    BY DEF DigitFor, Digits
  <2>2. q + 1 + 1 = q + 2
    OBVIOUS
  <2> QED
    BY <1>1, <2>1, <2>2 DEF ChunkHead, LineAt
<1> QED
  BY <1>0, <1>1, <1>2

(* What is captured where another chunk lies.                              *)
DataAt(q, s, d, c) ==
  /\ d \in Seq(Symbols) /\ Len(d) \in 1 .. 3
  /\ ChunkHead(q, s, Len(d)) /\ Holds(q + s + 2, d)
  /\ Byte(q + s + 2 + Len(d), "cr") /\ Byte(q + s + 3 + Len(d), "lf")
  /\ ChunkAt(Base, Current, c + 1) = q + s + 4 + Len(d)

(* Each chunk but the last is there.                                       *)
LEMMA DataChunkPlace ==
  ASSUME HttpInv, Captured, Active, Current.framing = "chunked",
         NEW c \in 0 .. Len(Current.chunks) - 1, NEW q \in Nat, q = ChunkAt(Base, Current, c),
         NEW s \in Nat, SizeLength(Current) = s, NEW d, d = Current.chunks[c + 1]
  PROVE  DataAt(q, s, d, c)
<1>0. PICK msg \in Messages, b \in Nat :
        /\ msg = Current /\ b = Base /\ n \in Nat /\ asResponse \in BOOLEAN
        /\ Holds(b, Encoded(msg, asResponse))
  BY ActiveHolds
<1>1. \A k \in 0 .. Len(msg.chunks) - 1 : Holds(ChunkAt(b, msg, k), ChunkOf(msg, msg.chunks[k + 1]))
  <2>1. PICK z : z = ChunkAt(b, msg, Len(msg.chunks))
    OBVIOUS
  <2> QED
    BY <1>0, <2>1, ChunkedLayout
<1>2. PICK ss \in Seq(Seq(Symbols)) :
        /\ ss = Pieces(msg) /\ Len(ss) = Len(msg.chunks) /\ Len(msg.chunks) \in Nat
        /\ \A i \in 1 .. Len(msg.chunks) : ss[i] = ChunkOf(msg, msg.chunks[i])
  BY PiecesType, BodyPieces
<1>3. c \in 0 .. Len(msg.chunks) - 1 /\ c \in 0 .. Len(ss) - 1 /\ c + 1 \in 1 .. Len(msg.chunks)
  BY <1>0, <1>2
<1>4. d \in Seq(Symbols) /\ Len(d) \in 1 .. 3 /\ d = msg.chunks[c + 1]
  BY <1>0, <1>3, ChunkBytes
<1>5. Holds(q, ChunkOf(msg, d))
  BY <1>0, <1>1, <1>3, <1>4
<1>6. /\ ChunkHead(q, s, Len(d)) /\ Holds(q + s + 2, d)
      /\ Byte(q + s + 2 + Len(d), "cr") /\ Byte(q + s + 3 + Len(d), "lf")
      /\ Len(ChunkOf(msg, d)) = s + 4 + Len(d)
  <2>1. PICK k \in Nat : k = SizeLength(msg)
    BY SizeLengthIs
  <2>2. PICK x \in Seq(Symbols) : x = d
    BY <1>4
  <2>3. Len(x) \in 1 .. 3 /\ Holds(q, ChunkOf(msg, x)) /\ n \in Nat
    BY <1>0, <1>4, <1>5, <2>2
  <2>4. /\ ChunkHead(q, k, Len(x)) /\ Holds(q + k + 2, x)
        /\ Byte(q + k + 2 + Len(x), "cr") /\ Byte(q + k + 3 + Len(x), "lf")
        /\ Len(ChunkOf(msg, x)) = k + 4 + Len(x)
    BY <2>1, <2>3, ChunkLayout
  <2>5. k = s
    BY <1>0, <2>1
  <2> QED
    BY <2>2, <2>4, <2>5
<1>7. PICK u \in Nat, l \in Nat : u = Upto(ss, c) /\ l = Len(d) /\ Upto(ss, c + 1) = u + (s + 4 + l)
  <2>1. ss[c + 1] = ChunkOf(msg, d)
    BY <1>2, <1>3, <1>4
  <2>2. Upto(ss, c) \in Nat /\ Upto(ss, c + 1) = Upto(ss, c) + Len(ss[c + 1])
    BY <1>3, FirstExtends
  <2>3. Len(d) \in Nat
    BY <1>4
  <2>4. Upto(ss, c + 1) = Upto(ss, c) + (s + 4 + Len(d))
    BY <1>6, <2>1, <2>2
  <2> QED
    BY <2>2, <2>3, <2>4
<1>8. PICK w \in Nat, k \in Nat : w = b + 8 + u /\ k = s
  OBVIOUS
<1>9. b + 8 + (u + (k + 4 + l)) = w + k + 4 + l
  BY <1>8
<1>10. ChunkAt(b, msg, c + 1) = b + 8 + (u + (k + 4 + l)) /\ q = w
  BY <1>0, <1>2, <1>7, <1>8 DEF ChunkAt
<1>11. ChunkAt(b, msg, c + 1) = q + s + 4 + Len(d)
  BY <1>7, <1>8, <1>9, <1>10
<1> QED
  BY <1>0, <1>4, <1>6, <1>11 DEF DataAt
(* The parser is in the message, and its first byte is captured.           *)
Working == HttpInv /\ Captured /\ Active /\ off = Base /\ off < n

(* The line that says how long chunk c + 1 is.                             *)
SizeIs(c, s, l) ==
  \/ c < Len(Current.chunks) /\ s = SizeLength(Current) /\ l = Len(Current.chunks[c + 1])
  \/ c = Len(Current.chunks) /\ s = 1 /\ l = 0

(* Every chunk has one, inside the message.                                *)
LEMMA SizeThere ==
  ASSUME Working, Current.framing = "chunked", NEW c \in 0 .. Len(Current.chunks),
         NEW q \in Nat, q = ChunkAt(Base, Current, c)
  PROVE  \E s \in Nat, l \in 0 .. 3 :
           /\ ChunkHead(q, s, l) /\ SizeIs(c, s, l) /\ q + s + 4 <= End
<1>0. /\ HttpInv /\ Captured /\ Active /\ End \in Nat /\ Len(Current.chunks) \in Nat
  BY ActiveHolds, BodyPieces DEF Working
<1>1. CASE c = Len(Current.chunks)
  <2>1. ChunkHead(q, 1, 0)
    BY <1>0, <1>1, LastChunkPlace
  <2>2. q + 5 <= End
    BY <1>0, ChunkPlace
  <2>3. 1 \in Nat /\ 0 \in 0 .. 3 /\ q + 1 + 4 <= End
    BY <2>2
  <2> QED
    BY <1>1, <2>1, <2>3 DEF SizeIs
<1>2. CASE c < Len(Current.chunks)
  <2>1. PICK s \in Nat : SizeLength(Current) = s
    BY SizeLengthIs
  <2>2. PICK d : d = Current.chunks[c + 1]
    OBVIOUS
  <2>3. c \in 0 .. Len(Current.chunks) - 1 /\ c + 1 \in 0 .. Len(Current.chunks)
    BY <1>0, <1>2
  <2>4. Len(d) \in 1 .. 3 /\ ChunkHead(q, s, Len(d)) /\ ChunkAt(Base, Current, c + 1) = q + s + 4 + Len(d)
    <3>1. DataAt(q, s, d, c)
      BY <1>0, <2>1, <2>2, <2>3, DataChunkPlace
    <3> QED
      BY <3>1 DEF DataAt
  <2>5. ChunkAt(Base, Current, c + 1) + 5 <= End
    BY <1>0, <2>3, ChunkPlace
  <2>6. PICK l \in 1 .. 3 : l = Len(d)
    BY <2>4
  <2>7. q + s + 4 + l + 5 <= End
    BY <2>4, <2>5, <2>6
  <2>8. q + s + 4 <= End /\ l \in 0 .. 3 /\ l # 0
    <3>1. PICK e \in Nat : e = End
      BY <1>0
    <3>2. q + s + 4 + l + 5 <= e
      BY <2>7, <3>1
    <3>3. q + s + 4 <= e /\ l \in 0 .. 3 /\ l # 0
      BY <3>2
    <3> QED
      BY <3>1, <3>3
  <2>9. SizeIs(c, s, l)
    BY <1>2, <2>1, <2>2, <2>6 DEF SizeIs
  <2> QED
    BY <1>2, <2>3, <2>4, <2>6, <2>8, <2>9
<1> QED
  BY <1>0, <1>1, <1>2

(* A size line that is cut ends the message before its end.                *)
LEMMA SizeCutEmit ==
  ASSUME Working, NEW got, NEW q \in Nat, AtSize(got, q), FindCRLF(q) = None,
         NEW new, new.chunked = got.chunked, new.body = got.body
  PROVE  AtEmit(new, n)
<1>0. /\ HttpInv /\ Captured /\ Active /\ End \in Nat /\ Current \in Messages /\ n \in Nat
      /\ buf \in Seq(Symbols) /\ off < n
  BY ActiveHolds DEF Working
<1>1. PICK c \in 0 .. Len(Current.chunks) :
        /\ got.body = Kept(Current, Upto(Current.chunks, c))
        /\ \/ q = ChunkAt(Base, Current, c)
           \/ q + 2 = ChunkAt(Base, Current, c) /\ n <= q + 1
  BY DEF AtSize
<1>2. Current.framing = "chunked" /\ got.chunked = TRUE
  BY DEF AtSize
<1>3. n < End
  <2>1. CASE q = ChunkAt(Base, Current, c)
    <3>1. PICK s \in Nat, l \in 0 .. 3 : ChunkHead(q, s, l) /\ q + s + 4 <= End
      BY <1>2, <2>1, SizeThere
    <3>2. ~ (q + s + 2 <= n)
      <4>1. q + s + 2 <= n => FindCRLF(q) = q + s
        BY <1>0, <3>1, SizeRead
      <4>2. q + s # None
        BY DEF None
      <4> QED
        BY <4>1, <4>2
    <3> QED
      BY <1>0, <3>1, <3>2
  <2>2. CASE q + 2 = ChunkAt(Base, Current, c) /\ n <= q + 1
    <3>1. ChunkAt(Base, Current, c) + 5 <= End
      BY <1>0, <1>2, ChunkPlace
    <3>2. (q + 2) + 5 <= End
      BY <2>2, <3>1
    <3> QED
      BY <1>0, <2>2, <3>2
  <2> QED
    BY <1>1, <2>1, <2>2
<1>4. Upto(Current.chunks, c) \in 0 .. Len(BodyOf(Current))
  <2>1. /\ Upto(Current.chunks, c) \in Nat /\ Upto(Current.chunks, c) <= Len(BodyOf(Current))
        /\ Len(BodyOf(Current)) \in Nat
    BY <1>0, BodyPieces
  <2> QED
    BY <2>1
<1>5. \E x \in 0 .. Len(BodyOf(Current)) : new.body = Kept(Current, x)
  BY <1>1, <1>4
<1>6. new.chunked = (Current.framing = "chunked")
  BY <1>2
<1> QED
  BY <1>0, <1>3, <1>5, <1>6, CutEmit

(* A whole size line leads to its chunk.                                   *)
LEMMA SizeToChunk ==
  ASSUME Working, NEW got, NEW q \in Nat, AtSize(got, q), FindCRLF(q) # None
  PROVE  AtChunk(got, FindCRLF(q) + 2, StrToUl(q, FindCRLF(q), 16))
<1>0. n \in Nat /\ buf \in Seq(Symbols)
  BY ActiveHolds DEF Working
<1>1. PICK c \in 0 .. Len(Current.chunks) :
        /\ got.body = Kept(Current, Upto(Current.chunks, c))
        /\ got.bodyTruncated = (Upto(Current.chunks, c) > kMaxBody)
        /\ \/ q = ChunkAt(Base, Current, c)
           \/ q + 2 = ChunkAt(Base, Current, c) /\ n <= q + 1
  BY DEF AtSize
<1>2. Current.framing = "chunked" /\ got.chunked = TRUE
  BY DEF AtSize
<1>3. FindCRLF(q) \in q .. n - 2
  BY <1>0, FindLine
<1>4. q = ChunkAt(Base, Current, c)
  BY <1>0, <1>1, <1>3
<1>5. PICK s \in Nat, l \in 0 .. 3 : ChunkHead(q, s, l) /\ SizeIs(c, s, l)
  BY <1>2, <1>4, SizeThere
<1>6. /\ q + s + 2 <= n => FindCRLF(q) = q + s /\ StrToUl(q, q + s, 16) = l
      /\ q + s + 2 > n => FindCRLF(q) = None
  BY <1>0, <1>5, SizeRead
<1>7. FindCRLF(q) = q + s /\ StrToUl(q, FindCRLF(q), 16) = l
  BY <1>0, <1>6
<1>8. AtChunk(got, q + s + 2, l)
  <2>1. CASE c < Len(Current.chunks) /\ s = SizeLength(Current) /\ l = Len(Current.chunks[c + 1])
    <3>1. q + s + 2 = ChunkAt(Base, Current, c) + SizeLength(Current) + 2
      BY <1>4, <2>1
    <3> QED
      BY <1>1, <1>2, <2>1, <3>1 DEF AtChunk
  <2>2. CASE c = Len(Current.chunks) /\ s = 1 /\ l = 0
    <3>1. q + 1 + 2 = q + 3
      OBVIOUS
    <3>2. q + s + 2 = ChunkAt(Base, Current, c) + 3
      BY <1>4, <2>2, <3>1
    <3> QED
      BY <1>1, <1>2, <2>2, <3>2 DEF AtChunk
  <2> QED
    BY <1>5, <2>1, <2>2 DEF SizeIs
<1> QED
  BY <1>7, <1>8
(* Behind the last chunk the parser is at the next message, at its blank   *)
(* line, or in front of the second trailer.                                *)
LEMMA LastChunkEmit ==
  ASSUME Working, NEW got, NEW q \in Nat, AtChunk(got, q, 0),
         NEW r, r = IF FindCRLF(q) = None THEN n ELSE FindCRLF(q) + 2
  PROVE  AtEmit(got, r)
<1>0. /\ HttpInv /\ Captured /\ Active /\ End \in Nat /\ Current \in Messages /\ n \in Nat
      /\ Base \in Nat /\ buf \in Seq(Symbols) /\ off = Base /\ off < n
  BY ActiveHolds DEF Working
<1>1. PICK c \in 0 .. Len(Current.chunks) :
        /\ got.body = Kept(Current, Upto(Current.chunks, c))
        /\ got.bodyTruncated = (Upto(Current.chunks, c) > kMaxBody)
        /\ \/ c < Len(Current.chunks) /\ 0 = Len(Current.chunks[c + 1])
           \/ c = Len(Current.chunks) /\ q = ChunkAt(Base, Current, c) + 3
  BY DEF AtChunk
<1>2. Current.framing = "chunked" /\ got.chunked = TRUE
  BY DEF AtChunk
<1>3. /\ Len(Current.chunks) \in Nat /\ Upto(Current.chunks, Len(Current.chunks)) = Len(BodyOf(Current))
      /\ Len(BodyOf(Current)) \in Nat
  BY <1>0, BodyPieces
<1>4. c = Len(Current.chunks) /\ q = ChunkAt(Base, Current, Len(Current.chunks)) + 3
  <2>1. ASSUME c < Len(Current.chunks) PROVE 0 # Len(Current.chunks[c + 1])
    <3>1. c \in 0 .. Len(Current.chunks) - 1
      BY <1>3, <2>1
    <3>2. Len(Current.chunks[c + 1]) \in 1 .. 3
      BY <1>0, <3>1, ChunkBytes
    <3>3. \A l \in 1 .. 3 : 0 # l
      OBVIOUS
    <3> QED
      BY <3>2, <3>3
  <2> QED
    BY <1>1, <2>1
<1>5. /\ got.body = Kept(Current, Len(BodyOf(Current)))
      /\ got.bodyTruncated = (Len(BodyOf(Current)) > kMaxBody)
      /\ got.chunked = (Current.framing = "chunked")
  BY <1>1, <1>2, <1>3, <1>4
<1>6. PICK z \in Nat : z = ChunkAt(Base, Current, Len(Current.chunks)) /\ Base + 8 <= z
  <2>1. Len(Current.chunks) \in 0 .. Len(Current.chunks)
    BY <1>3
  <2> QED
    BY <1>0, <1>2, <2>1, ChunkPlace
<1>7. PICK T \in Nat :
        /\ T = Len(Trailers(Current)) /\ Holds(z + 3, Trailers(Current))
        /\ Byte(z + 3 + T, "cr") /\ Byte(z + 4 + T, "lf") /\ End = z + 5 + T
  BY <1>0, <1>2, <1>6, LastChunkPlace
<1>8. q = z + 3 /\ Base < q
  BY <1>0, <1>4, <1>6
<1>9. End = q + 2 + T /\ Byte(q + T, "cr") /\ Byte(q + T + 1, "lf") /\ Holds(q, Trailers(Current))
  <2>1. (z + 3) + T + 1 = z + 4 + T /\ (z + 3) + 2 + T = z + 5 + T
    OBVIOUS
  <2> QED
    BY <1>7, <1>8, <2>1
<1>10. /\ Current.trailers \in Nat
       /\ Current.trailers = 0 => T = 0
       /\ Current.trailers >= 1 => LineAt(q, "HX")
       /\ Current.trailers = 1 => T = 3
       /\ Current.trailers >= 2 => T >= 6 /\ LineAt(q + 3, "HX")
  BY <1>0, <1>7, <1>9, TrailersLayout
<1>11. Steady(Len(out) + 1) <=> Current.trailers <= 1
  BY <1>0, <1>2, SteadyNext
<1>12. ASSUME n < End PROVE AtEmit(got, n)
  <2>1. Len(BodyOf(Current)) \in 0 .. Len(BodyOf(Current))
    BY <1>3
  <2>2. \E x \in 0 .. Len(BodyOf(Current)) : got.body = Kept(Current, x)
    BY <1>5, <2>1
  <2> QED
    BY <1>0, <1>5, <1>12, <2>2, CutEmit
<1>13. ASSUME NEW o \in Nat, Base < o,
              \/ Steady(Len(out) + 1) /\ Reaches(o, End)
              \/ ~ Steady(Len(out) + 1) /\ Lost(o)
       PROVE  AtEmit(got, o)
  BY <1>0, <1>5, <1>13, WholeEmit
<1>14. CASE Current.trailers = 0
  <2>1. T = 0 /\ Steady(Len(out) + 1)
    BY <1>10, <1>11, <1>14
  <2>2. Byte(q + 0, "cr") /\ Byte(q + 0 + 1, "lf") /\ End = q + 2
    BY <1>9, <2>1
  <2>3. \A j \in q .. q + 0 - 1 : j < n => At(j) # "cr"
    OBVIOUS
  <2>4. (q + 0 + 2 <= n => FindCRLF(q) = q + 0) /\ (q + 0 + 2 > n => FindCRLF(q) = None)
    <3>1. PICK s \in Nat : s = 0
      OBVIOUS
    <3> QED
      BY <1>0, <2>2, <2>3, <3>1, LineEnd
  <2>5. CASE q + 2 <= n
    <3>1. FindCRLF(q) = q /\ q # None
      BY <2>4, <2>5 DEF None
    <3>2. r = q + 2
      BY <3>1
    <3>3. PICK o \in Nat : o = q + 2
      OBVIOUS
    <3>4. Reaches(o, End) /\ Base < o
      BY <1>0, <1>8, <2>2, <3>3 DEF Reaches
    <3> QED
      BY <1>13, <2>1, <3>2, <3>3, <3>4
  <2>6. CASE q + 2 > n
    BY <1>0, <1>12, <2>2, <2>4, <2>6
  <2> QED
    BY <1>0, <2>5, <2>6
<1>15. CASE Current.trailers >= 1
  <2>1. T >= 3 /\ LineAt(q, "HX") /\ T \in Nat
    BY <1>10, <1>15
  <2>2. (q + 3 <= n => FindCRLF(q) = q + 1) /\ (q + 3 > n => FindCRLF(q) = None)
    BY <1>0, <2>1, OneSymbolLine
  <2>3. CASE q + 3 > n
    <3>1. n < End
      BY <1>0, <1>9, <2>1, <2>3
    <3> QED
      BY <1>12, <2>2, <2>3, <3>1
  <2>4. CASE q + 3 <= n
    <3>1. FindCRLF(q) = q + 1 /\ q + 1 # None /\ (q + 1) + 2 = q + 3
      BY <2>2, <2>4 DEF None
    <3>2. PICK o \in Nat : o = q + 3
      OBVIOUS
    <3>3. r = o /\ Base < o
      BY <1>0, <1>8, <3>1, <3>2
    <3>4. CASE Current.trailers = 1
      <4>1. T = 3 /\ Steady(Len(out) + 1)
        BY <1>10, <1>11, <3>4
      <4>2. End = o + 2 /\ Byte(o, "cr") /\ Byte(o + 1, "lf")
        <5>1. q + 2 + 3 = (q + 3) + 2 /\ q + 3 + 1 = (q + 3) + 1
          OBVIOUS
        <5> QED
          BY <1>9, <3>2, <4>1, <5>1
      <4>3. \A j \in o .. o + 1 : j = o \/ j = o + 1
        OBVIOUS
      <4>4. Reaches(o, End)
        <5>1. End - 1 = o + 1 /\ o <= End
          BY <4>2
        <5> QED
          BY <4>2, <4>3, <5>1 DEF Reaches, Byte, IsBlank
      <4> QED
        BY <1>13, <3>3, <4>1, <4>4
    <3>5. CASE Current.trailers >= 2
      <4>1. LineAt(o, "HX") /\ ~ Steady(Len(out) + 1)
        BY <1>10, <1>11, <3>2, <3>5
      <4> QED
        BY <1>13, <3>3, <4>1 DEF Lost
    <3> QED
      BY <1>10, <1>15, <3>4, <3>5
  <2> QED
    BY <1>0, <2>3, <2>4
<1> QED
  BY <1>10, <1>14, <1>15
(* The bytes of a chunk, and the line end behind them.                     *)
LEMMA DataPlace ==
  ASSUME Working, Current.framing = "chunked", NEW c \in 0 .. Len(Current.chunks) - 1,
         NEW q \in Nat, q = ChunkAt(Base, Current, c) + SizeLength(Current) + 2,
         NEW d, d = Current.chunks[c + 1]
  PROVE  /\ Holds(q, d) /\ Byte(q + Len(d), "cr") /\ Byte(q + Len(d) + 1, "lf")
         /\ ChunkAt(Base, Current, c + 1) = q + Len(d) + 2
<1>0. HttpInv /\ Captured /\ Active /\ Len(Current.chunks) \in Nat
  BY ActiveHolds, BodyPieces DEF Working
<1>1. c \in 0 .. Len(Current.chunks)
  BY <1>0
<1>2. PICK w \in Nat : w = ChunkAt(Base, Current, c)
  BY <1>0, <1>1, ChunkPlace
<1>3. PICK s \in Nat : SizeLength(Current) = s
  BY SizeLengthIs
<1>4. /\ d \in Seq(Symbols) /\ Holds(w + s + 2, d)
      /\ Byte(w + s + 2 + Len(d), "cr") /\ Byte(w + s + 3 + Len(d), "lf")
      /\ ChunkAt(Base, Current, c + 1) = w + s + 4 + Len(d)
  <2>1. DataAt(w, s, d, c)
    BY <1>0, <1>2, <1>3, DataChunkPlace
  <2> QED
    BY <2>1 DEF DataAt
<1>5. PICK l \in Nat : l = Len(d)
  <2>1. PICK y \in Seq(Symbols) : y = d
    BY <1>4
  <2>2. Len(y) \in Nat
    OBVIOUS
  <2> QED
    BY <2>1, <2>2
<1>6. w + s + 3 + l = (w + s + 2) + l + 1 /\ w + s + 4 + l = (w + s + 2) + l + 2
  OBVIOUS
<1>7. q = w + s + 2
  BY <1>2, <1>3
<1> QED
  BY <1>4, <1>5, <1>6, <1>7

(* got is what was there of chunk c + 1, t bytes of l, behind x others.     *)
Taken(got, q, l, t, c, x) ==
  /\ Upto(Current.chunks, c + 1) = x + l /\ x + t <= Len(BodyOf(Current))
  /\ got.body = Kept(Current, x + t)
  /\ got.chunked = TRUE
  /\ t > 0 => got.bodyTruncated = (x + t > kMaxBody)
  /\ ChunkAt(Base, Current, c + 1) = q + l + 2
  /\ Byte(q + l, "cr") /\ Byte(q + l + 1, "lf")

(* What is taken of a chunk extends the body by what the peer sent.        *)
LEMMA ChunkTaken ==
  ASSUME Working, NEW got \in CappedMsg, NEW q \in Nat, NEW l \in Nat, AtChunk(got, q, l), l # 0,
         NEW t \in Nat, t <= l, q + t <= n
  PROVE  \E c \in 0 .. Len(Current.chunks) - 1, x \in Nat :
           Taken(Appended(got, Slice(q, q + t)), q, l, t, c, x)
<1>0. /\ HttpInv /\ Captured /\ Active /\ Current \in Messages /\ n \in Nat
      /\ Base \in Nat /\ buf \in Seq(Symbols) /\ Len(Current.chunks) \in Nat
  BY ActiveHolds, BodyPieces DEF Working
<1>1. PICK c \in 0 .. Len(Current.chunks) :
        /\ got.body = Kept(Current, Upto(Current.chunks, c))
        /\ got.bodyTruncated = (Upto(Current.chunks, c) > kMaxBody)
        /\ c < Len(Current.chunks) /\ l = Len(Current.chunks[c + 1])
        /\ q = ChunkAt(Base, Current, c) + SizeLength(Current) + 2
  BY DEF AtChunk
<1>2. Current.framing = "chunked" /\ got.chunked = TRUE
  BY DEF AtChunk
<1>3. c \in 0 .. Len(Current.chunks) - 1
  BY <1>0, <1>1
<1>4. PICK msg \in Messages, d \in Seq(Symbols), x \in Nat :
        /\ msg = Current /\ d = Current.chunks[c + 1] /\ x = Upto(Current.chunks, c)
        /\ Upto(Current.chunks, c + 1) = x + Len(d) /\ x + Len(d) <= Len(BodyOf(msg))
        /\ \A j \in 1 .. Len(d) : BodyOf(msg)[x + j] = d[j]
  <2>1. PICK msg \in Messages : msg = Current
    BY <1>0
  <2>2. PICK k \in 0 .. Len(msg.chunks) - 1 : k = c
    BY <1>3, <2>1
  <2>3. /\ msg.chunks[k + 1] \in Seq(Symbols) /\ Upto(msg.chunks, k) \in Nat
        /\ Upto(msg.chunks, k + 1) = Upto(msg.chunks, k) + Len(msg.chunks[k + 1])
        /\ Upto(msg.chunks, k + 1) <= Len(BodyOf(msg))
        /\ \A j \in 1 .. Len(msg.chunks[k + 1]) :
             BodyOf(msg)[Upto(msg.chunks, k) + j] = msg.chunks[k + 1][j]
    BY ChunkBytes
  <2>4. PICK d \in Seq(Symbols), x \in Nat : d = msg.chunks[k + 1] /\ x = Upto(msg.chunks, k)
    BY <2>3
  <2>5. /\ Upto(msg.chunks, k + 1) = x + Len(d) /\ x + Len(d) <= Len(BodyOf(msg))
        /\ \A j \in 1 .. Len(d) : BodyOf(msg)[x + j] = d[j]
    BY <2>3, <2>4
  <2> QED
    BY <2>1, <2>2, <2>4, <2>5
<1>7. l = Len(d)
  BY <1>1, <1>4
<1>8. /\ Holds(q, d) /\ Byte(q + l, "cr") /\ Byte(q + l + 1, "lf")
      /\ ChunkAt(Base, Current, c + 1) = q + l + 2
  <2>1. PICK y : y = Current.chunks[c + 1]
    OBVIOUS
  <2>2. /\ Holds(q, y) /\ Byte(q + Len(y), "cr") /\ Byte(q + Len(y) + 1, "lf")
        /\ ChunkAt(Base, Current, c + 1) = q + Len(y) + 2
    BY <1>1, <1>2, <1>3, <2>1, DataPlace
  <2> QED
    BY <1>4, <1>7, <2>1, <2>2
<1>9. PICK piece \in Seq(Symbols) :
        piece = Slice(q, q + t) /\ Len(piece) = t /\ \A j \in 1 .. t : piece[j] = d[j]
  <2>1. t <= Len(d)
    BY <1>7
  <2> QED
    BY <1>0, <1>8, <2>1, SliceHolds
<1>10. x + t <= Len(BodyOf(msg))
  <2>1. PICK L \in Nat : L = Len(BodyOf(msg))
    BY BodyPieces
  <2>2. x + l <= L
    BY <1>4, <1>7, <2>1
  <2>3. x + t <= L
    BY <2>2
  <2> QED
    BY <2>1, <2>3
<1>11. \A j \in 1 .. Len(piece) : piece[j] = BodyOf(msg)[x + j]
  <2>1. \A j \in 1 .. t : j \in 1 .. l
    OBVIOUS
  <2> QED
    BY <1>4, <1>7, <1>9, <2>1
<1>12. /\ Appended(got, piece).body = Kept(msg, x + Len(piece))
       /\ Appended(got, piece).chunked = got.chunked
       /\ (Len(piece) > 0 \/ x < kMaxBody) /\ got.bodyTruncated = (x > kMaxBody)
              => Appended(got, piece).bodyTruncated = (x + Len(piece) > kMaxBody)
  <2>1. got.body = Kept(msg, x) /\ x + Len(piece) <= Len(BodyOf(msg))
    BY <1>1, <1>4, <1>9, <1>10
  <2> QED
    BY <1>11, <2>1, AppendedKept
<1>13. /\ Appended(got, piece).body = Kept(msg, x + t)
       /\ Appended(got, piece).chunked = TRUE
       /\ t > 0 => Appended(got, piece).bodyTruncated = (x + t > kMaxBody)
  BY <1>1, <1>2, <1>4, <1>9, <1>12
<1>14. Upto(Current.chunks, c + 1) = x + l
  BY <1>4, <1>7
<1> QED
  BY <1>3, <1>4, <1>8, <1>9, <1>10, <1>13, <1>14 DEF Taken

(* A chunk that is cut.                                                    *)
LEMMA ChunkCutEmit ==
  ASSUME Working, NEW got \in CappedMsg, NEW q \in Nat, NEW l \in Nat, AtChunk(got, q, l), l # 0,
         q <= n, q + l > n
  PROVE  AtEmit(Appended(got, Slice(q, n)), n)
<1>0. /\ HttpInv /\ Captured /\ Active /\ Current \in Messages /\ n \in Nat /\ End \in Nat
      /\ off < n /\ Len(Current.chunks) \in Nat /\ Len(BodyOf(Current)) \in Nat
  BY ActiveHolds, BodyPieces DEF Working
<1>1. Current.framing = "chunked"
  BY DEF AtChunk
<1>2. PICK t \in Nat : q + t = n /\ t <= l
  <2>1. n - q \in Nat /\ q + (n - q) = n /\ n - q <= l
    BY <1>0
  <2> QED
    BY <2>1
<1>3. PICK c \in 0 .. Len(Current.chunks) - 1, x \in Nat :
           /\ x + t <= Len(BodyOf(Current))
           /\ Appended(got, Slice(q, q + t)).body = Kept(Current, x + t)
           /\ Appended(got, Slice(q, q + t)).chunked = TRUE
           /\ ChunkAt(Base, Current, c + 1) = q + l + 2
  <2>1. q + t <= n
    BY <1>0, <1>2
  <2>2. \E c \in 0 .. Len(Current.chunks) - 1, x \in Nat :
           Taken(Appended(got, Slice(q, q + t)), q, l, t, c, x)
    BY <1>2, <2>1, ChunkTaken
  <2> QED
    BY <2>2 DEF Taken
<1>4. n < End
  <2>1. c + 1 \in 0 .. Len(Current.chunks)
    BY <1>0, <1>3
  <2>2. ChunkAt(Base, Current, c + 1) + 5 <= End
    BY <1>0, <1>1, <2>1, ChunkPlace
  <2>3. (q + l + 2) + 5 <= End
    BY <1>3, <2>2
  <2> QED
    BY <1>0, <2>3
<1>5. PICK new : new = Appended(got, Slice(q, n))
  OBVIOUS
<1>6. new.chunked = (Current.framing = "chunked") /\ new.body = Kept(Current, x + t)
  BY <1>1, <1>2, <1>3, <1>5
<1>7. x + t \in 0 .. Len(BodyOf(Current))
  BY <1>0, <1>3
<1>8. \E y \in 0 .. Len(BodyOf(Current)) : new.body = Kept(Current, y)
  BY <1>6, <1>7
<1>9. AtEmit(new, n)
  BY <1>0, <1>4, <1>6, <1>8, CutEmit
<1> QED
  BY <1>5, <1>9

(* A whole chunk, with the line end behind it or as much of it as there is.*)
LEMMA ChunkToSize ==
  ASSUME Working, NEW got \in CappedMsg, NEW q \in Nat, NEW l \in Nat, AtChunk(got, q, l), l # 0,
         q + l <= n, NEW r, r = IF q + l + 2 <= n /\ IsCRLF(q + l) THEN q + l + 2 ELSE q + l
  PROVE  AtSize(Appended(got, Slice(q, q + l)), r)
<1>0. /\ Current \in Messages /\ n \in Nat /\ Len(Current.chunks) \in Nat
  BY ActiveHolds, BodyPieces DEF Working
<1>1. Current.framing = "chunked"
  BY DEF AtChunk
<1>2. PICK c \in 0 .. Len(Current.chunks) - 1, x \in Nat :
           /\ Upto(Current.chunks, c + 1) = x + l
           /\ Appended(got, Slice(q, q + l)).body = Kept(Current, x + l)
           /\ Appended(got, Slice(q, q + l)).chunked = TRUE
           /\ l > 0 => Appended(got, Slice(q, q + l)).bodyTruncated = (x + l > kMaxBody)
           /\ ChunkAt(Base, Current, c + 1) = q + l + 2
           /\ Byte(q + l, "cr") /\ Byte(q + l + 1, "lf")
  <2>1. PICK t \in Nat : t = l /\ t <= l
    OBVIOUS
  <2>2. \E c \in 0 .. Len(Current.chunks) - 1, x \in Nat :
           Taken(Appended(got, Slice(q, q + t)), q, l, t, c, x)
    BY <2>1, ChunkTaken
  <2> QED
    BY <2>1, <2>2 DEF Taken
<1>3. l > 0
  OBVIOUS
<1>4. \/ r = ChunkAt(Base, Current, c + 1)
      \/ r + 2 = ChunkAt(Base, Current, c + 1) /\ n <= r + 1
  <2>1. CASE q + l + 2 <= n
    <3>1. q + l < n /\ q + l + 1 < n
      BY <1>0, <2>1
    <3>2. IsCRLF(q + l)
      BY <1>2, <3>1 DEF Byte, IsCRLF
    <3> QED
      BY <1>2, <2>1, <3>2
  <2>2. CASE ~ (q + l + 2 <= n)
    <3>1. r = q + l
      BY <2>2
    <3>2. PICK o \in Nat : o = q + l
      OBVIOUS
    <3>3. n <= o + 1
      BY <1>0, <2>2, <3>2
    <3> QED
      BY <1>2, <3>1, <3>2, <3>3
  <2> QED
    BY <2>1, <2>2
<1>5. c + 1 \in 0 .. Len(Current.chunks)
  BY <1>0, <1>2
<1>6. PICK new : new = Appended(got, Slice(q, q + l))
  OBVIOUS
<1>7. /\ new.body = Kept(Current, Upto(Current.chunks, c + 1)) /\ new.chunked = TRUE
      /\ new.bodyTruncated = (Upto(Current.chunks, c + 1) > kMaxBody)
  BY <1>2, <1>3, <1>6
<1>8. AtSize(new, r)
  BY <1>1, <1>4, <1>5, <1>7 DEF AtSize
<1> QED
  BY <1>6, <1>8
-----------------------------------------------------------------------------
(* The other bodies.                                                       *)

(* What is taken of a body that is read in one piece.                      *)
LEMMA PieceTaken ==
  ASSUME Working, NEW got \in CappedMsg, Empty(got), NEW q \in Nat, NEW t \in Nat, q + t <= n,
         t <= Len(BodyOf(Current)), Holds(q, BodyOf(Current))
  PROVE  /\ Appended(got, Slice(q, q + t)).body = Kept(Current, t)
         /\ Appended(got, Slice(q, q + t)).chunked = FALSE
         /\ Appended(got, Slice(q, q + t)).bodyTruncated = (t > kMaxBody)
         /\ Appended(got, Slice(q, q + t)) \in CappedMsg
<1>0. PICK msg \in Messages, B \in Seq(Symbols) :
        /\ msg = Current /\ B = BodyOf(msg) /\ buf \in Seq(Symbols) /\ n \in Nat
  <2>1. Current \in Messages /\ buf \in Seq(Symbols) /\ n \in Nat
    BY ActiveHolds DEF Working
  <2>2. BodyOf(Current) \in Seq(Symbols)
    BY <2>1, BodyPieces
  <2> QED
    BY <2>1, <2>2
<1>1. kMaxBody \in Nat /\ 0 < kMaxBody
  BY HttpAssumption
<1>2. PICK piece \in Seq(Symbols) :
        piece = Slice(q, q + t) /\ Len(piece) = t /\ \A j \in 1 .. t : piece[j] = B[j]
  <2>1. t <= Len(B) /\ Holds(q, B)
    BY <1>0
  <2> QED
    BY <1>0, <2>1, SliceHolds
<1>3. got.body = Kept(msg, 0)
  <2>1. Least(0, kMaxBody) = 0
    BY <1>1 DEF Least
  <2>2. SubSeq(B, 1, 0) = <<>>
    BY WholeAndNothing
  <2> QED
    BY <1>0, <2>1, <2>2 DEF Kept, Empty
<1>4. PICK x \in Nat : x = 0
  OBVIOUS
<1>5. x + Len(piece) <= Len(BodyOf(msg)) /\ x + Len(piece) = t
  BY <1>0, <1>2, <1>4
<1>6. \A j \in 1 .. Len(piece) : piece[j] = BodyOf(msg)[x + j]
  <2>1. \A j \in 1 .. t : x + j = j
    BY <1>4
  <2> QED
    BY <1>0, <1>2, <2>1
<1>7. got.body = Kept(msg, x)
  BY <1>3, <1>4
<1>8. /\ Appended(got, piece).body = Kept(msg, x + Len(piece))
      /\ Appended(got, piece).chunked = got.chunked
      /\ (Len(piece) > 0 \/ x < kMaxBody) /\ got.bodyTruncated = (x > kMaxBody)
           => Appended(got, piece).bodyTruncated = (x + Len(piece) > kMaxBody)
  BY <1>5, <1>6, <1>7, AppendedKept
<1>9. got.bodyTruncated = (x > kMaxBody) /\ x < kMaxBody
  <2>1. x < kMaxBody /\ (x > kMaxBody) = FALSE
    BY <1>1, <1>4
  <2>2. got.bodyTruncated = FALSE
    BY DEF Empty
  <2> QED
    BY <2>1, <2>2
<1>10. Appended(got, piece) \in CappedMsg
  BY AppendedType
<1>11. got.chunked = FALSE
  BY DEF Empty
<1> QED
  BY <1>0, <1>2, <1>5, <1>8, <1>9, <1>10, <1>11

(* A body of a known length.                                               *)
LEMMA LengthEmit ==
  ASSUME Working, NEW got \in CappedMsg, NEW q \in Nat, NEW l \in Nat, AtLength(got, q, l), q <= n,
         NEW t, t = Min({l, n - q}),
         NEW new, new = [Appended(got, Slice(q, q + t)) EXCEPT !.bodyTruncated = @ \/ t < l, !.bodyBytes = t]
  PROVE  AtEmit(new, q + t)
<1>0. /\ HttpInv /\ Captured /\ Active /\ Current \in Messages /\ n \in Nat /\ End \in Nat
      /\ Base \in Nat /\ off = Base /\ off < n /\ asResponse \in BOOLEAN
      /\ Holds(Base, Encoded(Current, asResponse)) /\ End = Base + Len(Encoded(Current, asResponse))
  BY ActiveHolds DEF Working
<1>1. Current.framing = "length" /\ Empty(got) /\ l = Len(BodyOf(Current)) /\ q = Base + 12
  BY DEF AtLength
<1>2. Holds(q, BodyOf(Current)) /\ End = q + l
  <2>1. PICK msg \in Messages, b \in Nat : msg = Current /\ b = Base
    BY <1>0
  <2>2. msg.framing = "length" /\ Holds(b, Encoded(msg, asResponse))
    BY <1>0, <1>1, <2>1
  <2>3. Holds(b + 12, BodyOf(msg)) /\ b + Len(Encoded(msg, asResponse)) = b + 12 + Len(BodyOf(msg))
    BY <1>0, <2>2, LengthLayout
  <2> QED
    BY <1>0, <1>1, <2>1, <2>3
<1>3. PICK k \in Nat : k = t /\ k <= l /\ q + k <= n /\ (k = l \/ (q + k = n /\ k < l))
  <2>1. PICK u \in Nat : u = n - q
    BY <1>0
  <2>2. Min({l, u}) \in {l, u} /\ Min({l, u}) <= l /\ Min({l, u}) <= u
    BY MinOfTwo
  <2>3. PICK k \in Nat : k = Min({l, u})
    BY <2>2
  <2>4. k = t /\ (k = l \/ k = u) /\ k <= l /\ k <= u
    BY <2>1, <2>2, <2>3
  <2>5. q + k <= n /\ (k = l \/ (q + k = n /\ k < l))
    BY <1>0, <2>1, <2>4
  <2> QED
    BY <2>4, <2>5
<1>4. PICK a \in CappedMsg :
        /\ a = Appended(got, Slice(q, q + k)) /\ a.body = Kept(Current, k) /\ a.chunked = FALSE
        /\ a.bodyTruncated = (k > kMaxBody)
  <2>1. k <= Len(BodyOf(Current)) /\ Empty(got) /\ q + k <= n /\ Holds(q, BodyOf(Current))
    BY <1>1, <1>2, <1>3
  <2> HIDE DEF Working
  <2>2. /\ Appended(got, Slice(q, q + k)).body = Kept(Current, k)
        /\ Appended(got, Slice(q, q + k)).chunked = FALSE
        /\ Appended(got, Slice(q, q + k)).bodyTruncated = (k > kMaxBody)
        /\ Appended(got, Slice(q, q + k)) \in CappedMsg
    BY <2>1, PieceTaken
  <2> QED
    BY <2>2
<1>5. new.body = Kept(Current, k) /\ new.chunked = FALSE /\ new.bodyTruncated = (a.bodyTruncated \/ k < l)
  <2>1. new = [a EXCEPT !.bodyTruncated = @ \/ k < l, !.bodyBytes = k]
    BY <1>3, <1>4
  <2>2. a \in MsgType
    BY DEF CappedMsg
  <2> HIDE <1>4
  <2>3. new.body = a.body /\ new.chunked = a.chunked /\ new.bodyTruncated = (a.bodyTruncated \/ k < l)
    BY <2>1, <2>2 DEF MsgType
  <2> QED
    BY <1>4, <2>3
<1>6. new.chunked = (Current.framing = "chunked")
  BY <1>1, <1>5
<1>7. CASE k = l
  <2>1. PICK o \in Nat : o = q + k
    OBVIOUS
  <2>2. o = End /\ off < o /\ Reaches(o, End)
    <3>1. o = End
      BY <1>2, <1>7, <2>1
    <3>2. PICK b \in Nat : b = off /\ q = b + 12
      BY <1>0, <1>1
    <3>3. b < o
      BY <2>1, <3>2
    <3>4. o <= o /\ \A j \in o .. o - 1 : FALSE
      OBVIOUS
    <3> QED
      BY <3>1, <3>2, <3>3, <3>4 DEF Reaches
  <2>3. Steady(Len(out) + 1)
    BY <1>0, <1>1, SteadyNext
  <2>4. new.body = Kept(Current, Len(BodyOf(Current))) /\ new.bodyTruncated = (Len(BodyOf(Current)) > kMaxBody)
    <3>1. (k < l) = FALSE
      BY <1>7
    <3>2. new.bodyTruncated = (k > kMaxBody)
      <4>0. (k > kMaxBody) \in BOOLEAN
        BY <1>3, HttpAssumption
      <4>1. PICK f \in BOOLEAN : f = (k > kMaxBody)
        BY <4>0, Zenon
      <4>2. new.bodyTruncated = (f \/ FALSE)
        BY <1>4, <1>5, <3>1, <4>1
      <4>3. (f \/ FALSE) = f
        BY <4>1
      <4> QED
        BY <4>1, <4>2, <4>3
    <3> QED
      BY <1>1, <1>5, <1>7, <3>2
  <2>5. AtEmit(new, o)
    BY <1>0, <1>6, <2>2, <2>3, <2>4, WholeEmit
  <2> QED
    BY <1>3, <2>1, <2>5
<1>8. CASE q + k = n /\ k < l
  <2>1. n < End
    BY <1>0, <1>2, <1>8
  <2>2. k \in 0 .. Len(BodyOf(Current))
    BY <1>1, <1>3
  <2>3. \E y \in 0 .. Len(BodyOf(Current)) : new.body = Kept(Current, y)
    BY <1>5, <2>2
  <2>4. AtEmit(new, n)
    BY <1>0, <1>6, <2>1, <2>3, CutEmit
  <2> QED
    BY <1>3, <1>8, <2>4
<1> QED
  BY <1>3, <1>7, <1>8

(* A response without a length has the rest of the capture as its body.    *)
LEMMA RestEmit ==
  ASSUME Working, NEW got \in CappedMsg, NEW q \in Nat, AtRest(got, q), q <= n, asResponse = TRUE,
         NEW new, new = [Appended(got, Slice(q, n)) EXCEPT !.bodyBytes = n - q]
  PROVE  AtEmit(new, n)
<1>0. /\ HttpInv /\ Captured /\ Active /\ Current \in Messages /\ n \in Nat /\ End \in Nat
      /\ Base \in Nat /\ off = Base /\ off < n /\ asResponse \in BOOLEAN
      /\ Holds(Base, Encoded(Current, asResponse)) /\ End = Base + Len(Encoded(Current, asResponse))
      /\ (Current.framing = "close" => n <= End) /\ (Current.framing = "none" => ~ asResponse)
  BY ActiveHolds DEF Working
<1>1. Current.framing = "close" /\ Empty(got) /\ q = Base + 5 /\ n <= End
  BY <1>0 DEF AtRest
<1>2. Holds(q, BodyOf(Current)) /\ End = q + Len(BodyOf(Current)) /\ Len(BodyOf(Current)) \in Nat
  <2>1. PICK msg \in Messages, b \in Nat : msg = Current /\ b = Base
    BY <1>0
  <2>2. msg.framing \in {"close", "none"} /\ Holds(b, Encoded(msg, asResponse))
    BY <1>0, <1>1, <2>1
  <2>3. Holds(b + 5, BodyOf(msg)) /\ b + Len(Encoded(msg, asResponse)) = b + 5 + Len(BodyOf(msg))
    BY <1>0, <2>2, PlainLayout
  <2>4. Len(BodyOf(msg)) \in Nat
    BY BodyPieces
  <2> QED
    BY <1>0, <1>1, <2>1, <2>3, <2>4
<1>3. PICK k \in Nat : q + k = n /\ k <= Len(BodyOf(Current)) /\ q + k <= n
  <2>1. n - q \in Nat /\ q + (n - q) = n
    BY <1>0
  <2>2. PICK k \in Nat, L \in Nat : q + k = n /\ L = Len(BodyOf(Current))
    BY <1>2, <2>1
  <2>3. PICK e \in Nat : e = End /\ e = q + L /\ n <= e /\ n \in Nat
    BY <1>0, <1>1, <1>2, <2>2
  <2>4. k <= L
    <3>1. q + k <= q + L
      BY <2>2, <2>3
    <3> QED
      BY <3>1
  <2> QED
    BY <1>0, <2>2, <2>4
<1>4. PICK a \in CappedMsg :
        /\ a = Appended(got, Slice(q, q + k)) /\ a.body = Kept(Current, k) /\ a.chunked = FALSE
        /\ a.bodyTruncated = (k > kMaxBody)
  BY <1>1, <1>2, <1>3, PieceTaken
<1>5. new.body = a.body /\ new.chunked = a.chunked /\ new.bodyTruncated = a.bodyTruncated
  <2>1. new = [a EXCEPT !.bodyBytes = n - q]
    BY <1>3, <1>4
  <2>2. a \in MsgType
    BY DEF CappedMsg
  <2> HIDE <1>4
  <2> QED
    BY <2>1, <2>2 DEF MsgType
<1>6. new.chunked = (Current.framing = "chunked")
  BY <1>1, <1>4, <1>5
<1>7. CASE n = End
  <2>1. Reaches(n, End)
    <3>1. PICK e \in Nat : e = n
      BY <1>0
    <3>2. e <= e /\ \A j \in e .. e - 1 : FALSE
      OBVIOUS
    <3> QED
      BY <1>7, <3>1, <3>2 DEF Reaches
  <2>2. Steady(Len(out) + 1)
    BY <1>0, <1>1, SteadyNext
  <2>3. k = Len(BodyOf(Current))
    BY <1>0, <1>2, <1>3, <1>7
  <2>4. new.body = Kept(Current, Len(BodyOf(Current))) /\ new.bodyTruncated = (Len(BodyOf(Current)) > kMaxBody)
    BY <1>4, <1>5, <2>3
  <2> QED
    BY <1>0, <1>6, <2>1, <2>2, <2>4, WholeEmit
<1>8. CASE n < End
  <2>1. k \in 0 .. Len(BodyOf(Current))
    BY <1>2, <1>3
  <2>2. \E y \in 0 .. Len(BodyOf(Current)) : new.body = Kept(Current, y)
    BY <1>4, <1>5, <2>1
  <2> QED
    BY <1>0, <1>6, <1>8, <2>2, CutEmit
<1>9. n \in Nat /\ End \in Nat /\ n <= End
  BY <1>0, <1>1
<1>10. n = End \/ n < End
  BY <1>9
<1> QED
  BY <1>7, <1>8, <1>10

(* A request without a length has none.                                    *)
LEMMA NothingEmit ==
  ASSUME Working, NEW got, NEW q \in Nat, AtRest(got, q), asResponse = FALSE
  PROVE  AtEmit(got, q)
<1>0. /\ HttpInv /\ Captured /\ Active /\ Current \in Messages /\ n \in Nat /\ End \in Nat
      /\ Base \in Nat /\ off = Base /\ off < n /\ asResponse \in BOOLEAN
      /\ Holds(Base, Encoded(Current, asResponse)) /\ End = Base + Len(Encoded(Current, asResponse))
      /\ (Current.framing = "close" => asResponse)
  BY ActiveHolds DEF Working
<1>1. Current.framing = "none" /\ Empty(got) /\ q = Base + 5
  BY <1>0 DEF AtRest
<1>2. BodyOf(Current) = <<>> /\ BodyOf(Current) \in Seq(Symbols) /\ End = q + Len(BodyOf(Current))
  <2>1. PICK msg \in Messages, b \in Nat : msg = Current /\ b = Base
    BY <1>0
  <2>2. msg.framing \in {"close", "none"} /\ Holds(b, Encoded(msg, asResponse))
    BY <1>0, <1>1, <2>1
  <2>3. /\ BodyOf(msg) \in Seq(Symbols) /\ (msg.framing = "none" => BodyOf(msg) = <<>>)
        /\ b + Len(Encoded(msg, asResponse)) = b + 5 + Len(BodyOf(msg))
    BY <1>0, <2>2, PlainLayout
  <2> QED
    BY <1>0, <1>1, <2>1, <2>3
<1>3. Len(BodyOf(Current)) = 0 /\ End = q
  BY <1>0, <1>2
<1>4. Kept(Current, 0) = <<>>
  <2>1. Least(0, kMaxBody) = 0
    BY HttpAssumption DEF Least
  <2>2. SubSeq(BodyOf(Current), 1, 0) = <<>>
    BY <1>2, WholeAndNothing
  <2> QED
    BY <2>1, <2>2 DEF Kept
<1>5. ~ (0 > kMaxBody)
  BY HttpAssumption
<1>6. /\ got.body = Kept(Current, Len(BodyOf(Current))) /\ got.chunked = (Current.framing = "chunked")
      /\ got.bodyTruncated = (Len(BodyOf(Current)) > kMaxBody)
  <2>1. got.body = <<>> /\ got.chunked = FALSE /\ got.bodyTruncated = FALSE
    BY <1>1 DEF Empty
  <2>2. (Current.framing = "chunked") = FALSE
    BY <1>1
  <2>3. (Len(BodyOf(Current)) > kMaxBody) = FALSE
    BY <1>3, <1>5
  <2> QED
    BY <1>3, <1>4, <2>1, <2>2, <2>3
<1>7. Reaches(q, End) /\ off < q
  BY <1>0, <1>1, <1>3 DEF Reaches
<1>8. Steady(Len(out) + 1)
  BY <1>0, <1>1, SteadyNext
<1> QED
  BY <1>0, <1>6, <1>7, <1>8, WholeEmit
-----------------------------------------------------------------------------
(* The head of a message.                                                  *)

(* What is captured of the head, by the framing.                           *)
LEMMA HeadLayout ==
  ASSUME HttpInv, Captured, Active
  PROVE  /\ Current.framing \in {"chunked", "length", "close", "none"}
         /\ LineAt(Base, Start)
         /\ Current.framing = "chunked" => ChunkedHead(Base) /\ Base + 8 <= End
         /\ Current.framing = "length" =>
              LengthHead(Base, Len(BodyOf(Current))) /\ Len(BodyOf(Current)) \in 0 .. 3 /\ Base + 12 <= End
         /\ Current.framing \in {"close", "none"} => PlainHead(Base) /\ Base + 5 <= End
<1>0. PICK msg \in Messages, b \in Nat, e \in Nat :
        /\ msg = Current /\ b = Base /\ e = End /\ n \in Nat /\ asResponse \in BOOLEAN
        /\ e = b + Len(Encoded(msg, asResponse)) /\ Holds(b, Encoded(msg, asResponse))
  BY ActiveHolds
<1>1. msg.framing \in {"chunked", "length", "close", "none"}
  BY MessageAssumption
<1>2. LineAt(b, Start)
  BY <1>0, StartLayout
<1>3. ASSUME msg.framing = "chunked" PROVE ChunkedHead(b) /\ b + 8 <= e
  <2>1. PICK z : z = ChunkAt(b, msg, Len(msg.chunks))
    OBVIOUS
  <2>2. ChunkedHead(b)
    BY <1>0, <1>3, <2>1, ChunkedLayout
  <2>3. Current.framing = "chunked"
    BY <1>0, <1>3
  <2>4. Len(Current.chunks) \in 0 .. Len(Current.chunks)
    <3>1. Len(Current.chunks) \in Nat
      BY <1>0, BodyPieces
    <3> QED
      BY <3>1
  <2>5. PICK w \in Nat : Base + 8 <= w /\ w + 5 <= End
    BY <2>3, <2>4, ChunkPlace
  <2>6. b + 8 <= w /\ w + 5 <= e
    BY <1>0, <2>5
  <2>7. b + 8 <= e
    BY <2>6
  <2> QED
    BY <2>2, <2>7
<1>4. ASSUME msg.framing = "length"
      PROVE  LengthHead(b, Len(BodyOf(msg))) /\ Len(BodyOf(msg)) \in 0 .. 3 /\ b + 12 <= e
  <2>1. /\ Len(BodyOf(msg)) \in 0 .. 3 /\ LengthHead(b, Len(BodyOf(msg)))
        /\ b + Len(Encoded(msg, asResponse)) = b + 12 + Len(BodyOf(msg))
    BY <1>0, <1>4, LengthLayout
  <2>2. PICK l \in 0 .. 3 : l = Len(BodyOf(msg))
    BY <2>1
  <2>3. e = b + 12 + l
    BY <1>0, <2>1, <2>2
  <2>4. b + 12 <= e
    BY <2>3
  <2> QED
    BY <2>1, <2>4
<1>5. ASSUME msg.framing \in {"close", "none"} PROVE PlainHead(b) /\ b + 5 <= e
  <2>1. PlainHead(b) /\ b + Len(Encoded(msg, asResponse)) = b + 5 + Len(BodyOf(msg))
    BY <1>0, <1>5, PlainLayout
  <2>2. PICK l \in Nat : l = Len(BodyOf(msg))
    BY BodyPieces
  <2>3. e = b + 5 + l
    BY <1>0, <2>1, <2>2
  <2>4. b + 5 <= e
    BY <2>3
  <2> QED
    BY <2>1, <2>4
<1> QED
  BY <1>0, <1>1, <1>2, <1>3, <1>4, <1>5

(* The head of a message that is captured whole is accepted.               *)
LEMMA WholeHeadParses ==
  ASSUME HttpInv, Captured, Active, off = Base, End <= n
  PROVE  HeadParses
<1>0. PICK b \in Nat, e \in Nat :
        b = Base /\ e = End /\ n \in Nat /\ buf \in Seq(Symbols) /\ asResponse \in BOOLEAN
  BY ActiveHolds
<1>1. LineAt(b, Start) /\ Current.framing \in {"chunked", "length", "close", "none"}
  BY <1>0, HeadLayout
<1>2. FindDoubleCRLF(b) # None /\ b + 3 <= n
  <2>1. CASE Current.framing = "chunked"
    <3>1. ChunkedHead(b) /\ b + 8 <= e
      BY <1>0, <2>1, HeadLayout
    <3>2. b + 8 <= n /\ b + 3 <= n /\ b + 4 # None
      BY <1>0, <3>1 DEF None
    <3>3. FindDoubleCRLF(b) = b + 4
      BY <1>0, <3>1, <3>2, ChunkedBlock
    <3> QED
      BY <3>2, <3>3
  <2>2. CASE Current.framing = "length"
    <3>1. PICK l \in 0 .. 3 : LengthHead(b, l) /\ b + 12 <= e
      BY <1>0, <2>2, HeadLayout
    <3>2. b + 12 <= n /\ b + 3 <= n /\ b + 8 # None
      BY <1>0, <3>1 DEF None
    <3>3. FindDoubleCRLF(b) = b + 8
      BY <1>0, <3>1, <3>2, LengthBlock
    <3> QED
      BY <3>2, <3>3
  <2>3. CASE Current.framing \in {"close", "none"}
    <3>1. PlainHead(b) /\ b + 5 <= e
      BY <1>0, <2>3, HeadLayout
    <3>2. b + 5 <= n /\ b + 3 <= n /\ b + 1 # None
      BY <1>0, <3>1 DEF None
    <3>3. FindDoubleCRLF(b) = b + 1
      BY <1>0, <3>1, <3>2, PlainBlock
    <3> QED
      BY <3>2, <3>3
  <2> QED
    BY <1>1, <2>1, <2>2, <2>3
<1>3. LooksLikeStartLine(b) /\ StartLineParses(Slice(b, FindCRLF(b)))
  BY <1>0, <1>1, <1>2, StartParses
<1>4. off = b
  BY <1>0
<1> QED
  BY <1>2, <1>3, <1>4 DEF HeadParses

(* The framing the head is read to have is the one the peer used.          *)
LEMMA HeadRead ==
  ASSUME Working, FindDoubleCRLF(off) # None, NEW h, h = FindDoubleCRLF(off)
  PROVE  \/ Current.framing = "chunked" /\ h = Base + 4 /\ Headers("TE", off, h) # {}
         \/ /\ Current.framing = "length" /\ h = Base + 8
            /\ Headers("TE", off, h) = {} /\ Headers("CL", off, h) = {Base + 6}
            /\ StrToUl(SkipBlanks(Base + 6) + 1, FindCRLF(Base + 6), 10) = Len(BodyOf(Current))
         \/ /\ Current.framing \in {"close", "none"} /\ h = Base + 1
            /\ Headers("TE", off, h) = {} /\ Headers("CL", off, h) = {}
<1>0. PICK b \in Nat :
        /\ b = Base /\ b = off /\ n \in Nat /\ buf \in Seq(Symbols) /\ asResponse \in BOOLEAN
        /\ HttpInv /\ Captured /\ Active
  BY ActiveHolds DEF Working
<1>1. Current.framing \in {"chunked", "length", "close", "none"}
  BY <1>0, HeadLayout
<1>2. h = FindDoubleCRLF(b) /\ FindDoubleCRLF(b) # None
  BY <1>0
<1>3. CASE Current.framing = "chunked"
  <2>1. ChunkedHead(b)
    BY <1>0, <1>3, HeadLayout
  <2>2. /\ b + 8 <= n => FindDoubleCRLF(b) = b + 4 /\ Headers("TE", b, b + 4) # {}
        /\ b + 8 > n => FindDoubleCRLF(b) = None
    BY <1>0, <2>1, ChunkedBlock
  <2>3. b + 8 <= n \/ b + 8 > n
    BY <1>0
  <2>4. h = b + 4 /\ Headers("TE", b, h) # {}
    BY <1>2, <2>2, <2>3
  <2> QED
    BY <1>0, <1>3, <2>4
<1>4. CASE Current.framing = "length"
  <2>1. PICK l \in 0 .. 3 : l = Len(BodyOf(Current)) /\ LengthHead(b, l)
    BY <1>0, <1>4, HeadLayout
  <2>2. /\ b + 12 <= n => /\ FindDoubleCRLF(b) = b + 8
                          /\ Headers("TE", b, b + 8) = {} /\ Headers("CL", b, b + 8) = {b + 6}
                          /\ StrToUl(SkipBlanks(b + 6) + 1, FindCRLF(b + 6), 10) = l
        /\ b + 12 > n => FindDoubleCRLF(b) = None
    BY <1>0, <2>1, LengthBlock
  <2>3. b + 12 <= n \/ b + 12 > n
    BY <1>0
  <2>4. /\ h = b + 8 /\ Headers("TE", b, h) = {} /\ Headers("CL", b, h) = {b + 6}
        /\ StrToUl(SkipBlanks(b + 6) + 1, FindCRLF(b + 6), 10) = l
    BY <1>2, <2>2, <2>3
  <2> QED
    BY <1>0, <1>4, <2>1, <2>4
<1>5. CASE Current.framing \in {"close", "none"}
  <2>1. PlainHead(b)
    BY <1>0, <1>5, HeadLayout
  <2>2. /\ b + 5 <= n => /\ FindDoubleCRLF(b) = b + 1
                         /\ Headers("TE", b, b + 1) = {} /\ Headers("CL", b, b + 1) = {}
        /\ b + 5 > n => FindDoubleCRLF(b) = None
    BY <1>0, <2>1, PlainBlock
  <2>3. b + 5 <= n \/ b + 5 > n
    BY <1>0
  <2>4. h = b + 1 /\ Headers("TE", b, h) = {} /\ Headers("CL", b, h) = {}
    BY <1>2, <2>2, <2>3
  <2> QED
    BY <1>0, <1>5, <2>4
<1> QED
  BY <1>1, <1>3, <1>4, <1>5

(* Behind the head the parser stands at the body, and knows its framing.   *)
LEMMA HeadToBody ==
  ASSUME Working, ParseHead, m = NoMessage
  PROVE  /\ pc' \in {"size", "length", "rest"}
         /\ pc' = "size" => AtSize(m', p')
         /\ pc' = "length" => AtLength(m', p', len')
         /\ pc' = "rest" => AtRest(m', p')
<1>0. PICK b \in Nat : b = Base /\ Current \in Messages /\ kMaxBody \in Nat
  BY ActiveHolds, HttpAssumption DEF Working
<1>1. PICK h : h = FindDoubleCRLF(off)
  OBVIOUS
<1>2. FindDoubleCRLF(off) # None
  BY DEF ParseHead, HeadParses
<1>3. PICK chunked, cls, cl :
        /\ chunked \in BOOLEAN /\ chunked = (Headers("TE", off, h) # {}) /\ cls = Headers("CL", off, h)
        /\ cl = CHOOSE j \in cls : \A k \in cls : j <= k
  OBVIOUS
<1>4. /\ m' = [m EXCEPT !.chunked = chunked] /\ p' = h + 4
      /\ \/ chunked /\ pc' = "size"
         \/ /\ ~ chunked /\ cls # {} /\ pc' = "length"
            /\ len' = StrToUl(SkipBlanks(cl) + 1, FindCRLF(cl), 10)
         \/ ~ chunked /\ cls = {} /\ pc' = "rest"
  BY <1>1, <1>3 DEF ParseHead
<1>5. m'.chunked = chunked /\ m'.body = <<>> /\ m'.bodyTruncated = FALSE
  BY <1>4 DEF NoMessage
<1>6. CASE Current.framing = "chunked" /\ h = b + 4 /\ Headers("TE", off, h) # {}
  <2>1. chunked = TRUE /\ pc' = "size"
    BY <1>3, <1>4, <1>6
  <2>2. p' = b + 8
    BY <1>4, <1>6
  <2>3. Upto(Current.chunks, 0) = 0 /\ BodyOf(Current) \in Seq(Symbols) /\ Len(Current.chunks) \in Nat
    BY <1>0, BodyPieces
  <2>4. 0 \in 0 .. Len(Current.chunks)
    BY <2>3
  <2>5. Kept(Current, 0) = <<>>
    <3>1. Least(0, kMaxBody) = 0
      BY <1>0 DEF Least
    <3>2. SubSeq(BodyOf(Current), 1, 0) = <<>>
      BY <2>3, WholeAndNothing
    <3> QED
      BY <3>1, <3>2 DEF Kept
  <2>6. (0 > kMaxBody) = FALSE
    BY <1>0
  <2>7. ChunkAt(b, Current, 0) = b + 8
    <3>1. Pieces(Current) \in Seq(Seq(Symbols))
      BY <1>0, PiecesType
    <3>2. Upto(Pieces(Current), 0) = 0
      BY <3>1, FirstType
    <3> QED
      BY <3>2 DEF ChunkAt
  <2>8. /\ m'.body = Kept(Current, Upto(Current.chunks, 0))
        /\ m'.bodyTruncated = (Upto(Current.chunks, 0) > kMaxBody)
        /\ p' = ChunkAt(Base, Current, 0)
    BY <1>0, <1>5, <2>2, <2>3, <2>5, <2>6, <2>7
  <2>9. AtSize(m', p')
    BY <1>5, <1>6, <2>1, <2>4, <2>8 DEF AtSize
  <2> QED
    BY <2>1, <2>9
<1>7. CASE /\ Current.framing = "length" /\ h = b + 8
           /\ Headers("TE", off, h) = {} /\ Headers("CL", off, h) = {b + 6}
           /\ StrToUl(SkipBlanks(b + 6) + 1, FindCRLF(b + 6), 10) = Len(BodyOf(Current))
  <2>1. chunked = FALSE /\ cls = {b + 6}
    BY <1>3, <1>7
  <2>2. cl = b + 6
    <3>1. b + 6 <= b + 6
      OBVIOUS
    <3> QED
      BY <1>3, <2>1, <3>1
  <2>3. pc' = "length" /\ len' = Len(BodyOf(Current))
    BY <1>4, <1>7, <2>1, <2>2
  <2>4. p' = b + 12
    BY <1>4, <1>7
  <2>5. AtLength(m', p', len')
    BY <1>0, <1>5, <1>7, <2>1, <2>3, <2>4 DEF AtLength, Empty
  <2> QED
    BY <2>3, <2>5
<1>8. CASE /\ Current.framing \in {"close", "none"} /\ h = b + 1
           /\ Headers("TE", off, h) = {} /\ Headers("CL", off, h) = {}
  <2>1. chunked = FALSE /\ cls = {}
    BY <1>3, <1>8
  <2>2. pc' = "rest"
    BY <1>4, <2>1
  <2>3. p' = b + 5
    BY <1>4, <1>8
  <2>4. AtRest(m', p')
    BY <1>0, <1>5, <1>8, <2>1, <2>3 DEF AtRest, Empty
  <2> QED
    BY <2>2, <2>4
<1> QED
  BY <1>0, <1>1, <1>2, <1>6, <1>7, <1>8, HeadRead
-----------------------------------------------------------------------------
(* Frames: a step changes neither the wire nor the capture.                *)

(* What is said of them alone stays.                                       *)
LEMMA InputFrame ==
  ASSUME UNCHANGED inputVars
  PROVE  /\ n' = n /\ holeAt' = holeAt /\ sent' = sent /\ asResponse' = asResponse /\ buf' = buf
         /\ (\A k : Pre(k)' = Pre(k))
         /\ (\A k : Steady(k)' <=> Steady(k)) /\ (\A k : Seen(k)' <=> Seen(k))
         /\ (\A o : Lost(o)' <=> Lost(o))
         /\ (\A k, o : Between(k, o)' <=> Between(k, o))
         /\ (Captured' <=> Captured)
<1>1. n' = n /\ holeAt' = holeAt /\ sent' = sent /\ asResponse' = asResponse /\ buf' = buf
  BY DEF n, inputVars
<1>2. Wires' = Wires
  BY <1>1 DEF Wires
<1>3. \A k : Pre(k)' = Pre(k)
  BY <1>2 DEF Pre
<1>4. \A k : Steady(k)' <=> Steady(k)
  BY <1>1 DEF Steady
<1>5. \A k : Seen(k)' <=> Seen(k)
  BY <1>1, <1>3 DEF Seen
<1>6. \A o : Lost(o)' <=> Lost(o)
  BY <1>1 DEF Lost, LineAt, Byte, At
<1>7. \A o, e : Reaches(o, e)' <=> Reaches(o, e)
  BY <1>1 DEF Reaches, IsBlank, At
<1>8. ASSUME NEW k, NEW o PROVE Between(k, o)' <=> Between(k, o)
  <2>1. Reaches(o, Pre(k))' <=> Reaches(o, Pre(k))
    <3>1. Reaches(o, Pre(k))' <=> /\ o <= Pre(k)'
                                  /\ \A j \in o .. Pre(k)' - 1 : j < n' => IsBlank(j)'
      BY DEF Reaches
    <3> QED
      BY <1>1, <1>3, <3>1 DEF Reaches, IsBlank, At
  <2> QED
    BY <1>1, <1>4, <1>5, <1>6, <2>1 DEF Between
<1>9. Captured' <=> Captured
  <2>1. Pre(Len(sent))' = Pre(Len(sent))
    BY <1>1, <1>2 DEF Pre
  <2>2. Sendable(sent, asResponse)' <=> Sendable(sent, asResponse)
    BY <1>1
  <2> QED
    BY <1>1, <1>2, <2>1, <2>2 DEF Captured
<1> QED
  BY <1>1, <1>3, <1>4, <1>5, <1>6, <1>8, <1>9

(* With the messages found so far unchanged, the current one is the same.  *)
LEMMA MessageFrame ==
  ASSUME UNCHANGED <<inputVars, out>>
  PROVE  /\ Current' = Current /\ Base' = Base /\ End' = End
         /\ (Active' <=> Active) /\ (Shown' <=> Shown) /\ (InStep' <=> InStep) /\ (Complete' <=> Complete)
<1>0. UNCHANGED inputVars /\ out' = out
  BY DEF inputVars
<1>1. n' = n /\ sent' = sent /\ holeAt' = holeAt
  BY <1>0, InputFrame
<1>2. Wires' = Wires
  BY <1>0 DEF Wires, inputVars
<1>3. Current' = Current
  BY <1>0, <1>1 DEF Current
<1>4. Base' = Base /\ End' = End
  BY <1>0, <1>2 DEF Base, End, Pre
<1>5. Active' <=> Active
  BY <1>0, <1>1, <1>2 DEF Active, Steady, Seen, Pre
<1>6. Shown' <=> Shown
  BY <1>0, <1>1, <1>2 DEF Shown, Steady, Seen, Pre, Shows
<1>7. InStep' <=> InStep
  BY <1>0, <1>1, <1>2 DEF InStep, Steady, Pre
<1>8. Complete' <=> Complete
  BY <1>0, <1>1, <1>2 DEF Complete, Steady, Pre
<1> QED
  BY <1>3, <1>4, <1>5, <1>6, <1>7, <1>8

(* What a step inside a message has to show.                               *)
LEMMA InBodyFrame ==
  ASSUME UNCHANGED <<inputVars, off, out>>, InBody(pc', m', p', len')
  PROVE  InBody(pc, m, p, len)'
<1>0. UNCHANGED <<inputVars, out>> /\ UNCHANGED inputVars /\ off' = off /\ out' = out
  BY DEF inputVars
<1>1. n' = n /\ holeAt' = holeAt
  BY <1>0, InputFrame
<1>2. Current' = Current /\ Base' = Base /\ End' = End /\ (Active' <=> Active)
  BY <1>0, MessageFrame
<1>3. AtSize(m', p') => AtSize(m, p)'
  BY <1>1, <1>2 DEF AtSize
<1>4. AtChunk(m', p', len') => AtChunk(m, p, len)'
  BY <1>1, <1>2 DEF AtChunk
<1>5. AtLength(m', p', len') => AtLength(m, p, len)'
  BY <1>1, <1>2 DEF AtLength, Empty
<1>6. AtRest(m', p') => AtRest(m, p)'
  BY <1>1, <1>2 DEF AtRest, Empty
<1>7. AtEmit(m', p') => AtEmit(m, p)'
  <2>1. Shows(m', Current, End) => Shows(m, Current, End)'
    BY <1>1, <1>2 DEF Shows
  <2>2. Between(Len(out) + 1, p') => Between(Len(out) + 1, p)'
    <3>1. \A k : (Steady(k)' <=> Steady(k)) /\ (Seen(k)' <=> Seen(k)) /\ Pre(k)' = Pre(k)
      BY <1>0, InputFrame
    <3>2. sent' = sent /\ buf' = buf
      BY <1>0, InputFrame
    <3>3. Wires' = Wires
      BY <1>0 DEF Wires, inputVars
    <3> QED
      BY <1>0, <1>1, <3>2, <3>3 DEF Between, Reaches, Lost, LineAt, Byte, IsBlank, At, Steady, Seen, Pre
  <2> QED
    BY <1>0, <2>1, <2>2 DEF AtEmit
<1> QED
  BY <1>0, <1>1, <1>2, <1>3, <1>4, <1>5, <1>6, <1>7 DEF InBody
(* A step inside a message keeps the invariant if its new place is known.  *)
LEMMA BodyStays ==
  ASSUME Captured, Tracked, UNCHANGED <<inputVars, off, out>>,
         pc' \in {"size", "chunk", "length", "rest", "emit"}, InBody(pc', m', p', len')
  PROVE  Captured' /\ Tracked'
<1>0. UNCHANGED <<inputVars, out>> /\ UNCHANGED inputVars
  BY DEF inputVars
<1>1. Captured' /\ Shown' /\ InStep'
  BY <1>0, InputFrame, MessageFrame DEF Tracked
<1>2. InBody(pc, m, p, len)'
  BY InBodyFrame
<1>3. pc' # "scan" /\ pc' # "head" /\ pc' # "done"
  OBVIOUS
<1> QED
  BY <1>1, <1>2, <1>3 DEF Tracked

(* Every action that reads a body knows where it leaves the parser.        *)
LEMMA BodyPlaces ==
  ASSUME HttpInv, Captured, Tracked,
         SizeLineCut \/ SizeLine \/ LastChunk \/ ChunkCut \/ Chunk \/ LengthBody \/ RestBody
  PROVE  /\ UNCHANGED <<inputVars, off, out>>
         /\ pc' \in {"size", "chunk", "length", "rest", "emit"} /\ InBody(pc', m', p', len')
<1>1. UNCHANGED <<inputVars, off, out>> /\ pc' \in {"size", "chunk", "length", "rest", "emit"}
  BY DEF SizeLineCut, SizeLine, LastChunk, ChunkCut, Chunk, LengthBody, RestBody
<1>2. pc \in {"size", "chunk", "length", "rest"}
  BY DEF SizeLineCut, SizeLine, LastChunk, ChunkCut, Chunk, LengthBody, RestBody
<1>3. InBody(pc, m, p, len)
  BY <1>2 DEF Tracked
<1>4. CASE ~ Active
  BY <1>1, <1>3, <1>4 DEF InBody
<1>5. CASE Active
  <2>0. /\ Working
        /\ p \in Nat /\ p <= n /\ len \in Nat /\ m \in CappedMsg /\ asResponse \in BOOLEAN
    <3>1. off = Base /\ off < n
      BY <1>3, <1>5 DEF InBody
    <3>2. n \in Nat
      BY <1>5, ActiveHolds
    <3> QED
      BY <1>5, <3>1, <3>2 DEF Working, HttpInv
  <2>1. SUFFICES /\ pc' = "size" => AtSize(m', p')
                 /\ pc' = "chunk" => AtChunk(m', p', len')
                 /\ pc' = "length" => AtLength(m', p', len')
                 /\ pc' = "rest" => AtRest(m', p')
                 /\ pc' = "emit" => AtEmit(m', p')
    BY <1>1, <1>3, <1>5 DEF InBody
  <2>2. ASSUME SizeLineCut PROVE pc' = "emit" /\ AtEmit(m', p')
    <3>1. AtSize(m, p) /\ FindCRLF(p) = None /\ p' = n /\ pc' = "emit" /\ m' = [m EXCEPT !.bodyTruncated = TRUE]
      BY <1>3, <1>5, <2>2 DEF InBody, SizeLineCut
    <3>2. m'.chunked = m.chunked /\ m'.body = m.body
      BY <2>0, <3>1 DEF CappedMsg, MsgType
    <3>3. PICK new : new = m'
      OBVIOUS
    <3>4. AtEmit(new, n)
      BY <2>0, <3>1, <3>2, <3>3, SizeCutEmit
    <3> QED
      BY <3>1, <3>3, <3>4
  <2>3. ASSUME SizeLine PROVE pc' = "chunk" /\ AtChunk(m', p', len')
    <3>1. /\ AtSize(m, p) /\ FindCRLF(p) # None /\ p' = FindCRLF(p) + 2 /\ pc' = "chunk" /\ m' = m
          /\ len' = StrToUl(p, FindCRLF(p), 16)
      BY <1>3, <1>5, <2>3 DEF InBody, SizeLine
    <3>2. AtChunk(m, FindCRLF(p) + 2, StrToUl(p, FindCRLF(p), 16))
      BY <2>0, <3>1, SizeToChunk
    <3> QED
      BY <3>1, <3>2
  <2>4. ASSUME LastChunk PROVE pc' = "emit" /\ AtEmit(m', p')
    <3>1. /\ AtChunk(m, p, 0) /\ pc' = "emit" /\ m' = m
          /\ p' = IF FindCRLF(p) = None THEN n ELSE FindCRLF(p) + 2
      BY <1>3, <1>5, <2>4 DEF InBody, LastChunk
    <3>2. PICK r : r = p'
      OBVIOUS
    <3>3. AtEmit(m, r)
      BY <2>0, <3>1, <3>2, LastChunkEmit
    <3> QED
      BY <3>1, <3>2, <3>3
  <2>5. ASSUME ChunkCut PROVE pc' = "emit" /\ AtEmit(m', p')
    <3>1. /\ AtChunk(m, p, len) /\ pc' = "emit" /\ len # 0 /\ p + len > n /\ p' = n
          /\ m' = Appended(m, Slice(p, n))
      BY <1>3, <1>5, <2>5 DEF InBody, ChunkCut
    <3>2. AtEmit(Appended(m, Slice(p, n)), n)
      BY <2>0, <3>1, ChunkCutEmit
    <3> QED
      BY <3>1, <3>2
  <2>6. ASSUME Chunk PROVE pc' = "size" /\ AtSize(m', p')
    <3>1. /\ AtChunk(m, p, len) /\ pc' = "size" /\ len # 0 /\ p + len <= n
          /\ p' = (IF p + len + 2 <= n /\ IsCRLF(p + len) THEN p + len + 2 ELSE p + len)
          /\ m' = Appended(m, Slice(p, p + len))
      BY <1>3, <1>5, <2>6 DEF InBody, Chunk
    <3>2. PICK r : r = p'
      OBVIOUS
    <3>3. AtSize(Appended(m, Slice(p, p + len)), r)
      BY <2>0, <3>1, <3>2, ChunkToSize
    <3> QED
      BY <3>1, <3>2, <3>3
  <2>7. ASSUME LengthBody PROVE pc' = "emit" /\ AtEmit(m', p')
    <3>1. PICK t : t = Min({len, n - p})
      OBVIOUS
    <3>2. /\ AtLength(m, p, len) /\ pc' = "emit" /\ p' = p + t
          /\ m' = [Appended(m, Slice(p, p + t)) EXCEPT !.bodyTruncated = @ \/ t < len, !.bodyBytes = t]
      BY <1>3, <1>5, <2>7, <3>1 DEF InBody, LengthBody
    <3>3. PICK new : new = m'
      OBVIOUS
    <3>4. AtEmit(new, p + t)
      BY <2>0, <3>1, <3>2, <3>3, LengthEmit
    <3> QED
      BY <3>2, <3>3, <3>4
  <2>8. ASSUME RestBody PROVE pc' = "emit" /\ AtEmit(m', p')
    <3>1. AtRest(m, p) /\ pc' = "emit"
      BY <1>3, <1>5, <2>8 DEF InBody, RestBody
    <3>2. CASE asResponse = TRUE
      <4>1. p' = n /\ m' = [Appended(m, Slice(p, n)) EXCEPT !.bodyBytes = n - p]
        BY <2>8, <3>2 DEF RestBody
      <4>2. PICK new : new = m'
        OBVIOUS
      <4>3. AtEmit(new, n)
        BY <2>0, <3>1, <3>2, <4>1, <4>2, RestEmit
      <4> QED
        BY <3>1, <4>1, <4>2, <4>3
    <3>3. CASE asResponse = FALSE
      <4>1. p' = p /\ m' = m
        BY <2>8, <3>3 DEF RestBody
      <4>2. AtEmit(m, p)
        BY <2>0, <3>1, <3>3, NothingEmit
      <4> QED
        BY <3>1, <4>1, <4>2
    <3> QED
      BY <2>0, <3>2, <3>3, Zenon
  <2> QED
    BY <2>2, <2>3, <2>4, <2>5, <2>6, <2>7, <2>8
<1> QED
  BY <1>4, <1>5

(* The header block is read.                                               *)
LEMMA HeadPlaces ==
  ASSUME HttpInv, Captured, Tracked, ParseHead
  PROVE  /\ UNCHANGED <<inputVars, off, out>>
         /\ pc' \in {"size", "chunk", "length", "rest", "emit"} /\ InBody(pc', m', p', len')
<1>1. UNCHANGED <<inputVars, off, out>> /\ pc = "head" /\ HeadParses
  BY DEF ParseHead
<1>2. AtHead /\ m = NoMessage
  BY <1>1 DEF Tracked
<1>3. buf \in Seq(Symbols) /\ off \in Nat
  BY EndType DEF HttpInv
<1>4. n = holeAt => Active
  <2>1. off < n
    BY <1>2 DEF AtHead
  <2>2. ~ Lost(off)
    BY <1>1, <1>3, <2>1, LostFails
  <2> QED
    BY <1>2, <2>2 DEF AtHead
<1>5. CASE ~ Active
  <2>1. pc' \in {"size", "length", "rest"}
    BY DEF ParseHead
  <2> QED
    BY <1>1, <1>4, <1>5, <2>1 DEF InBody
<1>6. CASE Active
  <2>1. off = Base /\ off < n
    BY <1>2, <1>6 DEF AtHead
  <2>2. Working
    BY <1>6, <2>1 DEF Working
  <2>3. /\ pc' \in {"size", "length", "rest"}
        /\ pc' = "size" => AtSize(m', p')
        /\ pc' = "length" => AtLength(m', p', len')
        /\ pc' = "rest" => AtRest(m', p')
    BY <1>2, <2>2, HeadToBody
  <2>4. pc' # "chunk" /\ pc' # "emit"
    BY <2>3
  <2> QED
    BY <1>1, <1>4, <2>1, <2>3, <2>4 DEF InBody
<1> QED
  BY <1>5, <1>6
-----------------------------------------------------------------------------
(* From one message to the next.                                           *)

(* What came before a message that was not lost was not lost.              *)
LEMMA ActiveBefore ==
  ASSUME HttpInv, Captured, Active
  PROVE  /\ Seen(Len(out)) /\ Steady(Len(out)) /\ Len(out) < Len(sent) /\ Base < End
         /\ (Base < n => ~ IsBlank(Base))
<1>0. /\ sent \in Seq(Messages) /\ asResponse \in BOOLEAN /\ n \in Nat /\ holeAt \in 0 .. n
      /\ Len(sent) \in Nat /\ Len(out) \in Nat
  BY EndType DEF HttpInv, Captured
<1>1. Len(out) < Len(sent) /\ Steady(Len(out)) /\ Seen(Len(out) + 1)
  BY DEF Active
<1>2. PICK b \in Nat, e \in Nat : b = Base /\ e = End
  BY ActiveHolds
<1>3. b < e
  <2>1. /\ Current.framing \in {"chunked", "length", "close", "none"}
        /\ Current.framing = "chunked" => Base + 8 <= End
        /\ Current.framing = "length" => Base + 12 <= End
        /\ Current.framing \in {"close", "none"} => Base + 5 <= End
    BY HeadLayout
  <2>2. Base + 8 <= End \/ Base + 12 <= End \/ Base + 5 <= End
    BY <2>1
  <2>3. b + 8 <= e \/ b + 12 <= e \/ b + 5 <= e
    BY <1>2, <2>2
  <2> QED
    BY <2>3
<1>4. Seen(Len(out))
  <2>1. Pre(Len(out) + 1) = e /\ Pre(Len(out)) = b
    BY <1>2 DEF Base, End
  <2>2. n = holeAt \/ e <= holeAt
    BY <1>1, <2>1 DEF Seen
  <2>3. n = holeAt \/ b <= holeAt
    BY <1>0, <1>3, <2>2
  <2> QED
    BY <2>1, <2>3 DEF Seen
<1>5. ASSUME Base < n PROVE ~ IsBlank(Base)
  <2>1. LineAt(Base, Start)
    BY HeadLayout
  <2>2. At(Base) = Start
    BY <1>5, <2>1 DEF LineAt, Byte
  <2> QED
    BY <2>2, StartIs DEF IsBlank
<1> QED
  BY <1>1, <1>2, <1>3, <1>4, <1>5

(* If nothing but blanks is left, all of them are skipped.                 *)
LEMMA SkipAll ==
  ASSUME HttpInv, NEW e \in Nat, Reaches(off, e), n <= e
  PROVE  SkipBlanks(off) = n
<1>1. n \in Nat /\ off \in Nat /\ off <= n
  BY EndType DEF HttpInv
<1>2. PICK k \in Nat : k = n
  BY <1>1
<1>3. \A j \in off .. k - 1 : j \in off .. e - 1 /\ j < n
  BY <1>1, <1>2
<1>4. \A j \in off .. k - 1 : IsBlank(j)
  BY <1>3 DEF Reaches
<1>5. off <= k /\ k <= n
  BY <1>1, <1>2
<1>6. SkipBlanks(off) = k
  BY <1>1, <1>2, <1>4, <1>5, SkipExact
<1> QED
  BY <1>2, <1>6

(* The blanks before a message are skipped.                                *)
LEMMA SkipToMessage ==
  ASSUME HttpInv, Captured, Active, Between(Len(out), off)
  PROVE  /\ Base < n => SkipBlanks(off) = Base /\ off <= Base
         /\ n <= Base => SkipBlanks(off) = n
<1>1. n \in Nat /\ off \in Nat /\ Len(out) \in Nat /\ Len(sent) \in Nat
  BY EndType DEF HttpInv, Captured
<1>2. PICK b \in Nat : b = Base
  BY ActiveHolds
<1>3. Reaches(off, b)
  <2>1. Seen(Len(out)) /\ Steady(Len(out)) /\ Len(out) < Len(sent)
    BY ActiveBefore
  <2>2. Len(out) <= Len(sent)
    BY <1>1, <2>1
  <2>3. Reaches(off, Pre(Len(out)))
    BY <2>1, <2>2 DEF Between
  <2> QED
    BY <1>2, <2>3 DEF Base
<1>4. ASSUME b < n PROVE SkipBlanks(off) = b /\ off <= b
  <2>1. ~ IsBlank(b)
    BY <1>2, <1>4, ActiveBefore
  <2>2. off <= b
    BY <1>3 DEF Reaches
  <2>3. \A j \in off .. b - 1 : j < n
    BY <1>1, <1>4
  <2>4. \A j \in off .. b - 1 : IsBlank(j)
    BY <1>3, <2>3 DEF Reaches
  <2>5. b <= n
    BY <1>1, <1>4
  <2> QED
    BY <1>1, <2>1, <2>2, <2>4, <2>5, SkipExact
<1>5. ASSUME n <= b PROVE SkipBlanks(off) = n
  BY <1>3, <1>5, SkipAll
<1> QED
  BY <1>2, <1>4, <1>5

(* If the message the parser is at was not captured whole, or there are    *)
(* enough of them, none was missed.                                        *)
LEMMA NoneMissed ==
  ASSUME HttpInv, Captured, Len(out) < kMaxMessages => ~ (Active /\ End <= holeAt)
  PROVE  Complete
<1>0. /\ sent \in Seq(Messages) /\ asResponse \in BOOLEAN /\ n \in Nat /\ holeAt \in 0 .. n
      /\ kMaxMessages \in Nat
  BY EndType, HttpAssumption DEF HttpInv, Captured
<1>1. PICK k \in Nat, L \in Nat : k = Len(out) /\ L = Len(sent)
  BY <1>0 DEF HttpInv
<1>2. SUFFICES ASSUME NEW i \in 1 .. Len(sent), i <= kMaxMessages, Pre(i) <= holeAt, Steady(i - 1), ~ (i <= Len(out))
               PROVE  FALSE
  BY DEF Complete
<1>3. i \in Nat /\ i <= L /\ k + 1 <= i /\ k < kMaxMessages /\ k < L
  BY <1>0, <1>1, <1>2
<1>4. PICK u \in Nat, v \in Nat : u = Pre(k + 1) /\ v = Pre(i) /\ u <= v
  <2>1. k + 1 \in 0 .. Len(sent) /\ i \in k + 1 .. Len(sent) /\ i \in 0 .. Len(sent)
    BY <1>1, <1>3
  <2>2. PICK w \in 0 .. Len(sent) : w = k + 1
    BY <2>1
  <2>3. Pre(w) \in Nat /\ Pre(i) \in Nat /\ Pre(w) <= Pre(i)
    BY <1>0, <2>1, <2>2, PreTypes
  <2> QED
    BY <2>2, <2>3
<1>5. Pre(k + 1) <= holeAt
  BY <1>0, <1>2, <1>4
<1>6. Steady(k)
  <2>1. \A j \in 1 .. k : j \in 1 .. i - 1
    BY <1>3
  <2> QED
    BY <1>2, <2>1 DEF Steady
<1>7. Active /\ End <= holeAt
  BY <1>1, <1>3, <1>5, <1>6 DEF Active, Seen, End
<1> QED
  BY <1>1, <1>3, <1>7
(* The parse ends: nothing was missed.                                     *)
LEMMA NoMoreTracked ==
  ASSUME HttpInv, Captured, Tracked, NoMore
  PROVE  Captured' /\ Tracked'
<1>0. UNCHANGED <<inputVars, out>> /\ UNCHANGED inputVars /\ pc = "scan" /\ pc' = "done"
  BY DEF NoMore, inputVars
<1>1. n \in Nat /\ off \in Nat /\ off <= n /\ holeAt \in 0 .. n /\ kMaxMessages \in Nat /\ Len(out) \in Nat
  BY EndType, HttpAssumption DEF HttpInv, Captured
<1>2. ASSUME Len(out) < kMaxMessages, Active, End <= holeAt PROVE FALSE
  <2>1. PICK b \in Nat, e \in Nat : b = Base /\ e = End /\ b < e
    BY <1>2, ActiveHolds, ActiveBefore
  <2>2. b < n
    BY <1>1, <1>2, <2>1
  <2>3. Between(Len(out), off)
    BY <1>0 DEF Tracked
  <2>4. SkipBlanks(off) = b /\ off <= b
    BY <1>2, <2>1, <2>2, <2>3, SkipToMessage
  <2>5. off >= n \/ Len(out) >= kMaxMessages \/ SkipBlanks(off) >= n
    BY DEF NoMore
  <2>6. off >= n \/ b >= n
    BY <1>1, <1>2, <2>4, <2>5
  <2> QED
    BY <1>1, <2>2, <2>4, <2>6
<1>3. Complete
  BY <1>2, NoneMissed
<1>4. Captured' /\ Shown' /\ InStep' /\ Complete'
  BY <1>0, <1>3, InputFrame, MessageFrame DEF Tracked
<1> QED
  BY <1>0, <1>4 DEF Tracked

(* The parse ends at a head that is not accepted: nothing was missed.      *)
LEMMA HeadFailsTracked ==
  ASSUME HttpInv, Captured, Tracked, HeadFails
  PROVE  Captured' /\ Tracked'
<1>0. UNCHANGED <<inputVars, out>> /\ UNCHANGED inputVars /\ pc = "head" /\ pc' = "done" /\ ~ HeadParses
  BY DEF HeadFails, inputVars
<1>1. n \in Nat /\ holeAt \in 0 .. n
  BY EndType DEF HttpInv, Captured
<1>2. ASSUME Active, End <= holeAt PROVE FALSE
  <2>1. off = Base
    BY <1>0, <1>2 DEF Tracked, AtHead
  <2>2. End \in Nat
    BY <1>2, ActiveHolds
  <2>3. End <= n
    BY <1>1, <1>2, <2>2
  <2> QED
    BY <1>0, <1>2, <2>1, <2>3, WholeHeadParses
<1>3. Complete
  BY <1>2, NoneMissed
<1>4. Captured' /\ Shown' /\ InStep' /\ Complete'
  BY <1>0, <1>3, InputFrame, MessageFrame DEF Tracked
<1> QED
  BY <1>0, <1>4 DEF Tracked

(* The next message begins behind the blanks.                              *)
LEMMA NextMessageTracked ==
  ASSUME HttpInv, Captured, Tracked, NextMessage
  PROVE  Captured' /\ Tracked'
<1>0. /\ UNCHANGED <<inputVars, out>> /\ UNCHANGED inputVars /\ pc = "scan" /\ pc' = "head"
      /\ m' = NoMessage /\ off' = SkipBlanks(off) /\ SkipBlanks(off) < n /\ off < n
  BY DEF NextMessage, inputVars
<1>1. /\ n \in Nat /\ off \in Nat /\ off <= n /\ Len(out) \in Nat /\ Len(sent) \in Nat
      /\ sent \in Seq(Messages) /\ asResponse \in BOOLEAN /\ n <= Pre(Len(sent))
  BY EndType DEF HttpInv, Captured
<1>2. Between(Len(out), off) /\ InStep
  BY <1>0 DEF Tracked
<1>3. PICK o \in Nat : o = SkipBlanks(off) /\ o < n
  <2>1. SkipBlanks(off) \in off .. n
    BY <1>1, SkipStays DEF HttpInv
  <2> QED
    BY <1>0, <1>1, <2>1
<1>4. ASSUME Active PROVE o = Base
  <2>1. PICK b \in Nat : b = Base
    BY <1>4, ActiveHolds
  <2>2. b < n => SkipBlanks(off) = b
    BY <1>2, <1>4, <2>1, SkipToMessage
  <2>3. n <= b => SkipBlanks(off) = n
    BY <1>2, <1>4, <2>1, SkipToMessage
  <2>4. b < n
    BY <1>1, <1>3, <2>3
  <2> QED
    BY <1>3, <2>1, <2>2, <2>4
<1>5. ASSUME n = holeAt, ~ Active PROVE Lost(o)
  <2>1. Seen(Len(out)) /\ Seen(Len(out) + 1)
    BY <1>5 DEF Seen
  <2>2. Len(out) <= Len(sent)
    BY <1>2, <1>5 DEF InStep
  <2>3. CASE Steady(Len(out))
    <3>1. Len(out) = Len(sent)
      BY <1>1, <1>5, <2>1, <2>2, <2>3 DEF Active
    <3>2. Reaches(off, Pre(Len(sent)))
      BY <1>2, <2>1, <2>2, <2>3, <3>1 DEF Between
    <3>3. PICK e \in Nat : e = Pre(Len(sent))
      <4>1. Len(sent) \in 0 .. Len(sent)
        BY <1>1
      <4> QED
        BY <1>1, <4>1, PreTypes
    <3>4. SkipBlanks(off) = n
      BY <1>1, <3>2, <3>3, SkipAll
    <3> QED
      BY <1>1, <1>3, <3>4
  <2>4. CASE ~ Steady(Len(out))
    <3>1. Lost(off)
      BY <1>2, <1>5, <2>4 DEF Between
    <3>2. At(off) = "HX"
      BY <1>0, <3>1 DEF Lost, LineAt, Byte
    <3>3. SkipBlanks(off) = off
      BY <1>0, <1>1, <3>2, SkipNone
    <3> QED
      BY <1>3, <3>1, <3>3
  <2> QED
    BY <2>3, <2>4
<1>6. AtHead'
  <2>1. off' = o /\ n' = n /\ holeAt' = holeAt /\ (Lost(o)' <=> Lost(o)) /\ (Active' <=> Active) /\ Base' = Base
    BY <1>0, <1>3, InputFrame, MessageFrame
  <2>2. Lost(off)' <=> Lost(o)
    <3>1. buf' = buf /\ off' = o /\ n' = n
      BY <1>0, <2>1, InputFrame
    <3> QED
      BY <3>1 DEF Lost, LineAt, Byte, At
  <2> QED
    BY <1>3, <1>4, <1>5, <2>1, <2>2 DEF AtHead
<1>7. Captured' /\ Shown' /\ InStep'
  BY <1>0, InputFrame, MessageFrame DEF Tracked
<1> QED
  BY <1>0, <1>6, <1>7 DEF Tracked

(* A message is stored: it is the one sent.                                *)
LEMMA EmitTracked ==
  ASSUME HttpInv, Captured, Tracked, Emit
  PROVE  Captured' /\ Tracked'
<1>0. /\ UNCHANGED inputVars /\ pc = "emit" /\ off' = p /\ pc' = (IF p <= off THEN "done" ELSE "scan")
      /\ p' = p
  BY DEF Emit, inputVars
<1>1. PICK new : /\ new = [m EXCEPT !.consumed = p, !.bodyBytes = IF m.chunked THEN Len(m.body) ELSE @]
                 /\ out' = Append(out, new)
  BY DEF Emit
<1>2. /\ n' = n /\ sent' = sent /\ holeAt' = holeAt /\ Captured' /\ (\A k : Pre(k)' = Pre(k))
      /\ (\A k : Steady(k)' <=> Steady(k)) /\ (\A k : Seen(k)' <=> Seen(k))
  BY <1>0, InputFrame
<1>3. new.chunked = m.chunked /\ new.body = m.body /\ new.bodyTruncated = m.bodyTruncated
  <2>1. m \in MsgType
    BY DEF HttpInv, CappedMsg
  <2>2. PICK y : y = IF m.chunked THEN Len(m.body) ELSE m.bodyBytes
    OBVIOUS
  <2>3. new = [m EXCEPT !.consumed = p, !.bodyBytes = y]
    BY <1>1, <2>2
  <2> QED
    BY <2>1, <2>3 DEF MsgType
<1>4. PICK k \in Nat : k = Len(out) /\ out \in Seq(MsgType)
  BY DEF HttpInv
<1>5. /\ n \in Nat /\ off \in Nat /\ p \in Nat /\ Len(sent) \in Nat /\ holeAt \in 0 .. n
      /\ kMaxMessages \in Nat
  BY EndType, HttpAssumption DEF HttpInv, Captured
<1>6. Len(out') = k + 1 /\ out'[k + 1] = new /\ (\A i \in 1 .. k : out'[i] = out[i])
  BY <1>1, <1>4
<1>7. InBody("emit", m, p, len) /\ Shown /\ InStep
  BY <1>0 DEF Tracked
<1>8. ASSUME Active PROVE Shows(new, sent[k + 1], Pre(k + 1)) /\ Between(k + 1, p) /\ off < p /\ Base < n
  <2>1. AtEmit(m, p) /\ off = Base /\ off < n
    BY <1>7, <1>8 DEF InBody
  <2>2. Shows(m, Current, End) /\ Between(Len(out) + 1, p) /\ off < p
    BY <2>1 DEF AtEmit
  <2>3. Shows(new, Current, End)
    BY <1>3, <2>2 DEF Shows
  <2> QED
    BY <1>4, <2>1, <2>2, <2>3 DEF Current, End
<1>9. Active <=> k < Len(sent) /\ Steady(k) /\ Seen(k + 1)
  BY <1>4 DEF Active
<1>10. n = holeAt => Active
  BY <1>7 DEF InBody
<1>11. Shown'
  <2>1. ASSUME NEW i \in 1 .. k + 1, i <= Len(sent), Seen(i), Steady(i - 1)
        PROVE  Shows(out'[i], sent[i], Pre(i))
    <3>1. CASE i \in 1 .. k
      BY <1>4, <1>6, <1>7, <2>1, <3>1 DEF Shown
    <3>2. CASE i = k + 1
      <4>1. k < Len(sent) /\ i - 1 = k
        BY <1>5, <2>1, <3>2
      <4>2. Active
        BY <1>9, <2>1, <3>2, <4>1
      <4> QED
        BY <1>6, <1>8, <3>2, <4>2
    <3> QED
      BY <3>1, <3>2
  <2>2. \A i \in 1 .. k + 1 : i <= Len(sent) /\ Seen(i) /\ Steady(i - 1) => Shows(out'[i], sent[i], Pre(i))
    BY <2>1
  <2>3. Wires' = Wires
    BY <1>0 DEF Wires, inputVars
  <2> QED
    BY <1>2, <1>6, <2>2, <2>3 DEF Shown, Shows, Seen, Steady, Pre
<1>12. InStep'
  <2>1. ASSUME n = holeAt PROVE k + 1 <= Len(sent) /\ Steady((k + 1) - 1) /\ Pre((k + 1) - 1) < n
    <3>1. Active /\ (k + 1) - 1 = k
      BY <1>10, <2>1
    <3>2. k + 1 <= Len(sent) /\ Steady(k)
      BY <1>5, <1>9, <3>1
    <3>3. Pre(k) < n
      BY <1>4, <1>8, <3>1 DEF Base
    <3> QED
      BY <3>1, <3>2, <3>3
  <2>2. Wires' = Wires
    BY <1>0 DEF Wires, inputVars
  <2> QED
    BY <1>2, <1>6, <2>1, <2>2 DEF InStep, Steady, Pre
<1>13. Between(k + 1, p)
  <2>1. CASE Active
    BY <1>8, <2>1
  <2>2. CASE ~ Active
    <3>1. ASSUME k + 1 <= Len(sent), Steady(k + 1), Seen(k + 1) PROVE FALSE
      <4>1. \A j \in 1 .. k : j \in 1 .. k + 1
        OBVIOUS
      <4>2. Steady(k)
        BY <3>1, <4>1 DEF Steady
      <4>3. k < Len(sent)
        BY <1>5, <3>1
      <4> QED
        BY <1>9, <2>2, <3>1, <4>2, <4>3
    <3> QED
      BY <1>10, <2>2, <3>1 DEF Between
  <2> QED
    BY <2>1, <2>2
<1>14. Between(Len(out), off)'
  <2>1. Wires' = Wires /\ buf' = buf
    BY <1>0 DEF Wires, inputVars
  <2>2. Len(out') = k + 1 /\ off' = p
    BY <1>0, <1>6
  <2>3. Between(k + 1, p)'
    BY <1>0, <1>13, InputFrame
  <2> QED
    BY <1>0, <1>2, <1>13, <2>1, <2>2
       DEF Between, Reaches, Lost, LineAt, Byte, IsBlank, At, Steady, Seen, Pre
<1>15. ASSUME p <= off PROVE Complete'
  <2>1. ~ Active
    BY <1>5, <1>8, <1>15
  <2>2. Complete
    BY <2>1, NoneMissed
  <2>3. ASSUME NEW i \in 1 .. Len(sent), i <= kMaxMessages, Pre(i) <= holeAt, Steady(i - 1)
        PROVE  i <= k + 1
    <3>1. i <= Len(out)
      BY <2>2, <2>3 DEF Complete
    <3> QED
      BY <1>4, <1>5, <3>1
  <2>4. \A i \in 1 .. Len(sent) : i <= kMaxMessages /\ Pre(i) <= holeAt /\ Steady(i - 1) => i <= k + 1
    BY <2>3
  <2>5. Wires' = Wires
    BY <1>0 DEF Wires, inputVars
  <2> QED
    BY <1>2, <1>6, <2>4, <2>5 DEF Complete, Steady, Pre
<1>16. pc' \in {"scan", "done"} /\ (pc' = "done" => p <= off)
  BY <1>0
<1> QED
  BY <1>2, <1>11, <1>12, <1>14, <1>15, <1>16 DEF Tracked
-----------------------------------------------------------------------------
(* The capture the parser starts from, and every step.                     *)

(* A hole leaves what is before it in place.                               *)
LEMMA CapturedInit ==
  ASSUME Init
  PROVE  Captured
<1>1. sent \in Seq(Messages) /\ asResponse \in BOOLEAN /\ Sendable(sent, asResponse)
  BY DEF Init, SeqOf
<1>2. PICK s \in Seq(Symbols) : s = Stream(sent, asResponse)
  BY <1>1, StreamType
<1>3. holeAt \in 0 .. Len(s) /\ Len(s) \in Nat
  BY <1>2 DEF Init
<1>4. PICK k \in {Len(s) - holeAt} \cup {h \in HoleLengths : holeAt + h < Len(s)} :
        buf = SubSeq(s, 1, holeAt) \o SubSeq(s, holeAt + k + 1, Len(s))
  BY <1>2 DEF Init
<1>5. k \in Nat /\ holeAt + k <= Len(s)
  BY <1>3, <1>4, HttpAssumption
<1>6. PICK a \in Seq(Symbols) :
        a = SubSeq(s, 1, holeAt) /\ Len(a) = holeAt /\ \A j \in 1 .. holeAt : a[j] = s[j]
  <2>1. /\ SubSeq(s, 1, holeAt) \in Seq(Symbols) /\ Len(SubSeq(s, 1, holeAt)) = holeAt
        /\ \A j \in 1 .. holeAt : SubSeq(s, 1, holeAt)[j] = s[j]
    BY <1>3, PrefixType
  <2>2. PICK a \in Seq(Symbols) : a = SubSeq(s, 1, holeAt)
    BY <2>1, Zenon
  <2> QED
    BY <2>1, <2>2, Zenon
<1>7. PICK b \in Seq(Symbols) : b = SubSeq(s, holeAt + k + 1, Len(s)) /\ Len(b) = Len(s) - (holeAt + k)
  <2>1. PICK x \in Nat \ {0}, L \in Nat : x = holeAt + k + 1 /\ L = Len(s) /\ x <= L + 1
    <3>1. PICK h \in Nat, L \in Nat : h = holeAt /\ L = Len(s) /\ h + k <= L
      BY <1>3, <1>5
    <3>2. h + k + 1 \in Nat \ {0} /\ h + k + 1 <= L + 1
      BY <1>5, <3>1
    <3> QED
      BY <3>1, <3>2
  <2>2. SubSeq(s, x, L) \in Seq(Symbols) /\ Len(SubSeq(s, x, L)) = IF x <= L THEN L - x + 1 ELSE 0
    BY <2>1
  <2>3. Len(SubSeq(s, x, L)) = L - (x - 1)
    BY <2>1, <2>2
  <2>4. L - (x - 1) = Len(s) - (holeAt + k)
    BY <1>3, <1>5, <2>1
  <2> QED
    BY <2>1, <2>2, <2>3, <2>4
<1>8. /\ Len(a \o b) = Len(a) + Len(b) /\ \A j \in 1 .. Len(a) : (a \o b)[j] = a[j]
  OBVIOUS
<1>9. n = holeAt + (Len(s) - (holeAt + k)) /\ \A j \in 1 .. holeAt : buf[j] = s[j]
  BY <1>4, <1>6, <1>7, <1>8 DEF n
<1>10. holeAt \in 0 .. n /\ n <= Len(s)
  BY <1>3, <1>5, <1>9
<1>11. FlattenSeq(Wires) = s
  BY <1>2 DEF Wires, Stream
<1>12. Pre(Len(sent)) = Len(s)
  BY <1>1, <1>11, PreTypes
<1> QED
  BY <1>1, <1>9, <1>10, <1>11, <1>12 DEF Captured

(* Nothing is found yet.                                                   *)
LEMMA TrackedInit ==
  ASSUME Init
  PROVE  Tracked
<1>1. Captured
  BY CapturedInit
<1>2. off = 0 /\ Len(out) = 0 /\ pc = "scan"
  BY DEF Init
<1>3. Pre(0) = 0 /\ Len(sent) \in Nat
  BY <1>1, PreTypes DEF Captured
<1>4. Shown /\ InStep
  BY <1>2, <1>3 DEF Shown, InStep
<1>5. Reaches(0, 0)
  BY DEF Reaches
<1>6. Steady(0)
  BY DEF Steady
<1>7. Between(Len(out), off)
  BY <1>2, <1>3, <1>5, <1>6 DEF Between
<1> QED
  BY <1>2, <1>4, <1>7 DEF Tracked

(* Every step keeps track of where the parser stands.                      *)
LEMMA TrackedStep ==
  ASSUME HttpInv, Captured, Tracked, [Next]_vars
  PROVE  Captured' /\ Tracked'
<1>1. CASE SizeLineCut \/ SizeLine \/ LastChunk \/ ChunkCut \/ Chunk \/ LengthBody \/ RestBody
  BY <1>1, BodyPlaces, BodyStays
<1>2. CASE ParseHead
  BY <1>2, HeadPlaces, BodyStays
<1>3. CASE UNCHANGED vars
  <2>1. UNCHANGED <<inputVars, out>> /\ UNCHANGED inputVars
    BY <1>3 DEF vars
  <2>2. off' = off /\ m' = m /\ p' = p /\ len' = len /\ pc' = pc /\ out' = out
    BY <1>3 DEF vars
  <2>3. Captured' /\ Shown' /\ InStep' /\ (Complete => Complete')
    BY <2>1, InputFrame, MessageFrame DEF Tracked
  <2>4. pc = "scan" => Between(Len(out), off)'
    <3>1. Between(Len(out), off) => Between(Len(out), off)'
      <4>1. n' = n /\ holeAt' = holeAt /\ sent' = sent /\ buf' = buf
        BY <2>1, InputFrame
      <4>2. Wires' = Wires
        BY <2>1 DEF Wires, inputVars
      <4> QED
        BY <2>2, <4>1, <4>2 DEF Between, Reaches, Lost, LineAt, Byte, IsBlank, At, Steady, Seen, Pre
    <3> QED
      BY <3>1 DEF Tracked
  <2>5. AtHead => AtHead'
    <3>1. n' = n /\ holeAt' = holeAt /\ buf' = buf /\ (Active' <=> Active) /\ Base' = Base
      BY <2>1, InputFrame, MessageFrame
    <3> QED
      BY <2>2, <3>1 DEF AtHead, Lost, LineAt, Byte, At
  <2>6. ASSUME pc \notin {"scan", "head", "done"} PROVE InBody(pc, m, p, len)'
    <3>1. InBody(pc, m, p, len)
      BY <2>6 DEF Tracked
    <3>2. InBody(pc', m', p', len')
      BY <2>2, <3>1
    <3>3. UNCHANGED <<inputVars, off, out>>
      BY <2>1, <2>2
    <3> QED
      BY <3>2, <3>3, InBodyFrame
  <2> QED
    BY <2>2, <2>3, <2>4, <2>5, <2>6 DEF Tracked
<1> QED
  BY <1>1, <1>2, <1>3, NoMoreTracked, NextMessageTracked, HeadFailsTracked, EmitTracked DEF Next
-----------------------------------------------------------------------------
(* How many messages are intact.                                           *)

(* A set of numbers below a bound has a greatest element.                  *)
LEMMA GreatestNumber ==
  ASSUME NEW L \in Nat, NEW T, T \subseteq 0 .. L, T # {}
  PROVE  Max(T) \in T /\ \A k \in T : k <= Max(T)
<1> DEFINE R == {L - k : k \in T}
<1>1. R \subseteq Nat /\ R # {}
  <2>1. \A k \in 0 .. L : L - k \in Nat
    OBVIOUS
  <2>2. R \subseteq Nat
    BY <2>1
  <2>3. PICK k : k \in T
    OBVIOUS
  <2>4. L - k \in R
    BY <2>3
  <2> QED
    BY <2>2, <2>4
<1>2. \A k \in T : L - k \in R
  OBVIOUS
<1>3. \A r \in R : \E k \in T : r = L - k
  OBVIOUS
<1> HIDE DEF R
<1>4. PICK r \in R : \A s \in R : r <= s
  BY <1>1, LeastNumber
<1>5. PICK g \in T : r = L - g
  BY <1>3
<1>6. ASSUME NEW k \in T PROVE k <= g
  <2>1. L - g <= L - k
    BY <1>2, <1>4, <1>5
  <2> QED
    BY <2>1
<1>7. \E x \in T : \A y \in T : x >= y
  BY <1>6
<1>8. Max(T) \in T /\ \A y \in T : Max(T) >= y
  BY <1>7 DEF Max
<1> QED
  BY <1>8

(* The stream of the first k messages ends where the k-th does.            *)
LEMMA StreamUpto ==
  ASSUME sent \in Seq(Messages), asResponse \in BOOLEAN, NEW k \in 0 .. Len(sent)
  PROVE  Len(Stream(SubSeq(sent, 1, k), asResponse)) = Pre(k)
<1>1. PICK q \in Seq(Messages) : q = SubSeq(sent, 1, k) /\ Len(q) = k /\ \A i \in 1 .. k : q[i] = sent[i]
  <2>1. /\ SubSeq(sent, 1, k) \in Seq(Messages) /\ Len(SubSeq(sent, 1, k)) = k
        /\ \A i \in 1 .. k : SubSeq(sent, 1, k)[i] = sent[i]
    BY PrefixType
  <2>2. PICK q \in Seq(Messages) : q = SubSeq(sent, 1, k)
    BY <2>1, Zenon
  <2> QED
    BY <2>1, <2>2, Zenon
<1>2. /\ Wires \in Seq(Seq(Symbols)) /\ Len(Wires) = Len(sent)
      /\ \A i \in 1 .. Len(sent) : Wires[i] = Encoded(sent[i], asResponse)
  BY WiresType
<1>3. PICK w \in Seq(Seq(Symbols)) : w = SubSeq(Wires, 1, k) /\ Len(w) = k /\ \A i \in 1 .. k : w[i] = Wires[i]
  <2>0. PICK S : S = Seq(Symbols)
    OBVIOUS
  <2>1. PICK ss \in Seq(S) : ss = Wires
    BY <1>2, <2>0
  <2>2. k \in 0 .. Len(ss)
    BY <1>2, <2>1
  <2>3. /\ SubSeq(ss, 1, k) \in Seq(S) /\ Len(SubSeq(ss, 1, k)) = k
        /\ \A i \in 1 .. k : SubSeq(ss, 1, k)[i] = ss[i]
    BY <2>2, PrefixType
  <2>4. PICK w \in Seq(S) : w = SubSeq(ss, 1, k)
    BY <2>3
  <2>5. w \in Seq(Seq(Symbols)) /\ w = SubSeq(Wires, 1, k)
    BY <2>0, <2>1, <2>4
  <2> QED
    BY <2>1, <2>3, <2>4, <2>5
<1>4. DOMAIN q = 1 .. k /\ DOMAIN w = 1 .. k
  BY <1>1, <1>3
<1>5. \A i \in 1 .. k : w[i] = Encoded(q[i], asResponse)
  BY <1>1, <1>2, <1>3
<1>6. w = [i \in DOMAIN q |-> Encoded(q[i], asResponse)]
  BY <1>3, <1>4, <1>5
<1>7. Stream(q, asResponse) = FlattenSeq(w)
  BY <1>6 DEF Stream
<1> QED
  BY <1>1, <1>3, <1>7 DEF Pre, Upto, First

(* A message is intact if its end was captured, and only then.             *)
LEMMA IntactIs ==
  ASSUME HttpInv, Captured
  PROVE  /\ Intact \in 0 .. Len(sent)
         /\ \A k \in 0 .. Len(sent) : k <= Intact <=> Pre(k) <= holeAt
<1>0. sent \in Seq(Messages) /\ asResponse \in BOOLEAN /\ n \in Nat /\ holeAt \in 0 .. n
  BY EndType DEF HttpInv, Captured
<1>1. PICK L \in Nat : L = Len(sent)
  BY <1>0
<1>2. PICK T : T = {k \in 0 .. Len(sent) : Len(Stream(SubSeq(sent, 1, k), asResponse)) <= holeAt}
  OBVIOUS
<1>3. ASSUME NEW k \in 0 .. L PROVE k \in T <=> Pre(k) <= holeAt
  BY <1>0, <1>1, <1>2, StreamUpto
<1>4. T \subseteq 0 .. L
  BY <1>1, <1>2
<1>5. 0 \in T
  <2>1. Pre(0) = 0 /\ 0 \in 0 .. L
    BY <1>0, PreTypes
  <2>2. 0 <= holeAt
    BY <1>0
  <2> QED
    BY <1>3, <2>1, <2>2
<1>6. Max(T) \in T /\ \A k \in T : k <= Max(T)
  BY <1>4, <1>5, GreatestNumber
<1>7. PICK g \in 0 .. L : g = Intact /\ g \in T /\ \A k \in T : k <= g
  BY <1>2, <1>4, <1>6 DEF Intact
<1>8. ASSUME NEW k \in 0 .. L, k <= g PROVE Pre(k) <= holeAt
  <2>1. Pre(g) <= holeAt
    BY <1>3, <1>7
  <2>2. k \in 0 .. Len(sent) /\ g \in k .. Len(sent) /\ g \in 0 .. Len(sent)
    BY <1>1, <1>8
  <2>3. Pre(k) \in Nat /\ Pre(g) \in Nat /\ Pre(k) <= Pre(g)
    BY <1>0, <2>2, PreTypes
  <2> QED
    BY <1>0, <2>1, <2>3
<1>9. ASSUME NEW k \in 0 .. L, Pre(k) <= holeAt PROVE k <= g
  BY <1>3, <1>7, <1>9
<1> QED
  BY <1>1, <1>7, <1>8, <1>9

(* A body read to its end is the whole body, up to the cap.                *)
LEMMA KeptAll ==
  ASSUME NEW msg \in Messages
  PROVE  Kept(msg, Len(BodyOf(msg))) = Capped(BodyOf(msg))
<1>1. PICK L \in Nat, cap \in Nat : L = Len(BodyOf(msg)) /\ cap = kMaxBody
  BY BodyPieces, HttpAssumption
<1>2. Min({L, cap}) = Least(L, cap)
  BY MinIsLeast
<1> QED
  BY <1>1, <1>2 DEF Kept, Capped

(* A body read in part is a prefix of it.                                  *)
LEMMA KeptIsPrefix ==
  ASSUME NEW msg \in Messages, NEW x \in 0 .. Len(BodyOf(msg))
  PROVE  IsPrefix(Kept(msg, x), BodyOf(msg))
<1>1. PICK B \in Seq(Symbols) : B = BodyOf(msg) /\ Len(B) \in Nat
  BY BodyPieces
<1>2. PICK y \in 0 .. Len(B) : y = Least(x, kMaxBody)
  BY <1>1, HttpAssumption DEF Least
<1>3. PICK w \in Seq(Symbols) : w = SubSeq(B, 1, y) /\ Len(w) = y
  BY PrefixType
<1>4. SubSeq(w, 1, Len(w)) = w
  BY WholeAndNothing
<1>5. Len(w) <= Len(B) /\ SubSeq(w, 1, Len(w)) = SubSeq(B, 1, Len(w))
  BY <1>1, <1>3, <1>4
<1>6. IsPrefix(w, B)
  BY <1>5 DEF IsPrefix
<1> QED
  BY <1>1, <1>2, <1>3, <1>6 DEF Kept
-----------------------------------------------------------------------------
(* The theorems.                                                           *)

(* HttpInv holds throughout.                                               *)
THEOREM HttpCorrect == Spec => []HttpInv
<1> QED
  BY HttpInit, HttpStep, PTL DEF Spec

(* Every variable has its type; stored bodies stay below the cap, the list *)
(* of messages too.                                                        *)
THEOREM HttpTyped == Spec => []TypeOK
<1>1. HttpInv => TypeOK
  <2> SUFFICES ASSUME HttpInv PROVE TypeOK
    OBVIOUS
  <2>0. n \in Nat
    BY EndType DEF HttpInv
  <2>1. off \in Nat /\ p \in Nat /\ len \in Nat /\ Len(out) <= kMaxMessages /\ pc \in Places
    BY <2>0 DEF HttpInv
  <2>2. m \in CappedMsg
    BY DEF HttpInv
  <2>3. m.chunked \in BOOLEAN /\ m.bodyTruncated \in BOOLEAN
    BY <2>2, FieldsType
  <2>4. Len(m.body) <= kMaxBody
    BY <2>2 DEF CappedMsg
  <2> QED
    BY <2>1, <2>3, <2>4 DEF TypeOK, Places
<1> QED
  BY <1>1, HttpCorrect, PTL

(* No position passes the end of the capture, however the stream is cut    *)
(* and whatever lengths it states: the unsigned differences never wrap.    *)
THEOREM PositionsInBounds == Spec => []InBounds
<1>1. HttpInv => InBounds
  <2> SUFFICES ASSUME HttpInv PROVE InBounds
    OBVIOUS
  <2>1. n \in Nat
    BY EndType DEF HttpInv
  <2> QED
    BY <2>1 DEF HttpInv, InBounds
<1> QED
  BY <1>1, HttpCorrect, PTL

(* The parser keeps track of where it stands in the stream: of every       *)
(* message before the first lost byte it knows the place and what it has   *)
(* of the body.                                                            *)
THEOREM HttpTracked == Spec => [](HttpInv /\ Captured /\ Tracked)
<1>1. Init => HttpInv /\ Captured /\ Tracked
  BY HttpInit, CapturedInit, TrackedInit
<1>2. HttpInv /\ Captured /\ Tracked /\ [Next]_vars => (HttpInv /\ Captured /\ Tracked)'
  BY HttpStep, TrackedStep
<1> QED
  BY <1>1, <1>2, PTL DEF Spec

(* Every message before the first lost byte is found, in order, with its   *)
(* own body up to the cap and the cut marked.                              *)
THEOREM AllMessagesFound == Spec => []MessagesFound
<1>1. HttpInv /\ Captured /\ Tracked => MessagesFound
  <2> SUFFICES ASSUME HttpInv, Captured, Tracked, pc = "done",
                      NEW i \in {j \in 1 .. Min({Intact, kMaxMessages}) : Steady(j - 1)}
               PROVE  /\ i <= Len(out)
                      /\ out[i].chunked = (sent[i].framing = "chunked")
                      /\ out[i].body = Capped(BodyOf(sent[i]))
                      /\ out[i].bodyTruncated = (Len(BodyOf(sent[i])) > kMaxBody)
    BY DEF MessagesFound
  <2>0. /\ sent \in Seq(Messages) /\ n \in Nat /\ holeAt \in 0 .. n /\ Len(out) \in Nat /\ Len(sent) \in Nat
        /\ asResponse \in BOOLEAN
    BY EndType DEF HttpInv, Captured
  <2>1. PICK g \in 0 .. Len(sent), K \in Nat : g = Intact /\ K = kMaxMessages
    BY IntactIs, HttpAssumption
  <2>2. Min({g, K}) \in {g, K} /\ Min({g, K}) <= g /\ Min({g, K}) <= K
    BY <2>0, MinOfTwo
  <2>3. i \in 1 .. Len(sent) /\ i \in 0 .. Len(sent) /\ i <= g /\ i <= kMaxMessages /\ Steady(i - 1)
    <3>1. i \in 1 .. Min({g, K}) /\ Steady(i - 1)
      BY <2>1
    <3>2. PICK x \in Nat : x = Min({g, K}) /\ x <= g /\ x <= K
      BY <2>0, <2>2
    <3>3. i \in 1 .. x
      BY <3>1, <3>2
    <3>4. i \in 1 .. Len(sent) /\ i \in 0 .. Len(sent) /\ i <= g /\ i <= K
      BY <2>0, <3>2, <3>3
    <3> QED
      BY <2>1, <3>1, <3>4
  <2>4. Pre(i) <= holeAt
    BY <2>1, <2>3, IntactIs
  <2>5. i <= Len(out)
    BY <2>3, <2>4 DEF Tracked, Complete
  <2>6. Shows(out[i], sent[i], Pre(i))
    <3>1. i \in 1 .. Len(out) /\ i <= Len(sent) /\ Seen(i)
      BY <2>0, <2>3, <2>4, <2>5 DEF Seen
    <3> QED
      BY <2>3, <3>1 DEF Tracked, Shown
  <2>7. Pre(i) <= n
    <3>1. Pre(i) \in Nat
      BY <2>0, <2>3, PreTypes
    <3> QED
      BY <2>0, <2>4, <3>1
  <2>8. sent[i] \in Messages
    BY <2>0, <2>3
  <2> QED
    BY <2>5, <2>6, <2>7, <2>8, KeptAll DEF Shows
<1> QED
  BY <1>1, HttpTracked, PTL

(* While a flow is still being captured, no message is shown that was not  *)
(* sent: at most one more than the complete ones, with a prefix of its     *)
(* body.                                                                   *)
THEOREM OnlyPrefixesShown == Spec => []PartialIsPrefix
<1>1. HttpInv /\ Captured /\ Tracked => PartialIsPrefix
  <2> SUFFICES ASSUME HttpInv, Captured, Tracked, pc = "done", n = holeAt
               PROVE  /\ Len(out) <= Intact + 1
                      /\ Len(out) = Intact + 1 => IsPrefix(out[Len(out)].body, BodyOf(sent[Intact + 1]))
    BY DEF PartialIsPrefix
  <2>0. /\ sent \in Seq(Messages) /\ n \in Nat /\ holeAt \in 0 .. n /\ Len(sent) \in Nat
        /\ asResponse \in BOOLEAN
    BY EndType DEF HttpInv, Captured
  <2>1. PICK g \in 0 .. Len(sent), k \in Nat : g = Intact /\ k = Len(out)
    BY IntactIs DEF HttpInv
  <2>2. k <= Len(sent) /\ (k > 0 => Steady(k - 1) /\ Pre(k - 1) < n)
    BY <2>1 DEF Tracked, InStep
  <2>3. k <= g + 1
    <3>1. CASE k = 0
      BY <2>0, <3>1
    <3>2. CASE k > 0
      <4>1. PICK j \in 0 .. Len(sent) : j = k - 1
        BY <2>0, <2>2, <3>2
      <4>2. Pre(j) \in Nat /\ Pre(j) < n
        BY <2>0, <2>2, <3>2, <4>1, PreTypes
      <4>3. Pre(j) <= holeAt
        BY <2>0, <4>2
      <4>4. j <= g
        BY <2>1, <4>3, IntactIs
      <4> QED
        BY <2>0, <4>1, <4>4
    <3> QED
      BY <3>1, <3>2
  <2>4. ASSUME k = g + 1 PROVE IsPrefix(out[k].body, BodyOf(sent[k]))
    <3>1. k \in 1 .. Len(out) /\ k <= Len(sent) /\ Steady(k - 1) /\ Seen(k) /\ k \in 1 .. Len(sent)
      BY <2>0, <2>1, <2>2, <2>4 DEF Seen
    <3>2. Shows(out[k], sent[k], Pre(k))
      BY <3>1 DEF Tracked, Shown
    <3>3. PICK x \in 0 .. Len(BodyOf(sent[k])) : out[k].body = Kept(sent[k], x)
      BY <3>2 DEF Shows
    <3>4. sent[k] \in Messages
      BY <2>0, <3>1
    <3> QED
      BY <3>3, <3>4, KeptIsPrefix
  <2> QED
    BY <2>1, <2>3, <2>4
<1> QED
  BY <1>1, HttpTracked, PTL
=============================================================================
