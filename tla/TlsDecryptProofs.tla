------------------------- MODULE TlsDecryptProofs --------------------------
(***************************************************************************)
(* Proofs about tls_decrypt.cpp, for any records, sizes, key logs and      *)
(* holes: what is shown is a prefix of what was sent, and everything       *)
(* captured before the first lost byte is decrypted.                       *)
(***************************************************************************)
EXTENDS TlsDecrypt, DataLemmas, FiniteSetTheorems

-----------------------------------------------------------------------------
(* The inductive invariant.                                                *)

Secrets == {"none", "right", "wrong", "short"}
RecType == [type : Nat, len : Nat, wire : Nat]

(* The connection, which no step changes.                                  *)
InputTyped ==
  /\ script \in [Dirs -> Seq(Kinds)] /\ \A d \in Dirs : IsScript(script[d])
  /\ holeAt \in [Dirs -> Nat] /\ holeLen \in [Dirs -> Nat]
  /\ \A d \in Dirs : holeAt[d] + holeLen[d] <= WireLen(script[d])

Typed ==
  /\ keylog \in Seq(Lines) /\ secret \in Secrets
  /\ pos \in [Dirs -> Int] /\ recs \in [Dirs -> Seq(RecType)]
  /\ next \in [Dirs -> Nat \ {0}] /\ enc \in [Dirs -> BOOLEAN]
  /\ seq \in [Dirs -> Nat] /\ plain \in [Dirs -> Seq(Nat)]
  /\ keysRight \in BOOLEAN /\ ok \in BOOLEAN
  /\ pc \in {"keylog", "parse", "out", "in", "done"}

(* Record i lies wholly before the hole.                                   *)
Whole(d, i) == i \in DOMAIN script[d] /\ Start(script[d], i + 1) <= holeAt[d]

(* What ParseRecords has found when it is at p with the records R: a       *)
(* record is of the wire or of no use, and before the hole it keeps step   *)
(* with the wire.                                                          *)
ParsedAs(d, p, R) ==
  /\ p \in -1 .. CaptureLen(d)
  /\ \A i \in DOMAIN R :
       /\ R[i].wire # 0 => /\ R[i].wire \in DOMAIN script[d]
                           /\ R[i].type = TypeOf[script[d][R[i].wire]]
       /\ Whole(d, i) => R[i].wire = i
  /\ p # -1 /\ (Len(R) = 0 \/ Whole(d, Len(R))) => p = Start(script[d], Len(R) + 1)
  /\ p = -1 => \A i \in DOMAIN script[d] : Whole(d, i) => i <= Len(R)
Parsed(d) == ParsedAs(d, pos[d], recs[d])

(* The plaintext t is the application data among the records of the first  *)
(* keys that are counted in the sequence number q.                         *)
Counted(d, k, q) ==
  /\ k \in DOMAIN script[d] /\ script[d][k] = "D"
  /\ Epoch(script[d], k) = 0 /\ SeqNo(script[d], k) < q
ShownAs(d, t, q) ==
  /\ \A i \in DOMAIN t : Counted(d, t[i], q)
  /\ \A i, j \in DOMAIN t : i < j => t[i] < t[j]
  /\ \A k \in DOMAIN script[d] : Counted(d, k, q) => \E j \in DOMAIN t : t[j] = k
Shown(d) == ShownAs(d, plain[d], seq[d])

(* With the right keys DecryptDir, at record k, decrypting if e holds and  *)
(* with the sequence number q, keeps step with the wire up to the hole or  *)
(* the change of keys, and has passed over no record of the first keys.    *)
InStepAs(d, k, e, q) ==
  LET s == script[d]
  IN  /\ (k = 1 \/ Whole(d, k - 1)) /\ Epoch(s, k) = 0 =>
           /\ e <=> \E j \in 1 .. k - 1 : s[j] = "C"
           /\ q = SeqNo(s, k)
      /\ \A i \in 1 .. k - 1 :
           Whole(d, i) /\ s[i] \in Encrypted /\ Epoch(s, i) = 0 => SeqNo(s, i) < q
InStep(d) == InStepAs(d, next[d], enc[d], seq[d])

(* The secret kept is the connection's and both hellos were captured.      *)
Complete ==
  /\ suite = "gcm" /\ secret = "right"
  /\ \A d \in Dirs : \E i \in DOMAIN script[d] : script[d][i] = "H" /\ Whole(d, i)

(* The stages of TlsDecryptFlow.                                           *)
Stages ==
  /\ pc \in {"out", "in", "done"} => \A d \in Dirs : pos[d] = -1
  /\ pc = "in" \/ ok => next["out"] > Len(recs["out"])
  /\ ok => next["in"] > Len(recs["in"]) /\ pc = "done"
  /\ Complete => /\ pc \in {"out", "in"} => keysRight
                 /\ pc = "done" => ok /\ keysRight

TlsInv ==
  /\ InputTyped /\ Typed /\ Stages
  /\ \A d \in Dirs :
       /\ next[d] \in 1 .. Len(recs[d]) + 1
       /\ Parsed(d) /\ Shown(d)
       /\ keysRight \/ pc \in {"keylog", "parse"} => InStep(d)

-----------------------------------------------------------------------------
(* Where the records are on the wire.                                      *)

(* f is the table of starts that Start computes for the first n records.   *)
Table(f, s, n) == f = [j \in 1 .. n |-> IF j = 1 THEN 0 ELSE f[j - 1] + Size(s, j - 1)]

(* There is such a table, however many records there are.                  *)
LEMMA TableExists ==
  ASSUME NEW s, NEW k \in Nat
  PROVE  \E f : Table(f, s, k)
<1> DEFINE P == {n \in Nat : \E f : Table(f, s, n)}
<1>1. 0 \in P
  <2>1. Table([j \in 1 .. 0 |-> IF j = 1 THEN 0 ELSE 0 + Size(s, j - 1)], s, 0)
    BY DEF Table
  <2> QED
    BY <2>1
<1>2. ASSUME NEW n \in P PROVE n + 1 \in P
  <2>0. n \in Nat
    BY <1>2
  <2>1. PICK f : Table(f, s, n)
    BY <1>2
  <2> DEFINE g == [j \in 1 .. n + 1 |-> IF j = 1 THEN 0 ELSE f[j - 1] + Size(s, j - 1)]
  <2>2. \A j \in 1 .. n : f[j] = IF j = 1 THEN 0 ELSE f[j - 1] + Size(s, j - 1)
    BY <2>1 DEF Table
  <2>3. \A j \in 1 .. n + 1 : g[j] = IF j = 1 THEN 0 ELSE f[j - 1] + Size(s, j - 1)
    OBVIOUS
  <2>4. g = [j \in 1 .. n + 1 |-> g[j]]
    OBVIOUS
  <2> HIDE DEF g
  <2>5. \A j \in 1 .. n + 1 : j # 1 => j - 1 \in 1 .. n /\ j - 1 \in 1 .. n + 1
    BY <2>0
  <2>6. \A j \in 1 .. n : j \in 1 .. n + 1
    BY <2>0
  <2>7. \A j \in 1 .. n : g[j] = f[j]
    BY <2>2, <2>3, <2>6
  <2>8. \A j \in 1 .. n + 1 : g[j] = IF j = 1 THEN 0 ELSE g[j - 1] + Size(s, j - 1)
    BY <2>3, <2>5, <2>7
  <2>9. Table(g, s, n + 1)
    BY <2>4, <2>8 DEF Table
  <2> QED
    BY <2>0, <2>9
<1> HIDE DEF P
<1>3. P = Nat
  <2>1. P \subseteq Nat
    BY DEF P
  <2> QED
    BY <1>1, <1>2, <2>1, SetInduction
<1> QED
  BY <1>3 DEF P

(* Start is its last entry.                                                *)
LEMMA StartIsEntry ==
  ASSUME NEW s, NEW i \in Nat \ {0}
  PROVE  \E f : Table(f, s, i) /\ Start(s, i) = f[i]
BY TableExists DEF Start, Table

(* Two tables of the same records agree.                                   *)
LEMMA TablesAgree ==
  ASSUME NEW s, NEW f, NEW g, NEW k \in Nat, NEW l \in Nat, k <= l, Table(f, s, k), Table(g, s, l)
  PROVE  \A i \in 1 .. k : f[i] = g[i]
<1> DEFINE P == {n \in Nat : n \in 1 .. k => f[n] = g[n]}
<1>1. /\ \A i \in 1 .. k : f[i] = IF i = 1 THEN 0 ELSE f[i - 1] + Size(s, i - 1)
      /\ \A i \in 1 .. l : g[i] = IF i = 1 THEN 0 ELSE g[i - 1] + Size(s, i - 1)
  BY DEF Table
<1>2. \A i \in 1 .. k : i \in 1 .. l
  OBVIOUS
<1>3. 0 \in P
  OBVIOUS
<1>4. ASSUME NEW n \in P PROVE n + 1 \in P
  <2>0. n \in Nat /\ n + 1 \in Nat /\ (n \in 1 .. k => f[n] = g[n])
    BY <1>4
  <2>1. ASSUME n + 1 \in 1 .. k PROVE f[n + 1] = g[n + 1]
    <3>1. CASE n = 0
      BY <1>1, <1>2, <2>1, <3>1
    <3>2. CASE n # 0
      <4>1. n \in 1 .. k /\ (n + 1) - 1 = n /\ n + 1 # 1
        BY <2>0, <2>1, <3>2
      <4>2. f[n + 1] = f[n] + Size(s, n) /\ g[n + 1] = g[n] + Size(s, n)
        BY <1>1, <1>2, <2>1, <4>1
      <4> QED
        BY <2>0, <4>1, <4>2
    <3> QED
      BY <3>1, <3>2
  <2> QED
    BY <2>0, <2>1
<1> HIDE DEF P
<1>5. P = Nat
  <2>1. P \subseteq Nat
    BY DEF P
  <2> QED
    BY <1>3, <1>4, <2>1, SetInduction
<1> QED
  BY <1>5 DEF P

(* A record starts where the one before it ends.                           *)
LEMMA StartStep ==
  ASSUME NEW s, NEW i \in Nat \ {0}
  PROVE  Start(s, 1) = 0 /\ Start(s, i + 1) = Start(s, i) + Size(s, i)
<1>1. PICK f : Table(f, s, i) /\ Start(s, i) = f[i]
  BY StartIsEntry
<1>2. i + 1 \in Nat \ {0} /\ 1 \in Nat \ {0}
  OBVIOUS
<1>3. PICK g : Table(g, s, i + 1) /\ Start(s, i + 1) = g[i + 1]
  BY <1>2, StartIsEntry
<1>4. PICK h : Table(h, s, 1) /\ Start(s, 1) = h[1]
  BY <1>2, StartIsEntry
<1>5. h[1] = 0
  BY <1>4 DEF Table
<1>6. g[i + 1] = g[i] + Size(s, i)
  BY <1>3 DEF Table
<1>7. f[i] = g[i]
  BY <1>1, <1>3, TablesAgree
<1> QED
  BY <1>1, <1>3, <1>4, <1>5, <1>6, <1>7
-----------------------------------------------------------------------------
(* What TypeOf and Payload say of each kind of record.                     *)
LEMMA KindFacts ==
  ASSUME NEW x \in Kinds
  PROVE  /\ Payload[x] \in Nat /\ TypeOf[x] \in {20, 21, 22, 23}
         /\ TypeOf[x] = 23 <=> x = "D"
         /\ TypeOf[x] = 20 <=> x \in {"C", "X"}
         /\ TypeOf[x] = 22 <=> x \in {"H", "F"}
BY TlsAssumption DEF Kinds, Encrypted, TypeOf

(* Every record has at least a header.                                     *)
LEMMA SizeFacts ==
  ASSUME NEW s \in Seq(Kinds), NEW i \in DOMAIN s
  PROVE  Size(s, i) \in Nat /\ Size(s, i) = HdrLen + Payload[s[i]] /\ Size(s, i) >= HdrLen
         /\ Payload[s[i]] \in Nat /\ HdrLen \in Nat \ {0}
<1>1. s[i] \in Kinds
  OBVIOUS
<1>2. Payload[s[i]] \in Nat
  BY <1>1, KindFacts
<1> QED
  BY <1>2, TlsAssumption DEF Size

(* Records start at increasing places: each at or behind the end of every  *)
(* earlier one.                                                            *)
LEMMA StartsOrdered ==
  ASSUME NEW s \in Seq(Kinds), NEW i \in 1 .. Len(s) + 1, NEW j \in 1 .. Len(s) + 1, i <= j
  PROVE  /\ Start(s, i) \in Nat /\ Start(s, j) \in Nat /\ Start(s, i) <= Start(s, j)
         /\ i < j => Start(s, i) < Start(s, j)
<1>0. Len(s) \in Nat /\ DOMAIN s = 1 .. Len(s)
  OBVIOUS
<1> DEFINE T(n) == \A k \in 1 .. n : Start(s, k) \in Nat /\ (k < n => Start(s, k) < Start(s, n))
<1> DEFINE P == {n \in Nat : n \in 1 .. Len(s) + 1 => T(n)}
<1>1. Start(s, 1) = 0
  BY StartStep
<1>2. 0 \in P
  BY <1>0
<1>3. ASSUME NEW n \in P PROVE n + 1 \in P
  <2>0. n \in Nat /\ n + 1 \in Nat /\ (n \in 1 .. Len(s) + 1 => T(n))
    BY <1>3
  <2>1. ASSUME n + 1 \in 1 .. Len(s) + 1 PROVE T(n + 1)
    <3>1. CASE n = 0
      BY <1>1, <3>1
    <3>2. CASE n # 0
      <4>1. n \in 1 .. Len(s) + 1 /\ n \in DOMAIN s /\ n \in Nat \ {0}
        BY <1>0, <2>0, <2>1, <3>2
      <4>2. T(n)
        BY <2>0, <4>1
      <4>3. Start(s, n + 1) = Start(s, n) + Size(s, n)
        BY <4>1, StartStep
      <4>4. Size(s, n) \in Nat \ {0}
        BY <4>1, SizeFacts
      <4>5. Start(s, n) \in Nat
        BY <4>1, <4>2
      <4>6. Start(s, n + 1) \in Nat /\ Start(s, n) < Start(s, n + 1)
        BY <4>3, <4>4, <4>5
      <4>7. ASSUME NEW k \in 1 .. n + 1
            PROVE  Start(s, k) \in Nat /\ (k < n + 1 => Start(s, k) < Start(s, n + 1))
        <5>1. CASE k = n + 1
          BY <4>6, <5>1
        <5>2. CASE k # n + 1
          <6>1. k \in 1 .. n
            BY <2>0, <4>7, <5>2
          <6>2. Start(s, k) \in Nat /\ (k < n => Start(s, k) < Start(s, n))
            BY <4>2, <6>1
          <6>3. k = n \/ k < n
            BY <6>1, <2>0
          <6> QED
            BY <4>5, <4>6, <6>2, <6>3
        <5> QED
          BY <5>1, <5>2
      <4> QED
        BY <4>7
    <3> QED
      BY <3>1, <3>2
  <2> QED
    BY <2>0, <2>1
<1> HIDE DEF P
<1>4. P = Nat
  <2>1. P \subseteq Nat
    BY DEF P
  <2> QED
    BY <1>2, <1>3, <2>1, SetInduction
<1>5. j \in Nat /\ i \in 1 .. j /\ j \in 1 .. j
  BY <1>0
<1>6. T(j)
  BY <1>4, <1>5 DEF P
<1>7. /\ Start(s, i) \in Nat /\ Start(s, j) \in Nat
      /\ i < j => Start(s, i) < Start(s, j)
  BY <1>5, <1>6
<1> HIDE DEF T
<1>8. i = j \/ i < j
  BY <1>0
<1> QED
  BY <1>7, <1>8

-----------------------------------------------------------------------------
(* Epochs and sequence numbers.                                            *)

(* What is found before record i is finite.                                *)
LEMMA FiniteBefore ==
  ASSUME NEW i \in Nat \ {0}, NEW S, S \subseteq 1 .. i - 1
  PROVE  IsFiniteSet(S) /\ Cardinality(S) \in Nat
<1>1. IsFiniteSet(1 .. i - 1)
  <2>1. 1 \in Int /\ i - 1 \in Int
    OBVIOUS
  <2> QED
    BY <2>1, FS_Interval
<1>2. IsFiniteSet(S)
  BY <1>1, FS_Subset
<1> QED
  BY <1>2, FS_CardinalityType

(* Keys change on the way only.                                            *)
LEMMA EpochOrdered ==
  ASSUME NEW s, NEW i \in Nat \ {0}, NEW j \in Nat \ {0}, i <= j
  PROVE  Epoch(s, i) \in Nat /\ Epoch(s, j) \in Nat /\ Epoch(s, i) <= Epoch(s, j)
<1> DEFINE S == {k \in 1 .. i - 1 : s[k] = "X"}
           T == {k \in 1 .. j - 1 : s[k] = "X"}
<1>1. S \subseteq 1 .. i - 1 /\ T \subseteq 1 .. j - 1 /\ S \subseteq T
  OBVIOUS
<1>2. Epoch(s, i) = Cardinality(S) /\ Epoch(s, j) = Cardinality(T)
  BY DEF Epoch
<1> HIDE DEF S, T
<1>3. IsFiniteSet(T) /\ Cardinality(S) \in Nat /\ Cardinality(T) \in Nat
  BY <1>1, FiniteBefore
<1>4. Cardinality(S) <= Cardinality(T)
  BY <1>1, <1>3, FS_Subset
<1> QED
  BY <1>2, <1>3, <1>4

(* Under the first keys there were the first keys before.                  *)
LEMMA FirstKeys ==
  ASSUME NEW s, NEW i \in Nat \ {0}, NEW j \in Nat \ {0}, i <= j, Epoch(s, j) = 0
  PROVE  Epoch(s, i) = 0
<1>1. Epoch(s, i) \in Nat /\ Epoch(s, i) <= 0
  BY EpochOrdered
<1> QED
  BY <1>1

(* The encrypted records before i that are under the first keys.           *)
Before(s, i) == {j \in 1 .. i - 1 : s[j] \in Encrypted /\ Epoch(s, j) = 0}

(* Under the first keys the sequence number is their number.               *)
LEMMA SeqNoIs ==
  ASSUME NEW s, NEW i \in Nat \ {0}, Epoch(s, i) = 0
  PROVE  SeqNo(s, i) = Cardinality(Before(s, i)) /\ SeqNo(s, i) \in Nat /\ IsFiniteSet(Before(s, i))
<1>1. Before(s, i) \subseteq 1 .. i - 1
  BY DEF Before
<1>2. SeqNo(s, i) = Cardinality(Before(s, i))
  BY DEF SeqNo, Before
<1> QED
  BY <1>1, <1>2, FiniteBefore

(* An encrypted record uses up one number, a record in the clear none.     *)
LEMMA SeqNoStep ==
  ASSUME NEW s, NEW i \in Nat \ {0}, Epoch(s, i + 1) = 0
  PROVE  /\ Epoch(s, i) = 0
         /\ s[i] \in Encrypted => SeqNo(s, i + 1) = SeqNo(s, i) + 1
         /\ s[i] \notin Encrypted => SeqNo(s, i + 1) = SeqNo(s, i)
<1>0. i + 1 \in Nat \ {0} /\ (i + 1) - 1 = i /\ i <= i + 1
  OBVIOUS
<1>1. Epoch(s, i) = 0
  BY <1>0, FirstKeys
<1>2. SeqNo(s, i) = Cardinality(Before(s, i)) /\ IsFiniteSet(Before(s, i))
  BY <1>1, SeqNoIs
<1>3. SeqNo(s, i + 1) = Cardinality(Before(s, i + 1))
  BY <1>0, SeqNoIs
<1>4. \A k : k \in 1 .. i <=> k \in 1 .. i - 1 \/ k = i
  OBVIOUS
<1>5. ASSUME s[i] \in Encrypted PROVE SeqNo(s, i + 1) = SeqNo(s, i) + 1
  <2>1. Before(s, i + 1) = Before(s, i) \cup {i} /\ i \notin Before(s, i)
    BY <1>0, <1>1, <1>4, <1>5 DEF Before
  <2> QED
    BY <1>2, <1>3, <2>1, FS_AddElement
<1>6. ASSUME s[i] \notin Encrypted PROVE SeqNo(s, i + 1) = SeqNo(s, i)
  <2>1. Before(s, i + 1) = Before(s, i)
    BY <1>0, <1>4, <1>6 DEF Before
  <2> QED
    BY <1>2, <1>3, <2>1
<1> QED
  BY <1>1, <1>5, <1>6

(* Under the first keys sequence numbers grow, and no two encrypted        *)
(* records have the same.                                                  *)
LEMMA SeqNoOrdered ==
  ASSUME NEW s, NEW i \in Nat \ {0}, NEW j \in Nat \ {0}, i <= j, Epoch(s, j) = 0
  PROVE  /\ Epoch(s, i) = 0 /\ SeqNo(s, i) \in Nat /\ SeqNo(s, j) \in Nat
         /\ SeqNo(s, i) <= SeqNo(s, j)
         /\ i < j /\ s[i] \in Encrypted => SeqNo(s, i) < SeqNo(s, j)
<1>1. Epoch(s, i) = 0
  BY FirstKeys
<1>2. /\ SeqNo(s, i) = Cardinality(Before(s, i)) /\ SeqNo(s, i) \in Nat /\ IsFiniteSet(Before(s, i))
      /\ SeqNo(s, j) = Cardinality(Before(s, j)) /\ SeqNo(s, j) \in Nat /\ IsFiniteSet(Before(s, j))
  BY <1>1, SeqNoIs
<1>3. Before(s, i) \subseteq Before(s, j)
  BY DEF Before
<1>4. SeqNo(s, i) <= SeqNo(s, j)
  BY <1>2, <1>3, FS_Subset
<1>5. ASSUME i < j, s[i] \in Encrypted PROVE SeqNo(s, i) < SeqNo(s, j)
  <2>1. i + 1 \in Nat \ {0} /\ i + 1 <= j
    BY <1>5
  <2>2. Epoch(s, i + 1) = 0
    BY <2>1, FirstKeys
  <2>3. SeqNo(s, i + 1) = SeqNo(s, i) + 1
    BY <1>5, <2>2, SeqNoStep
  <2>4. SeqNo(s, i + 1) = Cardinality(Before(s, i + 1)) /\ SeqNo(s, i + 1) \in Nat
    BY <2>1, <2>2, SeqNoIs
  <2>5. Before(s, i + 1) \subseteq Before(s, j)
    BY <2>1 DEF Before
  <2>6. SeqNo(s, i + 1) <= SeqNo(s, j)
    BY <1>2, <2>4, <2>5, FS_Subset
  <2> QED
    BY <1>2, <2>3, <2>6
<1> QED
  BY <1>1, <1>2, <1>4, <1>5

(* Sequence numbers begin with 0 and the first keys.                       *)
LEMMA SeqNoFirst ==
  ASSUME NEW s
  PROVE  Epoch(s, 1) = 0 /\ SeqNo(s, 1) = 0
<1>2. {j \in 1 .. 1 - 1 : s[j] = "X"} = {}
  OBVIOUS
<1>3. Epoch(s, 1) = 0
  BY <1>2, FS_EmptySet DEF Epoch
<1>4. Before(s, 1) = {}
  BY DEF Before
<1> QED
  BY <1>3, <1>4, SeqNoIs, FS_EmptySet

-----------------------------------------------------------------------------
(* The beginning.                                                          *)

(* The length of a direction's wire.                                       *)
LEMMA WireLenType ==
  ASSUME NEW s \in Seq(Kinds)
  PROVE  WireLen(s) \in Nat
<1>1. Len(s) + 1 \in 1 .. Len(s) + 1
  OBVIOUS
<1> QED
  BY <1>1, StartsOrdered DEF WireLen

(* Every capture is typed: a hole lies within the wire.                    *)
LEMMA InputInit == Init => InputTyped
<1> SUFFICES ASSUME Init PROVE InputTyped
  OBVIOUS
<1>1. script \in [Dirs -> Seq(Kinds)] /\ \A d \in Dirs : IsScript(script[d])
  <2>1. PICK f \in Flows : script = f.script
    BY DEF Init
  <2> QED
    BY <2>1, TlsAssumption
<1>2. PICK holed \in HoledDirs : Hole(holed)
  BY DEF Init
<1> DEFINE rest(d, at) == WireLen(script[d]) - at
           holes(d) == IF d \notin holed THEN {<<WireLen(script[d]), 0>>}
                  ELSE {h \in (0 .. WireLen(script[d])) \X (0 .. WireLen(script[d])) :
                          h[2] = rest(d, h[1]) \/ (h[2] \in HoleLengths /\ h[2] < rest(d, h[1]))}
<1>3. \E o \in holes("out"), i \in holes("in") :
        /\ holeAt = [out |-> o[1], in |-> i[1]]
        /\ holeLen = [out |-> o[2], in |-> i[2]]
  BY <1>2 DEF Hole
<1>4. PICK o, i : /\ o \in holes("out") /\ i \in holes("in")
                  /\ holeAt = [out |-> o[1], in |-> i[1]]
                  /\ holeLen = [out |-> o[2], in |-> i[2]]
  BY <1>3
<1>5. ASSUME NEW d \in Dirs, NEW h \in holes(d)
      PROVE  h[1] \in Nat /\ h[2] \in Nat /\ h[1] + h[2] <= WireLen(script[d])
  <2>1. WireLen(script[d]) \in Nat
    BY <1>1, <1>5, WireLenType
  <2>2. CASE d \notin holed
    BY <1>5, <2>1, <2>2
  <2>3. CASE d \in holed
    <3>1. PICK a \in 0 .. WireLen(script[d]), b \in 0 .. WireLen(script[d]) :
            h = <<a, b>> /\ (b = rest(d, a) \/ b < rest(d, a))
      BY <1>5, <2>1, <2>3
    <3> QED
      BY <2>1, <3>1
  <2> QED
    BY <2>2, <2>3
<1> HIDE DEF holes
<1>6. Dirs = {"out", "in"}
  BY DEF Dirs
<1>7. /\ o[1] \in Nat /\ o[2] \in Nat /\ o[1] + o[2] <= WireLen(script["out"])
      /\ i[1] \in Nat /\ i[2] \in Nat /\ i[1] + i[2] <= WireLen(script["in"])
  BY <1>4, <1>5, <1>6
<1> QED
  BY <1>1, <1>4, <1>6, <1>7 DEF InputTyped

(* Nothing is parsed yet.                                                  *)
LEMMA TlsInit == Init => TlsInv
<1> SUFFICES ASSUME Init PROVE TlsInv
  OBVIOUS
<1>1. InputTyped
  BY InputInit
<1>2. /\ secret = "none" /\ pos = [d \in Dirs |-> 0] /\ recs = [d \in Dirs |-> <<>>]
      /\ keysRight = FALSE /\ next = [d \in Dirs |-> 1] /\ enc = [d \in Dirs |-> FALSE]
      /\ seq = [d \in Dirs |-> 0] /\ plain = [d \in Dirs |-> <<>>] /\ ok = FALSE /\ pc = "keylog"
  BY DEF Init
<1>3. keylog \in Seq(Lines)
  <2>1. PICK f \in Flows : keylog = f.keylog
    BY DEF Init
  <2> QED
    BY <2>1, TlsAssumption
<1>4. Typed
  <2>1. pos \in [Dirs -> Int] /\ next \in [Dirs -> Nat \ {0}] /\ seq \in [Dirs -> Nat]
    BY <1>2
  <2>2. recs \in [Dirs -> Seq(RecType)] /\ plain \in [Dirs -> Seq(Nat)]
    <3>1. <<>> \in Seq(RecType) /\ <<>> \in Seq(Nat)
      OBVIOUS
    <3> QED
      BY <1>2, <3>1
  <2>3. enc \in [Dirs -> BOOLEAN] /\ keysRight \in BOOLEAN /\ ok \in BOOLEAN
    BY <1>2
  <2>4. secret \in Secrets
    BY <1>2 DEF Secrets
  <2> QED
    BY <1>2, <1>3, <2>1, <2>2, <2>3, <2>4 DEF Typed
<1>5. Stages
  BY <1>2 DEF Stages, Complete
<1>6. ASSUME NEW d \in Dirs
      PROVE  next[d] \in 1 .. Len(recs[d]) + 1 /\ Parsed(d) /\ Shown(d) /\ InStep(d)
  <2>1. pos[d] = 0 /\ recs[d] = <<>> /\ next[d] = 1 /\ enc[d] = FALSE /\ seq[d] = 0 /\ plain[d] = <<>>
    BY <1>2
  <2>2. script[d] \in Seq(Kinds) /\ holeLen[d] \in Nat /\ holeAt[d] \in Nat
        /\ holeAt[d] + holeLen[d] <= WireLen(script[d]) /\ WireLen(script[d]) \in Nat
    BY <1>1, WireLenType DEF InputTyped
  <2>3. CaptureLen(d) \in Nat
    BY <2>2 DEF CaptureLen
  <2>4. Parsed(d)
    <3>1. Start(script[d], 1) = 0
      <4>1. 1 \in Nat \ {0}
        OBVIOUS
      <4> QED
        BY <4>1, StartStep
    <3>2. 0 \in -1 .. CaptureLen(d)
      BY <2>3
    <3> QED
      BY <2>1, <3>1, <3>2 DEF Parsed, ParsedAs
  <2>5. Shown(d)
    <3>1. ASSUME NEW k \in DOMAIN script[d], Counted(d, k, 0) PROVE FALSE
      <4>1. k \in Nat \ {0} /\ Epoch(script[d], k) = 0 /\ SeqNo(script[d], k) < 0
        BY <2>1, <2>2, <3>1 DEF Counted
      <4>2. SeqNo(script[d], k) \in Nat
        BY <4>1, SeqNoIs
      <4> QED
        BY <4>1, <4>2
    <3> QED
      BY <2>1, <3>1 DEF Shown, ShownAs
  <2>6. InStep(d)
    <3>1. SeqNo(script[d], 1) = 0
      BY SeqNoFirst
    <3> QED
      BY <2>1, <3>1 DEF InStep, InStepAs
  <2> QED
    BY <2>1, <2>4, <2>5, <2>6
<1> QED
  BY <1>1, <1>4, <1>5, <1>6 DEF TlsInv

-----------------------------------------------------------------------------
(* Cutting the capture into records.                                       *)

(* The connection, and where it is captured.                               *)
LEMMA InputFacts ==
  ASSUME InputTyped, NEW d \in Dirs
  PROVE  /\ script[d] \in Seq(Kinds) /\ IsScript(script[d]) /\ Len(script[d]) \in Nat
         /\ DOMAIN script[d] = 1 .. Len(script[d])
         /\ holeAt[d] \in Nat /\ holeLen[d] \in Nat
         /\ CaptureLen(d) \in Nat /\ holeAt[d] <= CaptureLen(d)
<1>1. /\ script[d] \in Seq(Kinds) /\ IsScript(script[d]) /\ holeAt[d] \in Nat /\ holeLen[d] \in Nat
      /\ holeAt[d] + holeLen[d] <= WireLen(script[d])
  BY DEF InputTyped
<1>2. WireLen(script[d]) \in Nat
  BY <1>1, WireLenType
<1>3. CaptureLen(d) \in Nat /\ holeAt[d] <= CaptureLen(d)
  BY <1>1, <1>2 DEF CaptureLen
<1> QED
  BY <1>1, <1>3

(* What may be read, wherever: nothing is taken for a record of the wire   *)
(* that is not one.                                                        *)
LEMMA ReadFacts ==
  ASSUME InputTyped, NEW d \in Dirs, NEW i, NEW r \in ReadAt(d, i)
  PROVE  /\ r \in RecType
         /\ r.wire # 0 => r.wire \in DOMAIN script[d] /\ r.type = TypeOf[script[d][r.wire]]
<1> DEFINE s == script[d]
           here == {k \in DOMAIN s : Start(s, k) = WirePos(d, i)}
<1>1. s \in Seq(Kinds) /\ DOMAIN s = 1 .. Len(s) /\ Len(s) \in Nat
  BY InputFacts
<1>2. \/ r \in Junk
      \/ r \in {[type |-> TypeOf[s[k]], len |-> Payload[s[k]],
                 wire |-> IF Unbroken(d, i, i + Size(s, k)) THEN k ELSE 0] : k \in here}
  BY DEF ReadAt
<1>3. ASSUME r \in Junk PROVE r \in RecType /\ r.wire = 0
  <2>1. r \in [type : {20, 22, 23}, len : JunkLengths, wire : {0}]
    BY <1>3 DEF Junk
  <2>2. /\ r = [type |-> r.type, len |-> r.len, wire |-> r.wire]
        /\ r.type \in {20, 22, 23} /\ r.len \in JunkLengths /\ r.wire = 0
    BY <2>1
  <2>3. r.len \in Nat /\ r.type \in Nat
    BY <2>2, TlsAssumption
  <2> QED
    BY <2>2, <2>3 DEF RecType
<1>4. ASSUME r \in {[type |-> TypeOf[s[k]], len |-> Payload[s[k]],
                     wire |-> IF Unbroken(d, i, i + Size(s, k)) THEN k ELSE 0] : k \in here}
      PROVE  /\ r \in RecType
             /\ r.wire # 0 => r.wire \in DOMAIN s /\ r.type = TypeOf[s[r.wire]]
  <2>1. PICK k \in DOMAIN s : r = [type |-> TypeOf[s[k]], len |-> Payload[s[k]],
                                   wire |-> IF Unbroken(d, i, i + Size(s, k)) THEN k ELSE 0]
    BY <1>4
  <2>2. s[k] \in Kinds /\ k \in Nat
    BY <1>1
  <2>3. Payload[s[k]] \in Nat /\ TypeOf[s[k]] \in Nat
    BY <2>2, KindFacts
  <2>4. r.type = TypeOf[s[k]] /\ r.len = Payload[s[k]] /\ r.wire \in {k, 0}
    BY <2>1
  <2>5. r \in RecType
    <3>1. PICK w \in Nat : r = [type |-> TypeOf[s[k]], len |-> Payload[s[k]], wire |-> w]
      BY <2>1, <2>2
    <3> QED
      BY <2>3, <3>1 DEF RecType
  <2> QED
    BY <2>4, <2>5
<1> QED
  BY <1>2, <1>3, <1>4

(* Where a record starts that lies wholly before the hole, it is read.     *)
LEMMA ReadWhole ==
  ASSUME InputTyped, NEW d \in Dirs, NEW k \in DOMAIN script[d], Whole(d, k),
         NEW r \in ReadAt(d, Start(script[d], k))
  PROVE  /\ r.wire = k /\ r.type = TypeOf[script[d][k]] /\ r.len \in Nat
         /\ Start(script[d], k) + HdrLen + r.len = Start(script[d], k + 1)
         /\ Start(script[d], k) + HdrLen <= CaptureLen(d)
         /\ Start(script[d], k + 1) <= CaptureLen(d)
<1> DEFINE s == script[d]
<1>0. /\ s \in Seq(Kinds) /\ DOMAIN s = 1 .. Len(s) /\ Len(s) \in Nat
      /\ holeAt[d] \in Nat /\ CaptureLen(d) \in Nat /\ holeAt[d] <= CaptureLen(d)
  BY InputFacts
<1> HIDE DEF s
<1>1. k \in 1 .. Len(s) + 1 /\ k + 1 \in 1 .. Len(s) + 1 /\ k < k + 1 /\ k \in Nat \ {0} /\ k \in DOMAIN s
  BY <1>0 DEF s
<1>2. PICK a \in Nat, b \in Nat : a = Start(s, k) /\ b = Start(s, k + 1) /\ a < b
  BY <1>0, <1>1, StartsOrdered
<1>3. PICK n \in Nat : n = Size(s, k) /\ n = HdrLen + Payload[s[k]] /\ n >= HdrLen
  BY <1>0, <1>1, SizeFacts
<1>4. b = a + n /\ b <= holeAt[d] /\ Payload[s[k]] \in Nat /\ HdrLen \in Nat \ {0}
  BY <1>0, <1>1, <1>2, <1>3, StartStep, SizeFacts DEF Whole, s
<1>5. WirePos(d, a) = a /\ Unbroken(d, a, a + HdrLen) /\ Unbroken(d, a, a + n)
  <2>1. PICK h \in Nat : h = holeAt[d] /\ a + n <= h
    BY <1>0, <1>4
  <2>2. a + HdrLen <= h /\ a < h
    BY <1>2, <1>3, <1>4, <2>1
  <2>3. WirePos(d, a) = a
    BY <2>1, <2>2 DEF WirePos
  <2>4. Unbroken(d, a, a + HdrLen) /\ Unbroken(d, a, a + n)
    BY <2>1, <2>2 DEF Unbroken
  <2> QED
    BY <2>3, <2>4
<1>6. {j \in DOMAIN s : Start(s, j) = a} = {k}
  <2>1. ASSUME NEW j \in DOMAIN s, Start(s, j) = a PROVE j = k
    <3>1. j \in 1 .. Len(s) + 1 /\ j \in Int /\ k \in Int
      BY <1>0, <1>1
    <3>2. CASE j < k
      <4>1. Start(s, j) < Start(s, k)
        BY <1>0, <1>1, <3>1, <3>2, StartsOrdered
      <4> QED
        BY <1>2, <2>1, <4>1
    <3>3. CASE k < j
      <4>1. Start(s, k) < Start(s, j)
        BY <1>0, <1>1, <3>1, <3>3, StartsOrdered
      <4> QED
        BY <1>2, <2>1, <4>1
    <3> QED
      BY <3>1, <3>2, <3>3
  <2> QED
    BY <1>1, <1>2, <2>1
<1>7. ReadAt(d, a) = {[type |-> TypeOf[s[k]], len |-> Payload[s[k]], wire |-> k]}
  <2>1. ReadAt(d, a) = {[type |-> TypeOf[s[j]], len |-> Payload[s[j]],
                         wire |-> IF Unbroken(d, a, a + Size(s, j)) THEN j ELSE 0] : j \in {k}}
    BY <1>5, <1>6 DEF ReadAt, s
  <2> QED
    BY <1>3, <1>5, <2>1
<1>8. r \in ReadAt(d, a)
  BY <1>2 DEF s
<1>9. r.wire = k /\ r.type = TypeOf[s[k]] /\ r.len = Payload[s[k]]
  BY <1>7, <1>8
<1>10. PICK l \in Nat : l = r.len /\ n = HdrLen + l
  BY <1>3, <1>4, <1>9
<1>11. a + HdrLen + l = b /\ a + HdrLen <= CaptureLen(d) /\ b <= CaptureLen(d)
  <2>1. b = a + n /\ n = HdrLen + l /\ HdrLen \in Nat
    BY <1>4, <1>10
  <2>2. b <= holeAt[d]
    BY <1>4
  <2>3. PICK c \in Nat : c = CaptureLen(d) /\ holeAt[d] <= c
    BY <1>0
  <2>4. b <= c
    BY <1>0, <2>2, <2>3
  <2>5. a + HdrLen <= b /\ a + HdrLen + l = b
    BY <2>1
  <2>6. a + HdrLen <= c
    BY <2>1, <2>4, <2>5
  <2> QED
    BY <2>3, <2>4, <2>5, <2>6
<1> QED
  BY <1>2, <1>9, <1>10, <1>11 DEF s

(* ... and its header fits.                                                *)
LEMMA WholeRoom ==
  ASSUME InputTyped, NEW d \in Dirs, NEW k \in DOMAIN script[d], Whole(d, k)
  PROVE  Start(script[d], k) + HdrLen <= CaptureLen(d)
<1>0. /\ script[d] \in Seq(Kinds) /\ DOMAIN script[d] = 1 .. Len(script[d])
      /\ Len(script[d]) \in Nat
      /\ holeAt[d] \in Nat /\ CaptureLen(d) \in Nat /\ holeAt[d] <= CaptureLen(d)
  BY InputFacts
<1>1. k \in 1 .. Len(script[d]) + 1 /\ k \in Nat \ {0}
  BY <1>0
<1>2. PICK a \in Nat : a = Start(script[d], k)
  BY <1>0, <1>1, StartsOrdered
<1>3. PICK n \in Nat : n = Size(script[d], k) /\ n >= HdrLen
  BY <1>0, SizeFacts
<1>4. a + n <= holeAt[d]
  BY <1>1, <1>2, <1>3, StartStep DEF Whole
<1>5. PICK c \in Nat : c = CaptureLen(d) /\ holeAt[d] <= c
  BY <1>0
<1>6. a + HdrLen <= c
  BY <1>0, <1>3, <1>4, <1>5, TlsAssumption
<1> QED
  BY <1>2, <1>5, <1>6

(* A record before one that lies wholly before the hole does so too.       *)
LEMMA WholeBefore ==
  ASSUME InputTyped, NEW d \in Dirs, NEW i \in DOMAIN script[d], NEW j \in DOMAIN script[d],
         i <= j, Whole(d, j)
  PROVE  Whole(d, i)
<1>0. /\ script[d] \in Seq(Kinds) /\ DOMAIN script[d] = 1 .. Len(script[d])
      /\ Len(script[d]) \in Nat /\ holeAt[d] \in Nat
  BY InputFacts
<1>1. /\ i + 1 \in 1 .. Len(script[d]) + 1 /\ j + 1 \in 1 .. Len(script[d]) + 1 /\ i + 1 <= j + 1
  BY <1>0
<1>2. /\ Start(script[d], i + 1) \in Nat /\ Start(script[d], j + 1) \in Nat
      /\ Start(script[d], i + 1) <= Start(script[d], j + 1)
  BY <1>0, <1>1, StartsOrdered
<1> QED
  BY <1>0, <1>2 DEF Whole

-----------------------------------------------------------------------------
(* What no step changes: the connection and its capture.                   *)
LEMMA InputKept ==
  ASSUME [Next]_vars
  PROVE  UNCHANGED inputVars
BY DEF Next, AddLine, KeyLogRead, Handshake, ParseRecord, ParseEnd, Skip, Decrypt, DecryptFails,
       DirDone, vars, inputVars

(* So the predicates about it speak of the same wire after a step.         *)
LEMMA SameWire ==
  ASSUME UNCHANGED inputVars
  PROVE  /\ InputTyped => InputTyped'
         /\ Complete' <=> suite = "gcm" /\ secret' = "right"
                          /\ \A d \in Dirs : \E i \in DOMAIN script[d] : script[d][i] = "H" /\ Whole(d, i)
         /\ \A d \in Dirs : /\ Parsed(d)' <=> ParsedAs(d, pos'[d], recs'[d])
                            /\ Shown(d)'  <=> ShownAs(d, plain'[d], seq'[d])
                            /\ InStep(d)' <=> InStepAs(d, next'[d], enc'[d], seq'[d])
<1>0. script' = script /\ holeAt' = holeAt /\ holeLen' = holeLen /\ suite' = suite
  BY DEF inputVars
<1>1. InputTyped => InputTyped'
  BY <1>0 DEF InputTyped
<1>2. \A d \in Dirs : \A i : Whole(d, i)' <=> Whole(d, i)
  BY <1>0 DEF Whole
<1>3. Complete' <=> suite = "gcm" /\ secret' = "right"
                    /\ \A d \in Dirs : \E i \in DOMAIN script[d] : script[d][i] = "H" /\ Whole(d, i)
  BY <1>0 DEF Complete, Whole
<1>4. ASSUME NEW d \in Dirs
      PROVE  /\ Parsed(d)' <=> ParsedAs(d, pos'[d], recs'[d])
             /\ Shown(d)'  <=> ShownAs(d, plain'[d], seq'[d])
             /\ InStep(d)' <=> InStepAs(d, next'[d], enc'[d], seq'[d])
  <2>1. Parsed(d)' <=> ParsedAs(d, pos'[d], recs'[d])
    BY <1>0 DEF Parsed, ParsedAs, Whole, CaptureLen
  <2>2. Shown(d)'  <=> ShownAs(d, plain'[d], seq'[d])
    BY <1>0 DEF Shown, ShownAs, Counted
  <2>3. InStep(d)' <=> InStepAs(d, next'[d], enc'[d], seq'[d])
    BY <1>0 DEF InStep, InStepAs, Whole
  <2> QED
    BY <2>1, <2>2, <2>3
<1> QED
  BY <1>1, <1>3, <1>4

(* Reading one more record keeps step.                                     *)
LEMMA ReadStep ==
  ASSUME InputTyped, NEW d \in Dirs, NEW p \in Nat, NEW R \in Seq(RecType), ParsedAs(d, p, R),
         NEW r \in ReadAt(d, p), p + HdrLen + r.len <= CaptureLen(d)
  PROVE  ParsedAs(d, p + HdrLen + r.len, Append(R, r))
<1>0. /\ DOMAIN script[d] = 1 .. Len(script[d]) /\ Len(script[d]) \in Nat
      /\ CaptureLen(d) \in Nat /\ Len(R) \in Nat /\ DOMAIN R = 1 .. Len(R)
  BY InputFacts
<1>1. r \in RecType /\ (r.wire # 0 => r.wire \in DOMAIN script[d] /\ r.type = TypeOf[script[d][r.wire]])
  BY ReadFacts
<1>2. PICK l \in Nat : l = r.len
  BY <1>1 DEF RecType
<1>3. PICK S \in Seq(RecType) : S = Append(R, r)
  <2>1. r \in RecType
    BY <1>1
  <2>2. Append(R, r) \in Seq(RecType)
    BY <2>1
  <2> QED
    BY <2>2
<1>4. /\ Len(S) = Len(R) + 1 /\ DOMAIN S = 1 .. Len(R) + 1 /\ S[Len(R) + 1] = r
      /\ \A i \in 1 .. Len(R) : S[i] = R[i]
  BY <1>0, <1>1, <1>3
<1>5. p # -1 /\ HdrLen \in Nat /\ p + HdrLen + l \in 0 .. CaptureLen(d)
  BY <1>0, <1>2, TlsAssumption
<1>6. ASSUME Whole(d, Len(R) + 1)
      PROVE  r.wire = Len(R) + 1 /\ p + HdrLen + l = Start(script[d], Len(R) + 2)
  <2>1. Len(R) + 1 \in DOMAIN script[d]
    BY <1>6 DEF Whole
  <2>2. Len(R) = 0 \/ Whole(d, Len(R))
    <3>1. CASE Len(R) # 0
      <4>1. Len(R) \in DOMAIN script[d] /\ Len(R) <= Len(R) + 1
        BY <1>0, <2>1, <3>1
      <4> QED
        BY <1>6, <2>1, <4>1, WholeBefore
    <3> QED
      BY <3>1
  <2>3. p = Start(script[d], Len(R) + 1)
    BY <1>5, <2>2 DEF ParsedAs
  <2>4. PICK k \in DOMAIN script[d] : k = Len(R) + 1 /\ k \in Nat /\ k + 1 = Len(R) + 2
    BY <1>0, <2>1
  <2>5. r \in ReadAt(d, Start(script[d], k)) /\ Whole(d, k)
    BY <1>6, <2>3, <2>4
  <2>6. r.wire = k /\ Start(script[d], k) + HdrLen + r.len = Start(script[d], k + 1)
    BY <2>5, ReadWhole
  <2> QED
    BY <1>2, <2>3, <2>4, <2>6
<1>7. ASSUME NEW i \in DOMAIN S
      PROVE  /\ S[i].wire # 0 => /\ S[i].wire \in DOMAIN script[d]
                                 /\ S[i].type = TypeOf[script[d][S[i].wire]]
             /\ Whole(d, i) => S[i].wire = i
  <2>1. CASE i = Len(R) + 1
    BY <1>1, <1>4, <1>6, <2>1
  <2>2. CASE i # Len(R) + 1
    <3>1. i \in DOMAIN R /\ S[i] = R[i]
      BY <1>0, <1>4, <2>2
    <3> QED
      BY <3>1 DEF ParsedAs
  <2> QED
    BY <2>1, <2>2
<1>8. Len(S) = 0 \/ Whole(d, Len(S)) => p + HdrLen + l = Start(script[d], Len(S) + 1)
  <2>1. Len(S) # 0 /\ Len(S) + 1 = Len(R) + 2
    BY <1>0, <1>4
  <2> QED
    BY <1>4, <1>6, <2>1
<1>9. p + HdrLen + l \in -1 .. CaptureLen(d) /\ p + HdrLen + l # -1
  BY <1>0, <1>5
<1>10. ParsedAs(d, p + HdrLen + l, S)
  BY <1>7, <1>8, <1>9 DEF ParsedAs
<1> QED
  BY <1>2, <1>3, <1>10

(* Where no record fits any more, none is left before the hole.            *)
LEMMA EndStep ==
  ASSUME InputTyped, NEW d \in Dirs, NEW p \in Nat, NEW R \in Seq(RecType), ParsedAs(d, p, R),
         \/ p + HdrLen > CaptureLen(d)
         \/ \E r \in ReadAt(d, p) : p + HdrLen + r.len > CaptureLen(d)
  PROVE  ParsedAs(d, -1, R)
<1>0. /\ DOMAIN script[d] = 1 .. Len(script[d]) /\ Len(script[d]) \in Nat
      /\ CaptureLen(d) \in Nat /\ Len(R) \in Nat /\ DOMAIN R = 1 .. Len(R) /\ HdrLen \in Nat
  BY InputFacts, TlsAssumption
<1>1. ASSUME NEW i \in DOMAIN script[d], Whole(d, i), ~ (i <= Len(R)) PROVE FALSE
  <2>1. PICK k \in DOMAIN script[d] : k = Len(R) + 1 /\ k <= i
    BY <1>0, <1>1
  <2>2. Whole(d, k)
    BY <1>1, <2>1, WholeBefore
  <2>3. Len(R) = 0 \/ Whole(d, Len(R))
    <3>1. CASE Len(R) # 0
      <4>1. Len(R) \in DOMAIN script[d] /\ Len(R) <= k
        BY <1>0, <2>1, <3>1
      <4> QED
        BY <2>2, <4>1, WholeBefore
    <3> QED
      BY <3>1
  <2>4. p = Start(script[d], k)
    <3>1. p # -1
      OBVIOUS
    <3> QED
      BY <2>1, <2>3, <3>1 DEF ParsedAs
  <2>5. ASSUME NEW r \in ReadAt(d, p)
        PROVE  r.len \in Nat /\ p + HdrLen + r.len = Start(script[d], k + 1)
               /\ Start(script[d], k + 1) <= CaptureLen(d)
    BY <2>2, <2>4, <2>5, ReadWhole
  <2>6. p + HdrLen <= CaptureLen(d)
    BY <2>2, <2>4, WholeRoom
  <2>7. PICK r \in ReadAt(d, p) : p + HdrLen + r.len > CaptureLen(d)
    BY <1>0, <2>6
  <2> QED
    BY <1>0, <2>5, <2>7
<1>2. -1 \in -1 .. CaptureLen(d)
  BY <1>0
<1> QED
  BY <1>1, <1>2 DEF ParsedAs

-----------------------------------------------------------------------------
(* Decrypting.                                                             *)

(* Record k of R was decrypted under the sequence number q.                *)
Opens(d, R, k, q) ==
  LET w == R[k].wire IN
  /\ w # 0 /\ script[d][w] \in Encrypted
  /\ Epoch(script[d], w) = 0 /\ SeqNo(script[d], w) = q

(* One more record decrypted: the plaintext is what is counted now.        *)
LEMMA ShownStep ==
  ASSUME InputTyped, NEW d \in Dirs, NEW t \in Seq(Nat), NEW q \in Nat, ShownAs(d, t, q),
         NEW w \in DOMAIN script[d], script[d][w] \in Encrypted,
         Epoch(script[d], w) = 0, SeqNo(script[d], w) = q
  PROVE  ShownAs(d, IF script[d][w] = "D" THEN Append(t, w) ELSE t, q + 1)
<1> DEFINE s == script[d]
<1>0. DOMAIN s = 1 .. Len(s) /\ Len(s) \in Nat /\ w \in Nat \ {0}
  BY InputFacts
<1>1. ASSUME NEW k \in DOMAIN s, Epoch(s, k) = 0
      PROVE  /\ SeqNo(s, k) \in Nat /\ k \in Nat
             /\ s[k] \in Encrypted /\ SeqNo(s, k) < q + 1 => SeqNo(s, k) < q \/ k = w
             /\ SeqNo(s, k) < q => k < w
  <2>0. k \in Nat \ {0}
    BY <1>0
  <2>1. SeqNo(s, k) \in Nat
    BY <1>1, <2>0, SeqNoIs
  <2>2. ASSUME SeqNo(s, k) < q PROVE k < w
    <3>1. CASE w <= k
      <4>1. SeqNo(s, w) <= SeqNo(s, k)
        BY <1>0, <1>1, <2>0, <3>1, SeqNoOrdered
      <4> QED
        BY <2>1, <2>2, <4>1
    <3> QED
      BY <1>0, <2>0, <3>1
  <2>3. ASSUME s[k] \in Encrypted, SeqNo(s, k) < q + 1, ~ (SeqNo(s, k) < q) PROVE k = w
    <3>1. SeqNo(s, k) = q
      BY <2>1, <2>3
    <3>2. CASE k < w
      <4>1. SeqNo(s, k) < SeqNo(s, w)
        BY <1>0, <2>0, <2>3, <3>2, SeqNoOrdered
      <4> QED
        BY <3>1, <4>1
    <3>3. CASE w < k
      <4>1. SeqNo(s, w) < SeqNo(s, k)
        BY <1>0, <1>1, <2>0, <3>3, SeqNoOrdered
      <4> QED
        BY <3>1, <4>1
    <3> QED
      BY <1>0, <2>0, <3>2, <3>3
  <2> QED
    BY <2>0, <2>1, <2>2, <2>3
<1>2. \A k : Counted(d, k, q) => Counted(d, k, q + 1) /\ k < w /\ k \in Nat
  BY <1>1 DEF Counted
<1>3. \A k : Counted(d, k, q + 1) => Counted(d, k, q) \/ k = w
  <2>1. "D" \in Encrypted
    BY DEF Encrypted
  <2> QED
    BY <1>1, <2>1 DEF Counted
<1>4. /\ \A i \in DOMAIN t : Counted(d, t[i], q)
      /\ \A i, j \in DOMAIN t : i < j => t[i] < t[j]
      /\ \A k \in DOMAIN s : Counted(d, k, q) => \E j \in DOMAIN t : t[j] = k
  BY DEF ShownAs
<1>5. CASE s[w] # "D"
  <2>1. \A k : Counted(d, k, q + 1) => Counted(d, k, q)
    BY <1>3, <1>5 DEF Counted
  <2> QED
    BY <1>2, <1>4, <1>5, <2>1 DEF ShownAs
<1>6. CASE s[w] = "D"
  <2>1. PICK u \in Seq(Nat) : u = Append(t, w)
    <3>1. PICK x \in Nat : x = w
      BY <1>0
    <3>2. Append(t, x) \in Seq(Nat)
      OBVIOUS
    <3> QED
      BY <3>1, <3>2
  <2>2. /\ DOMAIN t = 1 .. Len(t) /\ Len(t) \in Nat
        /\ DOMAIN u = 1 .. Len(t) + 1 /\ u[Len(t) + 1] = w
        /\ \A i \in 1 .. Len(t) : u[i] = t[i]
    BY <1>0, <2>1
  <2>3. Counted(d, w, q + 1)
    BY <1>6 DEF Counted
  <2>4. \A i \in DOMAIN u : (i \in DOMAIN t /\ u[i] = t[i]) \/ i = Len(t) + 1
    BY <2>2
  <2>5. \A i \in DOMAIN u : Counted(d, u[i], q + 1)
    BY <1>2, <1>4, <2>2, <2>3, <2>4
  <2>6. ASSUME NEW i \in DOMAIN u, NEW j \in DOMAIN u, i < j PROVE u[i] < u[j]
    <3>1. i \in DOMAIN t /\ u[i] = t[i]
      BY <2>2, <2>6
    <3>2. CASE j \in DOMAIN t
      BY <1>4, <2>2, <2>6, <3>1, <3>2
    <3>3. CASE j = Len(t) + 1
      BY <1>2, <1>4, <2>2, <3>1, <3>3
    <3> QED
      BY <2>4, <3>2, <3>3
  <2>7. ASSUME NEW k \in DOMAIN s, Counted(d, k, q + 1) PROVE \E j \in DOMAIN u : u[j] = k
    <3>1. CASE k = w
      <4>1. Len(t) + 1 \in DOMAIN u
        BY <2>2
      <4> QED
        BY <2>2, <3>1, <4>1
    <3>2. CASE Counted(d, k, q)
      <4>1. PICK j \in DOMAIN t : t[j] = k
        BY <1>4, <3>2
      <4>2. j \in DOMAIN u /\ u[j] = t[j]
        BY <2>2
      <4> QED
        BY <4>1, <4>2
    <3> QED
      BY <1>3, <2>7, <3>1, <3>2
  <2>8. ShownAs(d, u, q + 1)
    BY <2>5, <2>6, <2>7 DEF ShownAs
  <2> QED
    BY <1>6, <2>1, <2>8
<1> QED
  BY <1>5, <1>6

(* The records up to and with k of those found are the wire's if the k-th  *)
(* lies before the hole; in step, DecryptDir decrypts exactly the          *)
(* encrypted ones, with their own numbers.                                 *)
LEMMA AtRecord ==
  ASSUME InputTyped, NEW d \in Dirs, NEW p, NEW R \in Seq(RecType), ParsedAs(d, p, R),
         NEW k \in DOMAIN R, NEW e, NEW q, InStepAs(d, k, e, q),
         Whole(d, k), Epoch(script[d], k) = 0
  PROVE  /\ R[k].wire = k /\ R[k].type = TypeOf[script[d][k]] /\ k \in DOMAIN script[d]
         /\ e <=> script[d][k] \in Encrypted
         /\ q = SeqNo(script[d], k)
         /\ e <=> \E j \in 1 .. k - 1 : script[d][j] = "C"
<1>0. /\ DOMAIN script[d] = 1 .. Len(script[d]) /\ Len(script[d]) \in Nat /\ IsScript(script[d])
      /\ script[d] \in Seq(Kinds)
  BY InputFacts
<1>1. k \in DOMAIN script[d] /\ k \in Nat \ {0}
  BY <1>0 DEF Whole
<1>2. R[k].wire = k /\ R[k].type = TypeOf[script[d][k]]
  BY <1>1 DEF ParsedAs
<1>3. k = 1 \/ Whole(d, k - 1)
  <2>1. CASE k # 1
    <3>1. PICK m \in DOMAIN script[d] : m = k - 1 /\ m <= k
      BY <1>0, <1>1, <2>1
    <3> QED
      BY <1>1, <3>1, WholeBefore
  <2> QED
    BY <2>1
<1>4. (e <=> \E j \in 1 .. k - 1 : script[d][j] = "C") /\ q = SeqNo(script[d], k)
  BY <1>3 DEF InStepAs
<1>5. (\E j \in 1 .. k - 1 : script[d][j] = "C") <=> script[d][k] \in Encrypted
  <2>1. ASSUME NEW j \in 1 .. k - 1, script[d][j] = "C" PROVE script[d][k] \in Encrypted
    <3>1. j \in DOMAIN script[d] /\ j < k
      BY <1>0, <1>1
    <3> QED
      BY <1>0, <1>1, <2>1, <3>1 DEF IsScript
  <2>2. ASSUME script[d][k] \in Encrypted PROVE \E j \in 1 .. k - 1 : script[d][j] = "C"
    BY <1>0, <1>1, <2>2 DEF IsScript
  <2> QED
    BY <2>1, <2>2
<1> QED
  BY <1>1, <1>2, <1>4, <1>5

-----------------------------------------------------------------------------
(* A record passed over before the ChangeCipherSpec keeps step.            *)
LEMMA SkipStep ==
  ASSUME InputTyped, NEW d \in Dirs, NEW p, NEW R \in Seq(RecType), ParsedAs(d, p, R),
         NEW k \in DOMAIN R, NEW q \in Nat, NEW e, ~ e, InStepAs(d, k, e, q),
         NEW f, f <=> R[k].type = 20
  PROVE  InStepAs(d, k + 1, f, q)
<1> DEFINE s == script[d]
<1>0. k \in Nat \ {0} /\ (k + 1) - 1 = k /\ s \in Seq(Kinds) /\ DOMAIN s = 1 .. Len(s)
  BY InputFacts
<1>1. \A j : j \in 1 .. k <=> j \in 1 .. k - 1 \/ j = k
  BY <1>0
<1>2. ASSUME k + 1 = 1 \/ Whole(d, (k + 1) - 1), Epoch(s, k + 1) = 0
      PROVE  /\ f <=> \E j \in 1 .. (k + 1) - 1 : s[j] = "C"
             /\ q = SeqNo(s, k + 1)
  <2>1. Whole(d, k)
    BY <1>0, <1>2
  <2>2. /\ Epoch(s, k) = 0 /\ (s[k] \notin Encrypted => SeqNo(s, k + 1) = SeqNo(s, k))
    BY <1>0, <1>2, SeqNoStep
  <2>3. /\ R[k].type = TypeOf[s[k]] /\ k \in DOMAIN s /\ s[k] \notin Encrypted
        /\ q = SeqNo(s, k) /\ ~ (\E j \in 1 .. k - 1 : s[j] = "C")
    BY <2>1, <2>2, AtRecord
  <2>4. R[k].type = 20 <=> s[k] = "C"
    <3>1. s[k] \in Kinds /\ s[k] # "X"
      BY <1>0, <2>3 DEF Encrypted
    <3> QED
      BY <2>3, <3>1, KindFacts
  <2> QED
    BY <1>0, <1>1, <2>2, <2>3, <2>4
<1>3. ASSUME NEW i \in 1 .. (k + 1) - 1, Whole(d, i), s[i] \in Encrypted, Epoch(s, i) = 0
      PROVE  SeqNo(s, i) < q
  <2>1. CASE i = k
    BY <1>3, <2>1, AtRecord
  <2>2. CASE i # k
    <3>1. i \in 1 .. k - 1
      BY <1>0, <1>1, <2>2
    <3> QED
      BY <1>3, <3>1 DEF InStepAs
  <2> QED
    BY <2>1, <2>2
<1> QED
  BY <1>2, <1>3 DEF InStepAs

(* So does a record that was decrypted.                                    *)
LEMMA OpenStep ==
  ASSUME InputTyped, NEW d \in Dirs, NEW p, NEW R \in Seq(RecType), ParsedAs(d, p, R),
         NEW k \in DOMAIN R, NEW q \in Nat, NEW e, InStepAs(d, k, e, q), Opens(d, R, k, q)
  PROVE  InStepAs(d, k + 1, e, q + 1)
<1> DEFINE s == script[d]
<1>0. k \in Nat \ {0} /\ (k + 1) - 1 = k /\ s \in Seq(Kinds) /\ DOMAIN s = 1 .. Len(s)
  BY InputFacts
<1>1. \A j : j \in 1 .. k <=> j \in 1 .. k - 1 \/ j = k
  BY <1>0
<1>2. ASSUME k + 1 = 1 \/ Whole(d, (k + 1) - 1), Epoch(s, k + 1) = 0
      PROVE  /\ e <=> \E j \in 1 .. (k + 1) - 1 : s[j] = "C"
             /\ q + 1 = SeqNo(s, k + 1)
  <2>1. Whole(d, k)
    BY <1>0, <1>2
  <2>2. /\ Epoch(s, k) = 0 /\ (s[k] \in Encrypted => SeqNo(s, k + 1) = SeqNo(s, k) + 1)
    BY <1>0, <1>2, SeqNoStep
  <2>3. /\ s[k] \in Encrypted /\ s[k] # "C" /\ q = SeqNo(s, k)
        /\ e <=> \E j \in 1 .. k - 1 : s[j] = "C"
    <3>1. R[k].wire = k /\ q = SeqNo(s, k) /\ (e <=> \E j \in 1 .. k - 1 : s[j] = "C")
      BY <2>1, <2>2, AtRecord
    <3> QED
      BY <3>1 DEF Opens, Encrypted
  <2> QED
    BY <1>0, <1>1, <2>2, <2>3
<1>3. ASSUME NEW i \in 1 .. (k + 1) - 1, Whole(d, i), s[i] \in Encrypted, Epoch(s, i) = 0
      PROVE  SeqNo(s, i) < q + 1
  <2>1. CASE i = k
    <3>1. q = SeqNo(s, i)
      BY <1>3, <2>1, AtRecord
    <3> QED
      BY <3>1
  <2>2. CASE i # k
    <3>1. i \in 1 .. k - 1 /\ i \in Nat \ {0}
      BY <1>0, <1>1, <2>2
    <3>2. SeqNo(s, i) \in Nat
      BY <1>3, <3>1, SeqNoIs
    <3>3. SeqNo(s, i) < q
      BY <1>3, <3>1 DEF InStepAs
    <3> QED
      BY <3>2, <3>3
  <2> QED
    BY <2>1, <2>2
<1> QED
  BY <1>2, <1>3 DEF InStepAs

(* A record that does not decrypt lies behind the hole or the change of    *)
(* keys, and with it all that follow: nothing is missed by giving up.      *)
LEMMA FailStep ==
  ASSUME InputTyped, NEW d \in Dirs, NEW p, NEW R \in Seq(RecType), ParsedAs(d, p, R),
         NEW k \in DOMAIN R, NEW q \in Nat, NEW e, InStepAs(d, k, e, q), ~ Opens(d, R, k, q),
         Whole(d, k) /\ Epoch(script[d], k) = 0 => script[d][k] \in Encrypted
  PROVE  InStepAs(d, Len(R) + 1, e, q)
<1> DEFINE s == script[d]
<1>0. /\ k \in Nat \ {0} /\ k <= Len(R) /\ Len(R) \in Nat /\ (Len(R) + 1) - 1 = Len(R)
      /\ s \in Seq(Kinds) /\ DOMAIN s = 1 .. Len(s)
  BY InputFacts
<1>1. ASSUME NEW i \in 1 .. Len(R), k <= i, Whole(d, i), Epoch(s, i) = 0 PROVE FALSE
  <2>1. i \in DOMAIN s /\ i \in Nat \ {0}
    BY <1>0, <1>1 DEF Whole
  <2>2. Epoch(s, k) = 0
    BY <1>0, <1>1, <2>1, FirstKeys
  <2>3. Whole(d, k)
    <3>1. k \in DOMAIN s
      BY <1>0, <1>1, <2>1
    <3> QED
      BY <1>1, <2>1, <3>1, WholeBefore
  <2>4. R[k].wire = k /\ q = SeqNo(s, k)
    BY <2>2, <2>3, AtRecord
  <2>5. s[k] \in Encrypted
    BY <2>2, <2>3
  <2>6. Opens(d, R, k, q)
    BY <1>0, <2>2, <2>4, <2>5 DEF Opens
  <2> QED
    BY <2>6
<1>2. ~ ((Len(R) + 1 = 1 \/ Whole(d, (Len(R) + 1) - 1)) /\ Epoch(s, Len(R) + 1) = 0)
  <2> SUFFICES ASSUME Len(R) + 1 = 1 \/ Whole(d, (Len(R) + 1) - 1), Epoch(s, Len(R) + 1) = 0
               PROVE  FALSE
    OBVIOUS
  <2>1. Whole(d, Len(R)) /\ Len(R) \in 1 .. Len(R)
    BY <1>0
  <2>2. Epoch(s, Len(R)) = 0
    <3>1. Len(R) \in Nat \ {0} /\ Len(R) + 1 \in Nat \ {0} /\ Len(R) <= Len(R) + 1
      BY <1>0
    <3> QED
      BY <3>1, FirstKeys
  <2> QED
    BY <1>0, <1>1, <2>1, <2>2
<1>3. ASSUME NEW i \in 1 .. (Len(R) + 1) - 1, Whole(d, i), s[i] \in Encrypted, Epoch(s, i) = 0
      PROVE  SeqNo(s, i) < q
  <2>1. i \in 1 .. k - 1
    BY <1>0, <1>1, <1>3
  <2> QED
    BY <1>3, <2>1 DEF InStepAs
<1> QED
  BY <1>2, <1>3 DEF InStepAs

-----------------------------------------------------------------------------
(* The types, action by action.                                            *)

(* Every variable keeps its type.                                          *)
LEMMA TypedStep ==
  ASSUME InputTyped, Typed, [Next]_vars
  PROVE  Typed'
<1>0. /\ keylog \in Seq(Lines) /\ secret \in Secrets
      /\ pos \in [Dirs -> Int] /\ recs \in [Dirs -> Seq(RecType)]
      /\ next \in [Dirs -> Nat \ {0}] /\ enc \in [Dirs -> BOOLEAN]
      /\ seq \in [Dirs -> Nat] /\ plain \in [Dirs -> Seq(Nat)]
      /\ keysRight \in BOOLEAN /\ ok \in BOOLEAN
      /\ pc \in {"keylog", "parse", "out", "in", "done"}
  BY DEF Typed
<1>1. CASE AddLine
  <2>1. UNCHANGED <<pos, recs, keysRight, next, enc, seq, plain, ok, pc>>
    BY <1>1 DEF AddLine, dirVars
  <2>2. keylog # <<>> /\ keylog' = Tail(keylog)
    BY <1>1 DEF AddLine
  <2>3. secret' = IF Head(keylog) = "torn" THEN secret ELSE Head(keylog)
    BY <1>1 DEF AddLine
  <2>4. keylog \in Seq(Lines)
    BY <1>0
  <2>5. Head(keylog) \in Lines /\ Tail(keylog) \in Seq(Lines)
    BY <2>2, <2>4
  <2>6. secret' \in Secrets
    <3>1. CASE Head(keylog) = "torn"
      BY <1>0, <2>3, <3>1
    <3>2. CASE Head(keylog) # "torn"
      <4>1. secret' = Head(keylog)
        BY <2>3, <3>2
      <4>2. \A x \in Lines : x # "torn" => x \in Secrets
        BY DEF Lines, Secrets
      <4> QED
        BY <2>5, <3>2, <4>1, <4>2
    <3> QED
      BY <3>1, <3>2
  <2> QED
    BY <1>0, <2>1, <2>2, <2>5, <2>6 DEF Typed
<1>2. CASE KeyLogRead
  BY <1>0, <1>2 DEF KeyLogRead, dirVars, Typed
<1>3. CASE Handshake
  <2>1. UNCHANGED <<keylog, secret, pos, recs, next, enc, seq, plain, ok>>
    BY <1>3 DEF Handshake, dirVars
  <2>2. keysRight' \in BOOLEAN /\ pc' \in {"out", "done"}
    <3>1. \E client, server : \/ keysRight' \in DeriveKeyBlock(client, server) /\ pc' = "out"
                              \/ pc' = "done" /\ keysRight' = keysRight
      BY <1>3 DEF Handshake
    <3>2. PICK client, server : \/ keysRight' \in DeriveKeyBlock(client, server) /\ pc' = "out"
                                \/ pc' = "done" /\ keysRight' = keysRight
      BY <3>1
    <3>3. \A x \in DeriveKeyBlock(client, server) : x \in BOOLEAN
      BY DEF DeriveKeyBlock
    <3> QED
      BY <1>0, <3>2, <3>3
  <2> QED
    BY <1>0, <2>1, <2>2 DEF Typed
<1>4. ASSUME NEW d \in Dirs, ParseRecord(d) PROVE Typed'
  <2>1. UNCHANGED <<keylog, secret, keysRight, next, enc, seq, plain, ok, pc>>
    BY <1>4 DEF ParseRecord, dirVars
  <2>2. PICK r \in ReadAt(d, pos[d]) :
          \/ pos' = [pos EXCEPT ![d] = -1] /\ recs' = recs
          \/ /\ pos' = [pos EXCEPT ![d] = @ + HdrLen + r.len]
             /\ recs' = [recs EXCEPT ![d] = Append(@, r)]
    BY <1>4 DEF ParseRecord
  <2>3. r \in RecType
    BY ReadFacts
  <2>4. r.len \in Nat /\ HdrLen \in Nat
    BY <2>3, TlsAssumption DEF RecType
  <2>5. pos' \in [Dirs -> Int]
    <3>1. pos[d] + HdrLen + r.len \in Int
      BY <1>0, <2>4
    <3>2. \A x \in Int : [pos EXCEPT ![d] = x] \in [Dirs -> Int]
      BY <1>0
    <3>3. \/ pos' = [pos EXCEPT ![d] = -1]
          \/ pos' = [pos EXCEPT ![d] = pos[d] + HdrLen + r.len]
      BY <1>0, <2>2
    <3> QED
      BY <3>1, <3>2, <3>3
  <2>6. recs' \in [Dirs -> Seq(RecType)]
    <3>1. recs[d] \in Seq(RecType)
      BY <1>0
    <3>2. Append(recs[d], r) \in Seq(RecType)
      BY <2>3, <3>1
    <3> QED
      BY <1>0, <2>2, <3>2
  <2> QED
    BY <1>0, <2>1, <2>5, <2>6 DEF Typed
<1>5. ASSUME NEW d \in Dirs, ParseEnd(d) PROVE Typed'
  <2>1. UNCHANGED <<keylog, secret, recs, keysRight, next, enc, seq, plain, ok, pc>>
        /\ pos' = [pos EXCEPT ![d] = -1]
    BY <1>5 DEF ParseEnd, dirVars
  <2>2. pos' \in [Dirs -> Int]
    BY <1>0, <2>1
  <2> QED
    BY <1>0, <2>1, <2>2 DEF Typed
<1>6. ASSUME NEW d \in Dirs, Skip(d) PROVE Typed'
  <2>1. UNCHANGED <<keylog, secret, pos, recs, keysRight, seq, plain, ok, pc>>
        /\ enc' = [enc EXCEPT ![d] = Record(d).type = 20]
        /\ next' = [next EXCEPT ![d] = @ + 1]
    BY <1>6 DEF Skip
  <2>2. next' \in [Dirs -> Nat \ {0}]
    BY <1>0, <2>1
  <2>3. enc' \in [Dirs -> BOOLEAN]
    BY <1>0, <2>1
  <2> QED
    BY <1>0, <2>1, <2>2, <2>3 DEF Typed
<1>7. ASSUME NEW d \in Dirs, Decrypt(d) PROVE Typed'
  <2>1. /\ UNCHANGED <<keylog, secret, pos, recs, keysRight, enc, ok, pc>>
        /\ seq' = [seq EXCEPT ![d] = @ + 1] /\ next' = [next EXCEPT ![d] = @ + 1]
        /\ \/ plain' = [plain EXCEPT ![d] = Append(@, Record(d).wire)]
           \/ plain' = plain
        /\ next[d] <= Len(recs[d])
    BY <1>7 DEF Decrypt
  <2>2. seq' \in [Dirs -> Nat] /\ next' \in [Dirs -> Nat \ {0}]
    BY <1>0, <2>1
  <2>3. plain' \in [Dirs -> Seq(Nat)]
    <3>1. Record(d).wire \in Nat
      <4>1. recs[d] \in Seq(RecType) /\ next[d] \in DOMAIN recs[d]
        BY <1>0, <2>1
      <4>2. recs[d][next[d]] \in RecType
        BY <4>1
      <4> QED
        BY <4>2 DEF Record, RecType
    <3>2. plain[d] \in Seq(Nat)
      BY <1>0
    <3>3. Append(plain[d], Record(d).wire) \in Seq(Nat)
      BY <3>1, <3>2
    <3> QED
      BY <1>0, <2>1, <3>3
  <2> QED
    BY <1>0, <2>1, <2>2, <2>3 DEF Typed
<1>8. ASSUME NEW d \in Dirs, DecryptFails(d) PROVE Typed'
  <2>1. UNCHANGED <<keylog, secret, pos, recs, keysRight, enc, seq, plain, ok, pc>>
        /\ next' = [next EXCEPT ![d] = Len(recs[d]) + 1]
    BY <1>8 DEF DecryptFails
  <2>2. next' \in [Dirs -> Nat \ {0}]
    <3>1. Len(recs[d]) \in Nat
      BY <1>0
    <3> QED
      BY <1>0, <2>1, <3>1
  <2> QED
    BY <1>0, <2>1, <2>2 DEF Typed
<1>9. ASSUME NEW d \in Dirs, DirDone(d) PROVE Typed'
  <2>1. UNCHANGED <<keylog, secret, pos, recs, keysRight, next, enc, seq, plain>>
        /\ \/ pc' = "in" /\ ok' = ok
           \/ pc' = "done" /\ ok' = TRUE
    BY <1>9 DEF DirDone, dirVars
  <2> QED
    BY <1>0, <2>1 DEF Typed
<1>10. CASE UNCHANGED vars
  BY <1>0, <1>10 DEF vars, dirVars, Typed
<1> QED
  BY <1>1, <1>2, <1>3, <1>4, <1>5, <1>6, <1>7, <1>8, <1>9, <1>10 DEF Next

-----------------------------------------------------------------------------
(* The handshake.                                                          *)

(* Before a hello that was captured whole there are only plaintext         *)
(* records, so the first handshake message found is the hello itself.      *)
LEMMA HelloFound ==
  ASSUME InputTyped, NEW d \in Dirs, recs[d] \in Seq(RecType), pos[d] = -1, Parsed(d),
         NEW i \in DOMAIN script[d], script[d][i] = "H", Whole(d, i)
  PROVE  FindHandshake(d) = {"found"}
<1> DEFINE hellos == {j \in DOMAIN recs[d] : IsHello(d, recs[d][j])}
           opaque == {j \in DOMAIN recs[d] : recs[d][j].type = 22 /\ j \notin hellos}
<1>0. /\ DOMAIN script[d] = 1 .. Len(script[d]) /\ Len(script[d]) \in Nat
      /\ script[d] \in Seq(Kinds) /\ IsScript(script[d])
  BY InputFacts
<1>1. DOMAIN recs[d] = 1 .. Len(recs[d]) /\ Len(recs[d]) \in Nat
  OBVIOUS
<1>2. /\ \A j \in DOMAIN recs[d] :
           Whole(d, j) => recs[d][j].wire = j
      /\ \A j \in DOMAIN recs[d] : recs[d][j].wire # 0 =>
           recs[d][j].type = TypeOf[script[d][recs[d][j].wire]]
      /\ \A j \in DOMAIN script[d] : Whole(d, j) => j <= Len(recs[d])
  BY DEF Parsed, ParsedAs
<1>3. i \in DOMAIN recs[d] /\ i \in Nat \ {0}
  BY <1>0, <1>1, <1>2
<1>4. i \in hellos
  BY <1>2, <1>3 DEF IsHello
<1>5. ASSUME NEW o \in opaque, o < i PROVE FALSE
  <2>1. o \in DOMAIN recs[d] /\ recs[d][o].type = 22 /\ ~ IsHello(d, recs[d][o])
    BY <1>5
  <2>2. o \in DOMAIN script[d] /\ o <= i /\ o \in Nat \ {0}
    BY <1>0, <1>1, <1>3, <1>5, <2>1
  <2>3. Whole(d, o)
    BY <2>2, WholeBefore
  <2>4. recs[d][o].wire = o /\ TypeOf[script[d][o]] = 22
    BY <1>2, <2>1, <2>2, <2>3
  <2>5. script[d][o] # "H"
    BY <2>1, <2>2, <2>4 DEF IsHello
  <2>6. script[d][i] \in Encrypted
    BY <1>0, <1>5, <2>2, <2>5 DEF IsScript
  <2> QED
    BY <2>6 DEF Encrypted
<1>6. ~ (\E o \in opaque : \A j \in hellos : o < j)
  BY <1>4, <1>5
<1>7. FindHandshake(d) = (IF hellos = {} THEN {"absent"} ELSE {"found"})
                         \cup (IF \E o \in opaque : \A j \in hellos : o < j THEN {"forged"} ELSE {})
  BY DEF FindHandshake
<1> QED
  BY <1>4, <1>6, <1>7

(* With the connection's secret and both hellos nothing ends               *)
(* TlsDecryptFlow early, and the keys it derives are the right ones.       *)
LEMMA HandshakeGood ==
  ASSUME TlsInv, Handshake, Complete
  PROVE  keysRight' = TRUE /\ pc' = "out"
<1>0. /\ InputTyped /\ recs \in [Dirs -> Seq(RecType)] /\ \A d \in Dirs : Parsed(d)
      /\ "out" \in Dirs /\ "in" \in Dirs
  BY DEF TlsInv, Typed, Dirs
<1>1. \A d \in Dirs : pos[d] = -1
  BY DEF Handshake
<1>2. \A d \in Dirs : FindHandshake(d) = {"found"}
  <2> SUFFICES ASSUME NEW d \in Dirs PROVE FindHandshake(d) = {"found"}
    OBVIOUS
  <2>1. PICK i \in DOMAIN script[d] : script[d][i] = "H" /\ Whole(d, i)
    BY DEF Complete
  <2>2. recs[d] \in Seq(RecType) /\ pos[d] = -1 /\ Parsed(d)
    BY <1>0, <1>1
  <2> QED
    BY <1>0, <2>1, <2>2, HelloFound
<1>3. \E client \in FindHandshake("out"), server \in FindHandshake("in") :
        \E supported \in LookupSuite(server), keyed \in MasterSecret(client) :
          IF "absent" \notin {client, server} /\ supported /\ keyed
          THEN keysRight' \in DeriveKeyBlock(client, server) /\ pc' = "out"
          ELSE pc' = "done" /\ UNCHANGED keysRight
  BY DEF Handshake
<1>4. \E supported \in LookupSuite("found"), keyed \in MasterSecret("found") :
          IF supported /\ keyed
          THEN keysRight' \in DeriveKeyBlock("found", "found") /\ pc' = "out"
          ELSE pc' = "done" /\ UNCHANGED keysRight
  BY <1>0, <1>2, <1>3
<1>5. LookupSuite("found") = {TRUE} /\ MasterSecret("found") = {TRUE}
  BY DEF LookupSuite, MasterSecret, Complete
<1>6. DeriveKeyBlock("found", "found") = {TRUE}
  BY DEF DeriveKeyBlock, Exact, Complete
<1> QED
  BY <1>4, <1>5, <1>6
-----------------------------------------------------------------------------
(* The invariant, action by action.                                        *)

(* What TlsInv says of one direction.                                      *)
DirInv(d) ==
  /\ next[d] \in 1 .. Len(recs[d]) + 1
  /\ Parsed(d) /\ Shown(d)
  /\ keysRight \/ pc \in {"keylog", "parse"} => InStep(d)

(* A direction no step touches keeps its invariant.                        *)
LEMMA SameDir ==
  ASSUME UNCHANGED inputVars, NEW d \in Dirs, DirInv(d),
         pos'[d] = pos[d], recs'[d] = recs[d], next'[d] = next[d], enc'[d] = enc[d],
         seq'[d] = seq[d], plain'[d] = plain[d],
         keysRight' \/ pc' \in {"keylog", "parse"} => keysRight \/ pc \in {"keylog", "parse"}
  PROVE  DirInv(d)'
<1>1. /\ Parsed(d)' <=> ParsedAs(d, pos[d], recs[d])
      /\ Shown(d)'  <=> ShownAs(d, plain[d], seq[d])
      /\ InStep(d)' <=> InStepAs(d, next[d], enc[d], seq[d])
  BY SameWire
<1>2. (Parsed(d)' <=> Parsed(d)) /\ (Shown(d)' <=> Shown(d)) /\ (InStep(d)' <=> InStep(d))
  BY <1>1 DEF Parsed, Shown, InStep
<1>3. next'[d] \in 1 .. Len(recs'[d]) + 1
  BY DEF DirInv
<1> QED
  BY <1>2, <1>3 DEF DirInv

(* The parts of TlsInv, and what is known before any step.                 *)
LEMMA TlsParts ==
  /\ TlsInv <=> InputTyped /\ Typed /\ Stages /\ \A d \in Dirs : DirInv(d)
  /\ TlsInv' <=> InputTyped' /\ Typed' /\ Stages' /\ \A d \in Dirs : DirInv(d)'
BY DEF TlsInv, DirInv

(* Nothing is finished before DecryptDir runs.                             *)
LEMMA StagesEarly ==
  ASSUME pc' \in {"keylog", "parse"}, ok' = FALSE
  PROVE  Stages'
BY DEF Stages

(* ok holds at the very end only.                                          *)
LEMMA NotYet ==
  ASSUME Typed, Stages, pc # "done"
  PROVE  ok = FALSE
<1>1. ok \in BOOLEAN /\ (ok => pc = "done")
  BY DEF Typed, Stages
<1> QED
  BY <1>1

(* Parsing keeps the invariant.                                            *)
LEMMA ParseRecordInv ==
  ASSUME InputTyped, Typed, Stages, \A d \in Dirs : DirInv(d), NEW e \in Dirs, ParseRecord(e)
  PROVE  Stages' /\ \A d \in Dirs : DirInv(d)'
<1>0. UNCHANGED inputVars /\ UNCHANGED <<next, enc, seq, plain, keysRight, ok, pc>> /\ pc = "parse"
  BY DEF ParseRecord, dirVars
<1>1. Stages'
  BY <1>0, NotYet, StagesEarly
<1>2. /\ pos \in [Dirs -> Int] /\ recs \in [Dirs -> Seq(RecType)]
      /\ pos[e] \in Int /\ recs[e] \in Seq(RecType)
  BY DEF Typed
<1>3. pos[e] # -1 /\ pos[e] + HdrLen <= CaptureLen(e)
  BY DEF ParseRecord
<1>4. PICK r \in ReadAt(e, pos[e]) :
        IF pos[e] + HdrLen + r.len > CaptureLen(e)
        THEN pos' = [pos EXCEPT ![e] = -1] /\ recs' = recs
        ELSE /\ pos' = [pos EXCEPT ![e] = @ + HdrLen + r.len]
             /\ recs' = [recs EXCEPT ![e] = Append(@, r)]
  BY DEF ParseRecord
<1>5. Parsed(e) /\ Shown(e) /\ InStep(e) /\ next[e] \in 1 .. Len(recs[e]) + 1
  BY <1>0 DEF DirInv
<1>6. pos[e] \in Nat
  <2>1. pos[e] \in -1 .. CaptureLen(e) /\ CaptureLen(e) \in Nat
    BY <1>5, InputFacts DEF Parsed, ParsedAs
  <2> QED
    BY <1>3, <2>1
<1>7. ParsedAs(e, pos'[e], recs'[e]) /\ Len(recs'[e]) \in Nat /\ Len(recs'[e]) >= Len(recs[e])
  <2>0. ParsedAs(e, pos[e], recs[e])
    BY <1>5 DEF Parsed
  <2>1. CASE pos[e] + HdrLen + r.len > CaptureLen(e)
    <3>1. pos'[e] = -1 /\ recs'[e] = recs[e]
      BY <1>2, <1>4, <2>1
    <3>2. ParsedAs(e, -1, recs[e])
      BY <1>2, <1>6, <2>0, <2>1, EndStep
    <3> QED
      BY <1>2, <3>1, <3>2
  <2>2. CASE ~ (pos[e] + HdrLen + r.len > CaptureLen(e))
    <3>1. pos'[e] = pos[e] + HdrLen + r.len /\ recs'[e] = Append(recs[e], r)
      BY <1>2, <1>4, <2>2
    <3>2. r.len \in Nat /\ HdrLen \in Nat /\ CaptureLen(e) \in Nat /\ r \in RecType
      <4>1. r \in RecType
        BY ReadFacts
      <4> QED
        BY <4>1, TlsAssumption, InputFacts DEF RecType
    <3>3. pos[e] + HdrLen + r.len <= CaptureLen(e)
      BY <1>6, <2>2, <3>2
    <3>4. ParsedAs(e, pos[e] + HdrLen + r.len, Append(recs[e], r))
      BY <1>2, <1>6, <2>0, <3>3, ReadStep
    <3>5. Len(Append(recs[e], r)) = Len(recs[e]) + 1 /\ Len(recs[e]) \in Nat
      BY <1>2, <3>2
    <3> QED
      BY <3>1, <3>4, <3>5
  <2> QED
    BY <2>1, <2>2
<1>8. DirInv(e)'
  <2>1. /\ Parsed(e)' <=> ParsedAs(e, pos'[e], recs'[e])
        /\ Shown(e)'  <=> ShownAs(e, plain[e], seq[e])
        /\ InStep(e)' <=> InStepAs(e, next[e], enc[e], seq[e])
    BY <1>0, SameWire
  <2>2. Parsed(e)' /\ Shown(e)' /\ InStep(e)'
    BY <1>5, <1>7, <2>1 DEF Shown, InStep
  <2>3. Len(recs[e]) \in Nat
    BY <1>2
  <2>4. next'[e] \in 1 .. Len(recs'[e]) + 1
    BY <1>0, <1>5, <1>7, <2>3
  <2> QED
    BY <2>2, <2>4 DEF DirInv
<1>9. ASSUME NEW d \in Dirs, d # e PROVE DirInv(d)'
  <2>1. pos'[d] = pos[d] /\ recs'[d] = recs[d]
    BY <1>2, <1>4, <1>9
  <2> QED
    BY <1>0, <2>1, SameDir
<1> QED
  BY <1>1, <1>8, <1>9

(* So does its end.                                                        *)
LEMMA ParseEndInv ==
  ASSUME InputTyped, Typed, Stages, \A d \in Dirs : DirInv(d), NEW e \in Dirs, ParseEnd(e)
  PROVE  Stages' /\ \A d \in Dirs : DirInv(d)'
<1>0. /\ UNCHANGED inputVars /\ UNCHANGED <<recs, next, enc, seq, plain, keysRight, ok, pc>>
      /\ pc = "parse" /\ pos' = [pos EXCEPT ![e] = -1]
      /\ pos[e] # -1 /\ pos[e] + HdrLen > CaptureLen(e)
  BY DEF ParseEnd, dirVars
<1>1. Stages'
  BY <1>0, NotYet, StagesEarly
<1>2. /\ pos \in [Dirs -> Int] /\ recs[e] \in Seq(RecType)
      /\ pos'[e] = -1 /\ \A d \in Dirs : d # e => pos'[d] = pos[d]
  BY <1>0 DEF Typed
<1>3. Parsed(e) /\ Shown(e) /\ InStep(e) /\ next[e] \in 1 .. Len(recs[e]) + 1
  BY <1>0 DEF DirInv
<1>4. pos[e] \in Nat
  <2>1. pos[e] \in -1 .. CaptureLen(e) /\ CaptureLen(e) \in Nat
    BY <1>3, InputFacts DEF Parsed, ParsedAs
  <2> QED
    BY <1>0, <2>1
<1>5. ParsedAs(e, -1, recs[e])
  <2>1. ParsedAs(e, pos[e], recs[e])
    BY <1>3 DEF Parsed
  <2> QED
    BY <1>0, <1>2, <1>4, <2>1, EndStep
<1>6. DirInv(e)'
  <2>1. /\ Parsed(e)' <=> ParsedAs(e, -1, recs[e])
        /\ Shown(e)'  <=> ShownAs(e, plain[e], seq[e])
        /\ InStep(e)' <=> InStepAs(e, next[e], enc[e], seq[e])
    BY <1>0, <1>2, SameWire
  <2>2. Parsed(e)' /\ Shown(e)' /\ InStep(e)'
    BY <1>3, <1>5, <2>1 DEF Shown, InStep
  <2> QED
    BY <1>0, <1>3, <2>2 DEF DirInv
<1>7. ASSUME NEW d \in Dirs, d # e PROVE DirInv(d)'
  <2>1. pos'[d] = pos[d]
    BY <1>2, <1>7
  <2> QED
    BY <1>0, <2>1, SameDir
<1> QED
  BY <1>1, <1>6, <1>7
(* Reading the key log touches nothing of the directions.                  *)
LEMMA KeyLogInv ==
  ASSUME Typed, Stages, \A d \in Dirs : DirInv(d), AddLine \/ KeyLogRead
  PROVE  Stages' /\ \A d \in Dirs : DirInv(d)'
<1>0. /\ UNCHANGED inputVars /\ UNCHANGED <<pos, recs, next, enc, seq, plain, keysRight, ok>>
      /\ pc = "keylog" /\ pc' \in {"keylog", "parse"}
  BY DEF AddLine, KeyLogRead, dirVars
<1>1. Stages'
  BY <1>0, NotYet, StagesEarly
<1>2. ASSUME NEW d \in Dirs PROVE DirInv(d)'
  BY <1>0, SameDir
<1> QED
  BY <1>1, <1>2

(* The handshake has the right keys if it can have them.                   *)
LEMMA HandshakeInv ==
  ASSUME TlsInv, Handshake
  PROVE  Stages' /\ \A d \in Dirs : DirInv(d)'
<1>0. /\ UNCHANGED inputVars /\ UNCHANGED <<secret, pos, recs, next, enc, seq, plain, ok>>
      /\ pc = "parse" /\ \A d \in Dirs : pos[d] = -1
  BY DEF Handshake, dirVars
<1>1. Typed /\ Stages /\ \A d \in Dirs : DirInv(d)
  BY TlsParts
<1>2. ok' = FALSE
  BY <1>0, <1>1, NotYet
<1>3. pc' \in {"out", "done"}
  <2>1. \E client, server : pc' = "out" \/ pc' = "done"
    BY DEF Handshake
  <2> QED
    BY <2>1
<1>4. Complete' => keysRight' = TRUE /\ pc' = "out"
  <2>1. Complete' => Complete
    BY <1>0, SameWire DEF Complete
  <2> QED
    BY <2>1, HandshakeGood
<1>5. Stages'
  <2>1. \A d \in Dirs : pos'[d] = -1
    BY <1>0
  <2> QED
    BY <1>2, <1>3, <1>4, <2>1 DEF Stages
<1>6. ASSUME NEW d \in Dirs PROVE DirInv(d)'
  BY <1>0, <1>1, SameDir
<1> QED
  BY <1>5, <1>6

(* What DecryptDir keeps while it runs in the direction pc: the other      *)
(* direction is left alone.                                                *)
LEMMA StagesRunning ==
  ASSUME InputTyped, Typed, Stages, UNCHANGED inputVars,
         UNCHANGED <<secret, pos, recs, keysRight, ok, pc>>,
         pc \in Dirs, \A d \in Dirs : d # pc => next'[d] = next[d]
  PROVE  Stages'
<1>1. ok' = FALSE /\ ok = FALSE
  BY NotYet DEF Dirs
<1>2. \A d \in Dirs : pos'[d] = -1
  BY DEF Stages, Dirs
<1>3. pc = "in" => next'["out"] > Len(recs'["out"])
  BY DEF Stages, Dirs
<1>4. Complete' => keysRight'
  <2>1. Complete' => Complete
    BY SameWire DEF Complete
  <2>2. Complete => keysRight
    BY DEF Stages, Dirs
  <2> QED
    BY <2>1, <2>2
<1>5. pc' = pc /\ pc # "done"
  BY DEF Dirs
<1> QED
  BY <1>1, <1>2, <1>3, <1>4, <1>5 DEF Stages

(* Passing over a record keeps the invariant.                              *)
LEMMA SkipInv ==
  ASSUME InputTyped, Typed, Stages, \A d \in Dirs : DirInv(d), NEW e \in Dirs, Skip(e)
  PROVE  Stages' /\ \A d \in Dirs : DirInv(d)'
<1>0. /\ UNCHANGED inputVars /\ UNCHANGED <<secret, pos, recs, seq, plain, keysRight, ok, pc>>
      /\ pc = e /\ next[e] <= Len(recs[e]) /\ ~ enc[e]
      /\ enc' = [enc EXCEPT ![e] = Record(e).type = 20]
      /\ next' = [next EXCEPT ![e] = @ + 1]
  BY DEF Skip
<1>1. /\ next \in [Dirs -> Nat \ {0}] /\ enc \in [Dirs -> BOOLEAN]
      /\ recs[e] \in Seq(RecType) /\ seq[e] \in Nat /\ next[e] \in Nat \ {0}
  BY DEF Typed
<1>2. next'[e] = next[e] + 1 /\ \A d \in Dirs : d # e => next'[d] = next[d] /\ enc'[d] = enc[d]
  BY <1>0, <1>1
<1>3. enc'[e] <=> recs[e][next[e]].type = 20
  <2>1. enc'[e] = (Record(e).type = 20)
    BY <1>0, <1>1
  <2> QED
    BY <2>1 DEF Record
<1>4. next[e] \in DOMAIN recs[e] /\ Len(recs[e]) \in Nat
  BY <1>0, <1>1
<1>5. Stages'
  BY <1>0, <1>2, StagesRunning
<1>6. DirInv(e)'
  <2>1. /\ Parsed(e)' <=> ParsedAs(e, pos[e], recs[e])
        /\ Shown(e)'  <=> ShownAs(e, plain[e], seq[e])
        /\ InStep(e)' <=> InStepAs(e, next[e] + 1, enc'[e], seq[e])
    BY <1>0, <1>2, SameWire
  <2>2. ParsedAs(e, pos[e], recs[e]) /\ ShownAs(e, plain[e], seq[e])
    BY DEF DirInv, Parsed, Shown
  <2>3. keysRight => InStep(e)'
    <3>1. keysRight => InStepAs(e, next[e], enc[e], seq[e])
      BY DEF DirInv, InStep
    <3>2. InStepAs(e, next[e], enc[e], seq[e]) => InStepAs(e, next[e] + 1, enc'[e], seq[e])
      BY <1>0, <1>1, <1>3, <1>4, <2>2, SkipStep
    <3> QED
      BY <2>1, <3>1, <3>2
  <2>4. next'[e] \in 1 .. Len(recs'[e]) + 1
    BY <1>0, <1>1, <1>2, <1>4
  <2>5. ~ (pc' \in {"keylog", "parse"}) /\ (keysRight' <=> keysRight)
    BY <1>0 DEF Dirs
  <2> QED
    BY <2>1, <2>2, <2>3, <2>4, <2>5 DEF DirInv
<1>7. ASSUME NEW d \in Dirs, d # e PROVE DirInv(d)'
  BY <1>0, <1>2, <1>7, SameDir
<1> QED
  BY <1>5, <1>6, <1>7
(* Decrypting a record keeps the invariant.                                *)
LEMMA DecryptInv ==
  ASSUME InputTyped, Typed, Stages, \A d \in Dirs : DirInv(d), NEW e \in Dirs, Decrypt(e)
  PROVE  Stages' /\ \A d \in Dirs : DirInv(d)'
<1> DEFINE w == recs[e][next[e]].wire
<1>0. /\ UNCHANGED inputVars /\ UNCHANGED <<secret, pos, recs, enc, keysRight, ok, pc>>
      /\ pc = e /\ next[e] <= Len(recs[e])
      /\ seq' = [seq EXCEPT ![e] = @ + 1] /\ next' = [next EXCEPT ![e] = @ + 1]
      /\ plain' = IF Record(e).type = 23 THEN [plain EXCEPT ![e] = Append(@, Record(e).wire)]
                  ELSE plain
  BY DEF Decrypt
<1>1. /\ next \in [Dirs -> Nat \ {0}] /\ seq \in [Dirs -> Nat] /\ plain \in [Dirs -> Seq(Nat)]
      /\ recs[e] \in Seq(RecType) /\ seq[e] \in Nat /\ next[e] \in Nat \ {0} /\ plain[e] \in Seq(Nat)
  BY DEF Typed
<1>2. /\ next'[e] = next[e] + 1 /\ seq'[e] = seq[e] + 1
      /\ \A d \in Dirs : d # e => next'[d] = next[d] /\ seq'[d] = seq[d]
  BY <1>0, <1>1
<1>3. next[e] \in DOMAIN recs[e] /\ Len(recs[e]) \in Nat
  BY <1>0, <1>1
<1>4. Opens(e, recs[e], next[e], seq[e]) /\ keysRight = TRUE
  <2>1. Authentic(e)
    BY DEF Decrypt
  <2>2. keysRight \in BOOLEAN
    BY DEF Typed
  <2> QED
    BY <2>1, <2>2 DEF Authentic, Record, Opens
<1>5. ParsedAs(e, pos[e], recs[e]) /\ ShownAs(e, plain[e], seq[e])
  BY DEF DirInv, Parsed, Shown
<1>6. /\ w # 0 /\ w \in DOMAIN script[e] /\ script[e][w] \in Encrypted
      /\ Epoch(script[e], w) = 0 /\ SeqNo(script[e], w) = seq[e]
      /\ recs[e][next[e]].type = TypeOf[script[e][w]]
  BY <1>3, <1>4, <1>5 DEF Opens, ParsedAs
<1>7. recs[e][next[e]].type = 23 <=> script[e][w] = "D"
  <2>1. PICK x \in Kinds : x = script[e][w]
    BY <1>6 DEF Kinds
  <2>2. TypeOf[x] = 23 <=> x = "D"
    BY KindFacts
  <2> QED
    BY <1>6, <2>1, <2>2
<1>8. /\ plain'[e] = IF script[e][w] = "D" THEN Append(plain[e], w) ELSE plain[e]
      /\ \A d \in Dirs : d # e => plain'[d] = plain[d]
  <2>1. CASE script[e][w] = "D"
    <3>1. plain' = [plain EXCEPT ![e] = Append(@, w)]
      BY <1>0, <1>7, <2>1 DEF Record
    <3> QED
      BY <1>1, <2>1, <3>1
  <2>2. CASE script[e][w] # "D"
    <3>1. plain' = plain
      BY <1>0, <1>7, <2>2 DEF Record
    <3> QED
      BY <2>2, <3>1
  <2> QED
    BY <2>1, <2>2
<1>9. Stages'
  BY <1>0, <1>2, StagesRunning
<1>10. DirInv(e)'
  <2>1. /\ Parsed(e)' <=> ParsedAs(e, pos[e], recs[e])
        /\ Shown(e)'  <=> ShownAs(e, plain'[e], seq[e] + 1)
        /\ InStep(e)' <=> InStepAs(e, next[e] + 1, enc[e], seq[e] + 1)
    BY <1>0, <1>2, SameWire
  <2>2. ShownAs(e, plain'[e], seq[e] + 1)
    BY <1>1, <1>5, <1>6, <1>8, ShownStep
  <2>3. InStepAs(e, next[e] + 1, enc[e], seq[e] + 1)
    <3>1. InStepAs(e, next[e], enc[e], seq[e])
      BY <1>4 DEF DirInv, InStep
    <3> QED
      BY <1>1, <1>3, <1>4, <1>5, <3>1, OpenStep
  <2>4. next'[e] \in 1 .. Len(recs'[e]) + 1
    BY <1>0, <1>1, <1>2, <1>3
  <2> QED
    BY <1>5, <2>1, <2>2, <2>3, <2>4 DEF DirInv
<1>11. ASSUME NEW d \in Dirs, d # e PROVE DirInv(d)'
  BY <1>0, <1>2, <1>8, <1>11, SameDir
<1> QED
  BY <1>9, <1>10, <1>11

(* Giving up keeps the invariant.                                          *)
LEMMA DecryptFailsInv ==
  ASSUME InputTyped, Typed, Stages, \A d \in Dirs : DirInv(d), NEW e \in Dirs, DecryptFails(e)
  PROVE  Stages' /\ \A d \in Dirs : DirInv(d)'
<1>0. /\ UNCHANGED inputVars /\ UNCHANGED <<secret, pos, recs, enc, seq, plain, keysRight, ok, pc>>
      /\ pc = e /\ next[e] <= Len(recs[e]) /\ enc[e] = TRUE /\ ~ Authentic(e)
      /\ next' = [next EXCEPT ![e] = Len(recs[e]) + 1]
  <2>1. enc[e] \in BOOLEAN
    BY DEF Typed
  <2> QED
    BY <2>1 DEF DecryptFails
<1>1. /\ next \in [Dirs -> Nat \ {0}] /\ recs[e] \in Seq(RecType) /\ seq[e] \in Nat
      /\ next[e] \in Nat \ {0}
  BY DEF Typed
<1>2. next'[e] = Len(recs[e]) + 1 /\ \A d \in Dirs : d # e => next'[d] = next[d]
  BY <1>0, <1>1
<1>3. next[e] \in DOMAIN recs[e] /\ Len(recs[e]) \in Nat
  BY <1>0, <1>1
<1>4. ParsedAs(e, pos[e], recs[e]) /\ ShownAs(e, plain[e], seq[e])
  BY DEF DirInv, Parsed, Shown
<1>5. Stages'
  BY <1>0, <1>2, StagesRunning
<1>6. ASSUME keysRight PROVE InStepAs(e, Len(recs[e]) + 1, enc[e], seq[e])
  <2>1. InStepAs(e, next[e], enc[e], seq[e])
    BY <1>6 DEF DirInv, InStep
  <2>2. ~ Opens(e, recs[e], next[e], seq[e])
    BY <1>0, <1>6 DEF Authentic, Record, Opens
  <2>3. Whole(e, next[e]) /\ Epoch(script[e], next[e]) = 0 => script[e][next[e]] \in Encrypted
    <3>1. Whole(e, next[e]) /\ Epoch(script[e], next[e]) = 0
            => (enc[e] <=> script[e][next[e]] \in Encrypted)
      BY <1>1, <1>3, <1>4, <2>1, AtRecord
    <3> QED
      BY <1>0, <3>1
  <2> QED
    BY <1>1, <1>3, <1>4, <2>1, <2>2, <2>3, FailStep
<1>7. DirInv(e)'
  <2>1. /\ Parsed(e)' <=> ParsedAs(e, pos[e], recs[e])
        /\ Shown(e)'  <=> ShownAs(e, plain[e], seq[e])
        /\ InStep(e)' <=> InStepAs(e, Len(recs[e]) + 1, enc[e], seq[e])
    BY <1>0, <1>2, SameWire
  <2>2. next'[e] \in 1 .. Len(recs'[e]) + 1
    BY <1>0, <1>2, <1>3
  <2>3. ~ (pc' \in {"keylog", "parse"}) /\ (keysRight' <=> keysRight)
    BY <1>0 DEF Dirs
  <2> QED
    BY <1>4, <1>6, <2>1, <2>2, <2>3 DEF DirInv
<1>8. ASSUME NEW d \in Dirs, d # e PROVE DirInv(d)'
  BY <1>0, <1>2, <1>8, SameDir
<1> QED
  BY <1>5, <1>7, <1>8

(* A direction is finished with all its records passed.                    *)
LEMMA DirDoneInv ==
  ASSUME InputTyped, Typed, Stages, \A d \in Dirs : DirInv(d), NEW e \in Dirs, DirDone(e)
  PROVE  Stages' /\ \A d \in Dirs : DirInv(d)'
<1>0. /\ UNCHANGED inputVars
      /\ UNCHANGED <<secret, pos, recs, next, enc, seq, plain, keysRight>>
      /\ pc = e /\ next[e] > Len(recs[e])
      /\ IF e = "out" THEN pc' = "in" /\ ok' = ok ELSE pc' = "done" /\ ok' = TRUE
  BY DEF DirDone, dirVars
<1>1. ASSUME NEW d \in Dirs PROVE DirInv(d)'
  <2>1. ~ (pc' \in {"keylog", "parse"}) /\ (keysRight' <=> keysRight)
    BY <1>0
  <2> QED
    BY <1>0, <2>1, SameDir
<1>2. \A d \in Dirs : pos'[d] = -1
  BY <1>0 DEF Stages, Dirs
<1>3. Complete' => keysRight'
  <2>1. Complete' => Complete
    BY <1>0, SameWire DEF Complete
  <2>2. Complete => keysRight
    BY <1>0 DEF Stages, Dirs
  <2> QED
    BY <1>0, <2>1, <2>2
<1>4. CASE e = "out"
  <2>1. pc' = "in" /\ next'["out"] > Len(recs'["out"])
    BY <1>0, <1>4
  <2>2. ok' = FALSE
    BY <1>0, <1>4, NotYet
  <2> QED
    BY <1>1, <1>2, <1>3, <2>1, <2>2 DEF Stages
<1>5. CASE e = "in"
  <2>1. pc' = "done" /\ ok' = TRUE /\ next'["in"] > Len(recs'["in"])
    BY <1>0, <1>5
  <2>2. next'["out"] > Len(recs'["out"])
    BY <1>0, <1>5 DEF Stages
  <2> QED
    BY <1>1, <1>2, <1>3, <2>1, <2>2 DEF Stages
<1> QED
  BY <1>4, <1>5 DEF Dirs

(* No step at all.                                                         *)
LEMMA StutterInv ==
  ASSUME Stages, \A d \in Dirs : DirInv(d), UNCHANGED vars
  PROVE  Stages' /\ \A d \in Dirs : DirInv(d)'
<1>0. /\ UNCHANGED inputVars
      /\ UNCHANGED <<secret, pos, recs, next, enc, seq, plain, keysRight, ok, pc>>
  BY DEF vars, dirVars
<1>1. ASSUME NEW d \in Dirs PROVE DirInv(d)'
  BY <1>0, SameDir
<1>2. Complete' <=> Complete
  BY <1>0, SameWire DEF Complete
<1>3. Stages'
  BY <1>0, <1>2 DEF Stages
<1> QED
  BY <1>1, <1>3

(* Every step keeps TlsInv.                                                *)
LEMMA TlsStep == TlsInv /\ [Next]_vars => TlsInv'
<1> SUFFICES ASSUME TlsInv, [Next]_vars PROVE TlsInv'
  OBVIOUS
<1>0. InputTyped /\ Typed /\ Stages /\ \A d \in Dirs : DirInv(d)
  BY TlsParts
<1>1. InputTyped'
  BY <1>0, InputKept, SameWire
<1>2. Typed'
  BY <1>0, TypedStep
<1>3. Stages' /\ \A d \in Dirs : DirInv(d)'
  <2>1. CASE AddLine \/ KeyLogRead
    BY <1>0, <2>1, KeyLogInv
  <2>2. CASE Handshake
    BY <2>2, HandshakeInv
  <2>3. ASSUME NEW d \in Dirs, ParseRecord(d) PROVE Stages' /\ \A e \in Dirs : DirInv(e)'
    BY <1>0, <2>3, ParseRecordInv
  <2>4. ASSUME NEW d \in Dirs, ParseEnd(d) PROVE Stages' /\ \A e \in Dirs : DirInv(e)'
    BY <1>0, <2>4, ParseEndInv
  <2>5. ASSUME NEW d \in Dirs, Skip(d) PROVE Stages' /\ \A e \in Dirs : DirInv(e)'
    BY <1>0, <2>5, SkipInv
  <2>6. ASSUME NEW d \in Dirs, Decrypt(d) PROVE Stages' /\ \A e \in Dirs : DirInv(e)'
    BY <1>0, <2>6, DecryptInv
  <2>7. ASSUME NEW d \in Dirs, DecryptFails(d) PROVE Stages' /\ \A e \in Dirs : DirInv(e)'
    BY <1>0, <2>7, DecryptFailsInv
  <2>8. ASSUME NEW d \in Dirs, DirDone(d) PROVE Stages' /\ \A e \in Dirs : DirInv(e)'
    BY <1>0, <2>8, DirDoneInv
  <2>9. CASE UNCHANGED vars
    BY <1>0, <2>9, StutterInv
  <2> QED
    BY <2>1, <2>2, <2>3, <2>4, <2>5, <2>6, <2>7, <2>8, <2>9 DEF Next
<1> QED
  BY <1>1, <1>2, <1>3, TlsParts
-----------------------------------------------------------------------------
(* Reading the key log: as long as the line that counts is to come it is   *)
(* among the lines left, and once it was read only torn lines are left, so *)
(* its secret stays.                                                       *)
LogRead ==
  /\ keylog \in Seq(Lines)
  /\ pc # "keylog" => keylog = <<>>
  /\ LogHolds(log) => \/ LogHolds(keylog)
                      \/ secret = "right" /\ \A j \in DOMAIN keylog : keylog[j] = "torn"

(* Before the first line all of the log is left.                           *)
LEMMA LogInit == Init => LogRead
BY TlsAssumption DEF Init, LogRead

(* One line: the one that counts, one before it, or a torn one behind it.  *)
LEMMA LineStep ==
  ASSUME LogRead, AddLine
  PROVE  LogRead'
<1>0. /\ pc = "keylog" /\ pc' = pc /\ log' = log /\ keylog # <<>> /\ keylog' = Tail(keylog)
      /\ secret' = IF Head(keylog) = "torn" THEN secret ELSE Head(keylog)
  BY DEF AddLine, inputVars
<1>1. PICK k \in Seq(Lines) : k = keylog
  BY DEF LogRead
<1>2. PICK n \in Nat : n = Len(k)
  BY <1>1
<1>3. k # <<>> /\ n > 0 /\ DOMAIN k = 1 .. n /\ Head(k) = k[1]
  BY <1>0, <1>1, <1>2
<1>4. PICK t \in Seq(Lines) : t = Tail(k)
  <2>1. Tail(k) \in Seq(Lines)
    BY <1>1, <1>3
  <2> QED
    BY <2>1
<1>5. DOMAIN t = 1 .. n - 1 /\ \A j \in 1 .. n - 1 : t[j] = k[j + 1]
  BY <1>2, <1>3, <1>4
<1>6. ASSUME LogHolds(log)
      PROVE  LogHolds(t) \/ (secret' = "right" /\ \A j \in DOMAIN t : t[j] = "torn")
  <2>1. CASE LogHolds(k)
    <3>1. PICK i \in DOMAIN k : k[i] = "right" /\ \A j \in DOMAIN k : j > i => k[j] = "torn"
      BY <2>1 DEF LogHolds
    <3>2. CASE i = 1
      <4>1. secret' = "right"
        BY <1>0, <1>1, <1>3, <3>1, <3>2
      <4>2. \A j \in DOMAIN t : t[j] = "torn"
        BY <1>2, <1>3, <1>5, <3>1, <3>2
      <4> QED
        BY <4>1, <4>2
    <3>3. CASE i # 1
      <4>1. i - 1 \in DOMAIN t /\ t[i - 1] = "right"
        BY <1>2, <1>3, <1>5, <3>1, <3>3
      <4>2. \A j \in DOMAIN t : j > i - 1 => t[j] = "torn"
        BY <1>2, <1>3, <1>5, <3>1
      <4> QED
        BY <4>1, <4>2 DEF LogHolds
    <3> QED
      BY <3>2, <3>3
  <2>2. CASE secret = "right" /\ \A j \in DOMAIN k : k[j] = "torn"
    <3>1. Head(keylog) = "torn"
      BY <1>1, <1>3, <2>2
    <3>2. secret' = "right"
      BY <1>0, <2>2, <3>1
    <3>3. \A j \in DOMAIN t : t[j] = "torn"
      BY <1>2, <1>3, <1>5, <2>2
    <3> QED
      BY <3>2, <3>3
  <2> QED
    BY <1>1, <1>6, <2>1, <2>2 DEF LogRead
<1>7. keylog' = t
  BY <1>0, <1>1, <1>4
<1> QED
  BY <1>0, <1>4, <1>6, <1>7 DEF LogRead, LogHolds

(* No other step reads the log.                                            *)
LEMMA LogStep == LogRead /\ [Next]_vars => LogRead'
<1> SUFFICES ASSUME LogRead, [Next]_vars PROVE LogRead'
  OBVIOUS
<1>1. CASE AddLine
  BY <1>1, LineStep
<1>2. CASE ~ AddLine
  <2>1. keylog' = keylog /\ secret' = secret /\ log' = log
    BY <1>2 DEF Next, KeyLogRead, Handshake, ParseRecord, ParseEnd, Skip, Decrypt, DecryptFails,
                DirDone, vars, inputVars
  <2>2. pc' # "keylog" => pc # "keylog" \/ keylog = <<>>
    <3>1. CASE KeyLogRead
      BY <3>1 DEF KeyLogRead
    <3>2. CASE Handshake
      BY <3>2 DEF Handshake
    <3>3. ASSUME NEW d \in Dirs, ParseRecord(d) \/ ParseEnd(d) \/ Skip(d) \/ Decrypt(d) \/ DecryptFails(d)
          PROVE  pc' = pc
      BY <3>3 DEF ParseRecord, ParseEnd, Skip, Decrypt, DecryptFails
    <3>4. ASSUME NEW d \in Dirs, DirDone(d) PROVE pc # "keylog"
      BY <3>4 DEF DirDone, Dirs
    <3>5. CASE UNCHANGED vars
      BY <3>5 DEF vars
    <3> QED
      BY <1>2, <3>1, <3>2, <3>3, <3>4, <3>5 DEF Next
  <2> QED
    BY <2>1, <2>2 DEF LogRead, LogHolds
<1> QED
  BY <1>1, <1>2

-----------------------------------------------------------------------------
(* The theorems.                                                           *)

(* TlsInv holds throughout: the parser keeps step with the wire up to the  *)
(* hole, DecryptDir with the sequence numbers up to the hole or the change *)
(* of keys.                                                                *)
THEOREM TlsCorrect == Spec => []TlsInv
<1> QED
  BY TlsInit, TlsStep, PTL DEF Spec

(* Every variable has its type: offsets stay in the capture, the cursor of *)
(* DecryptDir within the records found, and only records of the wire are   *)
(* ever shown.                                                             *)
THEOREM TlsTyped == Spec => []TypeOK
<1>1. TlsInv => TypeOK
  <2> SUFFICES ASSUME TlsInv PROVE TypeOK
    OBVIOUS
  <2>1. InputTyped /\ Typed /\ \A d \in Dirs : DirInv(d)
    BY TlsParts
  <2>2. ASSUME NEW d \in Dirs
        PROVE  /\ pos[d] \in -1 .. CaptureLen(d)
               /\ next[d] \in 1 .. Len(recs[d]) + 1
               /\ enc[d] \in BOOLEAN /\ seq[d] \in Nat
               /\ plain[d] \in Seq(DOMAIN script[d])
    <3>1. pos[d] \in -1 .. CaptureLen(d) /\ next[d] \in 1 .. Len(recs[d]) + 1
      BY <2>1 DEF DirInv, Parsed, ParsedAs
    <3>2. enc[d] \in BOOLEAN
      BY <2>1 DEF Typed
    <3>3. seq[d] \in Nat
      BY <2>1 DEF Typed
    <3>4. PICK t \in Seq(Nat) : t = plain[d]
      BY <2>1 DEF Typed
    <3>5. \A i \in DOMAIN t : t[i] \in DOMAIN script[d]
      BY <2>1, <3>4 DEF DirInv, Shown, ShownAs, Counted
    <3>6. t \in Seq(DOMAIN script[d])
      <4>1. t = [i \in 1 .. Len(t) |-> t[i]] /\ Len(t) \in Nat /\ DOMAIN t = 1 .. Len(t)
        OBVIOUS
      <4> QED
        BY <3>5, <4>1
    <3> QED
      BY <3>1, <3>2, <3>3, <3>4, <3>6
  <2> QED
    BY <2>1, <2>2 DEF TypeOK, Typed, Secrets
<1> QED
  BY <1>1, TlsCorrect, PTL

(* Whatever was lost and however records are misread behind the hole, the  *)
(* plaintext shown is a prefix of the application data that was sent.      *)
THEOREM PrefixShown == Spec => []OnlyWhatWasSent
<1>1. TlsInv => OnlyWhatWasSent
  <2> SUFFICES ASSUME TlsInv, NEW d \in Dirs, NEW i \in DOMAIN plain[d]
               PROVE  /\ script[d][plain[d][i]] = "D"
                      /\ \A j \in 1 .. i - 1 : plain[d][j] < plain[d][i]
                      /\ \A k \in 1 .. plain[d][i] :
                           script[d][k] = "D" => \E j \in 1 .. i : plain[d][j] = k
    BY DEF OnlyWhatWasSent
  <2>0. InputTyped /\ Typed /\ DirInv(d)
    BY TlsParts
  <2>1. DOMAIN script[d] = 1 .. Len(script[d]) /\ Len(script[d]) \in Nat
    BY <2>0, InputFacts
  <2>2. PICK t \in Seq(Nat) : t = plain[d]
    BY <2>0 DEF Typed
  <2>3. DOMAIN t = 1 .. Len(t) /\ Len(t) \in Nat /\ i \in DOMAIN t /\ i \in Nat
    BY <2>2
  <2>4. PICK q \in Nat : q = seq[d]
    BY <2>0 DEF Typed
  <2>5. /\ \A j \in DOMAIN t : Counted(d, t[j], q)
        /\ \A j, k \in DOMAIN t : j < k => t[j] < t[k]
        /\ \A k \in DOMAIN script[d] : Counted(d, k, q) => \E j \in DOMAIN t : t[j] = k
    BY <2>0, <2>2, <2>4 DEF DirInv, Shown, ShownAs
  <2>6. PICK m \in DOMAIN script[d] : m = t[i]
    BY <2>3, <2>5 DEF Counted
  <2>7. /\ script[d][m] = "D" /\ m \in Nat \ {0}
        /\ Epoch(script[d], m) = 0 /\ SeqNo(script[d], m) < q
    BY <2>1, <2>3, <2>5, <2>6 DEF Counted
  <2>8. \A j \in 1 .. i - 1 : t[j] < t[i]
    <3>1. \A j \in 1 .. i - 1 : j \in DOMAIN t /\ j < i
      BY <2>3
    <3> QED
      BY <2>3, <2>5, <3>1
  <2>9. ASSUME NEW k \in 1 .. m, script[d][k] = "D" PROVE \E j \in 1 .. i : t[j] = k
    <3>1. k \in DOMAIN script[d] /\ k \in Nat \ {0} /\ k <= m
      BY <2>1, <2>7
    <3>2. /\ Epoch(script[d], k) = 0 /\ SeqNo(script[d], k) \in Nat /\ SeqNo(script[d], m) \in Nat
          /\ SeqNo(script[d], k) <= SeqNo(script[d], m)
      BY <2>7, <3>1, SeqNoOrdered
    <3>3. SeqNo(script[d], k) < q
      BY <2>4, <2>7, <3>2
    <3>4. Counted(d, k, q)
      BY <2>9, <3>1, <3>2, <3>3 DEF Counted
    <3>5. PICK j \in DOMAIN t : t[j] = k
      BY <2>5, <3>1, <3>4
    <3>6. ~ (i < j)
      <4>1. ASSUME i < j PROVE t[i] < t[j]
        BY <2>3, <2>5, <4>1
      <4> QED
        BY <2>6, <2>7, <3>1, <3>5, <4>1
    <3>7. j \in 1 .. i
      BY <2>3, <3>6
    <3> QED
      BY <3>5, <3>7
  <2> QED
    BY <2>2, <2>6, <2>7, <2>8, <2>9
<1> QED
  BY <1>1, TlsCorrect, PTL

(* With the connection's secret in the last whole line of the key log and  *)
(* both hellos captured, the data captured before the first lost byte is   *)
(* decrypted, up to a change of keys.                                      *)
THEOREM UpToLoss == Spec => []DecryptedUpToLoss
<1>1. TlsInv /\ LogRead => DecryptedUpToLoss
  <2> SUFFICES ASSUME TlsInv, LogRead, pc = "done", suite = "gcm", LogHolds(log),
                      \A d \in Dirs : \E i \in DOMAIN script[d] :
                        script[d][i] = "H" /\ Start(script[d], i + 1) <= holeAt[d]
               PROVE  /\ ok
                      /\ \A d \in Dirs : \A i \in DOMAIN script[d] :
                           /\ script[d][i] = "D" /\ Epoch(script[d], i) = 0
                           /\ Start(script[d], i + 1) <= holeAt[d]
                           => Contains(plain[d], i)
    BY DEF DecryptedUpToLoss
  <2>0. InputTyped /\ Typed /\ Stages /\ \A d \in Dirs : DirInv(d)
    BY TlsParts
  <2>1. Complete
    <3>1. keylog = <<>> /\ ~ LogHolds(<<>>)
      BY DEF LogRead, LogHolds
    <3>2. secret = "right"
      BY <3>1 DEF LogRead
    <3> QED
      BY <3>2 DEF Complete, Whole
  <2>2. ok /\ keysRight
    BY <2>0, <2>1 DEF Stages
  <2>3. ASSUME NEW d \in Dirs, NEW i \in DOMAIN script[d], script[d][i] = "D",
               Epoch(script[d], i) = 0, Start(script[d], i + 1) <= holeAt[d]
        PROVE  Contains(plain[d], i)
    <3>1. Whole(d, i)
      BY <2>3 DEF Whole
    <3>2. pos[d] = -1
      BY <2>0 DEF Stages
    <3>3. next[d] > Len(recs[d])
      BY <2>0, <2>2 DEF Stages, Dirs
    <3>4. i <= Len(recs[d])
      BY <2>0, <3>1, <3>2 DEF DirInv, Parsed, ParsedAs
    <3>5. next[d] \in Nat /\ Len(recs[d]) \in Nat /\ i \in Nat \ {0}
      <4>1. recs[d] \in Seq(RecType) /\ next[d] \in Nat
        BY <2>0 DEF Typed
      <4>2. i \in Nat \ {0}
        BY <2>0, <2>3, InputFacts
      <4> QED
        BY <4>1, <4>2
    <3>6. i \in 1 .. next[d] - 1
      BY <3>3, <3>4, <3>5
    <3>7. InStepAs(d, next[d], enc[d], seq[d])
      BY <2>0, <2>2 DEF DirInv, InStep
    <3>8. SeqNo(script[d], i) < seq[d]
      <4>1. script[d][i] \in Encrypted
        BY <2>3 DEF Encrypted
      <4> QED
        BY <2>3, <3>1, <3>6, <3>7, <4>1 DEF InStepAs
    <3>9. Counted(d, i, seq[d])
      BY <2>3, <3>8 DEF Counted
    <3>10. \E j \in DOMAIN plain[d] : plain[d][j] = i
      BY <2>0, <3>9 DEF DirInv, Shown, ShownAs
    <3>11. DOMAIN plain[d] = 1 .. Len(plain[d])
      <4>1. plain[d] \in Seq(Nat)
        BY <2>0 DEF Typed
      <4> QED
        BY <4>1
    <3> QED
      BY <3>10, <3>11 DEF Contains
  <2> QED
    BY <2>2, <2>3
<1> QED
  BY <1>1, TlsCorrect, LogInit, LogStep, PTL DEF Spec
=============================================================================
