----------------------------- MODULE DataLemmas ----------------------------
(***************************************************************************)
(* Facts about data that the proofs of several components rest on.  About  *)
(* % and \div, for the layout arithmetic of ring.c: when adding to a       *)
(* position keeps it inside the same lap of the ring, when two positions   *)
(* share a byte, and what stays aligned.  About sequences of pieces, for   *)
(* the payloads of app_model.cpp: what appending a piece does to the       *)
(* whole.                                                                  *)
(***************************************************************************)
EXTENDS Integers, SequencesExt, WellFoundedInduction, TLAPS

(* Division with remainder.                                                *)
LEMMA DivMod ==
  ASSUME NEW p \in Nat, NEW D \in Nat \ {0}
  PROVE  /\ p = D * (p \div D) + (p % D)
         /\ p \div D \in Nat
         /\ p % D \in 0 .. D - 1
  OBVIOUS

(* Multiples of D are at least D apart.                                    *)
LEMMA MultiplesApart ==
  ASSUME NEW a \in Nat, NEW b \in Nat, NEW D \in Nat \ {0}, a < b
  PROVE  D * a + D <= D * b /\ D * a \in Nat /\ D * b \in Nat
<1>1. PICK c \in Nat : b = a + 1 + c
  BY b = a + 1 + (b - a - 1)
<1>2. D * b = D * a + D + D * c
  BY <1>1
<1>3. D * c >= 0
  OBVIOUS
<1> QED
  BY <1>2, <1>3

(* The remainder is unique.                                                *)
LEMMA ModUnique ==
  ASSUME NEW x \in Nat, NEW q \in Nat, NEW r \in Nat, NEW D \in Nat \ {0},
         r < D, x = D * q + r
  PROVE  x % D = r
<1>1. x = D * (x \div D) + (x % D) /\ x \div D \in Nat /\ x % D \in 0 .. D - 1
  BY DivMod
<1>2. CASE x \div D < q
  BY <1>1, <1>2, MultiplesApart
<1>3. CASE q < x \div D
  BY <1>1, <1>3, MultiplesApart
<1>4. CASE q = x \div D
  BY <1>1, <1>4
<1> QED
  BY <1>1, <1>2, <1>3, <1>4

(* The remainder of what grows from a remainder: a counter of fixed width  *)
(* may be reduced at every step or once.                                   *)
LEMMA ModStep ==
  ASSUME NEW x \in Int, NEW s \in Int, NEW D \in Nat \ {0}
  PROVE  ((x % D) + s) % D = (x + s) % D
<1>1. \A z \in Int : z = D * (z \div D) + (z % D) /\ z \div D \in Int /\ z % D \in 0 .. D - 1
  OBVIOUS
<1>a. PICK m \in Int : m = x % D /\ x = D * (x \div D) + m
  BY <1>1
<1>2. PICK y \in Int : y = m + s
  OBVIOUS
<1>3. PICK z \in Int : z = x + s
  OBVIOUS
<1>4. PICK a \in Int, b \in Int, e \in Int, r \in 0 .. D - 1, t \in 0 .. D - 1 :
        /\ a = x \div D /\ b = y \div D /\ e = z \div D /\ r = y % D /\ t = z % D
  BY <1>1
<1>5. y = D * b + r /\ z = D * e + t /\ z = D * a + y
  <2>1. y = D * b + r
    BY <1>1, <1>4
  <2>2. z = D * e + t
    BY <1>1, <1>4
  <2>3. x = D * a + m
    BY <1>4, <1>a
  <2> QED
    BY <1>2, <1>3, <2>1, <2>2, <2>3
<1>6. D * (a + b - e) = t - r
  BY <1>5
<1>7. \A k \in Int : k >= 1 => D * k >= D
  OBVIOUS
<1>8. \A k \in Int : k <= -1 => D * k <= -D
  OBVIOUS
<1>9. a + b - e \in Int
  OBVIOUS
<1>10. a + b - e = 0
  BY <1>6, <1>7, <1>8, <1>9
<1>11. D * (a + b - e) = 0
  BY <1>10
<1> QED
  BY <1>2, <1>3, <1>4, <1>6, <1>11, <1>a

(* Advancing inside the lap advances the offset.                           *)
LEMMA ModAdvance ==
  ASSUME NEW p \in Nat, NEW k \in Nat, NEW D \in Nat \ {0}, (p % D) + k < D
  PROVE  (p + k) % D = (p % D) + k
<1>1. p = D * (p \div D) + (p % D) /\ p \div D \in Nat /\ p % D \in 0 .. D - 1
  BY DivMod
<1>2. p + k = D * (p \div D) + ((p % D) + k)
  BY <1>1
<1>3. (p % D) + k \in Nat /\ p + k \in Nat
  BY <1>1
<1> QED
  BY <1>1, <1>2, <1>3, ModUnique

(* Advancing to the end of the lap returns to offset 0.                    *)
LEMMA ModLapEnd ==
  ASSUME NEW p \in Nat, NEW k \in Nat, NEW D \in Nat \ {0}, (p % D) + k = D
  PROVE  (p + k) % D = 0
<1>1. p = D * (p \div D) + (p % D) /\ p \div D \in Nat /\ p % D \in 0 .. D - 1
  BY DivMod
<1>2. p + k = D * ((p \div D) + 1) + 0
  BY <1>1
<1>3. (p \div D) + 1 \in Nat /\ p + k \in Nat
  BY <1>1
<1> QED
  BY <1>2, <1>3, ModUnique

(* Two positions less than a lap apart are different bytes.                *)
LEMMA ModDistinct ==
  ASSUME NEW p \in Nat, NEW q \in Nat, NEW D \in Nat \ {0}, p < q, q - p < D
  PROVE  p % D # q % D
<1>1. p = D * (p \div D) + (p % D) /\ p \div D \in Nat /\ p % D \in 0 .. D - 1
  BY DivMod
<1>2. q = D * (q \div D) + (q % D) /\ q \div D \in Nat /\ q % D \in 0 .. D - 1
  BY DivMod
<1>3. SUFFICES ASSUME p % D = q % D PROVE FALSE
  OBVIOUS
<1>4. CASE p \div D < q \div D
  BY <1>1, <1>2, <1>3, <1>4, MultiplesApart
<1>5. CASE p \div D = q \div D
  BY <1>1, <1>2, <1>3, <1>5
<1>6. CASE p \div D > q \div D
  BY <1>1, <1>2, <1>3, <1>6, MultiplesApart
<1> QED
  BY <1>1, <1>2, <1>4, <1>5, <1>6

(* Aligned numbers are the multiples.                                      *)
LEMMA AlignedQuotient ==
  ASSUME NEW p \in Nat, NEW A \in Nat \ {0}, p % A = 0
  PROVE  \E a \in Nat : p = A * a
<1>1. p = A * (p \div A) /\ p \div A \in Nat
  BY DivMod
<1> WITNESS p \div A \in Nat
<1> QED
  BY <1>1

(* A multiple of the alignment passes the alignment test. *)
LEMMA MultipleAligned ==
  ASSUME NEW x \in Nat, NEW a \in Nat, NEW A \in Nat \ {0}, x = A * a
  PROVE  x % A = 0
<1>1. x = A * a + 0
  OBVIOUS
<1> QED
  BY <1>1, ModUnique

(* Sums and differences of aligned numbers are aligned.                    *)
LEMMA AlignedSum ==
  ASSUME NEW p \in Nat, NEW q \in Nat, NEW A \in Nat \ {0}, p % A = 0, q % A = 0
  PROVE  (p + q) % A = 0
<1>1. PICK a \in Nat : p = A * a
  BY AlignedQuotient
<1>2. PICK b \in Nat : q = A * b
  BY AlignedQuotient
<1>3. PICK m \in Nat : m = a + b
  OBVIOUS
<1>4. PICK x \in Nat : x = p + q
  OBVIOUS
<1>5. x = A * m
  BY <1>1, <1>2, <1>3, <1>4
<1>6. x % A = 0
  BY <1>5, MultipleAligned
<1> QED
  BY <1>4, <1>6

(* The distance between two aligned positions is aligned. *)
LEMMA AlignedDifference ==
  ASSUME NEW p \in Nat, NEW q \in Nat, NEW A \in Nat \ {0}, p % A = 0, q % A = 0, q <= p
  PROVE  (p - q) % A = 0
<1>1. PICK a \in Nat : p = A * a
  BY AlignedQuotient
<1>2. PICK b \in Nat : q = A * b
  BY AlignedQuotient
<1>3. b <= a
  BY <1>1, <1>2, MultiplesApart
<1>4. PICK m \in Nat : m = a - b
  BY <1>3
<1>5. PICK x \in Nat : x = p - q
  OBVIOUS
<1>6. x = A * m
  BY <1>1, <1>2, <1>4, <1>5
<1>7. x % A = 0
  BY <1>6, MultipleAligned
<1> QED
  BY <1>5, <1>7

(* Rounding up gives an aligned number that is not smaller.                *)
LEMMA RoundUp ==
  ASSUME NEW n \in Nat, NEW A \in Nat \ {0}
  PROVE  /\ ((n + A - 1) \div A) * A \in Nat
         /\ ((n + A - 1) \div A) * A >= n
         /\ (((n + A - 1) \div A) * A) % A = 0
<1>1. (n + A - 1) \div A \in Nat
  OBVIOUS
<1>2. ((n + A - 1) \div A) * A >= n
  OBVIOUS
<1>3. \A m \in Nat : m * A \in Nat /\ (m * A) % A = 0
  OBVIOUS
<1> QED
  BY <1>1, <1>2, <1>3
-----------------------------------------------------------------------------
(* Induction.                                                              *)

(* Every set of numbers has a least element.                               *)
LEMMA LeastNumber ==
  ASSUME NEW T, T \subseteq Nat, T # {}
  PROVE  \E n \in T : \A m \in T : n <= m
<1> DEFINE R == OpToRel(<, Nat)
<1>1. IsWellFoundedOn(R, Nat)
  BY NatLessThanWellFounded
<1>2. \A x, y \in Nat : y < x => <<y, x>> \in R
  BY DEF OpToRel
<1> HIDE DEF R
<1>3. PICK x \in T : \A y \in T : ~ (<<y, x>> \in R)
  BY <1>1, WFMin
<1>4. \A y \in T : ~ (y < x)
  BY <1>2, <1>3
<1> QED
  BY <1>4

(* A set of numbers that has 0 and with every number the next has them     *)
(* all: induction, for the set of numbers with some property.              *)
LEMMA SetInduction ==
  ASSUME NEW P, P \subseteq Nat, 0 \in P, \A n \in P : n + 1 \in P
  PROVE  P = Nat
<1> SUFFICES ASSUME Nat \ P # {} PROVE FALSE
  OBVIOUS
<1>1. PICK n \in Nat \ P : \A m \in Nat \ P : n <= m
  BY LeastNumber
<1>2. n # 0 /\ n - 1 \in Nat /\ n - 1 < n
  BY <1>1
<1>3. n - 1 \in P
  BY <1>1, <1>2
<1>4. (n - 1) + 1 \in P
  BY <1>3
<1> QED
  BY <1>1, <1>4

-----------------------------------------------------------------------------
(* Joining the pieces of a sequence.                                       *)

(* f holds the pieces joined so far, as FlattenSeq computes them.          *)
Joins(f, ss, n) == f = [i \in 1 .. n |-> IF i = 1 THEN ss[i] ELSE f[i - 1] \o ss[i]]

(* There is such a function, however many pieces there are.                *)
LEMMA JoinsExists ==
  ASSUME NEW ss, NEW k \in Nat
  PROVE  \E f : Joins(f, ss, k)
<1> DEFINE P == {n \in Nat : \E f : Joins(f, ss, n)}
<1>1. 0 \in P
  <2>1. Joins([i \in 1 .. 0 |-> IF i = 1 THEN ss[i] ELSE <<>> \o ss[i]], ss, 0)
    BY DEF Joins
  <2> QED
    BY <2>1
<1>2. ASSUME NEW n \in P PROVE n + 1 \in P
  <2>0. n \in Nat
    BY <1>2
  <2>1. PICK f : Joins(f, ss, n)
    BY <1>2
  <2> DEFINE g == [i \in 1 .. n + 1 |-> IF i = 1 THEN ss[i] ELSE f[i - 1] \o ss[i]]
  <2>2. \A i \in 1 .. n : f[i] = IF i = 1 THEN ss[i] ELSE f[i - 1] \o ss[i]
    BY <2>1 DEF Joins
  <2>3. \A i \in 1 .. n + 1 : g[i] = IF i = 1 THEN ss[i] ELSE f[i - 1] \o ss[i]
    OBVIOUS
  <2>4. g = [i \in 1 .. n + 1 |-> g[i]]
    OBVIOUS
  <2> HIDE DEF g
  <2>5. \A i \in 1 .. n + 1 : i # 1 => i - 1 \in 1 .. n /\ i - 1 \in 1 .. n + 1
    BY <2>0
  <2>6. \A i \in 1 .. n : i \in 1 .. n + 1
    BY <2>0
  <2>7. \A i \in 1 .. n : g[i] = f[i]
    BY <2>2, <2>3, <2>6
  <2>8. \A i \in 1 .. n + 1 : g[i] = IF i = 1 THEN ss[i] ELSE g[i - 1] \o ss[i]
    BY <2>3, <2>5, <2>7
  <2>9. Joins(g, ss, n + 1)
    BY <2>4, <2>8 DEF Joins
  <2> QED
    BY <2>0, <2>9
<1> HIDE DEF P
<1>3. P = Nat
  <2>1. P \subseteq Nat
    BY DEF P
  <2> QED
    BY <1>1, <1>2, <2>1, SetInduction
<1> QED
  BY <1>3 DEF P

(* FlattenSeq is the last value of such a function.                        *)
LEMMA FlattenIsJoin ==
  ASSUME NEW ss, Len(ss) \in Nat \ {0}
  PROVE  \E f : Joins(f, ss, Len(ss)) /\ FlattenSeq(ss) = f[Len(ss)]
BY JoinsExists DEF FlattenSeq, Joins

(* The first k elements are the same.                                      *)
AgreeTo(ss, tt, k) == \A i \in 1 .. k : ss[i] = tt[i]

(* Sequences that agree on their first pieces join them to the same.       *)
LEMMA JoinsAgree ==
  ASSUME NEW ss, NEW tt, NEW f, NEW g, NEW k \in Nat, NEW l \in Nat, k <= l,
         Joins(f, ss, k), Joins(g, tt, l), AgreeTo(ss, tt, k)
  PROVE  AgreeTo(f, g, k)
<1> DEFINE P == {n \in Nat : n \in 1 .. k => f[n] = g[n]}
<1>1. /\ \A i \in 1 .. k : f[i] = IF i = 1 THEN ss[i] ELSE f[i - 1] \o ss[i]
      /\ \A i \in 1 .. l : g[i] = IF i = 1 THEN tt[i] ELSE g[i - 1] \o tt[i]
  BY DEF Joins
<1>a. \A i \in 1 .. k : ss[i] = tt[i]
  BY DEF AgreeTo
<1>2. \A i \in 1 .. k : i \in 1 .. l
  OBVIOUS
<1>3. 0 \in P
  OBVIOUS
<1>4. ASSUME NEW n \in P PROVE n + 1 \in P
  <2>0. n \in Nat /\ n + 1 \in Nat /\ (n \in 1 .. k => f[n] = g[n])
    BY <1>4
  <2>1. ASSUME n + 1 \in 1 .. k PROVE f[n + 1] = g[n + 1]
    <3>1. CASE n = 0
      BY <1>1, <1>2, <1>a, <2>1, <3>1
    <3>2. CASE n # 0
      <4>1. n \in 1 .. k /\ (n + 1) - 1 = n /\ n + 1 # 1
        BY <2>0, <2>1, <3>2
      <4>2. f[n + 1] = f[n] \o ss[n + 1] /\ g[n + 1] = g[n] \o tt[n + 1]
        BY <1>1, <1>2, <2>1, <4>1
      <4> QED
        BY <1>a, <2>0, <2>1, <4>1, <4>2
    <3> QED
      BY <3>1, <3>2
  <2> QED
    BY <2>0, <2>1
<1> HIDE DEF P
<1>5. P = Nat
  <2>1. P \subseteq Nat
    BY DEF P
  <2> QED
    BY <1>3, <1>4, <2>1, SetInduction
<1> QED
  BY <1>5 DEF P, AgreeTo
(* Joined pieces are a sequence of what the pieces are sequences of.       *)
LEMMA FlattenType ==
  ASSUME NEW S, NEW ss \in Seq(Seq(S))
  PROVE  FlattenSeq(ss) \in Seq(S)
<1>0. Len(ss) \in Nat
  OBVIOUS
<1>1. CASE Len(ss) = 0
  BY <1>1 DEF FlattenSeq
<1>2. CASE Len(ss) # 0
  <2>1. PICK f : Joins(f, ss, Len(ss)) /\ FlattenSeq(ss) = f[Len(ss)]
    BY <1>0, <1>2, FlattenIsJoin
  <2> DEFINE P == {n \in Nat : n \in 1 .. Len(ss) => f[n] \in Seq(S)}
  <2>2. \A i \in 1 .. Len(ss) : f[i] = IF i = 1 THEN ss[i] ELSE f[i - 1] \o ss[i]
    BY <2>1 DEF Joins
  <2>3. \A i \in 1 .. Len(ss) : ss[i] \in Seq(S)
    OBVIOUS
  <2>4. 0 \in P
    OBVIOUS
  <2>5. ASSUME NEW n \in P PROVE n + 1 \in P
    <3>0. n \in Nat /\ n + 1 \in Nat /\ (n \in 1 .. Len(ss) => f[n] \in Seq(S))
      BY <2>5
    <3>1. ASSUME n + 1 \in 1 .. Len(ss) PROVE f[n + 1] \in Seq(S)
      <4>1. CASE n = 0
        BY <2>2, <2>3, <3>1, <4>1
      <4>2. CASE n # 0
        <5>1. n \in 1 .. Len(ss) /\ (n + 1) - 1 = n /\ n + 1 # 1
          BY <1>0, <3>0, <3>1, <4>2
        <5>2. f[n + 1] = f[n] \o ss[n + 1]
          BY <2>2, <3>1, <5>1
        <5>3. f[n] \in Seq(S) /\ ss[n + 1] \in Seq(S)
          BY <2>3, <3>0, <3>1, <5>1
        <5> QED
          BY <5>2, <5>3
      <4> QED
        BY <4>1, <4>2
    <3> QED
      BY <3>0, <3>1
  <2> HIDE DEF P
  <2>6. P = Nat
    <3>1. P \subseteq Nat
      BY DEF P
    <3> QED
      BY <2>4, <2>5, <3>1, SetInduction
  <2>7. Len(ss) \in 1 .. Len(ss)
    BY <1>0, <1>2
  <2> QED
    BY <1>0, <2>1, <2>6, <2>7 DEF P
<1> QED
  BY <1>1, <1>2

(* One piece more is joined at the end.                                    *)
LEMMA FlattenExtends ==
  ASSUME NEW S, NEW ss \in Seq(Seq(S)), NEW tt \in Seq(Seq(S)),
         Len(tt) = Len(ss) + 1, \A i \in 1 .. Len(ss) : ss[i] = tt[i]
  PROVE  FlattenSeq(tt) = FlattenSeq(ss) \o tt[Len(ss) + 1]
<1>0. Len(ss) \in Nat /\ Len(tt) \in Nat \ {0} /\ Len(ss) + 1 \in 1 .. Len(tt)
  OBVIOUS
<1>1. PICK g : Joins(g, tt, Len(tt)) /\ FlattenSeq(tt) = g[Len(tt)]
  BY <1>0, FlattenIsJoin
<1>2. \A i \in 1 .. Len(tt) : g[i] = IF i = 1 THEN tt[i] ELSE g[i - 1] \o tt[i]
  BY <1>1 DEF Joins
<1>3. CASE Len(ss) = 0
  <2>1. FlattenSeq(ss) = <<>>
    BY <1>3 DEF FlattenSeq
  <2>2. tt[1] \in Seq(S) /\ FlattenSeq(tt) = tt[1]
    BY <1>0, <1>1, <1>2, <1>3
  <2> QED
    BY <1>3, <2>1, <2>2
<1>4. CASE Len(ss) # 0
  <2>1. PICK f : Joins(f, ss, Len(ss)) /\ FlattenSeq(ss) = f[Len(ss)]
    BY <1>0, <1>4, FlattenIsJoin
  <2>2. \A i \in 1 .. Len(ss) : f[i] = g[i]
    <3>1. Len(ss) \in Nat /\ Len(tt) \in Nat /\ Len(ss) <= Len(tt)
      BY <1>0
    <3>2. AgreeTo(ss, tt, Len(ss))
      BY DEF AgreeTo
    <3>3. AgreeTo(f, g, Len(ss))
      BY <1>1, <2>1, <3>1, <3>2, JoinsAgree
    <3> QED
      BY <3>3 DEF AgreeTo
  <2>3. /\ Len(tt) \in 1 .. Len(tt) /\ Len(tt) # 1 /\ Len(tt) - 1 = Len(ss)
        /\ Len(ss) \in 1 .. Len(ss)
    BY <1>0, <1>4
  <2>4. g[Len(tt)] = g[Len(ss)] \o tt[Len(tt)]
    BY <1>2, <2>3
  <2> QED
    BY <1>1, <2>1, <2>2, <2>3, <2>4
<1> QED
  BY <1>3, <1>4
-----------------------------------------------------------------------------
(* Prefixes.                                                               *)

Least(a, b) == IF a < b THEN a ELSE b

(* Sequences with the same elements are the same.                          *)
LEMMA SameElements ==
  ASSUME NEW S, NEW s \in Seq(S), NEW t \in Seq(S), Len(s) = Len(t),
         \A i \in 1 .. Len(s) : s[i] = t[i]
  PROVE  s = t
OBVIOUS

(* The whole is a prefix, and joining nothing changes nothing.             *)
LEMMA WholeAndNothing ==
  ASSUME NEW S, NEW s \in Seq(S)
  PROVE  SubSeq(s, 1, Len(s)) = s /\ SubSeq(s, 1, 0) = <<>> /\ s \o <<>> = s
<1>1. SubSeq(s, 1, Len(s)) = s
  <2>1. /\ SubSeq(s, 1, Len(s)) \in Seq(S) /\ Len(SubSeq(s, 1, Len(s))) = Len(s)
        /\ \A i \in 1 .. Len(s) : SubSeq(s, 1, Len(s))[i] = s[i]
    OBVIOUS
  <2> QED
    BY <2>1, SameElements
<1>2. SubSeq(s, 1, 0) = <<>>
  OBVIOUS
<1>3. s \o <<>> = s
  OBVIOUS
<1> QED
  BY <1>1, <1>2, <1>3

(* What a cap leaves of a stream to which a piece is added: the part kept  *)
(* so far and as much of the piece as there is room for.                   *)
LEMMA CapExtends ==
  ASSUME NEW S, NEW a \in Seq(S), NEW b \in Seq(S), NEW cap \in Nat
  PROVE  LET kept == SubSeq(a, 1, Least(Len(a), cap))
             room == IF Len(kept) < cap THEN cap - Len(kept) ELSE 0
         IN  kept \o SubSeq(b, 1, Least(Len(b), room))
               = SubSeq(a \o b, 1, Least(Len(a \o b), cap))
<1> DEFINE kept == SubSeq(a, 1, Least(Len(a), cap))
           room == IF Len(kept) < cap THEN cap - Len(kept) ELSE 0
           take == Least(Len(b), room)
<1>1. /\ Len(a) \in Nat /\ Len(b) \in Nat /\ a \o b \in Seq(S) /\ Len(a \o b) = Len(a) + Len(b)
      /\ \A i \in 1 .. Len(a) : (a \o b)[i] = a[i]
      /\ \A i \in 1 .. Len(b) : (a \o b)[Len(a) + i] = b[i]
  OBVIOUS
<1>2. CASE Len(a) < cap
  <2>1. kept = a
    BY <1>2, WholeAndNothing DEF Least
  <2>2. room = cap - Len(a) /\ take \in 0 .. Len(b)
    <3>1. room = cap - Len(a)
      BY <1>2, <2>1
    <3> HIDE DEF room
    <3>2. room \in Nat
      BY <1>1, <1>2, <3>1
    <3> QED
      BY <1>1, <3>1, <3>2 DEF Least
  <2>3. Least(Len(a \o b), cap) = Len(a) + take
    BY <1>1, <1>2, <2>2 DEF Least
  <2> HIDE DEF kept, room, take
  <2>4. PICK t \in 0 .. Len(b) : t = take
    BY <2>2
  <2>5. /\ SubSeq(b, 1, t) \in Seq(S) /\ Len(SubSeq(b, 1, t)) = t
        /\ \A i \in 1 .. t : SubSeq(b, 1, t)[i] = b[i]
    BY <1>1
  <2>6. PICK x \in Seq(S) : x = SubSeq(b, 1, t)
    BY <2>5
  <2>7. /\ a \o x \in Seq(S) /\ Len(a \o x) = Len(a) + t
        /\ \A i \in 1 .. Len(a) : (a \o x)[i] = a[i]
        /\ \A i \in 1 .. t : (a \o x)[Len(a) + i] = x[i]
    BY <2>5, <2>6, SMTT(30)
  <2>8. PICK y \in Seq(S) : y = a \o b
    BY <1>1
  <2>9. /\ SubSeq(y, 1, Len(a) + t) \in Seq(S) /\ Len(SubSeq(y, 1, Len(a) + t)) = Len(a) + t
        /\ \A i \in 1 .. Len(a) + t : SubSeq(y, 1, Len(a) + t)[i] = y[i]
    BY <1>1, <2>8
  <2>10. \A i \in 1 .. Len(a) + t : (a \o x)[i] = y[i]
    <3> SUFFICES ASSUME NEW i \in 1 .. Len(a) + t PROVE (a \o x)[i] = y[i]
      OBVIOUS
    <3>0. Len(a) \in Nat /\ t \in Nat /\ i \in Nat /\ i <= Len(a) + t
      BY <1>1
    <3>1. CASE i <= Len(a)
      BY <1>1, <2>7, <2>8, <3>1
    <3>2. CASE i > Len(a)
      <4>0. i - Len(a) \in 1 .. t /\ i = Len(a) + (i - Len(a))
        BY <3>0, <3>2
      <4>1. PICK k \in 1 .. t : i = Len(a) + k
        BY <4>0, Zenon
      <4> QED
        BY <1>1, <2>5, <2>6, <2>7, <2>8, <4>1
    <3>3. i <= Len(a) \/ i > Len(a)
      BY <3>0
    <3> QED
      BY <3>1, <3>2, <3>3
  <2>11. a \o x = SubSeq(y, 1, Len(a) + t)
    BY <2>7, <2>9, <2>10, SameElements
  <2> QED
    BY <2>1, <2>3, <2>4, <2>6, <2>8, <2>11 DEF kept, room, take
<1>3. CASE ~ (Len(a) < cap)
  <2>1. kept = SubSeq(a, 1, cap) /\ Least(Len(a \o b), cap) = cap
    BY <1>1, <1>3 DEF Least
  <2>2. /\ SubSeq(a, 1, cap) \in Seq(S) /\ Len(SubSeq(a, 1, cap)) = cap
        /\ \A i \in 1 .. cap : SubSeq(a, 1, cap)[i] = a[i]
    BY <1>1, <1>3
  <2>3. take = 0
    BY <1>1, <2>1, <2>2 DEF Least
  <2>4. kept \o SubSeq(b, 1, take) = SubSeq(a, 1, cap)
    <3>1. PICK x \in Seq(S) : x = SubSeq(a, 1, cap)
      BY <2>2
    <3>2. kept = x /\ SubSeq(b, 1, take) = <<>>
      BY <2>1, <2>3, <3>1, WholeAndNothing
    <3>3. x \o <<>> = x
      BY WholeAndNothing
    <3> HIDE DEF kept, take
    <3> QED
      BY <3>1, <3>2, <3>3
  <2>5. /\ SubSeq(a \o b, 1, cap) \in Seq(S) /\ Len(SubSeq(a \o b, 1, cap)) = cap
        /\ \A i \in 1 .. cap : SubSeq(a \o b, 1, cap)[i] = (a \o b)[i]
    BY <1>1, <1>3
  <2>6. \A i \in 1 .. cap : (a \o b)[i] = a[i]
    BY <1>1, <1>3
  <2>7. SubSeq(a, 1, cap) = SubSeq(a \o b, 1, cap)
    BY <2>2, <2>5, <2>6, SameElements
  <2> QED
    BY <2>1, <2>4, <2>7
<1> QED
  BY <1>2, <1>3
-----------------------------------------------------------------------------
(* Where a piece lies in the joined whole.                                 *)

(* The first k pieces joined, and their length.                            *)
First(ss, k) == FlattenSeq(SubSeq(ss, 1, k))
Upto(ss, k) == Len(First(ss, k))

(* The first elements of a sequence.                                       *)
LEMMA PrefixType ==
  ASSUME NEW S, NEW s \in Seq(S), NEW k \in 0 .. Len(s)
  PROVE  /\ SubSeq(s, 1, k) \in Seq(S) /\ Len(SubSeq(s, 1, k)) = k
         /\ \A i \in 1 .. k : SubSeq(s, 1, k)[i] = s[i]
<1>1. Len(s) \in Nat
  OBVIOUS
<1> QED
  BY <1>1

(* They are sequences, from none to all of them.                           *)
LEMMA FirstType ==
  ASSUME NEW S, NEW ss \in Seq(Seq(S))
  PROVE  /\ \A k \in 0 .. Len(ss) : First(ss, k) \in Seq(S) /\ Upto(ss, k) \in Nat
         /\ First(ss, 0) = <<>> /\ Upto(ss, 0) = 0
         /\ First(ss, Len(ss)) = FlattenSeq(ss)
<1>1. ASSUME NEW k \in 0 .. Len(ss) PROVE First(ss, k) \in Seq(S) /\ Upto(ss, k) \in Nat
  <2>1. SubSeq(ss, 1, k) \in Seq(Seq(S))
    BY PrefixType
  <2>2. First(ss, k) \in Seq(S)
    BY <2>1, FlattenType DEF First
  <2> QED
    BY <2>2 DEF Upto
<1>2. SubSeq(ss, 1, Len(ss)) = ss /\ SubSeq(ss, 1, 0) = <<>>
  BY WholeAndNothing
<1>3. FlattenSeq(<<>>) = <<>> /\ Len(<<>>) = 0
  <2>1. Len(<<>>) = 0
    OBVIOUS
  <2> QED
    BY <2>1 DEF FlattenSeq
<1>4. First(ss, 0) = <<>>
  BY <1>2, <1>3 DEF First
<1>5. Upto(ss, 0) = 0
  BY <1>3, <1>4 DEF Upto
<1> QED
  BY <1>1, <1>2, <1>4, <1>5 DEF First

(* The next piece is joined behind them.                                   *)
LEMMA FirstExtends ==
  ASSUME NEW S, NEW ss \in Seq(Seq(S)), NEW k \in 0 .. Len(ss) - 1
  PROVE  /\ ss[k + 1] \in Seq(S) /\ Len(ss[k + 1]) \in Nat
         /\ First(ss, k) \in Seq(S) /\ Upto(ss, k) \in Nat
         /\ First(ss, k + 1) \in Seq(S) /\ Upto(ss, k + 1) \in Nat
         /\ First(ss, k + 1) = First(ss, k) \o ss[k + 1]
         /\ Upto(ss, k + 1) = Upto(ss, k) + Len(ss[k + 1])
<1>0. Len(ss) \in Nat /\ k \in 0 .. Len(ss) /\ k + 1 \in 0 .. Len(ss) /\ k + 1 \in 1 .. Len(ss)
  OBVIOUS
<1>1. PICK l \in 0 .. Len(ss) : l = k + 1
  BY <1>0
<1>2. PICK a \in Seq(Seq(S)) :
        a = SubSeq(ss, 1, k) /\ Len(a) = k /\ \A i \in 1 .. k : a[i] = ss[i]
  <2>1. k \in 0 .. Len(ss)
    BY <1>0
  <2> QED
    BY <2>1, PrefixType
<1>3. PICK b \in Seq(Seq(S)) :
        b = SubSeq(ss, 1, l) /\ Len(b) = l /\ \A i \in 1 .. l : b[i] = ss[i]
  BY PrefixType
<1>4. Len(b) = Len(a) + 1 /\ \A i \in 1 .. Len(a) : a[i] = b[i]
  BY <1>0, <1>1, <1>2, <1>3
<1>5. FlattenSeq(b) = FlattenSeq(a) \o b[Len(a) + 1]
  BY <1>4, FlattenExtends
<1>6. b[Len(a) + 1] = ss[k + 1]
  BY <1>0, <1>1, <1>2, <1>3
<1>7. First(ss, k + 1) = First(ss, k) \o ss[k + 1]
  BY <1>1, <1>2, <1>3, <1>5, <1>6 DEF First
<1>8. ss[k + 1] \in Seq(S)
  BY <1>0
<1>9. First(ss, k) \in Seq(S) /\ First(ss, l) \in Seq(S)
  BY <1>0, FirstType
<1>10. PICK x \in Seq(S), y \in Seq(S) : x = First(ss, k) /\ y = ss[k + 1]
  BY <1>8, <1>9
<1>11. Len(x \o y) = Len(x) + Len(y) /\ Len(x) \in Nat /\ Len(y) \in Nat
  OBVIOUS
<1>12. Upto(ss, k + 1) = Len(x) + Len(y) /\ Upto(ss, k) = Len(x)
  BY <1>7, <1>10, <1>11 DEF Upto
<1>13. First(ss, k + 1) \in Seq(S)
  BY <1>1, <1>9
<1>14. /\ Len(ss[k + 1]) \in Nat /\ Upto(ss, k) \in Nat /\ Upto(ss, k + 1) \in Nat
       /\ Upto(ss, k + 1) = Upto(ss, k) + Len(ss[k + 1])
  BY <1>10, <1>11, <1>12
<1> QED
  BY <1>7, <1>8, <1>9, <1>13, <1>14

(* What is joined first stays where it is.                                 *)
LEMMA FirstStays ==
  ASSUME NEW S, NEW ss \in Seq(Seq(S)), NEW k \in 0 .. Len(ss), NEW l \in k .. Len(ss)
  PROVE  /\ Upto(ss, k) \in Nat /\ Upto(ss, l) \in Nat /\ Upto(ss, k) <= Upto(ss, l)
         /\ \A i \in 1 .. Upto(ss, k) : First(ss, l)[i] = First(ss, k)[i]
<1> DEFINE Same(x) == /\ Upto(ss, k) <= Upto(ss, x)
                      /\ \A i \in 1 .. Upto(ss, k) : First(ss, x)[i] = First(ss, k)[i]
           P == {x \in Nat : k + x <= Len(ss) => Same(k + x)}
<1>0. Len(ss) \in Nat /\ k \in Nat
  OBVIOUS
<1>a. Upto(ss, k) \in Nat
  BY FirstType
<1>1. 0 \in P
  <2>1. k + 0 = k
    BY <1>0
  <2>2. Same(k)
    BY <1>a
  <2> QED
    BY <2>1, <2>2
<1>2. ASSUME NEW x \in P PROVE x + 1 \in P
  <2>0. x \in Nat /\ x + 1 \in Nat /\ (k + x <= Len(ss) => Same(k + x))
    BY <1>2
  <2>1. ASSUME k + (x + 1) <= Len(ss) PROVE Same(k + (x + 1))
    <3>1. PICK y \in 0 .. Len(ss) - 1 : y = k + x /\ y + 1 = k + (x + 1) /\ k + x <= Len(ss)
      BY <1>0, <2>0, <2>1
    <3>2. Upto(ss, k) <= Upto(ss, y) /\ \A i \in 1 .. Upto(ss, k) : First(ss, y)[i] = First(ss, k)[i]
      BY <2>0, <3>1
    <3>3. PICK a \in Seq(S), b \in Seq(S) :
            /\ a = First(ss, y) /\ b = ss[y + 1] /\ First(ss, y + 1) = a \o b
            /\ Upto(ss, y) = Len(a) /\ Upto(ss, y + 1) = Len(a) + Len(b)
      <4>1. /\ First(ss, y) \in Seq(S) /\ ss[y + 1] \in Seq(S)
            /\ First(ss, y + 1) = First(ss, y) \o ss[y + 1]
            /\ Upto(ss, y + 1) = Upto(ss, y) + Len(ss[y + 1])
        BY FirstExtends
      <4>2. Upto(ss, y) = Len(First(ss, y))
        BY DEF Upto
      <4> QED
        BY <4>1, <4>2
    <3>4. \A i \in 1 .. Len(a) : (a \o b)[i] = a[i]
      OBVIOUS
    <3>5. Len(a) \in Nat /\ Len(b) \in Nat
      OBVIOUS
    <3>6. \A i \in 1 .. Upto(ss, k) : i \in 1 .. Len(a)
      BY <1>a, <3>2, <3>3, <3>5
    <3>7. \A i \in 1 .. Upto(ss, k) : First(ss, y + 1)[i] = First(ss, k)[i]
      BY <3>2, <3>3, <3>4, <3>6
    <3>8. Upto(ss, k) <= Upto(ss, y + 1)
      BY <1>a, <3>2, <3>3, <3>5
    <3> QED
      BY <3>1, <3>7, <3>8
  <2> HIDE DEF Same
  <2> QED
    BY <2>0, <2>1
<1> HIDE DEF P, Same
<1>3. P = Nat
  <2>1. P \subseteq Nat
    BY DEF P
  <2> QED
    BY <1>1, <1>2, <2>1, SetInduction
<1>4. l - k \in P /\ k + (l - k) = l /\ l <= Len(ss)
  BY <1>0, <1>3
<1>5. Same(l)
  BY <1>4 DEF P
<1>6. l \in 0 .. Len(ss)
  BY <1>0
<1>7. Upto(ss, l) \in Nat
  BY <1>6, FirstType
<1> QED
  BY <1>5, <1>7, <1>a DEF Same

(* A piece lies behind the ones before it.                                 *)
LEMMA FlattenAt ==
  ASSUME NEW S, NEW ss \in Seq(Seq(S)), NEW k \in 0 .. Len(ss) - 1, NEW j \in 1 .. Len(ss[k + 1])
  PROVE  /\ Upto(ss, k) + j \in 1 .. Len(FlattenSeq(ss))
         /\ FlattenSeq(ss)[Upto(ss, k) + j] = ss[k + 1][j]
<1>0. Len(ss) \in Nat /\ k + 1 \in 0 .. Len(ss) /\ Len(ss) \in k + 1 .. Len(ss)
  OBVIOUS
<1>1. PICK l \in 0 .. Len(ss) : l = k + 1
  BY <1>0
<1>2. PICK a \in Seq(S), b \in Seq(S) :
        /\ a = First(ss, k) /\ b = ss[k + 1] /\ First(ss, l) = a \o b
        /\ Upto(ss, k) = Len(a) /\ Upto(ss, l) = Len(a) + Len(b)
  BY <1>1, FirstExtends DEF Upto
<1>3. Len(a) \in Nat /\ Len(b) \in Nat /\ \A i \in 1 .. Len(b) : (a \o b)[Len(a) + i] = b[i]
  OBVIOUS
<1>4. Len(ss) \in l .. Len(ss)
  BY <1>0, <1>1
<1>5. /\ Upto(ss, l) <= Upto(ss, Len(ss)) /\ Upto(ss, Len(ss)) \in Nat
      /\ \A i \in 1 .. Upto(ss, l) : First(ss, Len(ss))[i] = First(ss, l)[i]
  BY <1>4, FirstStays
<1>6. First(ss, Len(ss)) = FlattenSeq(ss)
  BY FirstType
<1>7. Upto(ss, Len(ss)) = Len(FlattenSeq(ss))
  BY <1>6 DEF Upto
<1>8. j \in 1 .. Len(b)
  BY <1>2
<1>9. Len(a) + j \in 1 .. Len(a) + Len(b)
  BY <1>3, <1>8
<1>10. FlattenSeq(ss)[Len(a) + j] = b[j]
  BY <1>2, <1>3, <1>5, <1>6, <1>8, <1>9
<1>11. Len(a) + j \in 1 .. Len(FlattenSeq(ss))
  BY <1>2, <1>3, <1>5, <1>7, <1>9
<1> QED
  BY <1>2, <1>10, <1>11
=============================================================================
