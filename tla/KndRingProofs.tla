--------------------------- MODULE KndRingProofs ---------------------------
(***************************************************************************)
(* Proofs about the ring, for every number of CPUs, ring size, alignment,  *)
(* header size and mix of requests that RingAssumption admits.             *)
(***************************************************************************)
EXTENDS KndRingInv, DataLemmas, FiniteSetTheorems

(* The constants as the proofs use them.                                   *)
LEMMA Sizes ==
  /\ DataSize \in Nat \ {0} /\ HdrSize \in Nat \ {0} /\ Align \in Nat \ {0}
  /\ HdrSize <= DataSize
BY RingAssumption

(* A request's record length: a number, at least a header.                 *)
LEMMA RecLenFacts ==
  ASSUME NEW n \in Nat
  PROVE  RecLen(n) \in Nat /\ RecLen(n) >= HdrSize /\ RecLen(n) % Align = 0
<1>1. HdrSize + n \in Nat
  BY Sizes
<1> QED
  BY <1>1, Sizes, RoundUp DEF RecLen, AlignUp

(* KND_RING_OFFSET falls inside the data area, and at least one byte of the
   lap is left at every position. *)
LEMMA OffsetFacts ==
  ASSUME NEW p \in Nat
  PROVE  Offset(p) \in Nat /\ Offset(p) < DataSize /\ Contig(p) \in Nat \ {0}
BY Sizes, DivMod DEF Offset, Contig

(* Pads and lengths are numbers.                                           *)
LEMMA LayoutTypes ==
  ASSUME NEW p \in Nat, NEW l \in Nat
  PROVE  PadLen(p, l) \in Nat /\ FinalLen(p, l) \in Nat /\ Total(p, l) \in Nat
BY OffsetFacts DEF PadLen, FinalLen, Total

(* Storing a record keeps memory a memory.                                 *)
LEMMA StoreType ==
  ASSUME NEW off \in Nat, NEW r \in Rec, NEW from \in Nat, NEW to \in Nat,
         mem \in [Offsets -> Cell]
  PROVE  Store(off, r, from, to) \in [Offsets -> Cell]
<1>1. ASSUME NEW b \in Offsets, off + from <= b PROVE b - off \in Nat
  BY <1>1, Sizes DEF Offsets
<1> QED
  BY <1>1 DEF Store, Cell

(* A call's local variables keep their types.                              *)
LEMMA LocSeqType ==
  ASSUME NEW l \in LocType, NEW x \in Nat
  PROVE  [l EXCEPT !.seq = x] \in LocType
BY DEF LocType

(* Advancing the producer's local write position keeps its locals typed. *)
LEMMA LocWpType ==
  ASSUME NEW l \in LocType, NEW x \in Nat
  PROVE  [l EXCEPT !.wp = x] \in LocType
BY DEF LocType

(* Whatever the bytes, a header cast shows a header.                       *)
LEMMA HeadersType ==
  ASSUME NEW p \in Nat, mem \in [Offsets -> Cell]
  PROVE  HeadersAt(Offset(p)) \subseteq Rec
<1>0. Offset(p) \in Nat /\ Offset(p) < DataSize
  BY OffsetFacts
<1>1. Offset(p) \in Offsets
  BY <1>0, Sizes DEF Offsets
<1>2. mem[Offset(p)].rec \in Rec
  BY <1>1 DEF Cell
<1>3. ASSUME NEW h \in [seq : {0}, type : {"WRAP", "DATA"}, ts : {0}, n : {0}, len : Garbage]
      PROVE  h \in Rec
  <2>1. h.type \in RecTypes /\ h.len \in Nat
    BY RingAssumption DEF RecTypes, AppTypes
  <2> QED
    BY <2>1 DEF Rec
<1> QED
  BY <1>2, <1>3 DEF HeadersAt

-----------------------------------------------------------------------------
(* Type correctness. KndRingCreate leaves every variable in its type.      *)
LEMMA TypeInit == Init => TypeOK
BY RingAssumption
   DEF Init, TypeOK, NoLoc, LocType, AppTypes, RecTypes, Rec, Cell, ZeroRec, ZeroCell, Entry

(* No step of KndRingProduce leaves the types: counters stay naturals, stores
   stay records. *)
LEMMA TypeProducer ==
  ASSUME TypeOK, NEW c \in Cpus, Producer(c)
  PROVE  TypeOK'
<1>0. /\ loc \in [Cpus -> LocType] /\ loc[c] \in LocType
      /\ WritePos \in Nat /\ NextSequence \in Nat /\ clock \in Nat
      /\ mem \in [Offsets -> Cell] /\ log \in Seq(Entry)
  BY DEF TypeOK
<1>1. ASSUME NEW q \in Requests, RejectOversize(c, q)
      PROVE  TypeOK'
  <2>1. RecLen(q.n) \in Nat
    BY RingAssumption, RecLenFacts
  <2> QED
    BY <1>1, <2>1
    DEF TypeOK, RejectOversize, Count, kernelVars, appVars
<1>2. ASSUME NEW q \in Requests, Enter(c, q)
      PROVE  TypeOK'
  <2>1. RecLen(q.n) \in Nat /\ q.n \in Nat /\ q.type \in AppTypes
    BY RingAssumption, RecLenFacts
  <2>2. loc' \in [Cpus -> LocType]
    BY <1>0, <1>2, <2>1 DEF Enter, NoLoc, LocType
  <2>3. pc' \in [Cpus -> {"idle", "lock"} \cup Busy]
    BY <1>2 DEF TypeOK, Enter
  <2>4. /\ clock' = clock + 1 /\ calls' = calls + 1
        /\ UNCHANGED <<lock, WritePos, NextSequence, writePos, readPos, statVars, mem,
                       appVars, log, crashes, scribbles>>
    BY <1>2 DEF Enter
  <2> QED
    BY <2>2, <2>3, <2>4 DEF TypeOK, statVars, appVars
<1>3. ASSUME DropInconsistent(c) PROVE TypeOK'
  <2>1. loc[c].len \in Nat
    BY DEF TypeOK, LocType
  <2> QED
    BY <1>3, <2>1 DEF TypeOK, DropInconsistent, Count, appVars, boundVars
<1>4. ASSUME DropFull(c) PROVE TypeOK'
  <2>1. Total(WritePos, loc[c].len) \in Nat
    BY LayoutTypes DEF TypeOK, LocType
  <2> QED
    BY <1>4, <2>1 DEF TypeOK, DropFull, Count, appVars, boundVars
<1>5. ASSUME Reserve(c) PROVE TypeOK'
  <2>1. PadLen(WritePos, loc[c].len) \in Nat /\ FinalLen(WritePos, loc[c].len) \in Nat
    BY <1>0, LayoutTypes DEF LocType
  <2>2. loc' \in [Cpus -> LocType]
    BY <1>0, <1>5, <2>1 DEF Reserve, LocType
  <2>3. pc' \in [Cpus -> {"idle", "lock"} \cup Busy]
    BY <1>5 DEF TypeOK, Reserve, Busy
  <2> QED
    BY <1>5, <2>2, <2>3 DEF TypeOK, Reserve, statVars, appVars, boundVars
<1>6. ASSUME WritePad(c) PROVE TypeOK'
  <2> DEFINE l == [loc[c] EXCEPT !.seq = NextSequence + 1]
  <2>1. l \in LocType
    BY <1>0, LocSeqType
  <2>2. Offset(l.wp) \in Nat /\ PadRec(l) \in Rec /\ l.len \in Nat
    BY <2>1, OffsetFacts DEF LocType, PadRec, Rec, RecTypes
  <2>3. /\ mem' = Store(Offset(l.wp), PadRec(l), 0, HdrSize)
        /\ loc' = [loc EXCEPT ![c] = [l EXCEPT !.wp = l.wp + l.pad]]
    BY <1>0, <1>6 DEF WritePad, LocType
  <2> HIDE DEF l
  <2>4. mem' \in [Offsets -> Cell]
    BY <1>0, <2>2, <2>3, StoreType, Sizes
  <2>5. loc' \in [Cpus -> LocType]
    <3>1. l.wp + l.pad \in Nat
      BY <2>1 DEF LocType
    <3>2. [l EXCEPT !.wp = l.wp + l.pad] \in LocType
      BY <2>1, <3>1, LocWpType
    <3> QED
      BY <1>0, <2>3, <3>2
  <2>6. pc' \in [Cpus -> {"idle", "lock"} \cup Busy]
    BY <1>6 DEF TypeOK, WritePad, Busy
  <2>7. /\ NextSequence' \in Nat
        /\ UNCHANGED <<lock, WritePos, clock, writePos, readPos, statVars, appVars, log, boundVars>>
    BY <1>0, <1>6 DEF WritePad
  <2> QED
    BY <2>4, <2>5, <2>6, <2>7 DEF TypeOK, statVars, appVars, boundVars
<1>7. ASSUME WriteHeader(c) PROVE TypeOK'
  <2> DEFINE l == [loc[c] EXCEPT !.seq = NextSequence + 1]
  <2>1. l \in LocType
    BY <1>0, LocSeqType
  <2>2. Offset(l.wp) \in Nat /\ MainRec(l) \in Rec /\ l.len \in Nat
    BY <2>1, OffsetFacts DEF LocType, MainRec, Rec, RecTypes
  <2>3. /\ mem' = Store(Offset(l.wp), MainRec(l), 0, HdrSize)
        /\ loc' = [loc EXCEPT ![c] = l]
    BY <1>0, <1>7 DEF WriteHeader, LocType
  <2> HIDE DEF l
  <2>4. mem' \in [Offsets -> Cell]
    BY <1>0, <2>2, <2>3, StoreType, Sizes
  <2>5. loc' \in [Cpus -> LocType]
    BY <1>0, <2>1, <2>3 DEF LocType
  <2>6. pc' \in [Cpus -> {"idle", "lock"} \cup Busy]
    BY <1>7 DEF TypeOK, WriteHeader, Busy
  <2>7. /\ NextSequence' \in Nat
        /\ UNCHANGED <<lock, WritePos, clock, writePos, readPos, statVars, appVars, log, boundVars>>
    BY <1>0, <1>7 DEF WriteHeader
  <2> QED
    BY <2>4, <2>5, <2>6, <2>7 DEF TypeOK, statVars, appVars, boundVars
<1>8. ASSUME WriteBody(c) PROVE TypeOK'
  <2> DEFINE l == loc[c]
  <2>1. l \in LocType
    BY <1>0 DEF LocType
  <2>2. Offset(l.wp) \in Nat /\ MainRec(l) \in Rec /\ l.len \in Nat
    BY <2>1, OffsetFacts DEF LocType, MainRec, Rec, RecTypes
  <2>3. /\ mem' = Store(Offset(l.wp), MainRec(l), HdrSize, l.len)
        /\ loc' = [loc EXCEPT ![c] = [l EXCEPT !.wp = l.wp + l.len]]
    BY <1>0, <1>8 DEF WriteBody, LocType
  <2> HIDE DEF l
  <2>4. mem' \in [Offsets -> Cell]
    BY <1>0, <2>2, <2>3, StoreType, Sizes
  <2>5. loc' \in [Cpus -> LocType]
    <3>1. l.wp + l.len \in Nat
      BY <2>1 DEF LocType
    <3>2. [l EXCEPT !.wp = l.wp + l.len] \in LocType
      BY <2>1, <3>1, LocWpType
    <3> QED
      BY <1>0, <2>3, <3>2
  <2>6. pc' \in [Cpus -> {"idle", "lock"} \cup Busy]
    BY <1>8 DEF TypeOK, WriteBody, Busy
  <2> QED
    BY <1>8, <2>4, <2>5, <2>6 DEF TypeOK, WriteBody, statVars, appVars, boundVars
<1>9. ASSUME Publish(c) PROVE TypeOK'
  <2> DEFINE l == loc[c]
             e == [pos |-> WritePos, pad |-> l.pad, rec |-> MainRec(l)]
  <2>1. MainRec(l) \in Rec /\ l.wp \in Nat /\ l.pad \in Nat /\ l.len \in Nat
    BY <1>0 DEF LocType, MainRec, Rec, RecTypes
  <2>2. e \in Entry
    BY <1>0, <2>1 DEF Entry
  <2> QED
    BY <1>9, <2>1, <2>2 DEF TypeOK, Publish, Busy, statVars, appVars, boundVars
<1>10. ASSUME Account(c) PROVE TypeOK'
  <2>1. loc[c].pad \in Nat /\ loc[c].len \in Nat
    BY DEF TypeOK, LocType
  <2> QED
    BY <1>10, <2>1 DEF TypeOK, Account, appVars, boundVars
<1> QED
  BY <1>1, <1>2, <1>3, <1>4, <1>5, <1>6, <1>7, <1>8, <1>9, <1>10 DEF Producer, Proceed

(* Neither does a step of KndClient::poll, nor the application restarting. *)
LEMMA TypeApp ==
  ASSUME TypeOK, Poll \/ Restart
  PROVE  TypeOK'
<1>1. CASE PollBegin
  BY <1>1 DEF TypeOK, PollBegin, kernelVars, statVars, boundVars
<1>2. CASE PollHeader
  <2>1. pollRp \in Nat /\ mem \in [Offsets -> Cell]
    BY DEF TypeOK
  <2>2. HeadersAt(Offset(pollRp)) \subseteq Rec
    BY <2>1, HeadersType
  <2> QED
    BY <1>2, <2>2 DEF TypeOK, PollHeader, kernelVars, statVars, boundVars
<1>3. CASE PollResync
  BY <1>3 DEF TypeOK, PollResync, kernelVars, statVars, boundVars
<1>4. CASE PollDeliver
  <2>1. Seen(Offset(pollRp), hdr) \in Rec
    BY DEF TypeOK, Seen, Torn, ZeroRec, Rec, RecTypes
  <2>2. hdr.len \in Nat
    BY DEF TypeOK, Rec
  <2> QED
    BY <1>4, <2>1, <2>2 DEF TypeOK, PollDeliver, kernelVars, statVars, boundVars
<1>5. CASE PollSkip
  <2>1. hdr.len \in Nat
    BY DEF TypeOK, Rec
  <2> QED
    BY <1>5, <2>1 DEF TypeOK, PollSkip, kernelVars, statVars, boundVars
<1>6. CASE PollEnd
  BY <1>6 DEF TypeOK, PollEnd, kernelVars, statVars, boundVars
<1>7. CASE Restart
  BY <1>7 DEF TypeOK, Restart, kernelVars, statVars, ZeroRec, Rec, RecTypes
<1> QED
  BY <1>1, <1>2, <1>3, <1>4, <1>5, <1>6, <1>7 DEF Poll

(* Neither does a foreign store into the mapping, which is one of the values
   the word or the byte can hold. *)
LEMMA TypeScribble ==
  ASSUME TypeOK, Scribble
  PROVE  TypeOK'
<1>1. ASSUME NEW p \in Garbage, ScribblePos(p) PROVE TypeOK'
  BY <1>1, RingAssumption DEF TypeOK, ScribblePos, kernelVars, statVars, appVars
<1>2. ASSUME NEW b \in Offsets, NEW l \in Garbage, ScribbleByte(b, l) PROVE TypeOK'
  <2> DEFINE bad == [rec |-> [ZeroRec EXCEPT !.len = l], k |-> 0]
  <2>1. bad \in Cell
    BY RingAssumption DEF ZeroRec, Rec, RecTypes, Cell
  <2>2. /\ mem' = [mem EXCEPT ![b] = bad] /\ scribbles' = scribbles + 1
        /\ UNCHANGED <<kernelVars, writePos, readPos, statVars, appVars, log, calls, crashes>>
    BY <1>2, Zenon DEF ScribbleByte
  <2> HIDE DEF bad
  <2>3. mem \in [Offsets -> Cell] /\ scribbles \in Nat
    BY DEF TypeOK
  <2>4. mem' \in [Offsets -> Cell]
    BY <2>1, <2>2, <2>3
  <2>5. scribbles' \in Nat
    BY <2>2, <2>3
  <2>6. UNCHANGED <<kernelVars, writePos, readPos, statVars, appVars, log, calls, crashes>>
    BY <2>2
  <2> QED
    BY <2>4, <2>5, <2>6 DEF TypeOK, kernelVars, statVars, appVars
<1> QED
  BY <1>1, <1>2 DEF Scribble

(* Hence no step at all leaves the types. *)
LEMMA TypeStep == TypeOK /\ [HostileNext]_vars => TypeOK'
<1>1. CASE UNCHANGED vars
  BY <1>1 DEF TypeOK, vars, kernelVars, statVars, appVars, boundVars
<1> QED
  BY <1>1, TypeProducer, TypeApp, TypeScribble DEF HostileNext, Next

(* Every variable keeps its type, whatever is stored into the mapping.     *)
THEOREM TypeCorrect == HostileSpec => []TypeOK
BY TypeInit, TypeStep, PTL DEF HostileSpec

-----------------------------------------------------------------------------
(* The layout arithmetic of KndRingWrite.                                  *)

(* A reservation made where a header fits is sound: pad and record stay on *)
(* their side of the end, and header room is left behind them.             *)
LEMMA LayoutSound ==
  ASSUME NEW p \in Nat, NEW n \in Nat, HeaderRoom(p), HdrSize <= n, n <= DataSize,
         Total(p, n) <= DataSize,
         NEW l \in LocType, l.pad = PadLen(p, n), l.len = FinalLen(p, n)
  PROVE  PlanOK(p, l)
<1>0. Offset(p) \in Nat /\ Offset(p) < DataSize /\ Contig(p) = DataSize - Offset(p)
  BY OffsetFacts DEF Contig
<1>1. CASE Fits(p, n)
  <2>1. l.pad = 0
    BY <1>1 DEF PadLen
  <2>2. Offset(p + l.pad) = Offset(p)
    BY <2>1
  <2>3. CASE Contig(p) - n # 0 /\ Contig(p) - n < HdrSize
    <3>1. l.len = Contig(p) /\ n <= Contig(p)
      BY <1>1, <2>3 DEF FinalLen, Fits
    <3> QED
      BY <1>0, <2>1, <2>2, <3>1, Sizes DEF PlanOK
  <2>4. CASE ~(Contig(p) - n # 0 /\ Contig(p) - n < HdrSize)
    <3>1. l.len = n /\ n <= Contig(p)
      BY <1>1, <2>4 DEF FinalLen, Fits
    <3> QED
      BY <1>0, <2>1, <2>2, <2>4, <3>1, Sizes DEF PlanOK
  <2> QED
    BY <2>3, <2>4
<1>2. CASE ~Fits(p, n)
  <2>1. l.pad = Contig(p) /\ l.len = n
    BY <1>2 DEF PadLen, FinalLen
  <2>2. HdrSize <= l.pad
    BY <1>0, <2>1, Sizes DEF HeaderRoom
  <2>3. Offset(p) + l.pad = DataSize /\ l.pad \in Nat
    BY <1>0, <2>1, Sizes
  <2>4. Offset(p + l.pad) = 0
    BY <2>3, ModLapEnd, Sizes DEF Offset
  <2>5. l.pad + l.len <= DataSize
    BY <1>2, <2>1 DEF Total, PadLen, FinalLen
  <2> QED
    BY <2>1, <2>2, <2>3, <2>4, <2>5, Sizes DEF PlanOK
<1> QED
  BY <1>1, <1>2

(* Publishing a sound reservation leaves the position where a header fits: *)
(* what the comment on the absorb rule claims.                             *)
LEMMA RoomKept ==
  ASSUME NEW p \in Nat, NEW l \in LocType, PlanOK(p, l)
  PROVE  HeaderRoom(p + l.pad + l.len)
<1> DEFINE s == p + l.pad
<1>1. s \in Nat /\ l.len \in Nat
  BY DEF LocType
<1>2. Offset(s) \in Nat
  BY <1>1, OffsetFacts
<1>3. \/ Offset(s) + l.len = DataSize
      \/ Offset(s) + l.len + HdrSize <= DataSize
  BY DEF PlanOK
<1> HIDE DEF s
<1>4. CASE Offset(s) + l.len = DataSize
  <2>1. Offset(s + l.len) = 0
    BY <1>1, <1>4, ModLapEnd, Sizes DEF Offset
  <2> QED
    BY <2>1, Sizes DEF HeaderRoom, s
<1>5. CASE Offset(s) + l.len + HdrSize <= DataSize
  <2>1. Offset(s) + l.len < DataSize
    BY <1>1, <1>2, <1>5, Sizes
  <2>2. Offset(s + l.len) = Offset(s) + l.len
    BY <1>1, <2>1, ModAdvance, Sizes DEF Offset
  <2> QED
    BY <1>5, <2>2 DEF HeaderRoom, s
<1> QED
  BY <1>3, <1>4, <1>5

-----------------------------------------------------------------------------
(* SafeInv is inductive, whatever is stored into the mapping. It holds  *)
(* of the empty ring KndRingCreate builds.                                 *)
LEMMA SafeInit == Init => SafeInv
<1> SUFFICES ASSUME Init PROVE SafeInv
  OBVIOUS
<1>1. TypeOK
  BY TypeInit
<1>2. LockHeld
  BY RingAssumption DEF Init, LockHeld, Busy
<1>3. Offset(0) = 0
  BY Sizes, ModUnique DEF Offset
<1>4. HeaderRoom(WritePos)
  BY <1>3, Sizes DEF Init, HeaderRoom
<1>5. CallsPlanned
  BY DEF Init, CallsPlanned, CallPlanned, Storing
<1> QED
  BY <1>1, <1>2, <1>4, <1>5 DEF SafeInv

(* A step that leaves the producers' own state alone preserves it.         *)
LEMMA SafeQuiet ==
  ASSUME SafeInv, TypeOK', UNCHANGED kernelVars
  PROVE  SafeInv'
BY DEF SafeInv, kernelVars, LockHeld, HeaderRoom, CallsPlanned, CallPlanned, PlanOK, Offset, Contig

(* The lock: who gets it, who gives it back.                               *)
LEMMA LockStep ==
  ASSUME SafeInv, NEW c \in Cpus, Producer(c)
  PROVE  LockHeld'
<1>0. /\ pc \in [Cpus -> {"idle", "lock"} \cup Busy] /\ LockHeld /\ lock \in Cpus \cup {NoCpu}
      /\ NoCpu \notin Cpus
  BY RingAssumption DEF SafeInv, TypeOK
<1>1. ASSUME NEW q \in Requests, RejectOversize(c, q) PROVE LockHeld'
  BY <1>0, <1>1 DEF RejectOversize, kernelVars, LockHeld
<1>2. ASSUME NEW q \in Requests, Enter(c, q) PROVE LockHeld'
  BY <1>0, <1>2 DEF Enter, LockHeld, Busy
<1>3. ASSUME DropInconsistent(c) \/ DropFull(c) PROVE LockHeld'
  BY <1>0, <1>3 DEF DropInconsistent, DropFull, LockHeld, Busy
<1>4. ASSUME Reserve(c) PROVE LockHeld'
  <2>1. /\ pc' = [pc EXCEPT ![c] = IF PadLen(WritePos, loc[c].len) # 0 THEN "pad" ELSE "header"]
        /\ lock = NoCpu /\ lock' = c
    BY <1>4 DEF Reserve
  <2> QED
    BY <1>0, <2>1 DEF LockHeld, Busy
<1>5. ASSUME WritePad(c) \/ WriteHeader(c) \/ WriteBody(c) \/ Publish(c) PROVE LockHeld'
  <2>1. /\ pc[c] \in Busy /\ lock' = lock
        /\ \E x \in Busy : pc' = [pc EXCEPT ![c] = x]
    BY <1>5 DEF WritePad, WriteHeader, WriteBody, Publish, Busy
  <2> QED
    BY <1>0, <2>1 DEF LockHeld
<1>6. ASSUME Account(c) PROVE LockHeld'
  BY <1>0, <1>6 DEF Account, LockHeld, Busy
<1> QED
  BY <1>1, <1>2, <1>3, <1>4, <1>5, <1>6 DEF Producer, Proceed

(* The calls: each step of CPU c leaves c planned, and the others are not  *)
(* inside the lock when the position they plan from moves.                 *)
LEMMA PlanStep ==
  ASSUME SafeInv, NEW c \in Cpus, Producer(c)
  PROVE  HeaderRoom(WritePos)' /\ CallsPlanned'
<1>0. /\ pc \in [Cpus -> {"idle", "lock"} \cup Busy] /\ loc \in [Cpus -> LocType]
      /\ WritePos \in Nat /\ readPos \in Nat /\ LockHeld
      /\ HeaderRoom(WritePos) /\ CallsPlanned
      /\ loc[c] \in LocType /\ CallPlanned(pc[c], loc[c])
  BY DEF SafeInv, TypeOK, CallsPlanned
<1>a. ASSUME NEW x, NEW l, WritePos' = WritePos,
             pc' = [pc EXCEPT ![c] = x], loc' = [loc EXCEPT ![c] = l], CallPlanned(x, l)
      PROVE  HeaderRoom(WritePos)' /\ CallsPlanned'
  <2>1. HeaderRoom(WritePos)'
    BY <1>0, <1>a DEF HeaderRoom, Offset
  <2>2. ASSUME NEW d \in Cpus PROVE CallPlanned(pc[d], loc[d])'
    <3>1. CallPlanned(pc'[d], loc'[d])
      BY <1>0, <1>a DEF CallsPlanned
    <3> QED
      BY <1>a, <3>1 DEF CallPlanned, PlanOK, Offset, Contig
  <2> QED
    BY <2>1, <2>2 DEF CallsPlanned
<1>1. ASSUME NEW q \in Requests, RejectOversize(c, q)
      PROVE  HeaderRoom(WritePos)' /\ CallsPlanned'
  BY <1>0, <1>1 DEF RejectOversize, kernelVars, HeaderRoom, CallsPlanned, CallPlanned, PlanOK,
                    Offset, Contig
<1>2. ASSUME NEW q \in Requests, Enter(c, q)
      PROVE  HeaderRoom(WritePos)' /\ CallsPlanned'
  <2> DEFINE l == [NoLoc EXCEPT !.type = q.type, !.n = q.n, !.ts = clock, !.len = RecLen(q.n)]
  <2>1. l.len = RecLen(q.n) /\ HdrSize <= RecLen(q.n) /\ RecLen(q.n) <= DataSize
    BY <1>2, RingAssumption, RecLenFacts DEF Enter, NoLoc
  <2>2. CallPlanned("lock", l)
    BY <2>1 DEF CallPlanned, Storing
  <2>3. /\ WritePos' = WritePos
        /\ pc' = [pc EXCEPT ![c] = "lock"] /\ loc' = [loc EXCEPT ![c] = l]
    BY <1>2 DEF Enter
  <2> QED
    BY <1>a, <2>2, <2>3
<1>3. ASSUME DropInconsistent(c) \/ DropFull(c)
      PROVE  HeaderRoom(WritePos)' /\ CallsPlanned'
  <2>1. CallPlanned("idle", loc[c])
    BY DEF CallPlanned, Storing
  <2>2. /\ WritePos' = WritePos
        /\ pc' = [pc EXCEPT ![c] = "idle"] /\ loc' = [loc EXCEPT ![c] = loc[c]]
    BY <1>0, <1>3 DEF DropInconsistent, DropFull
  <2> QED
    BY <1>a, <2>1, <2>2
<1>4. ASSUME Reserve(c)
      PROVE  HeaderRoom(WritePos)' /\ CallsPlanned'
  <2> DEFINE n == loc[c].len
             l == [loc[c] EXCEPT !.wp = WritePos, !.pad = PadLen(WritePos, n),
                                 !.len = FinalLen(WritePos, n)]
             x == IF PadLen(WritePos, n) # 0 THEN "pad" ELSE "header"
  <2>1. n \in Nat /\ HdrSize <= n /\ n <= DataSize
    BY <1>0, <1>4 DEF Reserve, CallPlanned, LocType
  <2>2. l \in LocType
    BY <1>0, <2>1, LayoutTypes DEF LocType
  <2>3. Total(WritePos, n) <= DataSize
    <3>1. Avail(WritePos, readPos) <= DataSize /\ Avail(WritePos, readPos) \in Int
      BY <1>0, <1>4, Sizes DEF Reserve, Inconsistent, Avail
    <3> QED
      BY <1>0, <1>4, <2>1, <3>1, LayoutTypes, Sizes DEF Reserve
  <2>4. l.pad = PadLen(WritePos, n) /\ l.len = FinalLen(WritePos, n) /\ l.wp = WritePos
    BY <1>0 DEF LocType
  <2>5. /\ WritePos' = WritePos
        /\ pc' = [pc EXCEPT ![c] = x] /\ loc' = [loc EXCEPT ![c] = l]
    BY <1>0, <1>4 DEF Reserve, LocType
  <2> HIDE DEF l, n
  <2>6. PlanOK(WritePos, l)
    BY <1>0, <2>1, <2>2, <2>3, <2>4, LayoutSound
  <2>7. CallPlanned(x, l)
    BY <1>0, <2>4, <2>6 DEF CallPlanned, Storing
  <2> QED
    BY <1>a, <2>5, <2>7
<1>5. ASSUME WritePad(c)
      PROVE  HeaderRoom(WritePos)' /\ CallsPlanned'
  <2> DEFINE l == [loc[c] EXCEPT !.seq = NextSequence + 1, !.wp = loc[c].wp + loc[c].pad]
  <2>1. /\ WritePos' = WritePos
        /\ pc' = [pc EXCEPT ![c] = "header"] /\ loc' = [loc EXCEPT ![c] = l]
    BY <1>0, <1>5 DEF WritePad, LocType
  <2>2. l.pad = loc[c].pad /\ l.len = loc[c].len /\ l.wp = loc[c].wp + loc[c].pad
    BY <1>0 DEF LocType
  <2>3. PlanOK(WritePos, loc[c]) /\ loc[c].wp = WritePos
    BY <1>0, <1>5 DEF WritePad, CallPlanned, Storing
  <2> HIDE DEF l
  <2>4. CallPlanned("header", l)
    BY <2>2, <2>3 DEF CallPlanned, Storing, PlanOK
  <2> QED
    BY <1>a, <2>1, <2>4
<1>6. ASSUME WriteHeader(c)
      PROVE  HeaderRoom(WritePos)' /\ CallsPlanned'
  <2> DEFINE l == [loc[c] EXCEPT !.seq = NextSequence + 1]
  <2>1. /\ WritePos' = WritePos
        /\ pc' = [pc EXCEPT ![c] = "body"] /\ loc' = [loc EXCEPT ![c] = l]
    BY <1>6 DEF WriteHeader
  <2>2. l.pad = loc[c].pad /\ l.len = loc[c].len /\ l.wp = loc[c].wp
    BY <1>0 DEF LocType
  <2>3. PlanOK(WritePos, loc[c]) /\ loc[c].wp = WritePos + loc[c].pad
    BY <1>0, <1>6 DEF WriteHeader, CallPlanned, Storing
  <2> HIDE DEF l
  <2>4. CallPlanned("body", l)
    BY <2>2, <2>3 DEF CallPlanned, Storing, PlanOK
  <2> QED
    BY <1>a, <2>1, <2>4
<1>7. ASSUME WriteBody(c)
      PROVE  HeaderRoom(WritePos)' /\ CallsPlanned'
  <2> DEFINE l == [loc[c] EXCEPT !.wp = loc[c].wp + loc[c].len]
  <2>1. /\ WritePos' = WritePos
        /\ pc' = [pc EXCEPT ![c] = "publish"] /\ loc' = [loc EXCEPT ![c] = l]
    BY <1>0, <1>7 DEF WriteBody
  <2>2. l.pad = loc[c].pad /\ l.len = loc[c].len /\ l.wp = loc[c].wp + loc[c].len
    BY <1>0 DEF LocType
  <2>3. PlanOK(WritePos, loc[c]) /\ loc[c].wp = WritePos + loc[c].pad
    BY <1>0, <1>7 DEF WriteBody, CallPlanned, Storing
  <2> HIDE DEF l
  <2>4. CallPlanned("publish", l)
    BY <2>2, <2>3 DEF CallPlanned, Storing, PlanOK
  <2> QED
    BY <1>a, <2>1, <2>4
<1>8. ASSUME Publish(c)
      PROVE  HeaderRoom(WritePos)' /\ CallsPlanned'
  <2>1. PlanOK(WritePos, loc[c]) /\ WritePos' = WritePos + loc[c].pad + loc[c].len
    BY <1>0, <1>8 DEF Publish, CallPlanned, Storing
  <2>2. HeaderRoom(WritePos')
    BY <1>0, <2>1, RoomKept
  <2>3. ASSUME NEW d \in Cpus PROVE CallPlanned(pc[d], loc[d])'
    <3>1. pc'[d] \notin Storing
      BY <1>0, <1>8 DEF Publish, LockHeld, Busy, Storing
    <3>2. pc'[d] = "lock" => pc[d] = "lock" /\ loc'[d] = loc[d]
      BY <1>0, <1>8 DEF Publish
    <3> QED
      BY <1>0, <3>1, <3>2 DEF CallsPlanned, CallPlanned, Storing
  <2> QED
    BY <2>2, <2>3 DEF HeaderRoom, Offset, CallsPlanned
<1>9. ASSUME Account(c)
      PROVE  HeaderRoom(WritePos)' /\ CallsPlanned'
  <2>1. CallPlanned("idle", loc[c])
    BY DEF CallPlanned, Storing
  <2>2. /\ WritePos' = WritePos
        /\ pc' = [pc EXCEPT ![c] = "idle"] /\ loc' = [loc EXCEPT ![c] = loc[c]]
    BY <1>0, <1>9 DEF Account
  <2> QED
    BY <1>a, <2>1, <2>2
<1> QED
  BY <1>1, <1>2, <1>3, <1>4, <1>5, <1>6, <1>7, <1>8, <1>9 DEF Producer, Proceed

(* Every step of a producer, of the application or of a foreign writer
   preserves SafeInv: the producer decides from its private position alone. *)
LEMMA SafeStep == SafeInv /\ [HostileNext]_vars => SafeInv'
<1> SUFFICES ASSUME SafeInv, [HostileNext]_vars PROVE SafeInv'
  OBVIOUS
<1>1. TypeOK'
  BY TypeStep DEF SafeInv
<1>2. ASSUME NEW c \in Cpus, Producer(c) PROVE SafeInv'
  BY <1>1, <1>2, LockStep, PlanStep DEF SafeInv
<1>3. ASSUME Poll \/ Restart \/ Scribble \/ UNCHANGED vars PROVE UNCHANGED kernelVars
  BY <1>3 DEF Poll, PollBegin, PollHeader, PollResync, PollDeliver, PollSkip, PollEnd, Restart,
              Scribble, ScribblePos, ScribbleByte, vars
<1> QED
  BY <1>1, <1>2, <1>3, SafeQuiet DEF HostileNext, Next

(* The inductive invariant of the producer holds however the mapping is    *)
(* scribbled over.                                                         *)
THEOREM ProducerSafe == HostileSpec => []SafeInv
BY SafeInit, SafeStep, PTL DEF HostileSpec

(* ring.c: "the worst a bad rp can do is cost us records, never a stray    *)
(* write": no store of KndRingWrite leaves the data area.                  *)
THEOREM NoStrayStore == HostileSpec => []StoresInBounds
<1>1. SafeInv => StoresInBounds
  <2> SUFFICES ASSUME SafeInv, NEW c \in Cpus
               PROVE  /\ pc[c] = "pad" => Offset(loc[c].wp) + HdrSize <= DataSize
                      /\ pc[c] \in {"header", "body"} => Offset(loc[c].wp) + loc[c].len <= DataSize
    BY DEF StoresInBounds
  <2>0. /\ loc[c] \in LocType /\ WritePos \in Nat
        /\ CallPlanned(pc[c], loc[c]) /\ HeaderRoom(WritePos)
    BY DEF SafeInv, TypeOK, CallsPlanned
  <2>1. CASE pc[c] = "pad"
    BY <2>0, <2>1 DEF CallPlanned, HeaderRoom
  <2>2. CASE pc[c] \in {"header", "body"}
    <3>1. PlanOK(WritePos, loc[c]) /\ loc[c].wp = WritePos + loc[c].pad
      BY <2>0, <2>2 DEF CallPlanned, Storing
    <3>2. loc[c].wp \in Nat /\ loc[c].len \in Nat
      BY <2>0 DEF LocType
    <3>3. Offset(loc[c].wp) \in Nat
      BY <3>2, OffsetFacts
    <3> QED
      BY <2>2, <3>1, <3>2, <3>3, Sizes DEF PlanOK
  <2> QED
    BY <2>1, <2>2
<1> QED
  BY <1>1, ProducerSafe, PTL

-----------------------------------------------------------------------------
(* The other side: RingInv is inductive while the consumer keeps to the    *)
(* protocol, and what follows from it: no record is torn, lost, repeated   *)
(* or reordered on its way through the ring, which implements the queue of *)
(* RecordQueue.                                                            *)

(* The bytes of one lap: advancing inside it advances the offset.          *)
LEMMA OffsetAdvance ==
  ASSUME NEW p \in Nat, NEW k \in Nat, Offset(p) + k < DataSize
  PROVE  Offset(p + k) = Offset(p) + k
BY Sizes, ModAdvance DEF Offset

(* A store at a position from w on leaves the bytes of every earlier       *)
(* position alone that is within a lap of its end.                         *)
LEMMA StoreMisses ==
  ASSUME NEW w \in Nat, NEW from \in Nat, NEW to \in Nat, NEW r, NEW p \in Nat,
         Offset(w) + to <= DataSize, p < w + from, w + to - p <= DataSize
  PROVE  Store(Offset(w), r, from, to)[Offset(p)] = mem[Offset(p)]
<1>1. /\ Offset(p) \in Nat /\ Offset(p) < DataSize
      /\ Offset(w) \in Nat /\ Offset(w) < DataSize
  BY OffsetFacts
<1>2. Offset(p) \in Offsets
  BY <1>1, Sizes DEF Offsets
<1>3. ~ (Offset(w) + from <= Offset(p) /\ Offset(p) < Offset(w) + to)
  <2> SUFFICES ASSUME Offset(w) + from <= Offset(p), Offset(p) < Offset(w) + to
               PROVE  FALSE
    OBVIOUS
  <2>1. PICK k \in Nat : Offset(p) = Offset(w) + k
    BY <1>1, Offset(p) = Offset(w) + (Offset(p) - Offset(w))
  <2>2. from <= k /\ k < to
    BY <1>1, <2>1
  <2>3. Offset(w + k) = Offset(p)
    BY <1>1, <2>1, OffsetAdvance
  <2>4. w + k \in Nat /\ p < w + k /\ w + k - p < DataSize
    BY <2>2, Sizes
  <2> QED
    BY <2>3, <2>4, ModDistinct, Sizes DEF Offset
<1> QED
  BY <1>2, <1>3 DEF Store

(* What a store puts where it stores.                                      *)
LEMMA StoreHits ==
  ASSUME NEW off \in Nat, NEW from \in Nat, NEW to \in Nat, NEW r, NEW k \in Nat,
         from <= k, k < to, off + to <= DataSize
  PROVE  off + k \in Offsets /\ Store(off, r, from, to)[off + k] = [rec |-> r, k |-> k]
<1>1. off + k \in Offsets
  BY Sizes DEF Offsets
<1>2. off + from <= off + k /\ off + k < off + to /\ (off + k) - off = k
  OBVIOUS
<1> QED
  BY <1>1, <1>2 DEF Store

(* A stored header shows its record.                                       *)
LEMMA HeaderStored ==
  ASSUME NEW off \in Nat, NEW r, NEW m, off + HdrSize <= DataSize, m = Store(off, r, 0, HdrSize)
  PROVE  \A k \in 0 .. HdrSize - 1 : m[off + k] = [rec |-> r, k |-> k]
<1> SUFFICES ASSUME NEW k \in 0 .. HdrSize - 1
             PROVE  Store(off, r, 0, HdrSize)[off + k] = [rec |-> r, k |-> k]
  OBVIOUS
<1>1. off + k \in Offsets /\ off + 0 <= off + k /\ off + k < off + HdrSize /\ (off + k) - off = k
  BY Sizes DEF Offsets
<1> QED
  BY <1>1 DEF Store

(* Inside the lap an offset is a multiple of what position and size are.   *)
LEMMA OffsetAligned ==
  ASSUME NEW p \in Nat, p % Align = 0
  PROVE  Offset(p) % Align = 0 /\ Contig(p) % Align = 0
<1>0. DataSize % Align = 0
  BY RingAssumption
<1>1. p = DataSize * (p \div DataSize) + Offset(p) /\ p \div DataSize \in Nat
  BY DivMod, Sizes DEF Offset
<1>2. Offset(p) \in Nat /\ Offset(p) < DataSize /\ Contig(p) \in Nat
  BY OffsetFacts
<1>3. PICK d \in Nat : DataSize = Align * d
  BY <1>0, Sizes, AlignedQuotient
<1>4. PICK q \in Nat : q = p \div DataSize
  BY <1>1
<1>5. PICK b \in Nat : b = d * q
  OBVIOUS
<1>6. PICK x \in Nat : x = DataSize * q
  BY Sizes
<1>7. x = Align * b
  <2>1. x = (Align * d) * q
    BY <1>3, <1>6
  <2> QED
    BY <2>1, <1>5, Sizes
<1>8. x % Align = 0
  BY <1>7, MultipleAligned, Sizes
<1>9. p = x + Offset(p)
  BY <1>1, <1>4, <1>6
<1>10. Offset(p) = p - x /\ x <= p
  BY <1>2, <1>9
<1>11. Offset(p) % Align = 0
  <2>1. (p - x) % Align = 0
    BY <1>8, <1>10, AlignedDifference, Sizes
  <2> QED
    BY <1>10, <2>1
<1>12. (DataSize - Offset(p)) % Align = 0
  BY <1>0, <1>2, <1>11, AlignedDifference, Sizes
<1> QED
  BY <1>11, <1>12 DEF Contig

(* What a reservation lays out is aligned.                                 *)
LEMMA LayoutAligned ==
  ASSUME NEW p \in Nat, NEW n \in Nat, p % Align = 0, n % Align = 0
  PROVE  PadLen(p, n) % Align = 0 /\ FinalLen(p, n) % Align = 0
<1>1. Contig(p) % Align = 0
  BY OffsetAligned
<1>2. 0 % Align = 0
  BY Sizes, MultipleAligned
<1> QED
  BY <1>1, <1>2 DEF PadLen, FinalLen
-----------------------------------------------------------------------------
(* The accepted records.                                                   *)

(* An accepted record, its pad and its length are what their types say.    *)
LEMMA EntryTypes ==
  ASSUME TypeOK, NEW i \in DOMAIN log
  PROVE  /\ log[i] \in Entry /\ log[i].pos \in Nat /\ log[i].pad \in Nat
         /\ log[i].rec \in Rec /\ log[i].rec.len \in Nat
         /\ log[i].pos + log[i].pad \in Nat /\ EndOf(log[i]) \in Nat
<1>1. log[i] \in Entry
  BY DEF TypeOK
<1>2. log[i].pos \in Nat /\ log[i].pad \in Nat /\ log[i].rec \in Rec
  BY <1>1 DEF Entry
<1>3. log[i].rec.len \in Nat
  BY <1>2 DEF Rec
<1> QED
  BY <1>1, <1>2, <1>3 DEF EndOf

(* The accepted records and the empty place behind them.                   *)
LEMMA LogFacts ==
  ASSUME TypeOK
  PROVE  Len(log) \in Nat /\ DOMAIN log = 1 .. Len(log)
BY DEF TypeOK

(* Records start in the order they were accepted.                          *)
LEMMA StartsOrdered ==
  ASSUME TypeOK, LogTiles, NEW i \in DOMAIN log, NEW j \in Nat, i < j, j <= Len(log) + 1
  PROVE  /\ StartOf(i) = log[i].pos
         /\ StartOf(j) \in Nat
         /\ EndOf(log[i]) <= StartOf(j)
<1>0. Len(log) \in Nat /\ DOMAIN log = 1 .. Len(log)
  BY LogFacts
<1>1. StartOf(i) = log[i].pos
  BY <1>0 DEF StartOf
<1>2. CASE j <= Len(log)
  <2>1. j \in DOMAIN log /\ StartOf(j) = log[j].pos
    BY <1>0, <1>2 DEF StartOf
  <2> QED
    BY <1>1, <2>1, EntryTypes DEF LogTiles
<1>3. CASE j = Len(log) + 1
  <2>1. StartOf(j) = WritePos
    BY <1>0, <1>3 DEF StartOf
  <2> QED
    BY <1>1, <2>1 DEF LogTiles, TypeOK
<1> QED
  BY <1>0, <1>2, <1>3

(* Where a record starts is a position.                                    *)
LEMMA StartType ==
  ASSUME TypeOK, NEW i \in Nat, 1 <= i, i <= Len(log) + 1
  PROVE  StartOf(i) \in Nat
BY LogFacts, EntryTypes DEF StartOf, TypeOK

(* The positions a record and the header of its pad occupy lie between its *)
(* start and the write position, each at the offset of its byte.           *)
LEMMA EntryBytes ==
  ASSUME TypeOK, LogTiles, NEW i \in DOMAIN log, NEW k \in Nat
  PROVE  /\ log[i].pad # 0 /\ k < HdrSize =>
              /\ Offset(log[i].pos + k) = Offset(log[i].pos) + k
              /\ log[i].pos <= log[i].pos + k /\ log[i].pos + k < WritePos
         /\ k < log[i].rec.len =>
              /\ Offset(log[i].pos + log[i].pad + k) = Offset(log[i].pos + log[i].pad) + k
              /\ log[i].pos <= log[i].pos + log[i].pad + k
              /\ log[i].pos + log[i].pad + k < WritePos
<1> DEFINE e == log[i]
<1>0. /\ e.pos \in Nat /\ e.pad \in Nat /\ e.rec.len \in Nat /\ e.pos + e.pad \in Nat
      /\ WritePos \in Nat
  BY EntryTypes DEF TypeOK
<1>1. EntryOK(e) /\ e.pos + e.pad + e.rec.len <= WritePos
  BY DEF LogTiles, EndOf
<1> HIDE DEF e
<1>2. ASSUME e.pad # 0, k < HdrSize
      PROVE  /\ Offset(e.pos + k) = Offset(e.pos) + k
             /\ e.pos <= e.pos + k /\ e.pos + k < WritePos
  <2>1. HdrSize <= e.pad /\ Offset(e.pos) + e.pad = DataSize /\ HdrSize <= e.rec.len
    BY <1>1, <1>2 DEF EntryOK
  <2>2. Offset(e.pos) \in Nat
    BY <1>0, OffsetFacts
  <2>3. Offset(e.pos) + k < DataSize
    BY <1>0, <1>2, <2>1, <2>2, Sizes
  <2>4. Offset(e.pos + k) = Offset(e.pos) + k
    BY <1>0, <2>3, OffsetAdvance
  <2> QED
    BY <1>0, <1>1, <1>2, <2>1, <2>4, Sizes
<1>3. ASSUME k < e.rec.len
      PROVE  /\ Offset(e.pos + e.pad + k) = Offset(e.pos + e.pad) + k
             /\ e.pos <= e.pos + e.pad + k /\ e.pos + e.pad + k < WritePos
  <2>1. Offset(e.pos + e.pad) + e.rec.len <= DataSize
    BY <1>1 DEF EntryOK
  <2>2. Offset(e.pos + e.pad) \in Nat
    BY <1>0, OffsetFacts
  <2>3. Offset(e.pos + e.pad) + k < DataSize
    BY <1>0, <1>3, <2>1, <2>2, Sizes
  <2>4. Offset((e.pos + e.pad) + k) = Offset(e.pos + e.pad) + k
    BY <1>0, <2>3, OffsetAdvance
  <2> QED
    BY <1>0, <1>1, <1>3, <2>4
<1> QED
  BY <1>2, <1>3 DEF e

-----------------------------------------------------------------------------
(* One call at a time.                                                     *)

(* The CPU inside the lock is the only one.                                *)
LEMMA OneInside ==
  ASSUME LockHeld, NEW c \in Cpus, NEW d \in Cpus, pc[c] \in Busy, pc[d] \in Busy
  PROVE  c = d
BY DEF LockHeld

(* A call under way, in plain numbers.                                     *)
LEMMA CallFacts ==
  ASSUME SafeInv, NEW c \in Cpus, pc[c] \in Storing
  PROVE  /\ loc[c] \in LocType
         /\ loc[c].pad \in Nat /\ loc[c].len \in Nat /\ loc[c].wp \in Nat /\ loc[c].seq \in Nat
         /\ WritePos \in Nat /\ HdrSize <= loc[c].len
         /\ loc[c].pad # 0 => HdrSize <= loc[c].pad /\ Offset(WritePos) + loc[c].pad = DataSize
         /\ loc[c].pad + loc[c].len <= DataSize
         /\ Offset(WritePos + loc[c].pad) + loc[c].len <= DataSize
         /\ pc[c] = "pad" => loc[c].pad # 0 /\ loc[c].wp = WritePos
         /\ pc[c] \in {"header", "body"} => loc[c].wp = WritePos + loc[c].pad
         /\ pc[c] = "publish" => loc[c].wp = WritePos + loc[c].pad + loc[c].len
<1>1. loc[c] \in LocType /\ WritePos \in Nat /\ CallPlanned(pc[c], loc[c]) /\ HeaderRoom(WritePos)
  BY DEF SafeInv, TypeOK, CallsPlanned
<1>2. loc[c].pad \in Nat /\ loc[c].len \in Nat /\ loc[c].wp \in Nat /\ loc[c].seq \in Nat
  BY <1>1 DEF LocType
<1>3. PlanOK(WritePos, loc[c])
  BY <1>1 DEF CallPlanned
<1>4. /\ Offset(WritePos) \in Nat /\ Contig(WritePos) = DataSize - Offset(WritePos)
      /\ Offset(WritePos + loc[c].pad) \in Nat
  BY <1>1, <1>2, OffsetFacts DEF Contig
<1>5. loc[c].pad # 0 => HdrSize <= loc[c].pad /\ Offset(WritePos) + loc[c].pad = DataSize
  BY <1>1, <1>2, <1>3, <1>4, Sizes DEF PlanOK, HeaderRoom
<1>6. Offset(WritePos + loc[c].pad) + loc[c].len <= DataSize
  BY <1>2, <1>3, <1>4, Sizes DEF PlanOK
<1> QED
  BY <1>1, <1>2, <1>3, <1>5, <1>6 DEF CallPlanned, PlanOK

(* What a producer stores: nothing, or bytes from the write position on,   *)
(* on one side of the end, in space that was free when it was reserved.    *)
LEMMA StoresAhead ==
  ASSUME SafeInv, Positions, NEW c \in Cpus, Producer(c)
  PROVE  \/ mem' = mem
         \/ \E w \in Nat, from \in Nat, to \in Nat, r \in Rec :
              /\ pc[c] \in {"pad", "header", "body"}
              /\ WritePos <= w /\ Offset(w) + to <= DataSize
              /\ w + to - readPos <= DataSize
              /\ mem' = Store(Offset(w), r, from, to)
<1>0. WritePos \in Nat /\ readPos \in Nat /\ loc \in [Cpus -> LocType] /\ loc[c] \in LocType
      /\ NextSequence \in Nat
  BY DEF SafeInv, TypeOK
<1>1. CASE WritePad(c)
  <2> DEFINE l == [loc[c] EXCEPT !.seq = NextSequence + 1]
  <2>1. pc[c] = "pad" /\ mem' = Store(Offset(l.wp), PadRec(l), 0, HdrSize)
    BY <1>1 DEF WritePad
  <2>2. l \in LocType /\ l.wp = loc[c].wp
    BY <1>0, LocSeqType DEF LocType
  <2>3. PadRec(l) \in Rec
    BY <2>2 DEF LocType, PadRec, Rec, RecTypes
  <2> HIDE DEF l
  <2>4. pc[c] \in Storing
    BY <2>1 DEF Storing
  <2>5. WritePos + loc[c].pad + loc[c].len - readPos <= DataSize
    BY <2>4 DEF Positions
  <2>6. /\ l.wp = WritePos /\ Offset(WritePos) + HdrSize <= DataSize
        /\ WritePos + HdrSize - readPos <= DataSize
    <3>1. Offset(WritePos) \in Nat
      BY <1>0, OffsetFacts
    <3> QED
      BY <1>0, <2>1, <2>2, <2>4, <2>5, <3>1, CallFacts, Sizes
  <2> QED
    BY <1>0, <2>1, <2>3, <2>6, Sizes
<1>2. CASE WriteHeader(c)
  <2> DEFINE l == [loc[c] EXCEPT !.seq = NextSequence + 1]
  <2>1. pc[c] = "header" /\ mem' = Store(Offset(l.wp), MainRec(l), 0, HdrSize)
    BY <1>2 DEF WriteHeader
  <2>2. l \in LocType /\ l.wp = loc[c].wp
    BY <1>0, LocSeqType DEF LocType
  <2>3. MainRec(l) \in Rec
    BY <2>2 DEF LocType, MainRec, Rec, RecTypes
  <2> HIDE DEF l
  <2>4. pc[c] \in Storing
    BY <2>1 DEF Storing
  <2>5. WritePos + loc[c].pad + loc[c].len - readPos <= DataSize
    BY <2>4 DEF Positions
  <2>6. /\ l.wp = WritePos + loc[c].pad /\ l.wp \in Nat /\ WritePos <= l.wp
        /\ Offset(l.wp) + HdrSize <= DataSize
        /\ l.wp + HdrSize - readPos <= DataSize
    <3>1. Offset(WritePos + loc[c].pad) \in Nat
      BY <1>0, OffsetFacts DEF LocType
    <3> QED
      BY <1>0, <2>1, <2>2, <2>4, <2>5, <3>1, CallFacts, Sizes
  <2> QED
    BY <1>0, <2>1, <2>3, <2>6, Sizes
<1>3. CASE WriteBody(c)
  <2>1. pc[c] = "body" /\ mem' = Store(Offset(loc[c].wp), MainRec(loc[c]), HdrSize, loc[c].len)
    BY <1>3 DEF WriteBody
  <2>3. MainRec(loc[c]) \in Rec
    BY <1>0 DEF LocType, MainRec, Rec, RecTypes
  <2>4. pc[c] \in Storing
    BY <2>1 DEF Storing
  <2>5. WritePos + loc[c].pad + loc[c].len - readPos <= DataSize
    BY <2>4 DEF Positions
  <2>6. /\ loc[c].wp = WritePos + loc[c].pad /\ loc[c].wp \in Nat /\ WritePos <= loc[c].wp
        /\ Offset(loc[c].wp) + loc[c].len <= DataSize /\ loc[c].len \in Nat
        /\ loc[c].wp + loc[c].len - readPos <= DataSize
    BY <1>0, <2>1, <2>4, <2>5, CallFacts, Sizes
  <2> QED
    BY <1>0, <2>1, <2>3, <2>6, Sizes
<1>4. CASE ~ (WritePad(c) \/ WriteHeader(c) \/ WriteBody(c))
  BY <1>4 DEF Producer, Proceed, RejectOversize, Enter, DropInconsistent, DropFull, Reserve,
              Publish, Account
<1> QED
  BY <1>1, <1>2, <1>3, <1>4

(* Hence the bytes between the shared positions are left alone.            *)
LEMMA UnreadKept ==
  ASSUME SafeInv, Positions, NEW c \in Cpus, Producer(c),
         NEW p \in Nat, readPos <= p, p < WritePos
  PROVE  mem'[Offset(p)] = mem[Offset(p)]
<1>0. WritePos \in Nat /\ readPos \in Nat
  BY DEF SafeInv, TypeOK
<1>1. ASSUME NEW w \in Nat, NEW from \in Nat, NEW to \in Nat, NEW r \in Rec,
             WritePos <= w, Offset(w) + to <= DataSize, w + to - readPos <= DataSize,
             mem' = Store(Offset(w), r, from, to)
      PROVE  mem'[Offset(p)] = mem[Offset(p)]
  <2>1. p < w + from /\ w + to - p <= DataSize
    BY <1>0, <1>1, Sizes
  <2> QED
    BY <1>1, <2>1, StoreMisses
<1> QED
  BY <1>1, StoresAhead
-----------------------------------------------------------------------------
(* What the steps change.                                                  *)

(* A producer moves only its own call, and nothing of the consumer's.      *)
LEMMA ProducerFrame ==
  ASSUME TypeOK, NEW c \in Cpus, Producer(c)
  PROVE  /\ UNCHANGED <<readPos, apc, pollWp, pollRp, hdr, inbox, cursor, committed>>
         /\ \A d \in Cpus : d # c => pc'[d] = pc[d] /\ loc'[d] = loc[d]
<1>0. pc \in [Cpus -> {"idle", "lock"} \cup Busy] /\ loc \in [Cpus -> LocType]
  BY DEF TypeOK
<1>1. UNCHANGED readPos /\ UNCHANGED appVars
  BY DEF Producer, Proceed, RejectOversize, Enter, DropInconsistent, DropFull, Reserve,
         WritePad, WriteHeader, WriteBody, Publish, Account
<1>2. /\ pc' = pc \/ \E x : pc' = [pc EXCEPT ![c] = x]
      /\ loc' = loc \/ \E x : loc' = [loc EXCEPT ![c] = x]
  BY DEF Producer, Proceed, RejectOversize, Enter, DropInconsistent, DropFull, Reserve,
         WritePad, WriteHeader, WriteBody, Publish, Account, kernelVars
<1> QED
  BY <1>0, <1>1, <1>2 DEF appVars

(* Only Publish moves the write position and accepts a record.             *)
LEMMA NoPublishFrame ==
  ASSUME NEW c \in Cpus, Producer(c), ~ Publish(c)
  PROVE  UNCHANGED <<WritePos, writePos, log>>
BY DEF Producer, Proceed, RejectOversize, Enter, DropInconsistent, DropFull, Reserve,
       WritePad, WriteHeader, WriteBody, Account, kernelVars

(* What Publish does to the call and the positions.                        *)
LEMMA PublishMoves ==
  ASSUME SafeInv, NEW c \in Cpus, Publish(c)
  PROVE  /\ pc[c] = "publish" /\ pc[c] \in Storing
         /\ pc'[c] = "account" /\ loc' = loc
         /\ WritePos' = WritePos + loc[c].pad + loc[c].len /\ writePos' = WritePos'
         /\ lock' = lock /\ NextSequence' = NextSequence /\ mem' = mem
         /\ UNCHANGED statVars
<1>1. pc[c] = "publish" /\ pc[c] \in Storing
  BY DEF Publish, Storing
<1>2. WritePos' = WritePos + loc[c].pad + loc[c].len /\ writePos' = WritePos'
  BY <1>1, CallFacts DEF Publish
<1>3. pc'[c] = "account"
  BY DEF Publish, SafeInv, TypeOK
<1> QED
  BY <1>1, <1>2, <1>3 DEF Publish

(* ... and to the accepted records.                                        *)
LEMMA PublishAccepts ==
  ASSUME SafeInv, NEW c \in Cpus, Publish(c)
  PROVE  /\ Len(log) \in Nat /\ DOMAIN log = 1 .. Len(log)
         /\ Len(log') = Len(log) + 1 /\ DOMAIN log' = 1 .. Len(log) + 1
         /\ \A i \in DOMAIN log : log'[i] = log[i]
         /\ log'[Len(log) + 1].pos = WritePos
         /\ log'[Len(log) + 1].pad = loc[c].pad
         /\ log'[Len(log) + 1].rec = MainRec(loc[c])
         /\ MainRec(loc[c]).len = loc[c].len
         /\ MainRec(loc[c]).type # "WRAP"
         /\ MainRec(loc[c]).seq = loc[c].seq
         /\ MainRec(loc[c]).ts = loc[c].ts
<1> DEFINE e == [pos |-> WritePos, pad |-> loc[c].pad, rec |-> MainRec(loc[c])]
<1>3. log' = Append(log, e) /\ log \in Seq(Entry)
  BY DEF Publish, SafeInv, TypeOK
<1>4. loc[c] \in LocType /\ WritePos \in Nat
  BY DEF SafeInv, TypeOK
<1>5. MainRec(loc[c]) \in Rec
  BY <1>4 DEF LocType, MainRec, Rec, RecTypes
<1>6. e \in Entry
  BY <1>4, <1>5 DEF Entry, LocType
<1>e. e.pos = WritePos /\ e.pad = loc[c].pad /\ e.rec = MainRec(loc[c])
  OBVIOUS
<1> HIDE DEF e
<1>7. /\ Len(log) \in Nat /\ DOMAIN log = 1 .. Len(log)
      /\ Len(log') = Len(log) + 1 /\ DOMAIN log' = 1 .. Len(log) + 1
      /\ \A i \in DOMAIN log : log'[i] = log[i]
      /\ log'[Len(log) + 1] = e
  BY <1>3, <1>6
<1>9. /\ MainRec(loc[c]).type # "WRAP" /\ MainRec(loc[c]).len = loc[c].len
      /\ MainRec(loc[c]).seq = loc[c].seq /\ MainRec(loc[c]).ts = loc[c].ts
  BY <1>4 DEF LocType, AppTypes, MainRec
<1> QED
  BY <1>7, <1>e, <1>9

(* A call that stores keeps its reservation.                               *)
LEMMA StoringKeeps ==
  ASSUME TypeOK, NEW c \in Cpus, WritePad(c) \/ WriteHeader(c) \/ WriteBody(c)
  PROVE  /\ loc'[c].pad = loc[c].pad /\ loc'[c].len = loc[c].len
         /\ loc'[c].type = loc[c].type /\ loc'[c].n = loc[c].n /\ loc'[c].ts = loc[c].ts
<1>0. loc \in [Cpus -> LocType] /\ loc[c] \in LocType
  BY DEF TypeOK
<1>1. CASE WritePad(c)
  BY <1>0, <1>1 DEF WritePad, LocType
<1>2. CASE WriteHeader(c)
  BY <1>0, <1>2 DEF WriteHeader, LocType
<1>3. CASE WriteBody(c)
  BY <1>0, <1>3 DEF WriteBody, LocType
<1> QED
  BY <1>1, <1>2, <1>3

(* Records keep their place when another is accepted behind them.          *)
LEMMA StartsKept ==
  ASSUME SafeInv, NEW c \in Cpus, Publish(c), NEW i \in Nat, 1 <= i, i <= Len(log) + 1
  PROVE  (IF i <= Len(log') THEN log'[i].pos ELSE WritePos') = StartOf(i)
<1>1. /\ Len(log) \in Nat /\ DOMAIN log = 1 .. Len(log) /\ Len(log') = Len(log) + 1
      /\ \A j \in DOMAIN log : log'[j] = log[j]
      /\ log'[Len(log) + 1].pos = WritePos
  BY PublishAccepts
<1>2. CASE i <= Len(log)
  BY <1>1, <1>2 DEF StartOf
<1>3. CASE i = Len(log) + 1
  BY <1>1, <1>3 DEF StartOf
<1> QED
  BY <1>1, <1>2, <1>3

-----------------------------------------------------------------------------
(* Producers preserve the layout.                                          *)

(* Lengths, pads and positions stay multiples of KND_RECORD_ALIGN, the     *)
(* tail a record absorbs included.                                         *)
LEMMA AlignedStep ==
  ASSUME SafeInv, Aligned, NEW c \in Cpus, Producer(c)
  PROVE  Aligned'
<1>0. /\ TypeOK /\ pc \in [Cpus -> {"idle", "lock"} \cup Busy] /\ loc \in [Cpus -> LocType]
      /\ loc[c] \in LocType /\ WritePos \in Nat /\ WritePos % Align = 0
  BY DEF SafeInv, TypeOK, Aligned
<1>a. ASSUME UNCHANGED <<WritePos, log>>,
             pc'[c] \in {"lock"} \cup Storing =>
               loc'[c].len % Align = 0 /\ loc'[c].pad % Align = 0
      PROVE  Aligned'
  <2>1. ASSUME NEW d \in Cpus, pc'[d] \in {"lock"} \cup Storing
        PROVE  loc'[d].len % Align = 0 /\ loc'[d].pad % Align = 0
    BY <1>0, <1>a, <2>1, ProducerFrame DEF Aligned
  <2> QED
    BY <1>a, <2>1 DEF Aligned
<1>1. CASE \E q \in Requests : RejectOversize(c, q)
  BY <1>1 DEF RejectOversize, kernelVars, Aligned
<1>2. ASSUME NEW q \in Requests, Enter(c, q) PROVE Aligned'
  <2>1. q.n \in Nat /\ 0 % Align = 0
    BY RingAssumption, Sizes, MultipleAligned
  <2>2. RecLen(q.n) % Align = 0
    BY <2>1, RecLenFacts
  <2>3. loc'[c].len = RecLen(q.n) /\ loc'[c].pad = 0
    BY <1>0, <1>2 DEF Enter, NoLoc
  <2>4. UNCHANGED <<WritePos, log>>
    BY <1>2 DEF Enter
  <2> QED
    BY <1>a, <2>1, <2>2, <2>3, <2>4
<1>3. CASE DropInconsistent(c) \/ DropFull(c) \/ Account(c)
  <2>1. UNCHANGED <<WritePos, log>> /\ pc'[c] = "idle"
    BY <1>0, <1>3 DEF DropInconsistent, DropFull, Account
  <2> QED
    BY <1>a, <2>1 DEF Storing
<1>4. CASE Reserve(c)
  <2>1. loc[c].len \in Nat /\ loc[c].len % Align = 0
    BY <1>0, <1>4 DEF Reserve, Aligned, LocType
  <2>2. PadLen(WritePos, loc[c].len) % Align = 0 /\ FinalLen(WritePos, loc[c].len) % Align = 0
    BY <1>0, <2>1, LayoutAligned
  <2>3. loc'[c].pad = PadLen(WritePos, loc[c].len) /\ loc'[c].len = FinalLen(WritePos, loc[c].len)
    BY <1>0, <1>4 DEF Reserve, LocType
  <2>4. UNCHANGED <<WritePos, log>>
    BY <1>4 DEF Reserve
  <2> QED
    BY <1>a, <2>2, <2>3, <2>4
<1>5. CASE WritePad(c) \/ WriteHeader(c) \/ WriteBody(c)
  <2>1. UNCHANGED <<WritePos, log>> /\ pc[c] \in Storing
    BY <1>5 DEF WritePad, WriteHeader, WriteBody, Storing
  <2>2. loc'[c].pad = loc[c].pad /\ loc'[c].len = loc[c].len
    BY <1>0, <1>5, StoringKeeps
  <2> QED
    BY <1>a, <2>1, <2>2 DEF Aligned
<1>6. CASE Publish(c)
  <2>1. pc[c] \in Storing /\ loc[c].pad \in Nat /\ loc[c].len \in Nat
    BY <1>6, PublishMoves, CallFacts
  <2>2. loc[c].len % Align = 0 /\ loc[c].pad % Align = 0
    BY <2>1 DEF Aligned
  <2>3. (WritePos + loc[c].pad) % Align = 0 /\ WritePos + loc[c].pad \in Nat
    BY <1>0, <2>1, <2>2, AlignedSum, Sizes
  <2>4. ((WritePos + loc[c].pad) + loc[c].len) % Align = 0
    BY <2>1, <2>2, <2>3, AlignedSum, Sizes
  <2>5. WritePos' % Align = 0
    BY <1>6, <2>4, PublishMoves
  <2>6. ASSUME NEW i \in DOMAIN log' PROVE log'[i].pad % Align = 0 /\ log'[i].rec.len % Align = 0
    <3>0. /\ Len(log) \in Nat /\ DOMAIN log = 1 .. Len(log)
          /\ DOMAIN log' = 1 .. Len(log) + 1
          /\ \A j \in DOMAIN log : log'[j] = log[j]
          /\ log'[Len(log) + 1].pad = loc[c].pad
          /\ log'[Len(log) + 1].rec.len = loc[c].len
      BY <1>6, PublishAccepts
    <3>1. CASE i \in DOMAIN log
      BY <3>0, <3>1 DEF Aligned
    <3>2. CASE i = Len(log) + 1
      BY <2>2, <3>0, <3>2
    <3> QED
      BY <2>6, <3>0, <3>1, <3>2
  <2>7. ASSUME NEW d \in Cpus, pc'[d] \in {"lock"} \cup Storing
        PROVE  loc'[d].len % Align = 0 /\ loc'[d].pad % Align = 0
    <3>1. d # c
      BY <1>6, <2>7, PublishMoves DEF Storing
    <3>2. pc'[d] = pc[d] /\ loc'[d] = loc[d]
      BY <1>0, <3>1, ProducerFrame
    <3> QED
      BY <2>7, <3>2 DEF Aligned
  <2> QED
    BY <2>5, <2>6, <2>7 DEF Aligned
<1> QED
  BY <1>1, <1>2, <1>3, <1>4, <1>5, <1>6 DEF Producer, Proceed

(* A published record starts where the last one ended and crosses the end  *)
(* of the ring neither itself nor with its pad.                            *)
LEMMA TilesStep ==
  ASSUME SafeInv, LogTiles, NEW c \in Cpus, Producer(c)
  PROVE  LogTiles'
<1>0. TypeOK /\ WritePos \in Nat /\ Len(log) \in Nat /\ DOMAIN log = 1 .. Len(log)
  BY LogFacts DEF SafeInv, TypeOK
<1>1. CASE ~ Publish(c)
  <2>1. UNCHANGED <<WritePos, log>>
    BY <1>1, NoPublishFrame
  <2> QED
    BY <2>1 DEF LogTiles, StartOf, EntryOK, EndOf, Offset
<1>2. CASE Publish(c)
  <2> DEFINE n == Len(log) + 1
             e == log'[n]
  <2>1. /\ e.pos = WritePos /\ e.pad = loc[c].pad /\ e.rec.len = loc[c].len
        /\ e.rec.type # "WRAP" /\ WritePos' = WritePos + loc[c].pad + loc[c].len
    BY <1>2, PublishAccepts, PublishMoves
  <2>2. /\ loc[c].pad \in Nat /\ loc[c].len \in Nat /\ HdrSize <= loc[c].len
        /\ loc[c].pad # 0 => HdrSize <= loc[c].pad /\ Offset(WritePos) + loc[c].pad = DataSize
        /\ Offset(WritePos + loc[c].pad) + loc[c].len <= DataSize
    BY <1>2, PublishMoves, CallFacts
  <2>3. EntryOK(e) /\ EndOf(e) = WritePos' /\ WritePos <= WritePos' /\ WritePos' \in Nat
    BY <1>0, <2>1, <2>2 DEF EntryOK, EndOf
  <2>4. DOMAIN log' = 1 .. n /\ Len(log') = n /\ \A i \in DOMAIN log : log'[i] = log[i]
    BY <1>2, PublishAccepts
  <2> HIDE DEF e
  <2>5. ASSUME NEW i \in DOMAIN log
        PROVE  /\ EntryOK(log'[i]) /\ EndOf(log'[i]) <= WritePos'
               /\ EndOf(log'[i]) = StartOf(i + 1)
               /\ EndOf(log'[i]) <= e.pos
    <3>1. EndOf(log[i]) \in Nat /\ log'[i] = log[i]
      BY <1>0, <2>4, EntryTypes
    <3> QED
      BY <1>0, <2>1, <2>3, <3>1 DEF LogTiles
  <2>6. StartOf(1)' = 0
    <3>1. (IF 1 <= Len(log') THEN log'[1].pos ELSE WritePos') = StartOf(1)
      BY <1>0, <1>2, StartsKept
    <3> QED
      BY <3>1 DEF LogTiles, StartOf
  <2>7. ASSUME NEW i \in DOMAIN log'
        PROVE  /\ EntryOK(log'[i]) /\ EndOf(log'[i]) <= WritePos'
               /\ EndOf(log'[i]) = IF i + 1 <= Len(log') THEN log'[i + 1].pos ELSE WritePos'
    <3>1. CASE i \in DOMAIN log
      <4>1. i + 1 \in Nat /\ 1 <= i + 1 /\ i + 1 <= Len(log) + 1
        BY <1>0, <3>1
      <4>2. (IF i + 1 <= Len(log') THEN log'[i + 1].pos ELSE WritePos') = StartOf(i + 1)
        BY <1>2, <4>1, StartsKept
      <4> QED
        BY <2>5, <3>1, <4>2
    <3>2. CASE i = n
      BY <1>0, <2>3, <2>4, <3>2 DEF e
    <3> QED
      BY <1>0, <2>4, <2>7, <3>1, <3>2
  <2>8. ASSUME NEW i \in DOMAIN log', NEW j \in DOMAIN log', i < j
        PROVE  EndOf(log'[i]) <= log'[j].pos
    <3>1. i \in DOMAIN log
      BY <1>0, <2>4, <2>8
    <3>2. CASE j \in DOMAIN log
      BY <2>4, <2>8, <3>1, <3>2 DEF LogTiles
    <3>3. CASE j = n
      BY <2>5, <3>1, <3>3 DEF e
    <3> QED
      BY <1>0, <2>4, <2>8, <3>2, <3>3
  <2> QED
    BY <2>6, <2>7, <2>8 DEF LogTiles, StartOf, EntryOK, EndOf, Offset
<1> QED
  BY <1>1, <1>2
(* The shared positions stay within a lap of each other, the room a call   *)
(* has reserved included.                                                  *)
LEMMA PositionsStep ==
  ASSUME SafeInv, Positions, NEW c \in Cpus, Producer(c)
  PROVE  Positions'
<1>0. /\ TypeOK /\ LockHeld /\ pc \in [Cpus -> {"idle", "lock"} \cup Busy]
      /\ loc \in [Cpus -> LocType] /\ loc[c] \in LocType
      /\ WritePos \in Nat /\ readPos \in Nat
      /\ writePos = WritePos /\ readPos <= WritePos /\ WritePos - readPos <= DataSize
  BY DEF SafeInv, TypeOK, Positions
<1>1. readPos' = readPos /\ \A d \in Cpus : d # c => pc'[d] = pc[d] /\ loc'[d] = loc[d]
  BY <1>0, ProducerFrame
<1>a. ASSUME UNCHANGED <<WritePos, writePos>>,
             pc'[c] \in Storing => WritePos + loc'[c].pad + loc'[c].len - readPos <= DataSize
      PROVE  Positions'
  <2>1. ASSUME NEW d \in Cpus, pc'[d] \in Storing
        PROVE  WritePos + loc'[d].pad + loc'[d].len - readPos <= DataSize
    BY <1>1, <1>a, <2>1 DEF Positions
  <2> QED
    BY <1>0, <1>1, <1>a, <2>1 DEF Positions
<1>2. CASE \/ \E q \in Requests : RejectOversize(c, q) \/ Enter(c, q)
           \/ DropInconsistent(c) \/ DropFull(c) \/ Account(c)
  <2>1. UNCHANGED <<WritePos, writePos>> /\ pc'[c] \notin Storing
    BY <1>0, <1>2 DEF RejectOversize, Enter, DropInconsistent, DropFull, Account, kernelVars,
                      Storing
  <2> QED
    BY <1>a, <2>1
<1>3. CASE Reserve(c)
  <2>1. loc[c].len \in Nat
    BY <1>0 DEF LocType
  <2>2. PadLen(WritePos, loc[c].len) \in Nat /\ FinalLen(WritePos, loc[c].len) \in Nat
    BY <1>0, <2>1, LayoutTypes
  <2>3. loc'[c].pad = PadLen(WritePos, loc[c].len) /\ loc'[c].len = FinalLen(WritePos, loc[c].len)
    BY <1>0, <1>3 DEF Reserve, LocType
  <2>4. Avail(WritePos, readPos) >= Total(WritePos, loc[c].len) /\ UNCHANGED <<WritePos, writePos>>
    BY <1>3 DEF Reserve
  <2>5. DataSize - (WritePos - readPos) >= loc'[c].pad + loc'[c].len
    BY <2>3, <2>4 DEF Avail, Total
  <2>6. loc'[c].pad \in Nat /\ loc'[c].len \in Nat
    BY <2>2, <2>3
  <2>7. WritePos + loc'[c].pad + loc'[c].len - readPos <= DataSize
    BY <1>0, <2>5, <2>6, Sizes
  <2> QED
    BY <1>a, <2>4, <2>7
<1>4. CASE WritePad(c) \/ WriteHeader(c) \/ WriteBody(c)
  <2>1. UNCHANGED <<WritePos, writePos>> /\ pc[c] \in Storing
    BY <1>4 DEF WritePad, WriteHeader, WriteBody, Storing
  <2>2. loc'[c].pad = loc[c].pad /\ loc'[c].len = loc[c].len
    BY <1>0, <1>4, StoringKeeps
  <2> QED
    BY <1>a, <2>1, <2>2 DEF Positions
<1>5. CASE Publish(c)
  <2>1. /\ pc[c] \in Storing /\ WritePos' = WritePos + loc[c].pad + loc[c].len
        /\ writePos' = WritePos' /\ pc'[c] = "account"
        /\ loc[c].pad \in Nat /\ loc[c].len \in Nat
    BY <1>5, PublishMoves, CallFacts
  <2>2. WritePos' - readPos <= DataSize /\ readPos <= WritePos'
    BY <1>0, <2>1 DEF Positions
  <2>3. ASSUME NEW d \in Cpus PROVE pc'[d] \notin Storing
    <3>1. CASE d = c
      BY <2>1, <3>1 DEF Storing
    <3>2. CASE d # c
      <4>1. pc[d] \notin Busy /\ pc'[d] = pc[d]
        BY <1>0, <1>1, <2>1, <3>2, OneInside DEF Storing, Busy
      <4> QED
        BY <4>1 DEF Storing, Busy
    <3> QED
      BY <3>1, <3>2
  <2> QED
    BY <1>1, <2>1, <2>2, <2>3 DEF Positions
<1> QED
  BY <1>2, <1>3, <1>4, <1>5 DEF Producer, Proceed

(* The consumer's place, while records are accepted behind it.             *)
LEMMA ReaderKept ==
  ASSUME SafeInv, LogTiles, ReaderPlace, NEW c \in Cpus, Producer(c)
  PROVE  ReaderPlace'
<1>0. /\ TypeOK /\ Len(log) \in Nat /\ DOMAIN log = 1 .. Len(log)
      /\ committed \in Nat /\ cursor \in Nat /\ WritePos \in Nat
      /\ pollWp \in Nat /\ pollRp \in Nat
  BY LogFacts DEF SafeInv, TypeOK
<1>1. UNCHANGED <<readPos, apc, pollWp, pollRp, hdr, inbox, cursor, committed>>
  BY <1>0, ProducerFrame
<1>2. CASE ~ Publish(c)
  <2>1. UNCHANGED <<WritePos, log>>
    BY <1>2, NoPublishFrame
  <2> QED
    BY <1>1, <2>1 DEF ReaderPlace, StartOf, PadOf
<1>3. CASE Publish(c)
  <2>1. /\ Len(log') = Len(log) + 1 /\ \A i \in DOMAIN log : log'[i] = log[i]
        /\ WritePos' = WritePos + loc[c].pad + loc[c].len
        /\ loc[c].pad \in Nat /\ loc[c].len \in Nat
    BY <1>3, PublishAccepts, PublishMoves, CallFacts
  <2>b. PICK a \in Nat, b \in Nat : WritePos' = WritePos + a + b
    BY <2>1
  <2>c. WritePos \in Nat /\ pollWp \in Nat
    BY <1>0
  <2>d. WritePos' \in Nat /\ WritePos <= WritePos'
    BY <2>b, <2>c
  <2>2. committed <= cursor /\ cursor <= Len(log) /\ readPos = StartOf(committed + 1)
    BY DEF ReaderPlace
  <2>3. ASSUME NEW m \in Nat, m <= Len(log)
        PROVE  (IF m + 1 <= Len(log') THEN log'[m + 1].pos ELSE WritePos') = StartOf(m + 1)
    BY <1>0, <1>3, <2>3, StartsKept
  <2>a. /\ (IF committed + 1 <= Len(log') THEN log'[committed + 1].pos ELSE WritePos')
             = StartOf(committed + 1)
        /\ (IF cursor + 1 <= Len(log') THEN log'[cursor + 1].pos ELSE WritePos')
             = StartOf(cursor + 1)
    <3>1. committed <= Len(log) /\ cursor <= Len(log)
      BY <1>0, <2>2
    <3> QED
      BY <1>0, <2>3, <3>1
  <2>4. readPos = IF committed + 1 <= Len(log') THEN log'[committed + 1].pos ELSE WritePos'
    BY <2>2, <2>a
  <2>5. ASSUME apc # "idle"
        PROVE  /\ readPos <= pollRp /\ pollRp <= pollWp /\ pollWp <= WritePos'
               /\ \E m \in cursor .. Len(log') :
                     pollWp = IF m + 1 <= Len(log') THEN log'[m + 1].pos ELSE WritePos'
               /\ \/ pollRp = IF cursor + 1 <= Len(log') THEN log'[cursor + 1].pos ELSE WritePos'
                  \/ /\ cursor < Len(log') /\ log'[cursor + 1].pad # 0
                     /\ pollRp = log'[cursor + 1].pos + log'[cursor + 1].pad
                     /\ pollRp < pollWp
    <3>1. readPos <= pollRp /\ pollRp <= pollWp /\ pollWp <= WritePos
      BY <2>5 DEF ReaderPlace
    <3>2. PICK m \in cursor .. Len(log) : pollWp = StartOf(m + 1)
      BY <2>5 DEF ReaderPlace
    <3>a. pollWp <= WritePos'
      BY <2>c, <2>d, <3>1
    <3>3. /\ m \in cursor .. Len(log')
          /\ pollWp = IF m + 1 <= Len(log') THEN log'[m + 1].pos ELSE WritePos'
      BY <1>0, <2>1, <2>3, <3>2
    <3>4. CASE pollRp = StartOf(cursor + 1)
      <4>1. pollRp = IF cursor + 1 <= Len(log') THEN log'[cursor + 1].pos ELSE WritePos'
        BY <2>a, <3>4
      <4> QED
        BY <3>1, <3>3, <3>a, <4>1
    <3>5. CASE pollRp # StartOf(cursor + 1)
      <4>1. /\ cursor < Len(log) /\ log[cursor + 1].pad # 0
            /\ pollRp = log[cursor + 1].pos + log[cursor + 1].pad
            /\ pollRp < pollWp
        BY <2>5, <3>5 DEF ReaderPlace
      <4>2. cursor + 1 \in DOMAIN log
        BY <1>0, <4>1
      <4>3. log'[cursor + 1] = log[cursor + 1]
        BY <2>1, <4>2
      <4>4. cursor < Len(log')
        BY <1>0, <2>1, <4>1
      <4> QED
        BY <3>1, <3>3, <3>a, <4>1, <4>3, <4>4
    <3> QED
      BY <3>4, <3>5
  <2>6. ASSUME apc = "record" PROVE log'[cursor + 1] = log[cursor + 1]
    <3>1. pollRp < pollWp /\ apc # "idle"
      BY <2>6 DEF ReaderPlace
    <3>2. PICK m \in cursor .. Len(log) : pollWp = StartOf(m + 1)
      BY <3>1 DEF ReaderPlace
    <3>3. pollRp = StartOf(cursor + 1) \/ cursor < Len(log)
      BY <3>1 DEF ReaderPlace
    <3>4. cursor < Len(log)
      BY <1>0, <3>1, <3>2, <3>3
    <3> QED
      BY <1>0, <2>1, <3>4
  <2>7. /\ committed' <= cursor' /\ cursor' <= Len(log')
        /\ apc' = "idle" => cursor' = committed'
    BY <1>0, <1>1, <2>1, <2>2 DEF ReaderPlace
  <2>8. StartOf(committed + 1)' =
          IF committed + 1 <= Len(log') THEN log'[committed + 1].pos ELSE WritePos'
    BY <1>1 DEF StartOf
  <2>9. ASSUME apc' # "idle"
        PROVE  (/\ readPos <= pollRp /\ pollRp <= pollWp /\ pollWp <= WritePos
                /\ \E m \in cursor .. Len(log) : pollWp = StartOf(m + 1)
                /\ \/ pollRp = StartOf(cursor + 1)
                   \/ /\ cursor < Len(log) /\ log[cursor + 1].pad # 0
                      /\ pollRp = log[cursor + 1].pos + log[cursor + 1].pad
                      /\ pollRp < pollWp)'
    BY <1>1, <2>5, <2>9 DEF StartOf
  <2>10. ASSUME apc' = "record"
         PROVE  (/\ pollRp < pollWp
                 /\ \/ /\ pollRp = log[cursor + 1].pos + log[cursor + 1].pad
                       /\ hdr = log[cursor + 1].rec
                    \/ /\ log[cursor + 1].pad # 0
                       /\ pollRp = log[cursor + 1].pos
                       /\ hdr = PadOf(log[cursor + 1]))'
    BY <1>1, <2>6, <2>10 DEF ReaderPlace, PadOf
  <2> QED
    BY <1>1, <2>4, <2>7, <2>8, <2>9, <2>10 DEF ReaderPlace
<1> QED
  BY <1>2, <1>3

(* What was received stays what was accepted.                              *)
LEMMA InboxKept ==
  ASSUME SafeInv, InboxFaithful, NEW c \in Cpus, Producer(c)
  PROVE  InboxFaithful'
<1>0. /\ TypeOK /\ Len(log) \in Nat /\ DOMAIN log = 1 .. Len(log)
      /\ cursor \in Nat /\ inbox \in Seq(Rec)
  BY LogFacts DEF SafeInv, TypeOK
<1>1. cursor' = cursor /\ inbox' = inbox
  BY <1>0, ProducerFrame
<1>2. CASE ~ Publish(c)
  <2>1. log' = log
    BY <1>2, NoPublishFrame
  <2> QED
    BY <1>1, <2>1 DEF InboxFaithful
<1>3. CASE Publish(c)
  <2>1. Len(log') = Len(log) + 1 /\ \A i \in DOMAIN log : log'[i] = log[i]
    BY <1>3, PublishAccepts
  <2>2. ASSUME NEW i \in DOMAIN inbox PROVE cursor - Len(inbox) + i \in DOMAIN log
    BY <1>0 DEF InboxFaithful
  <2> QED
    BY <1>0, <1>1, <2>1, <2>2 DEF InboxFaithful
<1> QED
  BY <1>2, <1>3
-----------------------------------------------------------------------------
(* Producers preserve the bytes.                                           *)

(* What the call on CPU c has stored so far.                               *)
LEMMA StoredFacts ==
  ASSUME StoredSoFar, NEW c \in Cpus
  PROVE  /\ pc[c] = "header" /\ loc[c].pad # 0 =>
              StoredHeader(Offset(WritePos), [PadRec(loc[c]) EXCEPT !.seq = loc[c].seq])
         /\ pc[c] \in {"body", "publish"} /\ loc[c].pad # 0 =>
              StoredHeader(Offset(WritePos), [PadRec(loc[c]) EXCEPT !.seq = loc[c].seq - 1])
         /\ pc[c] = "body" => StoredHeader(Offset(WritePos + loc[c].pad), MainRec(loc[c]))
         /\ pc[c] = "publish" => IntactAt(Offset(WritePos + loc[c].pad), MainRec(loc[c]))
BY DEF StoredSoFar

(* A pad's header at wp, and behind it a record at s of which the first    *)
(* `to' bytes are stored, both within a lap.                               *)
BehindPad(wp, s, to) ==
  /\ wp + HdrSize <= s /\ Offset(wp) + HdrSize <= DataSize
  /\ Offset(s) + to <= DataSize /\ s + to - wp <= DataSize

(* The memory m holds the header r at off.                                 *)
HoldsHeader(m, off, r) == \A k \in 0 .. HdrSize - 1 : m[off + k] = [rec |-> r, k |-> k]

(* A pad's header survives the stores behind it.                           *)
LEMMA PadHeaderKept ==
  ASSUME NEW wp \in Nat, NEW s \in Nat, NEW from \in Nat, NEW to \in Nat, NEW r, NEW rr,
         BehindPad(wp, s, to), StoredHeader(Offset(wp), r)
  PROVE  HoldsHeader(Store(Offset(s), rr, from, to), Offset(wp), r)
<1> DEFINE m == Store(Offset(s), rr, from, to)
<1>a. /\ wp + HdrSize <= s /\ Offset(wp) + HdrSize <= DataSize
      /\ Offset(s) + to <= DataSize /\ s + to - wp <= DataSize
  BY DEF BehindPad
<1> SUFFICES ASSUME NEW k \in 0 .. HdrSize - 1
             PROVE  m[Offset(wp) + k] = mem[Offset(wp) + k]
  BY DEF StoredHeader, HoldsHeader
<1>0. k \in Nat /\ k < HdrSize /\ Offset(wp) \in Nat
  BY Sizes, OffsetFacts
<1>1. Offset(wp + k) = Offset(wp) + k
  BY <1>0, <1>a, OffsetAdvance, Sizes
<1>2. wp + k \in Nat /\ wp + k < s + from /\ s + to - (wp + k) <= DataSize
  BY <1>0, <1>a, Sizes
<1>3. Store(Offset(s), rr, from, to)[Offset(wp + k)] = mem[Offset(wp + k)]
  BY <1>2, <1>a, StoreMisses
<1> QED
  BY <1>1, <1>3

(* The bytes of the call under way, after a step of its CPU.               *)
LEMMA StoredStep ==
  ASSUME SafeInv, Numbering, StoredSoFar, NEW c \in Cpus, Producer(c)
  PROVE  StoredSoFar'
<1>0. /\ TypeOK /\ LockHeld /\ pc \in [Cpus -> {"idle", "lock"} \cup Busy]
      /\ loc \in [Cpus -> LocType] /\ loc[c] \in LocType /\ WritePos \in Nat
      /\ NextSequence \in Nat
  BY DEF SafeInv, TypeOK
<1>1. \A d \in Cpus : d # c => pc'[d] = pc[d] /\ loc'[d] = loc[d]
  BY <1>0, ProducerFrame
<1>t. ASSUME NEW d \in Cpus PROVE pc[d] \in {"idle", "lock"} \cup Busy
  BY <1>0
  (* Only the CPU that moves can be between its stores.                      *)
<1>a. ASSUME /\ pc'[c] \in {"header", "body", "publish"} /\ loc'[c].pad # 0 =>
                 \A k \in 0 .. HdrSize - 1 : mem'[Offset(WritePos') + k] =
                   [rec |-> [PadRec(loc'[c]) EXCEPT
                       !.seq = IF pc'[c] = "header" THEN loc'[c].seq ELSE loc'[c].seq - 1],
                    k |-> k]
             /\ pc'[c] = "body" =>
                  \A k \in 0 .. HdrSize - 1 :
                    mem'[Offset(WritePos' + loc'[c].pad) + k] = [rec |-> MainRec(loc'[c]), k |-> k]
             /\ pc'[c] = "publish" =>
                  \A k \in 0 .. MainRec(loc'[c]).len - 1 :
                    /\ Offset(WritePos' + loc'[c].pad) + k \in Offsets
                    /\ mem'[Offset(WritePos' + loc'[c].pad) + k] =
                         [rec |-> MainRec(loc'[c]), k |-> k],
             pc[c] \in Busy \/ (mem' = mem /\ WritePos' = WritePos)
      PROVE  StoredSoFar'
  <2>1. ASSUME NEW d \in Cpus, d # c
        PROVE  \/ pc'[d] \notin {"header", "body", "publish"}
               \/ mem' = mem /\ WritePos' = WritePos /\ pc'[d] = pc[d] /\ loc'[d] = loc[d]
    <3>1. CASE pc[c] \in Busy
      <4>1. pc[d] \notin Busy
        BY <1>0, <2>1, <3>1, OneInside
      <4> QED
        BY <1>1, <2>1, <4>1 DEF Busy
    <3> QED
      BY <1>1, <1>a, <2>1, <3>1
  <2>2. ASSUME NEW d \in Cpus, d # c
        PROVE  (LET l == loc[d]
                    padSeq == IF pc[d] = "header" THEN l.seq ELSE l.seq - 1
                IN  /\ pc[d] \in {"header", "body", "publish"} /\ l.pad # 0 =>
                         StoredHeader(Offset(WritePos), [PadRec(l) EXCEPT !.seq = padSeq])
                    /\ pc[d] = "body" => StoredHeader(Offset(WritePos + l.pad), MainRec(l))
                    /\ pc[d] = "publish" => IntactAt(Offset(WritePos + l.pad), MainRec(l)))'
    <3>1. CASE pc'[d] \notin {"header", "body", "publish"}
      BY <3>1
    <3>2. CASE mem' = mem /\ WritePos' = WritePos /\ pc'[d] = pc[d] /\ loc'[d] = loc[d]
      BY <3>2 DEF StoredSoFar, StoredHeader, IntactAt, PadRec, MainRec, Offset
    <3> QED
      BY <2>1, <2>2, <3>1, <3>2
  <2>3. (LET l == loc[c]
             padSeq == IF pc[c] = "header" THEN l.seq ELSE l.seq - 1
         IN  /\ pc[c] \in {"header", "body", "publish"} /\ l.pad # 0 =>
                  StoredHeader(Offset(WritePos), [PadRec(l) EXCEPT !.seq = padSeq])
             /\ pc[c] = "body" => StoredHeader(Offset(WritePos + l.pad), MainRec(l))
             /\ pc[c] = "publish" => IntactAt(Offset(WritePos + l.pad), MainRec(l)))'
    BY <1>a DEF StoredHeader, IntactAt, PadRec, MainRec, Offset
  <2> QED
    BY <2>2, <2>3 DEF StoredSoFar
<1>2. CASE \/ \E q \in Requests : RejectOversize(c, q) \/ Enter(c, q)
           \/ DropInconsistent(c) \/ DropFull(c)
  <2>1. UNCHANGED <<WritePos, mem>> /\ pc'[c] \notin {"header", "body", "publish"}
    BY <1>0, <1>2 DEF RejectOversize, Enter, DropInconsistent, DropFull, kernelVars
  <2> QED
    BY <1>a, <2>1
<1>3. CASE Reserve(c)
  <2>1. UNCHANGED <<WritePos, mem>> /\ pc'[c] \in {"pad", "header"}
    BY <1>0, <1>3 DEF Reserve
  <2>2. pc'[c] = "header" => loc'[c].pad = 0
    <3>1. loc'[c].pad = PadLen(WritePos, loc[c].len)
      BY <1>0, <1>3 DEF Reserve, LocType
    <3>2. pc'[c] = IF PadLen(WritePos, loc[c].len) # 0 THEN "pad" ELSE "header"
      BY <1>0, <1>3 DEF Reserve
    <3> QED
      BY <3>1, <3>2
  <2> QED
    BY <1>a, <2>1, <2>2
<1>4. CASE Publish(c) \/ Account(c)
  <2>1. pc[c] \in Busy /\ pc'[c] \notin {"header", "body", "publish"}
    BY <1>0, <1>4 DEF Publish, Account, Busy
  <2>2. pc'[c] # "header" /\ pc'[c] # "body" /\ pc'[c] # "publish"
    BY <2>1
  <2>3. pc[c] \in Busy \/ (mem' = mem /\ WritePos' = WritePos)
    BY <2>1
  <2> QED
    BY <1>a, <2>1, <2>2, <2>3
<1>5. CASE WritePad(c)
  <2> DEFINE l == [loc[c] EXCEPT !.seq = NextSequence + 1]
             r == PadRec(loc'[c])
  <2>1. /\ pc[c] = "pad" /\ pc'[c] = "header" /\ WritePos' = WritePos
        /\ mem' = Store(Offset(l.wp), PadRec(l), 0, HdrSize)
        /\ loc'[c] = [l EXCEPT !.wp = l.wp + l.pad]
    BY <1>0, <1>5 DEF WritePad
  <2>2. pc[c] \in Storing /\ pc[c] \in Busy
    BY <2>1 DEF Storing, Busy
  <2>3. l.wp = WritePos
    BY <1>0, <2>1, <2>2, CallFacts DEF LocType
  <2>4. r = PadRec(l) /\ [r EXCEPT !.seq = loc'[c].seq] = r
    BY <1>0, <2>1 DEF LocType, PadRec
  <2> HIDE DEF l, r
  <2>5. Offset(WritePos) \in Nat /\ Offset(WritePos) + HdrSize <= DataSize
    BY <1>0, OffsetFacts DEF SafeInv, HeaderRoom
  <2>6. \A k \in 0 .. HdrSize - 1 : mem'[Offset(WritePos) + k] = [rec |-> r, k |-> k]
    <3>1. mem' = Store(Offset(WritePos), r, 0, HdrSize)
      BY <2>1, <2>3, <2>4
    <3> QED
      BY <2>5, <3>1, HeaderStored
  <2> QED
    BY <1>a, <2>1, <2>2, <2>4, <2>6 DEF r
<1>6. CASE WriteHeader(c)
  <2> DEFINE l == [loc[c] EXCEPT !.seq = NextSequence + 1]
             r == MainRec(loc'[c])
  <2>1. /\ pc[c] = "header" /\ pc'[c] = "body" /\ WritePos' = WritePos
        /\ mem' = Store(Offset(l.wp), MainRec(l), 0, HdrSize)
        /\ loc'[c] = l
    BY <1>0, <1>6 DEF WriteHeader
  <2>2. pc[c] \in Storing /\ pc[c] \in Busy
    BY <2>1 DEF Storing, Busy
  <2>3. l.wp = WritePos + loc[c].pad /\ l.pad = loc[c].pad /\ l.seq = NextSequence + 1
    BY <1>0, <2>1, <2>2, CallFacts DEF LocType
  <2>5. /\ loc[c].pad \in Nat /\ loc[c].len \in Nat /\ HdrSize <= loc[c].len
        /\ WritePos + loc[c].pad \in Nat
        /\ loc[c].pad # 0 => HdrSize <= loc[c].pad /\ Offset(WritePos) + loc[c].pad = DataSize
        /\ loc[c].pad + loc[c].len <= DataSize
        /\ Offset(WritePos + loc[c].pad) + loc[c].len <= DataSize
    BY <2>2, CallFacts
  <2>6. /\ Offset(WritePos + loc[c].pad) \in Nat
        /\ Offset(WritePos + loc[c].pad) + HdrSize <= DataSize
        /\ loc[c].pad + HdrSize <= DataSize
    BY <2>5, OffsetFacts, Sizes
  <2>7. loc[c].pad # 0 =>
          /\ loc[c].seq = NextSequence
          /\ StoredHeader(Offset(WritePos), [PadRec(loc[c]) EXCEPT !.seq = loc[c].seq])
    BY <2>1, StoredFacts DEF Numbering
  <2>8. loc[c].pad # 0 =>
          [PadRec(loc[c]) EXCEPT !.seq = loc[c].seq] =
          [PadRec(loc'[c]) EXCEPT !.seq = loc'[c].seq - 1]
    BY <1>0, <2>1, <2>7 DEF LocType, PadRec
  <2> HIDE DEF l
  <2>9. \A k \in 0 .. HdrSize - 1 :
           mem'[Offset(WritePos + loc[c].pad) + k] = [rec |-> r, k |-> k]
    <3>1. mem' = Store(Offset(WritePos + loc[c].pad), r, 0, HdrSize)
      BY <2>1, <2>3
    <3> HIDE DEF r
    <3> QED
      BY <2>6, <3>1, HeaderStored
  <2>10. loc[c].pad # 0 => \A k \in 0 .. HdrSize - 1 :
            mem'[Offset(WritePos) + k] =
              [rec |-> [PadRec(loc'[c]) EXCEPT !.seq = loc'[c].seq - 1], k |-> k]
    <3>1. mem' = Store(Offset(WritePos + loc[c].pad), r, 0, HdrSize)
      BY <2>1, <2>3
    <3>2. SUFFICES ASSUME loc[c].pad # 0
                   PROVE  \A k \in 0 .. HdrSize - 1 : mem'[Offset(WritePos) + k] =
                            [rec |-> [PadRec(loc[c]) EXCEPT !.seq = loc[c].seq], k |-> k]
      BY <2>8
    <3> DEFINE h == [PadRec(loc[c]) EXCEPT !.seq = loc[c].seq]
    <3>3. StoredHeader(Offset(WritePos), h)
      BY <2>7, <3>2
    <3> HIDE DEF r, h
    <3>4. PICK s \in Nat : s = WritePos + loc[c].pad
      BY <2>5
    <3>5. /\ Offset(WritePos) + HdrSize <= DataSize /\ WritePos + HdrSize <= s
          /\ Offset(s) + HdrSize <= DataSize /\ s + HdrSize - WritePos <= DataSize
          /\ mem' = Store(Offset(s), r, 0, HdrSize)
      BY <1>0, <2>5, <2>6, <3>1, <3>2, <3>4, OffsetFacts, Sizes
    <3>6. \A k \in 0 .. HdrSize - 1 : mem'[Offset(WritePos) + k] = [rec |-> h, k |-> k]
      <4>1. WritePos \in Nat /\ 0 \in Nat /\ HdrSize \in Nat
        BY <1>0, Sizes
      <4>2. BehindPad(WritePos, s, HdrSize)
        BY <3>5 DEF BehindPad
      <4>3. HoldsHeader(Store(Offset(s), r, 0, HdrSize), Offset(WritePos), h)
        BY <3>3, <4>1, <4>2, PadHeaderKept
      <4> QED
        BY <3>5, <4>3 DEF HoldsHeader
    <3> QED
      BY <3>6 DEF h
  <2> QED
    BY <1>a, <2>1, <2>2, <2>3, <2>9, <2>10
<1>7. CASE WriteBody(c)
  <2> DEFINE r == MainRec(loc[c])
  <2>1. /\ pc[c] = "body" /\ pc'[c] = "publish" /\ WritePos' = WritePos
        /\ mem' = Store(Offset(loc[c].wp), r, HdrSize, loc[c].len)
    BY <1>0, <1>7 DEF WriteBody
  <2>2. pc[c] \in Storing /\ pc[c] \in Busy
    BY <2>1 DEF Storing, Busy
  <2>3. /\ loc[c].pad \in Nat /\ loc[c].len \in Nat /\ HdrSize <= loc[c].len
        /\ WritePos + loc[c].pad \in Nat /\ loc[c].wp = WritePos + loc[c].pad
        /\ loc[c].pad # 0 => HdrSize <= loc[c].pad /\ Offset(WritePos) + loc[c].pad = DataSize
        /\ loc[c].pad + loc[c].len <= DataSize
        /\ Offset(WritePos + loc[c].pad) + loc[c].len <= DataSize
    BY <2>1, <2>2, CallFacts
  <2>4. Offset(WritePos + loc[c].pad) \in Nat
    BY <2>3, OffsetFacts
  <2>5. /\ MainRec(loc'[c]) = r /\ PadRec(loc'[c]) = PadRec(loc[c])
        /\ loc'[c].seq = loc[c].seq /\ loc'[c].pad = loc[c].pad /\ r.len = loc[c].len
    BY <1>0, <1>7 DEF WriteBody, LocType, MainRec, PadRec
  <2>6. /\ StoredHeader(Offset(WritePos + loc[c].pad), r)
        /\ loc[c].pad # 0 =>
             StoredHeader(Offset(WritePos), [PadRec(loc[c]) EXCEPT !.seq = loc[c].seq - 1])
    BY <2>1, StoredFacts
  <2> HIDE DEF r
  <2>7. mem' = Store(Offset(WritePos + loc[c].pad), r, HdrSize, loc[c].len)
    BY <2>1, <2>3
  <2>8. ASSUME NEW k \in 0 .. loc[c].len - 1
        PROVE  /\ Offset(WritePos + loc[c].pad) + k \in Offsets
               /\ mem'[Offset(WritePos + loc[c].pad) + k] = [rec |-> r, k |-> k]
    <3>0. k \in Nat /\ k < loc[c].len
      BY <2>3
    <3>1. CASE HdrSize <= k
      BY <2>3, <2>4, <2>7, <3>0, <3>1, StoreHits, Sizes
    <3>2. CASE k < HdrSize
      <4>1. Offset(WritePos + loc[c].pad) + k \in Offsets
        BY <2>3, <2>4, <3>0, Sizes DEF Offsets
      <4>2. ~ (Offset(WritePos + loc[c].pad) + HdrSize <= Offset(WritePos + loc[c].pad) + k)
        BY <2>4, <3>0, <3>2, Sizes
      <4>3. mem'[Offset(WritePos + loc[c].pad) + k] = mem[Offset(WritePos + loc[c].pad) + k]
        BY <2>7, <4>1, <4>2 DEF Store
      <4>4. k \in 0 .. HdrSize - 1
        BY <3>0, <3>2, Sizes
      <4> QED
        BY <2>6, <4>1, <4>3, <4>4 DEF StoredHeader
    <3> QED
      BY <3>0, <3>1, <3>2, Sizes
  <2>9. loc[c].pad # 0 => \A k \in 0 .. HdrSize - 1 :
            mem'[Offset(WritePos) + k] =
              [rec |-> [PadRec(loc[c]) EXCEPT !.seq = loc[c].seq - 1], k |-> k]
    <3> DEFINE h == [PadRec(loc[c]) EXCEPT !.seq = loc[c].seq - 1]
    <3>1. SUFFICES ASSUME loc[c].pad # 0
                   PROVE  \A k \in 0 .. HdrSize - 1 : mem'[Offset(WritePos) + k] = [rec |-> h, k |-> k]
      OBVIOUS
    <3>2. StoredHeader(Offset(WritePos), h)
      BY <2>6, <3>1
    <3> HIDE DEF h
    <3>3. PICK s \in Nat : s = WritePos + loc[c].pad
      BY <2>3
    <3>4. /\ Offset(WritePos) + HdrSize <= DataSize /\ WritePos + HdrSize <= s
          /\ Offset(s) + loc[c].len <= DataSize /\ s + loc[c].len - WritePos <= DataSize
          /\ mem' = Store(Offset(s), r, HdrSize, loc[c].len)
      BY <1>0, <2>3, <2>7, <3>1, <3>3, OffsetFacts, Sizes
    <3> QED
      <4>1. WritePos \in Nat /\ loc[c].len \in Nat /\ HdrSize \in Nat
        BY <1>0, <2>3, Sizes
      <4>2. BehindPad(WritePos, s, loc[c].len)
        BY <3>4 DEF BehindPad
      <4>3. HoldsHeader(Store(Offset(s), r, HdrSize, loc[c].len), Offset(WritePos), h)
        BY <3>2, <3>3, <4>1, <4>2, PadHeaderKept
      <4> QED
        BY <3>4, <4>3 DEF HoldsHeader
  <2> QED
    BY <1>a, <2>1, <2>2, <2>5, <2>8, <2>9
<1> QED
  BY <1>2, <1>3, <1>4, <1>5, <1>6, <1>7 DEF Producer, Proceed
(* The accepted records not yet handed back, while more are written.       *)
LEMMA UnreadStep ==
  ASSUME SafeInv, LogTiles, Positions, StoredSoFar, UnreadIntact, NEW c \in Cpus, Producer(c)
  PROVE  UnreadIntact'
<1>0. /\ TypeOK /\ readPos \in Nat /\ readPos' = readPos /\ WritePos \in Nat
      /\ Len(log) \in Nat /\ DOMAIN log = 1 .. Len(log)
  BY ProducerFrame, LogFacts DEF SafeInv, TypeOK
<1>1. ASSUME NEW i \in DOMAIN log, log[i].pos >= readPos
      PROVE  /\ log[i].pad # 0 =>
                  /\ Offset(log[i].pos) + log[i].pad = DataSize
                  /\ \A k \in 0 .. HdrSize - 1 :
                        mem'[Offset(log[i].pos) + k] = [rec |-> PadOf(log[i]), k |-> k]
             /\ \A k \in 0 .. log[i].rec.len - 1 :
                  /\ Offset(log[i].pos + log[i].pad) + k \in Offsets
                  /\ mem'[Offset(log[i].pos + log[i].pad) + k] = [rec |-> log[i].rec, k |-> k]
  <2>0. /\ PadIntact(log[i]) /\ IntactAt(Offset(log[i].pos + log[i].pad), log[i].rec)
        /\ log[i].pos \in Nat /\ log[i].pad \in Nat /\ log[i].rec.len \in Nat
    BY <1>0, <1>1, EntryTypes DEF UnreadIntact
  <2>1. ASSUME log[i].pad # 0, NEW k \in 0 .. HdrSize - 1
        PROVE  mem'[Offset(log[i].pos) + k] = mem[Offset(log[i].pos) + k]
    <3>1. k \in Nat /\ k < HdrSize /\ log[i].pos + k \in Nat
      BY <2>0, Sizes
    <3>2. /\ Offset(log[i].pos + k) = Offset(log[i].pos) + k
          /\ log[i].pos <= log[i].pos + k /\ log[i].pos + k < WritePos
      BY <1>0, <2>1, <3>1, EntryBytes
    <3>3. readPos <= log[i].pos + k
      BY <1>0, <1>1, <2>0, <3>1
    <3>4. mem'[Offset(log[i].pos + k)] = mem[Offset(log[i].pos + k)]
      BY <3>1, <3>2, <3>3, UnreadKept
    <3> QED
      BY <3>2, <3>4
  <2>2. ASSUME NEW k \in 0 .. log[i].rec.len - 1
        PROVE  mem'[Offset(log[i].pos + log[i].pad) + k] = mem[Offset(log[i].pos + log[i].pad) + k]
    <3>1. k \in Nat /\ k < log[i].rec.len /\ log[i].pos + log[i].pad + k \in Nat
      BY <2>0
    <3>2. /\ Offset(log[i].pos + log[i].pad + k) = Offset(log[i].pos + log[i].pad) + k
          /\ log[i].pos + log[i].pad + k < WritePos
      BY <1>0, <3>1, EntryBytes
    <3>3. readPos <= log[i].pos + log[i].pad + k
      BY <1>0, <1>1, <2>0, <3>1
    <3>4. mem'[Offset(log[i].pos + log[i].pad + k)] = mem[Offset(log[i].pos + log[i].pad + k)]
      BY <3>1, <3>2, <3>3, UnreadKept
    <3> QED
      BY <3>2, <3>4
  <2>3. log[i].pad # 0 =>
          /\ Offset(log[i].pos) + log[i].pad = DataSize
          /\ \A k \in 0 .. HdrSize - 1 :
                mem'[Offset(log[i].pos) + k] = [rec |-> PadOf(log[i]), k |-> k]
    BY <2>0, <2>1 DEF PadIntact
  <2>4. \A k \in 0 .. log[i].rec.len - 1 :
          /\ Offset(log[i].pos + log[i].pad) + k \in Offsets
          /\ mem'[Offset(log[i].pos + log[i].pad) + k] = [rec |-> log[i].rec, k |-> k]
    BY <2>0, <2>2 DEF IntactAt
  <2> QED
    BY <2>3, <2>4
<1>2. CASE ~ Publish(c)
  <2>1. log' = log
    BY <1>2, NoPublishFrame
  <2>2. ASSUME NEW i \in DOMAIN log', log'[i].pos >= readPos'
        PROVE  (PadIntact(log[i]) /\ IntactAt(Offset(log[i].pos + log[i].pad), log[i].rec))'
    <3>1. i \in DOMAIN log /\ log[i].pos >= readPos
      BY <1>0, <2>1, <2>2
    <3> QED
      BY <1>1, <2>1, <3>1 DEF PadIntact, IntactAt, PadOf, Offset
  <2> QED
    BY <2>2 DEF UnreadIntact
<1>3. CASE Publish(c)
  <2>0. PICK n \in Nat : n = Len(log) + 1
    BY <1>0
  <2>1. /\ DOMAIN log' = 1 .. n /\ \A i \in DOMAIN log : log'[i] = log[i]
        /\ log'[n].pos = WritePos /\ log'[n].pad = loc[c].pad /\ log'[n].rec = MainRec(loc[c])
        /\ MainRec(loc[c]).seq = loc[c].seq /\ MainRec(loc[c]).ts = loc[c].ts
        /\ mem' = mem /\ pc[c] = "publish" /\ pc[c] \in Storing
    BY <1>3, <2>0, PublishAccepts, PublishMoves
  <2>2. ASSUME NEW i \in DOMAIN log, log'[i].pos >= readPos'
        PROVE  (PadIntact(log[i]) /\ IntactAt(Offset(log[i].pos + log[i].pad), log[i].rec))'
    <3>1. log'[i] = log[i] /\ log[i].pos >= readPos
      BY <1>0, <2>1, <2>2
    <3> QED
      BY <1>1, <3>1 DEF PadIntact, IntactAt, PadOf, Offset
  <2>3. (PadIntact(log[n]) /\ IntactAt(Offset(log[n].pos + log[n].pad), log[n].rec))'
    <3>1. /\ loc[c].pad # 0 => /\ Offset(WritePos) + loc[c].pad = DataSize
                               /\ StoredHeader(Offset(WritePos),
                                    [PadRec(loc[c]) EXCEPT !.seq = loc[c].seq - 1])
          /\ IntactAt(Offset(WritePos + loc[c].pad), MainRec(loc[c]))
      BY <2>1, CallFacts, StoredFacts
    <3>2. PadOf(log'[n]) = [PadRec(loc[c]) EXCEPT !.seq = loc[c].seq - 1]
      <4>1. PadOf(log'[n]) = [seq |-> loc[c].seq - 1, type |-> "WRAP", ts |-> loc[c].ts,
                              n |-> 0, len |-> loc[c].pad]
        BY <2>1 DEF PadOf
      <4> QED
        BY <4>1 DEF PadRec
    <3>3. ASSUME loc[c].pad # 0
          PROVE  /\ Offset(log'[n].pos) + log'[n].pad = DataSize
                 /\ \A k \in 0 .. HdrSize - 1 :
                      mem'[Offset(log'[n].pos) + k] = [rec |-> PadOf(log'[n]), k |-> k]
      BY <2>1, <3>1, <3>2, <3>3 DEF StoredHeader
    <3>4. PadIntact(log[n])'
      <4>1. log'[n].pad # 0 => loc[c].pad # 0
        BY <2>1
      <4> QED
        BY <3>3, <4>1 DEF PadIntact, Offset, PadOf
    <3>5. IntactAt(Offset(log[n].pos + log[n].pad), log[n].rec)'
      BY <2>1, <3>1 DEF IntactAt, Offset
    <3> QED
      BY <3>4, <3>5
  <2>4. ASSUME NEW i \in DOMAIN log', log'[i].pos >= readPos'
        PROVE  (PadIntact(log[i]) /\ IntactAt(Offset(log[i].pos + log[i].pad), log[i].rec))'
    <3>1. CASE i \in DOMAIN log
      BY <2>2, <2>4, <3>1
    <3>2. CASE i = n
      BY <2>3, <3>2
    <3> QED
      BY <1>0, <2>0, <2>1, <2>4, <3>1, <3>2
  <2> QED
    BY <2>4 DEF UnreadIntact
<1> QED
  BY <1>2, <1>3
-----------------------------------------------------------------------------
(* Producers number and count.                                             *)

(* The numbers a call has drawn, as far as it is.                          *)
NumberedAt(at, l, last) ==
  LET padded == IF l.pad # 0 THEN 1 ELSE 0
  IN  /\ at = "pad" => NextSequence = last
      /\ at = "header" => NextSequence = last + padded
      /\ at = "header" /\ l.pad # 0 => l.seq = NextSequence
      /\ at \in {"body", "publish"} => NextSequence = last + 1 + padded /\ l.seq = NextSequence
      /\ at = "account" => NextSequence = last

(* Numbering is that, for the one call that is inside the lock.            *)
LEMMA NumberingShape ==
  Numbering <=> /\ SequenceDense
                /\ \A c \in Cpus : NumberedAt(pc[c], loc[c], LastSeq)
                /\ lock = NoCpu => NextSequence = LastSeq
BY DEF Numbering, NumberedAt

(* The last number given to a record is a number.                          *)
LEMMA LastSeqType ==
  ASSUME TypeOK
  PROVE  /\ LastSeq \in Nat
         /\ Len(log) \in Nat /\ DOMAIN log = 1 .. Len(log)
         /\ LastSeq = IF Len(log) = 0 THEN 0 ELSE log[Len(log)].rec.seq
<1>1. Len(log) \in Nat /\ DOMAIN log = 1 .. Len(log) /\ (log = <<>> <=> Len(log) = 0)
  BY DEF TypeOK
<1>2. CASE Len(log) = 0
  BY <1>1, <1>2 DEF LastSeq
<1>3. CASE Len(log) # 0
  <2>1. Len(log) \in DOMAIN log
    BY <1>1, <1>3
  <2>2. log[Len(log)].rec \in Rec
    BY <2>1, EntryTypes
  <2> QED
    BY <1>1, <1>3, <2>2 DEF LastSeq, Rec
<1> QED
  BY <1>1, <1>2, <1>3

(* Each record and each pad takes the next sequence number, inside the     *)
(* lock.                                                                   *)
LEMMA NumberingStep ==
  ASSUME SafeInv, TypeOK', Numbering, NEW c \in Cpus, Producer(c)
  PROVE  Numbering'
<1>0. /\ TypeOK /\ LockHeld /\ pc \in [Cpus -> {"idle", "lock"} \cup Busy]
      /\ loc \in [Cpus -> LocType] /\ loc[c] \in LocType /\ NextSequence \in Nat
      /\ LastSeq \in Nat /\ NoCpu \notin Cpus
  BY LastSeqType, RingAssumption DEF SafeInv, TypeOK
<1>1. \A d \in Cpus : d # c => pc'[d] = pc[d] /\ loc'[d] = loc[d]
  BY <1>0, ProducerFrame
<1>2. /\ SequenceDense /\ \A d \in Cpus : NumberedAt(pc[d], loc[d], LastSeq)
      /\ lock = NoCpu => NextSequence = LastSeq
  BY NumberingShape
  (* It is enough to look at the CPU that moves.                             *)
<1>a. ASSUME SequenceDense', NumberedAt(pc[c], loc[c], LastSeq)',
             lock' = NoCpu => NextSequence' = LastSeq',
             pc[c] \in Busy \/ (NextSequence' = NextSequence /\ LastSeq' = LastSeq)
      PROVE  Numbering'
  <2>1. ASSUME NEW d \in Cpus, d # c PROVE NumberedAt(pc[d], loc[d], LastSeq)'
    <3>1. CASE pc[c] \in Busy
      <4>1. pc[d] \notin Busy /\ pc'[d] = pc[d]
        BY <1>0, <1>1, <2>1, <3>1, OneInside
      <4> QED
        BY <4>1 DEF NumberedAt, Busy
    <3>2. CASE NextSequence' = NextSequence /\ LastSeq' = LastSeq
      <4>1. pc'[d] = pc[d] /\ loc'[d] = loc[d] /\ NumberedAt(pc[d], loc[d], LastSeq)
        BY <1>1, <1>2, <2>1
      <4> QED
        BY <3>2, <4>1 DEF NumberedAt
    <3> QED
      BY <1>a, <3>1, <3>2
  <2>2. \A d \in Cpus : NumberedAt(pc[d], loc[d], LastSeq)'
    BY <1>a, <2>1
  <2> QED
    BY <1>a, <2>2 DEF Numbering, NumberedAt
<1>b. ASSUME log' = log PROVE SequenceDense' /\ LastSeq' = LastSeq
  BY <1>2, <1>b DEF SequenceDense, LastSeq
<1>3. CASE \/ \E q \in Requests : RejectOversize(c, q) \/ Enter(c, q)
           \/ DropInconsistent(c) \/ DropFull(c)
  <2>1. /\ UNCHANGED <<NextSequence, lock, log>>
        /\ pc'[c] = "idle" \/ pc'[c] = "lock"
    BY <1>0, <1>3 DEF RejectOversize, Enter, DropInconsistent, DropFull, kernelVars
  <2>2. NumberedAt(pc[c], loc[c], LastSeq)'
    BY <2>1 DEF NumberedAt
  <2> QED
    BY <1>2, <1>a, <1>b, <2>1, <2>2
<1>4. CASE Reserve(c)
  <2>1. UNCHANGED <<NextSequence, log>> /\ lock = NoCpu /\ lock' = c
    BY <1>4 DEF Reserve
  <2>2. loc'[c].pad = PadLen(WritePos, loc[c].len)
    BY <1>0, <1>4 DEF Reserve, LocType
  <2>3. pc'[c] = IF PadLen(WritePos, loc[c].len) # 0 THEN "pad" ELSE "header"
    BY <1>0, <1>4 DEF Reserve
  <2>4. LastSeq' = LastSeq /\ NextSequence = LastSeq
    BY <1>2, <1>b, <2>1
  <2>5. NumberedAt(pc[c], loc[c], LastSeq)'
    BY <1>0, <2>1, <2>2, <2>3, <2>4 DEF NumberedAt
  <2> QED
    BY <1>0, <1>a, <1>b, <2>1, <2>5
<1>5. CASE WritePad(c) \/ WriteHeader(c)
  <2>1. /\ NextSequence' = NextSequence + 1 /\ UNCHANGED <<lock, log>>
        /\ \/ pc[c] = "pad" /\ pc'[c] = "header"
           \/ pc[c] = "header" /\ pc'[c] = "body"
    BY <1>0, <1>5 DEF WritePad, WriteHeader
  <2>2. loc'[c].seq = NextSequence + 1 /\ loc'[c].pad = loc[c].pad
    <3>1. CASE WritePad(c)
      BY <1>0, <3>1 DEF WritePad, LocType
    <3>2. CASE WriteHeader(c)
      BY <1>0, <3>2 DEF WriteHeader, LocType
    <3> QED
      BY <1>5, <3>1, <3>2
  <2>3. pc[c] \in Busy /\ LastSeq' = LastSeq /\ lock' # NoCpu
    BY <1>0, <1>b, <2>1 DEF Busy, LockHeld
  <2>4. NumberedAt(pc[c], loc[c], LastSeq) /\ (pc[c] = "pad" => loc[c].pad # 0)
    <3>1. pc[c] \in Storing
      BY <2>1 DEF Storing
    <3> QED
      BY <1>2, <3>1, CallFacts
  <2>5. NumberedAt(pc[c], loc[c], LastSeq)'
    BY <1>0, <2>1, <2>2, <2>3, <2>4 DEF NumberedAt
  <2> QED
    BY <1>a, <1>b, <2>1, <2>3, <2>5
<1>6. CASE WriteBody(c)
  <2>1. UNCHANGED <<NextSequence, lock, log>> /\ pc[c] = "body" /\ pc'[c] = "publish"
    BY <1>0, <1>6 DEF WriteBody
  <2>2. loc'[c].seq = loc[c].seq /\ loc'[c].pad = loc[c].pad
    BY <1>0, <1>6 DEF WriteBody, LocType
  <2>3. pc[c] \in Busy /\ LastSeq' = LastSeq /\ lock' # NoCpu
    BY <1>0, <1>b, <2>1 DEF Busy, LockHeld
  <2>4. NumberedAt(pc[c], loc[c], LastSeq)
    BY <1>2
  <2>5. NumberedAt(pc[c], loc[c], LastSeq)'
    BY <1>0, <2>1, <2>2, <2>3, <2>4 DEF NumberedAt
  <2> QED
    BY <1>a, <1>b, <2>1, <2>3, <2>5
<1>7. CASE Publish(c)
  <2>1. /\ pc[c] = "publish" /\ pc'[c] = "account" /\ lock' = lock
        /\ NextSequence' = NextSequence
    BY <1>7, PublishMoves
  <2>2. /\ Len(log) \in Nat /\ DOMAIN log = 1 .. Len(log)
        /\ Len(log') = Len(log) + 1 /\ DOMAIN log' = 1 .. Len(log) + 1
        /\ \A i \in DOMAIN log : log'[i] = log[i]
        /\ log'[Len(log) + 1].pad = loc[c].pad
        /\ log'[Len(log) + 1].rec.seq = loc[c].seq
    BY <1>7, PublishAccepts
  <2>3. /\ NextSequence = LastSeq + 1 + (IF loc[c].pad # 0 THEN 1 ELSE 0)
        /\ loc[c].seq = NextSequence
    <3>1. NumberedAt(pc[c], loc[c], LastSeq)
      BY <1>2
    <3> QED
      BY <2>1, <3>1 DEF NumberedAt
  <2>4. LastSeq' = loc[c].seq
    BY <2>2, LastSeqType DEF LastSeq
  <2>5. SequenceDense'
    <3> SUFFICES ASSUME NEW i \in DOMAIN log'
                 PROVE  log'[i].rec.seq = (IF i = 1 THEN 0 ELSE log'[i - 1].rec.seq)
                                          + (IF log'[i].pad # 0 THEN 2 ELSE 1)
      BY DEF SequenceDense
    <3>1. CASE i \in DOMAIN log
      <4>1. i # 1 => i - 1 \in DOMAIN log
        BY <2>2, <3>1
      <4>2. log'[i] = log[i] /\ (i # 1 => log'[i - 1] = log[i - 1])
        BY <2>2, <3>1, <4>1
      <4> QED
        BY <1>2, <3>1, <4>2 DEF SequenceDense
    <3>2. CASE i = Len(log) + 1
      <4>1. LastSeq = IF i = 1 THEN 0 ELSE log'[i - 1].rec.seq
        <5>1. CASE Len(log) = 0
          BY <1>0, <2>2, <3>2, <5>1, LastSeqType
        <5>2. CASE Len(log) # 0
          <6>1. Len(log) \in DOMAIN log /\ i - 1 = Len(log) /\ i # 1
            BY <2>2, <3>2, <5>2
          <6>2. log'[i - 1].rec.seq = log[Len(log)].rec.seq
            BY <2>2, <6>1
          <6> QED
            BY <1>0, <5>2, <6>1, <6>2, LastSeqType
        <5> QED
          BY <5>1, <5>2
      <4>2. log'[i].rec.seq = loc[c].seq /\ log'[i].pad = loc[c].pad
        BY <2>2, <3>2
      <4>3. log'[i].rec.seq = LastSeq + (IF log'[i].pad # 0 THEN 2 ELSE 1)
        BY <1>0, <2>3, <4>2
      <4> QED
        BY <4>1, <4>3
    <3> QED
      BY <2>2, <3>1, <3>2
  <2>6. pc[c] \in Busy /\ lock' # NoCpu
    BY <1>0, <2>1 DEF Busy, LockHeld
  <2>7. NumberedAt(pc[c], loc[c], LastSeq)'
    BY <2>1, <2>3, <2>4 DEF NumberedAt
  <2> QED
    BY <1>a, <2>5, <2>6, <2>7
<1>8. CASE Account(c)
  <2>1. UNCHANGED <<NextSequence, log>> /\ pc[c] = "account" /\ pc'[c] = "idle"
    BY <1>0, <1>8 DEF Account
  <2>2. NumberedAt(pc[c], loc[c], LastSeq)
    BY <1>2
  <2>3. NextSequence = LastSeq
    BY <2>1, <2>2 DEF NumberedAt
  <2>4. pc[c] \in Busy /\ LastSeq' = LastSeq
    BY <1>b, <2>1 DEF Busy
  <2>5. NumberedAt(pc[c], loc[c], LastSeq)'
    BY <2>1 DEF NumberedAt
  <2> QED
    BY <1>a, <1>b, <2>1, <2>3, <2>4, <2>5
<1> QED
  BY <1>3, <1>4, <1>5, <1>6, <1>7, <1>8 DEF Producer, Proceed

(* The counters follow the ring once the call inside the lock has          *)
(* accounted.                                                              *)
LEMMA CountersStep ==
  ASSUME SafeInv, Counters, NEW c \in Cpus, Producer(c)
  PROVE  Counters'
<1>0. /\ TypeOK /\ LockHeld /\ pc \in [Cpus -> {"idle", "lock"} \cup Busy]
      /\ loc \in [Cpus -> LocType] /\ loc[c] \in LocType /\ NoCpu \notin Cpus
      /\ totalBytes \in Nat /\ totalRecords \in Nat /\ WritePos \in Nat /\ Len(log) \in Nat
  BY RingAssumption, LogFacts DEF SafeInv, TypeOK
<1>1. \A d \in Cpus : d # c => pc'[d] = pc[d] /\ loc'[d] = loc[d]
  BY <1>0, ProducerFrame
<1>a. ASSUME pc'[c] \in Storing => totalBytes' = WritePos' /\ totalRecords' = Len(log'),
             pc'[c] = "account" =>
               totalBytes' + loc'[c].pad + loc'[c].len = WritePos' /\ totalRecords' + 1 = Len(log'),
             lock' = NoCpu => totalBytes' = WritePos' /\ totalRecords' = Len(log'),
             \/ pc[c] \in Busy
             \/ UNCHANGED <<totalBytes, totalRecords, WritePos, log>>
      PROVE  Counters'
  <2>1. ASSUME NEW d \in Cpus, d # c
        PROVE  /\ pc'[d] \in Storing => totalBytes' = WritePos' /\ totalRecords' = Len(log')
               /\ pc'[d] = "account" =>
                    /\ totalBytes' + loc'[d].pad + loc'[d].len = WritePos'
                    /\ totalRecords' + 1 = Len(log')
    <3>1. CASE pc[c] \in Busy
      <4>1. pc[d] \notin Busy /\ pc'[d] = pc[d]
        BY <1>0, <1>1, <2>1, <3>1, OneInside
      <4> QED
        BY <4>1 DEF Busy, Storing
    <3>2. CASE UNCHANGED <<totalBytes, totalRecords, WritePos, log>>
      BY <1>1, <2>1, <3>2 DEF Counters
    <3> QED
      BY <1>a, <3>1, <3>2
  <2> QED
    BY <1>a, <2>1 DEF Counters, StatsMatchRing
<1>2. CASE \/ \E q \in Requests : RejectOversize(c, q) \/ Enter(c, q)
           \/ DropInconsistent(c) \/ DropFull(c)
  <2>1. /\ UNCHANGED <<totalBytes, totalRecords, WritePos, log, lock>>
        /\ pc'[c] \notin Storing /\ pc'[c] # "account"
    BY <1>0, <1>2 DEF RejectOversize, Enter, DropInconsistent, DropFull, kernelVars, Count,
                      statVars, Storing
  <2> QED
    BY <1>a, <2>1 DEF Counters, StatsMatchRing
<1>3. CASE Reserve(c)
  <2>1. /\ UNCHANGED <<totalBytes, totalRecords, WritePos, log>>
        /\ lock = NoCpu /\ lock' = c /\ pc'[c] # "account"
    BY <1>0, <1>3 DEF Reserve, statVars
  <2> QED
    BY <1>0, <1>a, <2>1 DEF Counters, StatsMatchRing
<1>4. CASE WritePad(c) \/ WriteHeader(c) \/ WriteBody(c)
  <2>1. /\ UNCHANGED <<totalBytes, totalRecords, WritePos, log, lock>>
        /\ pc[c] \in Storing /\ pc'[c] # "account"
    BY <1>0, <1>4 DEF WritePad, WriteHeader, WriteBody, statVars, Storing
  <2> QED
    BY <1>0, <1>a, <2>1 DEF Counters, StatsMatchRing
<1>5. CASE Publish(c)
  <2>1. /\ pc[c] \in Storing /\ pc'[c] = "account" /\ loc' = loc /\ lock' = lock
        /\ WritePos' = WritePos + loc[c].pad + loc[c].len /\ UNCHANGED statVars
        /\ Len(log') = Len(log) + 1 /\ loc[c].pad \in Nat /\ loc[c].len \in Nat
    BY <1>5, PublishMoves, PublishAccepts, CallFacts
  <2>2. pc[c] \in Busy /\ lock' # NoCpu /\ pc'[c] \notin Storing
    BY <1>0, <2>1 DEF Busy, Storing, LockHeld
  <2>3. totalBytes = WritePos /\ totalRecords = Len(log)
    BY <2>1 DEF Counters
  <2>4. totalBytes' = totalBytes /\ totalRecords' = totalRecords
    BY <2>1 DEF statVars
  <2>5. totalBytes' + loc'[c].pad + loc'[c].len = WritePos' /\ totalRecords' + 1 = Len(log')
    BY <1>0, <2>1, <2>3, <2>4
  <2> QED
    BY <1>a, <2>1, <2>2, <2>5
<1>6. CASE Account(c)
  <2>1. /\ pc[c] = "account" /\ pc'[c] = "idle" /\ UNCHANGED <<WritePos, log>>
        /\ totalRecords' = totalRecords + 1
        /\ totalBytes' = totalBytes + loc[c].pad + loc[c].len
    BY <1>0, <1>6 DEF Account
  <2>2. totalBytes' = WritePos' /\ totalRecords' = Len(log')
    BY <2>1 DEF Counters
  <2>3. pc[c] \in Busy /\ pc'[c] \notin Storing
    BY <2>1 DEF Busy, Storing
  <2> QED
    BY <1>a, <2>1, <2>2, <2>3
<1> QED
  BY <1>2, <1>3, <1>4, <1>5, <1>6 DEF Producer, Proceed
-----------------------------------------------------------------------------
(* The consumer.                                                           *)

(* Between the positions of a poll there is a record to read.              *)
LEMMA RecordAhead ==
  ASSUME TypeOK, ReaderPlace, apc # "idle", pollRp < pollWp
  PROVE  cursor < Len(log) /\ cursor + 1 \in DOMAIN log
<1>0. Len(log) \in Nat /\ DOMAIN log = 1 .. Len(log) /\ cursor \in Nat
  BY LogFacts DEF TypeOK
<1>1. PICK m \in cursor .. Len(log) : pollWp = StartOf(m + 1)
  BY DEF ReaderPlace
<1>2. pollRp = StartOf(cursor + 1) \/ cursor < Len(log)
  BY DEF ReaderPlace
<1>3. cursor < Len(log)
  <2>1. CASE m = cursor
    <3>1. pollRp # pollWp
      BY DEF TypeOK
    <3> QED
      BY <1>1, <1>2, <2>1, <3>1
  <2>2. CASE m # cursor
    BY <1>0, <2>2
  <2> QED
    BY <2>1, <2>2
<1> QED
  BY <1>0, <1>3

(* That record has not been handed back, and ends before the poll does.    *)
LEMMA RecordUnread ==
  ASSUME TypeOK, LogTiles, ReaderPlace, apc # "idle", pollRp < pollWp
  PROVE  /\ readPos <= log[cursor + 1].pos
         /\ StartOf(cursor + 1) = log[cursor + 1].pos
         /\ EndOf(log[cursor + 1]) <= pollWp
         /\ EndOf(log[cursor + 1]) = StartOf(cursor + 2)
         /\ \E m \in cursor + 1 .. Len(log) : pollWp = StartOf(m + 1)
<1>0. /\ Len(log) \in Nat /\ DOMAIN log = 1 .. Len(log) /\ cursor \in Nat /\ committed \in Nat
      /\ cursor < Len(log) /\ cursor + 1 \in DOMAIN log /\ pollRp \in Nat /\ pollWp \in Nat
      /\ readPos \in Nat
  BY LogFacts, RecordAhead DEF TypeOK
<1>1. StartOf(cursor + 1) = log[cursor + 1].pos
  BY <1>0 DEF StartOf
<1>2. readPos <= log[cursor + 1].pos
  <2>1. readPos = StartOf(committed + 1) /\ committed <= cursor
    BY DEF ReaderPlace
  <2>2. CASE committed = cursor
    BY <1>0, <1>1, <2>1, <2>2
  <2>3. CASE committed < cursor
    <3>1. committed + 1 \in DOMAIN log /\ committed + 1 < cursor + 1
      BY <1>0, <2>3
    <3>2. EndOf(log[committed + 1]) <= log[cursor + 1].pos
      BY <1>0, <3>1 DEF LogTiles
    <3>3. readPos = log[committed + 1].pos
      BY <1>0, <2>1, <3>1 DEF StartOf
    <3>4. /\ log[committed + 1].pos \in Nat /\ log[committed + 1].pad \in Nat
          /\ log[committed + 1].rec.len \in Nat /\ log[cursor + 1].pos \in Nat
      BY <1>0, <3>1, EntryTypes
    <3> QED
      BY <3>2, <3>3, <3>4 DEF EndOf
  <2> QED
    BY <1>0, <2>1, <2>2, <2>3
<1>3. PICK m \in cursor .. Len(log) : pollWp = StartOf(m + 1)
  BY DEF ReaderPlace
<1>4. m # cursor
  <2>1. CASE pollRp = StartOf(cursor + 1)
    BY <1>0, <1>3, <2>1
  <2>2. CASE pollRp # StartOf(cursor + 1)
    <3>1. pollRp = log[cursor + 1].pos + log[cursor + 1].pad
      BY <2>2 DEF ReaderPlace
    <3>2. log[cursor + 1].pos \in Nat /\ log[cursor + 1].pad \in Nat
      BY <1>0, EntryTypes
    <3> QED
      BY <1>0, <1>1, <1>3, <3>1, <3>2
  <2> QED
    BY <2>1, <2>2
<1>5. m \in cursor + 1 .. Len(log) /\ m \in Nat
  BY <1>0, <1>3, <1>4
<1>6. EndOf(log[cursor + 1]) <= StartOf(m + 1)
  <2>1. cursor + 1 < m + 1 /\ m + 1 \in Nat /\ m + 1 <= Len(log) + 1
    BY <1>0, <1>5
  <2> QED
    BY <1>0, <2>1, StartsOrdered
<1>7. EndOf(log[cursor + 1]) = StartOf((cursor + 1) + 1)
  BY <1>0 DEF LogTiles
<1>8. (cursor + 1) + 1 = cursor + 2
  BY <1>0
<1> QED
  BY <1>1, <1>2, <1>3, <1>5, <1>6, <1>7, <1>8

(* The header under the poll is whole: that of the next record or of the   *)
(* pad before it, and it passes the test of the defensive resync.          *)
LEMMA HeaderSeen ==
  ASSUME RingInv, apc = "scan", pollRp < pollWp
  PROVE  \E h \in Rec :
           /\ HeadersAt(Offset(pollRp)) = {h} /\ ValidLen(h.len)
           /\ \/ /\ pollRp = log[cursor + 1].pos + log[cursor + 1].pad
                 /\ h = log[cursor + 1].rec
              \/ /\ log[cursor + 1].pad # 0
                 /\ pollRp = log[cursor + 1].pos
                 /\ h = PadOf(log[cursor + 1])
<1> DEFINE e == log[cursor + 1]
<1>0. /\ TypeOK /\ LogTiles /\ ReaderPlace /\ UnreadIntact /\ Aligned /\ apc # "idle"
      /\ readPos \in Nat
  BY DEF RingInv, SafeInv, TypeOK
<1>1. cursor + 1 \in DOMAIN log /\ readPos <= e.pos /\ StartOf(cursor + 1) = e.pos
  BY <1>0, RecordAhead, RecordUnread
<1>2. e \in Entry /\ e.pos \in Nat /\ e.pad \in Nat /\ e.rec \in Rec /\ e.rec.len \in Nat
      /\ e.pos + e.pad \in Nat
  BY <1>0, <1>1, EntryTypes
<1>3. EntryOK(e) /\ e.pad % Align = 0 /\ e.rec.len % Align = 0
  BY <1>0, <1>1 DEF LogTiles, Aligned
<1>4. PadIntact(e) /\ IntactAt(Offset(e.pos + e.pad), e.rec)
  BY <1>0, <1>1, <1>2 DEF UnreadIntact
<1>5. \/ pollRp = e.pos
      \/ e.pad # 0 /\ pollRp = e.pos + e.pad
  BY <1>0, <1>1 DEF ReaderPlace
<1> HIDE DEF e
<1>6. CASE pollRp = e.pos + e.pad
  <2>1. 0 \in 0 .. e.rec.len - 1 /\ HdrSize <= e.rec.len
    BY <1>2, <1>3, Sizes DEF EntryOK
  <2>2. Offset(pollRp) + 0 = Offset(pollRp) /\ Offset(pollRp) \in Nat
    BY <1>2, <1>6, OffsetFacts
  <2>3. mem[Offset(pollRp)] = [rec |-> e.rec, k |-> 0]
    BY <1>4, <1>6, <2>1, <2>2 DEF IntactAt
  <2>4. HeadersAt(Offset(pollRp)) = {e.rec}
    BY <2>3 DEF HeadersAt
  <2>5. e.rec.len <= DataSize
    BY <1>2, <1>3, <1>6, <2>2, Sizes DEF EntryOK
  <2> QED
    BY <1>2, <1>3, <1>6, <2>1, <2>4, <2>5 DEF ValidLen, e
<1>7. CASE e.pad # 0 /\ pollRp = e.pos
  <2>1. 0 \in 0 .. HdrSize - 1 /\ HdrSize <= e.pad /\ Offset(e.pos) + e.pad = DataSize
    BY <1>3, <1>7, Sizes DEF EntryOK
  <2>2. Offset(pollRp) + 0 = Offset(pollRp) /\ Offset(pollRp) \in Nat
    BY <1>2, <1>7, OffsetFacts
  <2>3. mem[Offset(pollRp)] = [rec |-> PadOf(e), k |-> 0]
    BY <1>4, <1>7, <2>1, <2>2 DEF PadIntact
  <2>4. HeadersAt(Offset(pollRp)) = {PadOf(e)}
    BY <2>3 DEF HeadersAt
  <2>5. PadOf(e).len = e.pad /\ e.pad <= DataSize
    BY <1>2, <1>7, <2>1, <2>2, Sizes DEF PadOf
  <2>6. PadOf(e) \in Rec
    <3>1. HeadersAt(Offset(pollRp)) \subseteq Rec
      BY <1>0, HeadersType DEF TypeOK
    <3> QED
      BY <2>4, <3>1
  <2> QED
    BY <1>3, <1>7, <2>1, <2>4, <2>5, <2>6 DEF ValidLen, e
<1>8. pollRp = e.pos + e.pad \/ (e.pad # 0 /\ pollRp = e.pos)
  <2>1. CASE e.pad = 0
    BY <1>2, <1>5, <2>1
  <2>2. CASE e.pad # 0
    BY <1>5, <2>2
  <2> QED
    BY <2>1, <2>2
<1> QED
  BY <1>6, <1>7, <1>8
(* The header a poll has accepted: by its type the record's or its pad's.  *)
LEMMA HeaderHeld ==
  ASSUME RingInv, apc = "record"
  PROVE  /\ pollRp < pollWp /\ cursor < Len(log) /\ cursor + 1 \in DOMAIN log
         /\ hdr.type # "WRAP" =>
              /\ pollRp = log[cursor + 1].pos + log[cursor + 1].pad
              /\ hdr = log[cursor + 1].rec
         /\ hdr.type = "WRAP" =>
              /\ log[cursor + 1].pad # 0 /\ pollRp = log[cursor + 1].pos
              /\ hdr.len = log[cursor + 1].pad
<1>0. TypeOK /\ LogTiles /\ ReaderPlace /\ apc # "idle"
  BY DEF RingInv, SafeInv
<1>1. /\ pollRp < pollWp
      /\ \/ /\ pollRp = log[cursor + 1].pos + log[cursor + 1].pad
            /\ hdr = log[cursor + 1].rec
         \/ /\ log[cursor + 1].pad # 0
            /\ pollRp = log[cursor + 1].pos
            /\ hdr = PadOf(log[cursor + 1])
  BY <1>0 DEF ReaderPlace
<1>2. cursor < Len(log) /\ cursor + 1 \in DOMAIN log
  BY <1>0, <1>1, RecordAhead
<1>3. log[cursor + 1].rec.type # "WRAP"
  BY <1>0, <1>2 DEF LogTiles, EntryOK
<1>4. PadOf(log[cursor + 1]).type = "WRAP" /\ PadOf(log[cursor + 1]).len = log[cursor + 1].pad
  BY DEF PadOf
<1> QED
  BY <1>1, <1>2, <1>3, <1>4

(* A poll and a restart leave the producers' side alone.                   *)
LEMMA AppFrame ==
  ASSUME Poll \/ Restart
  PROVE  /\ UNCHANGED <<kernelVars, writePos, statVars, mem, log>>
         /\ readPos' = readPos \/ PollEnd
<1>1. CASE Restart
  BY <1>1 DEF Restart
<1>2. CASE Poll
  BY <1>2 DEF Poll, PollBegin, PollHeader, PollResync, PollDeliver, PollSkip, PollEnd
<1> QED
  BY <1>1, <1>2

(* Where a poll is after each of its steps.                                *)
LEMMA ReaderStep ==
  ASSUME RingInv, Poll \/ Restart
  PROVE  ReaderPlace' /\ readPos <= readPos' /\ readPos' <= WritePos
<1>0. /\ TypeOK /\ LogTiles /\ ReaderPlace /\ Positions
      /\ Len(log) \in Nat /\ DOMAIN log = 1 .. Len(log)
      /\ committed \in Nat /\ cursor \in Nat /\ WritePos \in Nat /\ readPos \in Nat
      /\ pollWp \in Nat /\ pollRp \in Nat
  BY LogFacts DEF RingInv, SafeInv, TypeOK
<1>1. committed <= cursor /\ cursor <= Len(log) /\ readPos = StartOf(committed + 1)
      /\ readPos <= WritePos /\ writePos = WritePos
  BY <1>0 DEF ReaderPlace, Positions
<1>2. UNCHANGED <<WritePos, log>>
  BY AppFrame DEF kernelVars
<1>3. CASE PollBegin
  <2>1. /\ apc = "idle" /\ apc' = "scan" /\ pollWp' = WritePos /\ pollRp' = readPos
        /\ UNCHANGED <<readPos, cursor, committed>>
    BY <1>1, <1>3 DEF PollBegin
  <2>2. cursor = committed /\ pollRp' = StartOf(cursor + 1)
    BY <1>0, <1>1, <2>1 DEF ReaderPlace
  <2>3. Len(log) \in cursor .. Len(log) /\ pollWp' = StartOf(Len(log) + 1)
    BY <1>0, <1>1, <2>1 DEF StartOf
  <2>4. \E m \in cursor .. Len(log) : pollWp' = StartOf(m + 1)
    BY <2>3
  <2> QED
    BY <1>0, <1>1, <1>2, <2>1, <2>2, <2>4 DEF ReaderPlace, StartOf
<1>4. CASE PollHeader
  <2>1. /\ apc = "scan" /\ pollRp < pollWp /\ apc' = "record"
        /\ hdr' \in HeadersAt(Offset(pollRp))
        /\ UNCHANGED <<readPos, pollWp, pollRp, cursor, committed>>
    BY <1>4 DEF PollHeader
  <2>2. \/ /\ pollRp = log[cursor + 1].pos + log[cursor + 1].pad
           /\ hdr' = log[cursor + 1].rec
        \/ /\ log[cursor + 1].pad # 0
           /\ pollRp = log[cursor + 1].pos
           /\ hdr' = PadOf(log[cursor + 1])
    BY <2>1, HeaderSeen
  <2>3. apc # "idle" /\ apc' # "idle"
    BY <2>1
  <2> QED
    BY <1>0, <1>1, <1>2, <2>1, <2>2, <2>3 DEF ReaderPlace, StartOf, PadOf
<1>5. CASE PollResync
  <2>1. apc = "scan" /\ pollRp < pollWp /\ \E h \in HeadersAt(Offset(pollRp)) : ~ ValidLen(h.len)
    BY <1>5 DEF PollResync
  <2> QED
    BY <2>1, HeaderSeen
<1>6. CASE PollDeliver
  <2>1. /\ apc = "record" /\ hdr.type # "WRAP" /\ cursor' = cursor + 1
        /\ pollRp' = pollRp + hdr.len /\ apc' = "scan"
        /\ UNCHANGED <<readPos, pollWp, committed>>
    BY <1>6 DEF PollDeliver
  <2>2. /\ pollRp < pollWp /\ cursor < Len(log)
        /\ pollRp = log[cursor + 1].pos + log[cursor + 1].pad /\ hdr = log[cursor + 1].rec
    BY <2>1, HeaderHeld
  <2>3. pollRp' = EndOf(log[cursor + 1])
    BY <2>1, <2>2 DEF EndOf
  <2>4. /\ pollRp' <= pollWp /\ pollRp' = StartOf(cursor + 2)
        /\ \E m \in cursor + 1 .. Len(log) : pollWp = StartOf(m + 1)
    BY <1>0, <2>1, <2>2, <2>3, RecordUnread
  <2>5. hdr.len \in Nat /\ readPos <= pollRp /\ pollWp <= WritePos
    BY <1>0, <2>1 DEF TypeOK, Rec, ReaderPlace
  <2>6. readPos <= pollRp'
    BY <1>0, <2>1, <2>5
  <2>7. StartOf(cursor + 1)' = StartOf(cursor + 2)
    <3>1. cursor' + 1 = cursor + 2
      BY <1>0, <2>1
    <3> QED
      BY <1>2, <3>1 DEF StartOf
  <2>8. (\E m \in cursor .. Len(log) : pollWp = StartOf(m + 1))'
    BY <1>2, <2>1, <2>4 DEF StartOf
  <2>9. committed' <= cursor' /\ cursor' <= Len(log')
    BY <1>0, <1>1, <1>2, <2>1, <2>2
  <2>10. readPos' = StartOf(committed + 1)'
    BY <1>1, <1>2, <2>1 DEF StartOf
  <2>11. (readPos <= pollRp /\ pollRp <= pollWp /\ pollWp <= WritePos)'
    BY <1>2, <2>1, <2>4, <2>5, <2>6
  <2>12. apc' # "idle" /\ apc' # "record" /\ pollRp' = StartOf(cursor + 1)'
    BY <2>1, <2>4, <2>7
  <2>13. ReaderPlace'
    BY <2>8, <2>9, <2>10, <2>11, <2>12 DEF ReaderPlace
  <2> QED
    BY <1>0, <1>1, <2>1, <2>13
<1>7. CASE PollSkip
  <2>1. /\ apc = "record" /\ hdr.type = "WRAP" /\ apc' = "scan"
        /\ pollRp' = pollRp + hdr.len
        /\ UNCHANGED <<readPos, pollWp, cursor, committed>>
    BY <1>7 DEF PollSkip
  <2>2. /\ pollRp < pollWp /\ cursor < Len(log) /\ cursor + 1 \in DOMAIN log
        /\ log[cursor + 1].pad # 0 /\ pollRp = log[cursor + 1].pos
        /\ hdr.len = log[cursor + 1].pad
    BY <2>1, HeaderHeld
  <2>3. pollRp' = log[cursor + 1].pos + log[cursor + 1].pad
    BY <2>1, <2>2
  <2>4. /\ log[cursor + 1].pos \in Nat /\ log[cursor + 1].pad \in Nat
        /\ log[cursor + 1].rec.len \in Nat
    BY <1>0, <2>2, EntryTypes
  <2>5. EndOf(log[cursor + 1]) <= pollWp /\ HdrSize <= log[cursor + 1].rec.len
    BY <1>0, <2>1, <2>2, RecordUnread DEF LogTiles, EntryOK
  <2>6. pollRp' < pollWp /\ readPos <= pollRp' /\ pollWp <= WritePos
    <3>1. readPos <= pollRp /\ pollWp <= WritePos
      BY <1>0, <2>1 DEF ReaderPlace
    <3>2. pollRp' + log[cursor + 1].rec.len <= pollWp
      BY <2>3, <2>5 DEF EndOf
    <3>3. pollRp' \in Nat /\ pollRp <= pollRp'
      BY <1>0, <2>2, <2>3, <2>4
    <3>4. pollRp' < pollWp
      BY <1>0, <2>4, <2>5, <3>2, <3>3, Sizes
    <3> QED
      BY <1>0, <3>1, <3>3, <3>4
  <2>7. (\E m \in cursor .. Len(log) : pollWp = StartOf(m + 1))'
    BY <1>0, <1>2, <2>1 DEF ReaderPlace, StartOf
  <2>8. /\ committed' <= cursor' /\ cursor' <= Len(log')
        /\ readPos' = StartOf(committed + 1)'
    BY <1>1, <1>2, <2>1 DEF StartOf
  <2>9. (/\ cursor < Len(log) /\ log[cursor + 1].pad # 0
         /\ pollRp = log[cursor + 1].pos + log[cursor + 1].pad
         /\ pollRp < pollWp)'
    BY <1>2, <2>1, <2>2, <2>3, <2>6
  <2>10. /\ apc' # "idle" /\ apc' # "record"
         /\ (readPos <= pollRp /\ pollRp <= pollWp /\ pollWp <= WritePos)'
    <3>1. pollRp' <= pollWp
      BY <1>0, <2>3, <2>4, <2>6
    <3> QED
      BY <1>2, <2>1, <2>6, <3>1
  <2>11. ReaderPlace'
    BY <2>7, <2>8, <2>9, <2>10 DEF ReaderPlace
  <2> QED
    BY <1>0, <1>1, <2>1, <2>11
<1>8. CASE PollEnd
  <2>1. /\ apc = "scan" /\ pollRp >= pollWp /\ readPos' = pollRp /\ committed' = cursor
        /\ apc' = "idle" /\ UNCHANGED <<pollWp, pollRp, cursor>>
    BY <1>8 DEF PollEnd
  <2>2. apc # "idle" /\ ~ (pollRp < pollWp)
    BY <1>0, <2>1
  <2>3. pollRp = StartOf(cursor + 1) /\ readPos <= pollRp /\ pollRp <= pollWp /\ pollWp <= WritePos
    BY <1>0, <2>2 DEF ReaderPlace
  <2>4. readPos' = StartOf(committed + 1)'
    BY <1>2, <2>1, <2>3 DEF StartOf
  <2>5. committed' <= cursor' /\ cursor' <= Len(log') /\ apc' # "record" /\ cursor' = committed'
    BY <1>0, <1>1, <1>2, <2>1
  <2>6. ReaderPlace'
    BY <2>1, <2>4, <2>5 DEF ReaderPlace
  <2> QED
    BY <1>0, <2>1, <2>3, <2>6
<1>9. CASE Restart
  <2>1. apc' = "idle" /\ cursor' = committed /\ UNCHANGED <<readPos, committed>>
    BY <1>9 DEF Restart
  <2>2. readPos' = StartOf(committed + 1)' /\ committed <= Len(log)
    BY <1>0, <1>1, <1>2, <2>1 DEF StartOf
  <2>3. ReaderPlace'
    BY <1>0, <1>2, <2>1, <2>2 DEF ReaderPlace
  <2> QED
    BY <1>0, <1>1, <2>1, <2>3
<1> QED
  BY <1>3, <1>4, <1>5, <1>6, <1>7, <1>8, <1>9 DEF Poll
(* What a poll delivers is the next accepted record, whole.                *)
LEMMA DeliverFacts ==
  ASSUME RingInv, PollDeliver
  PROVE  /\ cursor < Len(log) /\ cursor + 1 \in DOMAIN log
         /\ inbox' = Append(inbox, log[cursor + 1].rec)
         /\ log[cursor + 1].rec \in Rec
         /\ cursor' = cursor + 1
<1>0. TypeOK /\ LogTiles /\ ReaderPlace /\ UnreadIntact /\ readPos \in Nat
  BY DEF RingInv, SafeInv, TypeOK
<1>1. /\ apc = "record" /\ hdr.type # "WRAP" /\ apc # "idle" /\ cursor' = cursor + 1
      /\ inbox' = Append(inbox, Seen(Offset(pollRp), hdr))
  BY DEF PollDeliver
<1>2. /\ pollRp < pollWp /\ cursor < Len(log) /\ cursor + 1 \in DOMAIN log
      /\ pollRp = log[cursor + 1].pos + log[cursor + 1].pad /\ hdr = log[cursor + 1].rec
  BY <1>1, HeaderHeld
<1>3. log[cursor + 1].pos >= readPos /\ log[cursor + 1].rec \in Rec
  BY <1>0, <1>1, <1>2, RecordUnread, EntryTypes
<1>4. IntactAt(Offset(pollRp), hdr)
  BY <1>0, <1>2, <1>3 DEF UnreadIntact
<1> QED
  BY <1>1, <1>2, <1>3, <1>4 DEF Seen

(* A delivery extends the run of accepted records the app has received; a  *)
(* restart empties it.                                                     *)
LEMMA InboxStep ==
  ASSUME RingInv, Poll \/ Restart
  PROVE  InboxFaithful'
<1>0. /\ TypeOK /\ InboxFaithful /\ ReaderPlace /\ Len(log) \in Nat /\ DOMAIN log = 1 .. Len(log)
      /\ cursor \in Nat /\ committed \in Nat /\ inbox \in Seq(Rec) /\ Len(inbox) \in Nat
  BY LogFacts DEF RingInv, SafeInv, TypeOK
<1>1. log' = log
  BY AppFrame
<1>2. CASE PollDeliver
  <2>1. /\ cursor < Len(log) /\ inbox' = Append(inbox, log[cursor + 1].rec)
        /\ log[cursor + 1].rec \in Rec /\ cursor' = cursor + 1
    BY <1>2, DeliverFacts
  <2>2. /\ Len(inbox') = Len(inbox) + 1 /\ DOMAIN inbox' = 1 .. Len(inbox) + 1
        /\ \A i \in 1 .. Len(inbox) : inbox'[i] = inbox[i]
        /\ inbox'[Len(inbox) + 1] = log[cursor + 1].rec
    BY <1>0, <2>1
  <2>3. Len(inbox') <= cursor' /\ cursor' <= Len(log')
    BY <1>0, <1>1, <2>1, <2>2 DEF InboxFaithful
  <2>4. ASSUME NEW i \in DOMAIN inbox'
        PROVE  inbox'[i] = log[cursor' - Len(inbox') + i].rec
    <3>1. CASE i \in 1 .. Len(inbox)
      <4>1. inbox[i] = log[cursor - Len(inbox) + i].rec
        BY <1>0, <3>1 DEF InboxFaithful
      <4>2. cursor' - Len(inbox') + i = cursor - Len(inbox) + i
        BY <1>0, <2>1, <2>2, <3>1
      <4> QED
        BY <2>2, <3>1, <4>1, <4>2
    <3>2. CASE i = Len(inbox) + 1
      <4>1. cursor' - Len(inbox') + i = cursor + 1
        BY <1>0, <2>1, <2>2, <3>2
      <4> QED
        BY <2>2, <3>2, <4>1
    <3> QED
      BY <1>0, <2>2, <2>4, <3>1, <3>2
  <2> QED
    BY <1>1, <2>3, <2>4 DEF InboxFaithful
<1>3. CASE Restart
  <2>1. inbox' = <<>> /\ cursor' = committed
    BY <1>3 DEF Restart
  <2>2. committed <= Len(log)
    BY <1>0 DEF ReaderPlace
  <2>3. Len(inbox') = 0 /\ DOMAIN inbox' = {}
    BY <2>1
  <2> QED
    BY <1>0, <1>1, <2>1, <2>2, <2>3 DEF InboxFaithful
<1>4. CASE PollBegin \/ PollHeader \/ PollResync \/ PollSkip \/ PollEnd
  <2>1. UNCHANGED <<inbox, cursor>>
    BY <1>4 DEF PollBegin, PollHeader, PollResync, PollSkip, PollEnd
  <2> QED
    BY <1>0, <1>1, <2>1 DEF InboxFaithful
<1> QED
  BY <1>2, <1>3, <1>4 DEF Poll

-----------------------------------------------------------------------------
(* RingInv is inductive.                                                   *)

(* The ring as KndRingCreate leaves it: everything is empty.               *)
LEMMA RingInit == Init => RingInv
<1> SUFFICES ASSUME Init PROVE RingInv
  OBVIOUS
<1>1. SafeInv
  BY SafeInit
<1>2. /\ log = <<>> /\ Len(log) = 0 /\ DOMAIN log = {} /\ inbox = <<>> /\ Len(inbox) = 0
      /\ DOMAIN inbox = {}
      /\ pc = [c \in Cpus |-> "idle"] /\ lock = NoCpu /\ NextSequence = 0
      /\ WritePos = 0 /\ writePos = 0 /\ readPos = 0 /\ apc = "idle"
      /\ cursor = 0 /\ committed = 0 /\ totalBytes = 0 /\ totalRecords = 0
  BY DEF Init
<1>3. 0 % Align = 0
  BY Sizes, MultipleAligned
<1>4. Aligned
  BY <1>2, <1>3 DEF Aligned, Storing
<1>5. LogTiles
  BY <1>2 DEF LogTiles, StartOf
<1>6. Positions
  BY <1>2, Sizes DEF Positions, Storing
<1>7. ReaderPlace
  BY <1>2 DEF ReaderPlace, StartOf
<1>8. StoredSoFar /\ UnreadIntact /\ InboxFaithful
  BY <1>2 DEF StoredSoFar, UnreadIntact, InboxFaithful
<1>9. Numbering /\ Counters
  BY <1>2 DEF Numbering, SequenceDense, LastSeq, Counters, StatsMatchRing, Storing
<1> QED
  BY <1>1, <1>4, <1>5, <1>6, <1>7, <1>8, <1>9 DEF RingInv

(* Every step of KndRingWrite, of KndClient::poll and of a restart         *)
(* preserves the invariant.                                                *)
LEMMA RingStep == RingInv /\ [Next]_vars => RingInv'
<1> SUFFICES ASSUME RingInv, [Next]_vars PROVE RingInv'
  OBVIOUS
<1>0. /\ SafeInv /\ TypeOK /\ Aligned /\ LogTiles /\ Positions /\ ReaderPlace
      /\ StoredSoFar /\ UnreadIntact /\ InboxFaithful /\ Numbering /\ Counters
  BY DEF RingInv, SafeInv
<1>1. SafeInv' /\ TypeOK'
  <2>1. [HostileNext]_vars
    BY DEF HostileNext
  <2>2. SafeInv'
    BY <1>0, <2>1, SafeStep
  <2> QED
    BY <2>2 DEF SafeInv
<1>2. ASSUME NEW c \in Cpus, Producer(c) PROVE RingInv'
  <2>1. Aligned' /\ LogTiles' /\ Positions'
    BY <1>0, <1>2, AlignedStep, TilesStep, PositionsStep
  <2>2. ReaderPlace' /\ InboxFaithful'
    BY <1>0, <1>2, ReaderKept, InboxKept
  <2>3. StoredSoFar' /\ UnreadIntact'
    BY <1>0, <1>2, StoredStep, UnreadStep
  <2>4. Numbering' /\ Counters'
    BY <1>0, <1>1, <1>2, NumberingStep, CountersStep
  <2> QED
    BY <1>1, <2>1, <2>2, <2>3, <2>4 DEF RingInv
<1>a. ASSUME UNCHANGED <<kernelVars, writePos, statVars, mem, log>>,
             ReaderPlace', InboxFaithful',
             readPos \in Nat, readPos' \in Nat, readPos <= readPos', readPos' <= WritePos
      PROVE  RingInv'
  <2>0. /\ UNCHANGED <<lock, pc, loc, WritePos, NextSequence, writePos, mem, log>>
        /\ UNCHANGED <<totalRecords, totalBytes>>
    BY <1>a DEF kernelVars, statVars
  <2>1. Aligned' /\ LogTiles'
    BY <1>0, <2>0 DEF Aligned, LogTiles, StartOf, EntryOK, EndOf, Offset
  <2>2. Positions'
    <3>1. ASSUME NEW c \in Cpus, pc'[c] \in Storing
          PROVE  (WritePos + loc[c].pad + loc[c].len - readPos <= DataSize)'
      <4>1. WritePos + loc[c].pad + loc[c].len - readPos <= DataSize
        BY <1>0, <2>0, <3>1 DEF Positions
      <4>2. loc[c].pad \in Nat /\ loc[c].len \in Nat /\ WritePos \in Nat
        BY <1>0, <2>0, <3>1, CallFacts
      <4>3. WritePos + loc[c].pad + loc[c].len - readPos' <= DataSize
        BY <1>a, <4>1, <4>2, Sizes
      <4> QED
        BY <2>0, <4>3
    <3>2. writePos = WritePos /\ WritePos - readPos <= DataSize /\ WritePos \in Nat
      BY <1>0 DEF Positions, TypeOK
    <3>3. WritePos - readPos' <= DataSize
      <4>1. readPos \in Nat /\ readPos' \in Nat /\ readPos <= readPos' /\ DataSize \in Nat
        BY <1>a, Sizes
      <4>2. \A a, b, w, d \in Nat : a <= b /\ w - a <= d => w - b <= d
        OBVIOUS
      <4> QED
        BY <3>2, <4>1, <4>2
    <3> QED
      BY <1>a, <2>0, <3>1, <3>2, <3>3 DEF Positions
  <2>3. StoredSoFar'
    BY <1>0, <2>0 DEF StoredSoFar, StoredHeader, IntactAt, PadRec, MainRec, Offset
  <2>4. UnreadIntact'
    <3> SUFFICES ASSUME NEW i \in DOMAIN log, log[i].pos >= readPos'
                 PROVE  (PadIntact(log[i]) /\ IntactAt(Offset(log[i].pos + log[i].pad), log[i].rec))'
      BY <2>0 DEF UnreadIntact
    <3>1. log[i].pos \in Nat
      BY <1>0, EntryTypes
    <3>2. log[i].pos >= readPos
      BY <1>a, <3>1
    <3>3. PadIntact(log[i]) /\ IntactAt(Offset(log[i].pos + log[i].pad), log[i].rec)
      BY <1>0, <3>2 DEF UnreadIntact
    <3> QED
      BY <2>0, <3>3 DEF PadIntact, IntactAt, PadOf, Offset
  <2>5. Numbering' /\ Counters'
    BY <1>0, <2>0 DEF Numbering, SequenceDense, LastSeq, Counters, StatsMatchRing
  <2> QED
    BY <1>1, <1>a, <2>1, <2>2, <2>3, <2>4, <2>5 DEF RingInv
<1>3. ASSUME Poll \/ Restart PROVE RingInv'
  <2>1. ReaderPlace' /\ readPos <= readPos' /\ readPos' <= WritePos /\ InboxFaithful'
    BY <1>3, ReaderStep, InboxStep
  <2>2. readPos \in Nat /\ readPos' \in Nat
    BY <1>0, <1>1 DEF TypeOK
  <2>3. UNCHANGED <<kernelVars, writePos, statVars, mem, log>>
    BY <1>3, AppFrame
  <2> QED
    BY <1>a, <2>1, <2>2, <2>3
<1>4. ASSUME UNCHANGED vars PROVE RingInv'
  <2>1. /\ UNCHANGED <<kernelVars, writePos, statVars, mem, log>>
        /\ UNCHANGED <<WritePos, log, readPos, apc, pollWp, pollRp, hdr, inbox, cursor, committed>>
    BY <1>4 DEF vars, kernelVars, appVars
  <2>2. ReaderPlace' /\ InboxFaithful'
    BY <1>0, <2>1 DEF ReaderPlace, StartOf, PadOf, InboxFaithful
  <2>3. readPos \in Nat /\ readPos' = readPos /\ readPos <= readPos' /\ readPos' <= WritePos
    BY <1>0, <2>1 DEF TypeOK, Positions
  <2> QED
    BY <1>a, <2>1, <2>2, <2>3
<1> QED
  BY <1>2, <1>3, <1>4 DEF Next

(* The invariant of the ring holds while the consumer keeps to the         *)
(* protocol of KndClient::poll, wherever it dies and restarts.             *)
THEOREM RingCorrect == Spec => []RingInv
BY RingInit, RingStep, PTL DEF Spec

(* knd_protocol.h: "every record is physically contiguous and can be cast  *)
(* straight to its struct": every accepted record not yet handed back is   *)
(* in the ring byte for byte.                                              *)
THEOREM UnreadWhole == Spec => []UnreadIntact
<1>1. RingInv => UnreadIntact
  BY DEF RingInv
<1> QED
  BY <1>1, RingCorrect, PTL

(* The callback of KndClient::poll receives a contiguous run of the        *)
(* accepted records, each of them whole and in order.                      *)
THEOREM ReceivedFaithfully == Spec => []InboxFaithful
<1>1. RingInv => InboxFaithful
  BY DEF RingInv
<1> QED
  BY <1>1, RingCorrect, PTL

(* knd_client.cpp: the defensive resync of poll is never taken.            *)
THEOREM ResyncUnreachable == Spec => []NeverResync
<1>1. RingInv => NeverResync
  BY HeaderSeen DEF NeverResync
<1> QED
  BY <1>1, RingCorrect, PTL

(* Accepted records are numbered without a gap but for their pads.         *)
THEOREM DenselyNumbered == Spec => []SequenceDense
<1>1. RingInv => SequenceDense
  BY DEF RingInv, Numbering
<1> QED
  BY <1>1, RingCorrect, PTL

(* The counters of the header agree with the ring whenever the lock is     *)
(* free.                                                                   *)
THEOREM StatsExact == Spec => []StatsMatchRing
<1>1. RingInv => StatsMatchRing
  BY DEF RingInv, Counters
<1> QED
  BY <1>1, RingCorrect, PTL
(* No step, of a producer or of the consumer, stores to a byte between the *)
(* two shared positions.                                                   *)
THEOREM UnreadNeverTouched == Spec => UnreadUntouched
<1>1. RingInv /\ [Next]_vars =>
        [\A p \in readPos .. writePos - 1 : mem'[Offset(p)] = mem[Offset(p)]]_vars
  <2> SUFFICES ASSUME RingInv, Next, NEW p \in readPos .. writePos - 1
               PROVE  mem'[Offset(p)] = mem[Offset(p)]
    OBVIOUS
  <2>1. /\ SafeInv /\ Positions /\ readPos \in Nat /\ WritePos \in Nat /\ writePos = WritePos
    BY DEF RingInv, SafeInv, TypeOK, Positions
  <2>2. p \in Nat /\ readPos <= p /\ p < WritePos
    BY <2>1
  <2>3. ASSUME NEW c \in Cpus, Producer(c) PROVE mem'[Offset(p)] = mem[Offset(p)]
    BY <2>1, <2>2, <2>3, UnreadKept
  <2>4. ASSUME Poll \/ Restart PROVE mem'[Offset(p)] = mem[Offset(p)]
    BY <2>4, AppFrame
  <2> QED
    BY <2>3, <2>4 DEF Next
<1> QED
  BY <1>1, RingCorrect, PTL DEF Spec, UnreadUntouched

-----------------------------------------------------------------------------
(* Every call is counted once.                                             *)

InCall == {c \in Cpus : pc[c] # "idle"}

(* The calls made are those counted and those still under way; at any time *)
(* finitely many are.                                                      *)
CallBalance ==
  /\ IsFiniteSet(InCall)
  /\ calls = totalRecords + droppedRecords + Cardinality(InCall)

(* A call enters, leaves, or stays what it is.                             *)
LEMMA BalanceStep ==
  ASSUME TypeOK, TypeOK', CallBalance, [Next]_vars
  PROVE  CallBalance'
<1>0. /\ pc \in [Cpus -> {"idle", "lock"} \cup Busy] /\ calls \in Nat
      /\ totalRecords \in Nat /\ droppedRecords \in Nat
      /\ pc' \in [Cpus -> {"idle", "lock"} \cup Busy]
  BY DEF TypeOK
<1>1. IsFiniteSet(InCall) /\ Cardinality(InCall) \in Nat
      /\ calls = totalRecords + droppedRecords + Cardinality(InCall)
  BY FS_CardinalityType DEF CallBalance
<1>a. ASSUME InCall' = InCall,
             calls' - totalRecords' - droppedRecords' = calls - totalRecords - droppedRecords,
             calls' \in Nat, totalRecords' \in Nat, droppedRecords' \in Nat
      PROVE  CallBalance'
  BY <1>0, <1>1, <1>a DEF CallBalance
<1>n. calls' \in Nat /\ totalRecords' \in Nat /\ droppedRecords' \in Nat
  BY DEF TypeOK
<1>2. ASSUME NEW c \in Cpus, NEW q \in Requests, RejectOversize(c, q) PROVE CallBalance'
  <2>1. /\ pc' = pc /\ calls' = calls + 1 /\ droppedRecords' = droppedRecords + 1
        /\ totalRecords' = totalRecords
    BY <1>2 DEF RejectOversize, kernelVars, Count
  <2>2. InCall' = InCall
    BY <2>1 DEF InCall
  <2> QED
    BY <1>0, <1>a, <1>n, <2>1, <2>2
<1>3. ASSUME NEW c \in Cpus, NEW q \in Requests, Enter(c, q) PROVE CallBalance'
  <2>1. /\ pc[c] = "idle" /\ pc' = [pc EXCEPT ![c] = "lock"] /\ calls' = calls + 1
        /\ droppedRecords' = droppedRecords /\ totalRecords' = totalRecords
    BY <1>3 DEF Enter, statVars
  <2>2. InCall' = InCall \cup {c} /\ c \notin InCall
    BY <1>0, <2>1 DEF InCall
  <2>3. /\ IsFiniteSet(InCall \cup {c})
        /\ Cardinality(InCall \cup {c}) = Cardinality(InCall) + 1
    BY <1>1, <2>2, FS_AddElement
  <2> QED
    BY <1>0, <1>1, <2>1, <2>2, <2>3 DEF CallBalance
<1>4. ASSUME NEW c \in Cpus, DropInconsistent(c) \/ DropFull(c) \/ Account(c) PROVE CallBalance'
  <2>1. /\ pc[c] # "idle" /\ pc' = [pc EXCEPT ![c] = "idle"] /\ calls' = calls
        /\ \/ droppedRecords' = droppedRecords + 1 /\ totalRecords' = totalRecords
           \/ droppedRecords' = droppedRecords /\ totalRecords' = totalRecords + 1
    BY <1>4 DEF DropInconsistent, DropFull, Account, Count, boundVars
  <2>2. InCall' = InCall \ {c} /\ c \in InCall
    BY <1>0, <2>1 DEF InCall
  <2>3. /\ IsFiniteSet(InCall \ {c})
        /\ Cardinality(InCall \ {c}) = Cardinality(InCall) - 1
    BY <1>1, <2>2, FS_RemoveElement
  <2> QED
    BY <1>0, <1>1, <2>1, <2>2, <2>3 DEF CallBalance
<1>5. ASSUME NEW c \in Cpus,
             Reserve(c) \/ WritePad(c) \/ WriteHeader(c) \/ WriteBody(c) \/ Publish(c)
      PROVE  CallBalance'
  <2>1. /\ pc[c] # "idle" /\ calls' = calls
        /\ droppedRecords' = droppedRecords /\ totalRecords' = totalRecords
        /\ \E x \in Busy : pc' = [pc EXCEPT ![c] = x]
    BY <1>5 DEF Reserve, WritePad, WriteHeader, WriteBody, Publish, boundVars, statVars, Busy
  <2>2. InCall' = InCall
    BY <1>0, <2>1 DEF InCall, Busy
  <2> QED
    BY <1>0, <1>a, <1>n, <2>1, <2>2
<1>6. ASSUME Poll \/ Restart \/ UNCHANGED vars PROVE CallBalance'
  <2>1. UNCHANGED <<pc, calls, totalRecords, droppedRecords>>
    <3>1. CASE Poll \/ Restart
      <4>1. UNCHANGED kernelVars /\ UNCHANGED statVars
        BY <3>1, AppFrame
      <4>2. calls' = calls
        BY <3>1 DEF Poll, PollBegin, PollHeader, PollResync, PollDeliver, PollSkip, PollEnd,
                    Restart, boundVars
      <4> QED
        BY <4>1, <4>2 DEF kernelVars, statVars
    <3>2. CASE UNCHANGED vars
      BY <3>2 DEF vars, kernelVars, statVars, boundVars
    <3> QED
      BY <1>6, <3>1, <3>2
  <2>2. InCall' = InCall
    BY <2>1 DEF InCall
  <2> QED
    BY <1>0, <1>a, <1>n, <2>1, <2>2
<1> QED
  BY <1>2, <1>3, <1>4, <1>5, <1>6 DEF Next, Producer, Proceed

(* When no call is under way every call made was counted, as written or as *)
(* dropped, exactly once.                                                  *)
THEOREM CallsAccounted == Spec => []EveryCallCounted
<1>1. Init => CallBalance
  <2> SUFFICES ASSUME Init PROVE CallBalance
    OBVIOUS
  <2>1. InCall = {} /\ calls = 0 /\ totalRecords = 0 /\ droppedRecords = 0
    BY DEF Init, InCall
  <2>2. IsFiniteSet({}) /\ Cardinality({}) = 0
    BY FS_EmptySet
  <2> QED
    BY <2>1, <2>2 DEF CallBalance
<1>2. RingInv /\ RingInv' /\ CallBalance /\ [Next]_vars => CallBalance'
  BY BalanceStep DEF RingInv, SafeInv
<1>3. RingInv /\ CallBalance => EveryCallCounted
  <2> SUFFICES ASSUME RingInv, CallBalance, \A c \in Cpus : pc[c] = "idle"
               PROVE  calls = totalRecords + droppedRecords
    BY DEF EveryCallCounted
  <2>1. InCall = {} /\ Cardinality({}) = 0
    BY FS_EmptySet DEF InCall
  <2>2. totalRecords \in Nat /\ droppedRecords \in Nat
    BY DEF RingInv, SafeInv, TypeOK
  <2> QED
    BY <2>1, <2>2 DEF CallBalance
<1> QED
  BY <1>1, <1>2, <1>3, RingCorrect, PTL DEF Spec

-----------------------------------------------------------------------------
(* Refinement.                                                             *)

(* The records of a log are a sequence as long as the log.                 *)
LEMMA RecordsOf ==
  ASSUME NEW s \in Seq(Entry)
  PROVE  /\ [i \in DOMAIN s |-> s[i].rec] \in Seq(Rec)
         /\ Len([i \in DOMAIN s |-> s[i].rec]) = Len(s)
         /\ DOMAIN [i \in DOMAIN s |-> s[i].rec] = 1 .. Len(s)
<1>1. Len(s) \in Nat /\ DOMAIN s = 1 .. Len(s)
  OBVIOUS
<1>2. \A i \in DOMAIN s : s[i].rec \in Rec
  <2>1. \A i \in DOMAIN s : s[i] \in Entry
    OBVIOUS
  <2> QED
    BY <2>1 DEF Entry
<1> DEFINE t == [i \in DOMAIN s |-> s[i].rec]
<1>3. t \in [1 .. Len(s) -> Rec]
  BY <1>1, <1>2
<1> HIDE DEF t
<1>4. t \in Seq(Rec) /\ Len(t) = Len(s) /\ DOMAIN t = 1 .. Len(s)
  BY <1>1, <1>3
<1> QED
  BY <1>4 DEF t

(* Every step of the ring is a step of the queue or none.                  *)
LEMMA QueueStep == RingInv /\ RingInv' /\ [Next]_vars => [Queue!QNext]_(Queue!qvars)
<1> SUFFICES ASSUME RingInv, RingInv', [Next]_vars
             PROVE  [Queue!QNext]_(Queue!qvars)
  OBVIOUS
<1> DEFINE accepted == [i \in DOMAIN log |-> log[i].rec]
<1>0. /\ SafeInv /\ TypeOK /\ TypeOK' /\ log \in Seq(Entry) /\ log' \in Seq(Entry)
      /\ Len(log) \in Nat /\ DOMAIN log = 1 .. Len(log) /\ cursor \in Nat
  BY LogFacts DEF RingInv, SafeInv, TypeOK
<1>1. /\ Len(accepted) = Len(log) /\ DOMAIN accepted = 1 .. Len(log)
      /\ \A i \in DOMAIN log : accepted[i] = log[i].rec
  BY <1>0, RecordsOf
<1>2. /\ Len(accepted') = Len(log')
      /\ \A i \in DOMAIN log' : accepted'[i] = log'[i].rec
  BY <1>0, RecordsOf
<1>a. ASSUME log' = log PROVE accepted' = accepted
  BY <1>a
<1> HIDE DEF accepted
<1>3. ASSUME NEW c \in Cpus, Publish(c), Producer(c) PROVE Queue!Accept
  <2>1. /\ Len(log') = Len(log) + 1 /\ DOMAIN log' = 1 .. Len(log) + 1
        /\ \A i \in DOMAIN log : log'[i] = log[i]
    BY <1>0, <1>3, PublishAccepts
  <2>2. UNCHANGED <<inbox, cursor, committed>>
    BY <1>0, <1>3, ProducerFrame
  <2>3. Len(accepted') = Len(accepted) + 1
    BY <1>1, <1>2, <2>1
  <2>4. Len(accepted') \in DOMAIN log'
    BY <1>0, <1>2, <2>1
  <2>5. accepted'[Len(accepted')] \in Rec
    <3>1. log'[Len(accepted')] \in Entry
      BY <1>0, <2>4
    <3> QED
      BY <1>2, <2>4, <3>1 DEF Entry
  <2>6. \A i \in DOMAIN accepted : accepted'[i] = accepted[i]
    <3> SUFFICES ASSUME NEW i \in DOMAIN accepted PROVE accepted'[i] = accepted[i]
      OBVIOUS
    <3>1. i \in DOMAIN log /\ i \in DOMAIN log'
      BY <1>0, <1>1, <2>1
    <3> QED
      BY <1>1, <1>2, <2>1, <3>1
  <2> QED
    BY <2>2, <2>3, <2>5, <2>6 DEF Queue!Accept, accepted
<1>4. ASSUME NEW c \in Cpus, ~ Publish(c), Producer(c) PROVE UNCHANGED Queue!qvars
  <2>1. log' = log /\ UNCHANGED <<inbox, cursor, committed>>
    BY <1>0, <1>4, NoPublishFrame, ProducerFrame
  <2> QED
    BY <1>a, <2>1 DEF Queue!qvars, accepted
<1>5. CASE PollDeliver
  <2>1. /\ cursor < Len(log) /\ cursor + 1 \in DOMAIN log
        /\ inbox' = Append(inbox, log[cursor + 1].rec) /\ cursor' = cursor + 1
    BY <1>5, DeliverFacts
  <2>2. log' = log /\ committed' = committed
    BY <1>5 DEF PollDeliver
  <2>3. accepted[cursor + 1] = log[cursor + 1].rec /\ accepted' = accepted
    BY <1>1, <1>a, <2>1, <2>2
  <2>4. Queue!Deliver
    BY <1>1, <2>1, <2>2, <2>3 DEF Queue!Deliver, accepted
  <2> QED
    BY <2>4 DEF Queue!QNext
<1>6. CASE PollEnd
  <2>1. log' = log /\ committed' = cursor /\ UNCHANGED <<inbox, cursor>>
    BY <1>6 DEF PollEnd
  <2>2. Queue!Commit
    BY <1>a, <2>1 DEF Queue!Commit, accepted
  <2> QED
    BY <2>2 DEF Queue!QNext
<1>7. CASE Restart
  <2>1. log' = log /\ cursor' = committed /\ inbox' = <<>> /\ committed' = committed
    BY <1>7 DEF Restart
  <2>2. Queue!Restart
    BY <1>a, <2>1 DEF Queue!Restart, accepted
  <2> QED
    BY <2>2 DEF Queue!QNext
<1>8. CASE PollBegin \/ PollHeader \/ PollResync \/ PollSkip \/ UNCHANGED vars
  <2>1. log' = log /\ UNCHANGED <<inbox, cursor, committed>>
    BY <1>8 DEF PollBegin, PollHeader, PollResync, PollSkip, vars, appVars
  <2> QED
    BY <1>a, <2>1 DEF Queue!qvars, accepted
<1> QED
  BY <1>3, <1>4, <1>5, <1>6, <1>7, <1>8 DEF Next, Poll, Queue!QNext

(* The ring implements the queue: what KndRingWrite accepts comes out of   *)
(* KndClient::poll whole, once and in order, and a restarted app resumes   *)
(* at the last position handed back.                                       *)
THEOREM RingImplementsQueue == Spec => ImplementsQueue
<1>1. Init => Queue!QInit
  <2> SUFFICES ASSUME Init PROVE Queue!QInit
    OBVIOUS
  <2>1. log = <<>> /\ cursor = 0 /\ committed = 0 /\ inbox = <<>>
    BY DEF Init
  <2>2. [i \in DOMAIN log |-> log[i].rec] = <<>>
    BY <2>1
  <2> QED
    BY <2>1, <2>2 DEF Queue!QInit
<1> QED
  BY <1>1, QueueStep, RingCorrect, PTL DEF Spec, ImplementsQueue, Queue!QSpec
=============================================================================
