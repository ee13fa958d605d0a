---------------------------- MODULE KndRingInv -----------------------------
(***************************************************************************)
(* The inductive invariants of KndRing: SafeInv holds whatever a faulty    *)
(* consumer stores into the mapping (HostileSpec) and bounds every store   *)
(* of the producer; RingInv adds what is true while the consumer keeps to  *)
(* the protocol (Spec), down to the bytes of every record not yet read.    *)
(***************************************************************************)
EXTENDS KndRing

Storing == {"pad", "header", "body", "publish"}

(* The CPUs between acquiring and releasing ProducerLock: at most one.     *)
LockHeld == \A c \in Cpus : pc[c] \in Busy <=> lock = c

(* "contig is either the whole buffer or >= sizeof(KND_RECORD) here, so    *)
(* the WRAP header always fits".                                           *)
HeaderRoom(p) == Offset(p) + HdrSize <= DataSize

(* A reservation l made at position p.  That a pad leaves header room      *)
(* behind its record, although the absorb rule is not applied to a record  *)
(* that wraps, is because pad and record together fit in one lap.          *)
PlanOK(p, l) ==
  /\ HdrSize <= l.len
  /\ l.pad = 0 \/ l.pad = Contig(p)
  /\ l.pad + l.len <= DataSize
  /\ \/ Offset(p + l.pad) + l.len = DataSize
     \/ Offset(p + l.pad) + l.len + HdrSize <= DataSize

(* Where a call with program counter at and local variables l is.          *)
CallPlanned(at, l) ==
  /\ at = "lock" => HdrSize <= l.len /\ l.len <= DataSize
  /\ at \in Storing => PlanOK(WritePos, l)
  /\ at = "pad" => l.pad # 0 /\ l.wp = WritePos
  /\ at \in {"header", "body"} => l.wp = WritePos + l.pad
  /\ at = "publish" => l.wp = WritePos + l.pad + l.len

CallsPlanned == \A c \in Cpus : CallPlanned(pc[c], loc[c])

(* Inductive under HostileNext.                                            *)
SafeInv == TypeOK /\ LockHeld /\ HeaderRoom(WritePos) /\ CallsPlanned

-----------------------------------------------------------------------------
EndOf(e) == e.pos + e.pad + e.rec.len

(* Where the i-th accepted record starts, or will.                         *)
StartOf(i) == IF i <= Len(log) THEN log[i].pos ELSE WritePos

(* Everything the ring lays out is a multiple of the alignment.            *)
Aligned ==
  /\ WritePos % Align = 0
  /\ \A c \in Cpus : pc[c] \in {"lock"} \cup Storing =>
       loc[c].len % Align = 0 /\ loc[c].pad % Align = 0
  /\ \A i \in DOMAIN log : log[i].pad % Align = 0 /\ log[i].rec.len % Align = 0

(* An accepted record: neither it nor its pad crosses the end.             *)
EntryOK(e) ==
  /\ e.rec.type # "WRAP"
  /\ HdrSize <= e.rec.len
  /\ e.pad # 0 => HdrSize <= e.pad /\ Offset(e.pos) + e.pad = DataSize
  /\ Offset(e.pos + e.pad) + e.rec.len <= DataSize

(* The accepted records tile the positions from 0 to WritePos.             *)
LogTiles ==
  /\ StartOf(1) = 0
  /\ \A i \in DOMAIN log :
       /\ EntryOK(log[i])
       /\ EndOf(log[i]) = StartOf(i + 1)
       /\ EndOf(log[i]) <= WritePos
  /\ \A i, j \in DOMAIN log : i < j => EndOf(log[i]) <= log[j].pos

(* The shared positions, and the room of a reservation under way: the      *)
(* readPos it was computed from may be old, never too new.                 *)
Positions ==
  /\ writePos = WritePos
  /\ readPos <= WritePos /\ WritePos - readPos <= DataSize
  /\ \A c \in Cpus : pc[c] \in Storing =>
       WritePos + loc[c].pad + loc[c].len - readPos <= DataSize

(* The consumer's place in the accepted records.                           *)
ReaderPlace ==
  /\ committed <= cursor /\ cursor <= Len(log)
  /\ readPos = StartOf(committed + 1)
  /\ apc = "idle" => cursor = committed
  /\ apc # "idle" =>
       /\ readPos <= pollRp /\ pollRp <= pollWp /\ pollWp <= WritePos
       /\ \E m \in cursor .. Len(log) : pollWp = StartOf(m + 1)
       /\ \/ pollRp = StartOf(cursor + 1)
          \/ /\ cursor < Len(log) /\ log[cursor + 1].pad # 0
             /\ pollRp = log[cursor + 1].pos + log[cursor + 1].pad
             /\ pollRp < pollWp
  /\ apc = "record" =>
       /\ pollRp < pollWp
       /\ \/ /\ pollRp = log[cursor + 1].pos + log[cursor + 1].pad
             /\ hdr = log[cursor + 1].rec
          \/ /\ log[cursor + 1].pad # 0
             /\ pollRp = log[cursor + 1].pos
             /\ hdr = PadOf(log[cursor + 1])

(* The bytes a call under way has stored so far.                           *)
StoredHeader(off, r) == \A k \in 0 .. HdrSize - 1 : mem[off + k] = [rec |-> r, k |-> k]

StoredSoFar ==
  \A c \in Cpus :
    LET l == loc[c]
        padSeq == IF pc[c] = "header" THEN l.seq ELSE l.seq - 1
    IN  /\ pc[c] \in {"header", "body", "publish"} /\ l.pad # 0 =>
             StoredHeader(Offset(WritePos), [PadRec(l) EXCEPT !.seq = padSeq])
        /\ pc[c] = "body" => StoredHeader(Offset(WritePos + l.pad), MainRec(l))
        /\ pc[c] = "publish" => IntactAt(Offset(WritePos + l.pad), MainRec(l))

(* Sequence numbers and counters.                                          *)
LastSeq == IF log = <<>> THEN 0 ELSE log[Len(log)].rec.seq

Numbering ==
  /\ SequenceDense
  /\ \A c \in Cpus :
       LET padded == IF loc[c].pad # 0 THEN 1 ELSE 0
       IN  /\ pc[c] = "pad" => NextSequence = LastSeq
           /\ pc[c] = "header" => NextSequence = LastSeq + padded
           /\ pc[c] = "header" /\ loc[c].pad # 0 => loc[c].seq = NextSequence
           /\ pc[c] \in {"body", "publish"} =>
                NextSequence = LastSeq + 1 + padded /\ loc[c].seq = NextSequence
           /\ pc[c] = "account" => NextSequence = LastSeq
  /\ lock = NoCpu => NextSequence = LastSeq

Counters ==
  /\ \A c \in Cpus : pc[c] \in Storing =>
       totalBytes = WritePos /\ totalRecords = Len(log)
  /\ \A c \in Cpus : pc[c] = "account" =>
       totalBytes + loc[c].pad + loc[c].len = WritePos /\ totalRecords + 1 = Len(log)
  /\ StatsMatchRing

(* Inductive under Next.                                                   *)
RingInv ==
  /\ SafeInv /\ Aligned /\ LogTiles /\ Positions /\ ReaderPlace
  /\ StoredSoFar /\ UnreadIntact /\ InboxFaithful /\ Numbering /\ Counters
=============================================================================
