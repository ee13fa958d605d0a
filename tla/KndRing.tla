------------------------------ MODULE KndRing ------------------------------
(***************************************************************************)
(* The shared record ring: driver/ring.c (KndRingWrite, run by WFP         *)
(* callouts on any CPU) against KndClient::poll of app/src/knd_client.cpp  *)
(* (the usermode consumer), over the header of common/knd_protocol.h.      *)
(*                                                                         *)
(* Memory is byte addressed.  A byte is abstracted to WHICH record wrote   *)
(* it and at which displacement, so a torn, stale or overwritten record is *)
(* visible as a mixture of cells.  KSPIN_LOCK is `lock'; everything done   *)
(* between two accesses to memory the consumer can see is one step.        *)
(*                                                                         *)
(* Positions are the code's 64-bit monotone byte counters; at 10 Gbit/s a  *)
(* counter takes centuries to wrap, so they are natural numbers here.      *)
(***************************************************************************)
EXTENDS Integers, Sequences

CONSTANTS
  Cpus,          \* CPUs on which callouts call KndRingWrite
  NoCpu,         \* value of `lock' when ProducerLock is free
  DataSize,      \* RingDataSize: bytes in the data area
  Align,         \* KND_RECORD_ALIGN
  HdrSize,       \* sizeof(KND_RECORD)
  Requests,      \* what callouts ask to write: record type, payload+data bytes
  Garbage,       \* numbers corrupted bytes of the mapping may show
  MaxCalls,      \* bound: calls of KndRingWrite in a behaviour
  MaxCrashes,    \* bound: times the app dies and is started again
  MaxScribbles   \* bound: stray stores into the mapping (HostileSpec only)

AppTypes == {"CONN_OPEN", "CONN_CLOSE", "DATA"}
RecTypes == AppTypes \cup {"WRAP"}

(* What KndRingCreate and the C_ASSERTs of knd_protocol.h guarantee.       *)
ASSUME RingAssumption ==
  /\ NoCpu \notin Cpus
  /\ Align \in Nat \ {0}
  /\ HdrSize \in Nat \ {0} /\ HdrSize % Align = 0
  /\ DataSize \in Nat /\ HdrSize <= DataSize /\ DataSize % Align = 0
  /\ Requests \subseteq [type : AppTypes, n : Nat]
  /\ Garbage \subseteq Nat
  /\ MaxCalls \in Nat /\ MaxCrashes \in Nat /\ MaxScribbles \in Nat

VARIABLES
  \* kernel-private producer state
  lock, pc, loc, WritePos, NextSequence, clock,
  \* shared header (KND_RING_HEADER) and data area
  writePos, readPos, totalRecords, totalBytes, droppedRecords, droppedBytes, mem,
  \* the app's side of poll() and what its callback received
  apc, pollWp, pollRp, hdr, inbox,
  \* history: accepted records, the app's place in them, what was spent
  log, cursor, committed, calls, crashes, scribbles

kernelVars == <<lock, pc, loc, WritePos, NextSequence, clock>>
statVars   == <<totalRecords, totalBytes, droppedRecords, droppedBytes>>
appVars    == <<apc, pollWp, pollRp, hdr, inbox, cursor, committed>>
boundVars  == <<calls, crashes, scribbles>>
vars == <<kernelVars, writePos, readPos, statVars, mem, appVars, log, boundVars>>

-----------------------------------------------------------------------------
(* Layout arithmetic of KndRingWrite.                                      *)

AlignUp(n)  == ((n + Align - 1) \div Align) * Align
RecLen(n)   == AlignUp(HdrSize + n)
Offset(p)   == p % DataSize
Contig(p)   == DataSize - Offset(p)
Fits(p, l)  == l <= Contig(p)

(* A record that does not fit before the end is preceded by a WRAP pad.    *)
PadLen(p, l) == IF Fits(p, l) THEN 0 ELSE Contig(p)

(* Mutant: the tail is not absorbed.                                       *)
NeverAbsorbed(p, l) == l

(* A tail too small for a header is absorbed into the record.              *)
FinalLen(p, l) ==
  IF Fits(p, l) /\ Contig(p) - l # 0 /\ Contig(p) - l < HdrSize
  THEN Contig(p) ELSE l

(* Mutant: the pad is left out of the space test.                          *)
TotalWithoutPad(p, l) == FinalLen(p, l)

Total(p, l) == PadLen(p, l) + FinalLen(p, l)

(* Mutant: a read position ahead of the write position is believed.        *)
BelievesAhead(wp, rp) == wp - rp > DataSize

(* A read position the producer refuses to believe: "ring full".           *)
Inconsistent(wp, rp) == rp > wp \/ wp - rp > DataSize

(* Mutant: positions are compared by offset, so a full ring looks empty.   *)
AvailMasked(wp, rp) == DataSize - ((wp - rp) % DataSize)

Avail(wp, rp) == DataSize - (wp - rp)

-----------------------------------------------------------------------------
(* Memory.                                                                 *)

Offsets == 0 .. DataSize - 1
Rec  == [seq : Nat, type : RecTypes, ts : Nat, n : Nat, len : Nat]
Cell == [rec : Rec, k : Nat]

ZeroRec  == [seq |-> 0, type |-> "WRAP", ts |-> 0, n |-> 0, len |-> 0]
ZeroCell == [rec |-> ZeroRec, k |-> 0]

(* mem after displacements from..to-1 of record r, placed at off, are      *)
(* stored.                                                                 *)
Store(off, r, from, to) ==
  [b \in Offsets |->
     IF off + from <= b /\ b < off + to THEN [rec |-> r, k |-> b - off] ELSE mem[b]]

(* What casting the bytes at off to KND_RECORD may show.                   *)
HeadersAt(off) ==
  IF mem[off].k = 0
  THEN {mem[off].rec}
  ELSE [seq : {0}, type : {"WRAP", "DATA"}, ts : {0}, n : {0}, len : Garbage]

(* The app's "a valid record is 8-aligned and fits the data area".         *)
ValidLen(l) == l >= HdrSize /\ l % Align = 0 /\ l <= DataSize

(* Every byte of the record at off is the byte record r put there.         *)
IntactAt(off, r) ==
  \A k \in 0 .. r.len - 1 : off + k \in Offsets /\ mem[off + k] = [rec |-> r, k |-> k]

-----------------------------------------------------------------------------
NoLoc == [type |-> "DATA", n |-> 0, ts |-> 0, len |-> 0, pad |-> 0, wp |-> 0, seq |-> 0]

(* KndRingCreate has succeeded and one consumer has the ring mapped.       *)
Init ==
  /\ lock = NoCpu
  /\ pc = [c \in Cpus |-> "idle"]
  /\ loc = [c \in Cpus |-> NoLoc]
  /\ WritePos = 0 /\ NextSequence = 0 /\ clock = 0
  /\ writePos = 0 /\ readPos = 0
  /\ totalRecords = 0 /\ totalBytes = 0 /\ droppedRecords = 0 /\ droppedBytes = 0
  /\ mem = [b \in Offsets |-> ZeroCell]
  /\ apc = "idle" /\ pollWp = 0 /\ pollRp = 0 /\ hdr = ZeroRec /\ inbox = <<>>
  /\ log = <<>> /\ cursor = 0 /\ committed = 0
  /\ calls = 0 /\ crashes = 0 /\ scribbles = 0

-----------------------------------------------------------------------------
(* KndRingWrite on CPU c.                                                  *)

(* Mutant: the drop counter runs backwards.                                *)
CountDown(dropped, bytes) ==
  /\ droppedRecords' = droppedRecords - dropped
  /\ droppedBytes' = droppedBytes + bytes
  /\ UNCHANGED <<totalRecords, totalBytes>>

Count(dropped, bytes) ==
  /\ droppedRecords' = droppedRecords + dropped
  /\ droppedBytes' = droppedBytes + bytes
  /\ UNCHANGED <<totalRecords, totalBytes>>

(* Mutant: returns without counting.                                       *)
RejectSilently(c, q) ==
  /\ pc[c] = "idle" /\ calls < MaxCalls
  /\ RecLen(q.n) > DataSize
  /\ calls' = calls + 1
  /\ UNCHANGED <<kernelVars, writePos, readPos, statVars, mem, appVars, log, crashes, scribbles>>

(* Entry with a record that can never fit: counted under the lock.         *)
RejectOversize(c, q) ==
  /\ pc[c] = "idle" /\ calls < MaxCalls
  /\ RecLen(q.n) > DataSize
  /\ lock = NoCpu
  /\ calls' = calls + 1
  /\ Count(1, RecLen(q.n))
  /\ UNCHANGED <<kernelVars, writePos, readPos, mem, appVars, log, crashes, scribbles>>

(* Entry: the timestamp is taken BEFORE the lock is asked for.             *)
Enter(c, q) ==
  /\ pc[c] = "idle" /\ calls < MaxCalls
  /\ RecLen(q.n) <= DataSize
  /\ calls' = calls + 1
  /\ clock' = clock + 1
  /\ loc' = [loc EXCEPT ![c] = [NoLoc EXCEPT !.type = q.type, !.n = q.n, !.ts = clock,
                                             !.len = RecLen(q.n)]]
  /\ pc' = [pc EXCEPT ![c] = "lock"]
  /\ UNCHANGED <<lock, WritePos, NextSequence, writePos, readPos, statVars, mem,
                 appVars, log, crashes, scribbles>>

(* Lock taken, readPos absurd: dropped.                                    *)
DropInconsistent(c) ==
  /\ pc[c] = "lock" /\ lock = NoCpu
  /\ Inconsistent(WritePos, readPos)
  /\ Count(1, loc[c].len)
  /\ pc' = [pc EXCEPT ![c] = "idle"]
  /\ UNCHANGED <<lock, loc, WritePos, NextSequence, clock, writePos, readPos, mem,
                 appVars, log, boundVars>>

(* Lock taken, no room for record and pad: dropped, the pad counted too.   *)
DropFull(c) ==
  /\ pc[c] = "lock" /\ lock = NoCpu
  /\ ~ Inconsistent(WritePos, readPos)
  /\ Avail(WritePos, readPos) < Total(WritePos, loc[c].len)
  /\ Count(1, Total(WritePos, loc[c].len))
  /\ pc' = [pc EXCEPT ![c] = "idle"]
  /\ UNCHANGED <<lock, loc, WritePos, NextSequence, clock, writePos, readPos, mem,
                 appVars, log, boundVars>>

(* Lock taken, room found: from here on the call succeeds.                 *)
Reserve(c) ==
  /\ pc[c] = "lock" /\ lock = NoCpu
  /\ ~ Inconsistent(WritePos, readPos)
  /\ Avail(WritePos, readPos) >= Total(WritePos, loc[c].len)
  /\ lock' = c
  /\ loc' = [loc EXCEPT ![c].wp = WritePos,
                        ![c].pad = PadLen(WritePos, loc[c].len),
                        ![c].len = FinalLen(WritePos, loc[c].len)]
  /\ pc' = [pc EXCEPT ![c] = IF PadLen(WritePos, loc[c].len) # 0 THEN "pad" ELSE "header"]
  /\ UNCHANGED <<WritePos, NextSequence, clock, writePos, readPos, statVars, mem,
                 appVars, log, boundVars>>

(* The records a call writes: its pad, if any, and the record itself.      *)
PadRec(l) == [seq |-> l.seq, type |-> "WRAP", ts |-> l.ts, n |-> 0, len |-> l.pad]
MainRec(l) == [seq |-> l.seq, type |-> l.type, ts |-> l.ts, n |-> l.n, len |-> l.len]

(* Of the pad only the header is stored; the bytes it skips stay as were.  *)
WritePad(c) ==
  LET l == [loc[c] EXCEPT !.seq = NextSequence + 1]
  IN  /\ pc[c] = "pad"
      /\ NextSequence' = NextSequence + 1
      /\ mem' = Store(Offset(l.wp), PadRec(l), 0, HdrSize)
      /\ loc' = [loc EXCEPT ![c] = [l EXCEPT !.wp = l.wp + l.pad]]
      /\ pc' = [pc EXCEPT ![c] = "header"]
      /\ UNCHANGED <<lock, WritePos, clock, writePos, readPos, statVars, appVars, log, boundVars>>

WriteHeader(c) ==
  LET l == [loc[c] EXCEPT !.seq = NextSequence + 1]
  IN  /\ pc[c] = "header"
      /\ NextSequence' = NextSequence + 1
      /\ mem' = Store(Offset(l.wp), MainRec(l), 0, HdrSize)
      /\ loc' = [loc EXCEPT ![c] = l]
      /\ pc' = [pc EXCEPT ![c] = "body"]
      /\ UNCHANGED <<lock, WritePos, clock, writePos, readPos, statVars, appVars, log, boundVars>>

(* Payload, trailing data, and zeroes up to the end of the record.         *)
WriteBody(c) ==
  LET l == loc[c]
  IN  /\ pc[c] = "body"
      /\ mem' = Store(Offset(l.wp), MainRec(l), HdrSize, l.len)
      /\ loc' = [loc EXCEPT ![c].wp = l.wp + l.len]
      /\ pc' = [pc EXCEPT ![c] = "publish"]
      /\ UNCHANGED <<lock, WritePos, NextSequence, clock, writePos, readPos, statVars,
                     appVars, log, boundVars>>

(* The private position, a barrier, the shared position.                   *)
Publish(c) ==
  LET l == loc[c]
  IN  /\ pc[c] = "publish"
      /\ WritePos' = l.wp
      /\ writePos' = l.wp
      /\ log' = Append(log, [pos |-> WritePos, pad |-> l.pad, rec |-> MainRec(l)])
      /\ pc' = [pc EXCEPT ![c] = "account"]
      /\ UNCHANGED <<lock, loc, NextSequence, clock, readPos, statVars, mem, appVars, boundVars>>

(* Mutant: ProducerLock is not released.                                   *)
AccountKeepsLock(c) ==
  /\ pc[c] = "account"
  /\ totalRecords' = totalRecords + 1
  /\ totalBytes' = totalBytes + loc[c].pad + loc[c].len
  /\ pc' = [pc EXCEPT ![c] = "idle"]
  /\ UNCHANGED <<lock, loc, WritePos, NextSequence, clock, writePos, readPos, mem,
                 droppedRecords, droppedBytes, appVars, log, boundVars>>

(* Counters, then the lock is released.                                    *)
Account(c) ==
  /\ pc[c] = "account"
  /\ totalRecords' = totalRecords + 1
  /\ totalBytes' = totalBytes + loc[c].pad + loc[c].len
  /\ lock' = NoCpu
  /\ pc' = [pc EXCEPT ![c] = "idle"]
  /\ UNCHANGED <<loc, WritePos, NextSequence, clock, writePos, readPos, mem,
                 droppedRecords, droppedBytes, appVars, log, boundVars>>

(* Steps that finish a call already made.                                  *)
Proceed(c) ==
  \/ DropInconsistent(c) \/ DropFull(c) \/ Reserve(c)
  \/ WritePad(c) \/ WriteHeader(c) \/ WriteBody(c) \/ Publish(c) \/ Account(c)

Producer(c) ==
  \/ \E q \in Requests : RejectOversize(c, q) \/ Enter(c, q)
  \/ Proceed(c)

-----------------------------------------------------------------------------
(* KndClient::poll.                                                        *)

(* Mutant: the space is handed back before it is read.                     *)
PollBeginEager ==
  /\ apc = "idle"
  /\ pollWp' = writePos
  /\ pollRp' = readPos
  /\ readPos' = writePos
  /\ apc' = "scan"
  /\ UNCHANGED <<kernelVars, writePos, statVars, mem, hdr, inbox, cursor,
                 committed, log, boundVars>>

(* Mutant: a poll waits until the ring is half full.                       *)
PollBeginLazy ==
  /\ apc = "idle" /\ 2 * (writePos - readPos) >= DataSize
  /\ pollWp' = writePos
  /\ pollRp' = readPos
  /\ apc' = "scan"
  /\ UNCHANGED <<kernelVars, writePos, readPos, statVars, mem, hdr, inbox, cursor,
                 committed, log, boundVars>>

(* writePos, an acquire barrier, then the app's own readPos.               *)
PollBegin ==
  /\ apc = "idle"
  /\ pollWp' = writePos
  /\ pollRp' = readPos
  /\ apc' = "scan"
  /\ UNCHANGED <<kernelVars, writePos, readPos, statVars, mem, hdr, inbox, cursor,
                 committed, log, boundVars>>

(* The header under rp is cast and its length accepted.                    *)
PollHeader ==
  /\ apc = "scan" /\ pollRp < pollWp
  /\ \E h \in HeadersAt(Offset(pollRp)) :
        /\ ValidLen(h.len)
        /\ hdr' = h
  /\ apc' = "record"
  /\ UNCHANGED <<kernelVars, writePos, readPos, statVars, mem, pollWp, pollRp, inbox,
                 cursor, committed, log, boundVars>>

(* Defensive resync: jump to wp and leave the loop.                        *)
PollResync ==
  /\ apc = "scan" /\ pollRp < pollWp
  /\ \E h \in HeadersAt(Offset(pollRp)) : ~ ValidLen(h.len)
  /\ pollRp' = pollWp
  /\ UNCHANGED <<kernelVars, writePos, readPos, statVars, mem, apc, pollWp, hdr, inbox,
                 cursor, committed, log, boundVars>>

(* What the callback sees of a record at off whose header is h: h itself,  *)
(* or some mixture (a value no accepted record has).                       *)
Torn == ZeroRec
Seen(off, h) == IF IntactAt(off, h) THEN h ELSE Torn

(* The callback runs on the record in place.                               *)
PollDeliver ==
  /\ apc = "record" /\ hdr.type # "WRAP"
  /\ inbox' = Append(inbox, Seen(Offset(pollRp), hdr))
  /\ cursor' = cursor + 1
  /\ pollRp' = pollRp + hdr.len
  /\ apc' = "scan"
  /\ UNCHANGED <<kernelVars, writePos, readPos, statVars, mem, pollWp, hdr, committed,
                 log, boundVars>>

PollSkip ==
  /\ apc = "record" /\ hdr.type = "WRAP"
  /\ pollRp' = pollRp + hdr.len
  /\ apc' = "scan"
  /\ UNCHANGED <<kernelVars, writePos, readPos, statVars, mem, pollWp, hdr, inbox,
                 cursor, committed, log, boundVars>>

(* Mutant: the shared position of now, not the one polled up to.           *)
PollEndLate ==
  /\ apc = "scan" /\ pollRp >= pollWp
  /\ readPos' = writePos
  /\ committed' = cursor
  /\ apc' = "idle"
  /\ UNCHANGED <<kernelVars, writePos, statVars, mem, pollWp, pollRp, hdr, inbox, cursor,
                 log, boundVars>>

(* Release barrier, then the space read is handed back.                    *)
PollEnd ==
  /\ apc = "scan" /\ pollRp >= pollWp
  /\ readPos' = pollRp
  /\ committed' = cursor
  /\ apc' = "idle"
  /\ UNCHANGED <<kernelVars, writePos, statVars, mem, pollWp, pollRp, hdr, inbox, cursor,
                 log, boundVars>>

Poll == PollBegin \/ PollHeader \/ PollResync \/ PollDeliver \/ PollSkip \/ PollEnd

(* The app dies (IRP_MJ_CLEANUP unmaps) and a new instance maps the ring:  *)
(* the kernel's memory, readPos included, is as the dead one left it.      *)
Restart ==
  /\ crashes < MaxCrashes
  /\ crashes' = crashes + 1
  /\ apc' = "idle" /\ pollWp' = 0 /\ pollRp' = 0 /\ hdr' = ZeroRec
  /\ inbox' = <<>> /\ cursor' = committed
  /\ UNCHANGED <<kernelVars, writePos, readPos, statVars, mem, committed, log, calls, scribbles>>

-----------------------------------------------------------------------------
(* The mapping is writable: a faulty consumer, or KndClient::physWrite,    *)
(* may store anything anywhere in it.                                      *)

ScribblePos(p) ==
  /\ scribbles < MaxScribbles
  /\ scribbles' = scribbles + 1
  /\ \/ readPos' = p /\ UNCHANGED writePos
     \/ writePos' = p /\ UNCHANGED readPos
  /\ UNCHANGED <<kernelVars, statVars, mem, appVars, log, calls, crashes>>

ScribbleByte(b, l) ==
  /\ scribbles < MaxScribbles
  /\ scribbles' = scribbles + 1
  /\ mem' = [mem EXCEPT ![b] = [rec |-> [ZeroRec EXCEPT !.len = l], k |-> 0]]
  /\ UNCHANGED <<kernelVars, writePos, readPos, statVars, appVars, log, calls, crashes>>

Scribble ==
  \/ \E p \in Garbage : ScribblePos(p)
  \/ \E b \in Offsets, l \in Garbage : ScribbleByte(b, l)

-----------------------------------------------------------------------------
Next == (\E c \in Cpus : Producer(c)) \/ Poll \/ Restart
HostileNext == Next \/ Scribble
CorruptNext == Next \/ \E b \in Offsets, l \in Garbage : ScribbleByte(b, l)

Spec == Init /\ [][Next]_vars
HostileSpec == Init /\ [][HostileNext]_vars

(* A callout holding or spinning on the lock runs at DISPATCH_LEVEL and is *)
(* not descheduled; nothing is assumed of the app.                         *)
ProducingSpec == Spec /\ \A c \in Cpus : WF_vars(Proceed(c))

(* Bytes of the data area go bad a bounded number of times; both sides     *)
(* keep running.                                                           *)
CorruptSpec ==
  /\ Init /\ [][CorruptNext]_vars
  /\ WF_vars(Poll) /\ \A c \in Cpus : WF_vars(Proceed(c))

-----------------------------------------------------------------------------
(* Properties.                                                             *)

Busy == {"pad", "header", "body", "publish", "account"}
LocType == [type : AppTypes, n : Nat, ts : Nat, len : Nat, pad : Nat, wp : Nat, seq : Nat]
Entry == [pos : Nat, pad : Nat, rec : Rec]

(* Every variable has its type.                                            *)
TypeOK ==
  /\ lock \in Cpus \cup {NoCpu}
  /\ pc \in [Cpus -> {"idle", "lock"} \cup Busy]
  /\ loc \in [Cpus -> LocType]
  /\ WritePos \in Nat /\ NextSequence \in Nat /\ clock \in Nat
  /\ writePos \in Nat /\ readPos \in Nat
  /\ totalRecords \in Nat /\ totalBytes \in Nat
  /\ droppedRecords \in Nat /\ droppedBytes \in Nat
  /\ mem \in [Offsets -> Cell]
  /\ apc \in {"idle", "scan", "record"}
  /\ pollWp \in Nat /\ pollRp \in Nat /\ hdr \in Rec
  /\ inbox \in Seq(Rec)
  /\ log \in Seq(Entry)
  /\ cursor \in Nat /\ committed \in Nat
  /\ calls \in Nat /\ crashes \in Nat /\ scribbles \in Nat

(* ring.c: "Masking still keeps every write in-bounds, so the worst a bad  *)
(* rp can do is cost us records, never a stray write".  Whatever is stored *)
(* into the mapping, every range a producer is about to store lies inside  *)
(* the data area: the pad's header (the absorb rule guarantees its room)   *)
(* and the whole record.                                                   *)
StoresInBounds ==
  \A c \in Cpus :
    /\ pc[c] = "pad" => Offset(loc[c].wp) + HdrSize <= DataSize
    /\ pc[c] \in {"header", "body"} => Offset(loc[c].wp) + loc[c].len <= DataSize

(* The pad that precedes an accepted record.                               *)
PadOf(e) == [seq |-> e.rec.seq - 1, type |-> "WRAP", ts |-> e.rec.ts, n |-> 0, len |-> e.pad]

PadIntact(e) ==
  e.pad # 0 => /\ Offset(e.pos) + e.pad = DataSize
               /\ \A k \in 0 .. HdrSize - 1 :
                     mem[Offset(e.pos) + k] = [rec |-> PadOf(e), k |-> k]

(* knd_protocol.h: "every record is physically contiguous and can be cast  *)
(* straight to its struct".  Every accepted record not yet handed back is  *)
(* in the ring byte for byte, contiguous, with no byte of an older record  *)
(* showing through its padding, behind a whole WRAP header if it wrapped.  *)
UnreadIntact ==
  \A i \in DOMAIN log :
    log[i].pos >= readPos =>
      /\ PadIntact(log[i])
      /\ IntactAt(Offset(log[i].pos + log[i].pad), log[i].rec)

(* knd_client.cpp: "Producer guarantees this; a bad value means            *)
(* corruption": without corruption the defensive resync never discards.    *)
NeverResync ==
  apc = "scan" /\ pollRp < pollWp =>
    \A h \in HeadersAt(Offset(pollRp)) : ValidLen(h.len)

(* What this app instance received is a contiguous run of the accepted     *)
(* records, each of them whole, up to its cursor.                          *)
InboxFaithful ==
  /\ Len(inbox) <= cursor /\ cursor <= Len(log)
  /\ \A i \in DOMAIN inbox : inbox[i] = log[cursor - Len(inbox) + i].rec

(* knd_protocol.h calls `sequence' a "monotonic per-record id".  Accepted  *)
(* records are numbered in ring order, the only numbers in between are     *)
(* those of pads, and refused records use up none (so a gap in what the    *)
(* app sees is never a sign of loss).                                      *)
SequenceDense ==
  \A i \in DOMAIN log :
    log[i].rec.seq = (IF i = 1 THEN 0 ELSE log[i - 1].rec.seq)
                     + (IF log[i].pad # 0 THEN 2 ELSE 1)

(* With no call inside the lock the counters of the header agree with the  *)
(* ring: every byte of the position is a counted byte, every accepted      *)
(* record a counted record.                                                *)
StatsMatchRing ==
  lock = NoCpu => totalBytes = WritePos /\ totalRecords = Len(log)

(* Every call of KndRingWrite that has returned was counted exactly once,  *)
(* as written or as dropped.                                               *)
EveryCallCounted ==
  (\A c \in Cpus : pc[c] = "idle") => calls = totalRecords + droppedRecords

(* A byte between the two shared positions is never stored to: neither a   *)
(* reservation made on an old readPos nor a pad reaches unread data.       *)
UnreadUntouched ==
  [][\A p \in readPos .. writePos - 1 : mem'[Offset(p)] = mem[Offset(p)]]_vars

(* The ring implements the queue of module RecordQueue.                    *)
Queue == INSTANCE RecordQueue
           WITH Record <- Rec, accepted <- [i \in DOMAIN log |-> log[i].rec]
ImplementsQueue == Queue!QSpec

(* ... and, if the render loop keeps calling poll(), its promise of        *)
(* progress: every accepted record is delivered and its space handed back. *)
PollingDrains == WF_vars(Poll) => Queue!QProgress

(* knd_protocol.h: "The producer MUST NOT block ... the kernel thread never *)
(* waits on the app".  Every call returns although the app may stop at any *)
(* point of a poll forever.                                                *)
CallsReturn == \A c \in Cpus : pc[c] # "idle" ~> pc[c] = "idle"

(* knd_client.cpp: "a bad value means corruption -> jump to wp".  However  *)
(* the bytes of the data area go bad, polling brings the consumer back to  *)
(* a position the producer accepts.                                        *)
CorruptionRecovers == []<>(readPos <= writePos)

=============================================================================
