----------------------------- MODULE KndFlows ------------------------------
(***************************************************************************)
(* From the network to the connection list: the WFP callbacks of           *)
(* driver/wfp.c on several CPUs (KndClassifyFlow, KndClassifyStream,       *)
(* KndFlowDelete), the capture switch of driver/ioctl.c, the records in    *)
(* the ring, and KndModel of app/src/app_model.cpp which ingests them.     *)
(*                                                                         *)
(* The ring is what module RecordQueue says of it, a lossy FIFO: `written' *)
(* with a read index, full at RingCap unread records.  A payload byte is   *)
(* its position in the flow's stream of that direction, so loss, repeats   *)
(* and reordering show.  A flow stands for its id: the WFP handle and the  *)
(* fallback counter KndNextFlowId are taken not to collide.                *)
(***************************************************************************)
EXTENDS Integers, Sequences, SequencesExt, FiniteSets

CONSTANTS
  Flows, Cpus, Clients,
  RingCap,       \* unread records the ring holds
  CopyMax,       \* KND_STREAM_COPY_MAX
  MaxChunk,      \* KND_MAX_DATA_CHUNK
  PacketCap,     \* packetCap
  PayloadCaps,   \* values the user may give payloadCap
  Lengths,       \* dataLength of a stream indication
  Wrap,          \* 2^32: activeFlows is a ULONG
  MaxIndications, MaxSwitches, MaxClears  \* bounds on the environment

Dirs == {"out", "in"}

ASSUME FlowsAssumption ==
  /\ RingCap \in Nat /\ CopyMax \in Nat \ {0} /\ MaxChunk \in Nat \ {0}
  /\ PacketCap \in Nat \ {0} /\ PayloadCaps \subseteq Nat /\ PayloadCaps # {}
  /\ Flows # {} /\ Lengths \subseteq Nat /\ Wrap \in Nat \ {0}
  /\ MaxIndications \in Nat /\ MaxSwitches \in Nat /\ MaxClears \in Nat

VARIABLES
  CaptureActive, ringActive,  \* ctx->CaptureActive; the copy in the ring header
  switching,     \* per client: the value its START/STOP ioctl has yet to copy
  activeFlows,
  wfp,           \* per flow: "new", "live", "gone"
  associated,    \* per flow: our context is attached at the stream layer
  sent,          \* per flow and direction: bytes the stream layer indicated
  pc, job,       \* per CPU: place in a callback, and its locals
  written, read, \* records accepted by the ring; how many poll has passed on
  model,         \* KndModel: flow id -> KndFlow, for the ids it knows
  packets, packetNo, payloadCap,
  \* history: what ingest saw since clear(); directions that lost bytes; bounds
  seen, lost, indications, switches, clears

wfpVars  == <<wfp, associated, sent, lost, indications>>
capVars  == <<CaptureActive, ringActive, switching, switches>>
ringVars == <<written, activeFlows>>
appVars  == <<read, model, packets, packetNo, payloadCap, seen, clears>>
vars == <<wfpVars, capVars, ringVars, appVars, pc, job>>

NoJob == [flow |-> CHOOSE f \in Flows : TRUE, handle |-> FALSE, dir |-> "out", off |-> 0, got |-> 0]
NoFlow == [closed |-> FALSE, bytes |-> [d \in Dirs |-> 0], payload |-> [d \in Dirs |-> <<>>],
           truncated |-> [d \in Dirs |-> FALSE]]

Init ==
  /\ CaptureActive = FALSE /\ ringActive = FALSE
  /\ switching = [p \in Clients |-> "none"]
  /\ activeFlows = 0
  /\ wfp = [f \in Flows |-> "new"] /\ associated = [f \in Flows |-> FALSE]
  /\ sent = [f \in Flows |-> [d \in Dirs |-> 0]]
  /\ pc = [c \in Cpus |-> "idle"] /\ job = [c \in Cpus |-> NoJob]
  /\ written = <<>> /\ read = 0
  /\ model = <<>> /\ packets = <<>> /\ packetNo = 0
  /\ payloadCap \in PayloadCaps
  /\ seen = <<>> /\ lost = [f \in Flows |-> [d \in Dirs |-> FALSE]]
  /\ indications = 0 /\ switches = 0 /\ clears = 0

-----------------------------------------------------------------------------
(* KndRingWrite as the callbacks see it.                                   *)

HasRoom == Len(written) - read < RingCap
ConnRec(t, f) == [type |-> t, flow |-> f, dir |-> "out", data |-> <<>>]
DataRec(f, d, bytes) == [type |-> "DATA", flow |-> f, dir |-> d, data |-> bytes]

Goto(c, at) == pc' = [pc EXCEPT ![c] = at]

-----------------------------------------------------------------------------
(* KndClassifyFlow: nothing if capture is off; else OPEN, the counter if   *)
(* OPEN was accepted, and then the context if WFP gave a handle.           *)

(* Mutant: the context is attached before OPEN is in the ring.             *)
AssociateFirst(c, f, handle) ==
  /\ pc[c] = "idle" /\ wfp[f] = "new"
  /\ wfp' = [wfp EXCEPT ![f] = "live"]
  /\ associated' = [associated EXCEPT ![f] = handle /\ CaptureActive]
  /\ IF CaptureActive
     THEN job' = [job EXCEPT ![c] = [NoJob EXCEPT !.flow = f, !.handle = handle]] /\ Goto(c, "open")
     ELSE UNCHANGED <<job, pc>>
  /\ UNCHANGED <<sent, lost, indications, capVars, ringVars, appVars>>

FlowEstablished(c, f, handle) ==
  /\ pc[c] = "idle" /\ wfp[f] = "new"
  /\ wfp' = [wfp EXCEPT ![f] = "live"]
  /\ IF CaptureActive
     THEN job' = [job EXCEPT ![c] = [NoJob EXCEPT !.flow = f, !.handle = handle]] /\ Goto(c, "open")
     ELSE UNCHANGED <<job, pc>>
  /\ UNCHANGED <<associated, sent, lost, indications, capVars, ringVars, appVars>>

(* Mutant: the counter is stepped although OPEN was dropped.               *)
CountAnyway(c) ==
  /\ pc[c] = "open"
  /\ written' = IF HasRoom THEN Append(written, ConnRec("OPEN", job[c].flow)) ELSE written
  /\ Goto(c, "count")
  /\ UNCHANGED <<activeFlows, wfpVars, capVars, appVars, job>>

WriteOpen(c) ==
  /\ pc[c] = "open"
  /\ IF HasRoom
     THEN written' = Append(written, ConnRec("OPEN", job[c].flow)) /\ Goto(c, "count")
     ELSE Goto(c, "associate") /\ UNCHANGED written
  /\ UNCHANGED <<activeFlows, wfpVars, capVars, appVars, job>>

CountOpen(c) ==
  /\ pc[c] = "count"
  /\ activeFlows' = (activeFlows + 1) % Wrap
  /\ Goto(c, "associate")
  /\ UNCHANGED <<written, wfpVars, capVars, appVars, job>>

Associate(c) ==
  /\ pc[c] = "associate"
  /\ associated' = [associated EXCEPT ![job[c].flow] = job[c].handle]
  /\ Goto(c, "idle")
  /\ UNCHANGED <<wfp, sent, lost, indications, capVars, ringVars, appVars, job>>

-----------------------------------------------------------------------------
(* KndClassifyStream: called for flows with a context; WFP runs at most    *)
(* one stream-layer callback of a flow at a time.                          *)

Serving(f) == \E c \in Cpus : pc[c] \in {"chunk", "close", "uncount"} /\ job[c].flow = f

(* n bytes arrive; scratch may not be had; more than CopyMax are cut.      *)
StreamIndication(c, f, d, n, scratch) ==
  LET got == IF CaptureActive /\ scratch THEN (IF n > CopyMax THEN CopyMax ELSE n) ELSE 0
  IN  /\ pc[c] = "idle" /\ associated[f] /\ wfp[f] = "live" /\ ~ Serving(f)
      /\ indications < MaxIndications
      /\ indications' = indications + 1
      /\ sent' = [sent EXCEPT ![f][d] = @ + n]
      /\ lost' = [lost EXCEPT ![f][d] = @ \/ got < n]
      /\ IF got > 0
         THEN /\ job' = [job EXCEPT ![c] = [NoJob EXCEPT !.flow = f, !.dir = d,
                                              !.off = sent[f][d], !.got = sent[f][d] + got]]
              /\ Goto(c, "chunk")
         ELSE UNCHANGED <<job, pc>>
      /\ UNCHANGED <<wfp, associated, capVars, ringVars, appVars>>

(* Mutant: every chunk is copied from the start of scratch.                *)
BytesFromStart(from, to) == [i \in 1 .. to - from |-> i]

(* Bytes from+1 .. to of a stream.                                         *)
Bytes(from, to) == [i \in 1 .. to - from |-> from + i]

ChunkEnds(l) == IF l.got - l.off > MaxChunk THEN l.off + MaxChunk ELSE l.got

(* One round of the loop over at most MaxChunk bytes.                      *)
WriteChunk(c) ==
  LET l == job[c]
  IN  /\ pc[c] = "chunk"
      /\ IF HasRoom
         THEN /\ written' = Append(written, DataRec(l.flow, l.dir, Bytes(l.off, ChunkEnds(l))))
              /\ UNCHANGED lost
         ELSE /\ lost' = [lost EXCEPT ![l.flow][l.dir] = TRUE]
              /\ UNCHANGED written
      /\ job' = [job EXCEPT ![c].off = ChunkEnds(l)]
      /\ Goto(c, IF ChunkEnds(l) < l.got THEN "chunk" ELSE "idle")
      /\ UNCHANGED <<activeFlows, wfp, associated, sent, indications, capVars, appVars>>

-----------------------------------------------------------------------------
(* KndFlowDelete, for flows with a context; the others end unnoticed.      *)

FlowDeleted(c, f) ==
  /\ pc[c] = "idle" /\ associated[f] /\ wfp[f] = "live" /\ ~ Serving(f)
  /\ wfp' = [wfp EXCEPT ![f] = "gone"]
  /\ associated' = [associated EXCEPT ![f] = FALSE]
  /\ IF CaptureActive
     THEN job' = [job EXCEPT ![c] = [NoJob EXCEPT !.flow = f]] /\ Goto(c, "close")
     ELSE UNCHANGED <<job, pc>>
  /\ UNCHANGED <<sent, lost, indications, capVars, ringVars, appVars>>

WriteClose(c) ==
  /\ pc[c] = "close"
  /\ IF HasRoom
     THEN written' = Append(written, ConnRec("CLOSE", job[c].flow)) /\ Goto(c, "uncount")
     ELSE Goto(c, "idle") /\ UNCHANGED written
  /\ UNCHANGED <<activeFlows, wfpVars, capVars, appVars, job>>

(* Mutant: the counter as a signed number that may pass zero.              *)
CountBelowZero(c) ==
  /\ pc[c] = "uncount"
  /\ activeFlows' = activeFlows - 1
  /\ Goto(c, "idle")
  /\ UNCHANGED <<written, wfpVars, capVars, appVars, job>>

CountClose(c) ==
  /\ pc[c] = "uncount"
  /\ activeFlows' = (activeFlows - 1) % Wrap
  /\ Goto(c, "idle")
  /\ UNCHANGED <<written, wfpVars, capVars, appVars, job>>

Callback(c) ==
  \/ \E f \in Flows, h \in BOOLEAN : FlowEstablished(c, f, h)
  \/ WriteOpen(c) \/ CountOpen(c) \/ Associate(c)
  \/ \E f \in Flows, d \in Dirs, n \in Lengths, s \in BOOLEAN : StreamIndication(c, f, d, n, s)
  \/ WriteChunk(c)
  \/ \E f \in Flows : FlowDeleted(c, f)
  \/ WriteClose(c) \/ CountClose(c)

-----------------------------------------------------------------------------
(* IOCTL_KND_START_CAPTURE / STOP_CAPTURE: the switch, then its copy.      *)

SwitchCapture(p, on) ==
  /\ switching[p] = "none" /\ switches < MaxSwitches
  /\ switches' = switches + 1
  /\ CaptureActive' = on
  /\ switching' = [switching EXCEPT ![p] = IF on THEN "on" ELSE "off"]
  /\ UNCHANGED <<ringActive, wfpVars, ringVars, appVars, pc, job>>

CopySwitch(p) ==
  /\ switching[p] # "none"
  /\ ringActive' = (switching[p] = "on")
  /\ switching' = [switching EXCEPT ![p] = "none"]
  /\ UNCHANGED <<CaptureActive, switches, wfpVars, ringVars, appVars, pc, job>>

-----------------------------------------------------------------------------
(* KndModel.                                                               *)

(* getOrCreate.                                                            *)
Known(f) == IF f \in DOMAIN model THEN model[f] ELSE NoFlow
Put(f, v) == [g \in DOMAIN model \cup {f} |-> IF g = f THEN v ELSE model[g]]

(* Mutant: a byte too many for the cap is dropped without the flag.        *)
KeepUnflagged(x, r) ==
  LET have == x.payload[r.dir]
      room == IF Len(have) < payloadCap THEN payloadCap - Len(have) ELSE 0
      take == IF Len(r.data) < room THEN Len(r.data) ELSE room
  IN  [x EXCEPT !.bytes[r.dir] = @ + Len(r.data),
                !.payload[r.dir] = have \o SubSeq(r.data, 1, take),
                !.truncated[r.dir] = @ \/ room = 0]

(* Mutant: the total counts what was kept.                                 *)
KeepAndCountKept(x, r) ==
  LET have == x.payload[r.dir]
      room == IF Len(have) < payloadCap THEN payloadCap - Len(have) ELSE 0
      take == IF Len(r.data) < room THEN Len(r.data) ELSE room
  IN  [x EXCEPT !.bytes[r.dir] = @ + take,
                !.payload[r.dir] = have \o SubSeq(r.data, 1, take),
                !.truncated[r.dir] = @ \/ take < Len(r.data) \/ room = 0]

(* DATA: totals, and as much of the payload as payloadCap leaves room for. *)
KeepData(x, r) ==
  LET have == x.payload[r.dir]
      room == IF Len(have) < payloadCap THEN payloadCap - Len(have) ELSE 0
      take == IF Len(r.data) < room THEN Len(r.data) ELSE room
  IN  [x EXCEPT !.bytes[r.dir] = @ + Len(r.data),
                !.payload[r.dir] = have \o SubSeq(r.data, 1, take),
                !.truncated[r.dir] = @ \/ take < Len(r.data) \/ room = 0]

(* CLOSE takes the totals of the record, which KndFlowDelete zeroed.       *)
Ingested(r) ==
  CASE r.type = "OPEN"  -> Known(r.flow)
    [] r.type = "CLOSE" -> [Known(r.flow) EXCEPT !.closed = TRUE, !.bytes = [d \in Dirs |-> 0]]
    [] r.type = "DATA"  -> KeepData(Known(r.flow), r)

(* Mutant: the newest packet makes way, not the oldest.                    *)
PushNewestOut(ps, p) == IF Len(ps) < PacketCap THEN Append(ps, p) ELSE ps

(* pushPacket: numbered, the oldest makes way.                             *)
PushPacket(ps, p) == LET q == Append(ps, p) IN IF Len(q) > PacketCap THEN Tail(q) ELSE q

(* poll hands one record to ingest.                                        *)
Ingest ==
  /\ read < Len(written)
  /\ LET r == written[read + 1]
     IN  /\ model' = Put(r.flow, Ingested(r))
         /\ packets' = PushPacket(packets, [no |-> packetNo + 1, rec |-> r])
         /\ seen' = Append(seen, r)
  /\ packetNo' = packetNo + 1
  /\ read' = read + 1
  /\ UNCHANGED <<payloadCap, clears, wfpVars, capVars, ringVars, pc, job>>

(* The user clears the capture, or changes the cap for what is to come.    *)
Clear ==
  /\ clears < MaxClears
  /\ clears' = clears + 1
  /\ model' = <<>> /\ packets' = <<>> /\ packetNo' = 0 /\ seen' = <<>>
  /\ UNCHANGED <<read, payloadCap, wfpVars, capVars, ringVars, pc, job>>

SetPayloadCap(n) ==
  /\ clears < MaxClears
  /\ clears' = clears + 1
  /\ payloadCap' = n
  /\ UNCHANGED <<read, model, packets, packetNo, seen, wfpVars, capVars, ringVars, pc, job>>

-----------------------------------------------------------------------------
Next ==
  \/ \E c \in Cpus : Callback(c)
  \/ \E p \in Clients : (\E on \in BOOLEAN : SwitchCapture(p, on)) \/ CopySwitch(p)
  \/ Ingest \/ Clear \/ \E n \in PayloadCaps : SetPayloadCap(n)

Spec == Init /\ [][Next]_vars

-----------------------------------------------------------------------------
(* Properties.                                                             *)

(* The data bytes of flow f, direction d in a sequence of records.         *)
DataOf(s, f, d) ==
  FlattenSeq([i \in 1 .. Len(s) |-> IF s[i].flow = f /\ s[i].dir = d THEN s[i].data ELSE <<>>])

CountType(s, t) == Cardinality({i \in DOMAIN s : s[i].type = t})

FlowType == [closed : BOOLEAN, bytes : [Dirs -> Nat], payload : [Dirs -> Seq(Nat)],
             truncated : [Dirs -> BOOLEAN]]
RecType == [type : {"OPEN", "CLOSE", "DATA"}, flow : Flows, dir : Dirs, data : Seq(Nat)]

(* Every variable has its type.                                            *)
TypeOK ==
  /\ CaptureActive \in BOOLEAN /\ ringActive \in BOOLEAN
  /\ switching \in [Clients -> {"none", "on", "off"}]
  /\ activeFlows \in 0 .. Wrap - 1
  /\ wfp \in [Flows -> {"new", "live", "gone"}] /\ associated \in [Flows -> BOOLEAN]
  /\ sent \in [Flows -> [Dirs -> Nat]] /\ lost \in [Flows -> [Dirs -> BOOLEAN]]
  /\ pc \in [Cpus -> {"idle", "open", "count", "associate", "chunk", "close", "uncount"}]
  /\ job \in [Cpus -> [flow : Flows, handle : BOOLEAN, dir : Dirs, off : Nat, got : Nat]]
  /\ written \in Seq(RecType) /\ read \in 0 .. Len(written)
  /\ DOMAIN model \subseteq Flows /\ \A f \in DOMAIN model : model[f] \in FlowType
  /\ packets \in Seq([no : Nat, rec : RecType]) /\ packetNo \in Nat /\ payloadCap \in Nat
  /\ seen \in Seq(RecType)
  /\ indications \in Nat /\ switches \in Nat /\ clears \in Nat

(* In the ring a flow's OPEN comes before everything else of it and its    *)
(* CLOSE after, whatever CPUs the callbacks run on: the context that makes *)
(* stream callbacks possible is attached only once OPEN is in.             *)
LifeInOrder ==
  \A i, j \in DOMAIN written :
    i < j /\ written[i].flow = written[j].flow =>
      written[j].type # "OPEN" /\ written[i].type # "CLOSE"

(* With no callback between a record and its counter, activeFlows is the   *)
(* number of OPENs less the number of CLOSEs in the ring, in 32 bits (when *)
(* an OPEN was dropped and its CLOSE was not, that is below zero).         *)
ActiveFlowsCounts ==
  (\A c \in Cpus : pc[c] \notin {"count", "uncount"}) =>
    activeFlows = (CountType(written, "OPEN") - CountType(written, "CLOSE")) % Wrap

(* The payload shown for a direction not marked truncated is all the data  *)
(* ingested for it, in order, however the cap was moved meanwhile.         *)
UnmarkedIsComplete ==
  \A f \in DOMAIN model : \A d \in Dirs :
    ~ model[f].truncated[d] => model[f].payload[d] = DataOf(seen, f, d)

(* End to end: if neither capture nor the ring lost a byte of a direction, *)
(* and nothing was cleared, what is shown is what was on the wire, from    *)
(* its first byte.                                                         *)
WireFaithful ==
  \A f \in DOMAIN model : \A d \in Dirs :
    clears = 0 /\ ~ lost[f][d] =>
      /\ model[f].payload[d] = Bytes(0, Len(model[f].payload[d]))
      /\ Len(model[f].payload[d]) <= sent[f][d]

(* A flow is shown closed exactly if its CLOSE was ingested; the packet    *)
(* list is the last PacketCap records ingested, numbered from the clear.   *)
ListsAgree ==
  /\ \A f \in DOMAIN model :
       model[f].closed <=> \E i \in DOMAIN seen : seen[i] = ConnRec("CLOSE", f)
  /\ LET n == Len(packets)
     IN  /\ n = (IF Len(seen) < PacketCap THEN Len(seen) ELSE PacketCap)
         /\ \A i \in 1 .. n : packets[i] = [no  |-> Len(seen) - n + i,
                                            rec |-> seen[Len(seen) - n + i]]

(* The totals ingest shows of an open flow are the bytes ingested for it,  *)
(* those beyond the payload cap too, however the cap is moved.             *)
TotalsWhileOpen ==
  \A f \in DOMAIN model : \A d \in Dirs :
    ~ model[f].closed => model[f].bytes[d] = Len(DataOf(seen, f, d))

(* What knd_protocol.h says of the totals in CONN_CLOSE, "(bytesIn/Out     *)
(* valid)" and "valid on CONN_CLOSE": of a flow shown closed, of which     *)
(* nothing was lost, they are the bytes it carried.  KndFlowDelete sends a *)
(* record of zeroes, and ingest takes its totals over the ones it counted. *)
TotalsValidOnClose ==
  \A f \in DOMAIN model : \A d \in Dirs :
    model[f].closed /\ clears = 0 /\ ~ lost[f][d] => model[f].bytes[d] = sent[f][d]
=============================================================================
