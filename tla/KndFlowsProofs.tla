--------------------------- MODULE KndFlowsProofs ---------------------------
(***************************************************************************)
(* Proofs about the way from the WFP callbacks to the connection list, for *)
(* every number of flows, CPUs and clients, every length and every cap:    *)
(* the order of a flow's records, the count of active flows, and what      *)
(* KndModel shows of the bytes.                                            *)
(***************************************************************************)
EXTENDS KndFlows, DataLemmas, FiniteSetTheorems

-----------------------------------------------------------------------------
(* The types, by part of the system.                                       *)

Places  == {"idle", "open", "count", "associate", "chunk", "close", "uncount"}
JobType == [flow : Flows, handle : BOOLEAN, dir : Dirs, off : Nat, got : Nat]
PacketType == [no : Nat, rec : RecType]

CapTyped == /\ CaptureActive \in BOOLEAN /\ ringActive \in BOOLEAN
            /\ switching \in [Clients -> {"none", "on", "off"}] /\ switches \in Nat
WfpTyped == /\ wfp \in [Flows -> {"new", "live", "gone"}] /\ associated \in [Flows -> BOOLEAN]
            /\ sent \in [Flows -> [Dirs -> Nat]] /\ lost \in [Flows -> [Dirs -> BOOLEAN]]
            /\ indications \in Nat
CpuTyped == pc \in [Cpus -> Places] /\ job \in [Cpus -> JobType]
RingTyped == /\ activeFlows \in 0 .. Wrap - 1
             /\ written \in Seq(RecType) /\ read \in 0 .. Len(written)
ModelTyped == DOMAIN model \subseteq Flows /\ \A f \in DOMAIN model : model[f] \in FlowType
AppTyped == /\ ModelTyped /\ packets \in Seq(PacketType) /\ packetNo \in Nat /\ payloadCap \in Nat
            /\ seen \in Seq(RecType) /\ clears \in Nat

Typed == CapTyped /\ WfpTyped /\ CpuTyped /\ RingTyped /\ AppTyped

(* They are the type invariant.                                            *)
LEMMA TypedIsTypeOK == Typed => TypeOK
BY DEF Typed, TypeOK, CapTyped, WfpTyped, CpuTyped, RingTyped, ModelTyped, AppTyped, Places, JobType,
       PacketType

(* What the callbacks start from, and what they write, has its type.       *)
LEMMA NoJobTyped == NoJob \in JobType
<1>1. (CHOOSE f \in Flows : TRUE) \in Flows
  BY FlowsAssumption
<1>2. FALSE \in BOOLEAN
  OBVIOUS
<1> QED
  BY <1>1, <1>2 DEF NoJob, JobType, Dirs

LEMMA NoFlowTyped == NoFlow \in FlowType
<1>1. [d \in Dirs |-> FALSE] \in [Dirs -> BOOLEAN] /\ FALSE \in BOOLEAN
  OBVIOUS
<1>2. [d \in Dirs |-> <<>>] \in [Dirs -> Seq(Nat)]
  OBVIOUS
<1>3. [d \in Dirs |-> 0] \in [Dirs -> Nat]
  OBVIOUS
<1> QED
  BY <1>1, <1>2, <1>3 DEF NoFlow, FlowType

LEMMA RecordsTyped ==
  /\ \A t \in {"OPEN", "CLOSE"}, f \in Flows : ConnRec(t, f) \in RecType
  /\ \A f \in Flows, d \in Dirs, from, to \in Nat : DataRec(f, d, Bytes(from, to)) \in RecType
<1>1. \A from, to \in Nat : Bytes(from, to) \in Seq(Nat)
  <2> SUFFICES ASSUME NEW from \in Nat, NEW to \in Nat PROVE Bytes(from, to) \in Seq(Nat)
    OBVIOUS
  <2>1. CASE from <= to
    BY <2>1 DEF Bytes
  <2>2. CASE from > to
    <3>1. 1 .. to - from = 1 .. 0
      BY <2>2
    <3>2. Bytes(from, to) = <<>>
      BY <3>1 DEF Bytes
    <3> QED
      BY <3>2
  <2> QED
    BY <2>1, <2>2
<1>2. <<>> \in Seq(Nat)
  OBVIOUS
<1> QED
  BY <1>1, <1>2 DEF ConnRec, DataRec, RecType, Dirs

(* Initially.                                                              *)
LEMMA TypedInit == Init => Typed
<1> SUFFICES ASSUME Init PROVE Typed
  OBVIOUS
<1>1. CapTyped
  <2>1. CaptureActive \in BOOLEAN /\ ringActive \in BOOLEAN
    BY DEF Init
  <2> QED
    BY <2>1 DEF Init, CapTyped
<1>2. WfpTyped
  <2>1. associated \in [Flows -> BOOLEAN] /\ lost \in [Flows -> [Dirs -> BOOLEAN]]
    BY DEF Init
  <2>2. wfp \in [Flows -> {"new", "live", "gone"}] /\ sent \in [Flows -> [Dirs -> Nat]]
        /\ indications \in Nat
    BY DEF Init
  <2> QED
    BY <2>1, <2>2 DEF WfpTyped
<1>3. CpuTyped
  BY NoJobTyped DEF Init, CpuTyped, Places
<1>4. RingTyped
  BY FlowsAssumption DEF Init, RingTyped
<1>5. AppTyped
  <2>1. ModelTyped
    BY DEF Init, ModelTyped
  <2> QED
    BY <2>1, FlowsAssumption DEF Init, AppTyped
<1> QED
  BY <1>1, <1>2, <1>3, <1>4, <1>5 DEF Typed
-----------------------------------------------------------------------------
(* The inductive invariant.                                                *)

Busy(c) == pc[c] # "idle"

(* At most one callback of a flow runs: a flow is established once, and    *)
(* stream callbacks need the context that ends its establishment.          *)
OneCallback ==
  \A c, e \in Cpus : Busy(c) /\ Busy(e) /\ job[c].flow = job[e].flow => c = e

(* How far the flow of each running callback is.                           *)
AtStage ==
  /\ \A f \in Flows : associated[f] => wfp[f] = "live"
  /\ \A c \in Cpus :
       /\ pc[c] \in {"open", "count", "associate"} =>
            wfp[job[c].flow] = "live" /\ ~ associated[job[c].flow]
       /\ pc[c] = "chunk" => associated[job[c].flow]
       /\ pc[c] \in {"close", "uncount"} => wfp[job[c].flow] = "gone"

(* What the ring has of a flow at that stage.                              *)
RecordsFit ==
  /\ \A i \in DOMAIN written :
       /\ wfp[written[i].flow] # "new"
       /\ written[i].type = "CLOSE" => wfp[written[i].flow] = "gone"
       /\ written[i].type # "DATA" => written[i] = ConnRec(written[i].type, written[i].flow)
  /\ \A c \in Cpus : \A i \in DOMAIN written :
       written[i].flow = job[c].flow =>
         /\ pc[c] # "open"
         /\ pc[c] = "close" => written[i].type # "CLOSE"

(* activeFlows, with the callbacks that are between a record and it.       *)
CpusAt(p) == {c \in Cpus : pc[c] = p}
CountKnown ==
  /\ IsFiniteSet(CpusAt("count")) /\ IsFiniteSet(CpusAt("uncount"))
  /\ activeFlows = (CountType(written, "OPEN") - Cardinality(CpusAt("count"))
                    - CountType(written, "CLOSE") + Cardinality(CpusAt("uncount"))) % Wrap

(* What ingest saw is the end of what poll has passed on, all of it if     *)
(* nothing was cleared.                                                    *)
SeenKnown ==
  /\ Len(seen) <= read /\ packetNo = Len(seen)
  /\ \A i \in DOMAIN seen : seen[i] = written[read - Len(seen) + i]
  /\ clears = 0 => Len(seen) = read

(* x is what the data ingested for a direction of f makes of its payload:  *)
(* all of it unless marked, and what the cap leaves of it while the cap is *)
(* the first one.                                                          *)
PayloadFits(f, x, d) ==
  LET all == DataOf(seen, f, d)
  IN  /\ ~ x.truncated[d] => x.payload[d] = all
      /\ clears = 0 => x.payload[d] = SubSeq(all, 1, Least(Len(all), payloadCap))

(* x is what ingest makes of all it saw of f.                              *)
ShownWell(f, x) ==
  /\ \A d \in Dirs : /\ PayloadFits(f, x, d)
                     /\ x.bytes[d] = IF x.closed THEN 0 ELSE Len(DataOf(seen, f, d))
  /\ x.closed <=> \E i \in DOMAIN seen : seen[i] = ConnRec("CLOSE", f)

(* Known or not: of a flow the model does not know, ingest saw nothing.    *)
AllShown == \A f \in Flows : ShownWell(f, Known(f))

(* The packet list is the end of what ingest saw.                          *)
NewestKept ==
  /\ Len(packets) = Least(Len(seen), PacketCap)
  /\ \A i \in 1 .. Len(packets) :
       packets[i] = [no  |-> Len(seen) - Len(packets) + i,
                     rec |-> seen[Len(seen) - Len(packets) + i]]

Chunking(c, f, d) == pc[c] = "chunk" /\ job[c].flow = f /\ job[c].dir = d

(* A direction of which no byte was lost is in the ring from its first     *)
(* byte on, at every record, up to where the running callback is.          *)
Streamed(s, f, d) ==
  LET all == DataOf(s, f, d) IN all = Bytes(0, Len(all)) /\ Len(all) <= sent[f][d]
AtEveryRecord(f, d) == \A n \in 0 .. Len(written) : Streamed(SubSeq(written, 1, n), f, d)
UpToCallback(f, d) ==
  /\ \A c \in Cpus : Chunking(c, f, d) =>
       /\ Len(DataOf(written, f, d)) = job[c].off
       /\ job[c].off <= job[c].got /\ job[c].got = sent[f][d]
  /\ (\A c \in Cpus : ~ Chunking(c, f, d)) => Len(DataOf(written, f, d)) = sent[f][d]
Wire(f, d) == ~ lost[f][d] => AtEveryRecord(f, d) /\ UpToCallback(f, d)
WireKnown == \A f \in Flows, d \in Dirs : Wire(f, d)

Order == OneCallback /\ AtStage /\ RecordsFit /\ LifeInOrder
Shown == SeenKnown /\ AllShown /\ NewestKept
-----------------------------------------------------------------------------
(* What each kind of step leaves alone.                                    *)

(* A WFP callback touches neither the switch nor the app.                  *)
LEMMA CallbackFrame ==
  ASSUME NEW c \in Cpus, Callback(c)
  PROVE  UNCHANGED <<CaptureActive, ringActive, switching, switches>> /\ UNCHANGED appVars
BY ZenonT(30) DEF Callback, FlowEstablished, WriteOpen, CountOpen, Associate, StreamIndication, WriteChunk,
       FlowDeleted, WriteClose, CountClose, capVars

(* The capture ioctls touch nothing but the switch.                        *)
LEMMA SwitchFrame ==
  ASSUME NEW p \in Clients, (\E on \in BOOLEAN : SwitchCapture(p, on)) \/ CopySwitch(p)
  PROVE  UNCHANGED wfpVars /\ UNCHANGED ringVars /\ UNCHANGED appVars /\ UNCHANGED <<pc, job>>
BY DEF SwitchCapture, CopySwitch

(* The app touches nothing of the driver.                                  *)
AppStep == Ingest \/ Clear \/ \E n \in PayloadCaps : SetPayloadCap(n)
LEMMA AppFrame ==
  ASSUME AppStep
  PROVE  UNCHANGED wfpVars /\ UNCHANGED capVars /\ UNCHANGED ringVars /\ UNCHANGED <<pc, job>>
BY DEF AppStep, Ingest, Clear, SetPayloadCap

(* The locals with which a flow's callbacks start.                         *)
LEMMA JobsMade ==
  ASSUME NEW f \in Flows
  PROVE  /\ \A h \in BOOLEAN : LET j == [NoJob EXCEPT !.flow = f, !.handle = h]
                               IN  j \in JobType /\ j.flow = f
         /\ LET j == [NoJob EXCEPT !.flow = f] IN j \in JobType /\ j.flow = f
<1>1. NoJob \in JobType
  BY NoJobTyped
<1> QED
  BY <1>1 DEF JobType

-----------------------------------------------------------------------------
(* What each callback step does, in terms of its own flow.                 *)

(* A callback starts: CPU c works on job j at place p.                     *)
Starts(c, p, j) == /\ pc' = [pc EXCEPT ![c] = p] /\ job' = [job EXCEPT ![c] = j]

(* KndClassifyFlow's entry.                                                *)
LEMMA EstablishedDoes ==
  ASSUME NEW c \in Cpus, NEW f \in Flows, NEW h \in BOOLEAN, FlowEstablished(c, f, h)
  PROVE  /\ pc[c] = "idle" /\ wfp[f] = "new" /\ wfp' = [wfp EXCEPT ![f] = "live"]
         /\ UNCHANGED <<associated, sent, lost, indications, written, activeFlows>>
         /\ \/ UNCHANGED <<pc, job>>
            \/ \E j \in JobType : j.flow = f /\ Starts(c, "open", j)
<1>1. /\ pc[c] = "idle" /\ wfp[f] = "new" /\ wfp' = [wfp EXCEPT ![f] = "live"]
      /\ UNCHANGED <<associated, sent, lost, indications, written, activeFlows>>
  BY DEF FlowEstablished, ringVars
<1>2. CASE CaptureActive
  <2> DEFINE j == [NoJob EXCEPT !.flow = f, !.handle = h]
  <2>1. Starts(c, "open", j)
    BY <1>2 DEF FlowEstablished, Starts, Goto
  <2>2. j \in JobType /\ j.flow = f
    BY JobsMade
  <2> HIDE DEF j
  <2> QED
    BY <1>1, <2>1, <2>2
<1>3. CASE ~ CaptureActive
  BY <1>1, <1>3 DEF FlowEstablished
<1> QED
  BY <1>2, <1>3

(* KndFlowDelete's entry.                                                  *)
LEMMA DeletedDoes ==
  ASSUME NEW c \in Cpus, NEW f \in Flows, FlowDeleted(c, f)
  PROVE  /\ pc[c] = "idle" /\ associated[f] /\ wfp[f] = "live" /\ ~ Serving(f)
         /\ wfp' = [wfp EXCEPT ![f] = "gone"] /\ associated' = [associated EXCEPT ![f] = FALSE]
         /\ UNCHANGED <<sent, lost, indications, written, activeFlows>>
         /\ \/ UNCHANGED <<pc, job>>
            \/ \E j \in JobType : j.flow = f /\ Starts(c, "close", j)
<1>1. /\ pc[c] = "idle" /\ associated[f] /\ wfp[f] = "live" /\ ~ Serving(f)
      /\ wfp' = [wfp EXCEPT ![f] = "gone"] /\ associated' = [associated EXCEPT ![f] = FALSE]
      /\ UNCHANGED <<sent, lost, indications, written, activeFlows>>
  BY DEF FlowDeleted, ringVars
<1>2. CASE CaptureActive
  <2>1. Starts(c, "close", [NoJob EXCEPT !.flow = f])
    BY <1>2 DEF FlowDeleted, Starts, Goto
  <2> QED
    BY <1>1, <2>1, JobsMade
<1>3. CASE ~ CaptureActive
  BY <1>1, <1>3 DEF FlowDeleted
<1> QED
  BY <1>2, <1>3

(* KndClassifyStream's entry: what is not copied is lost, what is copied   *)
(* is the job.                                                             *)
LEMMA IndicationDoes ==
  ASSUME Typed, NEW c \in Cpus, NEW f \in Flows, NEW d \in Dirs, NEW n \in Lengths,
         NEW s \in BOOLEAN, StreamIndication(c, f, d, n, s)
  PROVE  /\ pc[c] = "idle" /\ associated[f] /\ wfp[f] = "live" /\ ~ Serving(f)
         /\ sent[f][d] \in Nat /\ n \in Nat
         /\ sent' = [sent EXCEPT ![f][d] = sent[f][d] + n]
         /\ \E got \in 0 .. n :
              /\ lost' = [lost EXCEPT ![f][d] = lost[f][d] \/ got < n]
              /\ \/ got = 0 /\ UNCHANGED <<pc, job>>
                 \/ \E j \in JobType :
                      /\ Starts(c, "chunk", j) /\ j.flow = f /\ j.dir = d
                      /\ j.off = sent[f][d] /\ j.got = sent[f][d] + got
         /\ indications' = indications + 1
         /\ UNCHANGED <<wfp, associated, written, activeFlows>>
<1>0. n \in Nat /\ sent[f][d] \in Nat /\ CopyMax \in Nat
  BY FlowsAssumption DEF Typed, WfpTyped
<1> DEFINE got == IF CaptureActive /\ s THEN (IF n > CopyMax THEN CopyMax ELSE n) ELSE 0
<1>1. got \in 0 .. n
  BY <1>0
<1>2. /\ pc[c] = "idle" /\ associated[f] /\ wfp[f] = "live" /\ ~ Serving(f)
      /\ sent' = [sent EXCEPT ![f][d] = @ + n]
      /\ lost' = [lost EXCEPT ![f][d] = @ \/ got < n]
      /\ indications' = indications + 1
      /\ UNCHANGED <<wfp, associated, written, activeFlows>>
  BY DEF StreamIndication, ringVars
<1>3. IF got > 0
      THEN Starts(c, "chunk", [NoJob EXCEPT !.flow = f, !.dir = d, !.off = sent[f][d],
                                            !.got = sent[f][d] + got])
      ELSE UNCHANGED <<job, pc>>
  BY DEF StreamIndication, Starts, Goto
<1> HIDE DEF got
<1>4. \/ got = 0 /\ UNCHANGED <<pc, job>>
      \/ \E j \in JobType : /\ Starts(c, "chunk", j) /\ j.flow = f /\ j.dir = d
                            /\ j.off = sent[f][d] /\ j.got = sent[f][d] + got
  <2>1. CASE got > 0
    <3>0. sent[f][d] \in Nat /\ sent[f][d] + got \in Nat
      BY <1>0, <1>1
    <3>1. PICK a \in Nat, b \in Nat : a = sent[f][d] /\ b = sent[f][d] + got
      BY <3>0, Zenon
    <3> DEFINE j == [NoJob EXCEPT !.flow = f, !.dir = d, !.off = a, !.got = b]
    <3>2. Starts(c, "chunk", j)
      BY <1>3, <2>1, <3>1
    <3>3. j \in JobType /\ j.flow = f /\ j.dir = d /\ j.off = a /\ j.got = b
      BY NoJobTyped DEF JobType
    <3> HIDE DEF j
    <3> QED
      BY <3>1, <3>2, <3>3
  <2>2. CASE ~ (got > 0)
    BY <1>1, <1>3, <2>2
  <2> QED
    BY <2>1, <2>2
<1> QED
  BY <1>0, <1>1, <1>2, <1>4
(* One round of the loop over the bytes copied: a record of the next       *)
(* chunk, or its loss.                                                     *)
LEMMA ChunkDoes ==
  ASSUME Typed, NEW c \in Cpus, WriteChunk(c)
  PROVE  /\ pc[c] = "chunk" /\ job[c] \in JobType /\ ChunkEnds(job[c]) \in Nat
         /\ \/ /\ written' = Append(written, DataRec(job[c].flow, job[c].dir,
                                                     Bytes(job[c].off, ChunkEnds(job[c]))))
               /\ lost' = lost
            \/ /\ written' = written
               /\ lost' = [lost EXCEPT ![job[c].flow][job[c].dir] = TRUE]
         /\ job' = [job EXCEPT ![c].off = ChunkEnds(job[c])]
         /\ \/ pc' = pc /\ ChunkEnds(job[c]) < job[c].got
            \/ pc' = [pc EXCEPT ![c] = "idle"] /\ ~ (ChunkEnds(job[c]) < job[c].got)
         /\ UNCHANGED <<wfp, associated, sent, indications, activeFlows>>
<1>0. job[c] \in JobType /\ pc \in [Cpus -> Places]
  BY DEF Typed, CpuTyped
<1>1. ChunkEnds(job[c]) \in Nat
  <2>1. job[c].off \in Nat /\ job[c].got \in Nat /\ MaxChunk \in Nat
    BY <1>0, FlowsAssumption DEF JobType
  <2> QED
    BY <2>1 DEF ChunkEnds
<1>2. /\ pc[c] = "chunk" /\ job' = [job EXCEPT ![c].off = ChunkEnds(job[c])]
      /\ UNCHANGED <<wfp, associated, sent, indications, activeFlows>>
      /\ pc' = [pc EXCEPT ![c] = IF ChunkEnds(job[c]) < job[c].got THEN "chunk" ELSE "idle"]
  BY DEF WriteChunk, Goto
<1>3. \/ /\ written' = Append(written, DataRec(job[c].flow, job[c].dir,
                                               Bytes(job[c].off, ChunkEnds(job[c]))))
         /\ lost' = lost
      \/ /\ written' = written
         /\ lost' = [lost EXCEPT ![job[c].flow][job[c].dir] = TRUE]
  BY DEF WriteChunk
<1>4. \/ pc' = pc /\ ChunkEnds(job[c]) < job[c].got
      \/ pc' = [pc EXCEPT ![c] = "idle"] /\ ~ (ChunkEnds(job[c]) < job[c].got)
  BY <1>0, <1>2
<1> QED
  BY <1>0, <1>1, <1>2, <1>3, <1>4

(* KndClassifyFlow and KndFlowDelete write their record, or lose it.       *)
LEMMA ConnDoes ==
  ASSUME Typed, NEW c \in Cpus, WriteOpen(c) \/ WriteClose(c)
  PROVE  \E t \in {"OPEN", "CLOSE"}, p \in {"count", "associate", "uncount", "idle"} :
           /\ IF t = "OPEN" THEN pc[c] = "open" /\ p \in {"count", "associate"}
                            ELSE pc[c] = "close" /\ p \in {"uncount", "idle"}
           /\ IF p \in {"count", "uncount"} THEN written' = Append(written, ConnRec(t, job[c].flow))
                                            ELSE written' = written
           /\ pc' = [pc EXCEPT ![c] = p]
           /\ UNCHANGED <<wfp, associated, sent, lost, indications, activeFlows, job>>
<1>1. CASE WriteOpen(c)
  <2>1. /\ pc[c] = "open" /\ UNCHANGED <<wfp, associated, sent, lost, indications, activeFlows, job>>
        /\ \/ written' = Append(written, ConnRec("OPEN", job[c].flow))
              /\ pc' = [pc EXCEPT ![c] = "count"]
           \/ written' = written /\ pc' = [pc EXCEPT ![c] = "associate"]
    BY <1>1 DEF WriteOpen, Goto, wfpVars
  <2> QED
    BY <2>1
<1>2. CASE WriteClose(c)
  <2>1. /\ pc[c] = "close" /\ UNCHANGED <<wfp, associated, sent, lost, indications, activeFlows, job>>
        /\ \/ written' = Append(written, ConnRec("CLOSE", job[c].flow))
              /\ pc' = [pc EXCEPT ![c] = "uncount"]
           \/ written' = written /\ pc' = [pc EXCEPT ![c] = "idle"]
    BY <1>2 DEF WriteClose, Goto, wfpVars
  <2> QED
    BY <2>1
<1> QED
  BY <1>1, <1>2

(* The interlocked updates of activeFlows.                                 *)
LEMMA CountDoes ==
  ASSUME NEW c \in Cpus, CountOpen(c) \/ CountClose(c)
  PROVE  /\ \/ pc[c] = "count" /\ pc' = [pc EXCEPT ![c] = "associate"]
               /\ activeFlows' = (activeFlows + 1) % Wrap
            \/ pc[c] = "uncount" /\ pc' = [pc EXCEPT ![c] = "idle"]
               /\ activeFlows' = (activeFlows - 1) % Wrap
         /\ UNCHANGED <<wfp, associated, sent, lost, indications, written, job>>
BY DEF CountOpen, CountClose, Goto, wfpVars

(* FwpsFlowAssociateContext0.                                              *)
LEMMA AssociateDoes ==
  ASSUME NEW c \in Cpus, Associate(c)
  PROVE  /\ pc[c] = "associate" /\ pc' = [pc EXCEPT ![c] = "idle"]
         /\ associated' = [associated EXCEPT ![job[c].flow] = job[c].handle]
         /\ UNCHANGED <<wfp, sent, lost, indications, written, activeFlows, job>>
BY DEF Associate, Goto, ringVars
-----------------------------------------------------------------------------
(* What ingest does to a flow.                                             *)

Room(x, d) == IF Len(x.payload[d]) < payloadCap THEN payloadCap - Len(x.payload[d]) ELSE 0

(* DATA: the totals of its direction grow by the length, the payload by    *)
(* what the cap leaves room for, and a cut is marked.                      *)
LEMMA KeepDataDoes ==
  ASSUME payloadCap \in Nat, NEW x \in FlowType, NEW r \in RecType
  PROVE  LET y == KeepData(x, r)
             take == Least(Len(r.data), Room(x, r.dir))
         IN  /\ y \in FlowType /\ y.closed = x.closed
             /\ \A d \in Dirs \ {r.dir} : /\ y.bytes[d] = x.bytes[d] /\ y.payload[d] = x.payload[d]
                                          /\ y.truncated[d] = x.truncated[d]
             /\ y.bytes[r.dir] = x.bytes[r.dir] + Len(r.data)
             /\ y.payload[r.dir] = x.payload[r.dir] \o SubSeq(r.data, 1, take)
             /\ y.truncated[r.dir] = (x.truncated[r.dir] \/ take < Len(r.data) \/ Room(x, r.dir) = 0)
             /\ take \in 0 .. Len(r.data)
<1> DEFINE take == Least(Len(r.data), Room(x, r.dir))
<1>1. /\ x.closed \in BOOLEAN /\ x.bytes \in [Dirs -> Nat] /\ x.payload \in [Dirs -> Seq(Nat)]
      /\ x.truncated \in [Dirs -> BOOLEAN] /\ r.dir \in Dirs /\ r.data \in Seq(Nat)
  BY DEF FlowType, RecType
<1>2. Room(x, r.dir) \in Nat /\ Len(r.data) \in Nat
  BY <1>1 DEF Room
<1>3. take \in 0 .. Len(r.data)
  BY <1>2 DEF Least
<1>4. KeepData(x, r) = [x EXCEPT !.bytes[r.dir] = @ + Len(r.data),
                                 !.payload[r.dir] = x.payload[r.dir] \o SubSeq(r.data, 1, take),
                                 !.truncated[r.dir] = @ \/ take < Len(r.data) \/ Room(x, r.dir) = 0]
  BY DEF KeepData, Least, Room
<1> HIDE DEF take
<1> DEFINE bytes == [x.bytes EXCEPT ![r.dir] = @ + Len(r.data)]
           payload == [x.payload EXCEPT ![r.dir] = x.payload[r.dir] \o SubSeq(r.data, 1, take)]
           truncated == [x.truncated EXCEPT ![r.dir] = @ \/ take < Len(r.data) \/ Room(x, r.dir) = 0]
<1>5. KeepData(x, r) = [closed |-> x.closed, bytes |-> bytes, payload |-> payload,
                        truncated |-> truncated]
  BY <1>4 DEF FlowType
<1>6. bytes \in [Dirs -> Nat] /\ bytes[r.dir] = x.bytes[r.dir] + Len(r.data)
      /\ \A d \in Dirs \ {r.dir} : bytes[d] = x.bytes[d]
  BY <1>1, <1>2
<1>7. x.payload[r.dir] \o SubSeq(r.data, 1, take) \in Seq(Nat)
  <2>1. SubSeq(r.data, 1, take) \in Seq(Nat)
    BY <1>1, <1>2, <1>3
  <2>2. x.payload[r.dir] \in Seq(Nat)
    BY <1>1
  <2> QED
    BY <2>1, <2>2
<1>8. /\ payload \in [Dirs -> Seq(Nat)]
      /\ payload[r.dir] = x.payload[r.dir] \o SubSeq(r.data, 1, take)
      /\ \A d \in Dirs \ {r.dir} : payload[d] = x.payload[d]
  <2>1. PICK whole \in Seq(Nat) : whole = x.payload[r.dir] \o SubSeq(r.data, 1, take)
    BY <1>7
  <2>2. payload = [x.payload EXCEPT ![r.dir] = whole]
    BY <2>1
  <2> HIDE DEF payload
  <2> QED
    BY <1>1, <2>1, <2>2
<1>9. /\ truncated \in [Dirs -> BOOLEAN]
      /\ truncated[r.dir] = (x.truncated[r.dir] \/ take < Len(r.data) \/ Room(x, r.dir) = 0)
      /\ \A d \in Dirs \ {r.dir} : truncated[d] = x.truncated[d]
  BY <1>1
<1> HIDE DEF bytes, payload, truncated
<1>10. KeepData(x, r) \in FlowType
  BY <1>1, <1>5, <1>6, <1>8, <1>9 DEF FlowType
<1> QED
  BY <1>3, <1>5, <1>6, <1>8, <1>9, <1>10, SMTT(30) DEF take

(* CLOSE: the flow is closed and its totals are the record's zeroes.       *)
LEMMA ClosedDoes ==
  ASSUME NEW x \in FlowType
  PROVE  LET y == [x EXCEPT !.closed = TRUE, !.bytes = [d \in Dirs |-> 0]]
         IN  /\ y \in FlowType /\ y.closed = TRUE /\ y.payload = x.payload
             /\ y.truncated = x.truncated /\ \A d \in Dirs : y.bytes[d] = 0
<1>1. x.closed \in BOOLEAN /\ TRUE \in BOOLEAN
  BY DEF FlowType
<1>2. [d \in Dirs |-> 0] \in [Dirs -> Nat]
  OBVIOUS
<1> QED
  BY <1>1, <1>2 DEF FlowType

(* getOrCreate and the assignment of the flow.                             *)
LEMMA PutDoes ==
  ASSUME Typed, NEW f \in Flows, NEW v \in FlowType
  PROVE  /\ Known(f) \in FlowType
         /\ DOMAIN Put(f, v) = DOMAIN model \cup {f} /\ Put(f, v)[f] = v
         /\ \A g \in DOMAIN model \ {f} : Put(f, v)[g] = model[g]
         /\ DOMAIN Put(f, v) \subseteq Flows
         /\ \A g \in DOMAIN Put(f, v) : Put(f, v)[g] \in FlowType
<1>1. ModelTyped
  BY DEF Typed, AppTyped
<1> QED
  BY <1>1, NoFlowTyped DEF ModelTyped, Known, Put

(* What one record does to its flow has the type of a flow.                *)
LEMMA IngestedTyped ==
  ASSUME Typed, NEW r \in RecType
  PROVE  Ingested(r) \in FlowType
<1>1. r.flow \in Flows /\ r.type \in {"OPEN", "CLOSE", "DATA"}
  BY DEF RecType
<1>2. Known(r.flow) \in FlowType
  BY <1>1, NoFlowTyped, PutDoes
<1>3. payloadCap \in Nat
  BY DEF Typed, AppTyped
<1>4. CASE r.type = "OPEN"
  BY <1>2, <1>4 DEF Ingested
<1>5. CASE r.type = "CLOSE"
  BY <1>2, <1>5, ClosedDoes DEF Ingested
<1>6. CASE r.type = "DATA"
  <2>1. Ingested(r) = KeepData(Known(r.flow), r)
    BY <1>6 DEF Ingested
  <2> QED
    BY <1>2, <1>3, <2>1, KeepDataDoes
<1> QED
  BY <1>1, <1>4, <1>5, <1>6
-----------------------------------------------------------------------------
(* Types.                                                                  *)

(* A callback keeps the types of the flows, the CPUs and the ring.         *)
LEMMA CallbackTyped ==
  ASSUME Typed, NEW c \in Cpus, Callback(c)
  PROVE  WfpTyped' /\ CpuTyped' /\ RingTyped'
<1>0. /\ wfp \in [Flows -> {"new", "live", "gone"}] /\ associated \in [Flows -> BOOLEAN]
      /\ sent \in [Flows -> [Dirs -> Nat]] /\ lost \in [Flows -> [Dirs -> BOOLEAN]]
      /\ indications \in Nat /\ pc \in [Cpus -> Places] /\ job \in [Cpus -> JobType]
      /\ activeFlows \in 0 .. Wrap - 1 /\ written \in Seq(RecType) /\ read \in 0 .. Len(written)
  BY DEF Typed, WfpTyped, CpuTyped, RingTyped
<1>a. read' = read
  BY CallbackFrame DEF appVars
<1>b. ASSUME NEW p \in Places, NEW j \in JobType, Starts(c, p, j) PROVE CpuTyped'
  BY <1>0, <1>b DEF CpuTyped, Starts
<1>c. UNCHANGED <<pc, job>> => CpuTyped'
  BY <1>0 DEF CpuTyped
<1>d. UNCHANGED <<written, activeFlows>> => RingTyped'
  BY <1>0, <1>a DEF RingTyped
<1>e. ASSUME NEW r \in RecType, written' = Append(written, r), activeFlows' = activeFlows
      PROVE  RingTyped'
  BY <1>0, <1>a, <1>e DEF RingTyped
<1>f. UNCHANGED <<wfp, associated, sent, lost, indications>> => WfpTyped'
  BY <1>0 DEF WfpTyped
<1>1. ASSUME NEW f \in Flows, NEW h \in BOOLEAN, FlowEstablished(c, f, h)
      PROVE  WfpTyped' /\ CpuTyped' /\ RingTyped'
  <2>1. WfpTyped'
    <3>1. wfp' = [wfp EXCEPT ![f] = "live"] /\ UNCHANGED <<associated, sent, lost, indications>>
      BY <1>1, EstablishedDoes
    <3>2. wfp' \in [Flows -> {"new", "live", "gone"}]
      BY <1>0, <3>1
    <3> QED
      BY <1>0, <3>1, <3>2 DEF WfpTyped
  <2>2. "open" \in Places
    BY DEF Places
  <2> QED
    BY <1>1, <1>b, <1>c, <1>d, <2>1, <2>2, EstablishedDoes
<1>2. ASSUME NEW f \in Flows, FlowDeleted(c, f)
      PROVE  WfpTyped' /\ CpuTyped' /\ RingTyped'
  <2>1. WfpTyped'
    <3>1. /\ wfp' = [wfp EXCEPT ![f] = "gone"] /\ associated' = [associated EXCEPT ![f] = FALSE]
          /\ UNCHANGED <<sent, lost, indications>>
      BY <1>2, DeletedDoes
    <3>2. associated' \in [Flows -> BOOLEAN]
      BY <1>0, <3>1
    <3> QED
      BY <1>0, <3>1, <3>2 DEF WfpTyped
  <2>2. "close" \in Places
    BY DEF Places
  <2> QED
    BY <1>2, <1>b, <1>c, <1>d, <2>1, <2>2, DeletedDoes
<1>3. ASSUME NEW f \in Flows, NEW d \in Dirs, NEW n \in Lengths, NEW s \in BOOLEAN,
             StreamIndication(c, f, d, n, s)
      PROVE  WfpTyped' /\ CpuTyped' /\ RingTyped'
  <2>1. PICK got \in 0 .. n :
          /\ lost' = [lost EXCEPT ![f][d] = lost[f][d] \/ got < n]
          /\ \/ got = 0 /\ UNCHANGED <<pc, job>>
             \/ \E j \in JobType : /\ Starts(c, "chunk", j) /\ j.flow = f /\ j.dir = d
                                   /\ j.off = sent[f][d] /\ j.got = sent[f][d] + got
    BY <1>3, IndicationDoes
  <2>2. /\ sent[f][d] \in Nat /\ n \in Nat /\ sent' = [sent EXCEPT ![f][d] = sent[f][d] + n]
        /\ indications' = indications + 1 /\ UNCHANGED <<wfp, associated, written, activeFlows>>
    BY <1>3, IndicationDoes
  <2>3. sent' \in [Flows -> [Dirs -> Nat]] /\ indications' \in Nat
    BY <1>0, <2>2
  <2>4. lost' \in [Flows -> [Dirs -> BOOLEAN]]
    BY <1>0, <2>1
  <2>5. WfpTyped'
    BY <1>0, <2>2, <2>3, <2>4 DEF WfpTyped
  <2>6. "chunk" \in Places
    BY DEF Places
  <2> QED
    BY <1>b, <1>c, <1>d, <2>1, <2>2, <2>5, <2>6
<1>4. CASE WriteChunk(c)
  <2>1. job[c].flow \in Flows /\ job[c].dir \in Dirs /\ job[c].off \in Nat /\ job[c] \in JobType
    BY <1>0 DEF JobType
  <2>2. PICK ends \in Nat : ends = ChunkEnds(job[c])
    BY <1>4, ChunkDoes
  <2>3. DataRec(job[c].flow, job[c].dir, Bytes(job[c].off, ends)) \in RecType
    BY <2>1, RecordsTyped
  <2>4. RingTyped'
    BY <1>4, <1>d, <1>e, <2>2, <2>3, ChunkDoes
  <2>5. lost' \in [Flows -> [Dirs -> BOOLEAN]]
    <3>1. lost' = lost \/ lost' = [lost EXCEPT ![job[c].flow][job[c].dir] = TRUE]
      BY <1>4, ChunkDoes
    <3>2. TRUE \in BOOLEAN
      OBVIOUS
    <3>3. \A f \in Flows, d \in Dirs, b \in BOOLEAN :
            [lost EXCEPT ![f][d] = b] \in [Flows -> [Dirs -> BOOLEAN]]
      BY <1>0
    <3>4. [lost EXCEPT ![job[c].flow][job[c].dir] = TRUE] \in [Flows -> [Dirs -> BOOLEAN]]
      BY <2>1, <3>2, <3>3, Zenon
    <3> QED
      BY <1>0, <3>1, <3>4, Zenon
  <2>6. UNCHANGED <<wfp, associated, sent, indications>>
    BY <1>4, ChunkDoes
  <2>7. job' = [job EXCEPT ![c].off = ends] /\ (pc' = pc \/ pc' = [pc EXCEPT ![c] = "idle"])
    BY <1>4, <2>2, ChunkDoes
  <2>8. [job[c] EXCEPT !.off = ends] \in JobType
    BY <2>1 DEF JobType
  <2>9. CpuTyped'
    BY <1>0, <2>7, <2>8 DEF CpuTyped, Places
  <2> QED
    BY <1>0, <2>4, <2>5, <2>6, <2>9 DEF WfpTyped
<1>5. CASE WriteOpen(c) \/ WriteClose(c)
  <2>1. job[c].flow \in Flows
    BY <1>0 DEF JobType
  <2>2. PICK t \in {"OPEN", "CLOSE"}, p \in {"count", "associate", "uncount", "idle"} :
          /\ written' = written \/ written' = Append(written, ConnRec(t, job[c].flow))
          /\ pc' = [pc EXCEPT ![c] = p]
          /\ UNCHANGED <<wfp, associated, sent, lost, indications, activeFlows, job>>
    BY <1>5, ConnDoes
  <2>3. ConnRec(t, job[c].flow) \in RecType
    BY <2>1, RecordsTyped
  <2>4. CpuTyped'
    BY <1>0, <2>2 DEF CpuTyped, Places
  <2> QED
    BY <1>d, <1>e, <1>f, <2>2, <2>3, <2>4
<1>6. CASE CountOpen(c) \/ CountClose(c)
  <2>1. activeFlows' \in 0 .. Wrap - 1
    <3>1. \A x \in Int : x % Wrap \in 0 .. Wrap - 1
      BY FlowsAssumption
    <3>2. activeFlows + 1 \in Int /\ activeFlows - 1 \in Int
      BY <1>0, FlowsAssumption
    <3> QED
      BY <1>6, <3>1, <3>2, CountDoes
  <2>2. CpuTyped'
    BY <1>0, <1>6, CountDoes DEF CpuTyped, Places
  <2>3. WfpTyped'
    BY <1>6, <1>f, CountDoes
  <2> QED
    BY <1>0, <1>6, <1>a, <2>1, <2>2, <2>3, CountDoes DEF RingTyped
<1>7. CASE Associate(c)
  <2>1. /\ pc' = [pc EXCEPT ![c] = "idle"] /\ associated' = [associated EXCEPT ![job[c].flow] = job[c].handle]
        /\ UNCHANGED <<wfp, sent, lost, indications, written, activeFlows, job>>
    BY <1>7, AssociateDoes
  <2>2. job[c].handle \in BOOLEAN
    BY <1>0 DEF JobType
  <2>3. associated' \in [Flows -> BOOLEAN]
    BY <1>0, <2>1, <2>2
  <2>4. CpuTyped'
    BY <1>0, <2>1 DEF CpuTyped, Places
  <2> QED
    BY <1>0, <1>d, <2>1, <2>3, <2>4 DEF WfpTyped
<1> QED
  BY <1>1, <1>2, <1>3, <1>4, <1>5, <1>6, <1>7 DEF Callback
(* One record goes from the ring to the model, the packet list and the     *)
(* history.                                                                *)
LEMMA IngestDoes ==
  ASSUME Typed, Ingest
  PROVE  \E r \in RecType :
           /\ read < Len(written) /\ r = written[read + 1]
           /\ r.flow \in Flows /\ Ingested(r) \in FlowType
           /\ model' = Put(r.flow, Ingested(r))
           /\ packets' = PushPacket(packets, [no |-> packetNo + 1, rec |-> r])
           /\ seen' = Append(seen, r) /\ packetNo' = packetNo + 1 /\ read' = read + 1
           /\ UNCHANGED <<payloadCap, clears, written>>
<1>1. written \in Seq(RecType) /\ read \in 0 .. Len(written) /\ read < Len(written)
  BY DEF Typed, RingTyped, Ingest
<1>2. PICK r \in RecType : r = written[read + 1]
  BY <1>1
<1>3. /\ model' = Put(r.flow, Ingested(r))
      /\ packets' = PushPacket(packets, [no |-> packetNo + 1, rec |-> r])
      /\ seen' = Append(seen, r) /\ packetNo' = packetNo + 1 /\ read' = read + 1
      /\ UNCHANGED <<payloadCap, clears, written>>
  BY <1>2 DEF Ingest, ringVars
<1>4. r.flow \in Flows /\ Ingested(r) \in FlowType
  BY IngestedTyped DEF RecType
<1> QED
  BY <1>1, <1>2, <1>3, <1>4

(* pushPacket keeps a sequence of packets.                                 *)
LEMMA PushTyped ==
  ASSUME NEW ps \in Seq(PacketType), NEW p \in PacketType
  PROVE  PushPacket(ps, p) \in Seq(PacketType)
<1>0. Append(ps, p) \in Seq(PacketType) /\ Len(Append(ps, p)) = Len(ps) + 1
  OBVIOUS
<1>a. Len(Append(ps, p)) # 0
  BY <1>0
<1>1. Append(ps, p) \in Seq(PacketType) /\ Append(ps, p) # <<>>
  <2>1. ASSUME Append(ps, p) = <<>> PROVE FALSE
    <3>1. Len(Append(ps, p)) = Len(<<>>)
      BY <2>1, Zenon
    <3> QED
      BY <1>a, <3>1
  <2> QED
    BY <1>0, <2>1
<1>2. Tail(Append(ps, p)) \in Seq(PacketType)
  BY <1>1
<1> QED
  BY <1>1, <1>2 DEF PushPacket

(* The app's steps keep its types.                                         *)
LEMMA AppStepTyped ==
  ASSUME Typed, AppStep
  PROVE  AppTyped' /\ RingTyped'
<1>0. /\ ModelTyped /\ packets \in Seq(PacketType) /\ packetNo \in Nat /\ payloadCap \in Nat
      /\ seen \in Seq(RecType) /\ clears \in Nat /\ activeFlows \in 0 .. Wrap - 1
      /\ written \in Seq(RecType) /\ read \in 0 .. Len(written)
  BY DEF Typed, AppTyped, RingTyped
<1>1. UNCHANGED <<written, activeFlows>>
  BY AppFrame DEF ringVars
<1>2. CASE Ingest
  <2>1. PICK r \in RecType :
           /\ read < Len(written)
           /\ r.flow \in Flows /\ Ingested(r) \in FlowType
           /\ model' = Put(r.flow, Ingested(r))
           /\ packets' = PushPacket(packets, [no |-> packetNo + 1, rec |-> r])
           /\ seen' = Append(seen, r) /\ packetNo' = packetNo + 1 /\ read' = read + 1
           /\ UNCHANGED <<payloadCap, clears>>
    BY <1>2, IngestDoes
  <2>2. ModelTyped'
    BY <2>1, PutDoes DEF ModelTyped
  <2>3. packets' \in Seq(PacketType)
    <3>0. packetNo + 1 \in Nat
      BY <1>0
    <3>a. [no |-> packetNo + 1, rec |-> r] \in PacketType
      BY <3>0 DEF PacketType
    <3>1. PICK p \in PacketType : p = [no |-> packetNo + 1, rec |-> r]
      BY <3>a, Zenon
    <3> QED
      BY <1>0, <2>1, <3>1, PushTyped
  <2>4. seen' \in Seq(RecType)
    BY <1>0, <2>1
  <2>5. packetNo' \in Nat /\ read' \in 0 .. Len(written) /\ payloadCap' \in Nat /\ clears' \in Nat
    BY <1>0, <2>1
  <2> QED
    BY <1>0, <1>1, <2>2, <2>3, <2>4, <2>5 DEF AppTyped, RingTyped
<1>3. CASE Clear
  <2>1. /\ clears' = clears + 1 /\ model' = <<>> /\ packets' = <<>> /\ packetNo' = 0
        /\ seen' = <<>> /\ UNCHANGED <<read, payloadCap>>
    BY <1>3 DEF Clear
  <2>2. ModelTyped'
    BY <2>1 DEF ModelTyped
  <2>3. packets' \in Seq(PacketType) /\ seen' \in Seq(RecType)
    BY <2>1
  <2>4. packetNo' \in Nat /\ payloadCap' \in Nat /\ clears' \in Nat
    BY <1>0, <2>1
  <2> QED
    BY <1>0, <1>1, <2>1, <2>2, <2>3, <2>4 DEF AppTyped, RingTyped
<1>4. ASSUME NEW n \in PayloadCaps, SetPayloadCap(n) PROVE AppTyped' /\ RingTyped'
  <2>1. clears' = clears + 1 /\ payloadCap' = n /\ UNCHANGED <<read, model, packets, packetNo, seen>>
    BY <1>4 DEF SetPayloadCap
  <2>2. payloadCap' \in Nat /\ clears' \in Nat
    BY <1>0, <2>1, FlowsAssumption
  <2> QED
    BY <1>0, <1>1, <2>1, <2>2 DEF AppTyped, RingTyped, ModelTyped
<1> QED
  BY <1>2, <1>3, <1>4 DEF AppStep

(* Every variable keeps its type.                                          *)
LEMMA TypedStep == Typed /\ [Next]_vars => Typed'
<1> SUFFICES ASSUME Typed, [Next]_vars PROVE Typed'
  OBVIOUS
<1>0. CapTyped /\ WfpTyped /\ CpuTyped /\ RingTyped /\ AppTyped
  BY DEF Typed
<1>1. UNCHANGED <<CaptureActive, ringActive, switching, switches>> => CapTyped'
  BY <1>0 DEF CapTyped
<1>2. UNCHANGED wfpVars => WfpTyped'
  BY <1>0 DEF WfpTyped, wfpVars
<1>3. UNCHANGED <<pc, job>> => CpuTyped'
  BY <1>0 DEF CpuTyped
<1>4. UNCHANGED ringVars /\ UNCHANGED appVars => RingTyped'
  BY <1>0 DEF RingTyped, ringVars, appVars
<1>5. UNCHANGED appVars => AppTyped'
  BY <1>0 DEF AppTyped, ModelTyped, appVars
<1>6. ASSUME NEW c \in Cpus, Callback(c) PROVE Typed'
  BY <1>1, <1>5, <1>6, CallbackFrame, CallbackTyped DEF Typed
<1>7. ASSUME NEW p \in Clients, (\E on \in BOOLEAN : SwitchCapture(p, on)) \/ CopySwitch(p)
      PROVE  Typed'
  <2>0. /\ switching \in [Clients -> {"none", "on", "off"}] /\ switches \in Nat
        /\ CaptureActive \in BOOLEAN /\ ringActive \in BOOLEAN
    BY <1>0 DEF CapTyped
  <2>1. /\ \E v \in {"none", "on", "off"} : switching' = [switching EXCEPT ![p] = v]
        /\ switches' \in {switches, switches + 1}
    BY <1>7 DEF SwitchCapture, CopySwitch
  <2>2. CaptureActive' \in BOOLEAN /\ ringActive' \in BOOLEAN
    <3>1. CASE CopySwitch(p)
      <4>1. CaptureActive' = CaptureActive /\ ringActive' = (switching[p] = "on")
        BY <3>1 DEF CopySwitch
      <4> QED
        BY <2>0, <4>1
    <3>2. ASSUME NEW on \in BOOLEAN, SwitchCapture(p, on)
          PROVE  CaptureActive' \in BOOLEAN /\ ringActive' \in BOOLEAN
      BY <2>0, <3>2 DEF SwitchCapture
    <3> QED
      BY <1>7, <3>1, <3>2
  <2>3. switching' \in [Clients -> {"none", "on", "off"}] /\ switches' \in Nat
    BY <2>0, <2>1
  <2>4. CapTyped'
    BY <2>2, <2>3 DEF CapTyped
  <2> QED
    BY <1>2, <1>3, <1>4, <1>5, <1>7, <2>4, SwitchFrame DEF Typed
<1>8. CASE AppStep
  BY <1>1, <1>2, <1>3, <1>8, AppFrame, AppStepTyped DEF Typed, capVars
<1>9. CASE UNCHANGED vars
  BY <1>1, <1>2, <1>3, <1>4, <1>5, <1>9 DEF vars, capVars, Typed
<1> QED
  BY <1>6, <1>7, <1>8, <1>9 DEF Next, AppStep
-----------------------------------------------------------------------------
(* The order of a flow's records.                                          *)

(* No callback of the flow runs.                                           *)
Idle(f) == \A c \in Cpus : Busy(c) => job[c].flow # f

(* A flow not yet established, or with a context and no stream callback,   *)
(* has no callback running: the next one is its only one.                  *)
LEMMA NextIsOnly ==
  ASSUME Typed, Order, NEW f \in Flows, wfp[f] = "new" \/ (associated[f] /\ ~ Serving(f))
  PROVE  Idle(f)
<1> SUFFICES ASSUME NEW c \in Cpus, Busy(c), job[c].flow = f PROVE FALSE
  BY DEF Idle
<1>1. pc[c] \in {"open", "count", "associate", "chunk", "close", "uncount"}
  BY DEF Typed, CpuTyped, Places, Busy
<1>2. /\ pc[c] \in {"open", "count", "associate"} => wfp[f] = "live" /\ ~ associated[f]
      /\ pc[c] = "chunk" => associated[f] /\ wfp[f] = "live"
      /\ pc[c] \in {"close", "uncount"} => wfp[f] = "gone"
  BY DEF Order, AtStage
<1>3. pc[c] \in {"chunk", "close", "uncount"} => Serving(f)
  BY DEF Serving
<1> QED
  BY <1>1, <1>2, <1>3

(* A callback that starts on such a flow is the only one.                  *)
LEMMA StartsAlone ==
  ASSUME Typed, OneCallback, NEW c \in Cpus, NEW f \in Flows, Idle(f), NEW p \in Places, NEW j \in JobType,
         j.flow = f, Starts(c, p, j)
  PROVE  /\ OneCallback'
         /\ pc'[c] = p /\ job'[c] = j
         /\ \A e \in Cpus \ {c} : pc'[e] = pc[e] /\ job'[e] = job[e]
<1>1. pc \in [Cpus -> Places] /\ job \in [Cpus -> JobType]
  BY DEF Typed, CpuTyped
<1>2. /\ pc'[c] = p /\ job'[c] = j
      /\ \A e \in Cpus \ {c} : pc'[e] = pc[e] /\ job'[e] = job[e]
  BY <1>1 DEF Starts
<1>3. OneCallback'
  BY <1>2 DEF OneCallback, Busy, Idle
<1> QED
  BY <1>2, <1>3

(* A callback that goes on stays the only one of its flow.                 *)
LEMMA GoesOn ==
  ASSUME Typed, OneCallback, NEW c \in Cpus, Busy(c), NEW p \in Places, pc' = [pc EXCEPT ![c] = p],
         \A e \in Cpus : job'[e].flow = job[e].flow
  PROVE  /\ OneCallback' /\ pc'[c] = p
         /\ \A e \in Cpus \ {c} : pc'[e] = pc[e]
<1>1. pc \in [Cpus -> Places]
  BY DEF Typed, CpuTyped
<1>2. pc'[c] = p /\ \A e \in Cpus \ {c} : pc'[e] = pc[e]
  BY <1>1
<1>3. OneCallback'
  BY <1>2 DEF OneCallback, Busy
<1> QED
  BY <1>2, <1>3

(* A record of the running callback's flow fits behind the others if it is *)
(* no OPEN after anything of the flow and nothing after its CLOSE.         *)
LEMMA RecordAdded ==
  ASSUME Typed, Order, NEW c \in Cpus, Busy(c), NEW r \in RecType, r.flow = job[c].flow,
         written' = Append(written, r), wfp' = wfp,
         \A e \in Cpus : job'[e].flow = job[e].flow,
         \A e \in Cpus \ {c} : pc'[e] = pc[e],
         pc'[c] \notin {"open", "close"},
         \A i \in DOMAIN written :
           written[i].flow = r.flow => r.type # "OPEN" /\ written[i].type # "CLOSE",
         wfp[r.flow] # "new", r.type = "CLOSE" => wfp[r.flow] = "gone",
         r.type # "DATA" => r = ConnRec(r.type, r.flow)
  PROVE  RecordsFit' /\ LifeInOrder'
<1>1. written \in Seq(RecType)
  BY DEF Typed, RingTyped
<1>2. /\ DOMAIN written' = 1 .. Len(written) + 1 /\ DOMAIN written = 1 .. Len(written)
      /\ Len(written) \in Nat
      /\ written'[Len(written) + 1] = r
      /\ \A i \in DOMAIN written : written'[i] = written[i]
  BY <1>1
<1>3. \A i \in DOMAIN written' : i \in DOMAIN written \/ i = Len(written) + 1
  BY <1>2
<1>4. LifeInOrder'
  <2> SUFFICES ASSUME NEW i \in DOMAIN written', NEW j \in DOMAIN written', i < j,
                      written'[i].flow = written'[j].flow
               PROVE  written'[j].type # "OPEN" /\ written'[i].type # "CLOSE"
    BY DEF LifeInOrder
  <2>1. i \in DOMAIN written
    BY <1>2
  <2>2. CASE j \in DOMAIN written
    BY <1>2, <2>1, <2>2 DEF Order, LifeInOrder
  <2>3. CASE j = Len(written) + 1
    BY <1>2, <2>1, <2>3
  <2> QED
    BY <1>3, <2>2, <2>3
<1>5. RecordsFit'
  <2>1. ASSUME NEW i \in DOMAIN written'
        PROVE  /\ wfp'[written'[i].flow] # "new"
               /\ written'[i].type = "CLOSE" => wfp'[written'[i].flow] = "gone"
               /\ written'[i].type # "DATA" =>
                    written'[i] = ConnRec(written'[i].type, written'[i].flow)
    <3>1. CASE i \in DOMAIN written
      BY <1>2, <3>1 DEF Order, RecordsFit
    <3>2. CASE i = Len(written) + 1
      BY <1>2, <3>2
    <3> QED
      BY <1>3, <3>1, <3>2
  <2>2. ASSUME NEW e \in Cpus, NEW i \in DOMAIN written', written'[i].flow = job'[e].flow
        PROVE  pc'[e] # "open" /\ (pc'[e] = "close" => written'[i].type # "CLOSE")
    <3>1. CASE e = c
      BY <3>1
    <3>2. CASE e # c /\ i \in DOMAIN written
      BY <1>2, <2>2, <3>2 DEF Order, RecordsFit
    <3>3. CASE e # c /\ i = Len(written) + 1
      BY <1>2, <2>2, <3>3 DEF Order, OneCallback, Busy
    <3> QED
      BY <1>3, <3>1, <3>2, <3>3
  <2> QED
    BY <2>1, <2>2 DEF RecordsFit
<1> QED
  BY <1>4, <1>5
(* KndClassifyFlow's entry: nothing of the flow is in the ring yet.        *)
LEMMA EstablishedOrder ==
  ASSUME Typed, Order, NEW c \in Cpus, NEW f \in Flows, NEW h \in BOOLEAN, FlowEstablished(c, f, h)
  PROVE  Order'
<1>0. wfp \in [Flows -> {"new", "live", "gone"}] /\ written \in Seq(RecType)
      /\ job \in [Cpus -> JobType]
  BY DEF Typed, WfpTyped, RingTyped, CpuTyped
<1>1. /\ wfp[f] = "new" /\ wfp' = [wfp EXCEPT ![f] = "live"]
      /\ associated' = associated /\ written' = written
      /\ UNCHANGED <<pc, job>> \/ \E j \in JobType : j.flow = f /\ Starts(c, "open", j)
  BY EstablishedDoes
<1>2. OneCallback /\ AtStage /\ RecordsFit /\ LifeInOrder /\ Idle(f)
  BY <1>1, NextIsOnly DEF Order
<1>3. wfp'[f] = "live" /\ ~ associated[f] /\ \A g \in Flows \ {f} : wfp'[g] = wfp[g]
  BY <1>0, <1>1, <1>2 DEF AtStage
<1>4. \A e \in Cpus : job[e].flow \in Flows
  BY <1>0 DEF JobType
<1>5. \A i \in DOMAIN written : written[i].flow \in Flows \ {f}
  <2>1. \A i \in DOMAIN written : written[i] \in RecType
    BY <1>0
  <2> QED
    BY <1>1, <1>2, <2>1 DEF RecordsFit, RecType
<1>6. LifeInOrder'
  BY <1>1, <1>2 DEF LifeInOrder
<1>7. CASE UNCHANGED <<pc, job>>
  <2>1. OneCallback'
    BY <1>2, <1>7 DEF OneCallback, Busy
  <2>2. AtStage'
    BY <1>1, <1>2, <1>3, <1>4, <1>7 DEF AtStage, Idle, Busy
  <2>3. RecordsFit'
    BY <1>1, <1>2, <1>3, <1>5, <1>7 DEF RecordsFit
  <2> QED
    BY <1>6, <2>1, <2>2, <2>3 DEF Order
<1>8. ASSUME NEW j \in JobType, j.flow = f, Starts(c, "open", j) PROVE Order'
  <2>0. "open" \in Places
    BY DEF Places
  <2>1. /\ OneCallback'
        /\ pc'[c] = "open" /\ job'[c] = j
        /\ \A e \in Cpus \ {c} : pc'[e] = pc[e] /\ job'[e] = job[e]
    BY <1>2, <1>8, <2>0, StartsAlone
  <2>2. AtStage'
    <3>1. ASSUME NEW e \in Cpus
          PROVE  /\ pc'[e] \in {"open", "count", "associate"} =>
                      wfp'[job'[e].flow] = "live" /\ ~ associated'[job'[e].flow]
                 /\ pc'[e] = "chunk" => associated'[job'[e].flow]
                 /\ pc'[e] \in {"close", "uncount"} => wfp'[job'[e].flow] = "gone"
      <4>1. CASE e = c
        BY <1>1, <1>3, <1>8, <2>1, <4>1
      <4>2. CASE e # c
        BY <1>1, <1>2, <1>3, <1>4, <2>1, <4>2 DEF AtStage, Idle, Busy
      <4> QED
        BY <4>1, <4>2
    <3> QED
      BY <1>1, <1>2, <1>3, <3>1 DEF AtStage
  <2>3. RecordsFit'
    <3>1. ASSUME NEW e \in Cpus, NEW i \in DOMAIN written, written[i].flow = job'[e].flow
          PROVE  pc'[e] # "open" /\ (pc'[e] = "close" => written[i].type # "CLOSE")
      <4>1. CASE e = c
        BY <1>5, <1>8, <2>1, <3>1, <4>1
      <4>2. CASE e # c
        BY <1>2, <2>1, <3>1, <4>2 DEF RecordsFit
      <4> QED
        BY <4>1, <4>2
    <3> QED
      BY <1>1, <1>2, <1>3, <1>5, <3>1 DEF RecordsFit
  <2> QED
    BY <1>6, <2>1, <2>2, <2>3 DEF Order
<1> QED
  BY <1>1, <1>7, <1>8

(* KndFlowDelete's entry: the flow has no CLOSE yet, and its context goes. *)
LEMMA DeletedOrder ==
  ASSUME Typed, Order, NEW c \in Cpus, NEW f \in Flows, FlowDeleted(c, f)
  PROVE  Order'
<1>0. wfp \in [Flows -> {"new", "live", "gone"}] /\ written \in Seq(RecType)
      /\ job \in [Cpus -> JobType] /\ associated \in [Flows -> BOOLEAN]
  BY DEF Typed, WfpTyped, RingTyped, CpuTyped
<1>1. /\ associated[f] /\ ~ Serving(f) /\ wfp[f] = "live" /\ wfp' = [wfp EXCEPT ![f] = "gone"]
      /\ associated' = [associated EXCEPT ![f] = FALSE] /\ written' = written
      /\ UNCHANGED <<pc, job>> \/ \E j \in JobType : j.flow = f /\ Starts(c, "close", j)
  BY DeletedDoes
<1>2. OneCallback /\ AtStage /\ RecordsFit /\ LifeInOrder /\ Idle(f)
  BY <1>1, NextIsOnly DEF Order
<1>3. wfp'[f] = "gone" /\ ~ associated'[f]
      /\ \A g \in Flows \ {f} : wfp'[g] = wfp[g] /\ associated'[g] = associated[g]
  BY <1>0, <1>1
<1>4. \A e \in Cpus : job[e].flow \in Flows
  BY <1>0 DEF JobType
<1>5. \A i \in DOMAIN written : /\ written[i].flow \in Flows
                                /\ written[i].flow = f => written[i].type # "CLOSE"
  <2>1. \A i \in DOMAIN written : written[i] \in RecType
    BY <1>0
  <2> QED
    BY <1>1, <1>2, <2>1 DEF RecordsFit, RecType
<1>6. LifeInOrder'
  BY <1>1, <1>2 DEF LifeInOrder
<1>a. \A g \in Flows : associated'[g] => wfp'[g] = "live"
  BY <1>2, <1>3 DEF AtStage
<1>b. \A i \in DOMAIN written :
        /\ wfp'[written[i].flow] # "new"
        /\ written[i].type = "CLOSE" => wfp'[written[i].flow] = "gone"
        /\ written[i].type # "DATA" => written[i] = ConnRec(written[i].type, written[i].flow)
  BY <1>2, <1>3, <1>5 DEF RecordsFit
<1>7. CASE UNCHANGED <<pc, job>>
  <2>1. OneCallback'
    BY <1>2, <1>7 DEF OneCallback, Busy
  <2>2. AtStage'
    BY <1>2, <1>3, <1>4, <1>7, <1>a DEF AtStage, Idle, Busy
  <2>3. RecordsFit'
    BY <1>1, <1>2, <1>7, <1>b DEF RecordsFit
  <2> QED
    BY <1>6, <2>1, <2>2, <2>3 DEF Order
<1>8. ASSUME NEW j \in JobType, j.flow = f, Starts(c, "close", j) PROVE Order'
  <2>0. "close" \in Places
    BY DEF Places
  <2>1. /\ OneCallback'
        /\ pc'[c] = "close" /\ job'[c] = j
        /\ \A e \in Cpus \ {c} : pc'[e] = pc[e] /\ job'[e] = job[e]
    BY <1>2, <1>8, <2>0, StartsAlone
  <2>2. AtStage'
    <3>1. ASSUME NEW e \in Cpus
          PROVE  /\ pc'[e] \in {"open", "count", "associate"} =>
                      wfp'[job'[e].flow] = "live" /\ ~ associated'[job'[e].flow]
                 /\ pc'[e] = "chunk" => associated'[job'[e].flow]
                 /\ pc'[e] \in {"close", "uncount"} => wfp'[job'[e].flow] = "gone"
      <4>1. CASE e = c
        BY <1>3, <1>8, <2>1, <4>1
      <4>2. CASE e # c
        BY <1>2, <1>3, <1>4, <2>1, <4>2 DEF AtStage, Idle, Busy
      <4> QED
        BY <4>1, <4>2
    <3> QED
      BY <1>a, <3>1 DEF AtStage
  <2>3. RecordsFit'
    <3>1. ASSUME NEW e \in Cpus, NEW i \in DOMAIN written, written[i].flow = job'[e].flow
          PROVE  pc'[e] # "open" /\ (pc'[e] = "close" => written[i].type # "CLOSE")
      <4>1. CASE e = c
        BY <1>5, <1>8, <2>1, <3>1, <4>1
      <4>2. CASE e # c
        BY <1>2, <2>1, <3>1, <4>2 DEF RecordsFit
      <4> QED
        BY <4>1, <4>2
    <3> QED
      BY <1>1, <1>b, <3>1 DEF RecordsFit
  <2> QED
    BY <1>6, <2>1, <2>2, <2>3 DEF Order
<1> QED
  BY <1>1, <1>7, <1>8
(* KndClassifyStream's entry: the flow keeps its context.                  *)
LEMMA IndicationOrder ==
  ASSUME Typed, Order, NEW c \in Cpus, NEW f \in Flows, NEW d \in Dirs, NEW n \in Lengths,
         NEW s \in BOOLEAN, StreamIndication(c, f, d, n, s)
  PROVE  Order'
<1>1. /\ associated[f] /\ ~ Serving(f) /\ wfp[f] = "live"
      /\ wfp' = wfp /\ associated' = associated /\ written' = written
      /\ UNCHANGED <<pc, job>> \/ \E j \in JobType : j.flow = f /\ Starts(c, "chunk", j)
  BY IndicationDoes
<1>2. OneCallback /\ AtStage /\ RecordsFit /\ LifeInOrder /\ Idle(f)
  BY <1>1, NextIsOnly DEF Order
<1>3. LifeInOrder'
  BY <1>1, <1>2 DEF LifeInOrder
<1>4. CASE UNCHANGED <<pc, job>>
  BY <1>1, <1>2, <1>3, <1>4 DEF Order, OneCallback, AtStage, RecordsFit, Busy
<1>5. ASSUME NEW j \in JobType, j.flow = f, Starts(c, "chunk", j) PROVE Order'
  <2>0. "chunk" \in Places
    BY DEF Places
  <2>1. /\ OneCallback'
        /\ pc'[c] = "chunk" /\ job'[c] = j
        /\ \A e \in Cpus \ {c} : pc'[e] = pc[e] /\ job'[e] = job[e]
    BY <1>2, <1>5, <2>0, StartsAlone
  <2>2. AtStage'
    BY <1>1, <1>2, <1>5, <2>1 DEF AtStage
  <2>3. RecordsFit'
    BY <1>1, <1>2, <2>1 DEF RecordsFit
  <2> QED
    BY <1>3, <2>1, <2>2, <2>3 DEF Order
<1> QED
  BY <1>1, <1>4, <1>5

(* The loop over the chunks: the flow's context rules out its CLOSE.       *)
LEMMA ChunkOrder ==
  ASSUME Typed, Order, NEW c \in Cpus, WriteChunk(c)
  PROVE  Order'
<1>0. /\ pc \in [Cpus -> Places] /\ job \in [Cpus -> JobType]
      /\ job[c].flow \in Flows /\ job[c].dir \in Dirs /\ job[c].off \in Nat
  BY DEF Typed, CpuTyped, JobType
<1>1. OneCallback /\ AtStage /\ RecordsFit /\ LifeInOrder
  BY DEF Order
<1>2. /\ pc[c] = "chunk" /\ ChunkEnds(job[c]) \in Nat
      /\ job' = [job EXCEPT ![c].off = ChunkEnds(job[c])]
      /\ pc' = pc \/ pc' = [pc EXCEPT ![c] = "idle"]
      /\ wfp' = wfp /\ associated' = associated
  BY ChunkDoes
<1>3. Busy(c) /\ associated[job[c].flow] /\ wfp[job[c].flow] = "live"
  BY <1>0, <1>1, <1>2 DEF Busy, AtStage
<1>4. \A e \in Cpus : job'[e].flow = job[e].flow
  BY <1>0, <1>2 DEF JobType
<1>5. PICK p \in {"chunk", "idle"} : pc' = [pc EXCEPT ![c] = p]
  BY <1>0, <1>2
<1>6. p \in Places
  BY DEF Places
<1>7. OneCallback' /\ pc'[c] = p /\ \A e \in Cpus \ {c} : pc'[e] = pc[e]
  BY <1>1, <1>3, <1>4, <1>5, <1>6, GoesOn
<1>8. AtStage'
  BY <1>1, <1>2, <1>3, <1>4, <1>7 DEF AtStage
<1>9. CASE written' = written
  <2>1. RecordsFit' /\ LifeInOrder'
    BY <1>1, <1>2, <1>4, <1>7, <1>9 DEF RecordsFit, LifeInOrder
  <2> QED
    BY <1>7, <1>8, <2>1 DEF Order
<1>10. CASE written' = Append(written, DataRec(job[c].flow, job[c].dir,
                                               Bytes(job[c].off, ChunkEnds(job[c]))))
  <2>1. PICK r \in RecType : r = DataRec(job[c].flow, job[c].dir, Bytes(job[c].off, ChunkEnds(job[c])))
    BY <1>0, <1>2, RecordsTyped
  <2>2. r.flow = job[c].flow /\ r.type = "DATA"
    BY <2>1 DEF DataRec
  <2>3. written' = Append(written, r)
    BY <1>10, <2>1
  <2>4. \A i \in DOMAIN written : written[i].flow = r.flow => written[i].type # "CLOSE"
    BY <1>1, <1>3, <2>2 DEF RecordsFit
  <2>5. RecordsFit' /\ LifeInOrder'
    BY <1>2, <1>3, <1>4, <1>7, <2>2, <2>3, <2>4, RecordAdded
  <2> QED
    BY <1>7, <1>8, <2>5 DEF Order
<1> QED
  BY <1>9, <1>10, ChunkDoes

(* OPEN comes first, and CLOSE comes once.                                 *)
LEMMA ConnOrder ==
  ASSUME Typed, Order, NEW c \in Cpus, WriteOpen(c) \/ WriteClose(c)
  PROVE  Order'
<1>0. /\ pc \in [Cpus -> Places] /\ job \in [Cpus -> JobType] /\ job[c].flow \in Flows
  BY DEF Typed, CpuTyped, JobType
<1>1. OneCallback /\ AtStage /\ RecordsFit /\ LifeInOrder
  BY DEF Order
<1>2. PICK t \in {"OPEN", "CLOSE"}, p \in {"count", "associate", "uncount", "idle"} :
        /\ IF t = "OPEN" THEN pc[c] = "open" /\ p \in {"count", "associate"}
                         ELSE pc[c] = "close" /\ p \in {"uncount", "idle"}
        /\ IF p \in {"count", "uncount"} THEN written' = Append(written, ConnRec(t, job[c].flow))
                                         ELSE written' = written
        /\ pc' = [pc EXCEPT ![c] = p]
        /\ UNCHANGED <<wfp, associated, job>>
  BY ConnDoes
<1>3. p \in Places /\ Busy(c)
  BY <1>2 DEF Places, Busy
<1>4. \A e \in Cpus : job'[e].flow = job[e].flow
  BY <1>2
<1>5. OneCallback' /\ pc'[c] = p /\ \A e \in Cpus \ {c} : pc'[e] = pc[e]
  BY <1>1, <1>2, <1>3, <1>4, GoesOn
<1>6. AtStage'
  BY <1>1, <1>2, <1>5 DEF AtStage
<1>7. CASE written' = written
  <2>1. RecordsFit' /\ LifeInOrder'
    BY <1>1, <1>2, <1>5, <1>7 DEF RecordsFit, LifeInOrder
  <2> QED
    BY <1>5, <1>6, <2>1 DEF Order
<1>8. CASE written' = Append(written, ConnRec(t, job[c].flow))
  <2>1. PICK r \in RecType : r = ConnRec(t, job[c].flow)
    BY <1>0, RecordsTyped
  <2>2. r.flow = job[c].flow /\ r.type = t /\ r = ConnRec(r.type, r.flow)
    BY <2>1 DEF ConnRec
  <2>3. \A i \in DOMAIN written :
          written[i].flow = r.flow => r.type # "OPEN" /\ written[i].type # "CLOSE"
    BY <1>1, <1>2, <2>2 DEF RecordsFit
  <2>4. wfp[r.flow] # "new" /\ (r.type = "CLOSE" => wfp[r.flow] = "gone")
    BY <1>1, <1>2, <2>2 DEF AtStage
  <2>5. written' = Append(written, r) /\ wfp' = wfp /\ pc'[c] \notin {"open", "close"}
    BY <1>2, <1>5, <1>8, <2>1
  <2>6. RecordsFit' /\ LifeInOrder'
    BY <1>3, <1>4, <1>5, <2>2, <2>3, <2>4, <2>5, RecordAdded
  <2> QED
    BY <1>5, <1>6, <2>6 DEF Order
<1> QED
  BY <1>2, <1>7, <1>8

(* The counter and the context: the callback goes on, or returns.          *)
LEMMA TailOrder ==
  ASSUME Typed, Order, NEW c \in Cpus, CountOpen(c) \/ CountClose(c) \/ Associate(c)
  PROVE  Order'
<1>0. /\ pc \in [Cpus -> Places] /\ job \in [Cpus -> JobType] /\ job[c].flow \in Flows
      /\ associated \in [Flows -> BOOLEAN] /\ job[c].handle \in BOOLEAN
  BY DEF Typed, CpuTyped, WfpTyped, JobType
<1>1. OneCallback /\ AtStage /\ RecordsFit /\ LifeInOrder
  BY DEF Order
<1>2. PICK p \in {"associate", "idle"} :
        /\ pc' = [pc EXCEPT ![c] = p] /\ Busy(c) /\ UNCHANGED <<wfp, written, job>>
        /\ p = "associate" => pc[c] = "count"
        /\ \/ associated' = associated
           \/ p = "idle" /\ pc[c] = "associate" /\ associated' = [associated EXCEPT ![job[c].flow] = job[c].handle]
  <2>1. CASE CountOpen(c) \/ CountClose(c)
    BY <2>1, CountDoes DEF Busy
  <2>2. CASE Associate(c)
    BY <2>2, AssociateDoes DEF Busy
  <2> QED
    BY <2>1, <2>2
<1>3. p \in Places
  BY DEF Places
<1>4. OneCallback' /\ pc'[c] = p /\ \A e \in Cpus \ {c} : pc'[e] = pc[e]
  BY <1>1, <1>2, <1>3, GoesOn
<1>5. RecordsFit' /\ LifeInOrder'
  BY <1>1, <1>2, <1>4 DEF RecordsFit, LifeInOrder
<1>6. CASE associated' = associated
  <2>1. AtStage'
    BY <1>1, <1>2, <1>4, <1>6 DEF AtStage
  <2> QED
    BY <1>4, <1>5, <2>1 DEF Order
<1>7. CASE p = "idle" /\ pc[c] = "associate" /\ associated' = [associated EXCEPT ![job[c].flow] = job[c].handle]
  <2>1. \A f \in Flows : associated'[f] => wfp'[f] = "live"
    BY <1>0, <1>1, <1>2, <1>7 DEF AtStage
  <2>2. \A e \in Cpus \ {c} : Busy(e) => job[e].flow # job[c].flow
    BY <1>1, <1>2 DEF OneCallback
  <2>3. \A e \in Cpus \ {c} : Busy(e) => associated'[job[e].flow] = associated[job[e].flow]
    <3>1. \A e \in Cpus : job[e].flow \in Flows
      BY <1>0 DEF JobType
    <3> QED
      BY <1>0, <1>7, <2>2, <3>1
  <2>4. AtStage'
    BY <1>1, <1>2, <1>4, <1>7, <2>1, <2>3 DEF AtStage, Busy
  <2> QED
    BY <1>4, <1>5, <2>4 DEF Order
<1> QED
  BY <1>2, <1>6, <1>7

(* The app and the capture ioctls leave the callbacks and the ring alone.  *)
LEMMA OrderFrame == Order /\ UNCHANGED <<wfp, associated, pc, job, written>> => Order'
BY DEF Order, OneCallback, AtStage, RecordsFit, LifeInOrder, Busy

(* Every step keeps the order.                                             *)
LEMMA OrderStep == Typed /\ Order /\ [Next]_vars => Order'
<1> SUFFICES ASSUME Typed, Order, [Next]_vars PROVE Order'
  OBVIOUS
<1>1. ASSUME NEW c \in Cpus, Callback(c) PROVE Order'
  BY <1>1, EstablishedOrder, DeletedOrder, IndicationOrder, ChunkOrder, ConnOrder, TailOrder
     DEF Callback
<1>2. ASSUME NEW p \in Clients, (\E on \in BOOLEAN : SwitchCapture(p, on)) \/ CopySwitch(p)
      PROVE  Order'
  BY <1>2, SwitchFrame, OrderFrame DEF wfpVars, ringVars
<1>3. CASE AppStep
  BY <1>3, AppFrame, OrderFrame DEF wfpVars, ringVars
<1>4. CASE UNCHANGED vars
  BY <1>4, OrderFrame DEF vars, wfpVars, ringVars
<1> QED
  BY <1>1, <1>2, <1>3, <1>4 DEF Next, AppStep

(* Initially there are no records and no callbacks.                        *)
LEMMA OrderInit == Init => Order
BY DEF Init, Order, OneCallback, AtStage, RecordsFit, LifeInOrder, Busy

(* Every variable keeps its type, whatever the callbacks, the ioctls and   *)
(* the app do.                                                             *)
THEOREM FlowsTyped == Spec => []TypeOK
<1>1. Spec => []Typed
  BY TypedInit, TypedStep, PTL DEF Spec
<1> QED
  BY <1>1, TypedIsTypeOK, PTL

(* In the ring a flow's OPEN comes before everything else of it and its    *)
(* CLOSE after, for any number of CPUs running KndClassifyFlow,            *)
(* KndClassifyStream and KndFlowDelete.                                    *)
THEOREM RecordsInOrder == Spec => []LifeInOrder
<1>1. Spec => [](Typed /\ Order)
  BY TypedInit, TypedStep, OrderInit, OrderStep, PTL DEF Spec
<1>2. Order => LifeInOrder
  BY DEF Order
<1> QED
  BY <1>1, <1>2, PTL
-----------------------------------------------------------------------------
(* The count of active flows.                                              *)

(* A record counts as its type.                                            *)
LEMMA CountAppend ==
  ASSUME NEW s \in Seq(RecType), NEW r \in RecType, NEW t
  PROVE  /\ CountType(s, t) \in Nat
         /\ CountType(Append(s, r), t) = CountType(s, t) + (IF r.type = t THEN 1 ELSE 0)
<1> DEFINE old == {i \in DOMAIN s : s[i].type = t}
           new == {i \in DOMAIN Append(s, r) : Append(s, r)[i].type = t}
<1>1. /\ DOMAIN s = 1 .. Len(s) /\ DOMAIN Append(s, r) = 1 .. Len(s) + 1 /\ Len(s) \in Nat
      /\ Append(s, r)[Len(s) + 1] = r /\ \A i \in 1 .. Len(s) : Append(s, r)[i] = s[i]
  OBVIOUS
<1>2. IsFiniteSet(1 .. Len(s)) /\ old \subseteq 1 .. Len(s)
  BY <1>1, FS_Interval
<1>3. IsFiniteSet(old)
  BY <1>2, FS_Subset
<1>4. Len(s) + 1 \notin old
  BY <1>1
<1>5. IF r.type = t THEN new = old \cup {Len(s) + 1} ELSE new = old
  <2>1. \A i \in 1 .. Len(s) + 1 : i \in 1 .. Len(s) \/ i = Len(s) + 1
    BY <1>1
  <2>2. \A i \in 1 .. Len(s) : i \in 1 .. Len(s) + 1 /\ i # Len(s) + 1
    BY <1>1
  <2>3. Len(s) + 1 \in 1 .. Len(s) + 1
    BY <1>1
  <2> QED
    BY <1>1, <2>1, <2>2, <2>3
<1> HIDE DEF old, new
<1>6. Cardinality(old) \in Nat /\ Cardinality(old \cup {Len(s) + 1}) = Cardinality(old) + 1
  BY <1>3, <1>4, FS_AddElement, FS_CardinalityType
<1>7. CountType(s, t) = Cardinality(old) /\ CountType(Append(s, r), t) = Cardinality(new)
  BY DEF CountType, old, new
<1>8. CASE r.type = t
  BY <1>5, <1>6, <1>7, <1>8
<1>9. CASE r.type # t
  BY <1>5, <1>6, <1>7, <1>9
<1> QED
  BY <1>8, <1>9

(* A CPU that goes from one place to another leaves the one and enters the *)
(* other.                                                                  *)
LEMMA CpuMoves ==
  ASSUME Typed, NEW c \in Cpus, NEW p \in Places, pc' = [pc EXCEPT ![c] = p],
         NEW q \in Places, IsFiniteSet(CpusAt(q))
  PROVE  /\ IsFiniteSet(CpusAt(q)') /\ Cardinality(CpusAt(q)) \in Nat
         /\ p = q /\ pc[c] # q => Cardinality(CpusAt(q)') = Cardinality(CpusAt(q)) + 1
         /\ p # q /\ pc[c] = q => Cardinality(CpusAt(q)') = Cardinality(CpusAt(q)) - 1
         /\ p # q /\ pc[c] # q => CpusAt(q)' = CpusAt(q)
<1>1. pc \in [Cpus -> Places]
  BY DEF Typed, CpuTyped
<1>2. pc'[c] = p /\ \A e \in Cpus \ {c} : pc'[e] = pc[e]
  BY <1>1
<1>3. CpusAt(q)' = IF p = q THEN CpusAt(q) \cup {c} ELSE CpusAt(q) \ {c}
  BY <1>2 DEF CpusAt
<1>4. c \in CpusAt(q) <=> pc[c] = q
  BY DEF CpusAt
<1>5. Cardinality(CpusAt(q)) \in Nat
  BY FS_CardinalityType
<1>6. /\ IsFiniteSet(CpusAt(q) \cup {c}) /\ IsFiniteSet(CpusAt(q) \ {c})
      /\ c \notin CpusAt(q) => Cardinality(CpusAt(q) \cup {c}) = Cardinality(CpusAt(q)) + 1
      /\ c \in CpusAt(q) => Cardinality(CpusAt(q) \ {c}) = Cardinality(CpusAt(q)) - 1
  BY FS_AddElement, FS_RemoveElement
<1>7. c \notin CpusAt(q) => CpusAt(q) \ {c} = CpusAt(q)
  OBVIOUS
<1>8. CASE p = q
  BY <1>3, <1>4, <1>5, <1>6, <1>8
<1>9. CASE p # q
  BY <1>3, <1>4, <1>5, <1>6, <1>7, <1>9
<1> QED
  BY <1>8, <1>9
(* OPENs and CLOSEs written, less the ones not yet counted.                *)
Balance == CountType(written, "OPEN") - Cardinality(CpusAt("count"))
           - CountType(written, "CLOSE") + Cardinality(CpusAt("uncount"))

(* The parts of the balance are numbers.                                   *)
LEMMA BalanceTyped ==
  ASSUME Typed, CountKnown
  PROVE  /\ CountType(written, "OPEN") \in Nat /\ CountType(written, "CLOSE") \in Nat
         /\ Cardinality(CpusAt("count")) \in Nat /\ Cardinality(CpusAt("uncount")) \in Nat
         /\ Balance \in Int
<1>1. written \in Seq(RecType)
  BY DEF Typed, RingTyped
<1>2. PICK f \in Flows : TRUE
  BY FlowsAssumption
<1>3. ConnRec("OPEN", f) \in RecType
  BY RecordsTyped
<1>4. CountType(written, "OPEN") \in Nat /\ CountType(written, "CLOSE") \in Nat
  BY <1>1, <1>3, CountAppend
<1>5. Cardinality(CpusAt("count")) \in Nat /\ Cardinality(CpusAt("uncount")) \in Nat
  BY FS_CardinalityType DEF CountKnown
<1> QED
  BY <1>4, <1>5 DEF Balance

(* Steps of a callback away from the two counters.                         *)
LEMMA CountQuiet ==
  ASSUME Typed, CountKnown, NEW c \in Cpus, NEW p \in Places \ {"count", "uncount"},
         pc[c] \notin {"count", "uncount"}, pc' = [pc EXCEPT ![c] = p], activeFlows' = activeFlows,
         \/ written' = written
         \/ \E r \in RecType : r.type = "DATA" /\ written' = Append(written, r)
  PROVE  CountKnown'
<1>1. "count" \in Places /\ "uncount" \in Places
  BY DEF Places
<1>2. CpusAt("count")' = CpusAt("count") /\ CpusAt("uncount")' = CpusAt("uncount")
  BY <1>1, CpuMoves DEF CountKnown
<1>3. /\ CountType(written', "OPEN") = CountType(written, "OPEN")
      /\ CountType(written', "CLOSE") = CountType(written, "CLOSE")
  <2>1. CASE written' = written
    BY <2>1
  <2>2. ASSUME NEW r \in RecType, r.type = "DATA", written' = Append(written, r)
        PROVE  /\ CountType(written', "OPEN") = CountType(written, "OPEN")
               /\ CountType(written', "CLOSE") = CountType(written, "CLOSE")
    <3>1. written \in Seq(RecType)
      BY DEF Typed, RingTyped
    <3> QED
      BY <2>2, <3>1, CountAppend, BalanceTyped
  <2> QED
    BY <2>1, <2>2
<1> QED
  BY <1>2, <1>3 DEF CountKnown

(* A record and its counter: both move the balance, or neither.            *)
LEMMA ConnCount ==
  ASSUME Typed, CountKnown, NEW c \in Cpus, WriteOpen(c) \/ WriteClose(c)
  PROVE  CountKnown'
<1>0. /\ pc \in [Cpus -> Places] /\ job \in [Cpus -> JobType] /\ job[c].flow \in Flows
      /\ written \in Seq(RecType)
  BY DEF Typed, CpuTyped, RingTyped, JobType
<1>1. PICK t \in {"OPEN", "CLOSE"}, p \in {"count", "associate", "uncount", "idle"} :
        /\ IF t = "OPEN" THEN pc[c] = "open" /\ p \in {"count", "associate"}
                         ELSE pc[c] = "close" /\ p \in {"uncount", "idle"}
        /\ IF p \in {"count", "uncount"} THEN written' = Append(written, ConnRec(t, job[c].flow))
                                         ELSE written' = written
        /\ pc' = [pc EXCEPT ![c] = p]
        /\ UNCHANGED activeFlows
  BY ConnDoes
<1>2. p \in Places /\ "count" \in Places /\ "uncount" \in Places
  BY DEF Places
<1>3. pc[c] \notin {"count", "uncount"}
  BY <1>1
<1>4. CASE p \notin {"count", "uncount"}
  BY <1>1, <1>2, <1>3, <1>4, CountQuiet
<1>5. CASE p \in {"count", "uncount"}
  <2>1. PICK r \in RecType : r = ConnRec(t, job[c].flow)
    BY <1>0, RecordsTyped
  <2>2. r.type = t /\ written' = Append(written, r)
    BY <1>1, <1>5, <2>1 DEF ConnRec
  <2>3. \A u : CountType(written', u) = CountType(written, u) + (IF t = u THEN 1 ELSE 0)
    BY <1>0, <2>2, CountAppend
  <2>4. /\ IsFiniteSet(CpusAt("count")') /\ IsFiniteSet(CpusAt("uncount")')
        /\ p = "count" => Cardinality(CpusAt("count")') = Cardinality(CpusAt("count")) + 1
        /\ p # "count" => CpusAt("count")' = CpusAt("count")
        /\ p = "uncount" => Cardinality(CpusAt("uncount")') = Cardinality(CpusAt("uncount")) + 1
        /\ p # "uncount" => CpusAt("uncount")' = CpusAt("uncount")
    BY <1>1, <1>2, <1>3, CpuMoves DEF CountKnown
  <2>5. Balance' = Balance
    <3>1. CASE p = "count"
      <4>1. /\ CountType(written', "OPEN") = CountType(written, "OPEN") + 1
            /\ CountType(written', "CLOSE") = CountType(written, "CLOSE")
        BY <1>1, <2>3, <3>1, BalanceTyped
      <4> QED
        BY <2>4, <3>1, <4>1, BalanceTyped DEF Balance
    <3>2. CASE p = "uncount"
      <4>1. /\ CountType(written', "CLOSE") = CountType(written, "CLOSE") + 1
            /\ CountType(written', "OPEN") = CountType(written, "OPEN")
        BY <1>1, <2>3, <3>2, BalanceTyped
      <4> QED
        BY <2>4, <3>2, <4>1, BalanceTyped DEF Balance
    <3> QED
      BY <1>5, <3>1, <3>2
  <2> QED
    BY <1>1, <2>4, <2>5 DEF CountKnown, Balance
<1> QED
  BY <1>4, <1>5

(* The interlocked updates, in the width of the counter.                   *)
LEMMA InterlockedCount ==
  ASSUME Typed, CountKnown, NEW c \in Cpus, CountOpen(c) \/ CountClose(c)
  PROVE  CountKnown'
<1>0. "count" \in Places /\ "uncount" \in Places /\ "associate" \in Places /\ "idle" \in Places
  BY DEF Places
<1>1. written' = written /\ activeFlows = Balance % Wrap /\ Balance \in Int /\ Wrap \in Nat \ {0}
  BY CountDoes, BalanceTyped, FlowsAssumption DEF CountKnown, Balance
<1>2. CASE pc[c] = "count" /\ pc' = [pc EXCEPT ![c] = "associate"]
           /\ activeFlows' = (activeFlows + 1) % Wrap
  <2>1. /\ IsFiniteSet(CpusAt("count")') /\ IsFiniteSet(CpusAt("uncount")')
        /\ Cardinality(CpusAt("count")') = Cardinality(CpusAt("count")) - 1
        /\ CpusAt("uncount")' = CpusAt("uncount")
    BY <1>0, <1>2, CpuMoves DEF CountKnown
  <2>2. Balance' = Balance + 1
    BY <1>1, <2>1, BalanceTyped DEF Balance
  <2>3. activeFlows' = (Balance + 1) % Wrap
    <3>1. PICK x \in Int, s \in Int : x = Balance /\ s = 1
      BY <1>1
    <3>2. ((x % Wrap) + s) % Wrap = (x + s) % Wrap
      BY <1>1, ModStep
    <3> QED
      BY <1>1, <1>2, <3>1, <3>2
  <2> QED
    BY <2>1, <2>2, <2>3 DEF CountKnown, Balance
<1>3. CASE pc[c] = "uncount" /\ pc' = [pc EXCEPT ![c] = "idle"]
           /\ activeFlows' = (activeFlows - 1) % Wrap
  <2>1. /\ IsFiniteSet(CpusAt("count")') /\ IsFiniteSet(CpusAt("uncount")')
        /\ Cardinality(CpusAt("uncount")') = Cardinality(CpusAt("uncount")) - 1
        /\ CpusAt("count")' = CpusAt("count")
    BY <1>0, <1>3, CpuMoves DEF CountKnown
  <2>2. Balance' = Balance - 1
    BY <1>1, <2>1, BalanceTyped DEF Balance
  <2>3. activeFlows' = (Balance - 1) % Wrap
    <3>1. PICK x \in Int, s \in Int : x = Balance /\ s = -1
      BY <1>1
    <3>2. ((x % Wrap) + s) % Wrap = (x + s) % Wrap
      BY <1>1, ModStep
    <3>3. x % Wrap \in Int /\ activeFlows = x % Wrap
      BY <1>1, <3>1
    <3>4. (x % Wrap) + s = (x % Wrap) - 1 /\ x + s = x - 1
      BY <3>1, <3>3
    <3> QED
      BY <1>3, <3>1, <3>2, <3>3, <3>4
  <2> QED
    BY <2>1, <2>2, <2>3 DEF CountKnown, Balance
<1> QED
  BY <1>2, <1>3, CountDoes

(* The app, the ioctls and callbacks that do nothing.                      *)
LEMMA CountFrame == CountKnown /\ UNCHANGED <<activeFlows, written, pc>> => CountKnown'
BY DEF CountKnown, CpusAt

(* Every step of a callback keeps the count.                               *)
LEMMA CallbackCount ==
  ASSUME Typed, CountKnown, NEW c \in Cpus, Callback(c)
  PROVE  CountKnown'
<1>0. {"open", "close", "chunk", "idle"} \subseteq Places \ {"count", "uncount"}
      /\ pc \in [Cpus -> Places]
  BY DEF Places, Typed, CpuTyped
<1>1. ASSUME NEW f \in Flows, NEW h \in BOOLEAN, FlowEstablished(c, f, h) PROVE CountKnown'
  <2>1. /\ pc[c] = "idle" /\ UNCHANGED <<written, activeFlows>>
        /\ pc' = pc \/ pc' = [pc EXCEPT ![c] = "open"]
    BY <1>1, EstablishedDoes DEF Starts
  <2> QED
    BY <1>0, <2>1, CountFrame, CountQuiet
<1>2. ASSUME NEW f \in Flows, FlowDeleted(c, f) PROVE CountKnown'
  <2>1. /\ pc[c] = "idle" /\ UNCHANGED <<written, activeFlows>>
        /\ pc' = pc \/ pc' = [pc EXCEPT ![c] = "close"]
    BY <1>2, DeletedDoes DEF Starts
  <2> QED
    BY <1>0, <2>1, CountFrame, CountQuiet
<1>3. ASSUME NEW f \in Flows, NEW d \in Dirs, NEW n \in Lengths, NEW s \in BOOLEAN,
             StreamIndication(c, f, d, n, s)
      PROVE  CountKnown'
  <2>1. /\ pc[c] = "idle" /\ UNCHANGED <<written, activeFlows>>
        /\ pc' = pc \/ pc' = [pc EXCEPT ![c] = "chunk"]
    BY <1>3, IndicationDoes DEF Starts
  <2> QED
    BY <1>0, <2>1, CountFrame, CountQuiet
<1>4. CASE WriteChunk(c)
  <2>0. job[c].flow \in Flows /\ job[c].dir \in Dirs /\ job[c].off \in Nat
    BY DEF Typed, CpuTyped, JobType
  <2>1. /\ pc[c] = "chunk" /\ ChunkEnds(job[c]) \in Nat /\ activeFlows' = activeFlows
        /\ pc' = pc \/ pc' = [pc EXCEPT ![c] = "idle"]
    BY <1>4, ChunkDoes
  <2>2. PICK p \in {"chunk", "idle"} : pc' = [pc EXCEPT ![c] = p]
    BY <1>0, <2>1
  <2>3. PICK r \in RecType : r = DataRec(job[c].flow, job[c].dir, Bytes(job[c].off, ChunkEnds(job[c])))
    BY <2>0, <2>1, RecordsTyped
  <2>4. written' = written \/ (r.type = "DATA" /\ written' = Append(written, r))
    BY <1>4, <2>3, ChunkDoes DEF DataRec
  <2> QED
    BY <1>0, <2>1, <2>2, <2>4, CountQuiet
<1>5. CASE Associate(c)
  <2>1. pc[c] = "associate" /\ UNCHANGED <<written, activeFlows>> /\ pc' = [pc EXCEPT ![c] = "idle"]
    BY <1>5, AssociateDoes
  <2> QED
    BY <1>0, <2>1, CountQuiet
<1> QED
  BY <1>1, <1>2, <1>3, <1>4, <1>5, ConnCount, InterlockedCount DEF Callback

(* Every step keeps the count.                                             *)
LEMMA CountStep == Typed /\ CountKnown /\ [Next]_vars => CountKnown'
<1> SUFFICES ASSUME Typed, CountKnown, [Next]_vars PROVE CountKnown'
  OBVIOUS
<1>1. ASSUME NEW p \in Clients, (\E on \in BOOLEAN : SwitchCapture(p, on)) \/ CopySwitch(p)
      PROVE  CountKnown'
  BY <1>1, SwitchFrame, CountFrame DEF ringVars
<1>2. CASE AppStep
  BY <1>2, AppFrame, CountFrame DEF ringVars
<1>3. CASE UNCHANGED vars
  BY <1>3, CountFrame DEF vars, ringVars
<1> QED
  BY <1>1, <1>2, <1>3, CallbackCount DEF Next, AppStep

(* Initially nothing is written or running.                                *)
LEMMA CountInit == Init => CountKnown
<1> SUFFICES ASSUME Init PROVE CountKnown
  OBVIOUS
<1>1. CpusAt("count") = {} /\ CpusAt("uncount") = {}
  BY DEF Init, CpusAt
<1>2. IsFiniteSet({}) /\ Cardinality({}) = 0
  BY FS_EmptySet
<1>3. {i \in DOMAIN written : written[i].type = "OPEN"} = {}
      /\ {i \in DOMAIN written : written[i].type = "CLOSE"} = {}
  BY DEF Init
<1>4. CountType(written, "OPEN") = 0 /\ CountType(written, "CLOSE") = 0
  BY <1>2, <1>3 DEF CountType
<1>5. activeFlows = 0 /\ 0 = (0 - 0 - 0 + 0) % Wrap
  BY FlowsAssumption DEF Init
<1> QED
  BY <1>1, <1>2, <1>4, <1>5 DEF CountKnown

(* With no callback between a record and its counter, activeFlows is the   *)
(* number of OPENs less the number of CLOSEs accepted by the ring, in the  *)
(* width of the ULONG, however the interlocked updates interleave.         *)
THEOREM FlowsCounted == Spec => []ActiveFlowsCounts
<1>1. Spec => [](Typed /\ CountKnown)
  BY TypedInit, TypedStep, CountInit, CountStep, PTL DEF Spec
<1>2. Typed /\ CountKnown => ActiveFlowsCounts
  <2> SUFFICES ASSUME Typed, CountKnown, \A c \in Cpus : pc[c] \notin {"count", "uncount"}
               PROVE  activeFlows = (CountType(written, "OPEN") - CountType(written, "CLOSE")) % Wrap
    BY DEF ActiveFlowsCounts
  <2>1. CpusAt("count") = {} /\ CpusAt("uncount") = {}
    BY DEF CpusAt
  <2>2. Cardinality(CpusAt("count")) = 0 /\ Cardinality(CpusAt("uncount")) = 0
    BY <2>1, FS_EmptySet
  <2>3. Balance = CountType(written, "OPEN") - CountType(written, "CLOSE")
    BY <2>2, BalanceTyped DEF Balance
  <2>4. activeFlows = Balance % Wrap
    BY DEF CountKnown, Balance
  <2> QED
    BY <2>3, <2>4
<1> QED
  BY <1>1, <1>2, PTL
-----------------------------------------------------------------------------
(* The bytes of a direction.                                               *)

(* What a record adds to a direction.                                      *)
DataIn(r, f, d) == IF r.flow = f /\ r.dir = d THEN r.data ELSE <<>>

(* The bytes of a direction are a sequence, empty without records, and a   *)
(* record adds its own at the end.                                         *)
LEMMA DataOfFacts ==
  ASSUME NEW s \in Seq(RecType), NEW f, NEW d
  PROVE  /\ DataOf(s, f, d) \in Seq(Nat)
         /\ Len(s) = 0 => DataOf(s, f, d) = <<>>
         /\ \A r \in RecType : DataOf(Append(s, r), f, d) = DataOf(s, f, d) \o DataIn(r, f, d)
<1> DEFINE ss == [i \in 1 .. Len(s) |-> IF s[i].flow = f /\ s[i].dir = d THEN s[i].data ELSE <<>>]
<1>0. Len(s) \in Nat /\ \A i \in 1 .. Len(s) : s[i] \in RecType
  OBVIOUS
<1>1. \A r \in RecType : r.data \in Seq(Nat) /\ <<>> \in Seq(Nat)
  BY DEF RecType
<1>2. ss \in Seq(Seq(Nat)) /\ Len(ss) = Len(s)
  BY <1>0, <1>1
<1>3. DataOf(s, f, d) = FlattenSeq(ss)
  BY DEF DataOf
<1> HIDE DEF ss
<1>4. DataOf(s, f, d) \in Seq(Nat)
  BY <1>2, <1>3, FlattenType
<1>5. Len(s) = 0 => DataOf(s, f, d) = <<>>
  <2>1. Len(s) = 0 => ss = <<>>
    BY <1>2
  <2> QED
    BY <1>3, <2>1 DEF FlattenSeq
<1>6. ASSUME NEW r \in RecType
      PROVE  DataOf(Append(s, r), f, d) = DataOf(s, f, d) \o DataIn(r, f, d)
  <2>0. Append(s, r) \in Seq(RecType)
    OBVIOUS
  <2>1. PICK u \in Seq(RecType) : u = Append(s, r)
    BY <2>0, Zenon
  <2>2. /\ Len(u) = Len(s) + 1 /\ u[Len(s) + 1] = r /\ \A i \in 1 .. Len(s) : u[i] = s[i]
        /\ \A i \in 1 .. Len(u) : u[i] \in RecType
    BY <2>1
  <2> DEFINE tt == [i \in 1 .. Len(u) |-> IF u[i].flow = f /\ u[i].dir = d THEN u[i].data ELSE <<>>]
  <2>3. tt \in Seq(Seq(Nat)) /\ Len(tt) = Len(ss) + 1
    BY <1>0, <1>1, <1>2, <2>2
  <2>4. \A i \in 1 .. Len(ss) : ss[i] = tt[i]
    BY <1>0, <1>2, <2>2 DEF ss
  <2>5. tt[Len(ss) + 1] = DataIn(r, f, d)
    BY <1>0, <1>2, <2>2 DEF DataIn
  <2>6. DataOf(u, f, d) = FlattenSeq(tt)
    BY DEF DataOf
  <2> HIDE DEF tt
  <2>7. FlattenSeq(tt) = FlattenSeq(ss) \o tt[Len(ss) + 1]
    BY <1>2, <2>3, <2>4, FlattenExtends
  <2> QED
    BY <1>3, <2>1, <2>5, <2>6, <2>7
<1> QED
  BY <1>4, <1>5, <1>6

(* A record of another direction, or without data, adds nothing.           *)
LEMMA DataOfOthers ==
  ASSUME NEW s \in Seq(RecType), NEW r \in RecType, NEW f, NEW d, DataIn(r, f, d) = <<>>
  PROVE  DataOf(Append(s, r), f, d) = DataOf(s, f, d)
<1>1. PICK a \in Seq(Nat) : a = DataOf(s, f, d)
  BY DataOfFacts
<1>2. a \o <<>> = a
  BY WholeAndNothing
<1>3. DataOf(Append(s, r), f, d) = DataOf(s, f, d) \o DataIn(r, f, d)
  BY DataOfFacts
<1> QED
  BY <1>1, <1>2, <1>3

-----------------------------------------------------------------------------
(* What KndModel shows.                                                    *)

(* Only CONN_OPEN and CONN_CLOSE come without data, and a CONN_CLOSE is    *)
(* all the same record.                                                    *)
Plain(r) == r.type # "DATA" => r = ConnRec(r.type, r.flow)

(* A CLOSE was seen before, or is seen now.                                *)
LEMMA CloseSeen ==
  ASSUME seen \in Seq(RecType), NEW r \in RecType, NEW f, seen' = Append(seen, r)
  PROVE  (\E i \in DOMAIN seen' : seen'[i] = ConnRec("CLOSE", f))
           <=> r = ConnRec("CLOSE", f) \/ \E i \in DOMAIN seen : seen[i] = ConnRec("CLOSE", f)
<1>1. /\ DOMAIN seen' = 1 .. Len(seen) + 1 /\ DOMAIN seen = 1 .. Len(seen) /\ Len(seen) \in Nat
      /\ seen'[Len(seen) + 1] = r /\ \A i \in 1 .. Len(seen) : seen'[i] = seen[i]
  OBVIOUS
<1>2. \A i \in 1 .. Len(seen) + 1 : i \in 1 .. Len(seen) \/ i = Len(seen) + 1
  BY <1>1
<1>3. Len(seen) + 1 \in 1 .. Len(seen) + 1 /\ \A i \in 1 .. Len(seen) : i \in 1 .. Len(seen) + 1
  BY <1>1
<1> QED
  BY <1>1, <1>2, <1>3

(* A record leaves the other flows as they are shown.                      *)
LEMMA OthersShown ==
  ASSUME seen \in Seq(RecType), NEW r \in RecType, NEW f \in Flows, f # r.flow, NEW x \in FlowType,
         ShownWell(f, x), seen' = Append(seen, r), clears' = clears, payloadCap' = payloadCap
  PROVE  ShownWell(f, x)'
<1>1. \A d \in Dirs : DataOf(seen', f, d) = DataOf(seen, f, d)
  <2>1. \A d \in Dirs : DataIn(r, f, d) = <<>>
    BY DEF DataIn
  <2> QED
    BY <2>1, DataOfOthers
<1>2. \A d \in Dirs : PayloadFits(f, x, d)'
  BY <1>1 DEF ShownWell, PayloadFits
<1>3. (\E i \in DOMAIN seen' : seen'[i] = ConnRec("CLOSE", f))
        <=> \E i \in DOMAIN seen : seen[i] = ConnRec("CLOSE", f)
  <2>1. r # ConnRec("CLOSE", f)
    BY DEF ConnRec
  <2> QED
    BY <2>1, CloseSeen
<1> QED
  BY <1>1, <1>2, <1>3 DEF ShownWell
(* CONN_OPEN and CONN_CLOSE change nothing of the payload.                 *)
LEMMA ConnShown ==
  ASSUME seen \in Seq(RecType), NEW r \in RecType, Plain(r), r.type # "DATA", NEW x \in FlowType,
         NEW y \in FlowType,
         ShownWell(r.flow, x), seen' = Append(seen, r), clears' = clears, payloadCap' = payloadCap,
         y.payload = x.payload, y.truncated = x.truncated,
         IF r.type = "CLOSE" THEN y.closed /\ \A d \in Dirs : y.bytes[d] = 0 ELSE y = x
  PROVE  ShownWell(r.flow, y)'
<1>0. r = ConnRec(r.type, r.flow) /\ r.data = <<>> /\ r.flow \in Flows
  BY DEF Plain, ConnRec, RecType
<1>1. \A d \in Dirs : DataOf(seen', r.flow, d) = DataOf(seen, r.flow, d)
  <2>1. \A d \in Dirs : DataIn(r, r.flow, d) = <<>>
    BY <1>0 DEF DataIn
  <2> QED
    BY <2>1, DataOfOthers
<1>2. \A d \in Dirs : PayloadFits(r.flow, y, d)'
  BY <1>1 DEF ShownWell, PayloadFits
<1>3. CASE r.type = "CLOSE"
  <2>1. y.closed /\ \A d \in Dirs : y.bytes[d] = 0
    BY <1>3
  <2>2. \E i \in DOMAIN seen' : seen'[i] = ConnRec("CLOSE", r.flow)
    BY <1>0, <1>3, CloseSeen
  <2> QED
    BY <1>2, <2>1, <2>2 DEF ShownWell
<1>4. CASE r.type # "CLOSE"
  <2>1. r # ConnRec("CLOSE", r.flow) /\ y = x
    BY <1>4 DEF ConnRec
  <2> QED
    BY <1>1, <1>2, <2>1, CloseSeen DEF ShownWell
<1> QED
  BY <1>3, <1>4

(* CONN_DATA for an open flow: the totals count it, and the payload keeps  *)
(* what there is room for.                                                 *)
LEMMA DataShown ==
  ASSUME seen \in Seq(RecType), payloadCap \in Nat, NEW r \in RecType, r.type = "DATA",
         NEW x \in FlowType, ~ x.closed, ShownWell(r.flow, x),
         seen' = Append(seen, r), clears' = clears, payloadCap' = payloadCap,
         NEW y, y = KeepData(x, r)
  PROVE  ShownWell(r.flow, y)'
<1> DEFINE take == Least(Len(r.data), Room(x, r.dir))
<1>1. /\ y.closed = x.closed /\ y.bytes[r.dir] = x.bytes[r.dir] + Len(r.data)
      /\ \A d \in Dirs \ {r.dir} : /\ y.bytes[d] = x.bytes[d] /\ y.payload[d] = x.payload[d]
                                   /\ y.truncated[d] = x.truncated[d]
      /\ y.payload[r.dir] = x.payload[r.dir] \o SubSeq(r.data, 1, take)
      /\ y.truncated[r.dir] = (x.truncated[r.dir] \/ take < Len(r.data) \/ Room(x, r.dir) = 0)
      /\ take \in 0 .. Len(r.data)
  BY KeepDataDoes
<1>2. r.flow \in Flows /\ r.dir \in Dirs /\ r.data \in Seq(Nat) /\ Len(r.data) \in Nat
  BY DEF RecType
<1>3. (\E i \in DOMAIN seen' : seen'[i] = ConnRec("CLOSE", r.flow))
        <=> \E i \in DOMAIN seen : seen[i] = ConnRec("CLOSE", r.flow)
  <2>1. r # ConnRec("CLOSE", r.flow)
    BY DEF ConnRec
  <2> QED
    BY <2>1, CloseSeen
<1>4. ASSUME NEW d \in Dirs \ {r.dir}
      PROVE  PayloadFits(r.flow, y, d)' /\ y.bytes[d] = IF y.closed THEN 0 ELSE Len(DataOf(seen', r.flow, d))
  <2>1. DataIn(r, r.flow, d) = <<>>
    BY DEF DataIn
  <2>2. DataOf(seen', r.flow, d) = DataOf(seen, r.flow, d)
    BY <2>1, DataOfOthers
  <2> QED
    BY <1>1, <2>2 DEF ShownWell, PayloadFits
<1>5. PICK all \in Seq(Nat) : all = DataOf(seen, r.flow, r.dir)
  BY DataOfFacts
<1>6. DataOf(seen', r.flow, r.dir) = all \o r.data
  BY <1>5, DataOfFacts DEF DataIn
<1>7. all \o r.data \in Seq(Nat) /\ Len(all \o r.data) = Len(all) + Len(r.data)
  BY <1>2
<1>8. y.bytes[r.dir] = IF y.closed THEN 0 ELSE Len(DataOf(seen', r.flow, r.dir))
  <2>1. x.bytes[r.dir] = Len(all)
    BY <1>2, <1>5 DEF ShownWell
  <2> QED
    BY <1>1, <1>6, <1>7, <2>1
<1>9. ~ y.truncated[r.dir] => y.payload[r.dir] = all \o r.data
  <2> SUFFICES ASSUME ~ y.truncated[r.dir] PROVE y.payload[r.dir] = all \o r.data
    OBVIOUS
  <2>1. ~ x.truncated[r.dir] /\ ~ (take < Len(r.data))
    BY <1>1
  <2>2. take = Len(r.data)
    BY <1>1, <1>2, <2>1
  <2>3. SubSeq(r.data, 1, take) = r.data
    BY <1>2, <2>2, WholeAndNothing
  <2>4. x.payload[r.dir] = all
    BY <1>2, <1>5, <2>1 DEF ShownWell, PayloadFits
  <2> QED
    BY <1>1, <2>3, <2>4
<1>10. clears = 0 => y.payload[r.dir] = SubSeq(all \o r.data, 1, Least(Len(all \o r.data), payloadCap))
  <2> SUFFICES ASSUME clears = 0
               PROVE  y.payload[r.dir] = SubSeq(all \o r.data, 1, Least(Len(all \o r.data), payloadCap))
    OBVIOUS
  <2>1. x.payload[r.dir] = SubSeq(all, 1, Least(Len(all), payloadCap))
    BY <1>2, <1>5 DEF ShownWell, PayloadFits
  <2>2. SubSeq(all, 1, Least(Len(all), payloadCap)) \o SubSeq(r.data, 1, take)
          = SubSeq(all \o r.data, 1, Least(Len(all \o r.data), payloadCap))
    BY <1>2, <2>1, CapExtends DEF Room
  <2> QED
    BY <1>1, <2>1, <2>2
<1>11. PayloadFits(r.flow, y, r.dir)'
  BY <1>6, <1>9, <1>10 DEF PayloadFits
<1>12. \A d \in Dirs : /\ PayloadFits(r.flow, y, d)'
                       /\ y.bytes[d] = IF y.closed THEN 0 ELSE Len(DataOf(seen', r.flow, d))
  BY <1>4, <1>8, <1>11
<1>13. y.closed <=> \E i \in DOMAIN seen' : seen'[i] = ConnRec("CLOSE", r.flow)
  BY <1>1, <1>3 DEF ShownWell
<1> QED
  BY <1>12, <1>13 DEF ShownWell
(* pushPacket: the packet is last, and as many before it as fit.           *)
LEMMA PushDoes ==
  ASSUME NEW ps \in Seq(PacketType), NEW p \in PacketType, Len(ps) <= PacketCap
  PROVE  LET q == PushPacket(ps, p)
         IN  /\ Len(q) = Least(Len(ps) + 1, PacketCap)
             /\ \A i \in 1 .. Len(q) :
                  q[i] = IF i = Len(q) THEN p ELSE ps[Len(ps) + 1 - Len(q) + i]
<1>0. PacketCap \in Nat /\ PacketCap # 0 /\ Len(ps) \in Nat
  BY FlowsAssumption
<1>1. PICK t \in Seq(PacketType) : t = Append(ps, p)
  <2>1. Append(ps, p) \in Seq(PacketType)
    OBVIOUS
  <2> QED
    BY <2>1, Zenon
<1>2. /\ Len(t) = Len(ps) + 1 /\ t[Len(ps) + 1] = p
      /\ \A i \in 1 .. Len(ps) : t[i] = ps[i]
  BY <1>1
<1>3. CASE Len(t) > PacketCap
  <2>1. PushPacket(ps, p) = Tail(t)
    BY <1>1, <1>3 DEF PushPacket
  <2>2. t # <<>>
    <3>1. ASSUME t = <<>> PROVE FALSE
      <4>1. Len(t) = Len(<<>>)
        BY <3>1, Zenon
      <4> QED
        BY <1>0, <1>2, <4>1
    <3> QED
      BY <3>1
  <2>3. Len(Tail(t)) = Len(ps) /\ \A i \in 1 .. Len(ps) : Tail(t)[i] = t[i + 1]
    BY <1>0, <1>2, <2>2
  <2>4. Len(ps) = PacketCap
    BY <1>0, <1>2, <1>3
  <2>5. \A i \in 1 .. Len(ps) : Tail(t)[i] = IF i = Len(ps) THEN p ELSE ps[i + 1]
    <3> SUFFICES ASSUME NEW i \in 1 .. Len(ps)
                 PROVE  Tail(t)[i] = IF i = Len(ps) THEN p ELSE ps[i + 1]
      OBVIOUS
    <3>1. i # Len(ps) => i + 1 \in 1 .. Len(ps)
      BY <1>0
    <3> QED
      BY <1>2, <2>3, <3>1
  <2>a. PICK q : q = Tail(t)
    OBVIOUS
  <2>6. PICK n \in Nat : n = Len(ps)
    BY <1>0
  <2>7. Least(n + 1, PacketCap) = n
    BY <1>0, <2>4, <2>6 DEF Least
  <2>8. \A i \in 1 .. n : n + 1 - n + i = i + 1
    OBVIOUS
  <2>9. Len(q) = n /\ \A i \in 1 .. n : q[i] = IF i = n THEN p ELSE ps[n + 1 - n + i]
    BY <2>3, <2>5, <2>6, <2>8, <2>a
  <2> QED
    BY <2>1, <2>6, <2>7, <2>9, <2>a
<1>4. CASE ~ (Len(t) > PacketCap)
  <2>1. PushPacket(ps, p) = t
    BY <1>1, <1>4 DEF PushPacket
  <2>2. Least(Len(ps) + 1, PacketCap) = Len(ps) + 1
    BY <1>0, <1>2, <1>4 DEF Least
  <2>3. \A i \in 1 .. Len(ps) + 1 : /\ Len(ps) + 1 - (Len(ps) + 1) + i = i
                                    /\ i = Len(ps) + 1 \/ i \in 1 .. Len(ps)
    BY <1>0
  <2> QED
    BY <1>2, <2>1, <2>2, <2>3
<1> QED
  BY <1>3, <1>4

(* One record more: the model shows it, and the packet list ends with it.  *)
LEMMA IngestShown ==
  ASSUME Typed, Order, Shown, Ingest
  PROVE  Shown'
<1>0. /\ written \in Seq(RecType) /\ read \in 0 .. Len(written) /\ seen \in Seq(RecType)
      /\ packets \in Seq(PacketType) /\ packetNo \in Nat /\ payloadCap \in Nat /\ ModelTyped
  BY DEF Typed, RingTyped, AppTyped
<1>1. PICK r \in RecType :
        /\ read < Len(written) /\ r = written[read + 1]
        /\ r.flow \in Flows /\ Ingested(r) \in FlowType
        /\ model' = Put(r.flow, Ingested(r))
        /\ packets' = PushPacket(packets, [no |-> packetNo + 1, rec |-> r])
        /\ seen' = Append(seen, r) /\ packetNo' = packetNo + 1 /\ read' = read + 1
        /\ UNCHANGED <<payloadCap, clears, written>>
  BY IngestDoes
<1>2. /\ Len(seen) <= read /\ packetNo = Len(seen) /\ (clears = 0 => Len(seen) = read)
      /\ \A i \in 1 .. Len(seen) : seen[i] = written[read - Len(seen) + i]
      /\ Len(seen) \in Nat /\ Len(written) \in Nat /\ read \in Nat /\ read + 1 \in DOMAIN written
  <2>1. /\ Len(seen) \in Nat /\ Len(written) \in Nat /\ DOMAIN seen = 1 .. Len(seen)
        /\ DOMAIN written = 1 .. Len(written)
    BY <1>0
  <2>2. read \in Nat /\ read + 1 \in 1 .. Len(written)
    BY <1>0, <1>1, <2>1
  <2>3. SeenKnown
    BY DEF Shown
  <2> QED
    BY <2>1, <2>2, <2>3 DEF SeenKnown
<1>3. /\ Len(seen') = Len(seen) + 1 /\ DOMAIN seen' = 1 .. Len(seen) + 1
      /\ seen'[Len(seen) + 1] = r /\ \A i \in 1 .. Len(seen) : seen'[i] = seen[i]
  BY <1>0, <1>1
<1>4. SeenKnown'
  <2>1. Len(seen') <= read' /\ packetNo' = Len(seen') /\ (clears' = 0 => Len(seen') = read')
    BY <1>1, <1>2, <1>3
  <2>2. ASSUME NEW i \in DOMAIN seen' PROVE seen'[i] = written'[read' - Len(seen') + i]
    <3>1. i \in Nat /\ read' - Len(seen') + i = read - Len(seen) + i
      BY <1>1, <1>2, <1>3
    <3>2. CASE i \in 1 .. Len(seen)
      BY <1>1, <1>2, <1>3, <3>1, <3>2
    <3>3. CASE i = Len(seen) + 1
      <4>1. read - Len(seen) + i = read + 1
        BY <1>2, <3>3
      <4> QED
        BY <1>1, <1>3, <3>1, <3>3, <4>1
    <3>4. i \in 1 .. Len(seen) \/ i = Len(seen) + 1
      BY <1>2, <1>3
    <3> QED
      BY <3>2, <3>3, <3>4
  <2> QED
    BY <2>1, <2>2 DEF SeenKnown
<1>5. Plain(r)
  BY <1>1, <1>2 DEF Order, RecordsFit, Plain
<1>6. PICK x \in FlowType : x = Known(r.flow) /\ ShownWell(r.flow, x)
  BY <1>1, PutDoes DEF Shown, AllShown
<1>7. r.type = "DATA" => ~ x.closed
  <2> SUFFICES ASSUME r.type = "DATA", x.closed PROVE FALSE
    OBVIOUS
  <2>1. PICK i \in DOMAIN seen : seen[i] = ConnRec("CLOSE", r.flow)
    BY <1>6 DEF ShownWell
  <2>2. PICK k \in Nat : k = read - Len(seen) + i
    BY <1>0, <1>2
  <2>3. k \in DOMAIN written /\ k < read + 1 /\ written[k] = ConnRec("CLOSE", r.flow)
    <3>1. i \in 1 .. Len(seen)
      BY <1>0
    <3>2. k \in 1 .. Len(written) /\ k < read + 1
      BY <1>0, <1>1, <1>2, <2>2, <3>1
    <3> QED
      BY <1>0, <1>2, <2>1, <2>2, <3>1, <3>2
  <2>4. written[k].flow = written[read + 1].flow /\ written[k].type = "CLOSE"
    BY <1>1, <2>3 DEF ConnRec
  <2> QED
    BY <1>2, <2>3, <2>4 DEF Order, LifeInOrder
<1>8. PICK y \in FlowType : y = Ingested(r)
  BY <1>1
<1>9. ShownWell(r.flow, y)'
  <2>1. CASE r.type = "OPEN"
    <3>1. y = x
      BY <1>6, <1>8, <2>1 DEF Ingested
    <3> QED
      BY <1>0, <1>1, <1>5, <1>6, <2>1, <3>1, ConnShown
  <2>2. CASE r.type = "CLOSE"
    <3>1. y = [x EXCEPT !.closed = TRUE, !.bytes = [d \in Dirs |-> 0]]
      BY <1>6, <1>8, <2>2 DEF Ingested
    <3>2. y.closed = TRUE /\ y.payload = x.payload /\ y.truncated = x.truncated
          /\ \A d \in Dirs : y.bytes[d] = 0
      BY <3>1, ClosedDoes
    <3> QED
      BY <1>0, <1>1, <1>5, <1>6, <2>2, <3>2, ConnShown
  <2>3. CASE r.type = "DATA"
    <3>1. y = KeepData(x, r)
      BY <1>6, <1>8, <2>3 DEF Ingested
    <3> QED
      BY <1>0, <1>1, <1>6, <1>7, <2>3, <3>1, DataShown
  <2>4. r.type \in {"OPEN", "CLOSE", "DATA"}
    BY DEF RecType
  <2> QED
    BY <2>1, <2>2, <2>3, <2>4
<1>10. AllShown'
  <2>0. /\ DOMAIN model' = DOMAIN model \cup {r.flow} /\ model'[r.flow] = y
        /\ \A g \in DOMAIN model \ {r.flow} : model'[g] = model[g]
    <3>1. model' = Put(r.flow, y)
      BY <1>1, <1>8
    <3>2. PICK f \in Flows : f = r.flow
      BY <1>1
    <3>3. /\ DOMAIN Put(f, y) = DOMAIN model \cup {f} /\ Put(f, y)[f] = y
          /\ \A g \in DOMAIN model \ {f} : Put(f, y)[g] = model[g]
      BY PutDoes
    <3> QED
      BY <3>1, <3>2, <3>3
  <2>1. ASSUME NEW f \in Flows PROVE ShownWell(f, Known(f))'
    <3>1. CASE f = r.flow
      <4>1. Known(f)' = y
        BY <2>0, <3>1 DEF Known
      <4> QED
        BY <1>9, <3>1, <4>1
    <3>2. CASE f # r.flow
      <4>1. Known(f)' = Known(f)
        BY <2>0, <3>2 DEF Known
      <4>2. PICK z \in FlowType : z = Known(f) /\ ShownWell(f, z)
        BY NoFlowTyped, PutDoes DEF Shown, AllShown
      <4>3. ShownWell(f, z)'
        BY <1>0, <1>1, <3>2, <4>2, OthersShown
      <4> QED
        BY <4>1, <4>2, <4>3
    <3> QED
      BY <3>1, <3>2
  <2> QED
    BY <2>1 DEF AllShown
<1>11. NewestKept'
  <2>1. PICK n \in Nat, m \in Nat : n = Len(packets) /\ m = Len(seen)
    BY <1>0, <1>2
  <2>2. PacketCap \in Nat /\ PacketCap # 0
    BY FlowsAssumption
  <2>3. n = Least(m, PacketCap)
    BY <2>1 DEF Shown, NewestKept
  <2>4. \A i \in 1 .. n : packets[i] = [no |-> m - n + i, rec |-> seen[m - n + i]]
    BY <2>1 DEF Shown, NewestKept
  <2>5. n <= PacketCap /\ n <= m
    BY <2>2, <2>3 DEF Least
  <2>6. PICK p \in PacketType : p = [no |-> m + 1, rec |-> r]
    <3>1. m + 1 \in Nat
      OBVIOUS
    <3>2. [no |-> m + 1, rec |-> r] \in PacketType
      BY <3>1 DEF PacketType
    <3> QED
      BY <3>2, Zenon
  <2>7. packets' = PushPacket(packets, p)
    BY <1>1, <1>2, <2>1, <2>6
  <2>8. /\ Len(packets') = Least(n + 1, PacketCap)
        /\ \A i \in 1 .. Len(packets') :
             packets'[i] = IF i = Len(packets') THEN p ELSE packets[n + 1 - Len(packets') + i]
    BY <1>0, <2>1, <2>5, <2>7, PushDoes
  <2>9. PICK k \in Nat : k = Len(packets')
    BY <2>2, <2>8 DEF Least
  <2>10. k = Least(m + 1, PacketCap) /\ k <= n + 1 /\ n <= k
    BY <2>2, <2>3, <2>5, <2>8, <2>9 DEF Least
  <2>11. ASSUME NEW i \in 1 .. k
         PROVE  packets'[i] = [no |-> m + 1 - k + i, rec |-> seen'[m + 1 - k + i]]
    <3>1. CASE i = k
      <4>1. m + 1 - k + i = m + 1 /\ seen'[m + 1] = r
        BY <1>3, <2>1, <3>1
      <4>2. packets'[i] = p
        BY <2>8, <2>9, <3>1
      <4> QED
        BY <2>6, <4>1, <4>2
    <3>2. CASE i # k
      <4>1. PICK j \in Nat : j = n + 1 - k + i
        BY <2>10
      <4>2. j \in 1 .. n
        BY <2>10, <3>2, <4>1
      <4>3. packets'[i] = packets[j]
        BY <2>8, <2>9, <3>2, <4>1
      <4>4. packets[j] = [no |-> m - n + j, rec |-> seen[m - n + j]]
        BY <2>4, <4>2
      <4>5. m - n + j = m + 1 - k + i /\ m - n + j \in 1 .. m
        BY <2>5, <4>1, <4>2
      <4>6. seen'[m + 1 - k + i] = seen[m - n + j]
        BY <1>3, <2>1, <4>5
      <4> QED
        BY <4>3, <4>4, <4>5, <4>6
    <3> QED
      BY <3>1, <3>2
  <2>12. Len(seen') = m + 1
    BY <1>3, <2>1
  <2>13. Len(packets') = Least(Len(seen'), PacketCap)
    BY <2>9, <2>10, <2>12
  <2>14. \A i \in 1 .. Len(packets') :
           packets'[i] = [no  |-> Len(seen') - Len(packets') + i,
                          rec |-> seen'[Len(seen') - Len(packets') + i]]
    BY <2>9, <2>11, <2>12
  <2> QED
    BY <2>13, <2>14 DEF NewestKept
<1> QED
  BY <1>4, <1>10, <1>11 DEF Shown
(* A callback may add to the ring; what poll has passed on stays.          *)
LEMMA ShownFrame ==
  ASSUME Typed, Shown, UNCHANGED appVars,
         written' = written \/ \E r \in RecType : written' = Append(written, r)
  PROVE  Shown'
<1>0. /\ written \in Seq(RecType) /\ read \in 0 .. Len(written) /\ seen \in Seq(RecType)
      /\ UNCHANGED <<read, model, packets, packetNo, payloadCap, seen, clears>>
  BY DEF Typed, RingTyped, AppTyped, appVars
<1>1. SeenKnown /\ AllShown /\ NewestKept
  BY DEF Shown
<1>2. \A i \in 1 .. Len(written) : written'[i] = written[i]
  BY <1>0
<1>3. \A i \in DOMAIN seen : read - Len(seen) + i \in 1 .. Len(written)
  <2>1. /\ Len(seen) \in Nat /\ Len(written) \in Nat /\ DOMAIN seen = 1 .. Len(seen)
        /\ Len(seen) <= read
    BY <1>0, <1>1 DEF SeenKnown
  <2> QED
    BY <1>0, <2>1
<1>4. SeenKnown'
  BY <1>0, <1>1, <1>2, <1>3 DEF SeenKnown
<1>5. AllShown'
  <2>1. \A f \in Flows : Known(f)' = Known(f)
    BY <1>0 DEF Known
  <2> QED
    BY <1>0, <1>1, <2>1 DEF AllShown, ShownWell, PayloadFits
<1>6. NewestKept'
  BY <1>0, <1>1 DEF NewestKept
<1> QED
  BY <1>4, <1>5, <1>6 DEF Shown

(* An empty model shows what is to be shown of nothing.                    *)
LEMMA NothingShown ==
  ASSUME seen \in Seq(RecType), Len(seen) = 0, payloadCap \in Nat, DOMAIN model = {}
  PROVE  AllShown
<1> SUFFICES ASSUME NEW f \in Flows PROVE ShownWell(f, NoFlow)
  BY DEF AllShown, Known
<1>1. \A d \in Dirs : DataOf(seen, f, d) = <<>>
  BY DataOfFacts
<1>2. /\ NoFlow.closed = FALSE
      /\ \A d \in Dirs : NoFlow.bytes[d] = 0 /\ NoFlow.payload[d] = <<>>
  BY DEF NoFlow
<1>3. Len(<<>>) = 0 /\ Least(0, payloadCap) = 0 /\ SubSeq(<<>>, 1, 0) = <<>>
  BY DEF Least
<1>4. \A d \in Dirs : PayloadFits(f, NoFlow, d)
  BY <1>1, <1>2, <1>3 DEF PayloadFits
<1>5. DOMAIN seen = {}
  OBVIOUS
<1> QED
  BY <1>1, <1>2, <1>3, <1>4, <1>5 DEF ShownWell

(* clear() forgets what was seen with what was shown of it.                *)
LEMMA ClearShown ==
  ASSUME Typed, Shown, Clear
  PROVE  Shown'
<1>0. read \in Nat /\ clears \in Nat /\ payloadCap \in Nat /\ PacketCap \in Nat
  BY FlowsAssumption DEF Typed, RingTyped, AppTyped
<1>1. /\ clears' = clears + 1 /\ model' = <<>> /\ packets' = <<>> /\ packetNo' = 0
      /\ seen' = <<>> /\ UNCHANGED <<read, payloadCap>>
  BY DEF Clear
<1>2. clears' # 0
  BY <1>0, <1>1
<1>3. /\ seen' \in Seq(RecType) /\ Len(seen') = 0 /\ DOMAIN seen' = {} /\ DOMAIN model' = {}
      /\ Len(packets') = 0 /\ 1 .. Len(packets') = {}
  BY <1>1
<1>4. SeenKnown'
  BY <1>0, <1>1, <1>2, <1>3 DEF SeenKnown
<1>5. AllShown'
  <2>1. payloadCap' \in Nat
    BY <1>0, <1>1
  <2>2. \A f \in Flows : Known(f)' = NoFlow
    BY <1>3 DEF Known
  <2>3. ASSUME NEW f \in Flows PROVE ShownWell(f, NoFlow)'
    <3>1. \A d \in Dirs : DataOf(seen', f, d) = <<>>
      BY <1>3, DataOfFacts
    <3>2. /\ NoFlow.closed = FALSE
          /\ \A d \in Dirs : NoFlow.bytes[d] = 0 /\ NoFlow.payload[d] = <<>>
      BY DEF NoFlow
    <3>3. Len(<<>>) = 0
      OBVIOUS
    <3>4. \A d \in Dirs : PayloadFits(f, NoFlow, d)'
      BY <1>2, <3>1, <3>2 DEF PayloadFits
    <3> QED
      BY <1>3, <3>1, <3>2, <3>3, <3>4 DEF ShownWell
  <2> QED
    BY <2>2, <2>3 DEF AllShown
<1>6. NewestKept'
  <2>1. Least(0, PacketCap) = 0
    BY <1>0 DEF Least
  <2> QED
    BY <1>3, <2>1 DEF NewestKept
<1> QED
  BY <1>4, <1>5, <1>6 DEF Shown

(* A new cap concerns what is to come.                                     *)
LEMMA CapShown ==
  ASSUME Typed, Shown, NEW n \in PayloadCaps, SetPayloadCap(n)
  PROVE  Shown'
<1>0. clears \in Nat
  BY DEF Typed, AppTyped
<1>1. /\ clears' = clears + 1 /\ UNCHANGED <<read, model, packets, packetNo, seen, written>>
  BY DEF SetPayloadCap, ringVars
<1>2. clears' # 0
  BY <1>0, <1>1
<1>3. SeenKnown /\ AllShown /\ NewestKept
  BY DEF Shown
<1>4. SeenKnown' /\ NewestKept'
  BY <1>1, <1>2, <1>3 DEF SeenKnown, NewestKept
<1>5. AllShown'
  <2>1. \A f \in Flows : Known(f)' = Known(f)
    BY <1>1 DEF Known
  <2> QED
    BY <1>1, <1>2, <1>3, <2>1 DEF AllShown, ShownWell, PayloadFits
<1> QED
  BY <1>4, <1>5 DEF Shown
(* A callback writes at most one record at a time.                         *)
LEMMA CallbackWrites ==
  ASSUME Typed, NEW c \in Cpus, Callback(c)
  PROVE  written' = written \/ \E r \in RecType : written' = Append(written, r)
<1>0. job[c].flow \in Flows /\ job[c].dir \in Dirs /\ job[c].off \in Nat
  BY DEF Typed, CpuTyped, JobType
<1>1. CASE WriteChunk(c)
  <2>1. ChunkEnds(job[c]) \in Nat
    BY <1>1, ChunkDoes
  <2>2. DataRec(job[c].flow, job[c].dir, Bytes(job[c].off, ChunkEnds(job[c]))) \in RecType
    BY <1>0, <2>1, RecordsTyped
  <2> QED
    BY <1>1, <2>2, ChunkDoes
<1>2. CASE WriteOpen(c) \/ WriteClose(c)
  <2>1. \A t \in {"OPEN", "CLOSE"} : ConnRec(t, job[c].flow) \in RecType
    BY <1>0, RecordsTyped
  <2> QED
    BY <1>2, <2>1, ConnDoes
<1>3. CASE CountOpen(c) \/ CountClose(c)
  BY <1>3, CountDoes
<1>4. CASE Associate(c)
  BY <1>4, AssociateDoes
<1>5. ASSUME NEW f \in Flows, NEW h \in BOOLEAN, FlowEstablished(c, f, h) PROVE written' = written
  BY <1>5, EstablishedDoes
<1>6. ASSUME NEW f \in Flows, FlowDeleted(c, f) PROVE written' = written
  BY <1>6, DeletedDoes
<1>7. ASSUME NEW f \in Flows, NEW d \in Dirs, NEW n \in Lengths, NEW s \in BOOLEAN,
             StreamIndication(c, f, d, n, s)
      PROVE  written' = written
  BY <1>7, IndicationDoes
<1> QED
  BY <1>1, <1>2, <1>3, <1>4, <1>5, <1>6, <1>7 DEF Callback

(* Initially nothing was seen.                                             *)
LEMMA ShownInit == Init => Shown
<1> SUFFICES ASSUME Init PROVE Shown
  OBVIOUS
<1>1. /\ seen = <<>> /\ read = 0 /\ packetNo = 0 /\ packets = <<>> /\ model = <<>>
      /\ payloadCap \in Nat /\ PacketCap \in Nat
  BY FlowsAssumption DEF Init
<1>2. /\ seen \in Seq(RecType) /\ Len(seen) = 0 /\ DOMAIN seen = {} /\ DOMAIN model = {}
      /\ Len(packets) = 0 /\ 1 .. Len(packets) = {}
  BY <1>1
<1>3. AllShown
  BY <1>1, <1>2, NothingShown
<1>4. NewestKept
  <2>1. Least(0, PacketCap) = 0
    BY <1>1 DEF Least
  <2> QED
    BY <1>2, <2>1 DEF NewestKept
<1>5. SeenKnown
  BY <1>1, <1>2 DEF SeenKnown
<1> QED
  BY <1>3, <1>4, <1>5 DEF Shown

(* Every step keeps what is shown true to what was seen.                   *)
LEMMA ShownStep == Typed /\ Order /\ Shown /\ [Next]_vars => Shown'
<1> SUFFICES ASSUME Typed, Order, Shown, [Next]_vars PROVE Shown'
  OBVIOUS
<1>1. ASSUME NEW c \in Cpus, Callback(c) PROVE Shown'
  BY <1>1, CallbackFrame, CallbackWrites, ShownFrame
<1>2. ASSUME NEW p \in Clients, (\E on \in BOOLEAN : SwitchCapture(p, on)) \/ CopySwitch(p)
      PROVE  Shown'
  BY <1>2, SwitchFrame, ShownFrame DEF ringVars
<1>3. CASE UNCHANGED vars
  BY <1>3, ShownFrame DEF vars, ringVars
<1> QED
  BY <1>1, <1>2, <1>3, IngestShown, ClearShown, CapShown DEF Next

(* A flow the model knows is one of the flows.                             *)
LEMMA KnownShown ==
  ASSUME Typed, Shown, NEW f \in DOMAIN model
  PROVE  f \in Flows /\ model[f] \in FlowType /\ ShownWell(f, model[f])
<1>1. f \in Flows /\ model[f] \in FlowType /\ Known(f) = model[f]
  BY DEF Typed, AppTyped, ModelTyped, Known
<1> QED
  BY <1>1 DEF Shown, AllShown

(* Types, order and the model together.                                    *)
LEMMA AlwaysShown == Spec => [](Typed /\ Order /\ Shown)
BY TypedInit, TypedStep, OrderInit, OrderStep, ShownInit, ShownStep, PTL DEF Spec

(* ingest and payloadCap: the payload shown for a direction not marked     *)
(* truncated is all the data ingested for it, in order, for any sequence   *)
(* of caps and any chunks.                                                 *)
THEOREM UnmarkedComplete == Spec => []UnmarkedIsComplete
<1>1. Typed /\ Order /\ Shown => UnmarkedIsComplete
  <2> SUFFICES ASSUME Typed, Shown, NEW f \in DOMAIN model, NEW d \in Dirs, ~ model[f].truncated[d]
               PROVE  model[f].payload[d] = DataOf(seen, f, d)
    BY DEF UnmarkedIsComplete
  <2> QED
    BY KnownShown DEF ShownWell, PayloadFits
<1> QED
  BY <1>1, AlwaysShown, PTL

(* ingest's totals: the bytes ingested for an open flow, those beyond the  *)
(* cap too, because nothing of a flow follows its CLOSE in the ring.       *)
THEOREM TotalsCounted == Spec => []TotalsWhileOpen
<1>1. Typed /\ Order /\ Shown => TotalsWhileOpen
  <2> SUFFICES ASSUME Typed, Shown, NEW f \in DOMAIN model, NEW d \in Dirs, ~ model[f].closed
               PROVE  model[f].bytes[d] = Len(DataOf(seen, f, d))
    BY DEF TotalsWhileOpen
  <2> QED
    BY KnownShown DEF ShownWell
<1> QED
  BY <1>1, AlwaysShown, PTL

(* The connection list and the packet list: a flow is shown closed exactly *)
(* if its CLOSE was ingested, and pushPacket keeps the newest PacketCap    *)
(* records, numbered from the clear.                                       *)
THEOREM ListsTrue == Spec => []ListsAgree
<1>1. Typed /\ Order /\ Shown => ListsAgree
  <2> SUFFICES ASSUME Typed, Shown PROVE ListsAgree
    OBVIOUS
  <2>1. \A f \in DOMAIN model :
          model[f].closed <=> \E i \in DOMAIN seen : seen[i] = ConnRec("CLOSE", f)
    BY KnownShown DEF ShownWell
  <2>2. NewestKept
    BY DEF Shown
  <2> QED
    BY <2>1, <2>2 DEF ListsAgree, NewestKept, Least
<1> QED
  BY <1>1, AlwaysShown, PTL
-----------------------------------------------------------------------------
(* From the wire to the screen.                                            *)

(* Pieces of a stream that follow each other.                              *)
LEMMA BytesJoin ==
  ASSUME NEW a \in Nat, NEW b \in Nat, a <= b
  PROVE  /\ Bytes(0, a) \in Seq(Nat) /\ Bytes(a, b) \in Seq(Nat) /\ Bytes(0, b) \in Seq(Nat)
         /\ Len(Bytes(0, a)) = a /\ Len(Bytes(a, b)) = b - a /\ Len(Bytes(0, b)) = b
         /\ Bytes(0, a) \o Bytes(a, b) = Bytes(0, b)
         /\ SubSeq(Bytes(0, b), 1, a) = Bytes(0, a)
<1>1. /\ Bytes(0, a) \in Seq(Nat) /\ Len(Bytes(0, a)) = a /\ \A i \in 1 .. a : Bytes(0, a)[i] = i
      /\ Bytes(0, b) \in Seq(Nat) /\ Len(Bytes(0, b)) = b /\ \A i \in 1 .. b : Bytes(0, b)[i] = i
  <2>1. \A n \in Nat : /\ Bytes(0, n) \in Seq(Nat) /\ Len(Bytes(0, n)) = n
                       /\ \A i \in 1 .. n : Bytes(0, n)[i] = i
    <3> SUFFICES ASSUME NEW n \in Nat
                 PROVE  /\ Bytes(0, n) \in Seq(Nat) /\ Len(Bytes(0, n)) = n
                        /\ \A i \in 1 .. n : Bytes(0, n)[i] = i
      OBVIOUS
    <3>1. n - 0 = n /\ \A i \in 1 .. n : 0 + i = i /\ i \in Nat
      OBVIOUS
    <3>2. Bytes(0, n) = [i \in 1 .. n |-> i]
      BY <3>1 DEF Bytes
    <3>3. [i \in 1 .. n |-> i] \in Seq(Nat) /\ Len([i \in 1 .. n |-> i]) = n
      OBVIOUS
    <3> QED
      BY <3>2, <3>3
  <2> QED
    BY <2>1
<1>2. PICK m \in Nat : m = b - a
  OBVIOUS
<1>3. /\ Bytes(a, b) \in Seq(Nat) /\ Len(Bytes(a, b)) = m
      /\ \A i \in 1 .. m : Bytes(a, b)[i] = a + i
  <2>1. Bytes(a, b) = [i \in 1 .. m |-> a + i]
    BY <1>2 DEF Bytes
  <2>2. \A i \in 1 .. m : a + i \in Nat
    OBVIOUS
  <2>3. [i \in 1 .. m |-> a + i] \in Seq(Nat) /\ Len([i \in 1 .. m |-> a + i]) = m
    BY <2>2
  <2> QED
    BY <2>1, <2>3
<1>4. PICK x \in Seq(Nat), y \in Seq(Nat), z \in Seq(Nat) :
        x = Bytes(0, a) /\ y = Bytes(a, b) /\ z = Bytes(0, b)
  BY <1>1, <1>3
<1>5. x \o y = z
  <2>0. Len(x) = a /\ Len(y) = m
    BY <1>1, <1>3, <1>4
  <2>1. /\ x \o y \in Seq(Nat) /\ Len(x \o y) = a + m
        /\ \A i \in 1 .. a : (x \o y)[i] = x[i]
        /\ \A i \in 1 .. m : (x \o y)[a + i] = y[i]
    <3>1. /\ x \o y \in Seq(Nat) /\ Len(x \o y) = Len(x) + Len(y)
          /\ \A i \in 1 .. Len(x) : (x \o y)[i] = x[i]
          /\ \A i \in 1 .. Len(y) : (x \o y)[Len(x) + i] = y[i]
      OBVIOUS
    <3> QED
      BY <2>0, <3>1
  <2>2. a + m = b
    BY <1>2
  <2>3. \A i \in 1 .. b : (x \o y)[i] = z[i]
    <3> SUFFICES ASSUME NEW i \in 1 .. b PROVE (x \o y)[i] = z[i]
      OBVIOUS
    <3>1. CASE i <= a
      BY <1>1, <1>4, <2>1, <3>1
    <3>2. CASE i > a
      <4>1. i - a \in 1 .. m /\ a + (i - a) = i
        BY <1>2, <3>2
      <4>2. PICK k \in 1 .. m : a + k = i
        BY <4>1, Zenon
      <4> QED
        BY <1>1, <1>3, <1>4, <2>1, <4>2
    <3>3. i <= a \/ i > a
      OBVIOUS
    <3> QED
      BY <3>1, <3>2, <3>3
  <2> QED
    BY <1>1, <1>4, <2>1, <2>2, <2>3, SameElements
<1>6. SubSeq(z, 1, a) = x
  <2>1. /\ SubSeq(z, 1, a) \in Seq(Nat) /\ Len(SubSeq(z, 1, a)) = a
        /\ \A i \in 1 .. a : SubSeq(z, 1, a)[i] = z[i]
    BY <1>1, <1>4
  <2>2. \A i \in 1 .. a : z[i] = x[i]
    BY <1>1, <1>4
  <2> QED
    BY <1>1, <1>4, <2>1, <2>2, SameElements
<1> QED
  BY <1>1, <1>2, <1>3, <1>4, <1>5, <1>6

(* The prefixes of a longer sequence.                                      *)
LEMMA PrefixesGrow ==
  ASSUME NEW s \in Seq(RecType), NEW r \in RecType
  PROVE  /\ \A n \in 0 .. Len(s) : SubSeq(Append(s, r), 1, n) = SubSeq(s, 1, n)
         /\ SubSeq(Append(s, r), 1, Len(s) + 1) = Append(s, r)
         /\ SubSeq(s, 1, Len(s)) = s
<1>1. Append(s, r) \in Seq(RecType)
  OBVIOUS
<1>2. PICK t \in Seq(RecType) : t = Append(s, r)
  BY <1>1, Zenon
<1>3. Len(t) = Len(s) + 1 /\ \A i \in 1 .. Len(s) : t[i] = s[i]
  BY <1>2
<1>4. ASSUME NEW n \in 0 .. Len(s) PROVE SubSeq(t, 1, n) = SubSeq(s, 1, n)
  <2>1. /\ SubSeq(t, 1, n) \in Seq(RecType) /\ Len(SubSeq(t, 1, n)) = n
        /\ \A i \in 1 .. n : SubSeq(t, 1, n)[i] = t[i]
    BY <1>3
  <2>2. /\ SubSeq(s, 1, n) \in Seq(RecType) /\ Len(SubSeq(s, 1, n)) = n
        /\ \A i \in 1 .. n : SubSeq(s, 1, n)[i] = s[i]
    OBVIOUS
  <2>3. \A i \in 1 .. n : t[i] = s[i]
    BY <1>3
  <2> QED
    BY <2>1, <2>2, <2>3, SameElements
<1>5. SubSeq(t, 1, Len(t)) = t /\ SubSeq(s, 1, Len(s)) = s
  BY WholeAndNothing
<1> QED
  BY <1>2, <1>3, <1>4, <1>5
(* The callbacks at work on a direction are the same after the step.       *)
SameChunking(f, d) ==
  \A c \in Cpus : /\ Chunking(c, f, d)' <=> Chunking(c, f, d)
                  /\ Chunking(c, f, d) => job'[c].off = job[c].off /\ job'[c].got = job[c].got

(* The ring has the same bytes of a direction after the step.              *)
SameBytes(f, d) ==
  written' = written \/ \E r \in RecType : DataIn(r, f, d) = <<>> /\ written' = Append(written, r)

(* A record that adds nothing to a direction adds no bad prefix of it.     *)
LEMMA PrefixesFrame ==
  ASSUME written \in Seq(RecType), NEW f, NEW d, AtEveryRecord(f, d), SameBytes(f, d),
         sent[f][d] \in Nat, sent'[f][d] \in Nat, sent[f][d] <= sent'[f][d]
  PROVE  AtEveryRecord(f, d)' /\ DataOf(written', f, d) = DataOf(written, f, d)
<1>0. Len(written) \in Nat
  OBVIOUS
<1>1. \A s \in Seq(RecType) : Streamed(s, f, d) => Streamed(s, f, d)'
  <2> SUFFICES ASSUME NEW s \in Seq(RecType), Streamed(s, f, d) PROVE Streamed(s, f, d)'
    OBVIOUS
  <2>1. PICK all \in Seq(Nat) : all = DataOf(s, f, d)
    BY DataOfFacts
  <2>2. all = Bytes(0, Len(all)) /\ Len(all) <= sent[f][d] /\ Len(all) \in Nat
    BY <2>1 DEF Streamed
  <2>3. Len(all) <= sent'[f][d]
    BY <2>2
  <2> QED
    BY <2>1, <2>2, <2>3 DEF Streamed
<1>2. \A n \in 0 .. Len(written) : SubSeq(written, 1, n) \in Seq(RecType)
  OBVIOUS
<1>3. CASE written' = written
  BY <1>1, <1>2, <1>3 DEF AtEveryRecord
<1>4. ASSUME NEW r \in RecType, DataIn(r, f, d) = <<>>, written' = Append(written, r)
      PROVE  AtEveryRecord(f, d)' /\ DataOf(written', f, d) = DataOf(written, f, d)
  <2>1. DataOf(written', f, d) = DataOf(written, f, d)
    BY <1>4, DataOfOthers
  <2>2. Streamed(written, f, d)
    <3>1. Len(written) \in 0 .. Len(written)
      BY <1>0
    <3> QED
      BY <3>1, PrefixesGrow DEF AtEveryRecord
  <2>3. Streamed(written, f, d)'
    <3>1. PICK all \in Seq(Nat) : all = DataOf(written, f, d)
      BY DataOfFacts
    <3>2. all = Bytes(0, Len(all)) /\ Len(all) <= sent[f][d] /\ Len(all) \in Nat
      BY <2>2, <3>1 DEF Streamed
    <3>3. Len(all) <= sent'[f][d]
      BY <3>2
    <3> QED
      BY <2>1, <3>1, <3>2, <3>3 DEF Streamed
  <2>4. \A n \in 0 .. Len(written) : SubSeq(written', 1, n) = SubSeq(written, 1, n)
    BY <1>4, PrefixesGrow
  <2>5. SubSeq(written', 1, Len(written) + 1) = written' /\ Len(written') = Len(written) + 1
    BY <1>4, PrefixesGrow
  <2>6. ASSUME NEW n \in 0 .. Len(written) + 1 PROVE Streamed(SubSeq(written, 1, n), f, d)'
    <3>1. CASE n \in 0 .. Len(written)
      <4>1. PICK s \in Seq(RecType) : s = SubSeq(written, 1, n)
        BY <1>2, <3>1
      <4>2. Streamed(s, f, d)'
        BY <1>1, <3>1, <4>1 DEF AtEveryRecord
      <4> QED
        BY <2>4, <3>1, <4>1, <4>2
    <3>2. CASE n = Len(written) + 1
      BY <2>3, <2>5, <3>2
    <3>3. n \in 0 .. Len(written) \/ n = Len(written) + 1
      BY <1>0
    <3> QED
      BY <3>1, <3>2, <3>3
  <2> QED
    BY <2>1, <2>5, <2>6 DEF AtEveryRecord
<1> QED
  BY <1>3, <1>4 DEF SameBytes

(* A direction that the step does not concern.                             *)
LEMMA WireFrame ==
  ASSUME Typed, NEW f \in Flows, NEW d \in Dirs, Wire(f, d), SameChunking(f, d), SameBytes(f, d),
         sent'[f][d] = sent[f][d], lost'[f][d] = lost[f][d]
  PROVE  Wire(f, d)'
<1> SUFFICES ASSUME ~ lost[f][d] PROVE AtEveryRecord(f, d)' /\ UpToCallback(f, d)'
  BY DEF Wire
<1>1. AtEveryRecord(f, d) /\ UpToCallback(f, d)
  BY DEF Wire
<1>2. written \in Seq(RecType) /\ sent[f][d] \in Nat
  BY DEF Typed, RingTyped, WfpTyped
<1>3. sent'[f][d] \in Nat /\ sent[f][d] <= sent'[f][d]
  BY <1>2
<1>4. AtEveryRecord(f, d)' /\ DataOf(written', f, d) = DataOf(written, f, d)
  BY <1>1, <1>2, <1>3, PrefixesFrame
<1>5. UpToCallback(f, d)'
  <2>1. ASSUME NEW c \in Cpus, Chunking(c, f, d)'
        PROVE  /\ Len(DataOf(written', f, d)) = job'[c].off
               /\ job'[c].off <= job'[c].got /\ job'[c].got = sent'[f][d]
    BY <1>1, <1>4, <2>1 DEF UpToCallback, SameChunking
  <2>2. ASSUME \A c \in Cpus : ~ Chunking(c, f, d)'
        PROVE  Len(DataOf(written', f, d)) = sent'[f][d]
    BY <1>1, <1>4, <2>2 DEF UpToCallback, SameChunking
  <2> QED
    BY <2>1, <2>2 DEF UpToCallback
<1> QED
  BY <1>4, <1>5
(* A step of a callback that is not in the loop over the chunks, before or *)
(* after.                                                                  *)
LEMMA WireQuiet ==
  ASSUME Typed, WireKnown, NEW c \in Cpus, pc[c] # "chunk", pc'[c] # "chunk",
         \A e \in Cpus \ {c} : pc'[e] = pc[e] /\ job'[e] = job[e],
         lost' = lost, sent' = sent,
         written' = written \/ \E r \in RecType : r.data = <<>> /\ written' = Append(written, r)
  PROVE  WireKnown'
<1> SUFFICES ASSUME NEW f \in Flows, NEW d \in Dirs PROVE Wire(f, d)'
  BY DEF WireKnown
<1>1. SameChunking(f, d)
  BY DEF SameChunking, Chunking
<1>2. SameBytes(f, d)
  BY DEF SameBytes, DataIn
<1>3. Wire(f, d)
  BY DEF WireKnown
<1> QED
  BY <1>1, <1>2, <1>3, WireFrame

(* KndClassifyStream's entry: bytes that are not copied are lost, and the  *)
(* copy continues where the ring has got to.                               *)
LEMMA IndicationWire ==
  ASSUME Typed, Order, WireKnown, NEW c \in Cpus, NEW f \in Flows, NEW d \in Dirs, NEW n \in Lengths,
         NEW s \in BOOLEAN, StreamIndication(c, f, d, n, s)
  PROVE  WireKnown'
<1>0. /\ pc \in [Cpus -> Places] /\ job \in [Cpus -> JobType] /\ written \in Seq(RecType)
      /\ sent \in [Flows -> [Dirs -> Nat]] /\ lost \in [Flows -> [Dirs -> BOOLEAN]]
  BY DEF Typed, CpuTyped, WfpTyped, RingTyped
<1>1. /\ pc[c] = "idle" /\ associated[f] /\ ~ Serving(f) /\ sent[f][d] \in Nat /\ n \in Nat
      /\ sent' = [sent EXCEPT ![f][d] = sent[f][d] + n] /\ written' = written
  BY IndicationDoes
<1>2. PICK got \in 0 .. n :
        /\ lost' = [lost EXCEPT ![f][d] = lost[f][d] \/ got < n]
        /\ \/ got = 0 /\ UNCHANGED <<pc, job>>
           \/ \E j \in JobType : /\ Starts(c, "chunk", j) /\ j.flow = f /\ j.dir = d
                                 /\ j.off = sent[f][d] /\ j.got = sent[f][d] + got
  BY IndicationDoes
<1>3. Idle(f)
  BY <1>1, NextIsOnly
<1>4. \A e \in Cpus : ~ Chunking(e, f, d)
  BY <1>3 DEF Idle, Chunking, Busy
<1>5. \A e \in Cpus \ {c} : pc'[e] = pc[e] /\ job'[e] = job[e]
  BY <1>0, <1>2 DEF Starts
<1>6. /\ sent'[f][d] = sent[f][d] + n /\ lost'[f][d] = (lost[f][d] \/ got < n)
      /\ \A g \in Flows, e \in Dirs : g # f \/ e # d =>
           sent'[g][e] = sent[g][e] /\ lost'[g][e] = lost[g][e]
  BY <1>0, <1>1, <1>2
<1>7. ASSUME NEW g \in Flows, NEW e \in Dirs, g # f \/ e # d PROVE Wire(g, e)'
  <2>1. pc'[c] = pc[c] \/ (pc'[c] = "chunk" /\ job'[c].flow = f /\ job'[c].dir = d)
    BY <1>0, <1>2 DEF Starts
  <2>2. ~ Chunking(c, g, e) /\ ~ Chunking(c, g, e)'
    BY <1>1, <1>7, <2>1 DEF Chunking
  <2>3. SameChunking(g, e)
    BY <1>5, <2>2 DEF SameChunking, Chunking
  <2>4. SameBytes(g, e)
    BY <1>1 DEF SameBytes
  <2>5. Wire(g, e)
    BY DEF WireKnown
  <2> QED
    BY <1>6, <1>7, <2>3, <2>4, <2>5, WireFrame
<1>8. Wire(f, d)'
  <2> SUFFICES ASSUME ~ lost'[f][d] PROVE AtEveryRecord(f, d)' /\ UpToCallback(f, d)'
    BY DEF Wire
  <2>1. ~ lost[f][d] /\ ~ (got < n)
    BY <1>6
  <2>2. got = n
    BY <1>1, <2>1
  <2>3. AtEveryRecord(f, d) /\ UpToCallback(f, d)
    BY <2>1 DEF WireKnown, Wire
  <2>4. Len(DataOf(written, f, d)) = sent[f][d]
    BY <1>4, <2>3 DEF UpToCallback
  <2>5. sent'[f][d] \in Nat /\ sent[f][d] <= sent'[f][d]
    BY <1>1, <1>6
  <2>6. SameBytes(f, d)
    BY <1>1 DEF SameBytes
  <2>7. AtEveryRecord(f, d)'
    BY <1>0, <1>1, <2>3, <2>5, <2>6, PrefixesFrame
  <2>8. CASE got = 0 /\ UNCHANGED <<pc, job>>
    <3>1. sent'[f][d] = sent[f][d]
      BY <1>1, <1>6, <2>2, <2>8
    <3>2. \A e \in Cpus : ~ Chunking(e, f, d)'
      BY <1>4, <2>8 DEF Chunking
    <3> QED
      BY <1>1, <2>4, <2>7, <3>1, <3>2 DEF UpToCallback
  <2>9. ASSUME NEW j \in JobType, Starts(c, "chunk", j), j.flow = f, j.dir = d,
               j.off = sent[f][d], j.got = sent[f][d] + got
        PROVE  UpToCallback(f, d)'
    <3>1. pc'[c] = "chunk" /\ job'[c] = j
      BY <1>0, <2>9 DEF Starts
    <3>2. Chunking(c, f, d)'
      BY <2>9, <3>1 DEF Chunking
    <3>3. \A e \in Cpus \ {c} : ~ Chunking(e, f, d)'
      BY <1>4, <1>5 DEF Chunking
    <3>4. /\ Len(DataOf(written', f, d)) = j.off /\ j.off <= j.got /\ j.got = sent'[f][d]
      BY <1>1, <1>6, <2>2, <2>4, <2>9
    <3> QED
      BY <3>1, <3>2, <3>3, <3>4 DEF UpToCallback
  <2> QED
    BY <1>2, <2>7, <2>8, <2>9
<1> QED
  BY <1>7, <1>8 DEF WireKnown

(* One round of the loop: the chunk continues the stream in the ring, or   *)
(* the direction has lost it.                                              *)
LEMMA ChunkWire ==
  ASSUME Typed, Order, WireKnown, NEW c \in Cpus, WriteChunk(c)
  PROVE  WireKnown'
<1> DEFINE f == job[c].flow
           d == job[c].dir
           ends == ChunkEnds(job[c])
           r == DataRec(f, d, Bytes(job[c].off, ends))
<1>0. /\ pc \in [Cpus -> Places] /\ job \in [Cpus -> JobType] /\ written \in Seq(RecType)
      /\ sent \in [Flows -> [Dirs -> Nat]] /\ lost \in [Flows -> [Dirs -> BOOLEAN]]
  BY DEF Typed, CpuTyped, WfpTyped, RingTyped
<1>a. job[c] \in JobType /\ f \in Flows /\ d \in Dirs /\ job[c].off \in Nat /\ job[c].got \in Nat
  BY <1>0 DEF JobType
<1>1. /\ pc[c] = "chunk" /\ ends \in Nat /\ sent' = sent
      /\ \/ written' = Append(written, r) /\ lost' = lost
         \/ written' = written /\ lost' = [lost EXCEPT ![f][d] = TRUE]
      /\ job' = [job EXCEPT ![c].off = ends]
      /\ \/ pc' = pc /\ ends < job[c].got
         \/ pc' = [pc EXCEPT ![c] = "idle"] /\ ~ (ends < job[c].got)
  BY ChunkDoes
<1>2. r \in RecType
  BY <1>1, <1>a, RecordsTyped
<1>3. r.flow = f /\ r.dir = d /\ r.data = Bytes(job[c].off, ends)
  BY DEF DataRec
<1>4. /\ job'[c].flow = f /\ job'[c].dir = d /\ job'[c].off = ends /\ job'[c].got = job[c].got
      /\ \A e \in Cpus \ {c} : pc'[e] = pc[e] /\ job'[e] = job[e]
  BY <1>0, <1>1, <1>a DEF JobType
<1>5. pc'[c] = IF ends < job[c].got THEN "chunk" ELSE "idle"
  BY <1>0, <1>1
<1>6. /\ \A g \in Flows, e \in Dirs : g # f \/ e # d => lost'[g][e] = lost[g][e]
      /\ lost' = lost \/ lost'[f][d] = TRUE
  BY <1>0, <1>1, <1>a
<1>b. Chunking(c, f, d) /\ \A e \in Cpus \ {c} : ~ Chunking(e, f, d)
  BY <1>1 DEF Chunking, Order, OneCallback, Busy
<1>7. PICK ff \in Flows, dd \in Dirs, rr \in RecType, en \in Nat :
        ff = f /\ dd = d /\ rr = r /\ en = ends
  BY <1>1, <1>2, <1>a
<1> HIDE DEF f, d, r, ends
<1>8. ASSUME NEW g \in Flows, NEW e \in Dirs, g # f \/ e # d PROVE Wire(g, e)'
  <2>1. ~ Chunking(c, g, e) /\ ~ Chunking(c, g, e)'
    BY <1>4, <1>8 DEF Chunking, f, d
  <2>2. SameChunking(g, e)
    BY <1>4, <2>1 DEF SameChunking, Chunking
  <2>3. SameBytes(g, e)
    BY <1>1, <1>2, <1>3, <1>8 DEF SameBytes, DataIn
  <2>4. Wire(g, e)
    BY DEF WireKnown
  <2> QED
    BY <1>1, <1>6, <1>8, <2>2, <2>3, <2>4, WireFrame
<1>9. Wire(ff, dd)'
  <2> SUFFICES ASSUME ~ lost'[ff][dd] PROVE AtEveryRecord(ff, dd)' /\ UpToCallback(ff, dd)'
    BY DEF Wire
  <2>1. lost' = lost /\ ~ lost[ff][dd]
    BY <1>6, <1>7
  <2>2. written' = Append(written, rr)
    BY <1>0, <1>1, <1>7, <1>a, <2>1
  <2>3. AtEveryRecord(ff, dd) /\ UpToCallback(ff, dd)
    BY <2>1 DEF WireKnown, Wire
  <2>4. PICK a \in Nat, b \in Nat : a = job[c].off /\ b = job[c].got
    BY <1>a
  <2>5. Len(DataOf(written, ff, dd)) = a /\ a <= b /\ b = sent[ff][dd]
    BY <1>7, <1>b, <2>3, <2>4 DEF UpToCallback
  <2>6. a <= en /\ en <= b
    <3>1. MaxChunk \in Nat /\ en = IF b - a > MaxChunk THEN a + MaxChunk ELSE b
      BY <1>7, <2>4, FlowsAssumption DEF ChunkEnds, ends
    <3> QED
      BY <2>5, <3>1
  <2>7. DataOf(written, ff, dd) = Bytes(0, a)
    <3>1. Len(written) \in 0 .. Len(written) /\ SubSeq(written, 1, Len(written)) = written
      BY <1>0, WholeAndNothing
    <3>2. Streamed(written, ff, dd)
      BY <2>3, <3>1 DEF AtEveryRecord
    <3> QED
      BY <2>5, <3>2 DEF Streamed
  <2>8. DataOf(written', ff, dd) = Bytes(0, en)
    <3>1. DataIn(rr, ff, dd) = Bytes(a, en)
      BY <1>3, <1>7, <2>4 DEF DataIn
    <3>2. DataOf(written', ff, dd) = DataOf(written, ff, dd) \o DataIn(rr, ff, dd)
      BY <1>0, <2>2, DataOfFacts
    <3> QED
      BY <2>6, <2>7, <3>1, <3>2, BytesJoin, ZenonT(30)
  <2>9. Len(DataOf(written', ff, dd)) = en
    BY <2>6, <2>8, BytesJoin
  <2>10. AtEveryRecord(ff, dd)'
    <3>1. Streamed(written, ff, dd)'
      BY <1>1, <2>5, <2>6, <2>8, <2>9 DEF Streamed
    <3>2. /\ \A n \in 0 .. Len(written) : SubSeq(written', 1, n) = SubSeq(written, 1, n)
          /\ SubSeq(written', 1, Len(written) + 1) = written' /\ Len(written') = Len(written) + 1
          /\ Len(written) \in Nat
      BY <1>0, <2>2, PrefixesGrow
    <3>3. ASSUME NEW n \in 0 .. Len(written) + 1 PROVE Streamed(SubSeq(written, 1, n), ff, dd)'
      <4>1. CASE n \in 0 .. Len(written)
        <5>1. Streamed(SubSeq(written, 1, n), ff, dd)
          BY <2>3, <4>1 DEF AtEveryRecord
        <5> QED
          BY <1>1, <3>2, <4>1, <5>1 DEF Streamed
      <4>2. CASE n = Len(written) + 1
        BY <3>1, <3>2, <4>2
      <4>3. n \in 0 .. Len(written) \/ n = Len(written) + 1
        BY <3>2
      <4> QED
        BY <4>1, <4>2, <4>3
    <3> QED
      BY <3>2, <3>3 DEF AtEveryRecord
  <2>11. UpToCallback(ff, dd)'
    <3>1. \A e \in Cpus \ {c} : ~ Chunking(e, ff, dd)'
      BY <1>4, <1>7, <1>b DEF Chunking
    <3>2. CASE en < b
      <4>1. Chunking(c, ff, dd)'
        BY <1>4, <1>5, <1>7, <2>4, <3>2 DEF Chunking
      <4>2. job'[c].off = en /\ job'[c].got = b
        BY <1>4, <1>7, <2>4
      <4> QED
        BY <1>1, <2>5, <2>6, <2>9, <3>1, <4>1, <4>2 DEF UpToCallback
    <3>3. CASE ~ (en < b)
      <4>1. ~ Chunking(c, ff, dd)'
        BY <1>5, <1>7, <2>4, <3>3 DEF Chunking
      <4>2. en = b
        BY <2>6, <3>3
      <4> QED
        BY <1>1, <2>5, <2>9, <3>1, <4>1, <4>2 DEF UpToCallback
    <3> QED
      BY <3>2, <3>3
  <2> QED
    BY <2>10, <2>11
<1> QED
  BY <1>7, <1>8, <1>9 DEF WireKnown
(* Every step of a callback keeps it.                                      *)
LEMMA CallbackWire ==
  ASSUME Typed, Order, WireKnown, NEW c \in Cpus, Callback(c)
  PROVE  WireKnown'
<1>0. pc \in [Cpus -> Places] /\ job \in [Cpus -> JobType] /\ job[c].flow \in Flows
  BY DEF Typed, CpuTyped, JobType
<1>a. ASSUME NEW p \in Places, pc[c] # "chunk", p # "chunk", pc' = [pc EXCEPT ![c] = p],
             \/ job' = job
             \/ \E j \in JobType : job' = [job EXCEPT ![c] = j],
             lost' = lost, sent' = sent,
             written' = written \/ \E r \in RecType : r.data = <<>> /\ written' = Append(written, r)
      PROVE  WireKnown'
  <2>1. pc'[c] # "chunk" /\ \A e \in Cpus \ {c} : pc'[e] = pc[e] /\ job'[e] = job[e]
    BY <1>0, <1>a
  <2> QED
    BY <1>a, <2>1, WireQuiet
<1>b. "open" \in Places /\ "close" \in Places /\ "idle" \in Places /\ "associate" \in Places
      /\ "count" \in Places /\ "uncount" \in Places
  BY DEF Places
<1>c. ASSUME pc' = pc, job' = job, lost' = lost, sent' = sent, written' = written, pc[c] = "idle"
      PROVE  WireKnown'
  BY <1>c, WireQuiet
<1>1. ASSUME NEW f \in Flows, NEW h \in BOOLEAN, FlowEstablished(c, f, h) PROVE WireKnown'
  <2>1. /\ pc[c] = "idle" /\ UNCHANGED <<sent, lost, written>>
        /\ \/ UNCHANGED <<pc, job>>
           \/ \E j \in JobType : pc' = [pc EXCEPT ![c] = "open"] /\ job' = [job EXCEPT ![c] = j]
    BY <1>1, EstablishedDoes DEF Starts
  <2> QED
    BY <1>a, <1>b, <1>c, <2>1
<1>2. ASSUME NEW f \in Flows, FlowDeleted(c, f) PROVE WireKnown'
  <2>1. /\ pc[c] = "idle" /\ UNCHANGED <<sent, lost, written>>
        /\ \/ UNCHANGED <<pc, job>>
           \/ \E j \in JobType : pc' = [pc EXCEPT ![c] = "close"] /\ job' = [job EXCEPT ![c] = j]
    BY <1>2, DeletedDoes DEF Starts
  <2> QED
    BY <1>a, <1>b, <1>c, <2>1
<1>3. CASE WriteOpen(c) \/ WriteClose(c)
  <2>1. PICK t \in {"OPEN", "CLOSE"}, p \in {"count", "associate", "uncount", "idle"} :
          /\ pc[c] \in {"open", "close"} /\ pc' = [pc EXCEPT ![c] = p]
          /\ written' = written \/ written' = Append(written, ConnRec(t, job[c].flow))
          /\ UNCHANGED <<sent, lost, job>>
    BY <1>3, ConnDoes
  <2>2. PICK r \in RecType : r = ConnRec(t, job[c].flow) /\ r.data = <<>>
    BY <1>0, RecordsTyped DEF ConnRec
  <2> QED
    BY <1>a, <1>b, <2>1, <2>2
<1>4. CASE CountOpen(c) \/ CountClose(c)
  <2>1. PICK p \in {"associate", "idle"} : /\ pc[c] \in {"count", "uncount"} /\ pc' = [pc EXCEPT ![c] = p]
                                           /\ UNCHANGED <<sent, lost, written, job>>
    BY <1>4, CountDoes
  <2> QED
    BY <1>a, <1>b, <2>1
<1>5. CASE Associate(c)
  <2>1. /\ pc[c] = "associate" /\ pc' = [pc EXCEPT ![c] = "idle"]
        /\ UNCHANGED <<sent, lost, written, job>>
    BY <1>5, AssociateDoes
  <2> QED
    BY <1>a, <1>b, <2>1
<1> QED
  BY <1>1, <1>2, <1>3, <1>4, <1>5, IndicationWire, ChunkWire DEF Callback

(* The app and the ioctls leave the wire and the ring alone.               *)
LEMMA WireStill == WireKnown /\ UNCHANGED <<sent, lost, written, pc, job>> => WireKnown'
BY DEF WireKnown, Wire, AtEveryRecord, Streamed, UpToCallback, Chunking

(* Every step keeps it.                                                    *)
LEMMA WireStep == Typed /\ Order /\ WireKnown /\ [Next]_vars => WireKnown'
<1> SUFFICES ASSUME Typed, Order, WireKnown, [Next]_vars PROVE WireKnown'
  OBVIOUS
<1>1. ASSUME NEW p \in Clients, (\E on \in BOOLEAN : SwitchCapture(p, on)) \/ CopySwitch(p)
      PROVE  WireKnown'
  BY <1>1, SwitchFrame, WireStill DEF ringVars, wfpVars
<1>2. CASE AppStep
  BY <1>2, AppFrame, WireStill DEF ringVars, wfpVars
<1>3. CASE UNCHANGED vars
  BY <1>3, WireStill DEF vars, ringVars, wfpVars
<1> QED
  BY <1>1, <1>2, <1>3, CallbackWire DEF Next, AppStep

(* Initially nothing was sent.                                             *)
LEMMA WireInit == Init => WireKnown
<1> SUFFICES ASSUME Init, NEW f \in Flows, NEW d \in Dirs PROVE AtEveryRecord(f, d) /\ UpToCallback(f, d)
  BY DEF WireKnown, Wire
<1>1. /\ written = <<>> /\ sent[f][d] = 0 /\ \A c \in Cpus : pc[c] = "idle"
  BY DEF Init
<1>2. <<>> \in Seq(RecType) /\ Len(<<>>) = 0
  OBVIOUS
<1>3. DataOf(<<>>, f, d) = <<>>
  BY <1>2, DataOfFacts
<1>4. Bytes(0, 0) = <<>>
  BY DEF Bytes
<1>5. \A n \in 0 .. Len(written) : SubSeq(written, 1, n) = <<>>
  <2>1. \A n \in 0 .. Len(written) : n = 0
    BY <1>1, <1>2
  <2>2. SubSeq(written, 1, 0) = <<>>
    BY <1>1, <1>2, WholeAndNothing
  <2> QED
    BY <2>1, <2>2
<1>6. AtEveryRecord(f, d)
  <2>1. PICK none : none = <<>> /\ Len(none) = 0
    BY <1>2
  <2>2. none = Bytes(0, Len(none)) /\ Len(none) <= sent[f][d]
    BY <1>1, <1>4, <2>1
  <2>3. DataOf(none, f, d) = none
    BY <1>3, <2>1
  <2>4. Streamed(none, f, d)
    BY <2>2, <2>3 DEF Streamed
  <2> QED
    BY <1>5, <2>1, <2>4 DEF AtEveryRecord
<1>7. UpToCallback(f, d)
  BY <1>1, <1>2, <1>3 DEF UpToCallback, Chunking
<1> QED
  BY <1>6, <1>7

(* End to end, from KndClassifyStream to the flow shown: of a direction of *)
(* which neither the copy nor the ring lost a byte, and with nothing       *)
(* cleared, the payload shown is the stream from its first byte, for any   *)
(* chunk size, cap and interleaving.                                       *)
THEOREM WireShown == Spec => []WireFaithful
<1>1. Spec => [](Typed /\ Order /\ Shown /\ WireKnown)
  BY TypedInit, TypedStep, OrderInit, OrderStep, ShownInit, ShownStep, WireInit, WireStep, PTL DEF Spec
<1>2. Typed /\ Order /\ Shown /\ WireKnown => WireFaithful
  <2> SUFFICES ASSUME Typed, Shown, WireKnown, NEW f \in DOMAIN model, NEW d \in Dirs,
                      clears = 0, ~ lost[f][d]
               PROVE  /\ model[f].payload[d] = Bytes(0, Len(model[f].payload[d]))
                      /\ Len(model[f].payload[d]) <= sent[f][d]
    BY DEF WireFaithful
  <2>0. /\ written \in Seq(RecType) /\ read \in 0 .. Len(written) /\ seen \in Seq(RecType)
        /\ payloadCap \in Nat
    BY DEF Typed, RingTyped, AppTyped
  <2>1. f \in Flows /\ ShownWell(f, model[f])
    BY KnownShown
  <2>2. seen = SubSeq(written, 1, read)
    <3>1. /\ Len(seen) = read /\ \A i \in DOMAIN seen : seen[i] = written[read - Len(seen) + i]
      BY DEF Shown, SeenKnown
    <3>2. /\ read \in Nat /\ Len(written) \in Nat /\ DOMAIN seen = 1 .. read
      BY <2>0, <3>1
    <3>3. \A i \in 1 .. read : read - Len(seen) + i = i
      BY <3>1, <3>2
    <3>4. /\ SubSeq(written, 1, read) \in Seq(RecType) /\ Len(SubSeq(written, 1, read)) = read
          /\ \A i \in 1 .. read : SubSeq(written, 1, read)[i] = written[i]
      BY <2>0
    <3>5. \A i \in 1 .. read : seen[i] = SubSeq(written, 1, read)[i]
      BY <3>1, <3>2, <3>3, <3>4
    <3> QED
      BY <2>0, <3>1, <3>4, <3>5, SameElements
  <2>3. Streamed(seen, f, d)
    BY <2>0, <2>1, <2>2 DEF WireKnown, Wire, AtEveryRecord
  <2>4. sent[f][d] \in Nat
    BY <2>1 DEF Typed, WfpTyped
  <2>5. PICK all \in Seq(Nat) : all = DataOf(seen, f, d)
    BY <2>0, DataOfFacts
  <2>6. PICK b \in Nat : b = Len(all) /\ all = Bytes(0, b) /\ b <= sent[f][d]
    BY <2>3, <2>5 DEF Streamed
  <2>7. PICK k \in Nat : k = Least(b, payloadCap) /\ k <= b
    BY <2>0 DEF Least
  <2>8. model[f].payload[d] = SubSeq(all, 1, k)
    BY <2>1, <2>5, <2>6, <2>7 DEF ShownWell, PayloadFits
  <2>9. model[f].payload[d] = Bytes(0, k) /\ Len(Bytes(0, k)) = k
    BY <2>6, <2>7, <2>8, BytesJoin, ZenonT(30)
  <2> QED
    BY <2>4, <2>6, <2>7, <2>9
<1> QED
  BY <1>1, <1>2, PTL
=============================================================================
