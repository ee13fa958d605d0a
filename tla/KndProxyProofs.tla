--------------------------- MODULE KndProxyProofs ---------------------------
(***************************************************************************)
(* Proofs about KndMitmProxy, for every number of connections, starts and  *)
(* reads: stop() leaves nothing running, and the records of a connection   *)
(* are balanced however it ends.                                           *)
(***************************************************************************)
EXTENDS KndProxy, FiniteSetTheorems, TLAPS

-----------------------------------------------------------------------------
(* The inductive invariant.                                                *)

Places  == {"none", "enter", "open", "close", "cleanup", "finished"} \cup DOMAIN After \cup Relay
RecType == [conn : Conns, type : {"OPEN", "DATA", "CLOSE"}]

(* The types, but for the bound on active_, which is a consequence.        *)
Typed ==
  /\ ui \in {"idle", "close", "joinListener", "swap", "join"}
  /\ running \in BOOLEAN /\ listenOpen \in BOOLEAN
  /\ listener \in {"none", "loop", "select", "accept", "exited"}
  /\ connThreads \subseteq Conns /\ joining \subseteq Conns
  /\ pc \in [Conns -> Places] /\ done \in [Conns -> BOOLEAN]
  /\ queue \in Seq(RecType) /\ fed \in Seq(RecType)
  /\ starts \in Nat /\ reads \in Nat

(* The listener thread exists from start() until stop() has joined it, the *)
(* socket from start() until stop() has closed it.                         *)
UiPhases ==
  /\ running => ui = "idle" /\ listenOpen
  /\ listenOpen => running \/ ui = "close"
  /\ listener = "none" <=> ui \in {"swap", "join"} \/ (ui = "idle" /\ ~ running)

(* Every connection thread that runs is one stop() will join, or joins.    *)
ThreadsKnown ==
  /\ joining # {} => ui = "join"
  /\ ui = "join" \/ (ui = "idle" /\ ~ running) => connThreads = {}
  /\ \A k \in Conns : pc[k] \notin {"none", "finished"} => k \in connThreads \cup joining

(* active_ counts the connections between its two updates.                 *)
Inside == {k \in Conns : pc[k] \notin {"none", "enter", "finished"}}
ActiveCounted == IsFiniteSet(Inside) /\ active = Cardinality(Inside)

(* Before the relay a connection has recorded nothing; behind it, its      *)
(* OPEN has its CLOSE.                                                     *)
Silent == {"none", "enter", "open"} \cup DOMAIN After
RecordsKnown ==
  \A k \in Conns :
    /\ pc[k] \in Silent => ~ Recorded(k, "OPEN")
    /\ pc[k] = "cleanup" => (Recorded(k, "OPEN") <=> Recorded(k, "CLOSE"))

ProxyInv ==
  Typed /\ UiPhases /\ ThreadsKnown /\ ActiveCounted /\ RecordsKnown /\ RecordsWellFormed

(* The places of handleConn by name.                                       *)
LEMMA PlacesAre ==
  /\ DOMAIN After = {"peek", "hello", "preamble", "mint", "tlsClient", "connect", "tlsServer"}
  /\ \A at \in DOMAIN After : After[at] \subseteq Silent \ {"none", "enter"}
BY DEF After, Silent

-----------------------------------------------------------------------------
(* Before the first start() there is no thread and no record.              *)
LEMMA ProxyInit == Init => ProxyInv
<1> SUFFICES ASSUME Init PROVE ProxyInv
  OBVIOUS
<1>1. /\ ui = "idle" /\ running = FALSE /\ listenOpen = FALSE /\ listener = "none"
      /\ connThreads = {} /\ joining = {} /\ active = 0 /\ queue = <<>> /\ fed = <<>>
      /\ starts = 0 /\ reads = 0
  BY DEF Init
<1>2. pc = [k \in Conns |-> "none"] /\ done = [k \in Conns |-> FALSE]
  BY DEF Init
<1>3. AllRecords = <<>>
  BY <1>1 DEF AllRecords
<1>4. Typed
  <2>1. running \in BOOLEAN /\ listenOpen \in BOOLEAN /\ done \in [Conns -> BOOLEAN]
    BY <1>1, <1>2
  <2>2. pc \in [Conns -> Places]
    BY <1>2 DEF Places
  <2>3. queue \in Seq(RecType) /\ fed \in Seq(RecType)
    BY <1>1
  <2> QED
    BY <1>1, <2>1, <2>2, <2>3 DEF Typed
<1>5. UiPhases /\ ThreadsKnown
  BY <1>1, <1>2 DEF UiPhases, ThreadsKnown
<1>6. ActiveCounted
  <2>1. Inside = {}
    BY <1>2 DEF Inside
  <2> QED
    BY <1>1, <2>1, FS_EmptySet DEF ActiveCounted
<1>7. \A k, t : ~ Recorded(k, t)
  BY <1>3 DEF Recorded
<1>8. RecordsKnown /\ RecordsWellFormed
  BY <1>2, <1>3, <1>7 DEF RecordsKnown, RecordsWellFormed, Relay
<1> QED
  BY <1>4, <1>5, <1>6, <1>8 DEF ProxyInv

-----------------------------------------------------------------------------
(* What a step of handleConn is to the others: its own place moves on, and *)
(* nothing of the UI thread or the listener changes.                       *)
LEMMA ConnMoves ==
  ASSUME ProxyInv, NEW k \in Conns, HandleConn(k)
  PROVE  /\ UNCHANGED <<ui, running, listenOpen, joining, starts, listener, connThreads, fed>>
         /\ pc[k] \notin {"none", "finished"}
         /\ \E at \in Places \ {"none", "enter"} : pc' = [pc EXCEPT ![k] = at]
<1>0. pc \in [Conns -> Places]
  BY DEF ProxyInv, Typed
<1>1. UNCHANGED <<ui, running, listenOpen, joining, starts, listener, connThreads, fed>>
  BY DEF HandleConn, Local, Enter, Open, RelayLoop, RelayIdle, Close, Cleanup, Setup, RelayRead,
         RelayWritten, uiVars
<1>2. CASE Setup(k)
  <2>1. PICK next \in After[pc[k]] \cup {"cleanup"} : pc' = [pc EXCEPT ![k] = next]
    BY <1>2 DEF Setup, Goto
  <2>2. pc[k] \in DOMAIN After
    BY <1>2 DEF Setup
  <2> QED
    BY <1>1, <2>1, <2>2, PlacesAre DEF Places, Silent
<1>3. CASE RelayIdle(k)
  <2>1. /\ pc[k] \in {"readClient", "readServer"}
        /\ \E at \in {"relay", "close", "readServer"} : pc' = [pc EXCEPT ![k] = at]
    BY <1>3 DEF RelayIdle, Goto
  <2> QED
    BY <1>1, <2>1 DEF Places, Relay
<1>4. CASE Enter(k) \/ Open(k) \/ RelayLoop(k) \/ Close(k) \/ Cleanup(k) \/ RelayRead(k)
             \/ RelayWritten(k)
  <2>1. /\ pc[k] \notin {"none", "finished"}
        /\ \E at \in {"peek", "relay", "readClient", "close", "cleanup", "finished", "writeServer",
                      "writeClient", "readServer"} : pc' = [pc EXCEPT ![k] = at]
    BY <1>4 DEF Enter, Open, RelayLoop, Close, Cleanup, RelayRead, RelayWritten, Goto
  <2> QED
    BY <1>1, <2>1, PlacesAre DEF Places, Relay
<1> QED
  BY <1>2, <1>3, <1>4 DEF HandleConn, Local

(* A connection thread appends at most one record of its own to queue_.    *)
LEMMA ConnRecords ==
  ASSUME NEW k \in Conns, HandleConn(k)
  PROVE  \/ queue' = queue
         \/ \E t \in {"OPEN", "DATA", "CLOSE"} : queue' = Append(queue, Rec(k, t))
BY DEF HandleConn, Local, Enter, Open, RelayLoop, RelayIdle, Close, Cleanup, Setup, RelayRead,
       RelayWritten

(* done and the count of reads keep their types.                           *)
LEMMA ConnTypes ==
  ASSUME ProxyInv, NEW k \in Conns, HandleConn(k)
  PROVE  done' \in [Conns -> BOOLEAN] /\ reads' \in Nat
<1>0. done \in [Conns -> BOOLEAN] /\ reads \in Nat
  BY DEF ProxyInv, Typed
<1>1. reads' \in {reads, reads + 1}
  BY DEF HandleConn, Local, Enter, Open, RelayLoop, RelayIdle, Close, Cleanup, Setup, RelayRead,
         RelayWritten
<1>2. done' = done \/ \E b \in BOOLEAN : done' = [done EXCEPT ![k] = @ \/ b]
  BY DEF HandleConn, Local, Enter, Open, RelayLoop, RelayIdle, Close, Cleanup, Setup, RelayRead,
         RelayWritten
<1>3. done' \in [Conns -> BOOLEAN]
  BY <1>0, <1>2
<1> QED
  BY <1>0, <1>1, <1>3
-----------------------------------------------------------------------------
(* Types.                                                                  *)

(* Every variable keeps its type on every step of the three kinds of       *)
(* thread.                                                                 *)
LEMMA TypedStep == ProxyInv /\ [Next]_vars => Typed'
<1> SUFFICES ASSUME ProxyInv, [Next]_vars PROVE Typed'
  OBVIOUS
<1>0. Typed
  BY DEF ProxyInv
<1>1. /\ pc \in [Conns -> Places] /\ queue \in Seq(RecType) /\ fed \in Seq(RecType)
      /\ connThreads \subseteq Conns /\ joining \subseteq Conns /\ starts \in Nat
  BY <1>0 DEF Typed
<1>2. CASE Start
  <2>1. /\ listenOpen' = TRUE /\ running' = TRUE /\ listener' = "loop" /\ starts' = starts + 1
        /\ UNCHANGED <<ui, joining, pc, done, reads, connThreads, queue, fed>>
    BY <1>2 DEF Start, connVars
  <2>2. listenOpen' \in BOOLEAN /\ running' \in BOOLEAN
    BY <2>1
  <2>3. starts' \in Nat
    BY <1>1, <2>1
  <2> QED
    BY <1>0, <2>1, <2>2, <2>3 DEF Typed
<1>3. CASE StopBegin \/ StopClose
  <2>1. /\ running' \in {running, FALSE} /\ listenOpen' \in {listenOpen, FALSE}
        /\ ui' \in {"close", "joinListener"}
        /\ UNCHANGED <<joining, starts, listener, pc, done, reads, connThreads, queue, fed>>
    BY <1>3 DEF StopBegin, StopClose, connVars
  <2>2. running \in BOOLEAN /\ listenOpen \in BOOLEAN
    BY <1>0 DEF Typed
  <2>3. listenOpen' \in BOOLEAN /\ running' \in BOOLEAN
    BY <2>1, <2>2
  <2> QED
    BY <1>0, <2>1, <2>3 DEF Typed
<1>4. CASE StopJoinListener \/ StopSwap \/ StopJoin \/ ListenStep
  <2>1. UNCHANGED <<running, listenOpen, starts, pc, done, reads, queue, fed>>
    BY <1>4 DEF StopJoinListener, StopSwap, StopJoin, ListenStep, ListenLoop, ListenSelect,
                ListenFails, connVars, uiVars
  <2>2. /\ ui' \in {ui, "swap", "join", "idle"}
        /\ listener' \in {listener, "none", "loop", "select", "accept", "exited"}
        /\ joining' \in {joining, connThreads, {}} /\ connThreads' \in {connThreads, {}}
    BY <1>4 DEF StopJoinListener, StopSwap, StopJoin, ListenStep, ListenLoop, ListenSelect,
                ListenFails, connVars, uiVars
  <2> QED
    BY <1>0, <2>1, <2>2 DEF Typed
<1>5. CASE Drain
  <2>1. /\ fed' = fed \o queue /\ queue' = <<>>
        /\ UNCHANGED <<ui, running, listenOpen, joining, starts, pc, done, reads, listener,
                       connThreads>>
    BY <1>5 DEF Drain, uiVars, connVars
  <2>2. fed' \in Seq(RecType) /\ queue' \in Seq(RecType)
    BY <1>1, <2>1
  <2> QED
    BY <1>0, <2>1, <2>2 DEF Typed
<1>6. ASSUME NEW k \in Conns, ListenAccept(k) PROVE Typed'
  <2>1. /\ pc' = [pc EXCEPT ![k] = "enter"] /\ connThreads' = connThreads \cup {k}
        /\ listener' = "loop"
        /\ UNCHANGED <<ui, running, listenOpen, joining, starts, done, reads, queue, fed>>
    BY <1>6 DEF ListenAccept, uiVars
  <2>2. pc' \in [Conns -> Places]
    BY <1>1, <2>1 DEF Places
  <2> QED
    BY <1>0, <2>1, <2>2 DEF Typed
<1>7. ASSUME NEW k \in Conns, HandleConn(k) PROVE Typed'
  <2>1. pc' \in [Conns -> Places]
    BY <1>1, <1>7, ConnMoves
  <2>2. \A t \in {"OPEN", "DATA", "CLOSE"} : Rec(k, t) \in RecType
    BY DEF Rec, RecType
  <2>3. queue' \in Seq(RecType)
    <3>1. \A r \in RecType : Append(queue, r) \in Seq(RecType)
      BY <1>1
    <3>2. queue' = queue \/ \E r \in RecType : queue' = Append(queue, r)
      BY <1>7, <2>2, ConnRecords
    <3> QED
      BY <1>1, <3>1, <3>2
  <2>4. done' \in [Conns -> BOOLEAN] /\ reads' \in Nat
    BY <1>7, ConnTypes
  <2>5. UNCHANGED <<ui, running, listenOpen, joining, starts, listener, connThreads, fed>>
    BY <1>7, ConnMoves
  <2> QED
    BY <1>0, <2>1, <2>3, <2>4, <2>5 DEF Typed
<1>8. CASE UNCHANGED vars
  BY <1>0, <1>8 DEF Typed, vars, uiVars, connVars
<1> QED
  BY <1>2, <1>3, <1>4, <1>5, <1>6, <1>7, <1>8 DEF Next, UiStep

-----------------------------------------------------------------------------
(* Threads.                                                                *)

(* The phases of stop() and the threads it joins, after any step: the      *)
(* listener is joined before conn_threads_ is swapped out, so no thread is *)
(* added to it afterwards.                                                 *)
LEMMA ThreadsStep == ProxyInv /\ [Next]_vars => UiPhases' /\ ThreadsKnown'
<1> SUFFICES ASSUME ProxyInv, [Next]_vars PROVE UiPhases' /\ ThreadsKnown'
  OBVIOUS
<1>0. UiPhases /\ ThreadsKnown /\ pc \in [Conns -> Places]
  BY DEF ProxyInv, Typed
<1>1. CASE Start
  BY <1>0, <1>1 DEF Start, UiPhases, ThreadsKnown, connVars
<1>2. CASE StopBegin
  BY <1>0, <1>2 DEF StopBegin, UiPhases, ThreadsKnown, connVars
<1>3. CASE StopClose
  BY <1>0, <1>3 DEF StopClose, UiPhases, ThreadsKnown, connVars
<1>4. CASE StopJoinListener
  BY <1>0, <1>4 DEF StopJoinListener, UiPhases, ThreadsKnown, connVars
<1>5. CASE StopSwap
  BY <1>0, <1>5 DEF StopSwap, UiPhases, ThreadsKnown, connVars
<1>6. CASE StopJoin
  BY <1>0, <1>6 DEF StopJoin, UiPhases, ThreadsKnown, connVars
<1>7. CASE Drain \/ UNCHANGED vars
  BY <1>0, <1>7 DEF Drain, UiPhases, ThreadsKnown, uiVars, connVars, vars
<1>8. CASE ListenStep
  <2>1. listener # "none" /\ listener' # "none"
        /\ UNCHANGED <<ui, running, listenOpen, joining, pc, connThreads>>
    BY <1>8 DEF ListenStep, ListenLoop, ListenSelect, ListenFails, uiVars, connVars
  <2> QED
    BY <1>0, <2>1 DEF UiPhases, ThreadsKnown
<1>9. ASSUME NEW k \in Conns, ListenAccept(k) PROVE UiPhases' /\ ThreadsKnown'
  <2>1. /\ listener = "accept" /\ pc' = [pc EXCEPT ![k] = "enter"]
        /\ connThreads' = connThreads \cup {k} /\ listener' = "loop"
        /\ UNCHANGED <<ui, running, listenOpen, joining>>
    BY <1>9 DEF ListenAccept, uiVars
  <2> QED
    BY <1>0, <2>1 DEF UiPhases, ThreadsKnown
<1>10. ASSUME NEW k \in Conns, HandleConn(k) PROVE UiPhases' /\ ThreadsKnown'
  <2>1. /\ UNCHANGED <<ui, running, listenOpen, joining, listener, connThreads>>
        /\ pc[k] \notin {"none", "finished"}
        /\ \E at \in Places : pc' = [pc EXCEPT ![k] = at]
    BY <1>10, ConnMoves
  <2> QED
    BY <1>0, <2>1 DEF UiPhases, ThreadsKnown
<1> QED
  BY <1>1, <1>2, <1>3, <1>4, <1>5, <1>6, <1>7, <1>8, <1>9, <1>10 DEF Next, UiStep

-----------------------------------------------------------------------------
(* The count.                                                              *)

(* active_ changes with the connections inside and only then: on entry and *)
(* on clean-up, whichever way handleConn got there.                        *)
LEMMA CountStep == ProxyInv /\ [Next]_vars => ActiveCounted'
<1> SUFFICES ASSUME ProxyInv, [Next]_vars PROVE ActiveCounted'
  OBVIOUS
<1>0. ActiveCounted /\ pc \in [Conns -> Places]
  BY DEF ProxyInv, Typed
<1>1. CASE active' = active /\ Inside' = Inside
  BY <1>0, <1>1 DEF ActiveCounted
<1>2. CASE Start \/ StopBegin \/ UiStep \/ ListenStep \/ UNCHANGED vars
  <2>1. UNCHANGED <<active, pc>>
    BY <1>2 DEF Start, StopBegin, UiStep, StopClose, StopJoinListener, StopSwap, StopJoin, Drain,
                ListenStep, ListenLoop, ListenSelect, ListenFails, connVars, vars
  <2> QED
    BY <1>1, <2>1 DEF Inside
<1>3. ASSUME NEW k \in Conns, ListenAccept(k) PROVE ActiveCounted'
  <2>1. pc[k] = "none" /\ pc' = [pc EXCEPT ![k] = "enter"] /\ active' = active
    BY <1>3 DEF ListenAccept
  <2>2. Inside' = Inside
    BY <1>0, <2>1 DEF Inside
  <2> QED
    BY <1>1, <2>1, <2>2
<1>4. ASSUME NEW k \in Conns, Enter(k) PROVE ActiveCounted'
  <2>1. pc[k] = "enter" /\ pc' = [pc EXCEPT ![k] = "peek"] /\ active' = active + 1
    BY <1>4 DEF Enter, Goto
  <2>2. Inside' = Inside \cup {k} /\ k \notin Inside
    BY <1>0, <2>1 DEF Inside
  <2> QED
    BY <1>0, <2>1, <2>2, FS_AddElement DEF ActiveCounted
<1>5. ASSUME NEW k \in Conns, Cleanup(k) PROVE ActiveCounted'
  <2>1. pc[k] = "cleanup" /\ pc' = [pc EXCEPT ![k] = "finished"] /\ active' = active - 1
    BY <1>5 DEF Cleanup, Goto
  <2>2. Inside' = Inside \ {k} /\ k \in Inside
    BY <1>0, <2>1 DEF Inside
  <2> QED
    BY <1>0, <2>1, <2>2, FS_RemoveElement DEF ActiveCounted
<1>6. ASSUME NEW k \in Conns, HandleConn(k), ~ Enter(k), ~ Cleanup(k) PROVE ActiveCounted'
  <2>1. active' = active /\ pc[k] # "enter"
    BY <1>6, PlacesAre DEF HandleConn, Local, Open, RelayLoop, RelayIdle, Close, Setup, RelayRead,
                           RelayWritten
  <2>2. /\ pc[k] \notin {"none", "finished"}
        /\ \E at \in Places \ {"none", "enter"} : pc' = [pc EXCEPT ![k] = at]
    BY <1>6, ConnMoves
  <2>3. pc'[k] # "finished"
    BY <1>0, <1>6, PlacesAre DEF HandleConn, Local, Open, RelayLoop, RelayIdle, Close, Setup,
                                 RelayRead, RelayWritten, Goto, Silent
  <2>4. Inside' = Inside
    BY <1>0, <2>1, <2>2, <2>3 DEF Inside
  <2> QED
    BY <1>1, <2>1, <2>4
<1> QED
  BY <1>2, <1>3, <1>4, <1>5, <1>6 DEF Next
-----------------------------------------------------------------------------
(* The records.                                                            *)

(* What drain() and emit() do to all the records there are: nothing, and   *)
(* one more at the end.                                                    *)
LEMMA RecordsGrow ==
  ASSUME Typed
  PROVE  /\ AllRecords \in Seq(RecType)
         /\ UNCHANGED <<fed, queue>> => AllRecords' = AllRecords
         /\ Drain => AllRecords' = AllRecords
         /\ \A r \in RecType : queue' = Append(queue, r) /\ fed' = fed
                               => AllRecords' = Append(AllRecords, r)
<1>0. fed \in Seq(RecType) /\ queue \in Seq(RecType)
  BY DEF Typed
<1>1. AllRecords \in Seq(RecType)
  BY <1>0 DEF AllRecords
<1>2. UNCHANGED <<fed, queue>> => AllRecords' = AllRecords
  BY DEF AllRecords
<1>3. ASSUME Drain PROVE AllRecords' = AllRecords
  <2>1. fed' = fed \o queue /\ queue' = <<>>
    BY <1>3 DEF Drain
  <2>2. (fed \o queue) \o <<>> = fed \o queue
    BY <1>0
  <2> QED
    BY <2>1, <2>2 DEF AllRecords
<1>4. ASSUME NEW r \in RecType, queue' = Append(queue, r), fed' = fed
      PROVE  AllRecords' = Append(AllRecords, r)
  <2>1. fed \o Append(queue, r) = Append(fed \o queue, r)
    BY <1>0
  <2> QED
    BY <1>4, <2>1 DEF AllRecords
<1> QED
  BY <1>1, <1>2, <1>3, <1>4

(* Where a record appended is looked for.                                  *)
LEMMA AppendRecord ==
  ASSUME NEW s \in Seq(RecType), NEW r \in RecType
  PROVE  /\ DOMAIN Append(s, r) = DOMAIN s \cup {Len(s) + 1}
         /\ \A i \in DOMAIN s : Append(s, r)[i] = s[i] /\ i \in 1 .. Len(s)
         /\ Append(s, r)[Len(s) + 1] = r /\ Len(s) \in Nat
OBVIOUS

(* A record of connection k is new to k's records and to no others.        *)
LEMMA RecordedThen ==
  ASSUME Typed, NEW k \in Conns, NEW t \in {"OPEN", "DATA", "CLOSE"},
         AllRecords' = Append(AllRecords, Rec(k, t))
  PROVE  \A j, u : Recorded(j, u)' <=> Recorded(j, u) \/ (j = k /\ u = t)
<1>1. AllRecords \in Seq(RecType) /\ Rec(k, t) \in RecType
  BY RecordsGrow DEF Rec, RecType
<1>2. /\ DOMAIN AllRecords' = DOMAIN AllRecords \cup {Len(AllRecords) + 1}
      /\ \A i \in DOMAIN AllRecords : AllRecords'[i] = AllRecords[i]
      /\ AllRecords'[Len(AllRecords) + 1] = Rec(k, t)
  BY <1>1, AppendRecord
<1>3. \A j, u : Rec(j, u) = Rec(k, t) <=> j = k /\ u = t
  BY DEF Rec
<1> QED
  BY <1>2, <1>3 DEF Recorded

(* The records stay balanced when a connection says OPEN before the relay, *)
(* DATA in it, and CLOSE behind it.                                        *)
LEMMA RecordsStep == ProxyInv /\ [Next]_vars => RecordsKnown' /\ RecordsWellFormed'
<1> SUFFICES ASSUME ProxyInv, [Next]_vars PROVE RecordsKnown' /\ RecordsWellFormed'
  OBVIOUS
<1>0. /\ Typed /\ RecordsKnown /\ RecordsWellFormed /\ pc \in [Conns -> Places]
      /\ AllRecords \in Seq(RecType)
  BY RecordsGrow DEF ProxyInv, Typed
<1>1. ASSUME AllRecords' = AllRecords, pc' = pc PROVE RecordsKnown' /\ RecordsWellFormed'
  <2>1. \A j, u : Recorded(j, u)' <=> Recorded(j, u)
    BY <1>1 DEF Recorded
  <2> QED
    BY <1>0, <1>1, <2>1 DEF RecordsKnown, RecordsWellFormed
<1>2. CASE Start \/ StopBegin \/ UiStep \/ ListenStep \/ UNCHANGED vars
  <2>1. pc' = pc
    BY <1>2 DEF Start, StopBegin, UiStep, StopClose, StopJoinListener, StopSwap, StopJoin, Drain,
                ListenStep, ListenLoop, ListenSelect, ListenFails, connVars, vars
  <2>2. Drain \/ UNCHANGED <<fed, queue>>
    BY <1>2 DEF Start, StopBegin, UiStep, StopClose, StopJoinListener, StopSwap, StopJoin,
                ListenStep, ListenLoop, ListenSelect, ListenFails, vars
  <2> QED
    BY <1>0, <1>1, <2>1, <2>2, RecordsGrow
<1>3. ASSUME NEW k \in Conns, NEW at \in Places, pc' = [pc EXCEPT ![k] = at],
             AllRecords' = AllRecords,
             at \in Relay \cup {"close"} => pc[k] \in Relay \cup {"close"},
             at \in Silent => pc[k] \in Silent,
             at \in {"cleanup", "finished"} => pc[k] \in Silent \cup {"cleanup"}
      PROVE  RecordsKnown' /\ RecordsWellFormed'
  <2>1. \A j, u : Recorded(j, u)' <=> Recorded(j, u)
    BY <1>3 DEF Recorded
  <2>2. pc[k] \in Silent => ~ Recorded(k, "OPEN") /\ ~ Recorded(k, "CLOSE")
    <3>1. Recorded(k, "CLOSE") => Recorded(k, "OPEN")
      BY <1>0 DEF RecordsWellFormed, Recorded, Rec
    <3> QED
      BY <1>0, <3>1 DEF RecordsKnown
  <2>3. RecordsKnown'
    BY <1>0, <1>3, <2>1, <2>2 DEF RecordsKnown
  <2>4. \A j \in Conns :
          /\ pc'[j] \in Relay \cup {"close"} => Recorded(j, "OPEN") /\ ~ Recorded(j, "CLOSE")
          /\ pc'[j] = "finished" => (Recorded(j, "OPEN") <=> Recorded(j, "CLOSE"))
    BY <1>0, <1>3, <2>2 DEF RecordsKnown, RecordsWellFormed
  <2> QED
    BY <1>0, <1>3, <2>1, <2>3, <2>4 DEF RecordsWellFormed
<1>4. ASSUME NEW k \in Conns, ListenAccept(k) PROVE RecordsKnown' /\ RecordsWellFormed'
  <2>1. pc[k] = "none" /\ pc' = [pc EXCEPT ![k] = "enter"] /\ UNCHANGED <<fed, queue>>
    BY <1>4 DEF ListenAccept
  <2>2. AllRecords' = AllRecords
    BY <1>0, <2>1, RecordsGrow
  <2> QED
    BY <1>3, <2>1, <2>2, PlacesAre DEF Silent, Relay, Places
<1>5. ASSUME NEW k \in Conns, Enter(k) \/ Setup(k) \/ RelayLoop(k) \/ RelayIdle(k)
                              \/ RelayWritten(k) \/ Cleanup(k)
      PROVE  RecordsKnown' /\ RecordsWellFormed'
  <2>1. UNCHANGED <<fed, queue>>
    BY <1>5 DEF Enter, Setup, RelayLoop, RelayIdle, RelayWritten, Cleanup
  <2>2. AllRecords' = AllRecords
    BY <1>0, <2>1, RecordsGrow
  <2>3. \E at \in Places : /\ pc' = [pc EXCEPT ![k] = at]
                           /\ at \in Relay \cup {"close"} => pc[k] \in Relay \cup {"close"}
                           /\ at \in Silent => pc[k] \in Silent
                           /\ at \in {"cleanup", "finished"} => pc[k] \in Silent \cup {"cleanup"}
    <3>1. CASE Setup(k)
      <4>1. PICK at \in After[pc[k]] \cup {"cleanup"} : pc' = [pc EXCEPT ![k] = at]
        BY <3>1 DEF Setup, Goto
      <4>2. pc[k] \in DOMAIN After
        BY <3>1 DEF Setup
      <4> QED
        BY <4>1, <4>2, PlacesAre DEF Places, Silent, Relay
    <3>2. CASE RelayIdle(k)
      <4>1. /\ pc[k] \in {"readClient", "readServer"}
            /\ \E at \in {"relay", "close", "readServer"} : pc' = [pc EXCEPT ![k] = at]
        BY <3>2 DEF RelayIdle, Goto
      <4> QED
        BY <4>1, PlacesAre DEF Places, Relay, Silent
    <3>3. CASE Enter(k)
      BY <3>3, PlacesAre DEF Enter, Goto, Places, Silent, Relay
    <3>4. CASE Cleanup(k)
      BY <3>4, PlacesAre DEF Cleanup, Goto, Places, Silent, Relay
    <3>5. CASE RelayLoop(k) \/ RelayWritten(k)
      <4>1. /\ pc[k] \in Relay
            /\ \E at \in {"close", "readClient", "readServer"} : pc' = [pc EXCEPT ![k] = at]
        BY <3>5 DEF RelayLoop, RelayWritten, Goto, Relay
      <4> QED
        BY <4>1, PlacesAre DEF Places, Relay, Silent
    <3> QED
      BY <1>5, <3>1, <3>2, <3>3, <3>4, <3>5
  <2> QED
    BY <1>3, <2>2, <2>3
<1>6. ASSUME NEW k \in Conns, NEW t \in {"OPEN", "DATA", "CLOSE"}, NEW at \in Places,
             AllRecords' = Append(AllRecords, Rec(k, t)), pc' = [pc EXCEPT ![k] = at],
             IF t = "OPEN" THEN pc[k] \in Silent ELSE pc[k] \in Relay \cup {"close"},
             IF t = "CLOSE" THEN at = "cleanup" ELSE at \in Relay
      PROVE  RecordsKnown' /\ RecordsWellFormed'
  <2>1. \A j, u : Recorded(j, u)' <=> Recorded(j, u) \/ (j = k /\ u = t)
    BY <1>0, <1>6, RecordedThen
  <2>2. /\ DOMAIN AllRecords' = DOMAIN AllRecords \cup {Len(AllRecords) + 1}
        /\ \A i \in DOMAIN AllRecords : AllRecords'[i] = AllRecords[i] /\ i \in 1 .. Len(AllRecords)
        /\ AllRecords'[Len(AllRecords) + 1] = Rec(k, t) /\ Len(AllRecords) \in Nat
    <3>1. Rec(k, t) \in RecType
      BY DEF Rec, RecType
    <3> QED
      BY <1>0, <1>6, <3>1, AppendRecord
  <2>3. /\ ~ Recorded(k, "CLOSE")
        /\ IF t = "OPEN" THEN ~ Recorded(k, "OPEN") ELSE Recorded(k, "OPEN")
    <3>1. Recorded(k, "CLOSE") => Recorded(k, "OPEN")
      BY <1>0 DEF RecordsWellFormed, Recorded, Rec
    <3> QED
      BY <1>0, <1>6, <3>1 DEF RecordsKnown, RecordsWellFormed
  <2>4. RecordsKnown'
    BY <1>0, <1>6, <2>1, <2>3, PlacesAre DEF RecordsKnown, Silent, Relay
  <2>5. (\A i \in DOMAIN AllRecords : Recorded(AllRecords[i].conn, "OPEN"))'
    <3> SUFFICES ASSUME NEW i \in DOMAIN AllRecords'
                 PROVE  Recorded(AllRecords[i].conn, "OPEN")'
      OBVIOUS
    <3>1. CASE i \in DOMAIN AllRecords
      BY <1>0, <2>1, <2>2, <3>1 DEF RecordsWellFormed
    <3>2. CASE i = Len(AllRecords) + 1
      BY <2>1, <2>2, <2>3, <3>2 DEF Rec
    <3> QED
      BY <2>2, <3>1, <3>2
  <2>6. \A j \in Conns :
          /\ pc'[j] \in Relay \cup {"close"} => Recorded(j, "OPEN")' /\ ~ Recorded(j, "CLOSE")'
          /\ pc'[j] = "finished" => (Recorded(j, "OPEN")' <=> Recorded(j, "CLOSE")')
    BY <1>0, <1>6, <2>1, <2>3 DEF RecordsWellFormed, Relay
  <2>7. \A i \in DOMAIN AllRecords : AllRecords[i].conn = k => AllRecords[i].type # "CLOSE"
                                                             /\ t # "OPEN"
    <3> SUFFICES ASSUME NEW i \in DOMAIN AllRecords, AllRecords[i].conn = k
                 PROVE  AllRecords[i].type # "CLOSE" /\ t # "OPEN"
      OBVIOUS
    <3>1. AllRecords[i] \in RecType
      BY <1>0
    <3>2. Recorded(k, AllRecords[i].type)
      BY <3>1 DEF Recorded, Rec, RecType
    <3>3. Recorded(k, "OPEN")
      BY <1>0 DEF RecordsWellFormed
    <3> QED
      BY <2>3, <3>2, <3>3
  <2>8. ASSUME NEW i \in DOMAIN AllRecords', NEW j \in DOMAIN AllRecords', i < j,
               AllRecords'[i].conn = AllRecords'[j].conn
        PROVE  AllRecords'[j].type # "OPEN" /\ AllRecords'[i].type # "CLOSE"
    <3>1. i \in DOMAIN AllRecords
      BY <2>2, <2>8
    <3>2. CASE j \in DOMAIN AllRecords
      BY <1>0, <2>2, <2>8, <3>1, <3>2 DEF RecordsWellFormed
    <3>3. CASE j = Len(AllRecords) + 1
      BY <2>2, <2>7, <2>8, <3>1, <3>3 DEF Rec
    <3> QED
      BY <2>2, <3>2, <3>3
  <2> QED
    BY <2>4, <2>5, <2>6, <2>8 DEF RecordsWellFormed
<1>7. ASSUME NEW k \in Conns, Open(k) \/ RelayRead(k) \/ Close(k)
      PROVE  RecordsKnown' /\ RecordsWellFormed'
  <2>1. \E t \in {"OPEN", "DATA", "CLOSE"}, at \in Places :
          /\ queue' = Append(queue, Rec(k, t)) /\ fed' = fed /\ pc' = [pc EXCEPT ![k] = at]
          /\ IF t = "OPEN" THEN pc[k] \in Silent ELSE pc[k] \in Relay \cup {"close"}
          /\ IF t = "CLOSE" THEN at = "cleanup" ELSE at \in Relay
    <3>1. CASE Open(k)
      BY <3>1 DEF Open, Goto, Places, Silent, Relay
    <3>2. CASE RelayRead(k)
      BY <3>2 DEF RelayRead, Goto, Places, Relay
    <3>3. CASE Close(k)
      BY <3>3 DEF Close, Goto, Places
    <3> QED
      BY <1>7, <3>1, <3>2, <3>3
  <2>2. \A t \in {"OPEN", "DATA", "CLOSE"} : Rec(k, t) \in RecType
    BY DEF Rec, RecType
  <2> QED
    BY <1>0, <1>6, <2>1, <2>2, RecordsGrow
<1> QED
  BY <1>2, <1>4, <1>5, <1>7 DEF Next, HandleConn, Local

-----------------------------------------------------------------------------
(* The inductive invariant of the proxy's threads, its count and its       *)
(* records.                                                                *)
THEOREM ProxyCorrect == Spec => []ProxyInv
<1>1. ProxyInv /\ [Next]_vars => ProxyInv'
  BY TypedStep, ThreadsStep, CountStep, RecordsStep DEF ProxyInv
<1> QED
  BY ProxyInit, <1>1, PTL DEF Spec

(* When stop() has returned, every thread it could have left has ended,    *)
(* active_ is zero and the port is free, also when a connection came in    *)
(* while it was stopping.                                                  *)
THEOREM StopLeavesNothing == Spec => []StoppedIsQuiet
<1>1. ProxyInv => StoppedIsQuiet
  <2> SUFFICES ASSUME ProxyInv, ui = "idle", ~ running
               PROVE  /\ listener = "none" /\ ~ listenOpen /\ connThreads = {} /\ active = 0
                      /\ \A k \in Conns : pc[k] \in {"none", "finished"}
    BY DEF StoppedIsQuiet
  <2>1. listener = "none" /\ ~ listenOpen
    BY DEF ProxyInv, UiPhases
  <2>2. connThreads = {} /\ joining = {}
    BY DEF ProxyInv, ThreadsKnown
  <2>3. \A k \in Conns : pc[k] \in {"none", "finished"}
    BY <2>2 DEF ProxyInv, ThreadsKnown
  <2>4. Inside = {}
    BY <2>3 DEF Inside
  <2>5. active = 0
    BY <2>4, FS_EmptySet DEF ProxyInv, ActiveCounted
  <2> QED
    BY <2>1, <2>2, <2>3, <2>5
<1> QED
  BY <1>1, ProxyCorrect, PTL

(* The records of every connection are one OPEN, its data and, exactly if  *)
(* it has ended, one CLOSE.                                                *)
THEOREM RecordsBalanced == Spec => []RecordsWellFormed
<1>1. ProxyInv => RecordsWellFormed
  BY DEF ProxyInv
<1> QED
  BY <1>1, ProxyCorrect, PTL

(* Every variable has its type; with finitely many connections active_     *)
(* never passes their number.                                              *)
THEOREM ProxyTyped ==
  ASSUME IsFiniteSet(Conns)
  PROVE  Spec => []TypeOK
<1>1. ProxyInv => TypeOK
  <2> SUFFICES ASSUME ProxyInv PROVE TypeOK
    OBVIOUS
  <2>1. active \in 0 .. Cardinality(Conns)
    <3>1. Inside \subseteq Conns
      BY DEF Inside
    <3>2. Cardinality(Inside) <= Cardinality(Conns)
      BY <3>1, FS_Subset
    <3>3. Cardinality(Inside) \in Nat /\ Cardinality(Conns) \in Nat
      BY FS_CardinalityType DEF ProxyInv, ActiveCounted
    <3> QED
      BY <3>2, <3>3 DEF ProxyInv, ActiveCounted
  <2> QED
    BY <2>1 DEF ProxyInv, Typed, TypeOK, Places, RecType
<1> QED
  BY <1>1, ProxyCorrect, PTL
=============================================================================
