----------------------------- MODULE KndProxy ------------------------------
(***************************************************************************)
(* KndMitmProxy of app/src/mitm_proxy.cpp: the UI thread (start, stop and  *)
(* drain), the listener thread (listenLoop) and one thread per connection  *)
(* (handleConn), sharing running_, the record queue and conn_threads_.     *)
(*                                                                         *)
(* A connection's flow id is its own (nextFlow_ is stepped atomically and  *)
(* never reset), so it is named by the connection.  What a peer does, or   *)
(* fails to do, is nondeterministic; mbedTLS is external.                  *)
(***************************************************************************)
EXTENDS Integers, Sequences, FiniteSets

CONSTANTS
  Conns,      \* connections that may be accepted
  MaxStarts,  \* bound: times the user starts the proxy
  MaxReads    \* bound: reads that return data, over all connections

ASSUME ProxyAssumption == MaxStarts \in Nat /\ MaxReads \in Nat

VARIABLES
  ui,            \* "idle", or where stop() is
  running,       \* running_
  listenOpen,    \* the listening socket is open
  listener,      \* the listener thread
  connThreads,   \* conn_threads_
  joining,       \* what stop() swapped out of it
  active,        \* active_
  pc, done,      \* per connection: place in handleConn; its `done' flag
  queue,         \* queue_
  fed,           \* history: records drain() gave to the model
  starts, reads

uiVars   == <<ui, running, listenOpen, joining, starts>>
connVars == <<active, pc, done, reads>>
vars == <<uiVars, connVars, listener, connThreads, queue, fed>>

Init ==
  /\ ui = "idle" /\ running = FALSE /\ listenOpen = FALSE /\ listener = "none"
  /\ connThreads = {} /\ joining = {} /\ active = 0
  /\ pc = [k \in Conns |-> "none"] /\ done = [k \in Conns |-> FALSE]
  /\ queue = <<>> /\ fed = <<>>
  /\ starts = 0 /\ reads = 0

-----------------------------------------------------------------------------
(* The UI thread.                                                          *)

(* The CA is ready and the port could be bound; otherwise nothing changes. *)
Start ==
  /\ ui = "idle" /\ ~ running /\ starts < MaxStarts
  /\ starts' = starts + 1
  /\ listenOpen' = TRUE /\ running' = TRUE /\ listener' = "loop"
  /\ UNCHANGED <<ui, joining, connVars, connThreads, queue, fed>>

StopBegin ==
  /\ ui = "idle" /\ running
  /\ running' = FALSE /\ ui' = "close"
  /\ UNCHANGED <<listenOpen, joining, starts, connVars, listener, connThreads, queue, fed>>

StopClose ==
  /\ ui = "close"
  /\ listenOpen' = FALSE /\ ui' = "joinListener"
  /\ UNCHANGED <<running, joining, starts, connVars, listener, connThreads, queue, fed>>

(* Mutant: the threads are collected while the listener may still add one. *)
StopSkipsListener ==
  /\ ui = "joinListener"
  /\ ui' = "swap"
  /\ UNCHANGED <<running, listenOpen, joining, starts, connVars, listener, connThreads, queue, fed>>

StopJoinListener ==
  /\ ui = "joinListener" /\ listener = "exited"
  /\ listener' = "none" /\ ui' = "swap"
  /\ UNCHANGED <<running, listenOpen, joining, starts, connVars, connThreads, queue, fed>>

StopSwap ==
  /\ ui = "swap"
  /\ joining' = connThreads /\ connThreads' = {} /\ ui' = "join"
  /\ UNCHANGED <<running, listenOpen, starts, connVars, listener, queue, fed>>

(* The joins, one after the other, end when all those threads have.        *)
StopJoin ==
  /\ ui = "join" /\ \A k \in joining : pc[k] = "finished"
  /\ joining' = {} /\ ui' = "idle"
  /\ UNCHANGED <<running, listenOpen, starts, connVars, listener, connThreads, queue, fed>>

(* drain(), once a frame; the UI thread does nothing else while it stops.  *)
Drain ==
  /\ ui = "idle" /\ queue # <<>>
  /\ fed' = fed \o queue /\ queue' = <<>>
  /\ UNCHANGED <<uiVars, connVars, listener, connThreads>>

UiStep == StopClose \/ StopJoinListener \/ StopSwap \/ StopJoin \/ Drain

-----------------------------------------------------------------------------
(* listenLoop.                                                             *)

ListenLoop ==
  /\ listener = "loop"
  /\ listener' = IF running THEN "select" ELSE "exited"
  /\ UNCHANGED <<uiVars, connVars, connThreads, queue, fed>>

(* select returns; running_ is looked at again, a timeout starts over.     *)
ListenSelect ==
  /\ listener = "select"
  /\ IF running THEN listener' \in {"loop", "accept"} ELSE listener' = "exited"
  /\ UNCHANGED <<uiVars, connVars, connThreads, queue, fed>>

(* A connection is accepted and handed to a thread of its own.             *)
ListenAccept(k) ==
  /\ listener = "accept" /\ listenOpen /\ pc[k] = "none"
  /\ pc' = [pc EXCEPT ![k] = "enter"]
  /\ connThreads' = connThreads \cup {k}
  /\ listener' = "loop"
  /\ UNCHANGED <<uiVars, active, done, reads, queue, fed>>

(* accept failed: the peer has gone, or stop() closed the socket.          *)
ListenFails ==
  /\ listener = "accept"
  /\ listener' = "loop"
  /\ UNCHANGED <<uiVars, connVars, connThreads, queue, fed>>

ListenStep == ListenLoop \/ ListenSelect \/ ListenFails

-----------------------------------------------------------------------------
(* handleConn.                                                             *)

Rec(k, t) == [conn |-> k, type |-> t]
Goto(k, at) == pc' = [pc EXCEPT ![k] = at]

Enter(k) ==
  /\ pc[k] = "enter"
  /\ active' = active + 1 /\ Goto(k, "peek")
  /\ UNCHANGED <<uiVars, done, reads, listener, connThreads, queue, fed>>

(* What follows what up to the relay: the first byte, then either a        *)
(* redirected TLS hello or a CONNECT, the certificate, TLS to the client,  *)
(* the connection and TLS to the server.  Each waits on a peer and may end *)
(* the connection.                                                         *)
After == [peek |-> {"hello", "preamble"}, hello |-> {"mint"}, preamble |-> {"mint"},
          mint |-> {"tlsClient"}, tlsClient |-> {"connect"}, connect |-> {"tlsServer"},
          tlsServer |-> {"open"}]

Setup(k) ==
  /\ pc[k] \in DOMAIN After
  /\ \E next \in After[pc[k]] \cup {"cleanup"} : Goto(k, next)
  /\ UNCHANGED <<uiVars, active, done, reads, listener, connThreads, queue, fed>>

Open(k) ==
  /\ pc[k] = "open"
  /\ queue' = Append(queue, Rec(k, "OPEN"))
  /\ Goto(k, "relay")
  /\ UNCHANGED <<uiVars, active, done, reads, listener, connThreads, fed>>

Relay == {"relay", "readClient", "writeServer", "readServer", "writeClient"}

(* Mutant: the relay ends on its peers alone.                              *)
RelayLoopOn(k) ==
  /\ pc[k] = "relay"
  /\ Goto(k, IF ~ done[k] THEN "readClient" ELSE "close")
  /\ UNCHANGED <<uiVars, active, done, reads, listener, connThreads, queue, fed>>

(* The head of the relay loop: select, with a timeout of 200 ms.           *)
RelayLoop(k) ==
  /\ pc[k] = "relay"
  /\ Goto(k, IF ~ done[k] /\ running THEN "readClient" ELSE "close")
  /\ UNCHANGED <<uiVars, active, done, reads, listener, connThreads, queue, fed>>

(* A read that would block ends the inner loop; a closed or broken peer    *)
(* sets done as well.  From the client, done is looked at right after.     *)
RelayIdle(k) ==
  /\ pc[k] \in {"readClient", "readServer"}
  /\ \E eof \in BOOLEAN :
       /\ done' = [done EXCEPT ![k] = @ \/ eof]
       /\ Goto(k, IF pc[k] = "readServer" THEN "relay"
                  ELSE IF done'[k] THEN "close" ELSE "readServer")
  /\ UNCHANGED <<uiVars, active, reads, listener, connThreads, queue, fed>>

(* Data read is recorded first and then written to the other side.         *)
RelayRead(k) ==
  /\ pc[k] \in {"readClient", "readServer"} /\ reads < MaxReads
  /\ reads' = reads + 1
  /\ queue' = Append(queue, Rec(k, "DATA"))
  /\ Goto(k, IF pc[k] = "readClient" THEN "writeServer" ELSE "writeClient")
  /\ UNCHANGED <<uiVars, active, done, listener, connThreads, fed>>

(* The write is retried for as long as the peer takes nothing; it ends     *)
(* when all is written or on an error, and either way the inner loop reads *)
(* again.                                                                  *)
RelayWritten(k) ==
  /\ pc[k] \in {"writeServer", "writeClient"}
  /\ \E failed \in BOOLEAN : done' = [done EXCEPT ![k] = @ \/ failed]
  /\ Goto(k, IF pc[k] = "writeServer" THEN "readClient" ELSE "readServer")
  /\ UNCHANGED <<uiVars, active, reads, listener, connThreads, queue, fed>>

(* Mutant: a connection cut short by stop() is not closed in the records.  *)
CloseIfRunning(k) ==
  /\ pc[k] = "close"
  /\ queue' = IF running THEN Append(queue, Rec(k, "CLOSE")) ELSE queue
  /\ Goto(k, "cleanup")
  /\ UNCHANGED <<uiVars, active, done, reads, listener, connThreads, fed>>

Close(k) ==
  /\ pc[k] = "close"
  /\ queue' = Append(queue, Rec(k, "CLOSE"))
  /\ Goto(k, "cleanup")
  /\ UNCHANGED <<uiVars, active, done, reads, listener, connThreads, fed>>

(* Mutant: active_ is stepped down once more than up.                      *)
CleanupTwice(k) ==
  /\ pc[k] = "cleanup"
  /\ active' = active - 2 /\ Goto(k, "finished")
  /\ UNCHANGED <<uiVars, done, reads, listener, connThreads, queue, fed>>

Cleanup(k) ==
  /\ pc[k] = "cleanup"
  /\ active' = active - 1 /\ Goto(k, "finished")
  /\ UNCHANGED <<uiVars, done, reads, listener, connThreads, queue, fed>>

(* Steps that wait on no peer.                                             *)
Local(k) == Enter(k) \/ Open(k) \/ RelayLoop(k) \/ RelayIdle(k) \/ Close(k) \/ Cleanup(k)
HandleConn(k) == Local(k) \/ Setup(k) \/ RelayRead(k) \/ RelayWritten(k)

-----------------------------------------------------------------------------
Next ==
  \/ Start \/ StopBegin \/ UiStep \/ ListenStep
  \/ \E k \in Conns : ListenAccept(k) \/ HandleConn(k)

Spec == Init /\ [][Next]_vars

(* Threads run, and a peer that a thread waits for answers or hangs up     *)
(* sooner or later, takes what is written to it, and pauses in sending:    *)
(* recv, the handshakes and the relay's writes have no timeout, so without *)
(* this nothing that waits for them ends.                                  *)
FairSpec ==
  /\ Spec /\ WF_vars(UiStep) /\ WF_vars(ListenStep)
  /\ \A k \in Conns : WF_vars(Local(k)) /\ WF_vars(Setup(k)) /\ WF_vars(RelayWritten(k))

-----------------------------------------------------------------------------
(* Properties.                                                             *)

(* Every variable has its type.                                            *)
TypeOK ==
  /\ ui \in {"idle", "close", "joinListener", "swap", "join"}
  /\ running \in BOOLEAN /\ listenOpen \in BOOLEAN
  /\ listener \in {"none", "loop", "select", "accept", "exited"}
  /\ connThreads \subseteq Conns /\ joining \subseteq Conns
  /\ active \in 0 .. Cardinality(Conns)
  /\ pc \in [Conns -> {"none", "enter", "open", "close", "cleanup", "finished"}
                      \cup DOMAIN After \cup Relay]
  /\ done \in [Conns -> BOOLEAN]
  /\ queue \in Seq([conn : Conns, type : {"OPEN", "DATA", "CLOSE"}])
  /\ fed \in Seq([conn : Conns, type : {"OPEN", "DATA", "CLOSE"}])
  /\ starts \in Nat /\ reads \in Nat

(* When stop() has returned no thread of the proxy is left, none can       *)
(* record anything any more, and the port is free for the next start: also *)
(* a connection accepted while stop() was already under way was joined.    *)
StoppedIsQuiet ==
  ui = "idle" /\ ~ running =>
    /\ listener = "none" /\ ~ listenOpen
    /\ connThreads = {} /\ active = 0
    /\ \A k \in Conns : pc[k] \in {"none", "finished"}

AllRecords == fed \o queue
Recorded(k, t) == \E i \in DOMAIN AllRecords : AllRecords[i] = Rec(k, t)

(* What the model is given of a connection is one OPEN, its data, and one  *)
(* CLOSE exactly if the connection has ended, however it ended and however *)
(* drain() cut the queue; a connection that never got through says nothing.*)
RecordsWellFormed ==
  /\ \A i, j \in DOMAIN AllRecords :
       i < j /\ AllRecords[i].conn = AllRecords[j].conn =>
         AllRecords[j].type # "OPEN" /\ AllRecords[i].type # "CLOSE"
  /\ \A i \in DOMAIN AllRecords : Recorded(AllRecords[i].conn, "OPEN")
  /\ \A k \in Conns :
       /\ pc[k] \in Relay \cup {"close"} => Recorded(k, "OPEN") /\ ~ Recorded(k, "CLOSE")
       /\ pc[k] = "finished" => (Recorded(k, "OPEN") <=> Recorded(k, "CLOSE"))

(* stop() returns, and with it the UI thread that also drains the ring, if *)
(* no peer keeps a pending step waiting for ever: what it waits for is     *)
(* only the listener's select and the relay loops, which look at running_. *)
StopReturns == ui # "idle" ~> ui = "idle"
=============================================================================
