---------------------------- MODULE RecordQueue ----------------------------
(***************************************************************************)
(* What the ring promises its consumer: records the driver accepted come   *)
(* out whole, once and in the order of acceptance, and an app that dies    *)
(* resumes from the last position it handed back (it may see again what it *)
(* had read since, it never misses anything).  How the records are laid    *)
(* out, and which offers are refused for lack of room, is not its concern. *)
(***************************************************************************)
EXTENDS Naturals, Sequences

CONSTANT Record

VARIABLES accepted,   \* records in order of acceptance
          cursor,     \* how many of them this app instance is past
          committed,  \* how many were handed back for reuse
          inbox       \* what this app instance received

qvars == <<accepted, cursor, committed, inbox>>

QInit == accepted = <<>> /\ cursor = 0 /\ committed = 0 /\ inbox = <<>>

(* Some record is accepted: the queue grows by one at its end.             *)
Accept == /\ Len(accepted') = Len(accepted) + 1
          /\ accepted'[Len(accepted')] \in Record
          /\ \A i \in DOMAIN accepted : accepted'[i] = accepted[i]
          /\ UNCHANGED <<cursor, committed, inbox>>

Deliver == /\ cursor < Len(accepted)
           /\ inbox' = Append(inbox, accepted[cursor + 1])
           /\ cursor' = cursor + 1
           /\ UNCHANGED <<accepted, committed>>

Commit == /\ committed' = cursor
          /\ UNCHANGED <<accepted, cursor, inbox>>

Restart == /\ cursor' = committed
           /\ inbox' = <<>>
           /\ UNCHANGED <<accepted, committed>>

QNext == Accept \/ Deliver \/ Commit \/ Restart

QSpec == QInit /\ [][QNext]_qvars

(* Everything accepted is delivered, and the space of what was delivered   *)
(* is given back.                                                          *)
QProgress == WF_qvars(Deliver) /\ WF_qvars(Commit)
=============================================================================
