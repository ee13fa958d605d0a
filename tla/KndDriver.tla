----------------------------- MODULE KndDriver -----------------------------
(***************************************************************************)
(* The driver's life: DriverEntry and KndUnload of driver/driver.c,        *)
(* KndRingCreate / KndRingDestroy of driver/ring.c, KndWfpStart /          *)
(* KndRegisterCallout / KndWfpStop of driver/wfp.c, with the callbacks WFP *)
(* runs on other CPUs meanwhile, and the single mapping of the ring into a *)
(* consumer process (driver/ioctl.c) as KndClient (app/src/knd_client.cpp) *)
(* asks for it.                                                            *)
(*                                                                         *)
(* Every call that can fail does fail in some behaviour.  One thread runs  *)
(* DriverEntry and KndUnload, a step per acquisition or release.           *)
(***************************************************************************)
EXTENDS Integers, FiniteSets

CONSTANTS
  Procs,          \* consumer processes
  NoProc,         \* UserVa = NULL
  Cpus,           \* CPUs on which WFP runs callbacks
  LastCallout,    \* callouts 1 .. LastCallout are registered, in this order
  FlowCallouts,   \* those whose classify associates a flow context
  StreamCallouts, \* those with a flow-delete notification
  MaxTries,       \* the 250 of KndWfpStop's retry loop
  MaxLoads        \* bound: times the driver is loaded

Callouts == 1 .. LastCallout

ASSUME DriverAssumption ==
  /\ NoProc \notin Procs
  /\ LastCallout \in Nat \ {0} /\ MaxTries \in Nat \ {0} /\ MaxLoads \in Nat
  /\ FlowCallouts \subseteq Callouts /\ StreamCallouts \subseteq Callouts

VARIABLES
  thr,        \* where the loading / unloading thread is
  unloading,  \* it runs KndUnload (FALSE: DriverEntry, or its failure path)
  held,       \* what it has acquired and not released
  gKnd,       \* g_Knd # NULL
  numCallouts, registered,  \* ctx->NumCallouts; callouts WFP still has
  objects,    \* sublayer, callouts and filters in the base filtering engine:
              \* "none", "pending" in the open transaction, "committed"
  associated, \* stream callouts some live flow carries a context of
  stopIdx, tries, abandoned, \* KndWfpStop's loop; callouts its cap gave up on
  cb, cbCtx,  \* per CPU: the callout whose callback runs (0: none), and
              \* whether the g_Knd it read on entry was not NULL
  handle, view,             \* per process: handle open; KndClient's ring_
  userVa,     \* ctx->UserVa / MapProcess: the process that has the mapping
  unloadAsked, loads

threadVars == <<thr, unloading, held, gKnd, numCallouts, registered, objects,
                stopIdx, tries, abandoned>>
cbVars     == <<cb, cbCtx, associated>>
procVars   == <<handle, view, userVa>>
vars == <<threadVars, cbVars, procVars, unloadAsked, loads>>

Resources == {"ctx", "pool", "mdl", "device", "symlink", "engine", "redirect", "tx"}

Init ==
  /\ thr = "unloaded" /\ unloading = FALSE /\ held = {} /\ gKnd = FALSE
  /\ numCallouts = 0 /\ registered = {} /\ objects = "none" /\ associated = {}
  /\ stopIdx = 0 /\ tries = 0 /\ abandoned = {}
  /\ cb = [c \in Cpus |-> 0] /\ cbCtx = [c \in Cpus |-> FALSE]
  /\ handle = [p \in Procs |-> FALSE] /\ view = [p \in Procs |-> "none"] /\ userVa = NoProc
  /\ unloadAsked = FALSE /\ loads = 0

Others == <<cbVars, procVars, unloadAsked, loads>>
StopVars == <<stopIdx, tries, abandoned>>
WfpVars  == <<numCallouts, registered, objects>>

-----------------------------------------------------------------------------
(* DriverEntry.                                                            *)

Load ==
  /\ thr = "unloaded" /\ loads < MaxLoads
  /\ loads' = loads + 1
  /\ thr' = "ctx" /\ unloading' = FALSE
  /\ UNCHANGED <<held, gKnd, WfpVars, StopVars, cbVars, procVars, unloadAsked>>

(* What is acquired after what.  The redirect handle is asked for between  *)
(* the engine and the transaction and may be missing.                      *)
After == [ctx |-> "pool", pool |-> "mdl", mdl |-> "device", device |-> "symlink",
          symlink |-> "publish", engine |-> "redirect", redirect |-> "tx",
          tx |-> "sublayer"]

Acquire(r) ==
  /\ thr = r
  /\ held' = held \cup {r}
  /\ thr' = After[r]
  /\ UNCHANGED <<unloading, gKnd, WfpVars, StopVars, Others>>

(* A failed acquisition: no context, return; no MDL, KndRingCreate frees   *)
(* the pool itself; no redirect handle, go on without; no engine,          *)
(* KndWfpStart returns at once; otherwise its own failure path.            *)
AcquireFails(r) ==
  /\ thr = r
  /\ held' = IF r = "mdl" THEN held \ {"pool"} ELSE held
  /\ thr' = CASE r = "ctx" -> "unloaded"
              [] r \in {"pool", "mdl", "device", "symlink"} -> "freeSymlink"
              [] r = "redirect" -> After[r]
              [] r = "engine" -> "unpublish"
              [] OTHER -> "stopEngine"
  /\ UNCHANGED <<unloading, gKnd, WfpVars, StopVars, Others>>

(* g_Knd = ctx, before callouts can fire.                                  *)
PublishCtx ==
  /\ thr = "publish"
  /\ gKnd' = TRUE /\ thr' = "engine"
  /\ UNCHANGED <<unloading, held, WfpVars, StopVars, Others>>

(* FwpmSubLayerAdd0, first in the transaction.  The key is fixed, so it    *)
(* fails as well when an earlier load's objects are still there.           *)
AddSublayer ==
  /\ thr = "sublayer"
  /\ \/ thr' = "callout" /\ objects = "none" /\ objects' = "pending"
     \/ thr' = "stopEngine" /\ UNCHANGED objects
  /\ UNCHANGED <<unloading, held, gKnd, numCallouts, registered, StopVars, Others>>

(* Mutant: one callout too many is registered before the commit.           *)
RegisterOneMore ==
  /\ thr = "callout"
  /\ numCallouts' = numCallouts + 1
  /\ registered' = registered \cup {numCallouts + 1}
  /\ thr' = IF numCallouts' > LastCallout THEN "commit" ELSE "callout"
  /\ UNCHANGED <<unloading, held, gKnd, objects, StopVars, Others>>

(* KndRegisterCallout: the kernel side is recorded before the management   *)
(* side (FwpmCalloutAdd, FwpmFilterAdd) may still fail.                    *)
RegisterCallout ==
  /\ thr = "callout"
  /\ \/ /\ thr' = "stopEngine"
        /\ UNCHANGED <<numCallouts, registered>>
     \/ /\ numCallouts' = numCallouts + 1
        /\ registered' = registered \cup {numCallouts + 1}
        /\ thr' \in {"stopEngine", IF numCallouts' = LastCallout THEN "commit" ELSE "callout"}
  /\ UNCHANGED <<unloading, held, gKnd, objects, StopVars, Others>>

Commit ==
  /\ thr = "commit"
  /\ \/ thr' = "loaded" /\ objects' = "committed" /\ held' = held \ {"tx"}
     \/ thr' = "stopEngine" /\ UNCHANGED <<objects, held>>
  /\ UNCHANGED <<unloading, gKnd, numCallouts, registered, StopVars, Others>>

-----------------------------------------------------------------------------
(* KndWfpStop, from KndUnload and from the failure path of KndWfpStart     *)
(* (which aborts an open transaction first).  The engine was opened with   *)
(* no session, that is not a dynamic one: closing it takes back nothing    *)
(* that was committed, and nothing in the driver deletes it.               *)

StopEngine ==
  /\ thr = "stopEngine"
  /\ held' = held \ {"engine", "tx"}
  /\ objects' = IF objects = "pending" THEN "none" ELSE objects
  /\ stopIdx' = 1 /\ tries' = 0
  /\ thr' = "unregister"
  /\ UNCHANGED <<unloading, gKnd, numCallouts, registered, abandoned, Others>>

Running(i) == \E c \in Cpus : cb[c] = i

(* FwpsCalloutUnregisterById0 answers STATUS_DEVICE_BUSY while a callback  *)
(* runs and while any flow carries a context of the callout.  The driver   *)
(* never removes one (FwpsFlowRemoveContext0): they go as their flows end. *)
Busy(i) == Running(i) \/ i \in associated

Unregistered ==
  /\ registered' = registered \ {stopIdx}
  /\ stopIdx' = stopIdx + 1 /\ tries' = 0
  /\ UNCHANGED <<thr, unloading, held, gKnd, numCallouts, objects, abandoned, Others>>

(* Mutant: STATUS_DEVICE_BUSY is not looked at.                            *)
UnregisterBlindly ==
  /\ thr = "unregister" /\ stopIdx <= numCallouts
  /\ Unregistered

Unregister ==
  /\ thr = "unregister" /\ stopIdx <= numCallouts
  /\ ~ Busy(stopIdx)
  /\ Unregistered

(* Mutant: the retry loop without its cap.                                 *)
UnregisterForever ==
  /\ thr = "unregister" /\ stopIdx <= numCallouts
  /\ Busy(stopIdx)
  /\ UNCHANGED <<thr, unloading, held, gKnd, WfpVars, StopVars, Others>>

(* ... or it is busy: wait 20 ms and retry, up to the cap, and then leave  *)
(* the callout to WFP.                                                     *)
UnregisterBusy ==
  /\ thr = "unregister" /\ stopIdx <= numCallouts
  /\ Busy(stopIdx)
  /\ IF tries + 1 < MaxTries
     THEN tries' = tries + 1 /\ UNCHANGED <<stopIdx, abandoned>>
     ELSE tries' = 0 /\ stopIdx' = stopIdx + 1 /\ abandoned' = abandoned \cup {stopIdx}
  /\ UNCHANGED <<thr, unloading, held, gKnd, WfpVars, Others>>

(* Mutant: the redirect handle is forgotten.                               *)
StopKeepsRedirect ==
  /\ thr = "unregister" /\ stopIdx > numCallouts
  /\ numCallouts' = 0
  /\ thr' = IF unloading THEN "freeSymlink" ELSE "unpublish"
  /\ UNCHANGED <<unloading, held, gKnd, registered, objects, StopVars, Others>>

StopDone ==
  /\ thr = "unregister" /\ stopIdx > numCallouts
  /\ numCallouts' = 0
  /\ held' = held \ {"redirect"}
  /\ thr' = IF unloading THEN "freeSymlink" ELSE "unpublish"
  /\ UNCHANGED <<unloading, gKnd, registered, objects, StopVars, Others>>

-----------------------------------------------------------------------------
(* The common tail of DriverEntry's failure path and of KndUnload.         *)

FreeSymlink ==
  /\ thr = "freeSymlink"
  /\ held' = held \ {"symlink", "device"}
  /\ thr' = "freeRing"
  /\ UNCHANGED <<unloading, gKnd, WfpVars, StopVars, Others>>

(* KndRingDestroy: "never unmap+free the ring while a usermode mapping is  *)
(* still live".                                                            *)
FreeRing ==
  /\ thr = "freeRing"
  /\ held' = IF userVa # NoProc THEN held ELSE held \ {"mdl", "pool"}
  /\ thr' = IF unloading THEN "unpublish" ELSE "freeCtx"
  /\ UNCHANGED <<unloading, gKnd, WfpVars, StopVars, Others>>

(* g_Knd = NULL: first in the failure path, last in KndUnload.             *)
Unpublish ==
  /\ thr = "unpublish"
  /\ gKnd' = FALSE
  /\ thr' = IF unloading THEN "freeCtx" ELSE "freeSymlink"
  /\ UNCHANGED <<unloading, held, WfpVars, StopVars, Others>>

FreeCtx ==
  /\ thr = "freeCtx"
  /\ held' = held \ {"ctx"}
  /\ thr' = "unloaded" /\ unloading' = FALSE /\ unloadAsked' = FALSE
  /\ UNCHANGED <<gKnd, WfpVars, StopVars, cbVars, procVars, loads>>

(* The service manager asks; the I/O manager refuses new opens and calls   *)
(* KndUnload once no handle is left.                                       *)
AskUnload ==
  /\ thr = "loaded" /\ ~ unloadAsked
  /\ unloadAsked' = TRUE
  /\ UNCHANGED <<threadVars, cbVars, procVars, loads>>

Unload ==
  /\ thr = "loaded" /\ unloadAsked
  /\ \A p \in Procs : ~ handle[p]
  /\ thr' = "stopEngine" /\ unloading' = TRUE
  /\ UNCHANGED <<held, gKnd, WfpVars, StopVars, Others>>

EntryStep == (\E r \in DOMAIN After : Acquire(r) \/ AcquireFails(r))
             \/ PublishCtx \/ AddSublayer \/ RegisterCallout \/ Commit
StopStep  == StopEngine \/ Unregister \/ UnregisterBusy \/ StopDone
FreeStep  == FreeSymlink \/ FreeRing \/ Unpublish \/ FreeCtx
Thread    == EntryStep \/ StopStep \/ FreeStep

-----------------------------------------------------------------------------
(* WFP callbacks: classify while the filters are there, the conditional-   *)
(* on-flow ones and flow-delete for a flow that carries a context.  Each   *)
(* reads g_Knd first, uses the context (and the ring behind it) if it is   *)
(* not NULL, and returns.                                                  *)

CallbackBegins(c, i) ==
  /\ cb[c] = 0 /\ i \in registered
  /\ IF i \in StreamCallouts THEN i \in associated ELSE objects = "committed"
  /\ cb' = [cb EXCEPT ![c] = i]
  /\ cbCtx' = [cbCtx EXCEPT ![c] = gKnd]
  /\ UNCHANGED <<threadVars, associated, procVars, unloadAsked, loads>>

(* KndClassifyFlow, if capture is on, gives its flow a context of a stream *)
(* callout that is registered (its id may have been read before KndWfpStop *)
(* zeroes it).                                                             *)
Attachable(c) ==
  IF cb[c] \in FlowCallouts /\ cbCtx[c] THEN StreamCallouts \cap registered ELSE {}

(* Back from a callback; a flow-delete may have been that of the last flow *)
(* with a context of its callout.                                          *)
CallbackReturns(c) ==
  /\ cb[c] # 0
  /\ cb' = [cb EXCEPT ![c] = 0]
  /\ cbCtx' = [cbCtx EXCEPT ![c] = FALSE]
  /\ \/ UNCHANGED associated
     \/ \E s \in Attachable(c) : associated' = associated \cup {s}
     \/ cb[c] \in StreamCallouts /\ associated' = associated \ {cb[c]}
  /\ UNCHANGED <<threadVars, procVars, unloadAsked, loads>>

-----------------------------------------------------------------------------
(* Consumer processes.                                                     *)

OpenDevice(p) ==
  /\ thr = "loaded" /\ ~ unloadAsked /\ ~ handle[p]
  /\ handle' = [handle EXCEPT ![p] = TRUE]
  /\ UNCHANGED <<threadVars, cbVars, view, userVa, unloadAsked, loads>>

(* KndMapRingToUser: the free slot, or the mapping this process has        *)
(* already; busy otherwise.                                                *)
MapRing(p) ==
  /\ handle[p] /\ view[p] = "none"
  /\ userVa \in {NoProc, p}
  /\ userVa' = p
  /\ view' = [view EXCEPT ![p] = "mapped"]
  /\ UNCHANGED <<threadVars, cbVars, handle, unloadAsked, loads>>

(* Mutant: MapProcess is not compared.                                     *)
UnmapAnyone(p) == userVa' = NoProc

(* KndUnmapRingFromUser, run in process p.                                 *)
UnmapFrom(p) == userVa' = IF userVa = p THEN NoProc ELSE userVa

(* KndClient::close: the UNMAP ioctl, then CloseHandle.                    *)
CloseUnmap(p) ==
  /\ handle[p] /\ view[p] = "mapped"
  /\ UnmapFrom(p)
  /\ view' = [view EXCEPT ![p] = "closing"]
  /\ UNCHANGED <<threadVars, cbVars, handle, unloadAsked, loads>>

(* CloseHandle, or the process dies: IRP_MJ_CLEANUP unmaps what is left.   *)
CloseDevice(p) ==
  /\ handle[p]
  /\ UnmapFrom(p)
  /\ handle' = [handle EXCEPT ![p] = FALSE]
  /\ view' = [view EXCEPT ![p] = "none"]
  /\ UNCHANGED <<threadVars, cbVars, unloadAsked, loads>>

Client(p) == OpenDevice(p) \/ MapRing(p) \/ CloseUnmap(p) \/ CloseDevice(p)

-----------------------------------------------------------------------------
Next ==
  \/ Load \/ AskUnload \/ Unload \/ Thread
  \/ \E c \in Cpus : (\E i \in Callouts : CallbackBegins(c, i)) \/ CallbackReturns(c)
  \/ \E p \in Procs : Client(p)

Spec == Init /\ [][Next]_vars

(* The thread that stops or frees runs on; nothing is assumed of the       *)
(* callbacks, which may take as long as they like.                         *)
FairSpec == Spec /\ WF_vars(StopStep \/ FreeStep)

(* The same with callbacks that are quick: each has returned by the time   *)
(* KndWfpStop tries again.                                                 *)
PromptSpec == Init /\ [][Next /\ (UnregisterBusy => ~ Running(stopIdx))]_vars

-----------------------------------------------------------------------------
(* Properties.                                                             *)

(* Every variable has its type.                                            *)
TypeOK ==
  /\ thr \in Resources \cup {"unloaded", "publish", "sublayer", "callout", "commit", "loaded",
                             "stopEngine", "unregister", "freeSymlink", "freeRing", "unpublish",
                             "freeCtx"}
  /\ unloading \in BOOLEAN /\ gKnd \in BOOLEAN /\ objects \in {"none", "pending", "committed"}
  /\ held \subseteq Resources
  /\ numCallouts \in 0 .. LastCallout /\ registered \subseteq Callouts
  /\ abandoned \subseteq Callouts /\ associated \subseteq StreamCallouts
  /\ stopIdx \in Nat /\ tries \in Nat
  /\ cb \in [Cpus -> 0 .. LastCallout] /\ cbCtx \in [Cpus -> BOOLEAN]
  /\ handle \in [Procs -> BOOLEAN] /\ view \in [Procs -> {"none", "mapped", "closing"}]
  /\ userVa \in Procs \cup {NoProc}
  /\ unloadAsked \in BOOLEAN /\ loads \in Nat

(* A callback that found the context uses it and the ring: unless          *)
(* KndWfpStop's retry loop gave up on that very callout, both are there.   *)
DrainedBeforeFree ==
  \A c \in Cpus : cbCtx[c] /\ cb[c] \notin abandoned => {"ctx", "pool", "mdl"} \subseteq held

(* The promise of KndWfpStop's comment, "we never free the pool with a     *)
(* live callout": the code breaks it although no callback takes long, for  *)
(* a flow that was captured and lives on keeps its stream callout busy     *)
(* past the cap.                                                           *)
PoolOutlivesCallouts == registered # {} => {"ctx", "pool"} \subseteq held

(* The ring a process sees through KndClient is mapped into it, it is the  *)
(* only one, and the pages are there; no unload pulls them away.           *)
ViewIsBacked ==
  \A p \in Procs : view[p] = "mapped" =>
    userVa = p /\ handle[p] /\ {"ctx", "pool", "mdl", "device"} \subseteq held

(* Whatever failed at load, and however it was unloaded, an unloaded       *)
(* driver holds none of what it is to release itself: the safety net of    *)
(* KndRingDestroy never keeps the ring, no transaction stays open, and WFP *)
(* has only the callouts the retry loop gave up on.  (What was committed   *)
(* to the filtering engine does stay, although KndWfpStop's comment says   *)
(* that closing the engine drops it.)                                      *)
ReleasesItsOwn ==
  thr = "unloaded" =>
    /\ held = {} /\ ~ gKnd /\ userVa = NoProc /\ numCallouts = 0
    /\ registered \subseteq abandoned /\ objects # "pending"

(* The cap's purpose: stopping ends although a callback never returns or a *)
(* captured flow never ends.                                               *)
StopEnds == thr = "stopEngine" ~> thr = "unloaded"
=============================================================================
