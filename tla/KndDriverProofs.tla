-------------------------- MODULE KndDriverProofs --------------------------
(***************************************************************************)
(* Proofs about the driver's life, for every number of consumers, CPUs,    *)
(* callouts, retries and loads: whatever fails while it loads, and however *)
(* its callbacks run, it uses nothing after it was freed and releases what *)
(* it acquired, but for the callouts KndWfpStop gave up on and what it     *)
(* committed to the filtering engine.                                      *)
(***************************************************************************)
EXTENDS KndDriver, TLAPS

-----------------------------------------------------------------------------
(* The inductive invariant.                                                *)

RingParts == {"ctx", "pool", "mdl"}
Base      == {"ctx", "pool", "mdl", "device", "symlink"}

(* Where the context is published and WFP may know the driver.             *)
WfpStages == {"callout", "commit", "loaded", "stopEngine", "unregister"}
Published == {"engine", "redirect", "tx", "sublayer"} \cup WfpStages

(* What the thread holds at each point: the stages of loading in order,    *)
(* then those of the common tail.                                          *)
HeldAtStage ==
  /\ thr \in {"unloaded", "ctx"} => held = {}
  /\ thr = "pool" => held = {"ctx"}
  /\ thr = "mdl" => held = {"ctx", "pool"}
  /\ thr = "device" => held = RingParts
  /\ thr = "symlink" => held = RingParts \cup {"device"}
  /\ thr = "publish" => held = Base
  /\ thr = "engine" => held = Base
  /\ thr \in Published => Base \subseteq held
  /\ thr = "unregister" => held \subseteq Base \cup {"redirect"}
  /\ thr = "freeSymlink" => held \subseteq Base
  /\ thr = "freeRing" => held \subseteq RingParts
  /\ thr = "unpublish" => IF unloading THEN held \subseteq {"ctx"} ELSE held = Base
  /\ thr = "freeCtx" => held \subseteq {"ctx"}

(* KndUnload is the stop and the tail; g_Knd is set from its publication   *)
(* to its withdrawal, which is the tail's last step but one only there.    *)
Phases ==
  /\ unloading => thr \in {"stopEngine", "unregister", "freeSymlink", "freeRing", "unpublish",
                           "freeCtx"}
  /\ gKnd => \/ thr \in Published \cup {"unpublish"}
             \/ unloading /\ thr \in {"freeSymlink", "freeRing"}

(* What WFP has: the callouts that were registered and not yet taken back, *)
(* and those the retry loop gave up on; the engine's objects are pending   *)
(* only while their transaction is open.                                   *)
CalloutsKnown ==
  /\ thr \notin WfpStages => numCallouts = 0
  /\ thr = "callout" => numCallouts < LastCallout
  /\ thr = "unregister" => 1 <= stopIdx
  /\ thr \notin WfpStages => registered \subseteq abandoned
  /\ thr \in WfpStages \ {"unregister"} => registered \subseteq abandoned \cup (1 .. numCallouts)
  /\ thr = "unregister" => registered \subseteq abandoned \cup (stopIdx .. numCallouts)
  /\ objects = "pending" => thr \in {"callout", "commit", "stopEngine"}

(* A running callback belongs to a callout WFP still has.                  *)
CallbacksKnown ==
  \A c \in Cpus : /\ cb[c] # 0 => cb[c] \in registered
                  /\ cbCtx[c] => cb[c] # 0

(* Handles exist only while the driver is loaded, the mapping belongs to a *)
(* process with a handle, and a view is the mapping of its process.        *)
MappingOwned ==
  /\ \A p \in Procs : handle[p] => thr = "loaded"
  /\ userVa # NoProc => handle[userVa]
  /\ \A p \in Procs : view[p] = "mapped" => userVa = p

DriverInv ==
  TypeOK /\ HeldAtStage /\ Phases /\ CalloutsKnown /\ CallbacksKnown /\ MappingOwned
-----------------------------------------------------------------------------
(* The places the thread can be at.                                        *)
Stages == Resources \cup {"unloaded", "publish", "sublayer", "callout", "commit", "loaded",
                          "stopEngine", "unregister", "freeSymlink", "freeRing", "unpublish",
                          "freeCtx"}

(* Before the driver is first loaded there is nothing to go wrong.         *)
LEMMA DriverInit == Init => DriverInv
<1> SUFFICES ASSUME Init PROVE DriverInv
  OBVIOUS
<1>1. TypeOK
  <2>1. /\ thr \in Stages /\ held \subseteq Resources /\ numCallouts \in 0 .. LastCallout
        /\ registered \subseteq Callouts /\ stopIdx \in Nat /\ tries \in Nat /\ loads \in Nat
        /\ userVa \in Procs \cup {NoProc} /\ objects \in {"none", "pending", "committed"}
        /\ abandoned \subseteq Callouts /\ associated \subseteq StreamCallouts
    BY DriverAssumption DEF Init, Stages
  <2>2. unloading \in BOOLEAN /\ gKnd \in BOOLEAN /\ unloadAsked \in BOOLEAN
    BY DEF Init
  <2>3. cb \in [Cpus -> 0 .. LastCallout] /\ cbCtx \in [Cpus -> BOOLEAN]
    BY DriverAssumption DEF Init
  <2>4. handle \in [Procs -> BOOLEAN] /\ view \in [Procs -> {"none", "mapped", "closing"}]
    BY DEF Init
  <2> QED
    BY <2>1, <2>2, <2>3, <2>4 DEF TypeOK, Stages
<1>2. HeldAtStage /\ Phases
  BY DEF Init, HeldAtStage, Phases, Published, WfpStages
<1>3. CalloutsKnown
  BY DEF Init, CalloutsKnown, WfpStages
<1>4. CallbacksKnown
  BY DEF Init, CallbacksKnown
<1>5. MappingOwned
  BY DEF Init, MappingOwned
<1> QED
  BY <1>1, <1>2, <1>3, <1>4, <1>5 DEF DriverInv

(* Every acquisition of DriverEntry leads to the next place.               *)
LEMMA AfterStages == /\ DOMAIN After \subseteq Resources
                     /\ \A r \in DOMAIN After : After[r] \in Stages
BY DEF After, Stages, Resources

(* The thread of DriverEntry and KndUnload touches no callback, no flow    *)
(* context, no handle and no mapping.                                      *)
LEMMA ThreadFrame ==
  ASSUME Thread
  PROVE  /\ UNCHANGED <<cb, cbCtx, associated, handle, view, userVa, loads>>
         /\ thr # "loaded"
<1>1. ASSUME NEW r \in DOMAIN After, Acquire(r) \/ AcquireFails(r)
      PROVE  UNCHANGED <<cb, cbCtx, associated, handle, view, userVa, loads>> /\ thr # "loaded"
  BY <1>1 DEF Acquire, AcquireFails, Others, cbVars, procVars, After
<1>2. CASE PublishCtx \/ AddSublayer \/ RegisterCallout \/ Commit
  BY <1>2 DEF PublishCtx, AddSublayer, RegisterCallout, Commit, Others, cbVars, procVars
<1>3. CASE StopStep
  BY <1>3 DEF StopStep, StopEngine, Unregister, UnregisterBusy, StopDone, Unregistered, Others,
              cbVars, procVars
<1>4. CASE FreeStep
  BY <1>4 DEF FreeStep, FreeSymlink, FreeRing, Unpublish, FreeCtx, Others, cbVars, procVars
<1> QED
  BY <1>1, <1>2, <1>3, <1>4 DEF Thread, EntryStep

(* WFP's callbacks and the consumers leave the thread's state alone.       *)
LEMMA OutsideFrame ==
  ASSUME \/ \E c \in Cpus : (\E i \in Callouts : CallbackBegins(c, i)) \/ CallbackReturns(c)
         \/ \E p \in Procs : Client(p)
         \/ AskUnload
  PROVE  UNCHANGED <<thr, unloading, held, gKnd, numCallouts, registered, objects, stopIdx,
                     tries, abandoned, loads>>
BY DEF CallbackBegins, CallbackReturns, Client, OpenDevice, MapRing, CloseUnmap, CloseDevice,
       AskUnload, threadVars
-----------------------------------------------------------------------------
(* What the thread holds.                                                  *)

(* Every acquisition of DriverEntry, failed or not, leaves it with what    *)
(* its new place says: a failed one with what the clean-up expects.        *)
LEMMA EntryHolds ==
  ASSUME DriverInv, NEW r \in DOMAIN After, Acquire(r) \/ AcquireFails(r)
  PROVE  HeldAtStage' /\ Phases'
<1>1. /\ thr = r /\ UNCHANGED <<unloading, gKnd>>
  BY DEF Acquire, AcquireFails
<1>2. HeldAtStage /\ Phases /\ held \subseteq Resources
  BY DEF DriverInv, TypeOK
<1>3. r \in {"ctx", "pool", "mdl", "device", "symlink", "engine", "redirect", "tx"}
  BY DEF After
<1>4. CASE Acquire(r)
  <2>1. held' = held \cup {r} /\ thr' = After[r]
    BY <1>4 DEF Acquire
  <2>2. HeldAtStage'
    BY <1>1, <1>2, <1>3, <2>1 DEF HeldAtStage, After, Base, RingParts, Published, WfpStages
  <2> QED
    BY <1>1, <1>2, <1>3, <2>1, <2>2 DEF Phases, After, Published, WfpStages
<1>5. CASE AcquireFails(r)
  <2>1. /\ r = "ctx" => thr' = "unloaded" /\ held' = held
        /\ r \in {"pool", "device", "symlink"} => thr' = "freeSymlink" /\ held' = held
        /\ r = "mdl" => thr' = "freeSymlink" /\ held' = held \ {"pool"}
        /\ r = "redirect" => thr' = "tx" /\ held' = held
        /\ r = "engine" => thr' = "unpublish" /\ held' = held
        /\ r = "tx" => thr' = "stopEngine" /\ held' = held
    BY <1>5, <1>3 DEF AcquireFails, After
  <2>2. HeldAtStage'
    BY <1>1, <1>2, <1>3, <2>1 DEF HeldAtStage, Phases, Base, RingParts, Published, WfpStages
  <2> QED
    BY <1>1, <1>2, <1>3, <2>1, <2>2 DEF Phases, Published, WfpStages
<1> QED
  BY <1>4, <1>5
(* So does every other step of the thread: publication, registration,      *)
(* KndWfpStop and the common tail.  KndRingDestroy's safety net is never   *)
(* needed there, because no handle is left that could own a mapping.       *)
LEMMA ThreadHolds ==
  ASSUME DriverInv,
         PublishCtx \/ AddSublayer \/ RegisterCallout \/ Commit \/ StopStep \/ FreeStep
  PROVE  HeldAtStage' /\ Phases'
<1>1. HeldAtStage /\ Phases /\ held \subseteq Resources
  BY DEF DriverInv, TypeOK
<1>2. CASE PublishCtx
  BY <1>1, <1>2 DEF PublishCtx, HeldAtStage, Phases, Published, WfpStages, Base
<1>3. CASE AddSublayer \/ RegisterCallout
  <2>1. /\ thr \in {"sublayer", "callout"} /\ thr' \in {"stopEngine", "commit", "callout"}
        /\ UNCHANGED <<unloading, held, gKnd>>
    BY <1>3 DEF AddSublayer, RegisterCallout
  <2> QED
    BY <1>1, <2>1 DEF HeldAtStage, Phases, Published, WfpStages, Base
<1>4. CASE Commit
  <2>1. /\ thr = "commit" /\ thr' \in {"stopEngine", "loaded"}
        /\ held' \in {held, held \ {"tx"}} /\ UNCHANGED <<unloading, gKnd>>
    BY <1>4 DEF Commit
  <2> QED
    BY <1>1, <2>1 DEF HeldAtStage, Phases, Published, WfpStages, Base
<1>5. CASE StopEngine
  <2>1. /\ thr = "stopEngine" /\ thr' = "unregister"
        /\ held' = held \ {"engine", "tx"} /\ UNCHANGED <<unloading, gKnd>>
    BY <1>5 DEF StopEngine
  <2> QED
    BY <1>1, <2>1 DEF HeldAtStage, Phases, Published, WfpStages, Base, Resources
<1>6. CASE Unregister \/ UnregisterBusy
  <2>1. UNCHANGED <<thr, held, unloading, gKnd>>
    BY <1>6 DEF Unregister, Unregistered, UnregisterBusy
  <2> QED
    BY <1>1, <2>1 DEF HeldAtStage, Phases
<1>7. CASE StopDone
  <2>1. /\ thr = "unregister" /\ thr' = (IF unloading THEN "freeSymlink" ELSE "unpublish")
        /\ held' = held \ {"redirect"} /\ UNCHANGED <<unloading, gKnd>>
    BY <1>7 DEF StopDone
  <2> QED
    BY <1>1, <2>1 DEF HeldAtStage, Phases, Published, WfpStages, Base
<1>8. CASE FreeSymlink
  <2>1. /\ thr = "freeSymlink" /\ thr' = "freeRing"
        /\ held' = held \ {"symlink", "device"} /\ UNCHANGED <<unloading, gKnd>>
    BY <1>8 DEF FreeSymlink
  <2> QED
    BY <1>1, <2>1 DEF HeldAtStage, Phases, Published, WfpStages, Base, RingParts
<1>9. CASE FreeRing
  <2>1. userVa = NoProc
    BY <1>9 DEF FreeRing, DriverInv, MappingOwned, TypeOK
  <2>2. /\ thr = "freeRing" /\ thr' = (IF unloading THEN "unpublish" ELSE "freeCtx")
        /\ held' = held \ {"mdl", "pool"} /\ UNCHANGED <<unloading, gKnd>>
    BY <1>9, <2>1 DEF FreeRing
  <2> QED
    BY <1>1, <2>2 DEF HeldAtStage, Phases, Published, WfpStages, RingParts
<1>10. CASE Unpublish
  <2>1. /\ thr = "unpublish" /\ thr' = (IF unloading THEN "freeCtx" ELSE "freeSymlink")
        /\ gKnd' = FALSE /\ UNCHANGED <<unloading, held>>
    BY <1>10 DEF Unpublish
  <2> QED
    BY <1>1, <2>1 DEF HeldAtStage, Phases, Published, WfpStages, Base
<1>11. CASE FreeCtx
  <2>1. /\ thr = "freeCtx" /\ thr' = "unloaded" /\ held' = held \ {"ctx"}
        /\ unloading' = FALSE /\ UNCHANGED gKnd
    BY <1>11 DEF FreeCtx
  <2> QED
    BY <1>1, <2>1 DEF HeldAtStage, Phases, Published, WfpStages
<1> QED
  BY <1>2, <1>3, <1>4, <1>5, <1>6, <1>7, <1>8, <1>9, <1>10, <1>11 DEF StopStep, FreeStep

(* What is held, and where the context is published, after any step.       *)
LEMMA HeldStep == DriverInv /\ [Next]_vars => HeldAtStage' /\ Phases'
<1> SUFFICES ASSUME DriverInv, [Next]_vars PROVE HeldAtStage' /\ Phases'
  OBVIOUS
<1>1. HeldAtStage /\ Phases
  BY DEF DriverInv
<1>2. CASE Load
  BY <1>1, <1>2 DEF Load, HeldAtStage, Phases, Published, WfpStages
<1>3. CASE Unload
  BY <1>1, <1>3 DEF Unload, HeldAtStage, Phases, Published, WfpStages
<1>4. CASE Thread
  BY <1>4, EntryHolds, ThreadHolds DEF Thread, EntryStep
<1>5. CASE UNCHANGED <<thr, unloading, held, gKnd>>
  BY <1>1, <1>5 DEF HeldAtStage, Phases
<1>6. CASE UNCHANGED vars
  BY <1>5, <1>6 DEF vars, threadVars
<1> QED
  BY <1>2, <1>3, <1>4, <1>5, <1>6, OutsideFrame DEF Next
-----------------------------------------------------------------------------
(* What WFP has.                                                           *)

(* The interval of callouts still to be unregistered shrinks by the one    *)
(* KndWfpStop just took back, and grows by the one just registered.        *)
LEMMA CalloutIntervals ==
  /\ \A i, n \in Nat : i <= n => (i .. n) \ {i} = (i + 1) .. n
  /\ \A n \in Nat : (1 .. n) \cup {n + 1} = 1 .. (n + 1)
  /\ \A i, n \in Nat : i > n => i .. n = {}
  /\ 1 .. 0 = {}
OBVIOUS

(* DriverEntry, KndWfpStart and KndWfpStop keep NumCallouts and WFP's own  *)
(* list in step, wherever a registration fails.                            *)
LEMMA ThreadCallouts ==
  ASSUME DriverInv, Thread
  PROVE  CalloutsKnown'
<1>0. CalloutsKnown /\ numCallouts \in Nat /\ stopIdx \in Nat /\ LastCallout \in Nat \ {0}
  BY DriverAssumption DEF DriverInv, TypeOK
<1>1. ASSUME NEW r \in DOMAIN After, Acquire(r) \/ AcquireFails(r) PROVE CalloutsKnown'
  <2>1. /\ thr = r /\ r \notin WfpStages
        /\ thr' # "unregister" /\ thr' # "commit" /\ thr' # "loaded"
        /\ thr' # "callout"
        /\ UNCHANGED <<numCallouts, registered, abandoned, stopIdx, objects>>
    BY <1>1 DEF Acquire, AcquireFails, After, WfpStages, WfpVars, StopVars
  <2>2. numCallouts = 0 /\ registered \subseteq abandoned /\ objects # "pending"
    BY <1>0, <2>1 DEF CalloutsKnown, WfpStages
  <2> QED
    BY <1>0, <2>1, <2>2, CalloutIntervals DEF CalloutsKnown
<1>2. CASE PublishCtx
  BY <1>0, <1>2 DEF PublishCtx, CalloutsKnown, WfpVars, StopVars, WfpStages
<1>a. CASE AddSublayer
  <2>1. /\ thr = "sublayer" /\ thr' \in {"callout", "stopEngine"}
        /\ UNCHANGED <<numCallouts, registered, abandoned>>
    BY <1>a DEF AddSublayer, StopVars
  <2>2. numCallouts = 0 /\ registered \subseteq abandoned
    BY <1>0, <2>1 DEF CalloutsKnown, WfpStages
  <2> QED
    BY <1>0, <2>1, <2>2 DEF CalloutsKnown, WfpStages
<1>3. CASE RegisterCallout
  <2>1. /\ thr = "callout" /\ thr' \in {"stopEngine", "commit", "callout"}
        /\ abandoned' = abandoned
    BY <1>3 DEF RegisterCallout, StopVars
  <2>2. numCallouts < LastCallout /\ registered \subseteq abandoned \cup (1 .. numCallouts)
    BY <1>0, <2>1 DEF CalloutsKnown, WfpStages
  <2>3. \/ UNCHANGED <<numCallouts, registered>> /\ thr' = "stopEngine"
        \/ /\ numCallouts' = numCallouts + 1 /\ registered' = registered \cup {numCallouts + 1}
           /\ thr' = "callout" => numCallouts' # LastCallout
    BY <1>3 DEF RegisterCallout
  <2>4. thr' = "callout" => numCallouts' < LastCallout
    BY <1>0, <2>2, <2>3
  <2>5. registered' \subseteq abandoned' \cup (1 .. numCallouts')
    <3>1. CASE UNCHANGED <<numCallouts, registered>>
      BY <2>1, <2>2, <3>1
    <3>2. CASE numCallouts' = numCallouts + 1 /\ registered' = registered \cup {numCallouts + 1}
      BY <1>0, <2>1, <2>2, <3>2, CalloutIntervals
    <3> QED
      BY <2>3, <3>1, <3>2
  <2> QED
    BY <2>1, <2>4, <2>5 DEF CalloutsKnown, WfpStages
<1>4. CASE Commit
  BY <1>0, <1>4 DEF Commit, CalloutsKnown, StopVars, WfpStages
<1>5. CASE StopEngine
  BY <1>0, <1>5 DEF StopEngine, CalloutsKnown, WfpStages
<1>6. CASE Unregister
  <2>1. /\ thr = "unregister" /\ thr' = thr /\ stopIdx <= numCallouts
        /\ registered' = registered \ {stopIdx} /\ stopIdx' = stopIdx + 1
        /\ UNCHANGED <<numCallouts, abandoned, objects>>
    BY <1>6 DEF Unregister, Unregistered
  <2>2. registered' \subseteq abandoned' \cup (stopIdx' .. numCallouts')
    BY <1>0, <2>1, CalloutIntervals DEF CalloutsKnown
  <2> QED
    BY <1>0, <2>1, <2>2 DEF CalloutsKnown, WfpStages
<1>7. CASE UnregisterBusy
  <2>1. /\ thr = "unregister" /\ thr' = thr /\ stopIdx <= numCallouts
        /\ UNCHANGED <<numCallouts, registered, objects>>
        /\ \/ UNCHANGED <<stopIdx, abandoned>>
           \/ stopIdx' = stopIdx + 1 /\ abandoned' = abandoned \cup {stopIdx}
    BY <1>7 DEF UnregisterBusy, WfpVars
  <2>2. registered' \subseteq abandoned' \cup (stopIdx' .. numCallouts')
    BY <1>0, <2>1, CalloutIntervals DEF CalloutsKnown
  <2> QED
    BY <1>0, <2>1, <2>2 DEF CalloutsKnown, WfpStages
<1>8. CASE StopDone
  <2>1. /\ thr = "unregister" /\ thr' \in {"freeSymlink", "unpublish"} /\ numCallouts' = 0
        /\ stopIdx > numCallouts /\ UNCHANGED <<registered, abandoned, objects>>
    BY <1>8 DEF StopDone, StopVars
  <2>2. registered \subseteq abandoned /\ objects # "pending"
    BY <1>0, <2>1, CalloutIntervals DEF CalloutsKnown
  <2> QED
    BY <2>1, <2>2 DEF CalloutsKnown, WfpStages
<1>9. CASE FreeStep
  <2>1. /\ thr \notin WfpStages /\ thr' \notin WfpStages
        /\ UNCHANGED <<numCallouts, registered, abandoned, stopIdx, objects>>
    BY <1>9 DEF FreeStep, FreeSymlink, FreeRing, Unpublish, FreeCtx, WfpVars, StopVars, WfpStages
  <2> QED
    BY <1>0, <2>1 DEF CalloutsKnown, WfpStages
<1> QED
  BY <1>1, <1>2, <1>a, <1>3, <1>4, <1>5, <1>6, <1>7, <1>8, <1>9 DEF Thread, EntryStep, StopStep

(* NumCallouts matches WFP's list after any step.                          *)
LEMMA CalloutsStep == DriverInv /\ [Next]_vars => CalloutsKnown'
<1> SUFFICES ASSUME DriverInv, [Next]_vars PROVE CalloutsKnown'
  OBVIOUS
<1>1. CalloutsKnown
  BY DEF DriverInv
<1>2. CASE Load
  BY <1>1, <1>2 DEF Load, CalloutsKnown, WfpVars, StopVars, WfpStages
<1>3. CASE Unload
  BY <1>1, <1>3 DEF Unload, CalloutsKnown, WfpVars, StopVars, WfpStages
<1>4. CASE Thread
  BY <1>4, ThreadCallouts
<1>5. CASE UNCHANGED <<thr, numCallouts, registered, stopIdx, abandoned, objects>>
  BY <1>1, <1>5 DEF CalloutsKnown
<1>6. CASE UNCHANGED vars
  BY <1>5, <1>6 DEF vars, threadVars
<1> QED
  BY <1>2, <1>3, <1>4, <1>5, <1>6, OutsideFrame DEF Next

(* FwpsCalloutUnregisterById0 never takes a callout whose callback runs,   *)
(* so a running callback's callout stays known whatever else happens.      *)
LEMMA CallbacksStep == DriverInv /\ [Next]_vars => CallbacksKnown'
<1> SUFFICES ASSUME DriverInv, [Next]_vars PROVE CallbacksKnown'
  OBVIOUS
<1>0. /\ CallbacksKnown /\ cb \in [Cpus -> 0 .. LastCallout] /\ cbCtx \in [Cpus -> BOOLEAN]
      /\ LastCallout \in Nat
  BY DriverAssumption DEF DriverInv, TypeOK
<1>1. CASE UNCHANGED <<cb, cbCtx>> /\ registered \subseteq registered'
  BY <1>0, <1>1 DEF CallbacksKnown
<1>2. CASE Unregister
  <2>1. /\ UNCHANGED <<cb, cbCtx>> /\ registered' = registered \ {stopIdx}
        /\ \A c \in Cpus : cb[c] # stopIdx
    BY <1>2 DEF Unregister, Unregistered, Busy, Running, Others, cbVars
  <2> QED
    BY <1>0, <2>1 DEF CallbacksKnown
<1>3. CASE Thread /\ ~ Unregister
  <2>1. UNCHANGED <<cb, cbCtx>>
    BY <1>3, ThreadFrame
  <2>2. registered \subseteq registered'
    BY <1>3 DEF Thread, EntryStep, Acquire, AcquireFails, PublishCtx, AddSublayer, RegisterCallout,
                Commit, StopStep, StopEngine, UnregisterBusy, StopDone, FreeStep, FreeSymlink, FreeRing,
                Unpublish, FreeCtx, WfpVars
  <2> QED
    BY <1>1, <2>1, <2>2
<1>4. CASE Load \/ Unload \/ AskUnload \/ UNCHANGED vars
  BY <1>1, <1>4 DEF Load, Unload, AskUnload, vars, threadVars, cbVars, WfpVars, Others
<1>5. ASSUME NEW c \in Cpus, NEW i \in Callouts, CallbackBegins(c, i) PROVE CallbacksKnown'
  <2>1. /\ cb' = [cb EXCEPT ![c] = i] /\ cbCtx' = [cbCtx EXCEPT ![c] = gKnd]
        /\ i \in registered /\ registered' = registered /\ i # 0
    BY <1>5 DEF CallbackBegins, threadVars, Callouts
  <2> QED
    BY <1>0, <2>1 DEF CallbacksKnown
<1>6. ASSUME NEW c \in Cpus, CallbackReturns(c) PROVE CallbacksKnown'
  <2>1. /\ cb' = [cb EXCEPT ![c] = 0] /\ cbCtx' = [cbCtx EXCEPT ![c] = FALSE]
        /\ registered' = registered
    BY <1>6 DEF CallbackReturns, threadVars
  <2> QED
    BY <1>0, <2>1 DEF CallbacksKnown
<1>7. ASSUME NEW p \in Procs, Client(p) PROVE CallbacksKnown'
  BY <1>1, <1>7 DEF Client, OpenDevice, MapRing, CloseUnmap, CloseDevice, cbVars, threadVars
<1> QED
  BY <1>2, <1>3, <1>4, <1>5, <1>6, <1>7 DEF Next
-----------------------------------------------------------------------------
(* The mapping.                                                            *)

(* A process that maps, unmaps or closes leaves the one mapping with a     *)
(* process that has a handle; the thread only moves on from "loaded" when  *)
(* there is none (src/driver/ioctl.c, KndMapRingToUser and KndCleanup).    *)
LEMMA MappingStep == DriverInv /\ [Next]_vars => MappingOwned'
<1> SUFFICES ASSUME DriverInv, [Next]_vars PROVE MappingOwned'
  OBVIOUS
<1>0. /\ MappingOwned /\ handle \in [Procs -> BOOLEAN] /\ userVa \in Procs \cup {NoProc}
      /\ view \in [Procs -> {"none", "mapped", "closing"}] /\ NoProc \notin Procs
  BY DriverAssumption DEF DriverInv, TypeOK
<1>1. CASE UNCHANGED <<handle, view, userVa, thr>>
  BY <1>0, <1>1 DEF MappingOwned
<1>2. CASE UNCHANGED <<handle, view, userVa>> /\ \A p \in Procs : ~ handle[p]
  BY <1>0, <1>2 DEF MappingOwned
<1>3. CASE Thread
  <2>1. UNCHANGED <<handle, view, userVa>> /\ thr # "loaded"
    BY <1>3, ThreadFrame
  <2> QED
    BY <1>0, <1>2, <2>1 DEF MappingOwned
<1>4. CASE Load
  BY <1>0, <1>2, <1>4 DEF Load, procVars, MappingOwned
<1>5. CASE Unload
  BY <1>2, <1>5 DEF Unload, procVars, Others
<1>6. CASE AskUnload \/ UNCHANGED vars
  BY <1>1, <1>6 DEF AskUnload, vars, threadVars, procVars
<1>7. ASSUME NEW c \in Cpus, (\E i \in Callouts : CallbackBegins(c, i)) \/ CallbackReturns(c)
      PROVE  MappingOwned'
  BY <1>1, <1>7 DEF CallbackBegins, CallbackReturns, threadVars, procVars
<1>8. ASSUME NEW p \in Procs, OpenDevice(p) PROVE MappingOwned'
  <2>1. /\ thr = "loaded" /\ handle' = [handle EXCEPT ![p] = TRUE]
        /\ UNCHANGED <<thr, view, userVa>>
    BY <1>8 DEF OpenDevice, threadVars
  <2> QED
    BY <1>0, <2>1 DEF MappingOwned
<1>9. ASSUME NEW p \in Procs, MapRing(p) PROVE MappingOwned'
  <2>1. /\ handle[p] /\ userVa \in {NoProc, p} /\ userVa' = p
        /\ view' = [view EXCEPT ![p] = "mapped"] /\ UNCHANGED <<thr, handle>>
    BY <1>9 DEF MapRing, threadVars
  <2> QED
    BY <1>0, <2>1 DEF MappingOwned
<1>10. ASSUME NEW p \in Procs, CloseUnmap(p) PROVE MappingOwned'
  <2>1. /\ userVa' = (IF userVa = p THEN NoProc ELSE userVa)
        /\ view' = [view EXCEPT ![p] = "closing"] /\ UNCHANGED <<thr, handle>>
    BY <1>10 DEF CloseUnmap, UnmapFrom, threadVars
  <2> QED
    BY <1>0, <2>1 DEF MappingOwned
<1>11. ASSUME NEW p \in Procs, CloseDevice(p) PROVE MappingOwned'
  <2>1. /\ userVa' = (IF userVa = p THEN NoProc ELSE userVa)
        /\ view' = [view EXCEPT ![p] = "none"] /\ handle' = [handle EXCEPT ![p] = FALSE]
        /\ thr' = thr
    BY <1>11 DEF CloseDevice, UnmapFrom, threadVars
  <2> QED
    BY <1>0, <2>1 DEF MappingOwned
<1> QED
  BY <1>3, <1>4, <1>5, <1>6, <1>7, <1>8, <1>9, <1>10, <1>11 DEF Next, Client

-----------------------------------------------------------------------------
(* Types.                                                                  *)

(* The thread's own variables keep their types on each of its steps; that  *)
(* NumCallouts stays within its array rests on CalloutsKnown.              *)
LEMMA ThreadTypes ==
  ASSUME DriverInv, Thread
  PROVE  /\ thr' \in Stages /\ held' \subseteq Resources
         /\ numCallouts' \in 0 .. LastCallout /\ registered' \subseteq Callouts
         /\ abandoned' \subseteq Callouts /\ objects' \in {"none", "pending", "committed"}
         /\ stopIdx' \in Nat /\ tries' \in Nat
         /\ unloading' \in BOOLEAN /\ gKnd' \in BOOLEAN /\ unloadAsked' \in BOOLEAN
<1> DEFINE Nums == /\ numCallouts' \in 0 .. LastCallout /\ registered' \subseteq Callouts
                   /\ abandoned' \subseteq Callouts /\ objects' \in {"none", "pending", "committed"}
                   /\ stopIdx' \in Nat /\ tries' \in Nat
           Flags == unloading' \in BOOLEAN /\ gKnd' \in BOOLEAN /\ unloadAsked' \in BOOLEAN
           Holds == thr' \in Stages /\ held' \subseteq Resources
<1>0. /\ thr \in Stages /\ held \subseteq Resources /\ numCallouts \in 0 .. LastCallout
      /\ registered \subseteq Callouts /\ stopIdx \in Nat /\ tries \in Nat
      /\ abandoned \subseteq Callouts /\ objects \in {"none", "pending", "committed"}
      /\ LastCallout \in Nat \ {0} /\ MaxTries \in Nat
  BY DriverAssumption DEF DriverInv, TypeOK, Stages
<1>a. unloading \in BOOLEAN /\ gKnd \in BOOLEAN /\ unloadAsked \in BOOLEAN
  BY DEF DriverInv, TypeOK
<1>1. ASSUME NEW r \in DOMAIN After, Acquire(r) \/ AcquireFails(r)
      PROVE  Nums /\ Flags /\ Holds
  <2>1. UNCHANGED <<unloading, gKnd, numCallouts, registered, objects, stopIdx, tries, abandoned,
                    unloadAsked>>
    BY <1>1 DEF Acquire, AcquireFails, WfpVars, StopVars, Others, cbVars
  <2>2. held' \subseteq held \cup {r} /\ r \in Resources
    BY <1>1, AfterStages DEF Acquire, AcquireFails
  <2>3. thr' \in Stages
    BY <1>1, AfterStages DEF Acquire, AcquireFails, Stages
  <2> QED
    BY <1>0, <1>a, <2>1, <2>2, <2>3
<1>2. CASE PublishCtx \/ AddSublayer \/ Commit \/ StopEngine \/ StopDone \/ FreeStep
  <2>1. /\ registered' = registered /\ numCallouts' \in {0, numCallouts}
        /\ stopIdx' \in {stopIdx, 1} /\ tries' \in {tries, 0} /\ abandoned' = abandoned
        /\ objects' \in {objects, "none", "pending", "committed"}
    BY <1>2 DEF PublishCtx, AddSublayer, Commit, StopEngine, StopDone, FreeStep, FreeSymlink, FreeRing, Unpublish,
                FreeCtx, WfpVars, StopVars
  <2>2. /\ unloading' \in {unloading, FALSE} /\ gKnd' \in {gKnd, TRUE, FALSE}
        /\ unloadAsked' \in {unloadAsked, FALSE}
    BY <1>2 DEF PublishCtx, AddSublayer, Commit, StopEngine, StopDone, FreeStep, FreeSymlink, FreeRing, Unpublish,
                FreeCtx, WfpVars, StopVars, Others, cbVars
  <2>3. held' \subseteq held
    BY <1>2 DEF PublishCtx, AddSublayer, Commit, StopEngine, StopDone, FreeStep, FreeSymlink, FreeRing, Unpublish,
                FreeCtx
  <2>4. thr' \in Stages
    BY <1>2 DEF PublishCtx, AddSublayer, Commit, StopEngine, StopDone, FreeStep, FreeSymlink, FreeRing, Unpublish,
                FreeCtx, Stages, Resources
  <2>5. Nums
    BY <1>0, <2>1
  <2>6. Flags
    BY <1>a, <2>2
  <2> QED
    BY <1>0, <2>3, <2>4, <2>5, <2>6
<1>3. CASE RegisterCallout
  <2>1. thr = "callout" /\ numCallouts < LastCallout
    BY <1>3 DEF RegisterCallout, DriverInv, CalloutsKnown
  <2>2. /\ UNCHANGED <<unloading, gKnd, objects, abandoned, unloadAsked, stopIdx, tries, held>>
        /\ thr' \in {"stopEngine", "commit", "callout"}
        /\ \/ UNCHANGED <<numCallouts, registered>>
           \/ numCallouts' = numCallouts + 1 /\ registered' = registered \cup {numCallouts + 1}
    BY <1>3 DEF RegisterCallout, StopVars, Others, cbVars
  <2>3. numCallouts + 1 \in 1 .. LastCallout
    BY <1>0, <2>1
  <2>4. numCallouts' \in 0 .. LastCallout /\ registered' \subseteq Callouts
    <3>1. CASE UNCHANGED <<numCallouts, registered>>
      BY <1>0, <3>1
    <3>2. CASE numCallouts' = numCallouts + 1 /\ registered' = registered \cup {numCallouts + 1}
      BY <1>0, <2>3, <3>2 DEF Callouts
    <3> QED
      BY <2>2, <3>1, <3>2
  <2>5. Nums
    BY <1>0, <2>2, <2>4
  <2>6. Flags
    BY <1>a, <2>2
  <2> QED
    BY <1>0, <2>2, <2>5, <2>6 DEF Stages
<1>4. CASE Unregister
  <2>1. /\ UNCHANGED <<thr, held, unloading, gKnd, numCallouts, objects, abandoned, unloadAsked>>
        /\ registered' = registered \ {stopIdx} /\ stopIdx' = stopIdx + 1 /\ tries' = 0
    BY <1>4 DEF Unregister, Unregistered, Others
  <2>2. Flags
    BY <1>a, <2>1
  <2> QED
    BY <1>0, <2>1, <2>2
<1>5. CASE UnregisterBusy
  <2>1. /\ UNCHANGED <<thr, held, unloading, gKnd, numCallouts, registered, objects, unloadAsked>>
        /\ stopIdx' \in {stopIdx, stopIdx + 1} /\ tries' \in {tries + 1, 0}
        /\ abandoned' \in {abandoned, abandoned \cup {stopIdx}}
    BY <1>5 DEF UnregisterBusy, WfpVars, Others
  <2>2. 1 <= stopIdx /\ stopIdx <= numCallouts
    BY <1>5 DEF UnregisterBusy, DriverInv, CalloutsKnown
  <2>3. abandoned' \subseteq Callouts
    BY <1>0, <2>1, <2>2 DEF Callouts
  <2>4. Flags
    BY <1>a, <2>1
  <2> QED
    BY <1>0, <2>1, <2>3, <2>4
<1> QED
  BY <1>1, <1>2, <1>3, <1>4, <1>5 DEF Thread, EntryStep, StopStep

(* Every variable keeps its type on every step.                            *)
LEMMA TypeStep == DriverInv /\ [Next]_vars => TypeOK'
<1> SUFFICES ASSUME DriverInv, [Next]_vars PROVE TypeOK'
  OBVIOUS
<1>0. TypeOK
  BY DEF DriverInv
<1>1. /\ cb \in [Cpus -> 0 .. LastCallout] /\ cbCtx \in [Cpus -> BOOLEAN]
      /\ handle \in [Procs -> BOOLEAN] /\ view \in [Procs -> {"none", "mapped", "closing"}]
      /\ userVa \in Procs \cup {NoProc} /\ loads \in Nat /\ gKnd \in BOOLEAN
      /\ associated \subseteq StreamCallouts /\ unloadAsked \in BOOLEAN
  BY <1>0 DEF TypeOK
<1>2. CASE Thread
  <2>1. UNCHANGED <<cb, cbCtx, associated, handle, view, userVa, loads>>
    BY <1>2, ThreadFrame
  <2> QED
    BY <1>1, <1>2, <2>1, ThreadTypes DEF TypeOK, Stages
<1>3. CASE Load
  <2>1. /\ thr' = "ctx" /\ unloading' = FALSE /\ loads' = loads + 1
        /\ UNCHANGED <<held, gKnd, numCallouts, registered, objects, stopIdx, tries, abandoned, cb,
                       cbCtx, associated, handle, view, userVa, unloadAsked>>
    BY <1>3 DEF Load, WfpVars, StopVars, cbVars, procVars
  <2>2. unloading' \in BOOLEAN
    BY <2>1
  <2>3. thr' \in Resources /\ loads' \in Nat
    BY <1>1, <2>1 DEF Resources
  <2> QED
    BY <1>0, <2>1, <2>2, <2>3 DEF TypeOK
<1>4. CASE Unload
  <2>1. /\ thr' = "stopEngine" /\ unloading' = TRUE
        /\ UNCHANGED <<held, gKnd, numCallouts, registered, objects, stopIdx, tries, abandoned, cb,
                       cbCtx, associated, handle, view, userVa, unloadAsked, loads>>
    BY <1>4 DEF Unload, WfpVars, StopVars, Others, cbVars, procVars
  <2>2. unloading' \in BOOLEAN
    BY <2>1
  <2> QED
    BY <1>0, <2>1, <2>2 DEF TypeOK
<1>5. CASE UNCHANGED vars
  BY <1>0, <1>5 DEF TypeOK, vars, threadVars, cbVars, procVars
<1>6. ASSUME UNCHANGED <<thr, unloading, held, gKnd, numCallouts, registered, objects, stopIdx,
                         tries, abandoned, loads>>,
             cb' \in [Cpus -> 0 .. LastCallout], cbCtx' \in [Cpus -> BOOLEAN],
             handle' \in [Procs -> BOOLEAN], view' \in [Procs -> {"none", "mapped", "closing"}],
             userVa' \in Procs \cup {NoProc}, associated' \subseteq StreamCallouts,
             unloadAsked' \in BOOLEAN
      PROVE  TypeOK'
  BY <1>0, <1>6 DEF TypeOK
<1>7. CASE AskUnload
  <2>1. unloadAsked' = TRUE /\ UNCHANGED <<cb, cbCtx, associated, handle, view, userVa>>
    BY <1>7 DEF AskUnload, cbVars, procVars
  <2>2. unloadAsked' \in BOOLEAN
    BY <2>1
  <2> QED
    BY <1>1, <1>6, <1>7, <2>1, <2>2, OutsideFrame
<1>8. ASSUME NEW c \in Cpus, NEW i \in Callouts, CallbackBegins(c, i) PROVE TypeOK'
  <2>1. /\ cb' = [cb EXCEPT ![c] = i] /\ cbCtx' = [cbCtx EXCEPT ![c] = gKnd]
        /\ UNCHANGED <<associated, handle, view, userVa, unloadAsked>>
    BY <1>8 DEF CallbackBegins, procVars
  <2>2. cb' \in [Cpus -> 0 .. LastCallout]
    BY <1>1, <2>1, DriverAssumption DEF Callouts
  <2>3. cbCtx' \in [Cpus -> BOOLEAN]
    BY <1>1, <2>1
  <2> QED
    BY <1>1, <1>6, <1>8, <2>1, <2>2, <2>3, OutsideFrame
<1>9. ASSUME NEW c \in Cpus, CallbackReturns(c) PROVE TypeOK'
  <2>1. /\ cb' = [cb EXCEPT ![c] = 0] /\ cbCtx' = [cbCtx EXCEPT ![c] = FALSE]
        /\ \/ associated' \subseteq associated
           \/ \E s \in StreamCallouts : associated' = associated \cup {s}
        /\ UNCHANGED <<handle, view, userVa, unloadAsked>>
    BY <1>9 DEF CallbackReturns, Attachable, procVars
  <2>2. cb' \in [Cpus -> 0 .. LastCallout]
    BY <1>1, <2>1, DriverAssumption
  <2>3. cbCtx' \in [Cpus -> BOOLEAN]
    BY <1>1, <2>1
  <2>4. associated' \subseteq StreamCallouts
    BY <1>1, <2>1
  <2> QED
    BY <1>1, <1>6, <1>9, <2>1, <2>2, <2>3, <2>4, OutsideFrame
<1>10. ASSUME NEW p \in Procs, Client(p) PROVE TypeOK'
  <2>1. UNCHANGED <<cb, cbCtx, associated, unloadAsked>>
    BY <1>10 DEF Client, OpenDevice, MapRing, CloseUnmap, CloseDevice, cbVars
  <2>2. handle' = handle \/ handle' = [handle EXCEPT ![p] = TRUE]
                         \/ handle' = [handle EXCEPT ![p] = FALSE]
    BY <1>10 DEF Client, OpenDevice, MapRing, CloseUnmap, CloseDevice
  <2>3. \/ view' = view \/ view' = [view EXCEPT ![p] = "mapped"]
        \/ view' = [view EXCEPT ![p] = "closing"] \/ view' = [view EXCEPT ![p] = "none"]
    BY <1>10 DEF Client, OpenDevice, MapRing, CloseUnmap, CloseDevice
  <2>4. userVa' \in {userVa, p, NoProc}
    BY <1>10 DEF Client, OpenDevice, MapRing, CloseUnmap, CloseDevice, UnmapFrom
  <2>5. handle' \in [Procs -> BOOLEAN]
    BY <1>1, <2>2
  <2>6. view' \in [Procs -> {"none", "mapped", "closing"}]
    BY <1>1, <2>3
  <2>7. userVa' \in Procs \cup {NoProc}
    BY <1>1, <2>4
  <2> QED
    BY <1>1, <1>6, <1>10, <2>1, <2>5, <2>6, <2>7, OutsideFrame
<1> QED
  BY <1>2, <1>3, <1>4, <1>5, <1>7, <1>8, <1>9, <1>10 DEF Next

-----------------------------------------------------------------------------
(* The inductive invariant of the driver's life: what is held, published,  *)
(* registered, running and mapped at each place of DriverEntry and         *)
(* KndUnload.                                                              *)
THEOREM DriverCorrect == Spec => []DriverInv
<1>1. DriverInv /\ [Next]_vars => DriverInv'
  BY TypeStep, HeldStep, CalloutsStep, CallbacksStep, MappingStep DEF DriverInv
<1> QED
  BY DriverInit, <1>1, PTL DEF Spec

(* The driver's variables keep their types: NumCallouts never passes the   *)
(* callouts there are.                                                     *)
THEOREM DriverTyped == Spec => []TypeOK
<1>1. DriverInv => TypeOK
  BY DEF DriverInv
<1> QED
  BY <1>1, DriverCorrect, PTL

(* A WFP callback that found the context works on memory that is still     *)
(* there, at every place of DriverEntry's failure path and of KndUnload,   *)
(* unless KndWfpStop's retry loop gave up on that very callout (as it does *)
(* on a stream callout whose captured flows live on).                      *)
THEOREM NoUseAfterFree == Spec => []DrainedBeforeFree
<1>1. DriverInv => DrainedBeforeFree
  <2> SUFFICES ASSUME DriverInv, NEW c \in Cpus, cbCtx[c], cb[c] \notin abandoned
               PROVE  {"ctx", "pool", "mdl"} \subseteq held
    BY DEF DrainedBeforeFree
  <2>1. cb[c] \in registered \ abandoned
    BY DEF DriverInv, CallbacksKnown
  <2>2. thr \in WfpStages
    BY <2>1 DEF DriverInv, CalloutsKnown
  <2> QED
    BY <2>2 DEF DriverInv, HeldAtStage, Published, Base
<1> QED
  BY <1>1, DriverCorrect, PTL

(* The ring a consumer looks at is mapped into it alone, and its pages and *)
(* the device behind it are there.                                         *)
THEOREM ViewsBacked == Spec => []ViewIsBacked
<1>1. DriverInv => ViewIsBacked
  <2> SUFFICES ASSUME DriverInv, NEW p \in Procs, view[p] = "mapped"
               PROVE  userVa = p /\ handle[p] /\ {"ctx", "pool", "mdl", "device"} \subseteq held
    BY DEF ViewIsBacked
  <2>1. userVa = p /\ handle[p] /\ thr = "loaded"
    BY DriverAssumption DEF DriverInv, MappingOwned
  <2> QED
    BY <2>1 DEF DriverInv, HeldAtStage, Published, WfpStages, Base
<1> QED
  BY <1>1, DriverCorrect, PTL

(* However loading failed and whatever ran during the unload, an unloaded  *)
(* driver has released every handle and allocation it acquired, has left   *)
(* no transaction open, and WFP has only the callouts its retry loop gave  *)
(* up on.  What it committed to the filtering engine stays there.          *)
THEOREM ReleasesAll == Spec => []ReleasesItsOwn
<1>1. DriverInv => ReleasesItsOwn
  <2> SUFFICES ASSUME DriverInv, thr = "unloaded"
               PROVE  /\ held = {} /\ ~ gKnd /\ userVa = NoProc /\ numCallouts = 0
                      /\ registered \subseteq abandoned /\ objects # "pending"
    BY DEF ReleasesItsOwn
  <2>1. held = {} /\ ~ gKnd
    BY DEF DriverInv, HeldAtStage, Phases, Published, WfpStages
  <2>2. userVa = NoProc
    BY DEF DriverInv, MappingOwned, TypeOK
  <2>3. numCallouts = 0 /\ registered \subseteq abandoned /\ objects # "pending"
    BY DEF DriverInv, CalloutsKnown, WfpStages
  <2> QED
    BY <2>1, <2>2, <2>3
<1> QED
  BY <1>1, DriverCorrect, PTL
=============================================================================
