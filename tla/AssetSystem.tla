----------------------------- MODULE AssetSystem -----------------------------
(***************************************************************************)
(* The asset system (pulse_asset/src/asset.cpp, asset_plugin.cpp) on top of *)
(* its storage and load queue: the requests clients make, from the          *)
(* application or from inside a loader's callbacks, the reference counts    *)
(* they hold, forced unloading and shutdown.                                *)
(***************************************************************************)
EXTENDS LoadQueue

CONSTANTS
    CallbackOps,     \* <<callback, request>> pairs: what loaders call, and where
    Requirements,    \* the dependency requirements in use
    MayDepend,       \* <<t, u>>: assets of type t name assets of type u
    ForcedTypes,     \* the types whose plugin calls force_unload_assets
    SameTypeNested,  \* whether a callback may request an asset of its own type
    EarlyRetain,     \* whether clients retain an asset that is still loading
    MaxGeneration,   \* bound: the last generation a slot is allocated with
    MaxHeld,         \* bound: references a client holds on one asset
    MaxDeps,         \* bound: dependencies of one request or job
    MaxCalls         \* bound: nested callbacks

Requests == {"load", "build", "retain", "release", "add"}

ASSUME SystemAssumption ==
    /\ CallbackOps \subseteq {"ctor", "step", "dtor"} \X Requests
    /\ Requirements \subseteq {"required", "optional"}
    /\ MayDepend \subseteq Types \X Types
    /\ ForcedTypes \subseteq Types
    /\ SameTypeNested \in BOOLEAN
    /\ EarlyRetain \in BOOLEAN
    /\ MaxGeneration \in Nat /\ MaxGeneration + 1 < GenerationModulus
    /\ MaxHeld \in Nat /\ MaxDeps \in Nat /\ MaxCalls \in Nat

VARIABLE
    held     \* history: the references that clients own on the asset in a slot

vars == <<slots, size, free, cache, unload, jobs, calls, main, held>>

TypeOK ==
    /\ StorageTypeOK
    /\ QueueTypeOK
    /\ held \in [Key -> Nat]

Init ==
    /\ StorageInit
    /\ QueueInit
    /\ held = [k \in Key |-> 0]

\* A request reaches the system from the application while no loop runs, or
\* from a loader callback.
ApiOpen(request) ==
    \/ InMain("idle")
    \/ \E op \in {"ctor", "step", "dtor"} :
          InCallback(op) /\ <<op, request>> \in CallbackOps

-----------------------------------------------------------------------------
(* load_impl                                                                *)

\* What an asset of type t may depend on: existing assets, or the invalid
\* handle a failed request returned.
Dependable(t) ==
    {d \in Live(slots) : <<t, d.type>> \in MayDepend} \cup {NoHandle}

DependencyLists(t) ==
    LET some == {ds \in SUBSET Dependable(t) : Cardinality(ds) <= MaxDeps}
    IN  {[required |-> r, optional |-> o] :
            r \in IF "required" \in Requirements THEN some ELSE {{}},
            o \in IF "optional" \in Requirements THEN some ELSE {{}}}

\* cached_slot_can_be_reused.
CacheHit(t, p) == cache[<<t, p>>] # NoHandle
                  /\ Resolves(slots, cache[<<t, p>>])
                  /\ StateOf(slots, cache[<<t, p>>]) # "PENDING_DELETE"

NewKey(t) == <<t, AllocIndex(t)>>
NewHandle(t) == HandleAt(slots, NewKey(t))

\* emplace_back of a slot moves the slots of the bucket: the references that
\* running callbacks of the type have below them are gone.
MovedCalls(t) ==
    [i \in DOMAIN calls |->
        IF Grows(t) /\ calls[i].op # "build" /\ calls[i].handle.type = t
        THEN [calls[i] EXCEPT !.dangling = TRUE] ELSE calls[i]]

CanRequest(t) ==
    /\ CanAllocate(t)
    /\ slots[NewKey(t)].generation <= MaxGeneration
    /\ SameTypeNested \/ \A i \in DOMAIN calls : calls[i].handle.type # t

\* choose_initial_phase, then init_load_job, which fails when the settings
\* cannot be copied.
InitialState(deps, settingsOk) ==
    CASE DepsFailed(slots, deps.required) \/ ~settingsOk -> "FAILED"
      [] ~DepsFailed(slots, deps.required) /\ settingsOk
         /\ ~DepsReady(slots, deps.required) -> "WAITING_DEPENDENCIES"
      [] OTHER -> "WAITING_LOAD"

NewSlots(t, p, state) ==
    [slots EXCEPT ![NewKey(t)] =
        [FreshSlot(@.generation, p) EXCEPT !.state = state, !.pin = 1]]

NewJob(t, deps, state) ==
    [handle |-> NewHandle(t), outcome |-> "None", built |-> FALSE,
     phase |-> IF state = "WAITING_DEPENDENCIES" THEN "WaitingDependencies" ELSE "PendingRead",
     required |-> deps.required, optional |-> deps.optional]

\* load and load_from_memory.  A request that finds its path in the cache, or
\* is refused, changes nothing.
Load(t, p, skipCache, deps, settingsOk) ==
    /\ ApiOpen("load") /\ CanRequest(t)
    /\ skipCache \/ ~CacheHit(t, p)
    /\ LET state == InitialState(deps, settingsOk)
       IN  /\ slots' = NewSlots(t, p, state)
           /\ jobs' = IF state = "FAILED" THEN jobs
                      ELSE Append(jobs, NewJob(t, deps, state))
    /\ cache' = [cache EXCEPT ![<<t, p>>] = NewHandle(t)]
    /\ calls' = MovedCalls(t)
    /\ TakeIndex(t)
    /\ held' = [held EXCEPT ![NewKey(t)] = 1]
    /\ UNCHANGED <<unload, main>>

\* The effect of release on the slots: the pin and, in cascade, the pins of
\* the committed dependencies; a load in progress is marked for deletion.
ReleaseSlots(s, h) ==
    LET k == KeyOf(h)
        s1 == [s EXCEPT ![k].pin = @ - 1]
        s2 == UnpinCommitted(s1, s1[k].dependencies)
    IN  IF s2[k].pin = 0 /\ (s2[k].retiring \/ s2[k].state \in InProgress)
        THEN SetState(s2, h, "PENDING_DELETE") ELSE s2

\* Mutant: release unloads an asset that is still loading.
ReleaseUnloadAtOnce(s, h) == TryUnload(ReleaseSlots(s, h), h)

ReleaseUnload(s, h) ==
    IF s[KeyOf(h)].retiring \/ s[KeyOf(h)].state \in InProgress THEN <<>>
    ELSE TryUnload(ReleaseSlots(s, h), h)

CanRelease(s, h) == Resolves(s, h) /\ s[KeyOf(h)].pin > 0

\* build_asset.  A request that fails at once gives its own pin back; one that
\* need not wait is processed before the request returns.
Build(t, deps, settingsOk) ==
    /\ ApiOpen("build") /\ CanRequest(t) /\ Len(calls) < MaxCalls
    /\ LET state == InitialState(deps, settingsOk)
           s == NewSlots(t, NoPath, state)
           h == NewHandle(t)
       IN  IF state = "FAILED"
           THEN /\ slots' = ReleaseSlots(s, h)
                /\ unload' = ReleaseUnload(s, h)
                /\ calls' = MovedCalls(t)
                /\ UNCHANGED <<jobs, held>>
           ELSE /\ slots' = s
                /\ jobs' = Append(jobs, NewJob(t, deps, state))
                /\ calls' = IF state = "WAITING_LOAD"
                            THEN Append(MovedCalls(t), [NewCall("build", h) EXCEPT !.chain = TRUE])
                            ELSE MovedCalls(t)
                /\ held' = [held EXCEPT ![NewKey(t)] = 1]
                /\ UNCHANGED unload
    /\ TakeIndex(t)
    /\ UNCHANGED <<cache, main>>

\* process_immediate_builder calls process_job ...
BuildProcess ==
    /\ InCallback("build") /\ Top.chain
    /\ \E i \in JobsOf(Top.handle) :
          ProcessJob(i, Append(Below, [Top EXCEPT !.chain = FALSE]))
    /\ UNCHANGED <<size, free, cache, unload, main, held>>

\* ... and retires the job if that finished it.
BuildAfter ==
    /\ InCallback("build") /\ ~Top.chain /\ ~Top.settled
    /\ \E i \in JobsOf(Top.handle) :
          IF Terminal(jobs[i])
          THEN Retire(i, Append(Below, [Top EXCEPT !.settled = TRUE,
                                                   !.outcome = jobs[i].outcome]))
          ELSE calls' = Below /\ UNCHANGED <<slots, jobs, unload>>
    /\ UNCHANGED <<size, free, cache, main, held>>

\* release_failed_builder after a Failed or Cancelled outcome.
BuildReturn ==
    /\ InCallback("build") /\ Top.settled
    /\ calls' = Below
    /\ LET h == Top.handle
       IN  IF Top.outcome \in {"Failed", "Cancelled"} /\ CanRelease(slots, h)
           THEN /\ slots' = ReleaseSlots(slots, h)
                /\ unload' = ReleaseUnload(slots, h)
                /\ held' = [held EXCEPT ![KeyOf(h)] = IF @ > 0 THEN @ - 1 ELSE 0]
           ELSE UNCHANGED <<slots, unload, held>>
    /\ UNCHANGED <<size, free, cache, jobs, main>>

-----------------------------------------------------------------------------
(* References and dependencies                                              *)

\* retain refuses an asset that is gone or marked for deletion.
Retain(h) ==
    /\ ApiOpen("retain")
    /\ LET k == KeyOf(h)
           s == [slots EXCEPT ![k].pin = @ + 1]
       IN  /\ slots[k].state # "PENDING_DELETE"
           /\ EarlyRetain \/ slots[k].state \notin InProgress
           /\ held[k] < MaxHeld
           /\ slots' = PinCommitted(s, s[k].dependencies)
           /\ held' = [held EXCEPT ![k] = @ + 1]
    /\ UNCHANGED <<size, free, cache, unload, jobs, calls, main>>

\* release, and pulse_asset_system_cancel.  Clients give back what they hold;
\* with no pin left the call is refused as an over-release.
Release(h) ==
    /\ ApiOpen("release")
    /\ held[KeyOf(h)] > 0
    /\ held' = [held EXCEPT ![KeyOf(h)] = @ - 1]
    /\ IF CanRelease(slots, h)
       THEN slots' = ReleaseSlots(slots, h) /\ unload' = ReleaseUnload(slots, h)
       ELSE UNCHANGED <<slots, unload>>
    /\ UNCHANGED <<size, free, cache, jobs, calls, main>>

\* pulse_asset_load_task_add_dependency: only a running step has a hint.  A
\* second declaration can only make a dependency required.
AddDependency(d, requirement) ==
    /\ InCallback("step") /\ <<"step", "add">> \in CallbackOps
    /\ \E i \in JobsOf(Top.handle) :
       LET j == jobs[i]
       IN  /\ d \in Dependable(Top.handle.type)
           /\ Cardinality(j.required \cup j.optional \cup {d}) <= MaxDeps
           /\ d \notin j.required
           /\ requirement = "optional" => d \notin j.optional
           /\ jobs' = IF requirement = "required"
                      THEN [jobs EXCEPT ![i].required = @ \cup {d}, ![i].optional = @ \ {d}]
                      ELSE [jobs EXCEPT ![i].optional = @ \cup {d}]
    /\ UNCHANGED <<slots, size, free, cache, unload, calls, main, held>>

-----------------------------------------------------------------------------
(* Forced unloading and shutdown                                            *)

\* force_unload_assets, from the application (a plugin's shutdown hook).
ForceUnload(t) ==
    /\ InMain("idle")
    /\ size[t] > 0
    /\ main' = [Idle EXCEPT !.op = "cancelType", !.type = t]
    /\ UNCHANGED <<slots, size, free, cache, unload, jobs, calls, held>>

\* force_destroy_assets.
DestroyTypeNext ==
    /\ InMain("destroyType")
    /\ LET k == <<main.type, main.index>>
           h == HandleAt(slots, k)
       IN  IF main.index \notin 1..size[main.type]
           THEN main' = Idle /\ UNCHANGED <<slots, unload>>
           ELSE /\ main' = [main EXCEPT !.index = @ + 1]
                /\ IF slots[k].state = "EMPTY" THEN UNCHANGED <<slots, unload>>
                   ELSE /\ slots' = DetachDependents(slots, h)
                        /\ unload' = <<DestroyCall(h, TRUE)>>
    /\ UNCHANGED <<size, free, cache, jobs, calls, held>>

\* AssetSystem::shutdown: cancel_all finishes every job first.
Shutdown ==
    /\ InMain("idle")
    /\ main' = [Idle EXCEPT !.op = "cancelAll", !.index = 1, !.todo = Types]
    /\ jobs' = [i \in DOMAIN jobs |-> [jobs[i] EXCEPT !.outcome = "Cancelled"]]
    /\ slots' = [k \in Key |->
                   IF \E i \in DOMAIN jobs : jobs[i].handle = HandleAt(slots, k)
                   THEN [slots[k] EXCEPT !.state = "FAILED"] ELSE slots[k]]
    /\ UNCHANGED <<size, free, cache, unload, calls, held>>

\* destroy_all_assets: buckets in the order of the hash table, slots in order.
DestroyAllNext ==
    /\ InMain("destroyAll")
    /\ \/ /\ main.index = 0
          /\ \E t \in main.todo : main' = [main EXCEPT !.type = t, !.index = 1, !.todo = @ \ {t}]
          /\ UNCHANGED <<slots, size, free, cache, unload>>
       \/ /\ main.index > size[main.type]
          /\ main' = [main EXCEPT !.index = 0]
          /\ UNCHANGED <<slots, size, free, cache, unload>>
       \/ /\ main.index \in 1..size[main.type]
          /\ main' = [main EXCEPT !.index = @ + 1]
          /\ unload' = <<DestroyCall(HandleAt(slots, <<main.type, main.index>>), FALSE)>>
          /\ UNCHANGED <<slots, size, free, cache>>
       \/ /\ main.index = 0 /\ main.todo = {}
          /\ main' = [Idle EXCEPT !.op = "down"]
          /\ slots' = [k \in Key |-> EmptySlot(1)]
          /\ size' = [t \in Types |-> 0]
          /\ free' = [t \in Types |-> <<>>]
          /\ cache' = [tp \in Types \X Paths |-> NoHandle]
          /\ UNCHANGED unload
    /\ UNCHANGED <<jobs, calls, held>>

-----------------------------------------------------------------------------

\* The storage's own steps; a destroyed asset takes the references along.
Unload ==
    \/ (DestroyEnter \/ DetachNext) /\ UNCHANGED <<jobs, calls, main, held>>
    \/ /\ DestroyDone
       /\ held' = [held EXCEPT ![KeyOf(Frame.handle)] = 0]
       /\ UNCHANGED <<jobs, calls, main>>

Queue ==
    /\ \/ CtorReturn \/ DtorReturn \/ \E status \in Statuses : StepReturn(status)
       \/ Process \/ DrainLoads \/ LoopPick \/ LoopAfter \/ ProcessEnd \/ DrainPassEnd
       \/ CancelTypeNext \/ CancelAllNext
    /\ UNCHANGED held

\* What continues work that has begun: no client decides about it.
Internal ==
    \/ Unload \/ Queue
    \/ BuildProcess \/ BuildAfter \/ BuildReturn
    \/ DestroyTypeNext \/ DestroyAllNext

Client ==
    \/ \E t \in Types : \E deps \in DependencyLists(t), settingsOk \in BOOLEAN :
          \/ Build(t, deps, settingsOk)
          \/ \E p \in Paths, skipCache \in BOOLEAN :
                Load(t, p, skipCache, deps, settingsOk)
    \/ \E h \in Live(slots) : Retain(h) \/ Release(h)
    \/ \E d \in Live(slots) \cup {NoHandle}, r \in Requirements : AddDependency(d, r)
    \/ \E t \in ForcedTypes : ForceUnload(t)
    \/ Shutdown

Stopped == main.op = "down" /\ UNCHANGED vars

Next == Internal \/ Client \/ Stopped

Spec == Init /\ [][Next]_vars

\* The step of the asset in slot k finishes.
StepFinishes(k) ==
    /\ calls # <<>> /\ KeyOf(Top.handle) = k
    /\ \E status \in {"DONE", "FAILED"} \cap Statuses : StepReturn(status)
    /\ UNCHANGED held

\* Running code goes on, the application keeps updating (the ECS runs
\* process_load_requests in every frame), and a loader that is stepped again
\* and again finishes some time.
Fairness ==
    /\ WF_vars(Internal)
    /\ SF_vars(Process /\ UNCHANGED held)
    /\ \A k \in Key : SF_vars(StepFinishes(k))

FairSpec == Spec /\ Fairness
-----------------------------------------------------------------------------
(* Properties                                                               *)

\* Between two storage calls of a running system, that is: no destroy_slot is
\* half done and shutdown has not begun to destroy slots behind the graph.
Settled == unload = <<>> /\ main.op \notin {"destroyAll", "down"}

\* The thread is back in the application.
Quiet == InMain("idle")

\* The two directions of the dependency graph agree and only name existing
\* assets: commit, detach_committed_dependencies and
\* detach_dependents_from_slot edit opposite ends of an edge, in cascades.
GraphSymmetric ==
    Settled =>
      \A k \in Key :
        /\ \A d \in slots[k].dependencies :
              d \in Live(slots) /\ HandleAt(slots, k) \in slots[KeyOf(d)].dependents
        /\ \A p \in slots[k].dependents :
              p \in Live(slots) /\ HandleAt(slots, k) \in slots[KeyOf(p)].dependencies

\* The free list holds exactly the unused slots, each once: no slot is handed
\* out twice (allocate_slot) and none is lost (try_unload_slot,
\* force_destroy_assets).
FreeListExact ==
    Settled =>
      \A t \in Types :
        /\ \A i, j \in DOMAIN free[t] : free[t][i] = free[t][j] => i = j
        /\ {free[t][i] : i \in DOMAIN free[t]}
             = {i \in 1..size[t] : slots[<<t, i>>].state = "EMPTY"}

\* The path cache never answers a request with a dead handle or another
\* path's asset: destroy_slot takes the entry away exactly when it is its own.
CacheLive ==
    Settled =>
      \A t \in Types, p \in Paths :
        cache[<<t, p>>] # NoHandle =>
          /\ cache[<<t, p>>] \in Live(slots)
          /\ cache[<<t, p>>].type = t
          /\ slots[KeyOf(cache[<<t, p>>])].path = p

\* Slots come and go without losing an index or answering for another asset.
StorageExact == FreeListExact /\ CacheLive

\* An asset that is loading has exactly one unfinished job working on it, so
\* no load is forgotten and none runs twice.
LoadHasJob ==
    main.op \notin {"destroyAll", "down"} =>
      \A k \in Key :
        slots[k].state \in InProgress =>
          Cardinality({i \in DOMAIN jobs : jobs[i].handle = HandleAt(slots, k)
                                           /\ ~Terminal(jobs[i])}) = 1

\* An unfinished job always works on its own asset: the slot is not unloaded,
\* and not given to another asset, behind a queued or running load
\* (try_unload_slot does not look for one).
JobHasAsset ==
    main.op \notin {"cancelAll", "destroyAll", "down"} =>
      \A i \in DOMAIN jobs :
        ~Terminal(jobs[i]) =>
          /\ Resolves(slots, jobs[i].handle)
          /\ slots[KeyOf(jobs[i].handle)].state \in InProgress \cup {"PENDING_DELETE"}

\* Nobody has a pin on an asset marked for deletion, so it cannot come back:
\* retain and pin_committed_dependencies both pass it by.
PendingDeleteUnpinned ==
    \A k \in Key : slots[k].state = "PENDING_DELETE" => slots[k].pin = 0

\* Jobs and loading assets belong to each other one to one, until the end.
JobsMatch == LoadHasJob /\ JobHasAsset /\ PendingDeleteUnpinned

\* Back in the application nothing is left behind: an asset that exists is
\* pinned, or something depends on it, or it still has a job.
NothingLeaked ==
    Quiet =>
      \A h \in Live(slots) :
        \/ slots[KeyOf(h)].pin > 0
        \/ slots[KeyOf(h)].dependents # {}
        \/ \E i \in DOMAIN jobs : jobs[i].handle = h

\* A loaded asset's dependencies are loaded, for as long as it exists.
LoadedDependencies ==
    Settled =>
      \A k \in Key :
        slots[k].state = "LOADED" =>
          \A d \in slots[k].dependencies : StateOf(slots, d) = "LOADED"

\* destroy_slot is never entered for an asset it is already destroying: the
\* cascade ends and every destroy callback runs once.
NoReentrantDestroy ==
    \A i, j \in DOMAIN unload : unload[i].handle = unload[j].handle => i = j

\* Pins are accounted for: the references clients hold on the asset and on
\* the assets that depend on it, because retain and release cascade.
HeldSum(hs) ==
    MapThenSumSet(LAMBDA h : held[KeyOf(h)], hs)

PinsAccounted ==
    Settled =>
      \A h \in Live(slots) :
        slots[KeyOf(h)].pin = held[KeyOf(h)] + HeldSum(slots[KeyOf(h)].dependents)

\* The asset that forced unloading or shutdown itself destroys now.
Forced == main.op \in {"destroyAll", "down"} \/ (main.op = "destroyType" /\ Len(unload) = 1)

\* A reference keeps its asset: only forced unloading destroys an asset that a
\* client holds.
HeldAssetsStay ==
    [][\A k \in Key :
         slots'[k].generation # slots[k].generation /\ ~Forced => held[k] = 0]_vars

\* An asset that no client holds, that nothing depends on and that no job
\* works on is gone when the thread is back in the application.
UnreferencedGoes ==
    Quiet =>
      \A h \in Live(slots) :
        \/ held[KeyOf(h)] > 0
        \/ slots[KeyOf(h)].dependents # {}
        \/ \E i \in DOMAIN jobs : jobs[i].handle = h

\* drain_loads, at the end of start-up, returns only when it can do no more: no
\* load is left unstarted, or waiting for its start, whose dependencies are
\* settled.  What is left is up to a loader that asked to be called again.
DrainCompletes ==
    [][main.op = "drain" /\ main'.op = "idle" =>
         \A i \in DOMAIN jobs' :
           ~jobs'[i].built =>
             /\ jobs'[i].phase = "WaitingDependencies"
             /\ ~DepsFailed(slots', jobs'[i].required)
             /\ ~DepsReady(slots', jobs'[i].required)]_vars

\* Every load comes to an end: it is loaded, it fails, or it is cancelled.
LoadsSettle ==
    \A k \in Key : slots[k].state \in InProgress ~> slots[k].state \notin InProgress

\* A cancelled load stays cancelled: after PENDING_DELETE an asset is at most
\* marked failed before it goes.
CancelIsFinal ==
    [][\A k \in Key :
         slots[k].state = "PENDING_DELETE" =>
           slots'[k].state \in {"PENDING_DELETE", "FAILED", "EMPTY"}]_vars
=============================================================================
