---------------------------- MODULE AssetStorage ----------------------------
(***************************************************************************)
(* The storage half of the asset system (pulse_asset/src/asset_storage.cpp):*)
(* one bucket of slots per asset type with a free list and generations, the *)
(* path cache, the graph of committed dependencies, and the unloading of    *)
(* slots, which cascades from an asset to the assets it depended on.        *)
(*                                                                          *)
(* destroy_slot and detach_committed_dependencies call each other through   *)
(* try_unload_slot.  The variable unload is the stack of those nested       *)
(* calls, so a cascade is a run of the actions DestroyEnter, DetachNext and *)
(* DestroyDone; while it is not empty no other action is enabled.           *)
(***************************************************************************)
EXTENDS Integers, Sequences, FiniteSets

CONSTANTS
    Types,              \* the registered asset types (type_id)
    Paths,              \* the normalised paths that are ever requested
    MaxSlots,           \* bound: slots a bucket may grow to
    GenerationModulus,  \* 2^32 in the code: a generation is a uint32_t
    NoHandle,           \* the invalid handle
    NoPath              \* no path, or the name of a builder asset: never in the cache

ASSUME StorageAssumption ==
    /\ Types # {}
    /\ MaxSlots \in Nat \ {0}
    /\ GenerationModulus \in Nat \ {0, 1}
    /\ NoPath \notin Paths

VARIABLES
    slots,   \* AssetBucket::slots of every bucket; index 0, never used, is left out
    size,    \* how many slots each bucket has grown to
    free,    \* AssetBucket::free_indices, last in first out
    cache,   \* PathCache::entries_, NoHandle where there is no entry
    unload   \* the nested destroy_slot calls, innermost last

storageVars == <<slots, size, free, cache, unload>>

Index == 1..MaxSlots
Key == Types \X Index
Handle == [type: Types, index: Index, generation: Nat]

ASSUME NoHandleAssumption == NoHandle \notin Handle

\* AssetSystem::is_load_in_progress_state
InProgress == {"WAITING_LOAD", "LOADING", "WAITING_DEPENDENCIES", "PROCESSING"}
States == InProgress \cup {"EMPTY", "LOADED", "FAILED", "PENDING_DELETE"}

Slot == [generation: Nat, state: States, pin: Nat, path: Paths \cup {NoPath},
         constructed: BOOLEAN, retiring: BOOLEAN,
         dependencies: SUBSET Handle, dependents: SUBSET Handle]

\* A destroy_slot call: before its own effects ("enter"), then with the
\* dependencies that are still to be detached.  reuse: the caller pushes the
\* index on the free list when the call returns.
DestroyFrame == [handle: Handle, at: {"enter", "detach"},
                 rest: SUBSET Handle, reuse: BOOLEAN]

EmptySlot(g) ==
    [generation |-> g, state |-> "EMPTY", pin |-> 0, path |-> NoPath,
     constructed |-> FALSE, retiring |-> FALSE,
     dependencies |-> {}, dependents |-> {}]

StorageTypeOK ==
    /\ slots \in [Key -> Slot]
    /\ size \in [Types -> 0..MaxSlots]
    /\ free \in [Types -> Seq(Index)]
    /\ cache \in [Types \X Paths -> Handle \cup {NoHandle}]
    /\ unload \in Seq(DestroyFrame)

StorageInit ==
    /\ slots = [k \in Key |-> EmptySlot(1)]
    /\ size = [t \in Types |-> 0]
    /\ free = [t \in Types |-> <<>>]
    /\ cache = [tp \in Types \X Paths |-> NoHandle]
    /\ unload = <<>>

KeyOf(h) == <<h.type, h.index>>
HandleAt(s, k) == [type |-> k[1], index |-> k[2], generation |-> s[k].generation]

\* AssetStorage::get_slot finds a slot for h.
Resolves(s, h) == h # NoHandle /\ s[KeyOf(h)].generation = h.generation

StateOf(s, h) == IF Resolves(s, h) THEN s[KeyOf(h)].state ELSE "EMPTY"

\* Assets that exist: their handles are what a client can hold.
Live(s) == {HandleAt(s, k) : k \in {k2 \in Key : s[k2].state # "EMPTY"}}

-----------------------------------------------------------------------------
(* DependencyGraph                                                          *)

\* DependencyGraph::evaluate: optional dependencies never fail or delay a load.
DepsFailed(s, required) ==
    \E d \in required : StateOf(s, d) \in {"EMPTY", "FAILED"}

\* Mutant: a dependency that is still loading counts as ready.
DepsReadyLoading(s, required) ==
    \A d \in required : StateOf(s, d) \in InProgress \cup {"LOADED"}

DepsReady(s, required) ==
    \A d \in required : StateOf(s, d) = "LOADED"

\* The dependencies of h that commit records: the ones that still exist.
Committable(s, deps) == {d \in deps : Resolves(s, d)}

\* DependencyGraph::commit.  A handle is committed once, when its load is
\* done, so the detaching of earlier dependencies finds none.
Commit(s, h, deps) ==
    LET ds == Committable(s, deps)
    IN  IF ~Resolves(s, h) THEN s
        ELSE [k \in Key |->
                [s[k] EXCEPT
                    !.dependencies = IF k = KeyOf(h) THEN ds ELSE @,
                    !.dependents = IF HandleAt(s, k) \in ds THEN @ \cup {h} ELSE @]]

\* DependencyGraph::pin_committed_dependencies for a slot with dependencies ds.
PinCommitted(s, ds) ==
    [k \in Key |->
        IF HandleAt(s, k) \in ds /\ s[k].state = "LOADED"
        THEN [s[k] EXCEPT !.pin = @ + 1] ELSE s[k]]

\* Mutant: pin_count is decremented without looking whether it is 0.
UnpinUnchecked(s, ds) ==
    [k \in Key |-> IF HandleAt(s, k) \in ds THEN [s[k] EXCEPT !.pin = @ - 1] ELSE s[k]]

\* Mutant: the pins of the dependencies are not given back.
UnpinNothing(s, ds) == s

\* DependencyGraph::unpin_committed_dependencies.
UnpinCommitted(s, ds) ==
    [k \in Key |->
        IF HandleAt(s, k) \in ds /\ s[k].pin > 0
        THEN [s[k] EXCEPT !.pin = @ - 1] ELSE s[k]]

\* Mutant: the dependents keep h among their dependencies.
DetachDependentsOneSided(s, h) == [s EXCEPT ![KeyOf(h)].dependents = {}]

\* detach_dependents_from_slot: force_destroy_assets takes h out of the graph
\* on the side of its dependents.
DetachDependents(s, h) ==
    [k \in Key |->
        [s[k] EXCEPT
            !.dependencies = IF HandleAt(s, k) \in s[KeyOf(h)].dependents
                             THEN @ \ {h} ELSE @,
            !.dependents = IF k = KeyOf(h) THEN {} ELSE @]]

-----------------------------------------------------------------------------
(* Allocation and unloading of slots                                        *)

\* The index allocate_slot hands out: the last free one, else a new slot.
CanAllocate(t) == free[t] # <<>> \/ size[t] < MaxSlots
AllocIndex(t) == IF free[t] # <<>> THEN free[t][Len(free[t])] ELSE size[t] + 1
Grows(t) == free[t] = <<>>

FreshSlot(g, p) ==
    [EmptySlot(g) EXCEPT !.state = "WAITING_LOAD", !.path = p]

\* The bookkeeping of allocate_slot; the caller stores the FreshSlot.
TakeIndex(t) ==
    IF Grows(t)
    THEN size' = [size EXCEPT ![t] = @ + 1] /\ UNCHANGED free
    ELSE free' = [free EXCEPT ![t] = SubSeq(@, 1, Len(@) - 1)] /\ UNCHANGED size

\* destroy_slot: generation 0 is skipped, it would make a handle invalid.
NextGeneration(g) ==
    IF (g + 1) % GenerationModulus = 0 THEN 1 ELSE (g + 1) % GenerationModulus

DestroyCall(h, reuse) ==
    [handle |-> h, at |-> "enter", rest |-> {}, reuse |-> reuse]

\* Mutant: only loaded assets are unloaded, failed ones stay.
TryUnloadLoadedOnly(s, h) ==
    IF StateOf(s, h) = "LOADED" /\ s[KeyOf(h)].pin = 0 /\ s[KeyOf(h)].dependents = {}
    THEN <<DestroyCall(h, TRUE)>> ELSE <<>>

\* Mutant: the pin count is not looked at.
TryUnloadPinned(s, h) ==
    IF Resolves(s, h) /\ s[KeyOf(h)].dependents = {}
    THEN <<DestroyCall(h, TRUE)>> ELSE <<>>

\* try_unload_slot: the calls it starts, none when the slot is still used.
\* Neither the slot's state nor a load in flight is looked at.
TryUnload(s, h) ==
    IF Resolves(s, h) /\ s[KeyOf(h)].pin = 0 /\ s[KeyOf(h)].dependents = {}
    THEN <<DestroyCall(h, TRUE)>> ELSE <<>>

Frame == unload[Len(unload)]
Callers == SubSeq(unload, 1, Len(unload) - 1)

\* Mutant: the path stays in the cache.
DestroyEnterKeepsPath ==
    /\ unload # <<>> /\ Frame.at = "enter"
    /\ unload' = Append(Callers, [Frame EXCEPT !.at = "detach",
                                  !.rest = slots[KeyOf(Frame.handle)].dependencies])
    /\ UNCHANGED <<slots, size, free, cache>>

\* destroy_slot up to its loop: the path leaves the cache if it is this
\* asset's, and the type's destroy callback runs on a constructed asset.
DestroyEnter ==
    /\ unload # <<>> /\ Frame.at = "enter"
    /\ LET k == KeyOf(Frame.handle)
       IN  /\ cache' = [tp \in DOMAIN cache |->
                          IF tp = <<k[1], slots[k].path>> /\ cache[tp] = Frame.handle
                          THEN NoHandle ELSE cache[tp]]
           /\ unload' = Append(Callers, [Frame EXCEPT !.at = "detach",
                                                      !.rest = slots[k].dependencies])
    /\ UNCHANGED <<slots, size, free>>

\* One turn of detach_committed_dependencies: a dependency that lost its last
\* dependent and has no pin is unloaded by a nested call.
DetachNext ==
    /\ unload # <<>> /\ Frame.at = "detach"
    /\ \E d \in Frame.rest :
         LET s == IF Resolves(slots, d)
                  THEN [slots EXCEPT ![KeyOf(d)].dependents = @ \ {Frame.handle}]
                  ELSE slots
         IN  /\ slots' = s
             /\ unload' = Append(Callers, [Frame EXCEPT !.rest = @ \ {d}])
                             \o TryUnload(s, d)
    /\ UNCHANGED <<size, free, cache>>

\* destroy_slot after its loop: the slot is reset under a new generation, and
\* try_unload_slot or force_destroy_assets makes the index free.
DestroyDone ==
    /\ unload # <<>> /\ Frame.at = "detach" /\ Frame.rest = {}
    /\ LET k == KeyOf(Frame.handle)
       IN  /\ slots' = [slots EXCEPT ![k] = EmptySlot(NextGeneration(@.generation))]
           /\ free' = IF Frame.reuse THEN [free EXCEPT ![k[1]] = Append(@, k[2])] ELSE free
    /\ unload' = Callers
    /\ UNCHANGED <<size, cache>>

UnloadStep == DestroyEnter \/ DetachNext \/ DestroyDone
=============================================================================
