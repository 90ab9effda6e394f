---------------------------- MODULE RenderGraph ----------------------------
(***************************************************************************)
(* The render graph of pulse_graphics: callers declare resources and       *)
(* record passes, the compiler culls the passes nothing needs and gives    *)
(* every managed resource a life from its first to its last pass, and the  *)
(* executor takes objects for them from the pools of the frame slot,       *)
(* places barriers, and records the commands that the GPU runs later.      *)
(*                                                                         *)
(* One frame slot is modelled.  A frame is recorded, compiled, turned into *)
(* commands and run by the GPU; the next frame of the slot begins after    *)
(* its fence, as frame_data::begin_frame waits for it.                     *)
(***************************************************************************)
EXTENDS Integers, Sequences, FiniteSets, SequencesExt, FiniteSetsExt

CONSTANTS
    Textures,       \* textures of the asset system that callers import
    Buffers,        \* buffers of the asset system that callers import
    Backbuffer,     \* the image of the window that is presented
    Mips,           \* mip levels of a texture of Textures
    MaxObjects,     \* bound: objects the pools ever hold
    MaxAge,         \* frames an object stays unused in a pool
    MaxPasses,      \* bound: passes of one frame
    Setups,         \* bound: what callers declare and import, in order
    MaxUses,        \* bound: builder calls on one pass
    MaxEdges,       \* bound: edges callers record, over all frames
    MultiTarget,    \* a pass may write a managed texture beside other outputs
    StorageRepeats  \* several passes of a frame may read-write buffers

ASSUME RenderGraphAssumption ==
    /\ Mips \in Nat \ {0}
    /\ {MaxObjects, MaxAge, MaxPasses, MaxUses, MaxEdges} \subseteq Nat
    /\ {MultiTarget, StorageRepeats} \subseteq BOOLEAN
    /\ Textures \cap Buffers = {}
    /\ Backbuffer \notin Textures \cup Buffers
    /\ (Textures \cup Buffers \cup {Backbuffer}) \cap Nat = {}

VARIABLES
    phase,      \* what the slot is doing with the frame
    resources,  \* impl->resources without the dummy of index 0
    passes,     \* impl->passes with their edges
    spent,      \* edges of the frames before this one
    refs,       \* ref_count of every node of the compiler
    stack,      \* cullingStack
    next,       \* the pass the executor is at
    bound,      \* managered_texture / managed_buffer of every resource
    pool,       \* free objects of the slot's pools, with the frames they waited
    made,       \* the class of every object the pools ever made
    tracked,    \* p_cur_states / cur_state: what the executor believes
    consistent, \* states_consistent of the textures
    staged,     \* the pass whose data the CPU last copied into a staging object
    cmds,       \* the recorded commands the GPU has not run
    layout,     \* the state every object really is in on the GPU
    content,    \* the pass that last wrote every object on the GPU
    access,     \* how every object was last accessed on the GPU
    done,       \* the last pass whose commands the GPU ran
    seen        \* what every pass read

recorded == <<resources, passes, spent>>
compiled == <<refs, stack>>
cpu == <<next, bound, pool, made, tracked, consistent, staged>>
gpu == <<cmds, layout, content, access, done, seen>>
vars == <<phase, recorded, compiled, cpu, gpu>>

-----------------------------------------------------------------------------
(* Resources, objects, and the spots of an object that have a state.       *)

Objects == 1..MaxObjects
Imported == Textures \cup Buffers \cup {Backbuffer}
Places == Imported \cup Objects
Subs(o) == IF o \in Textures THEN 1..Mips ELSE {1}

None == 0       \* no object, no pass
Whole == 0      \* the sub of a resource that is not a SubResource

Managed(class, hold) ==
    [class |-> class, manage |-> "Managed", of |-> None, sub |-> Whole, hold |-> hold]
ImportOf(class, o) ==
    [class |-> class, manage |-> "Imported", of |-> o, sub |-> Whole, hold |-> FALSE]
SubOf(r, mip) ==
    [resources[r] EXCEPT !.manage = "SubResource", !.sub = mip]

IsManaged(r) == resources[r].manage = "Managed"
IsTexture(r) == resources[r].class \in {"texture", "depth"}
Place(r) == IF IsManaged(r) THEN bound[r] ELSE resources[r].of
SubsOf(r) == IF resources[r].sub = Whole THEN Subs(resources[r].of) ELSE {resources[r].sub}

\* Where the data of r lives for a caller, and where it lives for the GPU.
Locs(r) == {<<IF IsManaged(r) THEN r ELSE resources[r].of, s>> : s \in SubsOf(r)}
Spots(r) == {<<Place(r), s>> : s \in SubsOf(r)}

Edge(r, usage) == [res |-> r, usage |-> usage]
Ends(edges) == {edges[i].res : i \in DOMAIN edges}
Edges(p) == passes[p].reads \o passes[p].writes
Readers(r) == {p \in DOMAIN passes : r \in Ends(passes[p].reads)}
Writers(r) == {p \in DOMAIN passes : r \in Ends(passes[p].writes)}

-----------------------------------------------------------------------------
(* Recording: the calls of a record callback.                              *)

Recording == phase = "record"
KeepSlot == UNCHANGED <<phase, spent, compiled, next, bound, pool, made, staged, gpu>>
Quiet == KeepSlot /\ UNCHANGED <<tracked, consistent>>

\* Bound: callers name their resources before their passes, as in Setups.
Declare(rs) ==
    /\ Recording
    /\ passes = <<>>
    /\ \E setup \in Setups : IsPrefix(rs, setup)
    /\ resources' = rs
    /\ UNCHANGED passes

DeclareTexture(class) == Declare(Append(resources, Managed(class, FALSE))) /\ Quiet
DeclareBuffer == Declare(Append(resources, Managed("buffer", FALSE))) /\ Quiet

\* A texture that is imported already keeps its dynamic_handle: no new node.
ImportTexture(t) ==
    /\ \A r \in DOMAIN resources : resources[r].of # t
    /\ Declare(Append(resources, ImportOf("texture", t)))
    /\ Quiet

\* A buffer gets a node for every import.
ImportBuffer(b) == Declare(Append(resources, ImportOf("buffer", b))) /\ Quiet

\* The image of the window: the call pushes a node it never uses before it
\* imports the image, and forgets the state of the image.
WithBackbuffer ==
    LET stray == Append(resources, Managed("texture", FALSE))
    IN  IF \E r \in DOMAIN resources : resources[r].of = Backbuffer
        THEN stray
        ELSE Append(stray, ImportOf("texture", Backbuffer))
ForgetBackbuffer ==
    /\ tracked' = [tracked EXCEPT ![Backbuffer][1] = "undefined"]
    /\ consistent' = [consistent EXCEPT ![Backbuffer] = TRUE]

ImportBackbuffer == Declare(WithBackbuffer) /\ ForgetBackbuffer /\ KeepSlot

EdgeCount == FoldSeq(LAMBDA p, n : n + Len(p.reads) + Len(p.writes), spent, passes)
MayAdd(edges) ==
    /\ Recording
    /\ Len(passes) < MaxPasses
    /\ passes # <<>> => Edges(Len(passes)) # <<>>
    /\ EdgeCount + edges <= MaxEdges

Pass(type, reads, writes, staging) ==
    [type |-> type, reads |-> reads, writes |-> writes, staging |-> staging]

AddPass(type) ==
    /\ MayAdd(1)
    /\ passes' = Append(passes, Pass(type, <<>>, <<>>, None))
    /\ UNCHANGED resources
    /\ Quiet

\* A builder call on the pass that was added last.  A caller names a location
\* once in a pass (it cannot sample what it renders to).
Attach(types, r, reads, writes) ==
    /\ Recording
    /\ passes # <<>>
    /\ EdgeCount + Len(reads) + Len(writes) <= MaxEdges
    /\ LET p == Len(passes)
           pass == passes[p]
       IN  /\ pass.type \in types
           /\ Cardinality(Ends(Edges(p))) < MaxUses
           /\ \A q \in Ends(Edges(p)) : Locs(q) \cap Locs(r) = {}
           /\ passes' = [passes EXCEPT ![p].reads = @ \o reads, ![p].writes = @ \o writes]
    /\ UNCHANGED resources
    /\ Quiet

\* Bound: unless MultiTarget, a managed colour target is the only output of
\* its pass.
ManagedTarget(e) == e.usage = "target" /\ IsManaged(e.res)
TargetAlone(e) ==
    LET writes == Append(Last(passes).writes, e)
    IN  MultiTarget \/ Len(writes) = 1 \/ \A i \in DOMAIN writes : ~ManagedTarget(writes[i])

ColorAttachment(r) ==
    /\ resources[r].class = "texture"
    /\ Attach({"render"}, r, <<>>, <<Edge(r, "target")>>)
    /\ TargetAlone(Edge(r, "target"))

DepthAttachment(r) ==
    /\ resources[r].class = "depth"
    /\ Attach({"render"}, r, <<Edge(r, "undefined")>>, <<Edge(r, "depth")>>)
    /\ \A e \in ToSet(Last(passes).writes) : e.usage # "depth"
    /\ TargetAlone(Edge(r, "depth"))

\* Bound: compute passes, whose edges are treated as those of render passes,
\* only read-write.
Sample(r) ==
    /\ IsTexture(r)
    /\ resources[r].of # Backbuffer
    /\ Attach({"render", "holdon"}, r, <<Edge(r, "sampled")>>, <<>>)

UseBuffer(r) ==
    /\ resources[r].class = "buffer"
    /\ Attach({"render"}, r, <<Edge(r, "vertex")>>, <<>>)

\* Bound: unless StorageRepeats, one pass of a frame does this, to a managed
\* buffer.
ReadWriteBuffer(r) ==
    /\ resources[r].class = "buffer"
    /\ \/ StorageRepeats
       \/ /\ IsManaged(r)
          /\ \A p \in DOMAIN passes : \A e \in ToSet(passes[p].writes) : e.usage # "storage"
    /\ Attach({"compute"}, r, <<Edge(r, "storage")>>, <<Edge(r, "storage")>>)

\* An upload declares its own staging buffer, held until the last pass.
AddUpload(type, rs, dest) ==
    LET staging == Len(rs) + 1
    IN  /\ MayAdd(2)
        /\ resources' = Append(rs, Managed("staging", TRUE))
        /\ passes' = Append(passes, Pass(type, <<Edge(staging, "copy_source")>>,
                                         <<Edge(dest, "copy_dest")>>, staging))
        /\ Quiet

\* A texture with several mips gets a node for the one that is uploaded.
UploadTexture(r, mip) ==
    /\ resources[r].of \in Textures
    /\ resources[r].sub = Whole
    /\ IF Mips = 1
       THEN mip = 1 /\ AddUpload("upload", resources, r)
       ELSE AddUpload("upload", Append(resources, SubOf(r, mip)), Len(resources) + 1)

UploadBuffer(r) ==
    /\ resources[r].class = "buffer"
    /\ AddUpload("upload", resources, r)

\* One render pass for every mip but the first, from the mip before it.
GenerateMipmap(r) ==
    LET base == Len(resources)
    IN  /\ resources[r].of \in Textures
        /\ resources[r].sub = Whole
        /\ Mips > 1
        /\ MayAdd(2 * (Mips - 1))
        /\ resources' = resources \o [i \in 1..Mips |-> SubOf(r, i)]
        /\ passes' = passes \o
              [i \in 1..Mips - 1 |-> Pass("render", <<Edge(base + i, "sampled")>>,
                                          <<Edge(base + i + 1, "target")>>, None)]
        /\ Quiet

\* After the callbacks the window's image is presented.
Present ==
    /\ Recording
    /\ resources' = WithBackbuffer
    /\ LET r == CHOOSE n \in DOMAIN resources' : resources'[n].of = Backbuffer
       IN  passes' = Append(passes, Pass("present", <<Edge(r, "present")>>, <<>>, None))
    /\ ForgetBackbuffer
    /\ phase' = "compile"
    /\ UNCHANGED <<spent, compiled, next, bound, pool, made, staged, gpu>>

-----------------------------------------------------------------------------
(* Compilation.  A node is a pass or, after the passes, a resource.        *)

PassCount == Len(passes)
Nodes == 1..PassCount + Len(resources)
IsPass(n) == n <= PassCount
NodeOf(r) == PassCount + r
Persistent(n) ==
    IF IsPass(n) THEN passes[n].type \in {"present", "holdon"}
                 ELSE ~IsManaged(n - PassCount)
Ins(n) == IF IsPass(n) THEN {NodeOf(r) : r \in Ends(passes[n].reads)}
                       ELSE Writers(n - PassCount)
Outs(n) == IF IsPass(n) THEN {NodeOf(r) : r \in Ends(passes[n].writes)}
                        ELSE Readers(n - PassCount)

Unwanted(counts, S) == {n \in S : counts[n] = 0 /\ ~Persistent(n)}
InOrder(S) ==
    [i \in 1..Cardinality(S) |-> CHOOSE n \in S : Cardinality({m \in S : m <= n}) = i]

StartCulling ==
    /\ phase = "compile"
    /\ phase' = "cull"
    /\ refs' = [n \in Nodes |-> Cardinality(Outs(n))]
    /\ stack' = InOrder(Unwanted(refs', Nodes))
    /\ UNCHANGED <<recorded, cpu, gpu>>

Cull ==
    /\ phase = "cull"
    /\ stack # <<>>
    /\ LET ins == Ins(Last(stack))
       IN  /\ refs' = [n \in Nodes |-> IF n \in ins THEN refs[n] - 1 ELSE refs[n]]
           /\ stack' = Front(stack) \o InOrder(Unwanted(refs', ins))
    /\ UNCHANGED <<phase, recorded, cpu, gpu>>

IsCulled(n) == refs[n] = 0 /\ ~Persistent(n)
Live(r) == IsManaged(r) /\ ~IsCulled(NodeOf(r))
\* Mutant: the life of a resource begins with its first reader.
FirstRead(r) == Min(IF Readers(r) # {} THEN Readers(r) ELSE Writers(r))

\* The life of a resource, from its first pass to its last.
FirstUse(r) == Min(Readers(r) \cup Writers(r))
\* Mutant: staging buffers are given back after their own pass.
LastUseReleases(r) == Max(Readers(r) \cup Writers(r))
LastUse(r) == IF resources[r].hold THEN PassCount ELSE Max(Readers(r) \cup Writers(r))

StartExecution ==
    /\ phase = "cull"
    /\ stack = <<>>
    /\ phase' = "execute"
    /\ next' = 1
    /\ bound' = [r \in DOMAIN resources |-> None]
    /\ UNCHANGED <<recorded, compiled, pool, made, tracked, consistent, staged, gpu>>

-----------------------------------------------------------------------------
(* Execution: the commands are recorded, and the staging memory written.   *)

Executing == phase = "execute" /\ next <= PassCount
Due == {r \in DOMAIN resources : Live(r) /\ FirstUse(r) = next /\ bound[r] = None}

\* Objects match by descriptor: any free one will do, a new one if none is.
Matching(class) == {o \in DOMAIN pool : made[o] = class}
Unmade == {o \in Objects : made[o] = "none"}

TakeFree(r, o) ==
    /\ o \in Matching(resources[r].class)
    /\ pool' = [x \in DOMAIN pool \ {o} |-> pool[x]]
    /\ UNCHANGED <<made, tracked, consistent, layout, content, access>>

TakeNew(r, o) ==
    /\ Matching(resources[r].class) = {}
    /\ Unmade # {}
    /\ o = Min(Unmade)
    /\ made' = [made EXCEPT ![o] = resources[r].class]
    /\ tracked' = [tracked EXCEPT ![o] = <<"undefined">>]
    /\ consistent' = [consistent EXCEPT ![o] = TRUE]
    /\ layout' = [layout EXCEPT ![o] = <<"undefined">>]
    /\ access' = [access EXCEPT ![o] = <<"none">>]
    /\ UNCHANGED <<pool, content>>

Devirtualize(r, o) ==
    /\ Executing
    /\ Due # {}
    /\ r = Min(Due)
    /\ TakeFree(r, o) \/ TakeNew(r, o)
    /\ bound' = [bound EXCEPT ![r] = o]
    /\ UNCHANGED <<phase, recorded, compiled, next, staged, cmds, done, seen>>

\* Mutant: a copy after a copy needs no barrier.
ForcedTargets(e) == e.usage \in IF IsTexture(e.res) THEN {"target", "depth"} ELSE {}

\* A barrier also where the state stays: writes after writes.
Forced(e) ==
    e.usage \in IF IsTexture(e.res) THEN {"target", "depth", "copy_dest"} ELSE {"copy_dest"}

\* Mutant: that the subresources differ is not noted.
PlaceBarrierAgrees(e, b) ==
    LET r == e.res
        o == Place(r)
        whole == resources[r].sub = Whole
        from(s) == IF whole /\ b.consistent[o] THEN b.tracked[o][1] ELSE b.tracked[o][s]
        moved == {s \in SubsOf(r) : from(s) # e.usage \/ Forced(e)}
    IN  IF e.usage = "undefined" THEN b
        ELSE [b EXCEPT !.tracked[o] = [s \in Subs(o) |-> IF s \in moved THEN e.usage ELSE @[s]],
                       !.placed = @ \cup {[spot |-> <<o, s>>, src |-> from(s), dst |-> e.usage] :
                                              s \in moved}]

\* One edge of place_barriers.  A whole texture whose subresources agree is
\* moved from the state of its first one; otherwise each goes its own way.
PlaceBarrier(e, b) ==
    LET r == e.res
        o == Place(r)
        whole == resources[r].sub = Whole
        from(s) == IF whole /\ b.consistent[o] THEN b.tracked[o][1] ELSE b.tracked[o][s]
        moved == {s \in SubsOf(r) : from(s) # e.usage \/ Forced(e)}
    IN  IF e.usage = "undefined" THEN b
        ELSE [tracked |-> [b.tracked EXCEPT ![o] =
                              [s \in Subs(o) |-> IF s \in moved THEN e.usage ELSE @[s]]],
              consistent |-> IF whole THEN [b.consistent EXCEPT ![o] = TRUE]
                             ELSE IF moved = {} THEN b.consistent
                             ELSE [b.consistent EXCEPT ![o] = FALSE],
              placed |-> b.placed \cup {[spot |-> <<o, s>>, src |-> from(s), dst |-> e.usage] :
                                           s \in moved}]

PlaceBarriers(p) ==
    FoldLeft(LAMBDA b, e : PlaceBarrier(e, b),
             [tracked |-> tracked, consistent |-> consistent, placed |-> {}], Edges(p))

\* What the pass does on the GPU, once the barriers are placed.
SpotsOf(edges) == UNION {Spots(r) : r \in Ends(edges)}
Used(p) == {e \in ToSet(Edges(p)) : e.usage # "undefined"}
Command(p, barriers) ==
    [pass |-> p,
     barriers |-> barriers,
     uses |-> UNION {{[spot |-> s, usage |-> e.usage] : s \in Spots(e.res)} : e \in Used(p)},
     reads |-> UNION {{<<l, <<Place(r), l[2]>>>> : l \in Locs(r)} :
                         r \in Ends(passes[p].reads) \ {passes[p].staging}},
     writes |-> SpotsOf(passes[p].writes),
     staging |-> IF passes[p].staging = None THEN None ELSE bound[passes[p].staging]]

\* An edge to a managed resource that has no object is a null pointer.
Missing(p) == {r \in Ends(Edges(p)) : IsManaged(r) /\ bound[r] = None}

Ended == {bound[r] : r \in {q \in DOMAIN resources : Live(q) /\ LastUse(q) = next}}

ExecutePass ==
    /\ Executing
    /\ Due = {}
    /\ IF IsCulled(next)
       THEN UNCHANGED <<tracked, consistent, staged, cmds>>
       ELSE LET b == PlaceBarriers(next)
                command == Command(next, b.placed)
            IN  /\ Missing(next) = {}
                /\ tracked' = b.tracked
                /\ consistent' = b.consistent
                /\ staged' = IF command.staging = None THEN staged
                             ELSE [staged EXCEPT ![command.staging] = next]
                /\ cmds' = Append(cmds, command)
    /\ pool' = [o \in DOMAIN pool \cup Ended |-> IF o \in Ended THEN 0 ELSE pool[o]]
    /\ next' = next + 1
    /\ phase' = IF next = PassCount THEN "gpu" ELSE phase
    /\ UNCHANGED <<recorded, compiled, bound, made, layout, content, access, done, seen>>

-----------------------------------------------------------------------------
(* The GPU runs what was submitted, in order.                              *)

At(f, spot) == f[spot[1]][spot[2]]
Moves(c, spot) == {b \in c.barriers : b.spot = spot}

\* f with the spots of new changed to what new says.
Change(f, new) ==
    [o \in Places |-> [s \in Subs(o) |->
        IF <<o, s>> \in DOMAIN new THEN new[<<o, s>>] ELSE f[o][s]]]

Accessed(c) == {u.spot : u \in c.uses}
AccessOf(c, spot) ==
    IF spot \in c.writes \/ (At(access, spot) = "write" /\ Moves(c, spot) = {})
    THEN "write" ELSE "read"

\* Only what some recorded pass wrote before is defined.
Written(p, l) == \E q \in 1..p - 1 : \E r \in Ends(passes[q].writes) : l \in Locs(r)
Observation(c) ==
    [from |-> {<<x[1], At(content, x[2])>> : x \in {y \in c.reads : Written(c.pass, y[1])}},
     data |-> IF c.staging = None THEN 0 ELSE staged[c.staging]]

GpuPass ==
    /\ phase = "gpu"
    /\ cmds # <<>>
    /\ LET c == Head(cmds)
       IN  /\ layout' = Change(layout, [spot \in {b.spot : b \in c.barriers} |->
                                          (CHOOSE b \in Moves(c, spot) : TRUE).dst])
           /\ access' = Change(access, [spot \in Accessed(c) |-> AccessOf(c, spot)])
           /\ content' = Change(content, [spot \in c.writes |-> c.pass])
           /\ seen' = Append(seen, <<c.pass, Observation(c)>>)
           /\ done' = c.pass
    /\ cmds' = Tail(cmds)
    /\ UNCHANGED <<phase, recorded, compiled, cpu>>

\* Mutant: objects stay one frame longer.
UpToDateLate == {o \in DOMAIN pool : pool[o] <= MaxAge}

\* Objects that were not used for too long are destroyed.
UpToDate == {o \in DOMAIN pool : pool[o] < MaxAge}

\* The fence has passed: the slot is used for another frame.
BeginFrame ==
    LET kept == UpToDate
    IN  /\ phase = "gpu"
        /\ cmds = <<>>
        /\ phase' = "record"
        /\ resources' = <<>>
        /\ passes' = <<>>
        /\ spent' = EdgeCount - 1    \* without the one that presents
        /\ refs' = <<>>
        /\ stack' = <<>>
        /\ next' = 0
        /\ bound' = <<>>
        /\ pool' = [o \in kept |-> pool[o] + 1]
        /\ made' = [o \in Objects |-> IF o \in kept THEN made[o] ELSE "none"]
        /\ staged' = [o \in Objects |-> None]
        /\ content' = [o \in Places |-> [s \in Subs(o) |-> None]]
        /\ access' = [o \in Places |-> IF o \in Objects THEN <<"none">> ELSE access[o]]
        /\ done' = 0
        /\ seen' = <<>>
        /\ UNCHANGED <<tracked, consistent, layout, cmds>>

Init ==
    /\ phase = "record"
    /\ resources = <<>> /\ passes = <<>> /\ spent = 0
    /\ refs = <<>> /\ stack = <<>>
    /\ next = 0 /\ bound = <<>>
    /\ pool = [o \in {} |-> 0]
    /\ made = [o \in Objects |-> "none"]
    /\ tracked = [o \in Places |-> [s \in Subs(o) |-> "undefined"]]
    /\ consistent = [o \in Places |-> TRUE]
    /\ staged = [o \in Objects |-> None]
    /\ cmds = <<>>
    /\ layout = [o \in Places |-> [s \in Subs(o) |-> "undefined"]]
    /\ content = [o \in Places |-> [s \in Subs(o) |-> None]]
    /\ access = [o \in Places |-> [s \in Subs(o) |-> "none"]]
    /\ done = 0 /\ seen = <<>>

Record ==
    \/ \E class \in {"texture", "depth"} : DeclareTexture(class)
    \/ DeclareBuffer
    \/ \E t \in Textures : ImportTexture(t)
    \/ \E b \in Buffers : ImportBuffer(b)
    \/ ImportBackbuffer
    \/ \E type \in {"render", "compute", "holdon"} : AddPass(type)
    \/ \E r \in DOMAIN resources :
          \/ ColorAttachment(r)
          \/ DepthAttachment(r)
          \/ Sample(r)
          \/ UseBuffer(r)
          \/ ReadWriteBuffer(r)
          \/ \E mip \in 1..Mips : UploadTexture(r, mip)
          \/ UploadBuffer(r)
          \/ GenerateMipmap(r)
    \/ Present

Next ==
    \/ Record
    \/ StartCulling
    \/ Cull
    \/ StartExecution
    \/ \E r \in DOMAIN resources, o \in Objects : Devirtualize(r, o)
    \/ ExecutePass
    \/ GpuPass
    \/ BeginFrame

Spec == Init /\ [][Next]_vars

-----------------------------------------------------------------------------
(* Properties                                                              *)

Classes == {"texture", "depth", "buffer", "staging"}
Usages == {"undefined", "target", "depth", "sampled", "vertex", "storage",
           "copy_dest", "copy_source", "present"}

\* The variables keep to their types, and the free objects of the pools are
\* ones that were made.
TypeOK ==
    /\ phase \in {"record", "compile", "cull", "execute", "gpu"}
    /\ \A r \in DOMAIN resources :
          /\ resources[r].class \in Classes
          /\ resources[r].manage \in {"Managed", "Imported", "SubResource"}
          /\ resources[r].of \in Imported \cup {None}
    /\ \A p \in DOMAIN passes : \A e \in ToSet(Edges(p)) :
          e.res \in DOMAIN resources /\ e.usage \in Usages
    /\ DOMAIN refs \in {{}, Nodes} /\ \A n \in DOMAIN refs : refs[n] \in Nat
    /\ ToSet(stack) \subseteq DOMAIN refs
    /\ next \in Nat /\ DOMAIN bound \in {{}, DOMAIN resources}
    /\ \A r \in DOMAIN bound : bound[r] \in Objects \cup {None}
    /\ \A o \in DOMAIN pool : made[o] \in Classes /\ pool[o] \in 0..MaxAge
    /\ \A o \in Places : consistent[o] \in BOOLEAN /\
          \A s \in Subs(o) : {tracked[o][s], layout[o][s]} \subseteq Usages

\* A pass that is executed finds an object behind every managed resource it
\* names: getTexture and the buffer paths dereference it unchecked.
ResourcesBound ==
    Executing /\ Due = {} /\ ~IsCulled(next) => Missing(next) = {}

\* Each barrier starts from the state the GPU really left the subresource in
\* (or discards it), and leaves everything the pass uses in the state it is
\* used in.
LayoutsRight ==
    cmds # <<>> /\ phase = "gpu" =>
        LET c == Head(cmds)
            after(spot) == IF Moves(c, spot) = {} THEN At(layout, spot)
                           ELSE (CHOOSE b \in Moves(c, spot) : TRUE).dst
        IN  /\ \A b \in c.barriers : b.src \in {At(layout, b.spot), "undefined"}
            /\ \A u \in c.uses : after(u.spot) = u.usage

\* Two passes of which one writes do not touch a subresource without a
\* barrier between them: the graph "places memory barriers automatically".
Synchronised ==
    cmds # <<>> /\ phase = "gpu" =>
        LET c == Head(cmds)
        IN  \A spot \in Accessed(c) :
                \/ At(access, spot) = "none"
                \/ At(access, spot) = "read" /\ spot \notin c.writes
                \/ Moves(c, spot) # {}

\* The graph is the stream of passes its callers recorded: what the pools,
\* the aliasing of objects and the staging memory do is not seen by a pass,
\* and no pass is culled that something outside depends on.
Desc(p) ==
    [reads |-> UNION {Locs(r) : r \in Ends(passes[p].reads) \ {passes[p].staging}},
     writes |-> UNION {Locs(r) : r \in Ends(passes[p].writes)},
     root |-> Persistent(p) \/ \E r \in Ends(passes[p].writes) : ~IsManaged(r),
     data |-> passes[p].staging # None]
Sealed == phase \in {"execute", "gpu"}
Stream == INSTANCE PassStream WITH
    Locations <- (Imported \cup Nat) \X Nat,
    stream <- [p \in DOMAIN passes |-> Desc(p)],
    sealed <- Sealed,
    kept <- IF Sealed THEN {p \in DOMAIN passes : ~IsCulled(p)} ELSE {}
ImplementsStream == Stream!Spec
=============================================================================
