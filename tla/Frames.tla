------------------------------- MODULE Frames -------------------------------
(***************************************************************************)
(* The frames of the graphics runtime and the uploads of its textures      *)
(* (pulse_graphics/src/runtime).  The CPU prepares one frame after the     *)
(* other in a ring of slots; the GPU lags behind it by as many frames as   *)
(* the fences allow.  Windows come, go and change their size; texture      *)
(* loaders queue data that a later frame uploads, and may be cancelled     *)
(* meanwhile.  The GPU and the window system are external.                 *)
(***************************************************************************)
EXTENDS Integers, Sequences, FiniteSetsExt, Functions

CONSTANTS
    Windows,        \* entities that may have a PulseWindow
    Slots,          \* renderer.image_count, the number of frame_data
    Sizes,          \* of a window; 0 is minimised
    Images,         \* the numbers of back buffers the driver may choose
    Textures,       \* indices in the bucket of textures
    MaxUploads,     \* kMaxUploadsPerFrame
    MaxChains,      \* bound: swapchains made per window
    MaxGeneration   \* bound: generations of a texture's slot

\* A swapchain has an acquire semaphore per back buffer, and frames take them
\* by their slot: with fewer buffers than slots two frames would share one.
ASSUME FramesAssumption ==
    /\ Slots \in Nat \ {0}
    /\ MaxUploads \in Nat \ {0}
    /\ MaxChains \in Nat \ {0}
    /\ MaxGeneration \in Nat
    /\ {0, 1} \subseteq Sizes
    /\ Images # {}
    /\ \A n \in Images : n \in Nat /\ n >= Slots

VARIABLES
    stage,      \* the system that runs next; "update" is the rest of the loop
    slot,       \* frame_index modulo the number of slots
    todo,       \* windows the prepare system has not come to
    current,    \* the window whose swapchain has been ensured, as a set
    frame,      \* render_frame_context
    graph,      \* what the graph of the frame uploads and samples
    window,     \* the PulseWindow components
    chain,      \* the PulseSwapchain components
    gpu,        \* what was given to the queue and is not finished
    asset,      \* slots of the bucket of textures, with their loader's state
    pending,    \* pending_uploads
    release,    \* pending_release
    staging,    \* blocks allocated from the staging pool
    content     \* textures whose data has reached the GPU

cpuVars == <<stage, slot, todo, current, frame, graph>>
windowVars == <<window, chain>>
assetVars == <<asset, pending, release, staging>>
vars == <<cpuVars, windowVars, gpu, assetVars, content>>

NoGraph == [writes |-> {}, samples |-> {}]
NoFrame == [prepared |-> <<>>, waits |-> {}, signals |-> {}, submitted |-> FALSE]

EmptyTexture(g) == [state |-> "EMPTY", generation |-> g, requested |-> FALSE, completed |-> FALSE]
Key(t) == [texture |-> t, generation |-> asset[t].generation]

Init ==
    /\ stage = "update" /\ slot = 0 /\ todo = {} /\ current = {}
    /\ frame = NoFrame /\ graph = NoGraph
    /\ window = [w \in Windows |-> [open |-> TRUE, size |-> 1, resized |-> FALSE, closing |-> FALSE]]
    /\ chain = [w \in Windows |-> [made |-> 0, images |-> <<>>, size |-> 0, index |-> 0]]
    /\ gpu = <<>>
    /\ asset = [t \in Textures |-> EmptyTexture(1)]
    /\ pending = <<>> /\ release = {} /\ staging = {} /\ content = {}

\* UINT32_MAX, the index of no image.
NoImage == -1

-----------------------------------------------------------------------------
(* Semaphores and the queue                                                *)

Semaphore(kind, w, i) == [kind |-> kind, window |-> w, chain |-> chain[w].made, index |-> i]

Live(w) == chain[w].images # <<>>

\* The acquire semaphore goes by the slot, the other by the image.
Available(w) == Semaphore("available", w, slot % Len(chain[w].images))
\* Mutant: both semaphores go by the slot.
FinishedOfSlot(w, i) == Semaphore("finished", w, slot % Len(chain[w].images))
Finished(w, i) == Semaphore("finished", w, i)

Batch(s, waits, signals, g) ==
    [kind |-> "batch", slot |-> s, waits |-> waits, signals |-> signals,
     writes |-> g.writes]
PresentOf(w) ==
    [kind |-> "present", slot |-> 0, waits |-> {Finished(w, chain[w].index)}, signals |-> {},
     writes |-> {}]

\* One back buffer changes hands.
WithImage(c, i, state) == [c EXCEPT !.images[i] = state]

\* What the GPU is still to execute of a slot.
Busy(s) == {k \in DOMAIN gpu : gpu[k].kind = "batch" /\ gpu[k].slot = s}

\* The next thing in the queue ends; a presented image can be acquired again.
GpuStep ==
    /\ gpu # <<>>
    /\ gpu' = Tail(gpu)
    /\ content' = content \cup Head(gpu).writes
    /\ IF Head(gpu).kind = "batch" THEN UNCHANGED chain
       ELSE \E s \in Head(gpu).waits :
              chain' = IF Live(s.window) /\ chain[s.window].made = s.chain
                       THEN [chain EXCEPT ![s.window] = WithImage(@, s.index + 1, "free")]
                       ELSE chain
    /\ UNCHANGED <<cpuVars, window, assetVars>>

\* cgpu_queue_wait_idle: all that was given to the queue has ended.
Rested(c) == [c EXCEPT !.images = [i \in DOMAIN @ |-> IF @[i] = "shown" THEN "free" ELSE @[i]]]
RestedChains == [w \in Windows |-> Rested(chain[w])]
WaitIdle ==
    /\ gpu' = <<>>
    /\ content' = content \cup UNION {gpu[k].writes : k \in DOMAIN gpu}

Released(c) == [made |-> c.made, images |-> <<>>, size |-> 0, index |-> 0]

\* wait_idle, then release_swapchain_resources of one window.
ReleaseChain(w) ==
    /\ WaitIdle
    /\ chain' = [RestedChains EXCEPT ![w] = Released(@)]

-----------------------------------------------------------------------------
(* The systems of a frame                                                  *)

\* Mutant: one frame more in flight than there are slots.
FenceOneMore == Cardinality({k \in DOMAIN gpu : gpu[k].kind = "batch"}) <= Slots

\* Waits for the fence of the slot, takes its command buffers and pools back.
FenceSignalled == Busy(slot) = {}

BeginFrame ==
    /\ stage = "update"
    /\ FenceSignalled
    /\ stage' = "prepare"
    /\ todo' = {w \in Windows : window[w].open /\ ~window[w].closing}
    /\ frame' = NoFrame
    /\ graph' = NoGraph
    /\ UNCHANGED <<slot, current, windowVars, gpu, assetVars, content>>

NeedsChain(w) == ~Live(w) \/ chain[w].size # window[w].size \/ window[w].resized

\* Mutant: the index of the image acquired last is kept.
NewChainKeepsIndex(c, n, size) ==
    [c EXCEPT !.made = @ + 1, !.images = [i \in 1..n |-> "free"], !.size = size]
NewChain(c, n, size) ==
    [made |-> c.made + 1, images |-> [i \in 1..n |-> "free"], size |-> size, index |-> 0]

\* ensure_cgpu_swapchain: a minimised window is passed over; a swapchain that
\* does not fit is replaced, which may fail.
EnsureChain(w) ==
    /\ stage = "prepare" /\ current = {} /\ w \in todo
    /\ todo' = todo \ {w}
    /\ \/ /\ window[w].size = 0
          /\ UNCHANGED <<current, chain, gpu, content>>
       \/ /\ window[w].size # 0 /\ ~NeedsChain(w)
          /\ current' = {w}
          /\ UNCHANGED <<chain, gpu, content>>
       \/ /\ window[w].size # 0 /\ NeedsChain(w)
          /\ WaitIdle
          /\ \E n \in Images :
                chain' = [RestedChains EXCEPT ![w] = NewChain(@, n, window[w].size)]
          /\ current' = {w}
       \/ /\ window[w].size # 0 /\ NeedsChain(w)
          /\ ReleaseChain(w)
          /\ UNCHANGED current
    /\ UNCHANGED <<stage, slot, frame, graph, window, assetVars>>

Acquired(c, i) == [WithImage(c, i, "held") EXCEPT !.index = i - 1]

\* acquire_window_image blocks until an image is free, or is refused.
AcquireImage(w) ==
    /\ w \in current
    /\ \E i \in DOMAIN chain[w].images :
          /\ chain[w].images[i] = "free"
          /\ chain' = [chain EXCEPT ![w] = Acquired(@, i)]
          /\ frame' = [frame EXCEPT !.prepared = Append(@, w),
                                    !.waits = @ \cup {Available(w)},
                                    !.signals = @ \cup {Finished(w, i - 1)}]
    /\ current' = {}
    /\ UNCHANGED <<stage, slot, todo, graph, window, gpu, assetVars, content>>

Refused(c) == [c EXCEPT !.index = NoImage]

\* Mutant: the answer of acquire_window_image is not looked at.
AcquireRefusedIgnored(w) ==
    /\ w \in current
    /\ current' = {}
    /\ chain' = [chain EXCEPT ![w] = Refused(@)]
    /\ frame' = [frame EXCEPT !.prepared = Append(@, w), !.waits = @ \cup {Available(w)}]
    /\ UNCHANGED <<stage, slot, todo, graph, window, gpu, assetVars, content>>

\* The index is cleared before the driver is asked, and the window is left out
\* of the frame.
AcquireRefused(w) ==
    /\ w \in current
    /\ current' = {}
    /\ chain' = [chain EXCEPT ![w] = Refused(@)]
    /\ UNCHANGED <<stage, slot, todo, frame, graph, window, gpu, assetVars, content>>

\* pulse_asset_system_borrow finds the texture an upload was queued for.
Importable(e) ==
    /\ asset[e.texture].generation = e.generation
    /\ asset[e.texture].state # "PENDING_DELETE"

\* Mutant: the last entry stays behind.
TakenButLast == SubSeq(pending, 1, Min({Len(pending) - 1, MaxUploads}))

\* upload_record_callback takes entries off the front of the queue.
TakenNow == SubSeq(pending, 1, Min({Len(pending), MaxUploads}))

\* The record callbacks: uploads first, then passes that sample what is loaded.
RecordGraph ==
    /\ stage = "prepare" /\ todo = {} /\ current = {}
    /\ frame.prepared # <<>>
    /\ LET taken == TakenNow
           uploads == {e \in Range(taken) : Importable(e)}
       IN  /\ asset' = [t \in Textures |->
                          IF \E e \in uploads : e.texture = t
                          THEN [asset[t] EXCEPT !.completed = TRUE] ELSE asset[t]]
           /\ staging' = staging \ release
           /\ release' = Range(taken)
           /\ pending' = SubSeq(pending, Len(taken) + 1, Len(pending))
           /\ \E S \in SUBSET {t \in Textures : asset[t].state = "LOADED"} :
                 graph' = [writes |-> uploads, samples |-> {Key(t) : t \in S}]
    /\ stage' = "execute"
    /\ UNCHANGED <<slot, todo, current, frame, windowVars, gpu, content>>

\* Without a prepared window nothing is recorded, executed or submitted.
SkipGraph ==
    /\ stage = "prepare" /\ todo = {} /\ current = {}
    /\ frame.prepared = <<>>
    /\ stage' = "present"
    /\ UNCHANGED <<slot, todo, current, frame, graph, windowVars, gpu, assetVars, content>>

\* Executor::Execute copies the data of the uploads and fills a command buffer.
ExecuteGraph ==
    /\ stage = "execute"
    /\ stage' = "submit"
    /\ UNCHANGED <<slot, todo, current, frame, graph, windowVars, gpu, assetVars, content>>

Submit ==
    /\ stage = "submit"
    /\ gpu' = Append(gpu, Batch(slot, frame.waits, frame.signals, graph))
    /\ frame' = [frame EXCEPT !.submitted = TRUE, !.waits = {}, !.signals = {}]
    /\ stage' = "present"
    /\ UNCHANGED <<slot, todo, current, graph, windowVars, assetVars, content>>

Present ==
    /\ stage = "present"
    /\ IF frame.submitted
       THEN /\ gpu' = gpu \o [k \in DOMAIN frame.prepared |-> PresentOf(frame.prepared[k])]
            /\ chain' = [w \in Windows |->
                  IF w \in Range(frame.prepared)
                  THEN WithImage(chain[w], chain[w].index + 1, "shown") ELSE chain[w]]
       ELSE UNCHANGED <<gpu, chain>>
    /\ slot' = (slot + 1) % Slots
    /\ stage' = "post"
    /\ UNCHANGED <<todo, current, frame, graph, window, assetVars, content>>

\* PulseWindowPostFrameSystem takes the resize tags away.
PostFrame ==
    /\ stage = "post"
    /\ stage' = "update"
    /\ window' = [w \in Windows |-> [window[w] EXCEPT !.resized = FALSE]]
    /\ frame' = NoFrame /\ graph' = NoGraph
    /\ UNCHANGED <<slot, todo, current, chain, gpu, assetVars, content>>

-----------------------------------------------------------------------------
(* Windows, between the frames                                             *)

\* An event (with the tag) or the application sets the size; the observer
\* releases a swapchain that does not fit any more.
SetSize(w, size, tag) ==
    /\ stage = "update"
    /\ window[w].open /\ chain[w].made < MaxChains
    /\ tag \/ window[w].size # size
    /\ window' = [window EXCEPT ![w].size = size, ![w].resized = @ \/ tag]
    /\ IF Live(w) /\ ~window[w].closing
          /\ (chain[w].size # size \/ tag \/ window[w].resized)
       THEN ReleaseChain(w)
       ELSE UNCHANGED <<chain, gpu, content>>
    /\ UNCHANGED <<cpuVars, assetVars>>

\* The component is written without telling the observers.
EditSize(w, size) ==
    /\ stage = "update"
    /\ window[w].open /\ chain[w].made < MaxChains /\ window[w].size # size
    /\ window' = [window EXCEPT ![w].size = size]
    /\ UNCHANGED <<cpuVars, chain, gpu, assetVars, content>>

RequestClose(w) ==
    /\ stage = "update"
    /\ window[w].open /\ ~window[w].closing
    /\ window' = [window EXCEPT ![w].closing = TRUE]
    /\ UNCHANGED <<cpuVars, chain, gpu, assetVars, content>>

\* The removal of the component takes surface and swapchain along.
RemoveWindow(w) ==
    /\ stage = "update"
    /\ window[w].open
    /\ window' = [window EXCEPT ![w] = [open |-> FALSE, size |-> 0, resized |-> FALSE, closing |-> FALSE]]
    /\ ReleaseChain(w)
    /\ UNCHANGED <<cpuVars, assetVars>>

OpenWindow(w) ==
    /\ stage = "update"
    /\ ~window[w].open /\ chain[w].made < MaxChains
    /\ window' = [window EXCEPT ![w].open = TRUE, ![w].size = 1]
    /\ UNCHANGED <<cpuVars, chain, gpu, assetVars, content>>

-----------------------------------------------------------------------------
(* Textures, between the frames                                            *)

\* Mutant: a slot is used again under its old generation.
SameGeneration(g) == g

NextGeneration(g) == g + 1

\* destroy_slot frees the texture at once, whatever the GPU does with it.
DestroyTexture(t) ==
    /\ asset' = [asset EXCEPT ![t] = EmptyTexture(NextGeneration(asset[t].generation))]
    /\ content' = content \ {Key(t)}

LoadTexture(t) ==
    /\ stage = "update"
    /\ asset[t].state = "EMPTY" /\ asset[t].generation <= MaxGeneration
    /\ asset' = [asset EXCEPT ![t].state = "PROCESSING"]
    /\ UNCHANGED <<cpuVars, windowVars, gpu, pending, release, staging, content>>

\* The loader's step makes the texture and queues its data; without data the
\* texture is ready; anything on the way may fail.
FirstStep(t) ==
    /\ stage = "update"
    /\ asset[t].state = "PROCESSING" /\ ~asset[t].requested
    /\ \/ /\ asset' = [asset EXCEPT ![t].requested = TRUE]
          /\ pending' = Append(pending, Key(t))
          /\ staging' = staging \cup {Key(t)}
          /\ UNCHANGED content
       \/ /\ asset' = [asset EXCEPT ![t].state = "LOADED"]
          /\ content' = content \cup {Key(t)}
          /\ UNCHANGED <<pending, staging>>
       \/ /\ asset' = [asset EXCEPT ![t].state = "FAILED"]
          /\ UNCHANGED <<pending, staging, content>>
    /\ UNCHANGED <<cpuVars, windowVars, gpu, release>>

\* Mutant: a later step takes the upload for done.
LastStepEarly(t) ==
    /\ stage = "update"
    /\ asset[t].state = "PROCESSING" /\ asset[t].requested
    /\ asset' = [asset EXCEPT ![t].state = "LOADED"]
    /\ UNCHANGED <<cpuVars, windowVars, gpu, pending, release, staging, content>>

\* A later step finds the flag set by the upload.
LastStep(t) ==
    /\ stage = "update"
    /\ asset[t].state = "PROCESSING" /\ asset[t].completed
    /\ asset' = [asset EXCEPT ![t].state = "LOADED"]
    /\ UNCHANGED <<cpuVars, windowVars, gpu, pending, release, staging, content>>

\* The last reference goes: at once, or when the load is found cancelled.
ReleaseTexture(t) ==
    /\ stage = "update"
    /\ \/ /\ asset[t].state = "PROCESSING"
          /\ asset' = [asset EXCEPT ![t].state = "PENDING_DELETE"]
          /\ UNCHANGED content
       \/ /\ asset[t].state \in {"LOADED", "FAILED"}
          /\ DestroyTexture(t)
    /\ UNCHANGED <<cpuVars, windowVars, gpu, pending, release, staging>>

CancelLoad(t) ==
    /\ stage = "update"
    /\ asset[t].state = "PENDING_DELETE"
    /\ DestroyTexture(t)
    /\ UNCHANGED <<cpuVars, windowVars, gpu, pending, release, staging>>

\* graphic_plugin_shutdown waits for the GPU, then takes everything down.
Shutdown ==
    /\ stage = "update"
    /\ stage' = "down"
    /\ WaitIdle
    /\ chain' = [w \in Windows |-> Released(chain[w])]
    /\ asset' = [t \in Textures |->
                   IF asset[t].state = "EMPTY" THEN asset[t]
                   ELSE EmptyTexture(NextGeneration(asset[t].generation))]
    /\ pending' = <<>> /\ release' = {} /\ staging' = {}
    /\ UNCHANGED <<slot, todo, current, frame, graph, window>>

Down == stage = "down" /\ UNCHANGED vars

-----------------------------------------------------------------------------

FrameStep ==
    \/ BeginFrame \/ RecordGraph \/ SkipGraph \/ ExecuteGraph \/ Submit \/ Present \/ PostFrame
    \/ \E w \in Windows : EnsureChain(w) \/ AcquireImage(w) \/ AcquireRefused(w)

WindowStep ==
    \E w \in Windows :
        \/ \E size \in Sizes : EditSize(w, size) \/ (\E tag \in BOOLEAN : SetSize(w, size, tag))
        \/ RequestClose(w) \/ RemoveWindow(w) \/ OpenWindow(w)

TextureStep ==
    \E t \in Textures :
        \/ LoadTexture(t) \/ FirstStep(t) \/ LastStep(t) \/ ReleaseTexture(t) \/ CancelLoad(t)

Next == FrameStep \/ WindowStep \/ TextureStep \/ GpuStep \/ Shutdown \/ Down

Spec == Init /\ [][Next]_vars

\* The main loop and the GPU go on, and the loaders are processed every
\* frame; windows, clients and the driver's refusals are free.
FairSpec ==
    /\ Spec
    /\ WF_vars(FrameStep)
    /\ WF_vars(GpuStep)
    /\ \A t \in Textures : SF_vars(LastStep(t))

-----------------------------------------------------------------------------
(* Properties                                                              *)

WindowStates == [open : BOOLEAN, size : Sizes, resized : BOOLEAN, closing : BOOLEAN]
ChainStates == [made : 0..MaxChains, images : Seq({"free", "held", "shown"}), size : Sizes,
                index : Nat \cup {NoImage}]
TextureStates == [state : {"EMPTY", "PROCESSING", "PENDING_DELETE", "LOADED", "FAILED"},
                  generation : 1..(MaxGeneration + 1), requested : BOOLEAN,
                  completed : BOOLEAN]
Keys == [texture : Textures, generation : 1..(MaxGeneration + 1)]
Semaphores == [kind : {"available", "finished"}, window : Windows, chain : 1..MaxChains,
               index : Nat]
Work == [kind : {"batch", "present"}, slot : 0..(Slots - 1), waits : SUBSET Semaphores,
         signals : SUBSET Semaphores, writes : SUBSET Keys]

\* Every variable holds a value of its kind; the index of a swapchain names one
\* of its images or none, and generations stay in their range.
TypeOK ==
    /\ stage \in {"update", "prepare", "execute", "submit", "present", "post", "down"}
    /\ slot \in 0..(Slots - 1)
    /\ todo \subseteq Windows
    /\ current \subseteq Windows /\ \A v, w \in current : v = w
    /\ frame \in [prepared : Seq(Windows), waits : SUBSET Semaphores,
                  signals : SUBSET Semaphores, submitted : BOOLEAN]
    /\ graph \in [writes : SUBSET Keys, samples : SUBSET Keys]
    /\ window \in [Windows -> WindowStates]
    /\ chain \in [Windows -> ChainStates]
    /\ \A w \in Windows : Live(w) => /\ Len(chain[w].images) \in Images
                                     /\ \/ chain[w].index = NoImage
                                        \/ chain[w].index + 1 \in DOMAIN chain[w].images
    /\ gpu \in Seq(Work)
    /\ asset \in [Textures -> TextureStates]
    /\ pending \in Seq(Keys)
    /\ release \cup staging \cup content \subseteq Keys

\* While the CPU works on a frame, nothing of its slot (command buffers, pools,
\* cached objects) and nothing of a swapchain that is gone is in use by the GPU.
NothingReusedInUse ==
    /\ stage \in {"prepare", "execute", "submit"} => Busy(slot) = {}
    /\ \A k \in DOMAIN gpu : \A s \in gpu[k].waits \cup gpu[k].signals :
          Live(s.window) /\ chain[s.window].made = s.chain

\* A semaphore is never given to the driver again while an earlier use of it
\* is not over: an acquire semaphore until its batch has run, the other one
\* until the present that waits for it has.
SemaphoresOnce ==
    LET waiting(s) == {k \in DOMAIN gpu : s \in gpu[k].waits}
        signalling(s) == {k \in DOMAIN gpu : s \in gpu[k].signals}
    IN  /\ \A s \in frame.waits : waiting(s) = {}
        /\ \A s \in frame.signals : waiting(s) = {} /\ signalling(s) = {}
        /\ \A j, k \in DOMAIN gpu : gpu[j].waits \cap gpu[k].waits # {} => j = k

\* An image the CPU has acquired is handed back by the end of the frame, so
\* that acquiring can never block for good.
ImagesReturned ==
    stage \in {"update", "post"} =>
        \A w \in Windows : "held" \notin Range(chain[w].images)

\* The windows of a frame hold the image their index names until they are
\* presented: never one that was refused, given back or lost with its swapchain.
PreparedHeld ==
    stage \in {"prepare", "execute", "submit", "present"} =>
        \A w \in Range(frame.prepared) :
            /\ chain[w].index + 1 \in DOMAIN chain[w].images
            /\ chain[w].images[chain[w].index + 1] = "held"

\* What the work of a frame signals is what its presents will wait for.
PresentsSignalled ==
    stage \in {"prepare", "execute", "submit"} =>
        frame.signals = {Finished(w, chain[w].index) : w \in Range(frame.prepared)}

\* A frame can be presented as it was prepared, whatever was refused, resized
\* or made anew meanwhile (render_present_system_run).
PresentsReady == PreparedHeld /\ PresentsSignalled

\* What the driver lends a window, semaphores and images, is used and given
\* back as it has to be (render_prepare_windows_system_run, present).
SwapchainsSafe == SemaphoresOnce /\ ImagesReturned /\ PresentsReady

\* The flag of an upload that will be recorded lies in the state of a loader
\* that still waits for it; the data of an upload is there until it was copied.
FlagsAlive ==
    /\ \A k \in DOMAIN pending :
          LET e == pending[k]
          IN  /\ e \in staging
              /\ Importable(e) =>
                    /\ asset[e.texture].state = "PROCESSING"
                    /\ asset[e.texture].requested /\ ~asset[e.texture].completed
                    /\ \A j \in DOMAIN pending : pending[j] = e => j = k
    /\ stage = "execute" => graph.writes \subseteq staging

\* What a frame samples is on the GPU by then, or is uploaded by the same frame
\* or by an earlier one that is still in the queue.
UploadedFirst ==
    graph.samples \subseteq
        content \cup graph.writes \cup UNION {gpu[k].writes : k \in DOMAIN gpu}

\* A texture whose data was queued is loaded or cancelled in the end, if only
\* frames are recorded again and again.
UploadsSettle ==
    \A t \in Textures :
        []<>(stage = "execute") =>
            ((asset[t].state = "PROCESSING" /\ asset[t].requested)
                ~> asset[t].state # "PROCESSING")

=============================================================================
