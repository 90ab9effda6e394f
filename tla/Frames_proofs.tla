---------------------------- MODULE Frames_proofs ----------------------------
(***************************************************************************)
(* Proofs about Frames, for every number of slots, windows and textures.    *)
(***************************************************************************)
EXTENDS Frames, SequenceTheorems, TLAPS

-----------------------------------------------------------------------------
(* The inductive invariant                                                  *)

\* What a frame holds in each of its stages.
FrameInv ==
    /\ stage \in {"update", "down"} => frame = NoFrame /\ graph = NoGraph
    /\ stage # "prepare" => todo = {} /\ current = {}
    /\ stage = "prepare" => graph = NoGraph
    /\ stage \in {"prepare", "execute", "submit"} => ~frame.submitted
    /\ stage = "present" /\ ~frame.submitted => frame.prepared = <<>> /\ graph = NoGraph
    /\ frame.submitted => frame.waits = {} /\ frame.signals = {}
    /\ stage = "post" => frame.waits = {} /\ frame.signals = {}

\* The windows of a frame, each of them met once.
PreparedInv ==
    /\ todo \cap current = {}
    /\ todo \cap Range(frame.prepared) = {}
    /\ current \cap Range(frame.prepared) = {}
    /\ \A j, k \in DOMAIN frame.prepared : frame.prepared[j] = frame.prepared[k] => j = k

\* A window that may be given no further swapchain needs none.
ChainLeft(w) ==
    /\ Live(w) => chain[w].made > 0
    /\ stage # "down" /\ window[w].open /\ chain[w].made = MaxChains =>
         /\ Live(w) /\ chain[w].size = window[w].size
         /\ window[w].resized => stage # "update" /\ w \notin todo

ChainInv ==
    /\ \A w \in todo : window[w].open
    /\ \A w \in Windows : ChainLeft(w)

\* A semaphore of a swapchain that still is, and the image it goes with.
Exists(s) == /\ Live(s.window) /\ chain[s.window].made = s.chain
             /\ s.index + 1 \in DOMAIN chain[s.window].images
ImageOf(s) == chain[s.window].images[s.index + 1]

\* The images of a frame are held, and no others are.
HeldInv ==
    /\ \A w \in Windows : \A i \in DOMAIN chain[w].images :
          chain[w].images[i] = "held" =>
            /\ stage \in {"prepare", "execute", "submit", "present"}
            /\ w \in Range(frame.prepared) /\ i = chain[w].index + 1
    /\ stage \in {"prepare", "execute", "submit", "present"} =>
          \A w \in Range(frame.prepared) :
             /\ Live(w) /\ chain[w].index + 1 \in DOMAIN chain[w].images
             /\ chain[w].images[chain[w].index + 1] = "held"

\* The semaphores of the frame.
FrameSemaphores ==
    /\ \A s \in frame.waits : /\ s.kind = "available" /\ s.index = slot
                              /\ s.window \in Range(frame.prepared) /\ Exists(s)
    /\ \A s \in frame.signals : /\ s.kind = "finished"
                                /\ s.window \in Range(frame.prepared) /\ Exists(s)
                                /\ ImageOf(s) = "held"

\* The semaphores of a piece of work in the queue.
WorkOK(b) ==
    /\ \A s \in b.waits \cup b.signals : Exists(s)
    /\ b.kind = "batch" =>
          /\ \A s \in b.waits : s.kind = "available" /\ s.index = b.slot
          /\ \A s \in b.signals :
                /\ s.kind = "finished"
                /\ \/ ImageOf(s) = "shown"
                   \/ ImageOf(s) = "held" /\ stage = "present" /\ frame.submitted
    /\ b.kind = "present" =>
          /\ b.signals = {}
          /\ \A s \in b.waits : s.kind = "finished" /\ ImageOf(s) = "shown"

QueueSemaphores == \A k \in DOMAIN gpu : WorkOK(gpu[k])

\* Uses of a semaphore follow each other in the queue.
QueueOrder ==
    \A j, k \in DOMAIN gpu :
       /\ gpu[j].waits \cap gpu[k].waits # {} => j = k
       /\ gpu[j].signals \cap gpu[k].waits # {} => j < k

SlotFree == stage \in {"prepare", "execute", "submit"} => Busy(slot) = {}

\* The state of a slot in the bucket and of its loader.
AssetInv ==
    \A t \in Textures :
       /\ asset[t].state = "EMPTY" => ~asset[t].requested
       /\ asset[t].state # "EMPTY" => asset[t].generation <= MaxGeneration
       /\ asset[t].completed => asset[t].requested

\* An upload is queued once, while its data is there and its flag is unset.
PendingInv ==
    /\ \A e \in Range(pending) \cup release :
          /\ e.generation <= asset[e.texture].generation
          /\ e.generation = asset[e.texture].generation => asset[e.texture].requested
    /\ \A j, k \in DOMAIN pending : pending[j] = pending[k] => j = k
    /\ Range(pending) \cap release = {}
    /\ Range(pending) \subseteq staging
    /\ \A e \in Range(pending) :
          Importable(e) => asset[e.texture].state = "PROCESSING" /\ ~asset[e.texture].completed
    /\ stage = "execute" => graph.writes \subseteq staging

\* Data that was given to the queue, or has been uploaded.
Sent == content \cup UNION {gpu[k].writes : k \in DOMAIN gpu}

\* A texture that is loaded, or will be by its next step.
Done(t) == asset[t].state = "LOADED" \/ (asset[t].state = "PROCESSING" /\ asset[t].completed)

\* Every texture that is or becomes loaded has had its data recorded.
UploadInv ==
    /\ \A t \in Textures : Done(t) => Key(t) \in Sent \cup graph.writes
    /\ stage \in {"present", "post"} => graph.writes \subseteq Sent
    /\ graph.samples \subseteq Sent \cup graph.writes

WindowInv == FrameInv /\ PreparedInv /\ ChainInv /\ HeldInv
DriverInv == FrameSemaphores /\ PresentsSignalled /\ QueueSemaphores /\ QueueOrder /\ SlotFree
TextureInv == AssetInv /\ PendingInv /\ UploadInv

IInv == TypeOK /\ WindowInv /\ DriverInv /\ TextureInv

-----------------------------------------------------------------------------
(* What waiting and releasing do to the swapchains                          *)

\* Swapchain d is swapchain c, images that were shown being free again.
Kept(c, d) ==
    /\ d.made = c.made /\ d.size = c.size /\ d.index = c.index
    /\ DOMAIN d.images = DOMAIN c.images /\ Len(d.images) = Len(c.images)
    /\ d.images = <<>> <=> c.images = <<>>
    /\ \A i \in DOMAIN c.images :
          \/ d.images[i] = c.images[i]
          \/ c.images[i] = "shown" /\ d.images[i] = "free"

LEMMA RestedKeeps ==
    ASSUME NEW c \in ChainStates
    PROVE  Rested(c) \in ChainStates /\ Kept(c, Rested(c))
  <1> DEFINE free == [i \in DOMAIN c.images |->
                        IF c.images[i] = "shown" THEN "free" ELSE c.images[i]]
  <1>1. c.images \in Seq({"free", "held", "shown"}) /\ DOMAIN c.images = 1..Len(c.images)
        /\ Len(c.images) \in Nat
    BY DEF ChainStates
  <1>2. free \in Seq({"free", "held", "shown"}) /\ Len(free) = Len(c.images)
        /\ DOMAIN free = DOMAIN c.images
    BY <1>1
  <1>3. free = <<>> <=> c.images = <<>>
    BY <1>1, <1>2
  <1>4. Rested(c) = [c EXCEPT !.images = free]
    BY DEF Rested
  <1>5. Rested(c) \in ChainStates
    BY <1>2, <1>4 DEF ChainStates
  <1>6. Kept(c, Rested(c))
    <2>1. Rested(c).images = free /\ Rested(c).made = c.made /\ Rested(c).size = c.size
          /\ Rested(c).index = c.index
      BY <1>4 DEF ChainStates
    <2> QED
      BY <2>1, <1>1, <1>2, <1>3 DEF Kept
  <1> QED
    BY <1>5, <1>6

LEMMA NewChainType ==
    ASSUME NEW c \in ChainStates, c.made < MaxChains, NEW n \in Images,
           NEW size \in Sizes
    PROVE  /\ NewChain(c, n, size) \in ChainStates
           /\ NewChain(c, n, size).made = c.made + 1
           /\ NewChain(c, n, size).size = size
           /\ NewChain(c, n, size).index = 0
           /\ NewChain(c, n, size).images # <<>>
           /\ Len(NewChain(c, n, size).images) = n
           /\ DOMAIN NewChain(c, n, size).images = 1..n
           /\ \A i \in 1..n : NewChain(c, n, size).images[i] = "free"
  <1> DEFINE free == [i \in 1..n |-> "free"]
  <1>1. n \in Nat /\ n > 0
    BY FramesAssumption
  <1>2. free \in Seq({"free", "held", "shown"}) /\ Len(free) = n /\ DOMAIN free = 1..n
        /\ free # <<>>
    BY <1>1
  <1> QED
    BY <1>1, <1>2, FramesAssumption DEF NewChain, ChainStates

LEMMA ReleasedType ==
    ASSUME NEW c \in ChainStates
    PROVE  Released(c) \in ChainStates /\ Released(c).images = <<>> /\ Released(c).made = c.made
  BY EmptySeq, FramesAssumption DEF Released, ChainStates

\* Releasing the swapchain of a window lets the queue run empty.
LEMMA ReleaseEffect ==
    ASSUME TypeOK, NEW w \in Windows, ReleaseChain(w)
    PROVE  /\ gpu' = <<>>
           /\ chain' \in [Windows -> ChainStates]
           /\ chain'[w].images = <<>> /\ chain'[w].made = chain[w].made
           /\ \A v \in Windows \ {w} : Kept(chain[v], chain'[v])
  <1>1. \A v \in Windows : Rested(chain[v]) \in ChainStates /\ Kept(chain[v], Rested(chain[v]))
    BY RestedKeeps DEF TypeOK
  <1>2. Released(Rested(chain[w])) \in ChainStates
        /\ Released(Rested(chain[w])).images = <<>>
        /\ Released(Rested(chain[w])).made = chain[w].made
    BY <1>1, ReleasedType DEF Kept
  <1>3. /\ chain'[w] = Released(Rested(chain[w]))
        /\ \A v \in Windows \ {w} : chain'[v] = Rested(chain[v])
        /\ DOMAIN chain' = Windows /\ chain' = [v \in Windows |-> chain'[v]]
    BY DEF ReleaseChain, RestedChains
  <1>4. gpu' = <<>>
    BY DEF ReleaseChain, WaitIdle
  <1> QED
    BY <1>1, <1>2, <1>3, <1>4

\* So does replacing it.
Replaces(w) ==
    /\ gpu' = <<>>
    /\ chain' \in [Windows -> ChainStates]
    /\ Len(chain'[w].images) \in Images /\ chain'[w].images # <<>>
    /\ DOMAIN chain'[w].images = 1..Len(chain'[w].images)
    /\ \A i \in DOMAIN chain'[w].images : chain'[w].images[i] = "free"
    /\ chain'[w].index = 0 /\ chain'[w].made = chain[w].made + 1
    /\ chain'[w].size = window[w].size
    /\ \A v \in Windows \ {w} : Kept(chain[v], chain'[v])

LEMMA ReplaceEffect ==
    ASSUME TypeOK, NEW w \in Windows, chain[w].made < MaxChains, WaitIdle,
           NEW n \in Images,
           chain' = [RestedChains EXCEPT ![w] = NewChain(@, n, window[w].size)]
    PROVE  Replaces(w)
  <1>1. \A v \in Windows : Rested(chain[v]) \in ChainStates /\ Kept(chain[v], Rested(chain[v]))
    BY RestedKeeps DEF TypeOK
  <1> DEFINE c == NewChain(Rested(chain[w]), n, window[w].size)
  <1>2. window[w].size \in Sizes
    BY DEF TypeOK, WindowStates
  <1>3. Rested(chain[w]).made < MaxChains /\ Rested(chain[w]).made = chain[w].made
    BY <1>1 DEF Kept
  <1>4. /\ c \in ChainStates /\ c.made = chain[w].made + 1 /\ c.size = window[w].size
        /\ c.index = 0 /\ c.images # <<>> /\ Len(c.images) = n /\ DOMAIN c.images = 1..n
        /\ \A i \in 1..n : c.images[i] = "free"
    BY <1>1, <1>2, <1>3, NewChainType
  <1>5. /\ chain'[w] = c /\ \A v \in Windows \ {w} : chain'[v] = Rested(chain[v])
        /\ DOMAIN chain' = Windows /\ chain' = [v \in Windows |-> chain'[v]]
    BY DEF RestedChains
  <1> HIDE DEF c
  <1>6. chain' \in [Windows -> ChainStates]
    <2>1. \A v \in Windows : chain'[v] \in ChainStates
      BY <1>1, <1>4, <1>5
    <2> QED
      BY <2>1, <1>5, Zenon
  <1> QED
    BY <1>1, <1>4, <1>5, <1>6 DEF Replaces, WaitIdle

LEMMA GpuWork ==
    ASSUME TypeOK
    PROVE  /\ Len(gpu) \in Nat /\ DOMAIN gpu = 1..Len(gpu)
           /\ \A k \in DOMAIN gpu : gpu[k] \in Work
  BY DEF TypeOK

\* Data that is in the queue reaches the GPU when all of it has ended.
LEMMA WaitIdleSends ==
    ASSUME TypeOK, WaitIdle
    PROVE  content' \subseteq Keys /\ gpu' \in Seq(Work) /\ content' = Sent
  <1>1. \A k \in DOMAIN gpu : gpu[k].writes \subseteq Keys
    BY GpuWork DEF Work
  <1>2. content' = Sent /\ gpu' = <<>>
    BY Zenon DEF WaitIdle, Sent
  <1>3. Sent \subseteq Keys
    BY <1>1 DEF Sent, TypeOK
  <1> QED
    BY <1>2, <1>3, EmptySeq

\* A back buffer changes hands.
LEMMA WithImageType ==
    ASSUME NEW c \in ChainStates, NEW i \in 1..Len(c.images), NEW s \in {"free", "held", "shown"}
    PROVE  /\ WithImage(c, i, s) \in ChainStates
           /\ WithImage(c, i, s).made = c.made /\ WithImage(c, i, s).size = c.size
           /\ WithImage(c, i, s).index = c.index
           /\ Len(WithImage(c, i, s).images) = Len(c.images)
           /\ DOMAIN WithImage(c, i, s).images = 1..Len(c.images)
           /\ \A j \in 1..Len(c.images) :
                 WithImage(c, i, s).images[j] = IF j = i THEN s ELSE c.images[j]
  <1> DEFINE images == [c.images EXCEPT ![i] = s]
  <1>1. c.images \in Seq({"free", "held", "shown"})
    BY DEF ChainStates
  <1>2. /\ images \in Seq({"free", "held", "shown"})
        /\ Len(images) = Len(c.images) /\ DOMAIN images = 1..Len(c.images)
        /\ \A j \in 1..Len(c.images) : images[j] = IF j = i THEN s ELSE c.images[j]
    BY <1>1
  <1>3. WithImage(c, i, s) = [c EXCEPT !.images = images]
    BY DEF WithImage
  <1> HIDE DEF images
  <1> QED
    BY <1>2, <1>3 DEF ChainStates

LEMMA AcquiredType ==
    ASSUME NEW c \in ChainStates, NEW i \in 1..Len(c.images)
    PROVE  /\ Acquired(c, i) \in ChainStates
           /\ Acquired(c, i).made = c.made /\ Acquired(c, i).size = c.size
           /\ Acquired(c, i).index = i - 1 /\ Len(Acquired(c, i).images) = Len(c.images)
           /\ DOMAIN Acquired(c, i).images = 1..Len(c.images)
           /\ \A j \in 1..Len(c.images) :
                 Acquired(c, i).images[j] = IF j = i THEN "held" ELSE c.images[j]
  <1> DEFINE d == WithImage(c, i, "held")
  <1>1. /\ d \in ChainStates /\ d.made = c.made /\ d.size = c.size
        /\ Len(d.images) = Len(c.images) /\ DOMAIN d.images = 1..Len(c.images)
        /\ \A j \in 1..Len(c.images) : d.images[j] = IF j = i THEN "held" ELSE c.images[j]
    BY WithImageType
  <1>2. Acquired(c, i) = [d EXCEPT !.index = i - 1]
    BY DEF Acquired
  <1>3. i - 1 \in Nat
    BY DEF ChainStates
  <1> HIDE DEF d
  <1> QED
    BY <1>1, <1>2, <1>3 DEF ChainStates

\* A refused window loses its index, and nothing else.
LEMMA RefusedEffect ==
    ASSUME TypeOK, NEW w \in Windows, AcquireRefused(w)
    PROVE  /\ chain' \in [Windows -> ChainStates]
           /\ chain'[w].index = NoImage
           /\ \A v \in Windows : /\ chain'[v].made = chain[v].made /\ chain'[v].size = chain[v].size
                                /\ chain'[v].images = chain[v].images
           /\ \A v \in Windows \ {w} : chain'[v] = chain[v]
  <1>1. chain \in [Windows -> ChainStates] /\ chain' = [chain EXCEPT ![w] = Refused(@)]
    BY DEF TypeOK, AcquireRefused
  <1>2. PICK d : d = Refused(chain[w])
    OBVIOUS
  <1>3. /\ d \in ChainStates /\ d.index = NoImage /\ d.made = chain[w].made
        /\ d.size = chain[w].size /\ d.images = chain[w].images
    BY <1>1, <1>2 DEF Refused, ChainStates
  <1>4. chain'[w] = d /\ (\A v \in Windows \ {w} : chain'[v] = chain[v])
    BY <1>1, <1>2
  <1>5. chain' \in [Windows -> ChainStates]
    BY <1>1, <1>2, <1>3
  <1> QED
    BY <1>3, <1>4, <1>5

-----------------------------------------------------------------------------
(* Type correctness                                                         *)

LEMMA TypeInit == Init => TypeOK
  BY FramesAssumption, EmptySeq
     DEF Init, TypeOK, NoFrame, NoGraph, EmptyTexture, WindowStates, ChainStates, TextureStates,
         Live

\* What of TypeOK is about the swapchains.
Fits(w) ==
    Live(w) => /\ Len(chain[w].images) \in Images
               /\ chain[w].index = NoImage \/ chain[w].index + 1 \in DOMAIN chain[w].images
ChainsOK ==
    /\ chain \in [Windows -> ChainStates]
    /\ \A w \in Windows : Fits(w)

LEMMA KeptFits ==
    ASSUME TypeOK, NEW w \in Windows, Kept(chain[w], chain'[w])
    PROVE  Fits(w)'
  BY DEF TypeOK, Fits, Kept, Live

LEMMA ReleaseFits ==
    ASSUME TypeOK, NEW w \in Windows, ReleaseChain(w)
    PROVE  ChainsOK'
  BY ReleaseEffect, KeptFits DEF ChainsOK, Fits, Live

LEMMA ReplaceFits ==
    ASSUME TypeOK, NEW w \in Windows, Replaces(w)
    PROVE  ChainsOK'
  <1>1. ASSUME NEW v \in Windows
        PROVE  Fits(v)'
    <2>1. CASE v = w
      BY <2>1, FramesAssumption DEF Replaces, Fits
    <2>2. CASE v # w
      BY <2>2, KeptFits DEF Replaces
    <2> QED
      BY <2>1, <2>2
  <1> QED
    BY <1>1 DEF Replaces, ChainsOK

LEMMA TypeFrame ==
    ASSUME TypeOK, BeginFrame \/ SkipGraph \/ ExecuteGraph \/ PostFrame
    PROVE  TypeOK'
  <1>1. CASE BeginFrame
    BY <1>1, EmptySeq DEF BeginFrame, TypeOK, NoFrame, NoGraph, windowVars, assetVars, Live
  <1>2. CASE SkipGraph
    BY <1>2 DEF SkipGraph, TypeOK, windowVars, assetVars, Live
  <1>3. CASE ExecuteGraph
    BY <1>3 DEF ExecuteGraph, TypeOK, windowVars, assetVars, Live
  <1>4. CASE PostFrame
    BY <1>4, EmptySeq DEF PostFrame, TypeOK, NoFrame, NoGraph, WindowStates, assetVars, Live
  <1> QED
    BY <1>1, <1>2, <1>3, <1>4

LEMMA TypeEnsure ==
    ASSUME TypeOK, ChainInv, NEW w \in Windows, EnsureChain(w)
    PROVE  TypeOK'
  <1>1. /\ stage' \in {"update", "prepare", "execute", "submit", "present", "post", "down"}
        /\ slot' \in 0..(Slots - 1) /\ todo' \subseteq Windows
        /\ current' \subseteq Windows /\ \A u, v \in current' : u = v
    BY DEF EnsureChain, TypeOK
  <1>2. UNCHANGED <<frame, graph, window, asset, pending, release, staging>>
    BY DEF EnsureChain, assetVars
  <1>3. ChainsOK' /\ gpu' \in Seq(Work) /\ content' \subseteq Keys
    <2>1. CASE UNCHANGED <<chain, gpu, content>>
      BY <2>1 DEF TypeOK, ChainsOK, Fits, Live
    <2>2. CASE ReleaseChain(w)
      BY <2>2, ReleaseFits, WaitIdleSends DEF ReleaseChain
    <2>3. ASSUME NeedsChain(w), WaitIdle, NEW n \in Images,
                 chain' = [RestedChains EXCEPT ![w] = NewChain(@, n, window[w].size)],
                 stage = "prepare", w \in todo
          PROVE  ChainsOK' /\ gpu' \in Seq(Work) /\ content' \subseteq Keys
      <3>1. chain[w].made < MaxChains
        BY <2>3, FramesAssumption DEF ChainInv, ChainLeft, NeedsChain, TypeOK, ChainStates
      <3>2. Replaces(w)
        BY <2>3, <3>1, ReplaceEffect
      <3> QED
        BY <2>3, <3>2, ReplaceFits, WaitIdleSends
    <2> QED
      BY <2>1, <2>2, <2>3 DEF EnsureChain
  <1> QED
    BY <1>1, <1>2, <1>3 DEF TypeOK, ChainsOK, Fits

LEMMA SmallModulo ==
    ASSUME NEW a \in Nat, NEW n \in Nat, a < n
    PROVE  a % n = a
  OBVIOUS

LEMMA SemaphoreType ==
    ASSUME TypeOK, ChainInv, NEW w \in Windows, Live(w)
    PROVE  /\ Available(w) \in Semaphores /\ Available(w).index = slot
           /\ \A i \in Nat : Finished(w, i) \in Semaphores
  <1>1. Len(chain[w].images) \in Nat /\ slot \in Nat /\ slot < Len(chain[w].images)
    BY FramesAssumption DEF TypeOK
  <1>2. slot % Len(chain[w].images) = slot
    BY <1>1, SmallModulo, Zenon
  <1>3. chain[w].made \in 1..MaxChains
    BY FramesAssumption DEF ChainInv, ChainLeft, TypeOK, ChainStates
  <1> QED
    BY <1>1, <1>2, <1>3 DEF Available, Finished, Semaphore, Semaphores

LEMMA TypeAcquire ==
    ASSUME TypeOK, ChainInv, NEW w \in Windows, AcquireImage(w) \/ AcquireRefused(w)
    PROVE  TypeOK'
  <1>1. CASE AcquireRefused(w)
    <2>1. ChainsOK'
      BY <1>1, RefusedEffect DEF TypeOK, ChainsOK, Fits, Live
    <2> QED
      BY <1>1, <2>1 DEF AcquireRefused, TypeOK, ChainsOK, Fits, assetVars
  <1>2. CASE AcquireImage(w)
    <2>1. PICK i \in DOMAIN chain[w].images :
             /\ chain' = [chain EXCEPT ![w] = Acquired(@, i)]
             /\ frame' = [frame EXCEPT !.prepared = Append(@, w),
                                       !.waits = @ \cup {Available(w)},
                                       !.signals = @ \cup {Finished(w, i - 1)}]
      BY <1>2 DEF AcquireImage
    <2>2. /\ chain[w] \in ChainStates /\ chain[w].images # <<>> /\ i \in Nat \ {0}
          /\ i \in 1..Len(chain[w].images) /\ Len(chain[w].images) \in Images
      BY DEF TypeOK, ChainStates, Live
    <2>3. Available(w) \in Semaphores /\ Finished(w, i - 1) \in Semaphores
      BY <2>2, SemaphoreType DEF Live
    <2>4. frame' \in [prepared : Seq(Windows), waits : SUBSET Semaphores,
                      signals : SUBSET Semaphores, submitted : BOOLEAN]
      <3>1. Append(frame.prepared, w) \in Seq(Windows)
        BY DEF TypeOK
      <3> QED
        BY <2>1, <2>3, <3>1 DEF TypeOK
    <2>5. ChainsOK'
      BY <2>1, <2>2, AcquiredType DEF TypeOK, ChainsOK, Fits, Live
    <2> QED
      BY <1>2, <2>4, <2>5 DEF AcquireImage, TypeOK, ChainsOK, Fits, assetVars
  <1> QED
    BY <1>1, <1>2

\* What upload_record_callback takes off the queue, and what it leaves.
LEMMA TakenParts ==
    ASSUME TypeOK, NEW n, n = Len(TakenNow),
           NEW rest, rest = SubSeq(pending, Len(TakenNow) + 1, Len(pending))
    PROVE  /\ n \in 0..Len(pending) /\ Len(pending) \in Nat
           /\ TakenNow \in Seq(Keys) /\ DOMAIN TakenNow = 1..n
           /\ \A i \in 1..n : TakenNow[i] = pending[i]
           /\ rest \in Seq(Keys) /\ DOMAIN rest = 1..(Len(pending) - n)
           /\ \A i \in 1..(Len(pending) - n) : rest[i] = pending[n + i]
  <1> DEFINE m == Min({Len(pending), MaxUploads})
  <1>1. pending \in Seq(Keys) /\ Len(pending) \in Nat /\ MaxUploads \in Nat
        /\ \A i \in 1..Len(pending) : pending[i] \in Keys
    BY FramesAssumption DEF TypeOK
  <1>2. m \in 0..Len(pending)
    <2>1. \E x \in {Len(pending), MaxUploads} : \A y \in {Len(pending), MaxUploads} : x <= y
      BY <1>1
    <2>2. m \in {Len(pending), MaxUploads} /\ \A y \in {Len(pending), MaxUploads} : m <= y
      BY <2>1 DEF Min
    <2> QED
      BY <1>1, <2>2
  <1> HIDE DEF m
  <1>3. /\ TakenNow \in Seq(Keys) /\ Len(TakenNow) = m
        /\ \A i \in 1..m : TakenNow[i] = pending[i]
    <2>1. TakenNow = SubSeq(pending, 1, m)
      BY DEF TakenNow, m
    <2>2. \A i \in 1..m : pending[i] \in Keys
      BY <1>1, <1>2
    <2>3. /\ SubSeq(pending, 1, m) \in Seq(Keys)
          /\ Len(SubSeq(pending, 1, m)) = IF 1 <= m THEN m - 1 + 1 ELSE 0
          /\ \A i \in 1..(m - 1 + 1) : SubSeq(pending, 1, m)[i] = pending[1 + i - 1]
      BY <1>2, <2>2, SubSeqProperties
    <2> QED
      BY <1>2, <2>1, <2>3
  <1>4. /\ rest \in Seq(Keys) /\ Len(rest) = Len(pending) - m
        /\ \A i \in 1..(Len(pending) - m) : rest[i] = pending[m + i]
    <2>1. rest = SubSeq(pending, m + 1, Len(pending))
      BY <1>3
    <2>2. \A i \in (m + 1)..Len(pending) : pending[i] \in Keys
      BY <1>1, <1>2
    <2>3. /\ SubSeq(pending, m + 1, Len(pending)) \in Seq(Keys)
          /\ Len(SubSeq(pending, m + 1, Len(pending)))
                = IF m + 1 <= Len(pending) THEN Len(pending) - (m + 1) + 1 ELSE 0
          /\ \A i \in 1..(Len(pending) - (m + 1) + 1) :
                SubSeq(pending, m + 1, Len(pending))[i] = pending[m + 1 + i - 1]
      BY <1>1, <1>2, <2>2, SubSeqProperties
    <2> QED
      BY <1>1, <1>2, <2>1, <2>3
  <1>5. n = m
    BY <1>3
  <1> QED
    BY <1>1, <1>2, <1>3, <1>4, <1>5

LEMMA TextureEdited ==
    ASSUME NEW a \in TextureStates
    PROVE  /\ [a EXCEPT !.requested = TRUE] \in TextureStates
           /\ [a EXCEPT !.completed = TRUE] \in TextureStates
           /\ [a EXCEPT !.state = "LOADED"] \in TextureStates
           /\ [a EXCEPT !.state = "FAILED"] \in TextureStates
  BY DEF TextureStates

LEMMA TypeRecord ==
    ASSUME TypeOK, RecordGraph
    PROVE  TypeOK'
  <1> DEFINE rest == SubSeq(pending, Len(TakenNow) + 1, Len(pending))
             uploads == {e \in Range(TakenNow) : Importable(e)}
  <1>1. rest \in Seq(Keys) /\ TakenNow \in Seq(Keys)
    BY TakenParts
  <1>2. Range(TakenNow) \subseteq Keys
    BY <1>1, RangeOfSeq
  <1>3. PICK S \in SUBSET {t \in Textures : asset[t].state = "LOADED"} :
           graph' = [writes |-> uploads, samples |-> {Key(t) : t \in S}]
    BY DEF RecordGraph
  <1>4. \A t \in Textures : Key(t) \in Keys
    BY DEF Key, Keys, TypeOK, TextureStates
  <1>5. graph' \in [writes : SUBSET Keys, samples : SUBSET Keys]
    BY <1>2, <1>3, <1>4
  <1>6. asset' \in [Textures -> TextureStates]
    <2>1. asset' = [t \in Textures |-> IF \E e \in uploads : e.texture = t
                                       THEN [asset[t] EXCEPT !.completed = TRUE] ELSE asset[t]]
      BY DEF RecordGraph
    <2>2. \A t \in Textures : /\ asset[t] \in TextureStates
                              /\ [asset[t] EXCEPT !.completed = TRUE] \in TextureStates
      BY TextureEdited DEF TypeOK
    <2> QED
      BY <2>1, <2>2, Zenon
  <1>7. pending' \in Seq(Keys) /\ release' \cup staging' \cup content' \subseteq Keys
    BY <1>1, <1>2 DEF RecordGraph, TypeOK
  <1>8. /\ stage' = "execute" /\ UNCHANGED <<slot, todo, current, frame, window, chain, gpu>>
    BY DEF RecordGraph, windowVars
  <1> QED
    BY <1>5, <1>6, <1>7, <1>8 DEF TypeOK, Live

LEMMA BatchType ==
    ASSUME TypeOK
    PROVE  Batch(slot, frame.waits, frame.signals, graph) \in Work
  BY DEF TypeOK, Batch, Work

LEMMA TypeSubmit ==
    ASSUME TypeOK, Submit
    PROVE  TypeOK'
  <1>1. gpu' \in Seq(Work)
    BY BatchType DEF Submit, TypeOK
  <1>2. frame' \in [prepared : Seq(Windows), waits : SUBSET Semaphores,
                    signals : SUBSET Semaphores, submitted : BOOLEAN]
    BY DEF Submit, TypeOK
  <1>3. stage' = "present" /\ UNCHANGED <<slot, todo, current, graph, window, chain, asset, pending,
                                        release, staging, content>>
    BY DEF Submit, windowVars, assetVars
  <1> QED
    BY <1>1, <1>2, <1>3 DEF TypeOK, Live

\* The windows of a frame have the image that is presented.
LEMMA PreparedImages ==
    ASSUME TypeOK, HeldInv, stage \in {"prepare", "execute", "submit", "present"},
           NEW w \in Range(frame.prepared)
    PROVE  /\ w \in Windows /\ Live(w) /\ chain[w] \in ChainStates
           /\ chain[w].index \in Nat /\ chain[w].index + 1 \in 1..Len(chain[w].images)
           /\ chain[w].images[chain[w].index + 1] = "held"
  <1>1. frame.prepared \in Seq(Windows)
    BY DEF TypeOK
  <1>2. w \in Windows
    BY <1>1, RangeOfSeq
  <1>3. /\ chain[w] \in ChainStates /\ chain[w].index \in Nat \cup {-1}
        /\ DOMAIN chain[w].images = 1..Len(chain[w].images)
    BY <1>2 DEF TypeOK, ChainStates, NoImage
  <1>4. Live(w) /\ chain[w].index + 1 \in DOMAIN chain[w].images
        /\ chain[w].images[chain[w].index + 1] = "held"
    BY DEF HeldInv
  <1> QED
    BY <1>2, <1>3, <1>4

\* What Present gives to the queue after the work of the frame.
Presents == [k \in DOMAIN frame.prepared |-> PresentOf(frame.prepared[k])]

LEMMA PresentsType ==
    ASSUME TypeOK, HeldInv, ChainInv, stage = "present"
    PROVE  /\ Presents \in Seq(Work) /\ Len(Presents) = Len(frame.prepared)
           /\ Len(frame.prepared) \in Nat /\ DOMAIN frame.prepared = 1..Len(frame.prepared)
           /\ \A k \in 1..Len(frame.prepared) :
                 Presents[k] = PresentOf(frame.prepared[k]) /\ PresentOf(frame.prepared[k]) \in Work
  <1>1. frame.prepared \in Seq(Windows) /\ Len(frame.prepared) \in Nat
        /\ DOMAIN frame.prepared = 1..Len(frame.prepared)
    BY DEF TypeOK
  <1>2. \A w \in Range(frame.prepared) : PresentOf(w) \in Work
    <2> SUFFICES ASSUME NEW w \in Range(frame.prepared) PROVE PresentOf(w) \in Work
      OBVIOUS
    <2>1. Finished(w, chain[w].index) \in Semaphores
      BY PreparedImages, SemaphoreType
    <2> QED
      BY <2>1, FramesAssumption DEF PresentOf, Work
  <1>3. \A k \in 1..Len(frame.prepared) : PresentOf(frame.prepared[k]) \in Work
    BY <1>1, <1>2 DEF Range
  <1> QED
    BY <1>1, <1>3 DEF Presents

LEMMA TypePresent ==
    ASSUME TypeOK, HeldInv, ChainInv, Present
    PROVE  TypeOK'
  <1>1. slot' \in 0..(Slots - 1)
    BY FramesAssumption DEF Present, TypeOK
  <1>2. gpu' \in Seq(Work)
    <2>1. gpu \in Seq(Work) /\ Presents \in Seq(Work)
      BY PresentsType DEF Present, TypeOK
    <2>2. gpu' = gpu \o Presents \/ gpu' = gpu
      BY DEF Present, Presents
    <2> QED
      BY <2>1, <2>2, ConcatProperties
  <1>3. ChainsOK'
    <2>1. CASE frame.submitted
      <3>1. chain' = [w \in Windows |-> IF w \in Range(frame.prepared)
                                        THEN WithImage(chain[w], chain[w].index + 1, "shown")
                                        ELSE chain[w]]
        BY <2>1 DEF Present
      <3>2. \A w \in Windows : /\ chain'[w] \in ChainStates
                               /\ Len(chain'[w].images) = Len(chain[w].images)
                               /\ DOMAIN chain'[w].images = DOMAIN chain[w].images
                               /\ chain'[w].index = chain[w].index
        <4> SUFFICES ASSUME NEW w \in Windows
                     PROVE  /\ chain'[w] \in ChainStates
                            /\ Len(chain'[w].images) = Len(chain[w].images)
                            /\ DOMAIN chain'[w].images = DOMAIN chain[w].images
                            /\ chain'[w].index = chain[w].index
          OBVIOUS
        <4>1. chain[w] \in ChainStates /\ DOMAIN chain[w].images = 1..Len(chain[w].images)
          BY DEF TypeOK, ChainStates
        <4>2. CASE w \in Range(frame.prepared)
          <5>1. chain[w].index + 1 \in 1..Len(chain[w].images)
            BY <4>2, PreparedImages DEF Present
          <5>2. chain'[w] = WithImage(chain[w], chain[w].index + 1, "shown")
            BY <3>1, <4>2
          <5> QED
            BY <4>1, <5>1, <5>2, WithImageType
        <4>3. CASE w \notin Range(frame.prepared)
          BY <3>1, <4>1, <4>3
        <4> QED
          BY <4>2, <4>3
      <3> QED
        BY <3>1, <3>2 DEF ChainsOK, Fits, TypeOK, Live, ChainStates
    <2>2. CASE ~frame.submitted
      BY <2>2 DEF Present, TypeOK, ChainsOK, Fits, Live
    <2> QED
      BY <2>1, <2>2
  <1>4. stage' = "post" /\ UNCHANGED <<todo, current, frame, graph, window, asset, pending, release,
                                     staging, content>>
    BY DEF Present, assetVars
  <1> QED
    BY <1>1, <1>2, <1>3, <1>4 DEF TypeOK, ChainsOK, Fits

LEMMA GpuParts ==
    ASSUME TypeOK, gpu # <<>>
    PROVE  /\ Head(gpu) \in Work /\ Head(gpu) = gpu[1] /\ 1 \in DOMAIN gpu
           /\ Tail(gpu) \in Seq(Work) /\ DOMAIN Tail(gpu) = 1..(Len(gpu) - 1)
           /\ \A k \in DOMAIN Tail(gpu) : Tail(gpu)[k] = gpu[k + 1] /\ k + 1 \in DOMAIN gpu
  <1>1. gpu \in Seq(Work) /\ Len(gpu) \in Nat \ {0}
    BY EmptySeq DEF TypeOK
  <1>2. Head(gpu) = gpu[1] /\ gpu[1] \in Work /\ 1 \in DOMAIN gpu
    BY <1>1
  <1>3. /\ Tail(gpu) \in Seq(Work) /\ Len(Tail(gpu)) = Len(gpu) - 1
        /\ \A k \in 1..Len(Tail(gpu)) : Tail(gpu)[k] = gpu[k + 1]
    BY <1>1, HeadTailProperties
  <1> QED
    BY <1>1, <1>2, <1>3

\* A present that ends leaves its image free, and nothing else changes.
Frees(s) ==
    /\ s \in Head(gpu).waits /\ s \in Semaphores /\ Exists(s) /\ ImageOf(s) = "shown"
    /\ chain' = [chain EXCEPT ![s.window] = WithImage(@, s.index + 1, "free")]

LEMMA GpuChain ==
    ASSUME TypeOK, QueueSemaphores, GpuStep
    PROVE  \/ Head(gpu).kind = "batch" /\ chain' = chain
           \/ Head(gpu).kind = "present" /\ \E s \in Head(gpu).waits : Frees(s)
  <1>1. Head(gpu) = gpu[1] /\ 1 \in DOMAIN gpu /\ gpu[1] \in Work
    BY GpuParts DEF GpuStep
  <1>2. CASE Head(gpu).kind = "batch"
    BY <1>2, Zenon DEF GpuStep
  <1>3. CASE Head(gpu).kind # "batch"
    <2>1. PICK s \in Head(gpu).waits :
             chain' = IF Live(s.window) /\ chain[s.window].made = s.chain
                      THEN [chain EXCEPT ![s.window] = WithImage(@, s.index + 1, "free")]
                      ELSE chain
      BY <1>3 DEF GpuStep
    <2>2. Head(gpu).kind = "present" /\ s \in Semaphores
      BY <1>1, <1>3 DEF Work
    <2>3. Exists(s) /\ ImageOf(s) = "shown"
      BY <1>1, <2>2 DEF QueueSemaphores, WorkOK
    <2>4. Frees(s)
      BY <2>1, <2>2, <2>3 DEF Frees, Exists
    <2> QED
      BY <2>2, <2>4
  <1> QED
    BY <1>2, <1>3

LEMMA FreesKeeps ==
    ASSUME TypeOK, NEW s, Frees(s)
    PROVE  /\ chain' \in [Windows -> ChainStates]
           /\ \A w \in Windows : Kept(chain[w], chain'[w])
           /\ \A w \in Windows : \A i \in DOMAIN chain[w].images :
                 ~(w = s.window /\ i = s.index + 1) => chain'[w].images[i] = chain[w].images[i]
           /\ chain'[s.window].images[s.index + 1] = "free"
  <1> DEFINE c == WithImage(chain[s.window], s.index + 1, "free")
  <1>1. /\ s.window \in Windows /\ chain[s.window] \in ChainStates
        /\ s.index + 1 \in 1..Len(chain[s.window].images)
        /\ chain[s.window].images[s.index + 1] = "shown"
        /\ DOMAIN chain[s.window].images = 1..Len(chain[s.window].images)
        /\ chain[s.window].images \in Seq({"free", "held", "shown"})
    BY DEF Frees, TypeOK, ChainStates, Semaphores, Exists, ImageOf
  <1>2. /\ c \in ChainStates
        /\ c.made = chain[s.window].made /\ c.size = chain[s.window].size
        /\ c.index = chain[s.window].index
        /\ Len(c.images) = Len(chain[s.window].images)
        /\ DOMAIN c.images = 1..Len(chain[s.window].images)
        /\ \A j \in 1..Len(chain[s.window].images) :
              c.images[j] = IF j = s.index + 1 THEN "free" ELSE chain[s.window].images[j]
    BY <1>1, WithImageType
  <1>3. chain' = [chain EXCEPT ![s.window] = c] /\ chain \in [Windows -> ChainStates]
    BY DEF Frees, TypeOK
  <1> HIDE DEF c
  <1>4. Kept(chain[s.window], c)
    BY <1>1, <1>2 DEF Kept, ChainStates
  <1>5. \A w \in Windows : Kept(chain[w], chain[w])
    BY DEF Kept
  <1> QED
    BY <1>1, <1>2, <1>3, <1>4, <1>5

LEMMA TypeGpu ==
    ASSUME TypeOK, QueueSemaphores, GpuStep
    PROVE  TypeOK'
  <1>1. gpu' \in Seq(Work) /\ content' \subseteq Keys
    BY GpuParts DEF GpuStep, TypeOK, Work
  <1>2. ChainsOK'
    <2>1. CASE chain' = chain
      BY <2>1 DEF TypeOK, ChainsOK, Fits, Live
    <2>2. CASE \E s \in Head(gpu).waits : Frees(s)
      BY <2>2, FreesKeeps, KeptFits DEF ChainsOK
    <2> QED
      BY <2>1, <2>2, GpuChain
  <1> QED
    BY <1>1, <1>2 DEF GpuStep, TypeOK, ChainsOK, Fits, cpuVars, assetVars

LEMMA TypeWindows ==
    ASSUME TypeOK, NEW w \in Windows, NEW size \in Sizes, NEW tag \in BOOLEAN,
           \/ SetSize(w, size, tag) \/ EditSize(w, size) \/ RequestClose(w)
           \/ RemoveWindow(w) \/ OpenWindow(w)
    PROVE  TypeOK'
  <1>1. window[w] \in WindowStates /\ window \in [Windows -> WindowStates]
    BY DEF TypeOK
  <1>2. window' \in [Windows -> WindowStates]
    <2>1. CASE SetSize(w, size, tag)
      BY <1>1, <2>1 DEF SetSize, WindowStates
    <2>2. CASE EditSize(w, size)
      BY <1>1, <2>2 DEF EditSize, WindowStates
    <2>3. CASE RequestClose(w)
      BY <1>1, <2>3 DEF RequestClose, WindowStates
    <2>4. CASE RemoveWindow(w)
      BY <1>1, <2>4, FramesAssumption DEF RemoveWindow, WindowStates
    <2>5. CASE OpenWindow(w)
      BY <1>1, <2>5, FramesAssumption DEF OpenWindow, WindowStates
    <2> QED
      BY <2>1, <2>2, <2>3, <2>4, <2>5
  <1>3. ReleaseChain(w) \/ UNCHANGED <<chain, gpu, content>>
    BY DEF SetSize, EditSize, RequestClose, RemoveWindow, OpenWindow
  <1>4. ChainsOK' /\ gpu' \in Seq(Work) /\ content' \subseteq Keys
    <2>1. CASE ReleaseChain(w)
      BY <2>1, ReleaseFits, WaitIdleSends DEF ReleaseChain
    <2>2. CASE UNCHANGED <<chain, gpu, content>>
      BY <2>2 DEF TypeOK, ChainsOK, Fits, Live
    <2> QED
      BY <1>3, <2>1, <2>2
  <1>5. UNCHANGED <<cpuVars, assetVars>>
    BY DEF SetSize, EditSize, RequestClose, RemoveWindow, OpenWindow
  <1> QED
    BY <1>2, <1>4, <1>5 DEF TypeOK, ChainsOK, Fits, cpuVars, assetVars

LEMMA KeyType ==
    ASSUME TypeOK, NEW t \in Textures
    PROVE  Key(t) \in Keys /\ Key(t).texture = t /\ Key(t).generation = asset[t].generation
           /\ asset[t] \in TextureStates /\ asset[t].generation \in Nat
  BY DEF Key, Keys, TypeOK, TextureStates

LEMMA EmptyTextureType ==
    ASSUME TypeOK, AssetInv, NEW t \in Textures, asset[t].state # "EMPTY"
    PROVE  EmptyTexture(NextGeneration(asset[t].generation)) \in TextureStates
  BY KeyType, FramesAssumption DEF AssetInv, EmptyTexture, NextGeneration, TextureStates

LEMMA TypeTextures ==
    ASSUME TypeOK, AssetInv, NEW t \in Textures,
           \/ LoadTexture(t) \/ FirstStep(t) \/ LastStep(t) \/ ReleaseTexture(t) \/ CancelLoad(t)
    PROVE  TypeOK'
  <1>1. asset[t] \in TextureStates /\ asset \in [Textures -> TextureStates] /\ Key(t) \in Keys
    BY KeyType DEF TypeOK
  <1>2. asset' \in [Textures -> TextureStates]
    <2>1. CASE LoadTexture(t)
      BY <1>1, <2>1 DEF LoadTexture, TextureStates
    <2>2. CASE FirstStep(t)
      <3>1. \/ asset' = [asset EXCEPT ![t].requested = TRUE]
            \/ asset' = [asset EXCEPT ![t].state = "LOADED"]
            \/ asset' = [asset EXCEPT ![t].state = "FAILED"]
        BY <2>2, Zenon DEF FirstStep
      <3>2. /\ [asset[t] EXCEPT !.requested = TRUE] \in TextureStates
            /\ [asset[t] EXCEPT !.state = "LOADED"] \in TextureStates
            /\ [asset[t] EXCEPT !.state = "FAILED"] \in TextureStates
        BY <1>1, TextureEdited
      <3> QED
        BY <1>1, <3>1, <3>2, Zenon
    <2>3. CASE LastStep(t)
      BY <1>1, <2>3 DEF LastStep, TextureStates
    <2>4. ASSUME asset[t].state # "EMPTY", DestroyTexture(t)
          PROVE  asset' \in [Textures -> TextureStates]
      BY <1>1, <2>4, EmptyTextureType, Zenon DEF DestroyTexture
    <2>5. CASE ReleaseTexture(t)
      BY <1>1, <2>4, <2>5 DEF ReleaseTexture, TextureStates
    <2>6. CASE CancelLoad(t)
      BY <2>4, <2>6 DEF CancelLoad
    <2> QED
      BY <2>1, <2>2, <2>3, <2>5, <2>6
  <1>3. /\ pending' = pending \/ pending' = Append(pending, Key(t))
        /\ staging' = staging \/ staging' = staging \cup {Key(t)}
        /\ content' \in {content, content \cup {Key(t)}, content \ {Key(t)}}
        /\ release' = release
    BY Zenon DEF LoadTexture, FirstStep, LastStep, ReleaseTexture, CancelLoad, DestroyTexture
  <1>4. UNCHANGED <<cpuVars, windowVars, gpu>>
    BY DEF LoadTexture, FirstStep, LastStep, ReleaseTexture, CancelLoad
  <1>5. pending' \in Seq(Keys) /\ release' \cup staging' \cup content' \subseteq Keys
    <2>1. Append(pending, Key(t)) \in Seq(Keys)
      BY <1>1 DEF TypeOK
    <2> QED
      BY <1>1, <1>3, <2>1 DEF TypeOK
  <1> QED
    BY <1>2, <1>4, <1>5 DEF TypeOK, Live, cpuVars, windowVars

\* Shutdown leaves nothing.
LEMMA ShutdownEffect ==
    ASSUME TypeOK, AssetInv, Shutdown
    PROVE  /\ chain' \in [Windows -> ChainStates]
           /\ \A w \in Windows : chain'[w].images = <<>>
           /\ asset' \in [Textures -> TextureStates]
           /\ \A t \in Textures :
                 \/ asset'[t] = asset[t]
                 \/ asset'[t].requested = FALSE /\ asset'[t].completed = FALSE
           /\ \A t \in Textures : asset'[t].state = "EMPTY"
  <1>1. /\ \A w \in Windows : Released(chain[w]) \in ChainStates /\ Released(chain[w]).images = <<>>
        /\ chain' = [w \in Windows |-> Released(chain[w])]
    BY ReleasedType DEF TypeOK, Shutdown
  <1> DEFINE e(t) == EmptyTexture(NextGeneration(asset[t].generation))
  <1>2. asset' = [t \in Textures |-> IF asset[t].state = "EMPTY" THEN asset[t] ELSE e(t)]
    BY DEF Shutdown
  <1>3. \A t \in Textures : asset[t] \in TextureStates
                            /\ (asset[t].state # "EMPTY" => e(t) \in TextureStates)
    BY KeyType, EmptyTextureType
  <1>4. \A t \in Textures : e(t).state = "EMPTY" /\ e(t).requested = FALSE /\ e(t).completed = FALSE
    BY DEF EmptyTexture
  <1> HIDE DEF e
  <1> QED
    BY <1>1, <1>2, <1>3, <1>4

LEMMA TypeShutdown ==
    ASSUME TypeOK, AssetInv, Shutdown
    PROVE  TypeOK'
  <1>1. gpu' \in Seq(Work) /\ content' \subseteq Keys
    BY WaitIdleSends DEF Shutdown
  <1>2. ChainsOK' /\ asset' \in [Textures -> TextureStates]
    BY ShutdownEffect DEF ChainsOK, Fits, Live
  <1> QED
    BY <1>1, <1>2, EmptySeq DEF Shutdown, TypeOK, ChainsOK, Fits

LEMMA TypeStep ==
    ASSUME IInv, Next
    PROVE  TypeOK'
  <1> USE DEF IInv, WindowInv, DriverInv, TextureInv
  <1>1. CASE FrameStep
    BY <1>1, TypeFrame, TypeRecord, TypeSubmit, TypePresent, TypeEnsure, TypeAcquire DEF FrameStep
  <1>2. CASE WindowStep
    BY <1>2, FramesAssumption, TypeWindows DEF WindowStep
  <1>3. CASE TextureStep
    BY <1>3, TypeTextures DEF TextureStep
  <1>4. CASE Down
    BY <1>4 DEF Down, vars, cpuVars, windowVars, assetVars, TypeOK, Live
  <1> QED
    BY <1>1, <1>2, <1>3, <1>4, TypeGpu, TypeShutdown DEF Next

-----------------------------------------------------------------------------
(* The frame and its windows                                                *)

\* The steps of the other actors leave the frame alone.
LEMMA OthersKeepFrame ==
    ASSUME WindowStep \/ TextureStep \/ GpuStep \/ Down
    PROVE  UNCHANGED cpuVars
  <1>1. CASE WindowStep
    BY <1>1 DEF WindowStep, SetSize, EditSize, RequestClose, RemoveWindow, OpenWindow
  <1>2. CASE TextureStep
    BY <1>2 DEF TextureStep, LoadTexture, FirstStep, LastStep, ReleaseTexture, CancelLoad
  <1>3. CASE GpuStep
    BY <1>3 DEF GpuStep
  <1>4. CASE Down
    BY <1>4 DEF Down, vars
  <1> QED
    BY <1>1, <1>2, <1>3, <1>4

LEMMA FrameInvStep ==
    ASSUME TypeOK, FrameInv, FrameSemaphores, Next
    PROVE  FrameInv'
  <1>1. CASE BeginFrame
    BY <1>1 DEF FrameInv, BeginFrame, NoFrame
  <1>2. CASE \E w \in Windows : EnsureChain(w)
    BY <1>2 DEF FrameInv, EnsureChain
  <1>3. CASE \E w \in Windows : AcquireImage(w) \/ AcquireRefused(w)
    BY <1>3 DEF FrameInv, AcquireImage, AcquireRefused, TypeOK
  <1>4. CASE RecordGraph \/ SkipGraph \/ ExecuteGraph
    BY <1>4 DEF FrameInv, RecordGraph, SkipGraph, ExecuteGraph
  <1>5. CASE Submit
    BY <1>5 DEF FrameInv, Submit, TypeOK
  <1>6. CASE Present
    <2>1. frame.prepared = <<>> => frame.waits = {} /\ frame.signals = {}
      BY DEF FrameSemaphores, Range
    <2> QED
      BY <1>6, <2>1 DEF FrameInv, Present
  <1>7. CASE PostFrame
    BY <1>7 DEF FrameInv, PostFrame, NoFrame
  <1>8. CASE Shutdown
    BY <1>8 DEF FrameInv, Shutdown
  <1>9. CASE UNCHANGED cpuVars
    BY <1>9 DEF FrameInv, cpuVars
  <1> QED
    BY <1>1, <1>2, <1>3, <1>4, <1>5, <1>6, <1>7, <1>8, <1>9, OthersKeepFrame DEF Next, FrameStep

LEMMA AppendRange ==
    ASSUME NEW S, NEW s \in Seq(S), NEW e \in S
    PROVE  Range(Append(s, e)) = Range(s) \cup {e}
  <1>1. /\ DOMAIN Append(s, e) = 1..(Len(s) + 1) /\ Append(s, e)[Len(s) + 1] = e
        /\ \A i \in 1..Len(s) : Append(s, e)[i] = s[i]
        /\ Len(s) \in Nat /\ DOMAIN s = 1..Len(s)
    OBVIOUS
  <1> QED
    BY <1>1 DEF Range

LEMMA PreparedInvStep ==
    ASSUME TypeOK, FrameInv, PreparedInv, Next
    PROVE  PreparedInv'
  <1>1. Range(<<>>) = {} /\ DOMAIN <<>> = {}
    BY DEF Range
  <1>2. CASE BeginFrame
    BY <1>1, <1>2 DEF FrameInv, PreparedInv, BeginFrame, NoFrame
  <1>3. CASE \E w \in Windows : EnsureChain(w)
    BY <1>3 DEF PreparedInv, EnsureChain
  <1>4. CASE \E w \in Windows : AcquireRefused(w)
    BY <1>4 DEF PreparedInv, AcquireRefused
  <1>5. CASE \E w \in Windows : AcquireImage(w)
    <2>1. PICK w \in Windows : AcquireImage(w)
      BY <1>5
    <2>2. frame'.prepared = Append(frame.prepared, w) /\ frame.prepared \in Seq(Windows)
      BY <2>1 DEF AcquireImage, TypeOK
    <2>3. w \in current /\ current' = {} /\ todo' = todo
      BY <2>1 DEF AcquireImage
    <2>4. Range(frame'.prepared) = Range(frame.prepared) \cup {w}
      BY <2>2, AppendRange
    <2>5. w \notin Range(frame.prepared) /\ w \notin todo
      BY <2>3 DEF PreparedInv
    <2>6. \A j, k \in DOMAIN frame'.prepared : frame'.prepared[j] = frame'.prepared[k] => j = k
      <3>1. DOMAIN frame'.prepared = 1..(Len(frame.prepared) + 1) /\ Len(frame.prepared) \in Nat
            /\ DOMAIN frame.prepared = 1..Len(frame.prepared)
            /\ frame'.prepared[Len(frame.prepared) + 1] = w
            /\ \A k \in 1..Len(frame.prepared) : frame'.prepared[k] = frame.prepared[k]
        BY <2>2
      <3>2. \A k \in 1..Len(frame.prepared) : frame.prepared[k] # w
        BY <2>5, <3>1 DEF Range
      <3> DEFINE n == Len(frame.prepared)
      <3>3. ASSUME NEW j \in 1..(n + 1), NEW k \in 1..(n + 1),
                   frame'.prepared[j] = frame'.prepared[k]
            PROVE  j = k
        <4>1. CASE j \in 1..n /\ k \in 1..n
          <5>1. frame.prepared[j] = frame.prepared[k]
            BY <3>1, <3>3, <4>1
          <5> QED
            BY <3>1, <4>1, <5>1 DEF PreparedInv
        <4>2. CASE j = n + 1 \/ k = n + 1
          BY <3>1, <3>2, <3>3, <4>2
        <4> QED
          BY <3>1, <4>1, <4>2
      <3> QED
        BY <3>1, <3>3
    <2> QED
      BY <2>3, <2>4, <2>5, <2>6 DEF PreparedInv
  <1>6. CASE RecordGraph \/ SkipGraph \/ ExecuteGraph \/ Submit \/ Present
    BY <1>6 DEF PreparedInv, RecordGraph, SkipGraph, ExecuteGraph, Submit, Present, TypeOK
  <1>7. CASE PostFrame
    BY <1>1, <1>7 DEF FrameInv, PreparedInv, PostFrame, NoFrame
  <1>8. CASE Shutdown
    BY <1>8 DEF PreparedInv, Shutdown
  <1>9. CASE UNCHANGED cpuVars
    BY <1>9 DEF PreparedInv, cpuVars
  <1> QED
    BY <1>2, <1>3, <1>4, <1>5, <1>6, <1>7, <1>8, <1>9, OthersKeepFrame DEF Next, FrameStep

\* A swapchain and its window of which nothing changes that matters to it.
SameChain(w) ==
    /\ chain'[w].made = chain[w].made /\ chain'[w].size = chain[w].size
    /\ chain'[w].images = <<>> <=> chain[w].images = <<>>
SameWindow(w) ==
    /\ window'[w].open = window[w].open /\ window'[w].size = window[w].size
    /\ window'[w].resized = window[w].resized

LEMMA SameLeft ==
    ASSUME ChainInv, NEW w \in Windows, SameChain(w), SameWindow(w), stage # "down",
           stage' # "update" \/ stage = "update", todo' \subseteq todo
    PROVE  ChainLeft(w)'
  BY DEF ChainInv, ChainLeft, SameChain, SameWindow, Live

LEMMA KeptSame ==
    ASSUME NEW w, Kept(chain[w], chain'[w])
    PROVE  SameChain(w)
  BY DEF Kept, SameChain

\* Only a window that may have another swapchain needs one.
LEMMA NeedsLeft ==
    ASSUME TypeOK, ChainInv, stage = "prepare", NEW w \in todo, NeedsChain(w)
    PROVE  chain[w].made < MaxChains
  BY FramesAssumption DEF ChainInv, ChainLeft, NeedsChain, TypeOK, ChainStates

LEMMA ChainInvEnsure ==
    ASSUME TypeOK, ChainInv, NEW w \in Windows, EnsureChain(w)
    PROVE  ChainInv'
  <1>1. /\ stage = "prepare" /\ stage' = "prepare" /\ w \in todo /\ todo' = todo \ {w}
        /\ window' = window
    BY DEF EnsureChain
  <1>2. \A v \in todo' : window'[v].open
    BY <1>1 DEF ChainInv
  <1>3. \A v \in Windows : SameWindow(v)
    BY <1>1 DEF SameWindow
  <1>4. CASE chain' = chain
    BY <1>1, <1>2, <1>3, <1>4, SameLeft DEF ChainInv, SameChain
  <1>5. CASE NeedsChain(w) /\ ReleaseChain(w)
    <2>1. /\ chain'[w].images = <<>> /\ chain'[w].made = chain[w].made
          /\ chain[w].made < MaxChains
      BY <1>1, <1>5, NeedsLeft, ReleaseEffect
    <2>2. ChainLeft(w)'
      BY <2>1, FramesAssumption DEF ChainLeft, Live, TypeOK, ChainStates
    <2>3. \A v \in Windows \ {w} : ChainLeft(v)'
      BY <1>1, <1>3, <1>5, ReleaseEffect, KeptSame, SameLeft
    <2> QED
      BY <1>2, <2>2, <2>3 DEF ChainInv
  <1>6. CASE Replaces(w)
    <2>1. ChainLeft(w)'
      <3>1. chain'[w].made > 0 /\ chain'[w].images # <<>> /\ chain'[w].size = window'[w].size
        BY <1>1, <1>6 DEF Replaces, TypeOK, ChainStates
      <3> QED
        BY <1>1, <3>1 DEF ChainLeft, Live
    <2>2. \A v \in Windows \ {w} : ChainLeft(v)'
      BY <1>1, <1>3, <1>6, KeptSame, SameLeft DEF Replaces
    <2> QED
      BY <1>2, <2>1, <2>2 DEF ChainInv
  <1>7. NeedsChain(w) /\ WaitIdle /\ (\E n \in Images :
           chain' = [RestedChains EXCEPT ![w] = NewChain(@, n, window[w].size)]) => Replaces(w)
    BY <1>1, NeedsLeft, ReplaceEffect
  <1> QED
    BY <1>4, <1>5, <1>6, <1>7 DEF EnsureChain

\* The steps of the frame that hand images around.
LEMMA ImagesSame ==
    ASSUME TypeOK, HeldInv, NEW w \in Windows,
           (\E v \in Windows : AcquireImage(v)) \/ Present
    PROVE  SameChain(w)
  <1>1. chain[w] \in ChainStates
    BY DEF TypeOK
  <1>2. ASSUME NEW c \in ChainStates, Len(c.images) = Len(chain[w].images)
        PROVE  c.images = <<>> <=> chain[w].images = <<>>
    BY <1>1, <1>2, EmptySeq DEF ChainStates
  <1>3. ASSUME NEW v \in Windows, AcquireImage(v)
        PROVE  SameChain(w)
    <2>1. PICK i \in DOMAIN chain[v].images : chain' = [chain EXCEPT ![v] = Acquired(@, i)]
      BY <1>3 DEF AcquireImage
    <2>2. CASE v = w
      <3>1. i \in 1..Len(chain[w].images) /\ chain'[w] = Acquired(chain[w], i)
        BY <1>1, <2>1, <2>2 DEF ChainStates, TypeOK
      <3> QED
        BY <1>1, <1>2, <3>1, AcquiredType DEF SameChain
    <2>3. CASE v # w
      BY <2>1, <2>3 DEF SameChain, TypeOK
    <2> QED
      BY <2>2, <2>3
  <1>4. CASE Present /\ frame.submitted
    <2>1. CASE w \in Range(frame.prepared)
      <3>1. chain'[w] = WithImage(chain[w], chain[w].index + 1, "shown")
        BY <1>4, <2>1 DEF Present
      <3>2. chain[w].index + 1 \in 1..Len(chain[w].images)
        BY <1>4, <2>1, PreparedImages DEF Present
      <3> QED
        BY <1>1, <1>2, <3>1, <3>2, WithImageType DEF SameChain
    <2>2. CASE w \notin Range(frame.prepared)
      BY <1>4, <2>2 DEF Present, SameChain
    <2> QED
      BY <2>1, <2>2
  <1>5. CASE Present /\ ~frame.submitted
    BY <1>5 DEF Present, SameChain
  <1> QED
    BY <1>3, <1>4, <1>5

\* Between the frames the application gives its windows sizes that can be met.
LEMMA ChainInvWindows ==
    ASSUME TypeOK, FrameInv, ChainInv, NEW w \in Windows, NEW size \in Sizes, NEW tag \in BOOLEAN,
           \/ SetSize(w, size, tag) \/ EditSize(w, size) \/ RequestClose(w)
           \/ RemoveWindow(w) \/ OpenWindow(w)
    PROVE  ChainInv'
  <1>1. stage = "update" /\ UNCHANGED cpuVars
    BY DEF SetSize, EditSize, RequestClose, RemoveWindow, OpenWindow
  <1>2. ReleaseChain(w) \/ chain' = chain
    BY DEF SetSize, EditSize, RequestClose, RemoveWindow, OpenWindow
  <1>3. todo = {} /\ todo' = {} /\ stage' = "update"
    BY <1>1 DEF FrameInv, cpuVars
  <1>4. \A v \in Windows \ {w} : window'[v] = window[v]
    BY DEF SetSize, EditSize, RequestClose, RemoveWindow, OpenWindow, TypeOK
  <1>5. \A v \in Windows \ {w} : SameChain(v)
    BY <1>2, ReleaseEffect, KeptSame DEF SameChain
  <1>6. \A v \in Windows \ {w} : ChainLeft(v)'
    BY <1>3, <1>4, <1>5, <1>1, SameLeft DEF SameWindow
  <1>7. ChainLeft(w)'
    <2>1. chain'[w].made = chain[w].made /\ (chain'[w].images # <<>> => chain[w].images # <<>>)
          /\ chain[w].made \in Nat
      BY <1>2, ReleaseEffect DEF TypeOK, ChainStates
    <2>2. CASE chain[w].made < MaxChains
      BY <2>1, <2>2, FramesAssumption DEF ChainInv, ChainLeft, Live
    <2>3. CASE RequestClose(w)
      <3>1. SameChain(w) /\ SameWindow(w)
        BY <2>3 DEF RequestClose, SameChain, SameWindow, TypeOK, WindowStates
      <3> QED
        BY <1>1, <1>3, <3>1, SameLeft
    <2>4. CASE RemoveWindow(w)
      <3>1. ~window'[w].open
        BY <2>4 DEF RemoveWindow, TypeOK
      <3> QED
        BY <2>1, <3>1 DEF ChainInv, ChainLeft, Live
    <2> QED
      BY <2>2, <2>3, <2>4 DEF SetSize, EditSize, OpenWindow
  <1> QED
    BY <1>3, <1>6, <1>7 DEF ChainInv

LEMMA ChainInvStep ==
    ASSUME IInv, Next
    PROVE  ChainInv'
  <1> USE DEF IInv, WindowInv, DriverInv
  <1>1. CASE BeginFrame
    BY <1>1 DEF BeginFrame, windowVars, ChainInv, ChainLeft, Live
  <1>2. CASE \E w \in Windows : EnsureChain(w)
    BY <1>2, ChainInvEnsure
  <1>3. CASE (\E w \in Windows : AcquireImage(w)) \/ Present
    <2>1. \A w \in Windows : SameChain(w)
      BY <1>3, ImagesSame
    <2>2. window' = window /\ stage' # "update" /\ stage # "down" /\ todo' = todo
      BY <1>3 DEF AcquireImage, Present, FrameInv
    <2>3. \A w \in Windows : ChainLeft(w)'
      BY <2>1, <2>2, SameLeft DEF SameWindow
    <2> QED
      BY <2>2, <2>3 DEF ChainInv
  <1>4. CASE RecordGraph \/ SkipGraph \/ ExecuteGraph \/ Submit
    BY <1>4 DEF RecordGraph, SkipGraph, ExecuteGraph, Submit, windowVars, ChainInv, ChainLeft, Live
  <1>11. CASE \E w \in Windows : AcquireRefused(w)
    <2>1. \A v \in Windows : SameChain(v)
      BY <1>11, RefusedEffect DEF SameChain
    <2>2. window' = window /\ stage' = stage /\ todo' = todo
      BY <1>11 DEF AcquireRefused
    <2> QED
      BY <2>1, <2>2 DEF ChainInv, ChainLeft, SameChain, Live
  <1>5. CASE PostFrame
    BY <1>5 DEF PostFrame, ChainInv, ChainLeft, Live, TypeOK, WindowStates, FrameInv
  <1>6. CASE WindowStep
    BY <1>6, FramesAssumption, ChainInvWindows DEF WindowStep
  <1>7. CASE TextureStep
    <2>1. UNCHANGED <<cpuVars, windowVars>>
      BY <1>7 DEF TextureStep, LoadTexture, FirstStep, LastStep, ReleaseTexture, CancelLoad
    <2> QED
      BY <2>1 DEF cpuVars, windowVars, ChainInv, ChainLeft, Live
  <1>8. CASE GpuStep
    <2>1. \A w \in Windows : SameChain(w)
      BY <1>8, GpuChain, FreesKeeps, KeptSame DEF SameChain
    <2>2. window' = window /\ stage' = stage /\ todo' = todo
      BY <1>8 DEF GpuStep, cpuVars
    <2> QED
      BY <2>1, <2>2 DEF ChainInv, ChainLeft, SameChain, Live
  <1>9. CASE Shutdown
    BY <1>9, ShutdownEffect DEF TextureInv, Shutdown, ChainInv, ChainLeft, FrameInv, Live
  <1>10. CASE Down
    BY <1>10 DEF Down, vars, cpuVars, windowVars, ChainInv, ChainLeft, Live
  <1> QED
    BY <1>1, <1>2, <1>3, <1>4, <1>5, <1>6, <1>7, <1>8, <1>9, <1>10, <1>11 DEF Next, FrameStep

-----------------------------------------------------------------------------
(* The images                                                               *)

Handing == stage \in {"prepare", "execute", "submit", "present"}

\* Outside of the stages of a frame no image is held.
LEMMA NoneHeld ==
    ASSUME HeldInv, ~Handing \/ frame.prepared = <<>>, NEW w \in Windows,
           NEW i \in DOMAIN chain[w].images
    PROVE  chain[w].images[i] # "held"
  BY DEF HeldInv, Handing, Range

\* Ends of presents, and releases of swapchains the frame does not use.
LEMMA HeldKept ==
    ASSUME HeldInv, stage' = stage, frame' = frame, NEW S, S \cap Range(frame.prepared) = {},
           \A w \in S : \A i \in DOMAIN chain'[w].images : chain'[w].images[i] = "free",
           \A w \in Windows \ S : Kept(chain[w], chain'[w]), TypeOK
    PROVE  HeldInv'
  <1>1. ASSUME NEW w \in Windows, NEW i \in DOMAIN chain'[w].images, chain'[w].images[i] = "held"
        PROVE  Handing /\ w \in Range(frame.prepared) /\ i = chain'[w].index + 1
    <2>1. w \notin S
      BY <1>1
    <2>2. Kept(chain[w], chain'[w])
      BY <2>1
    <2> QED
      BY <1>1, <2>2 DEF Kept, HeldInv, Handing
  <1>2. ASSUME Handing, NEW w \in Range(frame.prepared)
        PROVE  /\ chain'[w].images # <<>> /\ chain'[w].index + 1 \in DOMAIN chain'[w].images
               /\ chain'[w].images[chain'[w].index + 1] = "held"
    <2>1. w \in Windows \ S /\ chain[w].index + 1 \in DOMAIN chain[w].images
          /\ chain[w].images[chain[w].index + 1] = "held" /\ chain[w].images # <<>>
      BY <1>2, PreparedImages DEF Handing, ChainStates, Live, TypeOK
    <2>2. Kept(chain[w], chain'[w])
      BY <2>1
    <2> QED
      BY <2>1, <2>2 DEF Kept
  <1> QED
    BY <1>1, <1>2 DEF HeldInv, Handing, Live

LEMMA HeldEnsure ==
    ASSUME TypeOK, ChainInv, PreparedInv, HeldInv, NEW w \in Windows, EnsureChain(w)
    PROVE  HeldInv'
  <1>1. stage' = stage /\ frame' = frame /\ {w} \cap Range(frame.prepared) = {}
    BY DEF EnsureChain, PreparedInv
  <1>2. CASE chain' = chain
    BY <1>1, <1>2 DEF HeldInv, Live
  <1>3. CASE ReleaseChain(w)
    <2>1. \A i \in DOMAIN chain'[w].images : chain'[w].images[i] = "free"
      BY <1>3, ReleaseEffect
    <2> QED
      BY <1>1, <1>3, <2>1, ReleaseEffect, HeldKept
  <1>4. CASE Replaces(w)
    BY <1>1, <1>4, HeldKept DEF Replaces
  <1>5. stage = "prepare" /\ w \in todo /\ NeedsChain(w) /\ WaitIdle /\ (\E n \in Images :
           chain' = [RestedChains EXCEPT ![w] = NewChain(@, n, window[w].size)]) => Replaces(w)
    BY NeedsLeft, ReplaceEffect
  <1> QED
    BY <1>2, <1>3, <1>4, <1>5 DEF EnsureChain

LEMMA HeldAcquire ==
    ASSUME TypeOK, FrameInv, PreparedInv, HeldInv, NEW w \in Windows, AcquireImage(w)
    PROVE  HeldInv'
  <1>1. PICK i \in DOMAIN chain[w].images :
           chain' = [chain EXCEPT ![w] = Acquired(@, i)] /\ chain[w].images[i] = "free"
    BY DEF AcquireImage
  <1>2. /\ stage = "prepare" /\ stage' = stage /\ w \notin Range(frame.prepared)
        /\ frame'.prepared = Append(frame.prepared, w)
    BY DEF AcquireImage, FrameInv, PreparedInv, TypeOK
  <1>3. Range(frame'.prepared) = Range(frame.prepared) \cup {w}
    BY <1>2, AppendRange DEF TypeOK
  <1>4. /\ i \in 1..Len(chain[w].images) /\ chain[w] \in ChainStates
        /\ DOMAIN chain[w].images = 1..Len(chain[w].images)
        /\ chain'[w] = Acquired(chain[w], i)
        /\ \A v \in Windows \ {w} : chain'[v] = chain[v]
    BY <1>1 DEF TypeOK, ChainStates
  <1>5. /\ chain'[w].index = i - 1 /\ i \in Int
        /\ DOMAIN chain'[w].images = DOMAIN chain[w].images
        /\ \A j \in DOMAIN chain[w].images :
              chain'[w].images[j] = IF j = i THEN "held" ELSE chain[w].images[j]
    BY <1>4, AcquiredType
  <1>6. \A j \in DOMAIN chain[w].images : chain[w].images[j] # "held"
    BY <1>2 DEF HeldInv
  <1>7. ASSUME NEW v \in Windows, NEW j \in DOMAIN chain'[v].images, chain'[v].images[j] = "held"
        PROVE  v \in Range(frame'.prepared) /\ j = chain'[v].index + 1
    <2>1. CASE v = w
      BY <1>3, <1>5, <1>6, <1>7, <2>1
    <2>2. CASE v # w
      BY <1>3, <1>4, <1>7, <2>2 DEF HeldInv
    <2> QED
      BY <2>1, <2>2
  <1>8. ASSUME NEW v \in Range(frame'.prepared)
        PROVE  /\ chain'[v].images # <<>> /\ chain'[v].index + 1 \in DOMAIN chain'[v].images
               /\ chain'[v].images[chain'[v].index + 1] = "held"
    <2>1. CASE v = w
      <3>1. 1 \in DOMAIN chain'[w].images
        BY <1>4, <1>5
      <3> QED
        BY <1>4, <1>5, <2>1, <3>1
    <2>2. CASE v # w
      BY <1>2, <1>3, <1>4, <2>2, PreparedImages DEF Live
    <2> QED
      BY <2>1, <2>2
  <1> QED
    BY <1>2, <1>7, <1>8 DEF HeldInv, Live

\* A refused window is not in the frame, and has no image that is held.
LEMMA HeldRefused ==
    ASSUME TypeOK, FrameInv, PreparedInv, HeldInv, NEW w \in Windows, AcquireRefused(w)
    PROVE  HeldInv'
  <1>1. stage' = stage /\ frame' = frame /\ w \notin Range(frame.prepared)
    BY DEF AcquireRefused, PreparedInv
  <1>2. Range(frame.prepared) \subseteq Windows
    BY RangeOfSeq DEF TypeOK
  <1>3. /\ \A v \in Windows : chain'[v].images = chain[v].images
        /\ \A v \in Windows \ {w} : chain'[v] = chain[v]
    BY RefusedEffect
  <1>4. \A i \in DOMAIN chain[w].images : chain[w].images[i] # "held"
    BY <1>1 DEF HeldInv
  <1> QED
    BY <1>1, <1>2, <1>3, <1>4 DEF HeldInv, Live

LEMMA HeldPresent ==
    ASSUME TypeOK, FrameInv, HeldInv, Present
    PROVE  HeldInv'
  <1>1. stage' = "post" /\ frame' = frame /\ stage = "present"
    BY DEF Present
  <1>2. ASSUME NEW w \in Windows, NEW i \in DOMAIN chain'[w].images
        PROVE  chain'[w].images[i] # "held"
    <2>1. CASE ~frame.submitted
      <3>1. frame.prepared = <<>> /\ chain' = chain
        BY <1>1, <2>1 DEF FrameInv, Present
      <3> QED
        BY <1>2, <3>1, NoneHeld
    <2>2. CASE frame.submitted /\ w \in Range(frame.prepared)
      <3>1. chain'[w] = WithImage(chain[w], chain[w].index + 1, "shown")
        BY <2>2 DEF Present
      <3>2. chain[w].index + 1 \in 1..Len(chain[w].images) /\ chain[w] \in ChainStates
            /\ DOMAIN chain[w].images = 1..Len(chain[w].images)
        BY <1>1, <2>2, PreparedImages DEF ChainStates
      <3>3. /\ DOMAIN chain'[w].images = 1..Len(chain[w].images)
            /\ chain'[w].images[i] = IF i = chain[w].index + 1 THEN "shown"
                                     ELSE chain[w].images[i]
        BY <1>2, <3>1, <3>2, WithImageType
      <3> QED
        BY <1>2, <3>2, <3>3 DEF HeldInv
    <2>3. CASE frame.submitted /\ w \notin Range(frame.prepared)
      <3>1. chain'[w] = chain[w]
        BY <2>3 DEF Present
      <3> QED
        BY <1>2, <2>3, <3>1 DEF HeldInv
    <2> QED
      BY <2>1, <2>2, <2>3
  <1> QED
    BY <1>1, <1>2 DEF HeldInv

LEMMA HeldInvStep ==
    ASSUME IInv, Next
    PROVE  HeldInv'
  <1> USE DEF IInv, WindowInv, DriverInv
  <1>1. CASE BeginFrame
    BY <1>1, NoneHeld DEF BeginFrame, windowVars, NoFrame, HeldInv, Handing, Range
  <1>2. CASE \E w \in Windows : EnsureChain(w)
    BY <1>2, HeldEnsure
  <1>3. CASE \E w \in Windows : AcquireImage(w)
    BY <1>3, HeldAcquire
  <1>11. CASE \E w \in Windows : AcquireRefused(w)
    BY <1>11, HeldRefused
  <1>4. CASE RecordGraph \/ SkipGraph \/ ExecuteGraph \/ Submit
    <2>1. /\ chain' = chain /\ frame'.prepared = frame.prepared
          /\ stage' \in {"prepare", "execute", "submit", "present"}
          /\ stage \in {"prepare", "execute", "submit", "present"}
      BY <1>4 DEF RecordGraph, SkipGraph, ExecuteGraph, Submit, windowVars, TypeOK, FrameInv
    <2> QED
      BY <2>1 DEF HeldInv, Live
  <1>5. CASE Present
    BY <1>5, HeldPresent
  <1>6. CASE PostFrame
    BY <1>6, NoneHeld DEF PostFrame, HeldInv, Handing
  <1>7. CASE WindowStep
    <2>1. stage' = stage /\ frame' = frame /\ stage = "update"
      BY <1>7 DEF WindowStep, SetSize, EditSize, RequestClose, RemoveWindow, OpenWindow, cpuVars
    <2>2. chain' = chain \/ \E w \in Windows : ReleaseChain(w)
      BY <1>7 DEF WindowStep, SetSize, EditSize, RequestClose, RemoveWindow, OpenWindow
    <2>3. ASSUME NEW w \in Windows, ReleaseChain(w)
          PROVE  HeldInv'
      <3>1. {w} \cap Range(frame.prepared) = {}
        BY <2>1 DEF FrameInv, NoFrame, Range
      <3>2. \A i \in DOMAIN chain'[w].images : chain'[w].images[i] = "free"
        BY <2>3, ReleaseEffect
      <3> QED
        BY <2>1, <2>3, <3>1, <3>2, ReleaseEffect, HeldKept
    <2> QED
      BY <2>1, <2>2, <2>3 DEF HeldInv, Live
  <1>8. CASE TextureStep \/ Down
    <2>1. UNCHANGED <<cpuVars, windowVars>>
      BY <1>8 DEF TextureStep, LoadTexture, FirstStep, LastStep, ReleaseTexture, CancelLoad, Down,
                  vars
    <2> QED
      BY <2>1 DEF cpuVars, windowVars, HeldInv, Live
  <1>9. CASE GpuStep
    <2>1. \A w \in Windows : Kept(chain[w], chain'[w])
      BY <1>9, GpuChain, FreesKeeps DEF Kept
    <2> DEFINE S == {}
    <2>2. /\ S \cap Range(frame.prepared) = {} /\ \A w \in Windows \ S : Kept(chain[w], chain'[w])
          /\ \A w \in S : \A i \in DOMAIN chain'[w].images : chain'[w].images[i] = "free"
      BY <2>1
    <2>3. stage' = stage /\ frame' = frame
      BY <1>9 DEF GpuStep, cpuVars
    <2> HIDE DEF S
    <2> QED
      BY <2>2, <2>3, HeldKept
  <1>10. CASE Shutdown
    BY <1>10, ShutdownEffect DEF TextureInv, Shutdown, HeldInv
  <1> QED
    BY <1>1, <1>2, <1>3, <1>4, <1>5, <1>6, <1>7, <1>8, <1>9, <1>10, <1>11 DEF Next, FrameStep

-----------------------------------------------------------------------------
(* The semaphores                                                           *)

\* A semaphore is known by its image, as long as its swapchain lives.
LEMMA SameSemaphore ==
    ASSUME NEW r \in Semaphores, NEW s \in Semaphores, Exists(r), Exists(s),
           r.kind = s.kind, r.window = s.window, r.index = s.index
    PROVE  r = s
  BY DEF Semaphores, Exists

\* A swapchain of which nothing changes but images that are given back.
LEMMA KeptExists ==
    ASSUME NEW s \in Semaphores, Exists(s), Kept(chain[s.window], chain'[s.window])
    PROVE  /\ Exists(s)'
           /\ ImageOf(s)' = ImageOf(s) \/ (ImageOf(s) = "shown" /\ ImageOf(s)' = "free")
  BY DEF Exists, ImageOf, Kept, Live

\* Every semaphore the frame holds is of its kind.
LEMMA FrameSemaphoreTypes ==
    ASSUME TypeOK
    PROVE  frame.waits \subseteq Semaphores /\ frame.signals \subseteq Semaphores
  BY DEF TypeOK

LEMMA QueueTypes ==
    ASSUME TypeOK, NEW k \in DOMAIN gpu
    PROVE  /\ k \in Nat \ {0} /\ gpu[k].waits \subseteq Semaphores
           /\ gpu[k].signals \subseteq Semaphores /\ gpu[k].writes \subseteq Keys
           /\ gpu[k].kind \in {"batch", "present"} /\ gpu[k].slot \in 0..(Slots - 1)
  BY GpuWork DEF Work

LEMMA FrameSemaphoresKept ==
    ASSUME TypeOK, FrameSemaphores, frame' = frame, slot' = slot,
           \A w \in Range(frame.prepared) : Kept(chain[w], chain'[w])
    PROVE  FrameSemaphores'
  <1>1. \A s \in frame.waits : Exists(s)'
    BY FrameSemaphoreTypes, KeptExists DEF FrameSemaphores
  <1>2. \A s \in frame.signals : Exists(s)' /\ ImageOf(s)' = "held"
    BY FrameSemaphoreTypes, KeptExists DEF FrameSemaphores
  <1> QED
    BY <1>1, <1>2 DEF FrameSemaphores

LEMMA FrameSemaphoresAcquire ==
    ASSUME TypeOK, ChainInv, PreparedInv, FrameSemaphores, NEW w \in Windows, AcquireImage(w)
    PROVE  FrameSemaphores'
  <1>1. PICK i \in DOMAIN chain[w].images :
           /\ chain' = [chain EXCEPT ![w] = Acquired(@, i)]
           /\ frame' = [frame EXCEPT !.prepared = Append(@, w),
                                     !.waits = @ \cup {Available(w)},
                                     !.signals = @ \cup {Finished(w, i - 1)}]
    BY DEF AcquireImage
  <1>2. /\ i \in 1..Len(chain[w].images) /\ chain[w] \in ChainStates /\ Live(w)
        /\ DOMAIN chain[w].images = 1..Len(chain[w].images)
        /\ slot \in Nat /\ slot < Len(chain[w].images)
        /\ chain'[w] = Acquired(chain[w], i)
        /\ \A v \in Windows \ {w} : chain'[v] = chain[v]
    BY <1>1, EmptySeq, FramesAssumption DEF TypeOK, ChainStates, Live
  <1>3. /\ chain'[w].made = chain[w].made /\ chain'[w].images # <<>>
        /\ DOMAIN chain'[w].images = 1..Len(chain[w].images)
        /\ chain'[w].images[i] = "held"
    <2>1. 1 \in 1..Len(chain[w].images)
      BY <1>2
    <2> QED
      BY <1>2, <2>1, AcquiredType
  <1>4. /\ frame'.prepared = Append(frame.prepared, w)
        /\ frame'.waits = frame.waits \cup {Available(w)}
        /\ frame'.signals = frame.signals \cup {Finished(w, i - 1)}
        /\ Range(frame'.prepared) = Range(frame.prepared) \cup {w}
        /\ w \notin Range(frame.prepared) /\ slot' = slot
    <2>1. frame.prepared \in Seq(Windows)
      BY DEF TypeOK
    <2>2. /\ frame'.prepared = Append(frame.prepared, w)
          /\ frame'.waits = frame.waits \cup {Available(w)}
          /\ frame'.signals = frame.signals \cup {Finished(w, i - 1)}
      BY <1>1 DEF TypeOK
    <2>3. w \notin Range(frame.prepared) /\ slot' = slot
      BY DEF AcquireImage, PreparedInv
    <2> QED
      BY <2>1, <2>2, <2>3, AppendRange
  <1>5. ASSUME NEW s \in Semaphores, s.window \in Range(frame.prepared), Exists(s)
        PROVE  Exists(s)' /\ ImageOf(s)' = ImageOf(s)
    BY <1>2, <1>4, <1>5 DEF Exists, ImageOf, Live, Semaphores
  <1>6. PICK r : r = Available(w)
    OBVIOUS
  <1>7. r.kind = "available" /\ r.index = slot' /\ r.window = w /\ Exists(r)'
    <2>1. r.index = slot
      BY <1>2, <1>6, SemaphoreType
    <2>2. r.kind = "available" /\ r.window = w /\ r.chain = chain[w].made
      BY <1>6 DEF Available, Semaphore
    <2> QED
      BY <1>2, <1>3, <1>4, <2>1, <2>2 DEF Exists, Live
  <1>8. PICK s : s = Finished(w, i - 1)
    OBVIOUS
  <1>9. s.kind = "finished" /\ s.window = w /\ Exists(s)' /\ ImageOf(s)' = "held"
    <2>1. /\ s.kind = "finished" /\ s.window = w /\ s.chain = chain[w].made
          /\ s.index = i - 1 /\ s.index + 1 = i
      BY <1>2, <1>8 DEF Finished, Semaphore
    <2> QED
      BY <1>2, <1>3, <2>1 DEF Exists, ImageOf, Live
  <1>10. \A q \in frame'.waits : /\ q.kind = "available" /\ q.index = slot'
                                 /\ q.window \in Range(frame'.prepared) /\ Exists(q)'
    <2>1. frame'.waits = frame.waits \cup {r}
      BY <1>4, <1>6
    <2> QED
      BY <1>4, <1>5, <1>7, <2>1, FrameSemaphoreTypes DEF FrameSemaphores
  <1>11. \A q \in frame'.signals : /\ q.kind = "finished" /\ q.window \in Range(frame'.prepared)
                                   /\ Exists(q)' /\ ImageOf(q)' = "held"
    <2>1. frame'.signals = frame.signals \cup {s}
      BY <1>4, <1>8
    <2> QED
      BY <1>4, <1>5, <1>9, <2>1, FrameSemaphoreTypes DEF FrameSemaphores
  <1> QED
    BY <1>10, <1>11 DEF FrameSemaphores

LEMMA EnsureChainKinds ==
    ASSUME TypeOK, ChainInv, NEW w \in Windows, EnsureChain(w)
    PROVE  \/ UNCHANGED <<chain, gpu, content>>
           \/ ReleaseChain(w) /\ NeedsChain(w)
           \/ Replaces(w) /\ WaitIdle
  BY NeedsLeft, ReplaceEffect DEF EnsureChain

LEMMA FrameSemaphoresStep ==
    ASSUME IInv, Next
    PROVE  FrameSemaphores'
  <1> USE DEF IInv, WindowInv, DriverInv
  <1>1. \A w \in Windows : Kept(chain[w], chain[w])
    BY DEF Kept
  <1>2. Range(frame.prepared) \subseteq Windows
    BY RangeOfSeq DEF TypeOK
  <1>3. ASSUME frame'.waits = {}, frame'.signals = {}
        PROVE  FrameSemaphores'
    BY <1>3 DEF FrameSemaphores
  <1>4. CASE BeginFrame \/ PostFrame
    BY <1>3, <1>4 DEF BeginFrame, PostFrame, NoFrame
  <1>5. CASE Submit
    BY <1>3, <1>5 DEF Submit, TypeOK
  <1>6. CASE Present
    <2>1. frame'.waits = {} /\ frame'.signals = {}
      <3>1. frame.prepared = <<>> => frame.waits = {} /\ frame.signals = {}
        BY DEF FrameSemaphores, Range
      <3> QED
        BY <1>6, <3>1 DEF Present, FrameInv
    <2> QED
      BY <1>3, <2>1
  <1>7. CASE WindowStep \/ Shutdown
    <2>1. stage = "update" /\ frame' = frame
      BY <1>7 DEF WindowStep, SetSize, EditSize, RequestClose, RemoveWindow, OpenWindow, Shutdown,
                  cpuVars
    <2> QED
      BY <1>3, <2>1 DEF FrameInv, NoFrame
  <1>8. ASSUME frame' = frame, slot' = slot, chain' = chain
        PROVE  FrameSemaphores'
    BY <1>1, <1>2, <1>8, FrameSemaphoresKept
  <1>9. CASE RecordGraph \/ SkipGraph \/ ExecuteGraph
    BY <1>8, <1>9 DEF RecordGraph, SkipGraph, ExecuteGraph, windowVars
  <1>14. CASE \E w \in Windows : AcquireRefused(w)
    <2>1. PICK w \in Windows : AcquireRefused(w)
      BY <1>14
    <2>2. frame' = frame /\ slot' = slot /\ w \notin Range(frame.prepared)
      BY <2>1 DEF AcquireRefused, PreparedInv
    <2>3. \A v \in Windows \ {w} : Kept(chain[v], chain'[v])
      BY <1>1, <2>1, RefusedEffect
    <2> QED
      BY <1>2, <2>2, <2>3, FrameSemaphoresKept
  <1>10. CASE TextureStep \/ Down
    BY <1>8, <1>10 DEF TextureStep, LoadTexture, FirstStep, LastStep, ReleaseTexture, CancelLoad,
                       Down, vars, cpuVars, windowVars
  <1>11. CASE \E w \in Windows : AcquireImage(w)
    BY <1>11, FrameSemaphoresAcquire
  <1>12. CASE \E w \in Windows : EnsureChain(w)
    <2>1. PICK w \in Windows : EnsureChain(w)
      BY <1>12
    <2>2. frame' = frame /\ slot' = slot /\ w \notin Range(frame.prepared)
      BY <2>1 DEF EnsureChain, PreparedInv
    <2>3. \A v \in Windows \ {w} : Kept(chain[v], chain'[v])
      BY <1>1, <2>1, EnsureChainKinds, ReleaseEffect DEF Replaces
    <2> QED
      BY <1>2, <2>2, <2>3, FrameSemaphoresKept
  <1>13. CASE GpuStep
    BY <1>1, <1>2, <1>13, GpuChain, FreesKeeps, FrameSemaphoresKept DEF GpuStep, cpuVars
  <1> QED
    BY <1>4, <1>5, <1>6, <1>7, <1>9, <1>10, <1>11, <1>12, <1>13, <1>14 DEF Next, FrameStep

\* The windows and the application release swapchains once the queue has run
\* empty, or leave swapchains and queue alone.
LEMMA WindowsRelease ==
    ASSUME TypeOK, WindowStep
    PROVE  /\ stage = "update" /\ UNCHANGED <<cpuVars, assetVars>>
           /\ (\E w \in Windows : ReleaseChain(w)) \/ UNCHANGED <<chain, gpu, content>>
  BY DEF WindowStep, SetSize, EditSize, RequestClose, RemoveWindow, OpenWindow

\* The finished semaphores of a frame are known by swapchains and indices.
LEMMA SignalsKept ==
    ASSUME PresentsSignalled, stage \in {"prepare", "execute", "submit"},
           frame'.signals = frame.signals, frame'.prepared = frame.prepared,
           \A w \in Range(frame.prepared) : /\ chain'[w].made = chain[w].made
                                           /\ chain'[w].index = chain[w].index
    PROVE  PresentsSignalled'
  <1>1. \A w \in Range(frame.prepared) :
           Finished(w, chain[w].index)' = Finished(w, chain[w].index)
    BY DEF Finished, Semaphore
  <1>2. frame.signals = {Finished(w, chain[w].index) : w \in Range(frame.prepared)}
    BY DEF PresentsSignalled
  <1>3. Range(frame.prepared)' = Range(frame.prepared)
    BY DEF Range
  <1> QED
    BY <1>1, <1>2, <1>3 DEF PresentsSignalled

LEMMA SignalsAcquire ==
    ASSUME TypeOK, FrameInv, PreparedInv, PresentsSignalled, NEW w \in Windows, AcquireImage(w)
    PROVE  PresentsSignalled'
  <1>1. PICK i \in DOMAIN chain[w].images :
           /\ chain' = [chain EXCEPT ![w] = Acquired(@, i)]
           /\ frame' = [frame EXCEPT !.prepared = Append(@, w),
                                     !.waits = @ \cup {Available(w)},
                                     !.signals = @ \cup {Finished(w, i - 1)}]
    BY DEF AcquireImage
  <1>2. /\ i \in 1..Len(chain[w].images) /\ chain[w] \in ChainStates
        /\ chain'[w] = Acquired(chain[w], i)
        /\ \A v \in Windows \ {w} : chain'[v] = chain[v]
    BY <1>1 DEF TypeOK, ChainStates
  <1>3. chain'[w].made = chain[w].made /\ chain'[w].index = i - 1
    BY <1>2, AcquiredType
  <1>4. /\ frame'.signals = frame.signals \cup {Finished(w, i - 1)}
        /\ frame'.prepared = Append(frame.prepared, w) /\ frame.prepared \in Seq(Windows)
    BY <1>1 DEF TypeOK
  <1>5. /\ Range(frame'.prepared) = Range(frame.prepared) \cup {w}
        /\ w \notin Range(frame.prepared) /\ Range(frame.prepared) \subseteq Windows
    BY <1>4, AppendRange, RangeOfSeq DEF AcquireImage, PreparedInv
  <1>6. stage = "prepare"
    BY DEF AcquireImage, FrameInv
  <1>7. \A v \in Range(frame.prepared) :
           Finished(v, chain[v].index)' = Finished(v, chain[v].index)
    BY <1>2, <1>5 DEF Finished, Semaphore
  <1>8. Finished(w, chain[w].index)' = Finished(w, i - 1)
    BY <1>3 DEF Finished, Semaphore
  <1>9. frame.signals = {Finished(v, chain[v].index) : v \in Range(frame.prepared)}
    BY <1>6 DEF PresentsSignalled
  <1>10. Range(frame.prepared)' = Range(frame.prepared) \cup {w}
    BY <1>5 DEF Range
  <1> QED
    BY <1>4, <1>7, <1>8, <1>9, <1>10 DEF PresentsSignalled

LEMMA PresentsSignalledStep ==
    ASSUME IInv, Next
    PROVE  PresentsSignalled'
  <1> USE DEF IInv, WindowInv, DriverInv
  <1>1. stage' \notin {"prepare", "execute", "submit"} => PresentsSignalled'
    BY DEF PresentsSignalled
  <1>2. CASE BeginFrame
    <2>1. frame'.prepared = <<>> /\ frame'.signals = {}
      BY <1>2 DEF BeginFrame, NoFrame
    <2> QED
      BY <2>1 DEF PresentsSignalled, Range
  <1>3. Range(frame.prepared) \subseteq Windows
    BY RangeOfSeq DEF TypeOK
  <1>4. ASSUME stage \in {"prepare", "execute", "submit"}, frame' = frame,
               NEW S, S \cap Range(frame.prepared) = {},
               \A v \in Windows \ S : /\ chain'[v].made = chain[v].made
                                      /\ chain'[v].index = chain[v].index
        PROVE  PresentsSignalled'
    BY <1>3, <1>4, SignalsKept
  <1>5. CASE RecordGraph \/ ExecuteGraph
    BY <1>5, SignalsKept DEF RecordGraph, ExecuteGraph, windowVars
  <1>6. CASE SkipGraph \/ Submit \/ Present \/ PostFrame \/ Shutdown
    BY <1>1, <1>6 DEF SkipGraph, Submit, Present, PostFrame, Shutdown
  <1>7. CASE \E w \in Windows : EnsureChain(w)
    <2>1. PICK w \in Windows : EnsureChain(w)
      BY <1>7
    <2>2. stage = "prepare" /\ frame' = frame /\ {w} \cap Range(frame.prepared) = {}
      BY <2>1 DEF EnsureChain, PreparedInv
    <2>3. \A v \in Windows \ {w} : /\ chain'[v].made = chain[v].made
                                    /\ chain'[v].index = chain[v].index
      BY <2>1, EnsureChainKinds, ReleaseEffect DEF Replaces, Kept
    <2> QED
      BY <1>4, <2>2, <2>3
  <1>8. CASE \E w \in Windows : AcquireRefused(w)
    <2>1. PICK w \in Windows : AcquireRefused(w)
      BY <1>8
    <2>2. stage = "prepare" /\ frame' = frame /\ {w} \cap Range(frame.prepared) = {}
      BY <2>1 DEF AcquireRefused, FrameInv, PreparedInv
    <2>3. \A v \in Windows \ {w} : chain'[v] = chain[v]
      BY <2>1, RefusedEffect
    <2> QED
      BY <1>4, <2>2, <2>3
  <1>9. CASE \E w \in Windows : AcquireImage(w)
    BY <1>9, SignalsAcquire
  <1>10. CASE WindowStep
    BY <1>1, <1>10, WindowsRelease DEF cpuVars
  <1>11. CASE TextureStep \/ Down
    <2>1. UNCHANGED <<cpuVars, chain>>
      BY <1>11 DEF TextureStep, LoadTexture, FirstStep, LastStep, ReleaseTexture, CancelLoad, Down,
                   vars, windowVars
    <2> QED
      BY <1>1, <2>1, SignalsKept DEF cpuVars
  <1>12. CASE GpuStep
    <2>1. UNCHANGED cpuVars
      BY <1>12 DEF GpuStep
    <2>2. \A w \in Windows : /\ chain'[w].made = chain[w].made
                             /\ chain'[w].index = chain[w].index
      BY <1>12, GpuChain, FreesKeeps DEF Kept
    <2> QED
      BY <1>1, <1>3, <2>1, <2>2, SignalsKept DEF cpuVars
  <1> QED
    BY <1>2, <1>5, <1>6, <1>7, <1>8, <1>9, <1>10, <1>11, <1>12 DEF Next, FrameStep

\* What the semaphores of a piece of work say of their images.
LEMMA WorkImages ==
    ASSUME TypeOK, NEW b \in Work, WorkOK(b)
    PROVE  /\ b.waits \subseteq Semaphores /\ b.signals \subseteq Semaphores
           /\ \A s \in b.waits \cup b.signals : Exists(s)
           /\ \A s \in b.waits \cup b.signals : s.kind = "finished" =>
                 \/ ImageOf(s) = "shown"
                 \/ ImageOf(s) = "held" /\ stage = "present" /\ frame.submitted
  BY DEF Work, WorkOK

\* Work that stays in the queue while the images of its semaphores stay.
LEMMA WorkStays ==
    ASSUME NEW b \in Work, WorkOK(b),
           \A s \in b.waits \cup b.signals :
              Exists(s)' /\ (s.kind = "finished" => ImageOf(s)' \in {ImageOf(s), "shown"}),
           stage = "present" /\ frame.submitted =>
              \/ stage' = "present" /\ frame'.submitted
              \/ \A s \in b.signals : ImageOf(s)' = "shown"
    PROVE  WorkOK(b)'
  BY DEF Work, WorkOK

LEMMA QueueStays ==
    ASSUME TypeOK, QueueSemaphores, gpu' = gpu, chain' = chain,
           stage = "present" /\ frame.submitted => stage' = "present" /\ frame'.submitted
    PROVE  QueueSemaphores'
  <1>1. ASSUME NEW b \in Work, WorkOK(b)
        PROVE  WorkOK(b)'
    BY <1>1 DEF Work, WorkOK, Exists, ImageOf, Live
  <1> QED
    BY <1>1, GpuWork DEF QueueSemaphores

LEMMA QueueRefused ==
    ASSUME TypeOK, FrameInv, QueueSemaphores, NEW w \in Windows, AcquireRefused(w)
    PROVE  QueueSemaphores'
  <1>1. gpu' = gpu /\ stage = "prepare"
    BY DEF AcquireRefused, FrameInv
  <1>2. \A v \in Windows : chain'[v].made = chain[v].made /\ chain'[v].images = chain[v].images
    BY RefusedEffect
  <1>3. ASSUME NEW b \in Work, WorkOK(b)
        PROVE  WorkOK(b)'
    <2>1. ASSUME NEW s \in b.waits \cup b.signals
          PROVE  Exists(s)' /\ ImageOf(s)' = ImageOf(s)
      <3>1. s \in Semaphores /\ Exists(s)
        BY <1>3, WorkImages
      <3>2. s.window \in Windows
        BY <3>1 DEF Semaphores
      <3> QED
        BY <1>2, <3>1, <3>2 DEF Exists, ImageOf, Live
    <2> QED
      BY <1>1, <1>3, <2>1, WorkStays
  <1> QED
    BY <1>1, <1>3, GpuWork DEF QueueSemaphores

LEMMA QueueAcquire ==
    ASSUME TypeOK, FrameInv, QueueSemaphores, NEW w \in Windows, AcquireImage(w)
    PROVE  QueueSemaphores'
  <1>1. PICK i \in DOMAIN chain[w].images :
           chain' = [chain EXCEPT ![w] = Acquired(@, i)] /\ chain[w].images[i] = "free"
    BY DEF AcquireImage
  <1>2. /\ i \in 1..Len(chain[w].images) /\ chain[w] \in ChainStates
        /\ DOMAIN chain[w].images = 1..Len(chain[w].images)
        /\ chain'[w] = Acquired(chain[w], i)
        /\ \A v \in Windows \ {w} : chain'[v] = chain[v]
    BY <1>1 DEF TypeOK, ChainStates
  <1>3. /\ chain'[w].made = chain[w].made /\ chain'[w].images # <<>>
        /\ DOMAIN chain'[w].images = DOMAIN chain[w].images
        /\ \A j \in DOMAIN chain[w].images : j # i => chain'[w].images[j] = chain[w].images[j]
    <2>1. 1 \in 1..Len(chain[w].images)
      BY <1>2
    <2> QED
      BY <1>2, <2>1, AcquiredType
  <1>4. gpu' = gpu /\ stage = "prepare"
    BY DEF AcquireImage, FrameInv
  <1>5. ASSUME NEW b \in Work, WorkOK(b)
        PROVE  WorkOK(b)'
    <2>1. ASSUME NEW s \in b.waits \cup b.signals
          PROVE  Exists(s)' /\ (s.kind = "finished" => ImageOf(s)' = ImageOf(s))
      <3>1. s \in Semaphores /\ Exists(s) /\ (s.kind = "finished" => ImageOf(s) = "shown")
        BY <1>4, <1>5, WorkImages
      <3>2. s.window \in Windows
        BY <3>1 DEF Semaphores
      <3>3. CASE s.window # w
        BY <1>2, <3>1, <3>2, <3>3 DEF Exists, ImageOf, Live
      <3>4. CASE s.window = w
        BY <1>1, <1>3, <3>1, <3>4 DEF Exists, ImageOf, Live
      <3> QED
        BY <3>3, <3>4
    <2> QED
      BY <1>4, <1>5, <2>1, WorkStays
  <1> QED
    BY <1>4, <1>5, GpuWork DEF QueueSemaphores

LEMMA QueueSubmit ==
    ASSUME TypeOK, FrameSemaphores, QueueSemaphores, Submit
    PROVE  QueueSemaphores'
  <1>1. /\ stage = "submit" /\ stage' = "present" /\ frame'.submitted /\ chain' = chain
    BY DEF Submit, TypeOK, windowVars
  <1>2. PICK b : b = Batch(slot, frame.waits, frame.signals, graph)
    OBVIOUS
  <1>3. b.kind = "batch" /\ b.slot = slot /\ b.waits = frame.waits /\ b.signals = frame.signals
    BY <1>2 DEF Batch
  <1>4. WorkOK(b)'
    <2>1. \A s \in b.waits \cup b.signals : Exists(s)' /\ ImageOf(s)' = ImageOf(s)
      BY <1>1, <1>3 DEF FrameSemaphores, Exists, ImageOf, Live
    <2> QED
      BY <1>1, <1>3, <2>1 DEF FrameSemaphores, WorkOK
  <1>5. ASSUME NEW c \in Work, WorkOK(c)
        PROVE  WorkOK(c)'
    <2>1. \A s \in c.waits \cup c.signals : Exists(s)' /\ ImageOf(s)' = ImageOf(s)
      BY <1>1, <1>5, WorkImages DEF Exists, ImageOf, Live
    <2> QED
      BY <1>1, <1>5, <2>1, WorkStays
  <1>6. gpu' = Append(gpu, b) /\ gpu \in Seq(Work)
    BY <1>2 DEF Submit, TypeOK
  <1>7. /\ DOMAIN gpu' = 1..(Len(gpu) + 1) /\ gpu'[Len(gpu) + 1] = b
        /\ \A k \in 1..Len(gpu) : gpu'[k] = gpu[k] /\ gpu[k] \in Work
        /\ DOMAIN gpu = 1..Len(gpu) /\ Len(gpu) \in Nat
    BY <1>6
  <1> QED
    BY <1>4, <1>5, <1>7 DEF QueueSemaphores

\* The windows of the frame show the image they have held.
LEMMA PresentShows ==
    ASSUME TypeOK, HeldInv, Present, frame.submitted, NEW w \in Windows
    PROVE  /\ chain'[w].made = chain[w].made /\ DOMAIN chain'[w].images = DOMAIN chain[w].images
           /\ chain'[w].images = <<>> <=> chain[w].images = <<>>
           /\ \A i \in DOMAIN chain[w].images :
                 chain'[w].images[i] = IF w \in Range(frame.prepared) /\ i = chain[w].index + 1
                                       THEN "shown" ELSE chain[w].images[i]
  <1>1. chain[w] \in ChainStates /\ DOMAIN chain[w].images = 1..Len(chain[w].images)
    BY DEF TypeOK, ChainStates
  <1>2. CASE w \in Range(frame.prepared)
    <2>1. chain'[w] = WithImage(chain[w], chain[w].index + 1, "shown")
      BY <1>2 DEF Present
    <2>2. chain[w].index + 1 \in 1..Len(chain[w].images)
      BY <1>2, PreparedImages DEF Present
    <2>3. SameChain(w)
      BY ImagesSame
    <2> QED
      BY <1>1, <1>2, <2>1, <2>2, <2>3, WithImageType DEF SameChain
  <1>3. CASE w \notin Range(frame.prepared)
    <2>1. chain'[w] = chain[w]
      BY <1>3 DEF Present
    <2> QED
      BY <1>3, <2>1
  <1> QED
    BY <1>2, <1>3

LEMMA QueuePresent ==
    ASSUME TypeOK, FrameInv, ChainInv, HeldInv, QueueSemaphores, Present, frame.submitted
    PROVE  QueueSemaphores'
  <1>1. stage = "present" /\ gpu' = gpu \o Presents
    BY DEF Present, Presents
  <1>2. ASSUME NEW b \in Work, WorkOK(b)
        PROVE  WorkOK(b)'
    <2>1. ASSUME NEW s \in b.waits \cup b.signals
          PROVE  Exists(s)' /\ (s.kind = "finished" => ImageOf(s)' = "shown")
      <3>1. /\ s \in Semaphores /\ Exists(s) /\ s.window \in Windows
            /\ s.kind = "finished" => ImageOf(s) \in {"shown", "held"}
        BY <1>2, WorkImages DEF Semaphores
      <3>2. /\ chain'[s.window].made = chain[s.window].made
            /\ DOMAIN chain'[s.window].images = DOMAIN chain[s.window].images
            /\ chain'[s.window].images = <<>> <=> chain[s.window].images = <<>>
        BY <3>1, PresentShows
      <3>3. Exists(s)'
        BY <3>1, <3>2 DEF Exists, Live
      <3>4. ASSUME s.kind = "finished"
            PROVE  ImageOf(s)' = "shown"
        <4>1. s.index + 1 \in DOMAIN chain[s.window].images
          BY <3>1 DEF Exists
        <4>2. ImageOf(s) = "held" =>
                 s.window \in Range(frame.prepared) /\ s.index + 1 = chain[s.window].index + 1
          BY <3>1, <4>1 DEF ImageOf, HeldInv
        <4>3. chain'[s.window].images[s.index + 1] = "shown"
          BY <3>1, <3>4, <4>1, <4>2, PresentShows DEF ImageOf
        <4> QED
          BY <4>3 DEF ImageOf
      <3> QED
        BY <3>3, <3>4
    <2>2. \A s \in b.signals : s.kind = "finished"
      BY <1>2 DEF Work, WorkOK
    <2> QED
      BY <1>2, <2>1, <2>2, WorkStays
  <1>3. ASSUME NEW w \in Range(frame.prepared), NEW b, b = PresentOf(w)
        PROVE  WorkOK(b)'
    <2>1. /\ w \in Windows /\ Live(w) /\ chain[w].index + 1 \in DOMAIN chain[w].images
          /\ chain[w].index \in Nat
      BY <1>1, PreparedImages DEF ChainStates
    <2>2. PICK s : s = Finished(w, chain[w].index)
      OBVIOUS
    <2>3. /\ s.kind = "finished" /\ s.window = w /\ s.chain = chain[w].made
          /\ s.index = chain[w].index
      BY <2>2 DEF Finished, Semaphore
    <2>4. b.kind = "present" /\ b.signals = {} /\ b.waits = {s}
      BY <1>3, <2>2 DEF PresentOf
    <2>5. Exists(s)' /\ ImageOf(s)' = "shown"
      BY <1>3, <2>1, <2>3, PresentShows DEF Exists, ImageOf, Live
    <2> QED
      BY <2>3, <2>4, <2>5 DEF WorkOK
  <1>4. /\ gpu \in Seq(Work) /\ Presents \in Seq(Work) /\ Len(gpu) \in Nat /\ Len(Presents) \in Nat
        /\ \A k \in 1..Len(Presents) :
              \E w \in Range(frame.prepared) : Presents[k] = PresentOf(w)
    <2>1. /\ Presents \in Seq(Work) /\ Len(Presents) = Len(frame.prepared)
          /\ \A k \in 1..Len(frame.prepared) : Presents[k] = PresentOf(frame.prepared[k])
          /\ Len(frame.prepared) \in Nat /\ DOMAIN frame.prepared = 1..Len(frame.prepared)
      BY <1>1, PresentsType
    <2>2. \A k \in 1..Len(frame.prepared) : frame.prepared[k] \in Range(frame.prepared)
      BY <2>1 DEF Range
    <2>3. gpu \in Seq(Work) /\ Len(gpu) \in Nat
      BY DEF TypeOK
    <2> QED
      BY <2>1, <2>2, <2>3
  <1> HIDE DEF Presents
  <1>5. ASSUME NEW k \in DOMAIN gpu'
        PROVE  \/ k \in DOMAIN gpu /\ gpu'[k] = gpu[k]
               \/ \E w \in Range(frame.prepared) : gpu'[k] = PresentOf(w)
    <2>1. /\ k \in 1..(Len(gpu) + Len(Presents))
          /\ gpu'[k] = IF k <= Len(gpu) THEN gpu[k] ELSE Presents[k - Len(gpu)]
      BY <1>1, <1>4, ConcatProperties
    <2> QED
      BY <1>4, <2>1
  <1> QED
    BY <1>2, <1>3, <1>5, GpuWork DEF QueueSemaphores

LEMMA QueueGpu ==
    ASSUME TypeOK, QueueSemaphores, QueueOrder, GpuStep
    PROVE  QueueSemaphores'
  <1>1. gpu # <<>> /\ gpu' = Tail(gpu) /\ stage' = stage /\ frame' = frame
    BY DEF GpuStep, cpuVars
  <1>2. /\ 1 \in DOMAIN gpu /\ Head(gpu) = gpu[1] /\ DOMAIN gpu' = 1..(Len(gpu) - 1)
        /\ \A k \in DOMAIN gpu' : gpu'[k] = gpu[k + 1] /\ k + 1 \in DOMAIN gpu
    BY <1>1, GpuParts
  <1>3. ASSUME NEW k \in DOMAIN gpu, k > 1, NEW b, b = gpu[k]
        PROVE  WorkOK(b)'
    <2>1. b \in Work /\ WorkOK(b)
      BY <1>3, GpuWork DEF QueueSemaphores
    <2>2. CASE chain' = chain
      <3>1. \A s \in b.waits \cup b.signals : Exists(s)' /\ ImageOf(s)' = ImageOf(s)
        BY <2>1, <2>2, WorkImages DEF Exists, ImageOf, Live
      <3> QED
        BY <1>1, <2>1, <3>1, WorkStays
    <2>3. ASSUME NEW r \in Head(gpu).waits, Frees(r), Head(gpu).kind = "present"
          PROVE  WorkOK(b)'
      <3>1. r.kind = "finished" /\ r \in Semaphores /\ Exists(r) /\ r \in gpu[1].waits
        BY <1>2, <2>3 DEF Frees, QueueSemaphores, WorkOK
      <3>2. r \notin b.waits /\ r \notin b.signals
        <4>1. k # 1 /\ ~(k < 1) /\ k \in Nat
          BY <1>3, QueueTypes
        <4>2. gpu[1].waits \cap gpu[k].waits = {} /\ gpu[k].signals \cap gpu[1].waits = {}
          BY <1>2, <1>3, <4>1 DEF QueueOrder
        <4> QED
          BY <1>3, <3>1, <4>2
      <3>3. ASSUME NEW s \in b.waits \cup b.signals
            PROVE  Exists(s)' /\ (s.kind = "finished" => ImageOf(s)' = ImageOf(s))
        <4>1. s \in Semaphores /\ Exists(s) /\ s.window \in Windows /\ s # r
          BY <2>1, <3>2, <3>3, WorkImages DEF Semaphores
        <4>2. Exists(s)'
          BY <2>3, <4>1, FreesKeeps, KeptExists
        <4>3. ASSUME s.kind = "finished"
              PROVE  ImageOf(s)' = ImageOf(s)
          <5>1. ~(s.window = r.window /\ s.index = r.index)
            BY <3>1, <4>1, <4>3, SameSemaphore
          <5>2. s.index \in Nat /\ r.index \in Nat
            BY <3>1, <4>1 DEF Semaphores
          <5>3. ~(s.window = r.window /\ s.index + 1 = r.index + 1)
            BY <5>1, <5>2
          <5>4. s.index + 1 \in DOMAIN chain[s.window].images
            BY <4>1 DEF Exists
          <5> QED
            BY <2>3, <4>1, <5>3, <5>4, FreesKeeps DEF ImageOf
        <4> QED
          BY <4>2, <4>3
      <3> QED
        BY <1>1, <2>1, <3>3, WorkStays
    <2> QED
      BY <2>2, <2>3, GpuChain
  <1>4. \A k \in DOMAIN gpu' : k + 1 > 1
    BY <1>2
  <1> QED
    BY <1>2, <1>3, <1>4 DEF QueueSemaphores

LEMMA QueueSemaphoresStep ==
    ASSUME IInv, Next
    PROVE  QueueSemaphores'
  <1> USE DEF IInv, WindowInv, DriverInv
  <1>1. ASSUME gpu' = <<>>
        PROVE  QueueSemaphores'
    BY <1>1 DEF QueueSemaphores
  <1>11. CASE \E w \in Windows : AcquireRefused(w)
    BY <1>11, QueueRefused
  <1>2. CASE BeginFrame \/ RecordGraph \/ SkipGraph \/ ExecuteGraph \/ PostFrame
    <2>1. gpu' = gpu /\ chain' = chain /\ stage # "present"
      BY <1>2 DEF BeginFrame, RecordGraph, SkipGraph, ExecuteGraph, PostFrame, windowVars, FrameInv
    <2> QED
      BY <2>1, QueueStays
  <1>3. CASE \E w \in Windows : EnsureChain(w)
    <2>1. PICK w \in Windows : EnsureChain(w)
      BY <1>3
    <2>2. stage = "prepare"
      BY <2>1 DEF EnsureChain
    <2> QED
      BY <1>1, <2>1, <2>2, EnsureChainKinds, QueueStays, ReleaseEffect DEF Replaces
  <1>4. CASE \E w \in Windows : AcquireImage(w)
    BY <1>4, QueueAcquire
  <1>5. CASE Submit
    BY <1>5, QueueSubmit
  <1>6. CASE Present
    <2>1. CASE ~frame.submitted
      BY <1>6, <2>1, QueueStays DEF Present
    <2> QED
      BY <1>6, <2>1, QueuePresent
  <1>7. CASE WindowStep
    <2>1. stage # "present"
      BY <1>7, WindowsRelease
    <2> QED
      BY <1>1, <1>7, <2>1, WindowsRelease, ReleaseEffect, QueueStays
  <1>8. CASE TextureStep \/ Down
    <2>1. UNCHANGED <<cpuVars, chain, gpu>>
      BY <1>8 DEF TextureStep, LoadTexture, FirstStep, LastStep, ReleaseTexture, CancelLoad, Down,
                  vars, windowVars
    <2> QED
      BY <2>1, QueueStays DEF cpuVars
  <1>9. CASE GpuStep
    BY <1>9, QueueGpu
  <1>10. CASE Shutdown
    BY <1>1, <1>10 DEF Shutdown, WaitIdle
  <1> QED
    BY <1>2, <1>3, <1>4, <1>5, <1>6, <1>7, <1>8, <1>9, <1>10, <1>11 DEF Next, FrameStep

\* What is in the queue waits for nothing the frame will wait for or signal.
LEMMA FrameApart ==
    ASSUME IInv, stage \in {"prepare", "execute", "submit"}, NEW k \in DOMAIN gpu
    PROVE  /\ gpu[k].waits \cap frame.waits = {}
           /\ gpu[k].waits \cap frame.signals = {}
           /\ gpu[k].signals \cap frame.signals = {}
  <1> USE DEF IInv, WindowInv, DriverInv
  <1>1. gpu[k] \in Work /\ WorkOK(gpu[k]) /\ Busy(slot) = {}
    BY GpuWork DEF QueueSemaphores, SlotFree
  <1>2. \A s \in gpu[k].waits \cup gpu[k].signals :
           s.kind = "finished" => ImageOf(s) = "shown"
    BY <1>1, WorkImages
  <1>3. \A s \in gpu[k].waits : s.kind = "available" => s.index # slot
    <2>1. gpu[k].kind = "batch" => gpu[k].slot # slot
      BY <1>1 DEF Busy
    <2> QED
      BY <1>1, <2>1 DEF Work, WorkOK
  <1>4. \A s \in gpu[k].signals : s.kind = "finished"
    BY <1>1 DEF Work, WorkOK
  <1> QED
    BY <1>2, <1>3, <1>4 DEF FrameSemaphores

LEMMA OrderSubmit ==
    ASSUME IInv, Submit
    PROVE  QueueOrder'
  <1> USE DEF IInv, DriverInv
  <1>1. PICK b : b = Batch(slot, frame.waits, frame.signals, graph)
    OBVIOUS
  <1>2. b.waits = frame.waits /\ b.signals = frame.signals
    BY <1>1 DEF Batch
  <1>3. gpu' = Append(gpu, b) /\ gpu \in Seq(Work) /\ stage = "submit"
    BY <1>1 DEF Submit, TypeOK
  <1>4. /\ DOMAIN gpu' = 1..(Len(gpu) + 1) /\ gpu'[Len(gpu) + 1] = b
        /\ \A k \in 1..Len(gpu) : gpu'[k] = gpu[k]
        /\ DOMAIN gpu = 1..Len(gpu) /\ Len(gpu) \in Nat
    BY <1>3
  <1>5. \A k \in 1..Len(gpu) : gpu[k].waits \cap b.waits = {} /\ b.signals \cap gpu[k].waits = {}
    BY <1>2, <1>3, <1>4, FrameApart
  <1>6. b.signals \cap b.waits = {}
    BY <1>2 DEF FrameSemaphores
  <1>7. ASSUME NEW j \in DOMAIN gpu', NEW k \in DOMAIN gpu'
        PROVE  /\ gpu'[j].waits \cap gpu'[k].waits # {} => j = k
               /\ gpu'[j].signals \cap gpu'[k].waits # {} => j < k
    <2>1. CASE j \in 1..Len(gpu) /\ k \in 1..Len(gpu)
      BY <1>4, <2>1 DEF QueueOrder
    <2>2. CASE j \in 1..Len(gpu) /\ k = Len(gpu) + 1
      BY <1>4, <1>5, <2>2
    <2>3. CASE j = Len(gpu) + 1 /\ k \in 1..Len(gpu)
      BY <1>4, <1>5, <2>3
    <2>4. CASE j = Len(gpu) + 1 /\ k = Len(gpu) + 1
      BY <1>4, <1>6, <2>4
    <2> QED
      BY <1>4, <2>1, <2>2, <2>3, <2>4
  <1> QED
    BY <1>7 DEF QueueOrder

LEMMA OrderPresent ==
    ASSUME IInv, Present, frame.submitted
    PROVE  QueueOrder'
  <1> USE DEF IInv, WindowInv, DriverInv
  <1>1. stage = "present" /\ gpu' = gpu \o Presents
    BY DEF Present, Presents
  <1> DEFINE n == Len(gpu)
             m == Len(frame.prepared)
             F(i) == Finished(frame.prepared[i], chain[frame.prepared[i]].index)
  <1>2. /\ gpu \in Seq(Work) /\ Presents \in Seq(Work) /\ n \in Nat /\ m \in Nat
        /\ Len(Presents) = m /\ DOMAIN gpu = 1..n /\ DOMAIN frame.prepared = 1..m
        /\ \A i \in 1..m : Presents[i].waits = {F(i)} /\ Presents[i].signals = {}
    <2>1. /\ Presents \in Seq(Work) /\ m \in Nat /\ Len(Presents) = m
          /\ DOMAIN frame.prepared = 1..m
          /\ \A i \in 1..m : Presents[i] = PresentOf(frame.prepared[i])
      BY <1>1, PresentsType
    <2>2. \A i \in 1..m : PresentOf(frame.prepared[i]).waits = {F(i)}
                         /\ PresentOf(frame.prepared[i]).signals = {}
      BY DEF PresentOf
    <2>3. gpu \in Seq(Work) /\ n \in Nat /\ DOMAIN gpu = 1..n
      BY DEF TypeOK
    <2> HIDE DEF F, n, m
    <2> QED
      BY <2>1, <2>2, <2>3
  <1>3. \A i \in 1..m : /\ F(i) \in Semaphores /\ F(i).kind = "finished" /\ ImageOf(F(i)) = "held"
                        /\ F(i).window = frame.prepared[i]
    <2> SUFFICES ASSUME NEW i \in 1..m
                 PROVE  /\ F(i) \in Semaphores /\ F(i).kind = "finished"
                        /\ ImageOf(F(i)) = "held" /\ F(i).window = frame.prepared[i]
      OBVIOUS
    <2>1. frame.prepared[i] \in Range(frame.prepared)
      BY <1>2 DEF Range
    <2>2. PICK w : w = frame.prepared[i]
      OBVIOUS
    <2>3. /\ w \in Windows /\ Live(w) /\ chain[w].index \in Nat
          /\ chain[w].images[chain[w].index + 1] = "held"
      BY <1>1, <2>1, <2>2, PreparedImages
    <2>4. F(i) = Finished(w, chain[w].index) /\ F(i) \in Semaphores
      BY <2>2, <2>3, SemaphoreType
    <2> QED
      BY <2>2, <2>3, <2>4 DEF Finished, Semaphore, ImageOf
  <1>4. \A i, j \in 1..m : F(i) = F(j) => i = j
    BY <1>2, <1>3 DEF PreparedInv
  <1>5. \A k \in 1..n, i \in 1..m : F(i) \notin gpu[k].waits
    <2> SUFFICES ASSUME NEW k \in 1..n, NEW i \in 1..m, F(i) \in gpu[k].waits
                 PROVE  FALSE
      OBVIOUS
    <2>1. gpu[k] \in Work /\ WorkOK(gpu[k])
      BY <1>2, GpuWork DEF QueueSemaphores
    <2>2. gpu[k].kind = "present" => ImageOf(F(i)) = "shown"
      BY <2>1 DEF WorkOK
    <2>3. gpu[k].kind = "batch" => F(i).kind = "available"
      BY <2>1 DEF WorkOK
    <2> QED
      BY <1>3, <2>1, <2>2, <2>3 DEF Work
  <1> HIDE DEF n, m, F, Presents
  <1>6. ASSUME NEW j \in DOMAIN gpu'
        PROVE  \/ j \in 1..n /\ gpu'[j] = gpu[j]
               \/ \E i \in 1..m : /\ j = n + i /\ gpu'[j].waits = {F(i)}
                                  /\ gpu'[j].signals = {}
    <2>1. /\ j \in 1..(n + m)
          /\ gpu'[j] = IF j <= n THEN gpu[j] ELSE Presents[j - n]
      BY <1>1, <1>2, ConcatProperties DEF n
    <2>2. CASE j <= n
      BY <1>2, <2>1, <2>2
    <2>3. CASE ~(j <= n)
      <3>1. j - n \in 1..m /\ j = n + (j - n) /\ gpu'[j] = Presents[j - n]
        BY <1>2, <2>1, <2>3
      <3> QED
        BY <1>2, <3>1
    <2> QED
      BY <2>2, <2>3
  <1>7. ASSUME NEW j \in DOMAIN gpu', NEW k \in DOMAIN gpu'
        PROVE  /\ gpu'[j].waits \cap gpu'[k].waits # {} => j = k
               /\ gpu'[j].signals \cap gpu'[k].waits # {} => j < k
    <2>1. CASE j \in 1..n /\ k \in 1..n /\ gpu'[j] = gpu[j] /\ gpu'[k] = gpu[k]
      BY <1>2, <2>1 DEF QueueOrder
    <2>2. ASSUME j \in 1..n, gpu'[j] = gpu[j], NEW i \in 1..m, k = n + i, gpu'[k].waits = {F(i)}
          PROVE  gpu'[j].waits \cap gpu'[k].waits = {} /\ j < k
      BY <1>2, <1>5, <2>2
    <2>3. ASSUME k \in 1..n, gpu'[k] = gpu[k], NEW i \in 1..m, j = n + i, gpu'[j].waits = {F(i)},
                 gpu'[j].signals = {}
          PROVE  gpu'[j].waits \cap gpu'[k].waits = {} /\ gpu'[j].signals \cap gpu'[k].waits = {}
      BY <1>5, <2>3
    <2>4. ASSUME NEW i \in 1..m, j = n + i, gpu'[j].waits = {F(i)}, gpu'[j].signals = {},
                 NEW l \in 1..m, k = n + l, gpu'[k].waits = {F(l)}
          PROVE  (gpu'[j].waits \cap gpu'[k].waits # {} => j = k)
                 /\ gpu'[j].signals \cap gpu'[k].waits = {}
      BY <1>4, <2>4
    <2> QED
      BY <1>6, <2>1, <2>2, <2>3, <2>4
  <1> QED
    BY <1>7 DEF QueueOrder

LEMMA OrderGpu ==
    ASSUME TypeOK, QueueOrder, GpuStep
    PROVE  QueueOrder'
  <1>1. /\ DOMAIN gpu' = 1..(Len(gpu) - 1) /\ Len(gpu) \in Nat
        /\ \A k \in DOMAIN gpu' : gpu'[k] = gpu[k + 1] /\ k + 1 \in DOMAIN gpu
    BY GpuParts, GpuWork DEF GpuStep
  <1> QED
    BY <1>1 DEF QueueOrder

LEMMA QueueOrderStep ==
    ASSUME IInv, Next
    PROVE  QueueOrder'
  <1> USE DEF IInv, WindowInv, DriverInv
  <1>1. gpu' = gpu \/ gpu' = <<>> => QueueOrder'
    BY DEF QueueOrder
  <1>2. CASE \E w \in Windows : EnsureChain(w)
    BY <1>1, <1>2, EnsureChainKinds, ReleaseEffect DEF Replaces
  <1>3. CASE BeginFrame \/ RecordGraph \/ SkipGraph \/ ExecuteGraph \/ PostFrame
                \/ \E w \in Windows : AcquireRefused(w) \/ AcquireImage(w)
    BY <1>1, <1>3 DEF BeginFrame, RecordGraph, SkipGraph, ExecuteGraph, PostFrame, AcquireRefused,
                      AcquireImage
  <1>4. CASE Present
    BY <1>1, <1>4, OrderPresent DEF Present
  <1>5. CASE WindowStep
    BY <1>1, <1>5, WindowsRelease, ReleaseEffect
  <1>6. CASE TextureStep \/ Down \/ Shutdown
    BY <1>1, <1>6 DEF TextureStep, LoadTexture, FirstStep, LastStep, ReleaseTexture, CancelLoad,
                      Down, vars, Shutdown, WaitIdle
  <1> QED
    BY <1>2, <1>3, <1>4, <1>5, <1>6, OrderSubmit, OrderGpu DEF Next, FrameStep

LEMMA SlotFreeStep ==
    ASSUME IInv, Next
    PROVE  SlotFree'
  <1> USE DEF IInv, WindowInv, DriverInv
  <1>1. gpu' = <<>> => SlotFree'
    BY DEF SlotFree, Busy
  <1>2. CASE BeginFrame
    BY <1>2 DEF BeginFrame, FenceSignalled, SlotFree, Busy
  <1>3. CASE \E w \in Windows : EnsureChain(w)
    <2>1. stage = "prepare" /\ slot' = slot
      BY <1>3 DEF EnsureChain
    <2> QED
      BY <1>1, <1>3, <2>1, EnsureChainKinds, ReleaseEffect DEF Replaces, SlotFree, Busy
  <1>4. CASE RecordGraph \/ SkipGraph \/ ExecuteGraph
                \/ \E w \in Windows : AcquireRefused(w) \/ AcquireImage(w)
    BY <1>4 DEF RecordGraph, SkipGraph, ExecuteGraph, AcquireRefused, AcquireImage, SlotFree, Busy,
                FrameInv
  <1>5. CASE Submit \/ Present \/ PostFrame \/ Shutdown
    BY <1>5 DEF Submit, Present, PostFrame, Shutdown, SlotFree
  <1>6. CASE WindowStep
    BY <1>6, WindowsRelease DEF SlotFree, cpuVars
  <1>7. CASE TextureStep \/ Down
    <2>1. UNCHANGED <<cpuVars, gpu>>
      BY <1>7 DEF TextureStep, LoadTexture, FirstStep, LastStep, ReleaseTexture, CancelLoad, Down,
                  vars
    <2> QED
      BY <2>1 DEF SlotFree, cpuVars, Busy
  <1>8. CASE GpuStep
    <2>1. stage' = stage /\ slot' = slot
      BY <1>8 DEF GpuStep, cpuVars
    <2>2. \A k \in DOMAIN gpu' : gpu'[k] = gpu[k + 1] /\ k + 1 \in DOMAIN gpu
      BY <1>8, GpuParts DEF GpuStep
    <2> QED
      BY <2>1, <2>2 DEF SlotFree, Busy
  <1> QED
    BY <1>2, <1>3, <1>4, <1>5, <1>6, <1>7, <1>8 DEF Next, FrameStep

-----------------------------------------------------------------------------
(* The textures                                                             *)

\* A texture changes between the frames.
TextureSteps(t) ==
    LoadTexture(t) \/ FirstStep(t) \/ LastStep(t) \/ ReleaseTexture(t) \/ CancelLoad(t)

\* What steps other than these leave alone.
LEMMA OthersKeepTextures ==
    ASSUME FrameStep \/ WindowStep \/ GpuStep \/ Down, ~RecordGraph
    PROVE  UNCHANGED assetVars
  <1>1. CASE FrameStep
    BY <1>1 DEF FrameStep, BeginFrame, SkipGraph, ExecuteGraph, Submit, Present, PostFrame,
                EnsureChain, AcquireImage, AcquireRefused
  <1>2. CASE WindowStep \/ GpuStep \/ Down
    BY <1>2 DEF WindowStep, SetSize, EditSize, RequestClose, RemoveWindow, OpenWindow, GpuStep,
                Down, vars
  <1> QED
    BY <1>1, <1>2

\* How the step of a texture changes it.
Becomes(t, state, generation, requested, completed) ==
    /\ asset'[t].state = state /\ asset'[t].generation = generation
    /\ asset'[t].requested <=> requested
    /\ asset'[t].completed <=> completed

Loads(t) ==
    /\ asset[t].state = "EMPTY" /\ asset[t].generation <= MaxGeneration
    /\ Becomes(t, "PROCESSING", asset[t].generation, asset[t].requested, asset[t].completed)
    /\ UNCHANGED <<pending, release, staging, content>>
Queues(t) ==
    /\ asset[t].state = "PROCESSING" /\ ~asset[t].requested
    /\ Becomes(t, "PROCESSING", asset[t].generation, TRUE, asset[t].completed)
    /\ pending' = Append(pending, Key(t)) /\ staging' = staging \cup {Key(t)}
    /\ UNCHANGED <<release, content>>
Settles(t) ==
    /\ asset[t].state = "PROCESSING" /\ ~asset[t].requested
    /\ \/ /\ Becomes(t, "LOADED", asset[t].generation, asset[t].requested, asset[t].completed)
          /\ content' = content \cup {Key(t)}
       \/ /\ Becomes(t, "FAILED", asset[t].generation, asset[t].requested, asset[t].completed)
          /\ content' = content
    /\ UNCHANGED <<pending, release, staging>>
Completes(t) ==
    /\ asset[t].state = "PROCESSING" /\ asset[t].completed
    /\ Becomes(t, "LOADED", asset[t].generation, asset[t].requested, asset[t].completed)
    /\ UNCHANGED <<pending, release, staging, content>>
Cancels(t) ==
    /\ asset[t].state = "PROCESSING"
    /\ Becomes(t, "PENDING_DELETE", asset[t].generation, asset[t].requested, asset[t].completed)
    /\ UNCHANGED <<pending, release, staging, content>>
Destroys(t) ==
    /\ Becomes(t, "EMPTY", asset[t].generation + 1, FALSE, FALSE)
    /\ content' = content \ {Key(t)}
    /\ UNCHANGED <<pending, release, staging>>

LEMMA EditedFields ==
    ASSUME NEW a \in TextureStates
    PROVE  LET b == [a EXCEPT !.requested = TRUE]
               c == [a EXCEPT !.completed = TRUE]
           IN  /\ b.state = a.state /\ b.generation = a.generation
               /\ b.requested = TRUE /\ b.completed = a.completed
               /\ c.state = a.state /\ c.generation = a.generation
               /\ c.requested = a.requested /\ c.completed = TRUE
  BY DEF TextureStates

LEMMA EditedState ==
    ASSUME NEW a \in TextureStates, NEW s
    PROVE  LET b == [a EXCEPT !.state = s]
           IN  /\ b.state = s /\ b.generation = a.generation
               /\ b.requested = a.requested /\ b.completed = a.completed
  BY DEF TextureStates

LEMMA TextureChange ==
    ASSUME TypeOK, NEW t \in Textures, TextureSteps(t)
    PROVE  /\ \A u \in Textures \ {t} : asset'[u] = asset[u]
           /\ Loads(t) \/ Queues(t) \/ Settles(t) \/ Completes(t) \/ Cancels(t) \/ Destroys(t)
           /\ stage = "update" /\ UNCHANGED <<cpuVars, gpu>>
  <1>1. \A u \in Textures \ {t} : asset'[u] = asset[u]
    BY DEF TextureSteps, LoadTexture, FirstStep, LastStep, ReleaseTexture, CancelLoad,
           DestroyTexture, TypeOK
  <1>2. stage = "update" /\ UNCHANGED <<cpuVars, gpu>>
    BY DEF TextureSteps, LoadTexture, FirstStep, LastStep, ReleaseTexture, CancelLoad
  <1>3. \A a : [asset EXCEPT ![t] = a][t] = a
    BY DEF TypeOK
  <1>4. asset[t] \in TextureStates
    BY KeyType
  <1>5. ASSUME NEW s, asset' = [asset EXCEPT ![t].state = s]
        PROVE  Becomes(t, s, asset[t].generation, asset[t].requested, asset[t].completed)
    BY <1>3, <1>4, <1>5, EditedState DEF Becomes
  <1>6. ASSUME DestroyTexture(t), UNCHANGED <<pending, release, staging>>
        PROVE  Destroys(t)
    BY <1>3, <1>6 DEF DestroyTexture, Destroys, Becomes, EmptyTexture, NextGeneration
  <1>7. CASE LoadTexture(t)
    <2>1. Becomes(t, "PROCESSING", asset[t].generation, asset[t].requested, asset[t].completed)
      BY <1>5, <1>7 DEF LoadTexture
    <2> QED
      BY <1>1, <1>2, <1>7, <2>1, Zenon DEF LoadTexture, Loads
  <1>8. CASE FirstStep(t)
    <2>1. CASE /\ asset' = [asset EXCEPT ![t].requested = TRUE]
               /\ pending' = Append(pending, Key(t)) /\ staging' = staging \cup {Key(t)}
               /\ UNCHANGED content
      <3>1. asset'[t] = [asset[t] EXCEPT !.requested = TRUE]
        BY <1>3, <2>1
      <3>2. Becomes(t, asset[t].state, asset[t].generation, TRUE, asset[t].completed)
        BY <1>4, <3>1, EditedFields DEF Becomes
      <3> QED
        BY <1>1, <1>2, <1>8, <2>1, <3>2 DEF FirstStep, Queues
    <2>2. CASE \/ /\ asset' = [asset EXCEPT ![t].state = "LOADED"]
                  /\ content' = content \cup {Key(t)} /\ UNCHANGED <<pending, staging>>
               \/ /\ asset' = [asset EXCEPT ![t].state = "FAILED"]
                  /\ UNCHANGED <<pending, staging, content>>
      <3>1. asset' = [asset EXCEPT ![t].state = "LOADED"] =>
               Becomes(t, "LOADED", asset[t].generation, asset[t].requested, asset[t].completed)
        BY <1>5
      <3>2. asset' = [asset EXCEPT ![t].state = "FAILED"] =>
               Becomes(t, "FAILED", asset[t].generation, asset[t].requested, asset[t].completed)
        BY <1>5
      <3>3. asset[t].state = "PROCESSING" /\ ~asset[t].requested /\ release' = release
        BY <1>8, Zenon DEF FirstStep
      <3> QED
        BY <1>1, <1>2, <2>2, <3>1, <3>2, <3>3, Zenon DEF Settles
    <2> QED
      BY <1>8, <2>1, <2>2, Zenon DEF FirstStep
  <1>9. CASE LastStep(t)
    <2>1. Becomes(t, "LOADED", asset[t].generation, asset[t].requested, asset[t].completed)
      BY <1>5, <1>9 DEF LastStep
    <2> QED
      BY <1>1, <1>2, <1>9, <2>1, Zenon DEF LastStep, Completes
  <1>10. CASE ReleaseTexture(t)
    <2>1. CASE /\ asset[t].state = "PROCESSING"
               /\ asset' = [asset EXCEPT ![t].state = "PENDING_DELETE"] /\ UNCHANGED content
      <3>1. Becomes(t, "PENDING_DELETE", asset[t].generation, asset[t].requested,
                    asset[t].completed)
        BY <1>5, <2>1
      <3> QED
        BY <1>1, <1>2, <1>10, <2>1, <3>1, Zenon DEF ReleaseTexture, Cancels
    <2>2. CASE DestroyTexture(t)
      BY <1>1, <1>2, <1>6, <1>10, <2>2, Zenon DEF ReleaseTexture
    <2> QED
      BY <1>10, <2>1, <2>2, Zenon DEF ReleaseTexture
  <1>11. CASE CancelLoad(t)
    BY <1>1, <1>2, <1>6, <1>11, Zenon DEF CancelLoad
  <1> QED
    BY <1>7, <1>8, <1>9, <1>10, <1>11, Zenon DEF TextureSteps

\* The uploads a frame records.
Uploads == {e \in Range(TakenNow) : Importable(e)}

LEMMA KeyOfImportable ==
    ASSUME TypeOK, NEW e \in Keys, Importable(e)
    PROVE  e.texture \in Textures /\ e = Key(e.texture)
  BY DEF Importable, Key, Keys

LEMMA RecordEffect ==
    ASSUME TypeOK, PendingInv, RecordGraph
    PROVE  /\ Range(TakenNow) \subseteq Range(pending) /\ Range(pending') \subseteq Range(pending)
           /\ Range(TakenNow) \cap Range(pending') = {}
           /\ \A j, k \in DOMAIN pending' : pending'[j] = pending'[k] => j = k
           /\ release' = Range(TakenNow) /\ staging' = staging \ release
           /\ graph'.writes = Uploads
           /\ \A t \in Textures :
                 Becomes(t, asset[t].state, asset[t].generation, asset[t].requested,
                         Key(t) \in Uploads \/ asset[t].completed)
           /\ \A e \in graph'.samples :
                 \E t \in Textures : e = Key(t) /\ asset[t].state = "LOADED"
  <1> DEFINE n == Len(TakenNow)
             rest == SubSeq(pending, Len(TakenNow) + 1, Len(pending))
  <1>1. /\ n \in 0..Len(pending) /\ Len(pending) \in Nat
        /\ DOMAIN TakenNow = 1..n /\ \A i \in 1..n : TakenNow[i] = pending[i]
        /\ DOMAIN rest = 1..(Len(pending) - n)
        /\ \A i \in 1..(Len(pending) - n) : rest[i] = pending[n + i]
    BY TakenParts
  <1>2. pending' = rest /\ DOMAIN pending = 1..Len(pending) /\ pending \in Seq(Keys)
    BY DEF RecordGraph, TypeOK
  <1>3. release' = Range(TakenNow) /\ staging' = staging \ release
    BY DEF RecordGraph
  <1>4. PICK S \in SUBSET {t \in Textures : asset[t].state = "LOADED"} :
           graph' = [writes |-> Uploads, samples |-> {Key(t) : t \in S}]
    BY DEF RecordGraph, Uploads
  <1>5. asset' = [t \in Textures |-> IF \E e \in Uploads : e.texture = t
                                     THEN [asset[t] EXCEPT !.completed = TRUE] ELSE asset[t]]
    BY DEF RecordGraph, Uploads
  <1> HIDE DEF n, rest
  <1>6. \A j, k \in 1..Len(pending) : pending[j] = pending[k] => j = k
    BY <1>2 DEF PendingInv
  <1>7. /\ Range(TakenNow) \subseteq Range(pending) /\ Range(pending') \subseteq Range(pending)
        /\ Range(TakenNow) \cap Range(pending') = {}
    <2>1. \A i \in 1..n : i \in 1..Len(pending)
      BY <1>1
    <2>2. \A i \in 1..(Len(pending) - n) : n + i \in 1..Len(pending) /\ \A j \in 1..n : n + i # j
      BY <1>1
    <2>3. Range(TakenNow) \subseteq Range(pending)
      BY <1>1, <1>2, <2>1 DEF Range
    <2>4. Range(pending') \subseteq Range(pending)
      BY <1>1, <1>2, <2>2 DEF Range
    <2>5. \A i \in 1..n, j \in 1..(Len(pending) - n) : TakenNow[i] # rest[j]
      BY <1>1, <1>6, <2>1, <2>2
    <2>6. Range(TakenNow) \cap Range(pending') = {}
      BY <1>1, <1>2, <2>5 DEF Range
    <2> QED
      BY <2>3, <2>4, <2>6
  <1>8. \A j, k \in DOMAIN pending' : pending'[j] = pending'[k] => j = k
    <2>1. \A j \in 1..(Len(pending) - n) : n + j \in 1..Len(pending) /\ j \in Nat /\ n \in Nat
      BY <1>1
    <2>2. \A j, k \in 1..(Len(pending) - n) : rest[j] = rest[k] => n + j = n + k
      BY <1>1, <1>6, <2>1
    <2> QED
      BY <1>1, <1>2, <2>1, <2>2
  <1>9. Uploads \subseteq Keys /\ \A e \in Uploads : Importable(e)
    BY <1>2, <1>7, RangeOfSeq DEF Uploads
  <1>10. \A t \in Textures : (\E e \in Uploads : e.texture = t) <=> Key(t) \in Uploads
    BY <1>9, KeyOfImportable, KeyType
  <1>11. ASSUME NEW t \in Textures
         PROVE  Becomes(t, asset[t].state, asset[t].generation, asset[t].requested,
                        Key(t) \in Uploads \/ asset[t].completed)
    <2>1. asset[t] \in TextureStates /\ asset[t].completed \in BOOLEAN
      BY KeyType DEF TextureStates
    <2>2. CASE Key(t) \in Uploads
      <3>1. asset'[t] = [asset[t] EXCEPT !.completed = TRUE]
        BY <1>5, <1>10, <2>2
      <3> QED
        BY <2>1, <2>2, <3>1, EditedFields DEF Becomes
    <2>3. CASE Key(t) \notin Uploads
      <3>1. asset'[t] = asset[t]
        BY <1>5, <1>10, <2>3
      <3> QED
        BY <2>1, <2>3, <3>1 DEF Becomes
    <2> QED
      BY <2>2, <2>3
  <1> QED
    BY <1>3, <1>4, <1>7, <1>8, <1>11

LEMMA AssetInvStep ==
    ASSUME IInv, Next
    PROVE  AssetInv'
  <1> USE DEF IInv, TextureInv
  <1>1. CASE RecordGraph
    <2>1. ASSUME NEW t \in Textures, Key(t) \in Uploads
          PROVE  asset[t].requested
      <3>1. Key(t) \in Range(pending)
        BY <1>1, <2>1, RecordEffect DEF Uploads
      <3> QED
        BY <3>1, KeyType DEF PendingInv
    <2>2. ASSUME NEW t \in Textures
          PROVE  /\ asset'[t].state = asset[t].state
                 /\ asset'[t].generation = asset[t].generation
                 /\ asset'[t].requested <=> asset[t].requested
                 /\ asset'[t].completed => asset[t].requested
      <3>1. asset[t].completed => asset[t].requested
        BY DEF AssetInv
      <3> QED
        BY <1>1, <2>1, <3>1, RecordEffect DEF Becomes
    <2> QED
      BY <2>2 DEF AssetInv
  <1>2. CASE TextureStep
    <2>1. PICK t \in Textures : TextureSteps(t)
      BY <1>2 DEF TextureStep, TextureSteps
    <2>2. asset[t] \in TextureStates
      BY KeyType
    <2>3. /\ asset[t].state = "EMPTY" => ~asset[t].requested
          /\ asset[t].state # "EMPTY" => asset[t].generation <= MaxGeneration
          /\ asset[t].completed => asset[t].requested
      BY DEF AssetInv
    <2>4. /\ asset'[t].state = "EMPTY" => ~asset'[t].requested
          /\ asset'[t].state # "EMPTY" => asset'[t].generation <= MaxGeneration
          /\ asset'[t].completed => asset'[t].requested
      BY <2>1, <2>3, TextureChange DEF Becomes, Loads, Queues, Settles, Completes, Cancels, Destroys
    <2>5. \A u \in Textures \ {t} : asset'[u] = asset[u]
      BY <2>1, TextureChange
    <2> QED
      BY <2>4, <2>5 DEF AssetInv
  <1>3. CASE Shutdown
    BY <1>3, ShutdownEffect DEF AssetInv
  <1>4. CASE UNCHANGED assetVars
    BY <1>4 DEF assetVars, AssetInv
  <1> QED
    BY <1>1, <1>2, <1>3, <1>4, OthersKeepTextures DEF Next

LEMMA PendingTexture ==
    ASSUME TypeOK, AssetInv, PendingInv, NEW t \in Textures, TextureSteps(t)
    PROVE  PendingInv'
  <1>1. asset[t] \in TextureStates /\ Key(t) \in Keys /\ asset[t].generation \in Nat
    BY KeyType
  <1>2. /\ asset[t].state = "EMPTY" => ~asset[t].requested
        /\ asset[t].completed => asset[t].requested
    BY DEF AssetInv
  <1>3. \A u \in Textures \ {t} : asset'[u] = asset[u]
    BY TextureChange
  <1>4. Range(pending) \cup release \subseteq Keys /\ pending \in Seq(Keys)
    BY RangeOfSeq DEF TypeOK
  <1>5. ASSUME NEW e \in Range(pending) \cup release, e.texture = t
        PROVE  /\ e.generation <= asset'[t].generation
               /\ e.generation = asset'[t].generation => asset'[t].requested
    <2>1. /\ e.generation <= asset[t].generation /\ e.generation \in Nat
          /\ e.generation = asset[t].generation => asset[t].requested
      BY <1>4, <1>5 DEF PendingInv, Keys
    <2> QED
      BY <1>1, <2>1, TextureChange
         DEF Becomes, Loads, Queues, Settles, Completes, Cancels, Destroys
  <1>6. ASSUME NEW e \in Range(pending), e.texture = t, e.generation = asset'[t].generation,
               asset'[t].state # "PENDING_DELETE"
        PROVE  asset'[t].state = "PROCESSING" /\ ~asset'[t].completed
    <2>1. /\ e.generation <= asset[t].generation /\ e.generation \in Nat
          /\ e.generation = asset[t].generation => asset[t].requested
          /\ e.generation = asset[t].generation /\ asset[t].state # "PENDING_DELETE" =>
                asset[t].state = "PROCESSING" /\ ~asset[t].completed
      BY <1>4, <1>6 DEF PendingInv, Keys, Importable
    <2> QED
      BY <1>1, <1>2, <1>6, <2>1, TextureChange
         DEF Becomes, Loads, Queues, Settles, Completes, Cancels, Destroys
  <1>7. ASSUME NEW e \in Range(pending) \cup release
        PROVE  /\ e.generation <= asset'[e.texture].generation
               /\ e.generation = asset'[e.texture].generation => asset'[e.texture].requested
    <2>1. e.texture \in Textures
      BY <1>4 DEF Keys
    <2>2. CASE e.texture # t
      BY <1>3, <2>1, <2>2 DEF PendingInv
    <2> QED
      BY <1>5, <2>2
  <1>8. ASSUME NEW e \in Range(pending), e.generation = asset'[e.texture].generation,
               asset'[e.texture].state # "PENDING_DELETE"
        PROVE  asset'[e.texture].state = "PROCESSING" /\ ~asset'[e.texture].completed
    <2>1. e.texture \in Textures
      BY <1>4 DEF Keys
    <2>2. CASE e.texture # t
      BY <1>3, <1>8, <2>1, <2>2 DEF PendingInv, Importable
    <2> QED
      BY <1>6, <1>8, <2>2
  <1>9. stage' # "execute"
    BY TextureChange DEF cpuVars
  <1>10. CASE UNCHANGED <<pending, release, staging>>
    BY <1>7, <1>8, <1>9, <1>10 DEF PendingInv, Importable
  <1>11. CASE Queues(t)
    <2>1. Range(pending') = Range(pending) \cup {Key(t)}
      BY <1>1, <1>4, <1>11, AppendRange DEF Queues
    <2>2. Key(t) \notin Range(pending) \cup release
      BY <1>11, KeyType DEF PendingInv, Queues
    <2>3. \A j, k \in DOMAIN pending' : pending'[j] = pending'[k] => j = k
      <3>1. /\ DOMAIN pending' = 1..(Len(pending) + 1) /\ Len(pending) \in Nat
            /\ DOMAIN pending = 1..Len(pending) /\ pending'[Len(pending) + 1] = Key(t)
            /\ \A k \in 1..Len(pending) : pending'[k] = pending[k]
        BY <1>1, <1>4, <1>11 DEF Queues
      <3>2. \A k \in 1..Len(pending) : pending[k] # Key(t)
        BY <2>2, <3>1 DEF Range
      <3> QED
        BY <3>1, <3>2 DEF PendingInv
    <2>4. /\ asset'[t].generation = asset[t].generation /\ asset'[t].requested
          /\ asset'[t].state = "PROCESSING" /\ ~asset'[t].completed
      BY <1>2, <1>11 DEF Queues, Becomes
    <2>5. PICK key : key = Key(t)
      OBVIOUS
    <2>6. key.texture = t /\ key.generation = asset[t].generation /\ asset[t].generation \in Nat
      BY <2>5, KeyType
    <2>7. \A e \in Range(pending') \cup release' :
             /\ e.generation <= asset'[e.texture].generation
             /\ e.generation = asset'[e.texture].generation => asset'[e.texture].requested
      BY <1>7, <1>11, <2>1, <2>4, <2>5, <2>6 DEF Queues
    <2>8. \A e \in Range(pending') : Importable(e)' =>
             asset'[e.texture].state = "PROCESSING" /\ ~asset'[e.texture].completed
      BY <1>8, <2>1, <2>4, <2>5, <2>6 DEF Importable
    <2>9. Range(pending') \cap release' = {} /\ Range(pending') \subseteq staging'
      BY <1>11, <2>1, <2>2 DEF PendingInv, Queues
    <2> QED
      BY <1>9, <2>3, <2>7, <2>8, <2>9 DEF PendingInv
  <1> QED
    BY <1>10, <1>11, TextureChange DEF Loads, Settles, Completes, Cancels, Destroys

LEMMA PendingRecord ==
    ASSUME TypeOK, PendingInv, RecordGraph
    PROVE  PendingInv'
  <1>1. /\ Range(TakenNow) \subseteq Range(pending) /\ Range(pending') \subseteq Range(pending)
        /\ Range(TakenNow) \cap Range(pending') = {}
        /\ \A j, k \in DOMAIN pending' : pending'[j] = pending'[k] => j = k
        /\ release' = Range(TakenNow) /\ staging' = staging \ release
        /\ graph'.writes = Uploads
    BY RecordEffect
  <1>2. \A t \in Textures : Becomes(t, asset[t].state, asset[t].generation, asset[t].requested,
                                    Key(t) \in Uploads \/ asset[t].completed)
    BY RecordEffect
  <1>3. Range(pending) \subseteq Keys /\ \A e \in Range(pending) : e.texture \in Textures
    <2>1. pending \in Seq(Keys)
      BY DEF TypeOK
    <2>2. Range(pending) \subseteq Keys
      BY <2>1, RangeOfSeq
    <2> QED
      BY <2>2 DEF Keys
  <1>4. \A e \in Range(pending') \cup release' :
           /\ e.generation <= asset'[e.texture].generation
           /\ e.generation = asset'[e.texture].generation => asset'[e.texture].requested
    BY <1>1, <1>2, <1>3 DEF PendingInv, Becomes
  <1>5. ASSUME NEW e \in Range(pending'), e.generation = asset'[e.texture].generation,
               asset'[e.texture].state # "PENDING_DELETE"
        PROVE  asset'[e.texture].state = "PROCESSING" /\ ~asset'[e.texture].completed
    <2>1. e \in Keys /\ e \in Range(pending) /\ e.texture \in Textures /\ e \notin Uploads
      BY <1>1, <1>3 DEF Uploads
    <2>2. Importable(e)
      BY <1>2, <1>5, <2>1 DEF Importable, Becomes
    <2>3. e = Key(e.texture)
      BY <2>1, <2>2, KeyOfImportable
    <2>4. asset[e.texture].state = "PROCESSING" /\ ~asset[e.texture].completed
      BY <2>1, <2>2 DEF PendingInv
    <2> QED
      BY <1>2, <2>1, <2>3, <2>4 DEF Becomes
  <1>6. graph'.writes \subseteq staging' /\ Range(pending') \subseteq staging'
        /\ Range(pending') \cap release' = {}
    BY <1>1 DEF PendingInv, Uploads
  <1> QED
    BY <1>1, <1>4, <1>5, <1>6 DEF PendingInv, Importable

LEMMA PendingInvStep ==
    ASSUME IInv, Next
    PROVE  PendingInv'
  <1> USE DEF IInv, TextureInv
  <1>1. CASE RecordGraph
    BY <1>1, PendingRecord
  <1>2. CASE TextureStep
    BY <1>2, PendingTexture DEF TextureStep, TextureSteps
  <1>3. CASE Shutdown
    BY <1>3 DEF Shutdown, PendingInv, Range
  <1>4. CASE UNCHANGED assetVars /\ ~RecordGraph /\ (FrameStep \/ UNCHANGED cpuVars)
    <2>1. stage' = "execute" => stage = "execute" /\ graph' = graph
      BY <1>4 DEF FrameStep, BeginFrame, SkipGraph, ExecuteGraph, Submit, Present, PostFrame,
                  EnsureChain, AcquireImage, AcquireRefused, cpuVars
    <2> QED
      BY <1>4, <2>1 DEF assetVars, PendingInv, Importable
  <1> QED
    BY <1>1, <1>2, <1>3, <1>4, OthersKeepTextures, OthersKeepFrame DEF Next

\* Data that has reached the queue stays there or reaches the GPU.
LEMMA SentStays ==
    ASSUME TypeOK, Next, ~TextureStep
    PROVE  Sent \subseteq Sent'
  <1>1. gpu' = gpu /\ content' = content => Sent \subseteq Sent'
    BY DEF Sent
  <1>2. WaitIdle => Sent \subseteq Sent'
    BY WaitIdleSends DEF Sent
  <1>3. ASSUME content' = content,
               \A k \in DOMAIN gpu : \E j \in DOMAIN gpu' : gpu'[j] = gpu[k]
        PROVE  Sent \subseteq Sent'
    BY <1>3 DEF Sent
  <1>4. CASE BeginFrame \/ RecordGraph \/ SkipGraph \/ ExecuteGraph \/ PostFrame
                \/ \E w \in Windows : AcquireRefused(w) \/ AcquireImage(w)
    BY <1>1, <1>4 DEF BeginFrame, RecordGraph, SkipGraph, ExecuteGraph, PostFrame, AcquireRefused,
                      AcquireImage
  <1>5. CASE \E w \in Windows : EnsureChain(w)
    BY <1>1, <1>2, <1>5 DEF EnsureChain, ReleaseChain
  <1>6. CASE Submit
    <2>1. \A k \in DOMAIN gpu : k \in DOMAIN gpu' /\ gpu'[k] = gpu[k]
      BY <1>6, BatchType DEF Submit, TypeOK
    <2> QED
      BY <1>3, <1>6, <2>1 DEF Submit
  <1>7. CASE Present
    <2>1. \A k \in DOMAIN gpu : k \in DOMAIN gpu' /\ gpu'[k] = gpu[k]
      <3>1. CASE ~frame.submitted
        BY <1>7, <3>1 DEF Present
      <3>2. CASE frame.submitted
        <4> DEFINE p == [k \in DOMAIN frame.prepared |-> PresentOf(frame.prepared[k])]
        <4>1. gpu' = gpu \o p /\ gpu \in Seq(Work) /\ frame.prepared \in Seq(Windows)
          BY <1>7, <3>2 DEF Present, TypeOK
        <4>2. DOMAIN p = 1..Len(frame.prepared) /\ Len(frame.prepared) \in Nat
          BY <4>1
        <4>3. p \in Seq({p[k] : k \in DOMAIN p})
          BY <4>2
        <4> HIDE DEF p
        <4>4. gpu \in Seq(Work \cup {p[k] : k \in DOMAIN p})
              /\ p \in Seq(Work \cup {p[k] : k \in DOMAIN p})
          BY <4>1, <4>3, SeqMonotonic
        <4> QED
          BY <4>1, <4>4, ConcatProperties
      <3> QED
        BY <3>1, <3>2
    <2> QED
      BY <1>3, <1>7, <2>1 DEF Present
  <1>8. CASE WindowStep
    BY <1>1, <1>2, <1>8, WindowsRelease DEF ReleaseChain
  <1>9. CASE GpuStep
    <2>1. gpu # <<>> /\ gpu' = Tail(gpu) /\ content' = content \cup Head(gpu).writes
      BY <1>9 DEF GpuStep
    <2>2. ASSUME NEW k \in DOMAIN gpu
          PROVE  gpu[k] = Head(gpu) \/ \E j \in DOMAIN gpu' : gpu'[j] = gpu[k]
      <3>1. /\ Head(gpu) = gpu[1] /\ DOMAIN gpu' = 1..(Len(gpu) - 1) /\ DOMAIN gpu = 1..Len(gpu)
            /\ \A j \in DOMAIN gpu' : gpu'[j] = gpu[j + 1] /\ Len(gpu) \in Nat
        BY <2>1, GpuParts, GpuWork
      <3>2. CASE k = 1
        BY <3>1, <3>2
      <3>3. CASE k # 1
        <4>1. k - 1 \in DOMAIN gpu' /\ (k - 1) + 1 = k
          BY <3>1, <3>3
        <4> QED
          BY <3>1, <4>1
      <3> QED
        BY <3>2, <3>3
    <2> QED
      BY <2>1, <2>2 DEF Sent
  <1>10. CASE Shutdown \/ Down
    BY <1>1, <1>2, <1>10 DEF Shutdown, Down, vars
  <1> QED
    BY <1>4, <1>5, <1>6, <1>7, <1>8, <1>9, <1>10 DEF Next, FrameStep

LEMMA UploadInvTexture ==
    ASSUME TypeOK, AssetInv, FrameInv, UploadInv, NEW t \in Textures, TextureSteps(t)
    PROVE  UploadInv'
  <1>1. graph = NoGraph /\ graph' = graph /\ stage' = "update" /\ gpu' = gpu
    BY TextureChange DEF FrameInv, cpuVars
  <1>2. \A u \in Textures : Done(u) => Key(u) \in Sent
    BY <1>1 DEF UploadInv, NoGraph
  <1>3. \A u \in Textures \ {t} : Done(u)' => Done(u)
    BY TextureChange DEF Done
  <1>4. \A u \in Textures \ {t} : Key(u)' = Key(u) /\ Key(u) # Key(t)
    BY TextureChange, KeyType DEF Key
  <1>5. Sent \ {Key(t)} \subseteq Sent' /\ (~Destroys(t) => Sent \subseteq Sent')
    <2>1. content \ {Key(t)} \subseteq content' /\ (~Destroys(t) => content \subseteq content')
      BY TextureChange DEF Loads, Queues, Settles, Completes, Cancels, Destroys
    <2> QED
      BY <1>1, <2>1 DEF Sent
  <1>6. Done(t)' => Key(t)' \in Sent'
    <2>1. CASE Settles(t)
      <3>1. content' = content \cup {Key(t)} \/ ~Done(t)'
        BY <2>1 DEF Settles, Becomes, Done
      <3>2. Key(t)' = Key(t)
        BY <2>1 DEF Settles, Becomes, Key
      <3> QED
        BY <3>1, <3>2 DEF Sent
    <2>2. CASE Completes(t)
      <3>1. Done(t) /\ Key(t)' = Key(t)
        BY <2>2 DEF Completes, Becomes, Done, Key
      <3>2. ~Destroys(t)
        BY <2>2 DEF Completes, Destroys, Becomes
      <3> QED
        BY <1>2, <1>5, <3>1, <3>2
    <2>3. CASE Loads(t) \/ Queues(t)
      <3>1. ~Done(t)'
        BY <2>3 DEF Loads, Queues, Becomes, Done, AssetInv
      <3> QED
        BY <3>1
    <2>4. CASE Cancels(t) \/ Destroys(t)
      <3>1. ~Done(t)'
        BY <2>4 DEF Cancels, Destroys, Becomes, Done
      <3> QED
        BY <3>1
    <2> QED
      BY <2>1, <2>2, <2>3, <2>4, TextureChange
  <1>7. \A u \in Textures : Done(u)' => Key(u)' \in Sent'
    BY <1>2, <1>3, <1>4, <1>5, <1>6
  <1> QED
    BY <1>1, <1>7 DEF UploadInv, NoGraph

LEMMA UploadInvStep ==
    ASSUME IInv, Next
    PROVE  UploadInv'
  <1> USE DEF IInv, WindowInv, TextureInv
  <1>1. CASE TextureStep
    BY <1>1, UploadInvTexture DEF TextureStep, TextureSteps
  <1>2. CASE RecordGraph
    <2>1. /\ Sent \subseteq Sent' /\ graph = NoGraph /\ graph'.writes = Uploads
          /\ stage' = "execute"
      <3>1. gpu' = gpu /\ content' = content /\ graph = NoGraph /\ stage' = "execute"
        BY <1>2 DEF RecordGraph, FrameInv
      <3> QED
        BY <1>2, <3>1, RecordEffect DEF Sent
    <2>2. \A t \in Textures : Done(t) => Key(t) \in Sent
      BY <2>1 DEF UploadInv, NoGraph
    <2>3. ASSUME NEW t \in Textures
          PROVE  Key(t)' = Key(t) /\ (Done(t)' => Done(t) \/ Key(t) \in Uploads)
      BY <1>2, RecordEffect DEF Becomes, Key, Done
    <2>4. \A t \in Textures : Done(t)' => Key(t)' \in Sent' \cup graph'.writes
      BY <2>1, <2>2, <2>3
    <2>5. graph'.samples \subseteq Sent'
      BY <1>2, <2>1, <2>2, RecordEffect DEF Done
    <2> QED
      BY <2>1, <2>4, <2>5 DEF UploadInv
  <1>3. CASE Shutdown
    <2>1. \A t \in Textures : ~Done(t)'
      BY <1>3, ShutdownEffect DEF Done
    <2>2. graph' = NoGraph /\ stage' = "down"
      BY <1>3 DEF Shutdown, FrameInv
    <2> QED
      BY <2>1, <2>2 DEF UploadInv, NoGraph
  <1>4. CASE ~TextureStep /\ ~RecordGraph /\ ~Shutdown
    <2>1. Sent \subseteq Sent' /\ asset' = asset
      BY <1>4, SentStays, OthersKeepTextures DEF Next, assetVars
    <2>2. \A t \in Textures : Key(t)' = Key(t) /\ (Done(t)' => Done(t))
      BY <2>1 DEF Key, Done
    <2>3. ASSUME graph' = graph, stage' \in {"present", "post"} => graph.writes \subseteq Sent'
          PROVE  UploadInv'
      BY <2>1, <2>2, <2>3 DEF UploadInv
    <2>4. ASSUME graph' = NoGraph, graph.writes \subseteq Sent
          PROVE  UploadInv'
      BY <2>1, <2>2, <2>4 DEF UploadInv, NoGraph
    <2>5. CASE BeginFrame
      BY <2>4, <2>5 DEF BeginFrame, FrameInv, NoGraph
    <2>6. CASE PostFrame
      BY <2>4, <2>6 DEF PostFrame, UploadInv
    <2>7. CASE Submit
      <3>1. graph.writes \subseteq Sent'
        <4>1. gpu' = Append(gpu, Batch(slot, frame.waits, frame.signals, graph))
              /\ gpu \in Seq(Work) /\ Batch(slot, frame.waits, frame.signals, graph) \in Work
          BY <2>7, BatchType DEF Submit, TypeOK
        <4>2. Len(gpu) + 1 \in DOMAIN gpu'
              /\ gpu'[Len(gpu) + 1] = Batch(slot, frame.waits, frame.signals, graph)
          BY <4>1
        <4>3. gpu'[Len(gpu) + 1].writes = graph.writes
          BY <4>2 DEF Batch
        <4> QED
          BY <4>2, <4>3 DEF Sent
      <3> QED
        BY <2>3, <2>7, <3>1 DEF Submit
    <2>8. CASE SkipGraph
      BY <2>3, <2>8 DEF SkipGraph, FrameInv, NoGraph
    <2>9. CASE ExecuteGraph \/ Present
               \/ \E w \in Windows : EnsureChain(w) \/ AcquireImage(w) \/ AcquireRefused(w)
      <3>1. graph' = graph /\ (stage' \in {"present", "post"} => stage \in {"present", "post"})
        BY <2>9 DEF ExecuteGraph, Present, EnsureChain, AcquireImage, AcquireRefused, FrameInv
      <3> QED
        BY <2>1, <2>3, <3>1 DEF UploadInv
    <2>10. CASE UNCHANGED cpuVars
      BY <2>1, <2>3, <2>10 DEF cpuVars, UploadInv
    <2> QED
      BY <1>4, <2>5, <2>6, <2>7, <2>8, <2>9, <2>10, OthersKeepFrame DEF Next, FrameStep
  <1> QED
    BY <1>1, <1>2, <1>3, <1>4

-----------------------------------------------------------------------------
(* The theorems                                                             *)

LEMMA IInvInit == Init => IInv
  <1> SUFFICES ASSUME Init PROVE IInv
    OBVIOUS
  <1>1. TypeOK
    BY TypeInit
  <1>2. WindowInv
    BY FramesAssumption
       DEF Init, WindowInv, FrameInv, PreparedInv, ChainInv, ChainLeft, HeldInv, NoFrame, Live, Range
  <1>3. DriverInv
    BY DEF Init, DriverInv, FrameSemaphores, PresentsSignalled, QueueSemaphores, QueueOrder, SlotFree,
           NoFrame
  <1>4. TextureInv
    BY DEF Init, TextureInv, AssetInv, PendingInv, UploadInv, EmptyTexture, Done, NoGraph, Range
  <1> QED
    BY <1>1, <1>2, <1>3, <1>4 DEF IInv

LEMMA IInvStep == IInv /\ [Next]_vars => IInv'
  <1> SUFFICES ASSUME IInv, [Next]_vars PROVE IInv'
    OBVIOUS
  <1>1. CASE Next
    <2>1. TypeOK'
      BY <1>1, TypeStep
    <2>2. WindowInv'
      BY <1>1, FrameInvStep, PreparedInvStep, ChainInvStep, HeldInvStep
         DEF IInv, WindowInv, DriverInv
    <2>3. DriverInv'
      BY <1>1, FrameSemaphoresStep, PresentsSignalledStep, QueueSemaphoresStep, QueueOrderStep,
         SlotFreeStep
         DEF DriverInv
    <2>4. TextureInv'
      BY <1>1, AssetInvStep, PendingInvStep, UploadInvStep DEF TextureInv
    <2> QED
      BY <2>1, <2>2, <2>3, <2>4 DEF IInv
  <1>2. CASE UNCHANGED vars
    <2>1. TypeOK'
      BY <1>2 DEF IInv, TypeOK, Live, vars, cpuVars, windowVars, assetVars
    <2>2. WindowInv'
      BY <1>2 DEF IInv, WindowInv, FrameInv, PreparedInv, ChainInv, ChainLeft, HeldInv, Live,
                  vars, cpuVars, windowVars
    <2>3. DriverInv'
      BY <1>2 DEF IInv, DriverInv, FrameSemaphores, PresentsSignalled, Finished, Semaphore, Range,
                  QueueSemaphores, WorkOK, QueueOrder, SlotFree, Exists, ImageOf, Live, Busy,
                  vars, cpuVars, windowVars
    <2>4. TextureInv'
      BY <1>2 DEF IInv, TextureInv, AssetInv, PendingInv, UploadInv, Importable, Done, Key, Sent,
                  vars, cpuVars, assetVars
    <2> QED
      BY <2>1, <2>2, <2>3, <2>4 DEF IInv
  <1> QED
    BY <1>1, <1>2

\* The invariant that the properties of the frames follow from: the stages of
\* a frame, the windows it has prepared, the semaphores and images in the
\* queue in their order, and the data of the textures.
THEOREM Invariant == Spec => []IInv
  BY IInvInit, IInvStep, PTL DEF Spec

\* The records of the frame, the queue, the windows, their swapchains and the
\* textures keep their shape; the current_backbuffer_index of a swapchain names
\* one of its images, or none after acquire_window_image was refused.
THEOREM TypeCorrect == Spec => []TypeOK
  BY Invariant, PTL DEF IInv

\* begin_frame waits for the fence of its slot, and a swapchain goes only
\* after wait_idle: whatever the CPU works on, the GPU has let go of it.
THEOREM SlotsFreeWhileUsed == Spec => []NothingReusedInUse
  <1>1. IInv => NothingReusedInUse
    BY GpuWork, WorkImages
       DEF IInv, DriverInv, SlotFree, QueueSemaphores, NothingReusedInUse, Exists
  <1> QED
    BY <1>1, Invariant, PTL

\* The acquire semaphore of a slot and the semaphore of an image are given to
\* the driver again only when every earlier use is over, and every image that
\* the frame acquired is presented before it ends.  Until then every window of
\* the frame has the image that its index names, although acquire_window_image
\* clears the index of a window that is refused.
THEOREM DriverServed == Spec => []SwapchainsSafe
  <1>1. ASSUME IInv
        PROVE  SemaphoresOnce
    <2>1. /\ frame.waits # {} \/ frame.signals # {} => stage \in {"prepare", "execute", "submit"}
          /\ stage \in {"prepare", "execute", "submit"} => \A k \in DOMAIN gpu :
                /\ gpu[k].waits \cap frame.waits = {}
                /\ gpu[k].waits \cap frame.signals = {}
                /\ gpu[k].signals \cap frame.signals = {}
      <3>1. frame.prepared = <<>> => frame.waits = {} /\ frame.signals = {}
        BY <1>1 DEF IInv, DriverInv, FrameSemaphores, Range
      <3>2. frame.waits # {} \/ frame.signals # {} => stage \in {"prepare", "execute", "submit"}
        BY <1>1, <3>1 DEF IInv, WindowInv, FrameInv, NoFrame, TypeOK
      <3> QED
        BY <1>1, <3>2, FrameApart
    <2>2. \A j, k \in DOMAIN gpu : gpu[j].waits \cap gpu[k].waits # {} => j = k
      BY <1>1 DEF IInv, DriverInv, QueueOrder
    <2> QED
      BY <2>1, <2>2 DEF SemaphoresOnce
  <1>2. ASSUME IInv
        PROVE  ImagesReturned
    BY <1>2, NoneHeld DEF IInv, WindowInv, ImagesReturned, Handing, Range
  <1>3. ASSUME IInv
        PROVE  PresentsReady
    BY <1>3 DEF IInv, WindowInv, DriverInv, HeldInv, PreparedHeld, PresentsReady
  <1>4. IInv => SwapchainsSafe
    BY <1>1, <1>2, <1>3 DEF SwapchainsSafe
  <1> QED
    BY <1>4, Invariant, PTL

\* upload_record_callback writes through the flag of an upload only while the
\* loader that owns it still waits, and the data of an upload outlives the copy.
THEOREM UploadFlagsAlive == Spec => []FlagsAlive
  <1>1. ASSUME IInv
        PROVE  FlagsAlive
    <2>1. PendingInv
      BY <1>1 DEF IInv, TextureInv
    <2>2. ASSUME NEW k \in DOMAIN pending
          PROVE  /\ pending[k] \in staging
                 /\ Importable(pending[k]) =>
                       /\ asset[pending[k].texture].state = "PROCESSING"
                       /\ asset[pending[k].texture].requested
                       /\ ~asset[pending[k].texture].completed
                       /\ \A j \in DOMAIN pending : pending[j] = pending[k] => j = k
      <3>1. pending[k] \in Range(pending)
        BY DEF Range
      <3>2. Importable(pending[k]) => asset[pending[k].texture].requested
        BY <2>1, <3>1 DEF PendingInv, Importable
      <3> QED
        BY <2>1, <3>1, <3>2 DEF PendingInv
    <2> QED
      BY <2>1, <2>2 DEF FlagsAlive, PendingInv
  <1>2. IInv => FlagsAlive
    BY <1>1
  <1> QED
    BY <1>2, Invariant, PTL

\* The upload pass runs before the passes that sample, and a loader reports a
\* texture loaded only when its upload has been recorded.
THEOREM SampledIsUploaded == Spec => []UploadedFirst
  <1>1. IInv => UploadedFirst
    BY DEF IInv, TextureInv, UploadInv, UploadedFirst, Sent
  <1> QED
    BY <1>1, Invariant, PTL

=============================================================================
