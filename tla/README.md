# A TLA+ development for PulseEngine

PulseEngine is a plugin-based game engine in C and C++. An *app* owns an ECS
world and a list of plugins; *packages* bring plugins in libraries; most
plugins register asset types with the *asset system*, which loads, shares and
unloads assets; the *graphics runtime* turns every frame into a *render graph*
that the GPU executes some frames later. This directory models these parts and
the *configuration tree* they read their settings from, checks them with TLC on
small instances, and proves with TLAPS, for every instance, the safety
properties of the app, of the package loader and of the frame ring and most of
those of the asset system.

All line numbers refer to the sources under `src/src/`. `PROJECT.json` maps
each definition to its lines.

## 1. Inventory

### 1.1 The parts

| Part | State it keeps | Operations | Talks to |
|---|---|---|---|
| App (`pulse_app/src/app_impl.cpp`) | state, plugins, pending plugins, subapps, runner, ECS world | add_plugin, prepare, run, update, teardown, insert/remove subapp, set_runner, set_subapp_extract, finish | plugins' build, post_build and shutdown callbacks; subapps by direct calls |
| Asset storage (`pulse_asset/src/asset_storage.cpp`) | a bucket of slots per type, free list, generations, path cache, committed dependency graph | allocate, destroy (cascading), try_unload, commit, pin, unpin | the types' destroy callbacks |
| Asset load queue (`asset_loading.cpp`) | the list of load jobs | enqueue, process (budgeted, per frame), drain_pass, process_immediate_builder, cancel_type, cancel_all | storage; loaders' ctor, step and dtor callbacks, which call the asset API back |
| Asset system (`asset.cpp`, `asset_plugin.cpp`) | the two above, the registry | load, load_from_memory, build_asset, retain, release, cancel, borrow, force_unload_assets, drain_loads, shutdown | App (plugin callbacks), flecs (per-frame system) |
| Asset registry and I/O | types, loaders by extension; files through the VFS | register, find, read | VFS |
| Package loader (`package_loader.cpp`) | loaded packages, libraries, mounts | resolve, mount, load library, register, roll back, clean up | App, VFS, config, datalist |
| VFS (`vfs.cpp`) | stack of mounts | mount, unmount, open, list | file system |
| Config (`config.cpp`) | reference-counted tree of nodes | parse, get, set, merge, remove, release | JSON library |
| Launcher (`launcher/main.cpp`) | none | load packages, run, destroy app, clean up | package loader, App |
| Graphics runtime (`pulse_graphics/src/runtime`) | ring of frame slots, swapchains, upload queue, staging memory | prepare windows, record, execute, submit, present; queue and record uploads; shutdown | flecs, window, render graph, texture loaders, the GPU |
| Render graph (`pulse_graphics/rendergraph`) | resources, passes and edges of a frame; pools of GPU objects with their tracked states | declare, import, add passes and edges, compile (cull, lifetimes), execute (objects, barriers, commands) | record callbacks, the GPU |
| Window and input (`pulse_window`) | window components, resize tags | open, resize, minimise, request close, remove | SDL, graphics runtime |
| Data tables, prefab, font, shader, mesh, material | their loaders' states | loader callbacks | asset system |
| Renderer, text, imgui, transform, math, scripting glue | frame data | per-frame systems | flecs, drivers |

On the CPU the engine is single-threaded where these parts are concerned. What
makes them hard is *re-entrancy*: a build callback adds plugins to the list that
is being drained; a loader's step loads, builds or releases other assets while
the queue holds references into the containers these calls change; destroying
an asset destroys others in cascade. Added to that are failures half-way (one
build, one subapp, one package of several; a tree half parsed or half merged),
cancellation of loads in flight, a budget per frame, and index reuse with
generations.

Between CPU and GPU there is real concurrency: the GPU runs what was submitted
up to as many frames later as there are slots, and nothing but fences,
semaphores and barriers keeps the CPU from changing what it still uses. Windows
are resized, closed and refused images at any time in between, and texture
loads are cancelled while their data is queued.

### 1.2 What makes the parts correct

* **App**: a plugin is built after and shut down before everything it depends
  on, whatever the order of registration; names are unique; no accepted plugin
  is lost; state `Building` means exactly that a drain is under way; a running
  app is complete; teardown leaves nothing out; every call returns.
* **Storage**: the free list holds exactly the unused slots; the cache never
  answers with a dead handle; both directions of the dependency graph agree; a
  cascade destroys each slot once.
* **Load queue**: a loading asset has exactly one unfinished job, and an
  unfinished job has its asset; a cancelled load stays cancelled; draining
  leaves nothing; each load settles in the end although jobs share a budget.
* **References**: a pin is a reference of a client, own or through a dependent;
  a referenced asset stays, an unreferenced one goes.
* **Package loader and VFS**: packages are registered after what they depend
  on, whatever the order of the entries; an order is found whenever there is
  one; a failed load undoes its mounts; a library is open as long as the app or
  the script runtime may call into it, and closed in the end.
* **Config**: every node's count is the number of references to it, also half
  way through a parse or a merge that fails; no tree contains itself; nothing
  leaks; a merge is the deep merge and shares nothing with its arguments.
* **Render graph**: passes see what they would see if they ran one by one in
  the order of recording, without pools, aliasing or staging; nothing that is
  needed is culled; every barrier starts from the state the GPU is in, and
  there is one wherever two passes conflict.
* **Graphics runtime**: the CPU never reuses or destroys what submitted work
  refers to; semaphores have one use at a time; images return; a frame presents
  the images it holds, after its own work; an upload's completion flag lies in a
  loader state that is alive; nothing is sampled that was not uploaded; every
  upload is completed or cancelled.

`PROJECT.json` lists under `hazards` the lines where these can go wrong.

## 2. Modules

| Module | Models |
|---|---|
| `AssetStorage` | slots, free lists, cache, graph, cascading destruction |
| `LoadQueue` (extends `AssetStorage`) | jobs, callbacks, process, drain_pass, cancellation |
| `AssetSystem` (extends `LoadQueue`) | the requests of clients and loaders, references, forced unloading, shutdown; the specification and the properties |
| `MCAssetSystem` | instances: what loaders call from which callback |
| `AssetStorage_proofs` | what the operators of the asset system do to slots, queue and stacks; type correctness; the invariant of the asset system, and the steps of the storage and the queue that keep it |
| `AssetSystem_proofs` (extends it) | the remaining steps, and the theorems about the asset system |
| `AssetLoaded_proofs` (extends it) | the dependencies of loaded assets are loaded, proved |
| `App` | the application and its subapps |
| `MCApp` | instances: sets of dependency lists, symmetry |
| `App_proofs` | type correctness, dependency order, states, names, completeness and order of teardown of `App`, proved |
| `Packages` (instantiates `App`) | package loader, mount table, libraries, registration in an `App`, the host's order of running and cleaning up |
| `MCPackages` | an instance: three packages and their dependency lists |
| `Packages_proofs` (instantiates `App_proofs`) | types, libraries, sort and mounts of `Packages`, proved |
| `PackagesOrder_proofs` (extends it) | code stays loaded, packages are registered in order, proved |
| `Config` | the configuration tree |
| `MCConfig` | an instance: nodes, texts |
| `RenderGraph` (instantiates `PassStream`) | recording, compiling, executing a frame; the GPU; several frames of one slot |
| `PassStream` | the abstract specification a render graph implements |
| `MCRenderGraph` | an instance: what callers declare and import |
| `RenderGraph_proofs` | types, objects behind resources, layouts and synchronisation of `RenderGraph`, proved |
| `Frames` | the ring of frame slots, swapchains, texture uploads, the GPU's queue |
| `MCFrames` | its instance |
| `Frames_proofs` | the safety properties of `Frames`, proved |

Operators introduced by a comment `Mutant:` are faulty variants of the
operator that follows them. Nothing uses them; putting one in the place of the
operator must break the property that `PROJECT.json` names for it, which shows
that the property is able to fail.

### 2.1 AssetStorage

`slots[<<t, i>>]` is slot `i` of the bucket of type `t` with the fields the
properties need: generation, state, pin count, path, `constructed`, `retiring`
(`retiring_load_job`), dependencies and dependents. Slot 0, which is never
handed out, is left out. A handle is a record of type, index and generation,
and `Resolves` is `get_slot`. `size` and `free` are the vector's size and the
free list, last in first out.

`destroy_slot` and `detach_committed_dependencies` are mutually recursive. The
variable `unload` is their call stack: `DestroyEnter` is the part before the
loop over the dependencies, `DetachNext` one turn of it, possibly pushing a
nested call, and `DestroyDone` the reset of the slot together with the return
to `try_unload_slot`. No other action is enabled while the stack is not empty,
so the cascade is atomic for the clients but each of its steps can be looked at
(`NoReentrantDestroy`). The order of the dependencies in a slot is left open,
which allows every order the vector can have.

### 2.2 LoadQueue

A job has its phase, its outcome, `built` (`loader_constructed`) and its
required and optional dependencies. The code between two callbacks is one
action. `calls` is the stack of callbacks that are running, with `build`
entries for requests that wait for `process_immediate_builder`; `main` is the
loop at the bottom: idle, processing a frame, draining, cancelling, destroying.
`process` and `drain_pass` differ in their budget and in the progress flag and
share `LoopPick` and `LoopAfter`.

The source of bytes is abstracted: reading a file succeeds or fails, which
includes memory and builder sources (a builder cannot fail there, but its ctor
can, with the same effect). The ctor, the step (with its four statuses) and
the dtor return whenever they like, after any requests that `CallbackOps`
allows.

The code holds an `AssetSlot&` over a callback. If the callback makes the
bucket grow the reference dangles; the model then lets the state read through
it be anything and drops what is written through it (`dangling`). Section 3.3 says
what this does; in the runs `SameTypeNested` is FALSE: loaders request assets of
other types only, as the engine's own loaders do.

### 2.3 AssetSystem

`Load` covers `load` and `load_from_memory`, `Build` is `build_asset`. A
request that hits the cache or is refused changes nothing and is no step.
`held` is a history variable: the references clients own, which the code does
not record. A client releases only what it holds.

`ForceUnload` and `Shutdown` run as loops whose dtor callbacks may use the API.
`Shutdown` ends in `main.op = "down"`, a state in which the system may stay.

### 2.4 App

The methods of `App` call each other, subapps and callbacks. `stack` holds the
calls in progress: `add`, `drain`, `post`, `prepare`, `run`, `teardown`, each
with the place it has reached, and `result` is what the last one returned
(success or failure; the error codes are not distinguished). `ready` is the
local list of `drain_pending_plugins`, which exists besides `plugins` and
`pending`; `AppLost` and the failure of `NoFreedContext` (section 3) come from it. Client actions are enabled when
the stack is empty or, for `AddPlugin` and `InsertSubapp`, inside the build
callback of a plugin of that app.

History: `accepted` (the names whose caller takes the addition as done),
`posted` (how often post_build ran) and `freed` (the caller took `ctx` back, by
the rule of `docs/Package.md:600` which `pulse_add_asset_plugin` and its
siblings follow).

Subapps nest one level: a parent is not itself inside another app. An app is
handed over as a subapp only in state `Created`. `update` changes nothing but
its result, so the ECS world and the extract functions are not modelled.

### 2.5 Packages

`Packages` instantiates `App` for the loader's app and runs its steps inside
`load_packages`. `call` is the call in progress: its entries, `pending` (what
they resolved to), `order` (the sort), the mounts it made and the scripts it
owes. `Resolve` is one turn of the loop over the entries with all its error
returns; `SortEntry` is one turn of a sorting pass and `SortPass` the end of
one; `RegisterCall` opens the library and calls the register function, which
adds the package's plugin with the dependencies its manifest names;
`RegisterReturn` keeps or closes the library, registers its script runtimes, or
rolls back. Script packages wait for the native ones and are then injected and
entered (`Inject`, `InjectEntry`). A failure that happens in file or library
code outside the repository (a manifest that cannot be read, a library that
does not open or lacks the symbol) is a free choice.

The mount table is the set `mounts` of directories mounted at `/`; mounting
one twice changes nothing, as PhysicsFS does it. A composite package's plugin
adds another plugin while it is built (`BuildAdds`), whose code is in the same
library. The host is the launcher: it adds the VFS plugin, loads (up to
`MaxLoads` times), runs the app or not, destroys it and cleans up.

History: `code` (whose library a plugin's code is in), `kept` (the mounts that
should be there between calls) and `registered` (in which order).

### 2.6 Config

A node has `kind`, `val` or `kids`, and `refs`. `held` counts what callers own.
The recursive functions `json_to_node`, `copy_node` and `merge_nodes` are
modelled as the stack `frames`: the first two share `op = "copy"`, one reading
documents and the other nodes. `releases` is the work `release_node` still has
to do when a node dies. Thus every intermediate state of a parse or merge that
fails at `kMaxDepth` is a state of the model, and the counts have to be exact
there too. Callers reach nodes through what they hold, as the getters allow
(`Accessible`). The JSON grammar is the vendored library: a text is its value.

### 2.7 RenderGraph and PassStream

The model goes through the phases of one frame slot: `record` (callers'
declarations, imports, passes, edges, uploads, mipmaps, the present pass),
`compile` (the culling stack of `rendergraph_compiler.cpp`, one node a step),
`execute` (one pass a step: devirtualize what begins, place barriers, record
the command, give back what ends), and `gpu`, in which the commands run; then
the fence has passed and the slot's next frame begins with the pools as they
are. `pool`, `made` and `tracked` are the CPU's view of the objects; `layout`,
`content` and `access` what is true on the GPU. The two views are independent:
a barrier carries the source state that the CPU believes in, and `LayoutsRight`
compares it with the GPU's.

`PassStream` is what callers may rely on: the passes run in order, each sees
what the last one before it wrote, an upload brings its own data, and only what
nothing outside depends on may be left out. `RenderGraph` implements it
(`ImplementsStream`) under the mapping `Stream`: the recorded passes by the
locations they touch, `kept` the passes that were not culled, and what each
pass saw on the GPU. Objects that are aliased too early, staging memory that is
overwritten before the GPU has read it, or a pass culled wrongly all show up as
a step of `RenderGraph` that is none of `PassStream`.

### 2.8 Frames

`stage` is the system the ECS runs next, `slot` the slot of the frame. A frame
waits for the fence of its slot, ensures and acquires a swapchain image per
window, records (the upload callback first, then passes that sample loaded
textures), executes, submits, presents. `gpu` is the queue: batches and
presents in order, with the semaphores they wait for and signal; `GpuStep`
finishes the first. Here the graph of a frame is only the set of its uploads
and the set of what it samples.

Windows change between frames: `SetSize` with the observer that releases the
swapchain, `EditSize` without, close requests, removal, and opening. The
driver decides how many images it gives, refuses to make a swapchain or an
image. Before it asks for an image, `acquire_window_image` sets the index of the
swapchain to UINT32_MAX (`window.cpp:402`; `NoImage`, which is -1 here, since TLC
has no number as large); a driver that refuses is assumed to leave it so
(`AcquireRefused`). A live swapchain thus has an index in range or `NoImage`
(`TypeOK`), and it is the business of `PresentsReady` that the latter is never
used: a refused window is in no frame (part of `SwapchainsSafe`). Textures go through the loader's steps: `FirstStep` queues the data,
`RecordGraph` takes it off the queue and sets the flag in the loader's state,
`LastStep` sees it; meanwhile the texture may be released and its load
cancelled, and its slot used again under the next generation.

## 3. Runs

### 3.1 What each run checks

| Run | Question | States |
|---|---|---|
| `AssetLifecycle` | Do storage, cache, graph and jobs stay consistent when loaders use the whole API, clients retain early, types are unloaded by force and the system shuts down? | 386 000 |
| `AssetReferences` | Are pins exactly the references, and do references decide who stays, when clients retain loaded assets only and nothing is forced? | 213 000 |
| `AssetPaths` | One type, two slots, two paths, two generations: are slots and cache entries reused correctly? | 145 000 |
| `AssetLiveness` | Does every load settle with a budget of one job per frame, and does `drain_loads` stop only when it can do no more? | 29 000 |
| `AppPlugins` | Three plugins with arbitrary dependency lists in one app, builds that add and fail | 95 000 |
| `AppSubapps` | Two apps, one possibly inside the other, two plugins: do parent and subapp fit together, does every call return, and does `run` end in `Shutdown`? | 240 000 |
| `Packages` | Three packages, two calls of `load_packages` each step of which may fail, a host that runs, destroys and cleans up: are libraries, mounts and order right, and does every call return? | 331 000 |
| `Config` | Shared trees that are parsed, changed and merged, with nesting that is too deep: are counts exact at every moment, and is a merge what it should be? | 472 000 |
| `Graph` | Several frames of up to four passes and four edges: does the GPU do what the callbacks recorded, whatever is culled, aliased, reused or uploaded? | 827 000 |
| `Frames` | One window, one texture, two slots, two or three images: is everything safe that a GPU some frames behind still uses, can every frame be presented as it was prepared, and do uploads complete? | 712 000 |

The properties that are not named after one idea of section 1.2:

* `JobsMatch`: a loading asset has a job (`LoadHasJob`), an unfinished job has
  its asset (`JobHasAsset`), and nobody has a pin on an asset marked for
  deletion, so it cannot come back (`PendingDeleteUnpinned`).
* `StorageExact`: the free list holds exactly the unused slots, and the cache
  names live assets of that path.
* `Consistent`: names are unique, `Building` means a drain is under way, and a
  running app with its subapps is complete and has nothing pending.
* `ShutdownCorrect`: a plugin is shut down after those that depend on it and
  after the subapps (`ShutdownOrder`), and a finished teardown leaves none out
  (`ShutdownComplete`).
* `LibrariesRight`: no plugin that may still be called, and no script runtime,
  has its library closed; in the end no library is open.
* `RegisteredInOrder`: dependencies are registered first, over both calls;
  script entries run after all native packages and see all files of the call.
* `SortExact`: the passes find an order if and only if there is one, and report
  a cycle only where packages wait for each other.
* `TreesExact`: `RefsExact` and `Acyclic`. `MergeCorrect`: the merge shares no
  node with anything (`MergeFresh`), and at every path it has what the
  overrides, else the defaults, have (`MergeValues`, a definition by paths that
  does not follow the recursion of the code).
* `SwapchainsSafe`: a semaphore is not given out again while a use of it is
  pending (`SemaphoresOnce`), and images go back (`ImagesReturned`); and a frame
  can be presented as it was prepared (`PresentsReady`): its windows hold the
  image their index names until they are presented (`PreparedHeld`), and its
  work signals exactly what its presents wait for (`PresentsSignalled`).

### 3.2 Bounds

Runs of the asset system have two types with one slot each (a slot each is
enough for a dependency, a cascade and a cycle), at most one dependency per
list, at most two references per client and asset, and nested callbacks up to
depth 3. `GenerationModulus` is 8 in place of 2^32; `SystemAssumption` has
`MaxGeneration + 1 < GenerationModulus`, so runs and proofs are about handles
whose slot has not been reused 2^32 - 1 times. The interesting histories are short: a cascade needs a
dependent and a dependency; a race of a release with a job needs one asset; a
stale cache entry needs a second generation or a second slot (`AssetPaths`). A
failing pass of the app with something left to lose needs three plugins. The
runs with two generations are separate from those with two types because
together they exceed what a run can visit.

`Packages` has a package of each kind: a native one with assets whose library
is the script runtime, a native one that is also linked into the host and whose
manifest has a name of its own, and a script package. Every dependency list
from a set of four makes cycles, missing packages, dependencies by entry name
and by manifest name. Two calls suffice for a dependency on an earlier call and
for a failure after a success.

`Config` has eleven addresses, `MaxDepth` 2 in place of 64, one key, and two
texts, one of which is too deep by one level at its last scalar. `MaxLive` and
`MaxMerge` limit the nodes when a call begins, so no call runs out of
addresses; one merge per run is enough since its result is a fresh tree. With one
key an object has one member, so merges meet no siblings in this run. A larger
instance (keys `b` and `c`, the one text `{"b": leaf, "c": other}`, eighteen
addresses, `MaxMerge` 4; 1.5 million states), where merges find members that
both sides have beside members of one side, satisfies the same invariants.

`Graph` has two mip levels, four objects, pools that keep objects one frame,
and four setups: a managed texture beside a mipmapped import, two managed
textures that can share an object, depth beside the window's image, managed and
imported buffers. `MaxEdges` counts the edges over all frames; four of them
make write-read chains of two passes, a read after an alias, an upload and a
present, and leave frames in which a pool object is used again or destroyed.

`Frames` has two slots and swapchains of two or three images, so that slot and
image do not go in step; two swapchains of a window and two generations of a
texture are enough for anything stale to be mistaken for what is new. A larger
instance (two windows, `Sizes = {0, 1}`, `Images = {2}`, one swapchain each;
1.8 million states) satisfies the same invariants. `FramesAssumption` asks for
at least as many images as slots: with fewer, two slots would share an acquire
semaphore, since the code takes it by the slot modulo the images; and for
`MaxChains` of at least 1, a window being created with its first swapchain.

Two types make no chain of three assets, which `LoadedDependencies` and
`PinsAccounted` can tell apart (section 3.3, `dtor` that builds).
`AssetReferences` therefore leaves that pair out of `CallbackOps`, and an
instance with three types in a chain, a slot each, references up to 1 and calls
up to depth 4 (builds, releases, retains and loads from steps, the last three
also from destructors; 11 thousand states) satisfies its properties too.

`AssetLifecycle` and `AssetReferences` let assets have *required* dependencies
only, `AppPlugins` and `AppSubapps` set `AddWhileReady` to FALSE, `Packages` sets
`BuildsFail` and `Reload` to FALSE, `Graph` sets `MultiTarget` and
`StorageRepeats` to FALSE, and `AssetReferences` excludes early retains and
forced unloading, because with them properties do not hold: see the next
section. `AssetLifecycle` includes early retains and forced unloading.

### 3.3 Where the code differs from what is said about it

Two runs check one property each that a document of the repository states, and
TLC finds a counterexample. `PROJECT.json` quotes the lines.

| Run | What TLC finds |
|---|---|
| `AssetEarlyRetain` | retain while loading pins no dependency, but each release unpins them: a held dependency is destroyed |
| `AppLost` | a failed build drops the rest of the ready list, plugins whose addition had succeeded |

Further limits of the code, each shown by a small change to the constants or
the properties of a run:

| Change | What then fails, and why |
|---|---|
| `AssetLifecycle`, `Requirements = {"optional"}`, `CallbackOps <- NoOps` | `JobsMatch` and `NoReentrantDestroy`: `try_unload_slot` destroys a slot whose job is still queued (`asset_storage.cpp:362`), and `destroy_slot` runs into itself along a cycle of optional dependencies |
| `AssetLifecycle`, `CallbackOps <- CtorReleases` | `CancelIsFinal`: a load cancelled by its own ctor comes back as PROCESSING (`asset_loading.cpp:293`) |
| `AssetLifecycle`, `SameTypeNested = TRUE`, `CallbackOps <- OnlyLoads` | `JobsMatch`: the bucket grows during a step and the LOADED state is lost with the old reference (`asset_loading.cpp:365`) |
| `AssetReferences`, three types in a chain, `CallbackOps` with `<<"dtor", "release">>` and `<<"dtor", "build">>`, `MaxCalls = 4` | `LoadedDependencies` and, with `<<"dtor", "retain">>`, `PinsAccounted`: the loader of a loaded asset A, being destroyed, builds B on A and C on B and releases B and A; the pins of C reach only B, so A is marked for deletion while a loaded asset depends on it (`asset.cpp`'s release looks at `retiring_load_job` and the pin, not at dependents), and a retain of B passes A by |
| `AssetReferences`, `ForcedTypes = {ta}` | `UnreferencedGoes`: `force_destroy_assets` does not give back the pins on the dependencies of what it destroys |
| `AppPlugins`, checking `NoFreedContext` | a plugin whose caller freed its context after a failure of another plugin is built later (`app_impl.cpp:180`) |
| `AppPlugins`, `AddWhileReady = TRUE` | `Consistent` (`NamesUnique`): `validate_plugin` does not see the ready list of the running drain |
| `Packages`, `Reload = TRUE` | `MountsExact`: a package named again while its assets are mounted does not find its manifest, and `resolve_package` takes the mount away (`package_loader.cpp:189-196`), other than `docs/Package.md:89` says of assets packages |
| `Packages`, `BuildsFail = TRUE` | `LibrariesRight`: when the register function fails after it added its plugin, the plugin stays in the app and the library is closed (`package_loader.cpp:603-606`), against the order `docs/Package.md:91` asks for |
| `Packages`, `Scripts = {"p", "s"}`, `Runtimes = {"p", "q"}` | `RegisteredInOrder`: a script package that has a library too is registered with the native packages, before the script packages it depends on (`package_loader.cpp:579-610`) |
| `Graph`, `StorageRepeats = TRUE` | `Synchronised`: two passes that read-write one buffer have no barrier between them, since the state does not change (`rendergraph_executor.cpp:122`); `docs/架构目标.md:182` promises automatic barriers |
| `Graph`, `MultiTarget = TRUE` | `ResourcesBound`: a managed target that nobody reads, of a pass that is kept for its other outputs, is culled and gets no object, but the executor dereferences it (`rendergraph_executor.cpp:17-20, 59-63`) |

And limits that are visible in the code but not in a run:

* `drain_loads` ends after a pass in which no job changed its phase, so a loader
  that answers PENDING twice is not waited for, other than the comment at
  `asset_plugin.cpp:135` suggests; `DrainCompletes` states what does hold.
* `add_plugin` builds as soon as all dependencies are known, not only in
  `prepare` as `docs/Package.md:291` says, and the plugins of a subapp are
  post-built twice, by the parent's `post_build` and by their own `prepare`.
* A missing and a circular dependency are told apart by the entries of the call
  only (`package_loader.cpp:545-551`): in a call with both, the order of the
  entries decides which is reported.
* `pulse_render_graph_reset` clears the dummy resource of index 0 that a handle
  of 0 stands for (`rendergraph.cpp:104`); some functions keep references to
  resources while they push new ones, which is safe below the estimates that
  `systems.cpp:108-112` reserves; an import's `dynamic_handle` is forgotten only
  when the graph was executed (`systems.cpp:297-306`).
* The depth limit of `Config` holds for texts and merges; trees that callers
  build with `set_obj` can be deeper, and then cannot be merged.
* A texture whose load fails after `init_texture` keeps its GPU texture
  (`create_texture.cpp:66-72`); a released texture is freed at once although
  frames in flight may sample it (`assets/texture.cpp:6-10`), and pools of views
  are keyed by its address.
* Uploads wait as long as no window is prepared. Their completion flag is set
  when they are recorded, a frame or more before the GPU has copied the data
  (`docs/自定义资产asset开发指南.md:200` speaks of waiting for the GPU); what a
  frame samples is still ordered behind the upload in the queue, which is what
  `UploadedFirst` says.

### 3.4 Fairness

`AssetSystem!FairSpec` assumes that running code goes on (`WF` of `Internal`:
the thread is not suspended inside the engine), that the application keeps
updating (`SF` of `Process`: the ECS runs the process system every frame; the
action is disabled again and again by other requests, hence strong), and that a
loader that is stepped again and again finishes in the end (`SF` of
`StepFinishes` per slot: a loader that stays PENDING for ever is a fault of that
loader). Nothing is assumed of clients. `AssetLiveness` lets assets of the
first type depend on the second only: required dependencies declared in a cycle
wait for each other for ever in this code.

`App!FairSpec` is weak fairness of the calls in progress, so callbacks and the
runner return. `Packages!FairSpec` is the same for the call of `load_packages`
and the app's calls inside it; nothing is assumed of the host.

`Frames!FairSpec` assumes that the main loop goes on (`WF` of `FrameStep`), that
the GPU finishes what it was given (`WF` of `GpuStep`), and that the asset
system steps each loading texture again and again (`SF` of `LastStep`, which is
enabled only between two frames). Windows, clients and the driver's refusals
are free; `UploadsSettle` therefore has the premise that frames are recorded
again and again, since without a window nothing is uploaded.

`RenderGraph` and `Config` state safety only.

## 4. Proofs

All theorems hold for every value of the constants that the assumptions of the
modules admit: any sets of apps, types, windows or textures, any bounds. Where a
theorem has a further hypothesis it is the one under which TLC finds the property
true, and section 3.3 has what happens without it.

### 4.1 App

`App_proofs` proves from `AppAssumption` only:

* `TypeCorrect`: `Spec => []TypeOK`. `TypeOK` is inductive by itself; the
  lemmas `GoesType`, `CallsType` and `ReturnsType` say that each way in which
  a call moves on keeps the stack well typed, and there is one lemma per group
  of actions.
* `DependenciesCorrect`: `Spec => []DependenciesFirst`. The property is not
  inductive: `BuildCall` appends a plugin because it was found satisfied
  *earlier*, when it moved to the ready list. The invariant `OrderInv` adds
  `ReadySatisfied` (what is in a ready list has its dependencies registered)
  and `DrainInv` (at most one drain, at the top of the stack, its app in state
  Building; no other call has a ready list). The delicate action is the failure
  of a build, which takes the last plugin away: it is sound because the last
  plugin has none behind it, and because the ready list that might have relied
  on it is dropped in the same step.

The second half of the module adds the invariant `LifeInv`, which says what the calls in
progress know of the apps:

* `ShapeInv`: how calls nest. There is a *rank* of the apps in which subapps are
  below their parents and calls of different apps go down (`NestedInv`); each
  call is at the place where it makes the call above it (`LinkInv`); and an app
  is brought up or down only from inside its owner's call (`OwnerInv`).
* `CallInv`: what holds at each place of a call (`Steady`: which plugins are
  post-built, which subapps run or are down, what the queue is), and what the
  innermost call finds when the one it made has returned (`Arrived`).
* `TreeInv` and `PluginInv`: what the states of an app, its parent, its
  subapps, its queue and its plugins have to do with each other.

From it follow, without conditions, `BuildingCorrect` (`BuildingIffDraining`),
`RunningCorrect` (`RunningReady`) and `ShutdownFull` (`ShutdownComplete`).
`ConsistentCorrect` and `ShutdownInOrder`, which state `Consistent` and
`ShutdownCorrect`, need unique names. Their invariant `NamesInv` (names of
plugins, queue and ready list are distinct) is inductive if no build adds a
plugin that waits in the running drain (`~AddWhileReady`): `validate_plugin`
looks into the plugins and the queue but not into the ready list, so without the
hypothesis a name can be registered twice.

### 4.2 Frames

`Frames_proofs` proves `TypeCorrect` and the four invariants of the run,
`SlotsFreeWhileUsed` (`NothingReusedInUse`), `DriverServed` (`SwapchainsSafe`),
`UploadFlagsAlive` (`FlagsAlive`) and `SampledIsUploaded` (`UploadedFirst`), all
of which follow from one inductive invariant, `IInv`:

* `WindowInv`: what the frame holds at each stage, each window being prepared
  once (`FrameInv`, `PreparedInv`); windows that can be given no further swapchain
  within the bound need none (`ChainInv`); and exactly the images of prepared
  windows are held between acquire and present, each under the index of its
  swapchain (`HeldInv`). A refusal clears the index of a window that is not
  prepared, hence without an image that is held.
* `DriverInv`: whose semaphores the frame and the batches in the queue use
  (`FrameSemaphores`, `PresentsSignalled`, `QueueSemaphores`); that the queue holds the batches of the
  slots behind the current one in their order (`QueueOrder`); and that the
  current slot has none once its fence was waited for (`SlotFree`). This is the
  heart: a slot, its acquire semaphore and its staging memory are free to use
  because the only batch that might use them was the oldest of the queue.
* `TextureInv`: an upload is in one place at a time and its flag unset while its
  texture is being loaded (`AssetInv`, `PendingInv`), and whatever is loaded or
  sampled has been uploaded by an earlier batch, or by this one before it is
  sampled (`UploadInv`).

### 4.3 Asset system

`AssetStorage_proofs!TypeCorrect` is `Spec => []TypeOK`, inductive by itself and
without hypotheses. Its lemmas also say, operator by operator, what a write to
the slots changes and what it leaves alone (`ReleaseFacts`, `CommitFacts`, ...):
every later proof cites these and never opens the operators.

`AssetSystem_proofs!AssetCorrect` is the invariant `AssetInv`:

* `StorageInv`: the nested `destroy_slot` calls are about existing assets that
  nothing depends on (`UnloadInv`); both directions of the graph agree *except*
  for the edges that a call in progress is detaching (`GraphInv`); there is an
  acyclic order of the slots that contains all dependencies *and* the nesting of
  the calls (`OrderInv`), which is why a cascade never meets itself; the free
  list, the cache and the generations are right (`FreeInv`, `CacheInv`,
  `GenerationInv`).
* `JobInv`: one job for an asset; the asset of an unfinished job exists, is not
  being destroyed, is loading or marked for deletion, and has no edges in the
  graph yet.
* `PinInv`, `StateInv`: what is marked has no pin; what is loading has a job;
  what is being retired has a `dtor` callback running; and every asset has a
  pin, a dependent, a job or a `destroy_slot` call in progress.
* `MainInv`, `CallInv`: callbacks run only below loops that may run them; each is
  about a job that is in the queue, unfinished if its loader is being stepped;
  and two callbacks about one asset are a build request and, above it, its job.

From `AssetInv` follow `GraphCorrect` (`GraphSymmetric`), `StorageCorrect`
(`StorageExact`), `JobsCorrect` (`JobsMatch`), `NothingLeft` (`NothingLeaked`) and
`DestroyedOnce` (`NoReentrantDestroy`). Two hypotheses are needed:
`Requirements \subseteq {"required"}`, because an optional dependency may be
committed while it is loading, with the consequences section 3.3 shows; and
`~SameTypeNested`, because through a dangling reference the writes of
`process_processing` are lost.

`CancelFinal` is the action property `CancelIsFinal`. It needs that an asset whose
constructor is running is still LOADING (`CtorInv`), since the code writes
PROCESSING over whatever the state is then; so constructors must neither release
nor build (a build runs other callbacks above the constructor), which is its
third hypothesis. `CtorInv` says that a constructor is always the innermost
callback and that nothing is being destroyed meanwhile.

`AssetLoaded_proofs!LoadedCorrect` states `LoadedDependencies`. Its invariant
`WorkInv` says, on top of `AssetInv`, who attends to a finished job (`StackInv`,
`DoneInv`), that nothing depends on an asset that still has a job (`FreshInv`),
and that the dependencies of a loaded asset are loaded while a cascade goes on,
too (`LoadedInv`). A loaded asset whose job is still being retired can be marked
for deletion, but has no dependents yet. A destroy callback that builds could
give it some, hence the third hypothesis: section 3.3 has the counterexample.

### 4.4 Package loader

`Packages` runs `App` by instance. The step of the loader that adds a plugin, and
the ones of its host that run or destroy the app, are steps of `App`, which is
the theorem `AppUsed`: `Spec => AP!Spec`, where `AP` is `App_proofs` with one app
and the names the packages may bring. What 4.1 proves about any client thus
holds of the app that `load_packages` fills, and the proofs below cite it.

`Packages_proofs` has the part that needs little of the app:

* `TypeCorrect`, without hypotheses.
* `LibrariesClosedCorrect`, without hypotheses, from `LoadInv`: a library was
  opened as often as it stands in the list of handles, and once more while a
  register function in it runs (`LibsInv`).
* `SortCorrect`: `Spec => SortExact`, without hypotheses. A pass that adds
  nothing to the order leaves a set of entries each of which needs another of
  them; a set of such entries never gets into the order (`SortInv`).
* `MountsCorrect`: `MountsExact`, from `MountInv`: what is mounted is what was
  kept and what the call in progress has mounted itself. It needs that packages
  are loaded once (`~Reload`, section 3.3), and that the host mounts neither the
  search roots nor the directories of packages (`DirectoriesApart`): `mount`
  does not count, so the loader's unmount would take the host's mount away.

`PackagesOrder_proofs` is about the app and the loader together:

* `LibrariesCorrect`: `LibrariesRight`, that is, no plugin that waits or is built
  outlives its code. `RegInv` says what a register function finds: the plugins of
  the packages before it are built (`PassedInv`), and whatever waits in the
  app's queue has its dependencies built (`QueueInv`), so a drain leaves nothing
  behind and succeeds (`AddingInv`). So no register function that adds a plugin
  fails, and the library of every plugin the app knows is kept, or is the one that
  is entered (`CodeInv`). At the end, the app is destroyed before the libraries are closed (`EndInv`). The
  hypotheses are that builds succeed (`~BuildsFail`: section 3.3 shows the library
  closed under a plugin otherwise) and that names tell packages apart
  (`NamesApart`).
* `OrderCorrect`: `RegisteredInOrder`. `KnownInv` says that the package of a plugin
  the app knows is registered or about to be, and `ScriptInv` where the script
  packages of the call are, and that they come in the order of their
  dependencies. It needs all of the above, and that no script package has a
  library of its own (`ScriptsPlain`), which would be registered too early.

The instance `Packages` of section 3 meets all of these hypotheses, so TLC has
checked the same statements on it.

### 4.5 Render graph

`RenderGraph_proofs` proves the four invariants of the run:

* `TypeCorrect` and `LayoutsCorrect` (`TypeOK`, `LayoutsRight`) without any
  hypothesis;
* `ResourcesBoundCorrect` (`ResourcesBound`) under `~MultiTarget`;
* `SynchronisedCorrect` (`Synchronised`) under `~StorageRepeats`.

Section 3.3 has the counterexamples without these hypotheses. The invariant has
the following parts; the first three make `GraphInv` and are all that
`ResourcesBound` needs.

* `RecordInv`: resources and passes are well typed, a pass names resources that
  there are, and unless `MultiTarget`, a managed resource that a pass writes is
  read by it too or is the only thing it writes (`WritesOK`).
* `CullInv`: while the compiler works, the count of a node is the number of nodes
  behind it that it has not taken away (`Wanting`), and what waits on its stack
  is unwanted and waits once. So what an executed pass needs is wanted by the
  pass, and lives (`NeededLives`).
* `BoundInv`: a resource that lives has an object from its first pass on.
* `ShapeInv`: the edges of a pass name locations apart from each other, except
  that a buffer may be read and written, and a depth buffer has an edge without
  a state (`PassShape`); every reading edge has a usage for reading, every writing
  one a usage for writing.
* `PoolInv`: the resources that still have passes before them share no object,
  with each other or with the pool, and every object in use was made.
* `TrackInv`: what the executor tracks is well typed, and where
  `states_consistent` is set all the subresources of a texture agree.
* `OrderInv`: the recorded commands are those of passes in order, none of them
  run yet; each has its barriers only where it uses something, uses only objects
  that were made, and places a barrier wherever it writes, unless it
  read-writes a buffer (`CommandOK`).
* `LayoutInv`: for every subresource there is a *trace* of states, from the one it
  has on the GPU now, through what each recorded command does to it
  (`Explains`), to the one the executor believes it is in, unless the executor
  knows nothing (`TraceOf`). This is what relates the state tracked while recording
  to the layouts later: recording a pass makes the trace one longer, and the GPU
  takes its first step.
* `AccessInv`: what the GPU last wrote is in a state for writing, what it last
  read in one for reading. So a pass that finds its subresource in the right
  state, and places no barrier, reads what was read before; the read-writing
  of a buffer in storage state is the exception, hence `~StorageRepeats`.
* `IdleInv`: what a phase has not come to yet is empty.

`PlaceBarriers` is a fold over the edges of a pass. The community modules define
a fold by a function that is chosen, so the proof shows first that such a function
exists (`FoldingExists`), reads off it the states after each edge (`Stages`), and
carries `StageOK` from one to the next: what the first `i` edges are about is in the
state they ask for, by one barrier from the state before the pass or because it
was. `PassApart` says why a later edge of the pass undoes nothing.

Induction over numbers is done by taking the least element of a set of
counterexamples (`Least`), which needs no theorem with an operator as parameter.

### 4.6 What stays with TLC

* The liveness properties: liveness and `ENABLED` are out of the prover's reach.
* `DrainCompletes`, which is about all jobs that a pass of the queue has visited.
* `PinsAccounted`, `UnreferencedGoes` and `HeldAssetsStay`, where a pin is a *sum*
  over the dependents.
* The invariants of `Config` (recursion over trees), and the refinement of
  `PassStream`.

## 5. Not modelled

* Contents of assets, settings, error texts, the version counter, reflection,
  ECS data, timing, device and surface creation, and the text parsers
  (JSON, datalist): their correctness is about characters and formats.
* `build_sync`, and `force_unload_assets` from inside a loader callback (the
  job that runs is freed, what follows is undefined).
* `set_runner`, `set_subapp_extract`, `finish` and the search that words a
  dependency cycle: they change no modelled state.
* Insertion of a subapp while its parent iterates over its subapps, and a
  callback of one app acting on another.
* Wrap-around of generations.
* Memory exhaustion: allocations succeed, but the copy of the settings may fail.
* VFS operations on files; the search for libraries; names that differ in case.
* Render graph: draw calls and descriptor sets, views and framebuffers, compute
  passes that only read, array slices, subresources of managed textures (they
  have no edge to their parent), pass data.
* Frames: buffers and meshes (they use the same queue as textures), the failed
  path of `ensure_frame_graph`, and a window that is resized from inside a
  record callback.
* The renderer, text, imgui, transform, input and scripting parts copy data
  once a frame or compute with floating-point numbers: there is little control
  to model. Data tables, prefab and font are loaders of the asset system; how a
  loader may use the API is what the callbacks of `LoadQueue` cover.

The vendored libraries, which make up most of the repository's lines (ktx and
basisu, daslang, flecs, JSON, imgui, freetype and others), are outside of the
project.

## 6. Plan

What is left is to prove, in this order:

1. `AssetSystem`: `PinsAccounted`.
2. `Config`: `TypeOK`.
