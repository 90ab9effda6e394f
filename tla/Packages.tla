------------------------------ MODULE Packages ------------------------------
(***************************************************************************)
(* The package loader (pulse_package_loader/src/package_loader.cpp) at work *)
(* between the virtual file system (pulse_vfs/src/vfs.cpp), the dynamic     *)
(* libraries of the system and the App, under a host such as the launcher   *)
(* (launcher/main.cpp).                                                     *)
(*                                                                          *)
(* A call of load_packages finds and mounts the packages, sorts them by     *)
(* their dependencies, opens their libraries and calls the register         *)
(* functions, which add plugins to the App: App is instantiated, and its    *)
(* steps run inside the call.  Then the script files are handed to the      *)
(* script runtimes, and the mounts that were made for the call are undone.  *)
(***************************************************************************)
EXTENDS Integers, FiniteSets, Sequences, SequencesExt

CONSTANTS
    TheApp,       \* the App the loader was created for
    VfsPlugin,    \* "pulse_vfs"
    None,         \* no package, no name
    Packages,     \* the packages, by the name and directory an entry finds them with
    ManifestName, \* the names in the manifests, which the plugins bear too
    Assets,       \* the packages whose manifest says "assets": true
    Scripts,      \* the packages whose type is not "native"
    Runtimes,     \* the packages whose library provides the script runtime
    Composites,   \* the packages whose plugin adds SubPlugin while it is built
    SubPlugin,    \* a plugin that only the build of another one adds
    OnDisk,       \* the packages found below a search root
    Statics,      \* the packages registered as static packages
    DepLists,     \* the dependency lists of manifests
    Roots,        \* the search roots
    HostDirs,     \* the directories that the host mounts for itself
    BuildsFail,   \* whether build callbacks may fail
    Reload,       \* whether an entry may name a package that was listed before
    MaxLoads,     \* bound: the calls of load_packages
    MaxEntries    \* bound: the entries of a call

Names == {VfsPlugin, SubPlugin} \cup {ManifestName[p] : p \in Packages}

ASSUME PackagesAssumption ==
    /\ ManifestName \in [Packages -> STRING]
    /\ None \notin Packages \cup Names
    /\ Assets \cup Scripts \cup Runtimes \cup Composites \cup OnDisk \cup Statics \subseteq Packages
    /\ DepLists \subseteq SUBSET (Names \cup Packages)
    /\ BuildsFail \in BOOLEAN /\ Reload \in BOOLEAN
    /\ MaxLoads \in Nat /\ MaxEntries \in Nat

VARIABLES state, plugins, pending, subapps, stack, result, accepted  \* App

VARIABLES
    deps,      \* the dependencies in the manifest of every package
    mounts,    \* the directories mounted at "/"
    libs,      \* how often each package's library is open
    handles,   \* library_handles: the packages whose library stays open
    runtime,   \* script_runtimes: the package that provides the script runtime
    call,      \* the call of load_packages in progress
    loads,     \* counts the calls of load_packages
    host,      \* how far the host is
    returned,  \* what load_packages returned last
    listed,    \* history: the packages that entries have named
    code,      \* history: the package whose library a plugin's code is in
    kept,      \* history: the mounts that should be there between two calls
    registered \* history: the packages whose registration returned OK, in order

appVars == <<state, plugins, pending, subapps, stack, result, accepted>>
loaderVars == <<deps, mounts, libs, handles, runtime, call, loads, host, returned,
                listed, code, kept, registered>>
vars == <<appVars, loaderVars>>

A == INSTANCE App WITH Apps <- {TheApp}, Dependencies <- SUBSET Names,
                       AddWhileReady <- FALSE

\* ResolvedPackage; name is None where the manifest was not read.
Resolved == [pkg: Packages, name: Names \cup {None}, deps: SUBSET (Names \cup Packages),
             script: BOOLEAN, library: BOOLEAN]

Idle == [at |-> "idle", entries |-> <<>>, index |-> 1, pending |-> <<>>, mounted |-> {},
         order |-> <<>>, progress |-> FALSE, scripts |-> <<>>, outcome |-> "none",
         injected |-> {}]

Results == {"OK", "INVALID_STATE", "INVALID_ARGUMENT", "LIBRARY_NOT_FOUND", "ENTRY_NOT_FOUND",
            "REGISTER_FAILED", "DUPLICATE_PACKAGE", "MISSING_DEPENDENCY",
            "CIRCULAR_DEPENDENCY", "UNKNOWN_RUNTIME"}

TypeOK ==
    /\ A!TypeOK
    /\ deps \in [Packages -> DepLists]
    /\ mounts \subseteq Packages \cup Roots \cup HostDirs
    /\ libs \in [Packages -> Nat]
    /\ handles \in Seq(Packages)
    /\ runtime \in Packages \cup {None}
    /\ call.at \in {"idle", "resolve", "order", "register", "adding", "inject", "entries"}
    /\ call.entries \in Seq(Packages) /\ call.index \in 1..Len(call.entries) + 1
    /\ call.pending \in Seq(Resolved) /\ call.mounted \subseteq Packages
    /\ call.order \in Seq(DOMAIN call.entries) /\ call.scripts \in Seq(Packages)
    /\ call.injected \subseteq Packages \cup Roots \cup HostDirs
    /\ loads \in 0..MaxLoads
    /\ host \in {"up", "run", "destroy", "done"}
    /\ returned \in Results
    /\ listed \subseteq Packages /\ code \in [Names -> Packages \cup {None}]
    /\ kept \subseteq Packages \cup Roots \cup HostDirs
    /\ registered \in Seq(Packages)

Init ==
    /\ A!Init
    /\ deps \in {f \in [Packages -> DepLists] : \A p \in Packages \ OnDisk : f[p] = {}}
    /\ mounts = {}
    /\ libs = [p \in Packages |-> 0]
    /\ handles = <<>>
    /\ runtime = None
    /\ call = Idle
    /\ loads = 0
    /\ host = "up"
    /\ returned = "OK"
    /\ listed = {} /\ code = [n \in Names |-> None]
    /\ kept = {}
    /\ registered = <<>>

HasPlugin(n) == n \in A!NamesOf(plugins[TheApp])
Quiet == stack = <<>>
At(at) == call.at = at

NameOf(r) == {r.pkg} \cup ({r.name} \ {None})

\* The call returns r and leaves the directories ds mounted.
Returns(r, ds) == call' = Idle /\ returned' = r /\ mounts' = ds

\* Mutant: a failed call leaves its directories mounted.
FailMounted(r) == Returns(r, mounts)

\* fail(): the directories mounted for this call are unmounted.
Fail(r) == Returns(r, mounts \ call.mounted)

-----------------------------------------------------------------------------
(* Finding the packages                                                     *)

\* The entries of a call.  A host that does not reload lists a package once.
Listings == {es \in SeqOf(Packages, MaxEntries) \ {<<>>} :
               Reload \/ (IsInjective(es) /\ Range(es) \cap listed = {})}

\* load_packages.  locate_packages mounts and unmounts every search root: what
\* the host had mounted from there goes too.
LoadPackages(es) ==
    /\ host = "up" /\ Quiet /\ At("idle") /\ loads < MaxLoads
    /\ loads' = loads + 1
    /\ listed' = listed \cup Range(es)
    /\ IF HasPlugin(VfsPlugin)
       THEN /\ call' = [Idle EXCEPT !.at = "resolve", !.entries = es]
            /\ mounts' = mounts \ Roots
            /\ UNCHANGED returned
       ELSE Returns("INVALID_STATE", mounts)
    /\ UNCHANGED <<appVars, deps, libs, handles, runtime, host, code, kept, registered>>

\* resolve_package for p: the manifest is read through a mount of its own, then
\* the directory is mounted at "/".  Mounting a directory twice does nothing
\* and succeeds: the manifest is not where it is looked for, and the unmount
\* takes the earlier mount away.
Mountable(p) == p \in OnDisk /\ p \notin mounts
Readable(p, good) == good /\ Mountable(p)
MountsAfter(p, good) ==
    IF Readable(p, good) THEN mounts \cup {p}
    ELSE IF p \in OnDisk THEN mounts \ {p} ELSE mounts

ResolvedAs(p, good) ==
    IF Readable(p, good)
    THEN [pkg |-> p, name |-> ManifestName[p], deps |-> deps[p], script |-> p \in Scripts,
          library |-> p \notin Scripts \/ p \in Runtimes]
    ELSE [pkg |-> p, name |-> None, deps |-> {}, script |-> FALSE, library |-> FALSE]

\* The next entry.  The manifest may be unreadable or wrong (good), and lack
\* the script_file of a script package (entry).
Resolve(good, entry) ==
    /\ At("resolve") /\ call.index \in DOMAIN call.entries
    /\ LET p == call.entries[call.index]
           r == ResolvedAs(p, good)
           now == MountsAfter(p, good)
           ours == call.mounted \cup IF Readable(p, good) THEN {p} ELSE {}
       IN  /\ good \/ Mountable(p)
           /\ entry \/ r.script
           /\ IF ~Readable(p, good) /\ p \notin Statics
              THEN Returns("LIBRARY_NOT_FOUND", now \ ours)
              ELSE IF ~entry THEN Returns("INVALID_ARGUMENT", now \ ours)
              ELSE IF \E n \in NameOf(r) : HasPlugin(n)
              THEN Returns("DUPLICATE_PACKAGE", now \ ours)
              ELSE /\ call' = [call EXCEPT !.index = @ + 1, !.mounted = ours,
                                           !.pending = Append(@, r)]
                   /\ mounts' = now /\ UNCHANGED returned
    /\ UNCHANGED <<appVars, deps, libs, handles, runtime, loads, host, listed, code, kept,
                   registered>>

ResolveDone ==
    /\ At("resolve") /\ call.index \notin DOMAIN call.entries
    /\ call' = [call EXCEPT !.at = "order", !.index = 1]
    /\ UNCHANGED <<appVars, deps, mounts, libs, handles, runtime, loads, host, returned,
                   listed, code, kept, registered>>

-----------------------------------------------------------------------------
(* Sorting them                                                             *)

\* package_name_loaded, when the entries in is come first: a plugin of that
\* name, a package whose manifest has a plugin's name, or a sorted package.
NameLoaded(d, is) ==
    \/ HasPlugin(d)
    \/ \E i \in DOMAIN call.pending : /\ call.pending[i].pkg = d
                                      /\ HasPlugin(call.pending[i].name)
    \/ \E i \in is : d \in NameOf(call.pending[i])

\* Mutant: an entry is taken as soon as one of its dependencies is loaded.
ReadyToLoadSome(i, is) ==
    \/ call.pending[i].deps = {}
    \/ \E d \in call.pending[i].deps : NameLoaded(d, is)

ReadyToLoad(i, is) == \A d \in call.pending[i].deps : NameLoaded(d, is)

Sorted == Range(call.order)
Unsorted == DOMAIN call.pending \ Sorted

\* One turn of a pass over the entries.
SortEntry ==
    /\ At("order") /\ call.index \in DOMAIN call.pending
    /\ LET i == call.index
           taken == i \in Unsorted /\ ReadyToLoad(i, Sorted)
       IN  call' = [call EXCEPT !.index = @ + 1, !.progress = @ \/ taken,
                                !.order = IF taken THEN Append(@, i) ELSE @]
    /\ UNCHANGED <<appVars, deps, mounts, libs, handles, runtime, loads, host, returned,
                   listed, code, kept, registered>>

\* A dependency that is not loaded is missing when no unsorted entry has its name.
SomeMissing ==
    \E i \in Unsorted : \E d \in call.pending[i].deps :
        ~NameLoaded(d, Sorted) /\ \A j \in Unsorted : call.pending[j].pkg # d

\* Mutant: one pass is all there is.
PassesOnce == Unsorted = {}

\* Mutant: passes go on without progress.
PassesForever == TRUE

\* Another pass, or registration, follows.
PassesGoOn == Unsorted = {} \/ call.progress

\* The end of a pass: registration, another pass, or an error.
SortPass ==
    /\ At("order") /\ call.index \notin DOMAIN call.pending
    /\ IF PassesGoOn
       THEN /\ call' = [call EXCEPT !.index = 1, !.progress = FALSE,
                                    !.at = IF Unsorted = {} THEN "register" ELSE "order"]
            /\ UNCHANGED <<mounts, returned>>
       ELSE Fail(IF SomeMissing THEN "MISSING_DEPENDENCY" ELSE "CIRCULAR_DEPENDENCY")
    /\ UNCHANGED <<appVars, deps, libs, handles, runtime, loads, host, listed, code, kept,
                   registered>>
-----------------------------------------------------------------------------
(* Registering them                                                         *)

Current == call.pending[call.order[call.index]]
Registering == At("register") /\ call.index \in DOMAIN call.order

\* The plugins that the plugin of p is registered with as dependencies: those
\* of the packages p depends on.  Plugins linked into the host need none.
PluginDeps(p) ==
    IF p \in Statics THEN {}
    ELSE {ManifestName[q] : q \in {q \in Packages \ Scripts :
                                     q \in deps[p] \/ ManifestName[q] \in deps[p]}}

\* What precedes the library: a script package needs the runtime of its type.
RuntimeKnown == Current.script => runtime # None
CallWithScript ==
    [call EXCEPT !.scripts = IF Current.script THEN Append(@, Current.pkg) ELSE @]
HasRegister == ~Current.script \/ Current.library

\* A library that cannot be opened, one without the entry symbol, and a script
\* package for which there is no runtime.
RegisterFails ==
    /\ Registering
    /\ \/ ~RuntimeKnown /\ Fail("UNKNOWN_RUNTIME")
       \/ /\ RuntimeKnown /\ Current.library
          /\ \E r \in {"LIBRARY_NOT_FOUND", "ENTRY_NOT_FOUND"} : Fail(r)
    /\ UNCHANGED <<appVars, deps, libs, handles, runtime, loads, host, listed, code, kept,
                   registered>>

\* A script package without a library waits for the injection.
RegisterScript ==
    /\ Registering /\ RuntimeKnown /\ ~HasRegister
    /\ call' = [CallWithScript EXCEPT !.index = @ + 1]
    /\ UNCHANGED <<appVars, deps, mounts, libs, handles, runtime, loads, host, returned,
                   listed, code, kept, registered>>

\* Mutant: the library is closed as soon as the register function was called.
OpenedBriefly == UNCHANGED libs

\* The library of the current package is opened once more.
Opened == libs' = IF Current.library THEN [libs EXCEPT ![Current.pkg] = @ + 1] ELSE libs

Closed == libs' = IF Current.library THEN [libs EXCEPT ![Current.pkg] = @ - 1] ELSE libs

\* The library is open, and its register function adds the package's plugin.
RegisterCall ==
    /\ Registering /\ RuntimeKnown /\ HasRegister
    /\ LET n == ManifestName[Current.pkg]
       IN  /\ A!AddPlugin(TheApp, n, PluginDeps(Current.pkg))
           /\ code' = [code EXCEPT ![n] = IF Current.library THEN Current.pkg ELSE None]
    /\ Opened
    /\ call' = [CallWithScript EXCEPT !.at = "adding",
                  !.outcome = IF stack' = <<>> THEN "queued" ELSE "drained"]
    /\ UNCHANGED <<deps, mounts, handles, runtime, loads, host, returned, listed, kept,
                   registered>>

\* The register function fails before it has added a plugin, or because the
\* App knows the plugin already.
RegisterRefused ==
    /\ Registering /\ RuntimeKnown /\ HasRegister
    /\ Opened
    /\ call' = [CallWithScript EXCEPT !.at = "adding", !.outcome = "refused"]
    /\ UNCHANGED <<appVars, deps, mounts, handles, runtime, loads, host, returned, listed, code,
                   kept, registered>>

Succeeded == call.outcome = "queued" \/ (call.outcome = "drained" /\ result)

\* The register function returns.  After a success the runtimes of the library
\* are registered and it stays open; after a failure it is closed.
RegisterReturn ==
    /\ At("adding") /\ Quiet
    /\ LET p == Current.pkg IN
       IF Succeeded
       THEN /\ registered' = Append(registered, p)
            /\ handles' = IF Current.library THEN Append(handles, p) ELSE handles
            /\ runtime' = IF Current.library /\ p \in Runtimes THEN p ELSE runtime
            /\ call' = [call EXCEPT !.at = "register", !.index = @ + 1]
            /\ UNCHANGED <<mounts, libs, returned>>
       ELSE /\ Closed
            /\ Fail("REGISTER_FAILED")
            /\ UNCHANGED <<handles, runtime, registered>>
    /\ UNCHANGED <<appVars, deps, loads, host, listed, code, kept>>

RegisterDone ==
    /\ At("register") /\ call.index \notin DOMAIN call.order
    /\ call' = [call EXCEPT !.index = 1,
                            !.at = IF call.scripts = <<>> THEN "entries" ELSE "inject"]
    /\ UNCHANGED <<appVars, deps, mounts, libs, handles, runtime, loads, host, returned,
                   listed, code, kept, registered>>

-----------------------------------------------------------------------------
(* inject_script_snapshot                                                   *)

\* All script files below "/" are read and handed to the runtime.
Inject(ok) ==
    /\ At("inject")
    /\ IF ok THEN /\ call' = [call EXCEPT !.at = "entries", !.injected = mounts]
                  /\ UNCHANGED <<mounts, returned>>
       ELSE Fail("REGISTER_FAILED")
    /\ UNCHANGED <<appVars, deps, libs, handles, runtime, loads, host, listed, code, kept,
                   registered>>

\* Then the runtime registers the entry of each script package.
InjectEntry(ok) ==
    /\ At("entries") /\ call.index \in DOMAIN call.scripts
    /\ IF ok THEN /\ call' = [call EXCEPT !.index = @ + 1]
                  /\ registered' = Append(registered, call.scripts[call.index])
                  /\ UNCHANGED <<mounts, returned>>
       ELSE Fail("REGISTER_FAILED") /\ UNCHANGED registered
    /\ UNCHANGED <<appVars, deps, libs, handles, runtime, loads, host, listed, code, kept>>

\* The call succeeds: only the directories of assets packages stay mounted.
LoadDone ==
    /\ At("entries") /\ call.index \notin DOMAIN call.scripts
    /\ Returns("OK", mounts \ (call.mounted \ Assets))
    /\ kept' = kept \cup (call.mounted \cap Assets)
    /\ UNCHANGED <<appVars, deps, libs, handles, runtime, loads, host, listed, code,
                   registered>>

-----------------------------------------------------------------------------
(* The App and the host                                                     *)

IsDown(ps) == \E i \in DOMAIN ps : ps[i].name = VfsPlugin /\ ps[i].down

\* A step of the App.  The shutdown of pulse_vfs drops all mounts.
AppStep ==
    /\ A!Internal
    /\ LET down == IsDown(plugins'[TheApp])
       IN  /\ mounts' = IF down THEN {} ELSE mounts
           /\ kept' = IF down THEN {} ELSE kept
    /\ UNCHANGED <<deps, libs, handles, runtime, call, loads, host, returned, listed, code,
                   registered>>

\* While the plugin of a composite package is built it adds another one.
BuildAdds ==
    /\ A!At("drain", "build")
    /\ LET built == plugins[TheApp][Len(plugins[TheApp])].name
       IN  /\ code[built] \in Composites /\ built # SubPlugin
           /\ A!AddPlugin(TheApp, SubPlugin, {})
           /\ code' = [code EXCEPT ![SubPlugin] = code[built]]
    /\ UNCHANGED <<deps, mounts, libs, handles, runtime, call, loads, host, returned, listed,
                   kept, registered>>

HostReady == host = "up" /\ Quiet /\ At("idle")

\* pulse_add_vfs_plugin.
AddVfs ==
    /\ HostReady /\ ~HasPlugin(VfsPlugin)
    /\ A!AddPlugin(TheApp, VfsPlugin, {})
    /\ UNCHANGED loaderVars

HostMount(d) ==
    /\ HostReady /\ HasPlugin(VfsPlugin) /\ d \notin mounts
    /\ mounts' = mounts \cup {d} /\ kept' = kept \cup {d}
    /\ UNCHANGED <<appVars, deps, libs, handles, runtime, call, loads, host, returned,
                   listed, code, registered>>

\* pulse_app_run, after the packages were loaded.
HostRun ==
    /\ HostReady /\ loads > 0 /\ returned = "OK"
    /\ A!Run(TheApp)
    /\ host' = "run"
    /\ UNCHANGED <<deps, mounts, libs, handles, runtime, call, loads, returned, listed, code,
                   kept, registered>>

\* pulse_destroy_app begins with a teardown, which an app that ran has behind it.
HostDestroy ==
    /\ host \in {"up", "run"} /\ Quiet /\ At("idle")
    /\ IF state[TheApp] = "Shutdown" THEN UNCHANGED appVars ELSE A!Teardown(TheApp)
    /\ host' = "destroy"
    /\ UNCHANGED <<deps, mounts, libs, handles, runtime, call, loads, returned, listed, code,
                   kept, registered>>

\* Mutant: the libraries are closed before the app has been torn down.
CleanupEarly ==
    /\ host = "destroy"
    /\ libs' = [p \in Packages |-> libs[p] - Cardinality({i \in DOMAIN handles : handles[i] = p})]
    /\ handles' = <<>> /\ runtime' = None
    /\ host' = "done"
    /\ UNCHANGED <<appVars, deps, mounts, call, loads, returned, listed, code, kept,
                   registered>>

\* pulse_package_loader_cleanup, once pulse_destroy_app has returned: every
\* library that was kept is closed, and the loader is gone.
Cleanup ==
    /\ host = "destroy" /\ Quiet
    /\ libs' = [p \in Packages |-> libs[p] - Cardinality({i \in DOMAIN handles : handles[i] = p})]
    /\ handles' = <<>> /\ runtime' = None
    /\ host' = "done"
    /\ UNCHANGED <<appVars, deps, mounts, call, loads, returned, listed, code, kept,
                   registered>>

Host ==
    \/ AddVfs \/ HostRun \/ HostDestroy \/ Cleanup
    \/ \E d \in HostDirs : HostMount(d)
    \/ \E es \in Listings : LoadPackages(es)

\* The call in progress goes on, in the loader or in the App.
Internal ==
    \/ \E good, entry \in BOOLEAN : Resolve(good, entry)
    \/ ResolveDone \/ SortEntry \/ SortPass
    \/ RegisterFails \/ RegisterScript \/ RegisterCall \/ RegisterRefused
    \/ RegisterReturn \/ RegisterDone
    \/ \E ok \in BOOLEAN : Inject(ok) \/ InjectEntry(ok)
    \/ LoadDone \/ AppStep \/ BuildAdds

Finished == host = "done" /\ UNCHANGED vars

Next == Host \/ Internal \/ Finished

Spec == Init /\ [][Next]_vars

FairSpec == Spec /\ WF_vars(Internal)
-----------------------------------------------------------------------------
(* Properties                                                               *)

\* The plugin's code, if it is in a library, is there.
CodeOpen(e) == code[e.name] # None => libs[code[e.name]] > 0

\* The App may call no code that was unloaded: the library of a plugin that
\* waits to be built, or was not shut down yet, is open, and so is the one of
\* the script runtime.
CodeLoaded ==
    /\ \A i \in DOMAIN plugins[TheApp] :
         plugins[TheApp][i].down \/ CodeOpen(plugins[TheApp][i])
    /\ state[TheApp] # "Shutdown" =>
         \A i \in DOMAIN pending[TheApp] : CodeOpen(pending[TheApp][i])
    /\ runtime # None => libs[runtime] > 0

\* Once the loader is gone no library is open, however the loads went.
LibrariesClosed == host = "done" => \A p \in Packages : libs[p] = 0

\* Code is there as long as it may be called and no longer than the loader.
LibrariesRight == CodeLoaded /\ LibrariesClosed

\* Between two calls exactly the directories are mounted that the host mounted
\* and that assets packages of successful calls ask for, whatever step of a
\* call failed.
MountsExact == At("idle") => mounts = kept

\* The packages that p's manifest names, by entry or by manifest name.
Needs(p) == {q \in Packages : q \in deps[p] \/ ManifestName[q] \in deps[p]}

\* A native package is registered after the native packages that it depends on,
\* a script package after everything it depends on, over any number of calls.
DependenciesRegistered ==
    \A i \in DOMAIN registered :
      registered[i] \notin Statics =>
        \A q \in Needs(registered[i]) :
          q \notin Scripts \/ registered[i] \in Scripts
            => \E j \in 1..i - 1 : registered[j] = q

\* When script packages are entered all native packages of the call have been
\* registered, the runtime has seen the files of all packages of the call, and
\* its library is there.
ScriptsComplete ==
    At("entries") /\ call.scripts # <<>> =>
      /\ call.mounted \subseteq call.injected
      /\ \A i \in DOMAIN call.pending :
           ~call.pending[i].script => call.pending[i].pkg \in Range(registered)
      /\ runtime # None /\ libs[runtime] > 0

\* Every package finds what it needs when load_packages comes to it.
RegisteredInOrder == DependenciesRegistered /\ ScriptsComplete

\* Entries is cannot be sorted: each needs something that the others do not have.
Stuck(is) ==
    /\ is # {}
    /\ \A i \in is : ~ReadyToLoad(i, DOMAIN call.pending \ is)

\* The passes find an order whenever there is one, and an error says what is
\* the case: a cycle is reported only when entries wait for each other.
SortExact ==
    [][ At("order") =>
          /\ At("register")' => ~\E is \in SUBSET DOMAIN call.pending : Stuck(is)
          /\ At("idle")' => \E is \in SUBSET DOMAIN call.pending : Stuck(is)
          /\ At("idle")' /\ returned' = "CIRCULAR_DEPENDENCY" =>
               \E is \in SUBSET DOMAIN call.pending \ {{}} :
                 \A i \in is : \E j \in is :
                   NameOf(call.pending[j]) \cap call.pending[i].deps # {} ]_vars

\* Every call of load_packages returns: the passes over the entries end, with
\* cycles and missing dependencies too, and so do the builds of the plugins.
LoadReturns == call.at # "idle" ~> call.at = "idle"
=============================================================================
