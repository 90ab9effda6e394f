--------------------------------- MODULE App ---------------------------------
(***************************************************************************)
(* The application (pulse_app/src/app_impl.cpp): an App owns plugins that   *)
(* are built in dependency order, post-built, run and shut down in reverse  *)
(* order, and subapps that go through the same life under their parent.     *)
(*                                                                          *)
(* The methods of App call each other, the methods of the subapps and the   *)
(* plugins' callbacks.  The variable stack holds the calls in progress, the *)
(* innermost last, and result what the last call to return returned.  While *)
(* a plugin's build callback runs it may add further plugins.               *)
(***************************************************************************)
EXTENDS Integers, Sequences, SequencesExt

CONSTANTS
    Apps,             \* the App objects
    Names,            \* the plugin names
    Dependencies,     \* the dependency lists plugins are registered with
    BuildsFail,       \* whether build callbacks may fail
    AddWhileReady     \* whether a build adds a plugin that waits for its own build

ASSUME AppAssumption ==
    /\ Dependencies \subseteq SUBSET Names
    /\ BuildsFail \in BOOLEAN
    /\ AddWhileReady \in BOOLEAN

VARIABLES
    state,     \* App::state_
    plugins,   \* App::plugins_
    pending,   \* App::pending_plugins_
    subapps,   \* App::subapps_, each the only owner of its App
    stack,     \* the calls in progress
    result,    \* whether the last call succeeded
    accepted   \* history: the names whose add_plugin the caller takes for done

vars == <<state, plugins, pending, subapps, stack, result, accepted>>

AppStates == {"Created", "Building", "PostBuilding", "Running", "Shutdown"}

\* RegisteredPlugin; down is shutdown_done.  History: posted counts the runs of
\* post_build, and freed says that the caller took back what ctx points to.
Entry == [name: Names, deps: SUBSET Names, down: BOOLEAN,
          posted: Nat, freed: BOOLEAN]

NewEntry(n, deps) ==
    [name |-> n, deps |-> deps, down |-> FALSE, posted |-> 0, freed |-> FALSE]

\* A call: at says where it is, index counts through plugins or subapps, ready
\* is drain_pending_plugins' local list, names what an add_plugin call adds.
Places == {"start", "collect", "loop", "build", "drain", "post", "plugins", "subapps",
           "subapp", "failed", "prepare", "runner", "teardown"}
Call == [op: {"add", "drain", "post", "prepare", "run", "teardown"}, app: Apps,
         at: Places, index: Nat, ready: Seq(Entry), names: SUBSET Names]

NewCall(op, a) ==
    [op |-> op, app |-> a, at |-> "start", index |-> 1, ready |-> <<>>, names |-> {}]

TypeOK ==
    /\ state \in [Apps -> AppStates]
    /\ plugins \in [Apps -> Seq(Entry)]
    /\ pending \in [Apps -> Seq(Entry)]
    /\ subapps \in [Apps -> Seq(Apps)]
    /\ stack \in Seq(Call)
    /\ result \in BOOLEAN
    /\ accepted \in [Apps -> SUBSET Names]

Init ==
    /\ state = [a \in Apps |-> "Created"]
    /\ plugins = [a \in Apps |-> <<>>]
    /\ pending = [a \in Apps |-> <<>>]
    /\ subapps = [a \in Apps |-> <<>>]
    /\ stack = <<>>
    /\ result = TRUE
    /\ accepted = [a \in Apps |-> {}]

Top == stack[Len(stack)]
Callers == SubSeq(stack, 1, Len(stack) - 1)
At(op, at) == stack # <<>> /\ Top.op = op /\ Top.at = at

\* The innermost call goes on at another place, calls c there, or returns.
Goes(f) == stack' = Append(Callers, f) /\ UNCHANGED result
Calls(f, c) == stack' = Callers \o <<f, c>> /\ UNCHANGED result
Returns(ok) == stack' = Callers /\ result' = ok

NamesOf(es) == {es[i].name : i \in DOMAIN es}

\* Code outside the App runs on a: the application, or the build callback of
\* one of a's plugins.
ClientRuns(a) == stack = <<>> \/ (At("drain", "build") /\ Top.app = a)

-----------------------------------------------------------------------------
(* add_plugin and drain_pending_plugins                                     *)

\* Mutant: a dependency that is only queued counts as built.
SatisfiedQueued(a, e) == e.deps \subseteq NamesOf(plugins[a]) \cup NamesOf(pending[a])

\* plugin_dependencies_satisfied: every dependency is in plugins_.
Satisfied(a, e) == e.deps \subseteq NamesOf(plugins[a])

\* pending_plugins_satisfiable, for the pending list ps.
Satisfiable(a, ps) ==
    \A i \in DOMAIN ps : ps[i].deps \subseteq NamesOf(plugins[a]) \cup NamesOf(ps)

\* The plugins that the running drain has taken from the queue, not built yet.
Ready == IF stack = <<>> THEN {} ELSE NamesOf(Top.ready)

\* add_plugin's check of the state, and validate_plugin.
CanAdd(a, n) ==
    /\ state[a] \in {"Created", "Building"}
    /\ n \notin NamesOf(plugins[a]) \cup NamesOf(pending[a])

\* add_plugin: the plugin is queued, and the queue is drained at once when all
\* it needs is registered and no drain is under way.
AddPlugin(a, n, deps) ==
    /\ ClientRuns(a) /\ CanAdd(a, n)
    /\ AddWhileReady \/ n \notin Ready
    /\ LET ps == Append(pending[a], NewEntry(n, deps))
       IN  /\ pending' = [pending EXCEPT ![a] = ps]
           /\ IF state[a] # "Building" /\ Satisfiable(a, ps)
              THEN /\ stack' = stack \o <<[NewCall("add", a) EXCEPT !.names = {n}],
                                          NewCall("drain", a)>>
                   /\ UNCHANGED accepted
              ELSE /\ accepted' = [accepted EXCEPT ![a] = @ \cup {n}]
                   /\ UNCHANGED stack
    /\ UNCHANGED <<state, plugins, subapps, result>>

\* add_plugin hands on what the drain returned.  A caller that sees a failure,
\* and not its plugin, frees the plugin's state (as pulse_add_asset_plugin
\* does); otherwise the plugin's shutdown will.
AddReturn ==
    /\ At("add", "start")
    /\ LET a == Top.app
           taken == {n \in Top.names : result \/ n \in NamesOf(plugins[a])}
       IN  /\ accepted' = [accepted EXCEPT ![a] = @ \cup taken]
           /\ pending' = [pending EXCEPT ![a] =
                            [i \in DOMAIN @ |->
                               IF @[i].name \in Top.names \ taken
                               THEN [@[i] EXCEPT !.freed = TRUE] ELSE @[i]]]
    /\ Returns(result)
    /\ UNCHANGED <<state, plugins, subapps>>

DrainStart ==
    /\ At("drain", "start")
    /\ state' = [state EXCEPT ![Top.app] = "Building"]
    /\ Goes([Top EXCEPT !.at = "collect"])
    /\ UNCHANGED <<plugins, pending, subapps, accepted>>

\* drain_pending_plugins collects the plugins whose dependencies are built, in
\* the order of the queue: the next one is taken out.
DrainTake ==
    /\ At("drain", "collect")
    /\ LET a == Top.app
       IN  \E i \in DOMAIN pending[a] :
             /\ Satisfied(a, pending[a][i])
             /\ \A j \in 1..i - 1 : ~Satisfied(a, pending[a][j])
             /\ pending' = [pending EXCEPT ![a] = RemoveAt(@, i)]
             /\ Goes([Top EXCEPT !.ready = Append(@, pending[a][i])])
    /\ UNCHANGED <<state, plugins, subapps, accepted>>

\* Mutant: a drain that cannot go on leaves the app in state Building.
DrainCollectedStuck ==
    /\ At("drain", "collect")
    /\ \A i \in DOMAIN pending[Top.app] : ~Satisfied(Top.app, pending[Top.app][i])
    /\ IF Top.ready # <<>> THEN Goes([Top EXCEPT !.at = "loop"]) /\ UNCHANGED state
       ELSE /\ state' = IF pending[Top.app] = <<>>
                        THEN [state EXCEPT ![Top.app] = "Created"] ELSE state
            /\ Returns(pending[Top.app] = <<>>)
    /\ UNCHANGED <<plugins, pending, subapps, accepted>>

\* No further plugin is ready.  If none was, the queue is empty, a dependency
\* is missing or there is a cycle.
DrainCollected ==
    /\ At("drain", "collect")
    /\ \A i \in DOMAIN pending[Top.app] : ~Satisfied(Top.app, pending[Top.app][i])
    /\ IF Top.ready = <<>>
       THEN /\ state' = [state EXCEPT ![Top.app] = "Created"]
            /\ Returns(pending[Top.app] = <<>>)
       ELSE Goes([Top EXCEPT !.at = "loop"]) /\ UNCHANGED state
    /\ UNCHANGED <<plugins, pending, subapps, accepted>>

\* The next ready plugin is registered, then its build callback is called.
BuildCall ==
    /\ At("drain", "loop") /\ Top.ready # <<>>
    /\ plugins' = [plugins EXCEPT ![Top.app] = Append(@, Head(Top.ready))]
    /\ Goes([Top EXCEPT !.at = "build", !.ready = Tail(@)])
    /\ UNCHANGED <<state, pending, subapps, accepted>>

\* Mutant: a plugin whose build failed is built again at once.
BuildReturnRetries(ok) ==
    /\ At("drain", "build")
    /\ LET a == Top.app
           failed == plugins[a][Len(plugins[a])]
       IN  IF ok THEN UNCHANGED <<plugins, pending>>
           ELSE /\ plugins' = [plugins EXCEPT ![a] = SubSeq(@, 1, Len(@) - 1)]
                /\ pending' = [pending EXCEPT ![a] = Append(@, failed)]
    /\ Goes([Top EXCEPT !.at = IF Top.ready = <<>> THEN "collect" ELSE "loop"])
    /\ UNCHANGED <<state, subapps, accepted>>

\* The build callback returns.  After a failure the plugin is unregistered and
\* the drain gives up, and with it what is left of its ready list.
BuildReturn(ok) ==
    /\ At("drain", "build")
    /\ ok \/ BuildsFail
    /\ LET a == Top.app
           ps == plugins[a]
       IN  IF ok
           THEN /\ Goes([Top EXCEPT !.at = IF Top.ready = <<>> THEN "collect" ELSE "loop"])
                /\ UNCHANGED <<state, plugins, accepted>>
           ELSE /\ plugins' = [plugins EXCEPT ![a] = SubSeq(@, 1, Len(@) - 1)]
                /\ accepted' = [accepted EXCEPT ![a] = @ \ {ps[Len(ps)].name}]
                /\ state' = [state EXCEPT ![a] = "Created"]
                /\ Returns(FALSE)
    /\ UNCHANGED <<pending, subapps>>

-----------------------------------------------------------------------------
(* post_build                                                               *)

PostStart ==
    /\ At("post", "start")
    /\ state' = [state EXCEPT ![Top.app] = "PostBuilding"]
    /\ Goes([Top EXCEPT !.at = "plugins"])
    /\ UNCHANGED <<plugins, pending, subapps, accepted>>

\* The plugins' callbacks in order.  A failure returns and leaves the state.
PostPlugin(ok) ==
    /\ At("post", "plugins") /\ Top.index \in DOMAIN plugins[Top.app]
    /\ plugins' = [plugins EXCEPT ![Top.app][Top.index].posted = @ + 1]
    /\ IF ok THEN Goes([Top EXCEPT !.index = @ + 1]) ELSE Returns(FALSE)
    /\ UNCHANGED <<state, pending, subapps, accepted>>

\* Then post_build of the subapps, whatever state they are in.
PostSubapps ==
    \/ /\ At("post", "plugins") /\ Top.index \notin DOMAIN plugins[Top.app]
       /\ Goes([Top EXCEPT !.at = "subapps", !.index = 1])
       /\ UNCHANGED <<state, plugins, pending, subapps, accepted>>
    \/ /\ At("post", "subapps") /\ Top.index \in DOMAIN subapps[Top.app]
       /\ Calls([Top EXCEPT !.at = "subapp"], NewCall("post", subapps[Top.app][Top.index]))
       /\ UNCHANGED <<state, plugins, pending, subapps, accepted>>
    \/ /\ At("post", "subapp")
       /\ IF result THEN Goes([Top EXCEPT !.at = "subapps", !.index = @ + 1])
          ELSE Returns(FALSE)
       /\ UNCHANGED <<state, plugins, pending, subapps, accepted>>

PostDone ==
    /\ At("post", "subapps") /\ Top.index \notin DOMAIN subapps[Top.app]
    /\ state' = [state EXCEPT ![Top.app] = "Created"]
    /\ Returns(TRUE)
    /\ UNCHANGED <<plugins, pending, subapps, accepted>>

-----------------------------------------------------------------------------
(* prepare, run, update and teardown                                        *)

\* prepare refuses an app that is not Created, then drains and post-builds.
PrepareStart ==
    /\ At("prepare", "start")
    /\ IF state[Top.app] = "Created"
       THEN Calls([Top EXCEPT !.at = "drain"], NewCall("drain", Top.app))
       ELSE Returns(FALSE)
    /\ UNCHANGED <<state, plugins, pending, subapps, accepted>>

PrepareDrained ==
    /\ At("prepare", "drain")
    /\ IF result THEN Calls([Top EXCEPT !.at = "post"], NewCall("post", Top.app))
       ELSE Returns(FALSE)
    /\ UNCHANGED <<state, plugins, pending, subapps, accepted>>

PreparePosted ==
    /\ At("prepare", "post")
    /\ IF result THEN Goes([Top EXCEPT !.at = "subapps"]) ELSE Returns(FALSE)
    /\ UNCHANGED <<state, plugins, pending, subapps, accepted>>

\* The subapps are prepared one by one; one failure tears the parent down.
PrepareSubapps ==
    \/ /\ At("prepare", "subapps") /\ Top.index \in DOMAIN subapps[Top.app]
       /\ Calls([Top EXCEPT !.at = "subapp"],
                NewCall("prepare", subapps[Top.app][Top.index]))
       /\ UNCHANGED <<state, plugins, pending, subapps, accepted>>
    \/ /\ At("prepare", "subapp")
       /\ IF result THEN Goes([Top EXCEPT !.at = "subapps", !.index = @ + 1])
          ELSE Calls([Top EXCEPT !.at = "failed"], NewCall("teardown", Top.app))
       /\ UNCHANGED <<state, plugins, pending, subapps, accepted>>
    \/ /\ At("prepare", "failed")
       /\ Returns(FALSE)
       /\ UNCHANGED <<state, plugins, pending, subapps, accepted>>

PrepareDone ==
    /\ At("prepare", "subapps") /\ Top.index \notin DOMAIN subapps[Top.app]
    /\ state' = [state EXCEPT ![Top.app] = "Running"]
    /\ Returns(TRUE)
    /\ UNCHANGED <<plugins, pending, subapps, accepted>>

\* Mutant: run returns after a failed prepare without a teardown.
RunPreparedReturns ==
    /\ At("run", "prepare")
    /\ IF result THEN Goes([Top EXCEPT !.at = "runner"]) ELSE Returns(FALSE)
    /\ UNCHANGED <<state, plugins, pending, subapps, accepted>>

\* run: prepare, the runner, teardown; without the runner if prepare fails.
RunPrepared ==
    /\ At("run", "prepare")
    /\ IF result THEN Goes([Top EXCEPT !.at = "runner"])
       ELSE Calls([Top EXCEPT !.at = "teardown"], NewCall("teardown", Top.app))
    /\ UNCHANGED <<state, plugins, pending, subapps, accepted>>

RunnerReturn ==
    /\ At("run", "runner")
    /\ Calls([Top EXCEPT !.at = "teardown"], NewCall("teardown", Top.app))
    /\ UNCHANGED <<state, plugins, pending, subapps, accepted>>

RunReturn ==
    /\ At("run", "teardown")
    /\ Returns(result)
    /\ UNCHANGED <<state, plugins, pending, subapps, accepted>>

\* Mutant: the loop over the subapps starts one below the last.
TeardownSubappsShort ==
    /\ \/ /\ At("teardown", "start")
          /\ IF state[Top.app] = "Shutdown" THEN Returns(result)
             ELSE Goes([Top EXCEPT !.at = "subapps", !.index = Len(subapps[Top.app]) - 1])
       \/ /\ At("teardown", "subapps") /\ Top.index \in DOMAIN subapps[Top.app]
          /\ Calls([Top EXCEPT !.index = @ - 1],
                   NewCall("teardown", subapps[Top.app][Top.index]))
       \/ /\ At("teardown", "subapps") /\ Top.index \notin DOMAIN subapps[Top.app]
          /\ Goes([Top EXCEPT !.at = "plugins", !.index = Len(plugins[Top.app])])
    /\ UNCHANGED <<state, plugins, pending, subapps, accepted>>

\* teardown: the subapps, last first, ...
TeardownSubapps ==
    /\ \/ /\ At("teardown", "start")
          /\ IF state[Top.app] = "Shutdown" THEN Returns(result)
             ELSE Goes([Top EXCEPT !.at = "subapps", !.index = Len(subapps[Top.app])])
       \/ /\ At("teardown", "subapps") /\ Top.index \in DOMAIN subapps[Top.app]
          /\ Calls([Top EXCEPT !.index = @ - 1],
                   NewCall("teardown", subapps[Top.app][Top.index]))
       \/ /\ At("teardown", "subapps") /\ Top.index \notin DOMAIN subapps[Top.app]
          /\ Goes([Top EXCEPT !.at = "plugins", !.index = Len(plugins[Top.app])])
    /\ UNCHANGED <<state, plugins, pending, subapps, accepted>>

\* Mutant: the plugins are shut down in the order they were built in.
TeardownPluginForward ==
    /\ At("teardown", "plugins") /\ Top.index \in DOMAIN plugins[Top.app]
    /\ plugins' = [plugins EXCEPT
                     ![Top.app][Len(plugins[Top.app]) + 1 - Top.index].down = TRUE]
    /\ Goes([Top EXCEPT !.index = @ - 1])
    /\ UNCHANGED <<state, pending, subapps, accepted>>

\* ... then the plugins, last first, each shut down once.
TeardownPlugin ==
    /\ At("teardown", "plugins") /\ Top.index \in DOMAIN plugins[Top.app]
    /\ plugins' = [plugins EXCEPT ![Top.app][Top.index].down = TRUE]
    /\ Goes([Top EXCEPT !.index = @ - 1])
    /\ UNCHANGED <<state, pending, subapps, accepted>>

TeardownDone ==
    /\ At("teardown", "plugins") /\ Top.index \notin DOMAIN plugins[Top.app]
    /\ state' = [state EXCEPT ![Top.app] = "Shutdown"]
    /\ Returns(result)
    /\ UNCHANGED <<plugins, pending, subapps, accepted>>

-----------------------------------------------------------------------------
(* The requests                                                             *)

Owned(a) == \E p \in Apps : \E i \in DOMAIN subapps[p] : subapps[p][i] = a

Prepare(a) ==
    /\ stack = <<>> /\ ~Owned(a) /\ state[a] = "Created"
    /\ stack' = <<NewCall("prepare", a)>>
    /\ UNCHANGED <<state, plugins, pending, subapps, result, accepted>>

Run(a) ==
    /\ stack = <<>> /\ ~Owned(a) /\ state[a] = "Created"
    /\ stack' = <<[NewCall("run", a) EXCEPT !.at = "prepare"], NewCall("prepare", a)>>
    /\ UNCHANGED <<state, plugins, pending, subapps, result, accepted>>

\* pulse_app_teardown, and the destructor.
Teardown(a) ==
    /\ stack = <<>> /\ ~Owned(a) /\ state[a] # "Shutdown"
    /\ stack' = <<NewCall("teardown", a)>>
    /\ UNCHANGED <<state, plugins, pending, subapps, result, accepted>>

\* update, from a runner or by hand: an extract may fail, a subapp that does
\* not run makes it fail.
Update(a, extracted) ==
    /\ stack = <<>> \/ At("run", "runner")
    /\ ~Owned(a) /\ state[a] = "Running"
    /\ result' = (extracted /\ \A i \in DOMAIN subapps[a] : state[subapps[a][i]] = "Running")
    /\ UNCHANGED <<state, plugins, pending, subapps, stack, accepted>>

\* try_insert_subapp.  Only an app that was not prepared is handed over, to a
\* parent that is not inside another app yet.
InsertSubapp(p, s) ==
    /\ ClientRuns(p) /\ state[p] \notin {"Running", "Shutdown"}
    /\ p # s /\ ~Owned(p) /\ ~Owned(s) /\ state[s] = "Created"
    /\ subapps' = [subapps EXCEPT ![p] = Append(@, s)]
    /\ UNCHANGED <<state, plugins, pending, stack, result, accepted>>

\* remove_subapp.
RemoveSubapp(p, i) ==
    /\ stack = <<>> /\ state[p] \notin {"Running", "Shutdown"}
    /\ subapps' = [subapps EXCEPT ![p] = RemoveAt(@, i)]
    /\ UNCHANGED <<state, plugins, pending, stack, result, accepted>>

Client ==
    \/ \E a \in Apps, n \in Names, deps \in Dependencies : AddPlugin(a, n, deps)
    \/ \E a \in Apps : Prepare(a) \/ Run(a) \/ Teardown(a)
    \/ \E a \in Apps, extracted \in BOOLEAN : Update(a, extracted)
    \/ \E p, s \in Apps : InsertSubapp(p, s)
    \/ \E p \in Apps : \E i \in DOMAIN subapps[p] : RemoveSubapp(p, i)

\* The calls in progress go on; callbacks and the runner return some time.
Internal ==
    \/ AddReturn \/ DrainStart \/ DrainTake \/ DrainCollected \/ BuildCall
    \/ \E ok \in BOOLEAN : BuildReturn(ok) \/ PostPlugin(ok)
    \/ PostStart \/ PostSubapps \/ PostDone
    \/ PrepareStart \/ PrepareDrained \/ PreparePosted \/ PrepareSubapps \/ PrepareDone
    \/ RunPrepared \/ RunnerReturn \/ RunReturn
    \/ TeardownSubapps \/ TeardownPlugin \/ TeardownDone

\* The destructor has run for every app.
Finished ==
    /\ stack = <<>> /\ \A a \in Apps : state[a] = "Shutdown"
    /\ UNCHANGED vars

Next == Internal \/ Client \/ Finished

Spec == Init /\ [][Next]_vars

FairSpec == Spec /\ WF_vars(Internal)
-----------------------------------------------------------------------------
(* Properties                                                               *)

Calling(op, a) == \E i \in DOMAIN stack : stack[i].op = op /\ stack[i].app = a

\* Plugins stand in plugins_ behind everything they depend on, in every order
\* of registration, with builds that fail and builds that add plugins: build
\* callbacks find their dependencies built, and shutdown runs in reverse.
DependenciesFirst ==
    \A a \in Apps : \A i \in DOMAIN plugins[a] : \A d \in plugins[a][i].deps :
        \E j \in 1..i - 1 : plugins[a][j].name = d

\* A name is registered at most once, as built or as pending (validate_plugin).
NamesUnique ==
    \A a \in Apps :
      LET all == plugins[a] \o pending[a]
      IN  \A i, j \in DOMAIN all : all[i].name = all[j].name => i = j

\* An accepted plugin stays known to the app: it is queued, taken out to be
\* built, or registered.
AcceptedKnown ==
    \A a \in Apps :
      accepted[a] \subseteq
        NamesOf(plugins[a]) \cup NamesOf(pending[a])
          \cup UNION {NamesOf(stack[i].ready) : i \in {j \in DOMAIN stack : stack[j].app = a}}

\* The app is in state Building exactly while a drain works on it, so no
\* failed build leaves it refusing prepare, or queueing plugins for no one.
BuildingIffDraining ==
    \A a \in Apps :
      state[a] = "Building"
        <=> \E i \in DOMAIN stack : stack[i].op = "drain" /\ stack[i].app = a
                                    /\ stack[i].at # "start"

\* A plugin is shut down after the plugins that depend on it and after the
\* subapps of its app.
ShutdownOrder ==
    \A a \in Apps : \A i \in DOMAIN plugins[a] :
      plugins[a][i].down =>
        /\ \A j \in DOMAIN plugins[a] :
              plugins[a][i].name \in plugins[a][j].deps => plugins[a][j].down
        /\ \A j \in DOMAIN subapps[a] : state[subapps[a][j]] = "Shutdown"

\* After teardown no registered plugin and no subapp was left out.
ShutdownComplete ==
    \A a \in Apps :
      state[a] = "Shutdown" =>
        /\ \A i \in DOMAIN plugins[a] : plugins[a][i].down
        /\ \A i \in DOMAIN subapps[a] : state[subapps[a][i]] = "Shutdown"

\* A running app is complete: nothing is left in its queue, every plugin was
\* post-built and none is shut down, and its subapps run too.
RunningReady ==
    \A a \in Apps :
      state[a] = "Running" /\ (\A b \in Apps : ~Calling("teardown", b)) =>
        /\ pending[a] = <<>>
        /\ \A i \in DOMAIN plugins[a] : plugins[a][i].posted > 0 /\ ~plugins[a][i].down
        /\ \A i \in DOMAIN subapps[a] : state[subapps[a][i]] = "Running"

\* What the states of the apps, their queues and their lists of plugins say of
\* each other fits, through failures and nested calls.
Consistent == NamesUnique /\ BuildingIffDraining /\ RunningReady

\* Teardown is complete and in order.
ShutdownCorrect == ShutdownOrder /\ ShutdownComplete

\* What the caller of add_plugin has freed is not used: no plugin whose state
\* was taken back is registered and called.  It does not hold where builds of
\* other plugins fail (README, "Where the code differs").
NoFreedContext ==
    \A a \in Apps : \A i \in DOMAIN plugins[a] : ~plugins[a][i].freed

\* Every call returns: the drain loop ends, whatever the builds add and
\* however they fail.
CallsReturn == stack # <<>> ~> stack = <<>>

\* An app that was run ends up shut down, also when prepare fails half way.
RunEndsShutdown ==
    \A a \in Apps : Calling("run", a) ~> state[a] = "Shutdown"
=============================================================================
