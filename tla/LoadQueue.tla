------------------------------ MODULE LoadQueue ------------------------------
(***************************************************************************)
(* The load jobs and their processing (pulse_asset/src/asset_loading.cpp). *)
(* A job calls back into its loader: ctor, step and dtor run user code that *)
(* may use the whole asset API before it returns.  The variable calls is    *)
(* the stack of those callbacks (and of the build requests that wait for    *)
(* one); main is the loop at the bottom of the stack.  Code runs from one   *)
(* callback to the next without interruption, so that run is one action.    *)
(***************************************************************************)
EXTENDS AssetStorage, SequencesExt

CONSTANTS
    MaxRequests,    \* max_requests_per_update, 8 by default and never 0
    Statuses        \* what the loaders' steps return

ASSUME QueueAssumption ==
    /\ MaxRequests \in Nat \ {0}
    /\ Statuses \subseteq {"DONE", "FAILED", "PENDING", "WAIT"}

VARIABLES
    jobs,    \* LoadQueue::jobs_, in list order
    calls,   \* the callbacks that are running, innermost last
    main     \* what the thread does below them

queueVars == <<jobs, calls, main>>

Phases == {"PendingRead", "WaitingDependencies", "Processing"}
Outcomes == {"None", "Loaded", "Failed", "Cancelled"}

\* LoadJob; built is loader_constructed.  The dependency list is kept as the
\* set of required and the set of optional handles, NoHandle included.
Job == [handle: Handle, phase: Phases, outcome: Outcomes, built: BOOLEAN,
        required: SUBSET (Handle \cup {NoHandle}),
        optional: SUBSET (Handle \cup {NoHandle})]

\* A running callback.  chain: process_pending_read goes on to the first step.
\* found: the slot was there when retire_load_job looked.  erase: the caller
\* erases the job afterwards.  dangling: the bucket moved its slots while the
\* callback ran, so the AssetSlot& of the caller is gone.
\* A "build" entry is load_impl waiting for process_immediate_builder, with
\* the outcome once the job is retired.
Call == [op: {"ctor", "step", "dtor", "build"}, handle: Handle,
         chain: BOOLEAN, found: BOOLEAN, erase: BOOLEAN, dangling: BOOLEAN,
         outcome: Outcomes, settled: BOOLEAN]

NewCall(op, h) ==
    [op |-> op, handle |-> h, chain |-> FALSE, found |-> TRUE, erase |-> TRUE,
     dangling |-> FALSE, outcome |-> "None", settled |-> FALSE]

\* process and drain_pass: left is jobs_to_process, next is job_it, current
\* the job between process_job and what follows it, was its earlier phase.
\* force: force_unload_assets; down: shutdown, finished when index passes all.
Main == [op: {"idle", "process", "drain", "cancelType", "destroyType",
              "cancelAll", "destroyAll", "down"},
         left: Nat, next: Handle \cup {NoHandle}, current: Handle \cup {NoHandle},
         was: Phases, before: Nat, progress: BOOLEAN,
         type: Types, index: Nat, todo: SUBSET Types]

Idle == [op |-> "idle", left |-> 0, next |-> NoHandle, current |-> NoHandle,
         was |-> "PendingRead", before |-> 0, progress |-> FALSE,
         type |-> CHOOSE t \in Types : TRUE, index |-> 0, todo |-> {}]

QueueTypeOK ==
    /\ jobs \in Seq(Job)
    /\ calls \in Seq(Call)
    /\ main \in Main

QueueInit == jobs = <<>> /\ calls = <<>> /\ main = Idle

Top == calls[Len(calls)]
Below == SubSeq(calls, 1, Len(calls) - 1)

\* Control is with the innermost callback; with the loop when there is none.
InCallback(op) == unload = <<>> /\ calls # <<>> /\ Top.op = op
InMain(op) == unload = <<>> /\ calls = <<>> /\ main.op = op

\* Where the job of h is in the list: the LoadJob& that the code passes on.
JobsOf(h) == {i \in DOMAIN jobs : jobs[i].handle = h}
Terminal(j) == j.outcome # "None"

EraseJob(i) == RemoveAt(jobs, i)

\* LoadJob::finish on the job.
Finish(i, outcome) == [jobs EXCEPT ![i].outcome = outcome]

\* What finish writes to a slot; the other writes of the loading code only
\* set the state.  The slot is reached through the reference taken before the
\* callback, so its generation is not looked at again.
FinishSlot(s, h, outcome) ==
    [s EXCEPT ![KeyOf(h)].state = IF outcome = "Loaded" THEN "LOADED" ELSE "FAILED",
              ![KeyOf(h)].constructed = IF outcome = "Loaded" THEN TRUE ELSE @]

SetState(s, h, state) == [s EXCEPT ![KeyOf(h)].state = state]
SetPhase(i, phase) == [jobs EXCEPT ![i].phase = phase]

-----------------------------------------------------------------------------
(* process_job, up to the first callback: i is the job's place in the list, *)
(* cs the stack of callbacks it runs on.                                    *)

EndJob(i, outcome, cs) ==
    /\ slots' = FinishSlot(slots, jobs[i].handle, outcome)
    /\ jobs' = Finish(i, outcome)
    /\ calls' = cs

AwaitDependencies(i, cs) ==
    /\ slots' = SetState(slots, jobs[i].handle, "WAITING_DEPENDENCIES")
    /\ jobs' = SetPhase(i, "WaitingDependencies")
    /\ calls' = cs

\* process_pending_read; chain is its argument process_immediately.
ProcessPendingRead(i, chain, cs) ==
    LET h == jobs[i].handle
        required == jobs[i].required
    IN  \/ DepsFailed(slots, required) /\ EndJob(i, "Failed", cs)
        \/ /\ ~DepsFailed(slots, required) /\ ~DepsReady(slots, required)
           /\ AwaitDependencies(i, cs)
        \/ /\ ~DepsFailed(slots, required) /\ DepsReady(slots, required)
           /\ \/ EndJob(i, "Failed", cs)  \* AssetIo::read_file fails
              \/ /\ slots' = SetState(slots, h, "LOADING")
                 /\ jobs' = SetPhase(i, "PendingRead")
                 /\ calls' = Append(cs, [NewCall("ctor", h) EXCEPT !.chain = chain])

\* process_waiting_dependencies.
ProcessWaiting(i, cs) ==
    LET h == jobs[i].handle
        required == jobs[i].required
    IN  \/ DepsFailed(slots, required) /\ EndJob(i, "Failed", cs)
        \/ /\ ~DepsFailed(slots, required) /\ ~DepsReady(slots, required)
           /\ AwaitDependencies(i, cs)
        \/ /\ ~DepsFailed(slots, required) /\ DepsReady(slots, required)
           /\ IF ~jobs[i].built THEN ProcessPendingRead(i, FALSE, cs)
              ELSE /\ slots' = SetState(slots, h, "PROCESSING")
                   /\ jobs' = SetPhase(i, "Processing")
                   /\ calls' = Append(cs, NewCall("step", h))

\* Mutant: process_job does not see that the load was cancelled.
ProcessJobCancelled(i, cs) ==
    \/ Terminal(jobs[i]) /\ UNCHANGED <<slots, jobs>> /\ calls' = cs
    \/ ~Terminal(jobs[i]) /\ jobs[i].phase = "PendingRead" /\ ProcessPendingRead(i, TRUE, cs)
    \/ ~Terminal(jobs[i]) /\ jobs[i].phase = "WaitingDependencies" /\ ProcessWaiting(i, cs)
    \/ /\ ~Terminal(jobs[i]) /\ jobs[i].phase = "Processing"
       /\ calls' = Append(cs, NewCall("step", jobs[i].handle))
       /\ UNCHANGED <<slots, jobs>>

ProcessJob(i, cs) ==
    LET h == jobs[i].handle
        state == StateOf(slots, h)
    IN  \/ Terminal(jobs[i]) /\ UNCHANGED <<slots, jobs>> /\ calls' = cs
        \/ /\ ~Terminal(jobs[i]) /\ ~Resolves(slots, h)
           /\ jobs' = Finish(i, "Failed") /\ calls' = cs /\ UNCHANGED slots
        \/ /\ ~Terminal(jobs[i]) /\ Resolves(slots, h) /\ state = "PENDING_DELETE"
           /\ EndJob(i, "Cancelled", cs)
        \/ /\ ~Terminal(jobs[i]) /\ Resolves(slots, h) /\ state # "PENDING_DELETE"
           /\ \/ jobs[i].phase = "PendingRead" /\ ProcessPendingRead(i, TRUE, cs)
              \/ jobs[i].phase = "WaitingDependencies" /\ ProcessWaiting(i, cs)
              \/ /\ jobs[i].phase = "Processing"
                 /\ calls' = Append(cs, NewCall("step", h))
                 /\ UNCHANGED <<slots, jobs>>

-----------------------------------------------------------------------------
(* The callbacks return                                                     *)

\* construct_job_loader and the rest of process_pending_read.  A dangling
\* reference loses what is written through it.
CtorReturn ==
    /\ InCallback("ctor")
    /\ \E i \in JobsOf(Top.handle) :
       LET h == Top.handle
           Write(s) == IF Top.dangling THEN slots ELSE s
       IN  \/ /\ slots' = Write(FinishSlot(slots, h, "Failed"))
              /\ jobs' = Finish(i, "Failed")
              /\ calls' = Below
           \/ /\ slots' = Write(SetState(slots, h, "PROCESSING"))
              /\ jobs' = [jobs EXCEPT ![i].phase = "Processing", ![i].built = TRUE]
              /\ calls' = IF Top.chain
                          THEN Append(Below, [NewCall("step", h) EXCEPT
                                                !.dangling = Top.dangling])
                          ELSE Below
    /\ UNCHANGED <<size, free, cache, unload, main>>

\* What a loader that declared its dependencies is done with: all are there.
DoneSlots(h, deps) ==
    LET s == Commit(slots, h, deps)
    IN  FinishSlot(PinCommitted(s, s[KeyOf(h)].dependencies), h, "Loaded")

\* process_processing after the step callback.  Through a dangling reference
\* the state that is read may be any left-over one, and writes are lost; the
\* commit goes through the handle and takes place.
StepReturn(status) ==
    /\ InCallback("step")
    /\ calls' = Below
    /\ \E i \in JobsOf(Top.handle) :
       LET h == Top.handle
           required == jobs[i].required
           all == required \cup jobs[i].optional
           Write(s) == IF Top.dangling THEN slots ELSE s
           Waits == /\ slots' = Write(SetState(slots, h, "WAITING_DEPENDENCIES"))
                    /\ jobs' = SetPhase(i, "WaitingDependencies")
           Ends(outcome) == /\ slots' = Write(FinishSlot(slots, h, outcome))
                            /\ jobs' = Finish(i, outcome)
       IN  \E cancelled \in IF Top.dangling THEN BOOLEAN
                            ELSE {slots[KeyOf(h)].state = "PENDING_DELETE"} :
             IF cancelled THEN Ends("Cancelled")
             ELSE \/ status = "PENDING" /\ UNCHANGED <<slots, jobs>>
                  \/ status = "WAIT" /\ Waits
                  \/ status = "FAILED" /\ Ends("Failed")
                  \/ /\ status = "DONE"
                     /\ \/ DepsFailed(slots, required) /\ Ends("Failed")
                        \/ /\ ~DepsFailed(slots, required)
                           /\ ~DepsReady(slots, required)
                           /\ Waits
                        \/ /\ DepsReady(slots, required)
                           /\ slots' = IF Top.dangling THEN Commit(slots, h, all)
                                       ELSE DoneSlots(h, all)
                           /\ jobs' = Finish(i, "Loaded")
    /\ UNCHANGED <<size, free, cache, unload, main>>

\* retire_load_job up to the dtor callback; without a constructed loader there
\* is none and the job goes at once.  The slot is tried for unloading last.
Retire(i, cs) ==
    LET h == jobs[i].handle
        found == Resolves(slots, h)
    IN  IF jobs[i].built
        THEN /\ calls' = Append(cs, [NewCall("dtor", h) EXCEPT !.found = found])
             /\ slots' = IF found THEN [slots EXCEPT ![KeyOf(h)].retiring = TRUE] ELSE slots
             /\ UNCHANGED <<jobs, unload>>
        ELSE /\ calls' = cs
             /\ jobs' = EraseJob(i)
             /\ unload' = TryUnload(slots, h)
             /\ UNCHANGED slots

\* The dtor callback returns; retire_and_erase and cancel_type erase the job
\* and try to unload its slot, cancel_all only goes on.
DtorReturn ==
    /\ InCallback("dtor")
    /\ \E i \in JobsOf(Top.handle) :
       LET h == Top.handle
           s == IF Top.found /\ ~Top.dangling
                THEN [slots EXCEPT ![KeyOf(h)].retiring = FALSE] ELSE slots
       IN  /\ slots' = s
           /\ IF Top.erase
              THEN /\ jobs' = EraseJob(i)
                   /\ unload' = IF Top.found /\ ~Top.dangling THEN TryUnload(s, h) ELSE <<>>
              ELSE /\ jobs' = [jobs EXCEPT ![i].built = FALSE]
                   /\ UNCHANGED unload
    /\ calls' = Below
    /\ UNCHANGED <<size, free, cache, main>>

-----------------------------------------------------------------------------
(* LoadQueue::process and drain_pass                                        *)

FirstJob == IF jobs = <<>> THEN NoHandle ELSE jobs[1].handle

\* The element that job_it++ moves to.
JobAfter(i) == IF i < Len(jobs) THEN jobs[i + 1].handle ELSE NoHandle

Smaller(a, b) == IF a < b THEN a ELSE b

\* process_load_requests, once per application update.
Process ==
    /\ InMain("idle")
    /\ jobs # <<>>
    /\ main' = [Idle EXCEPT !.op = "process", !.next = FirstJob,
                            !.left = Smaller(Len(jobs), MaxRequests)]
    /\ UNCHANGED <<slots, size, free, cache, unload, jobs, calls>>

\* drain_loads, in the plugin's post_build: passes over the whole queue.
DrainLoads ==
    /\ InMain("idle")
    /\ jobs # <<>>
    /\ main' = [Idle EXCEPT !.op = "drain", !.next = FirstJob,
                            !.left = Len(jobs), !.before = Len(jobs)]
    /\ UNCHANGED <<slots, size, free, cache, unload, jobs, calls>>

InLoop == InMain("process") \/ InMain("drain")

LoopPick ==
    /\ InLoop
    /\ main.current = NoHandle /\ main.left > 0 /\ main.next # NoHandle
    /\ \E i \in JobsOf(main.next) :
         /\ main' = [main EXCEPT !.left = @ - 1, !.current = main.next,
                                 !.was = IF main.op = "drain" THEN jobs[i].phase ELSE @]
         /\ ProcessJob(i, <<>>)
    /\ UNCHANGED <<size, free, cache, unload>>

\* Mutant: a waiting job keeps its place at the head of the list.
LoopAfterInPlace ==
    /\ InLoop
    /\ main.current # NoHandle
    /\ \E i \in JobsOf(main.current) :
         /\ main' = [main EXCEPT !.current = NoHandle, !.next = JobAfter(i)]
         /\ IF Terminal(jobs[i]) THEN Retire(i, <<>>)
            ELSE UNCHANGED <<slots, jobs, calls, unload>>
    /\ UNCHANGED <<size, free, cache>>

\* After process_job: a finished job is retired, a waiting one moves to the
\* end of the list, any other keeps its place.
LoopAfter ==
    /\ InLoop
    /\ main.current # NoHandle
    /\ \E i \in JobsOf(main.current) :
       LET j == jobs[i]
       IN  /\ main' = [main EXCEPT !.current = NoHandle, !.next = JobAfter(i),
                         !.progress = @ \/ (main.op = "drain"
                                            /\ (Terminal(j) \/ j.phase # main.was))]
           /\ \/ Terminal(j) /\ Retire(i, <<>>)
              \/ /\ ~Terminal(j) /\ j.phase = "WaitingDependencies"
                 /\ jobs' = Append(EraseJob(i), j)
                 /\ UNCHANGED <<slots, calls, unload>>
              \/ /\ ~Terminal(j) /\ j.phase # "WaitingDependencies"
                 /\ UNCHANGED <<slots, jobs, calls, unload>>
    /\ UNCHANGED <<size, free, cache>>

LoopOver == main.current = NoHandle /\ (main.left = 0 \/ main.next = NoHandle)

ProcessEnd ==
    /\ InMain("process") /\ LoopOver
    /\ main' = Idle
    /\ UNCHANGED <<slots, size, free, cache, unload, jobs, calls>>

\* Mutant: the progress of a pass is not looked at.
DrainPassEndEarly ==
    /\ InMain("drain") /\ LoopOver
    /\ main' = IF Len(jobs) > main.before
               THEN [main EXCEPT !.next = FirstJob, !.left = Len(jobs), !.before = Len(jobs)]
               ELSE Idle
    /\ UNCHANGED <<slots, size, free, cache, unload, jobs, calls>>

\* drain_loads repeats while a pass made progress or new jobs came in.
DrainPassEnd ==
    /\ InMain("drain") /\ LoopOver
    /\ main' = IF main.progress \/ Len(jobs) > main.before
               THEN [main EXCEPT !.next = FirstJob, !.left = Len(jobs),
                                 !.before = Len(jobs), !.progress = FALSE]
               ELSE Idle
    /\ UNCHANGED <<slots, size, free, cache, unload, jobs, calls>>

-----------------------------------------------------------------------------
(* cancel_type and cancel_all                                               *)

\* cancel_type erases as it goes: the next job of the type, whatever the dtor
\* callbacks queued meanwhile.
CancelTypeNext ==
    /\ InMain("cancelType")
    /\ LET mine == {i \in 1..Len(jobs) : jobs[i].handle.type = main.type}
       IN  IF mine = {}
           THEN /\ main' = [main EXCEPT !.op = "destroyType", !.index = 1]
                /\ UNCHANGED <<slots, jobs, calls, unload>>
           ELSE \E i \in mine :
                LET h == jobs[i].handle
                    s == IF Resolves(slots, h) /\ ~Terminal(jobs[i])
                         THEN FinishSlot(slots, h, "Cancelled") ELSE slots
                IN  /\ \A i2 \in mine : i <= i2
                    /\ UNCHANGED main
                    /\ IF jobs[i].built
                       THEN /\ jobs' = IF Terminal(jobs[i]) THEN jobs ELSE Finish(i, "Cancelled")
                            /\ calls' = <<[NewCall("dtor", h) EXCEPT
                                             !.found = Resolves(slots, h)]>>
                            /\ slots' = IF Resolves(slots, h)
                                        THEN [s EXCEPT ![KeyOf(h)].retiring = TRUE] ELSE s
                            /\ UNCHANGED unload
                       ELSE /\ jobs' = EraseJob(i)
                            /\ slots' = s
                            /\ unload' = TryUnload(s, h)
                            /\ UNCHANGED calls
    /\ UNCHANGED <<size, free, cache>>

\* cancel_all: every job is finished first, then the loaders are destroyed one
\* by one, then the list is cleared.
CancelAllNext ==
    /\ InMain("cancelAll")
    /\ IF main.index \notin DOMAIN jobs
       THEN /\ jobs' = <<>>
            /\ main' = [main EXCEPT !.op = "destroyAll", !.index = 0]
            /\ UNCHANGED <<slots, calls>>
       ELSE LET h == jobs[main.index].handle
                found == Resolves(slots, h)
            IN  /\ main' = [main EXCEPT !.index = @ + 1]
                /\ UNCHANGED jobs
                /\ IF jobs[main.index].built
                   THEN /\ calls' = <<[NewCall("dtor", h) EXCEPT !.found = found, !.erase = FALSE]>>
                        /\ slots' = IF found THEN [slots EXCEPT ![KeyOf(h)].retiring = TRUE] ELSE slots
                   ELSE UNCHANGED <<slots, calls>>
    /\ UNCHANGED <<size, free, cache, unload>>
=============================================================================
