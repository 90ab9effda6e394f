-------------------------- MODULE AssetSystem_proofs --------------------------
(***************************************************************************)
(* Proofs about the asset system, second part: requests, references, forced*)
(* unloading and shutdown keep the invariant, and what it says to clients.  *)
(***************************************************************************)
EXTENDS AssetStorage_proofs

-----------------------------------------------------------------------------
(* The destroy callback of a loader returns                                 *)

\* The field built of a job says nothing to the invariant.
LEMMA JobUnbuilt ==
    ASSUME TypeOK, AssetInv, NEW x, NEW i \in JobsOf(x), jobs' = [jobs EXCEPT ![i].built = FALSE]
    PROVE  /\ GoodJobs(jobs')
           /\ \A h : h \in Queued' <=> h \in Queued
           /\ \A h : h \in Open' <=> h \in Open
  <1>1. /\ i \in DOMAIN jobs /\ jobs[i] \in Job /\ jobs[i].handle = x /\ jobs[i].optional = {}
        /\ (x \in Open <=> ~Terminal(jobs[i]))
        /\ GoodJobs(jobs) /\ jobs \in Seq(Job)
    BY OpenJob
  <1>2. PICK f : f = [jobs[i] EXCEPT !.built = FALSE]
    OBVIOUS
  <1>3. f \in Job /\ f.handle = x /\ f.optional = {} /\ (Terminal(f) <=> Terminal(jobs[i]))
    BY <1>1, <1>2 DEF Job, Terminal
  <1>4. jobs' = [jobs EXCEPT ![i] = f]
    BY <1>2
  <1>5. LET r == [jobs EXCEPT ![i] = f]
        IN  /\ GoodJobs(r) /\ HandlesOf(r) = HandlesOf(jobs)
            /\ Terminal(f) => OpenOf(r) = OpenOf(jobs) \ {f.handle}
            /\ ~Terminal(f) => OpenOf(r) = OpenOf(jobs) \cup {f.handle}
    BY <1>1, <1>3, JobsEdited
  <1>6. /\ GoodJobs(jobs') /\ HandlesOf(jobs') = HandlesOf(jobs)
        /\ Terminal(f) => OpenOf(jobs') = OpenOf(jobs) \ {x}
        /\ ~Terminal(f) => OpenOf(jobs') = OpenOf(jobs) \cup {x}
    BY <1>3, <1>4, <1>5
  <1> QED
    BY <1>1, <1>3, <1>6 DEF Queued, Open

\* retiring is reset in the slot of x, whoever has it now.
LEMMA TouchesReset ==
    ASSUME TypeOK, NEW x \in Handle, slots' = [slots EXCEPT ![KeyOf(x)].retiring = FALSE]
    PROVE  /\ Touches(x)
           /\ slots'[KeyOf(x)].state = slots[KeyOf(x)].state
           /\ slots'[KeyOf(x)].pin = slots[KeyOf(x)].pin
           /\ slots'[KeyOf(x)].dependencies = slots[KeyOf(x)].dependencies
           /\ slots'[KeyOf(x)].dependents = slots[KeyOf(x)].dependents
           /\ ~slots'[KeyOf(x)].retiring
  <1>1. slots \in [Key -> Slot] /\ KeyOf(x) \in Key
    BY TypeParts, KeyFacts
  <1>2. PICK t : t = [slots EXCEPT ![KeyOf(x)].retiring = FALSE]
    OBVIOUS
  <1>3. /\ SameGraph(slots, t)
        /\ \A k \in Key : /\ t[k].pin = slots[k].pin /\ t[k].state = slots[k].state
                          /\ k # KeyOf(x) => (t[k].retiring <=> slots[k].retiring)
                          /\ k = KeyOf(x) => ~t[k].retiring
    BY <1>1, <1>2, RetiringWrites DEF SameGraph
  <1>4. \A k \in Key : t[k].retiring => slots[k].retiring
    BY <1>3
  <1>5. \A h \in Live(slots) : KeyOf(h) \in Key
    BY <1>1, LiveHandle
  <1>6. slots' = t
    BY <1>2
  <1> QED
    BY <1>1, <1>3, <1>4, <1>5, <1>6 DEF Touches, SameGraph

LEMMA JobsDtorReturn ==
    ASSUME TypeOK, TypeOK', AssetInv, DtorReturn
    PROVE  AssetInv'
  <1> DEFINE x == Top.handle
  <1>1. /\ unload = <<>> /\ calls # <<>> /\ Top.op = "dtor" /\ calls' = Below
        /\ UNCHANGED <<size, free, cache, main>>
    BY DEF DtorReturn, InCallback
  <1>2. ~Ending /\ MainInv' /\ CallInv
    BY <1>1, InsideFacts DEF AssetInv
  <1>3. /\ Below \in Seq(Call) /\ Top \in Call /\ x \in Handle /\ FrameOK(Top)
        /\ Pairs(Below) /\ Fits(Top, Below)
        /\ \A h : h \in Dtors <=> h \in DtorsOf(Below) \/ h = x
        /\ \A d : In(d, Below) => d \in Call /\ FrameOK(d)
    BY <1>1, <1>2, Popped
  <1>4. /\ ~Top.dangling /\ Known(x) /\ x \in Queued /\ (Top.erase => x \notin Open)
        /\ (~Top.found => Gone(x))
    BY <1>1, <1>3 DEF FrameOK
  <1>5. SettledBase(x, Below)
    BY <1>1, <1>3 DEF SettledBase, Fits, SameBut
  <1>6. PICK i \in JobsOf(x) :
          LET s == IF Top.found THEN [slots EXCEPT ![KeyOf(x)].retiring = FALSE] ELSE slots
          IN  /\ slots' = s
              /\ IF Top.erase
                 THEN /\ jobs' = EraseJob(i)
                      /\ unload' = IF Top.found THEN TryUnload(s, x) ELSE <<>>
                 ELSE /\ jobs' = [jobs EXCEPT ![i].built = FALSE]
                      /\ UNCHANGED unload
    BY <1>4 DEF DtorReturn
  <1> HIDE DEF x
  <1>7. slots' = IF Top.found THEN [slots EXCEPT ![KeyOf(x)].retiring = FALSE] ELSE slots
    BY <1>6
  <1>8. /\ Top.erase => /\ jobs' = EraseJob(i)
                        /\ unload' = IF Top.found THEN TryUnload(slots', x) ELSE <<>>
        /\ ~Top.erase => /\ jobs' = [jobs EXCEPT ![i].built = FALSE]
                         /\ unload' = unload
    BY <1>6
  <1>9. Touches(x)
    <2>1. CASE Top.found
      BY <1>3, <1>7, <2>1, TouchesReset
    <2>2. CASE ~Top.found
      BY <1>7, <2>2, TouchesNothing
    <2> QED
      BY <2>1, <2>2
  <1>10. x \in Live(slots) =>
           /\ slots'[KeyOf(x)].state = slots[KeyOf(x)].state
           /\ slots'[KeyOf(x)].pin = slots[KeyOf(x)].pin
           /\ slots'[KeyOf(x)].dependencies = slots[KeyOf(x)].dependencies
           /\ slots'[KeyOf(x)].dependents = slots[KeyOf(x)].dependents
           /\ ~slots'[KeyOf(x)].retiring
    <2>1. x \in Live(slots) => Top.found
      BY <1>3, <1>4, ResolvedLive
    <2> QED
      BY <1>3, <1>7, <2>1, TouchesReset
  <1>11. x \in Live(slots) =>
           /\ slots[KeyOf(x)].state = "PENDING_DELETE" => slots[KeyOf(x)].pin = 0
           /\ slots[KeyOf(x)].state \in InProgress => x \in Open
           /\ \/ slots[KeyOf(x)].pin > 0 \/ slots[KeyOf(x)].dependents # {}
              \/ x \in Queued \/ x \in Unloading
    BY <1>2, <1>3, KeyFacts DEF AssetInv, PinInv, StateInv
  <1>12. CASE Top.erase
    <2>1. Tries(x)
      <3>1. CASE Top.found
        BY <1>1, <1>8, <1>12, <3>1 DEF Tries
      <3>2. CASE ~Top.found
        <4>1. ~Resolves(slots', x)
          BY <1>3, <1>4, <1>7, <3>2, ResolvedLive
        <4> QED
          BY <1>1, <1>8, <1>12, <3>2, <4>1 DEF Tries, TryUnload
      <3> QED
        BY <3>1, <3>2
    <2>2. x \in Live(slots) =>
              /\ slots'[KeyOf(x)].state \notin InProgress
              /\ slots'[KeyOf(x)].state = "PENDING_DELETE" => slots'[KeyOf(x)].pin = 0
              /\ ~slots'[KeyOf(x)].retiring
      BY <1>4, <1>10, <1>11, <1>12
    <2>3. jobs' = EraseJob(i)
      BY <1>8, <1>12
    <2>4. UNCHANGED <<size, free, cache>>
      BY <1>1
    <2> QED
      BY <1>1, <1>2, <1>5, <1>6, <1>9, <2>1, <2>2, <2>3, <2>4, EraseStep
  <1>13. CASE ~Top.erase
    <2>1. /\ GoodJobs(jobs') /\ \A h : h \in Queued' <=> h \in Queued
          /\ \A h : h \in Open' <=> h \in Open
      BY <1>6, <1>8, <1>13, JobUnbuilt
    <2>2. unload' = unload /\ Starts
      BY <1>8, <1>13 DEF Starts
    <2>3. WorksOn(x)
      <3>1. SameBut(Dtors, Dtors', x)
        BY <1>1, <1>5 DEF SettledBase, Dtors
      <3>2. SameBut(Queued, Queued', x) /\ SameBut(Open, Open', x) /\ SameBut(Unloading, Unloading', x)
        BY <2>1, <2>2 DEF SameBut, Unloading
      <3> QED
        BY <1>9, <3>1, <3>2 DEF WorksOn, Touches
    <2>4. LeavesWell(x)
      <3>1. x \in Open =>
              /\ x \in Live(slots) /\ x \notin Unloading
              /\ slots[KeyOf(x)].state \in InProgress \cup {"PENDING_DELETE"}
              /\ slots[KeyOf(x)].dependencies = {} /\ slots[KeyOf(x)].dependents = {}
        BY <1>2 DEF AssetInv, JobInv
      <3>2. \A h : h \in Unloading' <=> h \in Unloading
        BY <2>2 DEF Unloading
      <3> QED
        BY <1>4, <1>10, <1>11, <2>1, <3>1, <3>2 DEF LeavesWell
    <2>5. CallsOn(x, Below)
      BY <1>1, <1>5 DEF SettledBase, CallsOn
    <2>6. UNCHANGED <<size, free, cache>>
      BY <1>1
    <2> QED
      BY <1>2, <2>1, <2>2, <2>3, <2>4, <2>5, <2>6, AssetStep
  <1> QED
    BY <1>12, <1>13

-----------------------------------------------------------------------------
(* Steps of the loops, and requests that touch no asset                     *)

LEMMA JobsLoops ==
    ASSUME TypeOK, TypeOK', AssetInv,
           \/ Process \/ DrainLoads \/ ProcessEnd \/ DrainPassEnd
           \/ \E t \in Types : ForceUnload(t)
    PROVE  AssetInv'
  <1>1. main \in Main
    BY TypeParts
  <1>2. /\ unload = <<>> /\ calls = <<>> /\ main.op \in {"idle", "process", "drain"}
        /\ UNCHANGED <<slots, size, free, cache, unload, jobs, calls>>
    BY DEF Process, DrainLoads, ProcessEnd, DrainPassEnd, ForceUnload, InMain
  <1>3. main'.op \in {"idle", "process", "drain", "cancelType"}
    <2>1. CASE Process \/ DrainLoads \/ ProcessEnd
      <3>1. Process => main'.op = "process"
        BY DEF Process, Idle
      <3>2. DrainLoads => main'.op = "drain"
        BY DEF DrainLoads, Idle
      <3>3. ProcessEnd => main'.op = "idle"
        BY DEF ProcessEnd, Idle
      <3> QED
        BY <2>1, <3>1, <3>2, <3>3
    <2>2. CASE DrainPassEnd
      <3>1. CASE main' = Idle
        BY <3>1 DEF Idle
      <3>2. CASE main' = [main EXCEPT !.next = FirstJob, !.left = Len(jobs),
                                      !.before = Len(jobs), !.progress = FALSE]
        BY <1>1, <1>2, <3>2 DEF Main
      <3> QED
        BY <2>2, <3>1, <3>2 DEF DrainPassEnd
    <2>3. CASE \E t \in Types : ForceUnload(t)
      BY <2>3 DEF ForceUnload, Idle
    <2> QED
      BY <2>1, <2>2, <2>3
  <1>4. MainInv' /\ ~Ending
    BY <1>2, <1>3 DEF MainInv, Ending
  <1> QED
    BY <1>2, <1>4, KeptCalls, AssetStill

\* A step declares a required dependency.
LEMMA DependencyAdded ==
    ASSUME TypeOK, AssetInv, NEW d, AddDependency(d, "required")
    PROVE  /\ GoodJobs(jobs')
           /\ \A h : h \in Queued' <=> h \in Queued
           /\ \A h : h \in Open' <=> h \in Open
  <1> DEFINE x == Top.handle
  <1>1. calls # <<>> /\ Top.op = "step" /\ CallInv
    BY DEF AddDependency, InCallback, AssetInv
  <1>2. x \in Open
    BY <1>1, Popped DEF FrameOK
  <1>3. PICK i \in JobsOf(x) :
          /\ d \in Dependable(x.type)
          /\ jobs' = [jobs EXCEPT ![i].required = @ \cup {d}, ![i].optional = @ \ {d}]
    BY DEF AddDependency
  <1>4. /\ i \in DOMAIN jobs /\ jobs[i] \in Job /\ jobs[i].handle = x /\ jobs[i].optional = {}
        /\ ~Terminal(jobs[i]) /\ jobs \in Seq(Job)
    BY <1>2, <1>3, OpenJob
  <1>5. d \in Handle \cup {NoHandle}
    BY <1>3, TypeParts, LiveHandle DEF Dependable
  <1>6. PICK e : e = jobs[i]
    OBVIOUS
  <1>7. PICK f : f = [e EXCEPT !.required = @ \cup {d}, !.optional = @ \ {d}]
    OBVIOUS
  <1>8. f \in Job /\ f.handle = x /\ f.optional = {} /\ ~Terminal(f)
    BY <1>4, <1>5, <1>6, <1>7 DEF Job, Terminal
  <1>9. jobs' = [jobs EXCEPT ![i] = f]
    BY <1>3, <1>4, <1>6, <1>7
  <1> HIDE DEF x
  <1> QED
    BY <1>3, <1>4, <1>8, <1>9, JobEdited

LEMMA JobsAddDependency ==
    ASSUME TypeOK, TypeOK', AssetInv, NEW d, AddDependency(d, "required")
    PROVE  AssetInv'
  <1>1. /\ unload = <<>> /\ calls # <<>>
        /\ UNCHANGED <<slots, size, free, cache, unload, calls, main>>
    BY DEF AddDependency, InCallback
  <1>2. ~Ending /\ MainInv'
    BY <1>1, InsideFacts
  <1> QED
    BY <1>1, <1>2, DependencyAdded, KeptCalls, AssetSame

-----------------------------------------------------------------------------
(* References                                                               *)

LEMMA DtorsQueued ==
    ASSUME TypeOK, AssetInv
    PROVE  Dtors \subseteq Queued
  BY DEF AssetInv, CallInv, FrameOK, Dtors, DtorsOf

\* What release does to the asset x.
Releases(x) ==
    /\ unload = <<>> /\ CanRelease(slots, x)
    /\ slots' = ReleaseSlots(slots, x) /\ unload' = ReleaseUnload(slots, x)

LEMMA ReleaseChange ==
    ASSUME TypeOK, TypeOK', NEW x \in Live(slots), Releases(x)
    PROVE  LET l == KeyOf(x)
               marked == slots'[l].pin = 0 /\ (slots[l].retiring \/ slots[l].state \in InProgress)
           IN  /\ SameGraph(slots, slots')
               /\ slots[l].pin > 0
               /\ \A k \in Key : /\ slots'[k].pin <= slots[k].pin
                                 /\ (slots'[k].retiring <=> slots[k].retiring)
                                 /\ H(k) \notin slots[l].dependencies /\ k # l
                                      => slots'[k].pin = slots[k].pin
                                 /\ k # l => slots'[k].state = slots[k].state
               /\ marked => slots'[l].state = "PENDING_DELETE"
               /\ ~marked => slots'[l].state = slots[l].state
  <1> DEFINE l == KeyOf(x)
  <1>1. slots \in [Key -> Slot] /\ x \in Handle /\ l \in Key /\ slots[l].pin > 0
    BY TypeParts, LiveHandle DEF Releases, CanRelease
  <1>2. PICK m \in Key : m = KeyOf(x)
    BY <1>1
  <1>3. PICK t : t = ReleaseSlots(slots, x)
    OBVIOUS
  <1>4. LET u == ReleaseSlots(slots, x)
            l2 == KeyOf(x)
            marked == u[l2].pin = 0 /\ (slots[l2].retiring \/ slots[l2].state \in InProgress)
        IN  /\ u \in [Key -> Slot]
            /\ SameGraph(slots, u)
            /\ \A k \in Key : /\ u[k].pin <= slots[k].pin
                              /\ (u[k].retiring <=> slots[k].retiring)
                              /\ HandleAt(slots, k) \notin slots[l2].dependencies /\ k # l2
                                   => u[k].pin = slots[k].pin
                              /\ u[k].state = IF k = l2 /\ marked THEN "PENDING_DELETE"
                                                                 ELSE slots[k].state
    BY <1>1, ReleaseFacts
  <1>5. slots' = ReleaseSlots(slots, x)
    BY DEF Releases
  <1> QED
    BY <1>1, <1>4, <1>5 DEF H

\* The callbacks stay in order when no job comes, ends or goes.
LEMMA CallsKept ==
    ASSUME TypeOK, TypeOK', NEW x, KeepsOthers(x), \A h : h \in Queued' <=> h \in Queued,
           \A h : h \in Open' <=> h \in Open, NEW cs, Kept(cs), calls' = cs
    PROVE  CallInv'
  <1>1. ASSUME NEW c \in Call, In(c, calls') PROVE FrameOK(c)'
    <2>1. FrameOK(c) /\ c.handle \in Handle
      BY <1>1 DEF Kept, Call
    <2>2. (Known(c.handle)' <=> Known(c.handle)) /\ (Gone(c.handle)' <=> Gone(c.handle))
      BY <2>1, SameLive DEF KeepsOthers
    <2> QED
      BY <2>1, <2>2 DEF FrameOK
  <1>2. Pairs(calls')
    BY DEF Kept
  <1> QED
    BY <1>1, <1>2, CallsRight

LEMMA ReleaseStep ==
    ASSUME TypeOK, TypeOK', AssetInv, ~Ending, UNCHANGED <<size, free, cache, jobs, main>>,
           NEW x \in Live(slots), Releases(x), MainInv', NEW cs, Kept(cs), calls' = cs
    PROVE  AssetInv'
  <1> DEFINE l == KeyOf(x)
             marked == slots'[l].pin = 0 /\ (slots[l].retiring \/ slots[l].state \in InProgress)
  <1>1. /\ slots \in [Key -> Slot] /\ slots' \in [Key -> Slot]
        /\ x \in Handle /\ l \in Key /\ slots[l].state # "EMPTY" /\ H(l) = x
        /\ unload = <<>>
    BY TypeParts, TypePrimes, LiveHandle DEF H, Releases
  <1>2. /\ SameGraph(slots, slots')
        /\ slots[l].pin > 0
        /\ \A k \in Key : /\ slots'[k].pin <= slots[k].pin
                          /\ (slots'[k].retiring <=> slots[k].retiring)
                          /\ H(k) \notin slots[l].dependencies /\ k # l
                               => slots'[k].pin = slots[k].pin
                          /\ k # l => slots'[k].state = slots[k].state
        /\ marked => slots'[l].state = "PENDING_DELETE"
        /\ ~marked => slots'[l].state = slots[l].state
    BY ReleaseChange
  <1>3. \A k \in Key : /\ slots'[k].generation = slots[k].generation
                       /\ slots'[k].state = "EMPTY" <=> slots[k].state = "EMPTY"
                       /\ slots'[k].dependencies = slots[k].dependencies
                       /\ slots'[k].dependents = slots[k].dependents
    BY <1>1, <1>2 DEF SameGraph
  <1>4. /\ \A h : h \in Dtors' <=> h \in Dtors
        /\ \A h : h \in Queued' <=> h \in Queued
        /\ \A h : h \in Open' <=> h \in Open
        /\ \A h : h \notin Unloading
        /\ GoodJobs(jobs')
    BY <1>1 DEF Dtors, Kept, Queued, Open, Unloading, AssetInv, JobInv
  <1>5. slots[l].state # "PENDING_DELETE"
    BY <1>1, <1>2 DEF AssetInv, PinInv
  <1>6. x \in Open => slots[l].state \in InProgress
    BY <1>5 DEF AssetInv, JobInv
  <1>7. /\ slots[l].state \in InProgress => x \in Open
        /\ slots[l].retiring => x \in Dtors /\ x \in Queued
    BY DtorsQueued DEF AssetInv, StateInv
  <1>8. /\ slots[l].retiring \/ slots[l].state \in InProgress => unload' = <<>>
        /\ ~(slots[l].retiring \/ slots[l].state \in InProgress) => Tries(x)
    <2>1. unload' = ReleaseUnload(slots, x) /\ slots' = ReleaseSlots(slots, x)
      BY DEF Releases
    <2> QED
      BY <1>1, <2>1 DEF ReleaseUnload, Tries
  <1>9. Starts
    <2>1. CASE slots[l].retiring \/ slots[l].state \in InProgress
      BY <1>1, <1>8, <2>1 DEF Starts
    <2>2. CASE ~(slots[l].retiring \/ slots[l].state \in InProgress)
      BY <1>1, <1>3, <1>8, <2>2, TriesStarts DEF Known
    <2> QED
      BY <2>1, <2>2
  <1>10. \A h : h \in Unloading' => h = x
    <2>1. CASE slots[l].retiring \/ slots[l].state \in InProgress
      BY <1>8, <2>1 DEF Unloading
    <2>2. CASE ~(slots[l].retiring \/ slots[l].state \in InProgress)
      BY <1>8, <2>2, TriesFacts
    <2> QED
      BY <2>1, <2>2
  <1> HIDE DEF l, marked
  <1>11. StorageInv'
    <2>1. StorageInv
      BY DEF AssetInv
    <2>2. UNCHANGED <<size, free, cache>> /\ (Ending => Ending')
      OBVIOUS
    <2>3. \A k \in Key : slots'[k].state = "EMPTY" <=> slots[k].state = "EMPTY"
      BY <1>3
    <2> QED
      BY <1>2, <1>9, <2>1, <2>2, <2>3, StorageCalm
  <1>12. KeepsOthers(x)
    <2>1. ASSUME NEW h \in Live(slots), h # x
          PROVE  /\ slots'[KeyOf(h)].state = slots[KeyOf(h)].state
                 /\ slots'[KeyOf(h)].retiring => slots[KeyOf(h)].retiring
                 /\ slots[KeyOf(h)].state = "PENDING_DELETE" =>
                      slots'[KeyOf(h)].pin = slots[KeyOf(h)].pin
                 /\ \/ slots'[KeyOf(h)].pin > 0 \/ slots'[KeyOf(h)].dependents # {}
                    \/ h \in Queued' \/ h \in Unloading'
                 /\ h \in Open => /\ h \notin Unloading'
                                  /\ slots'[KeyOf(h)].dependencies = {}
                                  /\ slots'[KeyOf(h)].dependents = {}
      <3>1. h \in Handle /\ KeyOf(h) \in Key /\ H(KeyOf(h)) = h /\ KeyOf(h) # l
        BY <1>1, <2>1, LiveHandle DEF H
      <3>2. PICK k \in Key : k = KeyOf(h)
        BY <3>1
      <3>3. slots[k].pin \in Nat /\ slots'[k].pin \in Nat
        BY <1>1 DEF Slot
      <3>4. slots[k].state = "PENDING_DELETE" => slots[k].pin = 0 /\ slots'[k].pin <= 0
        BY <1>2 DEF AssetInv, PinInv
      <3>5. slots[k].state = "PENDING_DELETE" => slots'[k].pin = slots[k].pin
        BY <3>3, <3>4
      <3>6. \/ slots[k].pin > 0 \/ slots[k].dependents # {} \/ h \in Queued
        BY <1>4, <3>2 DEF AssetInv, StateInv
      <3>7. h \in slots[l].dependencies => slots[k].dependents # {}
        <4>1. ASSUME h \in slots[l].dependencies PROVE slots[k].dependents # {}
          <5>1. Edge(l, h)
            BY <1>1, <4>1 DEF Edge
          <5> QED
            BY <1>1, <3>2, <4>1, <5>1 DEF AssetInv, StorageInv, GraphInv
        <4> QED
          BY <4>1
      <3>8. \/ slots'[k].pin > 0 \/ slots'[k].dependents # {} \/ h \in Queued'
        <4>1. CASE h \in slots[l].dependencies
          BY <1>3, <3>7, <4>1
        <4>2. CASE h \notin slots[l].dependencies
          BY <1>2, <1>3, <1>4, <3>1, <3>2, <3>6, <4>2
        <4> QED
          BY <4>1, <4>2
      <3>9. h \in Open => slots[k].dependencies = {} /\ slots[k].dependents = {}
        BY <3>2 DEF AssetInv, JobInv
      <3> QED
        BY <1>2, <1>3, <1>10, <2>1, <3>1, <3>2, <3>5, <3>8, <3>9
    <2>2. SameBut(Queued, Queued', x) /\ SameBut(Open, Open', x)
      BY <1>4 DEF SameBut
    <2> QED
      BY <1>3, <1>4, <2>1, <2>2 DEF KeepsOthers
  <1>13. LeavesWell(x)
    <2>1. ASSUME x \in Open'
          PROVE  /\ x \in Live(slots) /\ x \notin Unloading'
                 /\ slots'[l].state \in InProgress \cup {"PENDING_DELETE"}
                 /\ slots'[l].dependencies = {} /\ slots'[l].dependents = {}
      <3>1. x \in Open /\ slots[l].state \in InProgress
        BY <1>4, <1>6, <2>1
      <3>2. slots[l].dependencies = {} /\ slots[l].dependents = {}
        BY <3>1 DEF AssetInv, JobInv, l
      <3>3. x \notin Unloading'
        BY <1>8, <3>1 DEF Unloading
      <3> QED
        BY <1>1, <1>2, <1>3, <3>1, <3>2, <3>3
    <2>2. slots'[l].state = "PENDING_DELETE" => slots'[l].pin = 0
      BY <1>2, <1>5 DEF marked
    <2>3. slots'[l].state \in InProgress => x \in Open'
      BY <1>2, <1>4, <1>7 DEF InProgress
    <2>4. slots'[l].retiring => x \in Dtors'
      BY <1>1, <1>2, <1>4, <1>7
    <2>5. \/ slots'[l].pin > 0 \/ slots'[l].dependents # {} \/ x \in Queued' \/ x \in Unloading'
      <3>1. CASE slots[l].retiring \/ slots[l].state \in InProgress
        BY <1>4, <1>7, <3>1, QueueTypes
      <3>2. CASE ~(slots[l].retiring \/ slots[l].state \in InProgress)
        <4>1. x \in Live(slots')
          BY <1>3, SameLive
        <4>2. Resolves(slots', x) /\ slots'[l].pin \in Nat
          BY <1>1, <4>1, LiveFacts DEF Slot
        <4>3. Resolves(slots', x) /\ slots'[l].pin = 0 /\ slots'[l].dependents = {}
                => x \in Unloading'
          BY <1>8, <3>2, TriesFacts DEF l
        <4> QED
          BY <4>2, <4>3
      <3> QED
        BY <3>1, <3>2
    <2> QED
      BY <2>1, <2>2, <2>3, <2>4, <2>5 DEF LeavesWell, Known, l
  <1>14. CallInv'
    BY <1>4, <1>12, CallsKept
  <1>15. JobInv' /\ PinInv' /\ StateInv'
    BY <1>4, <1>12, <1>13, JobsStep DEF AssetInv
  <1> QED
    BY <1>11, <1>14, <1>15 DEF AssetInv

LEMMA JobsRelease ==
    ASSUME TypeOK, TypeOK', AssetInv, NEW x \in Live(slots), Release(x), unload = <<>>,
           ~Ending, MainInv'
    PROVE  AssetInv'
  <1>1. UNCHANGED <<size, free, cache, jobs, main>> /\ calls' = calls
    BY DEF Release
  <1>2. CASE CanRelease(slots, x)
    <2>1. Releases(x)
      BY <1>2 DEF Release, Releases
    <2> QED
      BY <1>1, <2>1, KeptCalls, ReleaseStep
  <1>3. CASE ~CanRelease(slots, x)
    <2>1. UNCHANGED <<slots, unload>>
      BY <1>3 DEF Release
    <2> QED
      BY <1>1, <2>1, KeptCalls, AssetStill
  <1> QED
    BY <1>2, <1>3

LEMMA JobsBuildReturn ==
    ASSUME TypeOK, TypeOK', AssetInv, BuildReturn
    PROVE  AssetInv'
  <1> DEFINE x == Top.handle
  <1>1. /\ unload = <<>> /\ calls # <<>> /\ Top.op = "build" /\ calls' = Below
        /\ UNCHANGED <<size, free, cache, jobs, main>>
    BY DEF BuildReturn, InCallback
  <1>2. ~Ending /\ MainInv' /\ CallInv
    BY <1>1, InsideFacts DEF AssetInv
  <1>3. FrameOK(Top) /\ x \in Handle /\ Kept(Below)
    BY <1>1, <1>2, Popped, KeptBelow
  <1>4. CASE Top.outcome \in {"Failed", "Cancelled"} /\ CanRelease(slots, x)
    <2>1. slots' = ReleaseSlots(slots, x) /\ unload' = ReleaseUnload(slots, x)
      BY <1>4 DEF BuildReturn
    <2>2. x \in Live(slots)
      BY <1>3, <1>4, ResolvedLive DEF CanRelease, FrameOK
    <2>3. Releases(x)
      BY <1>1, <1>4, <2>1 DEF Releases
    <2> HIDE DEF x
    <2> QED
      BY <1>1, <1>2, <1>3, <2>2, <2>3, ReleaseStep
  <1>5. CASE ~(Top.outcome \in {"Failed", "Cancelled"} /\ CanRelease(slots, x))
    <2>1. UNCHANGED <<slots, unload>>
      BY <1>5 DEF BuildReturn
    <2> QED
      BY <1>1, <1>2, <1>3, <2>1, AssetStill
  <1> QED
    BY <1>4, <1>5

LEMMA JobsRetain ==
    ASSUME TypeOK, TypeOK', AssetInv, NEW x \in Live(slots), Retain(x), unload = <<>>,
           ~Ending, MainInv'
    PROVE  AssetInv'
  <1>1. UNCHANGED <<size, free, cache, unload, jobs, main>> /\ calls' = calls
    BY DEF Retain
  <1>2. slots \in [Key -> Slot] /\ slots' \in [Key -> Slot]
    BY TypeParts, TypePrimes
  <1>3. PICK l \in Key : l = KeyOf(x)
    BY <1>2, LiveHandle
  <1>4. /\ slots[l].state # "PENDING_DELETE"
        /\ LET s == [slots EXCEPT ![l].pin = @ + 1]
           IN  slots' = PinCommitted(s, s[l].dependencies)
    BY <1>3 DEF Retain
  <1>5. LET s1 == [slots EXCEPT ![l].pin = @ + 1]
            t == PinCommitted(s1, s1[l].dependencies)
        IN  /\ t \in [Key -> Slot]
            /\ SameGraph(slots, t)
            /\ \A k \in Key : /\ t[k].pin >= slots[k].pin
                              /\ (t[k].retiring <=> slots[k].retiring)
                              /\ t[k].state = slots[k].state
                              /\ slots[k].state = "PENDING_DELETE" => t[k].pin = slots[k].pin
    BY <1>2, <1>4, RetainFacts
  <1>6. /\ SameGraph(slots, slots')
        /\ \A k \in Key : /\ slots'[k].pin >= slots[k].pin
                          /\ (slots'[k].retiring <=> slots[k].retiring)
                          /\ slots'[k].state = slots[k].state
                          /\ slots[k].state = "PENDING_DELETE" => slots'[k].pin = slots[k].pin
    BY <1>4, <1>5
  <1>7. PICK y : y = NoHandle
    OBVIOUS
  <1>8. y \notin Live(slots) /\ y \notin Queued /\ y \notin Open
    BY <1>7, NobodyFacts
  <1>9. /\ \A h : h \in Dtors' <=> h \in Dtors
        /\ \A h : h \in Queued' <=> h \in Queued
        /\ \A h : h \in Open' <=> h \in Open
        /\ \A h : h \notin Unloading
        /\ \A h : h \notin Unloading'
        /\ GoodJobs(jobs') /\ Starts
    BY <1>1 DEF Dtors, Queued, Open, Unloading, AssetInv, JobInv, Starts
  <1>10. StorageInv'
    <2>1. StorageInv /\ (Ending => Ending') /\ UNCHANGED <<size, free, cache>>
      BY <1>1 DEF AssetInv
    <2> QED
      BY <1>6, <1>9, <2>1, StorageCalm
  <1>11. KeepsOthers(y)
    <2>1. ASSUME NEW h \in Live(slots)
          PROVE  /\ slots'[KeyOf(h)].state = slots[KeyOf(h)].state
                 /\ slots'[KeyOf(h)].retiring => slots[KeyOf(h)].retiring
                 /\ slots[KeyOf(h)].state = "PENDING_DELETE" =>
                      slots'[KeyOf(h)].pin = slots[KeyOf(h)].pin
                 /\ \/ slots'[KeyOf(h)].pin > 0 \/ slots'[KeyOf(h)].dependents # {}
                    \/ h \in Queued' \/ h \in Unloading'
                 /\ h \in Open => /\ h \notin Unloading'
                                  /\ slots'[KeyOf(h)].dependencies = {}
                                  /\ slots'[KeyOf(h)].dependents = {}
      <3>1. PICK k \in Key : k = KeyOf(h)
        BY <1>2, LiveHandle
      <3>2. \/ slots[k].pin > 0 \/ slots[k].dependents # {} \/ h \in Queued
        BY <1>9, <3>1 DEF AssetInv, StateInv
      <3>3. h \in Open => slots[k].dependencies = {} /\ slots[k].dependents = {}
        BY <3>1 DEF AssetInv, JobInv
      <3>4. slots[k].pin \in Nat /\ slots'[k].pin \in Nat
        BY <1>2 DEF Slot
      <3>5. slots'[k].pin > 0 \/ ~(slots[k].pin > 0)
        BY <1>6, <3>4
      <3> QED
        BY <1>6, <1>9, <3>1, <3>2, <3>3, <3>5 DEF SameGraph
    <2>2. SameBut(Queued, Queued', y) /\ SameBut(Open, Open', y)
      BY <1>9 DEF SameBut
    <2> QED
      BY <1>6, <1>9, <2>1, <2>2 DEF KeepsOthers, SameGraph
  <1>12. LeavesWell(y)
    BY <1>8, <1>9 DEF LeavesWell
  <1>13. CallsOn(y, calls)
    BY <1>1, <1>7, KeptCalls, KeptOn
  <1> QED
    BY <1>9, <1>10, <1>11, <1>12, <1>13, AssetChange

-----------------------------------------------------------------------------
(* cancel_type and cancel_all                                               *)

\* The slot of a job that is cancelled.
LEMMA CancelTouches ==
    ASSUME TypeOK, NEW x \in Live(slots), NEW s, s = FinishSlot(slots, x, "Cancelled"),
           slots' = s \/ slots' = [s EXCEPT ![KeyOf(x)].retiring = TRUE]
    PROVE  /\ Touches(x)
           /\ slots'[KeyOf(x)].state = "FAILED" /\ slots'[KeyOf(x)].pin = slots[KeyOf(x)].pin
           /\ slots' = s => (slots'[KeyOf(x)].retiring <=> slots[KeyOf(x)].retiring)
  <1>1. slots \in [Key -> Slot]
    BY TypeParts
  <1>2. x \in Handle /\ KeyOf(x) \in Key /\ H(KeyOf(x)) = x /\ slots[KeyOf(x)].state # "EMPTY"
    BY <1>1, LiveHandle DEF H
  <1>3. /\ s \in [Key -> Slot] /\ SameGraph(slots, s)
        /\ \A k \in Key : /\ s[k].pin = slots[k].pin /\ (s[k].retiring <=> slots[k].retiring)
                          /\ s[k].state = IF k = KeyOf(x) THEN "FAILED" ELSE slots[k].state
    BY <1>1, <1>2, FinishSlotFacts
  <1>4. PICK t : t = slots'
    OBVIOUS
  <1>5. /\ SameGraph(s, t)
        /\ \A k \in Key : /\ t[k].pin = s[k].pin /\ t[k].state = s[k].state
                          /\ k # KeyOf(x) => (t[k].retiring <=> s[k].retiring)
    <2>1. CASE t = s
      BY <2>1 DEF SameGraph
    <2>2. CASE t = [s EXCEPT ![KeyOf(x)].retiring = TRUE]
      BY <1>2, <1>3, <2>2, RetiringWrites DEF SameGraph
    <2> QED
      BY <1>4, <2>1, <2>2
  <1>6. SameGraph(slots, t)
    BY <1>3, <1>5, SameGraphTransitive
  <1>7. \A h \in Live(slots) : h # x => KeyOf(h) \in Key /\ KeyOf(h) # KeyOf(x)
    BY <1>1, <1>2, LiveHandle DEF H
  <1>8. ASSUME NEW h \in Live(slots), h # x
        PROVE  /\ t[KeyOf(h)].state = slots[KeyOf(h)].state
               /\ t[KeyOf(h)].pin = slots[KeyOf(h)].pin
               /\ t[KeyOf(h)].retiring => slots[KeyOf(h)].retiring
    BY <1>3, <1>5, <1>7, <1>8
  <1>9. \A k \in Key : t[k].state = "EMPTY" <=> slots[k].state = "EMPTY"
    BY <1>2, <1>3, <1>5
  <1>10. Touches(x)
    BY <1>4, <1>6, <1>8, <1>9 DEF Touches
  <1> QED
    BY <1>2, <1>3, <1>4, <1>5, <1>10

\* cancel_type takes the job i of x out of the queue.
LEMMA CancelStep ==
    ASSUME TypeOK, TypeOK', AssetInv, ~Ending, UNCHANGED <<size, free, cache, main>>, MainInv',
           unload = <<>>, calls = <<>>, NEW x, NEW i \in JobsOf(x), NEW s,
           s = IF Resolves(slots, x) /\ ~Terminal(jobs[i])
               THEN FinishSlot(slots, x, "Cancelled") ELSE slots,
           \/ /\ jobs' = IF Terminal(jobs[i]) THEN jobs ELSE Finish(i, "Cancelled")
              /\ calls' = <<[NewCall("dtor", x) EXCEPT !.found = Resolves(slots, x)]>>
              /\ slots' = IF Resolves(slots, x) THEN [s EXCEPT ![KeyOf(x)].retiring = TRUE] ELSE s
              /\ UNCHANGED unload
           \/ /\ jobs' = EraseJob(i)
              /\ slots' = s
              /\ unload' = TryUnload(s, x)
              /\ UNCHANGED calls
    PROVE  AssetInv'
  <1>1. /\ x \in Handle /\ x \in Queued /\ (x \in Open <=> ~Terminal(jobs[i])) /\ GoodJobs(jobs)
    BY OpenJob
  <1>2. Known(x)
    BY <1>1 DEF AssetInv, JobInv
  <1>3. (x \in Live(slots) <=> Resolves(slots, x)) /\ (x \in Open => x \in Live(slots))
    BY <1>1, <1>2, ResolvedLive DEF AssetInv, JobInv
  <1>4. SettledBase(x, <<>>) /\ x \notin Dtors
    BY SettledEmpty
  <1>5. x \in Live(slots) =>
          /\ slots[KeyOf(x)].state \in InProgress => x \in Open
          /\ slots[KeyOf(x)].state = "PENDING_DELETE" => slots[KeyOf(x)].pin = 0
          /\ ~slots[KeyOf(x)].retiring
    BY <1>1, <1>4, KeyFacts DEF AssetInv, PinInv, StateInv
  <1>6. CASE /\ jobs' = IF Terminal(jobs[i]) THEN jobs ELSE Finish(i, "Cancelled")
             /\ calls' = <<[NewCall("dtor", x) EXCEPT !.found = Resolves(slots, x)]>>
             /\ slots' = IF Resolves(slots, x) THEN [s EXCEPT ![KeyOf(x)].retiring = TRUE] ELSE s
             /\ UNCHANGED unload
    <2>1. PICK b \in BOOLEAN : b = Resolves(slots, x)
      BY DEF Resolves
    <2>2. PICK c : c = [NewCall("dtor", x) EXCEPT !.found = b]
      OBVIOUS
    <2>3. c \in Call
      BY <1>1, <2>2, CallTypes
    <2>4. c.op = "dtor" /\ c.handle = x /\ ~c.dangling /\ (c.found <=> b)
      BY <2>2 DEF NewCall
    <2>5. calls' = Append(<<>>, c) /\ unload' = unload
      BY <1>6, <2>1, <2>2
    <2>6. /\ GoodJobs(jobs')
          /\ \A h : h \in Queued' <=> h \in Queued
          /\ \A h : h \in Open' <=> h \in Open /\ h # x
      <3>1. CASE Terminal(jobs[i])
        BY <1>1, <1>6, <3>1 DEF Queued, Open
      <3>2. CASE ~Terminal(jobs[i])
        BY <1>6, <3>2, JobFinished
      <3> QED
        BY <3>1, <3>2
    <2>7. /\ Touches(x)
          /\ x \in Live(slots) =>
               /\ \/ slots'[KeyOf(x)].state = slots[KeyOf(x)].state /\ (x \in Open => x \in Open')
                  \/ slots'[KeyOf(x)].state = "FAILED" /\ x \notin Open'
               /\ slots'[KeyOf(x)].pin = slots[KeyOf(x)].pin
      <3>1. CASE ~Resolves(slots, x)
        BY <1>3, <1>6, <3>1, TouchesNothing
      <3>2. CASE Resolves(slots, x) /\ Terminal(jobs[i])
        <4>1. slots' = [slots EXCEPT ![KeyOf(x)].retiring = TRUE] /\ x \in Live(slots)
          BY <1>3, <1>6, <3>2
        <4> QED
          BY <1>1, <3>2, <4>1, TouchesRetiring
      <3>3. CASE Resolves(slots, x) /\ ~Terminal(jobs[i])
        <4>1. /\ s = FinishSlot(slots, x, "Cancelled") /\ x \in Live(slots)
              /\ slots' = [s EXCEPT ![KeyOf(x)].retiring = TRUE]
          BY <1>3, <1>6, <3>3
        <4>2. Touches(x) /\ slots'[KeyOf(x)].state = "FAILED"
              /\ slots'[KeyOf(x)].pin = slots[KeyOf(x)].pin
          BY <4>1, CancelTouches
        <4> QED
          BY <2>6, <4>2
      <3> QED
        BY <3>1, <3>2, <3>3
    <2>8. x \notin Open' /\ UNCHANGED <<size, free, cache, unload>>
      BY <2>5, <2>6
    <2>9. (c.erase => x \notin Open') /\ (~c.found => ~Resolves(slots, x))
      BY <2>1, <2>4, <2>8
    <2>10. \A h : h # x => (h \in Open' <=> h \in Open)
      BY <2>6
    <2> QED
      BY <1>1, <1>4, <2>3, <2>4, <2>5, <2>6, <2>7, <2>8, <2>9, <2>10, DtorStep
  <1>7. CASE /\ jobs' = EraseJob(i)
             /\ slots' = s
             /\ unload' = TryUnload(s, x)
             /\ UNCHANGED calls
    <2>1. Tries(x)
      BY <1>7 DEF Tries
    <2>2. /\ Touches(x)
          /\ x \in Live(slots) =>
              /\ slots'[KeyOf(x)].state \notin InProgress
              /\ slots'[KeyOf(x)].state = "PENDING_DELETE" => slots'[KeyOf(x)].pin = 0
              /\ ~slots'[KeyOf(x)].retiring
      <3>1. CASE ~Resolves(slots, x)
        BY <1>3, <1>7, <3>1, TouchesNothing
      <3>2. CASE Resolves(slots, x) /\ Terminal(jobs[i])
        <4>1. slots' = slots
          BY <1>7, <3>2
        <4> QED
          BY <1>1, <1>5, <3>2, <4>1, TouchesNothing
      <3>3. CASE Resolves(slots, x) /\ ~Terminal(jobs[i])
        <4>1. s = FinishSlot(slots, x, "Cancelled") /\ x \in Live(slots) /\ slots' = s
          BY <1>3, <1>7, <3>3
        <4> QED
          BY <1>5, <4>1, CancelTouches DEF InProgress
      <3> QED
        BY <3>1, <3>2, <3>3
    <2>3. jobs' = EraseJob(i) /\ calls' = <<>> /\ UNCHANGED <<size, free, cache>>
      BY <1>7
    <2> QED
      BY <1>4, <2>1, <2>2, <2>3, EraseStep
  <1> QED
    BY <1>6, <1>7

LEMMA JobsCancelTypeNext ==
    ASSUME TypeOK, TypeOK', AssetInv, CancelTypeNext
    PROVE  AssetInv'
  <1> DEFINE mine == {i \in 1..Len(jobs) : jobs[i].handle.type = main.type}
  <1>1. /\ unload = <<>> /\ calls = <<>> /\ main.op = "cancelType" /\ main \in Main
        /\ UNCHANGED <<size, free, cache>> /\ jobs \in Seq(Job)
    BY TypeParts DEF CancelTypeNext, InMain
  <1>2. ~Ending
    BY <1>1 DEF Ending
  <1>3. CASE mine = {}
    <2>1. /\ main' = [main EXCEPT !.op = "destroyType", !.index = 1]
          /\ UNCHANGED <<slots, jobs, calls, unload>>
      BY <1>3 DEF CancelTypeNext
    <2>2. main'.op = "destroyType" /\ main'.type = main.type
      BY <1>1, <2>1 DEF Main
    <2>3. \A h \in Queued' : h.type # main.type
      BY <1>1, <1>3, <2>1 DEF Queued, HandlesOf
    <2>4. MainInv'
      BY <1>1, <2>1, <2>2, <2>3 DEF MainInv
    <2> QED
      BY <1>1, <1>2, <2>1, <2>4, KeptCalls, AssetStill
  <1>4. CASE mine # {}
    <2>1. PICK i \in mine :
            LET h == jobs[i].handle
                s == IF Resolves(slots, h) /\ ~Terminal(jobs[i])
                     THEN FinishSlot(slots, h, "Cancelled") ELSE slots
            IN  /\ UNCHANGED main
                /\ IF jobs[i].built
                   THEN /\ jobs' = IF Terminal(jobs[i]) THEN jobs ELSE Finish(i, "Cancelled")
                        /\ calls' = <<[NewCall("dtor", h) EXCEPT !.found = Resolves(slots, h)]>>
                        /\ slots' = IF Resolves(slots, h)
                                    THEN [s EXCEPT ![KeyOf(h)].retiring = TRUE] ELSE s
                        /\ UNCHANGED unload
                   ELSE /\ jobs' = EraseJob(i)
                        /\ slots' = s
                        /\ unload' = TryUnload(s, h)
                        /\ UNCHANGED calls
      BY <1>4 DEF CancelTypeNext
    <2>2. PICK x : x = jobs[i].handle
      OBVIOUS
    <2>3. PICK s : s = IF Resolves(slots, x) /\ ~Terminal(jobs[i])
                       THEN FinishSlot(slots, x, "Cancelled") ELSE slots
      OBVIOUS
    <2>4. i \in JobsOf(x)
      BY <1>1, <2>2 DEF JobsOf
    <2>5. UNCHANGED main
      BY <2>1
    <2>6. \/ /\ jobs' = IF Terminal(jobs[i]) THEN jobs ELSE Finish(i, "Cancelled")
             /\ calls' = <<[NewCall("dtor", x) EXCEPT !.found = Resolves(slots, x)]>>
             /\ slots' = IF Resolves(slots, x) THEN [s EXCEPT ![KeyOf(x)].retiring = TRUE] ELSE s
             /\ UNCHANGED unload
          \/ /\ jobs' = EraseJob(i)
             /\ slots' = s
             /\ unload' = TryUnload(s, x)
             /\ UNCHANGED calls
      BY <2>1, <2>2, <2>3
    <2>7. MainInv'
      BY <1>1, <2>5 DEF MainInv
    <2> QED
      BY <1>1, <1>2, <2>3, <2>4, <2>5, <2>6, <2>7, CancelStep
  <1> QED
    BY <1>3, <1>4

LEMMA NoCalls ==
    ASSUME calls' = <<>>
    PROVE  CallInv'
  BY DEF CallInv, Pairs

\* Once slots are destroyed behind the graph little is left to keep.
LEMMA EndingStep ==
    ASSUME AssetInv, Ending', UnloadInv', OrderInv', GoodJobs(jobs'), PinInv', calls' = <<>>
    PROVE  AssetInv'
  <1>1. JobInv' /\ StateInv' /\ MainInv'
    BY DEF JobInv, StateInv, MainInv, Ending
  <1> QED
    BY <1>1, NoCalls, StorageEnding DEF AssetInv

LEMMA JobsCancelAllNext ==
    ASSUME TypeOK, TypeOK', AssetInv, CancelAllNext
    PROVE  AssetInv'
  <1>1. /\ unload = <<>> /\ calls = <<>> /\ main.op = "cancelAll" /\ main \in Main
        /\ UNCHANGED <<size, free, cache, unload>>
    BY TypeParts DEF CancelAllNext, InMain
  <1>2. ~Ending
    BY <1>1 DEF Ending
  <1>3. CASE main.index \notin DOMAIN jobs
    <2>1. /\ jobs' = <<>> /\ main' = [main EXCEPT !.op = "destroyAll", !.index = 0]
          /\ UNCHANGED <<slots, calls>>
      BY <1>3 DEF CancelAllNext
    <2>2. Ending'
      BY <1>1, <2>1 DEF Ending, Main
    <2>3. UnloadInv' /\ PinInv' /\ GoodJobs(jobs')
      BY <1>1, <2>1 DEF UnloadInv, AssetInv, PinInv, GoodJobs
    <2>4. OrderInv'
      <3>1. PICK R \in SUBSET (Key \X Key) : Above(R)
        BY DEF AssetInv, StorageInv, OrderInv
      <3>2. Above(R)'
        BY <1>1, <2>1, <3>1 DEF Above
      <3> QED
        BY <3>2 DEF OrderInv
    <2> QED
      BY <1>1, <2>1, <2>2, <2>3, <2>4, EndingStep
  <1>4. CASE main.index \in DOMAIN jobs
    <2>1. PICK i \in DOMAIN jobs : i = main.index
      BY <1>4
    <2>2. PICK x : x = jobs[i].handle
      OBVIOUS
    <2>3. PICK b \in BOOLEAN : b = Resolves(slots, x)
      BY DEF Resolves
    <2>4. PICK c : c = [NewCall("dtor", x) EXCEPT !.found = b, !.erase = FALSE]
      OBVIOUS
    <2>5. /\ main' = [main EXCEPT !.index = @ + 1] /\ jobs' = jobs
          /\ \/ /\ calls' = <<c>>
                /\ slots' = IF b THEN [slots EXCEPT ![KeyOf(x)].retiring = TRUE] ELSE slots
             \/ UNCHANGED <<slots, calls>>
      BY <1>4, <2>1, <2>2, <2>3, <2>4 DEF CancelAllNext
    <2>6. main'.op = main.op
      BY <1>1, <2>5 DEF Main
    <2>7. MainInv'
      BY <1>1, <2>6 DEF MainInv
    <2>8. i \in JobsOf(x)
      BY <2>1, <2>2 DEF JobsOf
    <2>9. /\ x \in Handle /\ x \in Queued /\ GoodJobs(jobs)
      BY <2>8, OpenJob
    <2>10. Known(x)
      BY <1>2, <2>9 DEF AssetInv, JobInv
    <2>11. CASE UNCHANGED <<slots, calls>>
      BY <1>1, <1>2, <2>5, <2>7, <2>11, KeptCalls, AssetStill
    <2>12. CASE /\ calls' = <<c>>
                /\ slots' = IF b THEN [slots EXCEPT ![KeyOf(x)].retiring = TRUE] ELSE slots
      <3>1. c \in Call
        BY <2>4, <2>9, CallTypes
      <3>2. c.op = "dtor" /\ c.handle = x /\ ~c.dangling /\ (c.found <=> b) /\ ~c.erase
        BY <2>4 DEF NewCall
      <3>3. /\ Touches(x)
            /\ x \in Live(slots) => /\ slots'[KeyOf(x)].state = slots[KeyOf(x)].state
                                    /\ slots'[KeyOf(x)].pin = slots[KeyOf(x)].pin
        <4>1. CASE b
          <5>1. x \in Live(slots) /\ slots' = [slots EXCEPT ![KeyOf(x)].retiring = TRUE]
            BY <2>3, <2>9, <2>10, <2>12, <4>1, ResolvedLive
          <5> QED
            BY <5>1, TouchesRetiring
        <4>2. CASE ~b
          BY <2>12, <4>2, TouchesNothing
        <4> QED
          BY <4>1, <4>2
      <3>4. /\ GoodJobs(jobs') /\ \A h : h \in Queued' <=> h \in Queued
            /\ \A h : h \in Open' <=> h \in Open
        BY <2>5, <2>9 DEF Queued, Open
      <3>5. SettledBase(x, <<>>)
        BY <1>1, SettledEmpty
      <3>6. calls' = Append(<<>>, c)
        BY <2>12
      <3>7. (c.erase => x \notin Open') /\ (~c.found => ~Resolves(slots, x))
        BY <2>3, <3>2
      <3> QED
        BY <1>1, <1>2, <2>7, <2>9, <3>1, <3>2, <3>3, <3>4, <3>5, <3>6, <3>7, DtorStep
    <2> QED
      BY <2>5, <2>11, <2>12
  <1> QED
    BY <1>3, <1>4

-----------------------------------------------------------------------------
(* Shutdown                                                                 *)

LEMMA JobsCancelled ==
    ASSUME TypeOK, AssetInv,
           jobs' = [i \in DOMAIN jobs |-> [jobs[i] EXCEPT !.outcome = "Cancelled"]]
    PROVE  /\ GoodJobs(jobs')
           /\ \A h : h \in Queued' <=> h \in Queued
           /\ \A h : h \notin Open'
  <1>1. jobs \in Seq(Job) /\ GoodJobs(jobs)
    BY TypeParts DEF AssetInv, JobInv
  <1>2. ASSUME NEW i \in DOMAIN jobs
        PROVE  /\ jobs'[i].handle = jobs[i].handle /\ jobs'[i].optional = jobs[i].optional
               /\ jobs'[i].outcome = "Cancelled"
    <2>1. PICK e \in Job : e = jobs[i]
      BY <1>1
    <2>2. jobs'[i] = [e EXCEPT !.outcome = "Cancelled"]
      BY <2>1
    <2> QED
      BY <2>1, <2>2 DEF Job
  <1>3. DOMAIN jobs' = DOMAIN jobs
    OBVIOUS
  <1>4. GoodJobs(jobs')
    BY <1>1, <1>2, <1>3 DEF GoodJobs
  <1>5. \A h : h \in Queued' <=> h \in Queued
    BY <1>2, <1>3 DEF Queued, HandlesOf
  <1>6. \A h : h \notin Open'
    BY <1>2, <1>3 DEF Open, OpenOf, Terminal
  <1> QED
    BY <1>4, <1>5, <1>6

LEMMA ShutdownSlots ==
    ASSUME TypeOK, TypeOK', AssetInv, Shutdown
    PROVE  \A k \in Key :
             /\ slots'[k].generation = slots[k].generation /\ slots'[k].path = slots[k].path
             /\ slots'[k].dependencies = slots[k].dependencies
             /\ slots'[k].dependents = slots[k].dependents
             /\ slots'[k].pin = slots[k].pin /\ (slots'[k].retiring <=> slots[k].retiring)
             /\ slots'[k].state = IF H(k) \in Queued THEN "FAILED" ELSE slots[k].state
             /\ H(k) \in Queued => slots[k].state # "EMPTY"
  <1>1. slots \in [Key -> Slot] /\ slots' \in [Key -> Slot] /\ main.op = "idle"
    BY TypeParts, TypePrimes DEF Shutdown, InMain
  <1>2. ~Ending
    BY <1>1 DEF Ending
  <1>3. ASSUME NEW k \in Key
        PROVE  /\ slots'[k].generation = slots[k].generation /\ slots'[k].path = slots[k].path
               /\ slots'[k].dependencies = slots[k].dependencies
               /\ slots'[k].dependents = slots[k].dependents
               /\ slots'[k].pin = slots[k].pin /\ (slots'[k].retiring <=> slots[k].retiring)
               /\ slots'[k].state = IF H(k) \in Queued THEN "FAILED" ELSE slots[k].state
    <2>1. PICK e \in Slot : e = slots[k]
      BY <1>1
    <2>2. H(k) \in Queued <=> \E i \in DOMAIN jobs : jobs[i].handle = HandleAt(slots, k)
      BY DEF Queued, HandlesOf, H
    <2>3. slots'[k] = IF H(k) \in Queued THEN [e EXCEPT !.state = "FAILED"] ELSE e
      BY <2>1, <2>2 DEF Shutdown
    <2> QED
      BY <2>1, <2>3 DEF Slot
  <1>4. ASSUME NEW k \in Key, H(k) \in Queued PROVE slots[k].state # "EMPTY"
    <2>1. slots[k].generation \in Nat
      BY <1>1 DEF Slot
    <2>2. H(k) \in Handle /\ KeyOf(H(k)) = k /\ Resolves(slots, H(k))
      BY <1>1, <2>1, HandleFacts, ResolvesFacts DEF H
    <2>3. Known(H(k))
      BY <1>2, <1>4 DEF AssetInv, JobInv
    <2>4. H(k) \in Live(slots)
      BY <2>2, <2>3, ResolvedLive
    <2> QED
      BY <1>1, <2>2, <2>4, LiveFacts
  <1> QED
    BY <1>3, <1>4

LEMMA JobsShutdown ==
    ASSUME TypeOK, TypeOK', AssetInv, Shutdown
    PROVE  AssetInv'
  <1>1. /\ unload = <<>> /\ calls = <<>> /\ main.op = "idle"
        /\ UNCHANGED <<size, free, cache, unload>> /\ calls' = <<>>
        /\ slots \in [Key -> Slot] /\ slots' \in [Key -> Slot]
    BY TypeParts, TypePrimes DEF Shutdown, InMain
  <1>2. main'.op = "cancelAll"
    BY DEF Shutdown, Idle
  <1>3. ~Ending /\ ~Ending' /\ MainInv'
    BY <1>1, <1>2 DEF Ending, MainInv
  <1>4. /\ GoodJobs(jobs') /\ \A h : h \in Queued' <=> h \in Queued
        /\ \A h : h \notin Open'
    BY JobsCancelled DEF Shutdown
  <1>5. \A k \in Key :
          /\ slots'[k].generation = slots[k].generation /\ slots'[k].path = slots[k].path
          /\ slots'[k].dependencies = slots[k].dependencies
          /\ slots'[k].dependents = slots[k].dependents
          /\ slots'[k].pin = slots[k].pin /\ (slots'[k].retiring <=> slots[k].retiring)
          /\ slots'[k].state = IF H(k) \in Queued THEN "FAILED" ELSE slots[k].state
          /\ H(k) \in Queued => slots[k].state # "EMPTY"
    BY ShutdownSlots
  <1>6. \A k \in Key : /\ slots'[k].generation = slots[k].generation
                       /\ slots'[k].state = "EMPTY" <=> slots[k].state = "EMPTY"
    BY <1>5
  <1>7. /\ \A h : h \in Live(slots)' <=> h \in Live(slots)
        /\ \A h \in Handle : Known(h)' <=> Known(h)
    BY <1>6, SameLive
  <1>8. StorageInv'
    <2>1. SameGraph(slots, slots')
      BY <1>5 DEF SameGraph
    <2>2. StorageInv /\ Starts /\ (Ending => Ending') /\ UNCHANGED <<size, free, cache>>
      BY <1>1, <1>3 DEF AssetInv, Starts
    <2> QED
      BY <1>6, <2>1, <2>2, StorageCalm
  <1>9. JobInv'
    <2>1. \A h \in Queued' : h \in Queued /\ h \in Handle
      BY <1>4, QueueTypes
    <2>2. \A h \in Queued' : Known(h)'
      BY <1>3, <1>7, <2>1 DEF AssetInv, JobInv
    <2> QED
      BY <1>4, <2>2 DEF JobInv
  <1>10. PinInv'
    BY <1>5 DEF AssetInv, PinInv
  <1>11. StateInv'
    <2>1. ASSUME NEW h \in Live(slots)'
          PROVE  /\ slots'[KeyOf(h)].state \notin InProgress
                 /\ ~slots'[KeyOf(h)].retiring
                 /\ \/ slots'[KeyOf(h)].pin > 0 \/ slots'[KeyOf(h)].dependents # {}
                    \/ h \in Queued'
      <3>1. h \in Live(slots) /\ KeyOf(h) \in Key /\ H(KeyOf(h)) = h
        BY <1>1, <1>7, LiveHandle DEF H
      <3>2. PICK k \in Key : k = KeyOf(h)
        BY <3>1
      <3>3. /\ slots[k].state \in InProgress => h \in Queued
            /\ ~slots[k].retiring
            /\ slots[k].pin > 0 \/ slots[k].dependents # {} \/ h \in Queued
        BY <1>1, <1>3, <3>1, <3>2, QueueTypes
           DEF AssetInv, StateInv, Dtors, DtorsOf, Unloading
      <3> QED
        BY <1>4, <1>5, <3>1, <3>2, <3>3 DEF InProgress
    <2> QED
      BY <2>1 DEF StateInv
  <1> QED
    BY <1>1, <1>3, <1>8, <1>9, <1>10, <1>11, NoCalls DEF AssetInv

LEMMA JobsDestroyAllNext ==
    ASSUME TypeOK, TypeOK', AssetInv, DestroyAllNext
    PROVE  AssetInv'
  <1>1. /\ unload = <<>> /\ calls = <<>> /\ main.op = "destroyAll" /\ main \in Main
        /\ UNCHANGED <<jobs, calls>> /\ slots \in [Key -> Slot]
    BY TypeParts DEF DestroyAllNext, InMain
  <1>2. main'.op \in {"destroyAll", "down"}
    BY <1>1 DEF DestroyAllNext, Main, Idle
  <1>3. Ending'
    BY <1>2 DEF Ending
  <1>4. StorageInv'
    BY StorageDestroyAllNext DEF AssetInv
  <1>5. PinInv'
    <2>1. slots' = slots \/ slots' = [k \in Key |-> EmptySlot(1)]
      BY DEF DestroyAllNext
    <2> QED
      BY <2>1 DEF AssetInv, PinInv, EmptySlot
  <1> QED
    BY <1>1, <1>3, <1>4, <1>5, EndingStep DEF StorageInv, AssetInv, JobInv

-----------------------------------------------------------------------------
(* force_destroy_assets                                                     *)

LEMMA ForceStep ==
    ASSUME TypeOK, TypeOK', AssetInv, ~Ending, ~Ending', unload = <<>>, calls = <<>>, MainInv',
           UNCHANGED <<size, free, cache, jobs, calls>>,
           NEW x \in Live(slots), x \notin Queued, Forcing(x)
    PROVE  AssetInv'
  <1> DEFINE l == KeyOf(x)
  <1>1. /\ slots \in [Key -> Slot] /\ slots' \in [Key -> Slot]
        /\ x \in Handle /\ l \in Key /\ H(l) = x
    BY TypeParts, TypePrimes, LiveHandle DEF H
  <1>2. /\ \A k \in Key :
             /\ slots'[k].generation = slots[k].generation /\ slots'[k].path = slots[k].path
             /\ slots'[k].state = slots[k].state /\ slots'[k].pin = slots[k].pin
             /\ (slots'[k].retiring <=> slots[k].retiring)
             /\ slots'[k].dependencies \subseteq slots[k].dependencies
             /\ k # l => slots'[k].dependents = slots[k].dependents
    <2>1. LET t == DetachDependents(slots, x)
          IN  /\ t \in [Key -> Slot]
              /\ SameAssets(slots, t)
              /\ \A k \in Key :
                   /\ t[k].dependencies = IF HandleAt(slots, k) \in slots[KeyOf(x)].dependents
                                          THEN slots[k].dependencies \ {x} ELSE slots[k].dependencies
                   /\ t[k].dependents = IF k = KeyOf(x) THEN {} ELSE slots[k].dependents
      BY <1>1, DetachDependentsFacts
    <2>2. slots' = DetachDependents(slots, x)
      BY DEF Forcing
    <2> QED
      BY <2>1, <2>2 DEF SameAssets
  <1>3. /\ \A h : h \in Unloading' <=> h = x
        /\ \A h : h \notin Unloading
    <2>1. unload' = <<DestroyCall(x, TRUE)>>
      BY DEF Forcing
    <2>2. DOMAIN unload' = {1} /\ unload'[1].handle = x
      BY <2>1 DEF DestroyCall
    <2> QED
      BY <2>2 DEF Unloading
  <1>4. /\ \A h : h \in Dtors' <=> h \in Dtors
        /\ \A h : h \in Queued' <=> h \in Queued
        /\ \A h : h \in Open' <=> h \in Open
        /\ GoodJobs(jobs')
    BY DEF Dtors, Queued, Open, AssetInv, JobInv
  <1> HIDE DEF l
  <1>5. StorageInv'
    BY StorageForce DEF AssetInv
  <1>6. KeepsOthers(x)
    <2>1. ASSUME NEW h \in Live(slots), h # x
          PROVE  /\ slots'[KeyOf(h)].state = slots[KeyOf(h)].state
                 /\ slots'[KeyOf(h)].retiring => slots[KeyOf(h)].retiring
                 /\ slots[KeyOf(h)].state = "PENDING_DELETE" =>
                      slots'[KeyOf(h)].pin = slots[KeyOf(h)].pin
                 /\ \/ slots'[KeyOf(h)].pin > 0 \/ slots'[KeyOf(h)].dependents # {}
                    \/ h \in Queued' \/ h \in Unloading'
                 /\ h \in Open => /\ h \notin Unloading'
                                  /\ slots'[KeyOf(h)].dependencies = {}
                                  /\ slots'[KeyOf(h)].dependents = {}
      <3>1. KeyOf(h) \in Key /\ KeyOf(h) # l
        BY <1>1, <2>1, LiveHandle DEF H
      <3>2. PICK k \in Key : k = KeyOf(h)
        BY <3>1
      <3>3. \/ slots[k].pin > 0 \/ slots[k].dependents # {} \/ h \in Queued
        BY <1>3, <3>2 DEF AssetInv, StateInv
      <3>4. h \in Open => slots[k].dependencies = {} /\ slots[k].dependents = {}
        BY <3>2 DEF AssetInv, JobInv
      <3> QED
        BY <1>2, <1>3, <1>4, <2>1, <3>1, <3>2, <3>3, <3>4
    <2>2. SameBut(Queued, Queued', x) /\ SameBut(Open, Open', x)
      BY <1>4 DEF SameBut
    <2> QED
      BY <1>2, <1>4, <2>1, <2>2 DEF KeepsOthers
  <1>7. LeavesWell(x)
    <2>1. x \notin Open'
      BY <1>4, QueueTypes
    <2>2. /\ slots[l].state = "PENDING_DELETE" => slots[l].pin = 0
          /\ slots[l].state \in InProgress => x \in Open
          /\ slots[l].retiring => x \in Dtors
      BY <1>1 DEF AssetInv, PinInv, StateInv, l
    <2> QED
      BY <1>1, <1>2, <1>3, <1>4, <2>1, <2>2 DEF LeavesWell, Known, l
  <1>8. CallsOn(x, <<>>)
    BY DEF CallsOn, Pairs, In
  <1> QED
    BY <1>4, <1>5, <1>6, <1>7, <1>8, AssetChange

LEMMA JobsDestroyTypeNext ==
    ASSUME TypeOK, TypeOK', AssetInv, DestroyTypeNext
    PROVE  AssetInv'
  <1> DEFINE k == <<main.type, main.index>>
             x == HandleAt(slots, k)
  <1>1. /\ unload = <<>> /\ calls = <<>> /\ main.op = "destroyType" /\ main \in Main
        /\ slots \in [Key -> Slot] /\ size \in [Types -> 0..MaxSlots]
        /\ UNCHANGED <<size, free, cache, jobs, calls>>
    BY TypeParts DEF DestroyTypeNext, InMain
  <1>2. ~Ending /\ \A h \in Queued : h.type # main.type
    BY <1>1 DEF Ending, AssetInv, MainInv
  <1>3. CASE main.index \notin 1..size[main.type]
    <2>1. main' = Idle /\ UNCHANGED <<slots, unload>>
      BY <1>3 DEF DestroyTypeNext
    <2>2. MainInv'
      BY <1>1, <2>1 DEF MainInv, Idle
    <2> QED
      BY <1>1, <1>2, <2>1, <2>2, KeptCalls, AssetStill
  <1>4. CASE main.index \in 1..size[main.type]
    <2>1. /\ main' = [main EXCEPT !.index = @ + 1]
          /\ IF slots[k].state = "EMPTY" THEN UNCHANGED <<slots, unload>>
             ELSE slots' = DetachDependents(slots, x) /\ unload' = <<DestroyCall(x, TRUE)>>
      BY <1>4 DEF DestroyTypeNext
    <2>2. main'.op = "destroyType" /\ main'.type = main.type
      BY <1>1, <2>1 DEF Main
    <2>3. MainInv' /\ ~Ending'
      BY <1>1, <1>2, <2>2 DEF MainInv, Ending, Queued
    <2>4. k \in Key /\ k[1] = main.type
      <3>1. main.type \in Types /\ size[main.type] \in 0..MaxSlots /\ main.index \in Nat
        BY <1>1 DEF Main
      <3>2. main.index \in Index
        BY <1>4, <3>1, StorageAssumption DEF Index
      <3> QED
        BY <3>1, <3>2 DEF Key
    <2>5. CASE slots[k].state = "EMPTY"
      BY <1>1, <1>2, <2>1, <2>3, <2>5, KeptCalls, AssetStill
    <2>6. CASE slots[k].state # "EMPTY"
      <3>1. slots[k].generation \in Nat
        BY <1>1, <2>4 DEF Slot
      <3>2. x \in Live(slots) /\ x.type = main.type
        BY <2>4, <2>6, <3>1, HandleFacts DEF Live
      <3>3. x \notin Queued
        BY <1>2, <3>2
      <3>4. Forcing(x)
        BY <2>1, <2>6 DEF Forcing
      <3> HIDE DEF x, k
      <3> QED
        BY <1>1, <1>2, <2>3, <3>2, <3>3, <3>4, ForceStep
    <2> QED
      BY <2>5, <2>6
  <1> QED
    BY <1>3, <1>4

-----------------------------------------------------------------------------
(* destroy_slot                                                             *)

\* Behind the end of the system a step of destroy_slot touches no pin.
LEMMA EndingUnload ==
    ASSUME TypeOK, AssetInv, Ending, UNCHANGED <<jobs, calls, main>>, StorageInv', PinInv'
    PROVE  AssetInv'
  <1>1. calls = <<>> /\ Ending'
    BY DEF AssetInv, MainInv, Ending
  <1>2. GoodJobs(jobs') /\ calls' = <<>>
    BY <1>1 DEF AssetInv, JobInv
  <1>3. UnloadInv' /\ OrderInv'
    BY DEF StorageInv
  <1> QED
    BY <1>1, <1>2, <1>3, EndingStep

LEMMA JobsDestroyEnter ==
    ASSUME TypeOK, TypeOK', AssetInv, DestroyEnter, UNCHANGED <<jobs, calls, main>>
    PROVE  AssetInv'
  <1>1. unload # <<>> /\ UNCHANGED <<slots, size, free>>
    BY DEF DestroyEnter
  <1>2. StorageInv'
    BY StorageDestroyEnter DEF AssetInv
  <1>3. CASE Ending
    <2>1. PinInv'
      BY <1>1 DEF AssetInv, PinInv
    <2> QED
      BY <1>2, <1>3, <2>1, EndingUnload
  <1>4. CASE ~Ending
    <2>1. PICK f : f = [Frame EXCEPT !.at = "detach",
                                     !.rest = slots[KeyOf(Frame.handle)].dependencies]
      OBVIOUS
    <2>2. Frame \in DestroyFrame /\ KeyOf(Frame.handle) \in Key /\ slots \in [Key -> Slot]
      BY <1>1, FrameFacts, TypeParts
    <2>3. slots[KeyOf(Frame.handle)].dependencies \in SUBSET Handle
      BY <2>2 DEF Slot
    <2>4. f \in DestroyFrame /\ f.handle = Frame.handle
      BY <2>1, <2>2, <2>3 DEF DestroyFrame
    <2>5. unload' = Append(Callers, f)
      BY <2>1 DEF DestroyEnter
    <2>6. DOMAIN unload' = DOMAIN unload
          /\ \A m \in DOMAIN unload : unload'[m].handle = unload[m].handle
      BY <1>1, <2>4, <2>5, FrameChanged, FrameFacts
    <2>7. PICK y : y = NoHandle
      OBVIOUS
    <2>8. y \notin Live(slots) /\ y \notin Queued /\ y \notin Open
      BY <2>7, NobodyFacts
    <2>9. /\ \A h : h \in Dtors' <=> h \in Dtors
          /\ \A h : h \in Queued' <=> h \in Queued
          /\ \A h : h \in Open' <=> h \in Open
          /\ GoodJobs(jobs') /\ MainInv'
      BY <1>1 DEF Dtors, Queued, Open, AssetInv, JobInv, MainInv
    <2>10. \A h : h \in Unloading' <=> h \in Unloading
      BY <2>6 DEF Unloading
    <2>11. WorksOn(y)
      BY <1>1, <2>9, <2>10 DEF WorksOn, SameGraph, SameBut
    <2>12. KeepsOthers(y)
      BY <1>4, <2>11, WorksKeeps DEF AssetInv
    <2>13. LeavesWell(y)
      BY <2>8, <2>9 DEF LeavesWell
    <2>14. CallsOn(y, calls)
      BY <2>7, KeptCalls, KeptOn
    <2> QED
      BY <1>2, <1>4, <2>9, <2>12, <2>13, <2>14, AssetChange
  <1> QED
    BY <1>3, <1>4

LEMMA JobsDetachNext ==
    ASSUME TypeOK, TypeOK', AssetInv, DetachNext, UNCHANGED <<jobs, calls, main>>
    PROVE  AssetInv'
  <1>1. StorageInv'
    BY StorageDetachNext DEF AssetInv
  <1>2. PICK d : DetachTurn(d)
    BY DetachNextFacts DEF AssetInv
  <1>3. /\ d \in Handle /\ KeyOf(d) \in Key
        /\ \A k \in Key :
             /\ slots'[k].generation = slots[k].generation
             /\ slots'[k].state = slots[k].state /\ slots'[k].pin = slots[k].pin
             /\ (slots'[k].retiring <=> slots[k].retiring)
             /\ slots'[k].dependencies = slots[k].dependencies
             /\ H(k) # d => slots'[k].dependents = slots[k].dependents
    BY <1>2 DEF DetachTurn, SameAssets
  <1>4. CASE Ending
    <2>1. PinInv'
      BY <1>3 DEF AssetInv, PinInv
    <2> QED
      BY <1>1, <1>4, <2>1, EndingUnload
  <1>5. CASE ~Ending
    <2>1. d \in Live(slots) /\ H(KeyOf(d)) = d /\ slots[KeyOf(d)].dependents # {}
      BY <1>2, <1>5, TurnFacts DEF AssetInv
    <2>2. d \notin Open
      BY <1>5, <2>1 DEF AssetInv, JobInv
    <2>3. /\ \A h \in Unloading : h \in Unloading'
          /\ \A h \in Unloading' : h \in Unloading \/ h = d
          /\ slots[KeyOf(d)].pin = 0 /\ slots'[KeyOf(d)].dependents = {} => d \in Unloading'
      <3>1. /\ \A i \in DOMAIN unload : i \in DOMAIN unload' /\ unload'[i].handle = unload[i].handle
            /\ \A i \in DOMAIN unload' :
                 i \in DOMAIN unload \/ unload'[i] = DestroyCall(d, TRUE)
            /\ Resolves(slots, d) /\ slots[KeyOf(d)].pin = 0 /\ slots'[KeyOf(d)].dependents = {}
                 => Len(unload) + 1 \in DOMAIN unload' /\ unload'[Len(unload) + 1].handle = d
        BY <1>2 DEF DetachTurn
      <3>2. Resolves(slots, d)
        BY <2>1, TypeParts, LiveHandle
      <3>3. DestroyCall(d, TRUE).handle = d
        BY DEF DestroyCall
      <3> QED
        BY <3>1, <3>2, <3>3 DEF Unloading
    <2>4. /\ \A h : h \in Dtors' <=> h \in Dtors
          /\ \A h : h \in Queued' <=> h \in Queued
          /\ \A h : h \in Open' <=> h \in Open
          /\ GoodJobs(jobs') /\ MainInv'
      BY DEF Dtors, Queued, Open, AssetInv, JobInv, MainInv
    <2>5. KeepsOthers(d)
      <3>1. ASSUME NEW h \in Live(slots), h # d
            PROVE  /\ slots'[KeyOf(h)].state = slots[KeyOf(h)].state
                   /\ slots'[KeyOf(h)].retiring => slots[KeyOf(h)].retiring
                   /\ slots[KeyOf(h)].state = "PENDING_DELETE" =>
                        slots'[KeyOf(h)].pin = slots[KeyOf(h)].pin
                   /\ \/ slots'[KeyOf(h)].pin > 0 \/ slots'[KeyOf(h)].dependents # {}
                      \/ h \in Queued' \/ h \in Unloading'
                   /\ h \in Open => /\ h \notin Unloading'
                                    /\ slots'[KeyOf(h)].dependencies = {}
                                    /\ slots'[KeyOf(h)].dependents = {}
        <4>1. KeyOf(h) \in Key /\ H(KeyOf(h)) = h
          BY TypeParts, LiveHandle DEF H
        <4>2. PICK k \in Key : k = KeyOf(h)
          BY <4>1
        <4>3. \/ slots[k].pin > 0 \/ slots[k].dependents # {} \/ h \in Queued \/ h \in Unloading
          BY <1>5, <4>2 DEF AssetInv, StateInv
        <4>4. h \in Open => /\ slots[k].dependencies = {} /\ slots[k].dependents = {}
                            /\ h \notin Unloading
          BY <1>5, <4>2 DEF AssetInv, JobInv
        <4> QED
          BY <1>3, <2>3, <2>4, <3>1, <4>1, <4>2, <4>3, <4>4
      <3>2. SameBut(Queued, Queued', d) /\ SameBut(Open, Open', d)
        BY <2>4 DEF SameBut
      <3> QED
        BY <1>3, <2>4, <3>1, <3>2 DEF KeepsOthers
    <2>6. LeavesWell(d)
      <3>1. /\ slots[KeyOf(d)].state = "PENDING_DELETE" => slots[KeyOf(d)].pin = 0
            /\ slots[KeyOf(d)].state \in InProgress => d \in Open
            /\ slots[KeyOf(d)].retiring => d \in Dtors
        BY <1>3, <1>5, <2>1 DEF AssetInv, PinInv, StateInv
      <3>2. slots[KeyOf(d)].pin \in Nat
        BY <1>3, TypeParts DEF Slot
      <3>3. \/ slots'[KeyOf(d)].pin > 0 \/ slots'[KeyOf(d)].dependents # {} \/ d \in Unloading'
        BY <1>3, <2>3, <3>2
      <3> QED
        BY <1>3, <2>1, <2>2, <2>4, <3>1, <3>3 DEF LeavesWell, Known
    <2>7. CallInv'
      BY <2>4, <2>5, KeptCalls, CallsKept
    <2>8. JobInv' /\ PinInv' /\ StateInv'
      BY <1>5, <2>4, <2>5, <2>6, JobsStep DEF AssetInv
    <2> QED
      BY <1>1, <2>4, <2>7, <2>8 DEF AssetInv
  <1> QED
    BY <1>4, <1>5

LEMMA JobsDestroyDone ==
    ASSUME TypeOK, TypeOK', AssetInv, DestroyDone, UNCHANGED <<jobs, calls, main>>
    PROVE  AssetInv'
  <1>0. PICK x, l, n : x = Frame.handle /\ l = KeyOf(x) /\ n = Len(unload)
    OBVIOUS
  <1>1. StorageInv'
    BY StorageDestroyDone DEF AssetInv
  <1>2. DestroyTurn
    BY DestroyDoneFacts DEF AssetInv
  <1>3. /\ n \in DOMAIN unload /\ unload[n].handle = x
        /\ x \in Handle /\ l \in Key /\ H(l) = x
        /\ \A k \in Key : k # l => slots'[k] = slots[k]
        /\ slots'[l].state = "EMPTY"
        /\ ~Ending => slots'[l].generation = slots[l].generation + 1
        /\ \A i \in DOMAIN unload' : i \in DOMAIN unload /\ unload'[i] = unload[i]
        /\ \A i \in DOMAIN unload : i # n => i \in DOMAIN unload'
    BY <1>0, <1>2 DEF DestroyTurn
  <1>4. PinInv'
    BY <1>3 DEF AssetInv, PinInv
  <1>5. CASE Ending
    BY <1>1, <1>4, <1>5, EndingUnload
  <1>6. CASE ~Ending
    <2>1. slots \in [Key -> Slot] /\ slots[l].generation \in Nat /\ x \in Unloading
      BY <1>3, TypeParts DEF Slot, Unloading
    <2>2. x.generation = slots[l].generation
      BY <1>3, <2>1, HandleFacts DEF H
    <2>3. \A h : h \in Live(slots') <=> h \in Live(slots) /\ h # x
      BY <1>0, <1>2, DestroyLive DEF AssetInv
    <2>4. \A h \in Live(slots) : h # x => KeyOf(h) \in Key /\ KeyOf(h) # l
      BY <1>0, <1>3, <2>1, LiveHandle DEF H
    <2>5. ASSUME NEW h \in Handle PROVE (Gone(h) => Gone(h)') /\ (Known(h) => Known(h)')
      <3>1. KeyOf(h) \in Key /\ h.generation \in Nat /\ slots[KeyOf(h)].generation \in Nat
        BY <2>1, KeyFacts DEF Slot
      <3>2. Gone(h) => Gone(h)'
        BY <1>3, <1>6, <2>1, <3>1 DEF Gone
      <3>3. Gone(x)'
        BY <1>0, <1>3, <1>6, <2>1, <2>2 DEF Gone
      <3> QED
        BY <2>3, <3>2, <3>3 DEF Known
    <2>6. /\ \A h \in Unloading' : h \in Unloading
          /\ \A h \in Unloading : h # x => h \in Unloading'
      BY <1>3 DEF Unloading
    <2>7. /\ Dtors' = Dtors /\ Queued' = Queued /\ Open' = Open
          /\ GoodJobs(jobs') /\ MainInv'
      BY DEF Dtors, Queued, Open, AssetInv, JobInv, MainInv
    <2>8. JobInv'
      <3>1. ASSUME NEW h \in Queued PROVE Known(h)'
        BY <1>6, <2>5, <3>1, QueueTypes DEF AssetInv, JobInv
      <3>2. ASSUME NEW h \in Open
            PROVE  /\ h \in Live(slots)' /\ h \notin Unloading'
                   /\ slots'[KeyOf(h)].state \in InProgress \cup {"PENDING_DELETE"}
                   /\ slots'[KeyOf(h)].dependencies = {} /\ slots'[KeyOf(h)].dependents = {}
        <4>1. /\ h \in Live(slots) /\ h \notin Unloading
              /\ slots[KeyOf(h)].state \in InProgress \cup {"PENDING_DELETE"}
              /\ slots[KeyOf(h)].dependencies = {} /\ slots[KeyOf(h)].dependents = {}
          BY <1>6 DEF AssetInv, JobInv
        <4>2. h # x
          BY <2>1, <4>1
        <4>3. slots'[KeyOf(h)] = slots[KeyOf(h)]
          BY <1>3, <2>4, <4>1, <4>2
        <4> QED
          BY <2>3, <2>6, <4>1, <4>2, <4>3
      <3> QED
        BY <2>7, <3>1, <3>2 DEF JobInv
    <2>9. StateInv'
      <3>1. ASSUME NEW h \in Live(slots)'
            PROVE  /\ slots'[KeyOf(h)].state \in InProgress => h \in Open
                   /\ slots'[KeyOf(h)].retiring => h \in Dtors
                   /\ \/ slots'[KeyOf(h)].pin > 0 \/ slots'[KeyOf(h)].dependents # {}
                      \/ h \in Queued \/ h \in Unloading'
        <4>1. h \in Live(slots) /\ h # x
          BY <2>3
        <4>2. slots'[KeyOf(h)] = slots[KeyOf(h)]
          BY <1>3, <2>4, <4>1
        <4>3. /\ slots[KeyOf(h)].state \in InProgress => h \in Open
              /\ slots[KeyOf(h)].retiring => h \in Dtors
              /\ \/ slots[KeyOf(h)].pin > 0 \/ slots[KeyOf(h)].dependents # {}
                 \/ h \in Queued \/ h \in Unloading
          BY <1>6, <4>1 DEF AssetInv, StateInv
        <4> QED
          BY <2>6, <4>1, <4>2, <4>3
      <3> QED
        BY <2>7, <3>1 DEF StateInv
    <2>10. CallInv'
      <3>1. ASSUME NEW c \in Call, FrameOK(c) PROVE FrameOK(c)'
        <4>1. c.handle \in Handle
          BY DEF Call
        <4> QED
          BY <2>5, <2>7, <3>1, <4>1 DEF FrameOK
      <3>2. Kept(calls) /\ calls' = calls
        BY KeptCalls
      <3>3. \A c \in Call : In(c, calls') => FrameOK(c)'
        BY <3>1, <3>2 DEF Kept
      <3>4. Pairs(calls')
        BY <3>2 DEF Kept
      <3> QED
        BY <3>3, <3>4, CallsRight
    <2> QED
      BY <1>1, <1>4, <2>7, <2>8, <2>9, <2>10 DEF AssetInv
  <1> QED
    BY <1>5, <1>6

-----------------------------------------------------------------------------
(* Requests                                                                 *)

LEMMA ApiFacts ==
    ASSUME TypeOK, AssetInv, NEW request, ApiOpen(request)
    PROVE  /\ ~Ending /\ unload = <<>>
           /\ main.op \in {"idle", "process", "drain", "cancelType", "cancelAll"}
           /\ main' = main => MainInv'
  <1>1. unload = <<>> /\ (calls # <<>> \/ main.op = "idle")
    BY DEF ApiOpen, InMain, InCallback
  <1>2. main.op \in {"idle", "process", "drain", "cancelType", "cancelAll"}
    BY <1>1 DEF AssetInv, MainInv
  <1> QED
    BY <1>1, <1>2 DEF Ending, MainInv

\* A slot that is free takes the new asset x, of type t: in the state st and with
\* a job, or with none; or it is unloaded again at once.
NewAsset(x, st, queued) ==
    /\ x \in Handle /\ Resolves(slots, x) /\ slots[KeyOf(x)].state = "EMPTY"
    /\ \A k \in Key : /\ slots'[k].generation = slots[k].generation
                      /\ k # KeyOf(x) => slots'[k] = slots[k]
    /\ slots'[KeyOf(x)].state = st /\ ~slots'[KeyOf(x)].retiring
    /\ slots'[KeyOf(x)].dependencies = {} /\ slots'[KeyOf(x)].dependents = {}
    /\ \A h : h \in Unloading' => h = x /\ ~queued
    /\ slots'[KeyOf(x)].pin > 0 \/ x \in Unloading'
    /\ \A h : h \in Queued' <=> h \in Queued \/ (h = x /\ queued)
    /\ \A h : h \in Open' <=> h \in Open \/ (h = x /\ queued)
    /\ st \in {"WAITING_DEPENDENCIES", "WAITING_LOAD"} \/ (st = "FAILED" /\ ~queued)
    /\ st # "FAILED" => queued

LEMMA NewAssetFacts ==
    ASSUME TypeOK, TypeOK', AssetInv, ~Ending, NEW x, NEW st, NEW queued \in BOOLEAN,
           NewAsset(x, st, queued)
    PROVE  /\ \A h : h \in Live(slots') <=> h \in Live(slots) \/ h = x
           /\ \A h \in Handle : (Gone(h)' <=> Gone(h)) /\ (Known(h) => Known(h)')
           /\ x \notin Live(slots) /\ ~Known(x) /\ x \notin Queued /\ x \notin Open
           /\ Known(x)'
           /\ \A h \in Live(slots) : KeyOf(h) \in Key /\ KeyOf(h) # KeyOf(x)
                                     /\ slots'[KeyOf(h)] = slots[KeyOf(h)]
  <1>1. /\ slots \in [Key -> Slot] /\ slots' \in [Key -> Slot]
        /\ x \in Handle /\ KeyOf(x) \in Key /\ Resolves(slots, x)
        /\ slots[KeyOf(x)].state = "EMPTY" /\ slots'[KeyOf(x)].state # "EMPTY"
    BY TypeParts, TypePrimes, KeyFacts DEF NewAsset
  <1>2. /\ \A k \in Key : slots'[k].generation = slots[k].generation
        /\ \A k \in Key : k # KeyOf(x) => slots'[k] = slots[k]
    BY DEF NewAsset
  <1>3. x \notin Live(slots)
    BY <1>1, LiveFacts
  <1>4. x.generation = slots[KeyOf(x)].generation /\ slots[KeyOf(x)].generation \in Nat
    BY <1>1, ResolvesFacts DEF Slot
  <1>5. ~Known(x)
    BY <1>3, <1>4 DEF Known, Gone
  <1>6. x \notin Queued /\ x \notin Open
    BY <1>5, QueueTypes DEF AssetInv, JobInv
  <1>7. ASSUME NEW h \in Live(slots)
        PROVE  KeyOf(h) \in Key /\ KeyOf(h) # KeyOf(x) /\ slots'[KeyOf(h)] = slots[KeyOf(h)]
    BY <1>1, <1>2, LiveHandle
  <1>8. \A h \in Handle : Resolves(slots', h) <=> Resolves(slots, h)
    BY <1>1, <1>2, KeyFacts, ResolvesFacts
  <1>9. ASSUME NEW h PROVE h \in Live(slots') <=> h \in Live(slots) \/ h = x
    <2>1. CASE h \in Handle /\ KeyOf(h) # KeyOf(x)
      BY <1>1, <1>2, <1>8, <2>1, LiveFacts, KeyFacts
    <2>2. CASE h \in Handle /\ KeyOf(h) = KeyOf(x)
      <3>1. h \in Live(slots') <=> Resolves(slots, h)
        BY <1>1, <1>8, <2>2, LiveFacts
      <3>2. h \notin Live(slots)
        BY <1>1, <2>2, LiveFacts
      <3>3. Resolves(slots, h) <=> h = x
        BY <1>1, <2>2, ResolvesFacts
      <3> QED
        BY <3>1, <3>2, <3>3
    <2>3. CASE h \notin Handle
      BY <1>1, <2>3, LiveFacts
    <2> QED
      BY <2>1, <2>2, <2>3
  <1>10. \A h \in Handle : Gone(h)' <=> Gone(h)
    BY <1>2, KeyFacts DEF Gone
  <1>11. \A h \in Handle : Known(h) => Known(h)'
    BY <1>9, <1>10 DEF Known
  <1>12. Known(x)'
    BY <1>9 DEF Known
  <1> QED
    BY <1>3, <1>5, <1>6, <1>7, <1>9, <1>10, <1>11, <1>12

LEMMA NewAssetStep ==
    ASSUME TypeOK, TypeOK', AssetInv, ~Ending, StorageInv', MainInv', GoodJobs(jobs'),
           NEW x, NEW st, NEW queued \in BOOLEAN, NewAsset(x, st, queued), unload = <<>>,
           \A d : In(d, calls) => d.handle # x,
           \/ calls' = calls
           \/ queued /\ \E c \in Call : /\ calls' = Append(calls, c) /\ c.handle = x
                                        /\ ~c.dangling /\ c.op = "build"
    PROVE  AssetInv'
  <1>1. /\ \A h : h \in Live(slots') <=> h \in Live(slots) \/ h = x
        /\ \A h \in Handle : (Gone(h)' <=> Gone(h)) /\ (Known(h) => Known(h)')
        /\ x \notin Live(slots) /\ ~Known(x) /\ x \notin Queued /\ x \notin Open
        /\ Known(x)'
        /\ \A h \in Live(slots) : KeyOf(h) \in Key /\ KeyOf(h) # KeyOf(x)
                                  /\ slots'[KeyOf(h)] = slots[KeyOf(h)]
    BY NewAssetFacts
  <1>2. /\ \A h : h \in Unloading' => h = x /\ ~queued
        /\ \A h : h \in Queued' <=> h \in Queued \/ (h = x /\ queued)
        /\ \A h : h \in Open' <=> h \in Open \/ (h = x /\ queued)
        /\ x \in Handle /\ KeyOf(x) \in Key
    BY KeyFacts DEF NewAsset
  <1>3. Kept(calls)
    BY KeptCalls
  <1>4. \A h : h \in Dtors' <=> h \in Dtors
    <2>1. CASE calls' = calls
      BY <2>1 DEF Dtors
    <2>2. CASE \E c \in Call : calls' = Append(calls, c) /\ c.handle = x /\ c.op = "build"
      <3>1. PICK c \in Call : calls' = Append(calls, c) /\ c.handle = x /\ c.op = "build"
        BY <2>2
      <3>2. calls \in Seq(Call) /\ Pairs(calls) /\ Fits(c, calls)
        BY <1>3, <3>1 DEF Kept, Fits
      <3> QED
        BY <3>1, <3>2, Pushed DEF Dtors
    <2> QED
      BY <2>1, <2>2
  <1>5. JobInv'
    <2>1. ASSUME NEW h \in Queued' PROVE Known(h)'
      BY <1>1, <1>2, <2>1, QueueTypes DEF AssetInv, JobInv
    <2>2. ASSUME NEW h \in Open'
          PROVE  /\ h \in Live(slots)' /\ h \notin Unloading'
                 /\ slots'[KeyOf(h)].state \in InProgress \cup {"PENDING_DELETE"}
                 /\ slots'[KeyOf(h)].dependencies = {} /\ slots'[KeyOf(h)].dependents = {}
      <3>1. CASE h \in Open
        <4>1. /\ h \in Live(slots) /\ h # x
              /\ slots[KeyOf(h)].state \in InProgress \cup {"PENDING_DELETE"}
              /\ slots[KeyOf(h)].dependencies = {} /\ slots[KeyOf(h)].dependents = {}
          BY <1>1, <3>1 DEF AssetInv, JobInv
        <4> QED
          BY <1>1, <1>2, <4>1
      <3>2. CASE h = x /\ queued
        BY <1>1, <1>2, <3>2 DEF NewAsset, InProgress
      <3> QED
        BY <1>2, <2>2, <3>1, <3>2
    <2> QED
      BY <2>1, <2>2 DEF JobInv
  <1>6. PinInv'
    <2>1. ASSUME NEW k \in Key, slots'[k].state = "PENDING_DELETE" PROVE slots'[k].pin = 0
      <3>1. k # KeyOf(x)
        BY <2>1 DEF NewAsset
      <3>2. slots'[k] = slots[k]
        BY <3>1 DEF NewAsset
      <3> QED
        BY <2>1, <3>2 DEF AssetInv, PinInv
    <2> QED
      BY <2>1 DEF PinInv
  <1>7. StateInv'
    <2>1. ASSUME NEW h \in Live(slots)'
          PROVE  /\ slots'[KeyOf(h)].state \in InProgress => h \in Open'
                 /\ slots'[KeyOf(h)].retiring => h \in Dtors'
                 /\ \/ slots'[KeyOf(h)].pin > 0 \/ slots'[KeyOf(h)].dependents # {}
                    \/ h \in Queued' \/ h \in Unloading'
      <3>1. CASE h \in Live(slots)
        <4>1. /\ slots[KeyOf(h)].state \in InProgress => h \in Open
              /\ slots[KeyOf(h)].retiring => h \in Dtors
              /\ \/ slots[KeyOf(h)].pin > 0 \/ slots[KeyOf(h)].dependents # {}
                 \/ h \in Queued
          BY <3>1 DEF AssetInv, StateInv, Unloading
        <4> QED
          BY <1>1, <1>2, <1>4, <3>1, <4>1
      <3>2. CASE h = x
        BY <1>2, <3>2 DEF NewAsset, InProgress
      <3> QED
        BY <1>1, <2>1, <3>1, <3>2
    <2> QED
      BY <2>1 DEF StateInv
  <1>8. CallInv'
    <2>1. ASSUME NEW d \in Call, In(d, calls) PROVE FrameOK(d)'
      <3>1. FrameOK(d) /\ d.handle # x /\ d.handle \in Handle
        BY <1>3, <2>1 DEF Kept, Call
      <3> QED
        BY <1>1, <1>2, <3>1 DEF FrameOK
    <2>2. CASE calls' = calls
      <3>1. Pairs(calls')
        BY <1>3, <2>2 DEF Kept
      <3>2. \A d \in Call : In(d, calls') => FrameOK(d)'
        BY <2>1, <2>2
      <3> QED
        BY <3>1, <3>2, CallsRight
    <2>3. CASE queued /\ \E c \in Call : /\ calls' = Append(calls, c) /\ c.handle = x
                                         /\ ~c.dangling /\ c.op = "build"
      <3>1. PICK c \in Call : /\ calls' = Append(calls, c) /\ c.handle = x
                              /\ ~c.dangling /\ c.op = "build"
        BY <2>3
      <3>2. calls \in Seq(Call) /\ Pairs(calls) /\ Fits(c, calls)
        BY <1>3, <3>1 DEF Kept, Fits
      <3>3. Pairs(calls') /\ \A d : In(d, calls') => d = c \/ In(d, calls)
        BY <3>1, <3>2, Pushed
      <3>4. FrameOK(c)'
        BY <1>1, <1>2, <2>3, <3>1 DEF FrameOK
      <3>5. \A d \in Call : In(d, calls') => FrameOK(d)'
        BY <2>1, <3>3, <3>4
      <3> QED
        BY <3>3, <3>5, CallsRight
    <2> QED
      BY <2>2, <2>3
  <1> QED
    BY <1>5, <1>6, <1>7, <1>8 DEF AssetInv

\* What a request finds: a free slot, and callbacks about other assets only.
LEMMA RequestFacts ==
    ASSUME TypeOK, AssetInv, ~Ending, NEW t \in Types, CanRequest(t), ~SameTypeNested
    PROVE  /\ CanAllocate(t) /\ NewKey(t) \in Key /\ NewHandle(t) \in Handle
           /\ KeyOf(NewHandle(t)) = NewKey(t) /\ Resolves(slots, NewHandle(t))
           /\ NewHandle(t).type = t
           /\ slots[NewKey(t)].state = "EMPTY" /\ slots[NewKey(t)].generation <= MaxGeneration
           /\ slots[NewKey(t)].dependencies = {} /\ slots[NewKey(t)].dependents = {}
           /\ MovedCalls(t) = calls /\ \A d : In(d, calls) => d.handle # NewHandle(t)
  <1>1. /\ CanAllocate(t) /\ slots[NewKey(t)].generation <= MaxGeneration
        /\ \A i \in DOMAIN calls : calls[i].handle.type # t
    BY DEF CanRequest
  <1>2. /\ NewKey(t) \in Key /\ NewHandle(t) \in Handle /\ KeyOf(NewHandle(t)) = NewKey(t)
        /\ Resolves(slots, NewHandle(t)) /\ NewHandle(t).type = t
    BY <1>1, AllocFacts
  <1>3. slots[NewKey(t)].state = "EMPTY"
    BY <1>1, AllocEmpty DEF AssetInv
  <1>4. slots[NewKey(t)].dependencies = {} /\ slots[NewKey(t)].dependents = {}
    BY <1>2, <1>3 DEF AssetInv, StorageInv, EmptyInv
  <1>5. MovedCalls(t) = calls
    <2>1. calls \in Seq(Call)
      BY TypeParts
    <2>2. calls = [i \in DOMAIN calls |-> calls[i]]
      BY <2>1
    <2> QED
      BY <1>1, <2>2 DEF MovedCalls
  <1>6. \A d : In(d, calls) => d.handle # NewHandle(t)
    BY <1>1, <1>2 DEF In
  <1> QED
    BY <1>1, <1>2, <1>3, <1>4, <1>5, <1>6

\* A request gives the slot it found to the asset x of type t and path p.
Takes(x, t, p) ==
    /\ unload = <<>> /\ UNCHANGED main /\ MainInv' /\ CanRequest(t) /\ TakeIndex(t)
    /\ x = NewHandle(t) /\ slots'[KeyOf(x)].path = p
    /\ \A k \in Key : k # KeyOf(x) => slots'[k] = slots[k]
    /\ slots'[KeyOf(x)].generation = slots[KeyOf(x)].generation
    /\ slots'[KeyOf(x)].dependencies = {} /\ slots'[KeyOf(x)].dependents = {}
    /\ ~slots'[KeyOf(x)].retiring
    /\ \/ cache' = cache
       \/ p \in Paths /\ cache' = [cache EXCEPT ![<<t, p>>] = NewHandle(t)]

LEMMA TakesStorage ==
    ASSUME TypeOK, TypeOK', AssetInv, ~Ending, ~SameTypeNested, NEW x, NEW t \in Types, NEW p,
           Takes(x, t, p), slots'[KeyOf(x)].state # "EMPTY", Starts
    PROVE  StorageInv'
  <1>1. CanRequest(t)
    BY DEF Takes
  <1>2. PICK l \in Key : l = NewKey(t)
    BY <1>1, RequestFacts
  <1>3. /\ CanAllocate(t) /\ KeyOf(x) = l /\ slots[l].state = "EMPTY"
        /\ slots[l].generation <= MaxGeneration
        /\ slots[l].dependencies = {} /\ slots[l].dependents = {}
    BY <1>1, <1>2, RequestFacts DEF Takes
  <1>4. \A k \in Key : /\ slots'[k].generation = slots[k].generation
                       /\ slots'[k].dependencies = slots[k].dependencies
                       /\ slots'[k].dependents = slots[k].dependents
                       /\ k # l => slots'[k].state = slots[k].state /\ slots'[k].path = slots[k].path
    BY <1>3 DEF Takes
  <1>5. slots'[l].state # "EMPTY" /\ slots'[l].path = p
    BY <1>3 DEF Takes
  <1>6. \/ cache' = cache
        \/ p \in Paths /\ cache' = [cache EXCEPT ![<<t, p>>] = NewHandle(t)]
    BY DEF Takes
  <1>7. StorageInv /\ UNCHANGED main /\ unload = <<>> /\ TakeIndex(t)
    BY DEF AssetInv, Takes
  <1> QED
    BY <1>2, <1>3, <1>4, <1>5, <1>6, <1>7, StorageTake

\* The new asset waits for its load.
LEMMA WaitingJobs ==
    ASSUME TypeOK, AssetInv, ~Ending, ~SameTypeNested, NEW t \in Types, CanRequest(t),
           NEW x, x = NewHandle(t),
           NEW f \in Job, jobs' = Append(jobs, f), f.handle = x, f.optional = {}, ~Terminal(f)
    PROVE  /\ GoodJobs(jobs') /\ HandlesOf(jobs') = HandlesOf(jobs) \cup {x}
           /\ OpenOf(jobs') = OpenOf(jobs) \cup {x}
  <1>1. /\ KeyOf(x) \in Key /\ x \in Handle /\ Resolves(slots, x)
        /\ slots[KeyOf(x)].state = "EMPTY"
    BY RequestFacts
  <1>2. x \notin Queued
    <2>1. slots \in [Key -> Slot]
      BY TypeParts
    <2>2. x \notin Live(slots)
      BY <1>1, <2>1, LiveFacts
    <2>3. ~Gone(x)
      <3>1. x.generation = slots[KeyOf(x)].generation /\ slots[KeyOf(x)].generation \in Nat
        BY <1>1, <2>1, ResolvesFacts DEF Slot
      <3> QED
        BY <3>1 DEF Gone
    <2> QED
      BY <2>2, <2>3 DEF AssetInv, JobInv, Known
  <1>3. jobs \in Seq(Job) /\ GoodJobs(jobs) /\ f.handle \notin HandlesOf(jobs)
    BY <1>2, TypeParts DEF AssetInv, JobInv, Queued
  <1>4. LET r == Append(jobs, f)
        IN  /\ GoodJobs(r) /\ HandlesOf(r) = HandlesOf(jobs) \cup {f.handle}
            /\ Terminal(f) => OpenOf(r) = OpenOf(jobs)
            /\ ~Terminal(f) => OpenOf(r) = OpenOf(jobs) \cup {f.handle}
    BY <1>3, JobsAdded
  <1> QED
    BY <1>4

LEMMA WaitingStep ==
    ASSUME TypeOK, TypeOK', AssetInv, ~Ending, ~SameTypeNested, NEW x, NEW t \in Types, NEW p,
           Takes(x, t, p), unload' = unload, NEW st,
           st \in {"WAITING_DEPENDENCIES", "WAITING_LOAD"},
           slots'[KeyOf(x)].state = st, slots'[KeyOf(x)].pin > 0,
           NEW f \in Job, jobs' = Append(jobs, f), f.handle = x, f.optional = {}, ~Terminal(f),
           \/ calls' = calls
           \/ \E c \in Call : /\ calls' = Append(calls, c) /\ c.handle = x
                              /\ ~c.dangling /\ c.op = "build"
    PROVE  AssetInv'
  <1>1. CanRequest(t) /\ unload = <<>> /\ MainInv'
    BY DEF Takes
  <1>2. /\ KeyOf(x) \in Key /\ x \in Handle /\ Resolves(slots, x)
        /\ slots[KeyOf(x)].state = "EMPTY"
        /\ \A d : In(d, calls) => d.handle # x
    BY <1>1, RequestFacts DEF Takes
  <1>3. Starts
    BY DEF Starts
  <1>4. StorageInv'
    BY <1>3, TakesStorage
  <1>5. \A h : h \notin Unloading'
    BY <1>1 DEF Unloading
  <1>7. /\ GoodJobs(jobs') /\ HandlesOf(jobs') = HandlesOf(jobs) \cup {x}
        /\ OpenOf(jobs') = OpenOf(jobs) \cup {x}
    <2>1. x = NewHandle(t)
      BY DEF Takes
    <2> QED
      BY <1>1, <2>1, WaitingJobs
  <1>8. NewAsset(x, st, TRUE)
    BY <1>2, <1>5, <1>7 DEF NewAsset, Takes, Queued, Open
  <1>9. \/ calls' = calls
        \/ TRUE /\ \E c \in Call : /\ calls' = Append(calls, c) /\ c.handle = x
                                   /\ ~c.dangling /\ c.op = "build"
    OBVIOUS
  <1>10. PICK q \in BOOLEAN : q = TRUE
    OBVIOUS
  <1>11. NewAsset(x, st, q)
    BY <1>8, <1>10
  <1>12. \/ calls' = calls
         \/ q /\ \E c \in Call : /\ calls' = Append(calls, c) /\ c.handle = x
                                 /\ ~c.dangling /\ c.op = "build"
    BY <1>9, <1>10
  <1> QED
    BY <1>1, <1>2, <1>4, <1>7, <1>11, <1>12, NewAssetStep

\* The new asset has failed; nobody keeps it, and it is unloaded, or its pin is kept.
LEMMA FailedStep ==
    ASSUME TypeOK, TypeOK', AssetInv, ~Ending, ~SameTypeNested, NEW x, NEW t \in Types, NEW p,
           Takes(x, t, p), slots'[KeyOf(x)].state = "FAILED", jobs' = jobs, calls' = calls,
           \/ unload' = unload /\ slots'[KeyOf(x)].pin > 0
           \/ unload' = TryUnload(slots', x) /\ slots'[KeyOf(x)].pin = 0
    PROVE  AssetInv'
  <1>1. CanRequest(t) /\ unload = <<>> /\ MainInv'
    BY DEF Takes
  <1>2. /\ KeyOf(x) \in Key /\ x \in Handle /\ Resolves(slots, x)
        /\ slots[KeyOf(x)].state = "EMPTY"
        /\ \A d : In(d, calls) => d.handle # x
    BY <1>1, RequestFacts DEF Takes
  <1>3. Starts
    BY <1>1, <1>2 DEF Starts
  <1>4. StorageInv'
    BY <1>3, TakesStorage
  <1>5. Resolves(slots', x) /\ slots'[KeyOf(x)].dependents = {}
    <2>1. slots'[KeyOf(x)].generation = slots[KeyOf(x)].generation
          /\ slots'[KeyOf(x)].dependents = {}
      BY DEF Takes
    <2> QED
      BY <1>2, <2>1 DEF Resolves
  <1>6. /\ \A h : h \in Unloading' => h = x
        /\ slots'[KeyOf(x)].pin > 0 \/ x \in Unloading'
    <2>1. CASE unload' = unload /\ slots'[KeyOf(x)].pin > 0
      BY <1>1, <2>1 DEF Unloading
    <2>2. CASE unload' = TryUnload(slots', x) /\ slots'[KeyOf(x)].pin = 0
      <3>1. Tries(x)
        BY <1>1, <2>2 DEF Tries
      <3> QED
        BY <1>5, <2>2, <3>1, TriesFacts
    <2> QED
      BY <2>1, <2>2
  <1>7. /\ GoodJobs(jobs') /\ HandlesOf(jobs') = HandlesOf(jobs)
        /\ OpenOf(jobs') = OpenOf(jobs)
    BY DEF AssetInv, JobInv
  <1>8. PICK q \in BOOLEAN : q = FALSE
    OBVIOUS
  <1>9. PICK st : st = "FAILED"
    OBVIOUS
  <1>10. NewAsset(x, st, q)
    BY <1>2, <1>6, <1>7, <1>8, <1>9 DEF NewAsset, Takes, Queued, Open
  <1> QED
    BY <1>1, <1>2, <1>4, <1>7, <1>10, NewAssetStep

LEMMA NewJobFacts ==
    ASSUME TypeOK, NEW t \in Types, CanAllocate(t), NEW deps \in DependencyLists(t), NEW state,
           Requirements \subseteq {"required"}
    PROVE  /\ NewJob(t, deps, state) \in Job /\ NewJob(t, deps, state).handle = NewHandle(t)
           /\ NewJob(t, deps, state).optional = {} /\ ~Terminal(NewJob(t, deps, state))
  <1>1. NewJob(t, deps, state) \in Job
    BY NewJobTypes
  <1>2. deps.optional = {}
    <2>1. "optional" \notin Requirements
      OBVIOUS
    <2> QED
      BY <2>1, DependencyTypes
  <1> QED
    BY <1>1, <1>2 DEF NewJob, Terminal

\* A request for an asset of type t takes the slot of x: it failed at once, or
\* the load has a job, which a build request may go on with.
Asked(x, t, p) ==
    /\ Takes(x, t, p)
    /\ \/ /\ slots'[KeyOf(x)].state = "FAILED" /\ jobs' = jobs /\ calls' = calls
          /\ \/ unload' = unload /\ slots'[KeyOf(x)].pin > 0
             \/ unload' = TryUnload(slots', x) /\ slots'[KeyOf(x)].pin = 0
       \/ /\ slots'[KeyOf(x)].state \in {"WAITING_DEPENDENCIES", "WAITING_LOAD"}
          /\ slots'[KeyOf(x)].pin > 0 /\ unload' = unload
          /\ \E f \in Job : /\ jobs' = Append(jobs, f) /\ f.handle = x
                            /\ f.optional = {} /\ ~Terminal(f)
          /\ \/ calls' = calls
             \/ \E c \in Call : /\ calls' = Append(calls, c) /\ c.handle = x
                                /\ ~c.dangling /\ c.op = "build" /\ ~c.settled

LEMMA AskedStep ==
    ASSUME TypeOK, TypeOK', AssetInv, ~Ending, ~SameTypeNested, NEW x, NEW t \in Types, NEW p,
           Asked(x, t, p)
    PROVE  AssetInv'
  <1>1. Takes(x, t, p)
    BY DEF Asked
  <1>2. CASE /\ slots'[KeyOf(x)].state = "FAILED" /\ jobs' = jobs /\ calls' = calls
             /\ \/ unload' = unload /\ slots'[KeyOf(x)].pin > 0
                \/ unload' = TryUnload(slots', x) /\ slots'[KeyOf(x)].pin = 0
    BY <1>1, <1>2, FailedStep
  <1>3. CASE /\ slots'[KeyOf(x)].state \in {"WAITING_DEPENDENCIES", "WAITING_LOAD"}
             /\ slots'[KeyOf(x)].pin > 0 /\ unload' = unload
             /\ \E f \in Job : /\ jobs' = Append(jobs, f) /\ f.handle = x
                               /\ f.optional = {} /\ ~Terminal(f)
             /\ \/ calls' = calls
                \/ \E c \in Call : /\ calls' = Append(calls, c) /\ c.handle = x
                                   /\ ~c.dangling /\ c.op = "build" /\ ~c.settled
    BY <1>1, <1>3, WaitingStep
  <1> QED
    BY <1>2, <1>3 DEF Asked

LEMMA AskedLoad ==
    ASSUME TypeOK, AssetInv, Requirements \subseteq {"required"}, ~SameTypeNested,
           NEW t \in Types, NEW p \in Paths, NEW skip, NEW deps \in DependencyLists(t),
           NEW ok \in BOOLEAN, Load(t, p, skip, deps, ok)
    PROVE  /\ ~Ending /\ calls' = calls
           /\ \E x : Asked(x, t, p)
  <1>1. PICK st : st = InitialState(deps, ok)
    OBVIOUS
  <1>2. st \in {"FAILED", "WAITING_DEPENDENCIES", "WAITING_LOAD"} /\ st \in States
    BY <1>1, StateTypes DEF States, InProgress
  <1>3. /\ ApiOpen("load") /\ CanRequest(t) /\ CanAllocate(t) /\ TakeIndex(t)
        /\ calls' = MovedCalls(t) /\ UNCHANGED <<unload, main>>
        /\ cache' = [cache EXCEPT ![<<t, p>>] = NewHandle(t)]
        /\ slots' = NewSlots(t, p, st)
        /\ jobs' = IF st = "FAILED" THEN jobs ELSE Append(jobs, NewJob(t, deps, st))
    BY <1>1 DEF Load, CanRequest
  <1>4. PICK request : request = "load"
    OBVIOUS
  <1>5. ~Ending /\ unload = <<>> /\ MainInv'
    <2>1. ApiOpen(request)
      BY <1>3, <1>4
    <2> QED
      BY <1>3, <2>1, ApiFacts
  <1>6. PICK x \in Handle : x = NewHandle(t)
    BY <1>3, AllocFacts
  <1>7. KeyOf(x) = NewKey(t) /\ calls' = calls
    BY <1>3, <1>5, <1>6, RequestFacts
  <1>8. LET s == NewSlots(t, p, st)
            l == NewKey(t)
        IN  /\ s \in [Key -> Slot]
            /\ \A k \in Key : k # l => s[k] = slots[k]
            /\ s[l].generation = slots[l].generation /\ s[l].state = st
            /\ s[l].pin = 1 /\ s[l].path = p /\ ~s[l].retiring
            /\ s[l].dependencies = {} /\ s[l].dependents = {}
    BY <1>2, <1>3, NewSlotsFacts
  <1>9. slots'[KeyOf(x)].pin > 0 /\ slots'[KeyOf(x)].state = st
    BY <1>3, <1>7, <1>8
  <1>10. Takes(x, t, p)
    BY <1>3, <1>5, <1>6, <1>7, <1>8 DEF Takes
  <1>11. CASE st = "FAILED"
    <2>1. jobs' = jobs /\ unload' = unload
      BY <1>3, <1>11
    <2> QED
      BY <1>5, <1>7, <1>9, <1>10, <1>11, <2>1 DEF Asked
  <1>12. CASE st # "FAILED"
    <2>1. PICK f \in Job : f = NewJob(t, deps, st)
      BY <1>3, NewJobFacts
    <2>2. f.handle = x /\ f.optional = {} /\ ~Terminal(f)
      BY <1>3, <1>6, <2>1, NewJobFacts
    <2>3. jobs' = Append(jobs, f) /\ unload' = unload
          /\ st \in {"WAITING_DEPENDENCIES", "WAITING_LOAD"}
      BY <1>2, <1>3, <1>12, <2>1
    <2> QED
      BY <1>5, <1>7, <1>9, <1>10, <2>2, <2>3 DEF Asked
  <1> QED
    BY <1>11, <1>12

LEMMA AskedBuild ==
    ASSUME TypeOK, AssetInv, Requirements \subseteq {"required"}, ~SameTypeNested,
           NEW t \in Types, NEW deps \in DependencyLists(t),
           NEW ok \in BOOLEAN, Build(t, deps, ok)
    PROVE  /\ ~Ending
           /\ \E x, p : Asked(x, t, p)
  <1>1. PICK st : st = InitialState(deps, ok)
    OBVIOUS
  <1>2. st \in {"FAILED", "WAITING_DEPENDENCIES", "WAITING_LOAD"} /\ st \in States
    BY <1>1, StateTypes DEF States, InProgress
  <1>3. PICK s : s = NewSlots(t, NoPath, st)
    OBVIOUS
  <1>4. /\ ApiOpen("build") /\ CanRequest(t) /\ CanAllocate(t) /\ TakeIndex(t)
        /\ UNCHANGED <<cache, main>>
        /\ st = "FAILED" =>
             /\ slots' = ReleaseSlots(s, NewHandle(t)) /\ unload' = ReleaseUnload(s, NewHandle(t))
             /\ calls' = MovedCalls(t) /\ jobs' = jobs
        /\ st # "FAILED" =>
             /\ slots' = s /\ jobs' = Append(jobs, NewJob(t, deps, st)) /\ unload' = unload
             /\ \/ calls' = MovedCalls(t)
                \/ calls' = Append(MovedCalls(t), [NewCall("build", NewHandle(t)) EXCEPT !.chain = TRUE])
    BY <1>1, <1>3 DEF Build, CanRequest
  <1>5. PICK request : request = "build"
    OBVIOUS
  <1>6. ~Ending /\ unload = <<>> /\ MainInv'
    <2>1. ApiOpen(request)
      BY <1>4, <1>5
    <2> QED
      BY <1>4, <2>1, ApiFacts
  <1>7. PICK x \in Handle : x = NewHandle(t)
    BY <1>4, AllocFacts
  <1>8. KeyOf(x) = NewKey(t) /\ MovedCalls(t) = calls /\ KeyOf(x) \in Key
    BY <1>4, <1>6, <1>7, RequestFacts
  <1>9. PICK p \in Paths \cup {NoPath} : p = NoPath
    OBVIOUS
  <1>10. LET u == NewSlots(t, p, st)
             l == NewKey(t)
         IN  /\ u \in [Key -> Slot]
             /\ \A k \in Key : k # l => u[k] = slots[k]
             /\ u[l].generation = slots[l].generation /\ u[l].state = st
             /\ u[l].pin = 1 /\ u[l].path = p /\ ~u[l].retiring
             /\ u[l].dependencies = {} /\ u[l].dependents = {}
    BY <1>2, <1>4, NewSlotsFacts
  <1>11. /\ s \in [Key -> Slot]
         /\ \A k \in Key : k # KeyOf(x) => s[k] = slots[k]
         /\ s[KeyOf(x)].generation = slots[KeyOf(x)].generation /\ s[KeyOf(x)].state = st
         /\ s[KeyOf(x)].pin = 1 /\ s[KeyOf(x)].path = p /\ ~s[KeyOf(x)].retiring
         /\ s[KeyOf(x)].dependencies = {} /\ s[KeyOf(x)].dependents = {}
    BY <1>3, <1>8, <1>9, <1>10
  <1>12. CASE st = "FAILED"
    <2>1. /\ slots' = ReleaseSlots(s, x) /\ unload' = ReleaseUnload(s, x)
          /\ calls' = calls /\ jobs' = jobs
      BY <1>4, <1>7, <1>8, <1>12
    <2>2. slots' = [s EXCEPT ![KeyOf(x)].pin = 0]
      <3>1. PICK k \in Key : k = KeyOf(x)
        BY <1>8
      <3>2. PICK s1 \in [Key -> Slot] : s1 = [s EXCEPT ![k].pin = 0]
        <4>1. [s EXCEPT ![k].pin = 0] \in [Key -> Slot]
          BY <1>11 DEF Slot
        <4> QED
          BY <4>1
      <3>3. s1 = [s EXCEPT ![KeyOf(x)].pin = @ - 1]
        <4>1. s[k].pin - 1 = 0
          BY <1>11, <3>1
        <4> QED
          BY <3>1, <3>2, <4>1
      <3>4. s1[k].dependencies = {} /\ s1[k].pin = 0 /\ ~s1[k].retiring /\ s1[k].state = "FAILED"
        BY <1>11, <1>12, <3>1, <3>2
      <3>5. UnpinCommitted(s1, s1[KeyOf(x)].dependencies) = s1
        BY <3>1, <3>2, <3>4 DEF UnpinCommitted
      <3>6. ~(s1[KeyOf(x)].retiring \/ s1[KeyOf(x)].state \in InProgress)
        BY <3>1, <3>4 DEF InProgress
      <3>7. ReleaseSlots(s, x) = s1
        BY <3>3, <3>5, <3>6, Zenon DEF ReleaseSlots
      <3> QED
        BY <2>1, <3>1, <3>2, <3>7
    <2>3. unload' = TryUnload(slots', x)
      BY <1>11, <1>12, <2>1 DEF ReleaseUnload, InProgress
    <2>4. /\ \A k \in Key : k # KeyOf(x) => slots'[k] = slots[k]
          /\ slots'[KeyOf(x)].generation = slots[KeyOf(x)].generation
          /\ slots'[KeyOf(x)].state = "FAILED"
          /\ slots'[KeyOf(x)].pin = 0 /\ slots'[KeyOf(x)].path = p /\ ~slots'[KeyOf(x)].retiring
          /\ slots'[KeyOf(x)].dependencies = {} /\ slots'[KeyOf(x)].dependents = {}
      <3>1. s[KeyOf(x)] \in Slot
        BY <1>8, <1>11
      <3>2. slots'[KeyOf(x)] = [s[KeyOf(x)] EXCEPT !.pin = 0]
            /\ \A k \in Key : k # KeyOf(x) => slots'[k] = s[k]
        BY <1>8, <1>11, <2>2
      <3> QED
        BY <1>11, <1>12, <3>1, <3>2 DEF Slot
    <2>5. Takes(x, t, p)
      BY <1>4, <1>6, <1>7, <2>4 DEF Takes
    <2> QED
      BY <1>6, <2>1, <2>3, <2>4, <2>5 DEF Asked
  <1>13. CASE st # "FAILED"
    <2>1. PICK f \in Job : f = NewJob(t, deps, st)
      BY <1>4, NewJobFacts
    <2>2. f.handle = x /\ f.optional = {} /\ ~Terminal(f)
      BY <1>4, <1>7, <2>1, NewJobFacts
    <2>3. PICK c \in Call : c = [NewCall("build", x) EXCEPT !.chain = TRUE]
      BY CallTypes
    <2>4. c.handle = x /\ ~c.dangling /\ c.op = "build" /\ ~c.settled
      BY <2>3 DEF NewCall
    <2>5. /\ jobs' = Append(jobs, f) /\ unload' = unload /\ slots' = s
          /\ st \in {"WAITING_DEPENDENCIES", "WAITING_LOAD"}
          /\ calls' = calls \/ calls' = Append(calls, c)
      BY <1>2, <1>4, <1>7, <1>8, <1>13, <2>1, <2>3
    <2>6. Takes(x, t, p)
      BY <1>4, <1>6, <1>7, <1>11, <2>5 DEF Takes
    <2>7. slots'[KeyOf(x)].pin > 0 /\ slots'[KeyOf(x)].state = st
      BY <1>11, <2>5
    <2> QED
      BY <1>6, <2>2, <2>4, <2>5, <2>6, <2>7 DEF Asked
  <1> QED
    BY <1>12, <1>13

LEMMA JobsLoad ==
    ASSUME TypeOK, TypeOK', AssetInv, Requirements \subseteq {"required"}, ~SameTypeNested,
           NEW t \in Types, NEW p \in Paths, NEW skip, NEW deps \in DependencyLists(t),
           NEW ok \in BOOLEAN, Load(t, p, skip, deps, ok)
    PROVE  AssetInv'
  BY AskedLoad, AskedStep

LEMMA JobsBuild ==
    ASSUME TypeOK, TypeOK', AssetInv, Requirements \subseteq {"required"}, ~SameTypeNested,
           NEW t \in Types, NEW deps \in DependencyLists(t),
           NEW ok \in BOOLEAN, Build(t, deps, ok)
    PROVE  AssetInv'
  BY AskedBuild, AskedStep

-----------------------------------------------------------------------------
(* The invariant of the asset system                                        *)

LEMMA AssetInit ==
    ASSUME Init
    PROVE  AssetInv
  <1>1. /\ slots = [k \in Key |-> EmptySlot(1)] /\ size = [t \in Types |-> 0]
        /\ free = [t \in Types |-> <<>>] /\ cache = [tp \in Types \X Paths |-> NoHandle]
        /\ unload = <<>> /\ jobs = <<>> /\ calls = <<>> /\ main.op = "idle"
    BY DEF Init, StorageInit, QueueInit, Idle
  <1>2. \A k \in Key : /\ slots[k].state = "EMPTY" /\ slots[k].generation = 1
                       /\ slots[k].dependencies = {} /\ slots[k].dependents = {}
    BY <1>1 DEF EmptySlot
  <1>3. Live(slots) = {} /\ DOMAIN unload = {} /\ DOMAIN jobs = {} /\ DOMAIN calls = {}
    BY <1>1, <1>2 DEF Live
  <1>4. UnloadInv /\ EmptyInv /\ GraphInv
    BY <1>2, <1>3 DEF UnloadInv, EmptyInv, GraphInv
  <1>5. OrderInv
    <2>1. Above({})
      BY <1>2, <1>3 DEF Above
    <2> QED
      BY <2>1 DEF OrderInv
  <1>6. FreeInv
    <2>1. ASSUME NEW t \in Types
          PROVE  /\ free[t] = <<>> /\ size[t] = 0
      BY <1>1
    <2>2. \A i \in Index : i \in Int /\ i > 0
      BY DEF Index
    <2>3. \A t \in Types, i \in Index : slots[<<t, i>>].state = "EMPTY"
      BY <1>2 DEF Key
    <2> QED
      BY <2>1, <2>2, <2>3 DEF FreeInv
  <1>7. CacheInv
    <2>1. NoHandle \notin Handle
      BY NoHandleAssumption
    <2>2. \A t \in Types, p \in Paths : cache[<<t, p>>] = NoHandle
      BY <1>1
    <2> QED
      BY <2>1, <2>2 DEF CacheInv
  <1>8. GenerationInv
    <2>1. 1 <= MaxGeneration + 1
      BY SystemAssumption
    <2> QED
      BY <1>2, <2>1 DEF GenerationInv
  <1>9. JobInv /\ PinInv /\ StateInv
    BY <1>2, <1>3 DEF JobInv, GoodJobs, Queued, Open, HandlesOf, OpenOf, PinInv, StateInv
  <1>10. MainInv /\ CallInv
    BY <1>1, <1>3 DEF MainInv, CallInv, Pairs
  <1> QED
    BY <1>4, <1>5, <1>6, <1>7, <1>8, <1>9, <1>10 DEF AssetInv, StorageInv

\* Clients' requests: every dependency is required, and no callback asks for an
\* asset of its own type.
LEMMA AssetClient ==
    ASSUME TypeOK, TypeOK', AssetInv, Requirements \subseteq {"required"}, ~SameTypeNested, Client
    PROVE  AssetInv'
  <1>1. ASSUME NEW t \in Types, NEW deps \in DependencyLists(t), NEW settingsOk \in BOOLEAN,
               Build(t, deps, settingsOk)
        PROVE  AssetInv'
    BY <1>1, JobsBuild
  <1>2. ASSUME NEW t \in Types, NEW deps \in DependencyLists(t), NEW settingsOk \in BOOLEAN,
               NEW p \in Paths, NEW skipCache \in BOOLEAN, Load(t, p, skipCache, deps, settingsOk)
        PROVE  AssetInv'
    BY <1>2, JobsLoad
  <1>3. ASSUME NEW h \in Live(slots), Retain(h) PROVE AssetInv'
    <2>1. PICK request : request = "retain"
      OBVIOUS
    <2>2. ApiOpen(request) /\ main' = main
      BY <1>3, <2>1 DEF Retain
    <2>3. ~Ending /\ unload = <<>> /\ MainInv'
      BY <2>2, ApiFacts
    <2> QED
      BY <1>3, <2>3, JobsRetain
  <1>4. ASSUME NEW h \in Live(slots), Release(h) PROVE AssetInv'
    <2>1. PICK request : request = "release"
      OBVIOUS
    <2>2. ApiOpen(request) /\ main' = main
      BY <1>4, <2>1 DEF Release
    <2>3. ~Ending /\ unload = <<>> /\ MainInv'
      BY <2>2, ApiFacts
    <2> QED
      BY <1>4, <2>3, JobsRelease
  <1>5. ASSUME NEW d \in Live(slots) \cup {NoHandle}, NEW r \in Requirements, AddDependency(d, r)
        PROVE  AssetInv'
    <2>1. r = "required"
      OBVIOUS
    <2>2. AddDependency(d, "required")
      BY <1>5, <2>1
    <2> QED
      BY <2>2, JobsAddDependency
  <1>6. ASSUME NEW t \in ForcedTypes, ForceUnload(t) PROVE AssetInv'
    <2>1. t \in Types
      BY SystemAssumption
    <2> QED
      BY <1>6, <2>1, JobsLoops
  <1>7. CASE Shutdown
    BY <1>7, JobsShutdown
  <1> QED
    BY <1>1, <1>2, <1>3, <1>4, <1>5, <1>6, <1>7 DEF Client

LEMMA AssetInternal ==
    ASSUME TypeOK, TypeOK', AssetInv, Internal
    PROVE  AssetInv'
  <1>1. CASE Unload
    <2>1. (DestroyEnter \/ DetachNext \/ DestroyDone) /\ UNCHANGED <<jobs, calls, main>>
      BY <1>1 DEF Unload
    <2> QED
      BY <2>1, JobsDestroyEnter, JobsDetachNext, JobsDestroyDone
  <1>2. CASE Queue
    BY <1>2, JobsCtorReturn, JobsDtorReturn, JobsStepReturn, JobsLoops, JobsLoopPick,
       JobsLoopAfter, JobsCancelTypeNext, JobsCancelAllNext DEF Queue
  <1>3. CASE BuildProcess \/ BuildAfter \/ BuildReturn
    BY <1>3, JobsBuildProcess, JobsBuildAfter, JobsBuildReturn
  <1>4. CASE DestroyTypeNext \/ DestroyAllNext
    BY <1>4, JobsDestroyTypeNext, JobsDestroyAllNext
  <1> QED
    BY <1>1, <1>2, <1>3, <1>4 DEF Internal

\* Nothing happens.
LEMMA AssetStopped ==
    ASSUME AssetInv, UNCHANGED vars
    PROVE  AssetInv'
  <1>1. UNCHANGED <<slots, size, free, cache, unload, jobs, calls, main>>
    BY DEF vars
  <1>2. StorageInv'
    <2>1. /\ UnloadInv /\ EmptyInv /\ GraphInv /\ OrderInv
          /\ FreeInv /\ CacheInv /\ GenerationInv
      BY DEF AssetInv, StorageInv
    <2>2. UnloadInv' /\ EmptyInv' /\ GenerationInv'
      BY <1>1, <2>1 DEF UnloadInv, EmptyInv, GenerationInv, Ending
    <2>3. GraphInv'
      BY <1>1, <2>1 DEF GraphInv, Ending, H, Edge, EdgeTo
    <2>4. OrderInv'
      BY <1>1, <2>1 DEF OrderInv, Above
    <2>5. FreeInv' /\ CacheInv'
      BY <1>1, <2>1 DEF FreeInv, CacheInv, Ending
    <2> QED
      BY <2>2, <2>3, <2>4, <2>5 DEF StorageInv
  <1>3. JobInv' /\ PinInv' /\ StateInv' /\ MainInv' /\ CallInv'
    BY <1>1 DEF AssetInv, JobInv, PinInv, StateInv, MainInv, CallInv, FrameOK, Known, Gone, Ending,
                Queued, Open, Unloading, Dtors
  <1> QED
    BY <1>2, <1>3 DEF AssetInv

LEMMA AssetNext ==
    ASSUME TypeOK, AssetInv, Requirements \subseteq {"required"}, ~SameTypeNested, [Next]_vars
    PROVE  TypeOK' /\ AssetInv'
  <1>1. TypeOK'
    BY TypeNext
  <1>2. CASE Internal
    BY <1>1, <1>2, AssetInternal
  <1>3. CASE Client
    BY <1>1, <1>3, AssetClient
  <1>4. CASE Stopped \/ UNCHANGED vars
    <2>1. UNCHANGED vars
      BY <1>4 DEF Stopped
    <2> QED
      BY <1>1, <2>1, AssetStopped
  <1> QED
    BY <1>1, <1>2, <1>3, <1>4 DEF Next

\* What holds of the asset system in every state.
THEOREM AssetCorrect ==
    ASSUME Requirements \subseteq {"required"}, ~SameTypeNested
    PROVE  Spec => [](TypeOK /\ AssetInv)
  <1>1. Init => TypeOK /\ AssetInv
    BY TypeInit, AssetInit
  <1>2. TypeOK /\ AssetInv /\ [Next]_vars => (TypeOK /\ AssetInv)'
    BY AssetNext
  <1> QED
    BY <1>1, <1>2, PTL DEF Spec

-----------------------------------------------------------------------------
(* What the invariant says to clients                                       *)

LEMMA SettledFacts ==
    ASSUME Settled
    PROVE  unload = <<>> /\ DOMAIN unload = {} /\ ~Ending
  BY DEF Settled, Ending

LEMMA GraphFromInv ==
    ASSUME AssetInv
    PROVE  GraphSymmetric
  <1> SUFFICES ASSUME Settled, NEW k \in Key
               PROVE  /\ \A d \in slots[k].dependencies :
                            d \in Live(slots) /\ H(k) \in slots[KeyOf(d)].dependents
                      /\ \A p \in slots[k].dependents :
                            p \in Live(slots) /\ H(k) \in slots[KeyOf(p)].dependencies
    BY DEF GraphSymmetric, H
  <1>1. ~Ending /\ DOMAIN unload = {} /\ GraphInv
    BY SettledFacts DEF AssetInv, StorageInv
  <1>2. \A d \in slots[k].dependencies : Edge(k, d)
    BY <1>1 DEF Edge
  <1>3. \A p \in slots[k].dependents : H(k) \in slots[KeyOf(p)].dependencies
    BY <1>1 DEF GraphInv, EdgeTo, Edge
  <1> QED
    BY <1>1, <1>2, <1>3 DEF GraphInv

LEMMA FreeFromInv ==
    ASSUME TypeOK, AssetInv
    PROVE  FreeListExact
  <1> SUFFICES ASSUME Settled, NEW t \in Types
               PROVE  /\ \A i, j \in DOMAIN free[t] : free[t][i] = free[t][j] => i = j
                      /\ {free[t][i] : i \in DOMAIN free[t]}
                           = {i \in 1..size[t] : slots[<<t, i>>].state = "EMPTY"}
    BY DEF FreeListExact
  <1>1. ~Ending /\ FreeInv
    BY SettledFacts DEF AssetInv, StorageInv
  <1>2. PICK q \in Seq(Index) : q = free[t]
    BY TypeParts
  <1>3. size[t] \in 0..MaxSlots /\ MaxSlots \in Nat
    BY TypeParts, StorageAssumption
  <1>4. \A i \in 1..size[t] : i \in Index
    BY <1>3 DEF Index
  <1>5. \A i \in Index : i <= size[t] => i \in 1..size[t]
    BY <1>3 DEF Index
  <1>6. \A i \in Index : (\E n \in DOMAIN q : q[n] = i)
                           <=> i <= size[t] /\ slots[<<t, i>>].state = "EMPTY"
    BY <1>1, <1>2 DEF FreeInv
  <1>7. \A n \in DOMAIN q : q[n] \in Index
    BY <1>2
  <1>8. \A i \in 1..size[t] : i <= size[t]
    BY <1>3
  <1>9. \A i : (\E n \in DOMAIN q : q[n] = i)
                 <=> i \in 1..size[t] /\ slots[<<t, i>>].state = "EMPTY"
    BY <1>4, <1>5, <1>6, <1>7, <1>8
  <1>10. {q[n] : n \in DOMAIN q} = {i \in 1..size[t] : slots[<<t, i>>].state = "EMPTY"}
    BY <1>9
  <1> QED
    BY <1>1, <1>2, <1>10 DEF FreeInv

LEMMA CacheFromInv ==
    ASSUME TypeOK, AssetInv
    PROVE  CacheLive
  <1>1. Settled => CacheInv /\ ~Ending
    BY SettledFacts DEF AssetInv, StorageInv
  <1>2. \A t \in Types, p \in Paths : cache[<<t, p>>] # NoHandle => cache[<<t, p>>] \in Handle
    BY TypeParts
  <1> SUFFICES ASSUME Settled, NEW t \in Types, NEW p \in Paths, cache[<<t, p>>] # NoHandle
               PROVE  /\ cache[<<t, p>>] \in Live(slots)
                      /\ cache[<<t, p>>].type = t
                      /\ slots[KeyOf(cache[<<t, p>>])].path = p
    BY DEF CacheLive
  <1>3. PICK c \in Handle : c = cache[<<t, p>>]
    BY <1>2
  <1>4. c \in Live(slots) /\ c.type = t /\ slots[KeyOf(c)].path = p
    BY <1>1, <1>3 DEF CacheInv
  <1> QED
    BY <1>3, <1>4

LEMMA JobsFromInv ==
    ASSUME TypeOK, AssetInv
    PROVE  JobsMatch
  <1>1. slots \in [Key -> Slot] /\ GoodJobs(jobs) /\ JobInv /\ StateInv /\ PinInv
    BY TypeParts DEF AssetInv, JobInv
  <1>2. LoadHasJob
    <2> SUFFICES ASSUME ~Ending, NEW k \in Key, slots[k].state \in InProgress
                 PROVE  Cardinality({i \in DOMAIN jobs : jobs[i].handle = H(k)
                                                         /\ ~Terminal(jobs[i])}) = 1
      BY DEF LoadHasJob, Ending, H
    <2>1. slots[k].state # "EMPTY" /\ slots[k].generation \in Nat
      BY <1>1 DEF InProgress, Slot
    <2>2. H(k) \in Live(slots) /\ KeyOf(H(k)) = k
      BY <2>1, HandleFacts DEF H, Live
    <2>3. H(k) \in Open
      BY <1>1, <2>2 DEF StateInv
    <2>4. PICK i \in DOMAIN jobs : ~Terminal(jobs[i]) /\ jobs[i].handle = H(k)
      BY <2>3 DEF Open, OpenOf
    <2>5. \A m \in DOMAIN jobs : jobs[m].handle = H(k) => m = i
      BY <1>1, <2>4 DEF GoodJobs
    <2>6. {m \in DOMAIN jobs : jobs[m].handle = H(k) /\ ~Terminal(jobs[m])} = {i}
      BY <2>4, <2>5
    <2> QED
      BY <2>6, FS_Singleton
  <1>3. JobHasAsset
    <2> SUFFICES ASSUME ~Ending, NEW i \in DOMAIN jobs, ~Terminal(jobs[i])
                 PROVE  /\ Resolves(slots, jobs[i].handle)
                        /\ slots[KeyOf(jobs[i].handle)].state \in InProgress \cup {"PENDING_DELETE"}
      BY DEF JobHasAsset, Ending
    <2>1. jobs[i].handle \in Open
      BY DEF Open, OpenOf
    <2>2. /\ jobs[i].handle \in Live(slots)
          /\ slots[KeyOf(jobs[i].handle)].state \in InProgress \cup {"PENDING_DELETE"}
      BY <1>1, <2>1 DEF JobInv
    <2> QED
      BY <1>1, <2>2, LiveFacts
  <1>4. PendingDeleteUnpinned
    BY <1>1 DEF PinInv, PendingDeleteUnpinned
  <1> QED
    BY <1>2, <1>3, <1>4 DEF JobsMatch

LEMMA LeakFromInv ==
    ASSUME TypeOK, AssetInv
    PROVE  NothingLeaked
  <1>1. Quiet => ~Ending /\ unload = <<>> /\ DOMAIN unload = {}
    BY DEF Quiet, InMain, Ending
  <1> QED
    BY <1>1 DEF NothingLeaked, AssetInv, StateInv, Queued, HandlesOf, Unloading

LEMMA ReentrantFromInv ==
    ASSUME TypeOK, AssetInv
    PROVE  NoReentrantDestroy
  BY FramesDistinct DEF NoReentrantDestroy, AssetInv, StorageInv

-----------------------------------------------------------------------------
(* The theorems                                                             *)

\* Whatever is loaded, released or unloaded by force, and in whatever nesting of
\* destroy_slot calls, the two directions of the dependency graph agree again
\* when the calls are over (commit, detach_committed_dependencies,
\* detach_dependents_from_slot).
THEOREM GraphCorrect ==
    ASSUME Requirements \subseteq {"required"}, ~SameTypeNested
    PROVE  Spec => []GraphSymmetric
  <1>1. TypeOK /\ AssetInv => GraphSymmetric
    BY GraphFromInv
  <1>2. Spec => [](TypeOK /\ AssetInv)
    BY AssetCorrect
  <1> QED
    BY <1>1, <1>2, PTL

\* allocate_slot hands out no slot twice and try_unload_slot loses none, and the
\* path cache only answers with the asset that exists under the path.
THEOREM StorageCorrect ==
    ASSUME Requirements \subseteq {"required"}, ~SameTypeNested
    PROVE  Spec => []StorageExact
  <1>1. TypeOK /\ AssetInv => StorageExact
    BY FreeFromInv, CacheFromInv DEF StorageExact
  <1>2. Spec => [](TypeOK /\ AssetInv)
    BY AssetCorrect
  <1> QED
    BY <1>1, <1>2, PTL

\* Every asset that is loading has one unfinished job and every unfinished job
\* its own asset, however callbacks, cancellations and forced unloading interleave;
\* and an asset that is marked for deletion is not pinned again.
THEOREM JobsCorrect ==
    ASSUME Requirements \subseteq {"required"}, ~SameTypeNested
    PROVE  Spec => []JobsMatch
  <1>1. TypeOK /\ AssetInv => JobsMatch
    BY JobsFromInv
  <1>2. Spec => [](TypeOK /\ AssetInv)
    BY AssetCorrect
  <1> QED
    BY <1>1, <1>2, PTL

\* No asset without a pin, a dependent or a job is left when the application has
\* the thread again: release, retire_load_job and destroy_slot try every asset
\* that may have become unused.
THEOREM NothingLeft ==
    ASSUME Requirements \subseteq {"required"}, ~SameTypeNested
    PROVE  Spec => []NothingLeaked
  <1>1. TypeOK /\ AssetInv => NothingLeaked
    BY LeakFromInv
  <1>2. Spec => [](TypeOK /\ AssetInv)
    BY AssetCorrect
  <1> QED
    BY <1>1, <1>2, PTL

\* destroy_slot never meets an asset that one of its callers destroys: its
\* cascade follows the order of the dependencies.
THEOREM DestroyedOnce ==
    ASSUME Requirements \subseteq {"required"}, ~SameTypeNested
    PROVE  Spec => []NoReentrantDestroy
  <1>1. TypeOK /\ AssetInv => NoReentrantDestroy
    BY ReentrantFromInv
  <1>2. Spec => [](TypeOK /\ AssetInv)
    BY AssetCorrect
  <1> QED
    BY <1>1, <1>2, PTL

-----------------------------------------------------------------------------
(* A cancelled load stays cancelled                                         *)

\* What one step may do to assets that are marked for deletion.
StaysCancelled ==
    \A k \in Key : slots[k].state = "PENDING_DELETE" =>
                     slots'[k].state \in {"PENDING_DELETE", "FAILED", "EMPTY"}

\* A loader that is being constructed is above all other callbacks, and its
\* asset is still being loaded.
CtorInv ==
    \A i \in DOMAIN calls : calls[i].op = "ctor" =>
      i = Len(calls) /\ unload = <<>> /\ slots[KeyOf(calls[i].handle)].state = "LOADING"

NoCtors(cs) == \A c : In(c, cs) => c.op # "ctor"

LEMMA CtorTop ==
    ASSUME TypeOK, CtorInv
    PROVE  /\ calls # <<>> => NoCtors(Below)
           /\ calls # <<>> /\ Top.op = "ctor" =>
                unload = <<>> /\ slots[KeyOf(Top.handle)].state = "LOADING"
           /\ calls = <<>> \/ Top.op # "ctor" => NoCtors(calls)
  <1>1. calls \in Seq(Call)
    BY TypeParts
  <1>2. CASE calls = <<>>
    BY <1>2 DEF NoCtors, In
  <1>3. CASE calls # <<>>
    <2>1. /\ Len(calls) \in DOMAIN calls /\ Top = calls[Len(calls)]
          /\ \A m \in DOMAIN Below : m \in DOMAIN calls /\ m < Len(calls) /\ Below[m] = calls[m]
      BY <1>1, <1>3, TopFacts DEF Top, Below
    <2>2. \A m \in DOMAIN Below : m # Len(calls)
      <3>1. \A m \in DOMAIN calls : m \in Nat
        BY <1>1
      <3>2. Len(calls) \in Nat
        BY <1>1
      <3> QED
        BY <2>1, <3>1, <3>2
    <2>3. NoCtors(Below)
      BY <2>1, <2>2 DEF CtorInv, NoCtors, In
    <2>4. Top.op = "ctor" => unload = <<>> /\ slots[KeyOf(Top.handle)].state = "LOADING"
      BY <2>1 DEF CtorInv
    <2>5. Top.op # "ctor" => NoCtors(calls)
      BY <2>1 DEF CtorInv, NoCtors, In
    <2> QED
      BY <1>3, <2>3, <2>4, <2>5
  <1> QED
    BY <1>2, <1>3

\* No loader is being constructed after the step.
LEMMA CtorNone ==
    ASSUME NoCtors(calls')
    PROVE  CtorInv'
  BY DEF CtorInv, NoCtors, In

\* The step calls back.
LEMMA CtorCalls ==
    ASSUME NEW cs \in Seq(Call), NoCtors(cs), NEW c \in Call, calls' = Append(cs, c),
           c.op = "ctor" => unload' = <<>> /\ slots'[KeyOf(c.handle)].state = "LOADING"
    PROVE  CtorInv'
  <1>1. PICK r \in Seq(Call) : r = Append(cs, c)
    BY AppendFacts
  <1>2. /\ \A m \in DOMAIN cs : r[m] = cs[m]
        /\ r[Len(r)] = c
        /\ \A m \in DOMAIN r : m # Len(r) => m \in DOMAIN cs
    BY <1>1, AppendFacts
  <1>3. \A m \in DOMAIN r : r[m].op = "ctor" => m = Len(r)
    BY <1>2 DEF NoCtors, In
  <1> QED
    BY <1>1, <1>2, <1>3 DEF CtorInv

LEMMA CtorProcess ==
    ASSUME TypeOK, NEW i \in DOMAIN jobs, NEW cs \in Seq(Call), NoCtors(cs), ProcessJob(i, cs),
           unload' = <<>>
    PROVE  CtorInv'
  <1>1. PICK h \in Handle : h = jobs[i].handle
    BY TypeParts, JobEdits
  <1>2. slots \in [Key -> Slot]
    BY TypeParts
  <1>3. \/ calls' = cs
        \/ calls' = Append(cs, NewCall("step", h))
        \/ /\ slots' = SetState(slots, h, "LOADING")
           /\ \E b \in BOOLEAN : calls' = Append(cs, [NewCall("ctor", h) EXCEPT !.chain = b])
    BY <1>1, ProcessFacts DEF ProcessOutcome
  <1>4. CASE calls' = cs
    BY <1>4, CtorNone
  <1>5. CASE calls' = Append(cs, NewCall("step", h))
    <2>1. PICK c \in Call : c = NewCall("step", h)
      BY CallTypes
    <2>2. c.op # "ctor"
      BY <2>1 DEF NewCall
    <2> QED
      BY <1>5, <2>1, <2>2, CtorCalls
  <1>6. CASE /\ slots' = SetState(slots, h, "LOADING")
             /\ \E b \in BOOLEAN : calls' = Append(cs, [NewCall("ctor", h) EXCEPT !.chain = b])
    <2>1. PICK b \in BOOLEAN : calls' = Append(cs, [NewCall("ctor", h) EXCEPT !.chain = b])
      BY <1>6
    <2>2. PICK c \in Call : c = [NewCall("ctor", h) EXCEPT !.chain = b]
      BY CallTypes
    <2>3. c.handle = h
      BY <2>2 DEF NewCall
    <2>4. slots'[KeyOf(c.handle)].state = "LOADING"
      <3>1. KeyOf(h) \in Key
        BY KeyFacts
      <3>2. "LOADING" \in States
        BY OutcomeTypes
      <3>3. LET t == SetState(slots, h, "LOADING")
            IN  /\ t \in [Key -> Slot]
                /\ SameGraph(slots, t)
                /\ \A k \in Key : /\ t[k].pin = slots[k].pin /\ (t[k].retiring <=> slots[k].retiring)
                                  /\ t[k].state = IF k = KeyOf(h) THEN "LOADING" ELSE slots[k].state
        BY <1>2, <3>2, SetStateFacts
      <3> QED
        BY <1>6, <2>3, <3>1, <3>3
    <2> QED
      BY <2>1, <2>2, <2>4, CtorCalls
  <1> QED
    BY <1>3, <1>4, <1>5, <1>6

LEMMA CtorRetire ==
    ASSUME TypeOK, NEW i \in DOMAIN jobs, NEW cs \in Seq(Call), NoCtors(cs), Retire(i, cs)
    PROVE  CtorInv'
  <1>1. PICK h \in Handle : h = jobs[i].handle
    BY TypeParts, JobEdits
  <1>2. PICK b \in BOOLEAN : b <=> Resolves(slots, h)
    OBVIOUS
  <1>3. calls' = cs \/ calls' = Append(cs, [NewCall("dtor", h) EXCEPT !.found = Resolves(slots, h)])
    BY <1>1 DEF Retire
  <1>4. Resolves(slots, h) \in BOOLEAN
    BY DEF Resolves
  <1>5. PICK c \in Call : c = [NewCall("dtor", h) EXCEPT !.found = Resolves(slots, h)]
    BY <1>4, CallTypes
  <1>6. c.op # "ctor"
    BY <1>5 DEF NewCall
  <1> QED
    BY <1>3, <1>5, <1>6, CtorNone, CtorCalls

\* Nothing is being constructed, or nothing that matters to it changes.
LEMMA CtorSame ==
    ASSUME TypeOK, CtorInv, calls' = calls,
           unload # <<>> \/ calls = <<>> \/ Top.op # "ctor"
    PROVE  CtorInv'
  <1>1. NoCtors(calls)
    <2>1. CASE unload # <<>>
      BY <2>1 DEF CtorInv, NoCtors, In
    <2> QED
      BY <2>1, CtorTop
  <1> QED
    BY <1>1, CtorNone

LEMMA CtorKept ==
    ASSUME TypeOK, CtorInv, calls' = calls, unload' = unload,
           \A k \in Key : slots[k].state = "LOADING" => slots'[k].state = "LOADING"
    PROVE  CtorInv'
  <1>1. \A i \in DOMAIN calls : KeyOf(calls[i].handle) \in Key
    <2>1. \A i \in DOMAIN calls : calls[i] \in Call
      BY TypeParts
    <2>2. \A c \in Call : c.handle \in Handle
      BY DEF Call
    <2> QED
      BY <2>1, <2>2, KeyFacts
  <1> QED
    BY <1>1 DEF CtorInv

\* The steps of destroy_slot.
LEMMA CancelUnload ==
    ASSUME TypeOK, CtorInv, DestroyEnter \/ DetachNext \/ DestroyDone, calls' = calls
    PROVE  CtorInv' /\ StaysCancelled
  <1>1. unload # <<>> /\ slots \in [Key -> Slot]
    BY TypeParts DEF DestroyEnter, DetachNext, DestroyDone
  <1>2. CtorInv'
    BY <1>1, CtorSame
  <1>3. CASE DestroyEnter
    BY <1>2, <1>3 DEF DestroyEnter, StaysCancelled
  <1>4. CASE DetachNext
    <2>1. PICK d \in Frame.rest :
            slots' = IF Resolves(slots, d)
                     THEN [slots EXCEPT ![KeyOf(d)].dependents = @ \ {Frame.handle}]
                     ELSE slots
      BY <1>4 DEF DetachNext
    <2>2. d \in Handle /\ KeyOf(d) \in Key
      BY <1>1, FrameTypes, TypeParts, KeyFacts
    <2>3. CASE Resolves(slots, d)
      <3>1. SameAssets(slots, [slots EXCEPT ![KeyOf(d)].dependents = @ \ {Frame.handle}])
        BY <1>1, <2>2, DetachFacts
      <3> QED
        BY <1>2, <2>1, <2>3, <3>1 DEF SameAssets, StaysCancelled
    <2>4. CASE ~Resolves(slots, d)
      BY <1>2, <2>1, <2>4 DEF StaysCancelled
    <2> QED
      BY <2>3, <2>4
  <1>5. CASE DestroyDone
    <2>1. PICK l \in Key : l = KeyOf(Frame.handle)
      BY <1>1, FrameTypes, TypeParts, KeyFacts
    <2>2. PICK g \in Nat : g = NextGeneration(slots[l].generation)
      <3>1. slots[l].generation \in Nat
        BY <1>1 DEF Slot
      <3> QED
        BY <3>1, GenerationFacts
    <2>3. slots' = [slots EXCEPT ![l] = EmptySlot(g)]
      BY <1>5, <2>1, <2>2 DEF DestroyDone
    <2>4. /\ \A k \in Key : k # l => slots'[k] = slots[k]
          /\ slots'[l].state = "EMPTY"
      BY <1>1, <2>3, ResetFacts
    <2> QED
      BY <1>2, <2>4 DEF StaysCancelled
  <1> QED
    BY <1>2, <1>3, <1>4, <1>5

\* The loader is constructed: its asset is not one that was marked meanwhile.
LEMMA CancelCtorReturn ==
    ASSUME TypeOK, AssetInv, CtorInv, CtorReturn
    PROVE  CtorInv' /\ StaysCancelled
  <1>1. calls # <<>> /\ Top.op = "ctor" /\ slots \in [Key -> Slot] /\ calls \in Seq(Call)
    BY TypeParts DEF CtorReturn, InCallback
  <1>2. PICK h \in Handle : h = Top.handle
    BY <1>1, TopTypes
  <1>3. NoCtors(Below) /\ slots[KeyOf(h)].state = "LOADING" /\ ~Top.dangling
    BY <1>1, <1>2, CtorTop, Popped DEF AssetInv, FrameOK
  <1>4. /\ slots' = FinishSlot(slots, h, "Failed") \/ slots' = SetState(slots, h, "PROCESSING")
        /\ \/ calls' = Below
           \/ calls' = Append(Below, [NewCall("step", h) EXCEPT !.dangling = Top.dangling])
    BY <1>2, <1>3 DEF CtorReturn
  <1>5. CtorInv'
    <2>1. CASE calls' = Below
      BY <1>3, <2>1, CtorNone
    <2>2. CASE calls' = Append(Below, [NewCall("step", h) EXCEPT !.dangling = Top.dangling])
      <3>1. Top.dangling \in BOOLEAN /\ Below \in Seq(Call)
        BY <1>1, TopTypes
      <3>2. PICK c \in Call : c = [NewCall("step", h) EXCEPT !.dangling = Top.dangling]
        BY <3>1, CallTypes
      <3>3. c.op # "ctor"
        BY <3>2 DEF NewCall
      <3> QED
        BY <1>3, <2>2, <3>1, <3>2, <3>3, CtorCalls
    <2> QED
      BY <1>4, <2>1, <2>2
  <1>6. \A k \in Key : k # KeyOf(h) => slots'[k].state = slots[k].state
    <2>1. CASE slots' = FinishSlot(slots, h, "Failed")
      BY <1>1, <2>1, FinishSlotFacts
    <2>2. CASE slots' = SetState(slots, h, "PROCESSING")
      BY <1>1, <2>2, SetStateFacts, OutcomeTypes
    <2> QED
      BY <1>4, <2>1, <2>2
  <1> QED
    BY <1>3, <1>5, <1>6 DEF StaysCancelled

\* The step returns: a load that was cancelled meanwhile ends as failed.
LEMMA CancelStepReturn ==
    ASSUME TypeOK, AssetInv, CtorInv, NEW status, StepReturn(status)
    PROVE  CtorInv' /\ StaysCancelled
  <1>1. /\ calls # <<>> /\ Top.op = "step" /\ slots \in [Key -> Slot] /\ calls' = Below
        /\ UNCHANGED main
    BY TypeParts DEF StepReturn, InCallback
  <1>2. PICK h \in Handle : h = Top.handle
    BY <1>1, TopTypes, TypeParts
  <1>3. NoCtors(Below) /\ FrameOK(Top) /\ ~Top.dangling
    BY <1>1, CtorTop, Popped DEF AssetInv, FrameOK
  <1>4. CtorInv'
    BY <1>1, <1>3, CtorNone
  <1>5. h \in Live(slots) /\ Resolves(slots, h)
    <2>1. h \in Open /\ ~Ending
      BY <1>1, <1>2, <1>3, InsideFacts DEF FrameOK
    <2>2. h \in Live(slots)
      BY <2>1 DEF AssetInv, JobInv
    <2> QED
      BY <1>1, <2>2, LiveHandle
  <1>6. PICK i \in JobsOf(h) :
          \/ slots[KeyOf(h)].state = "PENDING_DELETE" /\ slots' = FinishSlot(slots, h, "Cancelled")
          \/ /\ slots[KeyOf(h)].state # "PENDING_DELETE"
             /\ \/ slots' = slots
                \/ slots' = SetState(slots, h, "WAITING_DEPENDENCIES")
                \/ slots' = FinishSlot(slots, h, "Failed")
                \/ slots' = DoneSlots(h, jobs[i].required \cup jobs[i].optional)
    BY <1>2, <1>3 DEF StepReturn
  <1>7. PICK deps \in SUBSET (Handle \cup {NoHandle}) : deps = jobs[i].required \cup jobs[i].optional
    <2>1. jobs[i] \in Job
      BY TypeParts, JobsOfFacts
    <2> QED
      BY <2>1 DEF Job
  <1>8. CASE slots[KeyOf(h)].state = "PENDING_DELETE" /\ slots' = FinishSlot(slots, h, "Cancelled")
    <2>1. \A k \in Key : slots'[k].state = IF k = KeyOf(h) THEN "FAILED" ELSE slots[k].state
      BY <1>1, <1>8, FinishSlotFacts
    <2> QED
      BY <1>4, <2>1 DEF StaysCancelled
  <1>9. CASE /\ slots[KeyOf(h)].state # "PENDING_DELETE"
             /\ \/ slots' = slots
                \/ slots' = SetState(slots, h, "WAITING_DEPENDENCIES")
                \/ slots' = FinishSlot(slots, h, "Failed")
                \/ slots' = DoneSlots(h, deps)
    <2>1. \A k \in Key : k # KeyOf(h) => slots'[k].state = slots[k].state
      <3>1. CASE slots' = SetState(slots, h, "WAITING_DEPENDENCIES")
        BY <1>1, <3>1, SetStateFacts, OutcomeTypes
      <3>2. CASE slots' = FinishSlot(slots, h, "Failed")
        BY <1>1, <3>2, FinishSlotFacts
      <3>3. CASE slots' = DoneSlots(h, deps)
        BY <1>1, <1>5, <3>3, DoneFacts
      <3> QED
        BY <1>9, <3>1, <3>2, <3>3
    <2> QED
      BY <1>4, <1>9, <2>1 DEF StaysCancelled
  <1> QED
    BY <1>6, <1>7, <1>8, <1>9

\* What retire_load_job and the destructor's return write.
LEMMA CancelDtorReturn ==
    ASSUME TypeOK, CtorInv, DtorReturn
    PROVE  CtorInv' /\ StaysCancelled
  <1>1. calls # <<>> /\ Top.op = "dtor" /\ slots \in [Key -> Slot] /\ calls' = Below
    BY TypeParts DEF DtorReturn, InCallback
  <1>2. PICK h \in Handle : h = Top.handle
    BY <1>1, TopTypes, TypeParts
  <1>3. CtorInv'
    BY <1>1, CtorTop, CtorNone
  <1>4. slots' = slots \/ slots' = [slots EXCEPT ![KeyOf(h)].retiring = FALSE]
    BY <1>2 DEF DtorReturn
  <1>5. CASE slots' = [slots EXCEPT ![KeyOf(h)].retiring = FALSE]
    <2>1. \A k \in Key : slots'[k].state = slots[k].state
      BY <1>1, <1>5, RetiringFacts
    <2> QED
      BY <1>3, <2>1 DEF StaysCancelled
  <1> QED
    BY <1>3, <1>4, <1>5 DEF StaysCancelled

LEMMA CancelRetire ==
    ASSUME TypeOK, NEW i \in DOMAIN jobs, NEW cs \in Seq(Call), NoCtors(cs), Retire(i, cs)
    PROVE  CtorInv' /\ StaysCancelled
  <1>1. PICK h \in Handle : h = jobs[i].handle
    BY TypeParts, JobEdits
  <1>2. slots \in [Key -> Slot]
    BY TypeParts
  <1>3. CtorInv'
    BY CtorRetire
  <1>4. slots' = slots \/ slots' = [slots EXCEPT ![KeyOf(h)].retiring = TRUE]
    BY <1>1 DEF Retire
  <1>5. CASE slots' = [slots EXCEPT ![KeyOf(h)].retiring = TRUE]
    <2>1. \A k \in Key : slots'[k].state = slots[k].state
      BY <1>2, <1>5, RetiringFacts
    <2> QED
      BY <1>3, <2>1 DEF StaysCancelled
  <1> QED
    BY <1>3, <1>4, <1>5 DEF StaysCancelled

\* process_job sees that a load is cancelled.
LEMMA CancelProcess ==
    ASSUME TypeOK, NEW i \in DOMAIN jobs, NEW cs \in Seq(Call), NoCtors(cs), ProcessJob(i, cs),
           unload' = <<>>
    PROVE  CtorInv' /\ StaysCancelled
  <1>1. PICK h \in Handle : h = jobs[i].handle
    BY TypeParts, JobEdits
  <1>2. slots \in [Key -> Slot]
    BY TypeParts
  <1>3. CtorInv'
    BY CtorProcess
  <1>4. \/ slots' = slots
        \/ \E o \in {"Failed", "Cancelled"} : slots' = FinishSlot(slots, h, o)
        \/ /\ slots[KeyOf(h)].state # "PENDING_DELETE"
           /\ \E x \in {"WAITING_DEPENDENCIES", "LOADING", "PROCESSING"} :
                slots' = SetState(slots, h, x)
    BY <1>1, ProcessFacts DEF ProcessOutcome
  <1>5. ASSUME NEW o \in {"Failed", "Cancelled"}, slots' = FinishSlot(slots, h, o)
        PROVE  StaysCancelled
    <2>1. \A k \in Key : slots'[k].state = IF k = KeyOf(h)
                                           THEN IF o = "Loaded" THEN "LOADED" ELSE "FAILED"
                                           ELSE slots[k].state
      BY <1>2, <1>5, FinishSlotFacts
    <2>2. o # "Loaded"
      OBVIOUS
    <2> QED
      BY <2>1, <2>2 DEF StaysCancelled
  <1>6. ASSUME slots[KeyOf(h)].state # "PENDING_DELETE",
               NEW x \in {"WAITING_DEPENDENCIES", "LOADING", "PROCESSING"},
               slots' = SetState(slots, h, x)
        PROVE  StaysCancelled
    <2>1. x \in States
      BY OutcomeTypes
    <2>2. \A k \in Key : slots'[k].state = IF k = KeyOf(h) THEN x ELSE slots[k].state
      BY <1>2, <1>6, <2>1, SetStateFacts
    <2> QED
      BY <1>6, <2>2 DEF StaysCancelled
  <1> QED
    BY <1>3, <1>4, <1>5, <1>6 DEF StaysCancelled

\* process and drain_loads take up a job, and put it aside or retire it.
LEMMA CancelLoops ==
    ASSUME TypeOK, CtorInv, LoopPick \/ LoopAfter
    PROVE  CtorInv' /\ StaysCancelled
  <1>1. calls = <<>> /\ unload = <<>>
    BY DEF LoopPick, LoopAfter, InLoop, InMain
  <1>2. PICK cs \in Seq(Call) : cs = <<>>
    <2>1. <<>> \in Seq(Call)
      OBVIOUS
    <2> QED
      BY <2>1
  <1>3. NoCtors(cs)
    BY <1>2 DEF NoCtors, In
  <1>4. CASE LoopPick
    <2>1. PICK i \in JobsOf(main.next) : ProcessJob(i, cs)
      BY <1>2, <1>4 DEF LoopPick
    <2>2. i \in DOMAIN jobs /\ unload' = <<>>
      BY <1>1, <1>4, <2>1 DEF JobsOf, LoopPick
    <2> QED
      BY <1>3, <2>1, <2>2, CancelProcess
  <1>5. CASE LoopAfter
    <2>1. PICK i \in JobsOf(main.current) : Retire(i, cs) \/ UNCHANGED <<slots, calls, unload>>
      BY <1>2, <1>5 DEF LoopAfter
    <2>2. i \in DOMAIN jobs
      BY <2>1 DEF JobsOf
    <2>3. CASE Retire(i, cs)
      BY <1>3, <2>2, <2>3, CancelRetire
    <2>4. CASE UNCHANGED <<slots, calls, unload>>
      BY <1>1, <2>4, CtorSame DEF StaysCancelled
    <2> QED
      BY <2>1, <2>3, <2>4
  <1> QED
    BY <1>4, <1>5

\* process_immediate_builder.
LEMMA CancelBuilds ==
    ASSUME TypeOK, CtorInv, BuildProcess \/ BuildAfter
    PROVE  CtorInv' /\ StaysCancelled
  <1>1. unload = <<>> /\ calls # <<>> /\ Top.op = "build" /\ calls \in Seq(Call)
    BY TypeParts DEF BuildProcess, BuildAfter, InCallback
  <1>2. NoCtors(Below) /\ Below \in Seq(Call) /\ Top \in Call
    BY <1>1, CtorTop, TopTypes
  <1>3. ASSUME NEW c \in Call, c.op = "build"
        PROVE  Append(Below, c) \in Seq(Call) /\ NoCtors(Append(Below, c))
    <2>1. PICK r \in Seq(Call) : r = Append(Below, c)
      BY <1>2, AppendFacts
    <2>2. /\ \A m \in DOMAIN Below : r[m] = Below[m]
          /\ r[Len(r)] = c /\ \A m \in DOMAIN r : m # Len(r) => m \in DOMAIN Below
      BY <1>2, <2>1, AppendFacts
    <2>3. NoCtors(r)
      BY <1>2, <1>3, <2>2 DEF NoCtors, In
    <2> QED
      BY <2>1, <2>3
  <1>4. CASE BuildProcess
    <2>1. PICK i \in JobsOf(Top.handle) :
            ProcessJob(i, Append(Below, [Top EXCEPT !.chain = FALSE])) /\ unload' = <<>>
      BY <1>1, <1>4 DEF BuildProcess
    <2>2. PICK c \in Call : c = [Top EXCEPT !.chain = FALSE] /\ c.op = "build"
      <3>1. [Top EXCEPT !.chain = FALSE] \in Call /\ [Top EXCEPT !.chain = FALSE].op = "build"
        BY <1>1, <1>2 DEF Call
      <3> QED
        BY <3>1
    <2>3. i \in DOMAIN jobs
      BY <2>1 DEF JobsOf
    <2>4. PICK cs \in Seq(Call) : cs = Append(Below, c) /\ NoCtors(cs)
      BY <1>3, <2>2
    <2>5. ProcessJob(i, cs)
      BY <2>1, <2>2, <2>4
    <2> QED
      BY <2>1, <2>3, <2>4, <2>5, CancelProcess
  <1>5. CASE BuildAfter
    <2>1. PICK i \in JobsOf(Top.handle) :
            \/ Retire(i, Append(Below, [Top EXCEPT !.settled = TRUE, !.outcome = jobs[i].outcome]))
            \/ calls' = Below /\ slots' = slots
      BY <1>5 DEF BuildAfter
    <2>2. i \in DOMAIN jobs
      BY <2>1 DEF JobsOf
    <2>3. PICK o \in Outcomes : o = jobs[i].outcome
      BY <2>1, JobsOfFacts, TypeParts DEF Job
    <2>4. PICK c \in Call : c = [Top EXCEPT !.settled = TRUE, !.outcome = o] /\ c.op = "build"
      <3>1. /\ [Top EXCEPT !.settled = TRUE, !.outcome = o] \in Call
            /\ [Top EXCEPT !.settled = TRUE, !.outcome = o].op = "build"
        BY <1>1, <1>2 DEF Call
      <3> QED
        BY <3>1
    <2>5. PICK cs \in Seq(Call) : cs = Append(Below, c) /\ NoCtors(cs)
      BY <1>3, <2>4
    <2>6. CASE calls' = Below /\ slots' = slots
      BY <1>2, <2>6, CtorNone DEF StaysCancelled
    <2>7. CASE Retire(i, cs)
      BY <2>2, <2>5, <2>7, CancelRetire
    <2> QED
      BY <2>1, <2>3, <2>4, <2>5, <2>6, <2>7
  <1> QED
    BY <1>4, <1>5

\* release marks the asset at most.
LEMMA ReleaseStays ==
    ASSUME TypeOK, NEW h \in Handle, CanRelease(slots, h), slots' = ReleaseSlots(slots, h)
    PROVE  StaysCancelled
  <1>1. slots \in [Key -> Slot] /\ slots[KeyOf(h)].pin > 0
    BY TypeParts DEF CanRelease
  <1>2. LET t == ReleaseSlots(slots, h)
            l == KeyOf(h)
            marked == t[l].pin = 0 /\ (slots[l].retiring \/ slots[l].state \in InProgress)
        IN  /\ t \in [Key -> Slot]
            /\ SameGraph(slots, t)
            /\ \A k \in Key : /\ t[k].pin <= slots[k].pin
                              /\ (t[k].retiring <=> slots[k].retiring)
                              /\ HandleAt(slots, k) \notin slots[l].dependencies /\ k # l
                                   => t[k].pin = slots[k].pin
                              /\ t[k].state = IF k = l /\ marked THEN "PENDING_DELETE"
                                                                 ELSE slots[k].state
    BY <1>1, ReleaseFacts
  <1> QED
    BY <1>2 DEF StaysCancelled

LEMMA CancelReleases ==
    ASSUME TypeOK, CtorInv, <<"ctor", "release">> \notin CallbackOps,
           BuildReturn \/ \E h \in Live(slots) : Release(h)
    PROVE  CtorInv' /\ StaysCancelled
  <1>1. CASE BuildReturn
    <2>1. calls # <<>> /\ calls' = Below /\ calls \in Seq(Call)
      BY <1>1, TypeParts DEF BuildReturn, InCallback
    <2>2. PICK h \in Handle : h = Top.handle
      BY <2>1, TopTypes
    <2>3. CtorInv'
      BY <2>1, CtorTop, CtorNone
    <2>4. slots' = slots \/ (CanRelease(slots, h) /\ slots' = ReleaseSlots(slots, h))
      BY <1>1, <2>2 DEF BuildReturn
    <2> QED
      BY <2>3, <2>4, ReleaseStays DEF StaysCancelled
  <1>2. ASSUME NEW h \in Live(slots), Release(h) PROVE CtorInv' /\ StaysCancelled
    <2>1. calls' = calls /\ (calls = <<>> \/ Top.op # "ctor")
      BY <1>2 DEF Release, ApiOpen, InMain, InCallback
    <2>2. CtorInv'
      BY <2>1, CtorSame
    <2>3. slots' = slots \/ (CanRelease(slots, h) /\ slots' = ReleaseSlots(slots, h))
      BY <1>2 DEF Release
    <2>4. h \in Handle
      BY TypeParts, LiveHandle
    <2> QED
      BY <2>2, <2>3, <2>4, ReleaseStays DEF StaysCancelled
  <1> QED
    BY <1>1, <1>2

\* retain and load, which a constructor may call, and the steps that change no slot.
LEMMA CancelRetain ==
    ASSUME TypeOK, CtorInv, NEW h \in Live(slots), Retain(h)
    PROVE  CtorInv' /\ StaysCancelled
  <1>1. slots \in [Key -> Slot] /\ calls' = calls /\ unload' = unload
    BY TypeParts DEF Retain
  <1>2. PICK l \in Key : l = KeyOf(h)
    BY <1>1, LiveHandle
  <1>3. /\ slots[l].state # "PENDING_DELETE"
        /\ slots' = PinCommitted([slots EXCEPT ![l].pin = @ + 1],
                                 [slots EXCEPT ![l].pin = @ + 1][l].dependencies)
    BY <1>2 DEF Retain
  <1>4. \A k \in Key : slots'[k].state = slots[k].state
    BY <1>1, <1>3, RetainFacts
  <1> QED
    BY <1>1, <1>4, CtorKept DEF StaysCancelled

LEMMA CancelLoad ==
    ASSUME TypeOK, AssetInv, CtorInv, ~SameTypeNested, NEW t \in Types, NEW deps,
           NEW ok \in BOOLEAN, NEW p \in Paths, NEW skip, Load(t, p, skip, deps, ok)
    PROVE  CtorInv' /\ StaysCancelled
  <1>1. PICK st \in States : st = InitialState(deps, ok)
    BY StateTypes DEF States, InProgress
  <1>2. PICK request : request = "load"
    OBVIOUS
  <1>3. /\ ApiOpen(request) /\ CanRequest(t) /\ slots' = NewSlots(t, p, st)
        /\ calls' = MovedCalls(t) /\ unload' = unload
    BY <1>1, <1>2 DEF Load
  <1>4. ~Ending
    BY <1>3, ApiFacts
  <1>5. calls' = calls /\ slots[NewKey(t)].state = "EMPTY" /\ CanAllocate(t)
    BY <1>3, <1>4, RequestFacts
  <1>6. \A k \in Key : k # NewKey(t) => slots'[k] = slots[k]
    BY <1>1, <1>3, <1>5, NewSlotsFacts
  <1>7. \A k \in Key : slots[k].state # "EMPTY" => slots'[k].state = slots[k].state
    BY <1>5, <1>6
  <1> QED
    BY <1>3, <1>5, <1>7, CtorKept DEF StaysCancelled

LEMMA CancelBuild ==
    ASSUME TypeOK, AssetInv, CtorInv, ~SameTypeNested, <<"ctor", "build">> \notin CallbackOps,
           NEW t \in Types, NEW deps, NEW ok \in BOOLEAN, Build(t, deps, ok)
    PROVE  CtorInv' /\ StaysCancelled
  <1>1. PICK st \in States : st = InitialState(deps, ok)
    BY StateTypes DEF States, InProgress
  <1>2. PICK request : request = "build"
    OBVIOUS
  <1>3. PICK s : s = NewSlots(t, NoPath, st)
    OBVIOUS
  <1>4. PICK h : h = NewHandle(t)
    OBVIOUS
  <1>5. /\ ApiOpen(request) /\ CanRequest(t)
        /\ slots' = s \/ slots' = ReleaseSlots(s, h)
        /\ \/ calls' = MovedCalls(t)
           \/ calls' = Append(MovedCalls(t), [NewCall("build", h) EXCEPT !.chain = TRUE])
    BY <1>1, <1>2, <1>3, <1>4 DEF Build
  <1>6. ~Ending
    BY <1>5, ApiFacts
  <1>7. /\ MovedCalls(t) = calls /\ slots[NewKey(t)].state = "EMPTY" /\ CanAllocate(t)
        /\ NewKey(t) \in Key /\ h \in Handle /\ KeyOf(h) = NewKey(t)
    BY <1>4, <1>5, <1>6, RequestFacts
  <1>8. NoPath \in Paths \cup {NoPath}
    OBVIOUS
  <1>9. /\ s \in [Key -> Slot] /\ s[NewKey(t)].pin = 1
        /\ \A k \in Key : k # NewKey(t) => s[k] = slots[k]
    BY <1>3, <1>7, <1>8, NewSlotsFacts
  <1>10. StaysCancelled
    <2>1. CASE slots' = s
      BY <1>7, <1>9, <2>1 DEF StaysCancelled
    <2>2. CASE slots' = ReleaseSlots(s, h)
      <3>1. s[KeyOf(h)].pin > 0
        BY <1>7, <1>9
      <3>2. LET u == ReleaseSlots(s, h)
                l == KeyOf(h)
                marked == u[l].pin = 0 /\ (s[l].retiring \/ s[l].state \in InProgress)
            IN  /\ u \in [Key -> Slot]
                /\ SameGraph(s, u)
                /\ \A k \in Key : /\ u[k].pin <= s[k].pin
                                  /\ (u[k].retiring <=> s[k].retiring)
                                  /\ HandleAt(s, k) \notin s[l].dependencies /\ k # l
                                       => u[k].pin = s[k].pin
                                  /\ u[k].state = IF k = l /\ marked THEN "PENDING_DELETE"
                                                                     ELSE s[k].state
        BY <1>7, <1>9, <3>1, ReleaseFacts
      <3>3. \A k \in Key : k # NewKey(t) => slots'[k].state = slots[k].state
        BY <1>7, <1>9, <2>2, <3>2
      <3> QED
        BY <1>7, <3>3 DEF StaysCancelled
    <2> QED
      BY <1>5, <2>1, <2>2
  <1>11. CtorInv'
    <2>1. calls = <<>> \/ Top.op # "ctor"
      BY <1>2, <1>5 DEF ApiOpen, InMain, InCallback
    <2>2. CASE calls' = calls
      BY <2>1, <2>2, CtorSame
    <2>3. CASE calls' = Append(calls, [NewCall("build", h) EXCEPT !.chain = TRUE])
      <3>1. PICK c \in Call : c = [NewCall("build", h) EXCEPT !.chain = TRUE]
        BY <1>7, CallTypes
      <3>2. c.op # "ctor"
        BY <3>1 DEF NewCall
      <3>3. calls \in Seq(Call) /\ NoCtors(calls)
        BY <2>1, TypeParts, CtorTop
      <3> QED
        BY <2>3, <3>1, <3>2, <3>3, CtorCalls
    <2> QED
      BY <1>5, <1>7, <2>2, <2>3
  <1> QED
    BY <1>10, <1>11

\* The steps that leave slots and callbacks alone.
LEMMA CancelSame ==
    ASSUME TypeOK, CtorInv, slots' = slots, calls' = calls, unload' = unload
    PROVE  CtorInv' /\ StaysCancelled
  BY CtorKept DEF StaysCancelled

\* Forced unloading and shutdown.
LEMMA CancelForced ==
    ASSUME TypeOK, CtorInv, DestroyTypeNext \/ DestroyAllNext \/ Shutdown
    PROVE  CtorInv' /\ StaysCancelled
  <1>1. calls = <<>> /\ calls' = calls /\ slots \in [Key -> Slot]
    BY TypeParts DEF DestroyTypeNext, DestroyAllNext, Shutdown, InMain
  <1>2. CtorInv'
    BY <1>1, CtorSame
  <1>3. CASE DestroyTypeNext
    <2>1. PICK k : k = <<main.type, main.index>>
      OBVIOUS
    <2>2. \/ slots' = slots
          \/ /\ main.index \in 1..size[main.type]
             /\ slots' = DetachDependents(slots, HandleAt(slots, k))
      BY <1>3, <2>1 DEF DestroyTypeNext
    <2>3. CASE /\ main.index \in 1..size[main.type]
               /\ slots' = DetachDependents(slots, HandleAt(slots, k))
      <3>1. main.type \in Types /\ main.index \in Index
        <4>1. main.type \in Types
          BY TypeParts DEF Main
        <4>2. size[main.type] \in 0..MaxSlots
          BY <4>1, TypeParts
        <4> QED
          BY <2>3, <4>1, <4>2, StorageAssumption DEF Index
      <3>2. k \in Key
        BY <2>1, <3>1 DEF Key
      <3>3. PICK h \in Handle : h = HandleAt(slots, k)
        <4>1. slots[k].generation \in Nat
          BY <1>1, <3>2 DEF Slot
        <4> QED
          BY <3>2, <4>1, HandleFacts
      <3>4. SameAssets(slots, DetachDependents(slots, h))
        BY <1>1, DetachDependentsFacts
      <3> QED
        BY <1>2, <2>3, <3>3, <3>4 DEF SameAssets, StaysCancelled
    <2> QED
      BY <1>2, <2>2, <2>3 DEF StaysCancelled
  <1>4. CASE DestroyAllNext
    <2>1. slots' = slots \/ slots' = [k \in Key |-> EmptySlot(1)]
      BY <1>4 DEF DestroyAllNext
    <2>2. EmptySlot(1).state = "EMPTY"
      BY DEF EmptySlot
    <2> QED
      BY <1>2, <2>1, <2>2 DEF StaysCancelled
  <1>5. CASE Shutdown
    <2>1. \A k \in Key : slots'[k] = [slots[k] EXCEPT !.state = "FAILED"] \/ slots'[k] = slots[k]
      BY <1>5 DEF Shutdown
    <2>2. \A e \in Slot : [e EXCEPT !.state = "FAILED"].state = "FAILED"
      BY DEF Slot
    <2> QED
      BY <1>1, <1>2, <2>1, <2>2 DEF StaysCancelled
  <1> QED
    BY <1>2, <1>3, <1>4, <1>5

LEMMA HandleExists ==
    \E h \in Handle : TRUE
  <1>1. PICK t \in Types : TRUE
    BY StorageAssumption
  <1>2. 1 \in Index /\ 1 \in Nat
    BY StorageAssumption DEF Index
  <1>3. [type |-> t, index |-> 1, generation |-> 1] \in Handle
    BY <1>2 DEF Handle
  <1> QED
    BY <1>3

\* cancel_type and cancel_all destroy loaders.
LEMMA CancelJobs ==
    ASSUME TypeOK, CtorInv, CancelTypeNext \/ CancelAllNext
    PROVE  CtorInv' /\ StaysCancelled
  <1>1. calls = <<>> /\ slots \in [Key -> Slot]
    BY TypeParts DEF CancelTypeNext, CancelAllNext, InMain
  <1>2. PICK h \in Handle, f \in BOOLEAN :
          /\ \E s \in {slots, FinishSlot(slots, h, "Cancelled")} :
               slots' = s \/ slots' = [s EXCEPT ![KeyOf(h)].retiring = TRUE]
          /\ \/ calls' = calls
             \/ calls' = <<[NewCall("dtor", h) EXCEPT !.found = f]>>
             \/ calls' = <<[NewCall("dtor", h) EXCEPT !.found = f, !.erase = FALSE]>>
    <2>1. CASE CancelTypeNext
      <3>1. PICK mine : mine = {i \in 1..Len(jobs) : jobs[i].handle.type = main.type}
        OBVIOUS
      <3>2. CASE mine = {}
        <4>1. slots' = slots /\ calls' = calls
          BY <2>1, <3>1, <3>2 DEF CancelTypeNext
        <4> QED
          BY <4>1, HandleExists
      <3>3. CASE mine # {}
        <4>1. PICK i \in mine :
                LET h == jobs[i].handle
                    s == IF Resolves(slots, h) /\ ~Terminal(jobs[i])
                         THEN FinishSlot(slots, h, "Cancelled") ELSE slots
                IN  IF jobs[i].built
                    THEN /\ calls' = <<[NewCall("dtor", h) EXCEPT !.found = Resolves(slots, h)]>>
                         /\ slots' = IF Resolves(slots, h)
                                     THEN [s EXCEPT ![KeyOf(h)].retiring = TRUE] ELSE s
                    ELSE slots' = s /\ calls' = calls
          BY <2>1, <3>1, <3>3 DEF CancelTypeNext
        <4>2. i \in DOMAIN jobs
          BY <3>1
        <4>3. PICK h \in Handle : h = jobs[i].handle
          BY <4>2, TypeParts, JobEdits
        <4>4. PICK f \in BOOLEAN : f = Resolves(slots, h)
          BY DEF Resolves
        <4>5. PICK s : s = IF Resolves(slots, h) /\ ~Terminal(jobs[i])
                           THEN FinishSlot(slots, h, "Cancelled") ELSE slots
          OBVIOUS
        <4>6. /\ s \in {slots, FinishSlot(slots, h, "Cancelled")}
              /\ slots' = s \/ slots' = [s EXCEPT ![KeyOf(h)].retiring = TRUE]
              /\ \/ calls' = calls
                 \/ calls' = <<[NewCall("dtor", h) EXCEPT !.found = f]>>
                 \/ calls' = <<[NewCall("dtor", h) EXCEPT !.found = f, !.erase = FALSE]>>
          BY <4>1, <4>3, <4>4, <4>5
        <4> QED
          BY <4>6
      <3> QED
        BY <3>2, <3>3
    <2>2. CASE CancelAllNext
      <3>1. CASE main.index \notin DOMAIN jobs
        <4>1. slots' = slots /\ calls' = calls
          BY <2>2, <3>1 DEF CancelAllNext
        <4> QED
          BY <4>1, HandleExists
      <3>2. CASE main.index \in DOMAIN jobs
        <4>1. PICK h \in Handle : h = jobs[main.index].handle
          BY <3>2, TypeParts, JobEdits
        <4>2. PICK f \in BOOLEAN : f = Resolves(slots, h)
          BY DEF Resolves
        <4> QED
          <5>1. /\ slots' = slots \/ slots' = [slots EXCEPT ![KeyOf(h)].retiring = TRUE]
                /\ \/ calls' = calls
                   \/ calls' = <<[NewCall("dtor", h) EXCEPT !.found = f, !.erase = FALSE]>>
            BY <2>2, <3>2, <4>1, <4>2 DEF CancelAllNext
          <5> QED
            BY <5>1
      <3> QED
        BY <3>1, <3>2
    <2> QED
      BY <2>1, <2>2
  <1>3. CtorInv'
    <2>1. CASE calls' = calls
      BY <1>1, <2>1, CtorSame
    <2>2. ASSUME NEW c \in Call, c.op = "dtor", calls' = <<c>> PROVE CtorInv'
      BY <2>2, CtorNone DEF NoCtors, In
    <2>3. /\ [NewCall("dtor", h) EXCEPT !.found = f] \in Call
          /\ [NewCall("dtor", h) EXCEPT !.found = f, !.erase = FALSE] \in Call
      BY CallTypes
    <2>4. /\ [NewCall("dtor", h) EXCEPT !.found = f].op = "dtor"
          /\ [NewCall("dtor", h) EXCEPT !.found = f, !.erase = FALSE].op = "dtor"
      BY DEF NewCall
    <2> QED
      BY <1>2, <2>1, <2>2, <2>3, <2>4
  <1>4. PICK s \in {slots, FinishSlot(slots, h, "Cancelled")} :
          slots' = s \/ slots' = [s EXCEPT ![KeyOf(h)].retiring = TRUE]
    BY <1>2
  <1>5. s \in [Key -> Slot] /\ \A k \in Key : s[k].state \in {slots[k].state, "FAILED"}
    <2>1. CASE s = FinishSlot(slots, h, "Cancelled")
      BY <1>1, <2>1, FinishSlotFacts
    <2> QED
      BY <1>1, <1>4, <2>1
  <1>6. \A k \in Key : slots'[k].state = s[k].state
    <2>1. CASE slots' = [s EXCEPT ![KeyOf(h)].retiring = TRUE]
      BY <1>5, <2>1, RetiringFacts
    <2> QED
      BY <1>4, <2>1
  <1> QED
    BY <1>3, <1>5, <1>6 DEF StaysCancelled

LEMMA CancelNext ==
    ASSUME TypeOK, AssetInv, CtorInv, ~SameTypeNested,
           <<"ctor", "release">> \notin CallbackOps, <<"ctor", "build">> \notin CallbackOps,
           [Next]_vars
    PROVE  CtorInv' /\ StaysCancelled
  <1>1. CASE Unload
    <2>1. (DestroyEnter \/ DetachNext \/ DestroyDone) /\ calls' = calls
      BY <1>1 DEF Unload
    <2> QED
      BY <2>1, CancelUnload
  <1>2. CASE Queue
    <2>1. CASE Process \/ DrainLoads \/ ProcessEnd \/ DrainPassEnd
      <3>1. slots' = slots /\ calls' = calls /\ unload' = unload
        BY <2>1 DEF Process, DrainLoads, ProcessEnd, DrainPassEnd
      <3> QED
        BY <3>1, CancelSame
    <2> QED
      BY <1>2, <2>1, CancelCtorReturn, CancelDtorReturn, CancelStepReturn, CancelLoops,
         CancelJobs DEF Queue
  <1>3. CASE BuildProcess \/ BuildAfter \/ BuildReturn
    BY <1>3, CancelBuilds, CancelReleases
  <1>4. CASE DestroyTypeNext \/ DestroyAllNext \/ Shutdown
    BY <1>4, CancelForced
  <1>5. ASSUME NEW t \in Types, NEW deps \in DependencyLists(t), NEW settingsOk \in BOOLEAN,
               \/ Build(t, deps, settingsOk)
               \/ \E p \in Paths, skipCache \in BOOLEAN : Load(t, p, skipCache, deps, settingsOk)
        PROVE  CtorInv' /\ StaysCancelled
    BY <1>5, CancelBuild, CancelLoad
  <1>6. ASSUME NEW h \in Live(slots), Retain(h) \/ Release(h)
        PROVE  CtorInv' /\ StaysCancelled
    BY <1>6, CancelRetain, CancelReleases
  <1>7. ASSUME \/ \E d \in Live(slots) \cup {NoHandle}, r \in Requirements : AddDependency(d, r)
               \/ \E t \in ForcedTypes : ForceUnload(t)
               \/ Stopped \/ UNCHANGED vars
        PROVE  CtorInv' /\ StaysCancelled
    <2>1. slots' = slots /\ calls' = calls /\ unload' = unload
      BY <1>7 DEF AddDependency, ForceUnload, Stopped, vars
    <2> QED
      BY <2>1, CancelSame
  <1> QED
    BY <1>1, <1>2, <1>3, <1>4, <1>5, <1>6, <1>7 DEF Next, Internal, Client

\* A load that was released or cancelled while it ran is never loaded: whatever
\* its step returns, and whatever is requested meanwhile, the asset is at most
\* marked failed before it goes.  A constructor that releases its own asset is the
\* exception: process_pending_read does not look at the state again.
THEOREM CancelFinal ==
    ASSUME Requirements \subseteq {"required"}, ~SameTypeNested,
           <<"ctor", "release">> \notin CallbackOps, <<"ctor", "build">> \notin CallbackOps
    PROVE  Spec => CancelIsFinal
  <1>1. Init => CtorInv
    BY DEF Init, QueueInit, CtorInv
  <1>2. TypeOK /\ AssetInv /\ CtorInv /\ [Next]_vars => CtorInv' /\ StaysCancelled
    BY CancelNext
  <1>3. Spec => [](TypeOK /\ AssetInv)
    BY AssetCorrect
  <1>4. StaysCancelled => [\A k \in Key :
                             slots[k].state = "PENDING_DELETE" =>
                               slots'[k].state \in {"PENDING_DELETE", "FAILED", "EMPTY"}]_vars
    BY DEF StaysCancelled
  <1> QED
    BY <1>1, <1>2, <1>3, <1>4, PTL DEF Spec, CancelIsFinal
=============================================================================
