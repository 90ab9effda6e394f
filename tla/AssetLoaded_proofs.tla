--------------------------- MODULE AssetLoaded_proofs --------------------------
(***************************************************************************)
(* Proofs about the asset system, last part: the dependencies of a loaded  *)
(* asset are loaded.                                                        *)
(***************************************************************************)
EXTENDS AssetSystem_proofs

-----------------------------------------------------------------------------
(* The inductive invariant: who attends to a finished job                   *)

\* Whoever called process_job for the job of h has still to look at it: below
\* the callbacks of cs from the n-th on, the n-th is a build request that is not
\* settled, or there is none and the loop m is at h.
AttendsAt(cs, n, m, h) ==
    \/ n = 0 /\ m.op \in {"process", "drain"} /\ m.current = h
    \/ n # 0 /\ cs[n].op = "build" /\ ~cs[n].settled /\ cs[n].handle = h
Attended(cs, m, h) == AttendsAt(cs, Len(cs), m, h)

\* What callbacks run where: only dtor callbacks under cancel_all, nothing on
\* top of a dtor callback, ctor and step only from a call of process_job.
FrameRight(cs, i, m) ==
    /\ m.op = "cancelAll" => cs[i].op = "dtor"
    /\ cs[i].op = "dtor" => i = Len(cs) /\ (~cs[i].erase => m.op = "cancelAll")
    /\ cs[i].op = "build" /\ cs[i].chain => ~cs[i].settled
    /\ cs[i].op \in {"ctor", "step"} => AttendsAt(cs, i - 1, m, cs[i].handle)
Ordered(cs, m) == \A i \in DOMAIN cs : FrameRight(cs, i, m)
StackInv == Ordered(calls, main)

\* A job that is finished is about to be retired.
DoneInv ==
    main.op # "cancelAll" /\ ~Ending =>
      \A h \in Queued : h \in Open \/ h \in Dtors \/ Attended(calls, main, h)

\* Nothing depends on an asset that still has a job.
FreshInv ==
    ~Ending => \A h \in Live(slots) : h \in Queued => slots[KeyOf(h)].dependents = {}

\* LoadedDependencies, also while assets are being destroyed.
LoadedInv ==
    ~Ending =>
      \A k \in Key : slots[k].state = "LOADED" /\ H(k) \notin Unloading =>
        \A d \in slots[k].dependencies : slots[KeyOf(d)].state = "LOADED"

WorkInv == StackInv /\ DoneInv /\ FreshInv /\ LoadedInv

-----------------------------------------------------------------------------
(* The stack of callbacks                                                   *)

NoDtors(cs) == \A c : In(c, cs) => c.op # "dtor"

\* c may run on top of cs.
Suits(c, cs, m) ==
    /\ m.op = "cancelAll" => c.op = "dtor"
    /\ c.op = "dtor" /\ ~c.erase => m.op = "cancelAll"
    /\ c.op = "build" /\ c.chain => ~c.settled
    /\ c.op \in {"ctor", "step"} => Attended(cs, m, c.handle)

LEMMA StackPush ==
    ASSUME NEW cs \in Seq(Call), NEW m, Ordered(cs, m), NoDtors(cs),
           NEW c \in Call, Suits(c, cs, m)
    PROVE  Ordered(Append(cs, c), m)
  <1>1. PICK r \in Seq(Call) : r = Append(cs, c)
    BY AppendFacts
  <1>2. /\ \A n \in DOMAIN cs : n \in DOMAIN r /\ n < Len(r) /\ r[n] = cs[n]
        /\ Len(r) \in DOMAIN r /\ r[Len(r)] = c /\ Len(r) = Len(cs) + 1
        /\ \A n \in DOMAIN r : n # Len(r) => n \in DOMAIN cs
    BY <1>1, AppendFacts
  <1>3. ASSUME NEW n \in 0..Len(cs), NEW h
        PROVE  AttendsAt(r, n, m, h) <=> AttendsAt(cs, n, m, h)
    <2>1. n # 0 => r[n] = cs[n]
      BY <1>2
    <2> QED
      BY <2>1 DEF AttendsAt
  <1>4. ASSUME NEW i \in DOMAIN cs PROVE FrameRight(r, i, m)
    <2>1. r[i] = cs[i] /\ FrameRight(cs, i, m) /\ cs[i].op # "dtor" /\ i - 1 \in 0..Len(cs)
      BY <1>2 DEF Ordered, NoDtors, In
    <2> QED
      BY <1>3, <2>1 DEF FrameRight
  <1>5. FrameRight(r, Len(r), m)
    <2>1. Len(r) - 1 = Len(cs) /\ Len(cs) \in 0..Len(cs)
      BY <1>2
    <2>2. c.op \in {"ctor", "step"} => AttendsAt(r, Len(r) - 1, m, c.handle)
      BY <1>3, <2>1 DEF Suits, Attended
    <2> QED
      BY <1>2, <2>2 DEF FrameRight, Suits
  <1>6. Ordered(r, m)
    BY <1>2, <1>4, <1>5 DEF Ordered
  <1> QED
    BY <1>1, <1>6

LEMMA StackTop ==
    ASSUME TypeOK, StackInv, calls # <<>>
    PROVE  /\ Below \in Seq(Call) /\ Top \in Call
           /\ Ordered(Below, main) /\ NoDtors(Below)
           /\ main.op = "cancelAll" => Top.op = "dtor"
           /\ Top.op = "dtor" /\ ~Top.erase => main.op = "cancelAll"
           /\ Top.op = "build" /\ Top.chain => ~Top.settled
           /\ Top.op \in {"ctor", "step"} => Attended(Below, main, Top.handle)
           /\ Top.op # "dtor" => NoDtors(calls)
           /\ \A h : Attended(calls, main, h) <=>
                       Top.op = "build" /\ ~Top.settled /\ Top.handle = h
  <1>1. calls \in Seq(Call)
    BY TypeParts
  <1>2. PICK n \in Nat \ {0} : n = Len(calls)
    BY <1>1, EmptySeq
  <1>3. PICK b \in Seq(Call) : b = Below
    BY <1>1, TopTypes
  <1>4. /\ n \in DOMAIN calls /\ Top = calls[n] /\ Top \in Call /\ Len(b) = n - 1
        /\ \A m \in DOMAIN b : m \in DOMAIN calls /\ m < n /\ b[m] = calls[m]
        /\ \A m \in DOMAIN calls : m # n => m \in DOMAIN b
    BY <1>1, <1>2, <1>3, TopFacts DEF Top, Below
  <1>5. FrameRight(calls, n, main)
    BY <1>4 DEF StackInv, Ordered
  <1>6. ASSUME NEW m \in 0..(n - 1), NEW h
        PROVE  AttendsAt(b, m, main, h) <=> AttendsAt(calls, m, main, h)
    <2>1. m # 0 => b[m] = calls[m]
      BY <1>4
    <2> QED
      BY <2>1 DEF AttendsAt
  <1>7. ASSUME NEW i \in DOMAIN b
        PROVE  FrameRight(b, i, main) /\ b[i].op # "dtor"
    <2>1. b[i] = calls[i] /\ FrameRight(calls, i, main) /\ i # n /\ i - 1 \in 0..(n - 1)
      BY <1>4 DEF StackInv, Ordered
    <2>2. calls[i].op # "dtor"
      BY <1>2, <2>1 DEF FrameRight
    <2> QED
      BY <1>6, <2>1, <2>2 DEF FrameRight
  <1>8. Ordered(b, main) /\ NoDtors(b)
    BY <1>7 DEF Ordered, NoDtors, In
  <1>9. Top.op \in {"ctor", "step"} => Attended(b, main, Top.handle)
    <2>1. n - 1 \in 0..(n - 1)
      OBVIOUS
    <2> QED
      BY <1>4, <1>5, <1>6, <2>1 DEF FrameRight, Attended
  <1>10. Top.op # "dtor" => NoDtors(calls)
    BY <1>4, <1>7 DEF NoDtors, In
  <1>11. \A h : Attended(calls, main, h) <=> Top.op = "build" /\ ~Top.settled /\ Top.handle = h
    BY <1>2, <1>4 DEF Attended, AttendsAt
  <1> QED
    BY <1>3, <1>4, <1>5, <1>8, <1>9, <1>10, <1>11 DEF FrameRight

LEMMA StackEmpty ==
    ASSUME NEW m
    PROVE  /\ <<>> \in Seq(Call) /\ Ordered(<<>>, m) /\ NoDtors(<<>>)
           /\ \A h : Attended(<<>>, m, h) <=> m.op \in {"process", "drain"} /\ m.current = h
  <1>1. <<>> \in Seq(Call) /\ Len(<<>>) = 0 /\ DOMAIN <<>> = {}
    OBVIOUS
  <1> QED
    BY <1>1 DEF Ordered, NoDtors, In, Attended, AttendsAt

LEMMA NoDtorsFacts ==
    ASSUME NEW cs \in Seq(Call), NoDtors(cs), NEW c \in Call
    PROVE  /\ \A h : h \notin DtorsOf(cs)
           /\ c.op # "dtor" => NoDtors(Append(cs, c))
           /\ \A h : h \in DtorsOf(Append(cs, c)) <=> c.op = "dtor" /\ h = c.handle
           /\ \A m, h : Attended(Append(cs, c), m, h) <=>
                          c.op = "build" /\ ~c.settled /\ c.handle = h
  <1>1. PICK r \in Seq(Call) : r = Append(cs, c)
    BY AppendFacts
  <1>2. /\ \A n \in DOMAIN cs : n \in DOMAIN r /\ n < Len(r) /\ r[n] = cs[n]
        /\ Len(r) \in DOMAIN r /\ r[Len(r)] = c
        /\ \A n \in DOMAIN r : n # Len(r) => n \in DOMAIN cs
        /\ Len(r) # 0
    BY <1>1, AppendFacts
  <1>3. \A h : h \notin DtorsOf(cs)
    BY DEF NoDtors, In, DtorsOf
  <1>4. c.op # "dtor" => NoDtors(r)
    BY <1>2 DEF NoDtors, In
  <1>5. ASSUME NEW h PROVE h \in DtorsOf(r) <=> c.op = "dtor" /\ h = c.handle
    BY <1>2 DEF NoDtors, In, DtorsOf
  <1>6. ASSUME NEW m, NEW h
        PROVE  Attended(r, m, h) <=> c.op = "build" /\ ~c.settled /\ c.handle = h
    BY <1>2 DEF Attended, AttendsAt
  <1> QED
    BY <1>1, <1>3, <1>4, <1>5, <1>6

-----------------------------------------------------------------------------
(* Steps that leave the graph alone                                         *)

LEMMA LoadedKept ==
    ASSUME TypeOK, TypeOK', GraphInv, LoadedInv, ~Ending,
           \A k \in Key : slots[k].state = "LOADED" /\ slots[k].dependents # {} =>
                            slots'[k].state = "LOADED",
           \A k \in Key : slots'[k].state = "LOADED" /\ H(k)' \notin Unloading' =>
                            /\ slots[k].state = "LOADED" /\ H(k) \notin Unloading
                            /\ slots'[k].dependencies \subseteq slots[k].dependencies
    PROVE  LoadedInv'
  <1>1. ASSUME NEW k \in Key, slots'[k].state = "LOADED", H(k)' \notin Unloading',
               NEW d \in slots'[k].dependencies
        PROVE  slots'[KeyOf(d)].state = "LOADED"
    <2>1. slots[k].state = "LOADED" /\ H(k) \notin Unloading /\ d \in slots[k].dependencies
      BY <1>1
    <2>2. slots[k].dependencies \subseteq Handle
      BY TypeParts DEF Slot
    <2>3. d \in Handle /\ KeyOf(d) \in Key
      BY <2>1, <2>2, KeyFacts
    <2>4. slots[KeyOf(d)].state = "LOADED"
      BY <2>1 DEF LoadedInv
    <2>5. Edge(k, d)
      BY <2>1 DEF Edge, Unloading
    <2>6. H(k) \in slots[KeyOf(d)].dependents
      BY <2>1, <2>5 DEF GraphInv
    <2> QED
      BY <2>3, <2>4, <2>6
  <1> QED
    BY <1>1 DEF LoadedInv

\* A step that loads nothing, and takes only assets from the loaded ones on
\* which nothing depends.
Calm ==
    /\ SameGraph(slots, slots')
    /\ \A k \in Key :
         \/ slots'[k].state = slots[k].state
         \/ /\ slots'[k].state # "LOADED" /\ slots[k].state # "EMPTY"
            /\ slots[k].state = "LOADED" => slots[k].dependents = {}
    /\ \A h \in Queued' : h \in Queued

LEMMA CalmStep ==
    ASSUME TypeOK, TypeOK', AssetInv, FreshInv, LoadedInv, ~Ending, unload = <<>>, Calm
    PROVE  FreshInv' /\ LoadedInv'
  <1>1. slots \in [Key -> Slot] /\ slots' \in [Key -> Slot] /\ \A h : h \notin Unloading
    BY TypeParts, TypePrimes DEF Unloading
  <1>2. \A h \in Handle : Resolves(slots', h) <=> Resolves(slots, h)
    BY <1>1, SameGraphFacts DEF Calm
  <1>3. FreshInv'
    <2>1. ASSUME NEW h \in Live(slots'), h \in Queued'
          PROVE  slots'[KeyOf(h)].dependents = {}
      <3>1. h \in Handle /\ Resolves(slots', h) /\ slots'[KeyOf(h)].state # "EMPTY" /\ KeyOf(h) \in Key
        BY <1>1, LiveFacts, KeyFacts
      <3>2. slots[KeyOf(h)].state # "EMPTY" /\ h \in Queued
        BY <2>1, <3>1 DEF Calm
      <3>3. h \in Live(slots)
        BY <1>1, <1>2, <3>1, <3>2, LiveFacts
      <3> QED
        BY <3>1, <3>2, <3>3 DEF FreshInv, Calm, SameGraph
    <2> QED
      BY <2>1 DEF FreshInv
  <1>4. LoadedInv'
    <2>1. \A k \in Key : slots[k].state = "LOADED" /\ slots[k].dependents # {} =>
                           slots'[k].state = "LOADED"
      BY DEF Calm
    <2>2. \A k \in Key : slots'[k].state = "LOADED" /\ H(k)' \notin Unloading' =>
                           /\ slots[k].state = "LOADED" /\ H(k) \notin Unloading
                           /\ slots'[k].dependencies \subseteq slots[k].dependencies
      BY <1>1 DEF Calm, SameGraph
    <2> QED
      BY <2>1, <2>2, LoadedKept DEF AssetInv, StorageInv
  <1> QED
    BY <1>3, <1>4

LEMMA CalmMoves ==
    ASSUME TypeOK, AssetInv, ~Ending, NEW x \in Open, NEW st, Moves(x, st),
           st # "LOADED", \A h : h \in Queued' <=> h \in Queued
    PROVE  Calm
  <1>1. x \in Live(slots) /\ slots[KeyOf(x)].state \in InProgress \cup {"PENDING_DELETE"}
    BY DEF AssetInv, JobInv
  <1>2. slots[KeyOf(x)].state # "LOADED" /\ slots[KeyOf(x)].state # "EMPTY"
    BY <1>1 DEF InProgress
  <1> QED
    BY <1>2 DEF Calm, Moves

LEMMA CalmSame ==
    ASSUME TypeOK, SameGraph(slots, slots'), \A k \in Key : slots'[k].state = slots[k].state,
           \A h : h \in Queued' => h \in Queued
    PROVE  Calm
  BY DEF Calm

-----------------------------------------------------------------------------
(* What process_job leaves to its caller                                    *)

\* Only the job of x may be finished and left to its caller, on top of cs.
Attending(x, cs) ==
    /\ cs \in Seq(Call) /\ Ordered(cs, main') /\ NoDtors(cs) /\ NoDtors(calls)
    /\ main'.op = main.op /\ main.op # "cancelAll"
    /\ \A h \in Queued : Attended(calls, main, h) => h = x

\* process_job finishes the job of x, or goes on with it.
Worked(x, cs) ==
    /\ \A h : h \in Queued' <=> h \in Queued
    /\ \A h : h # x => (h \in Open' <=> h \in Open)
    /\ \/ calls' = cs
       \/ x \in Open' /\ \E c \in Call : /\ calls' = Append(cs, c) /\ c.handle = x
                                         /\ c.op \in {"ctor", "step"}

LEMMA WorkedStep ==
    ASSUME TypeOK, DoneInv, ~Ending, NEW x, NEW cs, Attending(x, cs), Worked(x, cs),
           Attended(cs, main', x)
    PROVE  StackInv' /\ DoneInv'
  <1>1. \A h : h \notin Dtors
    <2>1. calls \in Seq(Call)
      BY TypeParts
    <2> QED
      BY <2>1 DEF Attending, NoDtors, In, Dtors, DtorsOf
  <1>2. \A h \in Queued' : h # x => h \in Open'
    BY <1>1 DEF Attending, Worked, DoneInv
  <1>3. CASE calls' = cs
    <2>1. StackInv'
      BY <1>3 DEF StackInv, Attending
    <2>2. DoneInv'
      BY <1>2, <1>3 DEF DoneInv
    <2> QED
      BY <2>1, <2>2
  <1>4. ASSUME x \in Open', NEW c \in Call, calls' = Append(cs, c), c.handle = x,
               c.op \in {"ctor", "step"}
        PROVE  StackInv' /\ DoneInv'
    <2>1. PICK m : m = main'
      OBVIOUS
    <2>2. Suits(c, cs, m)
      BY <1>4, <2>1 DEF Suits, Attending
    <2>3. cs \in Seq(Call) /\ Ordered(cs, m) /\ NoDtors(cs)
      BY <2>1 DEF Attending
    <2>4. Ordered(Append(cs, c), m)
      BY <2>2, <2>3, StackPush
    <2>5. StackInv'
      BY <1>4, <2>1, <2>4 DEF StackInv
    <2>6. DoneInv'
      BY <1>2, <1>4 DEF DoneInv
    <2> QED
      BY <2>5, <2>6
  <1> QED
    BY <1>3, <1>4 DEF Worked

\* process_job itself.
LEMMA WorkProcess ==
    ASSUME TypeOK, TypeOK', AssetInv, WorkInv, ~Ending, unload = <<>>,
           NEW x, NEW i \in JobsOf(x), NEW cs, Attending(x, cs), Attended(cs, main', x),
           ProcessJob(i, cs)
    PROVE  WorkInv'
  <1>1. /\ i \in DOMAIN jobs /\ jobs[i].handle = x /\ x \in Handle /\ x \in Queued
        /\ GoodJobs(jobs) /\ (x \in Open <=> ~Terminal(jobs[i]))
    BY OpenJob
  <1>2. ProcessOutcome(i, cs)
    BY ProcessFacts
  <1>3. x \in Open => Resolves(slots, x)
    BY TypeParts, LiveHandle DEF AssetInv, JobInv
  <1>4. ASSUME Calm, Worked(x, cs) PROVE WorkInv'
    BY <1>4, CalmStep, WorkedStep DEF WorkInv
  <1>5. \A c \in {NewCall("step", x)} \cup {[NewCall("ctor", x) EXCEPT !.chain = b] : b \in BOOLEAN} :
           c \in Call /\ c.handle = x /\ c.op \in {"ctor", "step"}
    <2>1. NewCall("step", x) \in Call
          /\ \A b \in BOOLEAN : [NewCall("ctor", x) EXCEPT !.chain = b] \in Call
      BY <1>1, CallTypes
    <2>2. NewCall("step", x).handle = x /\ NewCall("step", x).op \in {"ctor", "step"}
      BY DEF NewCall
    <2>3. ASSUME NEW b \in BOOLEAN, NEW c, c = [NewCall("ctor", x) EXCEPT !.chain = b]
          PROVE  c.handle = x /\ c.op \in {"ctor", "step"}
      BY <2>3 DEF NewCall
    <2> QED
      BY <2>1, <2>2, <2>3
  <1>6. CASE Terminal(jobs[i]) /\ slots' = slots /\ jobs' = jobs /\ calls' = cs
    <2>1. Calm
      BY <1>6 DEF Calm, SameGraph, Queued
    <2>2. Worked(x, cs)
      BY <1>6 DEF Worked, Queued, Open
    <2> QED
      BY <1>4, <2>1, <2>2
  <1>7. ASSUME ~Terminal(jobs[i]), NEW o \in {"Failed", "Cancelled"},
               slots' = FinishSlot(slots, x, o), jobs' = Finish(i, o), calls' = cs
        PROVE  WorkInv'
    <2>1. PICK st : st = (IF o = "Loaded" THEN "LOADED" ELSE "FAILED")
      OBVIOUS
    <2>2. Moves(x, st) /\ st # "LOADED"
      BY <1>1, <1>7, <2>1, StateMoves
    <2>3. o \in {"Loaded", "Failed", "Cancelled"} /\ ~Terminal(jobs[i]) /\ jobs' = Finish(i, o)
      BY <1>7
    <2>4. /\ \A h : h \in Queued' <=> h \in Queued
          /\ \A h : h \in Open' <=> h \in Open /\ h # x
      BY <2>3, JobFinished
    <2>5. x \in Open
      BY <1>1, <1>7
    <2>6. Calm
      BY <2>2, <2>4, <2>5, CalmMoves
    <2>7. Worked(x, cs)
      BY <1>7, <2>4 DEF Worked
    <2> QED
      BY <1>4, <2>6, <2>7
  <1>8. ASSUME ~Terminal(jobs[i]), NEW st \in InProgress, NEW p \in Phases,
               slots' = SetState(slots, x, st), jobs' = SetPhase(i, p),
               \/ calls' = cs
               \/ \E c \in Call : /\ calls' = Append(cs, c) /\ c.handle = x
                                  /\ c.op \in {"ctor", "step"}
        PROVE  WorkInv'
    <2>1. Moves(x, st) /\ st # "LOADED"
      BY <1>1, <1>8, StateMoves, OutcomeTypes DEF InProgress
    <2>2. /\ \A h : h \in Queued' <=> h \in Queued
          /\ \A h : h \in Open' <=> h \in Open
      BY <1>8, JobContinued
    <2>3. x \in Open
      BY <1>1, <1>8
    <2>4. Calm
      BY <2>1, <2>2, <2>3, CalmMoves
    <2>5. Worked(x, cs)
      BY <1>8, <2>2, <2>3 DEF Worked
    <2> QED
      BY <1>4, <2>4, <2>5
  <1>9. CASE /\ ~Terminal(jobs[i]) /\ slots' = slots /\ jobs' = jobs
             /\ calls' = Append(cs, NewCall("step", x))
    <2>1. Calm
      BY <1>9 DEF Calm, SameGraph, Queued
    <2>2. x \in Open'
      BY <1>1, <1>9 DEF Open
    <2>3. Worked(x, cs)
      BY <1>5, <1>9, <2>2 DEF Worked, Queued, Open
    <2> QED
      BY <1>4, <2>1, <2>3
  <1>10. CASE /\ ~Terminal(jobs[i])
              /\ slots' = SetState(slots, x, "WAITING_DEPENDENCIES")
              /\ jobs' = SetPhase(i, "WaitingDependencies") /\ calls' = cs
    BY <1>8, <1>10, OutcomeTypes DEF InProgress
  <1>11. CASE /\ ~Terminal(jobs[i])
              /\ slots' = SetState(slots, x, "LOADING") /\ jobs' = SetPhase(i, "PendingRead")
              /\ \E b \in BOOLEAN : calls' = Append(cs, [NewCall("ctor", x) EXCEPT !.chain = b])
    <2>1. \E c \in Call : /\ calls' = Append(cs, c) /\ c.handle = x /\ c.op \in {"ctor", "step"}
      BY <1>5, <1>11
    <2> QED
      BY <1>8, <1>11, <2>1, OutcomeTypes DEF InProgress
  <1>12. CASE /\ ~Terminal(jobs[i])
              /\ slots' = SetState(slots, x, "PROCESSING") /\ jobs' = SetPhase(i, "Processing")
              /\ calls' = Append(cs, NewCall("step", x))
    <2>1. \E c \in Call : /\ calls' = Append(cs, c) /\ c.handle = x /\ c.op \in {"ctor", "step"}
      BY <1>5, <1>12
    <2> QED
      BY <1>8, <1>12, <2>1, OutcomeTypes DEF InProgress
  <1>13. CASE ~Terminal(jobs[i]) /\ ~Resolves(slots, x)
    BY <1>1, <1>3, <1>13
  <1>14. CASE /\ ~Terminal(jobs[i])
              /\ \E o \in {"Failed", "Cancelled"} :
                   slots' = FinishSlot(slots, x, o) /\ jobs' = Finish(i, o) /\ calls' = cs
    BY <1>7, <1>14
  <1> QED
    BY <1>1, <1>2, <1>6, <1>9, <1>10, <1>11, <1>12, <1>13, <1>14 DEF ProcessOutcome

LEMMA WorkLoopPick ==
    ASSUME TypeOK, TypeOK', AssetInv, WorkInv, LoopPick
    PROVE  WorkInv'
  <1>1. /\ main.op \in {"process", "drain"} /\ unload = <<>> /\ calls = <<>> /\ main \in Main
        /\ main.current = NoHandle
    BY TypeParts DEF LoopPick, InLoop, InMain
  <1>2. PICK i \in JobsOf(main.next) :
           /\ main' = [main EXCEPT !.left = @ - 1, !.current = main.next,
                                   !.was = IF main.op = "drain" THEN jobs[i].phase ELSE @]
           /\ ProcessJob(i, <<>>)
    BY DEF LoopPick
  <1>3. main'.op = main.op /\ main'.current = main.next
    BY <1>1, <1>2 DEF Main
  <1>4. ~Ending
    BY <1>1 DEF Ending
  <1>5. PICK cs : cs = <<>>
    OBVIOUS
  <1>6. Attended(cs, main', main.next)
    <2>1. PICK m : m = main'
      OBVIOUS
    <2>2. Attended(<<>>, m, main.next)
      BY <1>1, <1>3, <2>1, StackEmpty
    <2> QED
      BY <1>5, <2>1, <2>2
  <1>7. Attending(main.next, cs)
    <2>1. PICK m : m = main'
      OBVIOUS
    <2>2. cs \in Seq(Call) /\ Ordered(cs, m) /\ NoDtors(cs) /\ NoDtors(calls)
      BY <1>1, <1>5, StackEmpty
    <2>3. \A h \in Queued : ~Attended(calls, main, h)
      BY <1>1, StackEmpty, NobodyFacts
    <2> QED
      BY <1>1, <1>3, <2>1, <2>2, <2>3 DEF Attending
  <1>8. ProcessJob(i, cs)
    BY <1>2, <1>5
  <1> QED
    BY <1>1, <1>2, <1>4, <1>6, <1>7, <1>8, WorkProcess

LEMMA WorkBuildProcess ==
    ASSUME TypeOK, TypeOK', AssetInv, WorkInv, BuildProcess
    PROVE  WorkInv'
  <1>1. /\ unload = <<>> /\ calls # <<>> /\ Top.op = "build" /\ Top.chain /\ main' = main
    BY DEF BuildProcess, InCallback
  <1>2. ~Ending
    BY <1>1, InsideFacts
  <1>3. /\ Below \in Seq(Call) /\ Top \in Call /\ Ordered(Below, main) /\ NoDtors(Below)
        /\ main.op # "cancelAll" /\ ~Top.settled /\ NoDtors(calls)
        /\ \A h : Attended(calls, main, h) <=> Top.handle = h
    BY <1>1, StackTop DEF WorkInv
  <1>4. PICK i \in JobsOf(Top.handle) : ProcessJob(i, Append(Below, [Top EXCEPT !.chain = FALSE]))
    BY DEF BuildProcess
  <1>5. PICK c \in Call : /\ c = [Top EXCEPT !.chain = FALSE] /\ c.op = "build" /\ ~c.chain
                          /\ ~c.settled /\ c.handle = Top.handle
    <2>1. /\ [Top EXCEPT !.chain = FALSE] \in Call /\ [Top EXCEPT !.chain = FALSE].op = "build"
          /\ ~[Top EXCEPT !.chain = FALSE].chain /\ ~[Top EXCEPT !.chain = FALSE].settled
          /\ [Top EXCEPT !.chain = FALSE].handle = Top.handle
      BY <1>1, <1>3 DEF Call
    <2> QED
      BY <2>1
  <1>6. PICK cs \in Seq(Call) : cs = Append(Below, c)
    BY <1>3, AppendFacts
  <1>7. Suits(c, Below, main)
    BY <1>3, <1>5 DEF Suits
  <1>8. Ordered(cs, main) /\ NoDtors(cs) /\ Attended(cs, main, Top.handle)
    BY <1>3, <1>5, <1>6, <1>7, StackPush, NoDtorsFacts
  <1>9. Attending(Top.handle, cs) /\ Attended(cs, main', Top.handle)
    BY <1>1, <1>3, <1>8 DEF Attending
  <1>10. ProcessJob(i, cs)
    BY <1>4, <1>5, <1>6
  <1>11. PICK x : x = Top.handle
    OBVIOUS
  <1> QED
    BY <1>1, <1>2, <1>4, <1>9, <1>10, <1>11, WorkProcess

LEMMA WorkCtorReturn ==
    ASSUME TypeOK, TypeOK', AssetInv, WorkInv, CtorReturn
    PROVE  WorkInv'
  <1>1. /\ unload = <<>> /\ calls # <<>> /\ Top.op = "ctor" /\ main' = main
    BY DEF CtorReturn, InCallback
  <1>2. ~Ending /\ CallInv
    BY <1>1, InsideFacts DEF AssetInv
  <1>3. PICK x \in Handle : x = Top.handle
    BY <1>1, <1>2, Popped
  <1>4. x \in Open /\ ~Top.dangling /\ Top \in Call
    BY <1>1, <1>2, <1>3, Popped DEF FrameOK
  <1>5. /\ Below \in Seq(Call) /\ Ordered(Below, main) /\ NoDtors(Below)
        /\ main.op # "cancelAll" /\ NoDtors(calls) /\ Attended(Below, main, x)
        /\ \A h : ~Attended(calls, main, h)
    BY <1>1, <1>3, StackTop DEF WorkInv
  <1>6. Attending(x, Below) /\ Attended(Below, main', x)
    BY <1>1, <1>5 DEF Attending
  <1>7. PICK i \in JobsOf(x) :
          \/ /\ slots' = FinishSlot(slots, x, "Failed")
             /\ jobs' = Finish(i, "Failed")
             /\ calls' = Below
          \/ /\ slots' = SetState(slots, x, "PROCESSING")
             /\ jobs' = [jobs EXCEPT ![i].phase = "Processing", ![i].built = TRUE]
             /\ calls' = IF Top.chain
                         THEN Append(Below, [NewCall("step", x) EXCEPT !.dangling = Top.dangling])
                         ELSE Below
    BY <1>3, <1>4 DEF CtorReturn
  <1>8. ~Terminal(jobs[i])
    BY <1>4, <1>7, OpenJob
  <1>9. ASSUME Calm, Worked(x, Below) PROVE WorkInv'
    BY <1>1, <1>2, <1>6, <1>9, CalmStep, WorkedStep DEF WorkInv
  <1>10. CASE /\ slots' = FinishSlot(slots, x, "Failed")
              /\ jobs' = Finish(i, "Failed")
              /\ calls' = Below
    <2>1. Moves(x, "FAILED")
      BY <1>3, <1>10, StateMoves
    <2>2. /\ \A h : h \in Queued' <=> h \in Queued
          /\ \A h : h \in Open' <=> h \in Open /\ h # x
      BY <1>7, <1>8, <1>10, JobFinished
    <2>3. Calm
      BY <1>2, <1>4, <2>1, <2>2, CalmMoves
    <2> QED
      BY <1>9, <1>10, <2>2, <2>3 DEF Worked
  <1>11. CASE /\ slots' = SetState(slots, x, "PROCESSING")
              /\ jobs' = [jobs EXCEPT ![i].phase = "Processing", ![i].built = TRUE]
              /\ calls' = IF Top.chain
                          THEN Append(Below, [NewCall("step", x) EXCEPT !.dangling = Top.dangling])
                          ELSE Below
    <2>1. Moves(x, "PROCESSING")
      BY <1>3, <1>11, StateMoves, OutcomeTypes
    <2>2. /\ \A h : h \in Queued' <=> h \in Queued
          /\ \A h : h \in Open' <=> h \in Open
      BY <1>7, <1>8, <1>11, JobContinued, OutcomeTypes
    <2>3. Calm
      BY <1>2, <1>4, <2>1, <2>2, CalmMoves
    <2>4. PICK c : c = [NewCall("step", x) EXCEPT !.dangling = Top.dangling]
      OBVIOUS
    <2>5. c \in Call
      <3>1. Top.dangling \in BOOLEAN
        BY <1>4 DEF Call
      <3> QED
        BY <1>3, <2>4, <3>1, CallTypes
    <2>6. c.handle = x /\ c.op \in {"ctor", "step"}
      BY <2>4 DEF NewCall
    <2>7. Worked(x, Below)
      BY <1>4, <1>11, <2>2, <2>4, <2>5, <2>6 DEF Worked
    <2> QED
      BY <1>9, <2>3, <2>7
  <1> QED
    BY <1>7, <1>10, <1>11

-----------------------------------------------------------------------------
(* A step returns                                                           *)

\* The dependencies of an asset that is done are loaded, and have no job any
\* more: a finished job is retired before a step of another asset runs.
LEMMA WorkCommit ==
    ASSUME TypeOK, TypeOK', AssetInv, AssetInv', WorkInv, unload = <<>>, unload' = <<>>,
           calls # <<>>, Top.op = "step", main' = main, calls' = Below,
           NEW i \in JobsOf(Top.handle), Completes(i)
    PROVE  FreshInv' /\ LoadedInv'
  <1>1. ~Ending /\ CallInv
    BY InsideFacts DEF AssetInv
  <1>2. PICK x \in Handle : x = Top.handle
    BY <1>1, Popped
  <1>3. PICK l \in Key : l = KeyOf(x)
    BY KeyFacts
  <1>4. /\ x \in Open /\ ~Terminal(jobs[i]) /\ jobs[i].handle = x /\ jobs[i] \in Job /\ x \in Queued
    BY <1>1, <1>2, Popped, OpenJob DEF FrameOK
  <1>5. /\ slots \in [Key -> Slot] /\ slots' \in [Key -> Slot] /\ x \in Live(slots)
        /\ slots[l].state \in InProgress \cup {"PENDING_DELETE"}
        /\ slots[l].dependents = {} /\ Resolves(slots, x)
    BY <1>1, <1>3, <1>4, TypeParts, TypePrimes, LiveHandle DEF AssetInv, JobInv
  <1>6. PICK deps \in SUBSET (Handle \cup {NoHandle}) : deps = jobs[i].required
    BY <1>4 DEF Job
  <1>7. PICK ds : ds = Committable(slots, deps)
    OBVIOUS
  <1>8. slots' = DoneSlots(x, deps) /\ DepsReady(slots, deps) /\ jobs' = Finish(i, "Loaded")
    BY <1>4, <1>6 DEF Completes
  <1>9. \A k \in Key :
          /\ slots'[k].generation = slots[k].generation
          /\ slots'[k].state = IF k = l THEN "LOADED" ELSE slots[k].state
          /\ slots'[k].dependencies = IF k = l THEN ds ELSE slots[k].dependencies
          /\ slots'[k].dependents = IF HandleAt(slots, k) \in ds THEN slots[k].dependents \cup {x}
                                                                 ELSE slots[k].dependents
    <2>1. LET u == DoneSlots(x, deps)
              es == Committable(slots, deps)
          IN  /\ u \in [Key -> Slot]
              /\ \A k \in Key :
                    /\ u[k].generation = slots[k].generation /\ u[k].path = slots[k].path
                    /\ u[k].state = IF k = KeyOf(x) THEN "LOADED" ELSE slots[k].state
                    /\ (u[k].retiring <=> slots[k].retiring)
                    /\ u[k].pin >= slots[k].pin
                    /\ slots[k].state # "LOADED" => u[k].pin = slots[k].pin
                    /\ u[k].dependencies = IF k = KeyOf(x) THEN es ELSE slots[k].dependencies
                    /\ u[k].dependents = IF HandleAt(slots, k) \in es THEN slots[k].dependents \cup {x}
                                                                     ELSE slots[k].dependents
      BY <1>5, DoneFacts, Zenon
    <2> QED
      BY <1>3, <1>7, <1>8, <2>1
  <1>10. ASSUME NEW d \in ds
         PROVE  d \in Handle /\ slots[KeyOf(d)].state = "LOADED" /\ d \notin Queued
    <2>1. d \in deps /\ Resolves(slots, d)
      BY <1>7 DEF Committable
    <2>2. d \in Handle /\ slots[KeyOf(d)].state = "LOADED"
      BY <1>6, <1>8, <2>1 DEF DepsReady, StateOf, Resolves
    <2>3. d \notin Open
      BY <1>1, <2>2 DEF AssetInv, JobInv, InProgress
    <2>4. d \notin Dtors /\ ~Attended(calls, main, d) /\ main.op # "cancelAll"
      <3>1. NoDtors(calls) /\ calls \in Seq(Call)
        BY StackTop, TypeParts DEF WorkInv
      <3>2. d \notin Dtors
        BY <3>1 DEF NoDtors, In, Dtors, DtorsOf
      <3> QED
        BY <3>2, StackTop DEF WorkInv
    <2> QED
      BY <1>1, <2>2, <2>3, <2>4 DEF WorkInv, DoneInv
  <1>11. \A h : h \in Queued' <=> h \in Queued
    BY <1>2, <1>4, <1>8, JobFinished
  <1>12. FreshInv'
    <2>1. ASSUME NEW h \in Live(slots'), h \in Queued'
          PROVE  slots'[KeyOf(h)].dependents = {}
      <3>1. h \in Handle /\ Resolves(slots', h) /\ slots'[KeyOf(h)].state # "EMPTY"
        BY <1>5, LiveFacts
      <3>2. PICK k \in Key : k = KeyOf(h)
        BY <3>1, KeyFacts
      <3>3. Resolves(slots, h) /\ slots[k].state # "EMPTY" /\ h \in Queued
        BY <1>5, <1>9, <1>11, <2>1, <3>1, <3>2 DEF Resolves, InProgress
      <3>4. h \in Live(slots) /\ HandleAt(slots, k) = h
        BY <1>5, <3>1, <3>2, <3>3, LiveFacts, ResolvesFacts
      <3>5. slots[k].dependents = {}
        BY <1>1, <3>2, <3>3, <3>4 DEF WorkInv, FreshInv
      <3> QED
        BY <1>9, <1>10, <3>2, <3>3, <3>4, <3>5
    <2> QED
      BY <2>1 DEF FreshInv
  <1>13. ASSUME NEW k \in Key, slots'[k].state = "LOADED", NEW d \in slots'[k].dependencies
         PROVE  slots'[KeyOf(d)].state = "LOADED"
    <2>1. d \in Handle /\ slots[KeyOf(d)].state = "LOADED"
      <3>1. CASE k = l
        BY <1>9, <1>10, <1>13, <3>1
      <3>2. CASE k # l
        <4>1. slots[k].state = "LOADED" /\ d \in slots[k].dependencies
          BY <1>9, <1>13, <3>2
        <4>2. slots[k].dependencies \subseteq Handle
          BY <1>5 DEF Slot
        <4> QED
          BY <1>1, <4>1, <4>2 DEF WorkInv, LoadedInv, Unloading
      <3> QED
        BY <3>1, <3>2
    <2> QED
      BY <1>9, <2>1, KeyFacts
  <1>14. LoadedInv'
    BY <1>13 DEF LoadedInv
  <1> QED
    BY <1>12, <1>14

LEMMA WorkStepReturn ==
    ASSUME TypeOK, TypeOK', AssetInv, AssetInv', WorkInv, NEW status, StepReturn(status)
    PROVE  WorkInv'
  <1>1. /\ unload = <<>> /\ calls # <<>> /\ Top.op = "step" /\ calls' = Below
        /\ main' = main /\ unload' = unload
    BY DEF StepReturn, InCallback
  <1>2. ~Ending /\ CallInv
    BY <1>1, InsideFacts DEF AssetInv
  <1>3. PICK x \in Handle : x = Top.handle
    BY <1>1, <1>2, Popped
  <1>4. x \in Open /\ ~Top.dangling /\ Top \in Call
    BY <1>1, <1>2, <1>3, Popped DEF FrameOK
  <1>5. /\ Below \in Seq(Call) /\ Ordered(Below, main) /\ NoDtors(Below)
        /\ main.op # "cancelAll" /\ NoDtors(calls) /\ Attended(Below, main, x)
        /\ \A h : ~Attended(calls, main, h)
    BY <1>1, <1>3, StackTop DEF WorkInv
  <1>6. Attending(x, Below) /\ Attended(Below, main', x)
    BY <1>1, <1>5 DEF Attending
  <1>7. PICK i \in JobsOf(x) :
          \/ UNCHANGED <<slots, jobs>>
          \/ /\ slots' = SetState(slots, x, "WAITING_DEPENDENCIES")
             /\ jobs' = SetPhase(i, "WaitingDependencies")
          \/ slots' = FinishSlot(slots, x, "Failed") /\ jobs' = Finish(i, "Failed")
          \/ slots' = FinishSlot(slots, x, "Cancelled") /\ jobs' = Finish(i, "Cancelled")
          \/ /\ DepsReady(slots, jobs[i].required)
             /\ slots' = DoneSlots(x, jobs[i].required \cup jobs[i].optional)
             /\ jobs' = Finish(i, "Loaded")
    BY <1>3, <1>4 DEF StepReturn
  <1>8. /\ ~Terminal(jobs[i]) /\ jobs[i].handle = x
        /\ jobs[i].required \cup jobs[i].optional = jobs[i].required
    BY <1>4, <1>7, OpenJob
  <1>9. ASSUME Calm, Worked(x, Below) PROVE WorkInv'
    BY <1>1, <1>2, <1>6, <1>9, CalmStep, WorkedStep DEF WorkInv
  <1>10. ASSUME NEW o \in {"Loaded", "Failed", "Cancelled"}, jobs' = Finish(i, o)
         PROVE  Worked(x, Below) /\ \A h : h \in Queued' <=> h \in Queued
    <2>1. /\ \A h : h \in Queued' <=> h \in Queued
          /\ \A h : h \in Open' <=> h \in Open /\ h # x
      BY <1>7, <1>8, <1>10, JobFinished
    <2> QED
      BY <1>1, <2>1 DEF Worked
  <1>11. CASE UNCHANGED <<slots, jobs>>
    <2>1. Calm /\ Worked(x, Below)
      BY <1>1, <1>11 DEF Calm, SameGraph, Worked, Queued, Open
    <2> QED
      BY <1>9, <2>1
  <1>12. CASE /\ slots' = SetState(slots, x, "WAITING_DEPENDENCIES")
              /\ jobs' = SetPhase(i, "WaitingDependencies")
    <2>1. Moves(x, "WAITING_DEPENDENCIES")
      BY <1>3, <1>12, StateMoves, OutcomeTypes
    <2>2. /\ \A h : h \in Queued' <=> h \in Queued
          /\ \A h : h \in Open' <=> h \in Open
      BY <1>7, <1>8, <1>12, JobContinued, OutcomeTypes
    <2>3. Calm
      BY <1>2, <1>4, <2>1, <2>2, CalmMoves
    <2> QED
      BY <1>1, <1>9, <2>2, <2>3 DEF Worked
  <1>13. ASSUME NEW o \in {"Failed", "Cancelled"},
                slots' = FinishSlot(slots, x, o), jobs' = Finish(i, o)
         PROVE  WorkInv'
    <2>1. Moves(x, "FAILED")
      BY <1>3, <1>13, StateMoves
    <2>2. Worked(x, Below) /\ \A h : h \in Queued' <=> h \in Queued
      BY <1>10, <1>13
    <2>3. Calm
      BY <1>2, <1>4, <2>1, <2>2, CalmMoves
    <2> QED
      BY <1>9, <2>2, <2>3
  <1>14. CASE /\ DepsReady(slots, jobs[i].required)
              /\ slots' = DoneSlots(x, jobs[i].required \cup jobs[i].optional)
              /\ jobs' = Finish(i, "Loaded")
    <2>1. Completes(i)
      BY <1>8, <1>14 DEF Completes
    <2>2. FreshInv' /\ LoadedInv'
      BY <1>1, <1>3, <1>7, <2>1, WorkCommit
    <2>3. Worked(x, Below)
      BY <1>10, <1>14
    <2>4. StackInv' /\ DoneInv'
      BY <1>2, <1>6, <2>3, WorkedStep DEF WorkInv
    <2> QED
      BY <2>2, <2>4 DEF WorkInv
  <1> QED
    BY <1>7, <1>11, <1>12, <1>13, <1>14

-----------------------------------------------------------------------------
(* Finished jobs are retired                                                *)

LEMMA CalmRetiring ==
    ASSUME TypeOK, NEW l, NEW b \in BOOLEAN,
           slots' = slots \/ slots' = [slots EXCEPT ![l].retiring = b],
           \A h : h \in Queued' => h \in Queued
    PROVE  Calm
  <1>1. slots \in [Key -> Slot]
    BY TypeParts
  <1>2. SameGraph(slots, slots') /\ \A k \in Key : slots'[k].state = slots[k].state
    <2>1. CASE slots' = slots
      BY <2>1 DEF SameGraph
    <2>2. CASE slots' = [slots EXCEPT ![l].retiring = b]
      <3>1. CASE l \in Key
        BY <1>1, <2>2, <3>1, RetiringWrites DEF SameGraph
      <3>2. CASE l \notin Key
        <4>1. slots' = slots
          BY <1>1, <2>2, <3>2
        <4> QED
          BY <2>1, <4>1
      <3> QED
        BY <3>1, <3>2
    <2> QED
      BY <2>1, <2>2
  <1> QED
    BY <1>2, CalmSame

\* What is queued and finished below an attended job of x is the job of x.
LEMMA OthersOpen ==
    ASSUME TypeOK, DoneInv, ~Ending, NEW x, NEW cs, Attending(x, cs)
    PROVE  \A h \in Queued : h # x => h \in Open
  <1>1. calls \in Seq(Call)
    BY TypeParts
  <1>2. \A h : h \notin Dtors
    BY <1>1 DEF Attending, NoDtors, In, Dtors, DtorsOf
  <1> QED
    BY <1>2 DEF Attending, DoneInv

\* retire_load_job.
LEMMA WorkRetire ==
    ASSUME TypeOK, TypeOK', AssetInv, WorkInv, ~Ending, unload = <<>>,
           NEW x, NEW i \in JobsOf(x), Terminal(jobs[i]), NEW cs, Attending(x, cs), Retire(i, cs)
    PROVE  WorkInv'
  <1>1. /\ x \in Handle /\ x \in Queued /\ x \notin Open /\ jobs[i].handle = x
        /\ cs \in Seq(Call) /\ NoDtors(cs)
    BY OpenJob DEF Attending
  <1>2. PICK m : m = main'
    OBVIOUS
  <1>3. Ordered(cs, m) /\ m.op # "cancelAll"
    BY <1>2 DEF Attending
  <1>4. \A h \in Queued : h # x => h \in Open
    BY OthersOpen DEF WorkInv
  <1>5. CASE jobs[i].built
    <2>1. PICK b \in BOOLEAN : b = Resolves(slots, x)
      BY DEF Resolves
    <2>2. PICK c \in Call : c = [NewCall("dtor", x) EXCEPT !.found = b]
      BY <1>1, CallTypes
    <2>3. c.op = "dtor" /\ c.handle = x /\ c.erase
      BY <2>2 DEF NewCall
    <2>4. /\ calls' = Append(cs, c) /\ jobs' = jobs
          /\ slots' = slots \/ slots' = [slots EXCEPT ![KeyOf(x)].retiring = TRUE]
      BY <1>1, <1>5, <2>1, <2>2 DEF Retire
    <2>5. Calm
      <3>1. \A h : h \in Queued' => h \in Queued
        BY <2>4 DEF Queued
      <3> QED
        BY <2>4, <3>1, CalmRetiring
    <2>6. Suits(c, cs, m)
      BY <1>3, <2>3 DEF Suits
    <2>7. Ordered(Append(cs, c), m)
      BY <1>1, <1>3, <2>6, StackPush
    <2>8. StackInv'
      BY <1>2, <2>4, <2>7 DEF StackInv
    <2>9. x \in DtorsOf(Append(cs, c))
      BY <1>1, <2>3, NoDtorsFacts
    <2>10. DoneInv'
      <3>1. x \in Dtors' /\ Queued' = Queued /\ Open' = Open
        BY <2>4, <2>9 DEF Dtors, Queued, Open
      <3> QED
        BY <1>4, <3>1 DEF DoneInv
    <2> QED
      BY <2>5, <2>8, <2>10, CalmStep DEF WorkInv
  <1>6. CASE ~jobs[i].built
    <2>1. calls' = cs /\ jobs' = EraseJob(i) /\ slots' = slots
      BY <1>1, <1>6 DEF Retire
    <2>2. /\ \A h : h \in Queued' <=> h \in Queued /\ h # x
          /\ \A h : h \in Open' <=> h \in Open /\ h # x
      BY <2>1, JobErased
    <2>3. Calm
      BY <2>1, <2>2, CalmSame DEF SameGraph
    <2>4. StackInv'
      BY <1>2, <1>3, <2>1 DEF StackInv
    <2>5. DoneInv'
      BY <1>4, <2>2 DEF DoneInv
    <2> QED
      BY <2>3, <2>4, <2>5, CalmStep DEF WorkInv
  <1> QED
    BY <1>5, <1>6

LEMMA WorkLoopAfter ==
    ASSUME TypeOK, TypeOK', AssetInv, WorkInv, LoopAfter
    PROVE  WorkInv'
  <1>1. /\ main.op \in {"process", "drain"} /\ unload = <<>> /\ calls = <<>> /\ main \in Main
    BY TypeParts DEF LoopAfter, InLoop, InMain
  <1>2. PICK i \in JobsOf(main.current) :
           /\ main' = [main EXCEPT !.current = NoHandle, !.next = JobAfter(i),
                         !.progress = @ \/ (main.op = "drain"
                                            /\ (Terminal(jobs[i]) \/ jobs[i].phase # main.was))]
           /\ \/ Terminal(jobs[i]) /\ Retire(i, <<>>)
              \/ /\ ~Terminal(jobs[i]) /\ jobs[i].phase = "WaitingDependencies"
                 /\ jobs' = Append(EraseJob(i), jobs[i])
                 /\ UNCHANGED <<slots, calls, unload>>
              \/ /\ ~Terminal(jobs[i]) /\ jobs[i].phase # "WaitingDependencies"
                 /\ UNCHANGED <<slots, jobs, calls, unload>>
    BY DEF LoopAfter
  <1>3. main'.op = main.op
    BY <1>1, <1>2 DEF Main
  <1>4. ~Ending
    BY <1>1 DEF Ending
  <1>5. PICK x : x = main.current
    OBVIOUS
  <1>6. PICK cs : cs = <<>>
    OBVIOUS
  <1>7. Attending(x, cs)
    <2>1. PICK m : m = main'
      OBVIOUS
    <2>2. cs \in Seq(Call) /\ Ordered(cs, m) /\ NoDtors(cs) /\ NoDtors(calls)
      BY <1>1, <1>6, StackEmpty
    <2>3. \A h \in Queued : Attended(calls, main, h) => h = x
      BY <1>1, <1>5, StackEmpty
    <2> QED
      BY <1>1, <1>3, <2>1, <2>2, <2>3 DEF Attending
  <1>8. CASE Terminal(jobs[i]) /\ Retire(i, <<>>)
    BY <1>1, <1>2, <1>4, <1>5, <1>6, <1>7, <1>8, WorkRetire
  <1>9. ASSUME ~Terminal(jobs[i]), UNCHANGED <<slots, calls>>,
               \A h : h \in Queued' <=> h \in Queued, \A h : h \in Open' <=> h \in Open
        PROVE  WorkInv'
    <2>1. Calm
      BY <1>9, CalmSame DEF SameGraph
    <2>2. StackInv'
      <3>1. PICK m : m = main'
        OBVIOUS
      <3>2. Ordered(<<>>, m)
        BY StackEmpty
      <3> QED
        BY <1>1, <1>9, <3>1, <3>2 DEF StackInv
    <2>3. DoneInv'
      <3>1. x \in Open
        BY <1>2, <1>5, <1>9, OpenJob
      <3>2. \A h \in Queued : h # x => h \in Open
        BY <1>4, <1>7, OthersOpen DEF WorkInv
      <3> QED
        BY <1>9, <3>1, <3>2 DEF DoneInv
    <2> QED
      BY <1>1, <1>4, <2>1, <2>2, <2>3, CalmStep DEF WorkInv
  <1>10. CASE ~Terminal(jobs[i]) /\ jobs' = Append(EraseJob(i), jobs[i]) /\ UNCHANGED <<slots, calls>>
    <2>1. /\ \A h : h \in Queued' <=> h \in Queued
          /\ \A h : h \in Open' <=> h \in Open
      BY <1>2, <1>10, JobMoved
    <2> QED
      BY <1>9, <1>10, <2>1
  <1>11. CASE ~Terminal(jobs[i]) /\ UNCHANGED <<slots, jobs, calls>>
    BY <1>9, <1>11 DEF Queued, Open
  <1> QED
    BY <1>2, <1>8, <1>10, <1>11

LEMMA WorkBuildAfter ==
    ASSUME TypeOK, TypeOK', AssetInv, WorkInv, BuildAfter
    PROVE  WorkInv'
  <1>1. /\ unload = <<>> /\ calls # <<>> /\ Top.op = "build" /\ ~Top.chain /\ ~Top.settled
        /\ main' = main
    BY DEF BuildAfter, InCallback
  <1>2. ~Ending
    BY <1>1, InsideFacts
  <1>3. /\ Below \in Seq(Call) /\ Top \in Call /\ Ordered(Below, main) /\ NoDtors(Below)
        /\ main.op # "cancelAll" /\ NoDtors(calls)
        /\ \A h : Attended(calls, main, h) <=> Top.handle = h
    BY <1>1, StackTop DEF WorkInv
  <1>4. PICK x : x = Top.handle
    OBVIOUS
  <1>5. PICK i \in JobsOf(x) :
          IF Terminal(jobs[i])
          THEN Retire(i, Append(Below, [Top EXCEPT !.settled = TRUE, !.outcome = jobs[i].outcome]))
          ELSE calls' = Below /\ UNCHANGED <<slots, jobs, unload>>
    BY <1>4 DEF BuildAfter
  <1>6. CASE Terminal(jobs[i])
    <2>1. jobs[i].outcome \in Outcomes
      BY <1>5, OpenJob DEF Job
    <2>2. PICK c : c = [Top EXCEPT !.settled = TRUE, !.outcome = jobs[i].outcome]
      OBVIOUS
    <2>3. c \in Call /\ c.op = "build" /\ ~c.chain
      BY <1>1, <1>3, <2>1, <2>2 DEF Call
    <2>4. PICK cs \in Seq(Call) : cs = Append(Below, c)
      BY <1>3, <2>3, AppendFacts
    <2>5. Suits(c, Below, main)
      BY <1>3, <2>3 DEF Suits
    <2>6. Ordered(cs, main) /\ NoDtors(cs)
      BY <1>3, <2>3, <2>4, <2>5, StackPush, NoDtorsFacts
    <2>7. Attending(x, cs)
      BY <1>1, <1>3, <1>4, <2>6 DEF Attending
    <2>8. Retire(i, cs)
      BY <1>5, <1>6, <2>2, <2>4
    <2> QED
      BY <1>1, <1>2, <1>5, <1>6, <2>7, <2>8, WorkRetire
  <1>7. CASE ~Terminal(jobs[i])
    <2>1. calls' = Below /\ UNCHANGED <<slots, jobs>>
      BY <1>5, <1>7
    <2>2. Calm
      BY <2>1, CalmSame DEF SameGraph, Queued
    <2>3. StackInv'
      BY <1>1, <1>3, <2>1 DEF StackInv
    <2>4. Attending(x, Below)
      BY <1>1, <1>3, <1>4 DEF Attending
    <2>5. \A h \in Queued : h # x => h \in Open
      BY <1>2, <2>4, OthersOpen DEF WorkInv
    <2>6. x \in Open
      BY <1>5, <1>7, OpenJob
    <2>7. DoneInv'
      BY <2>1, <2>5, <2>6 DEF DoneInv, Queued, Open
    <2> QED
      BY <1>1, <1>2, <2>2, <2>3, <2>7, CalmStep DEF WorkInv
  <1> QED
    BY <1>6, <1>7

\* retire_and_erase and cancel_type after the dtor callback.
LEMMA WorkDtorReturn ==
    ASSUME TypeOK, TypeOK', AssetInv, WorkInv, DtorReturn
    PROVE  WorkInv'
  <1>1. /\ unload = <<>> /\ calls # <<>> /\ Top.op = "dtor" /\ calls' = Below /\ main' = main
    BY DEF DtorReturn, InCallback
  <1>2. ~Ending /\ CallInv
    BY <1>1, InsideFacts DEF AssetInv
  <1>3. PICK x \in Handle : x = Top.handle
    BY <1>1, <1>2, Popped
  <1>4. /\ Below \in Seq(Call) /\ Ordered(Below, main) /\ NoDtors(Below)
        /\ ~Top.erase => main.op = "cancelAll"
        /\ \A h : ~Attended(calls, main, h)
    BY <1>1, StackTop DEF WorkInv
  <1>5. \A h : h \in Dtors => h = x
    <2>1. \A h : h \notin DtorsOf(Below)
      BY <1>4 DEF NoDtors, In, DtorsOf
    <2> QED
      BY <1>1, <1>2, <1>3, <2>1, Popped
  <1>6. PICK i \in JobsOf(x) :
          /\ slots' = slots \/ slots' = [slots EXCEPT ![KeyOf(x)].retiring = FALSE]
          /\ Top.erase => jobs' = EraseJob(i)
          /\ ~Top.erase => jobs' = [jobs EXCEPT ![i].built = FALSE]
    BY <1>3 DEF DtorReturn
  <1>7. StackInv'
    BY <1>1, <1>4 DEF StackInv
  <1>8. CASE Top.erase
    <2>1. /\ \A h : h \in Queued' <=> h \in Queued /\ h # x
          /\ \A h : h \in Open' <=> h \in Open /\ h # x
      BY <1>6, <1>8, JobErased
    <2>2. Calm
      BY <1>6, <2>1, CalmRetiring
    <2>3. DoneInv'
      BY <1>1, <1>2, <1>4, <1>5, <2>1 DEF DoneInv, WorkInv
    <2> QED
      BY <1>1, <1>2, <1>7, <2>2, <2>3, CalmStep DEF WorkInv
  <1>9. CASE ~Top.erase
    <2>1. \A h : h \in Queued' <=> h \in Queued
      BY <1>6, <1>9, JobUnbuilt
    <2>2. Calm
      BY <1>6, <2>1, CalmRetiring
    <2>3. DoneInv'
      BY <1>1, <1>4, <1>9 DEF DoneInv
    <2> QED
      BY <1>1, <1>2, <1>7, <2>2, <2>3, CalmStep DEF WorkInv
  <1> QED
    BY <1>8, <1>9

-----------------------------------------------------------------------------
(* References                                                               *)

\* The same callbacks run, but for a build request that may be over.
SameCalls ==
    \/ calls' = calls
    \/ calls # <<>> /\ Top.op = "build" /\ Top.settled /\ calls' = Below

LEMMA WorkKept ==
    ASSUME TypeOK, TypeOK', AssetInv, WorkInv, ~Ending, unload = <<>>, Calm,
           main' = main, SameCalls, \A h : h \in Queued' <=> h \in Queued,
           \A h : h \in Open' <=> h \in Open
    PROVE  WorkInv'
  <1>1. CASE calls' = calls
    <2>1. StackInv'
      BY <1>1 DEF StackInv, WorkInv
    <2>2. DoneInv'
      <3>1. Dtors' = Dtors /\ \A h : Attended(calls, main, h) <=> Attended(calls, main, h)'
        BY <1>1 DEF Dtors
      <3> QED
        BY <1>1, <3>1 DEF DoneInv, WorkInv
    <2> QED
      BY <2>1, <2>2, CalmStep DEF WorkInv
  <1>2. CASE calls # <<>> /\ Top.op = "build" /\ Top.settled /\ calls' = Below
    <2>1. /\ Ordered(Below, main) /\ NoDtors(calls) /\ main.op # "cancelAll"
          /\ \A h : ~Attended(calls, main, h)
      BY <1>2, StackTop DEF WorkInv
    <2>2. StackInv'
      BY <1>2, <2>1 DEF StackInv
    <2>3. calls \in Seq(Call)
      BY TypeParts
    <2>4. \A h : h \notin Dtors
      BY <2>1, <2>3 DEF NoDtors, In, Dtors, DtorsOf
    <2>5. DoneInv'
      BY <2>1, <2>4 DEF DoneInv, WorkInv
    <2> QED
      BY <2>2, <2>5, CalmStep DEF WorkInv
  <1> QED
    BY <1>1, <1>2 DEF SameCalls

LEMMA ReleaseCalm ==
    ASSUME TypeOK, TypeOK', AssetInv, WorkInv, ~Ending, NEW x \in Live(slots), Releases(x),
           jobs' = jobs
    PROVE  Calm
  <1>1. PICK l \in Key : l = KeyOf(x) /\ slots[l].state # "EMPTY"
    BY TypeParts, LiveHandle
  <1>2. PICK marked \in BOOLEAN :
           /\ SameGraph(slots, slots')
           /\ \A k \in Key : k # l => slots'[k].state = slots[k].state
           /\ marked => slots'[l].state = "PENDING_DELETE"
           /\ marked => slots[l].retiring \/ slots[l].state \in InProgress
           /\ ~marked => slots'[l].state = slots[l].state
    <2>1. LET k0 == KeyOf(x)
              marked == slots'[k0].pin = 0 /\ (slots[k0].retiring \/ slots[k0].state \in InProgress)
          IN  /\ SameGraph(slots, slots')
              /\ slots[k0].pin > 0
              /\ \A k \in Key : /\ slots'[k].pin <= slots[k].pin
                                /\ (slots'[k].retiring <=> slots[k].retiring)
                                /\ H(k) \notin slots[k0].dependencies /\ k # k0
                                     => slots'[k].pin = slots[k].pin
                                /\ k # k0 => slots'[k].state = slots[k].state
              /\ marked => slots'[k0].state = "PENDING_DELETE"
              /\ ~marked => slots'[k0].state = slots[k0].state
      BY ReleaseChange, Zenon
    <2> QED
      BY <1>1, <2>1
  <1>3. slots[l].retiring => slots[l].dependents = {}
    <2>1. slots[l].retiring => x \in Dtors
      BY <1>1 DEF AssetInv, StateInv
    <2>2. Dtors \subseteq Queued
      BY DtorsQueued
    <2> QED
      BY <1>1, <2>1, <2>2 DEF WorkInv, FreshInv
  <1>4. marked /\ slots[l].state = "LOADED" => slots[l].dependents = {}
    BY <1>2, <1>3 DEF InProgress
  <1>5. \A h : h \in Queued' => h \in Queued
    BY DEF Queued
  <1> QED
    BY <1>1, <1>2, <1>4, <1>5 DEF Calm

LEMMA WorkRelease ==
    ASSUME TypeOK, TypeOK', AssetInv, WorkInv, ~Ending, unload = <<>>,
           NEW x \in Live(slots), Release(x)
    PROVE  WorkInv'
  <1>1. jobs' = jobs /\ main' = main /\ SameCalls
    BY DEF Release, SameCalls
  <1>2. Calm
    <2>1. CASE CanRelease(slots, x)
      <3>1. Releases(x)
        BY <2>1 DEF Release, Releases
      <3> QED
        BY <1>1, <3>1, ReleaseCalm
    <2>2. CASE ~CanRelease(slots, x)
      <3>1. slots' = slots
        BY <2>2 DEF Release
      <3> QED
        BY <1>1, <3>1, CalmSame DEF SameGraph, Queued
    <2> QED
      BY <2>1, <2>2
  <1>3. (\A h : h \in Queued' <=> h \in Queued) /\ (\A h : h \in Open' <=> h \in Open)
    BY <1>1 DEF Queued, Open
  <1> QED
    BY <1>1, <1>2, <1>3, WorkKept

LEMMA WorkBuildReturn ==
    ASSUME TypeOK, TypeOK', AssetInv, WorkInv, BuildReturn
    PROVE  WorkInv'
  <1>1. /\ unload = <<>> /\ calls # <<>> /\ Top.op = "build" /\ Top.settled /\ calls' = Below
        /\ jobs' = jobs /\ main' = main
    BY DEF BuildReturn, InCallback
  <1>2. ~Ending /\ CallInv
    BY <1>1, InsideFacts DEF AssetInv
  <1>3. PICK x \in Handle : x = Top.handle /\ FrameOK(Top)
    BY <1>1, <1>2, Popped
  <1>4. Calm
    <2>1. CASE Top.outcome \in {"Failed", "Cancelled"} /\ CanRelease(slots, x)
      <3>1. x \in Live(slots)
        BY <1>3, <2>1, ResolvedLive DEF CanRelease, FrameOK
      <3>2. Releases(x)
        BY <1>1, <1>3, <2>1 DEF BuildReturn, Releases
      <3> QED
        BY <1>1, <1>2, <3>1, <3>2, ReleaseCalm
    <2>2. CASE ~(Top.outcome \in {"Failed", "Cancelled"} /\ CanRelease(slots, x))
      <3>1. slots' = slots
        BY <1>3, <2>2 DEF BuildReturn
      <3> QED
        BY <1>1, <3>1, CalmSame DEF SameGraph, Queued
    <2> QED
      BY <2>1, <2>2
  <1>5. (\A h : h \in Queued' <=> h \in Queued) /\ (\A h : h \in Open' <=> h \in Open)
    BY <1>1 DEF Queued, Open
  <1>6. SameCalls
    BY <1>1 DEF SameCalls
  <1> QED
    BY <1>1, <1>2, <1>4, <1>5, <1>6, WorkKept

LEMMA WorkRetain ==
    ASSUME TypeOK, TypeOK', AssetInv, WorkInv, ~Ending, unload = <<>>,
           NEW x \in Live(slots), Retain(x)
    PROVE  WorkInv'
  <1>1. jobs' = jobs /\ main' = main /\ SameCalls
    BY DEF Retain, SameCalls
  <1>2. PICK l \in Key : l = KeyOf(x)
    BY TypeParts, LiveHandle
  <1>3. SameGraph(slots, slots') /\ \A k \in Key : slots'[k].state = slots[k].state
    <2>1. /\ slots[l].state # "PENDING_DELETE"
          /\ LET s1 == [slots EXCEPT ![l].pin = @ + 1]
             IN  slots' = PinCommitted(s1, s1[l].dependencies)
      BY <1>2 DEF Retain
    <2>2. LET s1 == [slots EXCEPT ![l].pin = @ + 1]
              t == PinCommitted(s1, s1[l].dependencies)
          IN  /\ t \in [Key -> Slot]
              /\ SameGraph(slots, t)
              /\ \A k \in Key : /\ t[k].pin >= slots[k].pin
                                /\ (t[k].retiring <=> slots[k].retiring)
                                /\ t[k].state = slots[k].state
                                /\ slots[k].state = "PENDING_DELETE" => t[k].pin = slots[k].pin
      BY <2>1, TypeParts, RetainFacts, Zenon
    <2> QED
      BY <2>1, <2>2
  <1>4. (\A h : h \in Queued' <=> h \in Queued) /\ (\A h : h \in Open' <=> h \in Open)
    BY <1>1 DEF Queued, Open
  <1>5. Calm
    BY <1>3, <1>4, CalmSame
  <1> QED
    BY <1>1, <1>4, <1>5, WorkKept

LEMMA WorkAddDependency ==
    ASSUME TypeOK, TypeOK', AssetInv, WorkInv, NEW d, AddDependency(d, "required")
    PROVE  WorkInv'
  <1>1. unload = <<>> /\ calls # <<>> /\ main' = main /\ slots' = slots /\ SameCalls
    BY DEF AddDependency, InCallback, SameCalls
  <1>2. ~Ending
    BY <1>1, InsideFacts
  <1>3. (\A h : h \in Queued' <=> h \in Queued) /\ (\A h : h \in Open' <=> h \in Open)
    BY DependencyAdded
  <1>4. Calm
    BY <1>1, <1>3, CalmSame DEF SameGraph
  <1> QED
    BY <1>1, <1>2, <1>3, <1>4, WorkKept

-----------------------------------------------------------------------------
(* Requests                                                                 *)

\* A build request is not made from a dtor callback, and not between the
\* process_job of a job and what its caller does then.
Undisturbed ==
    /\ NoDtors(calls) /\ main.op # "cancelAll"
    /\ \A h \in Queued : ~Attended(calls, main, h)

LEMMA WorkAsked ==
    ASSUME TypeOK, TypeOK', AssetInv, WorkInv, ~Ending, ~SameTypeNested,
           NEW x, NEW t \in Types, NEW p, Asked(x, t, p), calls' = calls \/ Undisturbed
    PROVE  WorkInv'
  <1>1. /\ unload = <<>> /\ main' = main /\ CanRequest(t) /\ x = NewHandle(t)
        /\ \A k \in Key : k # KeyOf(x) => slots'[k] = slots[k]
        /\ slots'[KeyOf(x)].generation = slots[KeyOf(x)].generation
        /\ slots'[KeyOf(x)].dependencies = {} /\ slots'[KeyOf(x)].dependents = {}
    BY DEF Asked, Takes
  <1>2. slots \in [Key -> Slot] /\ slots' \in [Key -> Slot] /\ calls \in Seq(Call)
    BY TypeParts, TypePrimes
  <1>3. PICK l \in Key : l = KeyOf(x) /\ slots[l].state = "EMPTY" /\ x \in Handle /\ Resolves(slots, x)
    BY <1>1, RequestFacts
  <1>4. slots'[l].state \in {"FAILED", "WAITING_DEPENDENCIES", "WAITING_LOAD"}
    BY <1>3 DEF Asked
  <1>5. /\ \A h : h \in Queued' => h \in Queued \/ h = x
        /\ \A h : h \in Queued' /\ h \notin Queued => h \in Open'
        /\ \A h : h \in Open => h \in Open'
    <2>1. CASE jobs' = jobs
      BY <2>1 DEF Queued, Open
    <2>2. CASE \E f \in Job : /\ jobs' = Append(jobs, f) /\ f.handle = x
                              /\ f.optional = {} /\ ~Terminal(f)
      <3>1. HandlesOf(jobs') = HandlesOf(jobs) \cup {x} /\ OpenOf(jobs') = OpenOf(jobs) \cup {x}
        BY <1>1, <2>2, WaitingJobs
      <3> QED
        BY <3>1 DEF Queued, Open
    <2> QED
      BY <2>1, <2>2 DEF Asked
  <1>6. StackInv' /\ DoneInv'
    <2>1. CASE calls' = calls
      <3>1. Dtors' = Dtors /\ \A h : Attended(calls, main, h) <=> Attended(calls, main, h)'
        BY <1>1, <2>1 DEF Dtors
      <3> QED
        BY <1>1, <1>5, <2>1, <3>1 DEF StackInv, DoneInv, WorkInv
    <2>2. CASE calls' # calls
      <3>1. PICK c \in Call : calls' = Append(calls, c) /\ c.op = "build" /\ ~c.settled
        BY <2>2 DEF Asked
      <3>2. Undisturbed
        BY <2>2
      <3>3. Suits(c, calls, main)
        BY <3>1, <3>2 DEF Suits, Undisturbed
      <3>4. Ordered(Append(calls, c), main)
        BY <1>2, <3>2, <3>3, StackPush DEF Undisturbed, WorkInv, StackInv
      <3>5. StackInv'
        BY <1>1, <3>1, <3>4 DEF StackInv
      <3>6. \A h : h \notin Dtors
        BY <1>2, <3>2 DEF Undisturbed, NoDtors, In, Dtors, DtorsOf
      <3>7. DoneInv'
        BY <1>5, <3>2, <3>6 DEF DoneInv, WorkInv, Undisturbed
      <3> QED
        BY <3>5, <3>7
    <2> QED
      BY <2>1, <2>2
  <1>7. FreshInv'
    <2>1. ASSUME NEW h \in Live(slots'), h \in Queued'
          PROVE  slots'[KeyOf(h)].dependents = {}
      <3>1. h \in Handle /\ Resolves(slots', h) /\ slots'[KeyOf(h)].state # "EMPTY" /\ KeyOf(h) \in Key
        BY <1>2, LiveFacts, KeyFacts
      <3>2. CASE KeyOf(h) = l
        BY <1>1, <1>3, <3>2
      <3>3. CASE KeyOf(h) # l
        <4>1. slots'[KeyOf(h)] = slots[KeyOf(h)] /\ h \in Queued
          BY <1>1, <1>3, <1>5, <2>1, <3>1, <3>3
        <4>2. h \in Live(slots)
          BY <1>2, <3>1, <4>1, LiveFacts DEF Resolves
        <4> QED
          BY <4>1, <4>2 DEF FreshInv, WorkInv
      <3> QED
        BY <3>2, <3>3
    <2> QED
      BY <2>1 DEF FreshInv
  <1>8. LoadedInv'
    <2>1. \A k \in Key : slots[k].state = "LOADED" /\ slots[k].dependents # {} =>
                           slots'[k].state = "LOADED"
      BY <1>1, <1>3
    <2>2. \A h : h \notin Unloading
      BY <1>1 DEF Unloading
    <2>3. \A k \in Key : slots'[k].state = "LOADED" /\ H(k)' \notin Unloading' =>
                           /\ slots[k].state = "LOADED" /\ H(k) \notin Unloading
                           /\ slots'[k].dependencies \subseteq slots[k].dependencies
      BY <1>1, <1>3, <1>4, <2>2
    <2> QED
      BY <2>1, <2>3, LoadedKept DEF AssetInv, StorageInv, WorkInv
  <1> QED
    BY <1>6, <1>7, <1>8 DEF WorkInv

LEMMA WorkLoad ==
    ASSUME TypeOK, TypeOK', AssetInv, WorkInv, Requirements \subseteq {"required"}, ~SameTypeNested,
           NEW t \in Types, NEW p \in Paths, NEW skip, NEW deps \in DependencyLists(t),
           NEW ok \in BOOLEAN, Load(t, p, skip, deps, ok)
    PROVE  WorkInv'
  BY AskedLoad, WorkAsked

LEMMA WorkBuild ==
    ASSUME TypeOK, TypeOK', AssetInv, WorkInv, Requirements \subseteq {"required"}, ~SameTypeNested,
           <<"dtor", "build">> \notin CallbackOps,
           NEW t \in Types, NEW deps \in DependencyLists(t),
           NEW ok \in BOOLEAN, Build(t, deps, ok)
    PROVE  WorkInv'
  <1>1. Undisturbed
    <2>1. ApiOpen("build")
      BY DEF Build
    <2>2. CASE calls = <<>> /\ main.op = "idle"
      BY <2>2, StackEmpty DEF Undisturbed
    <2>3. CASE calls # <<>> /\ Top.op \in {"ctor", "step"}
      BY <2>3, StackTop DEF Undisturbed, WorkInv
    <2> QED
      BY <2>1, <2>2, <2>3 DEF ApiOpen, InMain, InCallback
  <1> QED
    BY <1>1, AskedBuild, WorkAsked

-----------------------------------------------------------------------------
(* The loops                                                                *)

\* With no callback and no job at hand every job is unfinished.
LEMMA AllOpen ==
    ASSUME TypeOK, DoneInv, ~Ending, calls = <<>>, main.op # "cancelAll",
           main.op \in {"process", "drain"} => main.current = NoHandle
    PROVE  \A h \in Queued : h \in Open
  <1>1. \A h \in Queued : ~Attended(calls, main, h)
    BY StackEmpty, NobodyFacts
  <1>2. \A h : h \notin Dtors
    BY DEF Dtors, DtorsOf
  <1> QED
    BY <1>1, <1>2 DEF DoneInv

LEMMA StackNone ==
    ASSUME calls' = <<>>
    PROVE  StackInv'
  <1>1. PICK m : m = main'
    OBVIOUS
  <1>2. Ordered(<<>>, m)
    BY StackEmpty
  <1> QED
    BY <1>1, <1>2 DEF StackInv

LEMMA WorkIdle ==
    ASSUME TypeOK, TypeOK', AssetInv, WorkInv, ~Ending, unload = <<>>, calls = <<>>,
           UNCHANGED <<slots, jobs, calls>>, main.op # "cancelAll",
           main.op \in {"process", "drain"} => main.current = NoHandle
    PROVE  WorkInv'
  <1>1. Calm
    BY CalmSame DEF SameGraph, Queued
  <1>2. StackInv'
    BY StackNone
  <1>3. \A h \in Queued : h \in Open
    BY AllOpen DEF WorkInv
  <1>4. DoneInv'
    BY <1>3 DEF DoneInv, Queued, Open
  <1> QED
    BY <1>1, <1>2, <1>4, CalmStep DEF WorkInv

LEMMA WorkLoops ==
    ASSUME TypeOK, TypeOK', AssetInv, WorkInv,
           \/ Process \/ DrainLoads \/ ProcessEnd \/ DrainPassEnd
           \/ \E t \in Types : ForceUnload(t)
    PROVE  WorkInv'
  <1>1. /\ unload = <<>> /\ calls = <<>> /\ UNCHANGED <<slots, jobs, calls>>
        /\ main.op \in {"idle", "process", "drain"}
        /\ main.op \in {"process", "drain"} => main.current = NoHandle
    BY DEF Process, DrainLoads, ProcessEnd, DrainPassEnd, ForceUnload, InMain, LoopOver
  <1>2. ~Ending
    BY <1>1 DEF Ending
  <1> QED
    BY <1>1, <1>2, WorkIdle

-----------------------------------------------------------------------------
(* Unloading                                                                *)

\* Edges are taken out of the graph.
Thins ==
    /\ SameAssets(slots, slots')
    /\ \A k \in Key : /\ slots'[k].dependencies \subseteq slots[k].dependencies
                      /\ slots'[k].dependents \subseteq slots[k].dependents
    /\ \A h \in Unloading : h \in Unloading'
    /\ jobs' = jobs

LEMMA ThinsFacts ==
    ASSUME TypeOK, TypeOK', AssetInv, WorkInv, ~Ending, Thins
    PROVE  FreshInv' /\ LoadedInv'
  <1>1. slots \in [Key -> Slot] /\ slots' \in [Key -> Slot]
    BY TypeParts, TypePrimes
  <1>2. /\ \A k \in Key : HandleAt(slots', k) = HandleAt(slots, k)
        /\ \A h \in Handle : Resolves(slots', h) <=> Resolves(slots, h)
    BY <1>1, SameAssetsFacts DEF Thins
  <1>3. FreshInv'
    <2>1. ASSUME NEW h \in Live(slots'), h \in Queued'
          PROVE  slots'[KeyOf(h)].dependents = {}
      <3>1. h \in Handle /\ Resolves(slots', h) /\ slots'[KeyOf(h)].state # "EMPTY" /\ KeyOf(h) \in Key
        BY <1>1, LiveFacts, KeyFacts
      <3>2. slots[KeyOf(h)].state # "EMPTY" /\ h \in Queued
        BY <2>1, <3>1 DEF Thins, SameAssets, Queued
      <3>3. h \in Live(slots)
        BY <1>1, <1>2, <3>1, <3>2, LiveFacts
      <3> QED
        BY <3>1, <3>2, <3>3 DEF WorkInv, FreshInv, Thins
    <2> QED
      BY <2>1 DEF FreshInv
  <1>4. LoadedInv'
    <2>1. \A k \in Key : slots[k].state = "LOADED" /\ slots[k].dependents # {} =>
                           slots'[k].state = "LOADED"
      BY DEF Thins, SameAssets
    <2>2. ASSUME NEW k \in Key, slots'[k].state = "LOADED", H(k)' \notin Unloading'
          PROVE  /\ slots[k].state = "LOADED" /\ H(k) \notin Unloading
                 /\ slots'[k].dependencies \subseteq slots[k].dependencies
      <3>1. H(k)' = H(k)
        BY <1>2 DEF H
      <3> QED
        BY <2>2, <3>1 DEF Thins, SameAssets
    <2> QED
      BY <2>1, <2>2, LoadedKept DEF AssetInv, StorageInv, WorkInv
  <1> QED
    BY <1>3, <1>4

LEMMA StackSame ==
    ASSUME WorkInv, UNCHANGED <<jobs, calls, main>>
    PROVE  StackInv' /\ DoneInv'
  <1>1. /\ Dtors' = Dtors /\ Queued' = Queued /\ Open' = Open
        /\ \A h : Attended(calls, main, h)' <=> Attended(calls, main, h)
        /\ Ending' <=> Ending
    BY DEF Dtors, Queued, Open, Ending
  <1> QED
    BY <1>1 DEF WorkInv, StackInv, DoneInv

LEMMA EndingWork ==
    ASSUME Ending', StackInv'
    PROVE  WorkInv'
  BY DEF WorkInv, DoneInv, FreshInv, LoadedInv

LEMMA WorkDestroyEnter ==
    ASSUME TypeOK, TypeOK', AssetInv, WorkInv, DestroyEnter, UNCHANGED <<jobs, calls, main>>
    PROVE  WorkInv'
  <1>1. StackInv' /\ DoneInv'
    BY StackSame
  <1>2. CASE Ending
    BY <1>1, <1>2, EndingWork DEF Ending
  <1>3. CASE ~Ending
    <2>1. unload # <<>> /\ slots' = slots
      BY DEF DestroyEnter
    <2>2. PICK f : f = [Frame EXCEPT !.at = "detach",
                                     !.rest = slots[KeyOf(Frame.handle)].dependencies]
      OBVIOUS
    <2>3. Frame \in DestroyFrame /\ KeyOf(Frame.handle) \in Key /\ slots \in [Key -> Slot]
      BY <2>1, FrameFacts, TypeParts
    <2>4. slots[KeyOf(Frame.handle)].dependencies \in SUBSET Handle
      BY <2>3 DEF Slot
    <2>5. f \in DestroyFrame /\ f.handle = Frame.handle
      BY <2>2, <2>3, <2>4 DEF DestroyFrame
    <2>6. unload' = Append(Callers, f)
      BY <2>2 DEF DestroyEnter
    <2>7. DOMAIN unload' = DOMAIN unload
          /\ \A m \in DOMAIN unload : unload'[m].handle = unload[m].handle
      BY <2>1, <2>5, <2>6, FrameChanged, FrameFacts
    <2>8. Thins
      BY <2>1, <2>7 DEF Thins, SameAssets, Unloading
    <2> QED
      BY <1>1, <1>3, <2>8, ThinsFacts DEF WorkInv
  <1> QED
    BY <1>2, <1>3

LEMMA WorkDetachNext ==
    ASSUME TypeOK, TypeOK', AssetInv, WorkInv, DetachNext, UNCHANGED <<jobs, calls, main>>
    PROVE  WorkInv'
  <1>1. StackInv' /\ DoneInv'
    BY StackSame
  <1>2. CASE Ending
    BY <1>1, <1>2, EndingWork DEF Ending
  <1>3. CASE ~Ending
    <2>1. PICK d : DetachTurn(d)
      BY DetachNextFacts DEF AssetInv
    <2>2. /\ SameAssets(slots, slots')
          /\ \A k \in Key :
               /\ slots'[k].dependencies = slots[k].dependencies
               /\ slots'[k].dependents \subseteq slots[k].dependents
          /\ \A i \in DOMAIN unload : i \in DOMAIN unload' /\ unload'[i].handle = unload[i].handle
      BY <2>1 DEF DetachTurn
    <2>3. Thins
      BY <2>2 DEF Thins, Unloading
    <2> QED
      BY <1>1, <1>3, <2>3, ThinsFacts DEF WorkInv
  <1> QED
    BY <1>2, <1>3

LEMMA WorkDestroyDone ==
    ASSUME TypeOK, TypeOK', AssetInv, WorkInv, DestroyDone, UNCHANGED <<jobs, calls, main>>
    PROVE  WorkInv'
  <1>1. StackInv' /\ DoneInv'
    BY StackSame
  <1>2. CASE Ending
    BY <1>1, <1>2, EndingWork DEF Ending
  <1>3. CASE ~Ending
    <2>1. PICK x, l, n : x = Frame.handle /\ l = KeyOf(x) /\ n = Len(unload)
      OBVIOUS
    <2>2. DestroyTurn
      BY DestroyDoneFacts DEF AssetInv
    <2>3. /\ unload[n].handle = x /\ x \in Handle /\ l \in Key
          /\ \A k \in Key : k # l => slots'[k] = slots[k] /\ H(k)' = H(k) /\ H(k) # x
          /\ slots'[l].state = "EMPTY" /\ slots[l].dependents = {}
          /\ \A i \in DOMAIN unload : i # n => i \in DOMAIN unload' /\ unload'[i] = unload[i]
      BY <1>3, <2>1, <2>2 DEF DestroyTurn
    <2>4. FreshInv'
      <3>1. ASSUME NEW h \in Live(slots'), h \in Queued'
            PROVE  slots'[KeyOf(h)].dependents = {}
        <4>1. h \in Live(slots) /\ h \in Queued
          BY <2>2, <3>1, DestroyLive DEF AssetInv, Queued
        <4>2. KeyOf(h) \in Key /\ slots'[KeyOf(h)].state # "EMPTY"
          BY <3>1, TypePrimes, LiveFacts, KeyFacts
        <4>3. slots'[KeyOf(h)] = slots[KeyOf(h)]
          BY <2>3, <4>2
        <4> QED
          BY <1>3, <4>1, <4>3 DEF WorkInv, FreshInv
      <3> QED
        BY <3>1 DEF FreshInv
    <2>5. LoadedInv'
      <3>1. \A k \in Key : slots[k].state = "LOADED" /\ slots[k].dependents # {} =>
                             slots'[k].state = "LOADED"
        BY <2>3
      <3>2. ASSUME NEW k \in Key, slots'[k].state = "LOADED", H(k)' \notin Unloading'
            PROVE  /\ slots[k].state = "LOADED" /\ H(k) \notin Unloading
                   /\ slots'[k].dependencies \subseteq slots[k].dependencies
        <4>1. k # l
          BY <2>3, <3>2
        <4>2. H(k) \notin Unloading
          BY <2>3, <3>2, <4>1 DEF Unloading
        <4> QED
          BY <2>3, <3>2, <4>1, <4>2
      <3> QED
        BY <1>3, <3>1, <3>2, LoadedKept DEF AssetInv, StorageInv, WorkInv
    <2> QED
      BY <1>1, <2>4, <2>5 DEF WorkInv
  <1> QED
    BY <1>2, <1>3

-----------------------------------------------------------------------------
(* Cancelling, forced unloading and shutdown                                *)

\* A load in progress is cancelled.
LEMMA CancelCalm ==
    ASSUME TypeOK, AssetInv, ~Ending, NEW x \in Open, NEW s, s = FinishSlot(slots, x, "Cancelled"),
           slots' = s \/ slots' = [s EXCEPT ![KeyOf(x)].retiring = TRUE],
           \A h : h \in Queued' => h \in Queued
    PROVE  Calm
  <1>1. x \in Live(slots) /\ slots[KeyOf(x)].state \in InProgress \cup {"PENDING_DELETE"}
    BY DEF AssetInv, JobInv
  <1>2. Touches(x) /\ slots'[KeyOf(x)].state = "FAILED"
    BY <1>1, CancelTouches
  <1>3. slots \in [Key -> Slot]
    BY TypeParts
  <1>4. ASSUME NEW k \in Key
        PROVE  \/ slots'[k].state = slots[k].state
               \/ /\ slots'[k].state # "LOADED" /\ slots[k].state # "EMPTY"
                  /\ slots[k].state = "LOADED" => slots[k].dependents = {}
    <2>1. CASE k = KeyOf(x)
      BY <1>1, <1>2, <2>1 DEF InProgress
    <2>2. CASE k # KeyOf(x) /\ slots[k].state = "EMPTY"
      BY <1>2, <2>2 DEF Touches
    <2>3. CASE k # KeyOf(x) /\ slots[k].state # "EMPTY"
      <3>1. slots[k].generation \in Nat
        BY <1>3 DEF Slot
      <3>2. H(k) \in Live(slots) /\ KeyOf(H(k)) = k
        BY <2>3, <3>1, HandleFacts DEF H, Live
      <3> QED
        BY <1>2, <2>3, <3>2 DEF Touches
    <2> QED
      BY <2>1, <2>2, <2>3
  <1> QED
    BY <1>2, <1>4 DEF Calm, Touches

LEMMA WorkCancelTypeNext ==
    ASSUME TypeOK, TypeOK', AssetInv, WorkInv, CancelTypeNext
    PROVE  WorkInv'
  <1> DEFINE mine == {i \in 1..Len(jobs) : jobs[i].handle.type = main.type}
  <1>1. /\ unload = <<>> /\ calls = <<>> /\ main.op = "cancelType" /\ jobs \in Seq(Job)
        /\ slots \in [Key -> Slot]
    BY TypeParts DEF CancelTypeNext, InMain
  <1>2. ~Ending
    BY <1>1 DEF Ending
  <1>3. CASE mine = {}
    <2>1. UNCHANGED <<slots, jobs, calls>>
      BY <1>3 DEF CancelTypeNext
    <2> QED
      BY <1>1, <1>2, <2>1, WorkIdle
  <1>4. CASE mine # {}
    <2>1. PICK i \in mine :
            LET h == jobs[i].handle
                s == IF Resolves(slots, h) /\ ~Terminal(jobs[i])
                     THEN FinishSlot(slots, h, "Cancelled") ELSE slots
            IN  /\ UNCHANGED main
                /\ IF jobs[i].built
                   THEN /\ jobs' = IF Terminal(jobs[i]) THEN jobs ELSE Finish(i, "Cancelled")
                        /\ calls' = <<[NewCall("dtor", h) EXCEPT !.found = Resolves(slots, h)]>>
                        /\ slots' = IF Resolves(slots, h)
                                    THEN [s EXCEPT ![KeyOf(h)].retiring = TRUE] ELSE s
                        /\ UNCHANGED unload
                   ELSE /\ jobs' = EraseJob(i)
                        /\ slots' = s
                        /\ unload' = TryUnload(s, h)
                        /\ UNCHANGED calls
      BY <1>4 DEF CancelTypeNext
    <2>2. PICK x : x = jobs[i].handle
      OBVIOUS
    <2>3. i \in JobsOf(x)
      BY <1>1, <2>2 DEF JobsOf
    <2>4. \A h \in Queued : h \in Open
      BY <1>1, <1>2, AllOpen DEF WorkInv
    <2>5. x \in Handle /\ x \in Queued /\ (x \in Open <=> ~Terminal(jobs[i]))
      BY <2>3, OpenJob
    <2>6. x \in Open /\ ~Terminal(jobs[i])
      BY <2>4, <2>5
    <2>7. Resolves(slots, x)
      <3>1. x \in Live(slots)
        BY <1>2, <2>6 DEF AssetInv, JobInv
      <3> QED
        BY <1>1, <3>1, LiveFacts
    <2>8. PICK s : s = FinishSlot(slots, x, "Cancelled")
      OBVIOUS
    <2>9. PICK b \in BOOLEAN : b = Resolves(slots, x)
      BY DEF Resolves
    <2>10. PICK c \in Call : c = [NewCall("dtor", x) EXCEPT !.found = b]
      BY <2>5, CallTypes
    <2>11. main' = main
           /\ \/ /\ jobs' = Finish(i, "Cancelled") /\ calls' = <<c>>
                 /\ slots' = [s EXCEPT ![KeyOf(x)].retiring = TRUE]
              \/ jobs' = EraseJob(i) /\ slots' = s /\ calls' = calls
      BY <2>1, <2>2, <2>6, <2>7, <2>8, <2>9, <2>10
    <2>12. CASE /\ jobs' = Finish(i, "Cancelled") /\ calls' = <<c>>
                /\ slots' = [s EXCEPT ![KeyOf(x)].retiring = TRUE]
      <3>1. /\ \A h : h \in Queued' <=> h \in Queued
            /\ \A h : h \in Open' <=> h \in Open /\ h # x
        BY <2>3, <2>6, <2>12, JobFinished
      <3>2. Calm
        BY <1>2, <2>6, <2>8, <2>12, <3>1, CancelCalm
      <3>3. c.op = "dtor" /\ c.handle = x /\ c.erase
        BY <2>10 DEF NewCall
      <3>4. <<>> \in Seq(Call) /\ Ordered(<<>>, main) /\ NoDtors(<<>>)
        BY StackEmpty
      <3>5. Suits(c, <<>>, main)
        BY <3>3 DEF Suits
      <3>6. calls' = Append(<<>>, c)
        BY <2>12
      <3>7. StackInv'
        BY <2>11, <3>4, <3>5, <3>6, StackPush DEF StackInv
      <3>8. x \in Dtors'
        BY <3>3, <3>4, <3>6, NoDtorsFacts DEF Dtors
      <3>9. DoneInv'
        BY <2>4, <3>1, <3>8 DEF DoneInv
      <3> QED
        BY <1>1, <1>2, <3>2, <3>7, <3>9, CalmStep DEF WorkInv
    <2>13. CASE jobs' = EraseJob(i) /\ slots' = s /\ calls' = calls
      <3>1. /\ \A h : h \in Queued' <=> h \in Queued /\ h # x
            /\ \A h : h \in Open' <=> h \in Open /\ h # x
        BY <2>3, <2>13, JobErased
      <3>2. Calm
        BY <1>2, <2>6, <2>8, <2>13, <3>1, CancelCalm
      <3>3. StackInv'
        BY <1>1, <2>13, StackNone
      <3>4. DoneInv'
        BY <2>4, <3>1 DEF DoneInv
      <3> QED
        BY <1>1, <1>2, <3>2, <3>3, <3>4, CalmStep DEF WorkInv
    <2> QED
      BY <2>11, <2>12, <2>13
  <1> QED
    BY <1>3, <1>4

LEMMA WorkCancelAllNext ==
    ASSUME TypeOK, TypeOK', AssetInv, WorkInv, CancelAllNext
    PROVE  WorkInv'
  <1>1. unload = <<>> /\ calls = <<>> /\ main.op = "cancelAll" /\ main \in Main
    BY TypeParts DEF CancelAllNext, InMain
  <1>2. ~Ending
    BY <1>1 DEF Ending
  <1>3. CASE main.index \notin DOMAIN jobs
    <2>1. main' = [main EXCEPT !.op = "destroyAll", !.index = 0] /\ calls' = calls
      BY <1>3 DEF CancelAllNext
    <2>2. Ending'
      BY <1>1, <2>1 DEF Ending, Main
    <2> QED
      BY <1>1, <2>1, <2>2, StackNone, EndingWork
  <1>4. CASE main.index \in DOMAIN jobs
    <2>1. PICK i \in DOMAIN jobs : i = main.index
      BY <1>4
    <2>2. PICK x : x = jobs[i].handle
      OBVIOUS
    <2>3. PICK b \in BOOLEAN : b = Resolves(slots, x)
      BY DEF Resolves
    <2>4. x \in Handle
      <3>1. i \in JobsOf(x)
        BY <2>1, <2>2 DEF JobsOf
      <3> QED
        BY <3>1, OpenJob
    <2>5. PICK c \in Call : c = [NewCall("dtor", x) EXCEPT !.found = b, !.erase = FALSE]
      BY <2>4, CallTypes
    <2>6. /\ main' = [main EXCEPT !.index = @ + 1] /\ jobs' = jobs
          /\ slots' = slots \/ slots' = [slots EXCEPT ![KeyOf(x)].retiring = TRUE]
          /\ calls' = calls \/ calls' = <<c>>
      BY <1>4, <2>1, <2>2, <2>3, <2>5 DEF CancelAllNext
    <2>7. main'.op = "cancelAll"
      BY <1>1, <2>6 DEF Main
    <2>8. \A h : h \in Queued' => h \in Queued
      BY <2>6 DEF Queued
    <2>9. Calm
      BY <2>6, <2>8, CalmRetiring
    <2>10. StackInv'
      <3>1. CASE calls' = calls
        BY <1>1, <3>1, StackNone
      <3>2. CASE calls' = <<c>>
        <4>1. PICK m : m = main'
          OBVIOUS
        <4>2. <<>> \in Seq(Call) /\ Ordered(<<>>, m) /\ NoDtors(<<>>)
          BY StackEmpty
        <4>3. c.op = "dtor" /\ m.op = "cancelAll"
          BY <2>5, <2>7, <4>1 DEF NewCall
        <4>4. Suits(c, <<>>, m)
          BY <4>3 DEF Suits
        <4>5. Ordered(Append(<<>>, c), m)
          BY <4>2, <4>4, StackPush
        <4>6. calls' = Append(<<>>, c)
          BY <3>2
        <4> QED
          BY <4>1, <4>5, <4>6 DEF StackInv
      <3> QED
        BY <2>6, <3>1, <3>2
    <2>11. DoneInv'
      BY <2>7 DEF DoneInv
    <2> QED
      BY <1>1, <1>2, <2>9, <2>10, <2>11, CalmStep DEF WorkInv
  <1> QED
    BY <1>3, <1>4

LEMMA WorkShutdown ==
    ASSUME TypeOK, TypeOK', AssetInv, WorkInv, Shutdown
    PROVE  WorkInv'
  <1>1. unload = <<>> /\ calls = <<>> /\ main.op = "idle" /\ calls' = calls /\ main'.op = "cancelAll"
    BY DEF Shutdown, InMain, Idle
  <1>2. ~Ending /\ slots \in [Key -> Slot]
    BY <1>1, TypeParts DEF Ending
  <1>3. \A h : h \in Queued' <=> h \in Queued
    BY JobsCancelled DEF Shutdown
  <1>4. \A k \in Key :
          /\ slots'[k].generation = slots[k].generation /\ slots'[k].path = slots[k].path
          /\ slots'[k].dependencies = slots[k].dependencies
          /\ slots'[k].dependents = slots[k].dependents
          /\ slots'[k].pin = slots[k].pin /\ (slots'[k].retiring <=> slots[k].retiring)
          /\ slots'[k].state = IF H(k) \in Queued THEN "FAILED" ELSE slots[k].state
          /\ H(k) \in Queued => slots[k].state # "EMPTY"
    BY ShutdownSlots
  <1>5. ASSUME NEW k \in Key
        PROVE  \/ slots'[k].state = slots[k].state
               \/ /\ slots'[k].state # "LOADED" /\ slots[k].state # "EMPTY"
                  /\ slots[k].state = "LOADED" => slots[k].dependents = {}
    <2>1. CASE H(k) \in Queued
      <3>1. slots[k].generation \in Nat /\ slots[k].state # "EMPTY"
        BY <1>2, <1>4, <2>1 DEF Slot
      <3>2. H(k) \in Live(slots) /\ KeyOf(H(k)) = k
        BY <3>1, HandleFacts DEF H, Live
      <3>3. slots[k].dependents = {}
        BY <1>2, <2>1, <3>2 DEF WorkInv, FreshInv
      <3> QED
        BY <1>4, <2>1, <3>1, <3>3
    <2>2. CASE H(k) \notin Queued
      BY <1>4, <2>2
    <2> QED
      BY <2>1, <2>2
  <1>6. Calm
    <2>1. SameGraph(slots, slots')
      BY <1>4 DEF SameGraph
    <2> QED
      BY <1>3, <1>5, <2>1 DEF Calm
  <1>7. DoneInv'
    BY <1>1 DEF DoneInv
  <1>8. StackInv'
    BY <1>1, StackNone
  <1> QED
    BY <1>1, <1>2, <1>6, <1>7, <1>8, CalmStep DEF WorkInv

LEMMA WorkDestroyTypeNext ==
    ASSUME TypeOK, TypeOK', AssetInv, WorkInv, DestroyTypeNext
    PROVE  WorkInv'
  <1>1. /\ unload = <<>> /\ calls = <<>> /\ main.op = "destroyType" /\ jobs' = jobs
        /\ calls' = calls /\ slots \in [Key -> Slot]
    BY TypeParts DEF DestroyTypeNext, InMain
  <1>2. ~Ending
    BY <1>1 DEF Ending
  <1>3. CASE slots' = slots
    BY <1>1, <1>2, <1>3, WorkIdle
  <1>4. CASE slots' # slots
    <2>1. PICK k : k = <<main.type, main.index>>
      OBVIOUS
    <2>2. main.index \in 1..size[main.type] /\ slots' = DetachDependents(slots, HandleAt(slots, k))
      BY <1>4, <2>1 DEF DestroyTypeNext
    <2>3. k \in Key
      <3>1. main.type \in Types /\ size \in [Types -> 0..MaxSlots] /\ main.index \in Nat
        BY TypeParts DEF Main
      <3>2. main.index \in Index
        BY <2>2, <3>1, StorageAssumption DEF Index
      <3> QED
        BY <2>1, <3>1, <3>2 DEF Key
    <2>4. PICK h \in Handle : h = HandleAt(slots, k)
      <3>1. slots[k].generation \in Nat
        BY <1>1, <2>3 DEF Slot
      <3> QED
        BY <2>3, <3>1, HandleFacts
    <2>5. LET t == DetachDependents(slots, h)
          IN  /\ t \in [Key -> Slot]
              /\ SameAssets(slots, t)
              /\ \A k2 \in Key :
                   /\ t[k2].dependencies = IF HandleAt(slots, k2) \in slots[KeyOf(h)].dependents
                                           THEN slots[k2].dependencies \ {h} ELSE slots[k2].dependencies
                   /\ t[k2].dependents = IF k2 = KeyOf(h) THEN {} ELSE slots[k2].dependents
      BY <1>1, DetachDependentsFacts, Zenon
    <2>6. Thins
      <3>1. \A h2 : h2 \notin Unloading
        BY <1>1 DEF Unloading
      <3>2. slots' = DetachDependents(slots, h)
        BY <2>2, <2>4
      <3>3. /\ SameAssets(slots, slots')
            /\ \A k2 \in Key : /\ slots'[k2].dependencies \subseteq slots[k2].dependencies
                               /\ slots'[k2].dependents \subseteq slots[k2].dependents
        BY <2>5, <3>2
      <3> QED
        BY <1>1, <3>1, <3>3 DEF Thins
    <2>7. DoneInv'
      <3>1. \A h2 \in Queued : h2 \in Open
        BY <1>1, <1>2, AllOpen DEF WorkInv
      <3> QED
        BY <1>1, <3>1 DEF DoneInv, Queued, Open
    <2>8. StackInv'
      BY <1>1, StackNone
    <2> QED
      BY <1>2, <2>6, <2>7, <2>8, ThinsFacts DEF WorkInv
  <1> QED
    BY <1>3, <1>4

LEMMA WorkDestroyAllNext ==
    ASSUME TypeOK, TypeOK', DestroyAllNext
    PROVE  WorkInv'
  <1>1. calls = <<>> /\ calls' = calls /\ main.op = "destroyAll" /\ main \in Main
    BY TypeParts DEF DestroyAllNext, InMain
  <1>2. main'.op \in {"destroyAll", "down"}
    BY <1>1 DEF DestroyAllNext, Main, Idle
  <1> QED
    BY <1>1, <1>2, StackNone, EndingWork DEF Ending

-----------------------------------------------------------------------------
(* Every step                                                               *)

LEMMA WorkInit ==
    ASSUME Init
    PROVE  WorkInv
  <1>1. calls = <<>> /\ jobs = <<>> /\ unload = <<>> /\ slots = [k \in Key |-> EmptySlot(1)]
    BY DEF Init, StorageInit, QueueInit
  <1>2. StackInv
    <2>1. PICK m : m = main
      OBVIOUS
    <2>2. Ordered(<<>>, m)
      BY StackEmpty
    <2> QED
      BY <1>1, <2>1, <2>2 DEF StackInv
  <1>3. \A h : h \notin Queued
    BY <1>1 DEF Queued, HandlesOf
  <1>4. \A k \in Key : slots[k].state = "EMPTY"
    BY <1>1 DEF EmptySlot
  <1> QED
    BY <1>2, <1>3, <1>4 DEF WorkInv, DoneInv, FreshInv, LoadedInv

LEMMA WorkInternal ==
    ASSUME TypeOK, TypeOK', AssetInv, AssetInv', WorkInv, Internal
    PROVE  WorkInv'
  <1>1. CASE Unload
    <2>1. (DestroyEnter \/ DetachNext \/ DestroyDone) /\ UNCHANGED <<jobs, calls, main>>
      BY <1>1 DEF Unload
    <2> QED
      BY <2>1, WorkDestroyEnter, WorkDetachNext, WorkDestroyDone
  <1>2. CASE Queue
    <2>1. CASE CtorReturn \/ DtorReturn \/ \E status \in Statuses : StepReturn(status)
      BY <2>1, WorkCtorReturn, WorkDtorReturn, WorkStepReturn
    <2>2. CASE Process \/ DrainLoads \/ ProcessEnd \/ DrainPassEnd
      BY <2>2, WorkLoops
    <2>3. CASE LoopPick \/ LoopAfter \/ CancelTypeNext \/ CancelAllNext
      BY <2>3, WorkLoopPick, WorkLoopAfter, WorkCancelTypeNext, WorkCancelAllNext
    <2> QED
      BY <1>2, <2>1, <2>2, <2>3 DEF Queue
  <1>3. CASE BuildProcess \/ BuildAfter \/ BuildReturn
    BY <1>3, WorkBuildProcess, WorkBuildAfter, WorkBuildReturn
  <1>4. CASE DestroyTypeNext \/ DestroyAllNext
    BY <1>4, WorkDestroyTypeNext, WorkDestroyAllNext
  <1> QED
    BY <1>1, <1>2, <1>3, <1>4 DEF Internal

LEMMA WorkClient ==
    ASSUME TypeOK, TypeOK', AssetInv, WorkInv, Requirements \subseteq {"required"}, ~SameTypeNested,
           <<"dtor", "build">> \notin CallbackOps, Client
    PROVE  WorkInv'
  <1>1. ASSUME NEW t \in Types, NEW deps \in DependencyLists(t), NEW settingsOk \in BOOLEAN,
               Build(t, deps, settingsOk)
        PROVE  WorkInv'
    BY <1>1, WorkBuild
  <1>2. ASSUME NEW t \in Types, NEW deps \in DependencyLists(t), NEW settingsOk \in BOOLEAN,
               NEW p \in Paths, NEW skipCache \in BOOLEAN, Load(t, p, skipCache, deps, settingsOk)
        PROVE  WorkInv'
    BY <1>2, WorkLoad
  <1>3. ASSUME NEW h \in Live(slots), Retain(h) PROVE WorkInv'
    <2>1. PICK request : request = "retain"
      OBVIOUS
    <2>2. ApiOpen(request)
      BY <1>3, <2>1 DEF Retain
    <2>3. ~Ending /\ unload = <<>>
      BY <2>2, ApiFacts
    <2> QED
      BY <1>3, <2>3, WorkRetain
  <1>4. ASSUME NEW h \in Live(slots), Release(h) PROVE WorkInv'
    <2>1. PICK request : request = "release"
      OBVIOUS
    <2>2. ApiOpen(request)
      BY <1>4, <2>1 DEF Release
    <2>3. ~Ending /\ unload = <<>>
      BY <2>2, ApiFacts
    <2> QED
      BY <1>4, <2>3, WorkRelease
  <1>5. ASSUME NEW d \in Live(slots) \cup {NoHandle}, NEW r \in Requirements, AddDependency(d, r)
        PROVE  WorkInv'
    <2>1. r = "required"
      OBVIOUS
    <2>2. AddDependency(d, "required")
      BY <1>5, <2>1
    <2> QED
      BY <2>2, WorkAddDependency
  <1>6. ASSUME NEW t \in ForcedTypes, ForceUnload(t) PROVE WorkInv'
    <2>1. t \in Types
      BY SystemAssumption
    <2> QED
      BY <1>6, <2>1, WorkLoops
  <1>7. CASE Shutdown
    BY <1>7, WorkShutdown
  <1> QED
    BY <1>1, <1>2, <1>3, <1>4, <1>5, <1>6, <1>7 DEF Client

LEMMA WorkStopped ==
    ASSUME WorkInv, UNCHANGED vars
    PROVE  WorkInv'
  <1>1. UNCHANGED <<slots, unload, jobs, calls, main>>
    BY DEF vars
  <1>2. StackInv' /\ DoneInv'
    BY <1>1, StackSame
  <1>3. FreshInv' /\ LoadedInv'
    BY <1>1 DEF WorkInv, FreshInv, LoadedInv, Ending, Queued, Unloading, H
  <1> QED
    BY <1>2, <1>3 DEF WorkInv

LEMMA WorkNext ==
    ASSUME TypeOK, AssetInv, WorkInv, Requirements \subseteq {"required"}, ~SameTypeNested,
           <<"dtor", "build">> \notin CallbackOps, [Next]_vars
    PROVE  WorkInv'
  <1>1. CASE Stopped \/ UNCHANGED vars
    <2>1. UNCHANGED vars
      BY <1>1 DEF Stopped
    <2> QED
      BY <2>1, WorkStopped
  <1>2. TypeOK' /\ AssetInv'
    BY AssetNext
  <1> QED
    BY <1>1, <1>2, WorkInternal, WorkClient DEF Next

LEMMA LoadedFromInv ==
    ASSUME TypeOK, AssetInv, WorkInv
    PROVE  LoadedDependencies
  <1> SUFFICES ASSUME Settled, NEW k \in Key, slots[k].state = "LOADED",
                      NEW d \in slots[k].dependencies
               PROVE  StateOf(slots, d) = "LOADED"
    BY DEF LoadedDependencies
  <1>1. /\ ~Ending /\ unload = <<>> /\ \A h : h \notin Unloading
        /\ GraphInv /\ slots \in [Key -> Slot]
    BY SettledFacts, TypeParts DEF AssetInv, StorageInv, Unloading
  <1>2. slots[KeyOf(d)].state = "LOADED"
    BY <1>1 DEF WorkInv, LoadedInv
  <1>3. d \in Live(slots)
    BY <1>1 DEF GraphInv, Edge, Unloading
  <1>4. Resolves(slots, d)
    BY <1>1, <1>3, LiveFacts
  <1> QED
    BY <1>2, <1>4 DEF StateOf

\* A loaded asset's dependencies are loaded for as long as it exists:
\* commit_task_result waits for them, release and force_unload_assets take the
\* dependents first, and no callback can bring back a job that was finished.
\* A loader that builds while it is destroyed is the exception: what it builds may
\* depend on the asset whose job is over and commit before the job is erased.
THEOREM LoadedCorrect ==
    ASSUME Requirements \subseteq {"required"}, ~SameTypeNested,
           <<"dtor", "build">> \notin CallbackOps
    PROVE  Spec => []LoadedDependencies
  <1>1. Init => WorkInv
    BY WorkInit
  <1>2. TypeOK /\ AssetInv /\ WorkInv /\ [Next]_vars => WorkInv'
    BY WorkNext
  <1>3. TypeOK /\ AssetInv /\ WorkInv => LoadedDependencies
    BY LoadedFromInv
  <1>4. Spec => [](TypeOK /\ AssetInv)
    BY AssetCorrect
  <1> QED
    BY <1>1, <1>2, <1>3, <1>4, PTL DEF Spec
=============================================================================
