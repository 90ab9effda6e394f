---------------------------- MODULE Packages_proofs ----------------------------
(***************************************************************************)
(* Proofs about Packages, first part: types, libraries, sort and mounts,   *)
(* for every set of packages, every dependency between them and any number *)
(* of calls of load_packages.                                              *)
EXTENDS Packages, FiniteSetTheorems, SequenceTheorems, TLAPS

\* What is proved about the App under any client holds under this one.
AP == INSTANCE App_proofs WITH Apps <- {TheApp}, Dependencies <- SUBSET Names,
                                   AddWhileReady <- FALSE

-----------------------------------------------------------------------------
(* The App within the loader                                                *)

LEMMA AppAssumed == AP!AppAssumption
  BY PackagesAssumption DEF AP!AppAssumption, PackagesAssumption

LEMMA InitSame == A!Init => AP!Init
  BY DEF A!Init, AP!Init

LEMMA TypeSame == A!TypeOK <=> AP!TypeOK
  BY DEF A!TypeOK, AP!TypeOK, A!AppStates, AP!AppStates, A!Entry, AP!Entry, A!Call, AP!Call,
         A!Places, AP!Places

LEMMA TopSame ==
    /\ A!Top = AP!Top /\ A!Callers = AP!Callers
    /\ \A op, at : A!At(op, at) <=> AP!At(op, at)
    /\ \A f : A!Goes(f) <=> AP!Goes(f)
    /\ \A f, c : A!Calls(f, c) <=> AP!Calls(f, c)
    /\ \A ok : A!Returns(ok) <=> AP!Returns(ok)
    /\ \A op, a : A!NewCall(op, a) = AP!NewCall(op, a)
    /\ \A es : A!NamesOf(es) = AP!NamesOf(es)
    /\ \A a, e : A!Satisfied(a, e) <=> AP!Satisfied(a, e)
    /\ \A a, ps : A!Satisfiable(a, ps) <=> AP!Satisfiable(a, ps)
  BY DEF A!Top, AP!Top, A!Callers, AP!Callers, A!At, AP!At, A!Goes, AP!Goes, A!Calls, AP!Calls,
         A!Returns, AP!Returns, A!NewCall, AP!NewCall, A!NamesOf, AP!NamesOf, A!Satisfied,
         AP!Satisfied, A!Satisfiable, AP!Satisfiable

LEMMA InternalSame == A!Internal <=> AP!Internal
  <1> USE DEF A!Top, AP!Top, A!Callers, AP!Callers, A!At, AP!At, A!Goes, AP!Goes, A!Calls,
              AP!Calls, A!Returns, AP!Returns, A!NewCall, AP!NewCall, A!NamesOf,
              AP!NamesOf, A!Satisfied, AP!Satisfied, A!RemoveAt, AP!RemoveAt
  <1>1. A!AddReturn <=> AP!AddReturn
    BY DEF A!AddReturn, AP!AddReturn
  <1>2. A!DrainStart <=> AP!DrainStart
    BY DEF A!DrainStart, AP!DrainStart
  <1>3. A!DrainTake <=> AP!DrainTake
    BY DEF A!DrainTake, AP!DrainTake
  <1>4. A!DrainCollected <=> AP!DrainCollected
    BY DEF A!DrainCollected, AP!DrainCollected
  <1>5. A!BuildCall <=> AP!BuildCall
    BY DEF A!BuildCall, AP!BuildCall
  <1>6. A!PostStart <=> AP!PostStart
    BY DEF A!PostStart, AP!PostStart
  <1>7. A!PostSubapps <=> AP!PostSubapps
    BY DEF A!PostSubapps, AP!PostSubapps
  <1>8. A!PostDone <=> AP!PostDone
    BY DEF A!PostDone, AP!PostDone
  <1>9. A!PrepareStart <=> AP!PrepareStart
    BY DEF A!PrepareStart, AP!PrepareStart
  <1>10. A!PrepareDrained <=> AP!PrepareDrained
    BY DEF A!PrepareDrained, AP!PrepareDrained
  <1>11. A!PreparePosted <=> AP!PreparePosted
    BY DEF A!PreparePosted, AP!PreparePosted
  <1>12. A!PrepareSubapps <=> AP!PrepareSubapps
    BY DEF A!PrepareSubapps, AP!PrepareSubapps
  <1>13. A!PrepareDone <=> AP!PrepareDone
    BY DEF A!PrepareDone, AP!PrepareDone
  <1>14. A!RunPrepared <=> AP!RunPrepared
    BY DEF A!RunPrepared, AP!RunPrepared
  <1>15. A!RunnerReturn <=> AP!RunnerReturn
    BY DEF A!RunnerReturn, AP!RunnerReturn
  <1>16. A!RunReturn <=> AP!RunReturn
    BY DEF A!RunReturn, AP!RunReturn
  <1>17. A!TeardownSubapps <=> AP!TeardownSubapps
    BY DEF A!TeardownSubapps, AP!TeardownSubapps
  <1>18. A!TeardownPlugin <=> AP!TeardownPlugin
    BY DEF A!TeardownPlugin, AP!TeardownPlugin
  <1>19. A!TeardownDone <=> AP!TeardownDone
    BY DEF A!TeardownDone, AP!TeardownDone
  <1>20. \A ok \in BOOLEAN : A!BuildReturn(ok) <=> AP!BuildReturn(ok)
    BY DEF A!BuildReturn, AP!BuildReturn
  <1>21. \A ok \in BOOLEAN : A!PostPlugin(ok) <=> AP!PostPlugin(ok)
    BY DEF A!PostPlugin, AP!PostPlugin
  <1> QED
    BY <1>1, <1>2, <1>3, <1>4, <1>5, <1>6, <1>7, <1>8, <1>9, <1>10, <1>11, <1>12, <1>13,
       <1>14, <1>15, <1>16, <1>17, <1>18, <1>19, <1>20, <1>21 DEF A!Internal, AP!Internal

LEMMA ClientSame ==
    /\ \A n \in Names, ds \in SUBSET Names : A!AddPlugin(TheApp, n, ds) => AP!Client
    /\ A!Run(TheApp) \/ A!Teardown(TheApp) => AP!Client
  <1>1. ASSUME NEW n \in Names, NEW ds \in SUBSET Names, A!AddPlugin(TheApp, n, ds)
        PROVE  AP!AddPlugin(TheApp, n, ds)
    BY <1>1 DEF A!AddPlugin, AP!AddPlugin, A!ClientRuns, AP!ClientRuns, A!CanAdd, AP!CanAdd,
                A!Ready, AP!Ready, A!NewEntry, AP!NewEntry, A!At, AP!At, A!Top, AP!Top,
                A!NamesOf, AP!NamesOf, A!NewCall, AP!NewCall, A!Satisfiable, AP!Satisfiable
  <1>2. \A n \in Names, ds \in SUBSET Names : A!AddPlugin(TheApp, n, ds) => AP!Client
    BY <1>1 DEF AP!Client
  <1>3. A!Run(TheApp) => AP!Run(TheApp)
    BY DEF A!Run, AP!Run, A!Owned, AP!Owned, A!NewCall, AP!NewCall
  <1>4. A!Teardown(TheApp) => AP!Teardown(TheApp)
    BY DEF A!Teardown, AP!Teardown, A!Owned, AP!Owned, A!NewCall, AP!NewCall
  <1> QED
    BY <1>2, <1>3, <1>4 DEF AP!Client

-----------------------------------------------------------------------------
(* Types                                                                    *)

Directories == Packages \cup Roots \cup HostDirs

LoadCall ==
    [at: {"idle", "resolve", "order", "register", "adding", "inject", "entries"},
     entries: Seq(Packages), index: Nat, pending: Seq(Resolved), mounted: SUBSET Packages,
     order: Seq(Nat), progress: BOOLEAN, scripts: Seq(Packages),
     outcome: {"none", "queued", "drained", "refused"}, injected: SUBSET Directories]

\* How far the lists of a call reach at each place.
Reached ==
    /\ At("idle") => call = Idle
    /\ At("resolve") => /\ call.index = Len(call.pending) + 1 /\ call.order = <<>>
                        /\ Len(call.pending) <= Len(call.entries)
    /\ ~At("resolve") => call.index >= 1 /\ Len(call.pending) = Len(call.entries)
    /\ At("resolve") \/ At("order") => call.scripts = <<>>
    /\ At("order") => call.index <= Len(call.pending) + 1
    /\ At("register") => call.index <= Len(call.order) + 1 /\ Len(call.scripts) < call.index
    /\ At("adding") => call.index <= Len(call.order) /\ Len(call.scripts) <= call.index
    /\ At("inject") => call.index = 1 /\ Len(call.scripts) <= Len(call.order)
    /\ At("entries") => call.index <= Len(call.scripts) + 1 /\ Len(call.scripts) <= Len(call.order)

\* No entry is taken twice.
OrderOnce == call.order \in Seq(DOMAIN call.pending) /\ IsInjective(call.order)

CallInv == call \in LoadCall /\ Reached /\ OrderOnce

LoaderType ==
    /\ deps \in [Packages -> DepLists]
    /\ mounts \subseteq Directories /\ kept \subseteq Directories
    /\ handles \in Seq(Packages)
    /\ runtime \in Packages \cup {None}
    /\ loads \in 0..MaxLoads
    /\ host \in {"up", "run", "destroy", "done"}
    /\ returned \in Results
    /\ listed \subseteq Packages /\ code \in [Names -> Packages \cup {None}]
    /\ registered \in Seq(Packages)

LEMMA IdleCall ==
    ASSUME call' = Idle
    PROVE  CallInv'
  <1>1. Idle \in LoadCall
    BY DEF Idle, LoadCall
  <1>2. Reached'
    BY DEF Reached, Idle, At
  <1>3. OrderOnce'
    BY DEF OrderOnce, Idle, IsInjective
  <1> QED
    BY <1>1, <1>2, <1>3 DEF CallInv

\* An order of the entries is no longer than their list.
LEMMA OrderShort ==
    ASSUME CallInv
    PROVE  Len(call.order) <= Len(call.pending)
  <1> DEFINE n == Len(call.order)
             m == Len(call.pending)
  <1>1. n \in Nat /\ m \in Nat /\ DOMAIN call.order = 1..n /\ DOMAIN call.pending = 1..m
    BY DEF CallInv, LoadCall
  <1>2. call.order \in [1..n -> 1..m]
    BY <1>1 DEF CallInv, OrderOnce
  <1>3. call.order \in Injection(1..n, 1..m)
    BY <1>1, <1>2 DEF CallInv, OrderOnce, IsInjective, Injection
  <1>4. \A k \in Nat : IsFiniteSet(1..k) /\ Cardinality(1..k) = k
    <2> TAKE k \in Nat
    <2>1. 1 \in Int /\ k \in Int
      OBVIOUS
    <2>2. IsFiniteSet(1..k) /\ Cardinality(1..k) = IF 1 > k THEN 0 ELSE k - 1 + 1
      BY <2>1, FS_Interval, Zenon
    <2> QED
      BY <2>2
  <1>5. Cardinality(1..n) <= Cardinality(1..m)
    BY <1>1, <1>3, <1>4, FS_Injection
  <1> QED
    BY <1>1, <1>4, <1>5

\* The entry that is registered.
LEMMA CurrentType ==
    ASSUME CallInv, call.index \in DOMAIN call.order
    PROVE  /\ call.order[call.index] \in DOMAIN call.pending
           /\ Current \in Resolved /\ Current.pkg \in Packages
  <1>1. call.order[call.index] \in DOMAIN call.pending
    BY DEF CallInv, OrderOnce
  <1>2. Current \in Resolved
    BY <1>1 DEF CallInv, LoadCall, Current
  <1> QED
    BY <1>1, <1>2 DEF Resolved

LEMMA RegisteringIn ==
    ASSUME CallInv, At("adding")
    PROVE  call.index \in DOMAIN call.order
  BY DEF CallInv, LoadCall, Reached

LEMMA ResolvedType ==
    ASSUME LoaderType, NEW p \in Packages, NEW good
    PROVE  ResolvedAs(p, good) \in Resolved
  <1>1. deps[p] \in SUBSET (Names \cup Packages)
    BY PackagesAssumption DEF LoaderType
  <1>2. ManifestName[p] \in Names
    BY DEF Names
  <1>3. (p \in Scripts) \in BOOLEAN /\ (p \notin Scripts \/ p \in Runtimes) \in BOOLEAN
    OBVIOUS
  <1> QED
    BY <1>1, <1>2, <1>3 DEF ResolvedAs, Resolved

\* The call at places that keep the list of entries.
LEMMA CallKept ==
    ASSUME CallInv, call' \in LoadCall, Reached',
           call'.pending = call.pending, call'.order = call.order
    PROVE  CallInv'
  BY DEF CallInv, OrderOnce

LEMMA CallBegins ==
    ASSUME NEW es \in Listings, LoadPackages(es)
    PROVE  CallInv'
  <1>1. es \in Seq(Packages)
    BY DEF Listings, SeqOf
  <1>2. CASE call' = Idle
    BY <1>2, IdleCall
  <1>3. CASE call' = [Idle EXCEPT !.at = "resolve", !.entries = es]
    <2>1. Idle \in LoadCall
      BY DEF Idle, LoadCall
    <2>2. call' \in LoadCall
      BY <1>1, <1>3, <2>1 DEF LoadCall
    <2>3. /\ call'.at = "resolve" /\ call'.entries = es /\ call'.index = 1 /\ call'.order = <<>>
          /\ call'.pending = <<>> /\ call'.scripts = <<>>
      BY <1>3 DEF Idle
    <2>4. Reached'
      BY <1>1, <2>3 DEF Reached, At
    <2> QED
      BY <2>2, <2>3, <2>4 DEF CallInv, OrderOnce, IsInjective
  <1> QED
    BY <1>2, <1>3 DEF LoadPackages, Returns

LEMMA CallResolves ==
    ASSUME LoaderType, CallInv, NEW good, NEW entry, Resolve(good, entry)
    PROVE  CallInv'
  <1> DEFINE p == call.entries[call.index]
             r == ResolvedAs(p, good)
             ours == call.mounted \cup IF Readable(p, good) THEN {p} ELSE {}
  <1>1. CASE call' = Idle
    BY <1>1, IdleCall
  <1>2. CASE call' = [call EXCEPT !.index = @ + 1, !.mounted = ours, !.pending = Append(@, r)]
    <2>1. call \in LoadCall /\ At("resolve") /\ call.index \in DOMAIN call.entries
      BY DEF Resolve, CallInv
    <2>2. p \in Packages
      BY <2>1 DEF LoadCall
    <2>3. r \in Resolved
      BY <2>2, ResolvedType
    <2>4. ours \in SUBSET Packages
      BY <2>1, <2>2 DEF LoadCall
    <2> HIDE DEF ours, r
    <2>5. Append(call.pending, r) \in Seq(Resolved) /\ call.index + 1 \in Nat
      BY <2>1, <2>3 DEF LoadCall
    <2>6. call' \in LoadCall
      BY <1>2, <2>1, <2>4, <2>5 DEF LoadCall
    <2>7. /\ call'.at = "resolve" /\ call'.index = call.index + 1 /\ call'.order = call.order
          /\ call'.pending = Append(call.pending, r) /\ call'.entries = call.entries
          /\ call'.scripts = call.scripts
      BY <1>2, <2>1 DEF LoadCall, At
    <2>8. Len(call'.pending) = Len(call.pending) + 1
      BY <2>1, <2>7 DEF LoadCall
    <2>9. Reached'
      BY <2>1, <2>7, <2>8 DEF CallInv, LoadCall, Reached, At
    <2> QED
      BY <2>1, <2>6, <2>7, <2>9 DEF CallInv, OrderOnce, IsInjective, Reached
  <1> QED
    BY <1>1, <1>2 DEF Resolve, Returns

LEMMA CallSorts ==
    ASSUME CallInv, ResolveDone \/ SortEntry \/ SortPass
    PROVE  CallInv'
  <1>1. call \in LoadCall /\ Reached
    BY DEF CallInv
  <1>2. CASE ResolveDone
    <2>1. /\ call'.at = "order" /\ call'.index = 1 /\ call'.order = call.order
          /\ call'.pending = call.pending /\ call'.entries = call.entries
          /\ call'.scripts = call.scripts
      BY <1>1, <1>2 DEF ResolveDone, LoadCall
    <2>2. call' \in LoadCall
      BY <1>1, <1>2 DEF ResolveDone, LoadCall
    <2>3. Reached'
      BY <1>1, <1>2, <2>1 DEF ResolveDone, LoadCall, Reached, At
    <2> QED
      BY <2>1, <2>2, <2>3, CallKept
  <1>3. CASE SortEntry
    <2> DEFINE i == call.index
               taken == i \in Unsorted /\ ReadyToLoad(i, Sorted)
    <2>1. i \in DOMAIN call.pending /\ call.at = "order"
      BY <1>3 DEF SortEntry, At
    <2>2. call' = [call EXCEPT !.index = @ + 1, !.progress = @ \/ taken,
                               !.order = IF taken THEN Append(@, i) ELSE @]
      BY <1>3 DEF SortEntry
    <2>3. taken => i \in DOMAIN call.pending \ Range(call.order)
      BY DEF Unsorted, Sorted
    <2>4. taken \in BOOLEAN
      OBVIOUS
    <2> HIDE DEF taken
    <2> DEFINE made == call.progress \/ taken
               now == IF taken THEN Append(call.order, i) ELSE call.order
    <2>5. made \in BOOLEAN
      OBVIOUS
    <2>6. now \in Seq(Nat) /\ now \in Seq(DOMAIN call.pending)
      <3>1. call.order \in Seq(Nat) /\ call.order \in Seq(DOMAIN call.pending) /\ i \in Nat
        BY <1>1, <2>1 DEF LoadCall, CallInv, OrderOnce
      <3>2. Append(call.order, i) \in Seq(Nat)
        BY <3>1
      <3>3. Append(call.order, i) \in Seq(DOMAIN call.pending)
        BY <2>1, <3>1, AppendProperties
      <3> QED
        BY <3>1, <3>2, <3>3
    <2>7. call' = [call EXCEPT !.index = @ + 1, !.progress = made, !.order = now]
      BY <2>2
    <2> HIDE DEF made, now
    <2>12. call' \in LoadCall
      <3>1. call.index + 1 \in Nat
        BY <1>1 DEF LoadCall
      <3> QED
        BY <1>1, <2>5, <2>6, <2>7, <3>1 DEF LoadCall
    <2>8. /\ call'.at = "order" /\ call'.index = call.index + 1 /\ call'.order = now
          /\ call'.pending = call.pending /\ call'.entries = call.entries
          /\ call'.scripts = call.scripts
      BY <1>1, <2>1, <2>7 DEF LoadCall
    <2>9. Reached'
      BY <1>1, <2>1, <2>8 DEF LoadCall, Reached, At
    <2>11. IsInjective(call'.order)
      <3>1. CASE taken
        <4>1. call'.order = Append(call.order, i) /\ i \notin Range(call.order)
          BY <2>3, <2>8, <3>1 DEF now
        <4>2. \A k \in DOMAIN call.order : call.order[k] # i
          BY <4>1 DEF Range
        <4> QED
          BY <1>1, <4>1, <4>2 DEF LoadCall, CallInv, OrderOnce, IsInjective
      <3>2. CASE ~taken
        BY <2>8, <3>2 DEF CallInv, OrderOnce, now
      <3> QED
        BY <3>1, <3>2
    <2> QED
      BY <2>6, <2>8, <2>9, <2>11, <2>12 DEF CallInv, OrderOnce
  <1>4. CASE SortPass
    <2>1. CASE call' = Idle
      BY <2>1, IdleCall
    <2>2. CASE call' = [call EXCEPT !.index = 1, !.progress = FALSE,
                          !.at = IF Unsorted = {} THEN "register" ELSE "order"]
      <3>1. /\ call'.at \in {"register", "order"} /\ call'.index = 1
            /\ call'.order = call.order /\ call'.pending = call.pending
            /\ call'.entries = call.entries /\ call'.scripts = call.scripts
        BY <1>1, <2>2 DEF LoadCall
      <3>2. call' \in LoadCall
        BY <1>1, <2>2 DEF LoadCall
      <3>3. Reached'
        BY <1>1, <1>4, <3>1 DEF SortPass, LoadCall, Reached, At
      <3> QED
        BY <3>1, <3>2, <3>3, CallKept
    <2> QED
      BY <1>4, <2>1, <2>2 DEF SortPass, Fail, Returns
  <1> QED
    BY <1>2, <1>3, <1>4
LEMMA CallRegisters ==
    ASSUME CallInv,
           RegisterFails \/ RegisterScript \/ RegisterCall \/ RegisterRefused \/ RegisterReturn
             \/ RegisterDone
    PROVE  CallInv'
  <1>1. call \in LoadCall /\ Reached
    BY DEF CallInv
  <1>2. CASE RegisterFails
    BY <1>2, IdleCall DEF RegisterFails, Fail, Returns
  <1> DEFINE scripts == IF Current.script THEN Append(call.scripts, Current.pkg) ELSE call.scripts
  <1>3. ASSUME Registering
        PROVE  /\ scripts \in Seq(Packages) /\ Len(scripts) <= call.index
               /\ Len(scripts) <= Len(call.order)
               /\ call.index \in Nat /\ call.index + 1 \in Nat
    <2>1. Current.pkg \in Packages
      BY <1>3, CurrentType DEF Registering
    <2> QED
      BY <1>1, <1>3, <2>1 DEF Registering, LoadCall, Reached
  <1>4. CallWithScript = [call EXCEPT !.scripts = scripts]
    BY DEF CallWithScript
  <1> HIDE DEF scripts
  <1>5. CASE RegisterScript
    <2>1. Registering /\ call' = [CallWithScript EXCEPT !.index = @ + 1]
      BY <1>5 DEF RegisterScript
    <2>2. /\ call'.at = call.at /\ call'.index = call.index + 1 /\ call'.scripts = scripts
          /\ call'.order = call.order /\ call'.pending = call.pending
          /\ call'.entries = call.entries
      BY <1>1, <1>4, <2>1 DEF LoadCall
    <2>3. call' = [call EXCEPT !.scripts = scripts, !.index = call.index + 1]
      BY <1>1, <1>4, <2>1 DEF LoadCall
    <2>4. call' \in LoadCall
      BY <1>1, <1>3, <2>1, <2>3 DEF LoadCall
    <2>5. Reached'
      BY <1>1, <1>3, <2>1, <2>2 DEF Reached, At, Registering, LoadCall
    <2> QED
      BY <2>2, <2>4, <2>5, CallKept
  <1>6. ASSUME Registering, NEW o \in {"queued", "drained", "refused"},
               call' = [CallWithScript EXCEPT !.at = "adding", !.outcome = o]
        PROVE  CallInv'
    <2>2. /\ call'.at = "adding" /\ call'.index = call.index /\ call'.scripts = scripts
          /\ call'.order = call.order /\ call'.pending = call.pending
          /\ call'.entries = call.entries
      BY <1>1, <1>4, <1>6 DEF LoadCall
    <2>3. call' = [call EXCEPT !.scripts = scripts, !.at = "adding", !.outcome = o]
      BY <1>1, <1>4, <1>6 DEF LoadCall
    <2>4. call' \in LoadCall
      BY <1>1, <1>3, <1>6, <2>3 DEF LoadCall
    <2>5. Reached'
      BY <1>1, <1>3, <1>6, <2>2 DEF Reached, At, Registering, LoadCall
    <2> QED
      BY <2>2, <2>4, <2>5, CallKept
  <1>7. CASE RegisterCall
    BY <1>6, <1>7 DEF RegisterCall
  <1>8. CASE RegisterRefused
    BY <1>6, <1>8 DEF RegisterRefused
  <1>9. CASE RegisterReturn
    <2>1. CASE call' = Idle
      BY <2>1, IdleCall
    <2>2. CASE call' = [call EXCEPT !.at = "register", !.index = @ + 1]
      <3>1. At("adding") /\ call.index + 1 \in Nat
        BY <1>1, <1>9 DEF RegisterReturn, LoadCall
      <3>2. /\ call'.at = "register" /\ call'.index = call.index + 1
            /\ call'.scripts = call.scripts /\ call'.order = call.order
            /\ call'.pending = call.pending /\ call'.entries = call.entries
        BY <1>1, <2>2 DEF LoadCall
      <3>3. call' \in LoadCall
        BY <1>1, <2>2, <3>1 DEF LoadCall
      <3>4. Reached'
        BY <1>1, <3>1, <3>2 DEF Reached, At, LoadCall
      <3> QED
        BY <3>2, <3>3, <3>4, CallKept
    <2> QED
      BY <1>9, <2>1, <2>2 DEF RegisterReturn, Fail, Returns
  <1>10. CASE RegisterDone
    <2>1. /\ At("register") /\ call.index \notin DOMAIN call.order
          /\ call' = [call EXCEPT !.index = 1,
                        !.at = IF call.scripts = <<>> THEN "entries" ELSE "inject"]
      BY <1>10 DEF RegisterDone
    <2>2. /\ call'.at = (IF call.scripts = <<>> THEN "entries" ELSE "inject")
          /\ call'.index = 1 /\ call'.scripts = call.scripts /\ call'.order = call.order
          /\ call'.pending = call.pending /\ call'.entries = call.entries
      BY <1>1, <2>1 DEF LoadCall
    <2>3. call' \in LoadCall
      BY <1>1, <2>1 DEF LoadCall
    <2>4. Reached'
      BY <1>1, <2>1, <2>2 DEF Reached, At, LoadCall
    <2> QED
      BY <2>2, <2>3, <2>4, CallKept
  <1> QED
    BY <1>2, <1>5, <1>7, <1>8, <1>9, <1>10

LEMMA CallEnds ==
    ASSUME LoaderType, CallInv, NEW ok, Inject(ok) \/ InjectEntry(ok) \/ LoadDone
    PROVE  CallInv'
  <1>1. call \in LoadCall /\ Reached
    BY DEF CallInv
  <1>2. CASE call' = Idle
    BY <1>2, IdleCall
  <1>3. CASE Inject(ok) /\ call' = [call EXCEPT !.at = "entries", !.injected = mounts]
    <2>1. /\ call'.at = "entries" /\ call'.index = call.index /\ call'.scripts = call.scripts
          /\ call'.order = call.order /\ call'.pending = call.pending
          /\ call'.entries = call.entries
      BY <1>1, <1>3 DEF LoadCall
    <2>2. call' \in LoadCall
      BY <1>1, <1>3 DEF LoadCall, LoaderType
    <2>3. Reached'
      BY <1>1, <1>3, <2>1 DEF Inject, Reached, At, LoadCall
    <2> QED
      BY <2>1, <2>2, <2>3, CallKept
  <1>4. CASE InjectEntry(ok) /\ call' = [call EXCEPT !.index = @ + 1]
    <2>1. /\ call'.at = call.at /\ call'.index = call.index + 1 /\ call'.scripts = call.scripts
          /\ call'.order = call.order /\ call'.pending = call.pending
          /\ call'.entries = call.entries /\ call.index + 1 \in Nat
      BY <1>1, <1>4 DEF LoadCall
    <2>2. call' \in LoadCall
      BY <1>1, <1>4, <2>1 DEF LoadCall
    <2>3. Reached'
      BY <1>1, <1>4, <2>1 DEF InjectEntry, Reached, At, LoadCall
    <2> QED
      BY <2>1, <2>2, <2>3, CallKept
  <1> QED
    BY <1>2, <1>3, <1>4 DEF Inject, InjectEntry, LoadDone, Fail, Returns

LEMMA CallNext ==
    ASSUME LoaderType, CallInv, [Next]_vars
    PROVE  CallInv'
  <1>1. CASE UNCHANGED call
    BY <1>1 DEF CallInv, LoadCall, Reached, OrderOnce, At
  <1>2. CASE Host
    BY <1>1, <1>2, CallBegins
       DEF Host, AddVfs, loaderVars, HostRun, HostDestroy, Cleanup, HostMount
  <1>3. CASE Internal
    BY <1>1, <1>3, CallResolves, CallSorts, CallRegisters, CallEnds
       DEF Internal, AppStep, BuildAdds
  <1> QED
    BY <1>1, <1>2, <1>3 DEF Next, Finished, vars, loaderVars
\* The loader and its host are clients of the App: what they do to it are its
\* own operations, or leave it alone.
LEMMA AppStepped ==
    ASSUME CallInv, [Next]_vars
    PROVE  [AP!Next]_(AP!vars)
  <1>1. CASE UNCHANGED appVars
    BY <1>1 DEF appVars, AP!vars
  <1>2. CASE AppStep
    BY <1>2, InternalSame DEF AppStep, AP!Next
  <1>3. CASE BuildAdds
    BY <1>3, ClientSame DEF BuildAdds, Names, AP!Next
  <1>4. CASE RegisterCall
    <2>1. Current.pkg \in Packages
      BY <1>4, CurrentType DEF RegisterCall, Registering
    <2>2. ManifestName[Current.pkg] \in Names /\ PluginDeps(Current.pkg) \in SUBSET Names
      BY <2>1 DEF Names, PluginDeps
    <2>3. A!AddPlugin(TheApp, ManifestName[Current.pkg], PluginDeps(Current.pkg))
      BY <1>4 DEF RegisterCall
    <2> QED
      BY <2>2, <2>3, ClientSame DEF AP!Next
  <1>5. CASE AddVfs
    BY <1>5, ClientSame DEF AddVfs, Names, AP!Next
  <1>6. CASE HostRun
    BY <1>6, ClientSame DEF HostRun, AP!Next
  <1>7. CASE HostDestroy
    BY <1>1, <1>7, ClientSame DEF HostDestroy, AP!Next
  <1>8. CASE Next
    <2>1. CASE Host
      BY <2>1, <1>1, <1>5, <1>6, <1>7 DEF Host, Cleanup, HostMount, LoadPackages
    <2>2. CASE Internal
      BY <2>2, <1>1, <1>2, <1>3, <1>4
         DEF Internal, Resolve, ResolveDone, SortEntry, SortPass, RegisterFails, RegisterScript,
             RegisterRefused, RegisterReturn, RegisterDone, Inject, InjectEntry, LoadDone
    <2> QED
      BY <1>8, <2>1, <2>2, <1>1 DEF Next, Finished, vars
  <1> QED
    BY <1>1, <1>8 DEF vars

\* What is going on in the App while a call of load_packages is at its places.
Staged ==
    /\ call.at \notin {"idle", "adding"} => Quiet
    /\ host # "up" => At("idle")

LEMMA AppBusy == A!Internal \/ BuildAdds => ~Quiet
  BY DEF A!Internal, A!AddReturn, A!DrainStart, A!DrainTake, A!DrainCollected, A!BuildCall,
         A!BuildReturn, A!PostPlugin, A!PostStart, A!PostSubapps, A!PostDone, A!PrepareStart,
         A!PrepareDrained, A!PreparePosted, A!PrepareSubapps, A!PrepareDone, A!RunPrepared,
         A!RunnerReturn, A!RunReturn, A!TeardownSubapps, A!TeardownPlugin, A!TeardownDone,
         A!At, BuildAdds, Quiet

LEMMA StagedNext ==
    ASSUME CallInv, Staged, [Next]_vars
    PROVE  Staged'
  <1>1. call \in LoadCall
    BY DEF CallInv
  <1>2. CASE UNCHANGED <<stack, call, host>>
    BY <1>2 DEF Staged, Quiet, At
  <1>3. CASE Host
    <2>1. CASE AddVfs
      BY <2>1 DEF AddVfs, HostReady, loaderVars, Staged, At
    <2>2. CASE HostRun \/ HostDestroy
      BY <2>2 DEF HostRun, HostDestroy, HostReady, Staged, At
    <2>3. CASE Cleanup
      BY <2>3 DEF Cleanup, Staged, At
    <2>4. ASSUME NEW es \in Listings, LoadPackages(es)
          PROVE  Staged'
      BY <2>4 DEF LoadPackages, Staged, appVars, At, Quiet
    <2>5. ASSUME NEW d \in HostDirs, HostMount(d)
          PROVE  Staged'
      BY <1>2, <2>5 DEF HostMount, appVars
    <2> QED
      BY <1>3, <2>1, <2>2, <2>3, <2>4, <2>5 DEF Host
  <1>4. CASE AppStep \/ BuildAdds
    <2>1. ~Quiet /\ UNCHANGED <<call, host>>
      BY <1>4, AppBusy DEF AppStep, BuildAdds
    <2> QED
      BY <2>1 DEF Staged, At
  <1>5. CASE RegisterCall
    <2>1. call' = [CallWithScript EXCEPT !.at = "adding",
                     !.outcome = IF stack' = <<>> THEN "queued" ELSE "drained"]
      BY <1>5 DEF RegisterCall
    <2>2. call'.at = "adding" /\ host' = host
      BY <1>1, <1>5, <2>1 DEF RegisterCall, CallWithScript, LoadCall
    <2> QED
      BY <1>5, <2>2 DEF Staged, At, RegisterCall, Registering
  <1>6. ASSUME At("idle")' \/ Quiet, UNCHANGED <<appVars, host>>, ~At("idle")
        PROVE  Staged'
    BY <1>6 DEF Staged, At, appVars, Quiet
  <1>7. CASE RegisterReturn \/ LoadDone
    BY <1>6, <1>7 DEF RegisterReturn, LoadDone, Returns, Idle, At, Staged
  <1>8. CASE Internal
    <2>1. \A good, entry \in BOOLEAN : Resolve(good, entry) => Staged'
      BY <1>6 DEF Resolve, At, Staged
    <2>2. \A ok \in BOOLEAN : Inject(ok) \/ InjectEntry(ok) => Staged'
      BY <1>6 DEF Inject, InjectEntry, At, Staged
    <2>3. ResolveDone \/ SortEntry \/ SortPass => Staged'
      BY <1>6 DEF ResolveDone, SortEntry, SortPass, At, Staged
    <2>4. RegisterFails \/ RegisterScript \/ RegisterRefused \/ RegisterDone => Staged'
      BY <1>6 DEF RegisterFails, RegisterScript, RegisterRefused, RegisterDone, Registering, At,
                  Staged
    <2> QED
      BY <1>4, <1>5, <1>7, <1>8, <2>1, <2>2, <2>3, <2>4 DEF Internal
  <1> QED
    BY <1>2, <1>3, <1>8 DEF Next, Finished, vars, appVars, loaderVars
\* The variables of the loader keep their types: a step changes few of them.
LEMMA LoaderNext ==
    ASSUME LoaderType, CallInv, [Next]_vars
    PROVE  LoaderType'
  <1>1. call \in LoadCall /\ call.mounted \subseteq Packages
    BY DEF CallInv, LoadCall
  <1>2. ASSUME deps' = deps, mounts' \subseteq Directories, kept' \subseteq Directories,
               handles' \in Seq(Packages), runtime' \in Packages \cup {None},
               loads' \in 0..MaxLoads, host' \in {"up", "run", "destroy", "done"},
               returned' \in Results, listed' \subseteq Packages,
               code' \in [Names -> Packages \cup {None}], registered' \in Seq(Packages)
        PROVE  LoaderType'
    BY <1>2 DEF LoaderType
  <1>3. ASSUME UNCHANGED <<deps, handles, runtime, loads, host, listed, code, kept, registered>>,
               mounts' \subseteq Directories, returned' \in Results
        PROVE  LoaderType'
    BY <1>3 DEF LoaderType
  <1>4. CASE Host
    <2>1. CASE AddVfs
      BY <1>3, <2>1 DEF AddVfs, loaderVars, LoaderType
    <2>2. CASE HostRun \/ HostDestroy
      BY <1>2, <2>2 DEF HostRun, HostDestroy, LoaderType
    <2>3. CASE Cleanup
      BY <1>2, <2>3 DEF Cleanup, LoaderType
    <2>4. ASSUME NEW es \in Listings, LoadPackages(es)
          PROVE  LoaderType'
      <3>1. Range(es) \subseteq Packages
        BY DEF Listings, SeqOf, Range
      <3>2. loads' \in 0..MaxLoads
        BY <2>4, PackagesAssumption DEF LoadPackages, LoaderType
      <3>3. mounts' \subseteq Directories /\ returned' \in Results
        BY <2>4 DEF LoadPackages, Returns, LoaderType, Results
      <3> QED
        BY <1>2, <2>4, <3>1, <3>2, <3>3 DEF LoadPackages, LoaderType
    <2>5. ASSUME NEW d \in HostDirs, HostMount(d)
          PROVE  LoaderType'
      BY <1>2, <2>5 DEF HostMount, LoaderType, Directories
    <2> QED
      BY <1>4, <2>1, <2>2, <2>3, <2>4, <2>5 DEF Host
  <1>5. ASSUME NEW good \in BOOLEAN, NEW entry \in BOOLEAN, Resolve(good, entry)
        PROVE  LoaderType'
    <2>1. call.entries[call.index] \in Packages
      BY <1>1, <1>5 DEF Resolve, LoadCall
    <2>2. mounts' \subseteq Directories /\ returned' \in Results
      BY <1>5, <2>1 DEF Resolve, MountsAfter, Returns, LoaderType, Results, Directories
    <2> QED
      BY <1>3, <1>5, <2>2 DEF Resolve
  <1>6. CASE ResolveDone \/ SortEntry \/ RegisterScript \/ RegisterRefused \/ RegisterDone
    BY <1>3, <1>6
       DEF ResolveDone, SortEntry, RegisterScript, RegisterRefused, RegisterDone, LoaderType
  <1>7. \A r \in Results : Fail(r) => mounts' \subseteq Directories /\ returned' \in Results
    BY DEF Fail, Returns, LoaderType
  <1>8. CASE SortPass \/ RegisterFails
    <2>1. mounts' \subseteq Directories /\ returned' \in Results
      BY <1>7, <1>8 DEF SortPass, RegisterFails, Results, LoaderType
    <2> QED
      BY <1>3, <1>8, <2>1 DEF SortPass, RegisterFails
  <1>9. CASE RegisterCall
    <2>1. Current.pkg \in Packages
      BY <1>9, CurrentType DEF RegisterCall, Registering
    <2>2. code' \in [Names -> Packages \cup {None}]
      BY <1>9, <2>1 DEF RegisterCall, LoaderType
    <2> QED
      BY <1>2, <1>9, <2>2 DEF RegisterCall, LoaderType
  <1>10. CASE RegisterReturn
    <2>1. Current.pkg \in Packages
      BY <1>10, CurrentType, RegisteringIn DEF RegisterReturn
    <2>2. /\ registered' \in Seq(Packages) /\ handles' \in Seq(Packages)
          /\ runtime' \in Packages \cup {None}
      <3>1. \A s \in Seq(Packages) : Append(s, Current.pkg) \in Seq(Packages)
        BY <2>1, AppendProperties
      <3> QED
        BY <1>10, <2>1, <3>1 DEF RegisterReturn, LoaderType
    <2>3. mounts' \subseteq Directories /\ returned' \in Results
      BY <1>7, <1>10 DEF RegisterReturn, Results, LoaderType
    <2> QED
      BY <1>2, <1>10, <2>2, <2>3 DEF RegisterReturn, LoaderType
  <1>11. ASSUME NEW ok \in BOOLEAN, Inject(ok) \/ InjectEntry(ok)
         PROVE  LoaderType'
    <2>1. mounts' \subseteq Directories /\ returned' \in Results
      BY <1>7, <1>11 DEF Inject, InjectEntry, Results, LoaderType
    <2>2. CASE Inject(ok)
      BY <1>3, <2>1, <2>2 DEF Inject
    <2>3. CASE InjectEntry(ok)
      <3>1. call.scripts[call.index] \in Packages
        BY <1>1, <2>3 DEF InjectEntry, LoadCall
      <3>2. registered' \in Seq(Packages)
        <4>1. Append(registered, call.scripts[call.index]) \in Seq(Packages)
          BY <3>1, AppendProperties DEF LoaderType
        <4> QED
          BY <2>3, <4>1 DEF InjectEntry, LoaderType
      <3> QED
        BY <1>2, <2>1, <2>3, <3>2 DEF InjectEntry, LoaderType
    <2> QED
      BY <1>11, <2>2, <2>3
  <1>12. CASE LoadDone
    BY <1>1, <1>2, <1>12 DEF LoadDone, Returns, LoaderType, Directories, Results
  <1>13. CASE AppStep
    BY <1>2, <1>13 DEF AppStep, LoaderType
  <1>14. CASE BuildAdds
    <2>2. code' \in [Names -> Packages \cup {None}]
      <3> DEFINE built == plugins[TheApp][Len(plugins[TheApp])].name
      <3>1. code[built] \in Composites /\ code' = [code EXCEPT ![SubPlugin] = code[built]]
        BY <1>14 DEF BuildAdds
      <3> QED
        BY <3>1, PackagesAssumption DEF LoaderType
    <2> QED
      BY <1>2, <1>14, <2>2 DEF BuildAdds, LoaderType
  <1>15. CASE Internal
    BY <1>5, <1>6, <1>8, <1>9, <1>10, <1>11, <1>12, <1>13, <1>14, <1>15 DEF Internal
  <1>16. CASE UNCHANGED vars
    BY <1>16 DEF vars, loaderVars, LoaderType
  <1> QED
    BY <1>4, <1>15, <1>16 DEF Next, Finished

-----------------------------------------------------------------------------
(* The libraries                                                            *)

\* Where p stands among the packages whose library stays open.
Held(p) == {i \in DOMAIN handles : handles[i] = p}

\* The register function of p runs, with p's library opened for it.
Entered(p) == At("adding") /\ Current.library /\ Current.pkg = p

\* A library is open as often as it is kept, and once more while it is entered.
LibsInv ==
    /\ libs \in [Packages -> Nat]
    /\ \A p \in Packages : libs[p] = Cardinality(Held(p)) + IF Entered(p) THEN 1 ELSE 0
    /\ host = "done" => handles = <<>>

LEMMA HeldCount ==
    ASSUME LoaderType, NEW p \in Packages
    PROVE  IsFiniteSet(Held(p)) /\ Cardinality(Held(p)) \in Nat
  <1>1. Len(handles) \in Int /\ 1 \in Int /\ Held(p) \in SUBSET (1..Len(handles))
    BY DEF LoaderType, Held
  <1>2. IsFiniteSet(1..Len(handles))
    BY <1>1, FS_Interval
  <1>3. IsFiniteSet(Held(p))
    BY <1>1, <1>2, FS_Subset
  <1> QED
    BY <1>3, FS_CardinalityType

LEMMA HeldAppend ==
    ASSUME LoaderType, NEW q \in Packages, handles' = Append(handles, q), NEW p \in Packages
    PROVE  Cardinality(Held(p)') = Cardinality(Held(p)) + IF p = q THEN 1 ELSE 0
  <1> DEFINE n == Len(handles) + 1
  <1>1. /\ n \in Nat /\ DOMAIN handles' = DOMAIN handles \cup {n} /\ n \notin DOMAIN handles
        /\ handles'[n] = q /\ \A i \in DOMAIN handles : handles'[i] = handles[i]
    BY DEF LoaderType
  <1>2. Held(p)' = {i \in DOMAIN handles' : handles'[i] = p}
    BY DEF Held
  <1> HIDE DEF n
  <1>3. IsFiniteSet(Held(p)) /\ n \notin Held(p)
    BY <1>1, HeldCount DEF Held
  <1>4. CASE p = q
    <2>1. Held(p)' = Held(p) \cup {n}
      BY <1>1, <1>2, <1>4 DEF Held
    <2>2. Cardinality(Held(p) \cup {n}) = Cardinality(Held(p)) + 1
      BY <1>3, FS_AddElement
    <2> QED
      BY <1>4, <2>1, <2>2
  <1>5. CASE p # q
    <2>1. Held(p)' = Held(p)
      BY <1>1, <1>2, <1>5 DEF Held
    <2> QED
      BY <1>5, <2>1, HeldCount
  <1> QED
    BY <1>4, <1>5
LEMMA AtIdle == call' = Idle => call'.at = "idle"
  BY DEF Idle

LEMMA LibsNext ==
    ASSUME LoaderType, CallInv, Staged, LibsInv, [Next]_vars
    PROVE  LibsInv'
  <1>1. call \in LoadCall
    BY DEF CallInv
  <1>2. ASSUME UNCHANGED <<libs, handles>>, host' = "done" => host = "done",
               \A p \in Packages : Entered(p)' <=> Entered(p)
        PROVE  LibsInv'
    BY <1>2 DEF LibsInv, Held
  <1>3. ASSUME UNCHANGED <<libs, handles, host>>, ~At("adding"), ~At("adding")'
        PROVE  LibsInv'
    BY <1>2, <1>3 DEF Entered
  <1>4. CASE UNCHANGED <<libs, handles, host, call>>
    BY <1>2, <1>4 DEF Entered, Current, At
  <1>5. CASE Host
    <2>1. CASE AddVfs
      BY <1>4, <2>1 DEF AddVfs, loaderVars
    <2>2. CASE HostRun \/ HostDestroy
      BY <1>2, <2>2 DEF HostRun, HostDestroy, Entered, Current, At
    <2>3. CASE Cleanup
      <3>1. At("idle") /\ ~At("adding") /\ ~At("adding")'
        BY <2>3 DEF Cleanup, Staged, At
      <3>2. \A p \in Packages : libs[p] = Cardinality(Held(p)) /\ ~Entered(p)
        <4> TAKE p \in Packages
        <4>1. libs[p] = Cardinality(Held(p)) + 0
          BY <3>1 DEF LibsInv, Entered
        <4> QED
          BY <3>1, <4>1, HeldCount DEF Entered
      <3>3. \A p \in Packages : libs[p] - Cardinality(Held(p)) = 0
        BY <3>2, HeldCount
      <3>4. libs' = [p \in Packages |-> 0]
        BY <2>3, <3>3 DEF Cleanup, Held
      <3>5. handles' = <<>>
        BY <2>3 DEF Cleanup
      <3>6. \A p \in Packages : Cardinality(Held(p)') = 0 /\ ~Entered(p)'
        BY <3>1, <3>5, FS_EmptySet DEF Held, Entered
      <3> QED
        BY <3>4, <3>5, <3>6 DEF LibsInv
    <2>4. ASSUME NEW es \in Listings, LoadPackages(es)
          PROVE  LibsInv'
      <3>1. call'.at \in {"resolve", "idle"}
        <4>1. Idle \in LoadCall /\ Idle.at = "idle"
          BY DEF Idle, LoadCall
        <4>2. [Idle EXCEPT !.at = "resolve", !.entries = es].at = "resolve"
          BY <4>1 DEF LoadCall
        <4> QED
          BY <2>4, <4>1, <4>2 DEF LoadPackages, Returns
      <3> QED
        BY <1>3, <2>4, <3>1 DEF LoadPackages, At
    <2>5. ASSUME NEW d \in HostDirs, HostMount(d)
          PROVE  LibsInv'
      BY <1>4, <2>5 DEF HostMount
    <2> QED
      BY <1>5, <2>1, <2>2, <2>3, <2>4, <2>5 DEF Host
  <1>6. ASSUME NEW good \in BOOLEAN, NEW entry \in BOOLEAN, Resolve(good, entry)
        PROVE  LibsInv'
    <2>1. call'.at \in {"resolve", "idle"}
      BY <1>1, <1>6, AtIdle DEF Resolve, Returns, At, LoadCall
    <2> QED
      BY <1>3, <1>6, <2>1 DEF Resolve, At
  <1>7. CASE ResolveDone \/ SortEntry \/ SortPass
    <2>1. call'.at \in {"order", "register", "idle"}
      BY <1>1, <1>7, AtIdle DEF ResolveDone, SortEntry, SortPass, Fail, Returns, At, LoadCall
    <2> QED
      BY <1>3, <1>7, <2>1 DEF ResolveDone, SortEntry, SortPass, At
  <1>8. CASE RegisterFails \/ RegisterScript \/ RegisterDone
    <2>1. call'.at \in {"register", "inject", "entries", "idle"}
      BY <1>1, <1>8, AtIdle
         DEF RegisterFails, RegisterScript, RegisterDone, Fail, Returns, At, LoadCall,
             CallWithScript, Registering
    <2> QED
      BY <1>3, <1>8, <2>1 DEF RegisterFails, RegisterScript, RegisterDone, Registering, At
  <1>9. CASE RegisterCall \/ RegisterRefused
    <2>1. Registering /\ Opened /\ UNCHANGED <<handles, host>>
      BY <1>9 DEF RegisterCall, RegisterRefused
    <2>2. /\ call'.at = "adding" /\ call'.index = call.index /\ call'.order = call.order
          /\ call'.pending = call.pending
      BY <1>1, <1>9 DEF RegisterCall, RegisterRefused, CallWithScript, LoadCall
    <2>3. Current' = Current
      BY <2>2 DEF Current
    <2>4. Current.pkg \in Packages
      BY <2>1, CurrentType DEF Registering
    <2>5. libs' = IF Current.library THEN [libs EXCEPT ![Current.pkg] = @ + 1] ELSE libs
      BY <2>1 DEF Opened
    <2>6. \A p \in Packages : ~Entered(p) /\ (Entered(p)' <=> Current.library /\ Current.pkg = p)
      BY <2>1, <2>2, <2>3 DEF Entered, Registering, At
    <2>7. \A p \in Packages : libs'[p] = libs[p] + IF Entered(p)' THEN 1 ELSE 0
      BY <2>4, <2>5, <2>6 DEF LibsInv
    <2>8. libs' \in [Packages -> Nat]
      BY <2>4, <2>5 DEF LibsInv
    <2>9. \A p \in Packages : libs[p] = Cardinality(Held(p)) /\ Held(p)' = Held(p)
      <3> TAKE p \in Packages
      <3>1. libs[p] = Cardinality(Held(p)) + 0
        BY <2>6 DEF LibsInv
      <3> QED
        BY <2>1, <3>1, HeldCount DEF Held
    <2> QED
      BY <2>1, <2>7, <2>8, <2>9 DEF LibsInv
  <1>10. CASE RegisterReturn
    <2>1. At("adding") /\ host' = host /\ Current.pkg \in Packages /\ ~At("adding")'
      <3>1. call'.at \in {"register", "idle"}
        BY <1>1, <1>10, AtIdle DEF RegisterReturn, Fail, Returns, LoadCall
      <3> QED
        BY <1>10, <3>1, CurrentType, RegisteringIn DEF RegisterReturn, At
    <2>2. host # "done"
      BY <2>1 DEF Staged, At
    <2>3. \A p \in Packages : ~Entered(p)'
      BY <2>1 DEF Entered
    <2>4. \A p \in Packages : Entered(p) <=> Current.library /\ Current.pkg = p
      BY <2>1 DEF Entered
    <2>5. CASE Succeeded
      <3>1. /\ libs' = libs
            /\ handles' = IF Current.library THEN Append(handles, Current.pkg) ELSE handles
        BY <1>10, <2>5 DEF RegisterReturn
      <3>2. CASE Current.library
        <4>1. \A p \in Packages :
                Cardinality(Held(p)') = Cardinality(Held(p)) + IF p = Current.pkg THEN 1 ELSE 0
          BY <2>1, <3>1, <3>2, HeldAppend
        <4>2. \A p \in Packages : libs'[p] = Cardinality(Held(p)') + 0
          BY <2>4, <3>1, <3>2, <4>1, HeldCount DEF LibsInv
        <4> QED
          BY <2>1, <2>2, <2>3, <3>1, <4>2 DEF LibsInv
      <3>3. CASE ~Current.library
        BY <2>1, <2>2, <2>3, <2>4, <3>1, <3>3 DEF LibsInv, Held
      <3> QED
        BY <3>2, <3>3
    <2>6. CASE ~Succeeded
      <3>1. handles' = handles /\ Closed
        BY <1>10, <2>6 DEF RegisterReturn
      <3>2. \A p \in Packages : Held(p)' = Held(p)
        BY <3>1 DEF Held
      <3>3. CASE Current.library
        <4>1. libs' = [libs EXCEPT ![Current.pkg] = @ - 1]
          BY <3>1, <3>3 DEF Closed
        <4>2. \A p \in Packages : libs'[p] = Cardinality(Held(p)) + 0
          BY <2>1, <2>4, <3>3, <4>1, HeldCount DEF LibsInv
        <4>3. libs' \in [Packages -> Nat]
          <5>1. Current.pkg \in Packages /\ libs \in [Packages -> Nat]
            BY <2>1 DEF LibsInv
          <5>2. libs[Current.pkg] - 1 \in Nat
            BY <2>1, <2>4, <3>3, HeldCount DEF LibsInv
          <5> QED
            BY <4>1, <5>1, <5>2
        <4> QED
          BY <2>1, <2>2, <2>3, <3>1, <3>2, <4>2, <4>3 DEF LibsInv
      <3>4. CASE ~Current.library
        BY <2>1, <2>2, <2>3, <2>4, <3>1, <3>2, <3>4 DEF LibsInv, Closed
      <3> QED
        BY <3>3, <3>4
    <2> QED
      BY <2>5, <2>6
  <1>11. ASSUME NEW ok \in BOOLEAN, Inject(ok) \/ InjectEntry(ok) \/ LoadDone
         PROVE  LibsInv'
    <2>1. call'.at \in {"entries", "idle"}
      BY <1>1, <1>11, AtIdle DEF Inject, InjectEntry, LoadDone, Fail, Returns, At, LoadCall
    <2> QED
      BY <1>3, <1>11, <2>1 DEF Inject, InjectEntry, LoadDone, At
  <1>12. CASE AppStep \/ BuildAdds
    BY <1>4, <1>12 DEF AppStep, BuildAdds
  <1>13. CASE Internal
    BY <1>6, <1>7, <1>8, <1>9, <1>10, <1>11, <1>12, <1>13 DEF Internal
  <1> QED
    BY <1>4, <1>5, <1>13 DEF Next, Finished, vars, loaderVars
-----------------------------------------------------------------------------
(* The invariant of the loader                                              *)

\* The App's part of the state, and the loader's.
LoadInv ==
    /\ AP!TypeOK
    /\ LoaderType /\ CallInv /\ Staged /\ LibsInv

LEMMA LoadInit == Init => LoadInv
  <1> SUFFICES ASSUME Init PROVE LoadInv
    OBVIOUS
  <1>1. AP!TypeOK
    BY AppAssumed, InitSame, AP!TypeInit DEF Init
  <1>2. LoaderType
    BY PackagesAssumption DEF Init, LoaderType, Results
  <1>3. CallInv
    <2>1. Idle \in LoadCall
      BY DEF Idle, LoadCall
    <2> QED
      BY <2>1 DEF Init, CallInv, Idle, Reached, OrderOnce, IsInjective, At
  <1>4. Staged
    BY DEF Init, Staged, Idle, At
  <1>5. LibsInv
    <2>1. \A p \in Packages : Held(p) = {} /\ ~Entered(p)
      BY DEF Init, Held, Entered, Idle, At
    <2> QED
      <3>1. /\ libs = [p \in Packages |-> 0] /\ host = "up" /\ Cardinality({}) = 0
        BY FS_EmptySet DEF Init
      <3>2. \A p \in Packages : libs[p] = Cardinality(Held(p)) + 0
        BY <2>1, <3>1
      <3> QED
        BY <2>1, <3>1, <3>2 DEF LibsInv
  <1> QED
    BY <1>1, <1>2, <1>3, <1>4, <1>5 DEF LoadInv

LEMMA LoadNext ==
    ASSUME LoadInv, [Next]_vars
    PROVE  LoadInv' /\ [AP!Next]_(AP!vars)
  <1>1. [AP!Next]_(AP!vars)
    BY AppStepped DEF LoadInv
  <1>2. AP!TypeOK'
    BY <1>1, AppAssumed, AP!TypeNext DEF LoadInv
  <1> QED
    BY <1>1, <1>2, LoaderNext, CallNext, StagedNext, LibsNext DEF LoadInv

LEMMA LoadSpec == Spec => []LoadInv
  BY LoadInit, LoadNext, PTL DEF Spec

LEMMA TypeOfLoad == LoadInv => TypeOK
  <1> SUFFICES ASSUME LoadInv PROVE TypeOK
    OBVIOUS
  <1>1. A!TypeOK
    BY TypeSame DEF LoadInv
  <1>2. LoaderType /\ call \in LoadCall /\ Reached /\ OrderOnce /\ libs \in [Packages -> Nat]
    BY DEF LoadInv, CallInv, LibsInv
  <1>3. Len(call.order) <= Len(call.pending)
    BY OrderShort DEF LoadInv
  <1>4. /\ Len(call.pending) \in Nat /\ Len(call.entries) \in Nat /\ Len(call.order) \in Nat
        /\ Len(call.scripts) \in Nat /\ call.index \in Nat
        /\ Len(call.pending) <= Len(call.entries) /\ Len(call.order) <= Len(call.entries)
    BY <1>2, <1>3 DEF LoadCall, Reached
  <1>5. call.order \in Seq(DOMAIN call.entries)
    <2>1. call.order \in Seq(DOMAIN call.pending) /\ DOMAIN call.pending \subseteq DOMAIN call.entries
      BY <1>2, <1>4 DEF OrderOnce, LoadCall
    <2> QED
      BY <2>1
  <1>6. call.index \in 1..Len(call.entries) + 1
    <2>1. call.at \in {"idle", "resolve", "order", "register", "adding", "inject", "entries"}
      BY <1>2 DEF LoadCall
    <2>2. CASE call.at \in {"resolve", "order", "register"}
      BY <1>2, <1>4, <2>2 DEF Reached, At
    <2>4. CASE call.at \in {"adding", "inject", "entries"}
      BY <1>2, <1>4, <2>4 DEF Reached, At
    <2>3. CASE call.at = "idle"
      BY <1>2, <1>4, <2>3 DEF Reached, At, Idle
    <2> QED
      BY <2>1, <2>2, <2>3, <2>4
  <1> QED
    BY <1>1, <1>2, <1>5, <1>6 DEF TypeOK, LoaderType, LoadCall, Directories

\* Every variable of the loader keeps its type, and the indices of a call stay
\* within its lists: Current is an entry of the call whenever its library is
\* opened or closed, and no library is closed more often than it was opened,
\* for all packages, dependencies and outcomes of the steps of load_packages.
THEOREM TypeCorrect == Spec => []TypeOK
  BY LoadSpec, TypeOfLoad, PTL

\* The loader and its host use the App as any client may: the steps they make it
\* take are steps of App, so that what holds of App under every client (its
\* proofs) holds of the App that load_packages fills.
THEOREM AppUsed == Spec => AP!Spec
  <1>1. Init => AP!Init
    BY InitSame DEF Init
  <1>2. LoadInv /\ [Next]_vars => [AP!Next]_(AP!vars)
    BY LoadNext
  <1> QED
    BY <1>1, <1>2, LoadSpec, PTL DEF Spec, AP!Spec

\* Once pulse_package_loader_cleanup has run no library is open, whichever loads
\* failed and however far they had come: each dlopen was answered by a dlclose.
THEOREM LibrariesClosedCorrect == Spec => []LibrariesClosed
  <1>1. ASSUME LoadInv
        PROVE  LibrariesClosed
    <2>1. ASSUME host = "done", NEW p \in Packages
          PROVE  libs[p] = 0
      <3>1. handles = <<>> /\ ~Entered(p)
        BY <1>1, <2>1 DEF LoadInv, LibsInv, Staged, Entered, At
      <3>2. Held(p) = {}
        BY <3>1 DEF Held
      <3>3. libs[p] = Cardinality(Held(p)) + 0
        BY <1>1, <3>1 DEF LoadInv, LibsInv
      <3> QED
        BY <3>2, <3>3, FS_EmptySet
    <2> QED
      BY <2>1 DEF LibrariesClosed
  <1> QED
    BY <1>1, LoadSpec, PTL
-----------------------------------------------------------------------------
(* Sorting                                                                  *)

Entries == DOMAIN call.pending

\* What is sorted has no part that is stuck, and a pass that has made no
\* progress has met no entry that is ready.
SortInv ==
    At("order") =>
      /\ \A is \in SUBSET Entries : is \cap Sorted # {} => ~Stuck(is)
      /\ ~call.progress => \A i \in Unsorted : i < call.index => ~ReadyToLoad(i, Sorted)

\* An entry that is ready stays so when more is loaded.
LEMMA ReadyMore ==
    ASSUME NEW i, NEW is, NEW js, is \subseteq js, ReadyToLoad(i, is)
    PROVE  ReadyToLoad(i, js)
  BY DEF ReadyToLoad, NameLoaded

LEMMA SameReady ==
    ASSUME UNCHANGED plugins, call'.pending = call.pending
    PROVE  /\ \A i, is : ReadyToLoad(i, is)' <=> ReadyToLoad(i, is)
           /\ \A is : Stuck(is)' <=> Stuck(is)
  BY DEF ReadyToLoad, NameLoaded, NameOf, HasPlugin, Stuck

LEMMA RangeAppend ==
    ASSUME NEW S, NEW s \in Seq(S), NEW x \in S
    PROVE  Range(Append(s, x)) = Range(s) \cup {x}
  <1> DEFINE t == Append(s, x)
             n == Len(s)
  <1>1. n \in Nat /\ DOMAIN s = 1..n /\ DOMAIN t = 1..n + 1
    OBVIOUS
  <1>2. t[n + 1] = x /\ \A i \in 1..n : t[i] = s[i]
    OBVIOUS
  <1> HIDE DEF t, n
  <1>3. Range(t) \subseteq Range(s) \cup {x}
    <2>1. ASSUME NEW i \in 1..n + 1
          PROVE  t[i] \in Range(s) \cup {x}
      <3>1. i = n + 1 \/ i \in 1..n
        BY <1>1
      <3> QED
        BY <1>1, <1>2, <3>1 DEF Range
    <2> QED
      BY <1>1, <2>1 DEF Range
  <1>4. Range(s) \cup {x} \subseteq Range(t)
    <2>1. ASSUME NEW i \in 1..n
          PROVE  s[i] \in Range(t)
      <3>1. i \in DOMAIN t /\ t[i] = s[i]
        BY <1>1, <1>2
      <3> QED
        BY <3>1 DEF Range
    <2>2. n + 1 \in DOMAIN t
      BY <1>1
    <2> QED
      BY <1>1, <1>2, <2>1, <2>2 DEF Range
  <1> QED
    BY <1>3, <1>4 DEF t

LEMMA SortNext ==
    ASSUME LoadInv, SortInv, [Next]_vars
    PROVE  SortInv'
  <1>1. call \in LoadCall /\ Reached /\ OrderOnce
    BY DEF LoadInv, CallInv
  <1>2. CASE ~At("order")'
    BY <1>2 DEF SortInv
  <1>3. CASE UNCHANGED <<plugins, call>>
    BY <1>3 DEF SortInv, Entries, Sorted, Unsorted, Stuck, ReadyToLoad, NameLoaded, HasPlugin, At
  <1>4. CASE ResolveDone
    <2>1. /\ call'.order = <<>> /\ call'.index = 1 /\ call'.pending = call.pending
      BY <1>1, <1>4 DEF ResolveDone, Reached, LoadCall
    <2>2. Sorted' = {} /\ \A i \in Unsorted' : ~(i < call'.index)
      BY <1>1, <2>1 DEF Sorted, Range, Unsorted, LoadCall
    <2> QED
      BY <2>2 DEF SortInv
  <1>5. CASE SortEntry
    <2> DEFINE i == call.index
               taken == i \in Unsorted /\ ReadyToLoad(i, Sorted)
    <2>1. At("order") /\ i \in Entries /\ UNCHANGED plugins
      BY <1>5 DEF SortEntry, Entries, appVars
    <2>2. call' = [call EXCEPT !.index = @ + 1, !.progress = @ \/ taken,
                               !.order = IF taken THEN Append(@, i) ELSE @]
      BY <1>5 DEF SortEntry
    <2>3. /\ call'.index = i + 1 /\ call'.pending = call.pending
          /\ call'.order = (IF taken THEN Append(call.order, i) ELSE call.order)
          /\ call'.progress = (call.progress \/ taken)
      BY <1>1, <2>2 DEF LoadCall
    <2>4. Entries' = Entries /\ Unsorted = Entries \ Sorted /\ Unsorted' = Entries \ Sorted'
      BY <2>3 DEF Entries, Unsorted
    <2>5. CASE taken
      <3>1. Sorted' = Sorted \cup {i} /\ i \notin Sorted
        <4>1. call'.order = Append(call.order, i)
          BY <2>3, <2>5
        <4>2. Sorted' = Sorted \cup {i}
          <5>1. call.order \in Seq(Nat) /\ i \in Nat
            BY <1>1 DEF LoadCall
          <5> QED
            BY <4>1, <5>1, RangeAppend DEF Sorted
        <4> QED
          BY <2>4, <2>5, <4>2
      <3>2. call'.progress
        BY <2>3, <2>5
      <3>3. ASSUME NEW is \in SUBSET Entries, is \cap Sorted' # {}
            PROVE  ~Stuck(is)
        <4>1. CASE is \cap Sorted # {}
          BY <2>1, <4>1 DEF SortInv
        <4>2. CASE is \cap Sorted = {}
          <5>1. i \in is /\ Sorted \subseteq Entries
            <6>1. Sorted \subseteq Entries
              BY <1>1 DEF OrderOnce, Sorted, Range, Entries
            <6> QED
              BY <3>1, <3>3, <4>2, <6>1
          <5>2. Sorted \subseteq Entries \ is
            BY <4>2, <5>1
          <5>3. ReadyToLoad(i, Entries \ is)
            BY <2>5, <5>2, ReadyMore
          <5> QED
            BY <5>1, <5>3 DEF Stuck, Entries
        <4> QED
          BY <4>1, <4>2
      <3> QED
        BY <2>1, <2>3, <2>4, <3>2, <3>3, SameReady DEF SortInv
    <2>6. CASE ~taken
      <3>1. call'.order = call.order /\ (call'.progress <=> call.progress)
        BY <1>1, <2>3, <2>6 DEF LoadCall
      <3>2. Sorted' = Sorted
        BY <3>1 DEF Sorted
      <3>3. ASSUME ~call'.progress, NEW j \in Unsorted, j < i + 1
            PROVE  ~ReadyToLoad(j, Sorted)
        <4>1. j \in Nat /\ i \in Nat
          BY <1>1 DEF LoadCall, Unsorted
        <4>2. CASE j = i
          BY <2>6, <3>3, <4>2
        <4>3. CASE j < i
          BY <2>1, <3>1, <3>3, <4>3 DEF SortInv
        <4> QED
          BY <3>3, <4>1, <4>2, <4>3
      <3> QED
        BY <2>1, <2>3, <2>4, <3>1, <3>2, <3>3, SameReady DEF SortInv
    <2> QED
      BY <2>5, <2>6
  <1>6. CASE SortPass /\ call'.at = "order"
    <2>1. /\ call'.order = call.order /\ call'.index = 1 /\ call'.pending = call.pending
          /\ UNCHANGED plugins /\ At("order")
      BY <1>1, <1>6, AtIdle DEF SortPass, Fail, Returns, LoadCall, appVars
    <2>2. Sorted' = Sorted /\ Entries' = Entries /\ Unsorted' = Unsorted
      BY <2>1 DEF Sorted, Entries, Unsorted
    <2>3. \A i \in Unsorted' : ~(i < call'.index)
      BY <1>1, <2>1, <2>2 DEF Unsorted, LoadCall
    <2> QED
      BY <2>1, <2>2, <2>3, SameReady DEF SortInv
  <1>7. CASE Host
    <2>1. CASE AddVfs \/ HostRun \/ HostDestroy \/ Cleanup
      <3>1. ~At("order") /\ call' = call
        BY <2>1 DEF AddVfs, HostRun, HostDestroy, HostReady, Cleanup, At, loaderVars, LoadInv,
                    Staged
      <3> QED
        BY <1>2, <3>1 DEF At
    <2>2. ASSUME NEW d \in HostDirs, HostMount(d)
          PROVE  SortInv'
      BY <1>3, <2>2 DEF HostMount, appVars
    <2>3. ASSUME NEW es \in Listings, LoadPackages(es)
          PROVE  ~At("order")'
      <3>1. Idle \in LoadCall /\ Idle.at = "idle"
        BY DEF Idle, LoadCall
      <3>2. [Idle EXCEPT !.at = "resolve", !.entries = es].at = "resolve"
        BY <3>1 DEF LoadCall
      <3> QED
        BY <2>3, <3>1, <3>2 DEF LoadPackages, Returns, At
    <2> QED
      BY <1>2, <1>7, <2>1, <2>2, <2>3 DEF Host
  <1>8. CASE AppStep \/ BuildAdds
    <2>1. ~At("order") /\ call' = call
      BY <1>8, AppBusy DEF AppStep, BuildAdds, LoadInv, Staged, At
    <2> QED
      BY <1>2, <2>1 DEF At
  <1>9. ASSUME NEW good \in BOOLEAN, NEW entry \in BOOLEAN, Resolve(good, entry)
        PROVE  ~At("order")'
    BY <1>1, <1>9, AtIdle DEF Resolve, Returns, At, LoadCall
  <1>10. ASSUME RegisterFails \/ RegisterScript \/ RegisterDone
         PROVE  ~At("order")'
    BY <1>1, <1>10, AtIdle
       DEF RegisterFails, RegisterScript, RegisterDone, Fail, Returns, At, LoadCall,
           CallWithScript, Registering
  <1>11. ASSUME RegisterCall \/ RegisterRefused
         PROVE  ~At("order")'
    BY <1>1, <1>11 DEF RegisterCall, RegisterRefused, At, LoadCall, CallWithScript
  <1>12. ASSUME NEW ok \in BOOLEAN, RegisterReturn \/ Inject(ok) \/ InjectEntry(ok) \/ LoadDone
         PROVE  ~At("order")'
    BY <1>1, <1>12, AtIdle
       DEF RegisterReturn, Inject, InjectEntry, LoadDone, Fail, Returns, At, LoadCall
  <1>13. CASE SortPass /\ call'.at # "order"
    BY <1>2, <1>13 DEF At
  <1>14. CASE Internal
    BY <1>2, <1>4, <1>5, <1>6, <1>8, <1>9, <1>10, <1>11, <1>12, <1>13, <1>14 DEF Internal
  <1> QED
    BY <1>3, <1>7, <1>14 DEF Next, Finished, vars, appVars, loaderVars
\* The outcome of a pass.
LEMMA PassOutcome ==
    ASSUME LoadInv, SortInv, SortPass
    PROVE  /\ At("register")' => ~\E is \in SUBSET Entries : Stuck(is)
           /\ At("idle")' => \E is \in SUBSET Entries : Stuck(is)
           /\ At("idle")' /\ returned' = "CIRCULAR_DEPENDENCY" =>
                \E is \in SUBSET Entries \ {{}} :
                  \A i \in is : \E j \in is :
                    NameOf(call.pending[j]) \cap call.pending[i].deps # {}
  <1>1. call \in LoadCall /\ OrderOnce /\ Reached
    BY DEF LoadInv, CallInv
  <1>2. At("order") /\ call.index \notin Entries
    BY DEF SortPass, Entries
  <1>3. Sorted \subseteq Entries /\ Unsorted = Entries \ Sorted
    BY <1>1 DEF OrderOnce, Sorted, Range, Entries, Unsorted
  <1>4. CASE PassesGoOn
    <2>1. call' = [call EXCEPT !.index = 1, !.progress = FALSE,
                     !.at = IF Unsorted = {} THEN "register" ELSE "order"]
      BY <1>4 DEF SortPass
    <2>2. call'.at = IF Unsorted = {} THEN "register" ELSE "order"
      BY <1>1, <2>1 DEF LoadCall
    <2>3. ASSUME Unsorted = {}, NEW is \in SUBSET Entries, Stuck(is)
          PROVE  FALSE
      <3>1. is # {} /\ is \subseteq Sorted
        BY <1>3, <2>3 DEF Stuck
      <3> QED
        BY <1>2, <2>3, <3>1 DEF SortInv
    <2> QED
      BY <2>2, <2>3 DEF At
  <1>5. CASE ~PassesGoOn
    <2>1. Unsorted # {} /\ ~call.progress
      BY <1>5 DEF PassesGoOn
    <2>2. Fail(IF SomeMissing THEN "MISSING_DEPENDENCY" ELSE "CIRCULAR_DEPENDENCY")
      BY <1>5 DEF SortPass
    <2>3. call'.at = "idle"
      BY <2>2, AtIdle DEF Fail, Returns
    <2>4. \A i \in Unsorted : ~ReadyToLoad(i, Sorted)
      <3> TAKE i \in Unsorted
      <3>1. i < call.index
        BY <1>1, <1>2, <1>3 DEF Reached, LoadCall, Entries
      <3> QED
        BY <1>2, <2>1, <3>1 DEF SortInv
    <2>5. Entries \ Unsorted = Sorted
      BY <1>3
    <2>6. Stuck(Unsorted)
      BY <2>1, <2>4, <2>5 DEF Stuck, Entries
    <2>7. Unsorted \in SUBSET Entries
      BY <1>3
    <2>8. ASSUME returned' = "CIRCULAR_DEPENDENCY", NEW i \in Unsorted
          PROVE  \E j \in Unsorted : NameOf(call.pending[j]) \cap call.pending[i].deps # {}
      <3>1. ~SomeMissing
        BY <2>2, <2>8 DEF Fail, Returns
      <3>2. PICK d \in call.pending[i].deps : ~NameLoaded(d, Sorted)
        BY <2>4 DEF ReadyToLoad
      <3>3. PICK j \in Unsorted : call.pending[j].pkg = d
        BY <3>1, <3>2 DEF SomeMissing
      <3>4. d \in NameOf(call.pending[j])
        BY <3>3 DEF NameOf
      <3> QED
        BY <3>4
    <2>9. returned' = "CIRCULAR_DEPENDENCY" =>
            \E is \in SUBSET Entries \ {{}} :
              \A i \in is : \E j \in is : NameOf(call.pending[j]) \cap call.pending[i].deps # {}
      BY <2>1, <2>7, <2>8
    <2> QED
      BY <2>3, <2>6, <2>7, <2>9 DEF At
  <1> QED
    BY <1>4, <1>5

\* load_packages sorts exactly: the passes find an order whenever there is one,
\* whatever order the entries come in, a call that is refused names entries that
\* cannot be sorted, and a circular dependency is reported only for entries that
\* wait for each other.
THEOREM SortCorrect == Spec => SortExact
  <1>1. Init => SortInv
    BY DEF Init, SortInv, Idle, At
  <1>2. ASSUME LoadInv, SortInv, [Next]_vars, At("order")
        PROVE  /\ At("register")' => ~\E is \in SUBSET DOMAIN call.pending : Stuck(is)
               /\ At("idle")' => \E is \in SUBSET DOMAIN call.pending : Stuck(is)
               /\ At("idle")' /\ returned' = "CIRCULAR_DEPENDENCY" =>
                    \E is \in SUBSET DOMAIN call.pending \ {{}} :
                      \A i \in is : \E j \in is :
                        NameOf(call.pending[j]) \cap call.pending[i].deps # {}
    <2>1. CASE SortPass
      BY <1>2, <2>1, PassOutcome DEF Entries
    <2>2. CASE ~SortPass
      <3>1. call \in LoadCall /\ call.at = "order" /\ Quiet /\ host = "up"
        BY <1>2 DEF LoadInv, CallInv, Staged, At
      <3>2. SortEntry \/ UNCHANGED call
        <4>1. CASE Host
          BY <3>1, <4>1
             DEF Host, AddVfs, HostRun, HostDestroy, HostReady, Cleanup, HostMount, LoadPackages,
                 At, loaderVars
        <4>2. CASE Internal
          <5>1. ~ResolveDone /\ \A good, entry \in BOOLEAN : ~Resolve(good, entry)
            BY <3>1 DEF Resolve, ResolveDone, At
          <5>2. ~(RegisterFails \/ RegisterScript \/ RegisterCall \/ RegisterRefused)
            BY <3>1 DEF RegisterFails, RegisterScript, RegisterCall, RegisterRefused, Registering,
                        At
          <5>3. ~(RegisterReturn \/ RegisterDone \/ LoadDone)
            BY <3>1 DEF RegisterReturn, RegisterDone, LoadDone, At
          <5>4. \A ok \in BOOLEAN : ~Inject(ok) /\ ~InjectEntry(ok)
            BY <3>1 DEF Inject, InjectEntry, At
          <5>5. ~AppStep /\ ~BuildAdds
            BY <3>1, AppBusy DEF AppStep
          <5> QED
            BY <2>2, <4>2, <5>1, <5>2, <5>3, <5>4, <5>5 DEF Internal
        <4> QED
          BY <1>2, <4>1, <4>2 DEF Next, Finished, vars, loaderVars
      <3>3. call'.at = "order"
        BY <3>1, <3>2 DEF SortEntry, LoadCall
      <3> QED
        BY <3>3 DEF At
    <2> QED
      BY <2>1, <2>2
  <1>3. LoadInv /\ SortInv /\ [Next]_vars =>
          [ At("order") =>
              /\ At("register")' => ~\E is \in SUBSET DOMAIN call.pending : Stuck(is)
              /\ At("idle")' => \E is \in SUBSET DOMAIN call.pending : Stuck(is)
              /\ At("idle")' /\ returned' = "CIRCULAR_DEPENDENCY" =>
                   \E is \in SUBSET DOMAIN call.pending \ {{}} :
                     \A i \in is : \E j \in is :
                       NameOf(call.pending[j]) \cap call.pending[i].deps # {} ]_vars
    BY <1>2
  <1> QED
    BY <1>1, <1>3, LoadSpec, SortNext, PTL DEF Spec, SortExact

-----------------------------------------------------------------------------
(* The App while the host is up                                             *)

\* What the proofs about App say of the App within the loader.
AppInv == AP!LifeInv /\ AP!NamesInv

\* Before the host runs or destroys the App only add_plugin works on it.
Up ==
    host = "up" =>
      /\ state[TheApp] \in {"Created", "Building"}
      /\ Len(stack) <= 2
      /\ Len(stack) >= 1 => stack[1].op = "add"
      /\ Len(stack) = 2 => stack[2].op = "drain"

RunInv == LoadInv /\ AppInv /\ Up

LEMMA StackSize ==
    ASSUME LoadInv
    PROVE  /\ stack \in Seq(AP!Call) /\ Len(stack) \in Nat /\ (stack = <<>> <=> Len(stack) = 0)
           /\ stack # <<>> => AP!Top \in AP!Call /\ AP!Top.app = TheApp /\ AP!Top = stack[Len(stack)]
  <1>1. stack \in Seq(AP!Call)
    BY DEF LoadInv, AP!TypeOK
  <1>2. stack # <<>> => AP!Top \in AP!Call
    BY <1>1, AppAssumed, AP!StackParts
  <1> QED
    BY <1>1, <1>2 DEF AP!Top, AP!Call

LEMMA UpSteps ==
    ASSUME LoadInv, Up, host = "up", AP!Internal
    PROVE  \/ Len(stack) = 1 /\ AP!AddReturn
           \/ /\ Len(stack) = 2
              /\ \/ AP!DrainStart \/ AP!DrainTake \/ AP!DrainCollected \/ AP!BuildCall
                 \/ \E ok \in BOOLEAN : AP!BuildReturn(ok)
  <1>1. ~Quiet
    BY InternalSame, AppBusy
  <1>2. /\ Len(stack) \in {1, 2} /\ AP!Top.op = (IF Len(stack) = 1 THEN "add" ELSE "drain")
    <2>1. Len(stack) \in {1, 2} /\ AP!Top = stack[Len(stack)]
      <3>1. stack # <<>> /\ Len(stack) <= 2
        BY <1>1 DEF Up, Quiet
      <3>2. Len(stack) \in Nat /\ Len(stack) # 0
        BY <3>1, StackSize, Zenon
      <3>3. AP!Top = stack[Len(stack)]
        BY <3>1, StackSize, Zenon
      <3>4. PICK n \in Nat : n = Len(stack)
        BY <3>2
      <3>5. n = 1 \/ n = 2
        BY <3>1, <3>2, <3>4
      <3> QED
        BY <3>3, <3>4, <3>5
    <2>2. CASE Len(stack) = 1
      BY <2>1, <2>2 DEF Up
    <2>3. CASE Len(stack) = 2
      BY <2>1, <2>3 DEF Up
    <2> QED
      BY <2>1, <2>2, <2>3
  <1>3. AP!Top.op \in {"add", "drain"}
    BY <1>2
  <1>4. ~(AP!PostStart \/ AP!PostSubapps \/ AP!PostDone) /\ \A ok \in BOOLEAN : ~AP!PostPlugin(ok)
    BY <1>3 DEF AP!PostStart, AP!PostSubapps, AP!PostDone, AP!PostPlugin, AP!At
  <1>5. ~(AP!PrepareStart \/ AP!PrepareDrained \/ AP!PreparePosted \/ AP!PrepareSubapps
            \/ AP!PrepareDone)
    BY <1>3 DEF AP!PrepareStart, AP!PrepareDrained, AP!PreparePosted, AP!PrepareSubapps,
                AP!PrepareDone, AP!At
  <1>6. ~(AP!RunPrepared \/ AP!RunnerReturn \/ AP!RunReturn)
    BY <1>3 DEF AP!RunPrepared, AP!RunnerReturn, AP!RunReturn, AP!At
  <1>7. ~(AP!TeardownSubapps \/ AP!TeardownPlugin \/ AP!TeardownDone)
    BY <1>3 DEF AP!TeardownSubapps, AP!TeardownPlugin, AP!TeardownDone, AP!At
  <1>8. AP!AddReturn => AP!Top.op = "add"
    BY DEF AP!AddReturn, AP!At
  <1>9. AP!DrainStart \/ AP!DrainTake \/ AP!DrainCollected \/ AP!BuildCall
          \/ (\E ok \in BOOLEAN : AP!BuildReturn(ok)) => AP!Top.op = "drain"
    BY DEF AP!DrainStart, AP!DrainTake, AP!DrainCollected, AP!BuildCall, AP!BuildReturn, AP!At
  <1> QED
    BY <1>2, <1>4, <1>5, <1>6, <1>7, <1>8, <1>9 DEF AP!Internal

LEMMA AddSame ==
    ASSUME NEW n \in Names, NEW ds \in SUBSET Names, A!AddPlugin(TheApp, n, ds)
    PROVE  AP!AddPlugin(TheApp, n, ds)
  BY DEF A!AddPlugin, AP!AddPlugin, A!ClientRuns, AP!ClientRuns, A!CanAdd, AP!CanAdd,
         A!Ready, AP!Ready, A!NewEntry, AP!NewEntry, A!At, AP!At, A!Top, AP!Top,
         A!NamesOf, AP!NamesOf, A!NewCall, AP!NewCall, A!Satisfiable, AP!Satisfiable

\* add_plugin from outside starts a drain or queues; from a build it queues.
LEMMA UpAdds ==
    ASSUME LoadInv, AppInv, Up, host = "up", NEW n \in Names, NEW ds \in SUBSET Names,
           AP!AddPlugin(TheApp, n, ds)
    PROVE  /\ state' = state
           /\ \/ stack' = stack
              \/ stack = <<>> /\ stack' = <<[AP!NewCall("add", TheApp) EXCEPT !.names = {n}],
                                            AP!NewCall("drain", TheApp)>>
  <1>1. CASE stack # <<>>
    <2>1. AP!At("drain", "build")
      BY <1>1 DEF AP!AddPlugin, AP!ClientRuns
    <2>2. state[TheApp] = "Building"
      <3>1. /\ stack[Len(stack)].op = "drain" /\ stack[Len(stack)].at = "build"
            /\ Len(stack) \in DOMAIN stack /\ stack[Len(stack)].app = TheApp
        BY <1>1, <2>1, StackSize DEF AP!At
      <3> QED
        BY <3>1 DEF AppInv, AP!LifeInv, AP!OrderInv, AP!DrainInv
    <2> QED
      BY <2>2 DEF AP!AddPlugin
  <1>2. CASE stack = <<>>
    BY <1>2 DEF AP!AddPlugin
  <1> QED
    BY <1>1, <1>2

LEMMA UpInternal ==
    ASSUME LoadInv, Up, AP!Internal, host' = host
    PROVE  Up'
  <1> SUFFICES ASSUME host = "up" PROVE Up'
    BY DEF Up
  <1>1. /\ stack \in Seq(AP!Call) /\ Len(stack) \in {1, 2} /\ stack # <<>>
        /\ AP!Top = stack[Len(stack)] /\ AP!Top \in AP!Call /\ AP!Top.app = TheApp
    BY UpSteps, StackSize
  <1>2. stack[1].op = "add" /\ (Len(stack) = 2 => stack[2].op = "drain")
    BY <1>1 DEF Up
  <1>3. state[TheApp] \in {"Created", "Building"} /\ state \in [{TheApp} -> A!AppStates]
    BY DEF Up, LoadInv, AP!TypeOK, A!AppStates, AP!AppStates
  <1>4. ASSUME NEW ok \in BOOLEAN, AP!Returns(ok), state'[TheApp] \in {"Created", "Building"}
        PROVE  Up'
    <2>1. /\ stack' \in Seq(AP!Call) /\ Len(stack') = Len(stack) - 1
          /\ \A i \in 1..Len(stack) - 1 : stack'[i] = stack[i]
      BY <1>1, <1>4, AppAssumed, AP!ReturnsParts
    <2> QED
      BY <1>1, <1>2, <1>4, <2>1 DEF Up
  <1>5. ASSUME NEW f \in AP!Call, f.op = AP!Top.op, AP!Goes(f),
               state'[TheApp] \in {"Created", "Building"}
        PROVE  Up'
    <2>1. /\ stack' \in Seq(AP!Call) /\ Len(stack') = Len(stack)
          /\ \A i \in 1..Len(stack) - 1 : stack'[i] = stack[i]
          /\ stack'[Len(stack)] = f
      BY <1>1, <1>5, AppAssumed, AP!GoesParts
    <2> QED
      BY <1>1, <1>2, <1>5, <2>1 DEF Up
  <1>6. CASE AP!AddReturn
    <2>1. AP!Returns(result) /\ state' = state /\ result \in BOOLEAN
      BY <1>6 DEF AP!AddReturn, LoadInv, AP!TypeOK
    <2> QED
      BY <1>3, <1>4, <2>1
  <1>7. CASE AP!DrainStart
    <2>1. [AP!Top EXCEPT !.at = "collect"] \in AP!Call
      BY <1>1 DEF AP!Call, AP!Places
    <2>2. [AP!Top EXCEPT !.at = "collect"].op = AP!Top.op
      BY <1>1 DEF AP!Call
    <2>3. state'[TheApp] = "Building"
      BY <1>1, <1>3, <1>7 DEF AP!DrainStart
    <2> QED
      BY <1>5, <1>7, <2>1, <2>2, <2>3 DEF AP!DrainStart
  <1>8. CASE AP!DrainTake
    <2>1. PICK i \in DOMAIN pending[TheApp] :
            AP!Goes([AP!Top EXCEPT !.ready = Append(@, pending[TheApp][i])])
      BY <1>1, <1>8 DEF AP!DrainTake
    <2>2. Append(AP!Top.ready, pending[TheApp][i]) \in Seq(AP!Entry)
      BY <1>1 DEF LoadInv, AP!TypeOK, AP!Call
    <2>3. [AP!Top EXCEPT !.ready = Append(@, pending[TheApp][i])] \in AP!Call
      BY <1>1, <2>2 DEF AP!Call
    <2>4. [AP!Top EXCEPT !.ready = Append(@, pending[TheApp][i])].op = AP!Top.op
      BY <1>1 DEF AP!Call
    <2> QED
      BY <1>3, <1>5, <1>8, <2>1, <2>3, <2>4 DEF AP!DrainTake
  <1>9. CASE AP!DrainCollected
    <2>1. [AP!Top EXCEPT !.at = "loop"] \in AP!Call
      BY <1>1 DEF AP!Call, AP!Places
    <2>2. [AP!Top EXCEPT !.at = "loop"].op = AP!Top.op
      BY <1>1 DEF AP!Call
    <2>3. CASE AP!Top.ready = <<>>
      <3>1. state'[TheApp] = "Created" /\ AP!Returns(pending[TheApp] = <<>>)
        BY <1>1, <1>3, <1>9, <2>3 DEF AP!DrainCollected
      <3>2. (pending[TheApp] = <<>>) \in BOOLEAN
        OBVIOUS
      <3> QED
        BY <1>4, <3>1, <3>2
    <2>4. CASE AP!Top.ready # <<>>
      <3>1. AP!Goes([AP!Top EXCEPT !.at = "loop"]) /\ state' = state
        BY <1>9, <2>4 DEF AP!DrainCollected
      <3> QED
        BY <1>3, <1>5, <2>1, <2>2, <3>1
    <2> QED
      BY <2>3, <2>4
  <1>10. CASE AP!BuildCall
    <2>1. AP!Goes([AP!Top EXCEPT !.at = "build", !.ready = Tail(@)]) /\ state' = state
      BY <1>10 DEF AP!BuildCall
    <2>2. Tail(AP!Top.ready) \in Seq(AP!Entry)
      BY <1>1, <1>10 DEF AP!BuildCall, AP!Call
    <2>3. [AP!Top EXCEPT !.at = "build", !.ready = Tail(@)] \in AP!Call
      BY <1>1, <2>2 DEF AP!Call, AP!Places
    <2>4. [AP!Top EXCEPT !.at = "build", !.ready = Tail(@)].op = AP!Top.op
      BY <1>1 DEF AP!Call
    <2> QED
      BY <1>3, <1>5, <2>1, <2>3, <2>4
  <1>11. ASSUME NEW ok \in BOOLEAN, AP!BuildReturn(ok)
         PROVE  Up'
    <2> DEFINE at == IF AP!Top.ready = <<>> THEN "collect" ELSE "loop"
    <2>1. at \in AP!Places
      BY DEF AP!Places
    <2> HIDE DEF at
    <2>2. [AP!Top EXCEPT !.at = at] \in AP!Call /\ [AP!Top EXCEPT !.at = at].op = AP!Top.op
      BY <1>1, <2>1 DEF AP!Call
    <2>3. CASE ok
      <3>1. AP!Goes([AP!Top EXCEPT !.at = at]) /\ state' = state
        BY <1>11, <2>3 DEF AP!BuildReturn, at
      <3> QED
        BY <1>3, <1>5, <2>2, <3>1
    <2>4. CASE ~ok
      <3>1. AP!Returns(FALSE) /\ state'[TheApp] = "Created"
        BY <1>1, <1>3, <1>11, <2>4 DEF AP!BuildReturn
      <3> QED
        BY <1>4, <3>1
    <2> QED
      BY <2>3, <2>4
  <1> QED
    BY <1>6, <1>7, <1>8, <1>9, <1>10, <1>11, UpSteps

LEMMA UpNext ==
    ASSUME LoadInv, AppInv, Up, [Next]_vars
    PROVE  Up'
  <1>1. CASE UNCHANGED <<state, stack, host>>
    BY <1>1 DEF Up
  <1>2. CASE host' # "up"
    BY <1>2 DEF Up
  <1>3. ASSUME host = "up", host' = host, NEW n \in Names, NEW ds \in SUBSET Names,
               A!AddPlugin(TheApp, n, ds)
        PROVE  Up'
    <2>1. /\ state' = state
          /\ \/ stack' = stack
             \/ stack = <<>> /\ stack' = <<[AP!NewCall("add", TheApp) EXCEPT !.names = {n}],
                                           AP!NewCall("drain", TheApp)>>
      BY <1>3, AddSame, UpAdds
    <2>2. CASE stack' = stack
      BY <1>1, <1>3, <2>1, <2>2
    <2>3. CASE stack' = <<[AP!NewCall("add", TheApp) EXCEPT !.names = {n}],
                          AP!NewCall("drain", TheApp)>>
      <3>1. /\ [AP!NewCall("add", TheApp) EXCEPT !.names = {n}].op = "add"
            /\ AP!NewCall("drain", TheApp).op = "drain"
        BY DEF AP!NewCall
      <3>2. /\ Len(stack') = 2 /\ stack'[1] = [AP!NewCall("add", TheApp) EXCEPT !.names = {n}]
            /\ stack'[2] = AP!NewCall("drain", TheApp)
        BY <2>3
      <3>3. state'[TheApp] \in {"Created", "Building"}
        BY <1>3, <2>1 DEF Up
      <3> QED
        BY <3>1, <3>2, <3>3 DEF Up
    <2> QED
      BY <2>1, <2>2, <2>3
  <1>4. CASE AppStep
    BY <1>4, InternalSame, UpInternal DEF AppStep
  <1>5. CASE BuildAdds
    <2>1. A!AddPlugin(TheApp, SubPlugin, {}) /\ host' = host /\ SubPlugin \in Names
      BY <1>5 DEF BuildAdds, Names
    <2>2. CASE host = "up"
      BY <1>3, <2>1, <2>2
    <2> QED
      BY <1>2, <2>1, <2>2
  <1>6. CASE RegisterCall
    <2>1. Current.pkg \in Packages /\ host = "up" /\ host' = host
      BY <1>6, CurrentType DEF RegisterCall, Registering, LoadInv, Staged, At
    <2>2. ManifestName[Current.pkg] \in Names /\ PluginDeps(Current.pkg) \in SUBSET Names
      BY <2>1 DEF Names, PluginDeps
    <2> QED
      BY <1>3, <1>6, <2>1, <2>2 DEF RegisterCall
  <1>7. CASE AddVfs
    <2>1. A!AddPlugin(TheApp, VfsPlugin, {}) /\ host' = host /\ host = "up" /\ VfsPlugin \in Names
      BY <1>7 DEF AddVfs, HostReady, loaderVars, Names
    <2> QED
      BY <1>3, <2>1
  <1>8. CASE HostRun \/ HostDestroy \/ Cleanup
    BY <1>2, <1>8 DEF HostRun, HostDestroy, Cleanup
  <1>9. CASE Host
    BY <1>1, <1>7, <1>8, <1>9 DEF Host, HostMount, LoadPackages, appVars
  <1>10. CASE Internal
    BY <1>1, <1>4, <1>5, <1>6, <1>10
       DEF Internal, Resolve, ResolveDone, SortEntry, SortPass, RegisterFails, RegisterScript,
           RegisterRefused, RegisterReturn, RegisterDone, Inject, InjectEntry, LoadDone, appVars
  <1> QED
    BY <1>1, <1>9, <1>10 DEF Next, Finished, vars, appVars, loaderVars

LEMMA RunInit == Init => RunInv
  <1> SUFFICES ASSUME Init PROVE RunInv
    OBVIOUS
  <1>1. AP!Init
    BY InitSame DEF Init
  <1>2. AppInv
    BY <1>1, AppAssumed, AP!LifeInit, AP!NamesInit DEF AppInv
  <1>3. Up
    BY <1>1 DEF AP!Init, Up
  <1> QED
    BY <1>2, <1>3, LoadInit DEF RunInv

LEMMA RunNext ==
    ASSUME RunInv, [Next]_vars
    PROVE  RunInv'
  <1>1. LoadInv' /\ [AP!Next]_(AP!vars)
    BY LoadNext DEF RunInv
  <1>2. AP!LifeInv'
    BY <1>1, AppAssumed, AP!LifeNext DEF RunInv, AppInv
  <1>3. AP!NamesInv'
    BY <1>1, AppAssumed, AP!NamesNext DEF RunInv, AppInv
  <1> QED
    BY <1>1, <1>2, <1>3, UpNext DEF RunInv, AppInv

LEMMA RunSpec == Spec => []RunInv
  BY RunInit, RunNext, PTL DEF Spec

\* While the host is up no plugin has been shut down.
Intact == host = "up" => \A i \in DOMAIN plugins[TheApp] : ~plugins[TheApp][i].down

LEMMA RunIntact == RunInv => Intact
  <1> SUFFICES ASSUME RunInv, host = "up"
               PROVE  \A i \in DOMAIN plugins[TheApp] : ~plugins[TheApp][i].down
    BY DEF Intact
  <1>1. state[TheApp] # "Shutdown"
    BY DEF RunInv, Up
  <1>2. ~AP!At("teardown", "plugins")
    <2>1. SUFFICES ASSUME stack # <<>> PROVE AP!Top.op # "teardown"
      BY DEF AP!At
    <2>2. Len(stack) \in {1, 2} /\ AP!Top = stack[Len(stack)]
      <3>1. Len(stack) \in Nat /\ Len(stack) # 0 /\ AP!Top = stack[Len(stack)]
        BY <2>1, StackSize, Zenon DEF RunInv
      <3>2. PICK n \in Nat : n = Len(stack)
        BY <3>1
      <3>3. n = 1 \/ n = 2
        BY <3>1, <3>2 DEF RunInv, Up
      <3> QED
        BY <3>1, <3>2, <3>3
    <2> QED
      BY <2>2 DEF RunInv, Up
  <1>3. AP!PluginOK(TheApp)
    BY DEF RunInv, AppInv, AP!LifeInv, AP!PluginInv
  <1> QED
    BY <1>1, <1>2, <1>3 DEF AP!PluginOK

-----------------------------------------------------------------------------
(* The mounts                                                               *)

\* The host mounts neither search roots nor directories of packages, which
\* locate_packages and resolve_package take for their own.
DirectoriesApart ==
    /\ Roots \cap (HostDirs \cup Packages) = {}
    /\ HostDirs \cap Packages = {}

\* The directories of the entries before the n-th.
EntriesBefore(n) == {call.entries[i] : i \in {i \in DOMAIN call.entries : i < n}}

\* A call has mounted directories of entries it has come to, which nobody had
\* mounted before, and nothing else changed the mounts.
MountInv ==
    /\ mounts = kept \cup call.mounted
    /\ kept \cap Packages \subseteq listed /\ kept \cap Roots = {}
    /\ IsInjective(call.entries)
    /\ Range(call.entries) \subseteq listed /\ Range(call.entries) \cap kept = {}
    /\ call.mounted \subseteq Range(call.entries)
    /\ At("resolve") => call.mounted \subseteq EntriesBefore(call.index)

LEMMA MountIdle ==
    ASSUME MountInv, call' = Idle, mounts' = kept', kept' \cap Packages \subseteq listed',
           kept' \cap Roots = {}
    PROVE  MountInv'
  <1>1. /\ call'.mounted = {} /\ call'.entries = <<>> /\ call'.at = "idle"
    BY DEF Idle
  <1>2. Range(call'.entries) = {} /\ IsInjective(call'.entries)
    BY <1>1 DEF Range, IsInjective
  <1> QED
    BY <1>1, <1>2 DEF MountInv, At

\* fail() leaves exactly what was there before the call.
LEMMA MountFails ==
    ASSUME MountInv, NEW r, Fail(r), UNCHANGED <<kept, listed>>
    PROVE  MountInv'
  <1>1. mounts \ call.mounted = kept
    BY DEF MountInv
  <1> QED
    BY <1>1, MountIdle DEF Fail, Returns, MountInv

LEMMA MountBegins ==
    ASSUME ~Reload, DirectoriesApart, LoadInv, MountInv, NEW es \in Listings, LoadPackages(es)
    PROVE  MountInv'
  <1>1. call = Idle /\ call.mounted = {} /\ mounts = kept
    BY DEF LoadPackages, LoadInv, CallInv, Reached, Idle, MountInv
  <1>2. /\ es \in Seq(Packages) /\ IsInjective(es) /\ Range(es) \cap listed = {}
        /\ Range(es) \subseteq Packages
    BY DEF Listings, SeqOf, Range
  <1>3. kept' = kept /\ listed' = listed \cup Range(es)
    BY DEF LoadPackages
  <1>4. CASE call' = Idle /\ mounts' = mounts
    BY <1>1, <1>3, <1>4, MountIdle DEF MountInv
  <1>5. CASE call' = [Idle EXCEPT !.at = "resolve", !.entries = es] /\ mounts' = mounts \ Roots
    <2>1. call'.mounted = {} /\ call'.entries = es
      BY <1>5 DEF Idle
    <2>2. mounts' = kept
      BY <1>1, <1>5 DEF MountInv
    <2>3. Range(es) \cap kept = {}
      BY <1>2 DEF MountInv
    <2> QED
      BY <1>2, <1>3, <2>1, <2>2, <2>3 DEF MountInv
  <1> QED
    BY <1>4, <1>5 DEF LoadPackages, Returns

LEMMA MountResolves ==
    ASSUME LoadInv, MountInv, NEW good \in BOOLEAN, NEW entry \in BOOLEAN, Resolve(good, entry)
    PROVE  MountInv'
  <1> DEFINE p == call.entries[call.index]
             r == ResolvedAs(p, good)
             now == MountsAfter(p, good)
             ours == call.mounted \cup IF Readable(p, good) THEN {p} ELSE {}
  <1>1. call \in LoadCall /\ At("resolve") /\ call.index \in DOMAIN call.entries
    BY DEF LoadInv, CallInv, Resolve
  <1>2. UNCHANGED <<kept, listed>>
    BY DEF Resolve
  <1>3. p \in Range(call.entries) /\ p \notin kept
    BY <1>1 DEF Range, MountInv
  <1>4. p \notin EntriesBefore(call.index)
    BY <1>1 DEF EntriesBefore, MountInv, IsInjective, LoadCall
  <1>5. p \notin mounts
    BY <1>1, <1>3, <1>4 DEF MountInv
  <1>6. now = kept \cup ours /\ kept \cap ours = {}
    <2>1. kept \cap call.mounted = {} /\ mounts = kept \cup call.mounted
      BY DEF MountInv
    <2> QED
      BY <1>3, <1>5, <2>1 DEF MountsAfter
  <1>7. CASE call' = Idle /\ mounts' = now \ ours
    BY <1>2, <1>6, <1>7, MountIdle DEF MountInv
  <1>8. CASE /\ call' = [call EXCEPT !.index = @ + 1, !.mounted = ours, !.pending = Append(@, r)]
             /\ mounts' = now
    <2>1. /\ call'.mounted = ours /\ call'.entries = call.entries /\ call'.index = call.index + 1
      BY <1>1, <1>8 DEF LoadCall
    <2>2. EntriesBefore(call.index) \cup {p} \subseteq EntriesBefore(call.index)'
      BY <1>1, <2>1 DEF EntriesBefore, LoadCall
    <2>3. ours \subseteq EntriesBefore(call.index) \cup {p} /\ ours \subseteq Range(call.entries)
      BY <1>1, <1>3 DEF MountInv
    <2>4. ours \subseteq EntriesBefore(call.index)'
      BY <2>2, <2>3
    <2> HIDE DEF ours
    <2> QED
      BY <1>2, <1>6, <1>8, <2>1, <2>3, <2>4 DEF MountInv
  <1> QED
    BY <1>7, <1>8 DEF Resolve, Returns

LEMMA MountNext ==
    ASSUME ~Reload, DirectoriesApart, RunInv, MountInv, [Next]_vars
    PROVE  MountInv'
  <1>1. LoadInv /\ LoadInv' /\ call \in LoadCall /\ (At("idle") => call = Idle)
    BY RunNext DEF RunInv, LoadInv, CallInv, Reached
  <1>2. ASSUME UNCHANGED <<mounts, kept, listed>>, call'.mounted = call.mounted,
               call'.entries = call.entries, ~At("resolve")'
        PROVE  MountInv'
    BY <1>2 DEF MountInv
  <1>3. CASE UNCHANGED <<mounts, kept, listed, call>>
    BY <1>3 DEF MountInv, At, EntriesBefore
  <1>4. ASSUME At("idle"), call' = call, mounts' = kept', listed' = listed,
               kept' \cap Packages \subseteq listed, kept' \cap Roots = {}
        PROVE  MountInv'
    BY <1>1, <1>4, MountIdle
  <1>5. At("idle") => mounts = kept
    BY <1>1 DEF MountInv, Idle
  <1>6. CASE AppStep
    <2> DEFINE down == IsDown(plugins'[TheApp])
    <2>1. /\ mounts' = (IF down THEN {} ELSE mounts) /\ kept' = (IF down THEN {} ELSE kept)
          /\ UNCHANGED <<call, listed, host>>
      BY <1>6 DEF AppStep
    <2>2. CASE down
      <3>1. Intact'
        <4>1. RunInv'
          BY RunNext
        <4>2. RunInv' => Intact'
          BY RunIntact, PTL
        <4> QED
          BY <4>1, <4>2
      <3>2. host # "up"
        BY <2>1, <2>2, <3>1 DEF Intact, IsDown
      <3>3. At("idle")
        BY <1>1, <3>2 DEF LoadInv, Staged
      <3> QED
        BY <1>4, <2>1, <2>2, <3>3
    <2>3. CASE ~down
      BY <1>3, <2>1, <2>3
    <2> QED
      BY <2>2, <2>3
  <1>7. CASE Host
    <2>1. CASE AddVfs \/ HostRun \/ HostDestroy \/ Cleanup
      BY <1>3, <2>1 DEF AddVfs, HostRun, HostDestroy, Cleanup, loaderVars
    <2>2. ASSUME NEW d \in HostDirs, HostMount(d)
          PROVE  MountInv'
      <3>1. /\ At("idle") /\ call' = call /\ listed' = listed
            /\ mounts' = mounts \cup {d} /\ kept' = kept \cup {d}
        BY <2>2 DEF HostMount, HostReady
      <3>2. d \notin Packages /\ d \notin Roots
        BY DEF DirectoriesApart
      <3> QED
        BY <1>4, <1>5, <3>1, <3>2 DEF MountInv
    <2> QED
      BY <1>1, <1>7, <2>1, <2>2, MountBegins DEF Host
  <1>8. CASE ResolveDone \/ SortEntry
    <2>1. /\ call'.mounted = call.mounted /\ call'.entries = call.entries /\ call'.at = "order"
      BY <1>1, <1>8 DEF ResolveDone, SortEntry, LoadCall, At
    <2> QED
      BY <1>2, <1>8, <2>1 DEF ResolveDone, SortEntry, At
  <1>9. CASE SortPass
    <2>1. CASE PassesGoOn
      <3>1. /\ call'.mounted = call.mounted /\ call'.entries = call.entries
            /\ call'.at \in {"register", "order"}
        BY <1>1, <1>9, <2>1 DEF SortPass, LoadCall
      <3> QED
        BY <1>2, <1>9, <2>1, <3>1 DEF SortPass, At
    <2> QED
      BY <1>9, <2>1, MountFails DEF SortPass
  <1>10. CASE RegisterFails
    BY <1>10, MountFails DEF RegisterFails
  <1>11. CASE RegisterScript \/ RegisterCall \/ RegisterRefused \/ RegisterDone
    <2>1. /\ call'.mounted = call.mounted /\ call'.entries = call.entries
          /\ call'.at \in {"register", "adding", "inject", "entries"}
      BY <1>1, <1>11
         DEF RegisterScript, RegisterCall, RegisterRefused, RegisterDone, LoadCall, At,
             CallWithScript, Registering
    <2> QED
      BY <1>2, <1>11, <2>1
         DEF RegisterScript, RegisterCall, RegisterRefused, RegisterDone, At
  <1>12. CASE RegisterReturn
    <2>1. CASE Succeeded
      <3>1. /\ call'.mounted = call.mounted /\ call'.entries = call.entries
            /\ call'.at = "register"
        BY <1>1, <1>12, <2>1 DEF RegisterReturn, LoadCall
      <3> QED
        BY <1>2, <1>12, <2>1, <3>1 DEF RegisterReturn, At
    <2> QED
      BY <1>12, <2>1, MountFails DEF RegisterReturn
  <1>13. ASSUME NEW ok \in BOOLEAN, Inject(ok) \/ InjectEntry(ok)
         PROVE  MountInv'
    <2>1. CASE ok
      <3>1. /\ call'.mounted = call.mounted /\ call'.entries = call.entries
            /\ call'.at = "entries"
        BY <1>1, <1>13, <2>1 DEF Inject, InjectEntry, LoadCall, At
      <3> QED
        BY <1>2, <1>13, <2>1, <3>1 DEF Inject, InjectEntry, At
    <2> QED
      BY <1>13, <2>1, MountFails DEF Inject, InjectEntry
  <1>14. CASE LoadDone
    <2>1. /\ call' = Idle /\ mounts' = mounts \ (call.mounted \ Assets) /\ listed' = listed
          /\ kept' = kept \cup (call.mounted \cap Assets)
      BY <1>14 DEF LoadDone, Returns
    <2>2. kept \cap call.mounted = {} /\ call.mounted \subseteq listed
      BY DEF MountInv
    <2>3. call.mounted \subseteq Packages
      BY <1>1 DEF LoadCall
    <2>4. mounts' = kept'
      BY <2>1, <2>2 DEF MountInv
    <2>5. kept' \cap Packages \subseteq listed' /\ kept' \cap Roots = {}
      BY <2>1, <2>2, <2>3 DEF MountInv, DirectoriesApart
    <2> QED
      BY <2>1, <2>4, <2>5, MountIdle
  <1>15. CASE BuildAdds
    BY <1>3, <1>15 DEF BuildAdds
  <1>16. CASE Internal
    BY <1>1, <1>6, <1>8, <1>9, <1>10, <1>11, <1>12, <1>13, <1>14, <1>15, <1>16, MountResolves
       DEF Internal
  <1> QED
    BY <1>3, <1>7, <1>16 DEF Next, Finished, vars, loaderVars

LEMMA MountInit == Init => MountInv
  <1> SUFFICES ASSUME Init PROVE MountInv
    OBVIOUS
  <1>1. /\ call.mounted = {} /\ call.entries = <<>> /\ call.at = "idle" /\ kept = {}
        /\ mounts = {}
    BY DEF Init, Idle
  <1>2. Range(call.entries) = {} /\ IsInjective(call.entries)
    BY <1>1 DEF Range, IsInjective
  <1> QED
    BY <1>1, <1>2 DEF MountInv, At

\* Between two calls of load_packages exactly those directories are mounted that
\* the host mounted or that an assets package of a successful call asked for,
\* whichever step of a call failed and whichever packages were on disk: provided
\* the host lists a package once and mounts neither search roots nor package
\* directories itself.
THEOREM MountsCorrect ==
    ASSUME ~Reload, DirectoriesApart
    PROVE  Spec => []MountsExact
  <1>1. RunInv /\ MountInv /\ [Next]_vars => MountInv'
    BY MountNext
  <1>2. RunInv /\ MountInv => MountsExact
    BY DEF RunInv, LoadInv, CallInv, Reached, MountInv, MountsExact, Idle
  <1> QED
    BY MountInit, <1>1, <1>2, RunSpec, PTL DEF Spec
=============================================================================
