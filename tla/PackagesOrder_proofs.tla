-------------------------- MODULE PackagesOrder_proofs --------------------------
(***************************************************************************)
(* Proofs about Packages, second part: plugins are added when what they     *)
(* depend on is built, libraries stay open as long as the App may call into *)
(* them, and packages are registered in the order of their dependencies.    *)
(***************************************************************************)
EXTENDS Packages_proofs

-----------------------------------------------------------------------------
(* The plugins that the App knows                                           *)

\* The plugins that were built, and those that are queued or taken to be built.
Built == AP!NamesOf(plugins[TheApp])
Waiting == AP!NamesOf(pending[TheApp])
Known == Built \cup Waiting \cup AP!Ready

LEMMA NamesAppend ==
    ASSUME NEW s \in Seq(AP!Entry), NEW e \in AP!Entry
    PROVE  AP!NamesOf(Append(s, e)) = AP!NamesOf(s) \cup {e.name}
  <1> DEFINE t == Append(s, e)
             n == Len(s)
  <1>1. /\ DOMAIN t = 1..n + 1 /\ DOMAIN s = 1..n /\ n \in Nat /\ t[n + 1] = e
        /\ \A i \in 1..n : t[i] = s[i]
    OBVIOUS
  <1> HIDE DEF t, n
  <1>2. 1..n + 1 = 1..n \cup {n + 1}
    BY <1>1
  <1>3. AP!NamesOf(t) = {s[i].name : i \in 1..n} \cup {e.name}
    BY <1>1, <1>2 DEF AP!NamesOf
  <1>4. AP!NamesOf(s) = {s[i].name : i \in 1..n}
    BY <1>1 DEF AP!NamesOf
  <1> QED
    BY <1>3, <1>4 DEF t

LEMMA NamesRemove ==
    ASSUME NEW s \in Seq(AP!Entry), NEW i \in DOMAIN s
    PROVE  AP!NamesOf(s) = AP!NamesOf(AP!RemoveAt(s, i)) \cup {s[i].name}
  <1> DEFINE t == AP!RemoveAt(s, i)
             n == Len(s)
  <1>1. /\ DOMAIN t = 1..n - 1
        /\ \A j \in 1..n - 1 : t[j] = IF j < i THEN s[j] ELSE s[j + 1]
    BY AppAssumed, AP!RemoveAtParts
  <1>2. n \in Nat /\ DOMAIN s = 1..n /\ i \in 1..n
    OBVIOUS
  <1> HIDE DEF t, n
  <1>3. ASSUME NEW j \in 1..n, j # i
        PROVE  \E k \in 1..n - 1 : t[k] = s[j]
    <2>1. CASE j < i
      <3>1. j \in 1..n - 1 /\ t[j] = s[j]
        BY <1>1, <1>2, <2>1
      <3> QED
        BY <3>1
    <2>2. CASE i < j
      <3>1. j - 1 \in 1..n - 1 /\ ~(j - 1 < i) /\ j - 1 + 1 = j
        BY <1>2, <2>2
      <3>2. t[j - 1] = s[j]
        BY <1>1, <3>1
      <3> QED
        BY <3>1, <3>2
    <2> QED
      BY <1>2, <1>3, <2>1, <2>2
  <1>4. ASSUME NEW k \in 1..n - 1
        PROVE  \E j \in 1..n : t[k] = s[j]
    <2>1. k \in 1..n /\ k + 1 \in 1..n
      BY <1>2
    <2> QED
      BY <1>1, <2>1
  <1>5. \A x \in AP!NamesOf(s) : x \in AP!NamesOf(t) \cup {s[i].name}
    <2> TAKE x \in AP!NamesOf(s)
    <2>1. PICK j \in 1..n : x = s[j].name
      BY <1>2 DEF AP!NamesOf
    <2> QED
      BY <1>1, <1>3, <2>1 DEF AP!NamesOf
  <1>6. \A x \in AP!NamesOf(t) : x \in AP!NamesOf(s)
    BY <1>1, <1>2, <1>4 DEF AP!NamesOf
  <1>7. s[i].name \in AP!NamesOf(s)
    BY DEF AP!NamesOf
  <1> QED
    BY <1>5, <1>6, <1>7 DEF t

LEMMA NamesTail ==
    ASSUME NEW s \in Seq(AP!Entry), s # <<>>
    PROVE  AP!NamesOf(s) = AP!NamesOf(Tail(s)) \cup {Head(s).name}
  <1> DEFINE t == Tail(s)
             n == Len(s)
  <1>1. /\ n \in Nat \ {0} /\ DOMAIN s = 1..n /\ DOMAIN t = 1..n - 1 /\ Head(s) = s[1]
        /\ \A k \in 1..n - 1 : t[k] = s[k + 1]
    OBVIOUS
  <1> HIDE DEF t, n
  <1>2. ASSUME NEW j \in 1..n, j # 1
        PROVE  \E k \in 1..n - 1 : t[k] = s[j]
    <2>1. j - 1 \in 1..n - 1 /\ j - 1 + 1 = j
      BY <1>1, <1>2
    <2>2. t[j - 1] = s[j]
      BY <1>1, <2>1
    <2> QED
      BY <2>1, <2>2
  <1>3. \A k \in 1..n - 1 : k + 1 \in 1..n
    BY <1>1
  <1>4. \A x \in AP!NamesOf(s) : x \in AP!NamesOf(t) \cup {Head(s).name}
    <2> TAKE x \in AP!NamesOf(s)
    <2>1. PICK j \in 1..n : x = s[j].name
      BY <1>1 DEF AP!NamesOf
    <2> QED
      BY <1>1, <1>2, <2>1 DEF AP!NamesOf
  <1>5. \A x \in AP!NamesOf(t) : x \in AP!NamesOf(s)
    BY <1>1, <1>3 DEF AP!NamesOf
  <1>6. Head(s).name \in AP!NamesOf(s)
    BY <1>1 DEF AP!NamesOf
  <1> QED
    BY <1>4, <1>5, <1>6 DEF t

\* What add_plugin and drain_pending_plugins do to the innermost call.
LEMMA TopReady ==
    ASSUME LoadInv, AP!Internal
    PROVE  /\ stack # <<>> /\ AP!Top \in AP!Call /\ AP!Top.app = TheApp
           /\ AP!Top.ready \in Seq(AP!Entry) /\ AP!Ready = AP!NamesOf(AP!Top.ready)
           /\ plugins \in [{TheApp} -> Seq(AP!Entry)] /\ pending \in [{TheApp} -> Seq(AP!Entry)]
  <1>1. stack # <<>>
    BY InternalSame, AppBusy DEF Quiet
  <1>2. AP!Top \in AP!Call /\ AP!Top.app = TheApp
    BY <1>1, StackSize
  <1>3. AP!Ready = AP!NamesOf(AP!Top.ready)
    BY <1>1 DEF AP!Ready
  <1> QED
    BY <1>1, <1>2, <1>3 DEF LoadInv, AP!TypeOK, AP!Call

LEMMA ReadyGoes ==
    ASSUME LoadInv, AP!Internal, NEW f \in AP!Call, AP!Goes(f)
    PROVE  AP!Ready' = AP!NamesOf(f.ready)
  <1>1. stack' # <<>> /\ AP!Top' = f
    BY TopReady, AppAssumed, AP!GoesParts DEF LoadInv, AP!TypeOK
  <1> QED
    BY <1>1 DEF AP!Ready

LEMMA ReadyUndrained ==
    ASSUME LoadInv', AP!Undrained(stack')
    PROVE  AP!Ready' = {}
  <1>1. stack' # <<>> => AP!Top'.ready = <<>>
    BY AppAssumed, AP!UndrainedTop DEF LoadInv
  <1>2. AP!NamesOf(<<>>) = {}
    BY DEF AP!NamesOf
  <1> QED
    BY <1>1, <1>2 DEF AP!Ready

\* A step of the App never makes a plugin known.  It forgets none, and unbuilds
\* none, as long as no build fails.
KnownKept ==
    /\ Known' \subseteq Known
    /\ ~BuildsFail => Known' = Known /\ Built \subseteq Built'

LEMMA KnownMarks ==
    ASSUME LoadInv, AppInv, LoadInv', AP!Undrained(stack'), AP!Internal, AP!Top.op # "drain",
           AP!Named(plugins'[TheApp], plugins[TheApp]), AP!Named(pending'[TheApp], pending[TheApp])
    PROVE  KnownKept
  <1>1. Built' = Built /\ Waiting' = Waiting
    <2>1. PICK ps, qs : ps = plugins'[TheApp] /\ qs = pending'[TheApp]
      OBVIOUS
    <2>2. PICK us, vs : us = plugins[TheApp] /\ vs = pending[TheApp]
      OBVIOUS
    <2>3. AP!NamesOf(ps) = AP!NamesOf(us) /\ AP!NamesOf(qs) = AP!NamesOf(vs)
      BY <2>1, <2>2, AppAssumed, AP!NamedSame
    <2>4. Built' = AP!NamesOf(ps) /\ Waiting' = AP!NamesOf(qs)
      BY <2>1 DEF Built, Waiting, AP!NamesOf
    <2>5. Built = AP!NamesOf(us) /\ Waiting = AP!NamesOf(vs)
      BY <2>2 DEF Built, Waiting
    <2> QED
      BY <2>3, <2>4, <2>5
  <1>2. AP!Ready' = {}
    BY ReadyUndrained
  <1>3. AP!Ready = {}
    <2>1. AP!Top.ready = <<>>
      <3>1. Len(stack) \in DOMAIN stack /\ AP!Top = stack[Len(stack)]
        BY TopReady, AppAssumed, AP!StackParts DEF LoadInv, AP!TypeOK, AP!Top
      <3> QED
        BY <3>1 DEF AppInv, AP!LifeInv, AP!OrderInv, AP!DrainInv
    <2> QED
      BY <2>1, TopReady DEF AP!NamesOf
  <1> QED
    BY <1>1, <1>2, <1>3 DEF Known, KnownKept

LEMMA KnownDrains ==
    ASSUME LoadInv, AppInv, LoadInv', AP!Internal,
           AP!DrainStart \/ AP!DrainTake \/ AP!DrainCollected \/ AP!BuildCall
             \/ \E ok \in BOOLEAN : AP!BuildReturn(ok)
    PROVE  KnownKept
  <1>1. /\ stack # <<>> /\ AP!Top \in AP!Call /\ AP!Top.app = TheApp
        /\ AP!Top.ready \in Seq(AP!Entry) /\ AP!Ready = AP!NamesOf(AP!Top.ready)
        /\ plugins \in [{TheApp} -> Seq(AP!Entry)] /\ pending \in [{TheApp} -> Seq(AP!Entry)]
    BY TopReady
  <1>2. ASSUME UNCHANGED <<plugins, pending>>, NEW at \in AP!Places,
               AP!Goes([AP!Top EXCEPT !.at = at])
        PROVE  KnownKept
    <2>1. [AP!Top EXCEPT !.at = at] \in AP!Call
      BY <1>1 DEF AP!Call
    <2>2. [AP!Top EXCEPT !.at = at].ready = AP!Top.ready
      BY <1>1 DEF AP!Call
    <2>3. AP!Ready' = AP!Ready
      BY <1>1, <1>2, <2>1, <2>2, ReadyGoes
    <2> QED
      BY <1>2, <2>3 DEF KnownKept, Known, Built, Waiting, AP!NamesOf
  <1>3. CASE AP!DrainStart
    BY <1>2, <1>3 DEF AP!DrainStart, AP!Places
  <1>4. CASE AP!DrainTake
    <2>1. PICK i \in DOMAIN pending[TheApp] :
             /\ pending' = [pending EXCEPT ![TheApp] = AP!RemoveAt(pending[TheApp], i)]
             /\ AP!Goes([AP!Top EXCEPT !.ready = Append(AP!Top.ready, pending[TheApp][i])])
             /\ UNCHANGED plugins
      BY <1>1, <1>4 DEF AP!DrainTake
    <2>2. PICK q \in Seq(AP!Entry) : q = pending[TheApp]
      BY <1>1
    <2>3. i \in DOMAIN q /\ q[i] \in AP!Entry
      BY <2>1, <2>2
    <2>4. Append(AP!Top.ready, q[i]) \in Seq(AP!Entry)
      BY <1>1, <2>3
    <2>5. [AP!Top EXCEPT !.ready = Append(AP!Top.ready, q[i])] \in AP!Call
      BY <1>1, <2>4 DEF AP!Call
    <2>6. [AP!Top EXCEPT !.ready = Append(AP!Top.ready, q[i])].ready = Append(AP!Top.ready, q[i])
      BY <1>1 DEF AP!Call
    <2>7. AP!Ready' = AP!Ready \cup {q[i].name}
      <3>1. AP!Ready' = AP!NamesOf(Append(AP!Top.ready, q[i]))
        BY <2>1, <2>2, <2>5, <2>6, ReadyGoes
      <3> QED
        BY <1>1, <2>3, <3>1, NamesAppend
    <2>8. Waiting = Waiting' \cup {q[i].name}
      <3>1. pending'[TheApp] = AP!RemoveAt(q, i)
        BY <1>1, <2>1, <2>2
      <3>2. AP!NamesOf(q) = AP!NamesOf(AP!RemoveAt(q, i)) \cup {q[i].name}
        BY <2>3, NamesRemove
      <3>3. Waiting = AP!NamesOf(q)
        BY <2>2 DEF Waiting
      <3>4. PICK t : t = AP!RemoveAt(q, i)
        OBVIOUS
      <3>5. Waiting' = AP!NamesOf(t)
        BY <3>1, <3>4 DEF Waiting, AP!NamesOf
      <3> QED
        BY <3>2, <3>3, <3>4, <3>5
    <2>9. Built' = Built
      BY <2>1 DEF Built, AP!NamesOf
    <2> QED
      BY <2>7, <2>8, <2>9 DEF Known, KnownKept
  <1>5. CASE AP!DrainCollected
    <2>1. UNCHANGED <<plugins, pending>>
      BY <1>5 DEF AP!DrainCollected
    <2>2. CASE AP!Top.ready = <<>>
      <3>1. AP!Undrained(stack')
        BY <1>1, <1>5, <2>2, AppAssumed, AP!AfterReturns
           DEF AP!DrainCollected, AppInv, AP!LifeInv, AP!OrderInv
      <3>2. AP!Ready' = {}
        BY <3>1, ReadyUndrained
      <3>3. AP!Ready = {}
        BY <1>1, <2>2 DEF AP!NamesOf
      <3> QED
        BY <2>1, <3>2, <3>3 DEF KnownKept, Known, Built, Waiting, AP!NamesOf
    <2>3. CASE AP!Top.ready # <<>>
      BY <1>2, <1>5, <2>1, <2>3 DEF AP!DrainCollected, AP!Places
    <2> QED
      BY <2>2, <2>3
  <1>6. CASE AP!BuildCall
    <2>1. /\ plugins' = [plugins EXCEPT ![TheApp] = Append(plugins[TheApp], Head(AP!Top.ready))]
          /\ AP!Goes([AP!Top EXCEPT !.at = "build", !.ready = Tail(AP!Top.ready)])
          /\ UNCHANGED pending /\ AP!Top.ready # <<>>
      BY <1>1, <1>6 DEF AP!BuildCall, AP!Call
    <2>2. PICK r \in Seq(AP!Entry) : r = AP!Top.ready /\ r # <<>>
      BY <1>1, <2>1
    <2>3. Head(r) \in AP!Entry /\ Tail(r) \in Seq(AP!Entry)
      BY <2>2
    <2>4. [AP!Top EXCEPT !.at = "build", !.ready = Tail(r)] \in AP!Call
      BY <1>1, <2>3 DEF AP!Call, AP!Places
    <2>5. [AP!Top EXCEPT !.at = "build", !.ready = Tail(r)].ready = Tail(r)
      BY <1>1 DEF AP!Call
    <2>6. AP!Ready' = AP!NamesOf(Tail(r))
      BY <2>1, <2>2, <2>4, <2>5, ReadyGoes
    <2>7. AP!Ready = AP!Ready' \cup {Head(r).name}
      BY <1>1, <2>2, <2>6, NamesTail
    <2>8. Built' = Built \cup {Head(r).name}
      <3>1. plugins'[TheApp] = Append(plugins[TheApp], Head(r))
        BY <1>1, <2>1, <2>2
      <3>2. AP!NamesOf(Append(plugins[TheApp], Head(r))) = Built \cup {Head(r).name}
        BY <1>1, <2>3, NamesAppend DEF Built
      <3> QED
        BY <3>1, <3>2 DEF Built, AP!NamesOf
    <2>9. Waiting' = Waiting
      BY <2>1 DEF Waiting, AP!NamesOf
    <2> QED
      BY <2>7, <2>8, <2>9 DEF Known, KnownKept
  <1>7. ASSUME NEW ok \in BOOLEAN, AP!BuildReturn(ok)
        PROVE  KnownKept
    <2>1. CASE ok
      BY <1>2, <1>7, <2>1 DEF AP!BuildReturn, AP!Places
    <2>2. CASE ~ok
      <3>1. /\ BuildsFail /\ UNCHANGED pending /\ AP!Returns(FALSE)
            /\ plugins' = [plugins EXCEPT ![TheApp] =
                             SubSeq(plugins[TheApp], 1, Len(plugins[TheApp]) - 1)]
        BY <1>1, <1>7, <2>2 DEF AP!BuildReturn
      <3>2. AP!Undrained(stack')
        BY <1>1, <3>1, AppAssumed, AP!AfterReturns DEF AppInv, AP!LifeInv, AP!OrderInv
      <3>3. AP!Ready' = {}
        BY <3>2, ReadyUndrained
      <3>4. Built' \subseteq Built
        <4>1. PICK s \in Seq(AP!Entry) : s = plugins[TheApp]
          BY <1>1
        <4>2. plugins'[TheApp] = SubSeq(s, 1, Len(s) - 1)
          BY <1>1, <3>1, <4>1
        <4>3. AP!Unique(s)
          BY <4>1 DEF AppInv, AP!NamesInv
        <4>4. AP!NamesOf(SubSeq(s, 1, Len(s) - 1)) \subseteq AP!NamesOf(s)
          BY <4>3, AppAssumed, AP!UniquePrefix
        <4> QED
          BY <4>1, <4>2, <4>4 DEF Built, AP!NamesOf
      <3>5. Waiting' = Waiting
        BY <3>1 DEF Waiting, AP!NamesOf
      <3> QED
        BY <3>1, <3>3, <3>4, <3>5 DEF Known, KnownKept
    <2> QED
      BY <2>1, <2>2
  <1> QED
    BY <1>3, <1>4, <1>5, <1>6, <1>7

LEMMA KnownInternal ==
    ASSUME LoadInv, AppInv, LoadInv', AP!Internal
    PROVE  KnownKept
  <1>1. /\ stack # <<>> /\ AP!Top \in AP!Call /\ AP!Top.app = TheApp
        /\ plugins \in [{TheApp} -> Seq(AP!Entry)] /\ pending \in [{TheApp} -> Seq(AP!Entry)]
    BY TopReady
  <1>2. \A es : AP!Named(es, es)
    BY DEF AP!Named
  <1>3. ASSUME \/ AP!AddReturn \/ AP!PostStart \/ AP!PostSubapps \/ AP!PostDone
               \/ AP!PrepareStart \/ AP!PrepareDrained \/ AP!PreparePosted \/ AP!PrepareSubapps
               \/ AP!PrepareDone \/ AP!RunPrepared \/ AP!RunnerReturn \/ AP!RunReturn
               \/ AP!TeardownSubapps \/ AP!TeardownPlugin \/ AP!TeardownDone
               \/ \E ok \in BOOLEAN : AP!PostPlugin(ok)
        PROVE  AP!Undrained(stack') /\ AP!Top.op # "drain"
    <2>1. AP!Undrained(stack')
      BY <1>3, AppAssumed, AP!OrderOther DEF AppInv, AP!LifeInv
    <2>2. AP!Top.op # "drain"
      BY <1>3 DEF AP!At, AP!AddReturn, AP!PostStart, AP!PostSubapps, AP!PostDone,
         AP!PrepareStart, AP!PrepareDrained, AP!PreparePosted, AP!PrepareSubapps,
         AP!PrepareDone, AP!RunPrepared, AP!RunnerReturn, AP!RunReturn, AP!TeardownSubapps,
         AP!TeardownPlugin, AP!TeardownDone, AP!PostPlugin
    <2> QED
      BY <2>1, <2>2
  <1>4. CASE \/ AP!PostStart \/ AP!PostSubapps \/ AP!PostDone
             \/ AP!PrepareStart \/ AP!PrepareDrained \/ AP!PreparePosted \/ AP!PrepareSubapps
             \/ AP!PrepareDone \/ AP!RunPrepared \/ AP!RunnerReturn \/ AP!RunReturn
             \/ AP!TeardownSubapps \/ AP!TeardownDone
    <2>1. UNCHANGED <<plugins, pending>>
      BY <1>4 DEF AP!PostStart, AP!PostSubapps, AP!PostDone, AP!PrepareStart,
         AP!PrepareDrained, AP!PreparePosted, AP!PrepareSubapps, AP!PrepareDone, AP!RunPrepared,
         AP!RunnerReturn, AP!RunReturn, AP!TeardownSubapps, AP!TeardownDone
    <2>2. AP!Named(plugins'[TheApp], plugins[TheApp]) /\ AP!Named(pending'[TheApp], pending[TheApp])
      BY <1>2, <2>1
    <2> QED
      BY <1>3, <1>4, <2>2, KnownMarks
  <1>5. CASE AP!AddReturn
    <2> DEFINE taken == {n \in AP!Top.names : result \/ n \in AP!NamesOf(plugins[TheApp])}
               gone == AP!Top.names \ taken
    <2>1. UNCHANGED plugins
      BY <1>5 DEF AP!AddReturn
    <2>2. pending'[TheApp] = [i \in DOMAIN pending[TheApp] |->
                                IF pending[TheApp][i].name \in gone
                                THEN [pending[TheApp][i] EXCEPT !.freed = TRUE]
                                ELSE pending[TheApp][i]]
      BY <1>1, <1>5 DEF AP!AddReturn
    <2> HIDE DEF gone
    <2>3. ASSUME NEW i \in DOMAIN pending[TheApp]
          PROVE  pending'[TheApp][i].name = pending[TheApp][i].name
      <3>1. PICK e \in AP!Entry : e = pending[TheApp][i]
        BY <1>1
      <3>2. [e EXCEPT !.freed = TRUE].name = e.name
        BY DEF AP!Entry
      <3>3. pending'[TheApp][i] = e \/ pending'[TheApp][i] = [e EXCEPT !.freed = TRUE]
        BY <2>2, <3>1
      <3> QED
        BY <3>1, <3>2, <3>3
    <2>4. AP!Named(pending'[TheApp], pending[TheApp])
      BY <2>2, <2>3 DEF AP!Named
    <2>5. AP!Named(plugins'[TheApp], plugins[TheApp])
      BY <1>2, <2>1
    <2> QED
      BY <1>3, <1>5, <2>4, <2>5, KnownMarks
  <1>6. CASE AP!TeardownPlugin \/ \E ok \in BOOLEAN : AP!PostPlugin(ok)
    <2>1. UNCHANGED pending
      BY <1>6 DEF AP!TeardownPlugin, AP!PostPlugin
    <2>2. PICK k \in DOMAIN plugins[TheApp] :
            \/ plugins' = [plugins EXCEPT ![TheApp][k].down = TRUE]
            \/ plugins' = [plugins EXCEPT ![TheApp][k].posted = @ + 1]
      BY <1>1, <1>6 DEF AP!TeardownPlugin, AP!PostPlugin
    <2>3. PICK ps \in Seq(AP!Entry) : ps = plugins[TheApp]
      BY <1>1
    <2>4. k \in DOMAIN ps /\ ps[k] \in AP!Entry
      BY <2>2, <2>3
    <2>5. PICK qs : qs = plugins'[TheApp]
      OBVIOUS
    <2>6. \/ qs = [ps EXCEPT ![k].down = TRUE]
          \/ qs = [ps EXCEPT ![k].posted = @ + 1]
      BY <1>1, <2>2, <2>3, <2>5
    <2>7. AP!Named(qs, ps)
      <3>1. PICK e \in AP!Entry : e = ps[k]
        BY <2>4
      <3>2. [e EXCEPT !.down = TRUE].name = e.name /\ [e EXCEPT !.posted = @ + 1].name = e.name
        BY DEF AP!Entry
      <3>3. PICK v : v.name = e.name /\ qs = [ps EXCEPT ![k] = v]
        BY <2>6, <3>1, <3>2
      <3> QED
        BY <2>4, <3>1, <3>3 DEF AP!Named
    <2>8. AP!Named(plugins'[TheApp], plugins[TheApp])
      BY <2>3, <2>5, <2>7 DEF AP!Named
    <2>9. AP!Named(pending'[TheApp], pending[TheApp])
      BY <1>2, <2>1
    <2> QED
      BY <1>3, <1>6, <2>8, <2>9, KnownMarks
  <1>7. CASE AP!DrainStart \/ AP!DrainTake \/ AP!DrainCollected \/ AP!BuildCall
               \/ \E ok \in BOOLEAN : AP!BuildReturn(ok)
    BY <1>7, KnownDrains
  <1> QED
    BY <1>4, <1>5, <1>6, <1>7 DEF AP!Internal

\* add_plugin makes one plugin known.
LEMMA KnownAdds ==
    ASSUME LoadInv, AppInv, NEW n \in Names, NEW ds \in SUBSET Names,
           AP!AddPlugin(TheApp, n, ds)
    PROVE  Known' = Known \cup {n} /\ Built' = Built
  <1>1. pending \in [{TheApp} -> Seq(AP!Entry)]
    BY DEF LoadInv, AP!TypeOK
  <1>2. AP!NewEntry(n, ds) \in AP!Entry /\ AP!NewEntry(n, ds).name = n
    BY DEF AP!NewEntry, AP!Entry
  <1>3. pending'[TheApp] = Append(pending[TheApp], AP!NewEntry(n, ds)) /\ UNCHANGED plugins
    BY <1>1 DEF AP!AddPlugin
  <1>4. PICK q \in Seq(AP!Entry), e \in AP!Entry : q = pending[TheApp] /\ e = AP!NewEntry(n, ds)
    BY <1>1, <1>2
  <1>5. PICK t : t = Append(q, e)
    OBVIOUS
  <1>6. AP!NamesOf(t) = AP!NamesOf(q) \cup {n}
    BY <1>2, <1>4, <1>5, NamesAppend
  <1>7. Waiting' = AP!NamesOf(t)
    BY <1>3, <1>4, <1>5 DEF Waiting, AP!NamesOf
  <1>8. Waiting = AP!NamesOf(q)
    BY <1>4 DEF Waiting
  <1>9. AP!Ready' = AP!Ready
    <2>1. CASE stack' = stack
      BY <2>1 DEF AP!Ready, AP!Top, AP!NamesOf
    <2>2. CASE stack' # stack
      <3>1. stack' = stack \o <<[AP!NewCall("add", TheApp) EXCEPT !.names = {n}],
                                AP!NewCall("drain", TheApp)>>
        BY <2>2 DEF AP!AddPlugin
      <3>2. stack = <<>>
        <4>1. SUFFICES ASSUME stack # <<>> PROVE FALSE
          OBVIOUS
        <4>2. AP!At("drain", "build")
          BY <4>1 DEF AP!AddPlugin, AP!ClientRuns
        <4>3. /\ stack[Len(stack)].op = "drain" /\ stack[Len(stack)].at = "build"
              /\ Len(stack) \in DOMAIN stack /\ stack[Len(stack)].app = TheApp
          BY <4>1, <4>2, StackSize DEF AP!At
        <4>4. state[TheApp] = "Building"
          BY <4>3 DEF AppInv, AP!LifeInv, AP!OrderInv, AP!DrainInv
        <4> QED
          BY <2>2, <4>4 DEF AP!AddPlugin
      <3>3. stack' = <<[AP!NewCall("add", TheApp) EXCEPT !.names = {n}],
                       AP!NewCall("drain", TheApp)>>
        BY <3>1, <3>2
      <3>4. Len(stack') = 2 /\ stack'[2] = AP!NewCall("drain", TheApp)
        BY <3>3
      <3>5. AP!Top' = AP!NewCall("drain", TheApp) /\ stack' # <<>>
        BY <3>3, <3>4 DEF AP!Top
      <3>6. AP!Top'.ready = <<>>
        BY <3>5 DEF AP!NewCall
      <3>7. AP!NamesOf(<<>>) = {}
        BY DEF AP!NamesOf
      <3> QED
        BY <3>2, <3>5, <3>6, <3>7 DEF AP!Ready
    <2> QED
      BY <2>1, <2>2
  <1>10. Built' = Built
    BY <1>3 DEF Built, AP!NamesOf
  <1> QED
    BY <1>6, <1>7, <1>8, <1>9, <1>10 DEF Known

\* The host's requests make no plugin known.
LEMMA KnownHost ==
    ASSUME LoadInv, LoadInv', HostRun \/ HostDestroy
    PROVE  Known' \subseteq Known
  <1>1. UNCHANGED <<plugins, pending>> /\ (stack' = stack \/ AP!Undrained(stack'))
    <2>1. CASE HostRun
      BY <2>1 DEF HostRun, A!Run, AP!Undrained, A!NewCall
    <2>2. CASE HostDestroy
      BY <2>2 DEF HostDestroy, A!Teardown, AP!Undrained, A!NewCall, appVars
    <2> QED
      BY <2>1, <2>2
  <1>2. AP!Ready' \subseteq AP!Ready
    <2>1. CASE stack' = stack
      BY <2>1 DEF AP!Ready, AP!Top, AP!NamesOf
    <2>2. CASE AP!Undrained(stack')
      BY <2>2, ReadyUndrained
    <2> QED
      BY <1>1, <2>1, <2>2
  <1>3. Built' = Built /\ Waiting' = Waiting
    BY <1>1 DEF Built, Waiting, AP!NamesOf
  <1> QED
    BY <1>2, <1>3 DEF Known

\* While the host is up, and no build fails, the App forgets no plugin.
LEMMA BuiltNext ==
    ASSUME ~BuildsFail, RunInv, RunInv', [Next]_vars, host = "up"
    PROVE  Built \subseteq Built' /\ (host' = "up" => Known \subseteq Known')
  <1>1. LoadInv /\ AppInv /\ LoadInv'
    BY DEF RunInv
  <1>2. CASE UNCHANGED appVars
    BY <1>2 DEF appVars, Built, Waiting, Known, AP!Ready, AP!Top, AP!NamesOf
  <1>3. CASE AppStep
    BY <1>1, <1>3, InternalSame, KnownInternal DEF AppStep, KnownKept
  <1>4. ASSUME NEW n \in Names, NEW ds \in SUBSET Names, A!AddPlugin(TheApp, n, ds)
        PROVE  Built \subseteq Built' /\ Known \subseteq Known'
    BY <1>1, <1>4, AddSame, KnownAdds
  <1>5. CASE BuildAdds
    BY <1>4, <1>5 DEF BuildAdds, Names
  <1>6. CASE RegisterCall
    <2>1. Current.pkg \in Packages
      BY <1>1, <1>6, CurrentType DEF RegisterCall, Registering, LoadInv
    <2>2. ManifestName[Current.pkg] \in Names /\ PluginDeps(Current.pkg) \in SUBSET Names
      BY <2>1 DEF Names, PluginDeps
    <2> QED
      BY <1>4, <1>6, <2>2 DEF RegisterCall
  <1>7. CASE AddVfs
    BY <1>4, <1>7 DEF AddVfs, Names
  <1>8. CASE HostRun \/ HostDestroy
    <2>1. plugins' = plugins /\ host' # "up"
      BY <1>8 DEF HostRun, HostDestroy, A!Run, A!Teardown, appVars
    <2> QED
      BY <2>1 DEF Built, AP!NamesOf
  <1>9. CASE Host
    BY <1>2, <1>7, <1>8, <1>9 DEF Host, Cleanup, HostMount, LoadPackages
  <1>10. CASE Internal
    BY <1>2, <1>3, <1>5, <1>6, <1>10
       DEF Internal, Resolve, ResolveDone, SortEntry, SortPass, RegisterFails, RegisterScript,
           RegisterRefused, RegisterReturn, RegisterDone, Inject, InjectEntry, LoadDone
  <1> QED
    BY <1>2, <1>9, <1>10 DEF Next, Finished, vars

-----------------------------------------------------------------------------
(* Dependencies between packages                                            *)

\* No two packages share a name, and none has the name of one of the plugins
\* that no package brings.
NamesApart ==
    /\ \A p, q \in Packages :
         {p, ManifestName[p]} \cap {q, ManifestName[q]} # {} => p = q
    /\ \A p \in Packages : {p, ManifestName[p]} \cap {VfsPlugin, SubPlugin} = {}
    /\ VfsPlugin # SubPlugin

\* What an entry is resolved as, with its manifest and, for a static package,
\* without.
FullEntry(p) ==
    [pkg |-> p, name |-> ManifestName[p], deps |-> deps[p], script |-> p \in Scripts,
     library |-> p \notin Scripts \/ p \in Runtimes]

BareEntry(p) ==
    [pkg |-> p, name |-> None, deps |-> {}, script |-> FALSE, library |-> FALSE]

EntryOK(r) == r = FullEntry(r.pkg) \/ (r.pkg \in Statics /\ r = BareEntry(r.pkg))

EntryInv == \A i \in Entries : EntryOK(call.pending[i])

\* The k-th entry that is registered.
PkgAt(k) == call.pending[call.order[k]].pkg
ScriptAt(k) == call.pending[call.order[k]].script
Before(k) == {call.order[j] : j \in 1..k - 1}

\* Every entry was ready when it was taken.
OrderedInv == \A k \in DOMAIN call.order : ReadyToLoad(call.order[k], Before(k))

LEMMA ReadyKept ==
    ASSUME Built \subseteq Built', call'.pending = call.pending
    PROVE  \A i, is : ReadyToLoad(i, is) => ReadyToLoad(i, is)'
  <1>1. \A n : HasPlugin(n) => HasPlugin(n)'
    BY TopSame DEF HasPlugin, Built, A!NamesOf, AP!NamesOf
  <1> QED
    BY <1>1 DEF ReadyToLoad, NameLoaded, NameOf

\* The name of a package stands for its plugin or for an entry.
LEMMA NameFound ==
    ASSUME NamesApart, LoadInv, EntryInv, NEW is \in SUBSET Entries, NEW q \in Packages,
           NEW d \in {q, ManifestName[q]}, NameLoaded(d, is)
    PROVE  ManifestName[q] \in Built \/ \E i \in is : call.pending[i].pkg = q
  <1>1. \A n : HasPlugin(n) <=> n \in Built
    BY TopSame DEF HasPlugin, Built
  <1>2. Built \subseteq Names
    <2>1. plugins[TheApp] \in Seq(AP!Entry)
      BY DEF LoadInv, AP!TypeOK
    <2>2. \A i \in DOMAIN plugins[TheApp] : plugins[TheApp][i] \in AP!Entry
      BY <2>1
    <2> QED
      BY <2>2 DEF Built, AP!NamesOf, AP!Entry
  <1>3. \A i \in Entries : /\ call.pending[i].pkg \in Packages
                           /\ call.pending[i].name \in {ManifestName[call.pending[i].pkg], None}
    <2>1. call.pending \in Seq(Resolved)
      BY DEF LoadInv, CallInv, LoadCall
    <2>2. \A i \in Entries : call.pending[i] \in Resolved
      BY <2>1 DEF Entries
    <2>3. \A r : EntryOK(r) => r.name \in {ManifestName[r.pkg], None}
      <3>1. \A p : FullEntry(p).name = ManifestName[p] /\ BareEntry(p).name = None
        BY DEF FullEntry, BareEntry
      <3> QED
        BY <3>1 DEF EntryOK
    <2> QED
      BY <2>2, <2>3 DEF EntryInv, Resolved
  <1>4. CASE HasPlugin(d)
    <2>1. d \in Built /\ d \in Names
      BY <1>1, <1>2, <1>4
    <2>2. PICK p \in Packages : d = ManifestName[p]
      BY <2>1 DEF Names, NamesApart
    <2>3. p = q
      BY <2>2 DEF NamesApart
    <2> QED
      BY <2>1, <2>2, <2>3
  <1>5. CASE \E i \in Entries : call.pending[i].pkg = d /\ HasPlugin(call.pending[i].name)
    <2>1. PICK i \in Entries : call.pending[i].pkg = d /\ HasPlugin(call.pending[i].name)
      BY <1>5
    <2>2. None \notin Names
      BY PackagesAssumption
    <2>3. d \in Packages /\ ManifestName[d] \in Built
      BY <1>1, <1>2, <1>3, <2>1, <2>2
    <2>4. d = q
      BY <2>3 DEF NamesApart
    <2> QED
      BY <2>3, <2>4
  <1>6. CASE \E i \in is : d \in NameOf(call.pending[i])
    <2>1. PICK i \in is : d \in NameOf(call.pending[i])
      BY <1>6
    <2>2. d \in {call.pending[i].pkg, ManifestName[call.pending[i].pkg]}
      BY <1>3, <2>1 DEF NameOf
    <2>3. call.pending[i].pkg = q
      BY <1>3, <2>1, <2>2 DEF NamesApart
    <2> QED
      BY <2>1, <2>3
  <1> QED
    BY <1>4, <1>5, <1>6 DEF NameLoaded, Entries

\* What the k-th entry needs has a plugin, or comes before it.
LEMMA DepsMet ==
    ASSUME NamesApart, LoadInv, EntryInv, OrderedInv, NEW k \in DOMAIN call.order,
           PkgAt(k) \notin Statics, NEW q \in Needs(PkgAt(k))
    PROVE  ManifestName[q] \in Built \/ \E j \in 1..k - 1 : PkgAt(j) = q
  <1>1. call.order \in Seq(DOMAIN call.pending)
    BY DEF LoadInv, CallInv, OrderOnce
  <1>2. call.order[k] \in Entries /\ Before(k) \in SUBSET Entries
    <2>1. \A j \in DOMAIN call.order : call.order[j] \in Entries
      BY <1>1 DEF Entries
    <2>2. \A j \in 1..k - 1 : j \in DOMAIN call.order
      BY <1>1
    <2> QED
      BY <2>1, <2>2 DEF Before
  <1>3. call.pending[call.order[k]] = FullEntry(PkgAt(k))
    BY <1>2 DEF EntryInv, EntryOK, PkgAt
  <1>4. PICK d \in deps[PkgAt(k)] : d \in {q, ManifestName[q]}
    BY DEF Needs
  <1>5. call.pending[call.order[k]].deps = deps[PkgAt(k)]
    BY <1>3 DEF FullEntry
  <1>6. NameLoaded(d, Before(k))
    BY <1>4, <1>5 DEF OrderedInv, ReadyToLoad
  <1>7. q \in Packages
    BY DEF Needs
  <1>8. ManifestName[q] \in Built \/ \E i \in Before(k) : call.pending[i].pkg = q
    BY <1>2, <1>4, <1>6, <1>7, NameFound
  <1> QED
    BY <1>8 DEF Before, PkgAt

\* What a step does to the lists of entries.
LEMMA ListSteps ==
    ASSUME LoadInv, [Next]_vars
    PROVE  \/ call'.pending = <<>> /\ call'.order = <<>>
           \/ \E good, entry \in BOOLEAN : Resolve(good, entry)
           \/ SortEntry
           \/ call'.pending = call.pending /\ call'.order = call.order
  <1>1. call \in LoadCall
    BY DEF LoadInv, CallInv
  <1>2. call' = Idle => call'.pending = <<>> /\ call'.order = <<>>
    BY DEF Idle
  <1>3. CASE Host
    <2>1. AddVfs \/ HostRun \/ HostDestroy \/ Cleanup => call' = call
      BY DEF AddVfs, loaderVars, HostRun, HostDestroy, Cleanup
    <2>2. \A d \in HostDirs : HostMount(d) => call' = call
      BY DEF HostMount
    <2>3. ASSUME NEW es \in Listings, LoadPackages(es)
          PROVE  call'.pending = <<>> /\ call'.order = <<>>
      <3>1. [Idle EXCEPT !.at = "resolve", !.entries = es].pending = <<>>
        BY DEF Idle
      <3>2. [Idle EXCEPT !.at = "resolve", !.entries = es].order = <<>>
        BY DEF Idle
      <3> QED
        BY <1>2, <2>3, <3>1, <3>2 DEF LoadPackages, Returns
    <2> QED
      BY <1>3, <2>1, <2>2, <2>3 DEF Host
  <1>4. CASE ResolveDone \/ SortPass \/ RegisterFails \/ RegisterScript \/ RegisterDone
    BY <1>1, <1>2, <1>4
       DEF ResolveDone, SortPass, RegisterFails, RegisterScript, RegisterDone, Fail, Returns,
           CallWithScript, LoadCall
  <1>5. CASE RegisterCall \/ RegisterRefused \/ RegisterReturn
    BY <1>1, <1>2, <1>5
       DEF RegisterCall, RegisterRefused, RegisterReturn, Fail, Returns, CallWithScript, LoadCall
  <1>6. ASSUME NEW ok \in BOOLEAN, Inject(ok) \/ InjectEntry(ok)
        PROVE  \/ call'.pending = <<>> /\ call'.order = <<>>
               \/ call'.pending = call.pending /\ call'.order = call.order
    BY <1>1, <1>2, <1>6 DEF Inject, InjectEntry, Fail, Returns, LoadCall
  <1>7. CASE LoadDone \/ AppStep \/ BuildAdds
    BY <1>2, <1>7 DEF LoadDone, Returns, AppStep, BuildAdds
  <1>8. CASE Internal
    BY <1>4, <1>5, <1>6, <1>7, <1>8 DEF Internal
  <1> QED
    BY <1>3, <1>8 DEF Next, Finished, vars, loaderVars

\* What Resolve and SortEntry do to them.
LEMMA ResolveAppends ==
    ASSUME LoadInv, NEW good \in BOOLEAN, NEW entry \in BOOLEAN, Resolve(good, entry)
    PROVE  \/ call' = Idle
           \/ \E r \in Resolved : /\ call'.pending = Append(call.pending, r)
                                  /\ call'.order = call.order /\ call.order = <<>> /\ EntryOK(r)
  <1> DEFINE p == call.entries[call.index]
             r == ResolvedAs(p, good)
             ours == call.mounted \cup IF Readable(p, good) THEN {p} ELSE {}
  <1>1. CASE call' = Idle
    BY <1>1
  <1>2. CASE /\ call' = [call EXCEPT !.index = @ + 1, !.mounted = ours, !.pending = Append(@, r)]
             /\ Readable(p, good) \/ p \in Statics
    <2>1. call \in LoadCall /\ At("resolve") /\ call.index \in DOMAIN call.entries
          /\ call.order = <<>> /\ LoaderType
      BY DEF Resolve, LoadInv, CallInv, Reached
    <2>2. p \in Packages
      BY <2>1 DEF LoadCall
    <2>3. r \in Resolved
      BY <2>1, <2>2, ResolvedType
    <2>4. r = FullEntry(p) \/ (p \in Statics /\ r = BareEntry(p))
      BY <1>2 DEF ResolvedAs, FullEntry, BareEntry
    <2>5. r.pkg = p
      BY DEF ResolvedAs
    <2>6. EntryOK(r)
      BY <2>4, <2>5 DEF EntryOK
    <2> HIDE DEF ours, r
    <2>7. call'.pending = Append(call.pending, r) /\ call'.order = call.order
      BY <1>2, <2>1 DEF LoadCall
    <2> QED
      BY <2>1, <2>3, <2>6, <2>7
  <1> QED
    BY <1>1, <1>2 DEF Resolve, Returns

LEMMA EntryNext ==
    ASSUME LoadInv, EntryInv, [Next]_vars, deps' = deps
    PROVE  EntryInv'
  <1>0. \A r : EntryOK(r)' <=> EntryOK(r)
    BY DEF EntryOK, FullEntry, BareEntry
  <1>1. CASE call'.pending = <<>>
    BY <1>1 DEF EntryInv, Entries
  <1>2. CASE call'.pending = call.pending
    BY <1>0, <1>2 DEF EntryInv, Entries
  <1>3. ASSUME NEW r \in Resolved, call'.pending = Append(call.pending, r), EntryOK(r)
        PROVE  EntryInv'
    <2>1. PICK s \in Seq(Resolved) : s = call.pending
      BY DEF LoadInv, CallInv, LoadCall
    <2>2. PICK t \in Seq(Resolved) : t = call'.pending
      <3>1. Append(s, r) \in Seq(Resolved)
        OBVIOUS
      <3> QED
        BY <1>3, <2>1, <3>1
    <2>3. t = Append(s, r)
      BY <1>3, <2>1, <2>2
    <2>4. \A i \in DOMAIN t : t[i] = r \/ (i \in DOMAIN s /\ t[i] = s[i])
      BY <2>3
    <2>5. \A i \in DOMAIN t : EntryOK(t[i])
      BY <1>3, <2>1, <2>4 DEF EntryInv, Entries
    <2>6. \A i \in DOMAIN t : EntryOK(t[i])'
      BY <1>0, <2>5
    <2> QED
      BY <2>2, <2>6 DEF EntryInv, Entries
  <1>4. ASSUME NEW good \in BOOLEAN, NEW entry \in BOOLEAN, Resolve(good, entry)
        PROVE  EntryInv'
    <2>1. CASE call' = Idle
      BY <1>1, <2>1 DEF Idle
    <2> QED
      BY <1>3, <1>4, <2>1, ResolveAppends
  <1>5. CASE SortEntry
    <2>1. call'.pending = call.pending
      BY <1>5 DEF SortEntry, LoadInv, CallInv, LoadCall
    <2> QED
      BY <1>2, <2>1
  <1> QED
    BY <1>1, <1>2, <1>4, <1>5, ListSteps

LEMMA OrderedNext ==
    ASSUME LoadInv, OrderedInv, [Next]_vars, Built \subseteq Built'
    PROVE  OrderedInv'
  <1>0. call \in LoadCall /\ OrderOnce
    BY DEF LoadInv, CallInv
  <1>1. CASE call'.order = <<>>
    BY <1>1 DEF OrderedInv
  <1>2. CASE call'.pending = call.pending /\ call'.order = call.order
    <2>1. PICK s : s = call.order /\ s = call'.order
      BY <1>2
    <2>2. \A i, is : ReadyToLoad(i, is) => ReadyToLoad(i, is)'
      BY <1>2, ReadyKept
    <2>3. \A k \in DOMAIN s : ReadyToLoad(s[k], {s[m] : m \in 1..k - 1})
      BY <2>1 DEF OrderedInv, Before
    <2>4. \A k \in DOMAIN s : ReadyToLoad(s[k], {s[m] : m \in 1..k - 1})'
      BY <2>2, <2>3
    <2> QED
      BY <2>1, <2>4 DEF OrderedInv, Before
  <1>3. ASSUME NEW good \in BOOLEAN, NEW entry \in BOOLEAN, Resolve(good, entry)
        PROVE  OrderedInv'
    <2>1. call'.order = <<>>
      <3>1. call' = Idle => call'.order = <<>>
        BY DEF Idle
      <3> QED
        BY <1>3, <3>1, ResolveAppends
    <2> QED
      BY <1>1, <2>1
  <1>4. CASE SortEntry
    <2> DEFINE i == call.index
               taken == i \in Unsorted /\ ReadyToLoad(i, Sorted)
    <2>1. /\ call'.pending = call.pending
          /\ call'.order = IF taken THEN Append(call.order, i) ELSE call.order
      BY <1>0, <1>4 DEF SortEntry, LoadCall
    <2>2. CASE ~taken
      BY <1>2, <2>1, <2>2
    <2>3. CASE taken
      <3>1. PICK s \in Seq(Nat), j \in Nat : s = call.order /\ j = i
        BY <1>0 DEF LoadCall
      <3>2. PICK t : t = call'.order
        OBVIOUS
      <3>3. t = Append(s, j) /\ ReadyToLoad(j, Range(s))
        BY <2>1, <2>3, <3>1, <3>2 DEF Sorted
      <3>4. \A x, is : ReadyToLoad(x, is) => ReadyToLoad(x, is)'
        BY <2>1, ReadyKept
      <3>5. ASSUME NEW k \in DOMAIN t
            PROVE  ReadyToLoad(t[k], {t[m] : m \in 1..k - 1})
        <4>1. CASE k \in DOMAIN s
          <5>1. \A m \in 1..k - 1 : m \in DOMAIN s /\ t[m] = s[m]
            BY <3>1, <3>3, <4>1
          <5>2. t[k] = s[k] /\ {t[m] : m \in 1..k - 1} = {s[m] : m \in 1..k - 1}
            BY <3>1, <3>3, <4>1, <5>1
          <5>3. ReadyToLoad(s[k], {s[m] : m \in 1..k - 1})
            BY <3>1, <4>1 DEF OrderedInv, Before
          <5> QED
            BY <5>2, <5>3
        <4>2. CASE k \notin DOMAIN s
          <5>1. k = Len(s) + 1 /\ t[k] = j
            BY <3>1, <3>3, <4>2
          <5>2. \A m \in 1..k - 1 : m \in DOMAIN s /\ t[m] = s[m]
            BY <3>1, <3>3, <5>1
          <5>3. DOMAIN s = 1..k - 1
            BY <3>1, <5>1
          <5>4. {t[m] : m \in 1..k - 1} = Range(s)
            BY <5>2, <5>3 DEF Range
          <5> QED
            BY <3>3, <5>1, <5>4
        <4> QED
          BY <4>1, <4>2
      <3>6. \A k \in DOMAIN t : ReadyToLoad(t[k], {t[m] : m \in 1..k - 1})'
        BY <3>4, <3>5
      <3> QED
        BY <3>2, <3>6 DEF OrderedInv, Before
    <2> QED
      BY <2>2, <2>3
  <1> QED
    BY <1>1, <1>2, <1>3, <1>4, ListSteps

-----------------------------------------------------------------------------
(* The queue of the App                                                     *)

\* What waits to be built has its dependencies built: a drain leaves nothing
\* behind, and succeeds.
QueueInv ==
    host = "up" =>
      /\ \A i \in DOMAIN pending[TheApp] : pending[TheApp][i].deps \subseteq Built
      /\ Len(stack) < 2 => pending[TheApp] = <<>>
      /\ Len(stack) = 1 => result

LEMMA SatisfiedBuilt ==
    \A e : AP!Satisfied(TheApp, e) <=> e.deps \subseteq Built
  BY DEF AP!Satisfied, Built

LEMMA QueueAdds ==
    ASSUME RunInv, RunInv', QueueInv, host = "up", host' = "up", NEW n \in Names,
           NEW ds \in SUBSET Names, ds \subseteq Built, AP!AddPlugin(TheApp, n, ds)
    PROVE  QueueInv' /\ stack' # <<>>
  <1>1. LoadInv /\ AppInv /\ Up
    BY DEF RunInv
  <1>2. pending \in [{TheApp} -> Seq(AP!Entry)] /\ stack \in Seq(AP!Call)
    BY <1>1 DEF LoadInv, AP!TypeOK
  <1>3. PICK q \in Seq(AP!Entry) : q = pending[TheApp]
    BY <1>2
  <1>4. PICK e \in AP!Entry : e = AP!NewEntry(n, ds) /\ e.deps = ds
    <2>1. AP!NewEntry(n, ds) \in AP!Entry /\ AP!NewEntry(n, ds).deps = ds
      BY DEF AP!NewEntry, AP!Entry
    <2> QED
      BY <2>1
  <1>5. PICK t : t = Append(q, e)
    OBVIOUS
  <1>6. pending'[TheApp] = t /\ UNCHANGED plugins /\ Built' = Built
    BY <1>2, <1>3, <1>4, <1>5 DEF AP!AddPlugin, Built, AP!NamesOf
  <1>7. \A i \in DOMAIN t : t[i] = e \/ (i \in DOMAIN q /\ t[i] = q[i])
    BY <1>5
  <1>8. \A i \in DOMAIN t : t[i].deps \subseteq Built
    BY <1>3, <1>4, <1>7 DEF QueueInv
  <1>9. stack' # <<>> /\ Len(stack') = 2
    <2>1. CASE stack = <<>>
      <3>1. state[TheApp] # "Building"
        BY <1>1, <2>1 DEF AppInv, AP!LifeInv, AP!PluginInv, AP!PluginOK
      <3>2. AP!Satisfiable(TheApp, t)
        BY <1>8 DEF AP!Satisfiable, Built
      <3>3. stack' = stack \o <<[AP!NewCall("add", TheApp) EXCEPT !.names = {n}],
                                AP!NewCall("drain", TheApp)>>
        BY <1>3, <1>4, <1>5, <3>1, <3>2 DEF AP!AddPlugin
      <3>4. stack' = <<[AP!NewCall("add", TheApp) EXCEPT !.names = {n}],
                       AP!NewCall("drain", TheApp)>>
        BY <2>1, <3>3
      <3> QED
        BY <3>4
    <2>2. CASE stack # <<>>
      <3>1. stack' = stack
        BY <1>1, <2>2, UpAdds
      <3>2. AP!At("drain", "build") /\ AP!Top = stack[Len(stack)] /\ Len(stack) \in Nat
            /\ Len(stack) # 0
        BY <1>1, <2>2, StackSize DEF AP!AddPlugin, AP!ClientRuns
      <3>3. PICK m \in Nat : m = Len(stack)
        BY <3>2
      <3>4. m # 1
        BY <1>1, <3>2, <3>3 DEF Up, AP!At
      <3>5. m <= 2 /\ m # 0
        BY <1>1, <3>2, <3>3 DEF Up
      <3> QED
        BY <2>2, <3>1, <3>3, <3>4, <3>5
    <2> QED
      BY <2>1, <2>2
  <1> QED
    BY <1>6, <1>8, <1>9 DEF QueueInv

LEMMA QueueInternal ==
    ASSUME ~BuildsFail, RunInv, RunInv', QueueInv, host = "up", host' = "up", AP!Internal
    PROVE  /\ QueueInv'
           /\ stack' = <<>> => result'
  <1>1. LoadInv /\ AppInv /\ Up /\ LoadInv'
    BY DEF RunInv
  <1>2. /\ stack # <<>> /\ AP!Top \in AP!Call /\ AP!Top.app = TheApp
        /\ AP!Top.ready \in Seq(AP!Entry) /\ stack \in Seq(AP!Call)
        /\ plugins \in [{TheApp} -> Seq(AP!Entry)] /\ pending \in [{TheApp} -> Seq(AP!Entry)]
    BY <1>1, TopReady DEF LoadInv, AP!TypeOK
  <1>3. Built \subseteq Built'
    BY <1>1, KnownInternal DEF KnownKept
  <1>4. PICK q \in Seq(AP!Entry) : q = pending[TheApp] /\ \A i \in DOMAIN q : q[i].deps \subseteq Built
    BY <1>2 DEF QueueInv
  <1>5. ASSUME NEW f \in AP!Call, AP!Goes(f), Len(stack) = 2, NEW r, r = pending'[TheApp],
               \A i \in DOMAIN r : r[i].deps \subseteq Built
        PROVE  QueueInv' /\ (stack' = <<>> => result')
    <2>1. Len(stack') = 2 /\ stack' # <<>>
      BY <1>2, <1>5, AppAssumed, AP!GoesParts
    <2> QED
      BY <1>3, <1>5, <2>1 DEF QueueInv
  <1>6. ASSUME NEW at \in AP!Places, AP!Goes([AP!Top EXCEPT !.at = at]), Len(stack) = 2,
               UNCHANGED pending
        PROVE  QueueInv' /\ (stack' = <<>> => result')
    <2>1. [AP!Top EXCEPT !.at = at] \in AP!Call
      BY <1>2 DEF AP!Call
    <2>2. q = pending'[TheApp]
      BY <1>4, <1>6
    <2> QED
      BY <1>4, <1>5, <1>6, <2>1, <2>2
  <1>7. CASE Len(stack) = 1 /\ AP!AddReturn
    <2>1. AP!Returns(result) /\ result
      BY <1>7 DEF AP!AddReturn, QueueInv
    <2>7. result \in BOOLEAN
      BY <1>1 DEF LoadInv, AP!TypeOK
    <2>8. Len(stack') = Len(stack) - 1 /\ (result' <=> result)
      BY <1>2, <2>1, <2>7, AppAssumed, AP!ReturnsParts
    <2>2. Len(stack') = 0 /\ result'
      BY <1>7, <2>1, <2>8
    <2>3. q = <<>>
      BY <1>4, <1>7 DEF QueueInv
    <2>4. DOMAIN pending'[TheApp] = DOMAIN q
      BY <1>2, <1>4, <1>7 DEF AP!AddReturn
    <2>5. pending'[TheApp] \in Seq(AP!Entry)
      BY <1>1 DEF LoadInv, AP!TypeOK
    <2>6. pending'[TheApp] = <<>>
      <3>1. PICK r \in Seq(AP!Entry) : r = pending'[TheApp]
        BY <2>5
      <3>2. DOMAIN r = {}
        BY <2>3, <2>4, <3>1
      <3>3. r = <<>>
        BY <3>2
      <3> QED
        BY <3>1, <3>3
    <2> QED
      BY <2>2, <2>6 DEF QueueInv
  <1>8. CASE Len(stack) = 2 /\ AP!DrainStart
    BY <1>6, <1>8 DEF AP!DrainStart, AP!Places
  <1>9. CASE Len(stack) = 2 /\ AP!DrainTake
    <2>1. PICK i \in DOMAIN pending[TheApp] :
             /\ pending' = [pending EXCEPT ![TheApp] = AP!RemoveAt(pending[TheApp], i)]
             /\ AP!Goes([AP!Top EXCEPT !.ready = Append(AP!Top.ready, pending[TheApp][i])])
      BY <1>2, <1>9 DEF AP!DrainTake
    <2>2. i \in DOMAIN q /\ q[i] \in AP!Entry
      BY <1>4, <2>1
    <2>3. Append(AP!Top.ready, q[i]) \in Seq(AP!Entry)
      BY <1>2, <2>2
    <2>4. [AP!Top EXCEPT !.ready = Append(AP!Top.ready, q[i])] \in AP!Call
      BY <1>2, <2>3 DEF AP!Call
    <2>5. PICK r : r = AP!RemoveAt(q, i)
      OBVIOUS
    <2>6. r = pending'[TheApp]
      BY <1>2, <1>4, <2>1, <2>5
    <2>7. \A j \in DOMAIN r : \E k \in DOMAIN q : r[j] = q[k]
      BY <2>2, <2>5, AppAssumed, AP!RemoveAtElements
    <2>8. \A j \in DOMAIN r : r[j].deps \subseteq Built
      BY <1>4, <2>7
    <2> QED
      BY <1>4, <1>5, <1>9, <2>1, <2>4, <2>6, <2>8
  <1>10. CASE Len(stack) = 2 /\ AP!DrainCollected
    <2>1. UNCHANGED <<plugins, pending>>
      BY <1>10 DEF AP!DrainCollected
    <2>2. \A i \in DOMAIN q : ~AP!Satisfied(TheApp, q[i])
      BY <1>2, <1>4, <1>10 DEF AP!DrainCollected
    <2>3. q = <<>>
      <3>1. DOMAIN q = {}
        BY <1>4, <2>2, SatisfiedBuilt
      <3> QED
        BY <3>1
    <2>4. CASE AP!Top.ready = <<>>
      <3>1. AP!Returns(TRUE)
        BY <1>2, <1>4, <1>10, <2>3, <2>4 DEF AP!DrainCollected
      <3>4. /\ Len(stack') = Len(stack) - 1 /\ (result' <=> TRUE)
            /\ stack' \in Seq(AP!Call)
        <4>1. TRUE \in BOOLEAN
          OBVIOUS
        <4> QED
          BY <1>2, <3>1, <4>1, AppAssumed, AP!ReturnsParts, Zenon
      <3>2. Len(stack') = 1 /\ result' /\ stack' \in Seq(AP!Call)
        BY <1>10, <3>4
      <3>3. pending'[TheApp] = <<>>
        BY <1>4, <2>1, <2>3
      <3> QED
        BY <3>2, <3>3 DEF QueueInv
    <2>5. CASE AP!Top.ready # <<>>
      BY <1>6, <1>10, <2>1, <2>5 DEF AP!DrainCollected, AP!Places
    <2> QED
      BY <2>4, <2>5
  <1>11. CASE Len(stack) = 2 /\ AP!BuildCall
    <2>1. /\ AP!Goes([AP!Top EXCEPT !.at = "build", !.ready = Tail(AP!Top.ready)])
          /\ UNCHANGED pending /\ AP!Top.ready # <<>>
      BY <1>2, <1>11 DEF AP!BuildCall, AP!Call
    <2>2. Tail(AP!Top.ready) \in Seq(AP!Entry)
      BY <1>2, <2>1
    <2>3. [AP!Top EXCEPT !.at = "build", !.ready = Tail(AP!Top.ready)] \in AP!Call
      BY <1>2, <2>2 DEF AP!Call, AP!Places
    <2>4. q = pending'[TheApp]
      BY <1>4, <2>1
    <2> QED
      BY <1>4, <1>5, <1>11, <2>1, <2>3, <2>4
  <1>12. ASSUME NEW ok \in BOOLEAN, Len(stack) = 2, AP!BuildReturn(ok)
         PROVE  QueueInv' /\ (stack' = <<>> => result')
    <2>1. UNCHANGED pending
      BY <1>12 DEF AP!BuildReturn
    <2>2. AP!Goes([AP!Top EXCEPT !.at = IF AP!Top.ready = <<>> THEN "collect" ELSE "loop"])
      BY <1>12 DEF AP!BuildReturn
    <2> QED
      BY <1>6, <1>12, <2>1, <2>2 DEF AP!Places
  <1> QED
    BY <1>1, <1>7, <1>8, <1>9, <1>10, <1>11, <1>12, UpSteps

-----------------------------------------------------------------------------
(* Registration                                                             *)

\* The call has an order, and registers or enters its packages.
Passing == call.at \in {"register", "adding", "inject", "entries"}

\* The entries that registration has behind it.
Passed(k) == k \in DOMAIN call.order /\ (call.at \in {"register", "adding"} => k < call.index)

ListsKept ==
    /\ call'.pending = call.pending /\ call'.order = call.order
    /\ call'.mounted = call.mounted

LoaderKept == UNCHANGED <<registered, handles, runtime>>

\* The steps of registration, by what they do to the call.
PassBegins ==
    /\ At("order") /\ SortPass /\ call'.at = "register" /\ call'.index = 1
    /\ call'.scripts = <<>> /\ Unsorted = {} /\ LoaderKept

PassScript ==
    /\ RegisterScript /\ Registering /\ Current.script /\ ~Current.library /\ runtime # None
    /\ call'.at = "register" /\ call'.index = call.index + 1 /\ LoaderKept
    /\ call'.scripts = Append(call.scripts, Current.pkg)

PassCall ==
    /\ RegisterCall \/ RegisterRefused
    /\ Registering /\ HasRegister /\ (Current.script => runtime # None)
    /\ call'.at = "adding" /\ call'.index = call.index /\ LoaderKept
    /\ call'.scripts = IF Current.script THEN Append(call.scripts, Current.pkg) ELSE call.scripts
    /\ RegisterRefused => call'.outcome = "refused"
    /\ RegisterCall => call'.outcome = IF stack' = <<>> THEN "queued" ELSE "drained"

PassReturn ==
    /\ RegisterReturn /\ Succeeded /\ Quiet
    /\ call'.at = "register" /\ call'.index = call.index + 1 /\ call'.scripts = call.scripts
    /\ registered' = Append(registered, Current.pkg)
    /\ handles' = IF Current.library THEN Append(handles, Current.pkg) ELSE handles
    /\ runtime' = IF Current.library /\ Current.pkg \in Runtimes THEN Current.pkg ELSE runtime

PassDone ==
    /\ RegisterDone /\ call.index \notin DOMAIN call.order
    /\ call'.at = (IF call.scripts = <<>> THEN "entries" ELSE "inject")
    /\ call'.index = 1 /\ call'.scripts = call.scripts /\ LoaderKept

PassInjects ==
    /\ Inject(TRUE) /\ call'.at = "entries" /\ call'.index = call.index
    /\ call'.scripts = call.scripts /\ call'.injected = mounts /\ LoaderKept

PassEnters ==
    /\ InjectEntry(TRUE) /\ call'.at = "entries" /\ call'.index = call.index + 1
    /\ call'.scripts = call.scripts /\ call'.injected = call.injected
    /\ registered' = Append(registered, call.scripts[call.index])
    /\ UNCHANGED <<handles, runtime>>

PassWaits ==
    /\ call' = call /\ LoaderKept
    /\ UNCHANGED appVars \/ (At("adding") /\ (AppStep \/ BuildAdds))

LEMMA PassingSteps ==
    ASSUME LoadInv, [Next]_vars, Passing'
    PROVE  /\ ListsKept /\ host = "up" /\ host' = "up"
           /\ \/ PassBegins
              \/ /\ Passing
                 /\ \/ PassScript \/ PassCall \/ PassReturn \/ PassDone \/ PassInjects
                    \/ PassEnters \/ PassWaits
  <1>1. call \in LoadCall /\ Reached /\ Staged
    BY DEF LoadInv, CallInv
  <1>2. call'.at # "idle" /\ call' # Idle
    BY AtIdle DEF Passing
  <1>3. CASE Host
    <2>1. CASE AddVfs \/ HostRun \/ HostDestroy \/ Cleanup
      <3>1. call' = call /\ At("idle")
        BY <1>1, <2>1 DEF AddVfs, HostRun, HostDestroy, Cleanup, HostReady, loaderVars, Staged, At
      <3> QED
        BY <1>2, <3>1 DEF At
    <2>2. ASSUME NEW d \in HostDirs, HostMount(d) PROVE FALSE
      BY <1>2, <2>2 DEF HostMount, HostReady, At
    <2>3. ASSUME NEW es \in Listings, LoadPackages(es) PROVE FALSE
      <3>1. Idle \in LoadCall
        BY DEF Idle, LoadCall
      <3>2. [Idle EXCEPT !.at = "resolve", !.entries = es].at = "resolve"
        BY <3>1 DEF LoadCall
      <3> QED
        BY <1>2, <2>3, <3>2 DEF LoadPackages, Returns, Passing
    <2> QED
      BY <1>3, <2>1, <2>2, <2>3 DEF Host
  <1>4. CASE SortPass
    <2>1. call' = [call EXCEPT !.index = 1, !.progress = FALSE,
                     !.at = IF Unsorted = {} THEN "register" ELSE "order"]
      BY <1>2, <1>4 DEF SortPass, Fail, Returns
    <2>2. /\ call'.at = (IF Unsorted = {} THEN "register" ELSE "order") /\ call'.index = 1
          /\ call'.scripts = call.scripts /\ ListsKept
      BY <1>1, <2>1 DEF LoadCall, ListsKept
    <2>3. Unsorted = {} /\ call'.at = "register"
      BY <2>2 DEF Passing
    <2>4. At("order") /\ call.scripts = <<>> /\ host = "up" /\ host' = "up"
      BY <1>1, <1>4 DEF SortPass, Reached, Staged, At
    <2> QED
      BY <1>4, <2>2, <2>3, <2>4 DEF PassBegins, LoaderKept, SortPass
  <1>5. ASSUME At("register") \/ At("adding") \/ At("inject") \/ At("entries")
        PROVE  Passing /\ host = "up"
    BY <1>1, <1>5 DEF Passing, At, Staged
  <1>6. CASE RegisterScript
    <2>1. Registering /\ RuntimeKnown /\ ~HasRegister /\ Passing /\ host = "up" /\ host' = "up"
      BY <1>5, <1>6 DEF RegisterScript, Registering
    <2>2. Current.script /\ ~Current.library /\ runtime # None
      BY <2>1 DEF RuntimeKnown, HasRegister
    <2>3. /\ call'.at = "register" /\ call'.index = call.index + 1 /\ ListsKept
          /\ call'.scripts = Append(call.scripts, Current.pkg)
      BY <1>1, <1>6, <2>1, <2>2
         DEF RegisterScript, CallWithScript, LoadCall, ListsKept, Registering, At
    <2> QED
      BY <1>6, <2>1, <2>2, <2>3 DEF PassScript, LoaderKept, RegisterScript
  <1>7. CASE RegisterCall \/ RegisterRefused
    <2>1. Registering /\ RuntimeKnown /\ HasRegister /\ Passing /\ host = "up" /\ host' = "up"
      BY <1>5, <1>7 DEF RegisterCall, RegisterRefused, Registering
    <2>2. PICK o : /\ call' = [CallWithScript EXCEPT !.at = "adding", !.outcome = o]
                   /\ RegisterRefused => o = "refused"
                   /\ RegisterCall => o = IF stack' = <<>> THEN "queued" ELSE "drained"
      <3>1. CASE RegisterCall /\ RegisterRefused
        <4>1. UNCHANGED appVars /\ code' = code /\ A!AddPlugin(TheApp, ManifestName[Current.pkg],
                                                               PluginDeps(Current.pkg))
          BY <3>1 DEF RegisterCall, RegisterRefused
        <4>2. call' = [CallWithScript EXCEPT !.at = "adding", !.outcome = "refused"]
          BY <3>1 DEF RegisterRefused
        <4>3. call' = [CallWithScript EXCEPT !.at = "adding",
                         !.outcome = IF stack' = <<>> THEN "queued" ELSE "drained"]
          BY <3>1 DEF RegisterCall
        <4>5. call'.outcome = "refused"
          BY <1>1, <4>2 DEF CallWithScript, LoadCall
        <4>6. call'.outcome = IF stack' = <<>> THEN "queued" ELSE "drained"
          BY <1>1, <4>3 DEF CallWithScript, LoadCall
        <4> QED
          BY <4>5, <4>6
      <3>2. CASE RegisterCall /\ ~RegisterRefused
        BY <3>2 DEF RegisterCall
      <3>3. CASE RegisterRefused /\ ~RegisterCall
        BY <3>3 DEF RegisterRefused
      <3> QED
        BY <1>7, <3>1, <3>2, <3>3
    <2>3. /\ call'.at = "adding" /\ call'.index = call.index /\ ListsKept /\ call'.outcome = o
          /\ call'.scripts = IF Current.script THEN Append(call.scripts, Current.pkg)
                             ELSE call.scripts
      BY <1>1, <2>2 DEF CallWithScript, LoadCall, ListsKept
    <2>4. LoaderKept
      BY <1>7 DEF LoaderKept, RegisterCall, RegisterRefused
    <2> QED
      BY <1>7, <2>1, <2>2, <2>3, <2>4 DEF PassCall, RuntimeKnown
  <1>8. CASE RegisterReturn
    <2>1. At("adding") /\ Quiet /\ Passing /\ host = "up" /\ host' = "up"
      BY <1>5, <1>8 DEF RegisterReturn
    <2>2. Succeeded
      BY <1>2, <1>8 DEF RegisterReturn, Fail, Returns
    <2>3. /\ registered' = Append(registered, Current.pkg)
          /\ handles' = IF Current.library THEN Append(handles, Current.pkg) ELSE handles
          /\ runtime' = IF Current.library /\ Current.pkg \in Runtimes THEN Current.pkg ELSE runtime
          /\ call' = [call EXCEPT !.at = "register", !.index = @ + 1]
      BY <1>8, <2>2 DEF RegisterReturn
    <2>4. /\ call'.at = "register" /\ call'.index = call.index + 1 /\ ListsKept
          /\ call'.scripts = call.scripts
      BY <1>1, <2>3 DEF LoadCall, ListsKept
    <2> QED
      BY <1>8, <2>1, <2>2, <2>3, <2>4 DEF PassReturn
  <1>9. CASE RegisterDone
    <2>1. At("register") /\ Passing /\ host = "up" /\ host' = "up"
      BY <1>5, <1>9 DEF RegisterDone
    <2>2. /\ call'.at = (IF call.scripts = <<>> THEN "entries" ELSE "inject") /\ call'.index = 1
          /\ call'.scripts = call.scripts /\ ListsKept
      BY <1>1, <1>9 DEF RegisterDone, LoadCall, ListsKept
    <2> QED
      BY <1>9, <2>1, <2>2 DEF PassDone, RegisterDone, LoaderKept
  <1>10. ASSUME NEW ok \in BOOLEAN, Inject(ok)
         PROVE  ListsKept /\ host = "up" /\ host' = "up" /\ Passing /\ PassInjects
    <2>1. ok
      BY <1>2, <1>10 DEF Inject, Fail, Returns
    <2>2. Inject(TRUE) /\ Passing /\ host = "up" /\ host' = "up" /\ LoaderKept
      BY <1>5, <1>10, <2>1 DEF Inject, LoaderKept
    <2>3. /\ call'.at = "entries" /\ call'.index = call.index /\ ListsKept
          /\ call'.scripts = call.scripts /\ call'.injected = mounts
      BY <1>1, <2>2 DEF Inject, LoadCall, ListsKept
    <2> QED
      BY <2>2, <2>3 DEF PassInjects
  <1>11. ASSUME NEW ok \in BOOLEAN, InjectEntry(ok)
         PROVE  ListsKept /\ host = "up" /\ host' = "up" /\ Passing /\ PassEnters
    <2>1. ok
      BY <1>2, <1>11 DEF InjectEntry, Fail, Returns
    <2>2. /\ InjectEntry(TRUE) /\ Passing /\ host = "up" /\ host' = "up"
          /\ registered' = Append(registered, call.scripts[call.index])
          /\ UNCHANGED <<handles, runtime>>
      BY <1>5, <1>11, <2>1 DEF InjectEntry
    <2>3. /\ call'.at = "entries" /\ call'.index = call.index + 1 /\ ListsKept
          /\ call'.scripts = call.scripts /\ call'.injected = call.injected
      BY <1>1, <2>2 DEF InjectEntry, LoadCall, ListsKept, At
    <2> QED
      BY <2>2, <2>3 DEF PassEnters
  <1>12. CASE AppStep \/ BuildAdds
    <2>1. call' = call /\ LoaderKept /\ host' = host
      BY <1>12 DEF AppStep, BuildAdds, LoaderKept
    <2>2. Passing /\ At("adding") /\ host = "up"
      <3>1. ~Quiet
        BY <1>12, AppBusy DEF AppStep
      <3>2. Passing
        BY <2>1 DEF Passing
      <3> QED
        BY <1>1, <3>1, <3>2 DEF Staged, Passing, At
    <2> QED
      BY <1>12, <2>1, <2>2 DEF PassWaits, ListsKept
  <1>13. CASE UNCHANGED vars
    <2>1. call' = call /\ LoaderKept /\ UNCHANGED appVars /\ host' = host
      BY <1>13 DEF vars, loaderVars, LoaderKept
    <2>2. Passing /\ host = "up"
      BY <1>1, <2>1 DEF Passing, Staged, At
    <2> QED
      BY <2>1, <2>2 DEF PassWaits, ListsKept
  <1>14. ASSUME ResolveDone \/ SortEntry \/ RegisterFails \/ LoadDone PROVE FALSE
    <2>1. ResolveDone => call'.at = "order"
      BY <1>1 DEF ResolveDone, LoadCall
    <2>2. SortEntry => call'.at = "order"
      BY <1>1 DEF SortEntry, LoadCall, At
    <2>3. RegisterFails \/ LoadDone => call' = Idle
      BY DEF RegisterFails, LoadDone, Fail, Returns
    <2> QED
      BY <1>2, <1>14, <2>1, <2>2, <2>3 DEF Passing
  <1>15. ASSUME NEW good \in BOOLEAN, NEW entry \in BOOLEAN, Resolve(good, entry) PROVE FALSE
    BY <1>1, <1>2, <1>15 DEF Resolve, Returns, At, LoadCall, Passing
  <1>16. CASE Internal
    BY <1>4, <1>6, <1>7, <1>8, <1>9, <1>10, <1>11, <1>12, <1>14, <1>15, <1>16 DEF Internal
  <1> QED
    BY <1>3, <1>13, <1>16 DEF Next, Finished

\* What registration has passed is registered and built.
PassedInv ==
    Passing =>
      \A k \in DOMAIN call.order :
        Passed(k) /\ ~ScriptAt(k) => /\ PkgAt(k) \in Range(registered)
                                     /\ ManifestName[PkgAt(k)] \in Built

\* The plugin that a register function has added is drained from the queue.
AddingInv ==
    At("adding") /\ call.outcome # "refused" =>
      /\ call.outcome = "drained" /\ ManifestName[Current.pkg] \in Known
      /\ Quiet => result

RegInv == EntryInv /\ OrderedInv /\ QueueInv /\ PassedInv /\ AddingInv

LEMMA QuietBuilt ==
    ASSUME QueueInv, host = "up", Quiet
    PROVE  Known = Built
  <1>1. pending[TheApp] = <<>>
    BY DEF QueueInv, Quiet
  <1>2. AP!NamesOf(<<>>) = {}
    BY DEF AP!NamesOf
  <1> QED
    BY <1>1, <1>2 DEF Known, Waiting, AP!Ready, Quiet

\* The type of the package of an entry is the one of its manifest, or it is
\* static.
LEMMA EntryTypes ==
    ASSUME LoadInv, EntryInv, NEW k \in DOMAIN call.order
    PROVE  /\ PkgAt(k) \in Packages /\ ManifestName[PkgAt(k)] \in Names
           /\ ScriptAt(k) => PkgAt(k) \in Scripts
           /\ PkgAt(k) \in Statics \/ (ScriptAt(k) <=> PkgAt(k) \in Scripts)
  <1>1. call.order \in Seq(DOMAIN call.pending) /\ call.pending \in Seq(Resolved)
    BY DEF LoadInv, CallInv, OrderOnce, LoadCall
  <1>2. PICK i \in Entries : i = call.order[k]
    BY <1>1 DEF Entries
  <1>3. call.pending[i] \in Resolved /\ EntryOK(call.pending[i])
    BY <1>1 DEF EntryInv, Entries
  <1>4. call.pending[i].pkg \in Packages
    BY <1>3 DEF Resolved
  <1>5. \A p : (FullEntry(p).script <=> p \in Scripts) /\ ~BareEntry(p).script
    BY DEF FullEntry, BareEntry
  <1> QED
    BY <1>2, <1>3, <1>4, <1>5 DEF EntryOK, PkgAt, ScriptAt, Names

\* A plugin is added when the plugins it depends on are built.
LEMMA PluginDepsBuilt ==
    ASSUME NamesApart, LoadInv, EntryInv, OrderedInv, PassedInv, Registering
    PROVE  PluginDeps(Current.pkg) \subseteq Built
  <1>1. call.index \in DOMAIN call.order /\ Current.pkg = PkgAt(call.index) /\ At("register")
    BY DEF Registering, Current, PkgAt
  <1>2. SUFFICES ASSUME Current.pkg \notin Statics, NEW q \in Packages \ Scripts,
                        q \in Needs(Current.pkg)
                 PROVE  ManifestName[q] \in Built
    BY DEF PluginDeps, Needs
  <1>3. SUFFICES ASSUME NEW j \in 1..call.index - 1, PkgAt(j) = q
                 PROVE  ManifestName[q] \in Built
    BY <1>1, <1>2, DepsMet
  <1>4. j \in DOMAIN call.order /\ j < call.index
    BY <1>1 DEF LoadInv, CallInv, LoadCall
  <1>5. Passed(j) /\ Passing
    BY <1>1, <1>4 DEF Passed, Passing, At
  <1>6. ~ScriptAt(j)
    BY <1>3, <1>4, EntryTypes
  <1> QED
    BY <1>3, <1>4, <1>5, <1>6 DEF PassedInv

LEMMA RangeGrows ==
    ASSUME registered' = registered \/ \E p \in Packages : registered' = Append(registered, p),
           registered \in Seq(Packages)
    PROVE  Range(registered) \subseteq Range(registered')
  <1>1. ASSUME NEW p \in Packages, registered' = Append(registered, p)
        PROVE  Range(registered) \subseteq Range(registered')
    <2>1. \A i \in DOMAIN registered : i \in DOMAIN registered' /\ registered'[i] = registered[i]
      BY <1>1
    <2> QED
      BY <2>1 DEF Range
  <1> QED
    BY <1>1

LEMMA PassedNext ==
    ASSUME ~BuildsFail, RunInv, RunInv', RegInv, [Next]_vars
    PROVE  PassedInv'
  <1> SUFFICES ASSUME Passing'
               PROVE  PassedInv'
    BY DEF PassedInv
  <1>1. LoadInv /\ LoadInv' /\ EntryInv /\ PassedInv /\ AddingInv /\ QueueInv
    BY DEF RunInv, RegInv
  <1>2. ListsKept /\ host = "up" /\ host' = "up"
    BY <1>1, PassingSteps
  <1>3. Built \subseteq Built'
    BY <1>2, BuiltNext
  <1>4. call \in LoadCall /\ Reached /\ registered \in Seq(Packages) /\ call.index \in Nat
    BY <1>1 DEF LoadInv, CallInv, LoaderType, LoadCall
  <1>5. ASSUME NEW k \in DOMAIN call.order, PkgAt(k) \in Range(registered'),
               ManifestName[PkgAt(k)] \in Built
        PROVE  PkgAt(k)' \in Range(registered') /\ ManifestName[PkgAt(k)'] \in Built'
    BY <1>2, <1>3, <1>5 DEF ListsKept, PkgAt
  <1>6. SUFFICES ASSUME NEW k \in DOMAIN call.order, Passed(k)', ~ScriptAt(k)
                 PROVE  PkgAt(k) \in Range(registered') /\ ManifestName[PkgAt(k)] \in Built
    BY <1>2, <1>5 DEF PassedInv, ListsKept, ScriptAt
  <1>7. ASSUME Passing, Passed(k),
               registered' = registered \/ \E p \in Packages : registered' = Append(registered, p)
        PROVE  PkgAt(k) \in Range(registered') /\ ManifestName[PkgAt(k)] \in Built
    BY <1>1, <1>4, <1>6, <1>7, RangeGrows DEF PassedInv
  <1>8. k \in Nat /\ k >= 1 /\ k <= Len(call.order)
    BY <1>4, <1>6 DEF LoadCall
  <1>9. CASE PassBegins
    BY <1>6, <1>8, <1>9 DEF PassBegins, Passed
  <1>10. CASE Passing /\ PassScript
    <2>1. k # call.index
      BY <1>6, <1>10 DEF PassScript, Current, ScriptAt
    <2>2. Passed(k)
      BY <1>4, <1>6, <1>8, <1>10, <2>1 DEF PassScript, Passed
    <2> QED
      BY <1>7, <1>10, <2>2 DEF PassScript, LoaderKept
  <1>11. CASE Passing /\ PassCall
    <2>1. Passed(k)
      BY <1>6, <1>11 DEF PassCall, Passed
    <2> QED
      BY <1>7, <1>11, <2>1 DEF PassCall, LoaderKept
  <1>12. CASE Passing /\ PassReturn
    <2>1. At("adding") /\ Quiet /\ registered' = Append(registered, Current.pkg)
      BY <1>12 DEF PassReturn, RegisterReturn
    <2>2. call.index \in DOMAIN call.order /\ Current.pkg \in Packages
      BY <1>1, <2>1, RegisteringIn, CurrentType DEF LoadInv
    <2>3. CASE k = call.index
      <3>1. PkgAt(k) = Current.pkg
        BY <2>3 DEF PkgAt, Current
      <3>2. call.outcome # "refused"
        BY <1>12 DEF PassReturn, Succeeded
      <3>3. ManifestName[Current.pkg] \in Built
        BY <1>1, <1>2, <2>1, <3>2, QuietBuilt DEF AddingInv
      <3>4. Current.pkg \in Range(registered')
        <4>1. /\ Len(registered) + 1 \in DOMAIN registered'
              /\ registered'[Len(registered) + 1] = Current.pkg
          BY <1>4, <2>1, <2>2
        <4> QED
          BY <4>1 DEF Range
      <3> QED
        BY <3>1, <3>3, <3>4
    <2>4. CASE k # call.index
      <3>1. Passed(k)
        BY <1>4, <1>6, <1>8, <1>12, <2>4 DEF PassReturn, Passed
      <3> QED
        BY <1>7, <1>12, <2>1, <2>2, <3>1
    <2> QED
      BY <2>3, <2>4
  <1>13. CASE Passing /\ PassDone
    <2>1. call.index \notin DOMAIN call.order /\ At("register")
      BY <1>13 DEF PassDone, RegisterDone
    <2>2. k < call.index
      BY <1>4, <1>8, <2>1 DEF Reached, LoadCall
    <2>3. Passed(k)
      BY <2>2 DEF Passed
    <2> QED
      BY <1>7, <1>13, <2>3 DEF PassDone, LoaderKept
  <1>14. CASE Passing /\ PassInjects
    <2>1. Passed(k)
      BY <1>14 DEF PassInjects, Inject, At, Passed
    <2> QED
      BY <1>7, <1>14, <2>1 DEF PassInjects, LoaderKept
  <1>15. CASE Passing /\ PassEnters
    <2>1. Passed(k) /\ call.index \in DOMAIN call.scripts
      BY <1>15 DEF PassEnters, InjectEntry, At, Passed
    <2>2. call.scripts[call.index] \in Packages
      BY <1>4, <2>1 DEF LoadCall
    <2> QED
      BY <1>7, <1>15, <2>1, <2>2 DEF PassEnters
  <1>16. CASE Passing /\ PassWaits
    <2>1. Passed(k)
      BY <1>6, <1>16 DEF PassWaits, Passed
    <2> QED
      BY <1>7, <1>16, <2>1 DEF PassWaits, LoaderKept
  <1> QED
    BY <1>1, <1>9, <1>10, <1>11, <1>12, <1>13, <1>14, <1>15, <1>16, PassingSteps

LEMMA AddingNext ==
    ASSUME ~BuildsFail, NamesApart, RunInv, RunInv', RegInv, [Next]_vars
    PROVE  AddingInv'
  <1> SUFFICES ASSUME At("adding")', call'.outcome # "refused"
               PROVE  /\ call'.outcome = "drained" /\ ManifestName[Current.pkg]' \in Known'
                      /\ Quiet' => result'
    BY DEF AddingInv
  <1>1. /\ LoadInv /\ LoadInv' /\ AppInv /\ Up
        /\ EntryInv /\ OrderedInv /\ PassedInv /\ AddingInv /\ QueueInv
    BY DEF RunInv, RegInv
  <1>2. call'.at = "adding" /\ Passing'
    BY DEF At, Passing
  <1>3. ListsKept /\ host = "up" /\ host' = "up" /\ ((Passing /\ PassCall) \/ PassWaits)
    BY <1>1, <1>2, PassingSteps
       DEF PassBegins, PassScript, PassReturn, PassDone, PassInjects, PassEnters
  <1>4. CASE Passing /\ PassCall
    <2>1. RegisterCall /\ Registering /\ call'.index = call.index
      BY <1>4 DEF PassCall
    <2>2. Current' = Current
      BY <1>3, <2>1 DEF ListsKept, Current
    <2>3. PluginDeps(Current.pkg) \subseteq Built
      BY <1>1, <2>1, PluginDepsBuilt
    <2>4. Current.pkg \in Packages
      BY <1>1, <2>1, CurrentType DEF Registering, LoadInv
    <2>5. ManifestName[Current.pkg] \in Names /\ PluginDeps(Current.pkg) \in SUBSET Names
      BY <2>4 DEF Names, PluginDeps
    <2>6. AP!AddPlugin(TheApp, ManifestName[Current.pkg], PluginDeps(Current.pkg))
      BY <2>1, <2>5, AddSame DEF RegisterCall
    <2>7. stack' # <<>>
      BY <1>1, <1>3, <2>3, <2>5, <2>6, QueueAdds
    <2>8. ManifestName[Current.pkg] \in Known'
      BY <1>1, <2>5, <2>6, KnownAdds
    <2> QED
      BY <1>4, <2>1, <2>2, <2>7, <2>8 DEF PassCall, Quiet
  <1>5. CASE PassWaits
    <2>1. call' = call /\ Current' = Current /\ call.outcome # "refused" /\ At("adding")
      BY <1>2, <1>5 DEF PassWaits, Current, At
    <2>2. /\ call.outcome = "drained" /\ ManifestName[Current.pkg] \in Known
          /\ Quiet => result
      BY <1>1, <2>1 DEF AddingInv
    <2>3. ManifestName[Current.pkg] \in Known'
      BY <1>3, <2>2, BuiltNext
    <2>4. CASE UNCHANGED appVars
      BY <2>1, <2>2, <2>3, <2>4 DEF appVars, Quiet
    <2>5. CASE AppStep
      <3>1. stack' = <<>> => result'
        BY <1>1, <1>3, <2>5, InternalSame, QueueInternal DEF AppStep
      <3> QED
        BY <2>1, <2>2, <2>3, <3>1 DEF Quiet
    <2>6. CASE BuildAdds
      <3>1. A!AddPlugin(TheApp, SubPlugin, {}) /\ SubPlugin \in Names /\ {} \in SUBSET Names
        BY <2>6 DEF BuildAdds, Names
      <3>2. stack' # <<>>
        BY <1>1, <1>3, <3>1, AddSame, QueueAdds
      <3> QED
        BY <2>1, <2>2, <2>3, <3>2 DEF Quiet
    <2> QED
      BY <1>5, <2>4, <2>5, <2>6 DEF PassWaits
  <1> QED
    BY <1>3, <1>4, <1>5

LEMMA HostUp ==
    ASSUME [Next]_vars, host' = "up"
    PROVE  host = "up"
  <1>1. CASE Host
    BY <1>1 DEF Host, AddVfs, loaderVars, HostRun, HostDestroy, Cleanup, HostMount, LoadPackages
  <1>2. CASE Internal
    BY <1>2 DEF Internal, Resolve, ResolveDone, SortEntry, SortPass, RegisterFails,
       RegisterScript, RegisterCall, RegisterRefused, RegisterReturn, RegisterDone, Inject,
       InjectEntry, LoadDone, AppStep, BuildAdds
  <1> QED
    BY <1>1, <1>2 DEF Next, Finished, vars, loaderVars

LEMMA QueueNext ==
    ASSUME ~BuildsFail, NamesApart, RunInv, RunInv', RegInv, [Next]_vars
    PROVE  QueueInv'
  <1> SUFFICES ASSUME host' = "up"
               PROVE  QueueInv'
    BY DEF QueueInv
  <1>1. /\ LoadInv /\ LoadInv' /\ AppInv /\ Up /\ host = "up"
        /\ EntryInv /\ OrderedInv /\ PassedInv /\ QueueInv
    BY HostUp DEF RunInv, RegInv
  <1>2. CASE UNCHANGED appVars
    BY <1>1, <1>2 DEF QueueInv, appVars, Built, AP!NamesOf
  <1>3. CASE AppStep
    BY <1>1, <1>3, InternalSame, QueueInternal DEF AppStep
  <1>4. ASSUME NEW n \in Names, NEW ds \in SUBSET Names, ds \subseteq Built,
               A!AddPlugin(TheApp, n, ds)
        PROVE  QueueInv'
    BY <1>1, <1>4, AddSame, QueueAdds
  <1>5. CASE BuildAdds
    <2>1. A!AddPlugin(TheApp, SubPlugin, {}) /\ SubPlugin \in Names
      BY <1>5 DEF BuildAdds, Names
    <2>2. {} \in SUBSET Names /\ {} \subseteq Built
      OBVIOUS
    <2> QED
      BY <1>4, <2>1, <2>2
  <1>6. CASE RegisterCall
    <2>1. Registering /\ Current.pkg \in Packages
      BY <1>1, <1>6, CurrentType DEF RegisterCall, Registering, LoadInv
    <2>2. ManifestName[Current.pkg] \in Names /\ PluginDeps(Current.pkg) \in SUBSET Names
      BY <2>1 DEF Names, PluginDeps
    <2>3. PluginDeps(Current.pkg) \subseteq Built
      BY <1>1, <2>1, PluginDepsBuilt
    <2> QED
      BY <1>4, <1>6, <2>2, <2>3 DEF RegisterCall
  <1>7. CASE AddVfs
    BY <1>4, <1>7 DEF AddVfs, Names
  <1>8. CASE HostRun \/ HostDestroy \/ Cleanup
    BY <1>8 DEF HostRun, HostDestroy, Cleanup
  <1>9. CASE Host
    BY <1>2, <1>7, <1>8, <1>9 DEF Host, HostMount, LoadPackages
  <1>10. CASE Internal
    BY <1>2, <1>3, <1>5, <1>6, <1>10
       DEF Internal, Resolve, ResolveDone, SortEntry, SortPass, RegisterFails, RegisterScript,
           RegisterRefused, RegisterReturn, RegisterDone, Inject, InjectEntry, LoadDone
  <1> QED
    BY <1>2, <1>9, <1>10 DEF Next, Finished, vars

LEMMA DepsKept == [Next]_vars => deps' = deps
  <1> SUFFICES ASSUME [Next]_vars PROVE deps' = deps
    OBVIOUS
  <1>1. CASE Host
    BY <1>1 DEF Host, AddVfs, loaderVars, HostRun, HostDestroy, Cleanup, HostMount, LoadPackages
  <1>2. CASE Internal
    BY <1>2 DEF Internal, Resolve, ResolveDone, SortEntry, SortPass, RegisterFails,
       RegisterScript, RegisterCall, RegisterRefused, RegisterReturn, RegisterDone, Inject,
       InjectEntry, LoadDone, AppStep, BuildAdds
  <1> QED
    BY <1>1, <1>2 DEF Next, Finished, vars, loaderVars

LEMMA RegNext ==
    ASSUME ~BuildsFail, NamesApart, RunInv, RunInv', RegInv, [Next]_vars
    PROVE  RegInv'
  <1>1. EntryInv'
    BY DepsKept, EntryNext DEF RunInv, RegInv
  <1>2. OrderedInv'
    <2>1. CASE host = "up"
      BY <2>1, BuiltNext, OrderedNext DEF RunInv, RegInv
    <2>2. CASE host # "up"
      <3>1. host' # "up"
        BY <2>2, HostUp
      <3>2. call' = Idle
        BY <3>1 DEF RunInv, LoadInv, Staged, CallInv, Reached
      <3> QED
        BY <3>2 DEF OrderedInv, Idle
    <2> QED
      BY <2>1, <2>2
  <1> QED
    BY <1>1, <1>2, QueueNext, PassedNext, AddingNext DEF RegInv

LEMMA RegInit == Init => RegInv
  <1> SUFFICES ASSUME Init PROVE RegInv
    OBVIOUS
  <1>1. EntryInv /\ OrderedInv /\ PassedInv /\ AddingInv
    BY DEF Init, Idle, EntryInv, Entries, OrderedInv, PassedInv, Passing, AddingInv, At
  <1>2. QueueInv
    BY DEF Init, A!Init, QueueInv
  <1> QED
    BY <1>1, <1>2 DEF RegInv

-----------------------------------------------------------------------------
(* The end of the App                                                       *)

\* What is left when the host destroys the App: a teardown, or an App that has
\* been shut down.
Ended == state[TheApp] = "Shutdown" /\ Quiet
Ending == Len(stack) = 1 /\ stack[1].op = "teardown"

EndInv ==
    /\ subapps[TheApp] = <<>>
    /\ host = "destroy" => Ended \/ Ending
    /\ host = "done" => Ended /\ runtime = None

LEMMA EndInternal ==
    ASSUME LoadInv, subapps[TheApp] = <<>>, AP!Internal
    PROVE  subapps' = subapps /\ (Ending => Ended' \/ Ending')
  <1>1. /\ stack # <<>> /\ AP!Top \in AP!Call /\ AP!Top.app = TheApp /\ stack \in Seq(AP!Call)
        /\ state \in [{TheApp} -> AP!AppStates] /\ result \in BOOLEAN
    BY TopReady, StackSize DEF LoadInv, AP!TypeOK
  <1>2. subapps' = subapps
    BY DEF AP!Internal, AP!AddReturn, AP!DrainStart, AP!DrainTake, AP!DrainCollected,
       AP!BuildCall, AP!BuildReturn, AP!PostPlugin, AP!PostStart, AP!PostSubapps, AP!PostDone,
       AP!PrepareStart, AP!PrepareDrained, AP!PreparePosted, AP!PrepareSubapps,
       AP!PrepareDone, AP!RunPrepared, AP!RunnerReturn, AP!RunReturn, AP!TeardownSubapps,
       AP!TeardownPlugin, AP!TeardownDone
  <1>3. SUFFICES ASSUME Len(stack) = 1, stack[1].op = "teardown"
                 PROVE  Ended' \/ Ending'
    BY <1>2 DEF Ending
  <1>4. AP!Top = stack[1] /\ AP!Top.op = "teardown"
    BY <1>1, <1>3, StackSize
  <1>5. AP!TeardownSubapps \/ AP!TeardownPlugin \/ AP!TeardownDone
    BY <1>4 DEF AP!Internal, AP!AddReturn, AP!DrainStart, AP!DrainTake, AP!DrainCollected,
       AP!BuildCall, AP!BuildReturn, AP!PostPlugin, AP!PostStart, AP!PostSubapps, AP!PostDone,
       AP!PrepareStart, AP!PrepareDrained, AP!PreparePosted, AP!PrepareSubapps,
       AP!PrepareDone, AP!RunPrepared, AP!RunnerReturn, AP!RunReturn, AP!At
  <1>6. ASSUME NEW at \in AP!Places, NEW i \in Nat \cup {-1},
               AP!Goes([AP!Top EXCEPT !.at = at, !.index = i])
        PROVE  Ending'
    <2>1. /\ Len(stack') = Len(stack)
          /\ stack'[Len(stack)] = [AP!Top EXCEPT !.at = at, !.index = i]
      BY <1>1, <1>3, <1>6 DEF AP!Goes, AP!Callers
    <2> QED
      BY <1>1, <1>3, <1>4, <2>1 DEF Ending, AP!Call
  <1>7. ASSUME AP!Returns(result), state'[TheApp] = "Shutdown"
        PROVE  Ended'
    <2>1. Len(stack') = Len(stack) - 1 /\ stack' \in Seq(AP!Call)
      BY <1>1, <1>7, AppAssumed, AP!ReturnsParts
    <2> QED
      BY <1>3, <1>7, <2>1 DEF Ended, Quiet
  <1>8. CASE AP!TeardownSubapps
    <2>1. CASE AP!Returns(result) /\ state[TheApp] = "Shutdown"
      BY <1>7, <1>8, <2>1 DEF AP!TeardownSubapps
    <2>2. CASE AP!Goes([AP!Top EXCEPT !.at = "subapps", !.index = Len(subapps[TheApp])])
      BY <1>6, <2>2 DEF AP!Places
    <2>3. CASE AP!Goes([AP!Top EXCEPT !.at = "plugins", !.index = Len(plugins[TheApp])])
      <3>1. Len(plugins[TheApp]) \in Nat
        BY DEF LoadInv, AP!TypeOK
      <3> QED
        BY <1>6, <2>3, <3>1 DEF AP!Places
    <2>4. AP!Top.index \notin DOMAIN subapps[TheApp]
      OBVIOUS
    <2>5. CASE AP!At("teardown", "start")
      BY <1>1, <1>8, <2>1, <2>2, <2>5 DEF AP!TeardownSubapps, AP!At
    <2>6. CASE AP!At("teardown", "subapps")
      BY <1>1, <1>8, <2>3, <2>4, <2>6 DEF AP!TeardownSubapps, AP!At
    <2> QED
      BY <1>8, <2>5, <2>6 DEF AP!TeardownSubapps
  <1>9. CASE AP!TeardownPlugin
    <2>1. AP!Goes([AP!Top EXCEPT !.index = AP!Top.index - 1])
      BY <1>1, <1>9 DEF AP!TeardownPlugin, AP!Call
    <2>2. stack' = Append(AP!Callers, [AP!Top EXCEPT !.index = AP!Top.index - 1])
      BY <2>1 DEF AP!Goes
    <2>3. AP!Callers \in Seq(AP!Call) /\ Len(AP!Callers) = 0
      BY <1>1, <1>3, AppAssumed, AP!StackParts
    <2>4. Len(stack') = 1 /\ stack'[1] = [AP!Top EXCEPT !.index = AP!Top.index - 1]
      BY <2>2, <2>3
    <2> QED
      BY <1>1, <1>4, <2>4 DEF Ending, AP!Call
  <1>10. CASE AP!TeardownDone
    <2>1. AP!Returns(result) /\ state'[TheApp] = "Shutdown"
      BY <1>1, <1>10 DEF AP!TeardownDone
    <2> QED
      BY <1>7, <2>1
  <1> QED
    BY <1>5, <1>8, <1>9, <1>10

LEMMA EndNext ==
    ASSUME LoadInv, EndInv, [Next]_vars
    PROVE  EndInv'
  <1>1. CASE UNCHANGED <<state, subapps, stack, host, runtime>>
    BY <1>1 DEF EndInv, Ended, Ending, Quiet
  <1>2. CASE AppStep
    <2>1. AP!Internal /\ runtime' = runtime /\ host' = host
      BY <1>2, InternalSame DEF AppStep
    <2>2. ~Quiet
      BY <1>2, AppBusy DEF AppStep
    <2> QED
      BY <2>1, <2>2, EndInternal DEF EndInv, Ended
  <1>3. CASE host = "up" /\ host' = "up" /\ subapps' = subapps
    BY <1>3 DEF EndInv
  <1>4. ASSUME NEW n, NEW ds, A!AddPlugin(TheApp, n, ds)
        PROVE  subapps' = subapps
    BY <1>4 DEF A!AddPlugin
  <1>5. CASE BuildAdds
    <2>1. subapps' = subapps /\ host' = host /\ runtime' = runtime /\ A!At("drain", "build")
      BY <1>4, <1>5 DEF BuildAdds
    <2>2. ~Quiet /\ stack[Len(stack)].op = "drain"
      BY <2>1 DEF A!At, A!Top, Quiet
    <2>3. host # "done" /\ host # "destroy"
      BY <2>2 DEF EndInv, Ended, Ending
    <2> QED
      BY <2>1, <2>3 DEF EndInv
  <1>6. CASE RegisterCall
    <2>1. host = "up" /\ host' = host
      BY <1>6 DEF RegisterCall, Registering, LoadInv, Staged, At
    <2> QED
      BY <1>3, <1>4, <1>6, <2>1 DEF RegisterCall
  <1>7. CASE AddVfs
    BY <1>3, <1>4, <1>7 DEF AddVfs, HostReady, loaderVars
  <1>8. CASE RegisterReturn
    <2>1. host = "up" /\ host' = host
      BY <1>8 DEF RegisterReturn, LoadInv, Staged, At
    <2> QED
      BY <1>3, <1>8, <2>1 DEF RegisterReturn, appVars
  <1>9. CASE HostRun
    BY <1>9 DEF HostRun, A!Run, EndInv
  <1>10. CASE HostDestroy
    <2>1. CASE state[TheApp] = "Shutdown"
      BY <1>10, <2>1 DEF HostDestroy, appVars, EndInv, Ended, Quiet
    <2>2. CASE state[TheApp] # "Shutdown"
      <3>1. subapps' = subapps /\ stack' = <<A!NewCall("teardown", TheApp)>> /\ host' = "destroy"
        BY <1>10, <2>2 DEF HostDestroy, A!Teardown
      <3>2. A!NewCall("teardown", TheApp).op = "teardown"
        BY DEF A!NewCall
      <3>3. Len(stack') = 1 /\ stack'[1] = A!NewCall("teardown", TheApp)
        BY <3>1
      <3> QED
        BY <3>1, <3>2, <3>3 DEF EndInv, Ending
    <2> QED
      BY <2>1, <2>2
  <1>11. CASE Cleanup
    <2>1. UNCHANGED appVars /\ Quiet /\ host = "destroy" /\ host' = "done" /\ runtime' = None
      BY <1>11 DEF Cleanup
    <2>2. state[TheApp] = "Shutdown"
      BY <2>1 DEF EndInv, Ended, Ending, Quiet
    <2> QED
      BY <2>1, <2>2 DEF EndInv, Ended, Quiet, appVars
  <1>12. CASE Host
    BY <1>1, <1>7, <1>9, <1>10, <1>11, <1>12 DEF Host, HostMount, LoadPackages, appVars
  <1>13. CASE Internal
    BY <1>1, <1>2, <1>5, <1>6, <1>8, <1>13
       DEF Internal, Resolve, ResolveDone, SortEntry, SortPass, RegisterFails, RegisterScript,
           RegisterRefused, RegisterDone, Inject, InjectEntry, LoadDone, appVars
  <1> QED
    BY <1>1, <1>12, <1>13 DEF Next, Finished, vars, appVars, loaderVars

LEMMA EndInit == Init => EndInv
  BY DEF Init, A!Init, EndInv

-----------------------------------------------------------------------------
(* The code of the plugins                                                  *)

\* A build callback is the one of a plugin that is registered.
BuildInv == AP!At("drain", "build") => plugins[TheApp] # <<>>

LEMMA BuildInternal ==
    ASSUME LoadInv, AppInv, AP!Internal
    PROVE  BuildInv'
  <1>1. /\ stack # <<>> /\ AP!Top \in AP!Call /\ AP!Top.app = TheApp /\ stack \in Seq(AP!Call)
        /\ AP!Top.ready \in Seq(AP!Entry)
        /\ plugins \in [{TheApp} -> Seq(AP!Entry)] /\ pending \in [{TheApp} -> Seq(AP!Entry)]
    BY TopReady DEF LoadInv, AP!TypeOK
  <1>2. ASSUME AP!Undrained(stack')
        PROVE  BuildInv'
    BY <1>2 DEF BuildInv, AP!At, AP!Undrained, AP!Top
  <1>3. ASSUME NEW f \in AP!Call, AP!Goes(f), f.at # "build"
        PROVE  BuildInv'
    <2>1. AP!Top' = f
      BY <1>1, <1>3, AppAssumed, AP!GoesParts
    <2> QED
      BY <1>3, <2>1 DEF BuildInv, AP!At
  <1>4. ASSUME NEW ok \in BOOLEAN, AP!Returns(ok)
        PROVE  BuildInv'
    <2>1. SUFFICES ASSUME stack' # <<>> PROVE AP!Top'.op # "drain"
      BY DEF BuildInv, AP!At
    <2>2. AP!Top' = stack[Len(stack) - 1] /\ Len(stack) > 1 /\ Len(stack) \in Nat
      BY <1>1, <1>4, <2>1, AppAssumed, AP!ReturnsParts
    <2>3. Len(stack) - 1 \in DOMAIN stack /\ Len(stack) - 1 # Len(stack)
      BY <1>1, <2>2
    <2> QED
      BY <2>2, <2>3 DEF AppInv, AP!LifeInv, AP!OrderInv, AP!DrainInv
  <1>5. CASE AP!DrainStart
    <2>1. [AP!Top EXCEPT !.at = "collect"] \in AP!Call /\ [AP!Top EXCEPT !.at = "collect"].at # "build"
      BY <1>1 DEF AP!Call, AP!Places
    <2> QED
      BY <1>3, <1>5, <2>1 DEF AP!DrainStart
  <1>6. CASE AP!DrainTake
    <2>1. PICK i \in DOMAIN pending[TheApp] :
            AP!Goes([AP!Top EXCEPT !.ready = Append(@, pending[TheApp][i])])
      BY <1>1, <1>6 DEF AP!DrainTake
    <2>2. Append(AP!Top.ready, pending[TheApp][i]) \in Seq(AP!Entry)
      BY <1>1, <2>1
    <2>3. [AP!Top EXCEPT !.ready = Append(@, pending[TheApp][i])] \in AP!Call
      BY <1>1, <2>2 DEF AP!Call
    <2>4. [AP!Top EXCEPT !.ready = Append(@, pending[TheApp][i])].at # "build"
      BY <1>1, <1>6 DEF AP!Call, AP!DrainTake, AP!At
    <2> QED
      BY <1>3, <2>1, <2>3, <2>4
  <1>7. CASE AP!DrainCollected
    <2>1. [AP!Top EXCEPT !.at = "loop"] \in AP!Call /\ [AP!Top EXCEPT !.at = "loop"].at # "build"
      BY <1>1 DEF AP!Call, AP!Places
    <2>2. (pending[TheApp] = <<>>) \in BOOLEAN
      OBVIOUS
    <2>3. CASE AP!Top.ready = <<>>
      <3>1. AP!Returns(pending[TheApp] = <<>>)
        BY <1>1, <1>7, <2>3 DEF AP!DrainCollected
      <3> QED
        BY <1>4, <2>2, <3>1
    <2>4. CASE AP!Top.ready # <<>>
      BY <1>3, <1>7, <2>1, <2>4 DEF AP!DrainCollected
    <2> QED
      BY <2>3, <2>4
  <1>8. CASE AP!BuildCall
    <2>1. PICK e : e = Head(AP!Top.ready)
      OBVIOUS
    <2>5. AP!Top.ready # <<>> /\ plugins' = [plugins EXCEPT ![TheApp] = Append(plugins[TheApp], e)]
      BY <1>1, <1>8, <2>1 DEF AP!BuildCall
    <2>6. e \in AP!Entry
      BY <1>1, <2>1, <2>5
    <2>2. PICK ps \in Seq(AP!Entry) : ps = plugins[TheApp]
      BY <1>1
    <2>3. plugins'[TheApp] = Append(ps, e)
      BY <1>1, <2>2, <2>5
    <2>4. Len(Append(ps, e)) # 0
      BY <2>2, <2>6
    <2> QED
      BY <2>3, <2>4 DEF BuildInv
  <1>9. ASSUME NEW ok \in BOOLEAN, AP!BuildReturn(ok)
        PROVE  BuildInv'
    <2> DEFINE at == IF AP!Top.ready = <<>> THEN "collect" ELSE "loop"
    <2>1. at \in AP!Places /\ at # "build"
      BY DEF AP!Places
    <2>2. ok => AP!Goes([AP!Top EXCEPT !.at = at])
      BY <1>9 DEF AP!BuildReturn
    <2>3. ~ok => AP!Returns(FALSE)
      BY <1>9 DEF AP!BuildReturn
    <2> HIDE DEF at
    <2>4. [AP!Top EXCEPT !.at = at] \in AP!Call /\ [AP!Top EXCEPT !.at = at].at # "build"
      BY <1>1, <2>1 DEF AP!Call
    <2> QED
      BY <1>3, <1>4, <2>2, <2>3, <2>4
  <1>10. CASE \/ AP!AddReturn \/ AP!PostStart \/ AP!PostSubapps \/ AP!PostDone
              \/ AP!PrepareStart \/ AP!PrepareDrained \/ AP!PreparePosted \/ AP!PrepareSubapps
              \/ AP!PrepareDone \/ AP!RunPrepared \/ AP!RunnerReturn \/ AP!RunReturn
              \/ AP!TeardownSubapps \/ AP!TeardownPlugin \/ AP!TeardownDone
              \/ \E ok \in BOOLEAN : AP!PostPlugin(ok)
    BY <1>2, <1>10, AppAssumed, AP!OrderOther DEF AppInv, AP!LifeInv
  <1> QED
    BY <1>5, <1>6, <1>7, <1>8, <1>9, <1>10 DEF AP!Internal

LEMMA BuildNext ==
    ASSUME LoadInv, AppInv, BuildInv, [Next]_vars
    PROVE  BuildInv'
  <1>1. CASE UNCHANGED <<plugins, stack>>
    BY <1>1 DEF BuildInv, AP!At, AP!Top
  <1>2. CASE AppStep
    BY <1>2, InternalSame, BuildInternal DEF AppStep
  <1>3. ASSUME NEW c, c.at # "build", stack' = <<c>> \/ \E b : stack' = stack \o <<b, c>>
        PROVE  BuildInv'
    <2>1. stack \in Seq(AP!Call)
      BY DEF LoadInv, AP!TypeOK
    <2>2. stack'[Len(stack')] = c
      <3>1. CASE stack' = <<c>>
        BY <3>1
      <3>2. ASSUME NEW b, stack' = stack \o <<b, c>>
            PROVE  stack'[Len(stack')] = c
        <4>1. PICK n \in Nat : n = Len(stack)
          BY <2>1
        <4>2. Len(stack') = n + 2
          BY <2>1, <3>2, <4>1
        <4>3. stack'[n + 2] = c
          BY <2>1, <3>2, <4>1
        <4> QED
          BY <4>2, <4>3
      <3> QED
        BY <1>3, <3>1, <3>2
    <2> QED
      BY <1>3, <2>2 DEF BuildInv, AP!At, AP!Top
  <1>4. ASSUME NEW n, NEW ds, A!AddPlugin(TheApp, n, ds)
        PROVE  BuildInv'
    <2>1. A!NewCall("drain", TheApp).at # "build"
      BY DEF A!NewCall
    <2> QED
      BY <1>1, <1>3, <1>4, <2>1 DEF A!AddPlugin
  <1>5. CASE HostRun
    <2>1. A!NewCall("prepare", TheApp).at # "build" /\ stack = <<>>
      BY <1>5 DEF A!NewCall, HostRun, A!Run
    <2>2. stack' = <<[A!NewCall("run", TheApp) EXCEPT !.at = "prepare"], A!NewCall("prepare", TheApp)>>
      BY <1>5 DEF HostRun, A!Run
    <2>3. stack' = stack \o <<[A!NewCall("run", TheApp) EXCEPT !.at = "prepare"], A!NewCall("prepare", TheApp)>>
      BY <2>1, <2>2
    <2> QED
      BY <1>3, <2>1, <2>3
  <1>6. CASE HostDestroy
    <2>1. A!NewCall("teardown", TheApp).at # "build"
      BY DEF A!NewCall
    <2> QED
      BY <1>1, <1>3, <1>6, <2>1 DEF HostDestroy, A!Teardown, appVars
  <1>7. CASE Host
    BY <1>1, <1>4, <1>5, <1>6, <1>7 DEF Host, AddVfs, Cleanup, HostMount, LoadPackages, appVars
  <1>8. CASE Internal
    BY <1>1, <1>2, <1>4, <1>8
       DEF Internal, Resolve, ResolveDone, SortEntry, SortPass, RegisterFails, RegisterScript,
           RegisterCall, RegisterRefused, RegisterReturn, RegisterDone, Inject, InjectEntry,
           LoadDone, BuildAdds, appVars
  <1> QED
    BY <1>1, <1>7, <1>8 DEF Next, Finished, vars, appVars

\* The library of p is entered, and its plugin is with the App.
Working(p) == Entered(p) /\ call.outcome # "refused"

\* The code of every plugin that the App knows is in a library that is kept, or
\* in the one that is entered.
CodeInv ==
    host # "done" =>
      /\ code[VfsPlugin] = None
      /\ \A n \in Known : code[n] # None => code[n] \in Range(handles) \/ Working(code[n])
      /\ runtime # None => runtime \in Range(handles)

LEMMA HandlesAppend ==
    ASSUME handles \in Seq(Packages), NEW p \in Packages, handles' = Append(handles, p)
    PROVE  Range(handles') = Range(handles) \cup {p}
  <1>1. PICK hs \in Seq(Packages) : hs = handles
    OBVIOUS
  <1>2. Range(Append(hs, p)) = Range(hs) \cup {p}
    BY RangeAppend
  <1> QED
    BY <1>1, <1>2

\* A step that leaves the libraries of the known plugins alone.
LEMMA CodeStays ==
    ASSUME CodeInv, host # "done", code' = code, Known' \subseteq Known,
           Range(handles) \subseteq Range(handles'), runtime' = runtime,
           \A p : Working(p) => Working(p)' \/ p \in Range(handles')
    PROVE  CodeInv'
  <1>1. ASSUME NEW n \in Known', code'[n] # None
        PROVE  code'[n] \in Range(handles') \/ \E p : p = code'[n] /\ Working(p)'
    BY <1>1 DEF CodeInv
  <1>2. \A n \in Known' : code'[n] # None => code'[n] \in Range(handles') \/ Working(code[n])'
    BY <1>1 DEF Working, Entered
  <1> QED
    BY <1>2 DEF CodeInv

LEMMA CodeNext ==
    ASSUME ~BuildsFail, NamesApart, RunInv, RunInv', RegInv, BuildInv, CodeInv, [Next]_vars
    PROVE  CodeInv'
  <1>1. /\ LoadInv /\ LoadInv' /\ AppInv /\ LoaderType /\ Staged /\ CallInv
        /\ AddingInv /\ QueueInv
    BY DEF RunInv, RegInv, LoadInv
  <1>2. CASE host = "done"
    <2>1. host' = "done"
      <3>1. CASE Host
        BY <1>2, <3>1 DEF Host, AddVfs, HostReady, HostRun, HostDestroy, Cleanup, HostMount,
                          LoadPackages
      <3>2. CASE Internal
        BY <1>2, <3>2 DEF Internal, Resolve, ResolveDone, SortEntry, SortPass, RegisterFails,
           RegisterScript, RegisterCall, RegisterRefused, RegisterReturn, RegisterDone, Inject,
           InjectEntry, LoadDone, AppStep, BuildAdds
      <3> QED
        BY <1>2, <3>1, <3>2 DEF Next, Finished, vars, loaderVars
    <2> QED
      BY <2>1 DEF CodeInv
  <1> SUFFICES ASSUME host # "done"
               PROVE  CodeInv'
    BY <1>2
  <1>3. ASSUME UNCHANGED <<code, handles, runtime, call>>, Known' \subseteq Known
        PROVE  CodeInv'
    <2>1. \A p : Working(p) => Working(p)'
      BY <1>3 DEF Working, Entered, At, Current
    <2> QED
      BY <1>3, <2>1, CodeStays
  <1>4. ASSUME UNCHANGED <<code, handles, runtime, appVars>>, ~At("adding")
        PROVE  CodeInv'
    <2>1. \A p : ~Working(p)
      BY <1>4 DEF Working, Entered
    <2>2. Known' = Known
      BY <1>4 DEF appVars, Known, Built, Waiting, AP!Ready, AP!Top, AP!NamesOf
    <2> QED
      BY <1>4, <2>1, <2>2, CodeStays
  <1>5. CASE AppStep
    <2>1. Known' \subseteq Known
      BY <1>1, <1>5, InternalSame, KnownInternal DEF AppStep, KnownKept
    <2> QED
      BY <1>3, <1>5, <2>1 DEF AppStep
  <1>6. CASE BuildAdds
    <2> DEFINE built == plugins[TheApp][Len(plugins[TheApp])].name
    <2>1. /\ A!At("drain", "build") /\ A!AddPlugin(TheApp, SubPlugin, {})
          /\ code' = [code EXCEPT ![SubPlugin] = code[built]]
          /\ UNCHANGED <<handles, runtime, call>> /\ code[built] \in Composites
      BY <1>6 DEF BuildAdds
    <2>2. SubPlugin \in Names /\ {} \in SUBSET Names /\ VfsPlugin \in Names
      BY DEF Names
    <2>3. Known' = Known \cup {SubPlugin}
      BY <1>1, <2>1, <2>2, AddSame, KnownAdds
    <2>4. built \in Known
      <3>1. AP!At("drain", "build")
        BY <2>1, TopSame
      <3>2. stack # <<>> /\ AP!Top.app = TheApp
        BY <1>1, <3>1, StackSize DEF AP!At
      <3>4. plugins[TheApp] # <<>>
        BY <3>1 DEF BuildInv
      <3>5. Len(plugins[TheApp]) \in DOMAIN plugins[TheApp]
        <4>1. plugins[TheApp] \in Seq(AP!Entry)
          BY <1>1 DEF LoadInv, AP!TypeOK
        <4> QED
          BY <3>4, <4>1
      <3> QED
        BY <3>5 DEF Known, Built, AP!NamesOf
    <2>5. code[built] # None
      <3>1. None \notin Packages /\ Composites \subseteq Packages
        BY PackagesAssumption
      <3> QED
        BY <2>1, <3>1
    <2>6. code[built] \in Range(handles) \/ Working(code[built])
      BY <2>4, <2>5 DEF CodeInv
    <2>7. /\ code'[SubPlugin] = code[built] /\ code'[VfsPlugin] = code[VfsPlugin]
          /\ \A n \in Known : n # SubPlugin => code'[n] = code[n]
      <3>1. code \in [Names -> Packages \cup {None}]
        BY <1>1 DEF LoaderType
      <3>2. VfsPlugin # SubPlugin
        BY DEF NamesApart
      <3> HIDE DEF built
      <3> QED
        BY <2>1, <2>2, <3>1, <3>2
    <2> HIDE DEF built
    <2>8. ASSUME NEW n \in Known', code'[n] # None
          PROVE  code'[n] \in Range(handles) \/ \E p : p = code'[n] /\ Working(p)
      BY <2>3, <2>6, <2>7, <2>8 DEF CodeInv
    <2>9. \A p : Working(p) => Working(p)'
      BY <2>1 DEF Working, Entered, At, Current
    <2>10. \A n \in Known' : code'[n] # None =>
             code'[n] \in Range(handles') \/ \E p : p = code'[n] /\ Working(p)'
      BY <2>1, <2>8, <2>9
    <2>11. \A n \in Known' : code'[n] # None => code'[n] \in Range(handles') \/ Working(code[n])'
      BY <2>10 DEF Working, Entered
    <2> QED
      BY <2>1, <2>7, <2>11 DEF CodeInv
  <1>7. CASE RegisterCall
    <2> DEFINE n == ManifestName[Current.pkg]
               p == Current.pkg
    <2>1. /\ Registering /\ A!AddPlugin(TheApp, n, PluginDeps(p))
          /\ code' = [code EXCEPT ![n] = IF Current.library THEN p ELSE None]
          /\ UNCHANGED <<handles, runtime>>
      BY <1>7 DEF RegisterCall
    <2>2. ~At("adding") /\ p \in Packages
      BY <1>1, <2>1, CurrentType DEF Registering, At
    <2>3. n \in Names /\ PluginDeps(p) \in SUBSET Names /\ n # VfsPlugin
      BY <2>2 DEF Names, PluginDeps, NamesApart
    <2>4. Known' = Known \cup {n}
      BY <1>1, <2>1, <2>3, AddSame, KnownAdds
    <2>5. /\ call'.at = "adding" /\ call'.outcome # "refused" /\ Current' = Current
      <3>1. call' = [CallWithScript EXCEPT !.at = "adding",
                       !.outcome = IF stack' = <<>> THEN "queued" ELSE "drained"]
        BY <1>7 DEF RegisterCall
      <3>2. call \in LoadCall
        BY <1>1 DEF CallInv
      <3>3. /\ call'.at = "adding" /\ call'.outcome \in {"queued", "drained"}
            /\ call'.pending = call.pending /\ call'.order = call.order
            /\ call'.index = call.index
        BY <3>1, <3>2 DEF LoadCall, CallWithScript
      <3> QED
        BY <3>3 DEF Current
    <2>6. Current.library => Working(p)'
      BY <2>5 DEF Working, Entered, At
    <2>7. /\ code'[n] = (IF Current.library THEN p ELSE None) /\ code'[VfsPlugin] = code[VfsPlugin]
          /\ \A m \in Known : m # n => code'[m] = code[m]
      <3>1. code \in [Names -> Packages \cup {None}] /\ VfsPlugin \in Names
        BY <1>1 DEF LoaderType, Names
      <3> HIDE DEF n, p
      <3> QED
        BY <2>1, <2>3, <3>1
    <2> HIDE DEF n
    <2>8. \A m \in Known : code[m] # None => code[m] \in Range(handles)
      BY <2>2 DEF CodeInv, Working, Entered
    <2>9. ASSUME NEW m \in Known', code'[m] # None
          PROVE  code'[m] \in Range(handles') \/ Working(code[m])'
      <3>1. CASE m = n
        <4>1. code'[m] = p /\ Current.library
          BY <2>7, <2>9, <3>1
        <4>2. code'[m] = p' /\ Working(p)'
          BY <2>5, <2>6, <4>1
        <4> QED
          BY <4>2 DEF Working, Entered
      <3>2. CASE m # n
        BY <2>1, <2>4, <2>7, <2>8, <2>9, <3>2
      <3> QED
        BY <3>1, <3>2
    <2> QED
      BY <2>1, <2>7, <2>9 DEF CodeInv
  <1>8. CASE RegisterReturn
    <2>1. At("adding") /\ UNCHANGED <<appVars, code>> /\ Quiet /\ Current.pkg \in Packages
      BY <1>1, <1>8, RegisteringIn, CurrentType DEF RegisterReturn
    <2>2. Known' = Known
      BY <2>1 DEF appVars, Known, Built, Waiting, AP!Ready, AP!Top, AP!NamesOf
    <2>3. CASE Succeeded
      <3>1. /\ handles' = IF Current.library THEN Append(handles, Current.pkg) ELSE handles
            /\ runtime' = IF Current.library /\ Current.pkg \in Runtimes
                          THEN Current.pkg ELSE runtime
        BY <1>8, <2>3 DEF RegisterReturn
      <3>2. /\ Range(handles) \subseteq Range(handles')
            /\ Current.library => Current.pkg \in Range(handles')
        BY <1>1, <2>1, <3>1, HandlesAppend DEF LoaderType
      <3>3. \A n \in Known : code[n] # None => code[n] \in Range(handles')
        BY <3>2 DEF CodeInv, Working, Entered
      <3>4. runtime' # None => runtime' \in Range(handles')
        BY <3>1, <3>2 DEF CodeInv
      <3>5. code'[VfsPlugin] = None
        BY <2>1 DEF CodeInv
      <3>6. \A n \in Known' : code'[n] # None => code'[n] \in Range(handles')
        BY <2>1, <2>2, <3>3
      <3> QED
        BY <3>4, <3>5, <3>6 DEF CodeInv
    <2>4. CASE ~Succeeded
      <3>1. UNCHANGED <<handles, runtime>>
        BY <1>8, <2>4 DEF RegisterReturn
      <3>2. call.outcome = "refused"
        BY <1>1, <2>1, <2>4 DEF AddingInv, Succeeded
      <3>3. \A p : ~Working(p)
        BY <3>2 DEF Working
      <3> QED
        BY <2>1, <2>2, <3>1, <3>3, CodeStays
    <2> QED
      BY <2>3, <2>4
  <1>9. CASE AddVfs
    <2>1. A!AddPlugin(TheApp, VfsPlugin, {}) /\ UNCHANGED <<code, handles, runtime, call>>
      BY <1>9 DEF AddVfs, loaderVars
    <2>2. VfsPlugin \in Names /\ {} \in SUBSET Names
      BY DEF Names
    <2>3. Known' = Known \cup {VfsPlugin}
      BY <1>1, <2>1, <2>2, AddSame, KnownAdds
    <2>4. \A p : Working(p) => Working(p)'
      BY <2>1 DEF Working, Entered, At, Current
    <2>5. \A n \in Known' : code'[n] # None => code'[n] \in Range(handles') \/ \E p : p = code'[n] /\ Working(p)'
      BY <2>1, <2>3, <2>4 DEF CodeInv
    <2>6. \A n \in Known' : code'[n] # None => code'[n] \in Range(handles') \/ Working(code[n])'
      BY <2>5 DEF Working, Entered
    <2> QED
      BY <2>1, <2>6 DEF CodeInv
  <1>10. CASE HostRun \/ HostDestroy
    <2>1. UNCHANGED <<code, handles, runtime, call>>
      BY <1>10 DEF HostRun, HostDestroy
    <2> QED
      BY <1>1, <1>3, <1>10, <2>1, KnownHost
  <1>11. CASE Cleanup
    BY <1>11 DEF Cleanup, CodeInv
  <1>12. ASSUME NEW es \in Listings, LoadPackages(es)
         PROVE  CodeInv'
    BY <1>4, <1>12 DEF LoadPackages, At
  <1>13. ASSUME NEW d \in HostDirs, HostMount(d)
         PROVE  CodeInv'
    BY <1>4, <1>13 DEF HostMount, HostReady, At
  <1>14. CASE Host
    BY <1>9, <1>10, <1>11, <1>12, <1>13, <1>14 DEF Host
  <1>15. CASE Internal
    BY <1>4, <1>5, <1>6, <1>7, <1>8, <1>15
       DEF Internal, Resolve, ResolveDone, SortEntry, SortPass, RegisterFails, RegisterScript,
           Registering, RegisterRefused, RegisterDone, Inject, InjectEntry, LoadDone, At
  <1>16. CASE UNCHANGED vars
    <2>1. Known' = Known /\ UNCHANGED <<code, handles, runtime, call>>
      BY <1>16 DEF vars, appVars, loaderVars, Known, Built, Waiting, AP!Ready, AP!Top, AP!NamesOf
    <2> QED
      BY <1>3, <2>1
  <1> QED
    BY <1>14, <1>15, <1>16 DEF Next, Finished

LEMMA CodeInit == Init => BuildInv /\ CodeInv
  <1> SUFFICES ASSUME Init PROVE BuildInv /\ CodeInv
    OBVIOUS
  <1>1. BuildInv
    BY DEF Init, A!Init, BuildInv, AP!At
  <1>2. Known = {}
    BY DEF Init, A!Init, Known, Built, Waiting, AP!Ready, AP!NamesOf
  <1>3. CodeInv
    BY <1>2 DEF Init, CodeInv, Names
  <1> QED
    BY <1>1, <1>3

\* What is kept, or entered, is open.
LEMMA KeptOpen ==
    ASSUME LoadInv, NEW p \in Packages, p \in Range(handles) \/ Working(p)
    PROVE  libs[p] > 0
  <1>1. /\ IsFiniteSet(Held(p)) /\ Cardinality(Held(p)) \in Nat
        /\ libs[p] = Cardinality(Held(p)) + IF Entered(p) THEN 1 ELSE 0
    BY HeldCount DEF LoadInv, LibsInv
  <1>2. CASE p \in Range(handles)
    <2>1. Held(p) # {}
      BY <1>2 DEF Range, Held
    <2>2. Cardinality(Held(p)) # 0
      BY <1>1, <2>1, FS_EmptySet
    <2> QED
      BY <1>1, <2>2
  <1>3. CASE Working(p)
    BY <1>1, <1>3 DEF Working
  <1> QED
    BY <1>2, <1>3

LEMMA CodeOfPlugins ==
    ASSUME RunInv, CodeInv, EndInv
    PROVE  CodeLoaded
  <1>1. LoadInv /\ LoaderType /\ AP!LifeInv
    BY DEF RunInv, LoadInv, AppInv
  <1>2. CASE host = "done"
    <2>1. state[TheApp] = "Shutdown" /\ runtime = None
      BY <1>2 DEF EndInv, Ended
    <2>2. AP!PluginOK(TheApp)
      BY <1>1 DEF AP!LifeInv, AP!PluginInv
    <2> QED
      BY <2>1, <2>2 DEF AP!PluginOK, CodeLoaded
  <1>3. CASE host # "done"
    <2>1. ASSUME NEW n \in Known, code[n] # None
          PROVE  libs[code[n]] > 0
      <3>1. n \in Names
        <4>1. /\ plugins[TheApp] \in Seq(AP!Entry) /\ pending[TheApp] \in Seq(AP!Entry)
              /\ stack # <<>> => AP!Top.ready \in Seq(AP!Entry)
          BY <1>1, StackSize DEF LoadInv, AP!TypeOK, AP!Call
        <4>2. \A es \in Seq(AP!Entry) : AP!NamesOf(es) \subseteq Names
          <5>1. TAKE es \in Seq(AP!Entry)
          <5>2. \A i \in DOMAIN es : es[i] \in AP!Entry
            OBVIOUS
          <5> QED
            BY <5>2 DEF AP!NamesOf, AP!Entry
        <4> QED
          BY <4>1, <4>2 DEF Known, Built, Waiting, AP!Ready
      <3>2. code[n] \in Packages
        BY <1>1, <2>1, <3>1 DEF LoaderType
      <3>3. code[n] \in Range(handles) \/ Working(code[n])
        BY <1>3, <2>1 DEF CodeInv
      <3> QED
        BY <1>1, <3>2, <3>3, KeptOpen
    <2>2. runtime # None => libs[runtime] > 0
      BY <1>1, <1>3, KeptOpen DEF CodeInv, LoaderType
    <2>3. \A i \in DOMAIN plugins[TheApp] : CodeOpen(plugins[TheApp][i])
      BY <2>1 DEF CodeOpen, Known, Built, AP!NamesOf
    <2>4. \A i \in DOMAIN pending[TheApp] : CodeOpen(pending[TheApp][i])
      BY <2>1 DEF CodeOpen, Known, Waiting, AP!NamesOf
    <2> QED
      BY <2>2, <2>3, <2>4 DEF CodeLoaded
  <1> QED
    BY <1>2, <1>3

\* While the App may call into a library it is open, and once the loader is gone
\* none is: neither the order of load, run, destroy and cleanup nor a failure
\* within a call takes the code of a plugin away from under the App.  Build
\* callbacks do not fail: after one that does, the library of a plugin that
\* waits may be closed.
THEOREM LibrariesCorrect ==
    ASSUME ~BuildsFail, NamesApart
    PROVE  Spec => []LibrariesRight
  <1> DEFINE Inv == RunInv /\ RegInv /\ EndInv /\ BuildInv /\ CodeInv
  <1>1. Init => Inv
    <2> SUFFICES ASSUME Init PROVE Inv
      OBVIOUS
    <2>1. RunInv /\ RegInv /\ EndInv
      BY RunInit, RegInit, EndInit
    <2> QED
      BY <2>1, CodeInit
  <1>2. Inv /\ [Next]_vars => Inv'
    <2> SUFFICES ASSUME Inv, [Next]_vars PROVE Inv'
      OBVIOUS
    <2>1. RunInv /\ RunInv'
      BY RunNext
    <2>2. LoadInv /\ AppInv
      BY <2>1 DEF RunInv
    <2>3. RegInv' /\ EndInv' /\ BuildInv' /\ CodeInv'
      BY <2>1, <2>2, RegNext, EndNext, BuildNext, CodeNext
    <2> QED
      BY <2>1, <2>3
  <1>3. Inv => CodeLoaded
    BY CodeOfPlugins
  <1>4. Spec => []CodeLoaded
    BY <1>1, <1>2, <1>3, PTL DEF Spec
  <1> QED
    BY <1>4, LibrariesClosedCorrect, PTL DEF LibrariesRight

-----------------------------------------------------------------------------
(* The order of registration                                                *)

\* No script package has a library of its own.
ScriptsPlain == Scripts \cap Runtimes = {}

\* The package of a plugin that the App knows is registered, or is about to be.
KnownInv ==
    \A q \in Packages :
      ManifestName[q] \in Known =>
        \/ q \in Range(registered)
        \/ At("adding") /\ call.outcome # "refused" /\ Current.pkg = q

LEMMA RegisteredGrows ==
    ASSUME LoadInv, [Next]_vars
    PROVE  /\ Range(registered) \subseteq Range(registered')
           /\ \/ registered' = registered
              \/ \E p \in Packages : registered' = Append(registered, p)
  <1>1. call \in LoadCall /\ registered \in Seq(Packages)
    BY DEF LoadInv, CallInv, LoaderType
  <1>2. CASE registered' = registered
    BY <1>2
  <1>3. ASSUME NEW p \in Packages, registered' = Append(registered, p)
        PROVE  /\ Range(registered) \subseteq Range(registered')
               /\ \/ registered' = registered
                  \/ \E q \in Packages : registered' = Append(registered, q)
    BY <1>1, <1>3, RangeGrows
  <1>4. CASE RegisterReturn
    <2>1. Current.pkg \in Packages
      BY <1>4, RegisteringIn, CurrentType DEF RegisterReturn, LoadInv
    <2> QED
      BY <1>2, <1>3, <1>4, <2>1 DEF RegisterReturn
  <1>5. ASSUME NEW ok \in BOOLEAN, InjectEntry(ok)
        PROVE  /\ Range(registered) \subseteq Range(registered')
               /\ \/ registered' = registered
                  \/ \E q \in Packages : registered' = Append(registered, q)
    <2>1. call.scripts[call.index] \in Packages
      BY <1>1, <1>5 DEF InjectEntry, LoadCall
    <2> QED
      BY <1>2, <1>3, <1>5, <2>1 DEF InjectEntry
  <1>6. CASE Host
    BY <1>2, <1>6 DEF Host, AddVfs, loaderVars, HostRun, HostDestroy, Cleanup, HostMount,
                      LoadPackages
  <1>7. CASE Internal
    BY <1>2, <1>4, <1>5, <1>7
       DEF Internal, Resolve, ResolveDone, SortEntry, SortPass, RegisterFails, RegisterScript,
           RegisterCall, RegisterRefused, RegisterDone, Inject, LoadDone, AppStep, BuildAdds
  <1> QED
    BY <1>2, <1>6, <1>7 DEF Next, Finished, vars, loaderVars

\* The last of what was registered.
LEMMA LastRegistered ==
    ASSUME registered \in Seq(Packages), NEW p \in Packages, registered' = Append(registered, p)
    PROVE  p \in Range(registered')
  <1>1. Len(registered) + 1 \in DOMAIN registered' /\ registered'[Len(registered) + 1] = p
    OBVIOUS
  <1> QED
    BY <1>1 DEF Range

LEMMA KnownNext ==
    ASSUME ~BuildsFail, NamesApart, RunInv, RunInv', RegInv, KnownInv, [Next]_vars
    PROVE  KnownInv'
  <1>1. /\ LoadInv /\ LoadInv' /\ AppInv /\ LoaderType /\ Staged /\ CallInv
        /\ AddingInv /\ QueueInv
    BY DEF RunInv, RegInv, LoadInv
  <1>2. Range(registered) \subseteq Range(registered')
    BY <1>1, RegisteredGrows
  <1>3. ASSUME call' = call, NEW n, n \in Names => \A q \in Packages : ManifestName[q] # n,
               Known' \subseteq Known \cup {n}
        PROVE  KnownInv'
    <2> SUFFICES ASSUME NEW q \in Packages, ManifestName[q] \in Known'
                 PROVE  \/ q \in Range(registered')
                        \/ At("adding")' /\ call'.outcome # "refused" /\ Current'.pkg = q
      BY DEF KnownInv
    <2>1. ManifestName[q] \in Known
      BY <1>3 DEF Names
    <2>2. At("adding")' = At("adding") /\ Current' = Current
      BY <1>3 DEF At, Current
    <2> QED
      BY <1>2, <1>3, <2>1, <2>2 DEF KnownInv
  <1>4. ASSUME call' = call, Known' \subseteq Known
        PROVE  KnownInv'
    <2>1. None \notin Names /\ Known' \subseteq Known \cup {None}
      BY <1>4, PackagesAssumption
    <2> QED
      BY <1>3, <1>4, <2>1
  <1>5. ASSUME UNCHANGED appVars, ~At("adding")
        PROVE  KnownInv'
    <2>1. Known' = Known
      BY <1>5 DEF appVars, Known, Built, Waiting, AP!Ready, AP!Top, AP!NamesOf
    <2> QED
      BY <1>2, <1>5, <2>1 DEF KnownInv
  <1>6. CASE AppStep
    <2>1. Known' \subseteq Known
      BY <1>1, <1>6, InternalSame, KnownInternal DEF AppStep, KnownKept
    <2> QED
      BY <1>4, <1>6, <2>1 DEF AppStep
  <1>7. ASSUME NEW n \in {VfsPlugin, SubPlugin}, A!AddPlugin(TheApp, n, {}), call' = call
        PROVE  KnownInv'
    <2>1. n \in Names /\ {} \in SUBSET Names /\ \A q \in Packages : ManifestName[q] # n
      BY DEF Names, NamesApart
    <2>2. Known' = Known \cup {n}
      BY <1>1, <1>7, <2>1, AddSame, KnownAdds
    <2> QED
      BY <1>3, <1>7, <2>1, <2>2
  <1>8. CASE BuildAdds
    BY <1>7, <1>8 DEF BuildAdds
  <1>9. CASE AddVfs
    BY <1>7, <1>9 DEF AddVfs, loaderVars
  <1>10. CASE RegisterCall
    <2> DEFINE n == ManifestName[Current.pkg]
               p == Current.pkg
    <2>1. Registering /\ A!AddPlugin(TheApp, n, PluginDeps(p))
      BY <1>10 DEF RegisterCall
    <2>2. ~At("adding") /\ p \in Packages
      BY <1>1, <2>1, CurrentType DEF Registering, At
    <2>3. n \in Names /\ PluginDeps(p) \in SUBSET Names
      BY <2>2 DEF Names, PluginDeps
    <2>4. Known' = Known \cup {n}
      BY <1>1, <2>1, <2>3, AddSame, KnownAdds
    <2>5. /\ call'.at = "adding" /\ call'.outcome # "refused" /\ Current' = Current
      <3>1. call' = [CallWithScript EXCEPT !.at = "adding",
                       !.outcome = IF stack' = <<>> THEN "queued" ELSE "drained"]
        BY <1>10 DEF RegisterCall
      <3>2. call \in LoadCall
        BY <1>1 DEF CallInv
      <3>3. /\ call'.at = "adding" /\ call'.outcome \in {"queued", "drained"}
            /\ call'.pending = call.pending /\ call'.order = call.order
            /\ call'.index = call.index
        BY <3>1, <3>2 DEF LoadCall, CallWithScript
      <3> QED
        BY <3>3 DEF Current
    <2>6. \A q \in Packages : ManifestName[q] = n => q = p
      BY <2>2 DEF NamesApart
    <2> HIDE DEF n
    <2>7. \A q \in Packages : ManifestName[q] \in Known => q \in Range(registered)
      BY <2>2 DEF KnownInv
    <2> QED
      BY <1>2, <2>4, <2>5, <2>6, <2>7 DEF KnownInv, At
  <1>11. CASE RegisterReturn
    <2>1. At("adding") /\ UNCHANGED appVars /\ Quiet /\ Current.pkg \in Packages
      BY <1>1, <1>11, RegisteringIn, CurrentType DEF RegisterReturn
    <2>2. Known' = Known
      BY <2>1 DEF appVars, Known, Built, Waiting, AP!Ready, AP!Top, AP!NamesOf
    <2>3. call.outcome # "refused" => Current.pkg \in Range(registered')
      <3>1. SUFFICES ASSUME call.outcome # "refused"
                     PROVE  Current.pkg \in Range(registered')
        OBVIOUS
      <3>2. Succeeded
        BY <1>1, <2>1, <3>1 DEF AddingInv, Succeeded
      <3>3. registered' = Append(registered, Current.pkg)
        BY <1>11, <3>2 DEF RegisterReturn
      <3> QED
        BY <1>1, <2>1, <3>3, LastRegistered DEF LoaderType
    <2> QED
      BY <1>2, <2>2, <2>3 DEF KnownInv
  <1>12. CASE HostRun \/ HostDestroy
    <2>1. call' = call
      BY <1>12 DEF HostRun, HostDestroy
    <2> QED
      BY <1>1, <1>4, <1>12, <2>1, KnownHost
  <1>13. ASSUME UNCHANGED <<appVars, call>>
         PROVE  KnownInv'
    <2>1. Known' = Known
      BY <1>13 DEF appVars, Known, Built, Waiting, AP!Ready, AP!Top, AP!NamesOf
    <2> QED
      BY <1>4, <1>13, <2>1
  <1>14. ASSUME NEW es \in Listings, LoadPackages(es)
         PROVE  KnownInv'
    BY <1>5, <1>14 DEF LoadPackages, At
  <1>15. CASE Host
    BY <1>9, <1>12, <1>13, <1>14, <1>15 DEF Host, Cleanup, HostMount
  <1>16. CASE Internal
    BY <1>5, <1>6, <1>8, <1>10, <1>11, <1>16
       DEF Internal, Resolve, ResolveDone, SortEntry, SortPass, RegisterFails, RegisterScript,
           Registering, RegisterRefused, RegisterDone, Inject, InjectEntry, LoadDone, At
  <1> QED
    BY <1>13, <1>15, <1>16 DEF Next, Finished, vars, loaderVars

\* All entries of the call are in the order.
AllInv == Passing => Sorted = Entries

\* A package that is registered with a plugin is native, and comes after the
\* native packages it needs.
NativeInv ==
    At("adding") =>
      /\ ~Current.script
      /\ Current.pkg \notin Statics => Needs(Current.pkg) \ Scripts \subseteq Range(registered)

\* The script packages that registration has passed wait to be entered, ...
ScriptsListed ==
    Passing =>
      \A k \in DOMAIN call.order : Passed(k) /\ ScriptAt(k) => PkgAt(k) \in Range(call.scripts)

\* ... in the order of the entries.
InTurn(j, k) ==
    /\ k \in DOMAIN call.order /\ Passed(k) /\ ScriptAt(k) /\ PkgAt(k) = call.scripts[j]
    /\ \A m \in 1..k - 1 : ScriptAt(m) => \E i \in 1..j - 1 : call.scripts[i] = PkgAt(m)

ScriptsOrdered == Passing => \A j \in DOMAIN call.scripts : \E k \in Nat : InTurn(j, k)

\* They are entered one after the other, by a runtime that has seen the files.
EnteredInv ==
    /\ Passing /\ call.scripts # <<>> => runtime # None
    /\ At("entries") =>
         /\ \A j \in DOMAIN call.scripts : j < call.index => call.scripts[j] \in Range(registered)
         /\ call.scripts # <<>> => call.mounted \subseteq call.injected

ScriptInv == AllInv /\ NativeInv /\ ScriptsListed /\ ScriptsOrdered /\ EnteredInv

\* The entry that is registered, and the package it has.
LEMMA CurrentEntry ==
    ASSUME ScriptsPlain, LoadInv, EntryInv, call.index \in DOMAIN call.order
    PROVE  /\ Current.pkg = PkgAt(call.index) /\ Current.script = ScriptAt(call.index)
           /\ Current.script => ~Current.library
  <1>1. Current.pkg = PkgAt(call.index) /\ Current.script = ScriptAt(call.index)
    BY DEF Current, PkgAt, ScriptAt
  <1>2. EntryOK(Current)
    BY CurrentType DEF LoadInv, EntryInv, Entries, Current
  <1>3. \A p : /\ FullEntry(p).script <=> p \in Scripts
               /\ FullEntry(p).library <=> p \notin Scripts \/ p \in Runtimes
               /\ ~BareEntry(p).script
    BY DEF FullEntry, BareEntry
  <1> QED
    BY <1>1, <1>2, <1>3 DEF EntryOK, ScriptsPlain

LEMMA AllNext ==
    ASSUME LoadInv, AllInv, [Next]_vars
    PROVE  AllInv'
  <1> SUFFICES ASSUME Passing'
               PROVE  Sorted' = Entries'
    BY DEF AllInv
  <1>1. ListsKept /\ (PassBegins \/ Passing)
    BY PassingSteps
  <1>2. Sorted' = Sorted /\ Entries' = Entries
    BY <1>1 DEF ListsKept, Sorted, Entries, Range
  <1>3. CASE Passing
    BY <1>2, <1>3 DEF AllInv
  <1>4. CASE PassBegins
    <2>1. Entries \subseteq Sorted
      BY <1>4 DEF PassBegins, Unsorted, Entries
    <2>2. Sorted \subseteq Entries
      BY DEF LoadInv, CallInv, OrderOnce, Sorted, Entries, Range
    <2> QED
      BY <1>2, <2>1, <2>2
  <1> QED
    BY <1>1, <1>3, <1>4

LEMMA NativeNext ==
    ASSUME NamesApart, ScriptsPlain, RunInv, RegInv, KnownInv, NativeInv, [Next]_vars
    PROVE  NativeInv'
  <1> SUFFICES ASSUME At("adding")'
               PROVE  NativeInv'
    BY DEF NativeInv
  <1>1. LoadInv /\ EntryInv /\ OrderedInv /\ PassedInv
    BY DEF RunInv, RegInv
  <1>2. call'.at = "adding" /\ Passing'
    BY DEF At, Passing
  <1>3. ListsKept /\ ((Passing /\ PassCall) \/ PassWaits)
    BY <1>1, <1>2, PassingSteps
       DEF PassBegins, PassScript, PassReturn, PassDone, PassInjects, PassEnters
  <1>4. Range(registered) \subseteq Range(registered')
    BY <1>1, RegisteredGrows
  <1>5. \A p : Needs(p)' = Needs(p)
    BY DepsKept DEF Needs
  <1>6. ASSUME Current' = Current, ~Current.script,
               Current.pkg \notin Statics =>
                 Needs(Current.pkg) \ Scripts \subseteq Range(registered)
        PROVE  NativeInv'
    BY <1>4, <1>5, <1>6 DEF NativeInv
  <1>7. CASE PassWaits
    <2>1. call' = call
      BY <1>7 DEF PassWaits
    <2>2. At("adding") /\ Current' = Current
      BY <1>2, <2>1 DEF At, Current
    <2> QED
      BY <1>6, <2>2 DEF NativeInv
  <1>8. CASE Passing /\ PassCall
    <2>1. /\ Registering /\ HasRegister /\ call'.index = call.index /\ At("register")
          /\ call.index \in DOMAIN call.order
      BY <1>8 DEF PassCall, Registering
    <2>2. Current' = Current
      BY <1>3, <2>1 DEF ListsKept, Current
    <2>3. ~Current.script
      BY <1>1, <2>1, CurrentEntry DEF HasRegister
    <2>4. ASSUME Current.pkg \notin Statics, NEW q \in Needs(Current.pkg), q \notin Scripts
          PROVE  q \in Range(registered)
      <3>1. Current.pkg = PkgAt(call.index) /\ q \in Packages
        BY <1>1, <2>1, <2>4, CurrentEntry DEF Needs
      <3>2. CASE ManifestName[q] \in Built
        BY <2>1, <3>1, <3>2 DEF KnownInv, Known, At
      <3>3. ASSUME NEW j \in 1..call.index - 1, PkgAt(j) = q
            PROVE  q \in Range(registered)
        <4>1. j \in DOMAIN call.order /\ j < call.index
          BY <1>1, <2>1 DEF LoadInv, CallInv, LoadCall
        <4>2. Passed(j)
          BY <4>1 DEF Passed
        <4>3. ~ScriptAt(j)
          BY <1>1, <2>4, <3>3, <4>1, EntryTypes
        <4> QED
          BY <1>1, <1>8, <3>3, <4>1, <4>2, <4>3 DEF PassedInv
      <3> QED
        BY <1>1, <2>1, <2>4, <3>1, <3>2, <3>3, DepsMet
    <2> QED
      BY <1>6, <2>2, <2>3, <2>4
  <1> QED
    BY <1>3, <1>7, <1>8

\* What registration passes when it goes on: the entry it was at, if any.
LEMMA PassedStep ==
    ASSUME LoadInv, [Next]_vars, Passing', NEW k \in DOMAIN call.order
    PROVE  /\ Passed(k)' => (Passing /\ Passed(k)) \/ (k = call.index /\ (PassScript \/ PassReturn))
           /\ Passing /\ Passed(k) => Passed(k)'
  <1>1. /\ call \in LoadCall /\ Reached /\ call.index \in Nat /\ k \in Nat /\ k >= 1
        /\ k <= Len(call.order)
    BY DEF LoadInv, CallInv, LoadCall
  <1>2. ListsKept
    BY PassingSteps
  <1>3. CASE PassBegins
    BY <1>1, <1>2, <1>3 DEF PassBegins, Passed, Passing, At, ListsKept
  <1>4. CASE PassScript
    <2>1. Passed(k) <=> k < call.index
      BY <1>4 DEF PassScript, Registering, At, Passed
    <2>2. Passed(k)' <=> k < call.index + 1
      BY <1>2, <1>4 DEF PassScript, Passed, ListsKept
    <2>3. Passing
      BY <1>4 DEF PassScript, Registering, At, Passing
    <2> QED
      BY <1>1, <1>4, <2>1, <2>2, <2>3
  <1>5. CASE PassCall
    BY <1>2, <1>5 DEF PassCall, Registering, At, Passed, Passing, ListsKept
  <1>6. CASE PassReturn
    <2>1. Passed(k) <=> k < call.index
      BY <1>6 DEF PassReturn, RegisterReturn, At, Passed
    <2>2. Passed(k)' <=> k < call.index + 1
      BY <1>2, <1>6 DEF PassReturn, Passed, ListsKept
    <2>3. Passing
      BY <1>6 DEF PassReturn, RegisterReturn, At, Passing
    <2> QED
      BY <1>1, <1>6, <2>1, <2>2, <2>3
  <1>7. CASE PassDone
    <2>1. At("register") /\ Passing /\ k < call.index
      BY <1>1, <1>7 DEF PassDone, RegisterDone, At, Passing, Reached, LoadCall
    <2> QED
      BY <1>2, <1>7, <2>1 DEF PassDone, Passed, ListsKept
  <1>8. CASE PassInjects
    BY <1>2, <1>8 DEF PassInjects, Inject, At, Passed, Passing, ListsKept
  <1>9. CASE PassEnters
    BY <1>2, <1>9 DEF PassEnters, InjectEntry, At, Passed, Passing, ListsKept
  <1>10. CASE Passing /\ PassWaits
    BY <1>10 DEF PassWaits, Passed
  <1> QED
    BY <1>3, <1>4, <1>5, <1>6, <1>7, <1>8, <1>9, <1>10, PassingSteps

LEMMA ListedNext ==
    ASSUME RunInv, RegInv, NativeInv, ScriptsListed, [Next]_vars
    PROVE  ScriptsListed'
  <1> SUFFICES ASSUME Passing', NEW k \in DOMAIN call.order, Passed(k)', ScriptAt(k)
               PROVE  PkgAt(k) \in Range(call'.scripts)
    <2>1. Passing' => ListsKept
      BY PassingSteps DEF RunInv
    <2> QED
      BY <2>1 DEF ScriptsListed, ListsKept, ScriptAt, PkgAt
  <1>1. LoadInv /\ call.scripts \in Seq(Packages)
    BY DEF RunInv, LoadInv, CallInv, LoadCall
  <1>2. \/ Passing /\ Passed(k)
        \/ k = call.index /\ (PassScript \/ PassReturn)
    BY <1>1, PassedStep
  <1>3. ASSUME NEW p \in Packages, call'.scripts = Append(call.scripts, p)
        PROVE  Range(call'.scripts) = Range(call.scripts) \cup {p}
    <2>1. PICK s \in Seq(Packages) : s = call.scripts
      BY <1>1
    <2>2. Range(Append(s, p)) = Range(s) \cup {p}
      BY RangeAppend
    <2> QED
      BY <1>3, <2>1, <2>2
  <1>4. CASE Passing /\ Passed(k)
    <2>1. PkgAt(k) \in Range(call.scripts)
      BY <1>4 DEF ScriptsListed
    <2>2. call'.scripts = call.scripts \/ \E p \in Packages : call'.scripts = Append(call.scripts, p)
      <3>1. Registering => Current.pkg \in Packages
        BY <1>1, CurrentType DEF Registering, LoadInv
      <3>2. PassBegins => At("order")
        BY DEF PassBegins
      <3>3. ~PassBegins
        BY <1>4, <3>2 DEF Passing, At
      <3> QED
        BY <1>1, <3>1, <3>3, PassingSteps
           DEF PassScript, PassCall, PassReturn, PassDone, PassInjects, PassEnters, PassWaits
    <2> QED
      BY <1>3, <2>1, <2>2
  <1>5. CASE k = call.index /\ PassScript
    <2>1. Current.pkg \in Packages /\ call'.scripts = Append(call.scripts, Current.pkg)
      BY <1>1, <1>5, CurrentType DEF PassScript, Registering, LoadInv
    <2> QED
      BY <1>3, <1>5, <2>1 DEF PkgAt, Current
  <1>6. CASE k = call.index /\ PassReturn
    <2>1. ~ScriptAt(k)
      BY <1>6 DEF PassReturn, RegisterReturn, NativeInv, ScriptAt, Current
    <2> QED
      BY <2>1
  <1> QED
    BY <1>2, <1>4, <1>5, <1>6

\* The scripts of a call are appended one by one.
LEMMA ScriptSteps ==
    ASSUME ScriptsPlain, LoadInv, EntryInv, [Next]_vars, Passing'
    PROVE  \/ PassBegins /\ call'.scripts = <<>>
           \/ PassScript
           \/ Passing /\ call'.scripts = call.scripts
  <1>1. PassCall => ~Current.script
    BY CurrentEntry DEF PassCall, Registering, HasRegister
  <1> QED
    BY <1>1, PassingSteps
       DEF PassBegins, PassCall, PassReturn, PassDone, PassInjects, PassEnters, PassWaits

LEMMA ScriptsOrderedNext ==
    ASSUME ScriptsPlain, RunInv, RegInv, ScriptsListed, ScriptsOrdered, [Next]_vars
    PROVE  ScriptsOrdered'
  <1> SUFFICES ASSUME Passing', NEW j \in DOMAIN call'.scripts
               PROVE  \E k \in Nat : InTurn(j, k)'
    BY DEF ScriptsOrdered
  <1>1. LoadInv /\ EntryInv /\ call.scripts \in Seq(Packages) /\ ListsKept
        /\ call.order \in Seq(Nat)
    BY PassingSteps DEF RunInv, RegInv, LoadInv, CallInv, LoadCall
  <1>2. \A k : PkgAt(k)' = PkgAt(k) /\ ScriptAt(k)' = ScriptAt(k)
    BY <1>1 DEF ListsKept, PkgAt, ScriptAt
  <1>3. ASSUME Passing, j \in DOMAIN call.scripts,
               \A i \in DOMAIN call.scripts : call'.scripts[i] = call.scripts[i]
        PROVE  \E k \in Nat : InTurn(j, k)'
    <2>1. PICK k \in Nat : InTurn(j, k)
      BY <1>3 DEF ScriptsOrdered
    <2>2. k \in DOMAIN call'.order /\ Passed(k)'
      BY <1>1, <1>3, <2>1, PassedStep DEF InTurn, ListsKept
    <2>3. \A i \in 1..j - 1 : i \in DOMAIN call.scripts
      BY <1>1, <1>3
    <2>4. ScriptAt(k)' /\ PkgAt(k)' = call'.scripts[j]
      BY <1>2, <1>3, <2>1 DEF InTurn
    <2>5. \A m \in 1..k - 1 : ScriptAt(m) => \E i \in 1..j - 1 : call'.scripts[i] = PkgAt(m)
      BY <1>3, <2>1, <2>3 DEF InTurn
    <2>6. \A m \in 1..k - 1 : ScriptAt(m)' => \E i \in 1..j - 1 : call'.scripts[i] = PkgAt(m)'
      BY <1>2, <2>5
    <2> QED
      BY <2>2, <2>4, <2>6 DEF InTurn
  <1>4. CASE PassBegins /\ call'.scripts = <<>>
    BY <1>4
  <1>5. CASE Passing /\ call'.scripts = call.scripts
    BY <1>3, <1>5
  <1>6. CASE PassScript
    <2>1. /\ Registering /\ Current.script /\ Passing /\ At("register")
          /\ call.index \in DOMAIN call.order /\ Current.pkg \in Packages
      BY <1>1, <1>6, CurrentType DEF PassScript, Registering, LoadInv, Passing, At
    <2>2. PICK s \in Seq(Packages) : s = call.scripts
      BY <1>1
    <2>3. PICK t : t = call'.scripts
      OBVIOUS
    <2>4. t = Append(s, Current.pkg)
      BY <1>6, <2>2, <2>3 DEF PassScript
    <2>5. /\ \A i \in DOMAIN s : t[i] = s[i]
          /\ j \in DOMAIN s \/ j = Len(s) + 1
          /\ t[Len(s) + 1] = Current.pkg
      BY <2>1, <2>2, <2>3, <2>4
    <2>6. CASE j \in DOMAIN s
      BY <1>3, <2>1, <2>2, <2>3, <2>5, <2>6
    <2>7. CASE j = Len(s) + 1
      <3>0. PICK k \in Nat : k = call.index
        BY <1>1, <2>1
      <3>1. k \in Nat /\ k \in DOMAIN call'.order
        BY <1>1, <2>1, <3>0 DEF ListsKept
      <3>2. Passed(k)'
        <4>1. call'.index = k + 1 /\ k < k + 1
          BY <1>6, <3>0 DEF PassScript
        <4> QED
          BY <3>1, <4>1 DEF Passed
      <3>3. ScriptAt(k)' /\ PkgAt(k)' = call'.scripts[j]
        <4>1. ScriptAt(k) /\ PkgAt(k) = Current.pkg
          BY <2>1, <3>0 DEF ScriptAt, PkgAt, Current
        <4> QED
          BY <1>2, <2>3, <2>5, <2>7, <4>1
      <3>4. ASSUME NEW m \in 1..k - 1, ScriptAt(m)
            PROVE  \E i \in 1..j - 1 : call'.scripts[i] = PkgAt(m)
        <4>1. m \in DOMAIN call.order /\ m < k
          BY <1>1, <2>1, <3>0
        <4>2. Passed(m)
          BY <3>0, <4>1 DEF Passed
        <4>3. PkgAt(m) \in Range(call.scripts)
          BY <2>1, <3>4, <4>1, <4>2 DEF ScriptsListed
        <4>4. PICK i \in DOMAIN s : s[i] = PkgAt(m)
          BY <2>2, <4>3 DEF Range
        <4>5. i \in 1..j - 1
          BY <2>2, <2>7
        <4> QED
          BY <2>3, <2>5, <4>4, <4>5
      <3>5. \A m \in 1..k - 1 : ScriptAt(m)' => \E i \in 1..j - 1 : call'.scripts[i] = PkgAt(m)'
        BY <1>2, <3>4
      <3>6. InTurn(j, k)'
        BY <3>1, <3>2, <3>3, <3>5 DEF InTurn
      <3> QED
        BY <3>1, <3>6
    <2> QED
      BY <2>5, <2>6, <2>7
  <1> QED
    BY <1>1, <1>4, <1>5, <1>6, ScriptSteps

LEMMA EnteredNext ==
    ASSUME ScriptsPlain, RunInv, RegInv, MountInv, EnteredInv, [Next]_vars
    PROVE  EnteredInv'
  <1> SUFFICES ASSUME Passing'
               PROVE  EnteredInv'
    BY DEF EnteredInv, Passing, At
  <1>1. /\ LoadInv /\ EntryInv /\ LoaderType /\ call \in LoadCall /\ Reached
        /\ call.scripts \in Seq(Packages) /\ call.index \in Nat
    BY DEF RunInv, RegInv, LoadInv, CallInv, LoadCall
  <1>2. ListsKept /\ Range(registered) \subseteq Range(registered')
    BY <1>1, PassingSteps, RegisteredGrows
  <1>3. call'.scripts # <<>> => runtime' # None
    <2> SUFFICES ASSUME call'.scripts # <<>> PROVE runtime' # None
      OBVIOUS
    <2>1. CASE PassScript
      BY <2>1 DEF PassScript, LoaderKept
    <2>2. CASE Passing /\ call'.scripts = call.scripts
      <3>1. runtime # None
        BY <2>2 DEF EnteredInv
      <3>2. CASE PassReturn
        <4>1. Current.pkg \in Packages
          BY <1>1, <3>2, RegisteringIn, CurrentType DEF PassReturn, RegisterReturn, LoadInv
        <4>2. Current.pkg # None
          BY <4>1, PackagesAssumption
        <4> QED
          BY <3>1, <3>2, <4>2 DEF PassReturn
      <3>3. CASE ~PassReturn
        <4>1. runtime' = runtime
          BY <1>1, <3>3, PassingSteps
             DEF PassBegins, PassScript, PassCall, PassDone, PassInjects, PassEnters, PassWaits,
                 LoaderKept
        <4> QED
          BY <3>1, <4>1
      <3> QED
        BY <3>2, <3>3
    <2> QED
      BY <1>1, <2>1, <2>2, ScriptSteps
  <1>4. SUFFICES ASSUME call'.at = "entries"
                 PROVE  /\ \A j \in DOMAIN call'.scripts :
                             j < call'.index => call'.scripts[j] \in Range(registered')
                        /\ call'.scripts # <<>> => call'.mounted \subseteq call'.injected
    BY <1>3 DEF EnteredInv, At
  <1>5. CASE PassDone
    BY <1>4, <1>5 DEF PassDone
  <1>6. CASE PassInjects
    <2>1. call.index = 1 /\ call'.index = 1 /\ call'.scripts = call.scripts
      BY <1>1, <1>6 DEF PassInjects, Inject, Reached, At
    <2>2. call'.mounted \subseteq call'.injected
      BY <1>2, <1>6 DEF PassInjects, ListsKept, MountInv
    <2>3. \A j \in DOMAIN call.scripts : ~(j < 1)
      BY <1>1
    <2> QED
      BY <2>1, <2>2, <2>3
  <1>7. CASE PassEnters
    <2>1. /\ At("entries") /\ call.index \in DOMAIN call.scripts
          /\ call'.index = call.index + 1 /\ call'.scripts = call.scripts
          /\ call'.injected = call.injected
          /\ registered' = Append(registered, call.scripts[call.index])
      BY <1>7 DEF PassEnters, InjectEntry
    <2>2. call.scripts[call.index] \in Packages
      BY <1>1, <2>1
    <2>3. call.scripts[call.index] \in Range(registered')
      BY <1>1, <2>1, <2>2, LastRegistered DEF LoaderType
    <2>4. ASSUME NEW j \in DOMAIN call.scripts, j < call.index + 1
          PROVE  call.scripts[j] \in Range(registered')
      <3>1. j = call.index \/ j < call.index
        BY <1>1, <2>4
      <3> QED
        BY <1>2, <2>1, <2>3, <3>1 DEF EnteredInv
    <2>5. call'.scripts # <<>> => call'.mounted \subseteq call'.injected
      BY <1>2, <2>1 DEF EnteredInv, ListsKept
    <2> QED
      BY <2>1, <2>4, <2>5
  <1>8. CASE Passing /\ PassWaits
    <2>1. call' = call /\ At("entries")
      BY <1>4, <1>8 DEF PassWaits, At
    <2> QED
      BY <1>2, <2>1 DEF EnteredInv
  <1> QED
    BY <1>1, <1>4, <1>5, <1>6, <1>7, <1>8, PassingSteps
       DEF PassBegins, PassScript, PassCall, PassReturn

LEMMA DependsAppend ==
    ASSUME DependenciesRegistered, registered \in Seq(Packages), deps' = deps,
           NEW p \in Packages, registered' = Append(registered, p),
           p \notin Statics =>
             \A q \in Needs(p) : q \notin Scripts \/ p \in Scripts => q \in Range(registered)
    PROVE  DependenciesRegistered'
  <1>1. PICK s \in Seq(Packages) : s = registered
    OBVIOUS
  <1>2. PICK t : t = registered'
    OBVIOUS
  <1>3. PICK n \in Nat : n = Len(s) /\ DOMAIN s = 1..n
    BY <1>1
  <1>4. /\ DOMAIN t = 1..n + 1 /\ t[n + 1] = p /\ \A i \in 1..n : t[i] = s[i]
    BY <1>1, <1>2, <1>3
  <1>5. SUFFICES ASSUME NEW i \in 1..n + 1, t[i] \notin Statics, NEW q \in Needs(t[i]),
                        q \notin Scripts \/ t[i] \in Scripts
                 PROVE  \E j \in 1..i - 1 : t[j] = q
    <2>1. \A r : Needs(r)' = Needs(r)
      BY DEF Needs
    <2> QED
      BY <1>2, <1>4, <2>1 DEF DependenciesRegistered
  <1>6. CASE i \in 1..n
    <2>1. t[i] = registered[i] /\ i \in DOMAIN registered
      BY <1>1, <1>3, <1>4, <1>6
    <2>2. PICK j \in 1..i - 1 : registered[j] = q
      BY <1>5, <2>1 DEF DependenciesRegistered
    <2>3. j \in 1..n
      BY <1>6, <2>2
    <2> QED
      BY <1>1, <1>4, <2>2, <2>3
  <1>7. CASE i = n + 1
    <2>1. q \in Range(registered)
      BY <1>4, <1>5, <1>7
    <2>2. PICK j \in 1..n : s[j] = q
      BY <1>1, <1>3, <2>1 DEF Range
    <2>3. j \in 1..i - 1 /\ t[j] = q
      BY <1>4, <1>7, <2>2
    <2> QED
      BY <2>3
  <1> QED
    BY <1>5, <1>6, <1>7

\* What a script package needs is registered when it is entered.
LEMMA ScriptDepsMet ==
    ASSUME NamesApart, RunInv, RegInv, KnownInv, ScriptInv, At("entries"),
           call.index \in DOMAIN call.scripts, call.scripts[call.index] \notin Statics,
           NEW q \in Needs(call.scripts[call.index])
    PROVE  q \in Range(registered)
  <1>1. /\ LoadInv /\ EntryInv /\ OrderedInv /\ PassedInv /\ Passing
        /\ call.scripts \in Seq(Packages) /\ call.order \in Seq(Nat) /\ q \in Packages
    BY DEF RunInv, RegInv, LoadInv, CallInv, LoadCall, Passing, At, Needs
  <1>2. PICK k \in Nat : InTurn(call.index, k)
    BY <1>1 DEF ScriptInv, ScriptsOrdered
  <1>3. k \in DOMAIN call.order /\ PkgAt(k) = call.scripts[call.index]
    BY <1>2 DEF InTurn
  <1>4. CASE ManifestName[q] \in Built
    BY <1>1, <1>4 DEF KnownInv, Known, At
  <1>5. ASSUME NEW j \in 1..k - 1, PkgAt(j) = q
        PROVE  q \in Range(registered)
    <2>1. j \in DOMAIN call.order
      BY <1>1, <1>3
    <2>2. Passed(j)
      BY <2>1 DEF Passed, At
    <2>3. CASE ~ScriptAt(j)
      BY <1>1, <1>5, <2>1, <2>2, <2>3 DEF PassedInv
    <2>4. CASE ScriptAt(j)
      <3>1. PICK i \in 1..call.index - 1 : call.scripts[i] = PkgAt(j)
        BY <1>2, <2>4 DEF InTurn
      <3>2. i \in DOMAIN call.scripts /\ i < call.index
        BY <1>1, <3>1
      <3> QED
        BY <1>5, <3>1, <3>2 DEF ScriptInv, EnteredInv
    <2> QED
      BY <2>3, <2>4
  <1> QED
    BY <1>1, <1>3, <1>4, <1>5, DepsMet

LEMMA DependsNext ==
    ASSUME NamesApart, ScriptsPlain, RunInv, RegInv, KnownInv, ScriptInv,
           DependenciesRegistered, [Next]_vars
    PROVE  DependenciesRegistered'
  <1>1. LoadInv /\ EntryInv /\ registered \in Seq(Packages) /\ deps' = deps
    BY DepsKept DEF RunInv, RegInv, LoadInv, LoaderType
  <1>2. CASE registered' = registered
    BY <1>1, <1>2 DEF DependenciesRegistered, Needs
  <1>3. CASE RegisterReturn
    <2>1. At("adding") /\ call.index \in DOMAIN call.order /\ Current.pkg \in Packages
      BY <1>1, <1>3, RegisteringIn, CurrentType DEF RegisterReturn, LoadInv
    <2>2. ~Current.script /\ (Current.pkg \notin Statics =>
             Needs(Current.pkg) \ Scripts \subseteq Range(registered))
      BY <2>1 DEF ScriptInv, NativeInv
    <2>3. Current.pkg \notin Statics => Current.pkg \notin Scripts
      <3>1. /\ Current.pkg = PkgAt(call.index) /\ Current.script = ScriptAt(call.index)
            /\ PkgAt(call.index) \in Statics
               \/ (ScriptAt(call.index) <=> PkgAt(call.index) \in Scripts)
        BY <1>1, <2>1, CurrentEntry, EntryTypes
      <3> QED
        BY <2>2, <3>1
    <2>4. CASE registered' = Append(registered, Current.pkg)
      BY <1>1, <2>1, <2>2, <2>3, <2>4, DependsAppend
    <2> QED
      BY <1>2, <1>3, <2>4 DEF RegisterReturn
  <1>4. ASSUME NEW ok \in BOOLEAN, InjectEntry(ok)
        PROVE  DependenciesRegistered'
    <2> DEFINE p == call.scripts[call.index]
    <2>1. At("entries") /\ call.index \in DOMAIN call.scripts /\ p \in Packages
      BY <1>1, <1>4 DEF InjectEntry, LoadInv, CallInv, LoadCall
    <2>2. p \notin Statics => \A q \in Needs(p) : q \in Range(registered)
      BY <2>1, ScriptDepsMet
    <2>3. CASE registered' = Append(registered, p)
      <3> HIDE DEF p
      <3> QED
        BY <1>1, <2>1, <2>2, <2>3, DependsAppend
    <2> QED
      BY <1>2, <1>4, <2>3 DEF InjectEntry
  <1>6. CASE Host
    BY <1>2, <1>6 DEF Host, AddVfs, loaderVars, HostRun, HostDestroy, Cleanup, HostMount,
                      LoadPackages
  <1>7. CASE Internal
    BY <1>2, <1>3, <1>4, <1>7
       DEF Internal, Resolve, ResolveDone, SortEntry, SortPass, RegisterFails, RegisterScript,
           RegisterCall, RegisterRefused, RegisterDone, Inject, LoadDone, AppStep, BuildAdds
  <1> QED
    BY <1>2, <1>6, <1>7 DEF Next, Finished, vars, loaderVars

LEMMA ScriptNext ==
    ASSUME NamesApart, ScriptsPlain, RunInv, RegInv, MountInv, KnownInv, ScriptInv, [Next]_vars
    PROVE  ScriptInv'
  <1>1. LoadInv
    BY DEF RunInv
  <1> QED
    BY <1>1, AllNext, NativeNext, ListedNext, ScriptsOrderedNext, EnteredNext DEF ScriptInv

LEMMA ScriptInit == Init => KnownInv /\ ScriptInv /\ DependenciesRegistered
  <1> SUFFICES ASSUME Init PROVE KnownInv /\ ScriptInv /\ DependenciesRegistered
    OBVIOUS
  <1>1. call.at = "idle" /\ registered = <<>>
    BY DEF Init, Idle
  <1>2. Known = {}
    BY DEF Init, A!Init, Known, Built, Waiting, AP!Ready, AP!NamesOf
  <1>3. DOMAIN registered = {}
    BY <1>1
  <1> QED
    BY <1>1, <1>2, <1>3 DEF KnownInv, ScriptInv, AllInv, NativeInv, ScriptsListed, ScriptsOrdered,
       EnteredInv, Passing, At, DependenciesRegistered

LEMMA ScriptsAreComplete ==
    ASSUME RunInv, RegInv, CodeInv, ScriptInv
    PROVE  ScriptsComplete
  <1> SUFFICES ASSUME At("entries"), call.scripts # <<>>
               PROVE  /\ call.mounted \subseteq call.injected
                      /\ \A i \in DOMAIN call.pending :
                           ~call.pending[i].script => call.pending[i].pkg \in Range(registered)
                      /\ runtime # None /\ libs[runtime] > 0
    BY DEF ScriptsComplete
  <1>1. LoadInv /\ LoaderType /\ Staged /\ Passing /\ PassedInv
    BY DEF RunInv, RegInv, LoadInv, Passing, At
  <1>2. call.mounted \subseteq call.injected /\ runtime # None
    BY <1>1 DEF ScriptInv, EnteredInv
  <1>3. libs[runtime] > 0
    <2>1. host = "up"
      BY <1>1 DEF Staged, At
    <2>2. runtime \in Range(handles) /\ runtime \in Packages
      BY <1>1, <1>2, <2>1 DEF CodeInv, LoaderType
    <2> QED
      BY <1>1, <2>2, KeptOpen
  <1>4. ASSUME NEW i \in DOMAIN call.pending, ~call.pending[i].script
        PROVE  call.pending[i].pkg \in Range(registered)
    <2>1. i \in Range(call.order)
      BY <1>1 DEF ScriptInv, AllInv, Sorted, Entries
    <2>2. PICK k \in DOMAIN call.order : call.order[k] = i
      BY <2>1 DEF Range
    <2>3. Passed(k)
      BY DEF Passed, At
    <2> QED
      BY <1>1, <1>4, <2>2, <2>3 DEF PassedInv, PkgAt, ScriptAt
  <1> QED
    BY <1>2, <1>3, <1>4

\* Over any number of calls, load_packages comes to a package when what it needs
\* is there: a native package after the native packages it depends on, a script
\* package after all packages it depends on, with the runtime and the files it
\* was given.
THEOREM OrderCorrect ==
    ASSUME ~BuildsFail, ~Reload, DirectoriesApart, NamesApart, ScriptsPlain
    PROVE  Spec => []RegisteredInOrder
  <1> DEFINE Inv == /\ RunInv /\ RegInv /\ MountInv /\ BuildInv /\ CodeInv
                    /\ KnownInv /\ ScriptInv /\ DependenciesRegistered
  <1>1. Init => Inv
    <2> SUFFICES ASSUME Init PROVE Inv
      OBVIOUS
    <2>1. RunInv /\ RegInv /\ KnownInv /\ ScriptInv /\ DependenciesRegistered
      BY RunInit, RegInit, ScriptInit
    <2>2. MountInv
      BY MountInit
    <2>3. BuildInv /\ CodeInv
      BY CodeInit
    <2> QED
      BY <2>1, <2>2, <2>3
  <1>2. Inv /\ [Next]_vars => Inv'
    <2> SUFFICES ASSUME Inv, [Next]_vars PROVE Inv'
      OBVIOUS
    <2>1. RunInv /\ RunInv'
      BY RunNext
    <2>2. LoadInv /\ AppInv
      BY <2>1 DEF RunInv
    <2>3. RegInv' /\ BuildInv' /\ CodeInv' /\ KnownInv'
      BY <2>1, <2>2, RegNext, BuildNext, CodeNext, KnownNext
    <2>4. MountInv'
      BY <2>1, <2>2, MountNext
    <2>5. ScriptInv' /\ DependenciesRegistered'
      BY <2>1, ScriptNext, DependsNext
    <2> QED
      BY <2>1, <2>3, <2>4, <2>5
  <1>3. Inv => RegisteredInOrder
    BY ScriptsAreComplete DEF RegisteredInOrder
  <1> QED
    BY <1>1, <1>2, <1>3, PTL DEF Spec
=============================================================================
