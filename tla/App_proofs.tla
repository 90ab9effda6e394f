------------------------------ MODULE App_proofs ------------------------------
(***************************************************************************)
(* Proofs about App, for every set of apps, names and dependency lists: the  *)
(* order of the plugins, the life of apps and their subapps (what their      *)
(* states, queues and lists of plugins say of each other while calls nest),  *)
(* and that teardown is complete and in order.                              *)
(***************************************************************************)
EXTENDS App, SequenceTheorems, TLAPS

-----------------------------------------------------------------------------
(* The call stack                                                           *)

\* A prefix of a sequence.
LEMMA Prefix ==
    ASSUME NEW S, NEW s \in Seq(S), NEW n \in 0..Len(s)
    PROVE  /\ SubSeq(s, 1, n) \in Seq(S)
           /\ Len(SubSeq(s, 1, n)) = n
           /\ \A i \in 1..n : SubSeq(s, 1, n)[i] = s[i]
  <1>1. \A i \in 1..n : s[i] \in S
    OBVIOUS
  <1>2. \A i \in 1..n - 1 + 1 : SubSeq(s, 1, n)[i] = s[1 + i - 1]
    BY <1>1, SubSeqProperties
  <1>3. \A i \in 1..n : SubSeq(s, 1, n)[i] = s[i]
    BY <1>2
  <1> QED
    BY <1>1, <1>3

\* The innermost call and its callers, on a non-empty stack.
LEMMA StackParts ==
    ASSUME stack \in Seq(Call), stack # <<>>
    PROVE  /\ Top \in Call /\ Callers \in Seq(Call)
           /\ Len(stack) \in Nat \ {0} /\ Len(Callers) = Len(stack) - 1
           /\ \A i \in 1..Len(stack) - 1 : Callers[i] = stack[i]
  <1>1. Len(stack) \in Nat \ {0} /\ Top \in Call
    BY DEF Top
  <1>2. Len(stack) - 1 \in 0..Len(stack)
    BY <1>1
  <1>3. /\ Callers \in Seq(Call) /\ Len(Callers) = Len(stack) - 1
        /\ \A i \in 1..Len(stack) - 1 : Callers[i] = stack[i]
    BY <1>2, Prefix, Zenon DEF Callers
  <1> QED
    BY <1>1, <1>3

\* Each way in which a call moves on keeps the types of the stack.
LEMMA GoesType ==
    ASSUME stack \in Seq(Call), stack # <<>>, result \in BOOLEAN,
           NEW f \in Call, Goes(f)
    PROVE  stack' \in Seq(Call) /\ result' \in BOOLEAN
  BY StackParts DEF Goes

LEMMA CallsType ==
    ASSUME stack \in Seq(Call), stack # <<>>, result \in BOOLEAN,
           NEW f \in Call, NEW c \in Call, Calls(f, c)
    PROVE  stack' \in Seq(Call) /\ result' \in BOOLEAN
  <1>1. <<f, c>> \in Seq(Call)
    OBVIOUS
  <1> QED
    BY <1>1, StackParts DEF Calls

LEMMA ReturnsType ==
    ASSUME stack \in Seq(Call), stack # <<>>,
           NEW ok \in BOOLEAN, Returns(ok)
    PROVE  stack' \in Seq(Call) /\ result' \in BOOLEAN
  BY StackParts DEF Returns

LEMMA NewCallType ==
    ASSUME NEW op \in {"add", "drain", "post", "prepare", "run", "teardown"},
           NEW a \in Apps
    PROVE  NewCall(op, a) \in Call
  BY DEF NewCall, Call, Places

\* A call stays a call when it moves to another place.
LEMMA MovedCallType ==
    ASSUME NEW f \in Call, NEW at \in Places, NEW n \in Nat,
           NEW es \in Seq(Entry), NEW ns \in SUBSET Names
    PROVE  /\ [f EXCEPT !.at = at] \in Call
           /\ [f EXCEPT !.index = n] \in Call
           /\ [f EXCEPT !.at = at, !.index = n] \in Call
           /\ [f EXCEPT !.ready = es] \in Call
           /\ [f EXCEPT !.at = at, !.ready = es] \in Call
           /\ [f EXCEPT !.names = ns] \in Call
  BY DEF Call

LEMMA CallFields ==
    ASSUME NEW f \in Call
    PROVE  f.app \in Apps /\ f.index \in Nat /\ f.ready \in Seq(Entry)
           /\ f.names \subseteq Names
  BY DEF Call

\* What post_build and shutdown record about a plugin.
LEMMA MarkedEntry ==
    ASSUME NEW e \in Entry
    PROVE  /\ [e EXCEPT !.down = TRUE] \in Entry
           /\ [e EXCEPT !.posted = @ + 1] \in Entry
           /\ [e EXCEPT !.freed = TRUE] \in Entry
  <1>1. [e EXCEPT !.down = TRUE] \in Entry
    BY DEF Entry
  <1>2. [e EXCEPT !.posted = @ + 1] \in Entry
    BY DEF Entry
  <1>3. [e EXCEPT !.freed = TRUE] \in Entry
    BY DEF Entry
  <1> QED
    BY <1>1, <1>2, <1>3

LEMMA RemoveAtType ==
    ASSUME NEW S, NEW s \in Seq(S), NEW i \in DOMAIN s
    PROVE  RemoveAt(s, i) \in Seq(S)
  BY DEF RemoveAt

-----------------------------------------------------------------------------
(* Type correctness                                                         *)

LEMMA TypeInit == Init => TypeOK
  BY DEF Init, TypeOK, AppStates

LEMMA TypeAdd ==
    ASSUME TypeOK, NEW a \in Apps, NEW n \in Names, NEW deps \in Dependencies,
           AddPlugin(a, n, deps)
    PROVE  TypeOK'
  <1> DEFINE e == NewEntry(n, deps)
             ps == Append(pending[a], e)
  <1>1. e \in Entry
    BY AppAssumption DEF NewEntry, Entry
  <1>2. ps \in Seq(Entry)
    BY <1>1 DEF TypeOK
  <1>3. pending' \in [Apps -> Seq(Entry)]
    BY <1>2 DEF TypeOK, AddPlugin
  <1>4. stack' \in Seq(Call)
    <2>1. [NewCall("add", a) EXCEPT !.names = {n}] \in Call
      <3>1. NewCall("add", a) \in Call
        BY NewCallType
      <3> QED
        BY <3>1 DEF Call
    <2>2. NewCall("drain", a) \in Call
      BY NewCallType
    <2>3. <<[NewCall("add", a) EXCEPT !.names = {n}], NewCall("drain", a)>> \in Seq(Call)
      BY <2>1, <2>2
    <2>4. \/ stack' = stack
          \/ stack' = stack \o <<[NewCall("add", a) EXCEPT !.names = {n}], NewCall("drain", a)>>
      BY DEF AddPlugin
    <2> QED
      BY <2>3, <2>4, ConcatProperties DEF TypeOK
  <1>5. accepted' \in [Apps -> SUBSET Names]
    BY DEF TypeOK, AddPlugin
  <1> QED
    BY <1>3, <1>4, <1>5 DEF TypeOK, AddPlugin

LEMMA TypeAddReturn ==
    ASSUME TypeOK, AddReturn
    PROVE  TypeOK'
  <1> DEFINE a == Top.app
             taken == {n \in Top.names : result \/ n \in NamesOf(plugins[a])}
             ps == [i \in DOMAIN pending[a] |->
                      IF pending[a][i].name \in Top.names \ taken
                      THEN [pending[a][i] EXCEPT !.freed = TRUE] ELSE pending[a][i]]
  <1>1. stack # <<>> /\ Top \in Call /\ a \in Apps /\ Top.names \subseteq Names
    BY StackParts, CallFields DEF TypeOK, AddReturn, At
  <1>2. ps \in Seq(Entry)
    <2>1. pending[a] \in Seq(Entry)
      BY <1>1 DEF TypeOK
    <2>2. \A i \in DOMAIN pending[a] : ps[i] \in Entry
      <3> SUFFICES ASSUME NEW i \in DOMAIN pending[a] PROVE ps[i] \in Entry
        OBVIOUS
      <3>1. pending[a][i] \in Entry
        BY <2>1
      <3>2. [pending[a][i] EXCEPT !.freed = TRUE] \in Entry
        BY <3>1, MarkedEntry
      <3> QED
        BY <3>1, <3>2
    <2>3. DOMAIN pending[a] = 1..Len(pending[a]) /\ Len(pending[a]) \in Nat
      BY <2>1
    <2> HIDE DEF a
    <2>4. ps \in [1..Len(pending[a]) -> Entry]
      BY <2>2, <2>3
    <2> QED
      BY <2>3, <2>4
  <1>3. pending' = [pending EXCEPT ![a] = ps]
    BY DEF AddReturn
  <1>4. pending' \in [Apps -> Seq(Entry)]
    BY <1>2, <1>3 DEF TypeOK
  <1>5. accepted' = [accepted EXCEPT ![a] = @ \cup taken]
    BY DEF AddReturn
  <1>6. accepted' \in [Apps -> SUBSET Names]
    BY <1>1, <1>5 DEF TypeOK
  <1>7. stack' \in Seq(Call) /\ result' \in BOOLEAN
    BY <1>1, ReturnsType DEF TypeOK, AddReturn
  <1> QED
    BY <1>4, <1>6, <1>7 DEF TypeOK, AddReturn

\* The steps that only move a call on.
LEMMA TypeMoves ==
    ASSUME TypeOK,
           \/ PostSubapps \/ PrepareStart \/ PrepareDrained \/ PreparePosted
           \/ PrepareSubapps \/ RunPrepared \/ RunnerReturn \/ RunReturn
           \/ TeardownSubapps
    PROVE  TypeOK'
  <1>1. stack # <<>> /\ Top \in Call /\ Top.app \in Apps /\ Top.index \in Nat
    BY StackParts, CallFields DEF TypeOK, At, PostSubapps, PrepareStart,
       PrepareDrained, PreparePosted, PrepareSubapps, RunPrepared, RunnerReturn,
       RunReturn, TeardownSubapps
  <1>2. UNCHANGED <<state, plugins, pending, subapps, accepted>>
    BY DEF PostSubapps, PrepareStart,
       PrepareDrained, PreparePosted, PrepareSubapps, RunPrepared, RunnerReturn,
       RunReturn, TeardownSubapps
  <1>3. /\ \A i \in DOMAIN subapps[Top.app] : i - 1 \in Nat /\ subapps[Top.app][i] \in Apps
        /\ Len(subapps[Top.app]) \in Nat /\ Len(plugins[Top.app]) \in Nat
        /\ 1 \in Nat /\ Top.index + 1 \in Nat
    <2>1. subapps[Top.app] \in Seq(Apps) /\ plugins[Top.app] \in Seq(Entry)
      BY <1>1 DEF TypeOK
    <2> QED
      BY <1>1, <2>1
  <1>4. ASSUME NEW op \in {"drain", "post", "prepare", "teardown"}, NEW b \in Apps
        PROVE  NewCall(op, b) \in Call
    BY NewCallType
  <1>5. ASSUME NEW at \in Places, NEW n \in Nat
        PROVE  /\ [Top EXCEPT !.at = at] \in Call
               /\ [Top EXCEPT !.index = n] \in Call
               /\ [Top EXCEPT !.at = at, !.index = n] \in Call
    BY <1>1 DEF Call
  <1>6. "drain" \in Places /\ "post" \in Places /\ "subapps" \in Places
        /\ "subapp" \in Places /\ "failed" \in Places /\ "runner" \in Places
        /\ "teardown" \in Places /\ "plugins" \in Places
    BY DEF Places
  <1>7. \/ \E f \in Call : Goes(f)
        \/ \E f, c \in Call : Calls(f, c)
        \/ \E ok \in BOOLEAN : Returns(ok)
    <2>1. CASE PostSubapps
      BY <2>1, <1>1, <1>3, <1>4, <1>5, <1>6, Zenon DEF PostSubapps
    <2>2. CASE PrepareStart
      BY <2>2, <1>1, <1>3, <1>4, <1>5, <1>6 DEF PrepareStart
    <2>3. CASE PrepareDrained
      BY <2>3, <1>1, <1>3, <1>4, <1>5, <1>6 DEF PrepareDrained
    <2>4. CASE PreparePosted
      BY <2>4, <1>1, <1>3, <1>4, <1>5, <1>6 DEF PreparePosted
    <2>5. CASE PrepareSubapps
      BY <2>5, <1>1, <1>3, <1>4, <1>5, <1>6, Zenon DEF PrepareSubapps
    <2>6. CASE RunPrepared
      BY <2>6, <1>1, <1>3, <1>4, <1>5, <1>6 DEF RunPrepared
    <2>7. CASE RunnerReturn
      BY <2>7, <1>1, <1>3, <1>4, <1>5, <1>6 DEF RunnerReturn
    <2>8. CASE RunReturn
      BY <2>8 DEF RunReturn, TypeOK
    <2>9. CASE TeardownSubapps
      BY <2>9, <1>1, <1>3, <1>4, <1>5, <1>6, result \in BOOLEAN DEF TeardownSubapps, TypeOK
    <2> QED
      BY <2>1, <2>2, <2>3, <2>4, <2>5, <2>6, <2>7, <2>8, <2>9
  <1>8. stack' \in Seq(Call) /\ result' \in BOOLEAN
    BY <1>1, <1>7, GoesType, CallsType, ReturnsType DEF TypeOK
  <1> QED
    BY <1>2, <1>8 DEF TypeOK

LEMMA TypeDrain ==
    ASSUME TypeOK, DrainStart \/ DrainTake \/ DrainCollected \/ BuildCall
                   \/ \E ok \in BOOLEAN : BuildReturn(ok)
    PROVE  TypeOK'
  <1> DEFINE a == Top.app
  <1>1. /\ stack # <<>> /\ Top \in Call /\ a \in Apps /\ Top.ready \in Seq(Entry)
        /\ UNCHANGED subapps
    BY StackParts, CallFields DEF TypeOK, At, DrainStart, DrainTake,
       DrainCollected, BuildCall, BuildReturn
  <1>2. plugins[a] \in Seq(Entry) /\ pending[a] \in Seq(Entry)
    BY <1>1 DEF TypeOK
  <1>3. "collect" \in Places /\ "loop" \in Places /\ "build" \in Places
    BY DEF Places
  <1>4. ASSUME NEW at \in Places, NEW es \in Seq(Entry)
        PROVE  /\ [Top EXCEPT !.at = at] \in Call
               /\ [Top EXCEPT !.ready = es] \in Call
               /\ [Top EXCEPT !.at = at, !.ready = es] \in Call
    BY <1>1 DEF Call
  <1> HIDE DEF a
  <1>5. CASE DrainStart
    <2>1. stack' \in Seq(Call) /\ result' \in BOOLEAN
      BY <1>1, <1>3, <1>4, <1>5, GoesType DEF DrainStart, TypeOK
    <2>2. state' \in [Apps -> AppStates]
      BY <1>1, <1>5 DEF DrainStart, TypeOK, AppStates, a
    <2> QED
      BY <1>1, <1>5, <2>1, <2>2 DEF DrainStart, TypeOK
  <1>6. CASE DrainTake
    <2>1. PICK i \in DOMAIN pending[a] :
             /\ pending' = [pending EXCEPT ![a] = RemoveAt(pending[a], i)]
             /\ Goes([Top EXCEPT !.ready = Append(Top.ready, pending[a][i])])
      BY <1>6 DEF DrainTake, a
    <2>2. Append(Top.ready, pending[a][i]) \in Seq(Entry)
      BY <1>1, <1>2
    <2>3. stack' \in Seq(Call) /\ result' \in BOOLEAN
      BY <1>1, <1>3, <1>4, <2>1, <2>2, GoesType DEF TypeOK
    <2>4. RemoveAt(pending[a], i) \in Seq(Entry)
      BY <1>2, RemoveAtType
    <2>5. pending' \in [Apps -> Seq(Entry)]
      BY <1>1, <2>1, <2>4 DEF TypeOK
    <2> QED
      BY <1>1, <1>6, <2>3, <2>5 DEF DrainTake, TypeOK
  <1>7. CASE DrainCollected
    <2>1. stack' \in Seq(Call) /\ result' \in BOOLEAN
      BY <1>1, <1>3, <1>4, <1>7, GoesType, ReturnsType DEF DrainCollected, TypeOK
    <2>2. state' \in [Apps -> AppStates]
      BY <1>1, <1>7 DEF DrainCollected, TypeOK, AppStates, a
    <2> QED
      BY <1>1, <1>7, <2>1, <2>2 DEF DrainCollected, TypeOK
  <1>8. CASE BuildCall
    <2>1. /\ Top.ready # <<>> /\ Goes([Top EXCEPT !.at = "build", !.ready = Tail(Top.ready)])
          /\ plugins' = [plugins EXCEPT ![a] = Append(plugins[a], Head(Top.ready))]
      BY <1>8, <1>1 DEF BuildCall, a, Call, TypeOK
    <2>2. Tail(Top.ready) \in Seq(Entry) /\ Append(plugins[a], Head(Top.ready)) \in Seq(Entry)
      BY <1>1, <1>2, <2>1
    <2>3. stack' \in Seq(Call) /\ result' \in BOOLEAN
      BY <1>1, <1>3, <1>4, <2>1, <2>2, GoesType DEF TypeOK
    <2>4. plugins' \in [Apps -> Seq(Entry)]
      BY <1>1, <2>1, <2>2 DEF TypeOK
    <2> QED
      BY <1>1, <1>8, <2>3, <2>4 DEF BuildCall, TypeOK
  <1>9. ASSUME NEW ok \in BOOLEAN, BuildReturn(ok)
        PROVE  TypeOK'
    <2>1. CASE ok
      <3>1. \E at \in Places : Goes([Top EXCEPT !.at = at])
        BY <1>3, <1>9, <2>1 DEF BuildReturn
      <3>2. stack' \in Seq(Call) /\ result' \in BOOLEAN
        BY <1>1, <1>4, <3>1, GoesType DEF TypeOK
      <3> QED
        BY <1>1, <1>9, <2>1, <3>2 DEF BuildReturn, TypeOK
    <2>2. CASE ~ok
      <3>1. /\ plugins' = [plugins EXCEPT ![a] = SubSeq(plugins[a], 1, Len(plugins[a]) - 1)]
            /\ accepted' = [accepted EXCEPT ![a] = @ \ {plugins[a][Len(plugins[a])].name}]
            /\ state' = [state EXCEPT ![a] = "Created"]
            /\ Returns(FALSE) /\ UNCHANGED pending
        BY <1>9, <2>2, <1>1 DEF BuildReturn, a, TypeOK
      <3>2. SubSeq(plugins[a], 1, Len(plugins[a]) - 1) \in Seq(Entry)
        BY <1>2
      <3>3. plugins' \in [Apps -> Seq(Entry)]
        BY <1>1, <3>1, <3>2 DEF TypeOK
      <3>4. accepted' \in [Apps -> SUBSET Names] /\ state' \in [Apps -> AppStates]
        BY <1>1, <3>1 DEF TypeOK, AppStates
      <3>5. stack' \in Seq(Call) /\ result' \in BOOLEAN
        BY <1>1, <3>1, ReturnsType DEF TypeOK
      <3> QED
        BY <1>1, <3>1, <3>3, <3>4, <3>5 DEF TypeOK
    <2> QED
      BY <2>1, <2>2
  <1> QED
    BY <1>5, <1>6, <1>7, <1>8, <1>9

\* The steps that set the state of an app or mark one of its plugins.
LEMMA TypeMarks ==
    ASSUME TypeOK, PostStart \/ PostDone \/ PrepareDone \/ TeardownPlugin
                   \/ TeardownDone \/ \E ok \in BOOLEAN : PostPlugin(ok)
    PROVE  TypeOK'
  <1> DEFINE a == Top.app
  <1>1. /\ stack # <<>> /\ Top \in Call /\ a \in Apps /\ Top.index \in Nat
        /\ UNCHANGED <<pending, subapps, accepted>>
    BY StackParts, CallFields DEF TypeOK, At, PostStart, PostDone, PrepareDone,
       TeardownPlugin, TeardownDone, PostPlugin
  <1>2. plugins[a] \in Seq(Entry)
    BY <1>1 DEF TypeOK
  <1>3. [Top EXCEPT !.at = "plugins"] \in Call
    BY <1>1 DEF Call, Places
  <1>4. ASSUME NEW n \in Nat PROVE [Top EXCEPT !.index = n] \in Call
    BY <1>1 DEF Call
  <1> HIDE DEF a
  <1>5. stack' \in Seq(Call) /\ result' \in BOOLEAN
    <2>1. CASE PostStart
      BY <2>1, <1>1, <1>3, GoesType DEF PostStart, TypeOK
    <2>2. CASE PostDone \/ PrepareDone \/ TeardownDone
      BY <2>2, <1>1, ReturnsType DEF PostDone, PrepareDone, TeardownDone, TypeOK
    <2>3. CASE TeardownPlugin
      <3>1. Top.index - 1 \in Nat
        BY <2>3, <1>1, <1>2 DEF TeardownPlugin, a
      <3>2. Goes([Top EXCEPT !.index = Top.index - 1])
        BY <2>3 DEF TeardownPlugin
      <3> QED
        BY <1>1, <1>4, <3>1, <3>2, GoesType DEF TypeOK
    <2>4. ASSUME NEW ok \in BOOLEAN, PostPlugin(ok)
          PROVE  stack' \in Seq(Call) /\ result' \in BOOLEAN
      <3>1. Top.index + 1 \in Nat
        BY <1>1
      <3>2. Goes([Top EXCEPT !.index = Top.index + 1]) \/ Returns(FALSE)
        BY <2>4 DEF PostPlugin
      <3> QED
        BY <1>1, <1>4, <3>1, <3>2, GoesType, ReturnsType DEF TypeOK
    <2> QED
      BY <2>1, <2>2, <2>3, <2>4
  <1>6. state' \in [Apps -> AppStates]
    BY <1>1 DEF TypeOK, AppStates, PostStart, PostDone, PrepareDone,
       TeardownPlugin, TeardownDone, PostPlugin, a
  <1>7. plugins' \in [Apps -> Seq(Entry)]
    <2>1. CASE UNCHANGED plugins
      BY <2>1 DEF TypeOK
    <2>2. CASE TeardownPlugin
      <3>1. Top.index \in DOMAIN plugins[a]
            /\ plugins' = [plugins EXCEPT ![a] =
                             [plugins[a] EXCEPT ![Top.index] =
                                [plugins[a][Top.index] EXCEPT !.down = TRUE]]]
        BY <2>2, <1>1 DEF TeardownPlugin, a, TypeOK
      <3>2. [plugins[a][Top.index] EXCEPT !.down = TRUE] \in Entry
        <4>1. plugins[a][Top.index] \in Entry
          BY <1>2, <3>1
        <4> QED
          BY <4>1, MarkedEntry
      <3>3. [plugins[a] EXCEPT ![Top.index] =
               [plugins[a][Top.index] EXCEPT !.down = TRUE]] \in Seq(Entry)
        BY <1>2, <3>1, <3>2, ExceptSeq
      <3> QED
        BY <1>1, <3>1, <3>3 DEF TypeOK
    <2>3. ASSUME NEW ok \in BOOLEAN, PostPlugin(ok)
          PROVE  plugins' \in [Apps -> Seq(Entry)]
      <3>1. Top.index \in DOMAIN plugins[a]
            /\ plugins' = [plugins EXCEPT ![a] =
                             [plugins[a] EXCEPT ![Top.index] =
                                [plugins[a][Top.index] EXCEPT !.posted = @ + 1]]]
        BY <2>3, <1>1 DEF PostPlugin, a, TypeOK
      <3>2. [plugins[a][Top.index] EXCEPT !.posted = @ + 1] \in Entry
        <4>1. plugins[a][Top.index] \in Entry
          BY <1>2, <3>1
        <4> QED
          BY <4>1, MarkedEntry
      <3>3. [plugins[a] EXCEPT ![Top.index] =
               [plugins[a][Top.index] EXCEPT !.posted = @ + 1]] \in Seq(Entry)
        BY <1>2, <3>1, <3>2, ExceptSeq
      <3> QED
        BY <1>1, <3>1, <3>3 DEF TypeOK
    <2> QED
      BY <2>1, <2>2, <2>3 DEF PostStart, PostDone, PrepareDone, TeardownDone
  <1> QED
    BY <1>1, <1>5, <1>6, <1>7 DEF TypeOK

\* The requests that clients make.
LEMMA TypeClient ==
    ASSUME TypeOK, Client
    PROVE  TypeOK'
  <1>1. ASSUME NEW a \in Apps, NEW n \in Names, NEW deps \in Dependencies,
               AddPlugin(a, n, deps)
        PROVE  TypeOK'
    BY <1>1, TypeAdd
  <1>2. ASSUME NEW a \in Apps, Prepare(a) \/ Run(a) \/ Teardown(a)
        PROVE  TypeOK'
    <2>1. NewCall("prepare", a) \in Call /\ NewCall("teardown", a) \in Call
      BY NewCallType
    <2>2. [NewCall("run", a) EXCEPT !.at = "prepare"] \in Call
      <3>1. NewCall("run", a) \in Call
        BY NewCallType
      <3> QED
        BY <3>1 DEF Call, Places
    <2>3. ASSUME NEW f \in Call, NEW c \in Call
          PROVE  <<f>> \in Seq(Call) /\ <<f, c>> \in Seq(Call)
      OBVIOUS
    <2>4. stack' \in Seq(Call)
      BY <1>2, <2>1, <2>2, <2>3, Zenon DEF Prepare, Run, Teardown
    <2> QED
      BY <1>2, <2>4 DEF Prepare, Run, Teardown, TypeOK
  <1>3. ASSUME NEW a \in Apps, NEW extracted \in BOOLEAN, Update(a, extracted)
        PROVE  TypeOK'
    BY <1>3 DEF Update, TypeOK
  <1>4. ASSUME NEW p \in Apps, NEW s \in Apps, InsertSubapp(p, s)
        PROVE  TypeOK'
    <2>1. Append(subapps[p], s) \in Seq(Apps)
      BY DEF TypeOK
    <2>2. subapps' \in [Apps -> Seq(Apps)]
      BY <1>4, <2>1 DEF InsertSubapp, TypeOK
    <2> QED
      BY <1>4, <2>2 DEF InsertSubapp, TypeOK
  <1>5. ASSUME NEW p \in Apps, NEW i \in DOMAIN subapps[p], RemoveSubapp(p, i)
        PROVE  TypeOK'
    <2>1. RemoveAt(subapps[p], i) \in Seq(Apps)
      BY RemoveAtType DEF TypeOK
    <2>2. subapps' \in [Apps -> Seq(Apps)]
      BY <1>5, <2>1 DEF RemoveSubapp, TypeOK
    <2> QED
      BY <1>5, <2>2 DEF RemoveSubapp, TypeOK
  <1> QED
    BY <1>1, <1>2, <1>3, <1>4, <1>5 DEF Client

LEMMA TypeNext ==
    ASSUME TypeOK, [Next]_vars
    PROVE  TypeOK'
  <1>1. CASE Internal
    BY <1>1, TypeAddReturn, TypeDrain, TypeMarks, TypeMoves DEF Internal
  <1>2. CASE Client
    BY <1>2, TypeClient
  <1>3. CASE Finished \/ UNCHANGED vars
    BY <1>3 DEF Finished, vars, TypeOK
  <1> QED
    BY <1>1, <1>2, <1>3 DEF Next

\* Every variable of the application model keeps its type, through any nesting
\* of the calls of App and its plugins.
THEOREM TypeCorrect == Spec => []TypeOK
  <1>1. Init => TypeOK
    BY TypeInit
  <1>2. TypeOK /\ [Next]_vars => TypeOK'
    BY TypeNext
  <1> QED
    BY <1>1, <1>2, PTL DEF Spec

-----------------------------------------------------------------------------
(* Dependencies are registered first                                        *)

\* Only the innermost call can be a drain, its app is then in state Building,
\* and only a drain that has begun has a ready list.  So add_plugin, called
\* from a build, never starts a second drain.
DrainInv ==
    \A i \in DOMAIN stack :
      /\ stack[i].op = "drain" => i = Len(stack)
      /\ stack[i].op = "drain" /\ stack[i].at # "start" => state[stack[i].app] = "Building"
      /\ stack[i].op # "drain" \/ stack[i].at = "start" => stack[i].ready = <<>>

\* What was taken out of the queue has its dependencies registered.
ReadySatisfied ==
    \A i \in DOMAIN stack : \A j \in DOMAIN stack[i].ready :
      Satisfied(stack[i].app, stack[i].ready[j])

OrderInv == TypeOK /\ DrainInv /\ ReadySatisfied /\ DependenciesFirst

\* A stack on which no drain has begun.
Undrained(s) ==
    \A i \in DOMAIN s :
      s[i].ready = <<>> /\ (s[i].op = "drain" => i = Len(s) /\ s[i].at = "start")

LEMMA UndrainedInv == Undrained(stack') => DrainInv' /\ ReadySatisfied'
  BY DEF Undrained, DrainInv, ReadySatisfied

\* The callers of the innermost call are not drains.
LEMMA CallersUndrained ==
    ASSUME TypeOK, DrainInv, stack # <<>>
    PROVE  \A i \in 1..Len(stack) - 1 : Callers[i].op # "drain" /\ Callers[i].ready = <<>>
  <1>1. Len(stack) \in Nat \ {0} /\ \A i \in 1..Len(stack) - 1 : Callers[i] = stack[i]
    BY StackParts DEF TypeOK
  <1>2. \A i \in 1..Len(stack) - 1 : i \in DOMAIN stack /\ i # Len(stack)
    BY <1>1 DEF TypeOK
  <1>3. \A i \in 1..Len(stack) - 1 : stack[i].op # "drain" /\ stack[i].ready = <<>>
    BY <1>2 DEF DrainInv
  <1> QED
    BY <1>1, <1>3

LEMMA AfterReturns ==
    ASSUME TypeOK, DrainInv, stack # <<>>, NEW ok, Returns(ok)
    PROVE  Undrained(stack')
  BY StackParts, CallersUndrained DEF TypeOK, Returns, Undrained

LEMMA AfterGoes ==
    ASSUME TypeOK, DrainInv, stack # <<>>,
           NEW f \in Call, f.op # "drain", f.ready = <<>>, Goes(f)
    PROVE  Undrained(stack')
  <1>1. stack' = Append(Callers, f) /\ Callers \in Seq(Call) /\ Len(Callers) = Len(stack) - 1
    BY StackParts DEF TypeOK, Goes
  <1>2. /\ \A i \in 1..Len(Callers) : stack'[i] = Callers[i]
        /\ stack'[Len(Callers) + 1] = f
        /\ DOMAIN stack' = 1..Len(Callers) + 1 /\ Len(stack') = Len(Callers) + 1
    BY <1>1, AppendProperties
  <1> QED
    BY <1>1, <1>2, CallersUndrained DEF Undrained

LEMMA AfterCalls ==
    ASSUME TypeOK, DrainInv, stack # <<>>,
           NEW f \in Call, f.op # "drain", f.ready = <<>>,
           NEW op \in {"drain", "post", "prepare", "teardown"}, NEW b \in Apps,
           Calls(f, NewCall(op, b))
    PROVE  Undrained(stack')
  <1> DEFINE c == NewCall(op, b)
  <1>1. c \in Call /\ c.ready = <<>> /\ c.at = "start"
    BY NewCallType DEF NewCall
  <1> HIDE DEF c
  <1>2. stack' = Callers \o <<f, c>> /\ Callers \in Seq(Call) /\ Len(Callers) = Len(stack) - 1
    BY StackParts DEF TypeOK, Calls, c
  <1>3. <<f, c>> \in Seq(Call) /\ Len(<<f, c>>) = 2
    BY <1>1
  <1>4. /\ stack' \in Seq(Call) /\ Len(stack') = Len(Callers) + 2
        /\ \A i \in 1..Len(Callers) + 2 :
              stack'[i] = IF i <= Len(Callers) THEN Callers[i] ELSE <<f, c>>[i - Len(Callers)]
    BY <1>2, <1>3, ConcatProperties
  <1>5. /\ \A i \in 1..Len(Callers) : stack'[i] = Callers[i]
        /\ stack'[Len(Callers) + 1] = f
        /\ stack'[Len(Callers) + 2] = c
        /\ DOMAIN stack' = 1..Len(Callers) + 2
    <2> DEFINE n == Len(Callers)
               fc == <<f, c>>
    <2>1. n \in Nat
      BY <1>2
    <2>2. fc[1] = f /\ fc[2] = c
      OBVIOUS
    <2> HIDE DEF n, fc
    <2>3. /\ stack' \in Seq(Call) /\ Len(stack') = n + 2
          /\ \A i \in 1..n + 2 : stack'[i] = IF i <= n THEN Callers[i] ELSE fc[i - n]
      BY <1>4 DEF n, fc
    <2>4. /\ \A i \in 1..n : stack'[i] = Callers[i]
          /\ stack'[n + 1] = fc[1]
          /\ stack'[n + 2] = fc[2]
          /\ DOMAIN stack' = 1..n + 2
      BY <2>1, <2>3
    <2> QED
      BY <2>2, <2>4 DEF n
  <1> QED
    BY <1>1, <1>2, <1>4, <1>5, CallersUndrained DEF Undrained

\* A drain that goes on, with a ready list that is satisfied.
LEMMA DrainGoes ==
    ASSUME TypeOK, DrainInv, stack # <<>>,
           NEW f \in Call, f.op = "drain", f.at # "start", Goes(f),
           state'[f.app] = "Building",
           \A j \in DOMAIN f.ready : f.ready[j].deps \subseteq NamesOf(plugins'[f.app])
    PROVE  DrainInv' /\ ReadySatisfied'
  <1>1. stack' = Append(Callers, f) /\ Callers \in Seq(Call) /\ Len(Callers) = Len(stack) - 1
    BY StackParts DEF TypeOK, Goes
  <1>2. /\ \A i \in 1..Len(Callers) : stack'[i] = Callers[i]
        /\ stack'[Len(Callers) + 1] = f
        /\ DOMAIN stack' = 1..Len(Callers) + 1 /\ Len(stack') = Len(Callers) + 1
    BY <1>1, AppendProperties
  <1>3. DrainInv'
    BY <1>1, <1>2, CallersUndrained DEF DrainInv
  <1>4. ReadySatisfied'
    BY <1>1, <1>2, CallersUndrained DEF ReadySatisfied, Satisfied
  <1> QED
    BY <1>3, <1>4

\* DependenciesFirst for one list of plugins.
First(es) ==
    \A i \in DOMAIN es : \A d \in es[i].deps : \E j \in 1..i - 1 : es[j].name = d

LEMMA FirstAppend ==
    ASSUME NEW es \in Seq(Entry), NEW e \in Entry, First(es),
           e.deps \subseteq NamesOf(es)
    PROVE  First(Append(es, e)) /\ NamesOf(es) \subseteq NamesOf(Append(es, e))
  <1> DEFINE n == Len(es)
             t == Append(es, e)
  <1>1. /\ n \in Nat /\ DOMAIN es = 1..n /\ DOMAIN t = 1..n + 1
        /\ \A i \in 1..n : t[i] = es[i]
        /\ t[n + 1] = e
    BY AppendProperties
  <1> HIDE DEF n, t
  <1>2. ASSUME NEW i \in DOMAIN t, NEW d \in t[i].deps
        PROVE  \E j \in 1..i - 1 : t[j].name = d
    <2>1. CASE i \in 1..n
      <3>1. PICK j \in 1..i - 1 : es[j].name = d
        BY <1>1, <1>2, <2>1 DEF First
      <3>2. j \in 1..n
        BY <1>1, <2>1
      <3> QED
        BY <1>1, <3>1, <3>2
    <2>2. CASE i = n + 1
      <3>1. d \in NamesOf(es)
        BY <1>1, <1>2, <2>2
      <3>2. PICK j \in DOMAIN es : es[j].name = d
        BY <3>1 DEF NamesOf
      <3> QED
        BY <1>1, <2>2, <3>2
    <2> QED
      BY <1>1, <2>1, <2>2
  <1>3. First(t)
    BY <1>2 DEF First
  <1>4. NamesOf(es) \subseteq NamesOf(t)
    BY <1>1 DEF NamesOf
  <1> QED
    BY <1>3, <1>4 DEF t

LEMMA FirstPrefix ==
    ASSUME NEW es \in Seq(Entry), First(es)
    PROVE  First(SubSeq(es, 1, Len(es) - 1))
  <1> DEFINE n == Len(es)
             t == SubSeq(es, 1, n - 1)
  <1>1. n \in Nat /\ DOMAIN es = 1..n
    OBVIOUS
  <1>2. CASE n = 0
    <2>1. DOMAIN t = {}
      BY <1>2
    <2> QED
      BY <2>1 DEF First
  <1>3. CASE n # 0
    <2>1. n - 1 \in 0..n
      BY <1>1, <1>3
    <2>2. t \in Seq(Entry) /\ Len(t) = n - 1 /\ \A i \in 1..n - 1 : t[i] = es[i]
      BY <2>1, Prefix, Zenon
    <2> HIDE DEF n, t
    <2>3. DOMAIN t = 1..n - 1
      BY <2>2
    <2>4. ASSUME NEW i \in DOMAIN t, NEW d \in t[i].deps
          PROVE  \E j \in 1..i - 1 : t[j].name = d
      <3>1. i \in 1..n /\ i \in 1..n - 1 /\ t[i] = es[i]
        BY <1>1, <2>2, <2>3, <2>4
      <3>2. PICK j \in 1..i - 1 : es[j].name = d
        BY <1>1, <2>4, <3>1 DEF First
      <3>3. j \in 1..n - 1
        BY <1>1, <3>1
      <3> QED
        BY <2>2, <3>2, <3>3
    <2> QED
      BY <2>4 DEF First, t, n
  <1> QED
    BY <1>2, <1>3

\* Marking an entry changes neither its name nor its dependencies.
LEMMA FirstMarked ==
    ASSUME NEW es \in Seq(Entry), First(es), NEW i \in DOMAIN es, NEW e \in Entry,
           e.name = es[i].name, e.deps = es[i].deps
    PROVE  First([es EXCEPT ![i] = e])
  <1> DEFINE t == [es EXCEPT ![i] = e]
  <1>1. DOMAIN t = DOMAIN es
    OBVIOUS
  <1>2. \A k \in DOMAIN es : t[k].name = es[k].name /\ t[k].deps = es[k].deps
    OBVIOUS
  <1>3. \A k \in DOMAIN es : \A j \in 1..k - 1 : j \in DOMAIN es
    OBVIOUS
  <1> HIDE DEF t
  <1>4. First(t)
    BY <1>1, <1>2, <1>3 DEF First
  <1> QED
    BY <1>4 DEF t

LEMMA FirstStep ==
    ASSUME TypeOK, DependenciesFirst, NEW a \in Apps, NEW es \in Seq(Entry),
           First(plugins[a]) => First(es),
           plugins' = [plugins EXCEPT ![a] = es]
    PROVE  DependenciesFirst'
  <1>1. \A b \in Apps : First(plugins[b])
    BY DEF DependenciesFirst, First
  <1>2. \A b \in Apps : First(plugins'[b])
    BY <1>1 DEF TypeOK
  <1> QED
    BY <1>2 DEF DependenciesFirst, First

\* The drain keeps the order: what it registers was found satisfied.
LEMMA OrderDrain ==
    ASSUME OrderInv, DrainStart \/ DrainTake \/ DrainCollected \/ BuildCall
                     \/ \E ok \in BOOLEAN : BuildReturn(ok)
    PROVE  DrainInv' /\ ReadySatisfied' /\ DependenciesFirst'
  <1> DEFINE a == Top.app
  <1> USE DEF OrderInv
  <1>1. /\ stack # <<>> /\ Top.op = "drain" /\ Top \in Call /\ a \in Apps
        /\ Top.ready \in Seq(Entry)
    BY StackParts, CallFields DEF TypeOK, At, DrainStart, DrainTake,
       DrainCollected, BuildCall, BuildReturn
  <1>2. Len(stack) \in DOMAIN stack /\ Top = stack[Len(stack)]
    BY <1>1, StackParts DEF TypeOK, Top
  <1>3. /\ Top.at = "start" => Top.ready = <<>>
        /\ Top.at # "start" => state[a] = "Building"
        /\ \A j \in DOMAIN Top.ready : Satisfied(a, Top.ready[j])
    BY <1>1, <1>2 DEF DrainInv, ReadySatisfied
  <1>4. plugins[a] \in Seq(Entry) /\ pending[a] \in Seq(Entry) /\ First(plugins[a])
    BY <1>1 DEF TypeOK, DependenciesFirst, First
  <1>5. ASSUME NEW ok, Returns(ok) PROVE DrainInv' /\ ReadySatisfied'
    BY <1>1, <1>5, AfterReturns, UndrainedInv
  <1>6. ASSUME NEW at \in Places, NEW es \in Seq(Entry)
        PROVE  /\ [Top EXCEPT !.at = at] \in Call
               /\ [Top EXCEPT !.ready = es] \in Call
               /\ [Top EXCEPT !.at = at, !.ready = es] \in Call
    BY <1>1 DEF Call
  <1>7. "collect" \in Places /\ "loop" \in Places /\ "build" \in Places
    BY DEF Places
  <1>8. UNCHANGED plugins =>
          DependenciesFirst' /\ \A e : Satisfied(a, e) => e.deps \subseteq NamesOf(plugins'[a])
    BY DEF DependenciesFirst, Satisfied
  <1> HIDE DEF a
  <1>9. CASE DrainStart
    <2> DEFINE f == [Top EXCEPT !.at = "collect"]
    <2>1. /\ f \in Call /\ f.op = "drain" /\ f.at # "start" /\ f.app = a
          /\ f.ready = <<>>
      BY <1>1, <1>3, <1>6, <1>7, <1>9 DEF DrainStart, At, Call, a
    <2>2. Goes(f) /\ state'[a] = "Building" /\ UNCHANGED plugins
      BY <1>1, <1>9 DEF DrainStart, TypeOK, a
    <2> HIDE DEF f
    <2>3. DrainInv' /\ ReadySatisfied'
      BY <1>1, <2>1, <2>2, DrainGoes
    <2> QED
      BY <1>8, <2>2, <2>3
  <1>10. CASE DrainTake
    <2>1. PICK i \in DOMAIN pending[a] :
             /\ Satisfied(a, pending[a][i])
             /\ Goes([Top EXCEPT !.ready = Append(Top.ready, pending[a][i])])
      BY <1>10 DEF DrainTake, a
    <2> DEFINE es == Append(Top.ready, pending[a][i])
               f == [Top EXCEPT !.ready = es]
    <2>2. UNCHANGED <<state, plugins>> /\ Top.at # "start"
      BY <1>10 DEF DrainTake, At
    <2>3. es \in Seq(Entry) /\ \A j \in DOMAIN es : Satisfied(a, es[j])
      BY <1>1, <1>3, <1>4, <2>1
    <2> HIDE DEF es
    <2>4. /\ f \in Call /\ f.op = "drain" /\ f.at # "start" /\ f.app = a /\ f.ready = es
      BY <1>1, <1>6, <1>7, <2>2, <2>3 DEF Call, a
    <2>5. Goes(f)
      BY <2>1 DEF es
    <2> HIDE DEF f
    <2>6. DrainInv' /\ ReadySatisfied'
      BY <1>1, <1>3, <1>8, <2>2, <2>3, <2>4, <2>5, DrainGoes
    <2> QED
      BY <1>8, <2>2, <2>6
  <1>11. CASE DrainCollected
    <2>1. UNCHANGED plugins
      BY <1>11 DEF DrainCollected
    <2>2. CASE Top.ready = <<>>
      BY <1>5, <1>8, <1>11, <2>1, <2>2 DEF DrainCollected
    <2>3. CASE Top.ready # <<>>
      <3> DEFINE f == [Top EXCEPT !.at = "loop"]
      <3>1. Goes(f) /\ UNCHANGED state /\ Top.at # "start"
        BY <1>11, <2>3 DEF DrainCollected, At
      <3>2. f \in Call /\ f.op = "drain" /\ f.at # "start" /\ f.app = a /\ f.ready = Top.ready
        BY <1>1, <1>6, <1>7 DEF Call, a
      <3> HIDE DEF f
      <3>3. DrainInv' /\ ReadySatisfied'
        BY <1>1, <1>3, <1>8, <2>1, <3>1, <3>2, DrainGoes
      <3> QED
        BY <1>8, <2>1, <3>3
    <2> QED
      BY <2>2, <2>3
  <1>12. CASE BuildCall
    <2> DEFINE e == Head(Top.ready)
               es == Tail(Top.ready)
               f == [Top EXCEPT !.at = "build", !.ready = es]
    <2>1. /\ Top.ready # <<>> /\ Goes(f) /\ UNCHANGED state /\ Top.at # "start"
          /\ plugins' = [plugins EXCEPT ![a] = Append(plugins[a], e)]
      BY <1>1, <1>12 DEF BuildCall, At, a, Call, TypeOK
    <2>2. e \in Entry /\ es \in Seq(Entry) /\ Satisfied(a, e)
          /\ \A j \in DOMAIN es : Satisfied(a, es[j])
      <3>1. 1 \in DOMAIN Top.ready /\ e = Top.ready[1]
        BY <1>1, <2>1
      <3>2. es \in Seq(Entry) /\ \A j \in DOMAIN es : j + 1 \in DOMAIN Top.ready
                                                    /\ es[j] = Top.ready[j + 1]
        BY <1>1, <2>1, HeadTailProperties
      <3> QED
        BY <1>1, <1>3, <3>1, <3>2
    <2>3. f \in Call /\ f.op = "drain" /\ f.at # "start" /\ f.app = a /\ f.ready = es
      BY <1>1, <1>6, <1>7, <2>2 DEF Call, a
    <2> HIDE DEF e, es, f
    <2>4. /\ First(Append(plugins[a], e)) /\ Append(plugins[a], e) \in Seq(Entry)
          /\ NamesOf(plugins[a]) \subseteq NamesOf(Append(plugins[a], e))
      BY <1>4, <2>2, FirstAppend DEF Satisfied
    <2>5. plugins'[a] = Append(plugins[a], e)
      BY <1>1, <2>1 DEF TypeOK
    <2>6. \A j \in DOMAIN es : es[j].deps \subseteq NamesOf(plugins'[a])
      BY <2>2, <2>4, <2>5 DEF Satisfied
    <2>7. DrainInv' /\ ReadySatisfied'
      BY <1>1, <1>3, <2>1, <2>3, <2>6, DrainGoes
    <2>8. DependenciesFirst'
      BY <1>1, <2>1, <2>4, FirstStep
    <2> QED
      BY <2>7, <2>8
  <1>13. ASSUME NEW ok \in BOOLEAN, BuildReturn(ok)
         PROVE  DrainInv' /\ ReadySatisfied' /\ DependenciesFirst'
    <2>1. CASE ok
      <3>1. PICK at \in Places : at # "start" /\ Goes([Top EXCEPT !.at = at])
        BY <1>7, <1>13, <2>1 DEF BuildReturn
      <3> DEFINE f == [Top EXCEPT !.at = at]
      <3>2. UNCHANGED <<state, plugins>> /\ Top.at # "start"
        BY <1>13, <2>1 DEF BuildReturn, At
      <3>3. f \in Call /\ f.op = "drain" /\ f.at # "start" /\ f.app = a /\ f.ready = Top.ready
        BY <1>1, <1>6, <3>1 DEF Call, a
      <3>4. Goes(f)
        BY <3>1
      <3> HIDE DEF f
      <3>5. DrainInv' /\ ReadySatisfied'
        BY <1>1, <1>3, <1>8, <3>2, <3>3, <3>4, DrainGoes
      <3> QED
        BY <1>8, <3>2, <3>5
    <2>2. CASE ~ok
      <3>1. /\ Returns(FALSE)
            /\ plugins' = [plugins EXCEPT ![a] = SubSeq(plugins[a], 1, Len(plugins[a]) - 1)]
        BY <1>1, <1>13, <2>2 DEF BuildReturn, a, TypeOK
      <3>2. SubSeq(plugins[a], 1, Len(plugins[a]) - 1) \in Seq(Entry)
        BY <1>4
      <3>3. DependenciesFirst'
        BY <1>1, <1>4, <3>1, <3>2, FirstPrefix, FirstStep
      <3> QED
        BY <1>5, <3>1, <3>3
    <2> QED
      BY <2>1, <2>2
  <1> QED
    BY <1>9, <1>10, <1>11, <1>12, <1>13

\* No other step of the app or its plugins has a drain under way.
LEMMA OrderOther ==
    ASSUME OrderInv,
           \/ AddReturn \/ PostStart \/ PostSubapps \/ PostDone
           \/ PrepareStart \/ PrepareDrained \/ PreparePosted \/ PrepareSubapps
           \/ PrepareDone \/ RunPrepared \/ RunnerReturn \/ RunReturn
           \/ TeardownSubapps \/ TeardownPlugin \/ TeardownDone
           \/ \E ok \in BOOLEAN : PostPlugin(ok)
    PROVE  Undrained(stack')
  <1> USE DEF OrderInv
  <1>1. stack # <<>> /\ Top.op # "drain"
    BY DEF At, AddReturn, PostStart, PostSubapps, PostDone, PrepareStart,
       PrepareDrained, PreparePosted, PrepareSubapps, PrepareDone, RunPrepared,
       RunnerReturn, RunReturn, TeardownSubapps, TeardownPlugin, TeardownDone, PostPlugin
  <1>2. Top \in Call /\ Top.app \in Apps /\ Top.index \in Nat
    BY <1>1, StackParts, CallFields DEF TypeOK
  <1>3. Top.ready = <<>>
    <2>1. Len(stack) \in DOMAIN stack /\ Top = stack[Len(stack)]
      BY <1>1, StackParts DEF TypeOK, Top
    <2> QED
      BY <1>1, <2>1 DEF DrainInv
  <1>4. ASSUME NEW at \in Places, NEW n \in Nat
        PROVE  LET f1 == [Top EXCEPT !.at = at]
                   f2 == [Top EXCEPT !.index = n]
                   f3 == [Top EXCEPT !.at = at, !.index = n]
               IN  /\ f1 \in Call /\ f1.op # "drain" /\ f1.ready = <<>>
                   /\ f2 \in Call /\ f2.op # "drain" /\ f2.ready = <<>>
                   /\ f3 \in Call /\ f3.op # "drain" /\ f3.ready = <<>>
    BY <1>1, <1>2, <1>3 DEF Call
  <1>5. "drain" \in Places /\ "post" \in Places /\ "subapps" \in Places
        /\ "subapp" \in Places /\ "failed" \in Places /\ "runner" \in Places
        /\ "teardown" \in Places /\ "plugins" \in Places
    BY DEF Places
  <1>6. /\ \A i \in DOMAIN subapps[Top.app] : i - 1 \in Nat /\ subapps[Top.app][i] \in Apps
        /\ \A i \in DOMAIN plugins[Top.app] : i - 1 \in Nat
        /\ Len(subapps[Top.app]) \in Nat /\ Len(plugins[Top.app]) \in Nat
        /\ 1 \in Nat /\ Top.index + 1 \in Nat
    <2>1. subapps[Top.app] \in Seq(Apps) /\ plugins[Top.app] \in Seq(Entry)
      BY <1>2 DEF TypeOK
    <2> QED
      BY <1>2, <2>1
  <1>7. \/ \E f \in Call : f.op # "drain" /\ f.ready = <<>> /\ Goes(f)
        \/ \E f \in Call, op \in {"drain", "post", "prepare", "teardown"}, b \in Apps :
              f.op # "drain" /\ f.ready = <<>> /\ Calls(f, NewCall(op, b))
        \/ \E ok : Returns(ok)
    <2>1. CASE AddReturn \/ PostDone \/ PrepareDone \/ RunReturn \/ TeardownDone
      BY <2>1, Zenon DEF AddReturn, PostDone, PrepareDone, RunReturn, TeardownDone
    <2>2. CASE PostStart \/ TeardownPlugin
      BY <2>2, <1>4, <1>5, <1>6, Zenon DEF PostStart, TeardownPlugin
    <2>3. CASE PostSubapps
      BY <2>3, <1>2, <1>4, <1>5, <1>6, Zenon DEF PostSubapps
    <2>4. CASE PrepareStart \/ PrepareDrained \/ PreparePosted
      BY <2>4, <1>2, <1>4, <1>5, <1>6, Zenon DEF PrepareStart, PrepareDrained, PreparePosted
    <2>5. CASE PrepareSubapps
      BY <2>5, <1>2, <1>4, <1>5, <1>6, Zenon DEF PrepareSubapps
    <2>6. CASE RunPrepared \/ RunnerReturn
      BY <2>6, <1>2, <1>4, <1>5, <1>6, Zenon DEF RunPrepared, RunnerReturn
    <2>7. CASE TeardownSubapps
      BY <2>7, <1>2, <1>4, <1>5, <1>6, Zenon DEF TeardownSubapps
    <2>8. ASSUME NEW ok \in BOOLEAN, PostPlugin(ok)
          PROVE  \/ \E f \in Call : f.op # "drain" /\ f.ready = <<>> /\ Goes(f)
                 \/ \E r : Returns(r)
      BY <2>8, <1>4, <1>5, <1>6, Zenon DEF PostPlugin
    <2> QED
      BY <2>1, <2>2, <2>3, <2>4, <2>5, <2>6, <2>7, <2>8
  <1> QED
    BY <1>1, <1>7, AfterGoes, AfterCalls, AfterReturns

\* Plugins are only marked outside a drain.
LEMMA OrderMarks ==
    ASSUME OrderInv, TeardownPlugin \/ \E ok \in BOOLEAN : PostPlugin(ok)
    PROVE  DependenciesFirst'
  <1> DEFINE a == Top.app
             i == Top.index
             e == plugins[a][i]
  <1> USE DEF OrderInv
  <1>1. a \in Apps /\ i \in DOMAIN plugins[a]
    BY StackParts, CallFields DEF TypeOK, At, TeardownPlugin, PostPlugin
  <1>2. plugins[a] \in Seq(Entry) /\ First(plugins[a])
    BY <1>1 DEF TypeOK, DependenciesFirst, First
  <1>3. e \in Entry
    BY <1>1, <1>2
  <1>4. PICK e2 \in Entry :
           /\ e2.name = e.name /\ e2.deps = e.deps
           /\ plugins' = [plugins EXCEPT ![a] = [plugins[a] EXCEPT ![i] = e2]]
    <2>1. CASE TeardownPlugin
      <3>1. plugins' = [plugins EXCEPT ![a] = [plugins[a] EXCEPT ![i] =
                                                 [e EXCEPT !.down = TRUE]]]
        BY <1>1, <2>1 DEF TeardownPlugin, TypeOK
      <3> HIDE DEF e
      <3>2. [e EXCEPT !.down = TRUE].name = e.name /\ [e EXCEPT !.down = TRUE].deps = e.deps
        BY <1>3 DEF Entry
      <3> QED
        BY <1>3, <3>1, <3>2, MarkedEntry
    <2>2. CASE \E ok \in BOOLEAN : PostPlugin(ok)
      <3>1. plugins' = [plugins EXCEPT ![a] = [plugins[a] EXCEPT ![i] =
                                                 [e EXCEPT !.posted = @ + 1]]]
        BY <1>1, <2>2 DEF PostPlugin, TypeOK
      <3> HIDE DEF e
      <3>2. [e EXCEPT !.posted = @ + 1].name = e.name /\ [e EXCEPT !.posted = @ + 1].deps = e.deps
        BY <1>3 DEF Entry
      <3> QED
        BY <1>3, <3>1, <3>2, MarkedEntry
    <2> QED
      BY <2>1, <2>2
  <1> HIDE DEF a, i
  <1>5. First([plugins[a] EXCEPT ![i] = e2]) /\ [plugins[a] EXCEPT ![i] = e2] \in Seq(Entry)
    BY <1>1, <1>2, <1>4, FirstMarked, ExceptSeq
  <1> QED
    BY <1>1, <1>4, <1>5, FirstStep

LEMMA OrderClient ==
    ASSUME OrderInv, Client
    PROVE  DrainInv' /\ ReadySatisfied' /\ DependenciesFirst'
  <1> USE DEF OrderInv
  <1>1. UNCHANGED <<state, plugins>>
    BY DEF Client, AddPlugin, Prepare, Run, Teardown, Update, InsertSubapp, RemoveSubapp
  <1>2. DependenciesFirst'
    BY <1>1 DEF DependenciesFirst
  <1>3. CASE UNCHANGED stack
    BY <1>1, <1>2, <1>3 DEF DrainInv, ReadySatisfied, Satisfied
  <1>4. ASSUME NEW a \in Apps, Prepare(a) \/ Run(a) \/ Teardown(a)
        PROVE  Undrained(stack')
    BY <1>4 DEF Prepare, Run, Teardown, Undrained, NewCall
  <1>5. ASSUME NEW a \in Apps, NEW n \in Names, NEW deps \in Dependencies,
               AddPlugin(a, n, deps), stack' # stack
        PROVE  Undrained(stack')
    <2>1. /\ state[a] # "Building" /\ ClientRuns(a)
          /\ stack' = stack \o <<[NewCall("add", a) EXCEPT !.names = {n}], NewCall("drain", a)>>
      BY <1>5 DEF AddPlugin
    <2>2. stack = <<>>
      <3> SUFFICES ASSUME stack # <<>> PROVE FALSE
        OBVIOUS
      <3>1. At("drain", "build") /\ Top.app = a
        BY <2>1 DEF ClientRuns
      <3>2. Len(stack) \in DOMAIN stack /\ Top = stack[Len(stack)]
        BY StackParts DEF TypeOK, Top
      <3> QED
        BY <2>1, <3>1, <3>2 DEF DrainInv, At
    <2> DEFINE f == [NewCall("add", a) EXCEPT !.names = {n}]
               c == NewCall("drain", a)
    <2>3. /\ f.op = "add" /\ f.ready = <<>>
          /\ c.op = "drain" /\ c.at = "start" /\ c.ready = <<>>
      BY DEF NewCall
    <2> HIDE DEF f, c
    <2>4. stack' = <<f, c>>
      BY <2>1, <2>2 DEF f, c
    <2> QED
      BY <2>3, <2>4 DEF Undrained
  <1>6. UNCHANGED stack \/ Undrained(stack')
    BY <1>4, <1>5 DEF Client, Update, InsertSubapp, RemoveSubapp
  <1> QED
    BY <1>2, <1>3, <1>6, UndrainedInv

LEMMA OrderNext ==
    ASSUME OrderInv, [Next]_vars
    PROVE  OrderInv'
  <1>1. TypeOK'
    BY TypeNext DEF OrderInv
  <1>2. DrainInv' /\ ReadySatisfied' /\ DependenciesFirst'
    <2>1. CASE DrainStart \/ DrainTake \/ DrainCollected \/ BuildCall
               \/ \E ok \in BOOLEAN : BuildReturn(ok)
      BY <2>1, OrderDrain
    <2>2. CASE \/ AddReturn \/ PostStart \/ PostSubapps \/ PostDone
               \/ PrepareStart \/ PrepareDrained \/ PreparePosted \/ PrepareSubapps
               \/ PrepareDone \/ RunPrepared \/ RunnerReturn \/ RunReturn
               \/ TeardownSubapps \/ TeardownPlugin \/ TeardownDone
               \/ \E ok \in BOOLEAN : PostPlugin(ok)
      <3>1. DrainInv' /\ ReadySatisfied'
        BY <2>2, OrderOther, UndrainedInv
      <3>2. \/ TeardownPlugin \/ \E ok \in BOOLEAN : PostPlugin(ok)
            \/ UNCHANGED plugins
        BY <2>2 DEF AddReturn, PostStart, PostSubapps, PostDone, PrepareStart,
           PrepareDrained, PreparePosted, PrepareSubapps, PrepareDone, RunPrepared,
           RunnerReturn, RunReturn, TeardownSubapps, TeardownDone
      <3>3. UNCHANGED plugins => DependenciesFirst'
        BY DEF OrderInv, DependenciesFirst
      <3> QED
        BY <3>1, <3>2, <3>3, OrderMarks
    <2>3. CASE Client
      BY <2>3, OrderClient
    <2>4. CASE Finished \/ UNCHANGED vars
      BY <2>4 DEF Finished, vars, OrderInv, DrainInv, ReadySatisfied, Satisfied,
         DependenciesFirst
    <2> QED
      BY <2>1, <2>2, <2>3, <2>4 DEF Next, Internal
  <1> QED
    BY <1>1, <1>2 DEF OrderInv

\* In whatever order plugins are registered, whatever their builds add and
\* however they fail, every registered plugin stands behind all its
\* dependencies: drain_pending_plugins builds in dependency order, and the
\* reverse order of teardown shuts a plugin down before what it uses.
THEOREM DependenciesCorrect == Spec => []DependenciesFirst
  <1>1. Init => OrderInv
    <2>1. Init => DrainInv /\ ReadySatisfied /\ DependenciesFirst
      BY DEF Init, DrainInv, ReadySatisfied, DependenciesFirst
    <2> QED
      BY <2>1, TypeInit DEF OrderInv
  <1>2. OrderInv /\ [Next]_vars => OrderInv'
    BY OrderNext
  <1>3. OrderInv => DependenciesFirst
    BY DEF OrderInv
  <1> QED
    BY <1>1, <1>2, <1>3, PTL DEF Spec

-----------------------------------------------------------------------------
(* The inductive invariant                                                  *)

Child(p, s) == \E i \in DOMAIN subapps[p] : subapps[p][i] = s
Ended == {"Running", "Shutdown"}
Posted(a) == \A i \in DOMAIN plugins[a] : plugins[a][i].posted > 0

\* The call c of an app waits, at some depth, for the call d of the same app.
PairOK(c, d) ==
    \/ c.op = "add" /\ d.op = "drain"
    \/ c.op = "run" /\ c.at = "prepare" /\ d.op \in {"prepare", "drain", "post", "teardown"}
    \/ c.op = "run" /\ c.at = "teardown" /\ d.op = "teardown"
    \/ c.op = "prepare" /\ c.at = "drain" /\ d.op = "drain"
    \/ c.op = "prepare" /\ c.at = "post" /\ d.op = "post"
    \/ c.op = "prepare" /\ c.at = "failed" /\ d.op = "teardown"

\* The call c is where it calls d.
Link(c, d) ==
    \/ d.app = c.app /\ PairOK(c, d)
    \/ /\ c.op = d.op /\ c.op \in {"prepare", "post"} /\ c.at = "subapp"
       /\ c.index \in DOMAIN subapps[c.app] /\ d.app = subapps[c.app][c.index]
    \/ /\ c.op = d.op /\ c.op = "teardown" /\ c.at = "subapps"
       /\ c.index + 1 \in DOMAIN subapps[c.app] /\ d.app = subapps[c.app][c.index + 1]

\* The call c brings the subapp s up or down.
Engages(c, s) ==
    \/ c.op = "teardown" /\ c.at = "subapps"
    \/ c.op = "prepare" /\ c.at = "subapp" /\ c.index \in DOMAIN subapps[c.app]
                        /\ subapps[c.app][c.index] = s

\* Calls nest along the tree of apps.
Nested(rank) ==
    /\ \A p \in Apps : \A i \in DOMAIN subapps[p] : rank[subapps[p][i]] < rank[p]
    /\ \A i, j \in DOMAIN stack :
         i < j => \/ stack[i].app = stack[j].app /\ PairOK(stack[i], stack[j])
                  \/ rank[stack[j].app] < rank[stack[i].app] /\ Owned(stack[j].app)

NestedInv == \E rank \in [Apps -> Nat] : Nested(rank)

LinkInv == \A i \in 1..Len(stack) - 1 : Link(stack[i], stack[i + 1])

\* The application runs only apps that it owns; a subapp is brought up and
\* down by its parent.
OwnerInv ==
    \A k \in DOMAIN stack :
      /\ stack[k].op = "run" => ~Owned(stack[k].app)
      /\ stack[k].op \in {"prepare", "teardown"} =>
           \A p \in Apps : Child(p, stack[k].app) =>
             \E j \in 1..k - 1 : stack[j].app = p /\ Engages(stack[j], stack[k].app)

ShapeInv == NestedInv /\ LinkInv /\ OwnerInv

\* What holds of the app of the call c from the place where c is.
SteadyDrain(c) ==
    c.op = "drain" => state[c.app] = IF c.at = "start" THEN "Created" ELSE "Building"

SteadyPost(c) ==
    c.op = "post" =>
      /\ c.index > 0
      /\ c.at = "start" => c.index = 1 /\ state[c.app] \notin Ended
      /\ c.at # "start" => state[c.app] = "PostBuilding"
      /\ c.at = "plugins" =>
           \A i \in DOMAIN plugins[c.app] : i < c.index => plugins[c.app][i].posted > 0
      /\ c.at \in {"subapps", "subapp"} => Posted(c.app)

SteadyPrepare(c) ==
    c.op = "prepare" =>
      /\ c.index > 0
      /\ c.at \in {"start", "drain", "post"} => c.index = 1
      /\ c.at \in {"post", "subapps", "subapp"} => pending[c.app] = <<>>
      /\ c.at \in {"subapps", "subapp"} =>
           /\ state[c.app] = "Created" /\ Posted(c.app)
           /\ \A i \in DOMAIN subapps[c.app] :
                /\ i < c.index => state[subapps[c.app][i]] = "Running"
                /\ i > c.index => state[subapps[c.app][i]] # "Shutdown"

SteadyTeardown(c) ==
    c.op = "teardown" =>
      /\ c.at = "subapps" =>
           /\ c.index <= Len(subapps[c.app])
           /\ \A i \in DOMAIN subapps[c.app] :
                i > c.index + 1 => state[subapps[c.app][i]] = "Shutdown"
      /\ c.at = "plugins" =>
           /\ c.index <= Len(plugins[c.app])
           /\ \A i \in DOMAIN subapps[c.app] : state[subapps[c.app][i]] = "Shutdown"
           /\ \A i \in DOMAIN plugins[c.app] : i > c.index => plugins[c.app][i].down

Steady(c) == SteadyDrain(c) /\ SteadyPost(c) /\ SteadyPrepare(c) /\ SteadyTeardown(c)

\* What the innermost call c finds when it goes on: the outcome of its last call.
Arrived(c) ==
    /\ c.op = "prepare" /\ c.at = "drain" /\ result =>
         state[c.app] = "Created" /\ pending[c.app] = <<>>
    /\ c.op = "prepare" /\ c.at = "post" /\ result =>
         state[c.app] = "Created" /\ Posted(c.app)
    /\ c.op = "prepare" /\ c.at = "subapp" /\ result =>
         \A i \in DOMAIN subapps[c.app] : i = c.index => state[subapps[c.app][i]] = "Running"
    /\ c.op = "prepare" /\ c.at = "subapps" =>
         \A i \in DOMAIN subapps[c.app] : i = c.index => state[subapps[c.app][i]] # "Shutdown"
    /\ c.op = "prepare" /\ c.at = "failed" => state[c.app] = "Shutdown"
    /\ c.op = "teardown" /\ c.at = "subapps" =>
         \A i \in DOMAIN subapps[c.app] : i > c.index => state[subapps[c.app][i]] = "Shutdown"

CallInv ==
    /\ \A k \in DOMAIN stack : Steady(stack[k])
    /\ stack # <<>> => Arrived(Top)

Tearing(p) == \E k \in DOMAIN stack : stack[k].app = p /\ stack[k].op = "teardown"

Bringing(c) ==
    c.op = "teardown" \/ (c.op = "prepare" /\ c.at \in {"subapps", "subapp", "failed"})

Engaged(p) == \E k \in DOMAIN stack : stack[k].app = p /\ Bringing(stack[k])

OwnedOnce ==
    \A p, q \in Apps : \A i \in DOMAIN subapps[p], j \in DOMAIN subapps[q] :
      subapps[p][i] = subapps[q][j] => p = q /\ i = j

\* The states of a parent p and its subapp s.
Fits(p, s) ==
    /\ state[s] \in Ended => state[p] \in Ended \/ Engaged(p)
    /\ state[p] = "Running" => state[s] = "Running" \/ Tearing(p)
    /\ state[p] = "Shutdown" => state[s] = "Shutdown"

TreeInv == OwnedOnce /\ \A p, s \in Apps : Child(p, s) => Fits(p, s)

Fresh(es) == \A i \in DOMAIN es : ~es[i].down

\* The states of an app and its plugins.
PluginOK(a) ==
    /\ state[a] = "Running" => pending[a] = <<>> /\ Posted(a)
    /\ state[a] = "Shutdown" => \A i \in DOMAIN plugins[a] : plugins[a][i].down
    /\ \A i \in DOMAIN plugins[a] :
         plugins[a][i].down =>
           state[a] = "Shutdown"
           \/ (At("teardown", "plugins") /\ Top.app = a /\ i > Top.index)
    /\ Fresh(pending[a])
    /\ state[a] = "Building" =>
         stack # <<>> /\ Top.op = "drain" /\ Top.app = a /\ Top.at # "start"

PluginInv ==
    /\ \A a \in Apps : PluginOK(a)
    /\ stack # <<>> => Fresh(Top.ready)

LifeInv ==
    OrderInv /\ ShapeInv /\ CallInv /\ TreeInv /\ PluginInv

\* Names are unique in a list.
Unique(es) == \A i, j \in DOMAIN es : es[i].name = es[j].name => i = j

NamesInv ==
    /\ \A a \in Apps :
         Unique(plugins[a]) /\ Unique(pending[a]) /\ NamesOf(plugins[a]) \cap NamesOf(pending[a]) = {}
    /\ stack # <<>> =>
         /\ Unique(Top.ready)
         /\ NamesOf(Top.ready) \cap NamesOf(plugins[Top.app]) = {}
         /\ NamesOf(Top.ready) \cap NamesOf(pending[Top.app]) = {}

-----------------------------------------------------------------------------
(* The calls in progress after a step                                       *)

LEMMA GoesParts ==
    ASSUME stack \in Seq(Call), stack # <<>>, NEW f \in Call, Goes(f)
    PROVE  /\ stack' \in Seq(Call) /\ stack' # <<>> /\ Top' = f /\ result' = result
           /\ Len(stack') = Len(stack) /\ Len(stack) \in Nat \ {0}
           /\ \A i \in 1..Len(stack) - 1 : stack'[i] = stack[i]
           /\ stack'[Len(stack)] = f /\ Top = stack[Len(stack)]
  <1>1. /\ Callers \in Seq(Call) /\ Len(Callers) = Len(stack) - 1
        /\ Len(stack) \in Nat \ {0} /\ \A i \in 1..Len(stack) - 1 : Callers[i] = stack[i]
    BY StackParts
  <1>2. stack' = Append(Callers, f) /\ result' = result
    BY DEF Goes
  <1>3. /\ stack' \in Seq(Call) /\ Len(stack') = Len(Callers) + 1
        /\ \A i \in 1..Len(Callers) : stack'[i] = Callers[i]
        /\ stack'[Len(Callers) + 1] = f
    BY <1>1, <1>2, AppendProperties
  <1>4. Len(stack') = Len(stack) /\ stack'[Len(stack)] = f
    BY <1>1, <1>3
  <1>5. stack' # <<>> /\ Top' = f
    BY <1>1, <1>3, <1>4 DEF Top
  <1> QED
    BY <1>1, <1>2, <1>3, <1>4, <1>5 DEF Top

LEMMA CallsParts ==
    ASSUME stack \in Seq(Call), stack # <<>>, NEW f \in Call, NEW d \in Call, Calls(f, d)
    PROVE  /\ stack' \in Seq(Call) /\ stack' # <<>> /\ Top' = d /\ result' = result
           /\ Len(stack') = Len(stack) + 1 /\ Len(stack) \in Nat \ {0}
           /\ \A i \in 1..Len(stack) - 1 : stack'[i] = stack[i]
           /\ stack'[Len(stack)] = f /\ stack'[Len(stack) + 1] = d
           /\ Top = stack[Len(stack)]
  <1> DEFINE fd == <<f, d>>
  <1>1. /\ Callers \in Seq(Call) /\ Len(Callers) = Len(stack) - 1 /\ Len(Callers) \in Nat
        /\ Len(stack) \in Nat \ {0} /\ \A i \in 1..Len(stack) - 1 : Callers[i] = stack[i]
    BY StackParts
  <1>2. stack' = Callers \o fd /\ result' = result
    BY DEF Calls
  <1>3. fd \in Seq(Call) /\ Len(fd) = 2 /\ fd[1] = f /\ fd[2] = d
    OBVIOUS
  <1> HIDE DEF fd
  <1>4. /\ stack' \in Seq(Call) /\ Len(stack') = Len(Callers) + 2
        /\ \A i \in 1..Len(Callers) + 2 :
              stack'[i] = IF i <= Len(Callers) THEN Callers[i] ELSE fd[i - Len(Callers)]
    <2>1. PICK cs \in Seq(Call) : cs = Callers
      BY <1>1
    <2>2. PICK es \in Seq(Call) : es = fd
      BY <1>3
    <2>3. /\ cs \o es \in Seq(Call) /\ Len(cs \o es) = Len(cs) + Len(es)
          /\ \A i \in 1..Len(cs) + Len(es) :
                (cs \o es)[i] = IF i <= Len(cs) THEN cs[i] ELSE es[i - Len(cs)]
      BY ConcatProperties, Zenon
    <2> QED
      BY <1>2, <1>3, <2>1, <2>2, <2>3
  <1>5. /\ \A i \in 1..Len(Callers) : stack'[i] = Callers[i]
        /\ stack'[Len(Callers) + 1] = f /\ stack'[Len(Callers) + 2] = d
    <2> DEFINE n == Len(Callers)
    <2>1. /\ n \in Nat
          /\ \A i \in 1..n + 2 : stack'[i] = IF i <= n THEN Callers[i] ELSE fd[i - n]
      BY <1>1, <1>4
    <2> HIDE DEF n
    <2>2. /\ \A i \in 1..n : stack'[i] = Callers[i]
          /\ stack'[n + 1] = fd[1] /\ stack'[n + 2] = fd[2]
      BY <2>1
    <2> QED
      BY <1>3, <2>2 DEF n
  <1>6. Len(stack') = Len(stack) + 1 /\ stack'[Len(stack)] = f /\ stack'[Len(stack) + 1] = d
    BY <1>1, <1>4, <1>5
  <1>7. stack' # <<>> /\ Top' = d
    BY <1>1, <1>4, <1>6 DEF Top
  <1> QED
    BY <1>1, <1>2, <1>4, <1>5, <1>6, <1>7 DEF Top

LEMMA ReturnsParts ==
    ASSUME stack \in Seq(Call), stack # <<>>, NEW ok \in BOOLEAN, Returns(ok)
    PROVE  /\ stack' \in Seq(Call) /\ (result' <=> ok)
           /\ Len(stack') = Len(stack) - 1 /\ Len(stack) \in Nat \ {0}
           /\ \A i \in 1..Len(stack) - 1 : stack'[i] = stack[i]
           /\ Top = stack[Len(stack)]
           /\ stack' # <<>> => Len(stack) > 1 /\ Top' = stack[Len(stack) - 1]
  <1>1. /\ Callers \in Seq(Call) /\ Len(Callers) = Len(stack) - 1
        /\ Len(stack) \in Nat \ {0} /\ \A i \in 1..Len(stack) - 1 : Callers[i] = stack[i]
    BY StackParts
  <1>2. stack' = Callers /\ (result' <=> ok)
    BY DEF Returns
  <1>3. stack' # <<>> => Len(stack) > 1 /\ Top' = stack[Len(stack) - 1]
    <2> SUFFICES ASSUME stack' # <<>> PROVE Len(stack) > 1 /\ Top' = stack[Len(stack) - 1]
      OBVIOUS
    <2>1. Len(stack') # 0
      BY <1>1, <1>2
    <2>2. Len(stack) - 1 \in 1..Len(stack) - 1
      BY <1>1, <1>2, <2>1
    <2>3. Top' = stack'[Len(stack')]
      BY DEF Top
    <2> QED
      BY <1>1, <1>2, <2>2, <2>3
  <1> QED
    BY <1>1, <1>2, <1>3 DEF Top

-----------------------------------------------------------------------------
(* Calls nest along the tree of apps                                        *)

\* A call that goes on is the same call of the same app.
LEMMA ShapeGoes ==
    ASSUME TypeOK, ShapeInv, stack # <<>>, UNCHANGED subapps,
           NEW f \in Call, f.op = Top.op, f.app = Top.app, Goes(f)
    PROVE  ShapeInv'
  <1> DEFINE n == Len(stack)
  <1>1. /\ stack \in Seq(Call) /\ stack' \in Seq(Call)
        /\ Len(stack') = n /\ n \in Nat \ {0}
        /\ \A i \in 1..n - 1 : stack'[i] = stack[i]
        /\ stack'[n] = f /\ Top = stack[n]
    BY GoesParts DEF TypeOK
  <1>2. \A i \in 1..n : stack'[i].op = stack[i].op /\ stack'[i].app = stack[i].app
    BY <1>1
  <1>3. DOMAIN stack = 1..n /\ DOMAIN stack' = 1..n
    BY <1>1
  <1> HIDE DEF n
  <1>4. NestedInv'
    <2>1. PICK rank \in [Apps -> Nat] : Nested(rank)
      BY DEF ShapeInv, NestedInv
    <2>2. \A i, j \in 1..n : i < j => stack'[i] = stack[i]
      BY <1>1
    <2>3. \A i, j \in 1..n : i < j =>
             \/ stack'[i].app = stack'[j].app /\ PairOK(stack'[i], stack'[j])
             \/ rank[stack'[j].app] < rank[stack'[i].app] /\ Owned(stack[j].app)
      BY <1>2, <1>3, <2>1, <2>2 DEF Nested, PairOK
    <2>4. \A i, j \in 1..n : i < j =>
             \/ stack'[i].app = stack'[j].app /\ PairOK(stack'[i], stack'[j])
             \/ rank[stack'[j].app] < rank[stack'[i].app] /\ Owned(stack[j].app)'
      BY <1>2, <2>3 DEF Owned
    <2>5. Nested(rank)'
      BY <1>3, <2>1, <2>4 DEF Nested
    <2> QED
      BY <2>5 DEF NestedInv
  <1>5. LinkInv'
    <2>1. \A i \in 1..n - 1 : i \in 1..n /\ i + 1 \in 1..n /\ stack'[i] = stack[i]
      BY <1>1
    <2>2. \A i \in 1..n - 1 : Link(stack[i], stack[i + 1])
      BY DEF ShapeInv, LinkInv, n
    <2>3. \A i \in 1..n - 1 : Link(stack[i], stack[i + 1])'
      BY <1>2, <2>1, <2>2 DEF Link, PairOK
    <2> QED
      BY <1>1, <2>3 DEF LinkInv
  <1>6. OwnerInv'
    <2>1. \A k \in 1..n : \A j \in 1..k - 1 : stack'[j] = stack[j]
      BY <1>1
    <2> QED
      BY <1>2, <1>3, <2>1 DEF ShapeInv, OwnerInv, Owned, Child, Engages
  <1> QED
    BY <1>4, <1>5, <1>6 DEF ShapeInv

LEMMA ShapeReturns ==
    ASSUME TypeOK, ShapeInv, stack # <<>>, UNCHANGED subapps,
           NEW ok \in BOOLEAN, Returns(ok)
    PROVE  ShapeInv'
  <1> DEFINE n == Len(stack)
  <1>1. /\ stack \in Seq(Call) /\ stack' \in Seq(Call)
        /\ Len(stack') = n - 1 /\ n \in Nat \ {0}
        /\ \A i \in 1..n - 1 : stack'[i] = stack[i]
    BY ReturnsParts DEF TypeOK
  <1>2. DOMAIN stack = 1..n /\ DOMAIN stack' = 1..n - 1
    BY <1>1
  <1> HIDE DEF n
  <1>3. NestedInv'
    <2>1. PICK rank \in [Apps -> Nat] : Nested(rank)
      BY DEF ShapeInv, NestedInv
    <2>2. \A i \in 1..n - 1 : i \in 1..n /\ stack'[i] = stack[i]
      BY <1>1
    <2>3. \A i, j \in 1..n - 1 : i < j =>
             \/ stack'[i].app = stack'[j].app /\ PairOK(stack'[i], stack'[j])
             \/ rank[stack'[j].app] < rank[stack'[i].app] /\ Owned(stack[j].app)
      BY <1>2, <2>1, <2>2 DEF Nested
    <2>4. \A i, j \in 1..n - 1 : i < j =>
             \/ stack'[i].app = stack'[j].app /\ PairOK(stack'[i], stack'[j])
             \/ rank[stack'[j].app] < rank[stack'[i].app] /\ Owned(stack[j].app)'
      BY <2>2, <2>3 DEF Owned
    <2>5. Nested(rank)'
      BY <1>2, <2>1, <2>4 DEF Nested
    <2> QED
      BY <2>5 DEF NestedInv
  <1>4. LinkInv'
    <2>1. \A i \in 1..n - 1 - 1 : /\ i \in 1..n - 1 /\ i + 1 \in 1..n - 1
                                /\ stack'[i] = stack[i] /\ stack'[i + 1] = stack[i + 1]
      BY <1>1
    <2>2. \A i \in 1..n - 1 : Link(stack[i], stack[i + 1])
      BY DEF ShapeInv, LinkInv, n
    <2>3. ASSUME NEW i \in 1..n - 1 - 1 PROVE Link(stack[i], stack[i + 1])'
      <3>1. Link(stack[i], stack[i + 1])
        BY <2>1, <2>2
      <3>2. stack'[i] = stack[i] /\ stack'[i + 1] = stack[i + 1]
        BY <2>1
      <3> QED
        BY <3>1, <3>2 DEF Link, PairOK
    <2> QED
      BY <1>1, <2>3 DEF LinkInv
  <1>5. OwnerInv'
    <2>1. \A k \in 1..n - 1 : k \in 1..n /\ stack'[k] = stack[k]
                            /\ \A j \in 1..k - 1 : stack'[j] = stack[j]
      BY <1>1
    <2> QED
      BY <1>2, <2>1 DEF ShapeInv, OwnerInv, Owned, Child, Engages
  <1> QED
    BY <1>3, <1>4, <1>5 DEF ShapeInv

\* A call that its caller is at the right place for.
LEMMA ShapeCalls ==
    ASSUME TypeOK, ShapeInv, OwnedOnce, stack # <<>>, UNCHANGED subapps,
           NEW f \in Call, f.op = Top.op, f.app = Top.app,
           NEW d \in Call, d.op # "run", Link(f, d), Calls(f, d)
    PROVE  ShapeInv'
  <1> DEFINE n == Len(stack)
  <1>1. /\ stack \in Seq(Call) /\ stack' \in Seq(Call)
        /\ Len(stack') = n + 1 /\ n \in Nat \ {0}
        /\ \A i \in 1..n - 1 : stack'[i] = stack[i]
        /\ stack'[n] = f /\ stack'[n + 1] = d /\ Top = stack[n]
    BY CallsParts DEF TypeOK
  <1>2. DOMAIN stack = 1..n /\ DOMAIN stack' = 1..n + 1
    BY <1>1
  <1>3. f.app \in Apps /\ d.app \in Apps
    BY DEF Call
  <1>4. d.app # f.app \/ ~PairOK(f, d) => Child(f.app, d.app) /\ Owned(d.app)
    BY <1>3 DEF Link, Child, Owned
  <1> HIDE DEF n
  <1>5. NestedInv'
    <2>1. PICK rank \in [Apps -> Nat] : Nested(rank)
      BY DEF ShapeInv, NestedInv
    <2>2. \A i, j \in 1..n : i < j =>
             \/ stack[i].app = stack[j].app /\ PairOK(stack[i], stack[j])
             \/ rank[stack[j].app] < rank[stack[i].app] /\ Owned(stack[j].app)
      BY <1>2, <2>1 DEF Nested
    <2>3. \A i \in 1..n : stack[i].app \in Apps /\ rank[stack[i].app] \in Nat
      <3>1. \A i \in 1..n : stack[i] \in Call
        BY <1>1, <1>2
      <3> QED
        BY <2>1, <3>1 DEF Call
    <2>4. rank[d.app] \in Nat /\ rank[f.app] \in Nat
      BY <1>3
    <2>5. \/ d.app = f.app /\ PairOK(f, d)
          \/ rank[d.app] < rank[f.app] /\ Owned(d.app)
      BY <1>3, <1>4, <2>1 DEF Child, Nested
    <2>6. ASSUME NEW i \in 1..n - 1
          PROVE  /\ \/ stack[i].app = f.app /\ PairOK(stack[i], f)
                    \/ rank[f.app] < rank[stack[i].app] /\ Owned(f.app)
                 /\ \/ stack[i].app = d.app /\ PairOK(stack[i], d)
                    \/ rank[d.app] < rank[stack[i].app] /\ Owned(d.app)
      <3>1. i \in 1..n /\ n \in 1..n /\ i < n
        BY <1>1
      <3>2. \/ stack[i].app = f.app /\ PairOK(stack[i], Top)
            \/ rank[f.app] < rank[stack[i].app] /\ Owned(f.app)
        BY <1>1, <2>2, <3>1
      <3>3. PairOK(stack[i], Top) => PairOK(stack[i], f)
        BY DEF PairOK
      <3>4. PairOK(stack[i], f) /\ PairOK(f, d) => PairOK(stack[i], d)
        BY DEF PairOK
      <3>5. rank[stack[i].app] \in Nat
        BY <2>3, <3>1
      <3> QED
        BY <2>4, <2>5, <3>2, <3>3, <3>4, <3>5
    <2>7. \A i, j \in 1..n + 1 : i < j =>
             \/ stack'[i].app = stack'[j].app /\ PairOK(stack'[i], stack'[j])
             \/ rank[stack'[j].app] < rank[stack'[i].app] /\ Owned(stack'[j].app)
      <3> SUFFICES ASSUME NEW i \in 1..n + 1, NEW j \in 1..n + 1, i < j
                   PROVE  \/ stack'[i].app = stack'[j].app /\ PairOK(stack'[i], stack'[j])
                          \/ rank[stack'[j].app] < rank[stack'[i].app] /\ Owned(stack'[j].app)
        OBVIOUS
      <3>1. \/ i \in 1..n - 1 /\ j \in 1..n - 1
            \/ i \in 1..n - 1 /\ j = n
            \/ i \in 1..n - 1 /\ j = n + 1
            \/ i = n /\ j = n + 1
        BY <1>1
      <3>2. i \in 1..n - 1 /\ j \in 1..n - 1 => i \in 1..n /\ j \in 1..n
        BY <1>1
      <3> QED
        BY <1>1, <2>2, <2>5, <2>6, <3>1, <3>2, Zenon
    <2>8. \A j \in 1..n + 1 : Owned(stack'[j].app) => Owned(stack[j].app)'
      BY DEF Owned
    <2>9. \A i, j \in 1..n + 1 : i < j =>
             \/ stack'[i].app = stack'[j].app /\ PairOK(stack'[i], stack'[j])
             \/ rank[stack'[j].app] < rank[stack'[i].app] /\ Owned(stack[j].app)'
      BY <2>7, <2>8
    <2>10. Nested(rank)'
      BY <1>2, <2>1, <2>9 DEF Nested
    <2> QED
      BY <2>10 DEF NestedInv
  <1>6. LinkInv'
    <2>1. \A i \in 1..n - 1 : Link(stack[i], stack[i + 1])
      BY DEF ShapeInv, LinkInv, n
    <2>2. ASSUME NEW i \in 1..n PROVE Link(stack[i], stack[i + 1])'
      <3>1. CASE i = n
        BY <1>1, <3>1 DEF Link, PairOK
      <3>2. CASE i # n
        <4>1. i \in 1..n - 1 /\ (i + 1 \in 1..n - 1 \/ i + 1 = n)
          BY <1>1, <3>2
        <4>2. Link(stack[i], stack[i + 1])
          BY <2>1, <4>1
        <4>3. /\ stack'[i] = stack[i] /\ stack'[i + 1].op = stack[i + 1].op
              /\ stack'[i + 1].app = stack[i + 1].app
          BY <1>1, <4>1
        <4> QED
          BY <4>2, <4>3 DEF Link, PairOK
      <3> QED
        BY <3>1, <3>2
    <2>3. Len(stack') - 1 = n
      BY <1>1
    <2> QED
      BY <2>2, <2>3 DEF LinkInv
  <1>7. OwnerInv'
    <2>1. \A k \in 1..n :
             /\ stack[k].op = "run" => ~Owned(stack[k].app)
             /\ stack[k].op \in {"prepare", "teardown"} =>
                  \A p \in Apps : Child(p, stack[k].app) =>
                    \E j \in 1..k - 1 : stack[j].app = p /\ Engages(stack[j], stack[k].app)
      BY <1>2 DEF ShapeInv, OwnerInv
    <2>2. \A k \in 1..n : /\ stack'[k].op = stack[k].op /\ stack'[k].app = stack[k].app
                          /\ \A j \in 1..k - 1 : stack'[j] = stack[j]
      BY <1>1
    <2>3. ASSUME NEW p \in Apps, Child(p, d.app), d.op \in {"prepare", "teardown"}
          PROVE  \E j \in 1..n : stack'[j].app = p /\ Engages(stack'[j], d.app)
      <3>1. CASE d.app = f.app /\ PairOK(f, d)
        <4>1. f.op \in {"run", "prepare"} /\ Owned(f.app)
          BY <2>3, <3>1 DEF PairOK, Child, Owned
        <4>2. n \in 1..n /\ stack[n].op = f.op /\ stack[n].app = f.app
          BY <1>1
        <4>3. PICK j \in 1..n - 1 : stack[j].app = p /\ Engages(stack[j], f.app)
          BY <2>1, <2>3, <3>1, <4>1, <4>2
        <4> QED
          BY <1>1, <3>1, <4>3
      <3>2. CASE ~(d.app = f.app /\ PairOK(f, d))
        <4>1. Child(f.app, d.app) /\ Engages(f, d.app)
          BY <1>3, <2>3, <3>2 DEF Link, Child, Engages
        <4>2. p = f.app
          BY <1>3, <2>3, <4>1 DEF OwnedOnce, Child
        <4> QED
          BY <1>1, <4>1, <4>2
      <3> QED
        BY <3>1, <3>2
    <2>4. ASSUME NEW k \in 1..n + 1
          PROVE  /\ stack'[k].op = "run" => ~Owned(stack'[k].app)
                 /\ stack'[k].op \in {"prepare", "teardown"} =>
                      \A p \in Apps : Child(p, stack'[k].app) =>
                        \E j \in 1..k - 1 : stack'[j].app = p /\ Engages(stack'[j], stack'[k].app)
      <3>1. CASE k = n + 1
        <4>1. stack'[k] = d /\ k - 1 = n
          BY <1>1, <3>1
        <4> QED
          BY <2>3, <4>1
      <3>2. CASE k # n + 1
        <4>1. k \in 1..n
          BY <1>1, <3>2
        <4> QED
          BY <2>1, <2>2, <4>1
      <3> QED
        BY <3>1, <3>2
    <2> QED
      BY <1>2, <2>4 DEF OwnerInv, Owned, Child, Engages
  <1> QED
    BY <1>5, <1>6, <1>7 DEF ShapeInv

-----------------------------------------------------------------------------
(* What a step of the innermost call leaves alone                           *)

\* A step of the innermost call, of the app a, changes no other app, and a's
\* state only in the ways in which calls do.
Local(a) ==
    /\ UNCHANGED subapps
    /\ \A b \in Apps : b # a =>
         state'[b] = state[b] /\ plugins'[b] = plugins[b] /\ pending'[b] = pending[b]
    /\ \/ state'[a] = state[a]
       \/ state[a] \notin Ended /\ state'[a] # "Shutdown"
       \/ Top.op = "teardown" /\ state'[a] = "Shutdown"
    /\ Top.op = "post" => pending'[a] = pending[a]

\* Two calls in progress of one app.
LEMMA SameApp ==
    ASSUME TypeOK, ShapeInv, NEW i \in DOMAIN stack, NEW j \in DOMAIN stack, i < j,
           stack[i].app = stack[j].app
    PROVE  PairOK(stack[i], stack[j])
  <1>1. PICK rank \in [Apps -> Nat] : Nested(rank)
    BY DEF ShapeInv, NestedInv
  <1>2. stack[j] \in Call
    BY DEF TypeOK
  <1>3. rank[stack[j].app] \in Nat
    BY <1>1, <1>2 DEF Call
  <1> QED
    BY <1>1, <1>3 DEF Nested

LEMMA NotOwnChild ==
    ASSUME TypeOK, ShapeInv, NEW p \in Apps, NEW s \in Apps, Child(p, s)
    PROVE  p # s
  <1>1. PICK rank \in [Apps -> Nat] : Nested(rank)
    BY DEF ShapeInv, NestedInv
  <1>2. rank[s] < rank[p] /\ rank[p] \in Nat
    BY <1>1 DEF Nested, Child
  <1> QED
    BY <1>2

\* A prepare call that waits for one subapp is not engaged with another.
LEMMA EngagedOnce ==
    ASSUME TypeOK, ShapeInv, OwnedOnce, NEW n \in DOMAIN stack, NEW i \in 1..n - 1,
           stack[n].op = "teardown",
           stack[i].op = "prepare", stack[i].at \in {"subapps", "subapp"},
           NEW k \in DOMAIN subapps[stack[i].app],
           subapps[stack[i].app][k] = stack[n].app
    PROVE  k = stack[i].index /\ stack[i].at = "subapp"
  <1> DEFINE p == stack[i].app
             s == stack[n].app
  <1>1. i \in DOMAIN stack /\ stack[i] \in Call /\ stack[n] \in Call
    BY DEF TypeOK
  <1>2. p \in Apps /\ s \in Apps /\ Child(p, s)
    BY <1>1 DEF Call, Child
  <1>3. PICK j \in 1..n - 1 : stack[j].app = p /\ Engages(stack[j], s)
    BY <1>2 DEF ShapeInv, OwnerInv
  <1>4. j \in DOMAIN stack
    BY <1>3 DEF TypeOK
  <1>5. j = i
    <2>1. i < j => PairOK(stack[i], stack[j])
      BY <1>1, <1>3, <1>4, SameApp
    <2>2. j < i => PairOK(stack[j], stack[i])
      BY <1>1, <1>3, <1>4, SameApp
    <2>3. i \in Int /\ j \in Int
      BY <1>1, <1>4 DEF TypeOK
    <2> QED
      BY <1>3, <2>1, <2>2, <2>3 DEF PairOK, Engages
  <1>6. stack[i].at = "subapp" /\ stack[i].index \in DOMAIN subapps[p]
        /\ subapps[p][stack[i].index] = s
    BY <1>3, <1>5 DEF Engages
  <1> QED
    BY <1>2, <1>6 DEF OwnedOnce

\* What the waiting calls rely on stays true.
LEMMA SteadyBelow ==
    ASSUME TypeOK, DrainInv, ShapeInv, OwnedOnce, stack # <<>>,
           NEW a \in Apps, a = Top.app, Local(a),
           NEW i \in 1..Len(stack) - 1, NEW c \in Call, c = stack[i], Steady(c)
    PROVE  Steady(c)'
  <1> DEFINE n == Len(stack)
  <1>1. /\ n \in Nat \ {0} /\ i \in DOMAIN stack /\ n \in DOMAIN stack /\ i < n
        /\ Top = stack[n] /\ c.app \in Apps
    <2>1. n \in Nat \ {0} /\ stack \in Seq(Call) /\ Top = stack[n]
      BY StackParts DEF TypeOK, Top
    <2>2. c.app \in Apps
      BY CallFields
    <2> QED
      BY <2>1, <2>2
  <1> HIDE DEF n
  <1>2. c.op # "drain"
    BY <1>1 DEF DrainInv, n
  <1>3. c.app = a => PairOK(c, Top)
    BY <1>1, SameApp
  <1>4. c.app # a => /\ state'[c.app] = state[c.app] /\ plugins'[c.app] = plugins[c.app]
                     /\ pending'[c.app] = pending[c.app]
    BY <1>1 DEF Local
  <1>5. subapps' = subapps
    BY DEF Local
  <1>6. SteadyPost(c)'
    BY <1>3, <1>4 DEF Steady, SteadyPost, PairOK, Posted
  <1>7. SteadyPrepare(c)'
    <2> SUFFICES ASSUME c.op = "prepare" PROVE SteadyPrepare(c)'
      BY DEF SteadyPrepare
    <2>1. CASE c.app = a
      <3>1. c.at \in {"drain", "post", "failed"} /\ (c.at = "post" => Top.op = "post")
        BY <1>3, <2>1 DEF PairOK
      <3>2. c.at = "post" => pending'[c.app] = <<>>
        BY <2>1, <3>1 DEF Local, Steady, SteadyPrepare
      <3> QED
        BY <3>1, <3>2 DEF Steady, SteadyPrepare
    <2>2. CASE c.app # a /\ c.at \in {"subapps", "subapp"}
      <3>1. /\ c.index > 0 /\ pending'[c.app] = <<>>
            /\ state'[c.app] = "Created" /\ Posted(c.app)'
        BY <1>4, <2>2 DEF Steady, SteadyPrepare, Posted
      <3>2. ASSUME NEW k \in DOMAIN subapps[c.app], k # c.index
            PROVE  state'[subapps[c.app][k]] = state[subapps[c.app][k]]
                   \/ (state[subapps[c.app][k]] \notin Ended
                         /\ state'[subapps[c.app][k]] # "Shutdown")
        <4>1. subapps[c.app][k] \in Apps
          BY <1>1 DEF TypeOK
        <4>2. subapps[c.app][k] = a => Top.op # "teardown"
          BY <1>1, <2>2, <3>2, EngagedOnce
        <4> QED
          BY <4>1, <4>2 DEF Local
      <3>3. \A k \in DOMAIN subapps[c.app] :
              /\ k < c.index => state[subapps[c.app][k]] = "Running"
              /\ k > c.index => state[subapps[c.app][k]] # "Shutdown"
        BY <2>2 DEF Steady, SteadyPrepare
      <3>4. c.index \in Int /\ DOMAIN subapps[c.app] \subseteq Int
        BY <1>1 DEF TypeOK, Call
      <3>5. \A k \in DOMAIN subapps[c.app] :
              /\ k < c.index => state'[subapps[c.app][k]] = "Running"
              /\ k > c.index => state'[subapps[c.app][k]] # "Shutdown"
        BY <3>2, <3>3, <3>4 DEF Ended
      <3> QED
        BY <1>5, <2>2, <3>1, <3>5 DEF SteadyPrepare
    <2>3. CASE c.app # a /\ c.at \notin {"subapps", "subapp"}
      BY <1>4, <2>3 DEF Steady, SteadyPrepare
    <2> QED
      BY <2>1, <2>2, <2>3
  <1>8. SteadyTeardown(c)'
    <2>1. \A s \in Apps : state[s] = "Shutdown" => state'[s] = "Shutdown"
      BY DEF Local, Ended
    <2>2. \A k \in DOMAIN subapps[c.app] : subapps[c.app][k] \in Apps
      BY <1>1 DEF TypeOK
    <2> QED
      BY <1>3, <1>4, <1>5, <2>1, <2>2 DEF Steady, SteadyTeardown, PairOK
  <1> QED
    BY <1>2, <1>6, <1>7, <1>8 DEF Steady, SteadyDrain

\* The states of parents and subapps fit after a step.
LEMMA TreeStep ==
    ASSUME TypeOK, ShapeInv, CallInv, TreeInv, stack # <<>>,
           NEW a \in Apps, a = Top.app, Local(a),
           stack' \in Seq(Call), Len(stack') \in Nat, Len(stack') >= Len(stack) - 1,
           \A i \in 1..Len(stack) - 1 : stack'[i] = stack[i],
           Bringing(Top) => Engaged(a)' \/ state'[a] \in Ended,
           state'[a] \in Ended /\ state[a] \notin Ended => Top.op \in {"prepare", "teardown"},
           Top.op = "teardown" => Tearing(a)' \/ state'[a] # "Running",
           state'[a] = "Running" /\ state[a] # "Running" =>
             \A s \in Apps : Child(a, s) => state[s] = "Running",
           state'[a] = "Shutdown" /\ state[a] # "Shutdown" =>
             \A s \in Apps : Child(a, s) => state[s] = "Shutdown"
    PROVE  TreeInv'
  <1> DEFINE n == Len(stack)
  <1>1. /\ n \in Nat \ {0} /\ DOMAIN stack = 1..n /\ Top = stack[n]
        /\ DOMAIN stack' = 1..Len(stack') /\ 1..n - 1 \subseteq DOMAIN stack'
        /\ 1..n - 1 \subseteq 1..n /\ n \in 1..n
    <2>1. n \in Nat \ {0} /\ DOMAIN stack = 1..n /\ Top = stack[n]
      BY StackParts DEF TypeOK, Top
    <2> QED
      BY <2>1
  <1>2. \A i \in 1..n - 1 : stack'[i] = stack[i]
    OBVIOUS
  <1> HIDE DEF n
  <1>3. OwnedOnce'
    BY DEF Local, TreeInv, OwnedOnce
  <1> SUFFICES ASSUME NEW p \in Apps, NEW s \in Apps, Child(p, s)' PROVE Fits(p, s)'
    BY <1>3 DEF TreeInv
  <1>4. Child(p, s) /\ p # s /\ Fits(p, s)
    <2>1. Child(p, s)
      BY DEF Local, Child
    <2> QED
      BY <2>1, NotOwnChild DEF TreeInv
  <1>5. p # a => state'[p] = state[p] /\ (Engaged(p) => Engaged(p)') /\ (Tearing(p) => Tearing(p)')
    <2>1. ASSUME p # a, NEW k \in DOMAIN stack, stack[k].app = p
          PROVE  k \in DOMAIN stack' /\ stack'[k] = stack[k]
      <3>1. k # n
        BY <1>1, <2>1
      <3>2. k \in 1..n - 1
        BY <1>1, <3>1
      <3> QED
        BY <1>1, <1>2, <3>2
    <2>2. p # a => (Engaged(p) => Engaged(p)') /\ (Tearing(p) => Tearing(p)')
      BY <2>1 DEF Engaged, Tearing
    <2> QED
      BY <2>2 DEF Local
  <1>6. p = a => /\ Engaged(p) => Engaged(p)' \/ state'[p] \in Ended
                 /\ Tearing(p) => Tearing(p)' \/ state'[p] # "Running"
    <2> SUFFICES ASSUME p = a
                 PROVE  /\ Engaged(p) => Engaged(p)' \/ state'[p] \in Ended
                        /\ Tearing(p) => Tearing(p)' \/ state'[p] # "Running"
      OBVIOUS
    <2>1. \A k \in DOMAIN stack : k = n \/ (k \in DOMAIN stack' /\ stack'[k] = stack[k])
      BY <1>1, <1>2
    <2>2. Engaged(p) => Bringing(Top) \/ Engaged(p)'
      BY <1>1, <2>1 DEF Engaged
    <2>3. Tearing(p) => Top.op = "teardown" \/ Tearing(p)'
      BY <1>1, <2>1 DEF Tearing
    <2> QED
      BY <2>2, <2>3
  <1>7. s # a => state'[s] = state[s]
    BY DEF Local
  <1>8. s = a /\ Top.op \in {"prepare", "teardown"} =>
          Engaged(p)' /\ (Tearing(p)' \/ state[p] # "Running")
    <2> SUFFICES ASSUME s = a, Top.op \in {"prepare", "teardown"}
                 PROVE  Engaged(p)' /\ (Tearing(p)' \/ state[p] # "Running")
      OBVIOUS
    <2>1. PICK j \in 1..n - 1 : stack[j].app = p /\ Engages(stack[j], a)
      BY <1>1, <1>4 DEF ShapeInv, OwnerInv
    <2>2. j \in DOMAIN stack /\ j \in DOMAIN stack' /\ stack'[j] = stack[j]
      BY <1>1, <1>2, <2>1
    <2>3. Engaged(p)'
      BY <2>1, <2>2 DEF Engaged, Engages, Bringing
    <2>4. Steady(stack[j])
      BY <2>2 DEF CallInv
    <2>5. Tearing(p)' \/ state[p] = "Created"
      BY <2>1, <2>2, <2>4 DEF Tearing, Engages, Steady, SteadyPrepare
    <2> QED
      BY <2>3, <2>5
  <1>9. state[a] \in Ended => state'[a] \in Ended
    BY DEF Local, Ended
  <1>10. state'[s] \in Ended => state'[p] \in Ended \/ Engaged(p)'
    <2>1. CASE p = a
      BY <1>4, <1>6, <1>7, <1>9, <2>1 DEF Fits
    <2>2. CASE p # a
      BY <1>4, <1>5, <1>7, <1>8, <2>2 DEF Fits
    <2> QED
      BY <2>1, <2>2
  <1>11. state'[p] = "Running" => state'[s] = "Running" \/ Tearing(p)'
    <2>1. CASE p = a /\ state[p] = "Running"
      BY <1>4, <1>6, <1>7, <2>1 DEF Fits
    <2>2. CASE p = a /\ state[p] # "Running"
      BY <1>4, <1>7, <2>2
    <2>3. CASE p # a
      <3>1. s = a /\ state[s] = "Running" => state'[s] = "Running" \/ Top.op = "teardown"
        BY DEF Local, Ended
      <3> QED
        BY <1>4, <1>5, <1>7, <1>8, <2>3, <3>1 DEF Fits
    <2> QED
      BY <2>1, <2>2, <2>3
  <1>12. state'[p] = "Shutdown" => state'[s] = "Shutdown"
    <2>1. CASE p = a
      BY <1>4, <1>7, <2>1 DEF Fits
    <2>2. CASE p # a
      <3>1. state[a] = "Shutdown" => state'[a] = "Shutdown"
        BY DEF Local, Ended
      <3> QED
        BY <1>4, <1>5, <1>7, <2>2, <3>1 DEF Fits
    <2> QED
      BY <2>1, <2>2
  <1> QED
    BY <1>10, <1>11, <1>12 DEF Fits

\* The other apps' plugins are as they were.
LEMMA PluginStep ==
    ASSUME PluginInv, stack # <<>>, NEW a \in Apps, a = Top.app, Local(a),
           PluginOK(a)', stack' # <<>> => Fresh(Top.ready)'
    PROVE  PluginInv'
  <1> SUFFICES ASSUME NEW b \in Apps, b # a PROVE PluginOK(b)'
    BY DEF PluginInv
  <1>1. state'[b] = state[b] /\ plugins'[b] = plugins[b] /\ pending'[b] = pending[b]
    BY DEF Local
  <1>2. /\ state[b] = "Running" => pending[b] = <<>> /\ Posted(b)
        /\ state[b] = "Shutdown" => \A i \in DOMAIN plugins[b] : plugins[b][i].down
        /\ \A i \in DOMAIN plugins[b] : plugins[b][i].down => state[b] = "Shutdown"
        /\ Fresh(pending[b])
        /\ state[b] # "Building"
    BY DEF PluginInv, PluginOK
  <1> QED
    BY <1>1, <1>2 DEF PluginOK, Posted, Fresh

\* The innermost call goes on.
LEMMA LifeGoes ==
    ASSUME LifeInv, stack # <<>>, NEW a \in Apps, a = Top.app, Local(a),
           NEW f \in Call, f.op = Top.op, f.app = a, Goes(f),
           Steady(f)', Arrived(f)',
           Bringing(Top) => Bringing(f) \/ state'[a] \in Ended,
           state'[a] \in Ended => state'[a] = state[a],
           PluginOK(a)', Fresh(f.ready)
    PROVE  ShapeInv' /\ CallInv' /\ TreeInv' /\ PluginInv'
  <1> DEFINE n == Len(stack)
  <1> USE DEF LifeInv, OrderInv
  <1>1. /\ stack \in Seq(Call) /\ stack' \in Seq(Call) /\ stack' # <<>> /\ Top' = f
        /\ Len(stack') = n /\ n \in Nat \ {0}
        /\ \A i \in 1..n - 1 : stack'[i] = stack[i]
        /\ stack'[n] = f
    BY GoesParts DEF TypeOK
  <1>2. DOMAIN stack' = 1..n /\ n \in DOMAIN stack' /\ n - 1 <= n
    BY <1>1
  <1>3. ShapeInv'
    BY ShapeGoes DEF Local
  <1>4. \A k \in DOMAIN stack' : Steady(stack[k])'
    <2> SUFFICES ASSUME NEW k \in DOMAIN stack' PROVE Steady(stack[k])'
      OBVIOUS
    <2>1. CASE k = n
      BY <1>1, <2>1 DEF Steady, SteadyDrain, SteadyPost, SteadyPrepare, SteadyTeardown, Posted
    <2>2. CASE k # n
      <3>1. k \in 1..n - 1 /\ k \in DOMAIN stack
        BY <1>1, <1>2, <2>2
      <3>2. PICK c \in Call : c = stack[k]
        BY <1>1, <3>1
      <3>3. Steady(c)
        BY <3>1, <3>2 DEF CallInv
      <3>4. Steady(c)'
        BY <3>1, <3>2, <3>3, SteadyBelow DEF TreeInv
      <3>5. stack'[k] = c
        BY <1>1, <3>1, <3>2
      <3> QED
        BY <3>4, <3>5 DEF Steady, SteadyDrain, SteadyPost, SteadyPrepare, SteadyTeardown, Posted
    <2> QED
      BY <2>1, <2>2
  <1>5. Arrived(Top)'
    BY <1>1 DEF Arrived, Posted
  <1>6. CallInv'
    BY <1>4, <1>5 DEF CallInv
  <1>7. Bringing(Top) => Engaged(a)' \/ state'[a] \in Ended
    BY <1>1, <1>2 DEF Engaged
  <1>8. Top.op = "teardown" => Tearing(a)'
    BY <1>1, <1>2 DEF Tearing
  <1>9. TreeInv'
    BY <1>1, <1>2, <1>7, <1>8, TreeStep DEF Ended
  <1>10. PluginInv'
    BY <1>1, PluginStep DEF Fresh
  <1> QED
    BY <1>3, <1>6, <1>9, <1>10

\* The innermost call makes another one.
LEMMA LifeCalls ==
    ASSUME LifeInv, stack # <<>>, NEW a \in Apps, a = Top.app,
           UNCHANGED <<state, plugins, pending, subapps>>,
           NEW f \in Call, f.op = Top.op, f.app = a,
           NEW d \in Call, d.op # "run", Link(f, d), Calls(f, d),
           Steady(f)', Steady(d)', Arrived(d)',
           Bringing(Top) => Bringing(f),
           PluginOK(a)', d.ready = <<>>
    PROVE  ShapeInv' /\ CallInv' /\ TreeInv' /\ PluginInv'
  <1> DEFINE n == Len(stack)
  <1> USE DEF LifeInv, OrderInv
  <1>1. /\ stack \in Seq(Call) /\ stack' \in Seq(Call) /\ stack' # <<>> /\ Top' = d
        /\ Len(stack') = n + 1 /\ n \in Nat \ {0}
        /\ \A i \in 1..n - 1 : stack'[i] = stack[i]
        /\ stack'[n] = f /\ stack'[n + 1] = d
    BY CallsParts DEF TypeOK
  <1>2. /\ DOMAIN stack' = 1..n + 1 /\ n \in DOMAIN stack' /\ n - 1 <= n + 1
        /\ n + 1 \in Nat
    BY <1>1
  <1>3. Local(a)
    BY DEF Local
  <1>4. ShapeInv'
    BY ShapeCalls DEF TreeInv
  <1>5. \A k \in DOMAIN stack' : Steady(stack[k])'
    <2> SUFFICES ASSUME NEW k \in DOMAIN stack' PROVE Steady(stack[k])'
      OBVIOUS
    <2>1. CASE k \in {n, n + 1}
      <3>1. PICK c \in Call : stack'[k] = c /\ Steady(c)'
        BY <1>1, <2>1
      <3> QED
        BY <3>1 DEF Steady, SteadyDrain, SteadyPost, SteadyPrepare, SteadyTeardown, Posted
    <2>2. CASE k \notin {n, n + 1}
      <3>1. k \in 1..n - 1 /\ k \in DOMAIN stack
        BY <1>1, <1>2, <2>2
      <3>2. PICK c \in Call : c = stack[k]
        BY <1>1, <3>1
      <3>3. Steady(c)
        BY <3>1, <3>2 DEF CallInv
      <3>4. Steady(c)'
        BY <1>3, <3>1, <3>2, <3>3, SteadyBelow DEF TreeInv
      <3>5. stack'[k] = c
        BY <1>1, <3>1, <3>2
      <3> QED
        BY <3>4, <3>5 DEF Steady, SteadyDrain, SteadyPost, SteadyPrepare, SteadyTeardown, Posted
    <2> QED
      BY <2>1, <2>2
  <1>6. Arrived(Top)'
    BY <1>1 DEF Arrived, Posted
  <1>7. CallInv'
    BY <1>5, <1>6 DEF CallInv
  <1>8. Bringing(Top) => Engaged(a)'
    BY <1>1, <1>2 DEF Engaged
  <1>9. Top.op = "teardown" => Tearing(a)'
    BY <1>1, <1>2 DEF Tearing
  <1>10. TreeInv'
    BY <1>1, <1>2, <1>3, <1>8, <1>9, TreeStep
  <1>11. PluginInv'
    BY <1>1, <1>3, PluginStep DEF Fresh
  <1> QED
    BY <1>4, <1>7, <1>10, <1>11

\* The innermost call returns to the call c.
LEMMA LifeReturns ==
    ASSUME LifeInv, stack # <<>>, NEW a \in Apps, a = Top.app, Local(a),
           NEW ok \in BOOLEAN, Returns(ok),
           \A c \in Call : Link(c, Top) /\ Steady(c)' => Arrived(c)',
           Bringing(Top) => state'[a] \in Ended,
           Top.op = "teardown" => state'[a] = "Shutdown",
           state'[a] \in Ended /\ state[a] \notin Ended => Top.op \in {"prepare", "teardown"},
           state'[a] = "Running" /\ state[a] # "Running" =>
             \A s \in Apps : Child(a, s) => state[s] = "Running",
           state'[a] = "Shutdown" /\ state[a] # "Shutdown" =>
             \A s \in Apps : Child(a, s) => state[s] = "Shutdown",
           PluginOK(a)'
    PROVE  ShapeInv' /\ CallInv' /\ TreeInv' /\ PluginInv'
  <1> DEFINE n == Len(stack)
  <1> USE DEF LifeInv, OrderInv
  <1>1. /\ stack \in Seq(Call) /\ stack' \in Seq(Call)
        /\ Len(stack') = n - 1 /\ n \in Nat \ {0}
        /\ \A i \in 1..n - 1 : stack'[i] = stack[i]
        /\ Top = stack[n]
        /\ stack' # <<>> => n > 1 /\ Top' = stack[n - 1]
    BY ReturnsParts DEF TypeOK
  <1>2. DOMAIN stack' = 1..n - 1 /\ n - 1 \in Nat /\ DOMAIN stack = 1..n
    BY <1>1
  <1>3. ShapeInv'
    BY ShapeReturns DEF Local
  <1>4. \A k \in 1..n - 1 : \E c \in Call : c = stack[k] /\ stack'[k] = c /\ Steady(c)'
    <2> SUFFICES ASSUME NEW k \in 1..n - 1
                 PROVE  \E c \in Call : c = stack[k] /\ stack'[k] = c /\ Steady(c)'
      OBVIOUS
    <2>1. k \in DOMAIN stack
      BY <1>1, <1>2
    <2>2. PICK c \in Call : c = stack[k]
      BY <1>1, <2>1
    <2>3. Steady(c)
      BY <2>1, <2>2 DEF CallInv
    <2>4. Steady(c)'
      BY <2>2, <2>3, SteadyBelow DEF TreeInv
    <2> QED
      BY <1>1, <2>2, <2>4
  <1>5. \A k \in DOMAIN stack' : Steady(stack[k])'
    <2> SUFFICES ASSUME NEW k \in DOMAIN stack' PROVE Steady(stack[k])'
      OBVIOUS
    <2>1. PICK c \in Call : stack'[k] = c /\ Steady(c)'
      BY <1>2, <1>4
    <2> QED
      BY <2>1 DEF Steady, SteadyDrain, SteadyPost, SteadyPrepare, SteadyTeardown, Posted
  <1>6. stack' # <<>> => Arrived(Top)'
    <2> SUFFICES ASSUME stack' # <<>> PROVE Arrived(Top)'
      OBVIOUS
    <2>1. n - 1 \in 1..n - 1 /\ Top' = stack[n - 1]
      BY <1>1
    <2>2. PICK c \in Call : c = stack[n - 1] /\ Steady(c)'
      BY <1>4, <2>1
    <2>3. Link(stack[n - 1], stack[n - 1 + 1])
      BY <2>1 DEF ShapeInv, LinkInv
    <2>4. Link(c, Top)
      BY <1>1, <2>2, <2>3
    <2>5. Arrived(c)'
      BY <2>2, <2>4
    <2> QED
      BY <2>1, <2>2, <2>5 DEF Arrived, Posted
  <1>7. CallInv'
    BY <1>5, <1>6 DEF CallInv
  <1>8. /\ Len(stack') \in Nat /\ Len(stack') >= n - 1
        /\ Bringing(Top) => Engaged(a)' \/ state'[a] \in Ended
        /\ Top.op = "teardown" => Tearing(a)' \/ state'[a] # "Running"
    BY <1>1, <1>2
  <1>9. TreeInv'
    BY <1>1, <1>8, TreeStep
  <1>10. PluginInv'
    <2>1. \A i \in 1..n - 1 : i \in DOMAIN stack /\ i # n
      BY <1>1, <1>2
    <2>2. \A i \in 1..n - 1 : stack[i].ready = <<>>
      BY <2>1 DEF DrainInv
    <2>3. stack' # <<>> => Fresh(Top.ready)'
      BY <1>1, <2>2 DEF Fresh
    <2> QED
      BY <2>3, PluginStep
  <1> QED
    BY <1>3, <1>7, <1>9, <1>10

-----------------------------------------------------------------------------
(* The steps of the calls                                                   *)

LEMMA TopFacts ==
    ASSUME LifeInv, stack # <<>>
    PROVE  /\ TypeOK /\ Top \in Call /\ Top.app \in Apps /\ Top.index \in Nat
           /\ Steady(Top) /\ Arrived(Top) /\ PluginOK(Top.app) /\ Fresh(Top.ready)
           /\ plugins[Top.app] \in Seq(Entry) /\ pending[Top.app] \in Seq(Entry)
           /\ subapps[Top.app] \in Seq(Apps)
  <1>1. TypeOK /\ Top \in Call /\ Len(stack) \in DOMAIN stack /\ Top = stack[Len(stack)]
    BY StackParts DEF LifeInv, OrderInv, TypeOK, Top
  <1>2. Top.app \in Apps /\ Top.index \in Nat
    BY <1>1, CallFields
  <1>3. Steady(Top)
    BY <1>1 DEF LifeInv, CallInv
  <1>4. Arrived(Top) /\ PluginOK(Top.app) /\ Fresh(Top.ready)
    BY <1>2 DEF LifeInv, CallInv, PluginInv
  <1>5. /\ plugins[Top.app] \in Seq(Entry) /\ pending[Top.app] \in Seq(Entry)
        /\ subapps[Top.app] \in Seq(Apps)
    BY <1>1, <1>2 DEF TypeOK
  <1> QED
    BY <1>1, <1>2, <1>3, <1>4, <1>5

\* A step that leaves the app and its plugins alone.
LEMMA PluginCalm ==
    ASSUME LifeInv, stack # <<>>, NEW a \in Apps, a = Top.app,
           Top.op # "drain", ~At("teardown", "plugins"),
           UNCHANGED <<state, plugins, pending>>
    PROVE  PluginOK(a)'
  <1>1. PluginOK(a)
    BY DEF LifeInv, PluginInv
  <1>2. /\ state[a] = "Running" => pending[a] = <<>> /\ Posted(a)
        /\ state[a] = "Shutdown" => \A i \in DOMAIN plugins[a] : plugins[a][i].down
        /\ \A i \in DOMAIN plugins[a] : plugins[a][i].down => state[a] = "Shutdown"
        /\ Fresh(pending[a]) /\ state[a] # "Building"
    BY <1>1 DEF PluginOK
  <1> QED
    BY <1>2 DEF PluginOK, Posted, Fresh

\* post_build and prepare before it begin with no subapp brought up or down.
LEMMA NotEngaged ==
    ASSUME LifeInv, stack # <<>>, Top.op \in {"post", "prepare"}, ~Bringing(Top)
    PROVE  ~Engaged(Top.app)
  <1> SUFFICES ASSUME NEW k \in DOMAIN stack, stack[k].app = Top.app, Bringing(stack[k])
               PROVE  FALSE
    BY DEF Engaged
  <1>1. /\ TypeOK /\ Len(stack) \in DOMAIN stack /\ DOMAIN stack = 1..Len(stack)
        /\ Top = stack[Len(stack)]
    BY StackParts DEF LifeInv, OrderInv, TypeOK, Top
  <1>2. k # Len(stack) /\ k < Len(stack)
    BY <1>1
  <1>3. PairOK(stack[k], Top)
    BY <1>1, <1>2, SameApp DEF LifeInv
  <1> QED
    BY <1>3 DEF PairOK, Bringing

LEMMA SubappsOpen ==
    ASSUME LifeInv, NEW a \in Apps, state[a] \notin Ended, ~Engaged(a),
           NEW i \in DOMAIN subapps[a]
    PROVE  subapps[a][i] \in Apps /\ state[subapps[a][i]] \notin Ended
  <1>1. subapps[a][i] \in Apps
    BY DEF LifeInv, OrderInv, TypeOK
  <1>2. Child(a, subapps[a][i])
    BY DEF Child
  <1> QED
    BY <1>1, <1>2 DEF LifeInv, TreeInv, Fits

\* Only a teardown returns where the state of the app is looked at after a failure.
LEMMA ArrivedFailed ==
    ASSUME NEW c \in Call, Link(c, Top), Top.op # "teardown", result' = FALSE
    PROVE  Arrived(c)'
  BY DEF Link, PairOK, Arrived

LEMMA NewCallFields ==
    ASSUME NEW op \in {"drain", "post", "prepare", "teardown"}, NEW b \in Apps
    PROVE  LET d == NewCall(op, b)
           IN  /\ d \in Call /\ d.op = op /\ d.op # "run" /\ d.app = b /\ d.at = "start"
               /\ d.index = 1 /\ d.ready = <<>>
  BY NewCallType DEF NewCall

\* A new call finds what it relies on.
LEMMA NewCallSteady ==
    ASSUME NEW op \in {"drain", "post", "prepare", "teardown"}, NEW b \in Apps,
           op = "drain" => state'[b] = "Created",
           op = "post" => state'[b] \notin Ended
    PROVE  Steady(NewCall(op, b))' /\ Arrived(NewCall(op, b))'
  <1> DEFINE d == NewCall(op, b)
  <1>1. d.op = op /\ d.app = b /\ d.at = "start" /\ d.index = 1
    BY DEF NewCall
  <1> HIDE DEF d
  <1>2. Steady(d)' /\ Arrived(d)'
    BY <1>1 DEF Steady, SteadyDrain, SteadyPost, SteadyPrepare, SteadyTeardown, Arrived
  <1> QED
    BY <1>2 DEF d

\* The call c after it moved on.
LEMMA MovedAt ==
    ASSUME NEW c \in Call, NEW at \in Places
    PROVE  \E f \in Call :
             /\ f = [c EXCEPT !.at = at]
             /\ f.op = c.op /\ f.app = c.app /\ f.at = at /\ f.index = c.index
             /\ f.ready = c.ready
  <1>1. [c EXCEPT !.at = at] \in Call
    BY DEF Call
  <1> QED
    BY <1>1 DEF Call

LEMMA MovedIndex ==
    ASSUME NEW c \in Call, NEW n \in Nat
    PROVE  \E f \in Call :
             /\ f = [c EXCEPT !.index = n]
             /\ f.op = c.op /\ f.app = c.app /\ f.at = c.at /\ f.index = n
             /\ f.ready = c.ready
  <1>1. [c EXCEPT !.index = n] \in Call
    BY DEF Call
  <1> QED
    BY <1>1 DEF Call

LEMMA MovedBoth ==
    ASSUME NEW c \in Call, NEW at \in Places, NEW n \in Nat
    PROVE  \E f \in Call :
             /\ f = [c EXCEPT !.at = at, !.index = n]
             /\ f.op = c.op /\ f.app = c.app /\ f.at = at /\ f.index = n
             /\ f.ready = c.ready
  <1>1. [c EXCEPT !.at = at, !.index = n] \in Call
    BY DEF Call
  <1> QED
    BY <1>1 DEF Call

\* The innermost call goes on or returns, and no app or plugin changes.
LEMMA CalmGoes ==
    ASSUME LifeInv, stack # <<>>, Top.op # "drain", ~At("teardown", "plugins"),
           UNCHANGED <<state, plugins, pending, subapps>>,
           NEW f \in Call, f.op = Top.op, f.app = Top.app, f.ready = Top.ready, Goes(f),
           Steady(f)', Arrived(f)',
           Bringing(Top) => Bringing(f)
    PROVE  ShapeInv' /\ CallInv' /\ TreeInv' /\ PluginInv'
  <1>1. Top.app \in Apps /\ Fresh(f.ready)
    BY TopFacts DEF Fresh
  <1>2. PICK a \in Apps : a = Top.app
    BY <1>1
  <1>3. PluginOK(a)' /\ Local(a)
    BY <1>2, PluginCalm DEF Local
  <1> QED
    BY <1>1, <1>2, <1>3, LifeGoes

LEMMA CalmReturns ==
    ASSUME LifeInv, stack # <<>>, Top.op # "drain", ~At("teardown", "plugins"),
           UNCHANGED <<state, plugins, pending, subapps>>,
           NEW ok \in BOOLEAN, Returns(ok),
           \A c \in Call : Link(c, Top) /\ Steady(c)' => Arrived(c)',
           Bringing(Top) => state[Top.app] \in Ended,
           Top.op = "teardown" => state[Top.app] = "Shutdown"
    PROVE  ShapeInv' /\ CallInv' /\ TreeInv' /\ PluginInv'
  <1>1. PICK a \in Apps : a = Top.app
    BY TopFacts
  <1>2. PluginOK(a)' /\ Local(a)
    BY <1>1, PluginCalm DEF Local
  <1> QED
    BY <1>1, <1>2, LifeReturns

LEMMA CalmFails ==
    ASSUME LifeInv, stack # <<>>, Top.op \notin {"drain", "teardown"},
           UNCHANGED <<state, plugins, pending, subapps>>, Returns(FALSE),
           Bringing(Top) => state[Top.app] \in Ended
    PROVE  ShapeInv' /\ CallInv' /\ TreeInv' /\ PluginInv'
  <1>1. ~At("teardown", "plugins")
    BY DEF At
  <1>2. \A c \in Call : Link(c, Top) => Arrived(c)'
    BY ArrivedFailed DEF Returns
  <1> QED
    BY <1>1, <1>2, CalmReturns

LEMMA CalmCalls ==
    ASSUME LifeInv, stack # <<>>, Top.op # "drain", ~At("teardown", "plugins"),
           UNCHANGED <<state, plugins, pending, subapps>>,
           NEW f \in Call, f.op = Top.op, f.app = Top.app,
           NEW op \in {"drain", "post", "prepare", "teardown"}, NEW b \in Apps,
           Link(f, NewCall(op, b)), Calls(f, NewCall(op, b)),
           Steady(f)', Bringing(Top) => Bringing(f),
           op = "drain" => state[b] = "Created",
           op = "post" => state[b] \notin Ended
    PROVE  ShapeInv' /\ CallInv' /\ TreeInv' /\ PluginInv'
  <1>1. PICK a \in Apps : a = Top.app
    BY TopFacts
  <1>2. PluginOK(a)'
    BY <1>1, PluginCalm
  <1> DEFINE d == NewCall(op, b)
  <1>3. d \in Call /\ d.op # "run" /\ d.ready = <<>>
    BY NewCallFields
  <1>4. Steady(d)' /\ Arrived(d)'
    BY NewCallSteady
  <1> HIDE DEF d
  <1>5. Link(f, d) /\ Calls(f, d)
    BY DEF d
  <1> QED
    BY <1>1, <1>2, <1>3, <1>4, <1>5, LifeCalls

LEMMA PlacesFacts ==
    /\ "drain" \in Places /\ "post" \in Places /\ "subapps" \in Places
    /\ "subapp" \in Places /\ "failed" \in Places /\ "runner" \in Places
    /\ "teardown" \in Places /\ "plugins" \in Places /\ "collect" \in Places
    /\ "loop" \in Places /\ "build" \in Places
  BY DEF Places

LEMMA LifePostSubapps ==
    ASSUME LifeInv, PostSubapps
    PROVE  ShapeInv' /\ CallInv' /\ TreeInv' /\ PluginInv'
  <1> DEFINE a == Top.app
  <1>1. /\ stack # <<>> /\ Top.op = "post" /\ Top.at \in {"plugins", "subapps", "subapp"}
        /\ ~At("teardown", "plugins") /\ ~Bringing(Top)
        /\ UNCHANGED <<state, plugins, pending, subapps>>
    BY DEF PostSubapps, At, Bringing
  <1>2. /\ Top \in Call /\ a \in Apps /\ Top.index \in Nat /\ Steady(Top) /\ Arrived(Top)
        /\ plugins[a] \in Seq(Entry) /\ subapps[a] \in Seq(Apps)
    BY <1>1, TopFacts
  <1>3. Top.index > 0 /\ state[a] = "PostBuilding"
    BY <1>1, <1>2 DEF Steady, SteadyPost
  <1>4. 1 \in Nat /\ Top.index + 1 \in Nat /\ Top.index + 1 > 0
    BY <1>2, <1>3
  <1>5. ASSUME NEW f \in Call, f.op = "post", f.app = a, f.index > 0,
               f.at \in {"subapps", "subapp"}, Posted(a)
        PROVE  Steady(f)' /\ Arrived(f)'
    BY <1>1, <1>3, <1>5 DEF Steady, SteadyDrain, SteadyPost, SteadyPrepare, SteadyTeardown,
       Arrived, Posted
  <1>6. CASE At("post", "plugins") /\ Top.index \notin DOMAIN plugins[a]
             /\ Goes([Top EXCEPT !.at = "subapps", !.index = 1])
    <2>1. PICK f \in Call : /\ f = [Top EXCEPT !.at = "subapps", !.index = 1]
                            /\ f.op = Top.op /\ f.app = a /\ f.at = "subapps" /\ f.index = 1
                            /\ f.ready = Top.ready
      <3>1. [Top EXCEPT !.at = "subapps", !.index = 1] \in Call
        BY <1>2, <1>4, PlacesFacts DEF Call
      <3> QED
        BY <1>2, <1>4, <3>1 DEF Call
    <2>2. Posted(a)
      <3>1. \A i \in DOMAIN plugins[a] : i < Top.index
        BY <1>2, <1>3, <1>6
      <3> QED
        BY <1>2, <1>6, <3>1, Zenon DEF Steady, SteadyPost, Posted, At
    <2>3. Steady(f)' /\ Arrived(f)' /\ Goes(f)
      <3>1. Goes(f)
        BY <1>6, <2>1
      <3>2. f.op = "post" /\ f.index > 0
        BY <1>1, <2>1
      <3> QED
        BY <1>5, <2>1, <2>2, <3>1, <3>2
    <2> QED
      BY <1>1, <2>1, <2>3, CalmGoes
  <1>7. CASE At("post", "subapps") /\ Top.index \in DOMAIN subapps[a]
             /\ Calls([Top EXCEPT !.at = "subapp"], NewCall("post", subapps[a][Top.index]))
    <2>1. PICK f \in Call : /\ f = [Top EXCEPT !.at = "subapp"]
                            /\ f.op = Top.op /\ f.app = a /\ f.at = "subapp"
                            /\ f.index = Top.index
      BY <1>2, MovedAt, PlacesFacts
    <2>2. Posted(a)
      BY <1>1, <1>2, <1>7 DEF Steady, SteadyPost, At
    <2>3. PICK b \in Apps : b = subapps[a][Top.index] /\ state[b] \notin Ended
      BY <1>1, <1>2, <1>3, <1>7, NotEngaged, SubappsOpen DEF Ended
    <2>4. Link(f, NewCall("post", b))
      BY <1>1, <1>7, <2>1, <2>3, NewCallFields DEF Link
    <2> QED
      BY <1>1, <1>3, <1>5, <1>7, <2>1, <2>2, <2>3, <2>4, CalmCalls
  <1>8. CASE At("post", "subapp") /\ result
             /\ Goes([Top EXCEPT !.at = "subapps", !.index = Top.index + 1])
    <2>1. PICK f \in Call : /\ f = [Top EXCEPT !.at = "subapps", !.index = Top.index + 1]
                            /\ f.op = Top.op /\ f.app = a /\ f.at = "subapps"
                            /\ f.index = Top.index + 1 /\ f.ready = Top.ready
      <3>1. [Top EXCEPT !.at = "subapps", !.index = Top.index + 1] \in Call
        BY <1>2, <1>4, PlacesFacts DEF Call
      <3> QED
        BY <1>2, <1>4, <3>1 DEF Call
    <2>2. Posted(a)
      BY <1>1, <1>2, <1>8 DEF Steady, SteadyPost, At
    <2> QED
      BY <1>1, <1>4, <1>5, <1>8, <2>1, <2>2, CalmGoes
  <1>9. CASE Returns(FALSE)
    BY <1>1, <1>9, CalmFails
  <1> QED
    BY <1>2, <1>6, <1>7, <1>8, <1>9 DEF PostSubapps

LEMMA LifePrepareStart ==
    ASSUME LifeInv, PrepareStart
    PROVE  ShapeInv' /\ CallInv' /\ TreeInv' /\ PluginInv'
  <1> DEFINE a == Top.app
  <1>1. /\ stack # <<>> /\ Top.op = "prepare" /\ Top.at = "start"
        /\ ~At("teardown", "plugins") /\ ~Bringing(Top)
        /\ UNCHANGED <<state, plugins, pending, subapps>>
    BY DEF PrepareStart, At, Bringing
  <1>2. Top \in Call /\ a \in Apps /\ Steady(Top)
    BY <1>1, TopFacts
  <1>3. CASE state[a] = "Created"
    <2>1. PICK f \in Call : /\ f = [Top EXCEPT !.at = "drain"]
                            /\ f.op = Top.op /\ f.app = a /\ f.at = "drain"
                            /\ f.index = Top.index
      BY <1>2, MovedAt, PlacesFacts
    <2>2. Calls(f, NewCall("drain", a))
      BY <1>3, <2>1 DEF PrepareStart
    <2>3. Link(f, NewCall("drain", a))
      BY <1>1, <1>2, <2>1, NewCallFields DEF Link, PairOK
    <2>4. Steady(f)'
      BY <1>1, <1>2, <2>1 DEF Steady, SteadyDrain, SteadyPost, SteadyPrepare, SteadyTeardown
    <2> QED
      BY <1>1, <1>2, <1>3, <2>1, <2>2, <2>3, <2>4, CalmCalls
  <1>4. CASE state[a] # "Created"
    BY <1>1, <1>4, CalmFails DEF PrepareStart
  <1> QED
    BY <1>3, <1>4

LEMMA LifePrepareDrained ==
    ASSUME LifeInv, PrepareDrained
    PROVE  ShapeInv' /\ CallInv' /\ TreeInv' /\ PluginInv'
  <1> DEFINE a == Top.app
  <1>1. /\ stack # <<>> /\ Top.op = "prepare" /\ Top.at = "drain"
        /\ ~At("teardown", "plugins") /\ ~Bringing(Top)
        /\ UNCHANGED <<state, plugins, pending, subapps>>
    BY DEF PrepareDrained, At, Bringing
  <1>2. Top \in Call /\ a \in Apps /\ Steady(Top) /\ Arrived(Top)
    BY <1>1, TopFacts
  <1>3. CASE result
    <2>1. PICK f \in Call : /\ f = [Top EXCEPT !.at = "post"]
                            /\ f.op = Top.op /\ f.app = a /\ f.at = "post"
                            /\ f.index = Top.index
      BY <1>2, MovedAt, PlacesFacts
    <2>2. Calls(f, NewCall("post", a))
      BY <1>3, <2>1 DEF PrepareDrained
    <2>3. Link(f, NewCall("post", a))
      BY <1>1, <1>2, <2>1, NewCallFields DEF Link, PairOK
    <2>4. state[a] = "Created" /\ pending[a] = <<>>
      BY <1>1, <1>2, <1>3 DEF Arrived
    <2>5. Steady(f)'
      BY <1>1, <1>2, <2>1, <2>4 DEF Steady, SteadyDrain, SteadyPost, SteadyPrepare, SteadyTeardown
    <2> QED
      BY <1>1, <1>2, <2>1, <2>2, <2>3, <2>4, <2>5, CalmCalls DEF Ended
  <1>4. CASE ~result
    BY <1>1, <1>4, CalmFails DEF PrepareDrained
  <1> QED
    BY <1>3, <1>4

LEMMA LifePreparePosted ==
    ASSUME LifeInv, PreparePosted
    PROVE  ShapeInv' /\ CallInv' /\ TreeInv' /\ PluginInv'
  <1> DEFINE a == Top.app
  <1>1. /\ stack # <<>> /\ Top.op = "prepare" /\ Top.at = "post"
        /\ ~At("teardown", "plugins") /\ ~Bringing(Top)
        /\ UNCHANGED <<state, plugins, pending, subapps>>
    BY DEF PreparePosted, At, Bringing
  <1>2. /\ Top \in Call /\ a \in Apps /\ Steady(Top) /\ Arrived(Top)
        /\ subapps[a] \in Seq(Apps)
    BY <1>1, TopFacts
  <1>3. CASE result
    <2>1. PICK f \in Call : /\ f = [Top EXCEPT !.at = "subapps"]
                            /\ f.op = Top.op /\ f.app = a /\ f.at = "subapps"
                            /\ f.index = Top.index /\ f.ready = Top.ready
      BY <1>2, MovedAt, PlacesFacts
    <2>2. Goes(f)
      BY <1>3, <2>1 DEF PreparePosted
    <2>3. /\ state[a] = "Created" /\ Posted(a) /\ pending[a] = <<>> /\ Top.index = 1
      BY <1>1, <1>2, <1>3 DEF Arrived, Steady, SteadyPrepare
    <2>4. \A i \in DOMAIN subapps[a] : state[subapps[a][i]] # "Shutdown" /\ ~(i < 1)
      <3>1. \A i \in DOMAIN subapps[a] : ~(i < 1)
        BY <1>2
      <3> QED
        BY <1>1, <1>2, <2>3, <3>1, NotEngaged, SubappsOpen DEF Ended
    <2>5. Steady(f)' /\ Arrived(f)'
      BY <1>1, <1>2, <2>1, <2>3, <2>4 DEF Steady, SteadyDrain, SteadyPost, SteadyPrepare,
         SteadyTeardown, Arrived, Posted
    <2> QED
      BY <1>1, <2>1, <2>2, <2>5, CalmGoes
  <1>4. CASE ~result
    BY <1>1, <1>4, CalmFails DEF PreparePosted
  <1> QED
    BY <1>3, <1>4

LEMMA LifePrepareSubapps ==
    ASSUME LifeInv, PrepareSubapps
    PROVE  ShapeInv' /\ CallInv' /\ TreeInv' /\ PluginInv'
  <1> DEFINE a == Top.app
  <1>1. /\ stack # <<>> /\ Top.op = "prepare" /\ Top.at \in {"subapps", "subapp", "failed"}
        /\ ~At("teardown", "plugins")
        /\ UNCHANGED <<state, plugins, pending, subapps>>
    BY DEF PrepareSubapps, At
  <1>2. /\ Top \in Call /\ a \in Apps /\ Top.index \in Nat /\ Steady(Top) /\ Arrived(Top)
        /\ subapps[a] \in Seq(Apps)
    BY <1>1, TopFacts
  <1>3. Top.index > 0 /\ Top.index + 1 \in Nat /\ Top.index + 1 > 0
    BY <1>1, <1>2 DEF Steady, SteadyPrepare
  <1>4. Top.at # "failed" =>
          /\ pending[a] = <<>> /\ state[a] = "Created" /\ Posted(a)
          /\ \A i \in DOMAIN subapps[a] :
                /\ i < Top.index => state[subapps[a][i]] = "Running"
                /\ i > Top.index => state[subapps[a][i]] # "Shutdown"
    BY <1>1, <1>2 DEF Steady, SteadyPrepare
  <1>5. CASE At("prepare", "subapps") /\ Top.index \in DOMAIN subapps[a]
             /\ Calls([Top EXCEPT !.at = "subapp"], NewCall("prepare", subapps[a][Top.index]))
    <2>1. PICK f \in Call : /\ f = [Top EXCEPT !.at = "subapp"]
                            /\ f.op = Top.op /\ f.app = a /\ f.at = "subapp"
                            /\ f.index = Top.index
      BY <1>2, MovedAt, PlacesFacts
    <2>2. PICK b \in Apps : b = subapps[a][Top.index]
      BY <1>2, <1>5
    <2>3. Link(f, NewCall("prepare", b)) /\ Calls(f, NewCall("prepare", b))
      BY <1>1, <1>5, <2>1, <2>2, NewCallFields DEF Link
    <2>4. Steady(f)'
      <3>1. Top.at # "failed"
        BY <1>5 DEF At
      <3> QED
        BY <1>1, <1>3, <1>4, <2>1, <3>1 DEF Steady, SteadyDrain, SteadyPost, SteadyPrepare,
           SteadyTeardown, Posted
    <2>5. Bringing(f)
      BY <1>1, <2>1 DEF Bringing
    <2> QED
      BY <1>1, <2>1, <2>2, <2>3, <2>4, <2>5, CalmCalls
  <1>6. CASE At("prepare", "subapp") /\ result
             /\ Goes([Top EXCEPT !.at = "subapps", !.index = Top.index + 1])
    <2>1. PICK f \in Call : /\ f = [Top EXCEPT !.at = "subapps", !.index = Top.index + 1]
                            /\ f.op = Top.op /\ f.app = a /\ f.at = "subapps"
                            /\ f.index = Top.index + 1 /\ f.ready = Top.ready
      <3>1. [Top EXCEPT !.at = "subapps", !.index = Top.index + 1] \in Call
        BY <1>2, <1>3, PlacesFacts DEF Call
      <3> QED
        BY <1>2, <1>3, <3>1 DEF Call
    <2>2. \A i \in DOMAIN subapps[a] :
            /\ i < Top.index + 1 => state[subapps[a][i]] = "Running"
            /\ i > Top.index + 1 => state[subapps[a][i]] # "Shutdown"
            /\ i = Top.index + 1 => state[subapps[a][i]] # "Shutdown"
      <3>1. \A i \in DOMAIN subapps[a] : i = Top.index => state[subapps[a][i]] = "Running"
        BY <1>6, <1>2 DEF At, Arrived
      <3>2. \A i \in DOMAIN subapps[a] : i \in Nat
        BY <1>2
      <3> QED
        BY <1>2, <1>4, <1>6, <3>1, <3>2 DEF At
    <2>3. Steady(f)' /\ Arrived(f)'
      <3>1. Top.at # "failed"
        BY <1>6 DEF At
      <3>2. f.op = "prepare"
        BY <1>1, <2>1
      <3>3. SteadyPrepare(f)' /\ Arrived(f)'
        BY <1>1, <1>3, <1>4, <2>1, <2>2, <3>1, <3>2 DEF SteadyPrepare, Arrived, Posted
      <3> QED
        BY <3>2, <3>3 DEF Steady, SteadyDrain, SteadyPost, SteadyTeardown
    <2>4. Bringing(f) /\ Goes(f)
      BY <1>1, <1>6, <2>1 DEF Bringing
    <2> QED
      BY <1>1, <2>1, <2>3, <2>4, CalmGoes
  <1>7. CASE At("prepare", "subapp") /\ Calls([Top EXCEPT !.at = "failed"], NewCall("teardown", a))
    <2>1. PICK f \in Call : /\ f = [Top EXCEPT !.at = "failed"]
                            /\ f.op = Top.op /\ f.app = a /\ f.at = "failed"
                            /\ f.index = Top.index
      BY <1>2, MovedAt, PlacesFacts
    <2>2. Link(f, NewCall("teardown", a)) /\ Calls(f, NewCall("teardown", a))
      BY <1>1, <1>2, <1>7, <2>1, NewCallFields DEF Link, PairOK
    <2>3. Steady(f)'
      BY <1>1, <1>3, <2>1 DEF Steady, SteadyDrain, SteadyPost, SteadyPrepare, SteadyTeardown
    <2>4. Bringing(f)
      BY <1>1, <2>1 DEF Bringing
    <2> QED
      BY <1>1, <1>2, <2>1, <2>2, <2>3, <2>4, CalmCalls
  <1>8. CASE At("prepare", "failed") /\ Returns(FALSE)
    <2>1. state[a] \in Ended
      BY <1>2, <1>8 DEF At, Arrived, Ended
    <2> QED
      BY <1>1, <1>8, <2>1, CalmFails
  <1> QED
    BY <1>2, <1>5, <1>6, <1>7, <1>8 DEF PrepareSubapps

LEMMA LifeRun ==
    ASSUME LifeInv, RunPrepared \/ RunnerReturn \/ RunReturn
    PROVE  ShapeInv' /\ CallInv' /\ TreeInv' /\ PluginInv'
  <1> DEFINE a == Top.app
  <1>1. /\ stack # <<>> /\ Top.op = "run" /\ ~At("teardown", "plugins") /\ ~Bringing(Top)
        /\ UNCHANGED <<state, plugins, pending, subapps>>
    BY DEF RunPrepared, RunnerReturn, RunReturn, At, Bringing
  <1>2. Top \in Call /\ a \in Apps
    BY <1>1, TopFacts
  <1>3. ASSUME NEW f \in Call, f.op = "run" PROVE Steady(f)' /\ Arrived(f)'
    BY <1>3 DEF Steady, SteadyDrain, SteadyPost, SteadyPrepare, SteadyTeardown, Arrived
  <1>4. CASE Goes([Top EXCEPT !.at = "runner"])
    <2>1. PICK f \in Call : /\ f = [Top EXCEPT !.at = "runner"]
                            /\ f.op = Top.op /\ f.app = a /\ f.ready = Top.ready
      BY <1>2, MovedAt, PlacesFacts
    <2> QED
      BY <1>1, <1>3, <1>4, <2>1, CalmGoes
  <1>5. CASE Calls([Top EXCEPT !.at = "teardown"], NewCall("teardown", a))
    <2>1. PICK f \in Call : /\ f = [Top EXCEPT !.at = "teardown"]
                            /\ f.op = Top.op /\ f.app = a /\ f.at = "teardown"
      BY <1>2, MovedAt, PlacesFacts
    <2>2. Link(f, NewCall("teardown", a)) /\ Calls(f, NewCall("teardown", a))
      BY <1>1, <1>2, <1>5, <2>1, NewCallFields DEF Link, PairOK
    <2> QED
      BY <1>1, <1>2, <1>3, <2>1, <2>2, CalmCalls
  <1>6. CASE Returns(result)
    <2>1. \A c \in Call : ~Link(c, Top)
      BY <1>1 DEF Link, PairOK
    <2>2. result \in BOOLEAN
      BY TopFacts, <1>1 DEF TypeOK
    <2>3. PICK ok \in BOOLEAN : ok = result
      BY <2>2
    <2> QED
      BY <1>1, <1>6, <2>1, <2>3, CalmReturns
  <1> QED
    BY <1>4, <1>5, <1>6 DEF RunPrepared, RunnerReturn, RunReturn

\* What the caller of a teardown finds.
LEMMA ShutdownReturned ==
    ASSUME LifeInv, stack # <<>>, Top.op = "teardown", UNCHANGED subapps,
           state'[Top.app] = "Shutdown",
           NEW c \in Call, Link(c, Top), Steady(c)'
    PROVE  Arrived(c)'
  <1>1. c.index \in Nat /\ c.app \in Apps
    BY CallFields
  <1>2. subapps[c.app] \in Seq(Apps)
    BY <1>1 DEF LifeInv, OrderInv, TypeOK
  <1>3. CASE c.op = "teardown"
    <2>1. /\ c.at = "subapps" /\ c.index + 1 \in DOMAIN subapps[c.app]
          /\ Top.app = subapps[c.app][c.index + 1]
      BY <1>3 DEF Link, PairOK
    <2>2. \A i \in DOMAIN subapps[c.app] :
            i > c.index + 1 => state'[subapps[c.app][i]] = "Shutdown"
      BY <1>3, <2>1 DEF Steady, SteadyTeardown
    <2>3. \A i \in DOMAIN subapps[c.app] : i > c.index => i > c.index + 1 \/ i = c.index + 1
      BY <1>1, <1>2
    <2>4. \A i \in DOMAIN subapps[c.app] : i > c.index => state'[subapps[c.app][i]] = "Shutdown"
      BY <2>1, <2>2, <2>3
    <2> QED
      BY <1>3, <2>4 DEF Arrived
  <1>4. CASE c.op # "teardown"
    BY <1>4 DEF Link, PairOK, Arrived
  <1> QED
    BY <1>3, <1>4

LEMMA LifeTeardownSubapps ==
    ASSUME LifeInv, TeardownSubapps
    PROVE  ShapeInv' /\ CallInv' /\ TreeInv' /\ PluginInv'
  <1> DEFINE a == Top.app
  <1>1. /\ stack # <<>> /\ Top.op = "teardown" /\ Top.at \in {"start", "subapps"}
        /\ ~At("teardown", "plugins")
        /\ UNCHANGED <<state, plugins, pending, subapps>>
    BY DEF TeardownSubapps, At
  <1>2. /\ Top \in Call /\ a \in Apps /\ Top.index \in Nat /\ Steady(Top) /\ Arrived(Top)
        /\ subapps[a] \in Seq(Apps) /\ plugins[a] \in Seq(Entry)
    BY <1>1, TopFacts
  <1>3. Len(subapps[a]) \in Nat /\ Len(plugins[a]) \in Nat
    BY <1>2
  <1>4. ASSUME NEW f \in Call, f.op = "teardown"
        PROVE  /\ Bringing(f)
               /\ SteadyTeardown(f)' => Steady(f)'
               /\ f.at = "plugins" => Arrived(f)'
    BY <1>4 DEF Bringing, Steady, SteadyDrain, SteadyPost, SteadyPrepare, Arrived
  <1>5. CASE state[a] = "Shutdown" /\ Returns(result)
    <2>1. PICK ok \in BOOLEAN : ok = result
      BY TopFacts, <1>1 DEF TypeOK
    <2>2. \A c \in Call : Link(c, Top) /\ Steady(c)' => Arrived(c)'
      BY <1>1, <1>5, ShutdownReturned
    <2> QED
      BY <1>1, <1>5, <2>1, <2>2, CalmReturns DEF Ended
  <1>6. CASE Goes([Top EXCEPT !.at = "subapps", !.index = Len(subapps[a])])
    <2>1. PICK f \in Call : /\ f = [Top EXCEPT !.at = "subapps", !.index = Len(subapps[a])]
                            /\ f.op = Top.op /\ f.app = a /\ f.at = "subapps"
                            /\ f.index = Len(subapps[a]) /\ f.ready = Top.ready
      <3>1. [Top EXCEPT !.at = "subapps", !.index = Len(subapps[a])] \in Call
        BY <1>2, <1>3, PlacesFacts DEF Call
      <3> QED
        BY <1>2, <1>3, <3>1 DEF Call
    <2>2. \A i \in DOMAIN subapps[a] : ~(i > Len(subapps[a])) /\ ~(i > Len(subapps[a]) + 1)
      BY <1>2
    <2>3. SteadyTeardown(f)' /\ Arrived(f)'
      BY <1>1, <1>3, <2>1, <2>2 DEF SteadyTeardown, Arrived
    <2> QED
      BY <1>1, <1>4, <1>6, <2>1, <2>3, CalmGoes
  <1>7. CASE At("teardown", "subapps") /\ Top.index \in DOMAIN subapps[a]
             /\ Calls([Top EXCEPT !.index = Top.index - 1],
                      NewCall("teardown", subapps[a][Top.index]))
    <2>1. Top.index - 1 \in Nat /\ Top.index - 1 + 1 = Top.index
      BY <1>2, <1>7
    <2>2. PICK f \in Call : /\ f = [Top EXCEPT !.index = Top.index - 1]
                            /\ f.op = Top.op /\ f.app = a /\ f.at = "subapps"
                            /\ f.index = Top.index - 1
      <3>1. [Top EXCEPT !.index = Top.index - 1] \in Call
        BY <1>2, <2>1 DEF Call
      <3> QED
        BY <1>2, <1>7, <3>1 DEF Call, At
    <2>3. PICK b \in Apps : b = subapps[a][Top.index]
      BY <1>2, <1>7
    <2>4. f.index + 1 = Top.index /\ f.index <= Len(subapps[a])
      BY <1>2, <1>7, <2>1, <2>2
    <2>5. Link(f, NewCall("teardown", b)) /\ Calls(f, NewCall("teardown", b))
      BY <1>1, <1>7, <2>2, <2>3, <2>4, NewCallFields DEF Link
    <2>6. \A i \in DOMAIN subapps[a] : i > Top.index => state[subapps[a][i]] = "Shutdown"
      BY <1>2, <1>7 DEF At, Arrived
    <2>7. SteadyTeardown(f)'
      BY <1>1, <2>2, <2>4, <2>6 DEF SteadyTeardown
    <2> QED
      BY <1>1, <1>4, <2>2, <2>3, <2>5, <2>7, CalmCalls
  <1>8. CASE At("teardown", "subapps") /\ Top.index \notin DOMAIN subapps[a]
             /\ Goes([Top EXCEPT !.at = "plugins", !.index = Len(plugins[a])])
    <2>1. PICK f \in Call : /\ f = [Top EXCEPT !.at = "plugins", !.index = Len(plugins[a])]
                            /\ f.op = Top.op /\ f.app = a /\ f.at = "plugins"
                            /\ f.index = Len(plugins[a]) /\ f.ready = Top.ready
      <3>1. [Top EXCEPT !.at = "plugins", !.index = Len(plugins[a])] \in Call
        BY <1>2, <1>3, PlacesFacts DEF Call
      <3> QED
        BY <1>2, <1>3, <3>1 DEF Call
    <2>2. Top.index <= Len(subapps[a])
      BY <1>2, <1>8 DEF At, Steady, SteadyTeardown
    <2>3. \A i \in DOMAIN subapps[a] : i > Top.index
      BY <1>2, <1>8, <2>2
    <2>4. \A i \in DOMAIN subapps[a] : state[subapps[a][i]] = "Shutdown"
      BY <1>2, <1>8, <2>3 DEF At, Arrived
    <2>5. \A i \in DOMAIN plugins[a] : ~(i > Len(plugins[a]))
      BY <1>2
    <2>6. SteadyTeardown(f)'
      BY <1>1, <1>3, <2>1, <2>4, <2>5 DEF SteadyTeardown
    <2> QED
      BY <1>1, <1>4, <1>8, <2>1, <2>6, CalmGoes
  <1> QED
    BY <1>2, <1>5, <1>6, <1>7, <1>8 DEF TeardownSubapps

\* What post_build and teardown record about a plugin.
LEMMA MarkedPosted ==
    ASSUME TypeOK, NEW a \in Apps, NEW k \in DOMAIN plugins[a],
           plugins' = [plugins EXCEPT ![a][k].posted = @ + 1]
    PROVE  /\ DOMAIN plugins'[a] = DOMAIN plugins[a]
           /\ \A b \in Apps : b # a => plugins'[b] = plugins[b]
           /\ \A i \in DOMAIN plugins[a] :
                /\ plugins'[a][i].down = plugins[a][i].down
                /\ plugins[a][i].posted > 0 \/ i = k => plugins'[a][i].posted > 0
  <1>1. plugins[a] \in Seq(Entry) /\ plugins[a][k] \in Entry
    BY DEF TypeOK
  <1>2. PICK e \in Entry : e = plugins[a][k]
    BY <1>1
  <1>3. /\ [e EXCEPT !.posted = @ + 1].down = e.down
        /\ [e EXCEPT !.posted = @ + 1].posted > 0
    BY DEF Entry
  <1>4. plugins'[a] = [plugins[a] EXCEPT ![k] = [e EXCEPT !.posted = @ + 1]]
    BY <1>2 DEF TypeOK
  <1>5. \A i \in DOMAIN plugins[a] :
          plugins'[a][i] = IF i = k THEN [e EXCEPT !.posted = @ + 1] ELSE plugins[a][i]
    BY <1>1, <1>4
  <1>6. DOMAIN plugins'[a] = DOMAIN plugins[a]
    BY <1>1, <1>4
  <1>7. \A b \in Apps : b # a => plugins'[b] = plugins[b]
    BY DEF TypeOK
  <1>8. ASSUME NEW i \in DOMAIN plugins[a]
        PROVE  /\ plugins'[a][i].down = plugins[a][i].down
               /\ plugins[a][i].posted > 0 \/ i = k => plugins'[a][i].posted > 0
    <2>1. CASE i = k
      BY <1>2, <1>3, <1>5, <2>1
    <2>2. CASE i # k
      BY <1>5, <2>2
    <2> QED
      BY <2>1, <2>2
  <1> QED
    BY <1>6, <1>7, <1>8

LEMMA MarkedDown ==
    ASSUME TypeOK, NEW a \in Apps, NEW k \in DOMAIN plugins[a],
           plugins' = [plugins EXCEPT ![a][k].down = TRUE]
    PROVE  /\ DOMAIN plugins'[a] = DOMAIN plugins[a]
           /\ \A b \in Apps : b # a => plugins'[b] = plugins[b]
           /\ \A i \in DOMAIN plugins[a] :
                /\ plugins'[a][i].posted = plugins[a][i].posted
                /\ i # k => (plugins'[a][i].down <=> plugins[a][i].down)
                /\ i = k => plugins'[a][i].down
  <1>1. plugins[a] \in Seq(Entry) /\ plugins[a][k] \in Entry
    BY DEF TypeOK
  <1>2. PICK e \in Entry : e = plugins[a][k]
    BY <1>1
  <1>3. [e EXCEPT !.down = TRUE].posted = e.posted /\ [e EXCEPT !.down = TRUE].down
    BY DEF Entry
  <1>4. plugins'[a] = [plugins[a] EXCEPT ![k] = [e EXCEPT !.down = TRUE]]
    BY <1>2 DEF TypeOK
  <1>5. \A i \in DOMAIN plugins[a] :
          plugins'[a][i] = IF i = k THEN [e EXCEPT !.down = TRUE] ELSE plugins[a][i]
    BY <1>1, <1>4
  <1>6. DOMAIN plugins'[a] = DOMAIN plugins[a]
    BY <1>1, <1>4
  <1>7. \A b \in Apps : b # a => plugins'[b] = plugins[b]
    BY DEF TypeOK
  <1>8. ASSUME NEW i \in DOMAIN plugins[a]
        PROVE  /\ plugins'[a][i].posted = plugins[a][i].posted
               /\ i # k => (plugins'[a][i].down <=> plugins[a][i].down)
               /\ i = k => plugins'[a][i].down
    <2>1. CASE i = k
      BY <1>2, <1>3, <1>5, <2>1
    <2>2. CASE i # k
      BY <1>5, <2>2
    <2> QED
      BY <2>1, <2>2
  <1> QED
    BY <1>6, <1>7, <1>8

\* No plugin of an app is shut down before the app's teardown gets to them.
LEMMA NoneDown ==
    ASSUME LifeInv, stack # <<>>, ~At("teardown", "plugins"), state[Top.app] # "Shutdown"
    PROVE  \A i \in DOMAIN plugins[Top.app] : ~plugins[Top.app][i].down
  BY TopFacts DEF PluginOK

LEMMA LifePostStart ==
    ASSUME LifeInv, PostStart
    PROVE  ShapeInv' /\ CallInv' /\ TreeInv' /\ PluginInv'
  <1>1. /\ stack # <<>> /\ Top.op = "post" /\ Top.at = "start"
        /\ ~At("teardown", "plugins") /\ ~Bringing(Top)
        /\ UNCHANGED <<plugins, pending, subapps>>
    BY DEF PostStart, At, Bringing
  <1>2. Top \in Call /\ Top.app \in Apps /\ Steady(Top) /\ PluginOK(Top.app) /\ TypeOK
    BY <1>1, TopFacts
  <1>3. PICK a \in Apps : a = Top.app
    BY <1>2
  <1>4. Top.index = 1 /\ state[a] \notin Ended
    BY <1>1, <1>2, <1>3 DEF Steady, SteadyPost
  <1>5. state'[a] = "PostBuilding" /\ \A b \in Apps : b # a => state'[b] = state[b]
    BY <1>2, <1>3 DEF PostStart, TypeOK
  <1>6. Local(a)
    BY <1>1, <1>4, <1>5 DEF Local
  <1>7. PICK f \in Call : /\ f = [Top EXCEPT !.at = "plugins"]
                          /\ f.op = Top.op /\ f.app = Top.app /\ f.at = "plugins"
                          /\ f.index = Top.index /\ f.ready = Top.ready
    BY <1>2, MovedAt, PlacesFacts
  <1>8. Goes(f)
    BY <1>7 DEF PostStart
  <1>9. Steady(f)' /\ Arrived(f)'
    <2>1. plugins[a] \in Seq(Entry)
      BY <1>2 DEF TypeOK
    <2>2. \A i \in DOMAIN plugins[a] : ~(i < 1)
      BY <2>1
    <2> QED
      BY <1>1, <1>3, <1>4, <1>5, <1>7, <2>2 DEF Steady, SteadyDrain, SteadyPost, SteadyPrepare,
         SteadyTeardown, Arrived
  <1>10. PluginOK(a)'
    BY <1>1, <1>2, <1>3, <1>4, <1>5 DEF PluginOK, Ended, Fresh
  <1>11. Fresh(f.ready)
    BY <1>1, <1>7, TopFacts DEF Fresh
  <1> QED
    BY <1>1, <1>3, <1>5, <1>6, <1>7, <1>8, <1>9, <1>10, <1>11, LifeGoes DEF Ended

LEMMA LifePostPlugin ==
    ASSUME LifeInv, NEW ok \in BOOLEAN, PostPlugin(ok)
    PROVE  ShapeInv' /\ CallInv' /\ TreeInv' /\ PluginInv'
  <1>1. /\ stack # <<>> /\ Top.op = "post" /\ Top.at = "plugins"
        /\ ~At("teardown", "plugins") /\ ~Bringing(Top)
        /\ UNCHANGED <<state, pending, subapps>>
    BY DEF PostPlugin, At, Bringing
  <1>2. /\ Top \in Call /\ Top.app \in Apps /\ Top.index \in Nat /\ Steady(Top)
        /\ PluginOK(Top.app) /\ TypeOK /\ plugins[Top.app] \in Seq(Entry)
    BY <1>1, TopFacts
  <1>3. PICK a \in Apps : a = Top.app
    BY <1>2
  <1>4. PICK k \in DOMAIN plugins[a] : k = Top.index
    BY <1>3 DEF PostPlugin
  <1>5. /\ state[a] = "PostBuilding"
        /\ \A i \in DOMAIN plugins[a] : i < k => plugins[a][i].posted > 0
    BY <1>1, <1>2, <1>3, <1>4 DEF Steady, SteadyPost
  <1>6. /\ DOMAIN plugins'[a] = DOMAIN plugins[a]
        /\ \A b \in Apps : b # a => plugins'[b] = plugins[b]
        /\ \A i \in DOMAIN plugins[a] :
             /\ plugins'[a][i].down = plugins[a][i].down
             /\ plugins[a][i].posted > 0 \/ i = k => plugins'[a][i].posted > 0
    <2>1. plugins' = [plugins EXCEPT ![a][k].posted = @ + 1]
      BY <1>3, <1>4 DEF PostPlugin
    <2> QED
      BY <1>2, <2>1, MarkedPosted
  <1>7. Local(a)
    BY <1>1, <1>6 DEF Local
  <1>8. PluginOK(a)'
    <2>1. \A i \in DOMAIN plugins[a] : ~plugins[a][i].down
      BY <1>1, <1>3, <1>5, NoneDown
    <2> QED
      BY <1>1, <1>2, <1>3, <1>5, <1>6, <2>1 DEF PluginOK, Fresh
  <1>9. CASE Goes([Top EXCEPT !.index = Top.index + 1])
    <2>1. Top.index + 1 \in Nat
      BY <1>2
    <2>2. PICK f \in Call : /\ f = [Top EXCEPT !.index = Top.index + 1]
                            /\ f.op = Top.op /\ f.app = Top.app /\ f.at = Top.at
                            /\ f.index = Top.index + 1 /\ f.ready = Top.ready
      <3>1. [Top EXCEPT !.index = Top.index + 1] \in Call
        BY <1>2, <2>1 DEF Call
      <3> QED
        BY <1>2, <3>1 DEF Call
    <2>3. Goes(f)
      BY <1>9, <2>2
    <2>4. \A i \in DOMAIN plugins'[a] : i < k + 1 => plugins'[a][i].posted > 0
      <3>1. \A i \in DOMAIN plugins[a] : i < k + 1 => i < k \/ i = k
        BY <1>2, <1>3, <1>4
      <3> QED
        BY <1>5, <1>6, <3>1
    <2>5. k + 1 > 0
      BY <1>2, <1>4
    <2>6. Steady(f)' /\ Arrived(f)'
      BY <1>1, <1>3, <1>4, <1>5, <2>2, <2>4, <2>5 DEF Steady, SteadyDrain, SteadyPost,
         SteadyPrepare, SteadyTeardown, Arrived
    <2>7. Fresh(f.ready)
      BY <1>1, <2>2, TopFacts DEF Fresh
    <2> QED
      BY <1>1, <1>3, <1>7, <1>8, <2>2, <2>3, <2>6, <2>7, LifeGoes
  <1>10. CASE Returns(FALSE)
    <2>1. \A c \in Call : Link(c, Top) => Arrived(c)'
      BY <1>1, <1>10, ArrivedFailed DEF Returns
    <2> QED
      BY <1>1, <1>3, <1>5, <1>7, <1>8, <1>10, <2>1, LifeReturns
  <1> QED
    BY <1>9, <1>10 DEF PostPlugin

LEMMA LifePostDone ==
    ASSUME LifeInv, PostDone
    PROVE  ShapeInv' /\ CallInv' /\ TreeInv' /\ PluginInv'
  <1>1. /\ stack # <<>> /\ Top.op = "post" /\ Top.at = "subapps"
        /\ ~At("teardown", "plugins") /\ ~Bringing(Top) /\ Returns(TRUE)
        /\ UNCHANGED <<plugins, pending, subapps>>
    BY DEF PostDone, At, Bringing
  <1>2. /\ Top \in Call /\ Top.app \in Apps /\ Steady(Top) /\ PluginOK(Top.app) /\ TypeOK
    BY <1>1, TopFacts
  <1>3. PICK a \in Apps : a = Top.app
    BY <1>2
  <1>4. state[a] = "PostBuilding" /\ Posted(a)
    BY <1>1, <1>2, <1>3 DEF Steady, SteadyPost
  <1>5. state'[a] = "Created" /\ \A b \in Apps : b # a => state'[b] = state[b]
    BY <1>2, <1>3 DEF PostDone, TypeOK
  <1>6. Local(a)
    BY <1>1, <1>4, <1>5 DEF Local, Ended
  <1>7. PluginOK(a)'
    BY <1>1, <1>2, <1>3, <1>4, <1>5 DEF PluginOK, Fresh
  <1>8. ASSUME NEW c \in Call, Link(c, Top) PROVE Arrived(c)'
    <2>1. CASE c.op = "prepare"
      <3>1. c.at = "post" /\ c.app = a
        BY <1>1, <1>3, <1>8, <2>1 DEF Link, PairOK
      <3> QED
        BY <1>1, <1>4, <1>5, <2>1, <3>1 DEF Arrived, Posted
    <2>2. CASE c.op # "prepare"
      BY <1>1, <1>8, <2>2 DEF Link, PairOK, Arrived
    <2> QED
      BY <2>1, <2>2
  <1> QED
    BY <1>1, <1>3, <1>5, <1>6, <1>7, <1>8, LifeReturns DEF Ended

LEMMA LifePrepareDone ==
    ASSUME LifeInv, PrepareDone
    PROVE  ShapeInv' /\ CallInv' /\ TreeInv' /\ PluginInv'
  <1>1. /\ stack # <<>> /\ Top.op = "prepare" /\ Top.at = "subapps"
        /\ ~At("teardown", "plugins") /\ Returns(TRUE)
        /\ UNCHANGED <<plugins, pending, subapps>>
    BY DEF PrepareDone, At
  <1>2. /\ Top \in Call /\ Top.app \in Apps /\ Steady(Top) /\ PluginOK(Top.app) /\ TypeOK
        /\ Top.index \in Nat /\ subapps[Top.app] \in Seq(Apps)
    BY <1>1, TopFacts
  <1>3. PICK a \in Apps : a = Top.app
    BY <1>2
  <1>4. /\ state[a] = "Created" /\ Posted(a) /\ pending[a] = <<>> /\ Top.index > 0
        /\ \A i \in DOMAIN subapps[a] : i < Top.index => state[subapps[a][i]] = "Running"
    BY <1>1, <1>2, <1>3 DEF Steady, SteadyPrepare
  <1>5. state'[a] = "Running" /\ \A b \in Apps : b # a => state'[b] = state[b]
    BY <1>2, <1>3 DEF PrepareDone, TypeOK
  <1>6. \A s \in Apps : Child(a, s) => state[s] = "Running"
    <2>1. \A i \in DOMAIN subapps[a] : i < Top.index
      BY <1>2, <1>3, <1>4 DEF PrepareDone
    <2> QED
      BY <1>4, <2>1 DEF Child
  <1>7. Local(a)
    BY <1>1, <1>4, <1>5 DEF Local, Ended
  <1>8. PluginOK(a)'
    <2>1. \A i \in DOMAIN plugins[a] : ~plugins[a][i].down
      BY <1>1, <1>3, <1>4, NoneDown
    <2> QED
      BY <1>1, <1>2, <1>3, <1>4, <1>5, <2>1 DEF PluginOK, Posted, Fresh
  <1>9. ASSUME NEW c \in Call, Link(c, Top) PROVE Arrived(c)'
    <2>1. CASE c.op = "prepare"
      <3>1. /\ c.at = "subapp" /\ c.index \in DOMAIN subapps[c.app]
            /\ a = subapps[c.app][c.index]
        BY <1>1, <1>3, <1>9, <2>1 DEF Link, PairOK
      <3> QED
        BY <1>1, <1>5, <2>1, <3>1 DEF Arrived
    <2>2. CASE c.op # "prepare"
      BY <1>1, <1>9, <2>2 DEF Link, PairOK, Arrived
    <2> QED
      BY <2>1, <2>2
  <1> QED
    BY <1>1, <1>3, <1>4, <1>5, <1>6, <1>7, <1>8, <1>9, LifeReturns DEF Ended

LEMMA LifeTeardownPlugin ==
    ASSUME LifeInv, TeardownPlugin
    PROVE  ShapeInv' /\ CallInv' /\ TreeInv' /\ PluginInv'
  <1>1. /\ stack # <<>> /\ Top.op = "teardown" /\ Top.at = "plugins"
        /\ UNCHANGED <<state, pending, subapps>>
    BY DEF TeardownPlugin, At
  <1>2. /\ Top \in Call /\ Top.app \in Apps /\ Top.index \in Nat /\ Steady(Top)
        /\ PluginOK(Top.app) /\ TypeOK /\ plugins[Top.app] \in Seq(Entry)
    BY <1>1, TopFacts
  <1>3. PICK a \in Apps : a = Top.app
    BY <1>2
  <1>4. PICK k \in DOMAIN plugins[a] : k = Top.index
    BY <1>3 DEF TeardownPlugin
  <1>5. /\ k \in Nat \ {0} /\ k <= Len(plugins[a]) /\ DOMAIN plugins[a] \subseteq Nat
        /\ Len(plugins[a]) \in Nat
    BY <1>2, <1>3, <1>4
  <1>6. /\ DOMAIN plugins'[a] = DOMAIN plugins[a]
        /\ \A b \in Apps : b # a => plugins'[b] = plugins[b]
        /\ \A i \in DOMAIN plugins[a] :
             /\ plugins'[a][i].posted = plugins[a][i].posted
             /\ i # k => (plugins'[a][i].down <=> plugins[a][i].down)
             /\ i = k => plugins'[a][i].down
    <2>1. plugins' = [plugins EXCEPT ![a][k].down = TRUE]
      BY <1>3, <1>4 DEF TeardownPlugin
    <2> QED
      BY <1>2, <2>1, MarkedDown
  <1>7. Len(plugins'[a]) = Len(plugins[a])
    <2>1. plugins'[a] \in Seq(Entry)
      BY TypeMarks, <1>2 DEF TypeOK
    <2> QED
      BY <1>2, <1>3, <1>6, <2>1
  <1>8. Local(a)
    BY <1>1, <1>6 DEF Local
  <1>9. k - 1 \in Nat /\ k - 1 <= Len(plugins[a])
    BY <1>5
  <1>10. PICK f \in Call : /\ f = [Top EXCEPT !.index = k - 1]
                           /\ f.op = "teardown" /\ f.app = a /\ f.at = "plugins"
                           /\ f.index = k - 1 /\ f.ready = Top.ready
    <2>1. [Top EXCEPT !.index = k - 1] \in Call
      BY <1>2, <1>9 DEF Call
    <2> QED
      BY <1>1, <1>2, <1>3, <2>1 DEF Call
  <1>11. Goes(f)
    BY <1>4, <1>10 DEF TeardownPlugin
  <1>12. Top' = f /\ stack' # <<>>
    BY <1>1, <1>2, <1>11, GoesParts DEF TypeOK
  <1>13. \A i \in DOMAIN plugins[a] : i > k - 1 <=> i > k \/ i = k
    BY <1>5
  <1>14. /\ \A i \in DOMAIN subapps[a] : state[subapps[a][i]] = "Shutdown"
         /\ \A i \in DOMAIN plugins[a] : i > k => plugins[a][i].down
    BY <1>1, <1>2, <1>3, <1>4 DEF Steady, SteadyTeardown
  <1>15. \A i \in DOMAIN plugins[a] : i > k - 1 => plugins'[a][i].down
    BY <1>5, <1>6, <1>13, <1>14
  <1>16. Steady(f)' /\ Arrived(f)'
    BY <1>1, <1>6, <1>7, <1>9, <1>10, <1>14, <1>15 DEF Steady, SteadyDrain, SteadyPost,
       SteadyPrepare, SteadyTeardown, Arrived
  <1>17. PluginOK(a)'
    <2>1. \A i \in DOMAIN plugins[a] :
            plugins[a][i].down => state[a] = "Shutdown" \/ i > k
      BY <1>2, <1>3, <1>4 DEF PluginOK
    <2>2. \A i \in DOMAIN plugins[a] :
            plugins'[a][i].down => state[a] = "Shutdown" \/ i > k - 1
      BY <1>6, <1>13, <2>1
    <2>3. At("teardown", "plugins")' /\ Top'.app = a /\ Top'.index = k - 1
      BY <1>10, <1>12 DEF At
    <2>4. /\ state[a] = "Running" => pending[a] = <<>> /\ Posted(a)
          /\ state[a] = "Shutdown" => \A i \in DOMAIN plugins[a] : plugins[a][i].down
          /\ Fresh(pending[a]) /\ state[a] # "Building"
      BY <1>1, <1>2, <1>3 DEF PluginOK
    <2> QED
      BY <1>1, <1>6, <2>2, <2>3, <2>4 DEF PluginOK, Posted, Fresh
  <1>18. Fresh(f.ready)
    BY <1>1, <1>10, TopFacts DEF Fresh
  <1> QED
    BY <1>1, <1>3, <1>8, <1>10, <1>11, <1>16, <1>17, <1>18, LifeGoes DEF Bringing

LEMMA LifeTeardownDone ==
    ASSUME LifeInv, TeardownDone
    PROVE  ShapeInv' /\ CallInv' /\ TreeInv' /\ PluginInv'
  <1>1. /\ stack # <<>> /\ Top.op = "teardown" /\ Top.at = "plugins" /\ Returns(result)
        /\ UNCHANGED <<plugins, pending, subapps>>
    BY DEF TeardownDone, At
  <1>2. /\ Top \in Call /\ Top.app \in Apps /\ Top.index \in Nat /\ Steady(Top)
        /\ PluginOK(Top.app) /\ TypeOK /\ plugins[Top.app] \in Seq(Entry)
    BY <1>1, TopFacts
  <1>3. PICK a \in Apps : a = Top.app
    BY <1>2
  <1>4. state'[a] = "Shutdown" /\ \A b \in Apps : b # a => state'[b] = state[b]
    BY <1>2, <1>3 DEF TeardownDone, TypeOK
  <1>5. /\ Top.index <= Len(plugins[a])
        /\ \A i \in DOMAIN subapps[a] : state[subapps[a][i]] = "Shutdown"
        /\ \A i \in DOMAIN plugins[a] : i > Top.index => plugins[a][i].down
    BY <1>1, <1>2, <1>3 DEF Steady, SteadyTeardown
  <1>6. \A i \in DOMAIN plugins[a] : plugins[a][i].down
    <2>1. \A i \in DOMAIN plugins[a] : i > Top.index
      BY <1>2, <1>3, <1>5 DEF TeardownDone
    <2> QED
      BY <1>5, <2>1
  <1>7. Local(a)
    BY <1>1, <1>4 DEF Local
  <1>8. PluginOK(a)'
    BY <1>1, <1>2, <1>3, <1>4, <1>6 DEF PluginOK, Fresh
  <1>9. PICK ok \in BOOLEAN : ok = result
    BY <1>2 DEF TypeOK
  <1>10. \A c \in Call : Link(c, Top) /\ Steady(c)' => Arrived(c)'
    BY <1>1, <1>3, <1>4, ShutdownReturned
  <1>11. \A s \in Apps : Child(a, s) => state[s] = "Shutdown"
    BY <1>5 DEF Child
  <1> QED
    BY <1>1, <1>3, <1>4, <1>7, <1>8, <1>9, <1>10, <1>11, LifeReturns DEF Ended

-----------------------------------------------------------------------------
(* The steps of a drain, and add_plugin's return                            *)

LEMMA LifeDrainGoes ==
    ASSUME LifeInv, stack # <<>>, Top.op = "drain", NEW a \in Apps, a = Top.app, Local(a),
           state'[a] = "Building", Fresh(plugins'[a]), Fresh(pending'[a]),
           NEW f \in Call, f.op = "drain", f.app = a, f.at # "start", Goes(f), Fresh(f.ready)
    PROVE  ShapeInv' /\ CallInv' /\ TreeInv' /\ PluginInv'
  <1>1. Steady(f)' /\ Arrived(f)'
    BY DEF Steady, SteadyDrain, SteadyPost, SteadyPrepare, SteadyTeardown, Arrived
  <1>2. Top' = f /\ stack' # <<>>
    BY GoesParts, TopFacts DEF TypeOK
  <1>3. PluginOK(a)'
    BY <1>2 DEF PluginOK, Fresh
  <1> QED
    BY <1>1, <1>3, LifeGoes DEF Ended, Bringing

LEMMA LifeDrainReturns ==
    ASSUME LifeInv, stack # <<>>, Top.op = "drain", NEW a \in Apps, a = Top.app, Local(a),
           state'[a] = "Created", Fresh(plugins'[a]), Fresh(pending'[a]),
           NEW ok \in BOOLEAN, Returns(ok), ok => pending'[a] = <<>>
    PROVE  ShapeInv' /\ CallInv' /\ TreeInv' /\ PluginInv'
  <1>1. PluginOK(a)'
    BY DEF PluginOK, Fresh
  <1>2. ASSUME NEW c \in Call, Link(c, Top) PROVE Arrived(c)'
    <2>1. CASE c.op = "prepare"
      <3>1. c.at = "drain" /\ c.app = a
        BY <1>2, <2>1 DEF Link, PairOK
      <3> QED
        BY <2>1, <3>1 DEF Arrived, Returns
    <2>2. CASE c.op # "prepare"
      BY <1>2, <2>2 DEF Link, PairOK, Arrived
    <2> QED
      BY <2>1, <2>2
  <1> QED
    BY <1>1, <1>2, LifeReturns DEF Ended, Bringing

\* The elements that are left when one is taken out, in their order.
LEMMA RemoveAtParts ==
    ASSUME NEW S, NEW s \in Seq(S), NEW i \in DOMAIN s
    PROVE  /\ DOMAIN RemoveAt(s, i) = 1..Len(s) - 1
           /\ \A j \in 1..Len(s) - 1 :
                RemoveAt(s, i)[j] = IF j < i THEN s[j] ELSE s[j + 1]
  <1>1. Len(s) \in Nat \ {0} /\ i \in 1..Len(s) /\ \A j \in 1..Len(s) : s[j] \in S
    OBVIOUS
  <1>2. PICK u \in Seq(S) : /\ u = SubSeq(s, 1, i - 1) /\ Len(u) = i - 1
                            /\ \A j \in 1..i - 1 : u[j] = s[j]
    <2>1. i - 1 \in 0..Len(s)
      BY <1>1
    <2> QED
      BY <2>1, Prefix
  <1>3. PICK v \in Seq(S) : /\ v = SubSeq(s, i + 1, Len(s)) /\ Len(v) = Len(s) - i
                            /\ \A j \in 1..Len(s) - i : v[j] = s[i + j]
    <2> DEFINE w == SubSeq(s, i + 1, Len(s))
    <2>1. /\ i + 1 \in Int /\ Len(s) \in Int /\ \A j \in i + 1..Len(s) : s[j] \in S
      BY <1>1
    <2>2. /\ w \in Seq(S)
          /\ Len(w) = IF i + 1 <= Len(s) THEN Len(s) - (i + 1) + 1 ELSE 0
          /\ \A j \in 1..Len(s) - (i + 1) + 1 : w[j] = s[i + 1 + j - 1]
      BY <2>1, SubSeqProperties
    <2> HIDE DEF w
    <2>3. Len(w) = Len(s) - i /\ \A j \in 1..Len(s) - i : w[j] = s[i + j]
      BY <1>1, <2>2
    <2> QED
      BY <2>2, <2>3 DEF w
  <1>4. RemoveAt(s, i) = u \o v
    BY <1>2, <1>3 DEF RemoveAt
  <1>5. /\ u \o v \in Seq(S) /\ Len(u \o v) = Len(u) + Len(v)
        /\ \A k \in 1..Len(u) + Len(v) : (u \o v)[k] = IF k <= Len(u) THEN u[k] ELSE v[k - Len(u)]
    BY ConcatProperties, Zenon
  <1>6. PICK t \in Seq(S) : t = u \o v
    BY <1>5
  <1>7. DOMAIN t = 1..Len(s) - 1
    BY <1>1, <1>2, <1>3, <1>5, <1>6
  <1>8. ASSUME NEW j \in 1..Len(s) - 1 PROVE t[j] = IF j < i THEN s[j] ELSE s[j + 1]
    <2>1. j \in 1..Len(u) + Len(v) /\ i \in Int
      BY <1>1, <1>2, <1>3
    <2>2. CASE j < i
      <3>1. j <= Len(u) /\ j \in 1..i - 1
        BY <1>2, <2>1, <2>2
      <3>2. t[j] = u[j]
        BY <1>5, <1>6, <2>1, <3>1
      <3> QED
        BY <1>2, <2>2, <3>1, <3>2
    <2>3. CASE ~(j < i)
      <3>1. PICK m \in Int : m = j - Len(u)
        BY <1>1, <1>2
      <3>2. ~(j <= Len(u)) /\ m \in 1..Len(s) - i /\ i + m = j + 1
        <4>1. PICK n \in Nat : n = Len(s)
          BY <1>1
        <4>2. /\ i \in Int /\ 1 <= i /\ i <= n /\ j \in Int /\ 1 <= j /\ j <= n - 1
              /\ m = j - (i - 1) /\ Len(u) = i - 1
          BY <1>1, <1>2, <3>1, <4>1
        <4>3. ~(j <= i - 1) /\ 1 <= m /\ m <= n - i /\ i + m = j + 1
          BY <2>3, <4>1, <4>2
        <4> QED
          BY <4>1, <4>2, <4>3
      <3>3. t[j] = v[m]
        BY <1>5, <1>6, <2>1, <3>1, <3>2
      <3>4. v[m] = s[i + m]
        BY <1>3, <3>2
      <3> QED
        BY <2>3, <3>2, <3>3, <3>4
    <2> QED
      BY <2>2, <2>3
  <1> QED
    BY <1>4, <1>6, <1>7, <1>8

LEMMA RemoveAtElements ==
    ASSUME NEW S, NEW s \in Seq(S), NEW i \in DOMAIN s
    PROVE  \A j \in DOMAIN RemoveAt(s, i) : \E k \in DOMAIN s : RemoveAt(s, i)[j] = s[k]
  <1> DEFINE t == RemoveAt(s, i)
  <1>1. DOMAIN t = 1..Len(s) - 1 /\ \A j \in 1..Len(s) - 1 : t[j] = IF j < i THEN s[j] ELSE s[j + 1]
    BY RemoveAtParts
  <1> HIDE DEF t
  <1>2. \A j \in 1..Len(s) - 1 : j \in DOMAIN s /\ j + 1 \in DOMAIN s
    OBVIOUS
  <1>3. \A j \in DOMAIN t : \E k \in DOMAIN s : t[j] = s[k]
    BY <1>1, <1>2
  <1> QED
    BY <1>3 DEF t

\* What a drain under way finds.
LEMMA DrainFacts ==
    ASSUME LifeInv, stack # <<>>, Top.op = "drain"
    PROVE  /\ Top \in Call /\ Top.app \in Apps /\ TypeOK /\ Top.ready \in Seq(Entry)
           /\ plugins[Top.app] \in Seq(Entry) /\ pending[Top.app] \in Seq(Entry)
           /\ state[Top.app] = IF Top.at = "start" THEN "Created" ELSE "Building"
           /\ Fresh(plugins[Top.app]) /\ Fresh(pending[Top.app]) /\ Fresh(Top.ready)
  <1>1. /\ Top \in Call /\ Top.app \in Apps /\ TypeOK /\ Steady(Top) /\ PluginOK(Top.app)
        /\ Fresh(Top.ready)
        /\ plugins[Top.app] \in Seq(Entry) /\ pending[Top.app] \in Seq(Entry)
    BY TopFacts
  <1>2. Top.ready \in Seq(Entry)
    BY <1>1, CallFields
  <1>3. state[Top.app] = IF Top.at = "start" THEN "Created" ELSE "Building"
    BY <1>1 DEF Steady, SteadyDrain
  <1>4. Fresh(plugins[Top.app])
    BY <1>1, <1>3, NoneDown DEF Fresh, At
  <1> QED
    BY <1>1, <1>2, <1>3, <1>4 DEF PluginOK

LEMMA LifeDrainStart ==
    ASSUME LifeInv, DrainStart
    PROVE  ShapeInv' /\ CallInv' /\ TreeInv' /\ PluginInv'
  <1>1. /\ stack # <<>> /\ Top.op = "drain" /\ Top.at = "start"
        /\ UNCHANGED <<plugins, pending, subapps>>
    BY DEF DrainStart, At
  <1>2. PICK a \in Apps : a = Top.app
    BY <1>1, DrainFacts
  <1>3. /\ Top \in Call /\ TypeOK /\ state[a] = "Created"
        /\ Fresh(plugins[a]) /\ Fresh(pending[a]) /\ Fresh(Top.ready)
    BY <1>1, <1>2, DrainFacts
  <1>4. state'[a] = "Building" /\ \A b \in Apps : b # a => state'[b] = state[b]
    BY <1>2, <1>3 DEF DrainStart, TypeOK
  <1>5. Local(a)
    BY <1>1, <1>3, <1>4 DEF Local, Ended
  <1>6. PICK f \in Call : /\ f = [Top EXCEPT !.at = "collect"]
                          /\ f.op = Top.op /\ f.app = Top.app /\ f.at = "collect"
                          /\ f.ready = Top.ready
    BY <1>3, MovedAt, PlacesFacts
  <1>7. Goes(f) /\ Fresh(f.ready) /\ Fresh(plugins'[a]) /\ Fresh(pending'[a])
    BY <1>1, <1>3, <1>6 DEF DrainStart, Fresh
  <1> QED
    BY <1>1, <1>2, <1>4, <1>5, <1>6, <1>7, LifeDrainGoes

LEMMA LifeDrainTake ==
    ASSUME LifeInv, DrainTake
    PROVE  ShapeInv' /\ CallInv' /\ TreeInv' /\ PluginInv'
  <1>1. /\ stack # <<>> /\ Top.op = "drain" /\ Top.at = "collect"
        /\ UNCHANGED <<state, plugins, subapps>>
    BY DEF DrainTake, At
  <1>2. PICK a \in Apps : a = Top.app
    BY <1>1, DrainFacts
  <1>3. /\ Top \in Call /\ TypeOK /\ state[a] = "Building" /\ Top.ready \in Seq(Entry)
        /\ pending[a] \in Seq(Entry)
        /\ Fresh(plugins[a]) /\ Fresh(pending[a]) /\ Fresh(Top.ready)
    BY <1>1, <1>2, DrainFacts
  <1>4. PICK i \in DOMAIN pending[a] :
           /\ pending' = [pending EXCEPT ![a] = RemoveAt(pending[a], i)]
           /\ Goes([Top EXCEPT !.ready = Append(Top.ready, pending[a][i])])
    BY <1>2 DEF DrainTake
  <1>5. PICK es \in Seq(Entry) : es = Append(Top.ready, pending[a][i])
    <2>1. pending[a][i] \in Entry
      BY <1>3
    <2>2. Append(Top.ready, pending[a][i]) \in Seq(Entry)
      BY <1>3, <2>1
    <2> QED
      BY <2>2
  <1>6. PICK f \in Call : /\ f = [Top EXCEPT !.ready = es]
                          /\ f.op = "drain" /\ f.app = a /\ f.at = "collect" /\ f.ready = es
    <2>1. [Top EXCEPT !.ready = es] \in Call
      BY <1>3 DEF Call
    <2> QED
      BY <1>1, <1>2, <1>3, <2>1 DEF Call
  <1>7. Goes(f)
    BY <1>4, <1>5, <1>6
  <1>8. Fresh(es)
    BY <1>3, <1>5 DEF Fresh
  <1>9. pending'[a] = RemoveAt(pending[a], i) /\ \A b \in Apps : b # a => pending'[b] = pending[b]
    BY <1>3, <1>4 DEF TypeOK
  <1>10. Fresh(pending'[a])
    BY <1>3, <1>9, RemoveAtElements DEF Fresh
  <1>11. Local(a) /\ Fresh(plugins'[a])
    BY <1>1, <1>3, <1>9 DEF Local, Fresh
  <1> QED
    BY <1>1, <1>2, <1>3, <1>6, <1>7, <1>8, <1>10, <1>11, LifeDrainGoes

LEMMA LifeDrainCollected ==
    ASSUME LifeInv, DrainCollected
    PROVE  ShapeInv' /\ CallInv' /\ TreeInv' /\ PluginInv'
  <1>1. /\ stack # <<>> /\ Top.op = "drain" /\ Top.at = "collect"
        /\ UNCHANGED <<plugins, pending, subapps>>
    BY DEF DrainCollected, At
  <1>2. PICK a \in Apps : a = Top.app
    BY <1>1, DrainFacts
  <1>3. /\ Top \in Call /\ TypeOK /\ state[a] = "Building"
        /\ Fresh(plugins'[a]) /\ Fresh(pending'[a]) /\ Fresh(Top.ready)
    BY <1>1, <1>2, DrainFacts DEF Fresh
  <1>4. CASE Top.ready = <<>>
    <2>1. state'[a] = "Created" /\ \A b \in Apps : b # a => state'[b] = state[b]
      BY <1>2, <1>3, <1>4 DEF DrainCollected, TypeOK
    <2>2. Local(a)
      BY <1>1, <1>3, <2>1 DEF Local, Ended
    <2>3. PICK ok \in BOOLEAN : ok = (pending[a] = <<>>)
      OBVIOUS
    <2>4. Returns(ok)
      BY <1>2, <1>4, <2>3 DEF DrainCollected
    <2> QED
      BY <1>1, <1>2, <1>3, <2>1, <2>2, <2>3, <2>4, LifeDrainReturns
  <1>5. CASE Top.ready # <<>>
    <2>1. UNCHANGED state
      BY <1>5 DEF DrainCollected
    <2>2. PICK f \in Call : /\ f = [Top EXCEPT !.at = "loop"]
                            /\ f.op = Top.op /\ f.app = Top.app /\ f.at = "loop"
                            /\ f.ready = Top.ready
      BY <1>3, MovedAt, PlacesFacts
    <2>3. Goes(f)
      BY <1>5, <2>2 DEF DrainCollected
    <2>4. Local(a)
      BY <1>1, <2>1 DEF Local
    <2> QED
      BY <1>1, <1>2, <1>3, <2>1, <2>2, <2>3, <2>4, LifeDrainGoes DEF Fresh
  <1> QED
    BY <1>4, <1>5

LEMMA LifeBuildCall ==
    ASSUME LifeInv, BuildCall
    PROVE  ShapeInv' /\ CallInv' /\ TreeInv' /\ PluginInv'
  <1>1. /\ stack # <<>> /\ Top.op = "drain" /\ Top.at = "loop" /\ Top.ready # <<>>
        /\ UNCHANGED <<state, pending, subapps>>
    BY DEF BuildCall, At
  <1>2. PICK a \in Apps : a = Top.app
    BY <1>1, DrainFacts
  <1>3. /\ Top \in Call /\ TypeOK /\ state[a] = "Building" /\ Top.ready \in Seq(Entry)
        /\ plugins[a] \in Seq(Entry)
        /\ Fresh(plugins[a]) /\ Fresh(pending[a]) /\ Fresh(Top.ready)
    BY <1>1, <1>2, DrainFacts
  <1>4. PICK es \in Seq(Entry) : es = Tail(Top.ready)
    <2>1. Tail(Top.ready) \in Seq(Entry)
      BY <1>1, <1>3
    <2> QED
      BY <2>1
  <1>5. PICK e \in Entry : e = Head(Top.ready)
    BY <1>1, <1>3
  <1>6. ~e.down /\ Fresh(es)
    <2>1. 1 \in DOMAIN Top.ready /\ e = Top.ready[1]
      BY <1>1, <1>3, <1>5
    <2>2. \A j \in DOMAIN es : j + 1 \in DOMAIN Top.ready /\ es[j] = Top.ready[j + 1]
      BY <1>1, <1>3, <1>4, HeadTailProperties
    <2> QED
      BY <1>3, <2>1, <2>2 DEF Fresh
  <1>7. PICK f \in Call : /\ f = [Top EXCEPT !.at = "build", !.ready = es]
                          /\ f.op = "drain" /\ f.app = a /\ f.at = "build" /\ f.ready = es
    <2>1. [Top EXCEPT !.at = "build", !.ready = es] \in Call
      BY <1>3, PlacesFacts DEF Call
    <2> QED
      BY <1>1, <1>2, <1>3, <2>1 DEF Call
  <1>8. Goes(f)
    <2>1. Goes([Top EXCEPT !.at = "build", !.ready = Tail(Top.ready)])
      BY <1>3 DEF BuildCall, Call
    <2> QED
      BY <1>4, <1>7, <2>1
  <1>9. plugins'[a] = Append(plugins[a], e) /\ \A b \in Apps : b # a => plugins'[b] = plugins[b]
    BY <1>2, <1>3, <1>5 DEF BuildCall, TypeOK
  <1>10. Fresh(plugins'[a])
    BY <1>3, <1>6, <1>9 DEF Fresh
  <1>11. Local(a) /\ Fresh(pending'[a])
    BY <1>1, <1>3, <1>9 DEF Local, Fresh
  <1> QED
    BY <1>1, <1>2, <1>3, <1>6, <1>7, <1>8, <1>10, <1>11, LifeDrainGoes

LEMMA LifeBuildReturn ==
    ASSUME LifeInv, NEW ok \in BOOLEAN, BuildReturn(ok)
    PROVE  ShapeInv' /\ CallInv' /\ TreeInv' /\ PluginInv'
  <1>1. /\ stack # <<>> /\ Top.op = "drain" /\ Top.at = "build"
        /\ UNCHANGED <<pending, subapps>>
    BY DEF BuildReturn, At
  <1>2. PICK a \in Apps : a = Top.app
    BY <1>1, DrainFacts
  <1>3. /\ Top \in Call /\ TypeOK /\ state[a] = "Building" /\ plugins[a] \in Seq(Entry)
        /\ Fresh(plugins[a]) /\ Fresh(pending'[a]) /\ Fresh(Top.ready)
    BY <1>1, <1>2, DrainFacts DEF Fresh
  <1>4. CASE ok
    <2>1. UNCHANGED <<state, plugins>>
      BY <1>4 DEF BuildReturn
    <2>2. PICK at \in Places : at # "start" /\ Goes([Top EXCEPT !.at = at])
      BY <1>4, PlacesFacts DEF BuildReturn
    <2>3. PICK f \in Call : /\ f = [Top EXCEPT !.at = at]
                            /\ f.op = Top.op /\ f.app = Top.app /\ f.at = at
                            /\ f.ready = Top.ready
      BY <1>3, MovedAt
    <2>4. Local(a)
      BY <1>1, <2>1 DEF Local
    <2>5. Goes(f) /\ Fresh(f.ready) /\ Fresh(plugins'[a])
      BY <1>3, <2>1, <2>2, <2>3 DEF Fresh
    <2> QED
      BY <1>1, <1>2, <1>3, <2>1, <2>2, <2>3, <2>4, <2>5, LifeDrainGoes
  <1>5. CASE ~ok
    <2>1. /\ state'[a] = "Created" /\ \A b \in Apps : b # a => state'[b] = state[b]
          /\ plugins'[a] = SubSeq(plugins[a], 1, Len(plugins[a]) - 1)
          /\ \A b \in Apps : b # a => plugins'[b] = plugins[b]
          /\ Returns(FALSE)
      BY <1>2, <1>3, <1>5 DEF BuildReturn, TypeOK
    <2>2. Local(a)
      BY <1>1, <1>3, <2>1 DEF Local, Ended
    <2>3. Fresh(plugins'[a])
      <3>1. CASE plugins[a] = <<>>
        BY <2>1, <3>1 DEF Fresh
      <3>2. CASE plugins[a] # <<>>
        <4>1. Len(plugins[a]) - 1 \in 0..Len(plugins[a])
          BY <1>3, <3>2
        <4>2. /\ plugins'[a] \in Seq(Entry) /\ Len(plugins'[a]) = Len(plugins[a]) - 1
              /\ \A i \in 1..Len(plugins[a]) - 1 : plugins'[a][i] = plugins[a][i]
          BY <1>3, <2>1, <4>1, Prefix
        <4>3. \A i \in DOMAIN plugins'[a] : i \in DOMAIN plugins[a]
                                           /\ plugins'[a][i] = plugins[a][i]
          BY <1>3, <4>1, <4>2
        <4> QED
          BY <1>3, <4>3 DEF Fresh
      <3> QED
        BY <3>1, <3>2
    <2> QED
      BY <1>1, <1>2, <1>3, <2>1, <2>2, <2>3, LifeDrainReturns
  <1> QED
    BY <1>4, <1>5

LEMMA LifeAddReturn ==
    ASSUME LifeInv, AddReturn
    PROVE  ShapeInv' /\ CallInv' /\ TreeInv' /\ PluginInv'
  <1>1. /\ stack # <<>> /\ Top.op = "add" /\ ~At("teardown", "plugins") /\ ~Bringing(Top)
        /\ UNCHANGED <<state, plugins, subapps>> /\ Returns(result)
    BY DEF AddReturn, At, Bringing
  <1>2. /\ Top.app \in Apps /\ TypeOK /\ PluginOK(Top.app) /\ pending[Top.app] \in Seq(Entry)
    BY <1>1, TopFacts
  <1>3. PICK a \in Apps : a = Top.app
    BY <1>2
  <1>4. PICK gone \in SUBSET Top.names :
           pending' = [pending EXCEPT ![a] =
                         [i \in DOMAIN pending[a] |->
                            IF pending[a][i].name \in gone
                            THEN [pending[a][i] EXCEPT !.freed = TRUE] ELSE pending[a][i]]]
    <2> DEFINE taken == {n \in Top.names : result \/ n \in NamesOf(plugins[a])}
    <2>1. Top.names \ taken \in SUBSET Top.names
      OBVIOUS
    <2>2. pending' = [pending EXCEPT ![a] =
                         [i \in DOMAIN pending[a] |->
                            IF pending[a][i].name \in Top.names \ taken
                            THEN [pending[a][i] EXCEPT !.freed = TRUE] ELSE pending[a][i]]]
      BY <1>2, <1>3 DEF AddReturn, TypeOK
    <2> HIDE DEF taken
    <2> QED
      BY <2>1, <2>2
  <1>5. /\ pending'[a] = [i \in DOMAIN pending[a] |->
                            IF pending[a][i].name \in gone
                            THEN [pending[a][i] EXCEPT !.freed = TRUE] ELSE pending[a][i]]
        /\ \A b \in Apps : b # a => pending'[b] = pending[b]
    BY <1>2, <1>4 DEF TypeOK
  <1>6. /\ DOMAIN pending'[a] = DOMAIN pending[a]
        /\ \A i \in DOMAIN pending[a] : pending'[a][i].down = pending[a][i].down
    <2>1. DOMAIN pending'[a] = DOMAIN pending[a]
      BY <1>5
    <2>2. ASSUME NEW i \in DOMAIN pending[a]
          PROVE  pending'[a][i].down = pending[a][i].down
      <3>1. PICK e \in Entry : e = pending[a][i]
        BY <1>2, <1>3
      <3>2. [e EXCEPT !.freed = TRUE].down = e.down
        BY DEF Entry
      <3>3. pending'[a][i] = e \/ pending'[a][i] = [e EXCEPT !.freed = TRUE]
        BY <1>5, <3>1
      <3> QED
        BY <3>1, <3>2, <3>3
    <2> QED
      BY <2>1, <2>2
  <1>7. Local(a)
    BY <1>1, <1>5 DEF Local
  <1>8. PluginOK(a)'
    <2>1. pending[a] = <<>> => pending'[a] = <<>>
      BY <1>5
    <2>2. /\ state[a] = "Running" => pending[a] = <<>> /\ Posted(a)
          /\ state[a] = "Shutdown" => \A i \in DOMAIN plugins[a] : plugins[a][i].down
          /\ \A i \in DOMAIN plugins[a] : plugins[a][i].down => state[a] = "Shutdown"
          /\ Fresh(pending[a]) /\ state[a] # "Building"
      BY <1>1, <1>2, <1>3 DEF PluginOK
    <2>3. Fresh(pending'[a])
      BY <1>6, <2>2 DEF Fresh
    <2> QED
      BY <1>1, <2>1, <2>2, <2>3 DEF PluginOK, Posted
  <1>9. \A c \in Call : ~Link(c, Top)
    BY <1>1 DEF Link, PairOK
  <1>10. PICK ok \in BOOLEAN : ok = result
    BY <1>2 DEF TypeOK
  <1> QED
    BY <1>1, <1>3, <1>7, <1>8, <1>9, <1>10, LifeReturns

-----------------------------------------------------------------------------
(* The requests                                                             *)

\* With no call in progress, the states, the plugins and the trees fit as they are.
LEMMA IdleFacts ==
    ASSUME LifeInv, stack = <<>>
    PROVE  /\ OwnedOnce
           /\ \A p, s \in Apps : Child(p, s) =>
                /\ state[s] \in Ended => state[p] \in Ended
                /\ state[p] = "Running" => state[s] = "Running"
                /\ state[p] = "Shutdown" => state[s] = "Shutdown"
           /\ \A b \in Apps :
                /\ state[b] = "Running" => pending[b] = <<>> /\ Posted(b)
                /\ state[b] = "Shutdown" => \A i \in DOMAIN plugins[b] : plugins[b][i].down
                /\ \A i \in DOMAIN plugins[b] : plugins[b][i].down => state[b] = "Shutdown"
                /\ Fresh(pending[b])
                /\ state[b] # "Building"
  <1>1. OwnedOnce /\ \A p, s \in Apps : Child(p, s) => Fits(p, s)
    BY DEF LifeInv, TreeInv
  <1>2. \A p \in Apps : ~Engaged(p) /\ ~Tearing(p)
    BY DEF Engaged, Tearing
  <1>3. \A b \in Apps : PluginOK(b)
    BY DEF LifeInv, PluginInv
  <1>4. ~At("teardown", "plugins")
    BY DEF At
  <1> QED
    BY <1>1, <1>2, <1>3, <1>4 DEF Fits, PluginOK

\* Requests from outside all calls: one call of an app, or one and the call it makes.
LEMMA LifeBegins ==
    ASSUME LifeInv, stack = <<>>, UNCHANGED <<state, plugins, subapps>>,
           \A b \in Apps :
             Fresh(pending'[b]) /\ (state[b] = "Running" => pending'[b] = pending[b]),
           NEW a \in Apps, NEW cs \in Seq(Call), stack' = cs, Len(cs) <= 2,
           \A k \in DOMAIN cs :
             /\ cs[k].app = a /\ cs[k].ready = <<>> /\ Steady(cs[k])' /\ Arrived(cs[k])'
             /\ cs[k].op \in {"add", "drain"} \/ ~Owned(a),
           Len(cs) = 2 => PairOK(cs[1], cs[2])
    PROVE  ShapeInv' /\ CallInv' /\ TreeInv' /\ PluginInv'
  <1>1. DOMAIN cs = 1..Len(cs) /\ Len(cs) \in Nat
    OBVIOUS
  <1>2. NestedInv'
    <2>1. PICK rank \in [Apps -> Nat] : Nested(rank)
      BY DEF LifeInv, ShapeInv, NestedInv
    <2>2. \A i, j \in DOMAIN cs : i < j => i = 1 /\ j = 2 /\ Len(cs) = 2
      BY <1>1
    <2>3. Nested(rank)'
      BY <1>1, <2>1, <2>2 DEF Nested
    <2> QED
      BY <2>3 DEF NestedInv
  <1>3. LinkInv'
    <2>1. \A i \in 1..Len(cs) - 1 : i = 1 /\ i + 1 = 2 /\ Len(cs) = 2 /\ i \in DOMAIN cs
                                    /\ i + 1 \in DOMAIN cs
      BY <1>1
    <2> QED
      BY <2>1 DEF LinkInv, Link, PairOK
  <1>4. OwnerInv'
    BY DEF OwnerInv, Owned, Child
  <1>5. CallInv'
    <2>1. cs # <<>> => Len(cs) \in DOMAIN cs
      BY <1>1
    <2>2. \A k \in DOMAIN cs : Steady(stack[k])'
      BY DEF Steady, SteadyDrain, SteadyPost, SteadyPrepare, SteadyTeardown, Posted
    <2>3. cs # <<>> => Arrived(Top)'
      BY <2>1 DEF Top, Arrived, Posted
    <2> QED
      BY <2>2, <2>3 DEF CallInv
  <1>6. TreeInv'
    BY IdleFacts DEF TreeInv, OwnedOnce, Fits, Child
  <1>7. PluginInv'
    <2>1. \A b \in Apps : PluginOK(b)'
      BY IdleFacts DEF PluginOK, Posted
    <2>2. cs # <<>> => Len(cs) \in DOMAIN cs
      BY <1>1
    <2>3. cs # <<>> => Fresh(Top.ready)'
      BY <2>2 DEF Top, Fresh
    <2> QED
      BY <2>1, <2>3 DEF PluginInv
  <1> QED
    BY <1>2, <1>3, <1>4, <1>5, <1>6, <1>7 DEF ShapeInv

LEMMA StackTop ==
    ASSUME stack \in Seq(Call), stack # <<>>
    PROVE  stack = Append(Callers, Top)
  <1>1. /\ Callers \in Seq(Call) /\ Len(Callers) = Len(stack) - 1 /\ Len(stack) \in Nat \ {0}
        /\ \A i \in 1..Len(stack) - 1 : Callers[i] = stack[i]
        /\ Top \in Call /\ Top = stack[Len(stack)]
    BY StackParts DEF Top
  <1>2. PICK cs \in Seq(Call) : cs = Callers
    BY <1>1
  <1>3. PICK c \in Call : c = Top
    BY <1>1
  <1>4. /\ Append(cs, c) \in Seq(Call) /\ Len(Append(cs, c)) = Len(cs) + 1
        /\ \A i \in 1..Len(cs) : Append(cs, c)[i] = cs[i]
        /\ Append(cs, c)[Len(cs) + 1] = c
    BY AppendProperties
  <1>5. Len(Append(cs, c)) = Len(stack)
    BY <1>1, <1>2, <1>4
  <1>6. \A i \in 1..Len(stack) : Append(cs, c)[i] = stack[i]
    <2>1. \A i \in 1..Len(stack) : i \in 1..Len(stack) - 1 \/ i = Len(stack)
      BY <1>1
    <2>2. Len(cs) = Len(stack) - 1 /\ Len(cs) + 1 = Len(stack)
      BY <1>1, <1>2
    <2> QED
      BY <1>1, <1>2, <1>3, <1>4, <2>1, <2>2
  <1>7. stack = Append(cs, c)
    BY <1>4, <1>5, <1>6, SeqEqual
  <1> QED
    BY <1>2, <1>3, <1>7

LEMMA LifeAddPlugin ==
    ASSUME LifeInv, NEW a \in Apps, NEW n \in Names, NEW deps \in Dependencies,
           AddPlugin(a, n, deps)
    PROVE  ShapeInv' /\ CallInv' /\ TreeInv' /\ PluginInv'
  <1> DEFINE ps == Append(pending[a], NewEntry(n, deps))
  <1>1. /\ TypeOK /\ pending[a] \in Seq(Entry) /\ state[a] \in {"Created", "Building"}
        /\ pending' = [pending EXCEPT ![a] = ps] /\ ClientRuns(a)
        /\ UNCHANGED <<state, plugins, subapps, result>>
    BY DEF AddPlugin, CanAdd, LifeInv, OrderInv, TypeOK
  <1>2. PICK e \in Entry : e = NewEntry(n, deps)
    BY AppAssumption DEF NewEntry, Entry
  <1>3. pending'[a] = Append(pending[a], e) /\ \A b \in Apps : b # a => pending'[b] = pending[b]
    BY <1>1, <1>2 DEF TypeOK
  <1>4. ~e.down
    BY <1>2 DEF NewEntry
  <1>5. CASE stack = <<>>
    <2>1. /\ \A b \in Apps : Fresh(pending[b]) /\ state[b] # "Building"
          /\ state[a] = "Created"
      BY <1>1, <1>5, IdleFacts
    <2>2. Fresh(pending'[a])
      BY <1>1, <1>3, <1>4, <2>1 DEF Fresh
    <2>3. \A b \in Apps :
            Fresh(pending'[b]) /\ (state[b] = "Running" => pending'[b] = pending[b])
      BY <1>3, <2>1, <2>2
    <2>4. CASE stack' = stack
      <3>1. PICK cs \in Seq(Call) : cs = <<>>
        <4>1. <<>> \in Seq(Call)
          OBVIOUS
        <4> QED
          BY <4>1
      <3>2. stack' = cs /\ Len(cs) = 0 /\ DOMAIN cs = {}
        BY <1>5, <2>4, <3>1
      <3>3. Len(cs) <= 2 /\ (Len(cs) = 2 => PairOK(cs[1], cs[2]))
        BY <3>2
      <3>4. \A k \in DOMAIN cs :
              /\ cs[k].app = a /\ cs[k].ready = <<>> /\ Steady(cs[k])' /\ Arrived(cs[k])'
              /\ cs[k].op \in {"add", "drain"} \/ ~Owned(a)
        BY <3>2
      <3>5. UNCHANGED <<state, plugins, subapps>>
        BY <1>1
      <3> QED
        BY <1>5, <2>3, <3>2, <3>3, <3>4, <3>5, LifeBegins
    <2>5. CASE stack' # stack
      <3> DEFINE c == [NewCall("add", a) EXCEPT !.names = {n}]
                 d == NewCall("drain", a)
      <3>1. c \in Call /\ d \in Call
        <4>1. NewCall("add", a) \in Call /\ NewCall("drain", a) \in Call
          BY NewCallType
        <4> QED
          BY <4>1 DEF Call
      <3>2. /\ c.op = "add" /\ c.app = a /\ c.ready = <<>>
            /\ d.op = "drain" /\ d.app = a /\ d.ready = <<>> /\ d.at = "start"
        BY DEF NewCall
      <3>3. stack' = stack \o <<c, d>>
        BY <2>5 DEF AddPlugin
      <3> HIDE DEF c, d
      <3>4. PICK f \in Call, g \in Call : f = c /\ g = d
        BY <3>1
      <3>5. PICK cs \in Seq(Call) : cs = <<f, g>>
        <4>1. <<f, g>> \in Seq(Call)
          OBVIOUS
        <4> QED
          BY <4>1
      <3>6. Len(cs) = 2 /\ DOMAIN cs = {1, 2} /\ cs[1] = f /\ cs[2] = g
        BY <3>5
      <3>7. stack' = cs
        BY <1>5, <3>3, <3>4, <3>5
      <3>8. Steady(f)' /\ Arrived(f)' /\ Steady(g)' /\ Arrived(g)'
        BY <1>1, <2>1, <3>2, <3>4 DEF Steady, SteadyDrain, SteadyPost, SteadyPrepare,
           SteadyTeardown, Arrived
      <3>9. PairOK(f, g)
        BY <3>2, <3>4 DEF PairOK
      <3>10. \A k \in DOMAIN cs :
               /\ cs[k].app = a /\ cs[k].ready = <<>> /\ Steady(cs[k])' /\ Arrived(cs[k])'
               /\ cs[k].op \in {"add", "drain"} \/ ~Owned(a)
        BY <3>2, <3>4, <3>6, <3>8
      <3>11. /\ Len(cs) <= 2 /\ (Len(cs) = 2 => PairOK(cs[1], cs[2]))
             /\ UNCHANGED <<state, plugins, subapps>>
        BY <1>1, <3>6, <3>9
      <3> QED
        BY <1>5, <2>3, <3>7, <3>10, <3>11, LifeBegins
    <2> QED
      BY <2>4, <2>5
  <1>6. CASE stack # <<>>
    <2>1. Top.op = "drain" /\ Top.at = "build" /\ Top.app = a
      BY <1>1, <1>6 DEF ClientRuns, At
    <2>2. /\ Top \in Call /\ state[a] = "Building" /\ Fresh(plugins[a]) /\ Fresh(pending[a])
          /\ Fresh(Top.ready)
      BY <1>6, <2>1, DrainFacts
    <2>3. stack' = stack
      BY <2>2 DEF AddPlugin
    <2>4. PICK f \in Call : f = Top
      BY <2>2
    <2>5. Goes(f)
      BY <1>1, <1>6, <2>3, <2>4, StackTop DEF Goes, TypeOK
    <2>6. Local(a)
      BY <1>1, <1>3, <2>1 DEF Local
    <2>7. Fresh(pending'[a]) /\ Fresh(plugins'[a])
      BY <1>1, <1>3, <1>4, <2>2 DEF Fresh
    <2> QED
      BY <1>1, <1>6, <2>1, <2>2, <2>4, <2>5, <2>6, <2>7, LifeDrainGoes
  <1> QED
    BY <1>5, <1>6

LEMMA LifeStarts ==
    ASSUME LifeInv, NEW a \in Apps, Prepare(a) \/ Run(a) \/ Teardown(a)
    PROVE  ShapeInv' /\ CallInv' /\ TreeInv' /\ PluginInv'
  <1>1. /\ stack = <<>> /\ ~Owned(a) /\ UNCHANGED <<state, plugins, pending, subapps>>
    BY DEF Prepare, Run, Teardown
  <1>2. \A b \in Apps : Fresh(pending'[b]) /\ (state[b] = "Running" => pending'[b] = pending[b])
    BY <1>1, IdleFacts
  <1>3. ASSUME NEW op \in {"prepare", "teardown"}, stack' = <<NewCall(op, a)>>
        PROVE  ShapeInv' /\ CallInv' /\ TreeInv' /\ PluginInv'
    <2>1. PICK c \in Call : c = NewCall(op, a) /\ c.app = a /\ c.ready = <<>>
      BY NewCallFields
    <2>2. Steady(c)' /\ Arrived(c)'
      BY <2>1, NewCallSteady
    <2>3. PICK cs \in Seq(Call) : cs = <<c>>
      <3>1. <<c>> \in Seq(Call)
        OBVIOUS
      <3> QED
        BY <3>1
    <2>4. Len(cs) = 1 /\ DOMAIN cs = {1} /\ cs[1] = c /\ stack' = cs
      BY <1>3, <2>1, <2>3
    <2>5. /\ Len(cs) <= 2 /\ (Len(cs) = 2 => PairOK(cs[1], cs[2]))
          /\ UNCHANGED <<state, plugins, subapps>>
      BY <1>1, <2>4
    <2>6. \A k \in DOMAIN cs :
            /\ cs[k].app = a /\ cs[k].ready = <<>> /\ Steady(cs[k])' /\ Arrived(cs[k])'
            /\ cs[k].op \in {"add", "drain"} \/ ~Owned(a)
      BY <1>1, <2>1, <2>2, <2>4
    <2> QED
      BY <1>1, <1>2, <2>4, <2>5, <2>6, LifeBegins
  <1>4. ASSUME Run(a)
        PROVE  ShapeInv' /\ CallInv' /\ TreeInv' /\ PluginInv'
    <2>1. PICK c \in Call : /\ c = [NewCall("run", a) EXCEPT !.at = "prepare"]
                            /\ c.op = "run" /\ c.at = "prepare" /\ c.app = a /\ c.ready = <<>>
      <3>1. [NewCall("run", a) EXCEPT !.at = "prepare"] \in Call
        <4>1. NewCall("run", a) \in Call
          BY NewCallType
        <4> QED
          BY <4>1 DEF Call, Places
      <3> QED
        BY <3>1 DEF NewCall
    <2>2. PICK d \in Call : d = NewCall("prepare", a) /\ d.op = "prepare" /\ d.app = a /\ d.ready = <<>>
      BY NewCallFields
    <2>3. Steady(c)' /\ Arrived(c)' /\ Steady(d)' /\ Arrived(d)'
      <3>1. Steady(d)' /\ Arrived(d)'
        BY <2>2, NewCallSteady
      <3>2. Steady(c)' /\ Arrived(c)'
        BY <2>1 DEF Steady, SteadyDrain, SteadyPost, SteadyPrepare, SteadyTeardown, Arrived
      <3> QED
        BY <3>1, <3>2
    <2>4. PICK cs \in Seq(Call) : cs = <<c, d>>
      <3>1. <<c, d>> \in Seq(Call)
        OBVIOUS
      <3> QED
        BY <3>1
    <2>5. Len(cs) = 2 /\ DOMAIN cs = {1, 2} /\ cs[1] = c /\ cs[2] = d /\ stack' = cs
      BY <1>4, <2>1, <2>2, <2>4 DEF Run
    <2>6. PairOK(c, d)
      BY <2>1, <2>2 DEF PairOK
    <2>7. \A k \in DOMAIN cs :
            /\ cs[k].app = a /\ cs[k].ready = <<>> /\ Steady(cs[k])' /\ Arrived(cs[k])'
            /\ cs[k].op \in {"add", "drain"} \/ ~Owned(a)
      BY <1>1, <2>1, <2>2, <2>3, <2>5
    <2>8. /\ Len(cs) <= 2 /\ (Len(cs) = 2 => PairOK(cs[1], cs[2]))
          /\ UNCHANGED <<state, plugins, subapps>>
      BY <1>1, <2>5, <2>6
    <2> QED
      BY <1>1, <1>2, <2>5, <2>7, <2>8, LifeBegins
  <1> QED
    BY <1>3, <1>4 DEF Prepare, Run, Teardown

LEMMA LifeUpdate ==
    ASSUME LifeInv, NEW a \in Apps, NEW extracted \in BOOLEAN, Update(a, extracted)
    PROVE  ShapeInv' /\ CallInv' /\ TreeInv' /\ PluginInv'
  <1>1. /\ UNCHANGED <<state, plugins, pending, subapps, stack>>
        /\ stack # <<>> => Top.op = "run"
    BY DEF Update, At
  <1>2. ShapeInv'
    BY <1>1 DEF LifeInv, ShapeInv, NestedInv, Nested, LinkInv, Link, PairOK, OwnerInv, Owned,
       Child, Engages
  <1>3. CallInv'
    <2>1. \A k \in DOMAIN stack : Steady(stack[k])'
      BY <1>1 DEF LifeInv, CallInv, Steady, SteadyDrain, SteadyPost, SteadyPrepare,
         SteadyTeardown, Posted
    <2>2. stack # <<>> => Arrived(Top)'
      BY <1>1 DEF Arrived, Top
    <2> QED
      BY <1>1, <2>1, <2>2 DEF CallInv
  <1>4. TreeInv'
    BY <1>1 DEF LifeInv, TreeInv, OwnedOnce, Fits, Child, Engaged, Tearing
  <1>5. PluginInv'
    BY <1>1 DEF LifeInv, PluginInv, PluginOK, Posted, Fresh, At, Top
  <1> QED
    BY <1>2, <1>3, <1>4, <1>5

\* An app joins the subapps of one that is not inside another app: the calls in
\* progress, if any, are that app's own, on the way to the build of a plugin.
LEMMA LifeInsert ==
    ASSUME LifeInv, NEW p \in Apps, NEW s \in Apps, InsertSubapp(p, s)
    PROVE  ShapeInv' /\ CallInv' /\ TreeInv' /\ PluginInv'
  <1>1. /\ TypeOK /\ UNCHANGED <<state, plugins, pending, stack, result>>
        /\ subapps[p] \in Seq(Apps) /\ p # s /\ ~Owned(p) /\ ~Owned(s)
        /\ state[p] \notin Ended /\ state[s] = "Created" /\ ClientRuns(p)
    BY DEF InsertSubapp, LifeInv, OrderInv, TypeOK, Ended
  <1>2. PICK rank \in [Apps -> Nat] : Nested(rank)
    BY DEF LifeInv, ShapeInv, NestedInv
  <1>3. \A q \in Apps : \A i \in DOMAIN subapps[q] : subapps[q][i] \in Apps \ {p, s}
    BY <1>1 DEF TypeOK, Owned
  <1>4. PICK n \in Nat : n = Len(subapps[p])
    BY <1>1
  <1>5. /\ \A q \in Apps : q # p => subapps'[q] = subapps[q]
        /\ DOMAIN subapps[p] = 1..n /\ DOMAIN subapps'[p] = 1..n + 1
        /\ \A i \in 1..n : subapps'[p][i] = subapps[p][i]
        /\ subapps'[p][n + 1] = s
    <2>1. subapps'[p] = Append(subapps[p], s) /\ \A q \in Apps : q # p => subapps'[q] = subapps[q]
      BY <1>1 DEF InsertSubapp, TypeOK
    <2> QED
      BY <1>1, <1>4, <2>1, AppendProperties
  <1>6. \A k \in 1..n + 1 : k \in 1..n \/ k = n + 1
    BY <1>4
  <1>7. \A q, t \in Apps : Child(q, t)' <=> Child(q, t) \/ (q = p /\ t = s)
    <2>1. n + 1 \in 1..n + 1 /\ 1..n \subseteq 1..n + 1
      BY <1>4
    <2> QED
      BY <1>5, <1>6, <2>1 DEF Child
  <1>8. \A t \in Apps : Owned(t)' <=> Owned(t) \/ t = s
    BY <1>7 DEF Owned, Child
  \* The calls in progress are p's.
  <1>9. \A k \in DOMAIN stack :
          /\ stack[k] \in Call /\ stack[k].app = p
          /\ stack[k].op \in {"add", "drain", "run", "prepare"}
          /\ stack[k].op = "prepare" => stack[k].at = "drain"
    <2> SUFFICES ASSUME NEW k \in DOMAIN stack
                 PROVE  /\ stack[k] \in Call /\ stack[k].app = p
                        /\ stack[k].op \in {"add", "drain", "run", "prepare"}
                        /\ stack[k].op = "prepare" => stack[k].at = "drain"
      OBVIOUS
    <2>1. stack # <<>>
      OBVIOUS
    <2>2. Top.op = "drain" /\ Top.app = p /\ Top = stack[Len(stack)]
      BY <1>1, <2>1 DEF ClientRuns, At, Top
    <2>3. DOMAIN stack = 1..Len(stack) /\ Len(stack) \in DOMAIN stack /\ stack[k] \in Call
      BY <1>1, <2>1, StackParts DEF TypeOK
    <2>4. CASE k = Len(stack)
      BY <2>2, <2>3, <2>4
    <2>5. CASE k # Len(stack)
      <3>1. k < Len(stack)
        BY <2>3, <2>5
      <3>2. \/ stack[k].app = p /\ PairOK(stack[k], Top)
            \/ Owned(p)
        BY <1>2, <2>2, <2>3, <3>1 DEF Nested
      <3> QED
        BY <1>1, <2>2, <2>3, <3>2 DEF PairOK
    <2> QED
      BY <2>4, <2>5
  <1>10. \A i, j \in DOMAIN stack : i < j => PairOK(stack[i], stack[j])
    BY <1>1, <1>9, SameApp DEF LifeInv
  <1>11. NestedInv'
    <2> DEFINE r == [rank EXCEPT ![p] = rank[p] + rank[s] + 1]
    <2>1. r \in [Apps -> Nat] /\ r[p] = rank[p] + rank[s] + 1
          /\ \A q \in Apps : q # p => r[q] = rank[q]
      BY <1>2
    <2> HIDE DEF r
    <2>2. ASSUME NEW q \in Apps, NEW t \in Apps, Child(q, t)' PROVE r[t] < r[q]
      <3>1. CASE Child(q, t)
        <4>1. t # p /\ rank[t] < rank[q]
          BY <1>2, <1>3, <3>1 DEF Child, Nested
        <4>2. rank[q] <= r[q]
          BY <1>2, <2>1
        <4>3. rank[t] \in Nat /\ rank[q] \in Nat /\ r[q] \in Nat
          BY <1>2, <2>1
        <4> QED
          BY <2>1, <4>1, <4>2, <4>3
      <3>2. CASE q = p /\ t = s
        BY <1>1, <1>2, <2>1, <3>2
      <3> QED
        BY <1>7, <2>2, <3>1, <3>2
    <2>3. ASSUME NEW q \in Apps, NEW i \in DOMAIN subapps'[q] PROVE r[subapps'[q][i]] < r[q]
      <3>1. PICK t \in Apps : t = subapps'[q][i]
        BY <1>3, <1>5, <1>6
      <3>2. Child(q, t)'
        BY <3>1 DEF Child
      <3> QED
        BY <2>2, <3>1, <3>2
    <2>4. Nested(r)'
      BY <1>1, <1>9, <1>10, <2>2, <2>3 DEF Nested, PairOK
    <2> QED
      BY <2>1, <2>4 DEF NestedInv
  <1>12. LinkInv'
    <2>1. \A i \in 1..Len(stack) - 1 : i \in DOMAIN stack /\ i + 1 \in DOMAIN stack /\ i < i + 1
      BY <1>1 DEF TypeOK
    <2>2. \A i \in 1..Len(stack) - 1 :
            stack[i].app = stack[i + 1].app /\ PairOK(stack[i], stack[i + 1])
      BY <1>9, <1>10, <2>1
    <2> QED
      BY <1>1, <2>2 DEF LinkInv, Link, PairOK
  <1>13. OwnerInv'
    <2>1. \A q \in Apps : ~Child(q, p)'
      BY <1>1, <1>7 DEF Owned, Child
    <2>2. ~Owned(p)'
      BY <1>1, <1>8
    <2>3. /\ \A q \in Apps : \A i \in DOMAIN subapps'[q] : subapps'[q][i] # p
      BY <2>1 DEF Child
    <2> QED
      BY <1>1, <1>9, <2>3 DEF OwnerInv, Owned, Child
  <1>14. CallInv'
    <2>1. ASSUME NEW k \in DOMAIN stack PROVE Steady(stack[k])'
      <3>1. PICK c \in Call : c = stack[k]
        BY <1>9
      <3>2. c.op \in {"add", "drain", "run", "prepare"} /\ (c.op = "prepare" => c.at = "drain")
        BY <1>9, <3>1
      <3>3. Steady(c)
        BY <3>1 DEF LifeInv, CallInv
      <3>4. Steady(c)'
        BY <1>1, <3>2, <3>3 DEF Steady, SteadyDrain, SteadyPost, SteadyPrepare, SteadyTeardown
      <3> QED
        BY <1>1, <3>1, <3>4 DEF Steady, SteadyDrain, SteadyPost, SteadyPrepare, SteadyTeardown,
           Posted
    <2>2. stack # <<>> => Arrived(Top)'
      <3>1. stack # <<>> => Top.op = "drain"
        BY <1>1 DEF ClientRuns, At
      <3> QED
        BY <1>1, <3>1 DEF Arrived, Top
    <2> QED
      BY <1>1, <2>1, <2>2 DEF CallInv
  <1>15. TreeInv'
    <2>1. OwnedOnce'
      <3>1. OwnedOnce
        BY DEF LifeInv, TreeInv
      <3>2. ASSUME NEW q \in Apps, NEW t \in Apps,
                   NEW i \in DOMAIN subapps'[q], NEW j \in DOMAIN subapps'[t],
                   subapps'[q][i] = subapps'[t][j]
            PROVE  q = t /\ i = j
        <4>1. (i \in DOMAIN subapps[q] /\ subapps'[q][i] = subapps[q][i])
              \/ (q = p /\ i = n + 1 /\ subapps'[q][i] = s)
          BY <1>5, <1>6
        <4>2. (j \in DOMAIN subapps[t] /\ subapps'[t][j] = subapps[t][j])
              \/ (t = p /\ j = n + 1 /\ subapps'[t][j] = s)
          BY <1>5, <1>6
        <4> QED
          BY <1>3, <3>1, <3>2, <4>1, <4>2 DEF OwnedOnce
      <3> QED
        BY <3>2 DEF OwnedOnce
    <2>2. ASSUME NEW q \in Apps, NEW t \in Apps, Child(q, t)' PROVE Fits(q, t)'
      <3>1. (Engaged(q) => Engaged(q)') /\ (Tearing(q) => Tearing(q)')
        BY <1>1 DEF Engaged, Tearing
      <3>2. CASE Child(q, t)
        <4>1. Fits(q, t)
          BY <3>2 DEF LifeInv, TreeInv
        <4> QED
          BY <1>1, <3>1, <4>1 DEF Fits
      <3>3. CASE q = p /\ t = s
        BY <1>1, <3>3 DEF Fits, Ended
      <3> QED
        BY <1>7, <2>2, <3>2, <3>3
    <2> QED
      BY <2>1, <2>2 DEF TreeInv
  <1>16. PluginInv'
    BY <1>1 DEF LifeInv, PluginInv, PluginOK, Posted, Fresh, At, Top
  <1> QED
    BY <1>11, <1>12, <1>13, <1>14, <1>15, <1>16 DEF ShapeInv

LEMMA LifeRemove ==
    ASSUME LifeInv, NEW p \in Apps, NEW i \in DOMAIN subapps[p], RemoveSubapp(p, i)
    PROVE  ShapeInv' /\ CallInv' /\ TreeInv' /\ PluginInv'
  <1>1. /\ TypeOK /\ stack = <<>> /\ UNCHANGED <<state, plugins, pending, stack, result>>
        /\ subapps[p] \in Seq(Apps)
    BY DEF RemoveSubapp, LifeInv, OrderInv, TypeOK
  <1>2. PICK n \in Nat : n = Len(subapps[p])
    BY <1>1
  <1>3. /\ \A q \in Apps : q # p => subapps'[q] = subapps[q]
        /\ DOMAIN subapps[p] = 1..n /\ DOMAIN subapps'[p] = 1..n - 1 /\ i \in 1..n
        /\ \A j \in 1..n - 1 :
             subapps'[p][j] = IF j < i THEN subapps[p][j] ELSE subapps[p][j + 1]
    <2>1. subapps'[p] = RemoveAt(subapps[p], i) /\ \A q \in Apps : q # p => subapps'[q] = subapps[q]
      BY <1>1 DEF RemoveSubapp, TypeOK
    <2> QED
      BY <1>1, <1>2, <2>1, RemoveAtParts
  <1>4. \A j, k \in 1..n - 1 :
          \E u, v \in 1..n : /\ subapps'[p][j] = subapps[p][u] /\ subapps'[p][k] = subapps[p][v]
                             /\ u = v => j = k
    <2> SUFFICES ASSUME NEW j \in 1..n - 1, NEW k \in 1..n - 1
                 PROVE  \E u, v \in 1..n :
                           /\ subapps'[p][j] = subapps[p][u] /\ subapps'[p][k] = subapps[p][v]
                           /\ u = v => j = k
      OBVIOUS
    <2>1. PICK u \in 1..n : /\ subapps'[p][j] = subapps[p][u]
                            /\ u = IF j < i THEN j ELSE j + 1
      BY <1>2, <1>3
    <2>2. PICK v \in 1..n : /\ subapps'[p][k] = subapps[p][v]
                            /\ v = IF k < i THEN k ELSE k + 1
      BY <1>2, <1>3
    <2>3. u = v => j = k
      BY <1>2, <1>3, <2>1, <2>2
    <2> QED
      BY <2>1, <2>2, <2>3
  <1>5. \A q \in Apps : \A j \in DOMAIN subapps'[q] : \E k \in DOMAIN subapps[q] :
          subapps'[q][j] = subapps[q][k]
    <2> SUFFICES ASSUME NEW q \in Apps, NEW j \in DOMAIN subapps'[q]
                 PROVE  \E k \in DOMAIN subapps[q] : subapps'[q][j] = subapps[q][k]
      OBVIOUS
    <2>1. CASE q = p
      <3>1. j \in 1..n - 1
        BY <1>3, <2>1
      <3>2. PICK u \in 1..n : subapps'[p][j] = subapps[p][u]
        BY <1>4, <3>1
      <3> QED
        BY <1>3, <2>1, <3>2
    <2>2. CASE q # p
      BY <1>3, <2>2
    <2> QED
      BY <2>1, <2>2
  <1>6. ShapeInv'
    <2>1. PICK rank \in [Apps -> Nat] : Nested(rank)
      BY DEF LifeInv, ShapeInv, NestedInv
    <2>2. Nested(rank)'
      BY <1>1, <1>5, <2>1 DEF Nested
    <2>3. NestedInv' /\ LinkInv' /\ OwnerInv'
      BY <1>1, <2>1, <2>2 DEF NestedInv, LinkInv, OwnerInv
    <2> QED
      BY <2>3 DEF ShapeInv
  <1>7. CallInv'
    BY <1>1 DEF CallInv
  <1>8. TreeInv'
    <2>1. OwnedOnce
      BY DEF LifeInv, TreeInv
    <2>2. ASSUME NEW q \in Apps, NEW t \in Apps,
                 NEW j \in DOMAIN subapps'[q], NEW k \in DOMAIN subapps'[t],
                 subapps'[q][j] = subapps'[t][k]
          PROVE  q = t /\ j = k
      <3>1. q = t
        BY <1>5, <2>1, <2>2 DEF OwnedOnce
      <3>2. CASE q # p
        BY <1>3, <2>1, <2>2, <3>1, <3>2 DEF OwnedOnce
      <3>3. CASE q = p
        <4>1. j \in 1..n - 1 /\ k \in 1..n - 1
          BY <1>3, <3>1, <3>3
        <4>2. PICK u \in 1..n, v \in 1..n :
                 /\ subapps'[p][j] = subapps[p][u] /\ subapps'[p][k] = subapps[p][v]
                 /\ u = v => j = k
          BY <1>4, <4>1
        <4>3. u = v
          BY <1>3, <2>1, <2>2, <3>1, <3>3, <4>2 DEF OwnedOnce
        <4> QED
          BY <3>1, <4>2, <4>3
      <3> QED
        BY <3>2, <3>3
    <2>3. \A q, t \in Apps : Child(q, t)' => Child(q, t)
      BY <1>5 DEF Child
    <2>4. \A q, t \in Apps : Child(q, t)' => Fits(q, t)'
      BY <1>1, <2>3, IdleFacts DEF Fits
    <2> QED
      BY <2>2, <2>4 DEF TreeInv, OwnedOnce
  <1>9. PluginInv'
    BY <1>1 DEF LifeInv, PluginInv, PluginOK, Posted, Fresh, At, Top
  <1> QED
    BY <1>6, <1>7, <1>8, <1>9

LEMMA LifeClient ==
    ASSUME LifeInv, Client
    PROVE  ShapeInv' /\ CallInv' /\ TreeInv' /\ PluginInv'
  BY LifeAddPlugin, LifeStarts, LifeUpdate, LifeInsert, LifeRemove DEF Client

LEMMA LifeIdle ==
    ASSUME LifeInv, UNCHANGED vars
    PROVE  ShapeInv' /\ CallInv' /\ TreeInv' /\ PluginInv'
  <1> USE DEF vars
  <1>1. ShapeInv'
    BY DEF LifeInv, ShapeInv, NestedInv, Nested, LinkInv, Link, PairOK, OwnerInv, Owned,
       Child, Engages
  <1>2. CallInv'
    BY DEF LifeInv, CallInv, Steady, SteadyDrain, SteadyPost, SteadyPrepare,
       SteadyTeardown, Posted, Arrived, Top
  <1>3. TreeInv'
    BY DEF LifeInv, TreeInv, OwnedOnce, Fits, Child, Engaged, Tearing
  <1>4. PluginInv'
    BY DEF LifeInv, PluginInv, PluginOK, Posted, Fresh, At, Top
  <1> QED
    BY <1>1, <1>2, <1>3, <1>4

LEMMA LifeNext ==
    ASSUME LifeInv, [Next]_vars
    PROVE  LifeInv'
  <1>1. OrderInv'
    BY OrderNext DEF LifeInv
  <1>2. ShapeInv' /\ CallInv' /\ TreeInv' /\ PluginInv'
    <2>1. CASE AddReturn \/ DrainStart \/ DrainTake \/ DrainCollected \/ BuildCall
      BY <2>1, LifeAddReturn, LifeDrainStart, LifeDrainTake, LifeDrainCollected, LifeBuildCall
    <2>2. CASE \E ok \in BOOLEAN : BuildReturn(ok) \/ PostPlugin(ok)
      BY <2>2, LifeBuildReturn, LifePostPlugin
    <2>3. CASE PostStart \/ PostSubapps \/ PostDone
      BY <2>3, LifePostStart, LifePostSubapps, LifePostDone
    <2>4. CASE \/ PrepareStart \/ PrepareDrained \/ PreparePosted \/ PrepareSubapps \/ PrepareDone
      BY <2>4, LifePrepareStart, LifePrepareDrained, LifePreparePosted, LifePrepareSubapps,
         LifePrepareDone
    <2>5. CASE RunPrepared \/ RunnerReturn \/ RunReturn
      BY <2>5, LifeRun
    <2>6. CASE TeardownSubapps \/ TeardownPlugin \/ TeardownDone
      BY <2>6, LifeTeardownSubapps, LifeTeardownPlugin, LifeTeardownDone
    <2>7. CASE Client
      BY <2>7, LifeClient
    <2>8. CASE Finished \/ UNCHANGED vars
      BY <2>8, LifeIdle DEF Finished
    <2> QED
      BY <2>1, <2>2, <2>3, <2>4, <2>5, <2>6, <2>7, <2>8 DEF Next, Internal
  <1> QED
    BY <1>1, <1>2 DEF LifeInv

LEMMA LifeInit == Init => LifeInv
  <1> SUFFICES ASSUME Init PROVE LifeInv
    OBVIOUS
  <1>1. OrderInv
    BY TypeInit DEF Init, OrderInv, DrainInv, ReadySatisfied, DependenciesFirst
  <1>2. stack = <<>> /\ \A a \in Apps : subapps[a] = <<>> /\ plugins[a] = <<>> /\ pending[a] = <<>>
                                        /\ state[a] = "Created"
    BY DEF Init
  <1>3. ShapeInv
    <2> DEFINE r == [a \in Apps |-> 0]
    <2>1. r \in [Apps -> Nat] /\ Nested(r)
      BY <1>2 DEF Nested
    <2> HIDE DEF r
    <2>2. NestedInv
      BY <2>1 DEF NestedInv
    <2> QED
      BY <1>2, <2>2 DEF ShapeInv, LinkInv, OwnerInv
  <1>4. CallInv /\ TreeInv
    BY <1>2 DEF CallInv, TreeInv, OwnedOnce, Child
  <1>5. PluginInv
    BY <1>2 DEF PluginInv, PluginOK, Fresh
  <1> QED
    BY <1>1, <1>3, <1>4, <1>5 DEF LifeInv

-----------------------------------------------------------------------------
(* States, queues and plugins fit                                           *)

LEMMA LifeSpec == Spec => []LifeInv
  BY LifeInit, LifeNext, PTL DEF Spec

LEMMA BuildingOfLife == LifeInv => BuildingIffDraining
  <1> SUFFICES ASSUME LifeInv, NEW a \in Apps
               PROVE  state[a] = "Building" <=>
                        \E i \in DOMAIN stack : stack[i].op = "drain" /\ stack[i].app = a
                                                /\ stack[i].at # "start"
    BY DEF BuildingIffDraining
  <1>1. PluginOK(a) /\ DrainInv /\ TypeOK
    BY DEF LifeInv, PluginInv, OrderInv
  <1>2. state[a] = "Building" => \E i \in DOMAIN stack :
                                    stack[i].op = "drain" /\ stack[i].app = a
                                    /\ stack[i].at # "start"
    <2>1. stack # <<>> => Len(stack) \in DOMAIN stack /\ Top = stack[Len(stack)]
      BY <1>1, StackParts DEF TypeOK, Top
    <2> QED
      BY <1>1, <2>1 DEF PluginOK
  <1> QED
    BY <1>1, <1>2 DEF DrainInv

LEMMA RunningOfLife == LifeInv => RunningReady
  <1> SUFFICES ASSUME LifeInv, NEW a \in Apps, state[a] = "Running",
                      \A b \in Apps : ~Calling("teardown", b)
               PROVE  /\ pending[a] = <<>>
                      /\ \A i \in DOMAIN plugins[a] :
                            plugins[a][i].posted > 0 /\ ~plugins[a][i].down
                      /\ \A i \in DOMAIN subapps[a] : state[subapps[a][i]] = "Running"
    BY DEF RunningReady
  <1>1. PluginOK(a) /\ TypeOK
    BY DEF LifeInv, PluginInv, OrderInv
  <1>2. ~At("teardown", "plugins")
    <2>1. stack # <<>> => Len(stack) \in DOMAIN stack /\ Top = stack[Len(stack)] /\ Top.app \in Apps
      BY <1>1, StackParts, TopFacts DEF TypeOK, Top
    <2> QED
      BY <2>1 DEF At, Calling
  <1>3. ~Tearing(a)
    BY DEF Tearing, Calling
  <1>4. \A i \in DOMAIN subapps[a] : Child(a, subapps[a][i]) /\ subapps[a][i] \in Apps
    BY <1>1 DEF Child, TypeOK
  <1>5. \A i \in DOMAIN subapps[a] : state[subapps[a][i]] = "Running"
    BY <1>3, <1>4 DEF LifeInv, TreeInv, Fits
  <1> QED
    BY <1>1, <1>2, <1>5 DEF PluginOK, Posted

LEMMA CompleteOfLife == LifeInv => ShutdownComplete
  <1> SUFFICES ASSUME LifeInv, NEW a \in Apps, state[a] = "Shutdown"
               PROVE  /\ \A i \in DOMAIN plugins[a] : plugins[a][i].down
                      /\ \A i \in DOMAIN subapps[a] : state[subapps[a][i]] = "Shutdown"
    BY DEF ShutdownComplete
  <1>1. PluginOK(a) /\ TypeOK
    BY DEF LifeInv, PluginInv, OrderInv
  <1>2. \A i \in DOMAIN subapps[a] : Child(a, subapps[a][i]) /\ subapps[a][i] \in Apps
    BY <1>1 DEF Child, TypeOK
  <1> QED
    BY <1>1, <1>2 DEF LifeInv, TreeInv, Fits, PluginOK

\* An app refuses prepare, and queues plugins for a drain, exactly while a drain
\* is under way: no failed build, missing dependency or return from a nested
\* call leaves it in state Building.
THEOREM BuildingCorrect == Spec => []BuildingIffDraining
  BY LifeSpec, BuildingOfLife, PTL

\* An app that runs is complete: prepare left nothing in its queue, post-built
\* each of its plugins and brought up each of its subapps, however the calls
\* into plugins and subapps failed before.
THEOREM RunningCorrect == Spec => []RunningReady
  BY LifeSpec, RunningOfLife, PTL

\* teardown leaves no plugin and no subapp out, from wherever it is called: by
\* run, by a prepare that failed, by the parent or by the application.
THEOREM ShutdownFull == Spec => []ShutdownComplete
  BY LifeSpec, CompleteOfLife, PTL

-----------------------------------------------------------------------------
(* Names                                                                    *)

LEMMA UniqueAppend ==
    ASSUME NEW es \in Seq(Entry), NEW e \in Entry, Unique(es), e.name \notin NamesOf(es)
    PROVE  Unique(Append(es, e)) /\ NamesOf(Append(es, e)) = NamesOf(es) \cup {e.name}
  <1> DEFINE n == Len(es)
             t == Append(es, e)
  <1>1. /\ n \in Nat /\ DOMAIN es = 1..n /\ DOMAIN t = 1..n + 1
        /\ \A i \in 1..n : t[i] = es[i]
        /\ t[n + 1] = e
    BY AppendProperties
  <1> HIDE DEF n, t
  <1>2. \A i \in 1..n + 1 : i \in 1..n \/ i = n + 1
    BY <1>1
  <1>3. n + 1 \in 1..n + 1 /\ 1..n \subseteq 1..n + 1
    BY <1>1
  <1>4. Unique(t)
    BY <1>1, <1>2 DEF Unique, NamesOf
  <1>5. NamesOf(t) = NamesOf(es) \cup {e.name}
    BY <1>1, <1>2, <1>3 DEF NamesOf
  <1> QED
    BY <1>4, <1>5 DEF t

LEMMA UniqueRemove ==
    ASSUME NEW es \in Seq(Entry), NEW i \in DOMAIN es, Unique(es)
    PROVE  /\ Unique(RemoveAt(es, i))
           /\ NamesOf(RemoveAt(es, i)) \subseteq NamesOf(es) \ {es[i].name}
  <1> DEFINE t == RemoveAt(es, i)
  <1>1. PICK n \in Nat : n = Len(es)
    OBVIOUS
  <1>2. /\ DOMAIN t = 1..n - 1 /\ DOMAIN es = 1..n /\ i \in 1..n
        /\ \A j \in 1..n - 1 : t[j] = IF j < i THEN es[j] ELSE es[j + 1]
    BY <1>1, RemoveAtParts
  <1> HIDE DEF t
  <1>3. ASSUME NEW j \in 1..n - 1
        PROVE  \E u \in 1..n : u = (IF j < i THEN j ELSE j + 1) /\ t[j] = es[u] /\ u # i
    BY <1>1, <1>2
  <1>4. ASSUME NEW j \in 1..n - 1, NEW k \in 1..n - 1, t[j].name = t[k].name
        PROVE  j = k
    <2>1. PICK u \in 1..n : u = (IF j < i THEN j ELSE j + 1) /\ t[j] = es[u]
      BY <1>3
    <2>2. PICK v \in 1..n : v = (IF k < i THEN k ELSE k + 1) /\ t[k] = es[v]
      BY <1>3
    <2>3. u = v
      BY <1>2, <1>4, <2>1, <2>2 DEF Unique
    <2> QED
      BY <1>1, <1>2, <2>1, <2>2, <2>3
  <1>5. Unique(t)
    BY <1>2, <1>4 DEF Unique
  <1>6. NamesOf(t) \subseteq NamesOf(es) \ {es[i].name}
    <2> SUFFICES ASSUME NEW j \in DOMAIN t PROVE t[j].name \in NamesOf(es) \ {es[i].name}
      BY DEF NamesOf
    <2>1. PICK u \in 1..n : t[j] = es[u] /\ u # i
      BY <1>2, <1>3
    <2> QED
      BY <1>2, <2>1 DEF NamesOf, Unique
  <1> QED
    BY <1>5, <1>6 DEF t

LEMMA UniqueTail ==
    ASSUME NEW es \in Seq(Entry), es # <<>>, Unique(es)
    PROVE  /\ Unique(Tail(es)) /\ NamesOf(Tail(es)) \subseteq NamesOf(es)
           /\ Head(es).name \in NamesOf(es) \ NamesOf(Tail(es))
  <1> DEFINE t == Tail(es)
  <1>1. PICK n \in Nat \ {0} : n = Len(es)
    OBVIOUS
  <1>2. /\ DOMAIN es = 1..n /\ DOMAIN t = 1..n - 1 /\ Head(es) = es[1]
        /\ \A j \in 1..n - 1 : t[j] = es[j + 1]
    BY <1>1, HeadTailProperties
  <1> HIDE DEF t
  <1>3. 1 \in 1..n /\ \A j \in 1..n - 1 : j + 1 \in 1..n /\ j + 1 # 1
    BY <1>1
  <1>4. Unique(t)
    BY <1>1, <1>2, <1>3 DEF Unique
  <1>5. NamesOf(t) \subseteq NamesOf(es) /\ es[1].name \in NamesOf(es)
    <2>1. \A j \in DOMAIN t : \E k \in DOMAIN es : t[j] = es[k]
      BY <1>2, <1>3
    <2> QED
      BY <1>2, <1>3, <2>1 DEF NamesOf
  <1>6. \A j \in DOMAIN t : t[j].name # es[1].name
    BY <1>2, <1>3 DEF Unique
  <1>7. es[1].name \notin NamesOf(t)
    BY <1>6 DEF NamesOf
  <1> QED
    BY <1>2, <1>4, <1>5, <1>7 DEF t

LEMMA UniquePrefix ==
    ASSUME NEW es \in Seq(Entry), Unique(es)
    PROVE  /\ Unique(SubSeq(es, 1, Len(es) - 1))
           /\ NamesOf(SubSeq(es, 1, Len(es) - 1)) \subseteq NamesOf(es)
  <1> DEFINE t == SubSeq(es, 1, Len(es) - 1)
  <1>1. CASE es = <<>>
    <2>1. DOMAIN t = {}
      BY <1>1
    <2> QED
      BY <2>1 DEF Unique, NamesOf
  <1>2. CASE es # <<>>
    <2>1. Len(es) - 1 \in 0..Len(es)
      BY <1>2
    <2>2. t \in Seq(Entry) /\ Len(t) = Len(es) - 1 /\ \A i \in 1..Len(es) - 1 : t[i] = es[i]
      BY <2>1, Prefix, Zenon
    <2> HIDE DEF t
    <2>3. \A i \in DOMAIN t : i \in DOMAIN es /\ t[i] = es[i]
      BY <2>1, <2>2
    <2>4. Unique(t) /\ NamesOf(t) \subseteq NamesOf(es)
      BY <2>3 DEF Unique, NamesOf
    <2> QED
      BY <2>4 DEF t
  <1> QED
    BY <1>1, <1>2

LEMMA UniqueConcat ==
    ASSUME NEW ps \in Seq(Entry), NEW qs \in Seq(Entry), Unique(ps), Unique(qs),
           NamesOf(ps) \cap NamesOf(qs) = {}
    PROVE  Unique(ps \o qs)
  <1>1. PICK t \in Seq(Entry) :
           /\ t = ps \o qs /\ Len(t) = Len(ps) + Len(qs)
           /\ \A i \in 1..Len(ps) + Len(qs) :
                t[i] = IF i <= Len(ps) THEN ps[i] ELSE qs[i - Len(ps)]
    <2>1. /\ ps \o qs \in Seq(Entry) /\ Len(ps \o qs) = Len(ps) + Len(qs)
          /\ \A i \in 1..Len(ps) + Len(qs) :
               (ps \o qs)[i] = IF i <= Len(ps) THEN ps[i] ELSE qs[i - Len(ps)]
      BY ConcatProperties, Zenon
    <2> QED
      BY <2>1
  <1>2. PICK m \in Nat, n \in Nat : m = Len(ps) /\ n = Len(qs)
    OBVIOUS
  <1>3. /\ DOMAIN t = 1..m + n /\ DOMAIN ps = 1..m /\ DOMAIN qs = 1..n
        /\ \A i \in 1..m + n : t[i] = IF i <= m THEN ps[i] ELSE qs[i - m]
    BY <1>1, <1>2
  <1>4. \A i \in 1..m + n : \/ i <= m /\ i \in 1..m /\ t[i] = ps[i]
                            \/ ~(i <= m) /\ i - m \in 1..n /\ t[i] = qs[i - m]
    BY <1>2, <1>3
  <1>5. ASSUME NEW i \in 1..m + n, NEW j \in 1..m + n, t[i].name = t[j].name
        PROVE  i = j
    <2>1. CASE i <= m /\ j <= m
      BY <1>3, <1>4, <1>5, <2>1 DEF Unique
    <2>2. CASE ~(i <= m) /\ ~(j <= m)
      <3>1. PICK u \in 1..n, v \in 1..n : u = i - m /\ v = j - m /\ t[i] = qs[u] /\ t[j] = qs[v]
        BY <1>4, <2>2
      <3>2. u = v
        BY <1>3, <1>5, <3>1 DEF Unique
      <3> QED
        BY <1>2, <3>1, <3>2
    <2>3. CASE i <= m /\ ~(j <= m)
      BY <1>3, <1>4, <1>5, <2>3 DEF NamesOf
    <2>4. CASE ~(i <= m) /\ j <= m
      BY <1>3, <1>4, <1>5, <2>4 DEF NamesOf
    <2> QED
      BY <2>1, <2>2, <2>3, <2>4
  <1> QED
    BY <1>1, <1>3, <1>5 DEF Unique

\* An app's lists after a step, and the ready list of the drain that works on it.
LEMMA NamesStep ==
    ASSUME NamesInv, NEW a \in Apps, NEW ps, NEW qs, NEW rs,
           \A b \in Apps : b # a => plugins'[b] = plugins[b] /\ pending'[b] = pending[b],
           plugins'[a] = ps, pending'[a] = qs, Unique(ps), Unique(qs),
           NamesOf(ps) \cap NamesOf(qs) = {},
           stack' # <<>> => Top'.ready = rs /\ (rs = <<>> \/ Top'.app = a),
           Unique(rs), NamesOf(rs) \cap NamesOf(ps) = {}, NamesOf(rs) \cap NamesOf(qs) = {}
    PROVE  NamesInv'
  <1>1. \A b \in Apps : /\ Unique(plugins'[b]) /\ Unique(pending'[b])
                        /\ NamesOf(plugins'[b]) \cap NamesOf(pending'[b]) = {}
    BY DEF NamesInv
  <1>2. NamesOf(<<>>) = {} /\ Unique(<<>>)
    BY DEF NamesOf, Unique
  <1>3. stack' # <<>> =>
          /\ Unique(Top'.ready)
          /\ NamesOf(Top'.ready) \cap NamesOf(plugins'[Top'.app]) = {}
          /\ NamesOf(Top'.ready) \cap NamesOf(pending'[Top'.app]) = {}
    BY <1>2
  <1> QED
    BY <1>1, <1>3 DEF NamesInv, Unique, NamesOf

\* Steps that build nothing while no drain has begun.
LEMMA NamesCalm ==
    ASSUME NamesInv, UNCHANGED <<plugins, pending>>,
           UNCHANGED stack \/ (stack' # <<>> => Top'.ready = <<>>)
    PROVE  NamesInv'
  <1>1. CASE UNCHANGED stack
    <2>1. Top' = Top /\ plugins' = plugins /\ pending' = pending /\ stack' = stack
      BY <1>1 DEF Top
    <2>2. \A b \in Apps : /\ Unique(plugins'[b]) /\ Unique(pending'[b])
                          /\ NamesOf(plugins'[b]) \cap NamesOf(pending'[b]) = {}
      BY DEF NamesInv
    <2>3. stack' # <<>> =>
            /\ Unique(Top'.ready)
            /\ NamesOf(Top'.ready) \cap NamesOf(plugins'[Top'.app]) = {}
            /\ NamesOf(Top'.ready) \cap NamesOf(pending'[Top'.app]) = {}
      <3> HIDE DEF Top
      <3> QED
        BY <2>1 DEF NamesInv
    <2> QED
      BY <2>2, <2>3 DEF NamesInv, Unique, NamesOf
  <1>2. CASE stack' # <<>> => Top'.ready = <<>>
    <2>1. \A b \in Apps : /\ Unique(plugins'[b]) /\ Unique(pending'[b])
                          /\ NamesOf(plugins'[b]) \cap NamesOf(pending'[b]) = {}
      BY DEF NamesInv
    <2>2. NamesOf(<<>>) = {} /\ Unique(<<>>)
      BY DEF NamesOf, Unique
    <2>3. stack' # <<>> =>
            /\ Unique(Top'.ready)
            /\ NamesOf(Top'.ready) \cap NamesOf(plugins'[Top'.app]) = {}
            /\ NamesOf(Top'.ready) \cap NamesOf(pending'[Top'.app]) = {}
      BY <1>2, <2>2
    <2> QED
      BY <2>1, <2>3 DEF NamesInv, Unique, NamesOf
  <1> QED
    BY <1>1, <1>2

\* Lists whose plugins have the same names.
Named(es, fs) == DOMAIN es = DOMAIN fs /\ \A i \in DOMAIN es : es[i].name = fs[i].name

LEMMA NamedSame ==
    ASSUME NEW es, NEW fs, Named(es, fs)
    PROVE  NamesOf(es) = NamesOf(fs) /\ (Unique(es) <=> Unique(fs))
  BY DEF Named, NamesOf, Unique

LEMMA UndrainedTop ==
    ASSUME TypeOK', Undrained(stack')
    PROVE  stack' # <<>> => Top'.ready = <<>>
  <1>1. stack' # <<>> => Len(stack') \in DOMAIN stack'
    BY DEF TypeOK
  <1> QED
    BY <1>1 DEF Undrained, Top

\* What a step of the drain finds.
LEMMA NamesFacts ==
    ASSUME NamesInv, stack # <<>>, Top.app \in Apps
    PROVE  /\ Unique(plugins[Top.app]) /\ Unique(pending[Top.app]) /\ Unique(Top.ready)
           /\ NamesOf(plugins[Top.app]) \cap NamesOf(pending[Top.app]) = {}
           /\ NamesOf(Top.ready) \cap NamesOf(plugins[Top.app]) = {}
           /\ NamesOf(Top.ready) \cap NamesOf(pending[Top.app]) = {}
  BY DEF NamesInv

LEMMA NamesDrain ==
    ASSUME LifeInv, NamesInv, TypeOK',
           DrainStart \/ DrainTake \/ DrainCollected \/ BuildCall
             \/ \E ok \in BOOLEAN : BuildReturn(ok)
    PROVE  NamesInv'
  <1>1. stack # <<>> /\ Top.op = "drain" /\ DrainInv /\ stack \in Seq(Call)
    BY DEF At, DrainStart, DrainTake, DrainCollected, BuildCall, BuildReturn, LifeInv, OrderInv,
       TypeOK
  <1>2. PICK a \in Apps : a = Top.app
    BY <1>1, DrainFacts
  <1>3. /\ Top \in Call /\ TypeOK /\ Top.ready \in Seq(Entry)
        /\ plugins[a] \in Seq(Entry) /\ pending[a] \in Seq(Entry)
    BY <1>1, <1>2, DrainFacts
  <1>4. /\ Unique(plugins[a]) /\ Unique(pending[a]) /\ Unique(Top.ready)
        /\ NamesOf(plugins[a]) \cap NamesOf(pending[a]) = {}
        /\ NamesOf(Top.ready) \cap NamesOf(plugins[a]) = {}
        /\ NamesOf(Top.ready) \cap NamesOf(pending[a]) = {}
    BY <1>1, <1>2, NamesFacts
  <1>5. ASSUME NEW f \in Call, Goes(f) PROVE Top' = f
    BY <1>1, <1>5, GoesParts
  <1>6. NamesOf(<<>>) = {} /\ Unique(<<>>)
    BY DEF NamesOf, Unique
  \* The drain goes on with the same lists.
  <1>7. ASSUME UNCHANGED <<plugins, pending>>, NEW at \in Places, Goes([Top EXCEPT !.at = at])
        PROVE  NamesInv'
    <2>1. PICK f \in Call : /\ f = [Top EXCEPT !.at = at]
                            /\ f.app = Top.app /\ f.ready = Top.ready
      BY <1>3, MovedAt
    <2>2. Top' = f
      BY <1>5, <1>7, <2>1
    <2> QED
      BY <1>2, <1>4, <1>7, <2>1, <2>2, NamesStep
  <1>8. CASE DrainStart
    <2>1. UNCHANGED <<plugins, pending>> /\ Goes([Top EXCEPT !.at = "collect"])
      BY <1>8 DEF DrainStart
    <2> QED
      BY <1>7, <2>1, PlacesFacts
  <1>9. CASE DrainTake
    <2>1. PICK i \in DOMAIN pending[a] :
             /\ pending' = [pending EXCEPT ![a] = RemoveAt(pending[a], i)]
             /\ Goes([Top EXCEPT !.ready = Append(Top.ready, pending[a][i])])
      BY <1>2, <1>9 DEF DrainTake
    <2>2. PICK e \in Entry : e = pending[a][i]
      BY <1>3
    <2>3. PICK rs \in Seq(Entry) : rs = Append(Top.ready, e)
      <3>1. Append(Top.ready, e) \in Seq(Entry)
        BY <1>3
      <3> QED
        BY <3>1
    <2>4. PICK f \in Call : f = [Top EXCEPT !.ready = rs] /\ f.app = a /\ f.ready = rs
      <3>1. [Top EXCEPT !.ready = rs] \in Call
        BY <1>3 DEF Call
      <3> QED
        BY <1>2, <1>3, <3>1 DEF Call
    <2>5. Top' = f
      BY <1>5, <2>1, <2>2, <2>3, <2>4
    <2>6. PICK qs : qs = RemoveAt(pending[a], i)
      OBVIOUS
    <2>7. /\ pending'[a] = qs /\ UNCHANGED plugins
          /\ \A b \in Apps : b # a => pending'[b] = pending[b]
      BY <1>3, <1>9, <2>1, <2>6 DEF DrainTake, TypeOK
    <2>8. Unique(qs) /\ NamesOf(qs) \subseteq NamesOf(pending[a]) \ {e.name}
      BY <1>3, <1>4, <2>2, <2>6, UniqueRemove
    <2>9. e.name \in NamesOf(pending[a])
      BY <2>2 DEF NamesOf
    <2>10. Unique(rs) /\ NamesOf(rs) = NamesOf(Top.ready) \cup {e.name}
      <3>1. e.name \notin NamesOf(Top.ready)
        BY <1>4, <2>9
      <3> QED
        BY <1>3, <1>4, <2>3, <3>1, UniqueAppend
    <2>11. /\ NamesOf(plugins[a]) \cap NamesOf(qs) = {}
           /\ NamesOf(rs) \cap NamesOf(plugins[a]) = {} /\ NamesOf(rs) \cap NamesOf(qs) = {}
      BY <1>4, <2>8, <2>9, <2>10
    <2>12. PICK ps : ps = plugins[a]
      OBVIOUS
    <2> QED
      BY <1>4, <2>4, <2>5, <2>7, <2>8, <2>10, <2>11, <2>12, NamesStep
  <1>10. CASE DrainCollected
    <2>1. UNCHANGED <<plugins, pending>>
      BY <1>10 DEF DrainCollected
    <2>2. CASE Top.ready = <<>>
      <3>1. Undrained(stack')
        BY <1>1, <1>3, <1>10, <2>2, AfterReturns DEF DrainCollected
      <3> QED
        BY <2>1, <3>1, UndrainedTop, NamesCalm
    <2>3. CASE Top.ready # <<>>
      BY <1>7, <1>10, <2>1, <2>3, PlacesFacts DEF DrainCollected
    <2> QED
      BY <2>2, <2>3
  <1>11. CASE BuildCall
    <2>1. /\ Top.ready # <<>> /\ UNCHANGED pending
          /\ Goes([Top EXCEPT !.at = "build", !.ready = Tail(Top.ready)])
      BY <1>3, <1>11 DEF BuildCall, Call
    <2>2. PICK e \in Entry : e = Head(Top.ready)
      BY <1>3, <2>1
    <2>3. PICK rs \in Seq(Entry) : rs = Tail(Top.ready)
      <3>1. Tail(Top.ready) \in Seq(Entry)
        BY <1>3, <2>1
      <3> QED
        BY <3>1
    <2>4. PICK f \in Call : /\ f = [Top EXCEPT !.at = "build", !.ready = rs]
                            /\ f.app = a /\ f.ready = rs
      <3>1. [Top EXCEPT !.at = "build", !.ready = rs] \in Call
        BY <1>3, PlacesFacts DEF Call
      <3> QED
        BY <1>2, <1>3, <3>1 DEF Call
    <2>5. Top' = f
      BY <1>5, <2>1, <2>3, <2>4
    <2>6. PICK ps : ps = Append(plugins[a], e)
      OBVIOUS
    <2>7. plugins'[a] = ps /\ \A b \in Apps : b # a => plugins'[b] = plugins[b]
      BY <1>2, <1>3, <1>11, <2>2, <2>6 DEF BuildCall, TypeOK
    <2>8. /\ Unique(rs) /\ NamesOf(rs) \subseteq NamesOf(Top.ready)
          /\ e.name \in NamesOf(Top.ready) /\ e.name \notin NamesOf(rs)
      BY <1>3, <1>4, <2>1, <2>2, <2>3, UniqueTail
    <2>9. Unique(ps) /\ NamesOf(ps) = NamesOf(plugins[a]) \cup {e.name}
      <3>1. e.name \notin NamesOf(plugins[a])
        BY <1>4, <2>8
      <3> QED
        BY <1>3, <1>4, <2>6, <3>1, UniqueAppend
    <2>10. PICK qs : qs = pending[a]
      OBVIOUS
    <2>11. /\ NamesOf(ps) \cap NamesOf(qs) = {}
           /\ NamesOf(rs) \cap NamesOf(ps) = {} /\ NamesOf(rs) \cap NamesOf(qs) = {}
      BY <1>4, <2>8, <2>9, <2>10
    <2> QED
      BY <1>4, <2>1, <2>4, <2>5, <2>7, <2>8, <2>9, <2>10, <2>11, NamesStep
  <1>12. ASSUME NEW ok \in BOOLEAN, BuildReturn(ok)
         PROVE  NamesInv'
    <2>1. UNCHANGED pending
      BY <1>12 DEF BuildReturn
    <2>2. CASE ok
      BY <1>7, <1>12, <2>1, <2>2, PlacesFacts DEF BuildReturn
    <2>3. CASE ~ok
      <3>1. PICK ps : ps = SubSeq(plugins[a], 1, Len(plugins[a]) - 1)
        OBVIOUS
      <3>2. /\ Returns(FALSE) /\ plugins'[a] = ps
            /\ \A b \in Apps : b # a => plugins'[b] = plugins[b]
        BY <1>2, <1>3, <1>12, <2>3, <3>1 DEF BuildReturn, TypeOK
      <3>3. stack' # <<>> => Top'.ready = <<>>
        BY <1>1, <1>3, <3>2, AfterReturns, UndrainedTop
      <3>4. Unique(ps) /\ NamesOf(ps) \subseteq NamesOf(plugins[a])
        BY <1>3, <1>4, <3>1, UniquePrefix
      <3>5. PICK qs, rs : qs = pending[a] /\ rs = <<>>
        OBVIOUS
      <3> QED
        BY <1>4, <1>6, <2>1, <3>2, <3>3, <3>4, <3>5, NamesStep
    <2> QED
      BY <2>2, <2>3
  <1> QED
    BY <1>8, <1>9, <1>10, <1>11, <1>12

\* Steps that only mark plugins, or queued plugins, while no drain has begun.
LEMMA NamesMarked ==
    ASSUME NamesInv, NEW a \in Apps,
           \A b \in Apps : b # a => plugins'[b] = plugins[b] /\ pending'[b] = pending[b],
           Named(plugins'[a], plugins[a]), Named(pending'[a], pending[a]),
           stack' # <<>> => Top'.ready = <<>>
    PROVE  NamesInv'
  <1>1. PICK ps, qs, rs : ps = plugins'[a] /\ qs = pending'[a] /\ rs = <<>>
    OBVIOUS
  <1>2. /\ Unique(plugins[a]) /\ Unique(pending[a])
        /\ NamesOf(plugins[a]) \cap NamesOf(pending[a]) = {}
    BY DEF NamesInv
  <1>3. PICK us, vs : us = plugins[a] /\ vs = pending[a]
    OBVIOUS
  <1>4. Named(ps, us) /\ Named(qs, vs)
    BY <1>1, <1>3 DEF Named
  <1>5. /\ NamesOf(ps) = NamesOf(us) /\ (Unique(ps) <=> Unique(us))
        /\ NamesOf(qs) = NamesOf(vs) /\ (Unique(qs) <=> Unique(vs))
    BY <1>4, NamedSame
  <1>6. Unique(ps) /\ Unique(qs) /\ NamesOf(ps) \cap NamesOf(qs) = {}
    BY <1>2, <1>3, <1>5
  <1>7. Unique(rs) /\ NamesOf(rs) = {}
    BY <1>1 DEF Unique, NamesOf
  <1>8. stack' # <<>> => Top'.ready = rs /\ (rs = <<>> \/ Top'.app = a)
    BY <1>1
  <1>9. plugins'[a] = ps /\ pending'[a] = qs
    BY <1>1
  <1> QED
    BY <1>6, <1>7, <1>8, <1>9, NamesStep

\* A list in which one field of an entry changes keeps its names.
LEMMA NamesMarks ==
    ASSUME LifeInv, NamesInv, TypeOK',
           AddReturn \/ TeardownPlugin \/ \E ok \in BOOLEAN : PostPlugin(ok)
    PROVE  NamesInv'
  <1>1. /\ stack # <<>> /\ TypeOK /\ OrderInv
    BY DEF At, AddReturn, TeardownPlugin, PostPlugin, LifeInv, OrderInv
  <1>2. PICK a \in Apps : a = Top.app
    BY <1>1, TopFacts
  <1>3. plugins[a] \in Seq(Entry) /\ pending[a] \in Seq(Entry)
    BY <1>1 DEF TypeOK
  <1>4. Undrained(stack')
    BY <1>1, OrderOther
  <1>5. stack' # <<>> => Top'.ready = <<>>
    BY <1>4, UndrainedTop
  <1>6. Named(plugins[a], plugins[a]) /\ Named(pending[a], pending[a])
    BY DEF Named
  <1>7. CASE AddReturn
    <2> DEFINE taken == {n \in Top.names : result \/ n \in NamesOf(plugins[a])}
               gone == Top.names \ taken
    <2>1. UNCHANGED plugins
      BY <1>7 DEF AddReturn
    <2>2. /\ pending'[a] = [i \in DOMAIN pending[a] |->
                            IF pending[a][i].name \in gone
                            THEN [pending[a][i] EXCEPT !.freed = TRUE] ELSE pending[a][i]]
          /\ \A b \in Apps : b # a => pending'[b] = pending[b]
      BY <1>1, <1>2, <1>7 DEF AddReturn, TypeOK
    <2> HIDE DEF gone
    <2>3. ASSUME NEW i \in DOMAIN pending[a]
          PROVE  pending'[a][i].name = pending[a][i].name
      <3>1. PICK e \in Entry : e = pending[a][i]
        BY <1>3
      <3>2. [e EXCEPT !.freed = TRUE].name = e.name
        BY DEF Entry
      <3>3. pending'[a][i] = e \/ pending'[a][i] = [e EXCEPT !.freed = TRUE]
        BY <2>2, <3>1
      <3> QED
        BY <3>1, <3>2, <3>3
    <2>4. DOMAIN pending'[a] = DOMAIN pending[a]
      BY <2>2
    <2>5. Named(pending'[a], pending[a])
      BY <2>3, <2>4 DEF Named
    <2>6. Named(plugins'[a], plugins[a])
      BY <1>6, <2>1
    <2>7. \A b \in Apps : b # a => plugins'[b] = plugins[b] /\ pending'[b] = pending[b]
      BY <2>1, <2>2
    <2> QED
      BY <1>5, <2>5, <2>6, <2>7, NamesMarked
  <1>8. ASSUME NEW k \in DOMAIN plugins[a], NEW v \in Entry, UNCHANGED pending,
               v.name = plugins[a][k].name,
               plugins' = [plugins EXCEPT ![a][k] = v]
        PROVE  NamesInv'
    <2>1. /\ plugins'[a] = [plugins[a] EXCEPT ![k] = v]
          /\ \A b \in Apps : b # a => plugins'[b] = plugins[b]
      BY <1>1, <1>8 DEF TypeOK
    <2>2. Named(plugins'[a], plugins[a])
      BY <1>3, <1>8, <2>1 DEF Named
    <2>3. /\ Named(pending'[a], pending[a])
          /\ \A b \in Apps : b # a => plugins'[b] = plugins[b] /\ pending'[b] = pending[b]
      BY <1>6, <1>8, <2>1
    <2> QED
      BY <1>5, <2>2, <2>3, NamesMarked
  <1>9. CASE TeardownPlugin
    <2>1. PICK k \in DOMAIN plugins[a] :
             plugins' = [plugins EXCEPT ![a][k].down = TRUE] /\ UNCHANGED pending
      BY <1>2, <1>9 DEF TeardownPlugin
    <2>2. PICK e \in Entry : e = plugins[a][k]
      BY <1>3
    <2>3. PICK v \in Entry : v = [e EXCEPT !.down = TRUE] /\ v.name = e.name
      <3>1. [e EXCEPT !.down = TRUE] \in Entry /\ [e EXCEPT !.down = TRUE].name = e.name
        BY DEF Entry
      <3> QED
        BY <3>1
    <2>4. plugins' = [plugins EXCEPT ![a][k] = v]
      BY <2>1, <2>2, <2>3
    <2>5. v.name = plugins[a][k].name
      BY <2>2, <2>3
    <2>6. UNCHANGED pending
      BY <2>1
    <2> QED
      BY <1>8, <2>4, <2>5, <2>6, Zenon
  <1>10. ASSUME NEW ok \in BOOLEAN, PostPlugin(ok)
         PROVE  NamesInv'
    <2>1. PICK k \in DOMAIN plugins[a] :
             plugins' = [plugins EXCEPT ![a][k].posted = @ + 1] /\ UNCHANGED pending
      BY <1>2, <1>10 DEF PostPlugin
    <2>2. PICK e \in Entry : e = plugins[a][k]
      BY <1>3
    <2>3. PICK v \in Entry : v = [e EXCEPT !.posted = @ + 1] /\ v.name = e.name
      <3>1. [e EXCEPT !.posted = @ + 1] \in Entry /\ [e EXCEPT !.posted = @ + 1].name = e.name
        BY DEF Entry
      <3> QED
        BY <3>1
    <2>4. plugins' = [plugins EXCEPT ![a][k] = v]
      BY <2>1, <2>2, <2>3
    <2>5. v.name = plugins[a][k].name
      BY <2>2, <2>3
    <2>6. UNCHANGED pending
      BY <2>1
    <2> QED
      BY <1>8, <2>4, <2>5, <2>6, Zenon
  <1> QED
    BY <1>7, <1>9, <1>10

\* A plugin that is added has no namesake.
LEMMA NamesAdd ==
    ASSUME ~AddWhileReady, LifeInv, NamesInv,
           NEW a \in Apps, NEW n \in Names, NEW deps \in Dependencies, AddPlugin(a, n, deps)
    PROVE  NamesInv'
  <1>1. /\ TypeOK /\ pending[a] \in Seq(Entry) /\ plugins[a] \in Seq(Entry)
        /\ pending' = [pending EXCEPT ![a] = Append(pending[a], NewEntry(n, deps))]
        /\ ClientRuns(a) /\ UNCHANGED plugins /\ n \notin Ready
        /\ n \notin NamesOf(plugins[a]) \cup NamesOf(pending[a])
    BY DEF AddPlugin, CanAdd, LifeInv, OrderInv, TypeOK
  <1>2. PICK e \in Entry : e = NewEntry(n, deps) /\ e.name = n
    <2>1. NewEntry(n, deps) \in Entry
      BY AppAssumption DEF NewEntry, Entry
    <2>2. NewEntry(n, deps).name = n
      BY DEF NewEntry
    <2> QED
      BY <2>1, <2>2
  <1>3. PICK qs : qs = Append(pending[a], e)
    OBVIOUS
  <1>4. PICK ps : ps = plugins[a]
    OBVIOUS
  <1>5. /\ pending'[a] = qs /\ plugins'[a] = ps
        /\ \A b \in Apps : b # a => plugins'[b] = plugins[b] /\ pending'[b] = pending[b]
    BY <1>1, <1>2, <1>3, <1>4 DEF TypeOK
  <1>6. /\ Unique(ps) /\ Unique(pending[a]) /\ NamesOf(ps) \cap NamesOf(pending[a]) = {}
        /\ n \notin NamesOf(ps) /\ n \notin NamesOf(pending[a])
    BY <1>1, <1>4 DEF NamesInv
  <1>7. Unique(qs) /\ NamesOf(qs) = NamesOf(pending[a]) \cup {n}
    BY <1>1, <1>2, <1>3, <1>6, UniqueAppend
  <1>8. NamesOf(ps) \cap NamesOf(qs) = {}
    BY <1>6, <1>7
  <1>9. NamesOf(<<>>) = {} /\ Unique(<<>>)
    BY DEF NamesOf, Unique
  <1>10. CASE stack = <<>>
    <2>1. stack' # <<>> => Top'.ready = <<>>
      <3>1. CASE stack' = stack
        BY <1>10, <3>1
      <3>2. CASE stack' # stack
        <4> DEFINE c == [NewCall("add", a) EXCEPT !.names = {n}]
                   d == NewCall("drain", a)
        <4>1. c \in Call /\ d \in Call
          <5>1. NewCall("add", a) \in Call /\ NewCall("drain", a) \in Call
            BY NewCallType
          <5> QED
            BY <5>1 DEF Call
        <4>2. d.ready = <<>>
          BY DEF NewCall
        <4>3. stack' = stack \o <<c, d>>
          BY <3>2 DEF AddPlugin
        <4> HIDE DEF c, d
        <4>4. PICK f \in Call, g \in Call : f = c /\ g = d
          BY <4>1
        <4>5. stack' = <<f, g>>
          BY <1>10, <4>3, <4>4
        <4>6. Top' = g
          BY <4>5 DEF Top
        <4> QED
          BY <4>2, <4>4, <4>6
      <3> QED
        BY <3>1, <3>2
    <2>2. PICK rs : rs = <<>>
      OBVIOUS
    <2> QED
      BY <1>5, <1>6, <1>7, <1>8, <1>9, <2>1, <2>2, NamesStep
  <1>11. CASE stack # <<>>
    <2>1. Top.op = "drain" /\ Top.at = "build" /\ Top.app = a
      BY <1>1, <1>11 DEF ClientRuns, At
    <2>2. Top \in Call /\ state[a] = "Building"
      BY <1>11, <2>1, DrainFacts
    <2>3. stack' = stack
      BY <2>2 DEF AddPlugin
    <2>4. Top' = Top
      BY <2>3 DEF Top
    <2>5. PICK rs : rs = Top.ready
      OBVIOUS
    <2>6. /\ Unique(rs) /\ NamesOf(rs) \cap NamesOf(plugins[a]) = {}
          /\ NamesOf(rs) \cap NamesOf(pending[a]) = {}
      BY <1>11, <2>1, <2>5, NamesFacts
    <2>7. n \notin NamesOf(rs)
      BY <1>1, <1>11, <2>5 DEF Ready
    <2>8. NamesOf(rs) \cap NamesOf(ps) = {} /\ NamesOf(rs) \cap NamesOf(qs) = {}
      BY <1>4, <1>7, <2>6, <2>7
    <2>9. Top'.ready = rs /\ Top'.app = a
      BY <2>1, <2>4, <2>5
    <2> QED
      BY <1>5, <1>6, <1>7, <1>8, <2>6, <2>8, <2>9, NamesStep
  <1> QED
    BY <1>10, <1>11

LEMMA NamesClient ==
    ASSUME ~AddWhileReady, LifeInv, NamesInv, Client
    PROVE  NamesInv'
  <1>1. ASSUME NEW a \in Apps, Prepare(a) \/ Teardown(a) PROVE NamesInv'
    <2>1. PICK op \in {"prepare", "teardown"} :
             stack' = <<NewCall(op, a)>> /\ UNCHANGED <<plugins, pending>>
      BY <1>1 DEF Prepare, Teardown
    <2>2. PICK d \in Call : d = NewCall(op, a) /\ d.ready = <<>>
      BY NewCallFields
    <2>3. stack' = <<d>> /\ Top' = d
      BY <2>1, <2>2 DEF Top
    <2> QED
      BY <2>1, <2>2, <2>3, NamesCalm
  <1>2. ASSUME NEW a \in Apps, Run(a) PROVE NamesInv'
    <2>1. PICK c \in Call : c = [NewCall("run", a) EXCEPT !.at = "prepare"]
      <3>1. [NewCall("run", a) EXCEPT !.at = "prepare"] \in Call
        <4>1. NewCall("run", a) \in Call
          BY NewCallType
        <4> QED
          BY <4>1 DEF Call, Places
      <3> QED
        BY <3>1
    <2>2. PICK d \in Call : d = NewCall("prepare", a) /\ d.ready = <<>>
      BY NewCallFields
    <2>3. stack' = <<c, d>> /\ UNCHANGED <<plugins, pending>>
      BY <1>2, <2>1, <2>2 DEF Run
    <2>4. Top' = d
      BY <2>3 DEF Top
    <2> QED
      BY <2>2, <2>3, <2>4, NamesCalm
  <1>3. ASSUME \/ \E a \in Apps, extracted \in BOOLEAN : Update(a, extracted)
               \/ \E p, s \in Apps : InsertSubapp(p, s)
               \/ \E p \in Apps : \E i \in DOMAIN subapps[p] : RemoveSubapp(p, i)
        PROVE  NamesInv'
    <2>1. UNCHANGED <<plugins, pending>> /\ UNCHANGED stack
      BY <1>3 DEF Update, InsertSubapp, RemoveSubapp
    <2> QED
      BY <2>1, NamesCalm
  <1> QED
    BY <1>1, <1>2, <1>3, NamesAdd DEF Client

LEMMA NamesNext ==
    ASSUME ~AddWhileReady, LifeInv, NamesInv, [Next]_vars
    PROVE  NamesInv'
  <1>1. TypeOK' /\ OrderInv
    BY TypeNext DEF LifeInv, OrderInv
  <1>2. CASE \/ DrainStart \/ DrainTake \/ DrainCollected \/ BuildCall
             \/ \E ok \in BOOLEAN : BuildReturn(ok)
    BY <1>1, <1>2, NamesDrain
  <1>3. CASE \/ PostStart \/ PostSubapps \/ PostDone
             \/ PrepareStart \/ PrepareDrained \/ PreparePosted \/ PrepareSubapps
             \/ PrepareDone \/ RunPrepared \/ RunnerReturn \/ RunReturn
             \/ TeardownSubapps \/ TeardownDone
    <2>1. UNCHANGED <<plugins, pending>>
      BY <1>3 DEF PostStart, PostSubapps, PostDone, PrepareStart, PrepareDrained,
         PreparePosted, PrepareSubapps, PrepareDone, RunPrepared, RunnerReturn, RunReturn,
         TeardownSubapps, TeardownDone
    <2>2. stack' # <<>> => Top'.ready = <<>>
      BY <1>1, <1>3, OrderOther, UndrainedTop
    <2> QED
      BY <2>1, <2>2, NamesCalm
  <1>4. CASE AddReturn \/ TeardownPlugin \/ \E ok \in BOOLEAN : PostPlugin(ok)
    BY <1>1, <1>4, NamesMarks
  <1>5. CASE Client
    BY <1>5, NamesClient
  <1>6. CASE Finished \/ UNCHANGED vars
    <2>1. UNCHANGED <<plugins, pending>> /\ UNCHANGED stack
      BY <1>6 DEF Finished, vars
    <2> QED
      BY <2>1, NamesCalm
  <1> QED
    BY <1>2, <1>3, <1>4, <1>5, <1>6 DEF Next, Internal

LEMMA NamesInit == Init => NamesInv
  BY DEF Init, NamesInv, Unique, NamesOf

LEMMA NamesSpec ==
    ASSUME ~AddWhileReady
    PROVE  Spec => [](LifeInv /\ NamesInv)
  <1>1. LifeInv /\ NamesInv /\ [Next]_vars => NamesInv'
    BY NamesNext
  <1> QED
    BY <1>1, LifeInit, LifeNext, NamesInit, PTL DEF Spec

-----------------------------------------------------------------------------
(* Names, and the order of teardown                                         *)

LEMMA UniqueOfNames == OrderInv /\ NamesInv => NamesUnique
  <1> SUFFICES ASSUME OrderInv, NamesInv, NEW a \in Apps
               PROVE  LET all == plugins[a] \o pending[a]
                      IN  \A i, j \in DOMAIN all : all[i].name = all[j].name => i = j
    BY DEF NamesUnique
  <1>1. PICK ps \in Seq(Entry), qs \in Seq(Entry) : ps = plugins[a] /\ qs = pending[a]
    BY DEF OrderInv, TypeOK
  <1>2. Unique(ps) /\ Unique(qs) /\ NamesOf(ps) \cap NamesOf(qs) = {}
    BY <1>1 DEF NamesInv
  <1>3. Unique(ps \o qs)
    BY <1>2, UniqueConcat
  <1> QED
    BY <1>1, <1>3 DEF Unique

\* A plugin that is shut down stands behind the index that teardown has come to,
\* and so do those that depend on it.
LEMMA OrderOfLife == LifeInv /\ NamesInv => ShutdownOrder
  <1> SUFFICES ASSUME LifeInv, NamesInv, NEW a \in Apps, NEW i \in DOMAIN plugins[a],
                      plugins[a][i].down
               PROVE  /\ \A j \in DOMAIN plugins[a] :
                           plugins[a][i].name \in plugins[a][j].deps => plugins[a][j].down
                      /\ \A j \in DOMAIN subapps[a] : state[subapps[a][j]] = "Shutdown"
    BY DEF ShutdownOrder
  <1>1. PluginOK(a) /\ TypeOK /\ DependenciesFirst /\ Unique(plugins[a])
        /\ plugins[a] \in Seq(Entry) /\ subapps[a] \in Seq(Apps)
    BY DEF LifeInv, PluginInv, OrderInv, NamesInv, TypeOK
  <1>2. CASE state[a] = "Shutdown"
    BY <1>2, CompleteOfLife DEF ShutdownComplete
  <1>3. CASE At("teardown", "plugins") /\ Top.app = a /\ i > Top.index
    <2>1. PICK c \in Call : c = Top /\ Len(stack) \in DOMAIN stack /\ Top = stack[Len(stack)]
      BY <1>1, <1>3, StackParts DEF TypeOK, Top, At
    <2>2. Steady(c)
      BY <2>1 DEF LifeInv, CallInv
    <2>3. c.op = "teardown" /\ c.at = "plugins" /\ c.app = a /\ c.index \in Nat /\ i > c.index
      BY <1>3, <2>1, CallFields DEF At
    <2>4. /\ \A j \in DOMAIN subapps[a] : state[subapps[a][j]] = "Shutdown"
          /\ \A j \in DOMAIN plugins[a] : j > c.index => plugins[a][j].down
      BY <2>2, <2>3 DEF Steady, SteadyTeardown
    <2>5. ASSUME NEW j \in DOMAIN plugins[a], plugins[a][i].name \in plugins[a][j].deps
          PROVE  plugins[a][j].down
      <3>1. PICK k \in 1..j - 1 : plugins[a][k].name = plugins[a][i].name
        BY <1>1, <2>5 DEF DependenciesFirst
      <3>2. k \in DOMAIN plugins[a] /\ k < j /\ i \in Nat /\ j \in Nat /\ k \in Nat
        BY <1>1, <3>1
      <3>3. k = i
        BY <1>1, <3>1, <3>2 DEF Unique
      <3>4. j > c.index
        BY <2>3, <3>2, <3>3
      <3> QED
        BY <2>4, <3>4
    <2> QED
      BY <2>4, <2>5
  <1> QED
    BY <1>1, <1>2, <1>3 DEF PluginOK

\* No name is registered twice, an app is in state Building exactly while its
\* queue is drained, and one that runs is complete.  The hypothesis is that no
\* build adds a plugin under a name that drain_pending_plugins has taken from
\* the queue but not yet registered: validate_plugin looks in neither place.
THEOREM ConsistentCorrect ==
    ASSUME ~AddWhileReady
    PROVE  Spec => []Consistent
  <1>1. LifeInv /\ NamesInv => Consistent
    BY UniqueOfNames, BuildingOfLife, RunningOfLife DEF Consistent, LifeInv
  <1> QED
    BY <1>1, NamesSpec, PTL

\* teardown shuts a plugin down after every plugin that depends on it and after
\* the subapps, and leaves none out.  It needs unique names, as above: of two
\* plugins of a name the dependants stand behind the first.
THEOREM ShutdownInOrder ==
    ASSUME ~AddWhileReady
    PROVE  Spec => []ShutdownCorrect
  <1>1. LifeInv /\ NamesInv => ShutdownCorrect
    BY OrderOfLife, CompleteOfLife DEF ShutdownCorrect
  <1> QED
    BY <1>1, NamesSpec, PTL

=============================================================================
