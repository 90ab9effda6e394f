------------------------- MODULE AssetStorage_proofs -------------------------
(***************************************************************************)
(* Proofs about the asset system, first part: what the operators of the     *)
(* storage and of the load queue do to slots, lists and the graph; the type *)
(* invariant, for every set of types and paths and every bound; the         *)
(* inductive invariant of the storage - the calls of destroy_slot in        *)
(* progress, the two directions of the dependency graph, the order of the   *)
(* dependencies, the free lists, the path cache and the generations - and   *)
(* what each kind of step does to it; then the one of load jobs, loading    *)
(* assets and running callbacks, and the steps of the load queue that keep  *)
(* it.                                                                      *)
(***************************************************************************)
EXTENDS AssetSystem, SequenceTheorems, FiniteSetTheorems, TLAPS

-----------------------------------------------------------------------------
(* Handles and slots                                                        *)

LEMMA KeyFacts ==
    ASSUME NEW h \in Handle
    PROVE  /\ KeyOf(h) \in Key /\ h # NoHandle
           /\ h.type \in Types /\ h.index \in Index /\ h.generation \in Nat
           /\ KeyOf(h)[1] = h.type /\ KeyOf(h)[2] = h.index
  BY NoHandleAssumption DEF Handle, KeyOf, Key

LEMMA HandleFacts ==
    ASSUME NEW s, NEW k \in Key, s[k].generation \in Nat
    PROVE  /\ HandleAt(s, k) \in Handle /\ KeyOf(HandleAt(s, k)) = k
           /\ HandleAt(s, k).generation = s[k].generation
           /\ HandleAt(s, k).type = k[1] /\ HandleAt(s, k).index = k[2]
  BY DEF Handle, KeyOf, Key, HandleAt

LEMMA ResolvesFacts ==
    ASSUME NEW s \in [Key -> Slot], NEW h \in Handle
    PROVE  /\ Resolves(s, h) <=> s[KeyOf(h)].generation = h.generation
           /\ Resolves(s, h) <=> HandleAt(s, KeyOf(h)) = h
  <1>1. /\ h # NoHandle /\ KeyOf(h) \in Key /\ KeyOf(h)[1] = h.type /\ KeyOf(h)[2] = h.index
        /\ h = [type |-> h.type, index |-> h.index, generation |-> h.generation]
    BY KeyFacts DEF Handle
  <1>2. s[KeyOf(h)].generation \in Nat
    BY <1>1 DEF Slot
  <1>3. Resolves(s, h) <=> s[KeyOf(h)].generation = h.generation
    BY <1>1 DEF Resolves
  <1>4. HandleAt(s, KeyOf(h)) = h <=> s[KeyOf(h)].generation = h.generation
    BY <1>1, <1>2, HandleFacts DEF HandleAt
  <1> QED
    BY <1>3, <1>4

LEMMA LiveFacts ==
    ASSUME NEW s \in [Key -> Slot], NEW h
    PROVE  h \in Live(s) <=> /\ h \in Handle /\ Resolves(s, h)
                             /\ s[KeyOf(h)].state # "EMPTY"
  <1>1. \A k \in Key : s[k].generation \in Nat
    BY DEF Slot
  <1>2. ASSUME h \in Live(s)
        PROVE  h \in Handle /\ Resolves(s, h) /\ s[KeyOf(h)].state # "EMPTY"
    <2>1. PICK k \in Key : s[k].state # "EMPTY" /\ h = HandleAt(s, k)
      BY <1>2 DEF Live
    <2>2. h \in Handle /\ KeyOf(h) = k /\ h.generation = s[k].generation
      BY <1>1, <2>1, HandleFacts
    <2> QED
      BY <2>1, <2>2, ResolvesFacts
  <1>3. ASSUME h \in Handle, Resolves(s, h), s[KeyOf(h)].state # "EMPTY"
        PROVE  h \in Live(s)
    <2>1. KeyOf(h) \in Key /\ h = HandleAt(s, KeyOf(h))
      BY <1>3, KeyFacts, ResolvesFacts
    <2> QED
      BY <1>3, <2>1 DEF Live
  <1> QED
    BY <1>2, <1>3

\* What a write to the graph leaves alone in a slot.
LEMMA DependentsField ==
    ASSUME NEW e \in Slot, NEW y \in SUBSET Handle,
           NEW f, f = [e EXCEPT !.dependents = y]
    PROVE  /\ f \in Slot /\ f.generation = e.generation /\ f.state = e.state
           /\ f.pin = e.pin /\ (f.retiring <=> e.retiring) /\ f.path = e.path
           /\ f.dependencies = e.dependencies /\ f.dependents = y
  BY DEF Slot

-----------------------------------------------------------------------------
(* What the operators of the storage do to the slots                        *)

\* A write that leaves the identity of every asset and the graph alone.
SameGraph(s, t) ==
    \A k \in Key : /\ t[k].generation = s[k].generation /\ t[k].path = s[k].path
                   /\ t[k].dependencies = s[k].dependencies
                   /\ t[k].dependents = s[k].dependents

LEMMA SameGraphFacts ==
    ASSUME NEW s \in [Key -> Slot], NEW t \in [Key -> Slot], SameGraph(s, t)
    PROVE  /\ \A k \in Key : HandleAt(t, k) = HandleAt(s, k)
           /\ \A h \in Handle : Resolves(t, h) <=> Resolves(s, h)
  BY KeyFacts DEF SameGraph, HandleAt, Resolves

LEMMA SetStateFacts ==
    ASSUME NEW s \in [Key -> Slot], NEW h \in Handle, NEW x \in States
    PROVE  LET t == SetState(s, h, x)
           IN  /\ t \in [Key -> Slot]
               /\ SameGraph(s, t)
               /\ \A k \in Key : /\ t[k].pin = s[k].pin /\ (t[k].retiring <=> s[k].retiring)
                                 /\ t[k].state = IF k = KeyOf(h) THEN x ELSE s[k].state
  <1> DEFINE t == SetState(s, h, x)
             e == s[KeyOf(h)]
             f == [e EXCEPT !.state = x]
  <1>1. KeyOf(h) \in Key /\ e \in Slot
    BY KeyFacts
  <1>2. f \in Slot
    BY <1>1 DEF Slot
  <1>3. /\ f.state = x /\ f.generation = e.generation /\ f.pin = e.pin
        /\ f.path = e.path /\ (f.retiring <=> e.retiring)
        /\ f.dependencies = e.dependencies /\ f.dependents = e.dependents
    BY <1>1 DEF Slot
  <1>4. t = [s EXCEPT ![KeyOf(h)] = f]
    BY DEF SetState
  <1> HIDE DEF f
  <1>5. t[KeyOf(h)] = f /\ \A k \in Key : k # KeyOf(h) => t[k] = s[k]
    BY <1>1, <1>4
  <1>6. t \in [Key -> Slot]
    BY <1>1, <1>2, <1>4
  <1> HIDE DEF t
  <1>7. SameGraph(s, t)
    BY <1>3, <1>5 DEF SameGraph
  <1>8. \A k \in Key : /\ t[k].pin = s[k].pin /\ (t[k].retiring <=> s[k].retiring)
                       /\ t[k].state = IF k = KeyOf(h) THEN x ELSE s[k].state
    BY <1>3, <1>5
  <1> QED
    BY <1>6, <1>7, <1>8 DEF t

LEMMA FinishSlotFacts ==
    ASSUME NEW s \in [Key -> Slot], NEW h \in Handle, NEW o
    PROVE  LET t == FinishSlot(s, h, o)
               x == IF o = "Loaded" THEN "LOADED" ELSE "FAILED"
           IN  /\ t \in [Key -> Slot]
               /\ SameGraph(s, t)
               /\ \A k \in Key : /\ t[k].pin = s[k].pin /\ (t[k].retiring <=> s[k].retiring)
                                 /\ t[k].state = IF k = KeyOf(h) THEN x ELSE s[k].state
  <1> DEFINE t == FinishSlot(s, h, o)
             e == s[KeyOf(h)]
             x == IF o = "Loaded" THEN "LOADED" ELSE "FAILED"
             b == IF o = "Loaded" THEN TRUE ELSE e.constructed
             f == [e EXCEPT !.state = x, !.constructed = b]
  <1>1. KeyOf(h) \in Key /\ e \in Slot
    BY KeyFacts
  <1>a. b \in BOOLEAN /\ x \in States
    BY <1>1 DEF Slot, States
  <1> HIDE DEF x, b
  <1>2. f \in Slot
    BY <1>1, <1>a DEF Slot
  <1>3. /\ f.state = x /\ f.generation = e.generation /\ f.pin = e.pin
        /\ f.path = e.path /\ (f.retiring <=> e.retiring)
        /\ f.dependencies = e.dependencies /\ f.dependents = e.dependents
    BY <1>1 DEF Slot
  <1>4. t = [s EXCEPT ![KeyOf(h)] = f]
    BY <1>1 DEF FinishSlot, x, b
  <1> HIDE DEF f
  <1>5. t[KeyOf(h)] = f /\ \A k \in Key : k # KeyOf(h) => t[k] = s[k]
    BY <1>1, <1>4
  <1>6. t \in [Key -> Slot]
    BY <1>1, <1>2, <1>4
  <1> HIDE DEF t
  <1>7. SameGraph(s, t)
    BY <1>3, <1>5 DEF SameGraph
  <1>8. \A k \in Key : /\ t[k].pin = s[k].pin /\ (t[k].retiring <=> s[k].retiring)
                       /\ t[k].state = IF k = KeyOf(h) THEN x ELSE s[k].state
    BY <1>3, <1>5
  <1> QED
    BY <1>6, <1>7, <1>8 DEF t, x

LEMMA RetiringFacts ==
    ASSUME NEW s \in [Key -> Slot], NEW h \in Handle, NEW b \in BOOLEAN
    PROVE  LET t == [s EXCEPT ![KeyOf(h)].retiring = b]
           IN  /\ t \in [Key -> Slot]
               /\ SameGraph(s, t)
               /\ \A k \in Key : /\ t[k].pin = s[k].pin /\ t[k].state = s[k].state
                                 /\ k # KeyOf(h) => (t[k].retiring <=> s[k].retiring)
                                 /\ k = KeyOf(h) => (t[k].retiring <=> b)
  <1> DEFINE t == [s EXCEPT ![KeyOf(h)].retiring = b]
             e == s[KeyOf(h)]
             f == [e EXCEPT !.retiring = b]
  <1>1. KeyOf(h) \in Key /\ e \in Slot
    BY KeyFacts
  <1>2. f \in Slot
    BY <1>1 DEF Slot
  <1>3. /\ f.state = e.state /\ f.generation = e.generation /\ f.pin = e.pin
        /\ f.path = e.path /\ (f.retiring <=> b)
        /\ f.dependencies = e.dependencies /\ f.dependents = e.dependents
    BY <1>1 DEF Slot
  <1>4. t = [s EXCEPT ![KeyOf(h)] = f]
    OBVIOUS
  <1> HIDE DEF f
  <1>5. t[KeyOf(h)] = f /\ \A k \in Key : k # KeyOf(h) => t[k] = s[k]
    BY <1>1, <1>4
  <1>6. t \in [Key -> Slot]
    BY <1>1, <1>2, <1>4
  <1> HIDE DEF t
  <1>7. SameGraph(s, t)
    BY <1>3, <1>5 DEF SameGraph
  <1>8. \A k \in Key : /\ t[k].pin = s[k].pin /\ t[k].state = s[k].state
                       /\ k # KeyOf(h) => (t[k].retiring <=> s[k].retiring)
                       /\ k = KeyOf(h) => (t[k].retiring <=> b)
    BY <1>3, <1>5
  <1> QED
    BY <1>6, <1>7, <1>8 DEF t


\* One more pin on one slot (retain, init_load_job).
LEMMA PinFacts ==
    ASSUME NEW s \in [Key -> Slot], NEW l \in Key, NEW n \in Nat
    PROVE  LET t == [s EXCEPT ![l].pin = n]
           IN  /\ t \in [Key -> Slot]
               /\ SameGraph(s, t)
               /\ \A k \in Key : /\ t[k].pin = IF k = l THEN n ELSE s[k].pin
                                 /\ t[k].state = s[k].state
                                 /\ (t[k].retiring <=> s[k].retiring)
  <1> DEFINE t == [s EXCEPT ![l].pin = n]
             e == s[l]
             f == [e EXCEPT !.pin = n]
  <1>1. f \in Slot
    BY DEF Slot
  <1>2. /\ f.state = e.state /\ f.generation = e.generation /\ f.pin = n
        /\ f.path = e.path /\ (f.retiring <=> e.retiring)
        /\ f.dependencies = e.dependencies /\ f.dependents = e.dependents
    BY DEF Slot
  <1>3. t = [s EXCEPT ![l] = f]
    OBVIOUS
  <1> HIDE DEF f
  <1>4. t[l] = f /\ \A k \in Key : k # l => t[k] = s[k]
    BY <1>3
  <1>5. t \in [Key -> Slot]
    BY <1>1, <1>3
  <1> HIDE DEF t
  <1>6. SameGraph(s, t)
    BY <1>2, <1>4 DEF SameGraph
  <1>7. \A k \in Key : /\ t[k].pin = IF k = l THEN n ELSE s[k].pin
                       /\ t[k].state = s[k].state
                       /\ (t[k].retiring <=> s[k].retiring)
    BY <1>2, <1>4
  <1> QED
    BY <1>5, <1>6, <1>7 DEF t

LEMMA PinCommittedFacts ==
    ASSUME NEW s \in [Key -> Slot], NEW ds
    PROVE  LET t == PinCommitted(s, ds)
           IN  /\ t \in [Key -> Slot]
               /\ SameGraph(s, t)
               /\ \A k \in Key : /\ t[k].state = s[k].state
                                 /\ (t[k].retiring <=> s[k].retiring)
                                 /\ t[k].pin >= s[k].pin
                                 /\ s[k].state # "LOADED" => t[k].pin = s[k].pin
  <1> DEFINE t == PinCommitted(s, ds)
  <1>1. ASSUME NEW k \in Key
        PROVE  /\ t[k] \in Slot
               /\ t[k].state = s[k].state
               /\ (t[k].retiring <=> s[k].retiring)
               /\ t[k].pin >= s[k].pin
               /\ s[k].state # "LOADED" => t[k].pin = s[k].pin
               /\ t[k].generation = s[k].generation /\ t[k].path = s[k].path
               /\ t[k].dependencies = s[k].dependencies
               /\ t[k].dependents = s[k].dependents
    <2>1. s[k] \in Slot
      OBVIOUS
    <2>2. CASE HandleAt(s, k) \in ds /\ s[k].state = "LOADED"
      <3>1. t[k] = [s[k] EXCEPT !.pin = s[k].pin + 1]
        BY <2>2 DEF PinCommitted
      <3>2. s[k].pin \in Nat
        BY <2>1 DEF Slot
      <3> HIDE DEF t
      <3>3. t[k] \in Slot
        BY <2>1, <3>1, <3>2 DEF Slot
      <3> QED
        BY <2>1, <2>2, <3>1, <3>2, <3>3 DEF Slot
    <2>3. CASE ~(HandleAt(s, k) \in ds /\ s[k].state = "LOADED")
      <3>1. t[k] = s[k]
        BY <2>3 DEF PinCommitted
      <3> HIDE DEF t
      <3> QED
        BY <2>1, <3>1 DEF Slot
    <2> QED
      BY <2>2, <2>3
  <1>2. t = [k \in Key |-> t[k]]
    BY DEF PinCommitted
  <1> HIDE DEF t
  <1>3. t \in [Key -> Slot]
    BY <1>1, <1>2
  <1>4. SameGraph(s, t)
    BY <1>1 DEF SameGraph
  <1> QED
    BY <1>1, <1>3, <1>4 DEF t

LEMMA UnpinCommittedFacts ==
    ASSUME NEW s \in [Key -> Slot], NEW ds
    PROVE  LET t == UnpinCommitted(s, ds)
           IN  /\ t \in [Key -> Slot]
               /\ SameGraph(s, t)
               /\ \A k \in Key : /\ t[k].state = s[k].state
                                 /\ (t[k].retiring <=> s[k].retiring)
                                 /\ t[k].pin <= s[k].pin
                                 /\ HandleAt(s, k) \notin ds => t[k].pin = s[k].pin
  <1> DEFINE t == UnpinCommitted(s, ds)
  <1>1. ASSUME NEW k \in Key
        PROVE  /\ t[k] \in Slot
               /\ t[k].state = s[k].state
               /\ (t[k].retiring <=> s[k].retiring)
               /\ t[k].pin <= s[k].pin
               /\ HandleAt(s, k) \notin ds => t[k].pin = s[k].pin
               /\ t[k].generation = s[k].generation /\ t[k].path = s[k].path
               /\ t[k].dependencies = s[k].dependencies
               /\ t[k].dependents = s[k].dependents
    <2>1. s[k] \in Slot
      OBVIOUS
    <2>2. CASE HandleAt(s, k) \in ds /\ s[k].pin > 0
      <3>1. t[k] = [s[k] EXCEPT !.pin = s[k].pin - 1]
        BY <2>2 DEF UnpinCommitted
      <3>2. s[k].pin \in Nat /\ s[k].pin - 1 \in Nat
        BY <2>1, <2>2 DEF Slot
      <3> HIDE DEF t
      <3>3. t[k] \in Slot
        BY <2>1, <3>1, <3>2 DEF Slot
      <3> QED
        BY <2>1, <2>2, <3>1, <3>2, <3>3 DEF Slot
    <2>3. CASE ~(HandleAt(s, k) \in ds /\ s[k].pin > 0)
      <3>1. t[k] = s[k]
        BY <2>3 DEF UnpinCommitted
      <3> HIDE DEF t
      <3> QED
        BY <2>1, <3>1 DEF Slot
    <2> QED
      BY <2>2, <2>3
  <1>2. t = [k \in Key |-> t[k]]
    BY DEF UnpinCommitted
  <1> HIDE DEF t
  <1>3. t \in [Key -> Slot]
    BY <1>1, <1>2
  <1>4. SameGraph(s, t)
    BY <1>1 DEF SameGraph
  <1> QED
    BY <1>1, <1>3, <1>4 DEF t

LEMMA SameGraphTransitive ==
    ASSUME NEW s, NEW t, NEW u, SameGraph(s, t), SameGraph(t, u)
    PROVE  SameGraph(s, u)
  BY DEF SameGraph

\* release and retain on the slots.
LEMMA ReleaseFacts ==
    ASSUME NEW s \in [Key -> Slot], NEW h \in Handle, s[KeyOf(h)].pin > 0
    PROVE  LET t == ReleaseSlots(s, h)
               l == KeyOf(h)
               marked == t[l].pin = 0 /\ (s[l].retiring \/ s[l].state \in InProgress)
           IN  /\ t \in [Key -> Slot]
               /\ SameGraph(s, t)
               /\ \A k \in Key : /\ t[k].pin <= s[k].pin
                                 /\ (t[k].retiring <=> s[k].retiring)
                                 /\ HandleAt(s, k) \notin s[l].dependencies /\ k # l
                                      => t[k].pin = s[k].pin
                                 /\ t[k].state = IF k = l /\ marked THEN "PENDING_DELETE"
                                                                    ELSE s[k].state
  <1> DEFINE l == KeyOf(h)
             n == s[l].pin - 1
             s1 == [s EXCEPT ![l].pin = n]
             s2 == UnpinCommitted(s1, s1[l].dependencies)
             t == ReleaseSlots(s, h)
             marked == t[l].pin = 0 /\ (s[l].retiring \/ s[l].state \in InProgress)
  <1>1. l \in Key /\ s[l] \in Slot /\ s[l].pin \in Nat /\ n \in Nat /\ n <= s[l].pin
    BY KeyFacts DEF Slot
  <1>b. \A m \in Nat :
          LET r == [s EXCEPT ![KeyOf(h)].pin = m]
          IN  /\ r \in [Key -> Slot] /\ SameGraph(s, r)
              /\ \A k \in Key : /\ r[k].pin = IF k = KeyOf(h) THEN m ELSE s[k].pin
                                /\ r[k].state = s[k].state
                                /\ (r[k].retiring <=> s[k].retiring)
    BY KeyFacts, PinFacts
  <1>2. /\ s1 \in [Key -> Slot] /\ SameGraph(s, s1)
        /\ \A k \in Key : /\ s1[k].pin = IF k = l THEN n ELSE s[k].pin
                          /\ s1[k].state = s[k].state
                          /\ (s1[k].retiring <=> s[k].retiring)
    BY <1>1, <1>b
  <1>3. s1[l].dependencies = s[l].dependencies
    BY <1>1, <1>2 DEF SameGraph
  <1>4. t = IF s2[l].pin = 0 /\ (s2[l].retiring \/ s2[l].state \in InProgress)
            THEN SetState(s2, h, "PENDING_DELETE") ELSE s2
    BY DEF ReleaseSlots
  <1> HIDE DEF s1, t
  <1>5. /\ s2 \in [Key -> Slot] /\ SameGraph(s1, s2)
        /\ \A k \in Key : /\ s2[k].state = s1[k].state
                          /\ (s2[k].retiring <=> s1[k].retiring)
                          /\ s2[k].pin <= s1[k].pin
                          /\ HandleAt(s1, k) \notin s1[l].dependencies => s2[k].pin = s1[k].pin
    BY <1>2, UnpinCommittedFacts
  <1> HIDE DEF s2, n
  <1>6. \A k \in Key : HandleAt(s1, k) = HandleAt(s, k)
    BY <1>2, SameGraphFacts
  <1>7. SameGraph(s, s2)
    BY <1>2, <1>5, SameGraphTransitive
  <1>a. \A k \in Key : s[k].pin \in Nat /\ s1[k].pin \in Nat /\ s2[k].pin \in Nat
    BY <1>2, <1>5 DEF Slot
  <1>8. \A k \in Key : /\ s2[k].state = s[k].state
                       /\ (s2[k].retiring <=> s[k].retiring)
                       /\ s2[k].pin <= s[k].pin
                       /\ HandleAt(s, k) \notin s[l].dependencies /\ k # l => s2[k].pin = s[k].pin
    BY <1>1, <1>2, <1>3, <1>5, <1>6, <1>a
  <1>9. CASE s2[l].pin = 0 /\ (s2[l].retiring \/ s2[l].state \in InProgress)
    <2>1. t = SetState(s2, h, "PENDING_DELETE")
      BY <1>4, <1>9
    <2>2. "PENDING_DELETE" \in States
      BY DEF States
    <2>3. /\ t \in [Key -> Slot] /\ SameGraph(s2, t)
          /\ \A k \in Key : /\ t[k].pin = s2[k].pin /\ (t[k].retiring <=> s2[k].retiring)
                            /\ t[k].state = IF k = l THEN "PENDING_DELETE" ELSE s2[k].state
      BY <1>5, <2>1, <2>2, SetStateFacts
    <2>4. SameGraph(s, t)
      BY <1>7, <2>3, SameGraphTransitive
    <2>5. marked
      BY <1>1, <1>8, <1>9, <2>3
    <2> HIDE DEF marked
    <2>6. \A k \in Key : /\ t[k].pin <= s[k].pin
                         /\ (t[k].retiring <=> s[k].retiring)
                         /\ HandleAt(s, k) \notin s[l].dependencies /\ k # l
                               => t[k].pin = s[k].pin
                         /\ t[k].state = IF k = l /\ marked THEN "PENDING_DELETE" ELSE s[k].state
      BY <1>8, <2>3, <2>5
    <2> QED
      BY <2>3, <2>4, <2>6 DEF t, marked
  <1>10. CASE ~(s2[l].pin = 0 /\ (s2[l].retiring \/ s2[l].state \in InProgress))
    <2>1. t = s2
      BY <1>4, <1>10
    <2>2. ~marked
      BY <1>1, <1>8, <1>10, <2>1
    <2> HIDE DEF marked
    <2>3. \A k \in Key : /\ t[k].pin <= s[k].pin
                         /\ (t[k].retiring <=> s[k].retiring)
                         /\ HandleAt(s, k) \notin s[l].dependencies /\ k # l
                               => t[k].pin = s[k].pin
                         /\ t[k].state = IF k = l /\ marked THEN "PENDING_DELETE" ELSE s[k].state
      BY <1>8, <2>1, <2>2
    <2> QED
      BY <1>5, <1>7, <2>1, <2>3 DEF t, marked
  <1> QED
    BY <1>9, <1>10

LEMMA RetainFacts ==
    ASSUME NEW s \in [Key -> Slot], NEW l \in Key, s[l].state # "PENDING_DELETE"
    PROVE  LET s1 == [s EXCEPT ![l].pin = @ + 1]
               t == PinCommitted(s1, s1[l].dependencies)
           IN  /\ t \in [Key -> Slot]
               /\ SameGraph(s, t)
               /\ \A k \in Key : /\ t[k].pin >= s[k].pin
                                 /\ (t[k].retiring <=> s[k].retiring)
                                 /\ t[k].state = s[k].state
                                 /\ s[k].state = "PENDING_DELETE" => t[k].pin = s[k].pin
  <1> DEFINE n == s[l].pin + 1
             s1 == [s EXCEPT ![l].pin = n]
             t == PinCommitted(s1, s1[l].dependencies)
  <1>1. s \in [Key -> Slot] /\ l \in Key /\ n \in Nat /\ n >= s[l].pin
    BY DEF Slot
  <1>a. \A m \in Nat :
          LET r == [s EXCEPT ![l].pin = m]
          IN  /\ r \in [Key -> Slot] /\ SameGraph(s, r)
              /\ \A k \in Key : /\ r[k].pin = IF k = l THEN m ELSE s[k].pin
                                /\ r[k].state = s[k].state
                                /\ (r[k].retiring <=> s[k].retiring)
    BY PinFacts
  <1>2. /\ s1 \in [Key -> Slot] /\ SameGraph(s, s1)
        /\ \A k \in Key : /\ s1[k].pin = IF k = l THEN n ELSE s[k].pin
                          /\ s1[k].state = s[k].state
                          /\ (s1[k].retiring <=> s[k].retiring)
    BY <1>1, <1>a
  <1> HIDE DEF s1, n
  <1>3. /\ t \in [Key -> Slot] /\ SameGraph(s1, t)
        /\ \A k \in Key : /\ t[k].state = s1[k].state
                          /\ (t[k].retiring <=> s1[k].retiring)
                          /\ t[k].pin >= s1[k].pin
                          /\ s1[k].state # "LOADED" => t[k].pin = s1[k].pin
    BY <1>2, PinCommittedFacts
  <1> HIDE DEF t
  <1>4. SameGraph(s, t)
    BY <1>2, <1>3, SameGraphTransitive
  <1>5. \A k \in Key : s[k].pin \in Nat /\ s1[k].pin \in Nat /\ t[k].pin \in Nat
    BY <1>2, <1>3 DEF Slot
  <1>6. \A k \in Key : /\ t[k].pin >= s[k].pin
                       /\ (t[k].retiring <=> s[k].retiring)
                       /\ t[k].state = s[k].state
                       /\ s[k].state = "PENDING_DELETE" => t[k].pin = s[k].pin
    BY <1>1, <1>2, <1>3, <1>5
  <1> QED
    BY <1>3, <1>4, <1>6 DEF t, s1, n

\* A write to the graph alone leaves the rest of every slot.
SameAssets(s, t) ==
    \A k \in Key : /\ t[k].generation = s[k].generation /\ t[k].path = s[k].path
                   /\ t[k].state = s[k].state /\ t[k].pin = s[k].pin
                   /\ (t[k].retiring <=> s[k].retiring)

LEMMA SameAssetsFacts ==
    ASSUME NEW s \in [Key -> Slot], NEW t \in [Key -> Slot], SameAssets(s, t)
    PROVE  /\ \A k \in Key : HandleAt(t, k) = HandleAt(s, k)
           /\ \A h \in Handle : Resolves(t, h) <=> Resolves(s, h)
  BY KeyFacts DEF SameAssets, HandleAt, Resolves

LEMMA CommitFacts ==
    ASSUME NEW s \in [Key -> Slot], NEW h \in Handle, Resolves(s, h),
           NEW deps \in SUBSET (Handle \cup {NoHandle})
    PROVE  LET t == Commit(s, h, deps)
               ds == Committable(s, deps)
           IN  /\ ds \subseteq Handle
               /\ t \in [Key -> Slot]
               /\ SameAssets(s, t)
               /\ \A k \in Key :
                    /\ t[k].dependencies = IF k = KeyOf(h) THEN ds ELSE s[k].dependencies
                    /\ t[k].dependents = IF HandleAt(s, k) \in ds
                                         THEN s[k].dependents \cup {h} ELSE s[k].dependents
  <1> DEFINE t == Commit(s, h, deps)
             ds == Committable(s, deps)
             x(k) == IF k = KeyOf(h) THEN ds ELSE s[k].dependencies
             y(k) == IF HandleAt(s, k) \in ds THEN s[k].dependents \cup {h}
                                              ELSE s[k].dependents
  <1>1. ds \subseteq Handle
    BY DEF Committable, Resolves
  <1>2. t = [k \in Key |-> [s[k] EXCEPT !.dependencies = x(k), !.dependents = y(k)]]
    BY DEF Commit
  <1> HIDE DEF t, ds
  <1>3. ASSUME NEW k \in Key
        PROVE  s[k] \in Slot /\ x(k) \in SUBSET Handle /\ y(k) \in SUBSET Handle
    BY <1>1 DEF Slot
  <1>4. ASSUME NEW k \in Key
        PROVE  /\ t[k] \in Slot
               /\ t[k].generation = s[k].generation /\ t[k].path = s[k].path
               /\ t[k].state = s[k].state /\ t[k].pin = s[k].pin
               /\ (t[k].retiring <=> s[k].retiring)
               /\ t[k].dependencies = x(k) /\ t[k].dependents = y(k)
    <2>1. t[k] = [s[k] EXCEPT !.dependencies = x(k), !.dependents = y(k)]
      BY <1>2
    <2>2. s[k] \in Slot /\ x(k) \in SUBSET Handle /\ y(k) \in SUBSET Handle
      BY <1>3
    <2>3. PICK e, p, q : e = s[k] /\ p = x(k) /\ q = y(k)
      OBVIOUS
    <2>4. /\ e \in Slot /\ p \in SUBSET Handle /\ q \in SUBSET Handle
          /\ t[k] = [e EXCEPT !.dependencies = p, !.dependents = q]
      BY <2>1, <2>2, <2>3
    <2> HIDE DEF x, y
    <2>5. /\ t[k] \in Slot /\ t[k].generation = e.generation /\ t[k].state = e.state
          /\ t[k].pin = e.pin /\ (t[k].retiring <=> e.retiring) /\ t[k].path = e.path
          /\ t[k].dependencies = p /\ t[k].dependents = q
      BY <2>4 DEF Slot
    <2> QED
      BY <2>3, <2>5
  <1>5. t \in [Key -> Slot]
    <2>1. t = [k \in Key |-> t[k]]
      BY <1>2
    <2> QED
      BY <1>4, <2>1
  <1>6. SameAssets(s, t)
    BY <1>4 DEF SameAssets
  <1> QED
    BY <1>1, <1>4, <1>5, <1>6 DEF t, ds

LEMMA DetachDependentsFacts ==
    ASSUME NEW s \in [Key -> Slot], NEW h \in Handle
    PROVE  LET t == DetachDependents(s, h)
           IN  /\ t \in [Key -> Slot]
               /\ SameAssets(s, t)
               /\ \A k \in Key :
                    /\ t[k].dependencies = IF HandleAt(s, k) \in s[KeyOf(h)].dependents
                                           THEN s[k].dependencies \ {h} ELSE s[k].dependencies
                    /\ t[k].dependents = IF k = KeyOf(h) THEN {} ELSE s[k].dependents
  <1> DEFINE t == DetachDependents(s, h)
             x(k) == IF HandleAt(s, k) \in s[KeyOf(h)].dependents
                     THEN s[k].dependencies \ {h} ELSE s[k].dependencies
             y(k) == IF k = KeyOf(h) THEN {} ELSE s[k].dependents
  <1>2. t = [k \in Key |-> [s[k] EXCEPT !.dependencies = x(k), !.dependents = y(k)]]
    BY DEF DetachDependents
  <1> HIDE DEF t
  <1>3. ASSUME NEW k \in Key
        PROVE  s[k] \in Slot /\ x(k) \in SUBSET Handle /\ y(k) \in SUBSET Handle
    BY DEF Slot
  <1>4. ASSUME NEW k \in Key
        PROVE  /\ t[k] \in Slot
               /\ t[k].generation = s[k].generation /\ t[k].path = s[k].path
               /\ t[k].state = s[k].state /\ t[k].pin = s[k].pin
               /\ (t[k].retiring <=> s[k].retiring)
               /\ t[k].dependencies = x(k) /\ t[k].dependents = y(k)
    <2>1. t[k] = [s[k] EXCEPT !.dependencies = x(k), !.dependents = y(k)]
      BY <1>2
    <2>2. s[k] \in Slot /\ x(k) \in SUBSET Handle /\ y(k) \in SUBSET Handle
      BY <1>3
    <2>3. PICK e, p, q : e = s[k] /\ p = x(k) /\ q = y(k)
      OBVIOUS
    <2>4. /\ e \in Slot /\ p \in SUBSET Handle /\ q \in SUBSET Handle
          /\ t[k] = [e EXCEPT !.dependencies = p, !.dependents = q]
      BY <2>1, <2>2, <2>3
    <2> HIDE DEF x, y
    <2>5. /\ t[k] \in Slot /\ t[k].generation = e.generation /\ t[k].state = e.state
          /\ t[k].pin = e.pin /\ (t[k].retiring <=> e.retiring) /\ t[k].path = e.path
          /\ t[k].dependencies = p /\ t[k].dependents = q
      BY <2>4 DEF Slot
    <2> QED
      BY <2>3, <2>5
  <1>5. t \in [Key -> Slot]
    <2>1. t = [k \in Key |-> t[k]]
      BY <1>2
    <2> QED
      BY <1>4, <2>1
  <1>6. SameAssets(s, t)
    BY <1>4 DEF SameAssets
  <1> QED
    BY <1>4, <1>5, <1>6 DEF t

\* One dependency loses one dependent.
LEMMA DetachFacts ==
    ASSUME NEW s \in [Key -> Slot], NEW l \in Key, NEW h
    PROVE  LET t == [s EXCEPT ![l].dependents = @ \ {h}]
           IN  /\ t \in [Key -> Slot]
               /\ SameAssets(s, t)
               /\ \A k \in Key :
                    /\ t[k].dependencies = s[k].dependencies
                    /\ t[k].dependents = IF k = l THEN s[k].dependents \ {h}
                                                  ELSE s[k].dependents
  <1> DEFINE e == s[l]
             y == e.dependents \ {h}
             f == [e EXCEPT !.dependents = y]
             t == [s EXCEPT ![l] = f]
  <1>1. e \in Slot /\ y \in SUBSET Handle
    BY DEF Slot
  <1> HIDE DEF y
  <1>2. /\ f \in Slot /\ f.generation = e.generation /\ f.state = e.state
        /\ f.pin = e.pin /\ (f.retiring <=> e.retiring) /\ f.path = e.path
        /\ f.dependencies = e.dependencies /\ f.dependents = y
    BY <1>1, DependentsField
  <1> HIDE DEF f
  <1>3. t \in [Key -> Slot] /\ t[l] = f /\ \A k \in Key : k # l => t[k] = s[k]
    BY <1>2
  <1> HIDE DEF t
  <1>4. SameAssets(s, t)
    BY <1>2, <1>3 DEF SameAssets
  <1>5. \A k \in Key : /\ t[k].dependencies = s[k].dependencies
                       /\ t[k].dependents = IF k = l THEN s[k].dependents \ {h}
                                                     ELSE s[k].dependents
    BY <1>2, <1>3 DEF y
  <1> QED
    BY <1>3, <1>4, <1>5 DEF t, f, y

\* A slot is reset under another generation.
LEMMA ResetFacts ==
    ASSUME NEW s \in [Key -> Slot], NEW l \in Key, NEW g \in Nat
    PROVE  LET t == [s EXCEPT ![l] = EmptySlot(g)]
           IN  /\ t \in [Key -> Slot]
               /\ \A k \in Key : k # l => t[k] = s[k]
               /\ t[l].generation = g /\ t[l].state = "EMPTY" /\ t[l].pin = 0
               /\ ~t[l].retiring /\ t[l].dependencies = {} /\ t[l].dependents = {}
  <1>1. EmptySlot(g) \in Slot
    BY DEF EmptySlot, Slot, States
  <1> QED
    BY <1>1 DEF EmptySlot

LEMMA GenerationFacts ==
    ASSUME NEW g \in Nat
    PROVE  /\ NextGeneration(g) \in Nat
           /\ g + 1 < GenerationModulus => NextGeneration(g) = g + 1
  BY StorageAssumption DEF NextGeneration

LEMMA DestroyCallFacts ==
    ASSUME NEW h \in Handle, NEW b \in BOOLEAN
    PROVE  LET f == DestroyCall(h, b)
           IN  /\ f \in DestroyFrame /\ f.handle = h /\ f.at = "enter" /\ f.rest = {}
               /\ (f.reuse <=> b)
               /\ <<f>> \in Seq(DestroyFrame) /\ Len(<<f>>) = 1 /\ <<f>>[1] = f
  <1>1. DestroyCall(h, b) \in DestroyFrame
    BY DEF DestroyCall, DestroyFrame
  <1> QED
    BY <1>1 DEF DestroyCall

LEMMA TryUnloadFacts ==
    ASSUME NEW s, NEW h \in Handle
    PROVE  /\ TryUnload(s, h) \in Seq(DestroyFrame)
           /\ \/ /\ TryUnload(s, h) = <<>>
                 /\ ~(Resolves(s, h) /\ s[KeyOf(h)].pin = 0 /\ s[KeyOf(h)].dependents = {})
              \/ /\ TryUnload(s, h) = <<DestroyCall(h, TRUE)>>
                 /\ Resolves(s, h) /\ s[KeyOf(h)].pin = 0 /\ s[KeyOf(h)].dependents = {}
  <1>1. <<DestroyCall(h, TRUE)>> \in Seq(DestroyFrame)
    BY DestroyCallFacts
  <1>2. <<>> \in Seq(DestroyFrame)
    OBVIOUS
  <1>3. CASE Resolves(s, h) /\ s[KeyOf(h)].pin = 0 /\ s[KeyOf(h)].dependents = {}
    BY <1>1, <1>3 DEF TryUnload
  <1>4. CASE ~(Resolves(s, h) /\ s[KeyOf(h)].pin = 0 /\ s[KeyOf(h)].dependents = {})
    <2>1. TryUnload(s, h) = <<>>
      BY <1>4 DEF TryUnload
    <2> QED
      BY <1>2, <1>4, <2>1
  <1> QED
    BY <1>3, <1>4

-----------------------------------------------------------------------------
(* Lists                                                                    *)

LEMMA EditFacts ==
    ASSUME NEW S, NEW q \in Seq(S), NEW i \in DOMAIN q, NEW f \in S
    PROVE  LET t == [q EXCEPT ![i] = f]
           IN  /\ t \in Seq(S) /\ Len(t) = Len(q) /\ DOMAIN t = DOMAIN q
               /\ \A m \in DOMAIN q : t[m] = IF m = i THEN f ELSE q[m]
  OBVIOUS

LEMMA PrefixFacts ==
    ASSUME NEW S, NEW q \in Seq(S), NEW n \in 0..Len(q)
    PROVE  LET b == SubSeq(q, 1, n)
           IN  b \in Seq(S) /\ Len(b) = n /\ \A m \in 1..n : b[m] = q[m]
  <1> DEFINE b == SubSeq(q, 1, n)
  <1>1. Len(q) \in Nat /\ n \in Nat /\ 1 \in Int /\ n \in Int /\ \A m \in 1..n : q[m] \in S
    OBVIOUS
  <1>2. /\ b \in Seq(S) /\ Len(b) = IF 1 <= n THEN n - 1 + 1 ELSE 0
        /\ \A m \in 1..n - 1 + 1 : b[m] = q[1 + m - 1]
    BY <1>1, SubSeqProperties
  <1> HIDE DEF b
  <1> QED
    BY <1>1, <1>2 DEF b

LEMMA RemoveAtParts ==
    ASSUME NEW S, NEW s \in Seq(S), NEW i \in DOMAIN s
    PROVE  /\ DOMAIN RemoveAt(s, i) = 1..Len(s) - 1
           /\ \A j \in 1..Len(s) - 1 :
                RemoveAt(s, i)[j] = IF j < i THEN s[j] ELSE s[j + 1]
  <1>1. Len(s) \in Nat \ {0} /\ i \in 1..Len(s) /\ \A j \in 1..Len(s) : s[j] \in S
    OBVIOUS
  <1>2. PICK u \in Seq(S) : /\ u = SubSeq(s, 1, i - 1) /\ Len(u) = i - 1
                            /\ \A j \in 1..i - 1 : u[j] = s[j]
    <2>1. i - 1 \in 0..Len(s)
      BY <1>1
    <2> QED
      BY <2>1, PrefixFacts
  <1>3. PICK v \in Seq(S) : /\ v = SubSeq(s, i + 1, Len(s)) /\ Len(v) = Len(s) - i
                            /\ \A j \in 1..Len(s) - i : v[j] = s[i + j]
    <2> DEFINE w == SubSeq(s, i + 1, Len(s))
    <2>1. /\ i + 1 \in Int /\ Len(s) \in Int /\ \A j \in i + 1..Len(s) : s[j] \in S
      BY <1>1
    <2>2. /\ w \in Seq(S)
          /\ Len(w) = IF i + 1 <= Len(s) THEN Len(s) - (i + 1) + 1 ELSE 0
          /\ \A j \in 1..Len(s) - (i + 1) + 1 : w[j] = s[i + 1 + j - 1]
      BY <2>1, SubSeqProperties
    <2> HIDE DEF w
    <2>3. Len(w) = Len(s) - i /\ \A j \in 1..Len(s) - i : w[j] = s[i + j]
      BY <1>1, <2>2
    <2> QED
      BY <2>2, <2>3 DEF w
  <1>4. RemoveAt(s, i) = u \o v
    BY <1>2, <1>3 DEF RemoveAt
  <1>5. /\ u \o v \in Seq(S) /\ Len(u \o v) = Len(u) + Len(v)
        /\ \A k \in 1..Len(u) + Len(v) : (u \o v)[k] = IF k <= Len(u) THEN u[k] ELSE v[k - Len(u)]
    BY ConcatProperties, Zenon
  <1>6. PICK t \in Seq(S) : t = u \o v
    BY <1>5
  <1>7. DOMAIN t = 1..Len(s) - 1
    BY <1>1, <1>2, <1>3, <1>5, <1>6
  <1>8. ASSUME NEW j \in 1..Len(s) - 1 PROVE t[j] = IF j < i THEN s[j] ELSE s[j + 1]
    <2>1. j \in 1..Len(u) + Len(v) /\ i \in Int
      BY <1>1, <1>2, <1>3
    <2>2. CASE j < i
      <3>1. j <= Len(u) /\ j \in 1..i - 1
        BY <1>2, <2>1, <2>2
      <3>2. t[j] = u[j]
        BY <1>5, <1>6, <2>1, <3>1
      <3> QED
        BY <1>2, <2>2, <3>1, <3>2
    <2>3. CASE ~(j < i)
      <3>1. PICK m \in Int : m = j - Len(u)
        BY <1>1, <1>2
      <3>2. ~(j <= Len(u)) /\ m \in 1..Len(s) - i /\ i + m = j + 1
        <4>1. PICK n \in Nat : n = Len(s)
          BY <1>1
        <4>2. /\ i \in Int /\ 1 <= i /\ i <= n /\ j \in Int /\ 1 <= j /\ j <= n - 1
              /\ m = j - (i - 1) /\ Len(u) = i - 1
          BY <1>1, <1>2, <3>1, <4>1
        <4>3. ~(j <= i - 1) /\ 1 <= m /\ m <= n - i /\ i + m = j + 1
          BY <2>3, <4>1, <4>2
        <4> QED
          BY <4>1, <4>2, <4>3
      <3>3. t[j] = v[m]
        BY <1>5, <1>6, <2>1, <3>1, <3>2
      <3>4. v[m] = s[i + m]
        BY <1>3, <3>2
      <3> QED
        BY <2>3, <3>2, <3>3, <3>4
    <2> QED
      BY <2>2, <2>3
  <1> QED
    BY <1>4, <1>6, <1>7, <1>8

LEMMA RemoveFacts ==
    ASSUME NEW S, NEW q \in Seq(S), NEW i \in DOMAIN q
    PROVE  LET t == RemoveAt(q, i)
           IN  /\ t \in Seq(S)
               /\ \A m \in DOMAIN t : \E n \in DOMAIN q : n # i /\ t[m] = q[n]
               /\ \A n \in DOMAIN q : n # i => \E m \in DOMAIN t : t[m] = q[n]
               /\ \A m, l \in DOMAIN t : m # l =>
                    \E n, o \in DOMAIN q : n # o /\ t[m] = q[n] /\ t[l] = q[o]
  <1> DEFINE t == RemoveAt(q, i)
             at(m) == IF m < i THEN m ELSE m + 1
  <1>1. Len(q) \in Nat /\ i \in 1..Len(q) /\ DOMAIN q = 1..Len(q)
    OBVIOUS
  <1>2. /\ DOMAIN t = 1..Len(q) - 1
        /\ \A m \in 1..Len(q) - 1 : t[m] = IF m < i THEN q[m] ELSE q[m + 1]
    BY RemoveAtParts
  <1>a. t \in Seq(S)
    <2>1. i - 1 \in 0..Len(q) /\ i + 1 \in Int /\ \A m \in i + 1..Len(q) : q[m] \in S
      BY <1>1
    <2>2. SubSeq(q, 1, i - 1) \in Seq(S) /\ SubSeq(q, i + 1, Len(q)) \in Seq(S)
      BY <1>1, <2>1, PrefixFacts, SubSeqProperties
    <2> QED
      BY <2>2, ConcatProperties DEF RemoveAt
  <1> HIDE DEF t
  <1>3. ASSUME NEW m \in DOMAIN t
        PROVE  at(m) \in DOMAIN q /\ at(m) # i /\ t[m] = q[at(m)]
    BY <1>1, <1>2
  <1>4. ASSUME NEW n \in DOMAIN q, n # i
        PROVE  \E m \in DOMAIN t : at(m) = n
    <2>1. PICK m \in Int : m = IF n < i THEN n ELSE n - 1
      BY <1>1
    <2>2. m \in 1..Len(q) - 1 /\ at(m) = n
      BY <1>1, <1>4, <2>1
    <2> QED
      BY <1>2, <2>2
  <1>5. ASSUME NEW m \in DOMAIN t, NEW l \in DOMAIN t, m # l
        PROVE  at(m) # at(l)
    BY <1>1, <1>2, <1>5
  <1> HIDE DEF at
  <1>6. \A m \in DOMAIN t : \E n \in DOMAIN q : n # i /\ t[m] = q[n]
    BY <1>3
  <1>7. \A n \in DOMAIN q : n # i => \E m \in DOMAIN t : t[m] = q[n]
    BY <1>3, <1>4
  <1>8. \A m, l \in DOMAIN t : m # l =>
          \E n, o \in DOMAIN q : n # o /\ t[m] = q[n] /\ t[l] = q[o]
    BY <1>3, <1>5
  <1> QED
    BY <1>a, <1>6, <1>7, <1>8 DEF t

LEMMA TopFacts ==
    ASSUME NEW S, NEW q \in Seq(S), q # <<>>
    PROVE  LET b == SubSeq(q, 1, Len(q) - 1)
           IN  /\ Len(q) \in DOMAIN q /\ q[Len(q)] \in S
               /\ b \in Seq(S) /\ Len(b) = Len(q) - 1
               /\ \A m \in DOMAIN b : m \in DOMAIN q /\ m < Len(q) /\ b[m] = q[m]
               /\ \A m \in DOMAIN q : m # Len(q) => m \in DOMAIN b
  <1>1. Len(q) \in Nat /\ Len(q) > 0 /\ Len(q) - 1 \in 0..Len(q)
    BY EmptySeq
  <1> DEFINE b == SubSeq(q, 1, Len(q) - 1)
  <1>2. b \in Seq(S) /\ Len(b) = Len(q) - 1 /\ \A m \in 1..(Len(q) - 1) : b[m] = q[m]
    BY <1>1, PrefixFacts
  <1> HIDE DEF b
  <1>3. DOMAIN b = 1..(Len(q) - 1) /\ DOMAIN q = 1..Len(q)
    BY <1>1, <1>2
  <1>4. q[Len(q)] \in S
    BY <1>1
  <1> QED
    BY <1>1, <1>2, <1>3, <1>4 DEF b

LEMMA AppendFacts ==
    ASSUME NEW S, NEW q \in Seq(S), NEW f \in S
    PROVE  LET t == Append(q, f)
           IN  /\ t \in Seq(S) /\ Len(t) = Len(q) + 1
               /\ \A m \in DOMAIN q : m \in DOMAIN t /\ m < Len(t) /\ t[m] = q[m]
               /\ Len(t) \in DOMAIN t /\ t[Len(t)] = f
               /\ \A m \in DOMAIN t : m # Len(t) => m \in DOMAIN q
  BY AppendProperties

-----------------------------------------------------------------------------
(* Types of jobs and calls                                                  *)

LEMMA JobEdits ==
    ASSUME jobs \in Seq(Job), NEW i \in DOMAIN jobs
    PROVE  /\ jobs[i] \in Job /\ jobs[i].handle \in Handle
           /\ \A o \in Outcomes : Finish(i, o) \in Seq(Job)
           /\ \A p \in Phases : SetPhase(i, p) \in Seq(Job)
           /\ EraseJob(i) \in Seq(Job)
  <1>1. jobs[i] \in Job
    OBVIOUS
  <1>2. jobs[i].handle \in Handle
    BY <1>1 DEF Job
  <1>3. ASSUME NEW o \in Outcomes PROVE Finish(i, o) \in Seq(Job)
    <2>1. [jobs[i] EXCEPT !.outcome = o] \in Job
      BY <1>1 DEF Job
    <2> QED
      BY <2>1, EditFacts DEF Finish
  <1>4. ASSUME NEW p \in Phases PROVE SetPhase(i, p) \in Seq(Job)
    <2>1. [jobs[i] EXCEPT !.phase = p] \in Job
      BY <1>1 DEF Job
    <2> QED
      BY <2>1, EditFacts DEF SetPhase
  <1>5. EraseJob(i) \in Seq(Job)
    BY RemoveFacts DEF EraseJob
  <1> QED
    BY <1>1, <1>2, <1>3, <1>4, <1>5

LEMMA JobsOfFacts ==
    ASSUME jobs \in Seq(Job), NEW h, NEW i \in JobsOf(h)
    PROVE  /\ i \in DOMAIN jobs /\ jobs[i] \in Job /\ jobs[i].handle = h /\ h \in Handle
  <1>1. i \in DOMAIN jobs /\ jobs[i].handle = h
    BY DEF JobsOf
  <1> QED
    BY <1>1, JobEdits

LEMMA CallTypes ==
    ASSUME NEW h \in Handle, NEW op \in {"ctor", "step", "dtor", "build"}
    PROVE  /\ NewCall(op, h) \in Call
           /\ \A b \in BOOLEAN :
                /\ [NewCall(op, h) EXCEPT !.chain = b] \in Call
                /\ [NewCall(op, h) EXCEPT !.found = b] \in Call
                /\ [NewCall(op, h) EXCEPT !.dangling = b] \in Call
                /\ [NewCall(op, h) EXCEPT !.found = b, !.erase = FALSE] \in Call
  BY DEF NewCall, Call, Outcomes

LEMMA TopTypes ==
    ASSUME calls \in Seq(Call), calls # <<>>
    PROVE  /\ Top \in Call /\ Top.handle \in Handle /\ Below \in Seq(Call)
           /\ Top.chain \in BOOLEAN /\ Top.dangling \in BOOLEAN
  <1>1. Top \in Call /\ Below \in Seq(Call)
    BY TopFacts DEF Top, Below
  <1> QED
    BY <1>1 DEF Call

LEMMA FrameTypes ==
    ASSUME unload \in Seq(DestroyFrame), unload # <<>>
    PROVE  /\ Frame \in DestroyFrame /\ Frame.handle \in Handle
           /\ Frame.rest \subseteq Handle /\ Callers \in Seq(DestroyFrame)
  <1>1. Frame \in DestroyFrame /\ Callers \in Seq(DestroyFrame)
    BY TopFacts DEF Frame, Callers
  <1> QED
    BY <1>1 DEF DestroyFrame

LEMMA OutcomeTypes ==
    /\ "Loaded" \in Outcomes /\ "Failed" \in Outcomes /\ "Cancelled" \in Outcomes
    /\ "PendingRead" \in Phases /\ "WaitingDependencies" \in Phases /\ "Processing" \in Phases
    /\ InProgress \subseteq States
    /\ {"WAITING_LOAD", "LOADING", "WAITING_DEPENDENCIES", "PROCESSING"} \subseteq States
  BY DEF Outcomes, Phases, States, InProgress

\* What process_job does to the slot of a job, to the job and to the stack of
\* callbacks: nothing, it ends the job, or it goes on with it, perhaps into a
\* callback of its loader.
ProcessOutcome(i, cs) ==
    LET h == jobs[i].handle
    IN  \/ Terminal(jobs[i]) /\ slots' = slots /\ jobs' = jobs /\ calls' = cs
        \/ /\ ~Terminal(jobs[i]) /\ ~Resolves(slots, h)
           /\ slots' = slots /\ jobs' = Finish(i, "Failed") /\ calls' = cs
        \/ /\ ~Terminal(jobs[i]) /\ Resolves(slots, h)
           /\ \E o \in {"Failed", "Cancelled"} :
                slots' = FinishSlot(slots, h, o) /\ jobs' = Finish(i, o) /\ calls' = cs
        \/ /\ ~Terminal(jobs[i]) /\ Resolves(slots, h)
           /\ slots[KeyOf(h)].state # "PENDING_DELETE"
           /\ slots' = SetState(slots, h, "WAITING_DEPENDENCIES")
           /\ jobs' = SetPhase(i, "WaitingDependencies") /\ calls' = cs
        \/ /\ ~Terminal(jobs[i]) /\ Resolves(slots, h)
           /\ slots[KeyOf(h)].state # "PENDING_DELETE"
           /\ slots' = SetState(slots, h, "LOADING") /\ jobs' = SetPhase(i, "PendingRead")
           /\ \E b \in BOOLEAN : calls' = Append(cs, [NewCall("ctor", h) EXCEPT !.chain = b])
        \/ /\ ~Terminal(jobs[i]) /\ Resolves(slots, h)
           /\ slots[KeyOf(h)].state # "PENDING_DELETE"
           /\ slots' = SetState(slots, h, "PROCESSING") /\ jobs' = SetPhase(i, "Processing")
           /\ calls' = Append(cs, NewCall("step", h))
        \/ /\ ~Terminal(jobs[i]) /\ Resolves(slots, h)
           /\ slots[KeyOf(h)].state # "PENDING_DELETE"
           /\ slots' = slots /\ jobs' = jobs
           /\ calls' = Append(cs, NewCall("step", h))

LEMMA ProcessFacts ==
    ASSUME NEW i, NEW cs, ProcessJob(i, cs)
    PROVE  ProcessOutcome(i, cs)
  <1> DEFINE h == jobs[i].handle
  <1>1. CASE Terminal(jobs[i]) /\ UNCHANGED <<slots, jobs>> /\ calls' = cs
    BY <1>1 DEF ProcessOutcome
  <1>2. CASE /\ ~Terminal(jobs[i]) /\ ~Resolves(slots, h)
             /\ jobs' = Finish(i, "Failed") /\ calls' = cs /\ UNCHANGED slots
    BY <1>2 DEF ProcessOutcome
  <1>3. CASE /\ ~Terminal(jobs[i]) /\ Resolves(slots, h) /\ EndJob(i, "Cancelled", cs)
    BY <1>3 DEF ProcessOutcome, EndJob
  <1>4. CASE /\ ~Terminal(jobs[i]) /\ Resolves(slots, h)
             /\ StateOf(slots, h) # "PENDING_DELETE"
             /\ \/ jobs[i].phase = "PendingRead" /\ ProcessPendingRead(i, TRUE, cs)
                \/ jobs[i].phase = "WaitingDependencies" /\ ProcessWaiting(i, cs)
                \/ /\ jobs[i].phase = "Processing"
                   /\ calls' = Append(cs, NewCall("step", h))
                   /\ UNCHANGED <<slots, jobs>>
    <2>1. slots[KeyOf(h)].state # "PENDING_DELETE"
      BY <1>4 DEF StateOf
    <2>2. ASSUME NEW b \in BOOLEAN, ProcessPendingRead(i, b, cs)
          PROVE  ProcessOutcome(i, cs)
      <3>1. CASE EndJob(i, "Failed", cs)
        BY <1>4, <3>1 DEF ProcessOutcome, EndJob
      <3>2. CASE AwaitDependencies(i, cs)
        BY <1>4, <2>1, <3>2 DEF ProcessOutcome, AwaitDependencies
      <3>3. CASE /\ slots' = SetState(slots, h, "LOADING")
                 /\ jobs' = SetPhase(i, "PendingRead")
                 /\ calls' = Append(cs, [NewCall("ctor", h) EXCEPT !.chain = b])
        BY <1>4, <2>1, <3>3 DEF ProcessOutcome
      <3> QED
        BY <2>2, <3>1, <3>2, <3>3 DEF ProcessPendingRead
    <2>3. CASE ProcessWaiting(i, cs)
      <3>1. CASE EndJob(i, "Failed", cs)
        BY <1>4, <3>1 DEF ProcessOutcome, EndJob
      <3>2. CASE AwaitDependencies(i, cs)
        BY <1>4, <2>1, <3>2 DEF ProcessOutcome, AwaitDependencies
      <3>3. CASE ProcessPendingRead(i, FALSE, cs)
        BY <2>2, <3>3
      <3>4. CASE /\ slots' = SetState(slots, h, "PROCESSING")
                 /\ jobs' = SetPhase(i, "Processing")
                 /\ calls' = Append(cs, NewCall("step", h))
        BY <1>4, <2>1, <3>4 DEF ProcessOutcome
      <3> QED
        BY <2>3, <3>1, <3>2, <3>3, <3>4 DEF ProcessWaiting
    <2>4. CASE calls' = Append(cs, NewCall("step", h)) /\ UNCHANGED <<slots, jobs>>
      BY <1>4, <2>1, <2>4 DEF ProcessOutcome
    <2> QED
      BY <1>4, <2>2, <2>3, <2>4
  <1> QED
    BY <1>1, <1>2, <1>3, <1>4 DEF ProcessJob

LEMMA ProcessTypes ==
    ASSUME slots \in [Key -> Slot], jobs \in Seq(Job), NEW i \in DOMAIN jobs,
           NEW cs \in Seq(Call), ProcessOutcome(i, cs)
    PROVE  slots' \in [Key -> Slot] /\ jobs' \in Seq(Job) /\ calls' \in Seq(Call)
  <1> DEFINE h == jobs[i].handle
  <1>1. h \in Handle
    BY JobEdits
  <1>2. /\ \A o \in Outcomes : Finish(i, o) \in Seq(Job)
        /\ \A p \in Phases : SetPhase(i, p) \in Seq(Job)
    BY JobEdits
  <1>3. /\ \A x \in States : SetState(slots, h, x) \in [Key -> Slot]
        /\ \A o \in Outcomes : FinishSlot(slots, h, o) \in [Key -> Slot]
    BY <1>1, SetStateFacts, FinishSlotFacts
  <1>4. /\ \A b \in BOOLEAN : Append(cs, [NewCall("ctor", h) EXCEPT !.chain = b]) \in Seq(Call)
        /\ Append(cs, NewCall("step", h)) \in Seq(Call)
    BY <1>1, CallTypes, AppendFacts
  <1> HIDE DEF h
  <1> QED
    BY <1>2, <1>3, <1>4, OutcomeTypes DEF ProcessOutcome, h

LEMMA RetireTypes ==
    ASSUME slots \in [Key -> Slot], jobs \in Seq(Job), NEW i \in DOMAIN jobs,
           unload \in Seq(DestroyFrame), NEW cs \in Seq(Call), Retire(i, cs)
    PROVE  /\ slots' \in [Key -> Slot] /\ jobs' \in Seq(Job) /\ calls' \in Seq(Call)
           /\ unload' \in Seq(DestroyFrame)
  <1> DEFINE h == jobs[i].handle
             found == Resolves(slots, h)
  <1>1. h \in Handle /\ EraseJob(i) \in Seq(Job)
    BY JobEdits
  <1>2. found \in BOOLEAN
    BY DEF Resolves
  <1>3. Append(cs, [NewCall("dtor", h) EXCEPT !.found = found]) \in Seq(Call)
    BY <1>1, <1>2, CallTypes, AppendFacts
  <1>4. [slots EXCEPT ![KeyOf(h)].retiring = TRUE] \in [Key -> Slot]
    BY <1>1, RetiringFacts
  <1>5. TryUnload(slots, h) \in Seq(DestroyFrame)
    BY <1>1, TryUnloadFacts
  <1> QED
    BY <1>1, <1>3, <1>4, <1>5 DEF Retire

-----------------------------------------------------------------------------
(* Every step keeps the types: destroy_slot                                 *)

LEMMA TypeParts ==
    TypeOK <=> /\ slots \in [Key -> Slot]
               /\ size \in [Types -> 0..MaxSlots]
               /\ free \in [Types -> Seq(Index)]
               /\ cache \in [Types \X Paths -> Handle \cup {NoHandle}]
               /\ unload \in Seq(DestroyFrame)
               /\ jobs \in Seq(Job)
               /\ calls \in Seq(Call)
               /\ main \in Main
               /\ held \in [Key -> Nat]
  BY DEF TypeOK, StorageTypeOK, QueueTypeOK

LEMMA TypePrimes ==
    TypeOK' <=> /\ slots' \in [Key -> Slot]
                /\ size' \in [Types -> 0..MaxSlots]
                /\ free' \in [Types -> Seq(Index)]
                /\ cache' \in [Types \X Paths -> Handle \cup {NoHandle}]
                /\ unload' \in Seq(DestroyFrame)
                /\ jobs' \in Seq(Job)
                /\ calls' \in Seq(Call)
                /\ main' \in Main
                /\ held' \in [Key -> Nat]
  BY DEF TypeOK, StorageTypeOK, QueueTypeOK

LEMMA TypeDestroyEnter ==
    ASSUME TypeOK, DestroyEnter, UNCHANGED <<jobs, calls, main, held>>
    PROVE  TypeOK'
  <1>1. Frame \in DestroyFrame /\ Frame.handle \in Handle /\ Callers \in Seq(DestroyFrame)
    BY TypeParts, FrameTypes DEF DestroyEnter
  <1>2. KeyOf(Frame.handle) \in Key /\ slots[KeyOf(Frame.handle)] \in Slot
    BY <1>1, KeyFacts, TypeParts
  <1>3. slots[KeyOf(Frame.handle)].dependencies \subseteq Handle
    BY <1>2 DEF Slot
  <1>4. [Frame EXCEPT !.at = "detach", !.rest = slots[KeyOf(Frame.handle)].dependencies]
          \in DestroyFrame
    BY <1>1, <1>3 DEF DestroyFrame
  <1>5. unload' \in Seq(DestroyFrame)
    BY <1>1, <1>4, AppendFacts DEF DestroyEnter
  <1>6. cache' \in [Types \X Paths -> Handle \cup {NoHandle}]
    BY TypeParts DEF DestroyEnter
  <1> QED
    BY <1>5, <1>6, TypeParts, TypePrimes DEF DestroyEnter

LEMMA TypeDetachNext ==
    ASSUME TypeOK, DetachNext, UNCHANGED <<jobs, calls, main, held>>
    PROVE  TypeOK'
  <1>1. /\ Frame \in DestroyFrame /\ Frame.handle \in Handle
        /\ Frame.rest \subseteq Handle /\ Callers \in Seq(DestroyFrame)
    BY TypeParts, FrameTypes DEF DetachNext
  <1> DEFINE S(d) == IF Resolves(slots, d)
                     THEN [slots EXCEPT ![KeyOf(d)].dependents = @ \ {Frame.handle}] ELSE slots
  <1>2. PICK d \in Frame.rest :
          /\ slots' = S(d)
          /\ unload' = Append(Callers, [Frame EXCEPT !.rest = @ \ {d}]) \o TryUnload(S(d), d)
    BY DEF DetachNext
  <1>3. d \in Handle /\ KeyOf(d) \in Key /\ slots \in [Key -> Slot]
    BY <1>1, KeyFacts, TypeParts
  <1>4. slots' \in [Key -> Slot]
    BY <1>2, <1>3, DetachFacts
  <1>5. [Frame EXCEPT !.rest = @ \ {d}] \in DestroyFrame
    BY <1>1 DEF DestroyFrame
  <1>6. Append(Callers, [Frame EXCEPT !.rest = @ \ {d}]) \in Seq(DestroyFrame)
    BY <1>1, <1>5, AppendFacts
  <1>7. TryUnload(S(d), d) \in Seq(DestroyFrame)
    BY <1>3, TryUnloadFacts
  <1>8. unload' \in Seq(DestroyFrame)
    BY <1>2, <1>6, <1>7, ConcatProperties
  <1> QED
    BY <1>4, <1>8, TypeParts, TypePrimes DEF DetachNext

LEMMA TypeDestroyDone ==
    ASSUME TypeOK, DestroyDone, held' = [held EXCEPT ![KeyOf(Frame.handle)] = 0],
           UNCHANGED <<jobs, calls, main>>
    PROVE  TypeOK'
  <1>1. Frame \in DestroyFrame /\ Frame.handle \in Handle /\ Callers \in Seq(DestroyFrame)
    BY TypeParts, FrameTypes DEF DestroyDone
  <1> DEFINE k == KeyOf(Frame.handle)
  <1>2. /\ k \in Key /\ slots \in [Key -> Slot] /\ slots[k].generation \in Nat
        /\ k[1] \in Types /\ k[2] \in Index
    BY <1>1, KeyFacts, TypeParts DEF Slot, Key
  <1>3. slots' = [slots EXCEPT ![k] = EmptySlot(NextGeneration(slots[k].generation))]
    BY DEF DestroyDone
  <1>4. slots' \in [Key -> Slot]
    BY <1>2, <1>3, GenerationFacts, ResetFacts
  <1>5. free' \in [Types -> Seq(Index)]
    <2>1. free[k[1]] \in Seq(Index)
      BY <1>2, TypeParts
    <2>2. Append(free[k[1]], k[2]) \in Seq(Index)
      BY <1>2, <2>1, AppendFacts
    <2> HIDE DEF k
    <2>3. free' = IF Frame.reuse THEN [free EXCEPT ![k[1]] = Append(free[k[1]], k[2])] ELSE free
      BY DEF DestroyDone, k
    <2> QED
      BY <2>2, <2>3, TypeParts
  <1>6. held' \in [Key -> Nat]
    BY <1>2, TypeParts
  <1> QED
    BY <1>1, <1>4, <1>5, <1>6, TypeParts, TypePrimes DEF DestroyDone

-----------------------------------------------------------------------------
(* ... callbacks and loops                                                  *)

LEMMA TypeCtorReturn ==
    ASSUME TypeOK, CtorReturn, UNCHANGED held
    PROVE  TypeOK'
  <1>1. Top \in Call /\ Top.handle \in Handle /\ Below \in Seq(Call) /\ Top.dangling \in BOOLEAN
    BY TypeParts, TopTypes DEF CtorReturn, InCallback
  <1> DEFINE h == Top.handle
             Write(s) == IF Top.dangling THEN slots ELSE s
  <1>2. PICK i \in JobsOf(h) :
          \/ /\ slots' = Write(FinishSlot(slots, h, "Failed"))
             /\ jobs' = Finish(i, "Failed")
             /\ calls' = Below
          \/ /\ slots' = Write(SetState(slots, h, "PROCESSING"))
             /\ jobs' = [jobs EXCEPT ![i].phase = "Processing", ![i].built = TRUE]
             /\ calls' = IF Top.chain
                         THEN Append(Below, [NewCall("step", h) EXCEPT !.dangling = Top.dangling])
                         ELSE Below
    BY DEF CtorReturn
  <1>3. jobs \in Seq(Job) /\ i \in DOMAIN jobs /\ jobs[i] \in Job /\ slots \in [Key -> Slot]
    BY TypeParts, JobsOfFacts
  <1>4. Finish(i, "Failed") \in Seq(Job)
    BY <1>3, JobEdits, OutcomeTypes
  <1>5. [jobs EXCEPT ![i].phase = "Processing", ![i].built = TRUE] \in Seq(Job)
    <2>1. [jobs[i] EXCEPT !.phase = "Processing", !.built = TRUE] \in Job
      BY <1>3, OutcomeTypes DEF Job
    <2>2. [jobs EXCEPT ![i] = [jobs[i] EXCEPT !.phase = "Processing", !.built = TRUE]] \in Seq(Job)
      BY <1>3, <2>1, EditFacts
    <2> QED
      BY <1>3, <2>2
  <1>6. /\ FinishSlot(slots, h, "Failed") \in [Key -> Slot]
        /\ SetState(slots, h, "PROCESSING") \in [Key -> Slot]
    BY <1>1, <1>3, FinishSlotFacts, SetStateFacts, OutcomeTypes
  <1>7. Append(Below, [NewCall("step", h) EXCEPT !.dangling = Top.dangling]) \in Seq(Call)
    BY <1>1, CallTypes, AppendFacts
  <1>8. slots' \in [Key -> Slot] /\ jobs' \in Seq(Job) /\ calls' \in Seq(Call)
    BY <1>1, <1>2, <1>3, <1>4, <1>5, <1>6, <1>7
  <1> QED
    BY <1>8, TypeParts, TypePrimes DEF CtorReturn

LEMMA DoneSlotsTypes ==
    ASSUME slots \in [Key -> Slot], NEW h \in Handle,
           NEW deps \in SUBSET (Handle \cup {NoHandle})
    PROVE  /\ Commit(slots, h, deps) \in [Key -> Slot]
           /\ DoneSlots(h, deps) \in [Key -> Slot]
  <1> DEFINE s == Commit(slots, h, deps)
  <1>1. s \in [Key -> Slot]
    <2>1. CASE Resolves(slots, h)
      BY <2>1, CommitFacts
    <2>2. CASE ~Resolves(slots, h)
      BY <2>2 DEF Commit
    <2> QED
      BY <2>1, <2>2
  <1> HIDE DEF s
  <1>2. PinCommitted(s, s[KeyOf(h)].dependencies) \in [Key -> Slot]
    BY <1>1, PinCommittedFacts
  <1>3. FinishSlot(PinCommitted(s, s[KeyOf(h)].dependencies), h, "Loaded") \in [Key -> Slot]
    BY <1>2, FinishSlotFacts
  <1> QED
    BY <1>1, <1>3 DEF DoneSlots, s

LEMMA TypeStepReturn ==
    ASSUME TypeOK, NEW status, StepReturn(status), UNCHANGED held
    PROVE  TypeOK'
  <1>1. /\ Top \in Call /\ Top.handle \in Handle /\ Below \in Seq(Call)
        /\ Top.dangling \in BOOLEAN
    BY TypeParts, TopTypes DEF StepReturn, InCallback
  <1> DEFINE h == Top.handle
             Write(s) == IF Top.dangling THEN slots ELSE s
             all(i) == jobs[i].required \cup jobs[i].optional
             Ends(i, outcome) == /\ slots' = Write(FinishSlot(slots, h, outcome))
                                 /\ jobs' = Finish(i, outcome)
  <1>2. PICK i \in JobsOf(h) :
          \/ Ends(i, "Cancelled") \/ Ends(i, "Failed")
          \/ UNCHANGED <<slots, jobs>>
          \/ /\ slots' = Write(SetState(slots, h, "WAITING_DEPENDENCIES"))
             /\ jobs' = SetPhase(i, "WaitingDependencies")
          \/ /\ slots' = IF Top.dangling THEN Commit(slots, h, all(i)) ELSE DoneSlots(h, all(i))
             /\ jobs' = Finish(i, "Loaded")
    BY DEF StepReturn
  <1>3. jobs \in Seq(Job) /\ i \in DOMAIN jobs /\ jobs[i] \in Job /\ slots \in [Key -> Slot]
    BY TypeParts, JobsOfFacts
  <1>4. /\ \A o \in Outcomes : Finish(i, o) \in Seq(Job)
        /\ SetPhase(i, "WaitingDependencies") \in Seq(Job)
    BY <1>3, JobEdits, OutcomeTypes
  <1>5. all(i) \in SUBSET (Handle \cup {NoHandle})
    BY <1>3 DEF Job
  <1>6. /\ Commit(slots, h, all(i)) \in [Key -> Slot]
        /\ DoneSlots(h, all(i)) \in [Key -> Slot]
    BY <1>1, <1>3, <1>5, DoneSlotsTypes
  <1>7. /\ \A o \in Outcomes : FinishSlot(slots, h, o) \in [Key -> Slot]
        /\ SetState(slots, h, "WAITING_DEPENDENCIES") \in [Key -> Slot]
    BY <1>1, <1>3, FinishSlotFacts, SetStateFacts, OutcomeTypes
  <1> HIDE DEF h, all
  <1>8. slots' \in [Key -> Slot] /\ jobs' \in Seq(Job)
    BY <1>2, <1>3, <1>4, <1>6, <1>7, OutcomeTypes
  <1> QED
    BY <1>1, <1>8, TypeParts, TypePrimes DEF StepReturn

LEMMA TypeDtorReturn ==
    ASSUME TypeOK, DtorReturn, UNCHANGED held
    PROVE  TypeOK'
  <1>1. /\ Top \in Call /\ Top.handle \in Handle /\ Below \in Seq(Call)
    BY TypeParts, TopTypes DEF DtorReturn, InCallback
  <1> DEFINE h == Top.handle
             s == IF Top.found /\ ~Top.dangling
                  THEN [slots EXCEPT ![KeyOf(h)].retiring = FALSE] ELSE slots
  <1>2. PICK i \in JobsOf(h) :
          /\ slots' = s
          /\ IF Top.erase
             THEN /\ jobs' = EraseJob(i)
                  /\ unload' = IF Top.found /\ ~Top.dangling THEN TryUnload(s, h) ELSE <<>>
             ELSE /\ jobs' = [jobs EXCEPT ![i].built = FALSE]
                  /\ UNCHANGED unload
    BY DEF DtorReturn
  <1>3. jobs \in Seq(Job) /\ i \in DOMAIN jobs /\ jobs[i] \in Job /\ slots \in [Key -> Slot]
    BY TypeParts, JobsOfFacts
  <1>4. slots' \in [Key -> Slot]
    BY <1>1, <1>2, <1>3, RetiringFacts
  <1>5. EraseJob(i) \in Seq(Job)
    BY <1>3, JobEdits
  <1>6. [jobs EXCEPT ![i].built = FALSE] \in Seq(Job)
    <2>1. [jobs[i] EXCEPT !.built = FALSE] \in Job
      BY <1>3 DEF Job
    <2>2. [jobs EXCEPT ![i] = [jobs[i] EXCEPT !.built = FALSE]] \in Seq(Job)
      BY <1>3, <2>1, EditFacts
    <2> QED
      BY <1>3, <2>2
  <1> HIDE DEF s
  <1>7. TryUnload(s, h) \in Seq(DestroyFrame)
    BY <1>1, TryUnloadFacts
  <1>a. <<>> \in Seq(DestroyFrame)
    OBVIOUS
  <1>8. jobs' \in Seq(Job) /\ unload' \in Seq(DestroyFrame)
    BY <1>2, <1>5, <1>6, <1>7, <1>a, TypeParts
  <1> QED
    BY <1>1, <1>4, <1>8, TypeParts, TypePrimes DEF DtorReturn

\* The states of the loop below the callbacks.
LEMMA MainTypes ==
    /\ Idle \in Main
    /\ \A m \in Main :
         /\ \A x \in Handle \cup {NoHandle}, n \in Nat :
              /\ [Idle EXCEPT !.op = "process", !.next = x, !.left = n] \in Main
              /\ [Idle EXCEPT !.op = "drain", !.next = x, !.left = n, !.before = n] \in Main
              /\ [m EXCEPT !.next = x, !.left = n, !.before = n, !.progress = FALSE] \in Main
         /\ \A x \in Handle \cup {NoHandle}, p \in Phases, n \in Nat :
              [m EXCEPT !.left = n, !.current = x, !.was = p] \in Main
         /\ \A x \in Handle \cup {NoHandle}, b \in BOOLEAN :
              [m EXCEPT !.current = NoHandle, !.next = x, !.progress = b] \in Main
         /\ [m EXCEPT !.op = "destroyType", !.index = 1] \in Main
         /\ [m EXCEPT !.op = "destroyAll", !.index = 0] \in Main
         /\ \A n \in Nat : [m EXCEPT !.index = n] \in Main
         /\ \A t \in Types, r \in SUBSET Types :
              /\ [m EXCEPT !.type = t, !.index = 1, !.todo = r] \in Main
              /\ [Idle EXCEPT !.op = "cancelType", !.type = t] \in Main
         /\ [Idle EXCEPT !.op = "cancelAll", !.index = 1, !.todo = Types] \in Main
         /\ [Idle EXCEPT !.op = "down"] \in Main
  <1>1. (CHOOSE t \in Types : TRUE) \in Types
    BY StorageAssumption
  <1>2. PICK t0 : t0 = (CHOOSE t \in Types : TRUE)
    OBVIOUS
  <1>3. Idle = [op |-> "idle", left |-> 0, next |-> NoHandle, current |-> NoHandle,
                was |-> "PendingRead", before |-> 0, progress |-> FALSE,
                type |-> t0, index |-> 0, todo |-> {}]
    BY <1>2 DEF Idle
  <1>4. t0 \in Types
    BY <1>1, <1>2
  <1>5. Idle \in Main
    BY <1>3, <1>4 DEF Main, Phases
  <1>6. ASSUME NEW m \in Main, NEW x \in Handle \cup {NoHandle}, NEW n \in Nat
        PROVE  /\ [Idle EXCEPT !.op = "process", !.next = x, !.left = n] \in Main
               /\ [Idle EXCEPT !.op = "drain", !.next = x, !.left = n, !.before = n] \in Main
               /\ [m EXCEPT !.next = x, !.left = n, !.before = n, !.progress = FALSE] \in Main
    BY <1>5 DEF Main
  <1>7. ASSUME NEW m \in Main, NEW x \in Handle \cup {NoHandle}, NEW p \in Phases, NEW n \in Nat
        PROVE  [m EXCEPT !.left = n, !.current = x, !.was = p] \in Main
    BY DEF Main
  <1>8. ASSUME NEW m \in Main, NEW x \in Handle \cup {NoHandle}, NEW b \in BOOLEAN
        PROVE  [m EXCEPT !.current = NoHandle, !.next = x, !.progress = b] \in Main
    BY DEF Main
  <1>9. ASSUME NEW m \in Main
        PROVE  /\ [m EXCEPT !.op = "destroyType", !.index = 1] \in Main
               /\ [m EXCEPT !.op = "destroyAll", !.index = 0] \in Main
               /\ \A n \in Nat : [m EXCEPT !.index = n] \in Main
    BY DEF Main
  <1>10. ASSUME NEW m \in Main, NEW t \in Types, NEW r \in SUBSET Types
         PROVE  /\ [m EXCEPT !.type = t, !.index = 1, !.todo = r] \in Main
                /\ [Idle EXCEPT !.op = "cancelType", !.type = t] \in Main
    BY <1>5 DEF Main
  <1>11. /\ [Idle EXCEPT !.op = "cancelAll", !.index = 1, !.todo = Types] \in Main
         /\ [Idle EXCEPT !.op = "down"] \in Main
    BY <1>5 DEF Main
  <1> QED
    BY <1>5, <1>6, <1>7, <1>8, <1>9, <1>10, <1>11

LEMMA ListTypes ==
    ASSUME jobs \in Seq(Job)
    PROVE  /\ FirstJob \in Handle \cup {NoHandle} /\ Len(jobs) \in Nat
           /\ \A i \in DOMAIN jobs : JobAfter(i) \in Handle \cup {NoHandle}
  <1>1. jobs # <<>> => 1 \in DOMAIN jobs
    BY EmptySeq
  <1>2. \A i \in DOMAIN jobs : jobs[i].handle \in Handle
    BY JobEdits
  <1>3. \A i \in DOMAIN jobs : i < Len(jobs) => i + 1 \in DOMAIN jobs
    OBVIOUS
  <1> QED
    BY <1>1, <1>2, <1>3 DEF FirstJob, JobAfter

LEMMA TypeLoops ==
    ASSUME TypeOK, UNCHANGED held,
           \/ Process \/ DrainLoads \/ ProcessEnd \/ DrainPassEnd
    PROVE  TypeOK'
  <1>1. FirstJob \in Handle \cup {NoHandle} /\ Len(jobs) \in Nat
    BY TypeParts, ListTypes
  <1>2. Smaller(Len(jobs), MaxRequests) \in Nat
    BY <1>1, QueueAssumption DEF Smaller
  <1>3. main \in Main
    BY TypeParts
  <1>4. CASE Process
    <2>1. main' \in Main
      BY <1>1, <1>2, <1>3, <1>4, MainTypes DEF Process
    <2> QED
      BY <1>4, <2>1, TypeParts, TypePrimes DEF Process
  <1>5. CASE DrainLoads
    <2>1. main' \in Main
      BY <1>1, <1>3, <1>5, MainTypes DEF DrainLoads
    <2> QED
      BY <1>5, <2>1, TypeParts, TypePrimes DEF DrainLoads
  <1>6. CASE ProcessEnd
    BY <1>6, MainTypes, TypeParts, TypePrimes DEF ProcessEnd
  <1>7. CASE DrainPassEnd
    <2>1. main' \in Main
      BY <1>1, <1>3, <1>7, MainTypes DEF DrainPassEnd
    <2> QED
      BY <1>7, <2>1, TypeParts, TypePrimes DEF DrainPassEnd
  <1> QED
    BY <1>4, <1>5, <1>6, <1>7

LEMMA TypeLoopPick ==
    ASSUME TypeOK, LoopPick, UNCHANGED held
    PROVE  TypeOK'
  <1>1. PICK i \in JobsOf(main.next) :
          /\ main' = [main EXCEPT !.left = @ - 1, !.current = main.next,
                                  !.was = IF main.op = "drain" THEN jobs[i].phase ELSE @]
          /\ ProcessJob(i, <<>>)
    BY DEF LoopPick
  <1>2. /\ jobs \in Seq(Job) /\ i \in DOMAIN jobs /\ jobs[i] \in Job /\ main \in Main
        /\ slots \in [Key -> Slot]
    BY TypeParts, JobsOfFacts
  <1>3. <<>> \in Seq(Call)
    OBVIOUS
  <1>4. slots' \in [Key -> Slot] /\ jobs' \in Seq(Job) /\ calls' \in Seq(Call)
    BY <1>1, <1>2, <1>3, ProcessFacts, ProcessTypes
  <1>5. main.left - 1 \in Nat /\ main.next \in Handle \cup {NoHandle} /\ main.was \in Phases
    BY <1>2 DEF Main, LoopPick
  <1>6. (IF main.op = "drain" THEN jobs[i].phase ELSE main.was) \in Phases
    BY <1>2, <1>5 DEF Job
  <1>7. main' \in Main
    <2> DEFINE p == IF main.op = "drain" THEN jobs[i].phase ELSE main.was
               n == main.left - 1
    <2>1. main' = [main EXCEPT !.left = n, !.current = main.next, !.was = p]
      BY <1>1
    <2> HIDE DEF p, n
    <2> QED
      BY <1>2, <1>5, <1>6, <2>1, MainTypes DEF p, n
  <1> QED
    BY <1>4, <1>7, TypeParts, TypePrimes DEF LoopPick

LEMMA TypeLoopAfter ==
    ASSUME TypeOK, LoopAfter, UNCHANGED held
    PROVE  TypeOK'
  <1>1. PICK i \in JobsOf(main.current) :
          /\ main' = [main EXCEPT !.current = NoHandle, !.next = JobAfter(i),
                        !.progress = @ \/ (main.op = "drain"
                                           /\ (Terminal(jobs[i]) \/ jobs[i].phase # main.was))]
          /\ \/ Retire(i, <<>>)
             \/ /\ jobs' = Append(EraseJob(i), jobs[i])
                /\ UNCHANGED <<slots, calls, unload>>
             \/ UNCHANGED <<slots, jobs, calls, unload>>
    BY DEF LoopAfter
  <1>2. /\ jobs \in Seq(Job) /\ i \in DOMAIN jobs /\ jobs[i] \in Job /\ main \in Main
        /\ slots \in [Key -> Slot] /\ unload \in Seq(DestroyFrame) /\ calls \in Seq(Call)
    BY TypeParts, JobsOfFacts
  <1>3. <<>> \in Seq(Call)
    OBVIOUS
  <1>4. Append(EraseJob(i), jobs[i]) \in Seq(Job)
    BY <1>2, JobEdits, AppendFacts
  <1>5. /\ slots' \in [Key -> Slot] /\ jobs' \in Seq(Job) /\ calls' \in Seq(Call)
        /\ unload' \in Seq(DestroyFrame)
    <2>1. CASE Retire(i, <<>>)
      BY <1>2, <1>3, <2>1, RetireTypes
    <2> QED
      BY <1>1, <1>2, <1>4, <2>1
  <1>6. main' \in Main
    <2> DEFINE b == main.progress \/ (main.op = "drain"
                                      /\ (Terminal(jobs[i]) \/ jobs[i].phase # main.was))
    <2>1. main' = [main EXCEPT !.current = NoHandle, !.next = JobAfter(i), !.progress = b]
      BY <1>1
    <2>2. b \in BOOLEAN /\ JobAfter(i) \in Handle \cup {NoHandle}
      BY <1>2, ListTypes
    <2> HIDE DEF b
    <2> QED
      BY <1>2, <2>1, <2>2, MainTypes
  <1> QED
    BY <1>5, <1>6, TypeParts, TypePrimes DEF LoopAfter

LEMMA TypeCancelTypeNext ==
    ASSUME TypeOK, CancelTypeNext, UNCHANGED held
    PROVE  TypeOK'
  <1> DEFINE mine == {i \in 1..Len(jobs) : jobs[i].handle.type = main.type}
             h(i) == jobs[i].handle
             s(i) == IF Resolves(slots, h(i)) /\ ~Terminal(jobs[i])
                     THEN FinishSlot(slots, h(i), "Cancelled") ELSE slots
  <1>1. CASE mine = {}
    <2>1. /\ main' = [main EXCEPT !.op = "destroyType", !.index = 1]
          /\ UNCHANGED <<slots, jobs, calls, unload>>
      BY <1>1 DEF CancelTypeNext
    <2>2. main' \in Main
      BY <2>1, MainTypes, TypeParts
    <2> QED
      BY <2>1, <2>2, TypeParts, TypePrimes DEF CancelTypeNext
  <1>2. CASE mine # {}
    <2>1. PICK i \in mine :
            /\ UNCHANGED main
            /\ IF jobs[i].built
               THEN /\ jobs' = IF Terminal(jobs[i]) THEN jobs ELSE Finish(i, "Cancelled")
                    /\ calls' = <<[NewCall("dtor", h(i)) EXCEPT !.found = Resolves(slots, h(i))]>>
                    /\ slots' = IF Resolves(slots, h(i))
                                THEN [s(i) EXCEPT ![KeyOf(h(i))].retiring = TRUE] ELSE s(i)
                    /\ UNCHANGED unload
               ELSE /\ jobs' = EraseJob(i)
                    /\ slots' = s(i)
                    /\ unload' = TryUnload(s(i), h(i))
                    /\ UNCHANGED calls
      BY <1>2 DEF CancelTypeNext
    <2>2. /\ jobs \in Seq(Job) /\ i \in DOMAIN jobs /\ slots \in [Key -> Slot]
          /\ unload \in Seq(DestroyFrame) /\ calls \in Seq(Call)
      BY TypeParts
    <2>3. h(i) \in Handle
      BY <2>2, JobEdits
    <2>4. s(i) \in [Key -> Slot]
      BY <2>2, <2>3, FinishSlotFacts
    <2>5. Finish(i, "Cancelled") \in Seq(Job) /\ EraseJob(i) \in Seq(Job)
      BY <2>2, JobEdits, OutcomeTypes
    <2> HIDE DEF s
    <2>6. [s(i) EXCEPT ![KeyOf(h(i))].retiring = TRUE] \in [Key -> Slot]
      BY <2>3, <2>4, RetiringFacts
    <2>7. TryUnload(s(i), h(i)) \in Seq(DestroyFrame)
      BY <2>3, TryUnloadFacts
    <2>8. <<[NewCall("dtor", h(i)) EXCEPT !.found = Resolves(slots, h(i))]>> \in Seq(Call)
      <3>1. Resolves(slots, h(i)) \in BOOLEAN
        BY DEF Resolves
      <3>2. [NewCall("dtor", h(i)) EXCEPT !.found = Resolves(slots, h(i))] \in Call
        BY <2>3, <3>1, CallTypes
      <3> QED
        BY <3>2
    <2> HIDE DEF h
    <2>9. /\ slots' \in [Key -> Slot] /\ jobs' \in Seq(Job) /\ calls' \in Seq(Call)
          /\ unload' \in Seq(DestroyFrame)
      BY <2>1, <2>2, <2>4, <2>5, <2>6, <2>7, <2>8
    <2> QED
      BY <2>1, <2>9, TypeParts, TypePrimes DEF CancelTypeNext
  <1> QED
    BY <1>1, <1>2

LEMMA TypeCancelAllNext ==
    ASSUME TypeOK, CancelAllNext, UNCHANGED held
    PROVE  TypeOK'
  <1>0. main \in Main /\ main.index \in Nat
    BY TypeParts DEF Main
  <1>1. CASE main.index \notin DOMAIN jobs
    <2>1. /\ jobs' = <<>> /\ main' = [main EXCEPT !.op = "destroyAll", !.index = 0]
          /\ UNCHANGED <<slots, calls>>
      BY <1>1 DEF CancelAllNext
    <2>2. main' \in Main
      BY <1>0, <2>1, MainTypes
    <2>3. jobs' \in Seq(Job)
      BY <2>1
    <2> QED
      BY <2>1, <2>2, <2>3, TypeParts, TypePrimes DEF CancelAllNext
  <1>2. CASE main.index \in DOMAIN jobs
    <2> DEFINE h == jobs[main.index].handle
               found == Resolves(slots, h)
    <2>1. /\ main' = [main EXCEPT !.index = @ + 1]
          /\ UNCHANGED jobs
          /\ IF jobs[main.index].built
             THEN /\ calls' = <<[NewCall("dtor", h) EXCEPT !.found = found, !.erase = FALSE]>>
                  /\ slots' = IF found THEN [slots EXCEPT ![KeyOf(h)].retiring = TRUE] ELSE slots
             ELSE UNCHANGED <<slots, calls>>
      BY <1>2 DEF CancelAllNext
    <2>2. main' \in Main
      <3>1. main.index + 1 \in Nat /\ main' = [main EXCEPT !.index = main.index + 1]
        BY <1>0, <2>1
      <3> QED
        BY <1>0, <3>1, MainTypes
    <2>3. h \in Handle
      BY <1>2, JobEdits, TypeParts
    <2>4. [slots EXCEPT ![KeyOf(h)].retiring = TRUE] \in [Key -> Slot]
      BY <2>3, RetiringFacts, TypeParts
    <2>5. <<[NewCall("dtor", h) EXCEPT !.found = found, !.erase = FALSE]>> \in Seq(Call)
      <3>1. found \in BOOLEAN
        BY DEF Resolves
      <3>2. [NewCall("dtor", h) EXCEPT !.found = found, !.erase = FALSE] \in Call
        BY <2>3, <3>1, CallTypes
      <3> QED
        BY <3>2
    <2> HIDE DEF h, found
    <2>6. slots' \in [Key -> Slot] /\ calls' \in Seq(Call)
      BY <2>1, <2>4, <2>5, TypeParts
    <2> QED
      BY <2>1, <2>2, <2>6, TypeParts, TypePrimes DEF CancelAllNext
  <1> QED
    BY <1>1, <1>2

-----------------------------------------------------------------------------
(* ... requests                                                             *)

LEMMA BuildTopTypes ==
    ASSUME calls \in Seq(Call), InCallback("build"), NEW o \in Outcomes
    PROVE  /\ Top.handle \in Handle /\ Below \in Seq(Call)
           /\ Append(Below, [Top EXCEPT !.chain = FALSE]) \in Seq(Call)
           /\ Append(Below, [Top EXCEPT !.settled = TRUE, !.outcome = o]) \in Seq(Call)
  <1>1. Top \in Call /\ Top.handle \in Handle /\ Below \in Seq(Call)
    BY TopTypes DEF InCallback
  <1>2. /\ [Top EXCEPT !.chain = FALSE] \in Call
        /\ [Top EXCEPT !.settled = TRUE, !.outcome = o] \in Call
    BY <1>1 DEF Call
  <1> QED
    BY <1>1, <1>2, AppendFacts

LEMMA TypeBuildProcess ==
    ASSUME TypeOK, BuildProcess
    PROVE  TypeOK'
  <1>1. PICK i \in JobsOf(Top.handle) :
          ProcessJob(i, Append(Below, [Top EXCEPT !.chain = FALSE]))
    BY DEF BuildProcess
  <1>2. i \in DOMAIN jobs /\ Append(Below, [Top EXCEPT !.chain = FALSE]) \in Seq(Call)
    BY BuildTopTypes, OutcomeTypes, JobsOfFacts, TypeParts DEF BuildProcess
  <1>3. slots' \in [Key -> Slot] /\ jobs' \in Seq(Job) /\ calls' \in Seq(Call)
    BY <1>1, <1>2, TypeParts, ProcessFacts, ProcessTypes
  <1> QED
    BY <1>3, TypeParts, TypePrimes DEF BuildProcess

LEMMA TypeBuildAfter ==
    ASSUME TypeOK, BuildAfter
    PROVE  TypeOK'
  <1>1. PICK i \in JobsOf(Top.handle) :
          \/ Retire(i, Append(Below, [Top EXCEPT !.settled = TRUE, !.outcome = jobs[i].outcome]))
          \/ calls' = Below /\ UNCHANGED <<slots, jobs, unload>>
    BY DEF BuildAfter
  <1>2. i \in DOMAIN jobs /\ jobs[i].outcome \in Outcomes
    BY JobsOfFacts, TypeParts DEF Job
  <1>3. /\ Below \in Seq(Call)
        /\ Append(Below, [Top EXCEPT !.settled = TRUE, !.outcome = jobs[i].outcome]) \in Seq(Call)
    BY <1>2, BuildTopTypes, TypeParts DEF BuildAfter
  <1>4. /\ slots' \in [Key -> Slot] /\ jobs' \in Seq(Job) /\ calls' \in Seq(Call)
        /\ unload' \in Seq(DestroyFrame)
    BY <1>1, <1>2, <1>3, TypeParts, RetireTypes
  <1> QED
    BY <1>4, TypeParts, TypePrimes DEF BuildAfter

\* What release starts.
LEMMA ReleaseUnloadTypes ==
    ASSUME NEW s, NEW h \in Handle
    PROVE  ReleaseUnload(s, h) \in Seq(DestroyFrame)
  <1>1. TryUnload(ReleaseSlots(s, h), h) \in Seq(DestroyFrame)
    BY TryUnloadFacts
  <1>2. <<>> \in Seq(DestroyFrame)
    OBVIOUS
  <1> QED
    BY <1>1, <1>2 DEF ReleaseUnload

LEMMA TypeBuildReturn ==
    ASSUME TypeOK, BuildReturn
    PROVE  TypeOK'
  <1> DEFINE h == Top.handle
  <1>1. h \in Handle /\ Below \in Seq(Call)
    BY BuildTopTypes, OutcomeTypes, TypeParts DEF BuildReturn
  <1>2. CASE Top.outcome \in {"Failed", "Cancelled"} /\ CanRelease(slots, h)
    <2>1. /\ slots' = ReleaseSlots(slots, h)
          /\ unload' = ReleaseUnload(slots, h)
          /\ held' = [held EXCEPT ![KeyOf(h)] = IF held[KeyOf(h)] > 0 THEN held[KeyOf(h)] - 1 ELSE 0]
      BY <1>2 DEF BuildReturn
    <2>2. slots' \in [Key -> Slot]
      BY <1>1, <1>2, <2>1, ReleaseFacts, TypeParts DEF CanRelease
    <2>3. held' \in [Key -> Nat]
      <3> DEFINE n == IF held[KeyOf(h)] > 0 THEN held[KeyOf(h)] - 1 ELSE 0
      <3>1. held \in [Key -> Nat] /\ KeyOf(h) \in Key /\ held[KeyOf(h)] \in Nat
        BY <1>1, KeyFacts, TypeParts
      <3>2. n \in Nat /\ held' = [held EXCEPT ![KeyOf(h)] = n]
        BY <2>1, <3>1
      <3> HIDE DEF n
      <3> QED
        BY <3>1, <3>2
    <2>4. unload' \in Seq(DestroyFrame)
      BY <1>1, <2>1, ReleaseUnloadTypes
    <2> QED
      BY <1>1, <2>2, <2>3, <2>4, TypeParts, TypePrimes DEF BuildReturn
  <1>3. CASE ~(Top.outcome \in {"Failed", "Cancelled"} /\ CanRelease(slots, h))
    <2>1. UNCHANGED <<slots, unload, held>>
      BY <1>3 DEF BuildReturn
    <2> QED
      BY <1>1, <2>1, TypeParts, TypePrimes DEF BuildReturn
  <1> QED
    BY <1>2, <1>3

LEMMA LiveHandle ==
    ASSUME slots \in [Key -> Slot], NEW h \in Live(slots)
    PROVE  /\ h \in Handle /\ KeyOf(h) \in Key /\ Resolves(slots, h)
           /\ slots[KeyOf(h)].state # "EMPTY" /\ HandleAt(slots, KeyOf(h)) = h
  BY LiveFacts, KeyFacts, ResolvesFacts

LEMMA TypeReferences ==
    ASSUME TypeOK, NEW h \in Live(slots), Retain(h) \/ Release(h)
    PROVE  TypeOK'
  <1>1. /\ h \in Handle /\ KeyOf(h) \in Key /\ slots \in [Key -> Slot]
        /\ held \in [Key -> Nat] /\ held[KeyOf(h)] \in Nat
    BY LiveHandle, TypeParts
  <1>2. CASE Retain(h)
    <2>1. slots' \in [Key -> Slot]
      BY <1>1, <1>2, RetainFacts DEF Retain
    <2>2. held' \in [Key -> Nat]
      BY <1>1, <1>2 DEF Retain
    <2> QED
      BY <1>2, <2>1, <2>2, TypeParts, TypePrimes DEF Retain
  <1>3. CASE Release(h)
    <2>1. held' \in [Key -> Nat]
      BY <1>1, <1>3 DEF Release
    <2>2. CASE CanRelease(slots, h)
      <3>1. slots' = ReleaseSlots(slots, h) /\ unload' = ReleaseUnload(slots, h)
        BY <1>3, <2>2 DEF Release
      <3>2. slots' \in [Key -> Slot]
        BY <1>1, <2>2, <3>1, ReleaseFacts DEF CanRelease
      <3>3. unload' \in Seq(DestroyFrame)
        BY <1>1, <3>1, ReleaseUnloadTypes
      <3> QED
        BY <1>3, <2>1, <3>2, <3>3, TypeParts, TypePrimes DEF Release
    <2>3. CASE ~CanRelease(slots, h)
      BY <1>3, <2>1, <2>3, TypeParts, TypePrimes DEF Release
    <2> QED
      BY <2>2, <2>3
  <1> QED
    BY <1>2, <1>3

LEMMA TypeAddDependency ==
    ASSUME TypeOK, NEW d, NEW r, AddDependency(d, r)
    PROVE  TypeOK'
  <1>1. PICK i \in JobsOf(Top.handle) :
          /\ d \in Dependable(Top.handle.type)
          /\ jobs' = IF r = "required"
                     THEN [jobs EXCEPT ![i].required = @ \cup {d}, ![i].optional = @ \ {d}]
                     ELSE [jobs EXCEPT ![i].optional = @ \cup {d}]
    BY DEF AddDependency
  <1>2. jobs \in Seq(Job) /\ i \in DOMAIN jobs /\ jobs[i] \in Job
    BY TypeParts, JobsOfFacts
  <1>3. d \in Handle \cup {NoHandle}
    BY <1>1, LiveHandle, TypeParts DEF Dependable
  <1> DEFINE j == jobs[i]
             f == [j EXCEPT !.required = @ \cup {d}, !.optional = @ \ {d}]
             g == [j EXCEPT !.optional = @ \cup {d}]
  <1>4. f \in Job /\ g \in Job
    BY <1>2, <1>3 DEF Job
  <1>5. jobs' = [jobs EXCEPT ![i] = f] \/ jobs' = [jobs EXCEPT ![i] = g]
    BY <1>1, <1>2
  <1> HIDE DEF f, g
  <1>6. jobs' \in Seq(Job)
    BY <1>2, <1>4, <1>5, EditFacts
  <1> QED
    BY <1>6, TypeParts, TypePrimes DEF AddDependency

\* The slot that a request takes.
LEMMA AllocFacts ==
    ASSUME TypeOK, NEW t \in Types, CanAllocate(t)
    PROVE  /\ AllocIndex(t) \in Index /\ NewKey(t) \in Key
           /\ NewKey(t)[1] = t /\ NewKey(t)[2] = AllocIndex(t)
           /\ NewHandle(t) \in Handle /\ KeyOf(NewHandle(t)) = NewKey(t)
           /\ NewHandle(t) = HandleAt(slots, NewKey(t)) /\ NewHandle(t).type = t
           /\ Resolves(slots, NewHandle(t))
  <1>1. free[t] \in Seq(Index) /\ size[t] \in 0..MaxSlots /\ slots \in [Key -> Slot]
    BY TypeParts
  <1>2. AllocIndex(t) \in Index
    <2>1. CASE free[t] # <<>>
      <3>1. Len(free[t]) \in DOMAIN free[t]
        BY <1>1, <2>1, EmptySeq
      <3> QED
        BY <1>1, <2>1, <3>1 DEF AllocIndex
    <2>2. CASE free[t] = <<>>
      BY <1>1, <2>2, StorageAssumption DEF AllocIndex, CanAllocate, Index
    <2> QED
      BY <2>1, <2>2
  <1>3. NewKey(t) \in Key /\ NewKey(t)[1] = t /\ NewKey(t)[2] = AllocIndex(t)
    BY <1>2 DEF NewKey, Key
  <1>4. slots[NewKey(t)].generation \in Nat
    BY <1>1, <1>3 DEF Slot
  <1>5. /\ NewHandle(t) \in Handle /\ KeyOf(NewHandle(t)) = NewKey(t)
        /\ NewHandle(t) = HandleAt(slots, NewKey(t)) /\ NewHandle(t).type = t
    BY <1>3, <1>4, HandleFacts DEF NewHandle
  <1>6. Resolves(slots, NewHandle(t))
    BY <1>1, <1>5, ResolvesFacts
  <1> QED
    BY <1>2, <1>3, <1>5, <1>6

LEMMA NewSlotsFacts ==
    ASSUME TypeOK, NEW t \in Types, CanAllocate(t), NEW p \in Paths \cup {NoPath},
           NEW state \in States
    PROVE  LET s == NewSlots(t, p, state)
               l == NewKey(t)
           IN  /\ s \in [Key -> Slot]
               /\ \A k \in Key : k # l => s[k] = slots[k]
               /\ s[l].generation = slots[l].generation /\ s[l].state = state
               /\ s[l].pin = 1 /\ s[l].path = p /\ ~s[l].retiring
               /\ s[l].dependencies = {} /\ s[l].dependents = {}
  <1> DEFINE l == NewKey(t)
             g == slots[l].generation
             f == [FreshSlot(g, p) EXCEPT !.state = state, !.pin = 1]
             s == NewSlots(t, p, state)
  <1>1. l \in Key /\ slots \in [Key -> Slot]
    BY AllocFacts, TypeParts
  <1>2. g \in Nat
    BY <1>1 DEF Slot
  <1>3. s = [slots EXCEPT ![l] = f]
    BY DEF NewSlots
  <1> HIDE DEF g
  <1>4. /\ f \in Slot /\ f.generation = g /\ f.state = state /\ f.pin = 1 /\ f.path = p
        /\ ~f.retiring /\ f.dependencies = {} /\ f.dependents = {}
    BY <1>2 DEF FreshSlot, EmptySlot, Slot, States
  <1> HIDE DEF l, f, s
  <1>5. s \in [Key -> Slot] /\ s[l] = f /\ \A k \in Key : k # l => s[k] = slots[k]
    BY <1>1, <1>3, <1>4
  <1>6. s[l].generation = slots[l].generation
    BY <1>4, <1>5 DEF g
  <1>7. /\ s[l].state = state /\ s[l].pin = 1 /\ s[l].path = p /\ ~s[l].retiring
        /\ s[l].dependencies = {} /\ s[l].dependents = {}
    BY <1>4, <1>5
  <1> QED
    BY <1>5, <1>6, <1>7 DEF s, l

LEMMA TakeIndexTypes ==
    ASSUME TypeOK, NEW t \in Types, CanAllocate(t), TakeIndex(t)
    PROVE  size' \in [Types -> 0..MaxSlots] /\ free' \in [Types -> Seq(Index)]
  <1>1. /\ free[t] \in Seq(Index) /\ size[t] \in 0..MaxSlots
        /\ size \in [Types -> 0..MaxSlots] /\ free \in [Types -> Seq(Index)]
    BY TypeParts
  <1>2. CASE Grows(t)
    <2>1. size[t] + 1 \in 0..MaxSlots
      BY <1>1, <1>2, StorageAssumption DEF CanAllocate, Grows
    <2>2. size' = [size EXCEPT ![t] = size[t] + 1] /\ free' = free
      BY <1>2 DEF TakeIndex
    <2> QED
      BY <1>1, <2>1, <2>2
  <1>3. CASE ~Grows(t)
    <2> DEFINE b == SubSeq(free[t], 1, Len(free[t]) - 1)
    <2>1. b \in Seq(Index)
      BY <1>1, <1>3, TopFacts DEF Grows
    <2>2. free' = [free EXCEPT ![t] = b] /\ size' = size
      BY <1>3 DEF TakeIndex
    <2> HIDE DEF b
    <2> QED
      BY <1>1, <2>1, <2>2
  <1> QED
    BY <1>2, <1>3

LEMMA DependencyTypes ==
    ASSUME TypeOK, NEW t, NEW deps \in DependencyLists(t)
    PROVE  /\ deps.required \subseteq Dependable(t) /\ deps.optional \subseteq Dependable(t)
           /\ deps.required \in SUBSET (Handle \cup {NoHandle})
           /\ deps.optional \in SUBSET (Handle \cup {NoHandle})
           /\ "optional" \notin Requirements => deps.optional = {}
  <1>1. Dependable(t) \subseteq Handle \cup {NoHandle}
    BY LiveHandle, TypeParts DEF Dependable
  <1> DEFINE some == {ds \in SUBSET Dependable(t) : Cardinality(ds) <= MaxDeps}
  <1>2. PICK r \in IF "required" \in Requirements THEN some ELSE {{}},
             o \in IF "optional" \in Requirements THEN some ELSE {{}} :
          deps = [required |-> r, optional |-> o]
    BY DEF DependencyLists
  <1>3. r \subseteq Dependable(t) /\ o \subseteq Dependable(t)
    BY <1>2
  <1>4. "optional" \notin Requirements => o = {}
    BY <1>2
  <1> QED
    BY <1>1, <1>2, <1>3, <1>4

LEMMA NewJobTypes ==
    ASSUME TypeOK, NEW t \in Types, CanAllocate(t), NEW deps \in DependencyLists(t), NEW state
    PROVE  NewJob(t, deps, state) \in Job
  <1>1. NewHandle(t) \in Handle
    BY AllocFacts
  <1>2. /\ deps.required \in SUBSET (Handle \cup {NoHandle})
        /\ deps.optional \in SUBSET (Handle \cup {NoHandle})
    BY DependencyTypes
  <1> QED
    BY <1>1, <1>2 DEF NewJob, Job, Phases, Outcomes

LEMMA MovedTypes ==
    ASSUME calls \in Seq(Call), NEW t
    PROVE  MovedCalls(t) \in Seq(Call)
  <1> DEFINE f(i) == IF Grows(t) /\ calls[i].op # "build" /\ calls[i].handle.type = t
                     THEN [calls[i] EXCEPT !.dangling = TRUE] ELSE calls[i]
  <1>1. ASSUME NEW i \in 1..Len(calls) PROVE f(i) \in Call
    <2>1. calls[i] \in Call
      OBVIOUS
    <2>2. [calls[i] EXCEPT !.dangling = TRUE] \in Call
      BY <2>1 DEF Call
    <2> QED
      BY <2>1, <2>2
  <1>2. MovedCalls(t) = [i \in 1..Len(calls) |-> f(i)] /\ Len(calls) \in Nat
    BY DEF MovedCalls
  <1> HIDE DEF f
  <1> QED
    BY <1>1, <1>2, IsASeq

LEMMA StateTypes ==
    ASSUME NEW deps, NEW ok \in BOOLEAN
    PROVE  InitialState(deps, ok) \in {"FAILED", "WAITING_DEPENDENCIES", "WAITING_LOAD"}
  BY DEF InitialState

LEMMA TypeLoad ==
    ASSUME TypeOK, NEW t \in Types, NEW p \in Paths, NEW skip, NEW deps \in DependencyLists(t),
           NEW ok \in BOOLEAN, Load(t, p, skip, deps, ok)
    PROVE  TypeOK'
  <1> DEFINE state == InitialState(deps, ok)
  <1>1. CanAllocate(t) /\ state \in States
    BY StateTypes DEF Load, CanRequest, States, InProgress
  <1>2. slots' \in [Key -> Slot]
    BY <1>1, NewSlotsFacts DEF Load
  <1>3. NewKey(t) \in Key /\ NewHandle(t) \in Handle
    BY <1>1, AllocFacts
  <1>4. jobs' \in Seq(Job)
    <2>1. NewJob(t, deps, state) \in Job /\ jobs \in Seq(Job)
      BY <1>1, NewJobTypes, TypeParts
    <2>2. jobs' = jobs \/ jobs' = Append(jobs, NewJob(t, deps, state))
      BY DEF Load
    <2> HIDE DEF state
    <2> QED
      BY <2>1, <2>2, AppendFacts
  <1>5. calls' \in Seq(Call)
    BY MovedTypes, TypeParts DEF Load
  <1>6. size' \in [Types -> 0..MaxSlots] /\ free' \in [Types -> Seq(Index)]
    BY <1>1, TakeIndexTypes DEF Load
  <1>7. cache' \in [Types \X Paths -> Handle \cup {NoHandle}] /\ held' \in [Key -> Nat]
    BY <1>3, TypeParts DEF Load
  <1> QED
    BY <1>2, <1>4, <1>5, <1>6, <1>7, TypeParts, TypePrimes DEF Load

LEMMA TypeBuild ==
    ASSUME TypeOK, NEW t \in Types, NEW deps \in DependencyLists(t),
           NEW ok \in BOOLEAN, Build(t, deps, ok)
    PROVE  TypeOK'
  <1> DEFINE state == InitialState(deps, ok)
             s == NewSlots(t, NoPath, state)
             h == NewHandle(t)
  <1>1. CanAllocate(t) /\ state \in States
    BY StateTypes DEF Build, CanRequest, States, InProgress
  <1>2. NewKey(t) \in Key /\ h \in Handle /\ KeyOf(h) = NewKey(t)
    BY <1>1, AllocFacts
  <1>3. s \in [Key -> Slot] /\ s[KeyOf(h)].pin = 1
    BY <1>1, <1>2, NewSlotsFacts
  <1>4. size' \in [Types -> 0..MaxSlots] /\ free' \in [Types -> Seq(Index)]
    BY <1>1, TakeIndexTypes DEF Build
  <1>5. MovedCalls(t) \in Seq(Call)
    BY MovedTypes, TypeParts
  <1>6. CASE state = "FAILED"
    <2>1. /\ slots' = ReleaseSlots(s, h) /\ unload' = ReleaseUnload(s, h)
          /\ calls' = MovedCalls(t) /\ UNCHANGED <<jobs, held, cache, main>>
      BY <1>6 DEF Build
    <2> HIDE DEF s, h, state
    <2>2. slots' \in [Key -> Slot]
      BY <1>2, <1>3, <2>1, ReleaseFacts
    <2>3. unload' \in Seq(DestroyFrame)
      BY <1>2, <2>1, ReleaseUnloadTypes
    <2> QED
      BY <1>4, <1>5, <2>1, <2>2, <2>3, TypeParts, TypePrimes
  <1>7. CASE state # "FAILED"
    <2>1. /\ slots' = s /\ jobs' = Append(jobs, NewJob(t, deps, state))
          /\ \/ calls' = Append(MovedCalls(t), [NewCall("build", h) EXCEPT !.chain = TRUE])
             \/ calls' = MovedCalls(t)
          /\ held' = [held EXCEPT ![NewKey(t)] = 1] /\ UNCHANGED <<unload, cache, main>>
      BY <1>7 DEF Build
    <2>2. NewJob(t, deps, state) \in Job
      BY <1>1, NewJobTypes
    <2> HIDE DEF s, h, state
    <2>3. jobs' \in Seq(Job)
      BY <2>1, <2>2, AppendFacts, TypeParts
    <2>4. [NewCall("build", h) EXCEPT !.chain = TRUE] \in Call
      BY <1>2, CallTypes
    <2>5. calls' \in Seq(Call)
      BY <1>5, <2>1, <2>4, AppendFacts
    <2>6. held' \in [Key -> Nat]
      BY <1>2, <2>1, TypeParts
    <2> QED
      BY <1>3, <1>4, <2>1, <2>3, <2>5, <2>6, TypeParts, TypePrimes
  <1> QED
    BY <1>6, <1>7

-----------------------------------------------------------------------------
(* ... forced unloading and shutdown                                        *)

LEMMA TypeForceUnload ==
    ASSUME TypeOK, NEW t \in ForcedTypes, ForceUnload(t)
    PROVE  TypeOK'
  <1>1. t \in Types /\ main \in Main
    BY SystemAssumption, TypeParts
  <1>2. main' \in Main
    BY <1>1, MainTypes DEF ForceUnload
  <1> QED
    BY <1>2, TypeParts, TypePrimes DEF ForceUnload

LEMMA TypeDestroyTypeNext ==
    ASSUME TypeOK, DestroyTypeNext
    PROVE  TypeOK'
  <1>1. main \in Main /\ main.type \in Types /\ main.index \in Nat
    BY TypeParts DEF Main
  <1>2. CASE main.index \notin 1..size[main.type]
    <2>1. main' = Idle /\ UNCHANGED <<slots, unload>>
      BY <1>2 DEF DestroyTypeNext
    <2> QED
      BY <2>1, MainTypes, TypeParts, TypePrimes DEF DestroyTypeNext
  <1>3. CASE main.index \in 1..size[main.type]
    <2> DEFINE k == <<main.type, main.index>>
               h == HandleAt(slots, k)
    <2>1. /\ main' = [main EXCEPT !.index = main.index + 1]
          /\ \/ UNCHANGED <<slots, unload>>
             \/ slots' = DetachDependents(slots, h) /\ unload' = <<DestroyCall(h, TRUE)>>
      BY <1>3 DEF DestroyTypeNext
    <2>2. k \in Key
      BY <1>1, <1>3, TypeParts, StorageAssumption DEF Key, Index
    <2>3. slots \in [Key -> Slot] /\ slots[k].generation \in Nat
      BY <2>2, TypeParts DEF Slot
    <2>4. h \in Handle
      BY <2>2, <2>3, HandleFacts
    <2> HIDE DEF k, h
    <2>5. slots' \in [Key -> Slot]
      BY <2>1, <2>3, <2>4, DetachDependentsFacts
    <2>6. unload' \in Seq(DestroyFrame)
      BY <2>1, <2>4, DestroyCallFacts, TypeParts
    <2>7. main.index + 1 \in Nat
      BY <1>1
    <2>8. main' \in Main
      BY <1>1, <2>1, <2>7, MainTypes
    <2> QED
      BY <2>5, <2>6, <2>8, TypeParts, TypePrimes DEF DestroyTypeNext
  <1> QED
    BY <1>2, <1>3

LEMMA TypeDestroyAllNext ==
    ASSUME TypeOK, DestroyAllNext
    PROVE  TypeOK'
  <1>1. main \in Main /\ main.type \in Types /\ main.index \in Nat /\ main.todo \subseteq Types
    BY TypeParts DEF Main
  <1>2. CASE /\ \E t \in main.todo :
                  main' = [main EXCEPT !.type = t, !.index = 1, !.todo = @ \ {t}]
             /\ UNCHANGED <<slots, size, free, cache, unload>>
    <2>1. PICK t \in main.todo :
            main' = [main EXCEPT !.type = t, !.index = 1, !.todo = main.todo \ {t}]
      BY <1>2
    <2>2. t \in Types /\ main.todo \ {t} \in SUBSET Types
      BY <1>1
    <2>3. main' \in Main
      BY <1>1, <2>1, <2>2, MainTypes
    <2> QED
      BY <1>2, <2>3, TypeParts, TypePrimes DEF DestroyAllNext
  <1>3. CASE /\ main' = [main EXCEPT !.index = 0]
             /\ UNCHANGED <<slots, size, free, cache, unload>>
    <2>1. main' \in Main
      BY <1>1, <1>3, MainTypes
    <2> QED
      BY <1>3, <2>1, TypeParts, TypePrimes DEF DestroyAllNext
  <1>4. CASE /\ main.index \in 1..size[main.type]
             /\ main' = [main EXCEPT !.index = @ + 1]
             /\ unload' = <<DestroyCall(HandleAt(slots, <<main.type, main.index>>), FALSE)>>
             /\ UNCHANGED <<slots, size, free, cache>>
    <2>1. main.index + 1 \in Nat /\ main' = [main EXCEPT !.index = main.index + 1]
      BY <1>1, <1>4
    <2>2. main' \in Main
      BY <1>1, <2>1, MainTypes
    <2> DEFINE k == <<main.type, main.index>>
    <2>3. k \in Key
      BY <1>1, <1>4, TypeParts, StorageAssumption DEF Key, Index
    <2>4. slots[k].generation \in Nat
      BY <2>3, TypeParts DEF Slot
    <2>5. HandleAt(slots, k) \in Handle
      BY <2>3, <2>4, HandleFacts
    <2>6. unload' \in Seq(DestroyFrame)
      BY <1>4, <2>5, DestroyCallFacts
    <2> QED
      BY <1>4, <2>2, <2>6, TypeParts, TypePrimes DEF DestroyAllNext
  <1>5. CASE /\ main' = [Idle EXCEPT !.op = "down"]
             /\ slots' = [k \in Key |-> EmptySlot(1)]
             /\ size' = [t \in Types |-> 0]
             /\ free' = [t \in Types |-> <<>>]
             /\ cache' = [tp \in Types \X Paths |-> NoHandle]
             /\ UNCHANGED unload
    <2>1. EmptySlot(1) \in Slot
      BY DEF EmptySlot, Slot, States
    <2>2. slots' \in [Key -> Slot]
      BY <1>5, <2>1
    <2>3. size' \in [Types -> 0..MaxSlots] /\ free' \in [Types -> Seq(Index)]
      BY <1>5, StorageAssumption
    <2>4. cache' \in [Types \X Paths -> Handle \cup {NoHandle}]
      BY <1>5
    <2>5. main' \in Main
      BY <1>1, <1>5, MainTypes
    <2> QED
      BY <1>5, <2>2, <2>3, <2>4, <2>5, TypeParts, TypePrimes DEF DestroyAllNext
  <1> QED
    BY <1>2, <1>3, <1>4, <1>5 DEF DestroyAllNext

LEMMA TypeShutdown ==
    ASSUME TypeOK, Shutdown
    PROVE  TypeOK'
  <1>1. main' \in Main
    BY MainTypes, TypeParts DEF Shutdown
  <1>2. jobs' \in Seq(Job)
    <2>1. \A i \in 1..Len(jobs) : [jobs[i] EXCEPT !.outcome = "Cancelled"] \in Job
      <3>1. \A i \in 1..Len(jobs) : jobs[i] \in Job
        BY TypeParts
      <3> QED
        BY <3>1 DEF Job, Outcomes
    <2>2. jobs' = [i \in 1..Len(jobs) |-> [jobs[i] EXCEPT !.outcome = "Cancelled"]]
      BY TypeParts DEF Shutdown
    <2>3. Len(jobs) \in Nat
      BY TypeParts
    <2> QED
      BY <2>1, <2>2, <2>3
  <1>3. slots' \in [Key -> Slot]
    <2>1. ASSUME NEW k \in Key
          PROVE  [slots[k] EXCEPT !.state = "FAILED"] \in Slot
      <3>1. slots[k] \in Slot
        BY TypeParts
      <3> QED
        BY <3>1 DEF Slot, States
    <2> QED
      BY <2>1, TypeParts DEF Shutdown
  <1> QED
    BY <1>1, <1>2, <1>3, TypeParts, TypePrimes DEF Shutdown

LEMMA TypeInit ==
    ASSUME Init
    PROVE  TypeOK
  <1>1. EmptySlot(1) \in Slot
    BY DEF EmptySlot, Slot, States
  <1>2. slots \in [Key -> Slot]
    BY <1>1 DEF Init, StorageInit
  <1>3. size \in [Types -> 0..MaxSlots] /\ free \in [Types -> Seq(Index)]
    BY StorageAssumption DEF Init, StorageInit
  <1>4. cache \in [Types \X Paths -> Handle \cup {NoHandle}] /\ unload \in Seq(DestroyFrame)
    BY DEF Init, StorageInit
  <1>5. jobs \in Seq(Job) /\ calls \in Seq(Call)
    BY DEF Init, QueueInit
  <1>6. main \in Main
    BY MainTypes DEF Init, QueueInit
  <1>7. held \in [Key -> Nat]
    BY DEF Init
  <1> QED
    BY <1>2, <1>3, <1>4, <1>5, <1>6, <1>7, TypeParts

LEMMA TypeNext ==
    ASSUME TypeOK, [Next]_vars
    PROVE  TypeOK'
  <1>1. CASE Unload
    BY <1>1, TypeDestroyEnter, TypeDetachNext, TypeDestroyDone DEF Unload
  <1>2. CASE Queue
    BY <1>2, TypeCtorReturn, TypeDtorReturn, TypeStepReturn, TypeLoops, TypeLoopPick,
       TypeLoopAfter, TypeCancelTypeNext, TypeCancelAllNext DEF Queue
  <1>3. CASE BuildProcess \/ BuildAfter \/ BuildReturn \/ DestroyTypeNext \/ DestroyAllNext
    BY <1>3, TypeBuildProcess, TypeBuildAfter, TypeBuildReturn, TypeDestroyTypeNext,
       TypeDestroyAllNext
  <1>4. CASE Client
    BY <1>4, TypeBuild, TypeLoad, TypeReferences, TypeAddDependency, TypeForceUnload,
       TypeShutdown DEF Client
  <1>5. CASE Stopped \/ UNCHANGED vars
    BY <1>5, TypeParts, TypePrimes DEF Stopped, vars
  <1> QED
    BY <1>1, <1>2, <1>3, <1>4, <1>5 DEF Next, Internal

\* The type invariant of the asset system: whatever the callbacks call, pin
\* counts stay natural numbers, free indices name slots of their bucket, and
\* the handles that jobs and calls keep are handles.
THEOREM TypeCorrect == Spec => []TypeOK
  <1>1. Init => TypeOK
    BY TypeInit
  <1>2. TypeOK /\ [Next]_vars => TypeOK'
    BY TypeNext
  <1> QED
    BY <1>1, <1>2, PTL DEF Spec

-----------------------------------------------------------------------------
(* The inductive invariant: the storage                                     *)

\* Shutdown has begun to destroy slots behind the graph, or has done so.
Ending == main.op \in {"destroyAll", "down"}

H(k) == HandleAt(slots, k)

\* The asset in slot k still holds its dependency d: no destroy_slot call has
\* taken d off its loop already.
Edge(k, d) ==
    /\ d \in slots[k].dependencies
    /\ \A i \in DOMAIN unload :
         unload[i].handle = H(k) /\ unload[i].at = "detach" => d \in unload[i].rest

\* ... the asset in slot l.
EdgeTo(k, l) == Edge(k, H(l))

\* The destroy_slot calls in progress are about existing assets that nothing
\* depends on.
UnloadInv ==
    \A i \in DOMAIN unload :
      LET h == unload[i].handle
      IN  /\ Resolves(slots, h)
          /\ unload[i].rest \subseteq slots[KeyOf(h)].dependencies
          /\ ~Ending => /\ slots[KeyOf(h)].state # "EMPTY"
                        /\ slots[KeyOf(h)].dependents = {}
                        /\ unload[i].reuse

EmptyInv ==
    ~Ending => \A k \in Key : slots[k].state = "EMPTY" =>
                 slots[k].dependencies = {} /\ slots[k].dependents = {}

\* The two directions of the graph agree, but for the edges that are being taken out.
GraphInv ==
    ~Ending =>
      \A k \in Key :
        /\ \A d \in slots[k].dependencies :
              Edge(k, d) => d \in Live(slots) /\ H(k) \in slots[KeyOf(d)].dependents
        /\ \A p \in slots[k].dependents : p \in Live(slots) /\ EdgeTo(KeyOf(p), k)

\* The slots can be ordered with every asset above its dependencies, whether
\* they still exist or not, and every nested destroy_slot call below its caller.
Above(R) ==
    /\ \A k \in Key : <<k, k>> \notin R
    /\ \A k, l, m \in Key : <<k, l>> \in R /\ <<l, m>> \in R => <<k, m>> \in R
    /\ \A k \in Key : \A d \in slots[k].dependencies : <<k, KeyOf(d)>> \in R
    /\ \A i, j \in DOMAIN unload :
         i < j => <<KeyOf(unload[i].handle), KeyOf(unload[j].handle)>> \in R
OrderInv == \E R \in SUBSET (Key \X Key) : Above(R)

FreeInv ==
    ~Ending =>
      \A t \in Types :
        /\ \A i, j \in DOMAIN free[t] : free[t][i] = free[t][j] => i = j
        /\ \A i \in Index : (\E n \in DOMAIN free[t] : free[t][n] = i)
                              <=> i <= size[t] /\ slots[<<t, i>>].state = "EMPTY"
        /\ \A i \in Index : i > size[t] => slots[<<t, i>>].state = "EMPTY"

CacheInv ==
    ~Ending =>
      \A t \in Types, p \in Paths, c \in Handle :
        cache[<<t, p>>] = c =>
          /\ c \in Live(slots) /\ c.type = t /\ slots[KeyOf(c)].path = p
          /\ \A i \in DOMAIN unload : unload[i].handle = c => unload[i].at = "enter"

\* Generations stay below the one that would wrap.
GenerationInv ==
    ~Ending => \A k \in Key : /\ slots[k].generation <= MaxGeneration + 1
                              /\ slots[k].state # "EMPTY" => slots[k].generation <= MaxGeneration

StorageInv ==
    /\ UnloadInv /\ EmptyInv /\ GraphInv /\ OrderInv
    /\ FreeInv /\ CacheInv /\ GenerationInv

LEMMA FramesDistinct ==
    ASSUME TypeOK, OrderInv
    PROVE  \A i, j \in DOMAIN unload :
             KeyOf(unload[i].handle) = KeyOf(unload[j].handle) => i = j
  <1>1. PICK R \in SUBSET (Key \X Key) : Above(R)
    BY DEF OrderInv
  <1>2. \A i \in DOMAIN unload : i \in Int /\ KeyOf(unload[i].handle) \in Key
    <2>1. ASSUME NEW i \in DOMAIN unload PROVE i \in Int /\ KeyOf(unload[i].handle) \in Key
      <3>1. i \in Int /\ unload[i] \in DestroyFrame
        BY TypeParts
      <3>2. unload[i].handle \in Handle
        BY <3>1 DEF DestroyFrame
      <3> QED
        BY <3>1, <3>2, KeyFacts
    <2> QED
      BY <2>1
  <1>3. ASSUME NEW i \in DOMAIN unload, NEW j \in DOMAIN unload,
               KeyOf(unload[i].handle) = KeyOf(unload[j].handle), i # j
        PROVE  FALSE
    <2>1. i < j \/ j < i
      BY <1>2, <1>3
    <2>2. <<KeyOf(unload[i].handle), KeyOf(unload[j].handle)>> \in R
          \/ <<KeyOf(unload[j].handle), KeyOf(unload[i].handle)>> \in R
      BY <1>1, <2>1 DEF Above
    <2> QED
      BY <1>1, <1>2, <1>3, <2>2 DEF Above
  <1> QED
    BY <1>3

-----------------------------------------------------------------------------
(* Steps that leave the graph alone                                         *)

\* No destroy_slot call begins, or one for an asset that exists.
Starts ==
    \/ unload' = unload
    \/ /\ unload = <<>>
       /\ \E h \in Handle :
            /\ unload' = TryUnload(slots', h)
            /\ Resolves(slots', h) => slots'[KeyOf(h)].state # "EMPTY"

LEMMA StartsFacts ==
    ASSUME TypeOK, TypeOK', Starts
    PROVE  \/ unload' = unload
           \/ unload = <<>> /\ unload' = <<>>
           \/ /\ unload = <<>> /\ DOMAIN unload' = {1} /\ unload'[1] \in DestroyFrame
              /\ unload'[1].at = "enter" /\ unload'[1].rest = {} /\ unload'[1].reuse
              /\ Resolves(slots', unload'[1].handle)
              /\ slots'[KeyOf(unload'[1].handle)].state # "EMPTY"
              /\ slots'[KeyOf(unload'[1].handle)].dependents = {}
  <1>1. CASE /\ unload = <<>>
             /\ \E h \in Handle :
                  /\ unload' = TryUnload(slots', h)
                  /\ Resolves(slots', h) => slots'[KeyOf(h)].state # "EMPTY"
    <2>1. PICK h \in Handle : /\ unload' = TryUnload(slots', h)
                              /\ Resolves(slots', h) => slots'[KeyOf(h)].state # "EMPTY"
      BY <1>1
    <2>2. CASE unload' = <<>>
      BY <1>1, <2>2
    <2>3. CASE unload' # <<>>
      <3>1. /\ unload' = <<DestroyCall(h, TRUE)>> /\ Resolves(slots', h)
            /\ slots'[KeyOf(h)].dependents = {}
        BY <2>1, <2>3 DEF TryUnload
      <3>2. /\ DestroyCall(h, TRUE) \in DestroyFrame /\ DestroyCall(h, TRUE).handle = h
            /\ DestroyCall(h, TRUE).at = "enter" /\ DestroyCall(h, TRUE).rest = {}
            /\ DestroyCall(h, TRUE).reuse
        BY DestroyCallFacts
      <3>3. DOMAIN unload' = {1} /\ unload'[1] = DestroyCall(h, TRUE)
        BY <3>1
      <3> QED
        BY <1>1, <2>1, <3>1, <3>2, <3>3
    <2> QED
      BY <2>2, <2>3
  <1> QED
    BY <1>1 DEF Starts

LEMMA StorageCalm ==
    ASSUME TypeOK, TypeOK', StorageInv, UNCHANGED <<size, free, cache>>,
           Ending => Ending', Starts, SameGraph(slots, slots'),
           \A k \in Key : slots'[k].state = "EMPTY" <=> slots[k].state = "EMPTY"
    PROVE  StorageInv'
  <1>1. slots \in [Key -> Slot] /\ slots' \in [Key -> Slot]
    BY TypeParts, TypePrimes
  <1>2. /\ \A k \in Key : HandleAt(slots', k) = HandleAt(slots, k)
        /\ \A h \in Handle : Resolves(slots', h) <=> Resolves(slots, h)
    BY <1>1, SameGraphFacts
  <1>3. \A h : h \in Live(slots') <=> h \in Live(slots)
    <2>1. ASSUME NEW h PROVE h \in Live(slots') <=> h \in Live(slots)
      <3>1. h \in Handle => KeyOf(h) \in Key
        BY KeyFacts
      <3> QED
        BY <1>1, <1>2, <3>1, LiveFacts
    <2> QED
      BY <2>1
  <1>4. \A k \in Key : H(k)' = H(k)
    BY <1>2 DEF H
  <1>5. \/ unload' = unload
        \/ unload = <<>> /\ unload' = <<>>
        \/ /\ unload = <<>> /\ DOMAIN unload' = {1} /\ unload'[1] \in DestroyFrame
           /\ unload'[1].at = "enter" /\ unload'[1].rest = {} /\ unload'[1].reuse
           /\ Resolves(slots', unload'[1].handle)
           /\ slots'[KeyOf(unload'[1].handle)].state # "EMPTY"
           /\ slots'[KeyOf(unload'[1].handle)].dependents = {}
    BY StartsFacts
  <1>6. \A i \in DOMAIN unload : unload[i].handle \in Handle /\ KeyOf(unload[i].handle) \in Key
    <2>1. ASSUME NEW i \in DOMAIN unload PROVE unload[i].handle \in Handle
      <3>1. unload[i] \in DestroyFrame
        BY TypeParts
      <3> QED
        BY <3>1 DEF DestroyFrame
    <2> QED
      BY <2>1, KeyFacts
  <1>7. \A k \in Key : /\ slots'[k].generation = slots[k].generation
                       /\ slots'[k].path = slots[k].path
                       /\ slots'[k].dependencies = slots[k].dependencies
                       /\ slots'[k].dependents = slots[k].dependents
    BY DEF SameGraph
  <1>8. UnloadInv'
    <2>1. CASE unload' = unload
      <3> SUFFICES ASSUME NEW i \in DOMAIN unload
                   PROVE  LET h == unload[i].handle
                          IN  /\ Resolves(slots', h)
                              /\ unload[i].rest \subseteq slots'[KeyOf(h)].dependencies
                              /\ ~Ending' => /\ slots'[KeyOf(h)].state # "EMPTY"
                                             /\ slots'[KeyOf(h)].dependents = {}
                                             /\ unload[i].reuse
        BY <2>1 DEF UnloadInv
      <3> QED
        BY <1>2, <1>6, <1>7 DEF StorageInv, UnloadInv
    <2>2. CASE unload' = <<>>
      BY <2>2 DEF UnloadInv
    <2>3. CASE DOMAIN unload' = {1} /\ unload' # unload /\ unload' # <<>>
      BY <1>5, <2>3 DEF UnloadInv
    <2> QED
      BY <1>5, <2>1, <2>2, <2>3
  <1>9. \A k \in Key : \A d : Edge(k, d)' <=> Edge(k, d)
    <2>1. CASE unload' = unload
      BY <1>4, <1>7, <2>1 DEF Edge
    <2>2. CASE unload = <<>> /\ unload' = <<>>
      BY <1>4, <1>7, <2>2 DEF Edge
    <2>3. CASE unload = <<>> /\ DOMAIN unload' = {1} /\ unload'[1].at = "enter"
      <3>1. DOMAIN unload = {}
        BY <2>3
      <3> QED
        BY <1>4, <1>7, <2>3, <3>1 DEF Edge
    <2> QED
      BY <1>5, <2>1, <2>2, <2>3
  <1>9a. \A k, l \in Key : EdgeTo(k, l)' <=> EdgeTo(k, l)
    <2>1. CASE unload' = unload
      BY <1>4, <1>7, <2>1 DEF EdgeTo, Edge
    <2>2. CASE unload = <<>> /\ unload' = <<>>
      BY <1>4, <1>7, <2>2 DEF EdgeTo, Edge
    <2>3. CASE unload = <<>> /\ DOMAIN unload' = {1} /\ unload'[1].at = "enter"
      <3>1. DOMAIN unload = {}
        BY <2>3
      <3> QED
        BY <1>4, <1>7, <2>3, <3>1 DEF EdgeTo, Edge
    <2> QED
      BY <1>5, <2>1, <2>2, <2>3
  <1>10. EmptyInv'
    BY <1>7 DEF StorageInv, EmptyInv
  <1>11. GraphInv'
    <2> SUFFICES ASSUME ~Ending', NEW k \in Key
                 PROVE  /\ \A d \in slots'[k].dependencies :
                             Edge(k, d)' => d \in Live(slots') /\ H(k)' \in slots'[KeyOf(d)].dependents
                        /\ \A p \in slots'[k].dependents : p \in Live(slots') /\ EdgeTo(KeyOf(p), k)'
      BY DEF GraphInv
    <2>1. ASSUME NEW d \in slots'[k].dependencies, Edge(k, d)'
          PROVE  d \in Live(slots') /\ H(k)' \in slots'[KeyOf(d)].dependents
      <3>1. d \in Live(slots) /\ H(k) \in slots[KeyOf(d)].dependents
        BY <1>7, <1>9, <2>1 DEF StorageInv, GraphInv
      <3>2. KeyOf(d) \in Key
        BY <1>1, <3>1, LiveHandle
      <3> QED
        BY <1>3, <1>4, <1>7, <3>1, <3>2
    <2>2. ASSUME NEW p \in slots'[k].dependents
          PROVE  p \in Live(slots') /\ EdgeTo(KeyOf(p), k)'
      <3>1. p \in Live(slots) /\ EdgeTo(KeyOf(p), k)
        BY <1>7, <2>2 DEF StorageInv, GraphInv
      <3>2. KeyOf(p) \in Key
        BY <1>1, <3>1, LiveHandle
      <3> QED
        BY <1>3, <1>9a, <3>1, <3>2
    <2> QED
      BY <2>1, <2>2
  <1>12. OrderInv'
    <2>1. PICK R \in SUBSET (Key \X Key) : Above(R)
      BY DEF StorageInv, OrderInv
    <2>2. \A i, j \in DOMAIN unload' :
             i < j => <<KeyOf(unload'[i].handle), KeyOf(unload'[j].handle)>> \in R
      BY <1>5, <2>1 DEF Above
    <2>3. Above(R)'
      BY <1>7, <2>1, <2>2 DEF Above
    <2> QED
      BY <2>3 DEF OrderInv
  <1>13. FreeInv'
    <2>1. \A t \in Types, i \in Index : <<t, i>> \in Key
      BY DEF Key
    <2> QED
      BY <2>1 DEF StorageInv, FreeInv
  <1>14. CacheInv'
    <2>1. ASSUME ~Ending', NEW t \in Types, NEW p \in Paths, NEW c \in Handle,
                 cache[<<t, p>>] = c
          PROVE  /\ c \in Live(slots') /\ c.type = t /\ slots'[KeyOf(c)].path = p
                 /\ \A i \in DOMAIN unload' : unload'[i].handle = c => unload'[i].at = "enter"
      <3>1. /\ c \in Live(slots) /\ c.type = t /\ slots[KeyOf(c)].path = p
            /\ \A i \in DOMAIN unload : unload[i].handle = c => unload[i].at = "enter"
        BY <2>1 DEF StorageInv, CacheInv
      <3>2. KeyOf(c) \in Key
        BY <1>1, <3>1, LiveHandle
      <3>3. \A i \in DOMAIN unload' : unload'[i].handle = c => unload'[i].at = "enter"
        BY <1>5, <3>1
      <3> QED
        BY <1>3, <1>7, <3>1, <3>2, <3>3
    <2>2. cache' = cache
      OBVIOUS
    <2> QED
      BY <2>1, <2>2 DEF CacheInv
  <1>15. GenerationInv'
    BY <1>7 DEF StorageInv, GenerationInv
  <1> QED
    BY <1>8, <1>10, <1>11, <1>12, <1>13, <1>14, <1>15 DEF StorageInv

-----------------------------------------------------------------------------
(* destroy_slot and the storage                                             *)

LEMMA FrameFacts ==
    ASSUME TypeOK, unload # <<>>
    PROVE  /\ Len(unload) \in DOMAIN unload /\ Frame = unload[Len(unload)]
           /\ Frame \in DestroyFrame /\ Frame.handle \in Handle /\ KeyOf(Frame.handle) \in Key
           /\ Callers \in Seq(DestroyFrame)
           /\ \A m \in DOMAIN Callers : /\ m \in DOMAIN unload /\ m < Len(unload)
                                        /\ Callers[m] = unload[m]
           /\ \A m \in DOMAIN unload : m # Len(unload) => m \in DOMAIN Callers
           /\ Len(Callers) = Len(unload) - 1
  <1>1. unload \in Seq(DestroyFrame)
    BY TypeParts
  <1>2. Frame \in DestroyFrame /\ Frame.handle \in Handle
    BY <1>1, FrameTypes
  <1> QED
    BY <1>1, <1>2, KeyFacts, TopFacts DEF Frame, Callers

LEMMA FrameChanged ==
    ASSUME TypeOK, unload # <<>>, NEW f \in DestroyFrame
    PROVE  LET t == Append(Callers, f)
           IN  /\ t \in Seq(DestroyFrame) /\ Len(t) = Len(unload)
               /\ DOMAIN t = DOMAIN unload /\ t[Len(unload)] = f
               /\ \A m \in DOMAIN unload : m # Len(unload) => t[m] = unload[m]
  <1>1. /\ Callers \in Seq(DestroyFrame) /\ Len(Callers) = Len(unload) - 1
        /\ \A m \in DOMAIN Callers : Callers[m] = unload[m]
        /\ \A m \in DOMAIN unload : m # Len(unload) => m \in DOMAIN Callers
    BY FrameFacts
  <1>2. unload \in Seq(DestroyFrame) /\ Len(unload) \in Nat
    BY TypeParts
  <1> DEFINE t == Append(Callers, f)
  <1>3. /\ t \in Seq(DestroyFrame) /\ Len(t) = Len(Callers) + 1
        /\ \A m \in DOMAIN Callers : t[m] = Callers[m]
        /\ t[Len(t)] = f
    BY <1>1, AppendFacts
  <1> HIDE DEF t
  <1>4. Len(t) = Len(unload) /\ DOMAIN t = DOMAIN unload
    BY <1>1, <1>2, <1>3
  <1> QED
    BY <1>1, <1>3, <1>4 DEF t

\* destroy_slot up to its loop: the asset keeps its edges and leaves the cache.
LEMMA StorageDestroyEnter ==
    ASSUME TypeOK, TypeOK', StorageInv, DestroyEnter, UNCHANGED main
    PROVE  StorageInv'
  <1> DEFINE n == Len(unload)
             h == Frame.handle
             l == KeyOf(h)
             f == [Frame EXCEPT !.at = "detach", !.rest = slots[l].dependencies]
  <1>1. /\ n \in DOMAIN unload /\ Frame = unload[n] /\ Frame.at = "enter"
        /\ Frame \in DestroyFrame /\ h \in Handle /\ l \in Key /\ h = unload[n].handle
    BY FrameFacts DEF DestroyEnter
  <1>2. slots' = slots /\ slots \in [Key -> Slot] /\ size' = size /\ free' = free
    BY TypeParts DEF DestroyEnter
  <1>3. /\ f \in DestroyFrame /\ f.handle = h /\ f.at = "detach"
        /\ f.rest = slots[l].dependencies /\ (f.reuse <=> Frame.reuse)
    <2>1. slots[l] \in Slot
      BY <1>1, <1>2
    <2>2. slots[l].dependencies \subseteq Handle
      BY <2>1 DEF Slot
    <2> QED
      BY <1>1, <2>2 DEF DestroyFrame
  <1> HIDE DEF f
  <1>4. /\ DOMAIN unload' = DOMAIN unload /\ unload'[n] = f
        /\ \A m \in DOMAIN unload : m # n => unload'[m] = unload[m]
    <2>1. unload # <<>> /\ unload' = Append(Callers, f)
      BY DEF DestroyEnter, f
    <2> QED
      BY <1>3, <2>1, FrameChanged
  <1>5. \A m \in DOMAIN unload : unload'[m].handle = unload[m].handle
    BY <1>1, <1>3, <1>4
  <1>6. \A m \in DOMAIN unload : unload[m].handle = h => m = n
    BY <1>1, FramesDistinct DEF StorageInv
  <1>7. \A k \in Key : H(k)' = H(k)
    BY <1>2 DEF H
  <1>8. \A k \in Key : \A d : Edge(k, d)' <=> Edge(k, d)
    <2>1. ASSUME NEW k \in Key, NEW d PROVE Edge(k, d)' <=> Edge(k, d)
      <3>1. CASE H(k) = h
        <4>1. k = l
          <5>1. slots[k].generation \in Nat
            BY <1>2 DEF Slot
          <5> QED
            BY <3>1, <5>1, HandleFacts DEF H
        <4> QED
          BY <1>1, <1>2, <1>3, <1>4, <1>5, <1>6, <1>7, <3>1, <4>1 DEF Edge
      <3>2. CASE H(k) # h
        BY <1>1, <1>2, <1>3, <1>4, <1>5, <1>7, <3>2 DEF Edge
      <3> QED
        BY <3>1, <3>2
    <2> QED
      BY <2>1
  <1>9. \A k, m \in Key : EdgeTo(k, m)' <=> EdgeTo(k, m)
    <2>1. ASSUME NEW k \in Key, NEW m \in Key, NEW d, d = H(m)
          PROVE  EdgeTo(k, m)' <=> EdgeTo(k, m)
      <3>1. EdgeTo(k, m) <=> Edge(k, d)
        BY <2>1 DEF EdgeTo
      <3>2. EdgeTo(k, m)' <=> Edge(k, d)'
        BY <2>1, <1>7 DEF EdgeTo, Edge
      <3> QED
        BY <1>8, <3>1, <3>2
    <2> QED
      BY <2>1
  <1>10. Ending' <=> Ending
    BY DEF Ending
  <1>11. UnloadInv'
    <2>1. ASSUME NEW m \in DOMAIN unload
          PROVE  /\ Resolves(slots, unload'[m].handle)
                 /\ unload'[m].rest \subseteq slots[KeyOf(unload'[m].handle)].dependencies
                 /\ ~Ending => /\ slots[KeyOf(unload'[m].handle)].state # "EMPTY"
                               /\ slots[KeyOf(unload'[m].handle)].dependents = {}
                               /\ unload'[m].reuse
      BY <1>1, <1>3, <1>4, <1>5 DEF StorageInv, UnloadInv
    <2> QED
      BY <1>2, <1>4, <1>10, <2>1 DEF UnloadInv
  <1>12. EmptyInv'
    BY <1>2, <1>10 DEF StorageInv, EmptyInv
  <1>13. GraphInv'
    BY <1>2, <1>7, <1>8, <1>9, <1>10, LiveHandle DEF StorageInv, GraphInv
  <1>14. OrderInv'
    <2>1. PICK R \in SUBSET (Key \X Key) : Above(R)
      BY DEF StorageInv, OrderInv
    <2>2. Above(R)'
      BY <1>2, <1>4, <1>5, <2>1 DEF Above
    <2> QED
      BY <2>2 DEF OrderInv
  <1>15. FreeInv'
    BY <1>2, <1>10 DEF StorageInv, FreeInv
  <1>16. CacheInv'
    <2>1. ASSUME ~Ending', NEW t \in Types, NEW p \in Paths, NEW c \in Handle,
                 cache'[<<t, p>>] = c
          PROVE  /\ c \in Live(slots') /\ c.type = t /\ slots'[KeyOf(c)].path = p
                 /\ \A i \in DOMAIN unload' : unload'[i].handle = c => unload'[i].at = "enter"
      <3>1. <<t, p>> \in DOMAIN cache
        BY TypeParts
      <3>2. /\ cache' = [tp \in DOMAIN cache |->
                           IF tp = <<l[1], slots[l].path>> /\ cache[tp] = h
                           THEN NoHandle ELSE cache[tp]]
        BY DEF DestroyEnter
      <3>3. c # NoHandle
        BY NoHandleAssumption
      <3>4. cache[<<t, p>>] = c /\ ~(<<t, p>> = <<l[1], slots[l].path>> /\ cache[<<t, p>>] = h)
        BY <2>1, <3>1, <3>2, <3>3
      <3>5. /\ c \in Live(slots) /\ c.type = t /\ slots[KeyOf(c)].path = p
            /\ \A i \in DOMAIN unload : unload[i].handle = c => unload[i].at = "enter"
        BY <1>10, <2>1, <3>4 DEF StorageInv, CacheInv
      <3>6. c # h
        <4>1. c = h => l[1] = c.type
          BY KeyFacts, <1>1
        <4> QED
          BY <3>4, <3>5, <4>1
      <3> QED
        BY <1>1, <1>2, <1>3, <1>4, <1>5, <3>5, <3>6
    <2> QED
      BY <2>1 DEF CacheInv
  <1>17. GenerationInv'
    BY <1>2, <1>10 DEF StorageInv, GenerationInv
  <1> QED
    BY <1>11, <1>12, <1>13, <1>14, <1>15, <1>16, <1>17 DEF StorageInv

\* One turn of the loop: what becomes of the slots and of the stack.
DetachTurn(d) ==
    LET n == Len(unload)
        l == KeyOf(Frame.handle)
    IN  /\ n \in DOMAIN unload /\ Frame = unload[n] /\ Frame.at = "detach"
        /\ Frame.handle \in Handle /\ l \in Key /\ H(l) = Frame.handle
        /\ d \in Frame.rest /\ d \in Handle /\ KeyOf(d) \in Key /\ d \in slots[l].dependencies
        /\ SameAssets(slots, slots')
        /\ \A k \in Key :
             /\ slots'[k].dependencies = slots[k].dependencies
             /\ slots'[k].dependents = IF H(k) = d THEN slots[k].dependents \ {Frame.handle}
                                                   ELSE slots[k].dependents
        /\ \A i \in DOMAIN unload :
             /\ i \in DOMAIN unload' /\ unload'[i].handle = unload[i].handle
             /\ unload'[i].at = unload[i].at /\ (unload'[i].reuse <=> unload[i].reuse)
             /\ unload'[i].rest = IF i = n THEN unload[i].rest \ {d} ELSE unload[i].rest
        /\ \A i \in DOMAIN unload' :
             \/ i \in DOMAIN unload
             \/ /\ i = n + 1 /\ unload'[i] = DestroyCall(d, TRUE)
                /\ Resolves(slots, d) /\ slots'[KeyOf(d)].dependents = {}
        /\ Resolves(slots, d) /\ slots[KeyOf(d)].pin = 0 /\ slots'[KeyOf(d)].dependents = {}
             => n + 1 \in DOMAIN unload' /\ unload'[n + 1].handle = d

LEMMA DetachNextFacts ==
    ASSUME TypeOK, TypeOK', StorageInv, DetachNext
    PROVE  \E d : DetachTurn(d)
  <1> DEFINE n == Len(unload)
             h == Frame.handle
             l == KeyOf(h)
             S(d) == IF Resolves(slots, d)
                     THEN [slots EXCEPT ![KeyOf(d)].dependents = @ \ {h}] ELSE slots
             f(d) == [Frame EXCEPT !.rest = @ \ {d}]
  <1>1. /\ n \in DOMAIN unload /\ Frame = unload[n] /\ Frame.at = "detach"
        /\ Frame \in DestroyFrame /\ h \in Handle /\ l \in Key /\ unload # <<>>
    BY FrameFacts DEF DetachNext
  <1>2. slots \in [Key -> Slot] /\ unload \in Seq(DestroyFrame) /\ n \in Nat
    BY TypeParts
  <1>3. PICK d \in Frame.rest : /\ slots' = S(d)
                                /\ unload' = Append(Callers, f(d)) \o TryUnload(S(d), d)
    BY DEF DetachNext
  <1>4. d \in Handle /\ KeyOf(d) \in Key
    BY <1>1, KeyFacts DEF DestroyFrame
  <1>5. H(l) = h /\ d \in slots[l].dependencies
    <2>1. Resolves(slots, h) /\ Frame.rest \subseteq slots[l].dependencies
      BY <1>1 DEF StorageInv, UnloadInv
    <2> QED
      BY <1>1, <1>2, <2>1, ResolvesFacts DEF H
  <1>6. f(d) \in DestroyFrame /\ f(d).rest = Frame.rest \ {d} /\ f(d).handle = h
        /\ f(d).at = "detach" /\ (f(d).reuse <=> Frame.reuse)
    BY <1>1 DEF DestroyFrame
  <1> DEFINE t == Append(Callers, f(d))
  <1>7. /\ t \in Seq(DestroyFrame) /\ Len(t) = n
        /\ DOMAIN t = DOMAIN unload /\ t[n] = f(d)
        /\ \A m \in DOMAIN unload : m # n => t[m] = unload[m]
    BY <1>1, <1>6, FrameChanged
  <1> HIDE DEF f, t
  <1>8. /\ SameAssets(slots, slots')
        /\ \A k \in Key :
             /\ slots'[k].dependencies = slots[k].dependencies
             /\ slots'[k].dependents = IF H(k) = d THEN slots[k].dependents \ {h}
                                                   ELSE slots[k].dependents
    <2>0. \A k \in Key : slots[k].generation \in Nat
      BY <1>2 DEF Slot
    <2>1. \A k \in Key : H(k) = d <=> Resolves(slots, d) /\ k = KeyOf(d)
      <3>1. ASSUME NEW k \in Key, H(k) = d PROVE Resolves(slots, d) /\ k = KeyOf(d)
        <4>1. KeyOf(H(k)) = k
          BY <2>0, HandleFacts DEF H
        <4> QED
          BY <1>2, <1>4, <3>1, <4>1, ResolvesFacts DEF H
      <3>2. ASSUME NEW k \in Key, Resolves(slots, d), k = KeyOf(d) PROVE H(k) = d
        BY <1>2, <1>4, <3>2, ResolvesFacts DEF H
      <3> QED
        BY <3>1, <3>2
    <2>2. CASE Resolves(slots, d)
      <3>0. PICK kd, x : kd = KeyOf(d) /\ x = h
        OBVIOUS
      <3>1. slots' = [slots EXCEPT ![kd].dependents = @ \ {x}] /\ kd \in Key
        BY <1>3, <1>4, <2>2, <3>0
      <3> HIDE DEF h
      <3>2a. /\ SameAssets(slots, slots')
            /\ \A k \in Key :
                 /\ slots'[k].dependencies = slots[k].dependencies
                 /\ slots'[k].dependents = IF k = kd THEN slots[k].dependents \ {x}
                                                     ELSE slots[k].dependents
        <4>1. slots[kd] \in Slot /\ slots[kd].dependents \ {x} \in SUBSET Handle
          BY <1>2, <3>1 DEF Slot
        <4>2. /\ slots'[kd] = [slots[kd] EXCEPT !.dependents = @ \ {x}]
              /\ \A k \in Key : k # kd => slots'[k] = slots[k]
          BY <1>2, <3>1
        <4>3. PICK y : y = slots[kd].dependents \ {x}
          OBVIOUS
        <4>4. /\ slots'[kd].generation = slots[kd].generation
              /\ slots'[kd].state = slots[kd].state
              /\ slots'[kd].pin = slots[kd].pin /\ (slots'[kd].retiring <=> slots[kd].retiring)
              /\ slots'[kd].path = slots[kd].path
              /\ slots'[kd].dependencies = slots[kd].dependencies /\ slots'[kd].dependents = y
          BY <4>1, <4>2, <4>3, DependentsField
        <4> QED
          BY <4>2, <4>3, <4>4 DEF SameAssets
      <3>2. /\ SameAssets(slots, slots')
            /\ \A k \in Key :
                 /\ slots'[k].dependencies = slots[k].dependencies
                 /\ slots'[k].dependents = IF k = KeyOf(d) THEN slots[k].dependents \ {h}
                                                           ELSE slots[k].dependents
        BY <3>0, <3>2a
      <3> QED
        BY <2>1, <2>2, <3>2
    <2>3. CASE ~Resolves(slots, d)
      <3>1. slots' = slots
        BY <1>3, <2>3
      <3> QED
        BY <2>1, <2>3, <3>1 DEF SameAssets
    <2> QED
      BY <2>2, <2>3
  <1>9. Resolves(slots', d) <=> Resolves(slots, d)
    BY <1>2, <1>4, <1>8, SameAssetsFacts, TypePrimes
  <1>10. /\ \A i \in DOMAIN unload :
             /\ i \in DOMAIN t /\ t[i].handle = unload[i].handle
             /\ t[i].at = unload[i].at /\ (t[i].reuse <=> unload[i].reuse)
             /\ t[i].rest = IF i = n THEN unload[i].rest \ {d} ELSE unload[i].rest
    BY <1>1, <1>6, <1>7
  <1>11. CASE TryUnload(slots', d) = <<>>
    <2>1. unload' = t
      <3>1. t \o <<>> = t
        BY <1>7, ConcatEmptySeq
      <3> QED
        BY <1>3, <1>11, <3>1 DEF t
    <2>2. ~(Resolves(slots, d) /\ slots'[KeyOf(d)].pin = 0 /\ slots'[KeyOf(d)].dependents = {})
      <3>1. <<DestroyCall(d, TRUE)>> # <<>>
        OBVIOUS
      <3> QED
        BY <1>9, <1>11, <3>1 DEF TryUnload
    <2>3. slots'[KeyOf(d)].pin = slots[KeyOf(d)].pin
      BY <1>4, <1>8 DEF SameAssets
    <2> HIDE DEF n, h, l
    <2>4. DetachTurn(d)
      BY <1>1, <1>3, <1>4, <1>5, <1>7, <1>8, <1>10, <2>1, <2>2, <2>3 DEF DetachTurn, n, h, l
    <2> QED
      BY <2>4
  <1>12. CASE TryUnload(slots', d) # <<>>
    <2>1. /\ TryUnload(slots', d) = <<DestroyCall(d, TRUE)>>
          /\ Resolves(slots, d) /\ slots'[KeyOf(d)].dependents = {}
      BY <1>4, <1>9, <1>12, TryUnloadFacts
    <2>2. PICK c : c = DestroyCall(d, TRUE)
      OBVIOUS
    <2>3. c \in DestroyFrame /\ c.handle = d
      BY <1>4, <2>2, DestroyCallFacts
    <2>4. unload' = Append(t, c)
      <3>1. Append(t, c) = t \o <<c>>
        BY <1>7, <2>3, AppendIsConcat
      <3> QED
        BY <1>3, <2>1, <2>2, <3>1 DEF t
    <2>5. /\ Len(unload') = n + 1 /\ n + 1 \in DOMAIN unload' /\ unload'[n + 1] = c
          /\ \A m \in DOMAIN t : m \in DOMAIN unload' /\ unload'[m] = t[m]
          /\ \A m \in DOMAIN unload' : m # n + 1 => m \in DOMAIN t
      BY <1>7, <2>3, <2>4, AppendFacts
    <2> HIDE DEF n, h, l
    <2>5a. \A i \in DOMAIN unload :
             /\ i \in DOMAIN unload' /\ unload'[i].handle = unload[i].handle
             /\ unload'[i].at = unload[i].at /\ (unload'[i].reuse <=> unload[i].reuse)
             /\ unload'[i].rest = IF i = n THEN unload[i].rest \ {d} ELSE unload[i].rest
      BY <1>10, <2>5
    <2>5b. \A i \in DOMAIN unload' :
             \/ i \in DOMAIN unload
             \/ /\ i = n + 1 /\ unload'[i] = DestroyCall(d, TRUE)
                /\ Resolves(slots, d) /\ slots'[KeyOf(d)].dependents = {}
      BY <1>7, <2>1, <2>2, <2>5
    <2>6. DetachTurn(d)
      BY <1>1, <1>3, <1>4, <1>5, <1>8, <2>3, <2>5, <2>5a, <2>5b
         DEF DetachTurn, n, h, l
    <2> QED
      BY <2>6
  <1> QED
    BY <1>11, <1>12

\* The asset being destroyed still holds the dependency it detaches, so that
\* the dependency exists and nothing is destroying it.
LEMMA TurnFacts ==
    ASSUME TypeOK, StorageInv, NEW d, DetachTurn(d), ~Ending
    PROVE  /\ d \in Live(slots) /\ H(KeyOf(d)) = d /\ d # Frame.handle
           /\ Frame.handle \in slots[KeyOf(d)].dependents
           /\ \A i \in DOMAIN unload : unload[i].handle # d
  <1> DEFINE n == Len(unload)
             h == Frame.handle
             l == KeyOf(h)
  <1>1. /\ n \in DOMAIN unload /\ Frame = unload[n] /\ Frame.at = "detach"
        /\ h \in Handle /\ l \in Key /\ H(l) = h
        /\ d \in Frame.rest /\ d \in Handle /\ KeyOf(d) \in Key /\ d \in slots[l].dependencies
    BY DEF DetachTurn
  <1>2. \A m \in DOMAIN unload : unload[m].handle = h => m = n
    BY <1>1, FramesDistinct DEF StorageInv
  <1>3. Edge(l, d)
    BY <1>1, <1>2 DEF Edge
  <1>4. d \in Live(slots) /\ h \in slots[KeyOf(d)].dependents
    BY <1>1, <1>3 DEF StorageInv, GraphInv
  <1>5. H(KeyOf(d)) = d
    BY <1>4, TypeParts, LiveHandle DEF H
  <1>6. \A i \in DOMAIN unload : unload[i].handle # d
    BY <1>4 DEF StorageInv, UnloadInv
  <1> QED
    BY <1>1, <1>4, <1>5, <1>6

LEMMA StorageDetachNext ==
    ASSUME TypeOK, TypeOK', StorageInv, DetachNext, UNCHANGED main
    PROVE  StorageInv'
  <1>1. PICK d : DetachTurn(d)
    BY DetachNextFacts
  <1> DEFINE n == Len(unload)
             h == Frame.handle
             l == KeyOf(h)
  <1>2. /\ n \in DOMAIN unload /\ Frame = unload[n] /\ Frame.at = "detach"
        /\ h \in Handle /\ l \in Key /\ H(l) = h
        /\ d \in Frame.rest /\ d \in Handle /\ KeyOf(d) \in Key /\ d \in slots[l].dependencies
        /\ unload[n].handle = h /\ unload[n].at = "detach" /\ h = Frame.handle /\ l = KeyOf(h)
    BY <1>1 DEF DetachTurn
  <1>3. SameAssets(slots, slots')
    BY <1>1 DEF DetachTurn
  <1>4. \A k \in Key :
          /\ slots'[k].dependencies = slots[k].dependencies
          /\ slots'[k].dependents = IF H(k) = d THEN slots[k].dependents \ {h}
                                                ELSE slots[k].dependents
    BY <1>1 DEF DetachTurn
  <1>5. \A i \in DOMAIN unload :
          /\ i \in DOMAIN unload' /\ unload'[i].handle = unload[i].handle
          /\ unload'[i].at = unload[i].at /\ (unload'[i].reuse <=> unload[i].reuse)
          /\ unload'[i].rest = IF i = n THEN unload[i].rest \ {d} ELSE unload[i].rest
    BY <1>1 DEF DetachTurn
  <1>6. ASSUME NEW i \in DOMAIN unload', i \notin DOMAIN unload
        PROVE  /\ i = n + 1 /\ unload'[i].handle = d /\ unload'[i].at = "enter"
               /\ unload'[i].rest = {} /\ unload'[i].reuse
               /\ Resolves(slots, d) /\ slots'[KeyOf(d)].dependents = {}
    <2>1. /\ i = n + 1 /\ unload'[i] = DestroyCall(d, TRUE)
          /\ Resolves(slots, d) /\ slots'[KeyOf(d)].dependents = {}
      BY <1>1, <1>6 DEF DetachTurn
    <2> QED
      BY <1>2, <2>1 DEF DestroyCall
  <1>7. /\ slots \in [Key -> Slot] /\ slots' \in [Key -> Slot]
        /\ \A k \in Key : H(k)' = H(k)
        /\ \A x \in Handle : Resolves(slots', x) <=> Resolves(slots, x)
    BY <1>3, SameAssetsFacts, TypeParts, TypePrimes DEF H
  <1>8. \A k \in Key : /\ slots'[k].generation = slots[k].generation
                       /\ slots'[k].path = slots[k].path /\ slots'[k].state = slots[k].state
    BY <1>3 DEF SameAssets
  <1>9. \A x : x \in Live(slots') <=> x \in Live(slots)
    <2>1. ASSUME NEW x PROVE x \in Live(slots') <=> x \in Live(slots)
      <3>1. x \in Handle => KeyOf(x) \in Key
        BY KeyFacts
      <3> QED
        BY <1>7, <1>8, <3>1, LiveFacts
    <2> QED
      BY <2>1
  <1>10. Ending' <=> Ending
    BY DEF Ending
  <1>11. /\ \A i \in DOMAIN unload : unload[i].handle \in Handle /\ KeyOf(unload[i].handle) \in Key
         /\ \A i \in DOMAIN unload : i \in Int /\ i <= n
         /\ n \in Nat
    <2>1. ASSUME NEW i \in DOMAIN unload PROVE unload[i].handle \in Handle /\ i \in Int /\ i <= n
      <3>1. unload[i] \in DestroyFrame /\ i \in Int /\ i <= n
        BY TypeParts
      <3> QED
        BY <3>1 DEF DestroyFrame
    <2>2. n \in Nat
      BY TypeParts
    <2> QED
      BY <2>1, <2>2, KeyFacts
  <1>12. \A m \in DOMAIN unload : unload[m].handle = h => m = n
    BY <1>2, FramesDistinct DEF StorageInv
  <1> HIDE DEF n, h, l
  <1>13. UnloadInv'
    <2>1. ASSUME NEW i \in DOMAIN unload'
          PROVE  /\ Resolves(slots', unload'[i].handle)
                 /\ unload'[i].rest \subseteq slots'[KeyOf(unload'[i].handle)].dependencies
                 /\ ~Ending' => /\ slots'[KeyOf(unload'[i].handle)].state # "EMPTY"
                                /\ slots'[KeyOf(unload'[i].handle)].dependents = {}
                                /\ unload'[i].reuse
      <3>1. CASE i \in DOMAIN unload
        <4>1. /\ Resolves(slots, unload[i].handle)
              /\ unload[i].rest \subseteq slots[KeyOf(unload[i].handle)].dependencies
              /\ ~Ending => /\ slots[KeyOf(unload[i].handle)].state # "EMPTY"
                            /\ slots[KeyOf(unload[i].handle)].dependents = {}
                            /\ unload[i].reuse
          BY <3>1 DEF StorageInv, UnloadInv
        <4>2. unload'[i].rest \subseteq unload[i].rest
          BY <1>5, <3>1
        <4> QED
          BY <1>4, <1>5, <1>7, <1>8, <1>10, <1>11, <3>1, <4>1, <4>2
      <3>2. CASE i \notin DOMAIN unload
        <4>1. /\ unload'[i].handle = d /\ unload'[i].rest = {} /\ unload'[i].reuse
              /\ Resolves(slots, d) /\ slots'[KeyOf(d)].dependents = {}
          BY <1>6, <3>2
        <4>2. ~Ending => slots[KeyOf(d)].state # "EMPTY"
          BY <1>1, <1>7, TurnFacts, LiveHandle
        <4> QED
          BY <1>2, <1>7, <1>8, <1>10, <4>1, <4>2
      <3> QED
        BY <3>1, <3>2
    <2> QED
      BY <2>1 DEF UnloadInv
  <1>14. EmptyInv'
    <2>1. ASSUME ~Ending', NEW k \in Key, slots'[k].state = "EMPTY"
          PROVE  slots'[k].dependencies = {} /\ slots'[k].dependents = {}
      <3>1. slots[k].dependencies = {} /\ slots[k].dependents = {}
        BY <1>8, <1>10, <2>1 DEF StorageInv, EmptyInv
      <3> QED
        BY <1>4, <3>1
    <2> QED
      BY <2>1 DEF EmptyInv
  <1>15. ASSUME ~Ending, NEW k \in Key, NEW e
         PROVE  Edge(k, e)' <=> Edge(k, e) /\ ~(k = l /\ e = d)
    <2>1. \A i \in DOMAIN unload' : i \notin DOMAIN unload => unload'[i].at = "enter"
      BY <1>6
    <2>2. CASE k = l
      <3>1. H(k) = h
        BY <1>2, <2>2
      <3>2. Edge(k, e)' <=> e \in slots[k].dependencies /\ e \in unload'[n].rest
        <4>1. n \in DOMAIN unload' /\ unload'[n].handle = h /\ unload'[n].at = "detach"
          BY <1>2, <1>5
        <4>2. \A i \in DOMAIN unload' : unload'[i].handle = h /\ unload'[i].at = "detach" => i = n
          BY <1>5, <1>12, <2>1
        <4> QED
          BY <1>4, <1>7, <3>1, <4>1, <4>2 DEF Edge
      <3>3. Edge(k, e) <=> e \in slots[k].dependencies /\ e \in unload[n].rest
        BY <1>2, <1>12, <3>1 DEF Edge
      <3>4. unload'[n].rest = unload[n].rest \ {d}
        BY <1>2, <1>5
      <3> QED
        BY <2>2, <3>2, <3>3, <3>4
    <2>3. CASE k # l
      <3>1. H(k) # h
        <4>1. slots[k].generation \in Nat
          BY <1>7 DEF Slot
        <4>2. KeyOf(H(k)) = k
          BY <4>1, HandleFacts DEF H
        <4> QED
          BY <2>3, <4>2 DEF l
      <3>2. \A i \in DOMAIN unload : i = n => unload[i].handle = h
        BY <1>2 DEF h
      <3>3. \A i \in DOMAIN unload : unload[i].handle = H(k) => unload'[i].rest = unload[i].rest
        BY <1>5, <3>1, <3>2
      <3> QED
        BY <1>4, <1>5, <1>7, <2>1, <2>3, <3>3 DEF Edge
    <2> QED
      BY <2>2, <2>3
  <1>16. GraphInv'
    <2> SUFFICES ASSUME ~Ending', NEW k \in Key
                 PROVE  /\ \A e \in slots'[k].dependencies :
                             Edge(k, e)' => e \in Live(slots') /\ H(k)' \in slots'[KeyOf(e)].dependents
                        /\ \A p \in slots'[k].dependents : p \in Live(slots') /\ EdgeTo(KeyOf(p), k)'
      BY DEF GraphInv
    <2>0. ~Ending
      BY <1>10
    <2>1. ASSUME NEW e \in slots'[k].dependencies, Edge(k, e)'
          PROVE  e \in Live(slots') /\ H(k)' \in slots'[KeyOf(e)].dependents
      <3>1. Edge(k, e) /\ ~(k = l /\ e = d) /\ e \in slots[k].dependencies
        BY <1>4, <1>15, <2>0, <2>1
      <3>2. e \in Live(slots) /\ H(k) \in slots[KeyOf(e)].dependents
        BY <2>0, <3>1 DEF StorageInv, GraphInv
      <3>3. KeyOf(e) \in Key /\ H(KeyOf(e)) = e
        BY <1>7, <3>2, LiveHandle DEF H
      <3>4. e = d => H(k) # h
        <4>1. slots[k].generation \in Nat
          BY <1>7 DEF Slot
        <4>2. KeyOf(H(k)) = k
          BY <4>1, HandleFacts DEF H
        <4> QED
          BY <3>1, <4>2 DEF l
      <3> QED
        BY <1>4, <1>7, <1>9, <3>2, <3>3, <3>4
    <2>2. ASSUME NEW p \in slots'[k].dependents
          PROVE  p \in Live(slots') /\ EdgeTo(KeyOf(p), k)'
      <3>1. p \in slots[k].dependents /\ ~(H(k) = d /\ p = h)
        BY <1>4, <2>2
      <3>2. p \in Live(slots) /\ EdgeTo(KeyOf(p), k)
        BY <2>0, <3>1 DEF StorageInv, GraphInv
      <3>3. KeyOf(p) \in Key /\ H(KeyOf(p)) = p
        BY <1>7, <3>2, LiveHandle DEF H
      <3>4. PICK x : x = H(k)
        OBVIOUS
      <3>5. ~(KeyOf(p) = l /\ x = d)
        BY <1>2, <3>1, <3>3, <3>4
      <3>6. Edge(KeyOf(p), x)
        BY <3>2, <3>4 DEF EdgeTo
      <3>7. Edge(KeyOf(p), x)'
        BY <1>15, <2>0, <3>3, <3>5, <3>6
      <3>8. H(k)' = x
        BY <1>7, <3>4
      <3>9. EdgeTo(KeyOf(p), k)'
        BY <3>7, <3>8 DEF EdgeTo, Edge
      <3> QED
        BY <1>9, <3>2, <3>9
    <2> QED
      BY <2>1, <2>2
  <1>17. OrderInv'
    <2>1. PICK R \in SUBSET (Key \X Key) : Above(R)
      BY DEF StorageInv, OrderInv
    <2>2. ASSUME NEW i \in DOMAIN unload', NEW j \in DOMAIN unload', i < j
          PROVE  <<KeyOf(unload'[i].handle), KeyOf(unload'[j].handle)>> \in R
      <3>1. CASE i \in DOMAIN unload /\ j \in DOMAIN unload
        BY <1>5, <2>1, <2>2, <3>1 DEF Above
      <3>2. CASE i \notin DOMAIN unload
        <4>1. i = n + 1
          BY <1>6, <3>2
        <4>2. j \in DOMAIN unload \/ j = n + 1
          BY <1>6
        <4> QED
          BY <1>11, <2>2, <4>1, <4>2
      <3>3. CASE i \in DOMAIN unload /\ j \notin DOMAIN unload
        <4>1. unload'[j].handle = d
          BY <1>6, <3>3
        <4>2. <<l, KeyOf(d)>> \in R
          BY <1>2, <2>1 DEF Above
        <4>3. KeyOf(unload[n].handle) = l
          BY <1>2 DEF l, h
        <4>4a. i # n => i < n
          BY <1>11, <3>3
        <4>4. i # n => <<KeyOf(unload[i].handle), l>> \in R
          BY <1>2, <2>1, <3>3, <4>3, <4>4a DEF Above
        <4>5. i # n => <<KeyOf(unload[i].handle), KeyOf(d)>> \in R
          BY <1>2, <1>11, <2>1, <3>3, <4>2, <4>4 DEF Above
        <4> QED
          BY <1>5, <3>3, <4>1, <4>2, <4>3, <4>5
      <3> QED
        BY <3>1, <3>2, <3>3
    <2>3. Above(R)'
      BY <1>4, <2>1, <2>2 DEF Above
    <2> QED
      BY <2>3 DEF OrderInv
  <1>18. FreeInv'
    <2>1. \A t \in Types, i \in Index : <<t, i>> \in Key
      BY DEF Key
    <2>2. size' = size /\ free' = free
      BY DEF DetachNext
    <2> QED
      BY <1>8, <1>10, <2>1, <2>2 DEF StorageInv, FreeInv
  <1>19. CacheInv'
    <2>1. ASSUME ~Ending', NEW t \in Types, NEW p \in Paths, NEW c \in Handle,
                 cache'[<<t, p>>] = c
          PROVE  /\ c \in Live(slots') /\ c.type = t /\ slots'[KeyOf(c)].path = p
                 /\ \A i \in DOMAIN unload' : unload'[i].handle = c => unload'[i].at = "enter"
      <3>1. cache'[<<t, p>>] = cache[<<t, p>>]
        BY DEF DetachNext
      <3>2. /\ c \in Live(slots) /\ c.type = t /\ slots[KeyOf(c)].path = p
            /\ \A i \in DOMAIN unload : unload[i].handle = c => unload[i].at = "enter"
        BY <1>10, <2>1, <3>1 DEF StorageInv, CacheInv
      <3>3. KeyOf(c) \in Key
        BY <2>1, KeyFacts
      <3> QED
        BY <1>5, <1>6, <1>8, <1>9, <3>2, <3>3
    <2> QED
      BY <2>1 DEF CacheInv
  <1>20. GenerationInv'
    BY <1>8, <1>10 DEF StorageInv, GenerationInv
  <1> QED
    BY <1>13, <1>14, <1>16, <1>17, <1>18, <1>19, <1>20 DEF StorageInv

\* destroy_slot after its loop: what becomes of the slots and of the stack.
DestroyTurn ==
    LET n == Len(unload)
        h == Frame.handle
        l == KeyOf(h)
        g == NextGeneration(slots[l].generation)
    IN  /\ n \in DOMAIN unload /\ Frame = unload[n] /\ Frame.at = "detach" /\ Frame.rest = {}
        /\ unload[n].handle = h /\ h \in Handle /\ l \in Key /\ H(l) = h
        /\ \A k \in Key : k # l => slots'[k] = slots[k] /\ H(k)' = H(k) /\ H(k) # h
        /\ slots'[l].generation = g /\ slots'[l].state = "EMPTY" /\ slots'[l].pin = 0
        /\ ~slots'[l].retiring /\ slots'[l].dependencies = {} /\ slots'[l].dependents = {}
        /\ ~Ending => g = slots[l].generation + 1
        /\ \A i \in DOMAIN unload' : /\ i \in DOMAIN unload /\ i # n /\ unload'[i] = unload[i]
                                     /\ KeyOf(unload[i].handle) # l
                                     /\ unload[i].handle \in Handle
        /\ \A i \in DOMAIN unload : i # n => i \in DOMAIN unload'
        /\ ~Ending => /\ slots[l].state # "EMPTY" /\ slots[l].dependents = {} /\ Frame.reuse

LEMMA DestroyDoneFacts ==
    ASSUME TypeOK, TypeOK', StorageInv, DestroyDone
    PROVE  DestroyTurn
  <1> DEFINE n == Len(unload)
             h == Frame.handle
             l == KeyOf(h)
             g == NextGeneration(slots[l].generation)
  <1>1. /\ n \in DOMAIN unload /\ Frame = unload[n] /\ Frame.at = "detach" /\ Frame.rest = {}
        /\ Frame \in DestroyFrame /\ h \in Handle /\ l \in Key /\ unload[n].handle = h
    BY FrameFacts DEF DestroyDone
  <1>2. slots \in [Key -> Slot] /\ slots[l].generation \in Nat /\ g \in Nat
    <2>1. slots \in [Key -> Slot] /\ slots[l].generation \in Nat
      BY <1>1, TypeParts DEF Slot
    <2> QED
      BY <2>1, GenerationFacts
  <1>3. H(l) = h
    <2>1. Resolves(slots, h)
      BY <1>1 DEF StorageInv, UnloadInv
    <2> QED
      BY <1>1, <1>2, <2>1, ResolvesFacts DEF H
  <1>4. slots' = [slots EXCEPT ![l] = EmptySlot(g)]
    BY DEF DestroyDone
  <1> HIDE DEF g
  <1>5. /\ \A k \in Key : k # l => slots'[k] = slots[k]
        /\ slots'[l].generation = g /\ slots'[l].state = "EMPTY" /\ slots'[l].pin = 0
        /\ ~slots'[l].retiring /\ slots'[l].dependencies = {} /\ slots'[l].dependents = {}
    BY <1>1, <1>2, <1>4, ResetFacts
  <1>6. \A k \in Key : k # l => H(k)' = H(k) /\ H(k) # h
    <2>1. ASSUME NEW k \in Key, k # l PROVE H(k)' = H(k) /\ H(k) # h
      <3>1. slots[k].generation \in Nat
        BY <1>2 DEF Slot
      <3>2. KeyOf(H(k)) = k
        BY <3>1, HandleFacts DEF H
      <3>3. H(k)' = H(k)
        BY <1>5, <2>1 DEF H, HandleAt
      <3> QED
        BY <2>1, <3>2, <3>3
    <2> QED
      BY <2>1
  <1>7. ~Ending => slots[l].state # "EMPTY" /\ slots[l].dependents = {} /\ Frame.reuse
    BY <1>1 DEF StorageInv, UnloadInv
  <1>8. ~Ending => g = slots[l].generation + 1
    <2>1. ASSUME ~Ending PROVE g = slots[l].generation + 1
      <3>1. slots[l].generation <= MaxGeneration
        BY <1>1, <1>7, <2>1 DEF StorageInv, GenerationInv
      <3>2. slots[l].generation + 1 < GenerationModulus
        BY <1>2, <3>1, SystemAssumption, StorageAssumption
      <3> QED
        BY <1>2, <3>2, GenerationFacts DEF g
    <2> QED
      BY <2>1
  <1>9. /\ \A i \in DOMAIN unload' : /\ i \in DOMAIN unload /\ i # n /\ unload'[i] = unload[i]
                                     /\ KeyOf(unload[i].handle) # l
                                     /\ unload[i].handle \in Handle
        /\ \A i \in DOMAIN unload : i # n => i \in DOMAIN unload'
    <2>1. unload' = Callers /\ unload # <<>>
      BY DEF DestroyDone
    <2>2. ASSUME NEW i \in DOMAIN unload'
          PROVE  i \in DOMAIN unload /\ i # n /\ unload'[i] = unload[i]
      BY <2>1, FrameFacts
    <2>3. ASSUME NEW i \in DOMAIN unload, i # n
          PROVE  KeyOf(unload[i].handle) # l
      BY <1>1, <2>3, FramesDistinct DEF StorageInv
    <2>4. ASSUME NEW i \in DOMAIN unload PROVE unload[i].handle \in Handle
      <3>1. unload[i] \in DestroyFrame
        BY TypeParts
      <3> QED
        BY <3>1 DEF DestroyFrame
    <2> QED
      BY <2>1, <2>2, <2>3, <2>4, FrameFacts
  <1> QED
    BY <1>1, <1>3, <1>5, <1>6, <1>7, <1>8, <1>9 DEF DestroyTurn, g

\* The slots that are not destroyed, as they were.
LEMMA DestroyLive ==
    ASSUME TypeOK, TypeOK', StorageInv, DestroyTurn, NEW x
    PROVE  x \in Live(slots') <=> x \in Live(slots) /\ x # Frame.handle
  <1> DEFINE l == KeyOf(Frame.handle)
  <1>1. slots \in [Key -> Slot] /\ slots' \in [Key -> Slot]
    BY TypeParts, TypePrimes
  <1>2. l \in Key /\ Frame.handle \in Handle /\ slots'[l].state = "EMPTY" /\ H(l) = Frame.handle
        /\ \A k \in Key : k # l => slots'[k] = slots[k]
    BY DEF DestroyTurn
  <1>3. x \in Handle => KeyOf(x) \in Key
    BY KeyFacts
  <1> HIDE DEF l
  <1>4. CASE x \in Handle /\ KeyOf(x) = l
    <2>1. x \notin Live(slots')
      BY <1>1, <1>2, <1>4, LiveFacts
    <2>2. x \in Live(slots) => x = Frame.handle
      BY <1>1, <1>2, <1>4, LiveHandle DEF H
    <2> QED
      BY <2>1, <2>2
  <1>5. CASE x \in Handle /\ KeyOf(x) # l
    <2>1. Resolves(slots', x) <=> Resolves(slots, x)
      BY <1>1, <1>2, <1>3, <1>5, ResolvesFacts
    <2>2. x # Frame.handle
      BY <1>5 DEF l
    <2> QED
      BY <1>1, <1>2, <1>3, <1>5, <2>1, <2>2, LiveFacts
  <1>6. CASE x \notin Handle
    BY <1>1, <1>6, LiveFacts
  <1> QED
    BY <1>4, <1>5, <1>6

LEMMA StorageDestroyDone ==
    ASSUME TypeOK, TypeOK', StorageInv, DestroyDone, UNCHANGED main
    PROVE  StorageInv'
  <1> DEFINE n == Len(unload)
             h == Frame.handle
             l == KeyOf(h)
  <1>1. DestroyTurn
    BY DestroyDoneFacts
  <1>2. /\ n \in DOMAIN unload /\ Frame = unload[n] /\ Frame.at = "detach" /\ Frame.rest = {}
        /\ unload[n].handle = h /\ h \in Handle /\ l \in Key /\ H(l) = h
        /\ l = KeyOf(h) /\ h = Frame.handle
    BY <1>1 DEF DestroyTurn
  <1>3. \A k \in Key : k # l => slots'[k] = slots[k] /\ H(k)' = H(k) /\ H(k) # h
    BY <1>1 DEF DestroyTurn
  <1>4. /\ slots'[l].state = "EMPTY" /\ slots'[l].dependencies = {} /\ slots'[l].dependents = {}
        /\ ~Ending => slots'[l].generation = slots[l].generation + 1
        /\ ~Ending => slots[l].state # "EMPTY" /\ slots[l].dependents = {} /\ Frame.reuse
    BY <1>1 DEF DestroyTurn
  <1>5. /\ \A i \in DOMAIN unload' : /\ i \in DOMAIN unload /\ i # n /\ unload'[i] = unload[i]
                                     /\ KeyOf(unload[i].handle) # l
                                     /\ unload[i].handle \in Handle
        /\ \A i \in DOMAIN unload : i # n => i \in DOMAIN unload'
    BY <1>1 DEF DestroyTurn
  <1>6. Ending' <=> Ending
    BY DEF Ending
  <1>7. slots \in [Key -> Slot] /\ slots' \in [Key -> Slot]
    BY TypeParts, TypePrimes
  <1>8. \A x : x \in Live(slots') <=> x \in Live(slots) /\ x # h
    BY <1>1, <1>2, DestroyLive
  <1>9. \A x : x \in Live(slots) => x \in Handle /\ KeyOf(x) \in Key /\ H(KeyOf(x)) = x
    BY <1>7, LiveHandle DEF H
  <1>10. \A x : x \in Live(slots) /\ x # h => KeyOf(x) # l
    BY <1>2, <1>9
  <1> HIDE DEF n, h, l
  <1>11. ASSUME NEW k \in Key, k # l, NEW e
         PROVE  Edge(k, e)' <=> Edge(k, e)
    <2>1. H(k)' = H(k) /\ slots'[k].dependencies = slots[k].dependencies /\ H(k) # h
      BY <1>3, <1>11
    <2> QED
      BY <1>2, <1>5, <2>1 DEF Edge
  <1>12. ASSUME ~Ending, NEW e PROVE ~Edge(l, e)
    BY <1>2 DEF Edge
  <1>13. UnloadInv'
    <2>1. ASSUME NEW i \in DOMAIN unload'
          PROVE  /\ Resolves(slots', unload'[i].handle)
                 /\ unload'[i].rest \subseteq slots'[KeyOf(unload'[i].handle)].dependencies
                 /\ ~Ending' => /\ slots'[KeyOf(unload'[i].handle)].state # "EMPTY"
                                /\ slots'[KeyOf(unload'[i].handle)].dependents = {}
                                /\ unload'[i].reuse
      <3>1. /\ i \in DOMAIN unload /\ unload'[i] = unload[i]
            /\ KeyOf(unload[i].handle) # l /\ unload[i].handle \in Handle
        BY <1>5
      <3>2. slots'[KeyOf(unload[i].handle)] = slots[KeyOf(unload[i].handle)]
        BY <1>3, <3>1, KeyFacts
      <3>3. /\ Resolves(slots, unload[i].handle)
            /\ unload[i].rest \subseteq slots[KeyOf(unload[i].handle)].dependencies
            /\ ~Ending => /\ slots[KeyOf(unload[i].handle)].state # "EMPTY"
                          /\ slots[KeyOf(unload[i].handle)].dependents = {}
                          /\ unload[i].reuse
        BY <3>1 DEF StorageInv, UnloadInv
      <3>4. Resolves(slots', unload[i].handle)
        BY <3>2, <3>3 DEF Resolves
      <3> QED
        BY <1>6, <3>1, <3>2, <3>3, <3>4
    <2> QED
      BY <2>1 DEF UnloadInv
  <1>14. EmptyInv'
    <2>1. ASSUME ~Ending', NEW k \in Key, slots'[k].state = "EMPTY"
          PROVE  slots'[k].dependencies = {} /\ slots'[k].dependents = {}
      <3>1. CASE k = l
        BY <1>4, <3>1
      <3>2. CASE k # l
        BY <1>3, <1>6, <2>1, <3>2 DEF StorageInv, EmptyInv
      <3> QED
        BY <3>1, <3>2
    <2> QED
      BY <2>1 DEF EmptyInv
  <1>15. GraphInv'
    <2> SUFFICES ASSUME ~Ending', NEW k \in Key
                 PROVE  /\ \A e \in slots'[k].dependencies :
                             Edge(k, e)' => e \in Live(slots') /\ H(k)' \in slots'[KeyOf(e)].dependents
                        /\ \A p \in slots'[k].dependents : p \in Live(slots') /\ EdgeTo(KeyOf(p), k)'
      BY DEF GraphInv
    <2>0. ~Ending
      BY <1>6
    <2>1. ASSUME NEW e \in slots'[k].dependencies, Edge(k, e)'
          PROVE  e \in Live(slots') /\ H(k)' \in slots'[KeyOf(e)].dependents
      <3>1. k # l
        BY <1>4, <2>1
      <3>2. Edge(k, e) /\ e \in slots[k].dependencies
        BY <1>3, <1>11, <2>1, <3>1
      <3>3. e \in Live(slots) /\ H(k) \in slots[KeyOf(e)].dependents
        BY <2>0, <3>2 DEF StorageInv, GraphInv
      <3>4. e # h
        BY <1>2, <1>4, <2>0, <3>3
      <3>5. KeyOf(e) \in Key /\ KeyOf(e) # l
        BY <1>9, <1>10, <3>3, <3>4
      <3> QED
        BY <1>3, <1>8, <3>1, <3>3, <3>4, <3>5
    <2>2. ASSUME NEW p \in slots'[k].dependents
          PROVE  p \in Live(slots') /\ EdgeTo(KeyOf(p), k)'
      <3>1. k # l
        BY <1>4, <2>2
      <3>2. p \in Live(slots) /\ EdgeTo(KeyOf(p), k)
        BY <1>3, <2>0, <2>2, <3>1 DEF StorageInv, GraphInv
      <3>3. PICK x : x = H(k)
        OBVIOUS
      <3>4. Edge(KeyOf(p), x)
        BY <3>2, <3>3 DEF EdgeTo
      <3>5. KeyOf(p) # l /\ KeyOf(p) \in Key
        BY <1>9, <1>12, <2>0, <3>2, <3>4
      <3>6. Edge(KeyOf(p), x)'
        BY <1>11, <3>4, <3>5
      <3>7. H(k)' = x
        BY <1>3, <3>1, <3>3
      <3>8. EdgeTo(KeyOf(p), k)'
        BY <3>6, <3>7 DEF EdgeTo, Edge
      <3>9. p # h
        BY <1>2, <3>5
      <3> QED
        BY <1>8, <3>2, <3>8, <3>9
    <2> QED
      BY <2>1, <2>2
  <1>16. OrderInv'
    <2>1. PICK R \in SUBSET (Key \X Key) : Above(R)
      BY DEF StorageInv, OrderInv
    <2>2. \A k \in Key : slots'[k].dependencies \subseteq slots[k].dependencies
      BY <1>3, <1>4
    <2>3. Above(R)'
      BY <1>5, <2>1, <2>2 DEF Above
    <2> QED
      BY <2>3 DEF OrderInv
  <1>17. FreeInv'
    <2> SUFFICES ASSUME ~Ending', NEW t \in Types
                 PROVE  /\ \A i, j \in DOMAIN free'[t] : free'[t][i] = free'[t][j] => i = j
                        /\ \A i \in Index : (\E m \in DOMAIN free'[t] : free'[t][m] = i)
                              <=> i <= size'[t] /\ slots'[<<t, i>>].state = "EMPTY"
                        /\ \A i \in Index : i > size'[t] => slots'[<<t, i>>].state = "EMPTY"
      BY DEF FreeInv
    <2>0. ~Ending /\ Frame.reuse /\ size' = size
      BY <1>4, <1>6 DEF DestroyDone
    <2>1. /\ \A i, j \in DOMAIN free[t] : free[t][i] = free[t][j] => i = j
          /\ \A i \in Index : (\E m \in DOMAIN free[t] : free[t][m] = i)
                                <=> i <= size[t] /\ slots[<<t, i>>].state = "EMPTY"
          /\ \A i \in Index : i > size[t] => slots[<<t, i>>].state = "EMPTY"
      BY <2>0 DEF StorageInv, FreeInv
    <2>2. /\ l = <<l[1], l[2]>> /\ l[1] \in Types /\ l[2] \in Index
          /\ \A i \in Index : <<t, i>> \in Key
      BY <1>2 DEF Key
    <2>3. free' = [free EXCEPT ![l[1]] = Append(free[l[1]], l[2])]
      BY <2>0 DEF DestroyDone, l, h
    <2>4. free \in [Types -> Seq(Index)]
      BY TypeParts
    <2>5. CASE t # l[1]
      <3>1. free'[t] = free[t] /\ \A i \in Index : <<t, i>> # l
        BY <2>2, <2>3, <2>4, <2>5
      <3> QED
        BY <1>3, <2>0, <2>1, <2>2, <3>1
    <2>6. CASE t = l[1]
      <3>1. PICK m \in Index : m = l[2]
        BY <2>2
      <3>2. PICK q \in Seq(Index) : q = free[t]
        BY <2>4
      <3>3. free'[t] = Append(q, m) /\ l = <<t, m>>
        BY <2>2, <2>3, <2>4, <2>6, <3>1, <3>2
      <3>4. slots[<<t, m>>].state # "EMPTY" /\ m <= size[t]
        <4>1. slots[<<t, m>>].state # "EMPTY"
          BY <1>4, <2>0, <3>3
        <4>2. m \in Int /\ size[t] \in Int
          BY TypeParts DEF Index
        <4> QED
          BY <2>1, <4>1, <4>2
      <3>5. \A i \in DOMAIN q : q[i] # m
        BY <2>1, <3>2, <3>4
      <3>6. PICK r \in Seq(Index) : r = Append(q, m)
        BY AppendProperties
      <3>7. /\ Len(r) \in DOMAIN r /\ r[Len(r)] = m
            /\ \A i \in DOMAIN q : i \in DOMAIN r /\ i < Len(r) /\ r[i] = q[i]
            /\ \A i \in DOMAIN r : i # Len(r) => i \in DOMAIN q
        BY <3>6, AppendFacts
      <3>8. \A i, j \in DOMAIN r : r[i] = r[j] => i = j
        BY <2>1, <3>2, <3>5, <3>7
      <3>9. \A i \in Index : (\E o \in DOMAIN r : r[o] = i) <=> (i = m \/ \E o \in DOMAIN q : q[o] = i)
        BY <3>7
      <3>10. \A i \in Index : i # m => slots'[<<t, i>>].state = slots[<<t, i>>].state
        <4>1. ASSUME NEW i \in Index, i # m PROVE slots'[<<t, i>>].state = slots[<<t, i>>].state
          <5>1. <<t, i>> # l /\ <<t, i>> \in Key
            BY <2>2, <3>3, <4>1
          <5> QED
            BY <1>3, <5>1
        <4> QED
          BY <4>1
      <3>11. slots'[<<t, m>>].state = "EMPTY"
        BY <1>4, <3>3
      <3>12. \A i \in Index : (\E o \in DOMAIN r : r[o] = i)
                                <=> i <= size[t] /\ slots'[<<t, i>>].state = "EMPTY"
        <4>1. ASSUME NEW i \in Index
              PROVE  (\E o \in DOMAIN r : r[o] = i)
                       <=> i <= size[t] /\ slots'[<<t, i>>].state = "EMPTY"
          <5>1. CASE i = m
            BY <3>4, <3>9, <3>11, <5>1
          <5>2. CASE i # m
            <6>1. slots'[<<t, i>>].state = slots[<<t, i>>].state
              BY <3>10, <5>2
            <6>2. (\E o \in DOMAIN q : q[o] = i) <=> i <= size[t] /\ slots[<<t, i>>].state = "EMPTY"
              BY <2>1, <3>2
            <6> QED
              BY <3>9, <5>2, <6>1, <6>2
          <5> QED
            BY <5>1, <5>2
        <4> QED
          BY <4>1
      <3>13. \A i \in Index : i > size[t] => slots'[<<t, i>>].state = "EMPTY"
        BY <2>1, <3>10, <3>11
      <3> QED
        BY <2>0, <3>3, <3>6, <3>8, <3>12, <3>13
    <2> QED
      BY <2>5, <2>6
  <1>18. CacheInv'
    <2>1. ASSUME ~Ending', NEW t \in Types, NEW p \in Paths, NEW c \in Handle,
                 cache'[<<t, p>>] = c
          PROVE  /\ c \in Live(slots') /\ c.type = t /\ slots'[KeyOf(c)].path = p
                 /\ \A i \in DOMAIN unload' : unload'[i].handle = c => unload'[i].at = "enter"
      <3>1. cache'[<<t, p>>] = cache[<<t, p>>]
        BY DEF DestroyDone
      <3>2. /\ c \in Live(slots) /\ c.type = t /\ slots[KeyOf(c)].path = p
            /\ \A i \in DOMAIN unload : unload[i].handle = c => unload[i].at = "enter"
        BY <1>6, <2>1, <3>1 DEF StorageInv, CacheInv
      <3>3. c # h
        BY <1>2, <3>2
      <3>4. KeyOf(c) \in Key /\ KeyOf(c) # l
        BY <1>9, <1>10, <3>2, <3>3
      <3> QED
        BY <1>3, <1>5, <1>8, <3>2, <3>3, <3>4
    <2> QED
      BY <2>1 DEF CacheInv
  <1>19. GenerationInv'
    <2>1. ASSUME ~Ending', NEW k \in Key
          PROVE  /\ slots'[k].generation <= MaxGeneration + 1
                 /\ slots'[k].state # "EMPTY" => slots'[k].generation <= MaxGeneration
      <3>1. /\ slots[k].generation <= MaxGeneration + 1
            /\ slots[k].state # "EMPTY" => slots[k].generation <= MaxGeneration
        BY <1>6, <2>1 DEF StorageInv, GenerationInv
      <3>2. slots[k].generation \in Nat /\ MaxGeneration \in Nat
        BY <1>7, SystemAssumption DEF Slot
      <3>3. CASE k = l
        BY <1>4, <1>6, <2>1, <3>1, <3>2, <3>3
      <3>4. CASE k # l
        BY <1>3, <3>1, <3>4
      <3> QED
        BY <3>3, <3>4
    <2> QED
      BY <2>1 DEF GenerationInv
  <1> QED
    BY <1>13, <1>14, <1>15, <1>16, <1>17, <1>18, <1>19 DEF StorageInv

-----------------------------------------------------------------------------
(* Commit, allocation and forced unloading                                  *)

\* The loaded asset h takes the assets ds as its dependencies.
\* The dependencies ds of the asset h, which had none, are committed.
Commits(h, ds) ==
    /\ h \in Live(slots) /\ ds \subseteq Live(slots) /\ h \notin ds
    /\ slots[KeyOf(h)].dependencies = {} /\ slots[KeyOf(h)].dependents = {}
    /\ \A k \in Key :
         /\ slots'[k].generation = slots[k].generation /\ slots'[k].path = slots[k].path
         /\ slots'[k].state = "EMPTY" <=> slots[k].state = "EMPTY"
         /\ slots'[k].dependencies = IF k = KeyOf(h) THEN ds ELSE slots[k].dependencies
         /\ slots'[k].dependents = IF H(k) \in ds THEN slots[k].dependents \cup {h}
                                                  ELSE slots[k].dependents

LEMMA StorageCommit ==
    ASSUME TypeOK, TypeOK', StorageInv, UNCHANGED <<size, free, cache, unload, main>>,
           unload = <<>>, ~Ending, NEW h, NEW ds, Commits(h, ds)
    PROVE  StorageInv'
  <1>0. PICK l : l = KeyOf(h)
    OBVIOUS
  <1>a. /\ h \in Live(slots) /\ ds \in SUBSET Live(slots) /\ h \notin ds
        /\ slots[l].dependencies = {} /\ slots[l].dependents = {}
    BY <1>0 DEF Commits
  <1>b. \A k \in Key :
           /\ slots'[k].generation = slots[k].generation /\ slots'[k].path = slots[k].path
           /\ slots'[k].state = "EMPTY" <=> slots[k].state = "EMPTY"
           /\ slots'[k].dependencies = IF k = l THEN ds ELSE slots[k].dependencies
           /\ slots'[k].dependents = IF H(k) \in ds THEN slots[k].dependents \cup {h}
                                                    ELSE slots[k].dependents
    BY <1>0 DEF Commits
  <1> USE <1>0, <1>a, <1>b
  <1>1. slots \in [Key -> Slot] /\ slots' \in [Key -> Slot]
    BY TypeParts, TypePrimes
  <1>2. /\ \A k \in Key : slots[k].generation \in Nat
        /\ \A k \in Key : H(k)' = H(k) /\ KeyOf(H(k)) = k /\ H(k) \in Handle
    <2>1. \A k \in Key : slots[k].generation \in Nat
      BY <1>1 DEF Slot
    <2>2. \A k \in Key : KeyOf(H(k)) = k /\ H(k) \in Handle
      BY <2>1, HandleFacts DEF H
    <2>3. \A k \in Key : H(k)' = H(k)
      BY DEF H, HandleAt
    <2> QED
      BY <2>1, <2>2, <2>3
  <1>3. \A x : x \in Live(slots) => x \in Handle /\ KeyOf(x) \in Key /\ H(KeyOf(x)) = x
                                    /\ slots[KeyOf(x)].state # "EMPTY"
    BY <1>1, LiveHandle DEF H
  <1>4. l \in Key /\ H(l) = h /\ h \in Handle
    BY <1>3
  <1>5. \A x : x \in Live(slots') <=> x \in Live(slots)
    <2>1. ASSUME NEW x PROVE x \in Live(slots') <=> x \in Live(slots)
      <3>1. x \in Handle => KeyOf(x) \in Key
        BY KeyFacts
      <3>2. x \in Handle => (Resolves(slots', x) <=> Resolves(slots, x))
        BY <1>1, <3>1, ResolvesFacts
      <3> QED
        BY <1>1, <3>1, <3>2, LiveFacts
    <2> QED
      BY <2>1
  <1>6. unload' = <<>> /\ DOMAIN unload = {} /\ DOMAIN unload' = {}
    OBVIOUS
  <1>7. \A k \in Key : \A d : /\ Edge(k, d) <=> d \in slots[k].dependencies
                          /\ Edge(k, d)' <=> d \in slots'[k].dependencies
    BY <1>6 DEF Edge
  <1>8. \A k, m \in Key : /\ EdgeTo(k, m) <=> H(m) \in slots[k].dependencies
                          /\ EdgeTo(k, m)' <=> H(m) \in slots'[k].dependencies
    BY <1>2, <1>6 DEF EdgeTo, Edge
  <1>9. ~Ending' /\ ~Ending
    BY DEF Ending
  <1>10. UnloadInv'
    BY <1>6 DEF UnloadInv
  <1>11. EmptyInv'
    <2>1. ASSUME NEW k \in Key, slots'[k].state = "EMPTY"
          PROVE  slots'[k].dependencies = {} /\ slots'[k].dependents = {}
      <3>1. slots[k].state = "EMPTY" /\ k # l
        BY <1>3, <2>1
      <3>2. H(k) \notin ds
        BY <1>2, <1>3, <3>1
      <3> QED
        BY <1>9, <3>1, <3>2 DEF StorageInv, EmptyInv
    <2> QED
      BY <2>1 DEF EmptyInv
  <1>12. GraphInv'
    <2> SUFFICES ASSUME NEW k \in Key
                 PROVE  /\ \A e \in slots'[k].dependencies :
                             Edge(k, e)' => e \in Live(slots') /\ H(k)' \in slots'[KeyOf(e)].dependents
                        /\ \A p \in slots'[k].dependents : p \in Live(slots') /\ EdgeTo(KeyOf(p), k)'
      BY DEF GraphInv
    <2>1. ASSUME NEW e \in slots'[k].dependencies
          PROVE  e \in Live(slots') /\ H(k)' \in slots'[KeyOf(e)].dependents
      <3>1. CASE k = l
        <4>1. e \in ds
          BY <2>1, <3>1
        <4>2. KeyOf(e) \in Key /\ H(KeyOf(e)) = e /\ e \in Live(slots)
          BY <1>3, <4>1
        <4>3. h \in slots'[KeyOf(e)].dependents
          BY <4>1, <4>2
        <4> QED
          BY <1>2, <1>4, <1>5, <3>1, <4>2, <4>3
      <3>2. CASE k # l
        <4>1. e \in slots[k].dependencies /\ Edge(k, e)
          BY <1>7, <2>1, <3>2
        <4>2. e \in Live(slots) /\ H(k) \in slots[KeyOf(e)].dependents
          BY <1>9, <4>1 DEF StorageInv, GraphInv
        <4>3. slots[KeyOf(e)].dependents \subseteq slots'[KeyOf(e)].dependents
          BY <1>3, <4>2
        <4> QED
          BY <1>2, <1>5, <4>2, <4>3
      <3> QED
        BY <3>1, <3>2
    <2>2. ASSUME NEW p \in slots'[k].dependents
          PROVE  p \in Live(slots') /\ EdgeTo(KeyOf(p), k)'
      <3>1. CASE p \in slots[k].dependents
        <4>1. p \in Live(slots) /\ EdgeTo(KeyOf(p), k)
          BY <1>9, <3>1 DEF StorageInv, GraphInv
        <4>2. KeyOf(p) \in Key /\ H(k) \in slots[KeyOf(p)].dependencies
          BY <1>3, <1>8, <4>1
        <4>3. KeyOf(p) # l
          BY <4>2
        <4> QED
          BY <1>5, <1>8, <4>1, <4>2, <4>3
      <3>2. CASE p = h /\ H(k) \in ds
        BY <1>4, <1>5, <1>8, <3>2
      <3> QED
        BY <2>2, <3>1, <3>2
    <2> QED
      BY <2>1, <2>2
  <1>13. OrderInv'
    <2>1. PICK R \in SUBSET (Key \X Key) : Above(R)
      BY DEF StorageInv, OrderInv
    <2> DEFINE Q == {e \in R : e[1] # l /\ e[2] # l} \cup {<<l, m>> : m \in Key \ {l}}
    <2>2. Q \in SUBSET (Key \X Key)
      BY <1>4
    <2>3. \A k, m \in Key : <<k, m>> \in Q <=>
             \/ k # l /\ m # l /\ <<k, m>> \in R
             \/ k = l /\ m # l
      OBVIOUS
    <2> HIDE DEF Q
    <2>4. \A k \in Key : <<k, k>> \notin Q
      BY <2>1, <2>3 DEF Above
    <2>5. \A k, o, m \in Key : <<k, o>> \in Q /\ <<o, m>> \in Q => <<k, m>> \in Q
      <3>1. ASSUME NEW k \in Key, NEW o \in Key, NEW m \in Key, <<k, o>> \in Q, <<o, m>> \in Q
            PROVE  <<k, m>> \in Q
        <4>1. o # l /\ m # l /\ <<o, m>> \in R
          BY <2>3, <3>1
        <4>2. CASE k = l
          BY <2>3, <4>1, <4>2
        <4>3. CASE k # l
          <5>1. <<k, o>> \in R
            BY <2>3, <3>1, <4>3
          <5>2. <<k, m>> \in R
            BY <2>1, <4>1, <5>1 DEF Above
          <5> QED
            BY <2>3, <4>1, <4>3, <5>2
        <4> QED
          BY <4>2, <4>3
      <3> QED
        BY <3>1
    <2>6. ASSUME NEW k \in Key, NEW d \in slots'[k].dependencies
          PROVE  <<k, KeyOf(d)>> \in Q
      <3>1. CASE k = l
        <4>1. d \in ds
          BY <2>6, <3>1
        <4>2. KeyOf(d) \in Key /\ KeyOf(d) # l
          BY <1>3, <1>4, <4>1
        <4> QED
          BY <2>3, <3>1, <4>2
      <3>2. CASE k # l
        <4>1. d \in slots[k].dependencies /\ Edge(k, d)
          BY <1>7, <2>6, <3>2
        <4>2. d \in Live(slots) /\ H(k) \in slots[KeyOf(d)].dependents
          BY <1>9, <4>1 DEF StorageInv, GraphInv
        <4>3. KeyOf(d) \in Key /\ KeyOf(d) # l
          BY <1>3, <4>2
        <4>4. <<k, KeyOf(d)>> \in R
          BY <2>1, <4>1 DEF Above
        <4> QED
          BY <2>3, <3>2, <4>3, <4>4
      <3> QED
        BY <3>1, <3>2
    <2>7. Above(Q)'
      BY <1>6, <2>4, <2>5, <2>6 DEF Above
    <2> QED
      BY <2>2, <2>7 DEF OrderInv
  <1>14. FreeInv'
    <2>1. \A t \in Types, i \in Index : <<t, i>> \in Key
      BY DEF Key
    <2>2. \A t \in Types, i \in Index :
            slots'[<<t, i>>].state = "EMPTY" <=> slots[<<t, i>>].state = "EMPTY"
      BY <2>1
    <2>3. size' = size /\ free' = free
      OBVIOUS
    <2> QED
      BY <1>9, <2>2, <2>3 DEF StorageInv, FreeInv
  <1>15. CacheInv'
    <2>1. ASSUME NEW t \in Types, NEW p \in Paths, NEW c \in Handle, cache[<<t, p>>] = c
          PROVE  c \in Live(slots') /\ c.type = t /\ slots'[KeyOf(c)].path = p
      <3>1. c \in Live(slots) /\ c.type = t /\ slots[KeyOf(c)].path = p
        BY <1>9, <2>1 DEF StorageInv, CacheInv
      <3> QED
        BY <1>3, <1>5, <3>1
    <2>2. cache' = cache
      OBVIOUS
    <2> QED
      BY <1>6, <2>1, <2>2 DEF CacheInv
  <1>16. GenerationInv'
    BY <1>9 DEF StorageInv, GenerationInv
  <1> QED
    BY <1>10, <1>11, <1>12, <1>13, <1>14, <1>15, <1>16 DEF StorageInv

\* allocate_slot hands out a slot that is not in use.
LEMMA AllocEmpty ==
    ASSUME TypeOK, StorageInv, ~Ending, NEW t \in Types, CanAllocate(t)
    PROVE  slots[NewKey(t)].state = "EMPTY"
  <1>1. free[t] \in Seq(Index) /\ size[t] \in 0..MaxSlots
    BY TypeParts
  <1>2. AllocIndex(t) \in Index /\ NewKey(t) = <<t, AllocIndex(t)>>
    BY AllocFacts DEF NewKey
  <1>3. CASE free[t] # <<>>
    <2>1. Len(free[t]) \in DOMAIN free[t]
      BY <1>1, <1>3, EmptySeq
    <2>2. AllocIndex(t) = free[t][Len(free[t])]
      BY <1>3 DEF AllocIndex
    <2> QED
      BY <1>2, <2>1, <2>2 DEF StorageInv, FreeInv
  <1>4. CASE free[t] = <<>>
    <2>1. AllocIndex(t) = size[t] + 1
      BY <1>4 DEF AllocIndex
    <2>2. AllocIndex(t) > size[t]
      BY <1>1, <2>1
    <2> QED
      BY <1>2, <2>2 DEF StorageInv, FreeInv
  <1> QED
    BY <1>3, <1>4

\* What allocate_slot does to the free list of t.
LEMMA TakeFree ==
    ASSUME TypeOK, StorageInv, ~Ending, NEW t \in Types, CanAllocate(t), TakeIndex(t)
    PROVE  /\ \A u \in Types : u # t => free'[u] = free[u] /\ size'[u] = size[u]
           /\ \A i, j \in DOMAIN free'[t] : free'[t][i] = free'[t][j] => i = j
           /\ \A i \in Index : (\E m \in DOMAIN free'[t] : free'[t][m] = i)
                 <=> i # AllocIndex(t) /\ \E m \in DOMAIN free[t] : free[t][m] = i
           /\ size'[t] \in Int
           /\ \A i \in Index : i <= size'[t] <=> i <= size[t] \/ i = AllocIndex(t)
  <1>1. /\ free \in [Types -> Seq(Index)] /\ size \in [Types -> 0..MaxSlots]
        /\ free[t] \in Seq(Index) /\ size[t] \in 0..MaxSlots
    BY TypeParts
  <1>2. AllocIndex(t) \in Index /\ Index \subseteq Int
    BY AllocFacts DEF Index
  <1>3. \A i, j \in DOMAIN free[t] : free[t][i] = free[t][j] => i = j
    BY DEF StorageInv, FreeInv
  <1>4. CASE Grows(t)
    <2>1. size' = [size EXCEPT ![t] = size[t] + 1] /\ free' = free /\ free[t] = <<>>
      BY <1>4 DEF TakeIndex, Grows
    <2>2. AllocIndex(t) = size[t] + 1
      BY <2>1 DEF AllocIndex
    <2>3. size'[t] = size[t] + 1 /\ \A u \in Types : u # t => size'[u] = size[u]
      BY <1>1, <2>1
    <2>4. size[t] \in Int
      BY <1>1
    <2>5. \A i \in Index : i <= size'[t] <=> i <= size[t] \/ i = AllocIndex(t)
      BY <1>2, <2>2, <2>3, <2>4
    <2> QED
      BY <1>3, <2>1, <2>3, <2>4, <2>5
  <1>5. CASE ~Grows(t)
    <2>0. PICK q \in Seq(Index) : q = free[t]
      BY <1>1
    <2>1. q # <<>>
      BY <1>5, <2>0 DEF Grows
    <2>2. PICK b \in Seq(Index) : b = SubSeq(q, 1, Len(q) - 1)
      BY <2>1, TopFacts
    <2>3. /\ Len(q) \in DOMAIN q
          /\ \A m \in DOMAIN b : m \in DOMAIN q /\ m < Len(q) /\ b[m] = q[m]
          /\ \A m \in DOMAIN q : m # Len(q) => m \in DOMAIN b
      BY <2>1, <2>2, TopFacts
    <2>4. free' = [free EXCEPT ![t] = b] /\ size' = size
      BY <1>5, <2>0, <2>2 DEF TakeIndex
    <2>5. free'[t] = b /\ \A u \in Types : u # t => free'[u] = free[u]
      BY <1>1, <2>4
    <2>6. AllocIndex(t) = q[Len(q)]
      BY <2>0, <2>1 DEF AllocIndex
    <2>7. \A i, j \in DOMAIN b : b[i] = b[j] => i = j
      BY <1>3, <2>0, <2>3
    <2>8. ASSUME NEW i \in Index
          PROVE  (\E m \in DOMAIN b : b[m] = i) <=> i # AllocIndex(t) /\ \E m \in DOMAIN q : q[m] = i
      <3>1. ASSUME NEW m \in DOMAIN b, b[m] = i PROVE i # AllocIndex(t) /\ q[m] = i
        <4>1. m \in DOMAIN q /\ m # Len(q) /\ q[m] = i
          BY <2>3, <3>1
        <4> QED
          BY <1>3, <2>0, <2>3, <2>6, <4>1
      <3>2. ASSUME NEW m \in DOMAIN q, q[m] = i, i # AllocIndex(t) PROVE m \in DOMAIN b /\ b[m] = i
        BY <2>3, <2>6, <3>2
      <3> QED
        BY <2>3, <3>1, <3>2
    <2>9. AllocIndex(t) <= size[t]
      BY <1>2, <2>0, <2>3, <2>6 DEF StorageInv, FreeInv
    <2>10. \A i \in Index : i <= size'[t] <=> i <= size[t] \/ i = AllocIndex(t)
      BY <1>1, <1>2, <2>4, <2>9
    <2> QED
      BY <1>1, <2>0, <2>4, <2>5, <2>7, <2>8, <2>10
  <1> QED
    BY <1>4, <1>5

\* A request takes the slot l for an asset of path p.
LEMMA StorageTake ==
    ASSUME TypeOK, TypeOK', StorageInv, ~Ending, UNCHANGED main, unload = <<>>, Starts,
           NEW t \in Types, CanAllocate(t), TakeIndex(t), NEW p, NEW l, l = NewKey(t),
           slots[l].generation <= MaxGeneration,
           \A k \in Key : /\ slots'[k].generation = slots[k].generation
                          /\ slots'[k].dependencies = slots[k].dependencies
                          /\ slots'[k].dependents = slots[k].dependents
                          /\ k # l => slots'[k].state = slots[k].state /\ slots'[k].path = slots[k].path,
           slots'[l].state # "EMPTY", slots'[l].path = p,
           \/ cache' = cache
           \/ p \in Paths /\ cache' = [cache EXCEPT ![<<t, p>>] = NewHandle(t)]
    PROVE  StorageInv'
  <1>1. slots \in [Key -> Slot] /\ slots' \in [Key -> Slot]
    BY TypeParts, TypePrimes
  <1>2. l \in Key /\ slots[l].state = "EMPTY" /\ l = <<t, AllocIndex(t)>> /\ AllocIndex(t) \in Index
        /\ NewHandle(t) = H(l) /\ NewHandle(t) \in Handle /\ KeyOf(NewHandle(t)) = l
        /\ NewHandle(t).type = t
    BY AllocFacts, AllocEmpty DEF H, NewKey
  <1>3. \A k \in Key : H(k)' = H(k)
    BY DEF H, HandleAt
  <1>4. \A x : x \in Live(slots) => x \in Handle /\ KeyOf(x) \in Key /\ KeyOf(x) # l
    BY <1>1, <1>2, LiveHandle
  <1>5. \A x \in Handle : Resolves(slots', x) <=> Resolves(slots, x)
    <2>1. ASSUME NEW x \in Handle PROVE Resolves(slots', x) <=> Resolves(slots, x)
      <3>1. KeyOf(x) \in Key
        BY KeyFacts
      <3> QED
        BY <1>1, <3>1, ResolvesFacts
    <2> QED
      BY <2>1
  <1>6. \A x : x \in Live(slots) => x \in Live(slots')
    <2>1. ASSUME NEW x \in Live(slots) PROVE x \in Live(slots')
      <3>1. x \in Handle /\ KeyOf(x) \in Key /\ KeyOf(x) # l /\ Resolves(slots, x)
            /\ slots[KeyOf(x)].state # "EMPTY"
        BY <1>1, <1>4, LiveHandle
      <3> QED
        BY <1>1, <1>5, <3>1, LiveFacts
    <2> QED
      BY <2>1
  <1>7. NewHandle(t) \in Live(slots')
    <2>1. Resolves(slots', NewHandle(t))
      BY <1>2, <1>5, AllocFacts
    <2> QED
      BY <1>1, <1>2, <2>1, LiveFacts
  <1>8. DOMAIN unload = {} /\ \A i \in DOMAIN unload' : unload'[i].at = "enter"
    BY StartsFacts
  <1>9. \A k \in Key : \A d : /\ Edge(k, d) <=> d \in slots[k].dependencies
                          /\ Edge(k, d)' <=> d \in slots[k].dependencies
    BY <1>8 DEF Edge
  <1>10. \A k, m \in Key : /\ EdgeTo(k, m) <=> H(m) \in slots[k].dependencies
                           /\ EdgeTo(k, m)' <=> H(m) \in slots[k].dependencies
    BY <1>3, <1>8 DEF EdgeTo, Edge
  <1>11. ~Ending' /\ ~Ending
    BY DEF Ending
  <1>12. UnloadInv'
    <2>1. ASSUME NEW i \in DOMAIN unload'
          PROVE  /\ Resolves(slots', unload'[i].handle) /\ unload'[i].rest = {}
                 /\ slots'[KeyOf(unload'[i].handle)].state # "EMPTY"
                 /\ slots'[KeyOf(unload'[i].handle)].dependents = {}
                 /\ unload'[i].reuse
      BY <1>8, StartsFacts
    <2> QED
      BY <2>1 DEF UnloadInv
  <1>13. EmptyInv'
    <2>1. ASSUME NEW k \in Key, slots'[k].state = "EMPTY"
          PROVE  slots'[k].dependencies = {} /\ slots'[k].dependents = {}
      <3>1. k # l /\ slots[k].state = "EMPTY"
        BY <2>1
      <3> QED
        BY <1>11, <3>1 DEF StorageInv, EmptyInv
    <2> QED
      BY <2>1 DEF EmptyInv
  <1>14. GraphInv'
    <2> SUFFICES ASSUME NEW k \in Key
                 PROVE  /\ \A e \in slots'[k].dependencies :
                             Edge(k, e)' => e \in Live(slots') /\ H(k)' \in slots'[KeyOf(e)].dependents
                        /\ \A q \in slots'[k].dependents : q \in Live(slots') /\ EdgeTo(KeyOf(q), k)'
      BY DEF GraphInv
    <2>1. ASSUME NEW e \in slots'[k].dependencies
          PROVE  e \in Live(slots') /\ H(k)' \in slots'[KeyOf(e)].dependents
      <3>1. e \in Live(slots) /\ H(k) \in slots[KeyOf(e)].dependents
        BY <1>9, <1>11, <2>1 DEF StorageInv, GraphInv
      <3> QED
        BY <1>3, <1>4, <1>6, <3>1
    <2>2. ASSUME NEW q \in slots'[k].dependents
          PROVE  q \in Live(slots') /\ EdgeTo(KeyOf(q), k)'
      <3>1. q \in Live(slots) /\ EdgeTo(KeyOf(q), k)
        BY <1>11, <2>2 DEF StorageInv, GraphInv
      <3> QED
        BY <1>4, <1>6, <1>10, <3>1
    <2> QED
      BY <2>1, <2>2
  <1>15. OrderInv'
    <2>1. PICK R \in SUBSET (Key \X Key) : Above(R)
      BY DEF StorageInv, OrderInv
    <2>2. \A i, j \in DOMAIN unload' : i < j => FALSE
      BY <1>8, StartsFacts
    <2>3. Above(R)'
      BY <2>1, <2>2 DEF Above
    <2> QED
      BY <2>3 DEF OrderInv
  <1>16. FreeInv'
    <2> SUFFICES ASSUME NEW u \in Types
                 PROVE  /\ \A i, j \in DOMAIN free'[u] : free'[u][i] = free'[u][j] => i = j
                        /\ \A i \in Index : (\E m \in DOMAIN free'[u] : free'[u][m] = i)
                              <=> i <= size'[u] /\ slots'[<<u, i>>].state = "EMPTY"
                        /\ \A i \in Index : i > size'[u] => slots'[<<u, i>>].state = "EMPTY"
      BY DEF FreeInv
    <2>1. /\ \A i, j \in DOMAIN free[u] : free[u][i] = free[u][j] => i = j
          /\ \A i \in Index : (\E m \in DOMAIN free[u] : free[u][m] = i)
                                <=> i <= size[u] /\ slots[<<u, i>>].state = "EMPTY"
          /\ \A i \in Index : i > size[u] => slots[<<u, i>>].state = "EMPTY"
      BY <1>11 DEF StorageInv, FreeInv
    <2>2. \A i \in Index : <<u, i>> # l => slots'[<<u, i>>].state = slots[<<u, i>>].state
      <3>1. \A i \in Index : <<u, i>> \in Key
        BY DEF Key
      <3> QED
        BY <3>1
    <2>3. CASE u # t
      <3>1. free'[u] = free[u] /\ size'[u] = size[u] /\ \A i \in Index : <<u, i>> # l
        BY <1>2, <2>3, TakeFree
      <3> QED
        BY <2>1, <2>2, <3>1
    <2>4. CASE u = t
      <3>1. PICK x \in Index : x = AllocIndex(t)
        BY <1>2
      <3>2. /\ \A i, j \in DOMAIN free'[u] : free'[u][i] = free'[u][j] => i = j
            /\ \A i \in Index : (\E m \in DOMAIN free'[u] : free'[u][m] = i)
                  <=> i # x /\ \E m \in DOMAIN free[u] : free[u][m] = i
            /\ \A i \in Index : i <= size'[u] <=> i <= size[u] \/ i = x
            /\ size'[u] \in Int
        BY <2>4, <3>1, TakeFree
      <3>3. slots'[<<u, x>>].state # "EMPTY" /\ \A i \in Index : i # x => <<u, i>> # l
        BY <1>2, <2>4, <3>1
      <3>4. ASSUME NEW i \in Index
            PROVE  /\ (\E m \in DOMAIN free'[u] : free'[u][m] = i)
                        <=> i <= size'[u] /\ slots'[<<u, i>>].state = "EMPTY"
                   /\ i > size'[u] => slots'[<<u, i>>].state = "EMPTY"
        <4>0. i \in Int /\ size[u] \in Int
          BY TypeParts DEF Index
        <4>1. CASE i = x
          BY <3>2, <3>3, <4>0, <4>1
        <4>2. CASE i # x
          <5>1. slots'[<<u, i>>].state = slots[<<u, i>>].state
            BY <2>2, <3>3, <4>2
          <5>2. i <= size'[u] <=> i <= size[u]
            BY <3>2, <4>2
          <5>3. (\E m \in DOMAIN free'[u] : free'[u][m] = i) <=> \E m \in DOMAIN free[u] : free[u][m] = i
            BY <3>2, <4>2
          <5>4. (\E m \in DOMAIN free[u] : free[u][m] = i) <=> i <= size[u] /\ slots[<<u, i>>].state = "EMPTY"
            BY <2>1
          <5>5. i > size'[u] => i > size[u]
            BY <3>2, <4>0, <5>2
          <5> QED
            BY <2>1, <5>1, <5>2, <5>3, <5>4, <5>5
        <4> QED
          BY <4>1, <4>2
      <3> QED
        BY <3>2, <3>4
    <2> QED
      BY <2>3, <2>4
  <1>17. CacheInv'
    <2>1. ASSUME NEW u \in Types, NEW q \in Paths, NEW c \in Handle, cache'[<<u, q>>] = c
          PROVE  c \in Live(slots') /\ c.type = u /\ slots'[KeyOf(c)].path = q
      <3>1. CASE cache[<<u, q>>] = c
        <4>1. c \in Live(slots) /\ c.type = u /\ slots[KeyOf(c)].path = q
          BY <1>11, <3>1 DEF StorageInv, CacheInv
        <4> QED
          BY <1>4, <1>6, <4>1
      <3>2. CASE cache[<<u, q>>] # c
        <4>1. p \in Paths /\ cache' = [cache EXCEPT ![<<t, p>>] = NewHandle(t)]
          BY <2>1, <3>2
        <4>2. u = t /\ q = p /\ c = NewHandle(t)
          BY <2>1, <3>2, <4>1, TypeParts
        <4> QED
          BY <1>2, <1>7, <4>2
      <3> QED
        BY <3>1, <3>2
    <2> QED
      BY <1>8, <2>1 DEF CacheInv
  <1>18. GenerationInv'
    <2>1. ASSUME NEW k \in Key
          PROVE  /\ slots'[k].generation <= MaxGeneration + 1
                 /\ slots'[k].state # "EMPTY" => slots'[k].generation <= MaxGeneration
      <3>1. /\ slots[k].generation <= MaxGeneration + 1
            /\ slots[k].state # "EMPTY" => slots[k].generation <= MaxGeneration
        BY <1>11 DEF StorageInv, GenerationInv
      <3> QED
        BY <3>1
    <2> QED
      BY <2>1 DEF GenerationInv
  <1> QED
    BY <1>12, <1>13, <1>14, <1>15, <1>16, <1>17, <1>18 DEF StorageInv

\* force_destroy_assets on one slot: its dependents let go of it first.
Forcing(h) == slots' = DetachDependents(slots, h) /\ unload' = <<DestroyCall(h, TRUE)>>

LEMMA StorageForce ==
    ASSUME TypeOK, TypeOK', StorageInv, ~Ending, ~Ending', unload = <<>>,
           UNCHANGED <<size, free, cache>>,
           NEW h \in Live(slots), Forcing(h)
    PROVE  StorageInv'
  <1> DEFINE l == KeyOf(h)
  <1>1. slots \in [Key -> Slot] /\ slots' \in [Key -> Slot]
    BY TypeParts, TypePrimes
  <1>2. h \in Handle /\ l \in Key /\ H(l) = h /\ slots[l].state # "EMPTY"
    BY <1>1, LiveHandle DEF H
  <1>3. /\ SameAssets(slots, slots')
        /\ \A k \in Key :
             /\ slots'[k].dependencies = IF H(k) \in slots[l].dependents
                                         THEN slots[k].dependencies \ {h} ELSE slots[k].dependencies
             /\ slots'[k].dependents = IF k = l THEN {} ELSE slots[k].dependents
    <2>1. PICK t : t = DetachDependents(slots, h)
      OBVIOUS
    <2>2. /\ SameAssets(slots, t)
          /\ \A k \in Key :
               /\ t[k].dependencies = IF HandleAt(slots, k) \in slots[KeyOf(h)].dependents
                                      THEN slots[k].dependencies \ {h} ELSE slots[k].dependencies
               /\ t[k].dependents = IF k = KeyOf(h) THEN {} ELSE slots[k].dependents
      <3>1. LET r == DetachDependents(slots, h)
            IN  /\ r \in [Key -> Slot]
                /\ SameAssets(slots, r)
                /\ \A k \in Key :
                     /\ r[k].dependencies = IF HandleAt(slots, k) \in slots[KeyOf(h)].dependents
                                           THEN slots[k].dependencies \ {h} ELSE slots[k].dependencies
                     /\ r[k].dependents = IF k = KeyOf(h) THEN {} ELSE slots[k].dependents
        BY <1>1, <1>2, DetachDependentsFacts, Zenon
      <3> QED
        BY <2>1, <3>1, Zenon
    <2>3. slots' = t
      BY <2>1 DEF Forcing
    <2> QED
      BY <2>2, <2>3 DEF H
  <1> HIDE DEF l
  <1>4. \A k \in Key : slots[k].generation \in Nat /\ slots'[k].generation = slots[k].generation
                       /\ slots'[k].state = slots[k].state /\ slots'[k].path = slots[k].path
    BY <1>1, <1>3 DEF SameAssets, Slot
  <1>5. /\ \A k \in Key : H(k)' = H(k) /\ KeyOf(H(k)) = k
        /\ \A x \in Handle : Resolves(slots', x) <=> Resolves(slots, x)
    BY <1>1, <1>3, <1>4, SameAssetsFacts, HandleFacts DEF H
  <1>6. \A x : x \in Live(slots) => x \in Handle /\ KeyOf(x) \in Key /\ H(KeyOf(x)) = x
    BY <1>1, LiveHandle DEF H
  <1>7. \A x : x \in Live(slots') <=> x \in Live(slots)
    <2>1. ASSUME NEW x PROVE x \in Live(slots') <=> x \in Live(slots)
      <3>1. x \in Handle => KeyOf(x) \in Key
        BY KeyFacts
      <3> QED
        BY <1>1, <1>4, <1>5, <3>1, LiveFacts
    <2> QED
      BY <2>1
  <1>8. /\ DOMAIN unload = {} /\ DOMAIN unload' = {1} /\ unload'[1].handle = h
        /\ unload'[1].at = "enter" /\ unload'[1].rest = {} /\ unload'[1].reuse
    BY DEF DestroyCall, Forcing
  <1>9. \A k \in Key : \A d : /\ Edge(k, d) <=> d \in slots[k].dependencies
                          /\ Edge(k, d)' <=> d \in slots'[k].dependencies
    BY <1>8 DEF Edge
  <1>10. \A k, m \in Key : /\ EdgeTo(k, m) <=> H(m) \in slots[k].dependencies
                           /\ EdgeTo(k, m)' <=> H(m) \in slots'[k].dependencies
    BY <1>5, <1>8 DEF EdgeTo, Edge
  <1>11. UnloadInv'
    <2>1. Resolves(slots', h) /\ slots'[KeyOf(h)].state # "EMPTY" /\ slots'[KeyOf(h)].dependents = {}
      <3>1. Resolves(slots, h)
        BY <1>1, LiveHandle
      <3> QED
        BY <1>2, <1>3, <1>4, <1>5, <3>1 DEF l
    <2> QED
      BY <1>8, <2>1 DEF UnloadInv
  <1>12. EmptyInv'
    <2>1. ASSUME NEW k \in Key, slots'[k].state = "EMPTY"
          PROVE  slots'[k].dependencies = {} /\ slots'[k].dependents = {}
      <3>1. slots[k].dependencies = {} /\ slots[k].dependents = {}
        BY <1>4, <2>1 DEF StorageInv, EmptyInv
      <3> QED
        BY <1>3, <3>1
    <2> QED
      BY <2>1 DEF EmptyInv
  <1>13. GraphInv'
    <2> SUFFICES ASSUME NEW k \in Key
                 PROVE  /\ \A e \in slots'[k].dependencies :
                             Edge(k, e)' => e \in Live(slots') /\ H(k)' \in slots'[KeyOf(e)].dependents
                        /\ \A p \in slots'[k].dependents : p \in Live(slots') /\ EdgeTo(KeyOf(p), k)'
      BY DEF GraphInv
    <2>1. ASSUME NEW e \in slots'[k].dependencies
          PROVE  e \in Live(slots') /\ H(k)' \in slots'[KeyOf(e)].dependents
      <3>1. e \in slots[k].dependencies /\ (H(k) \in slots[l].dependents => e # h)
        BY <1>3, <2>1
      <3>2. e \in Live(slots) /\ H(k) \in slots[KeyOf(e)].dependents
        BY <1>9, <3>1 DEF StorageInv, GraphInv
      <3>3. KeyOf(e) \in Key /\ KeyOf(e) # l
        BY <1>2, <1>6, <3>1, <3>2
      <3> QED
        BY <1>3, <1>5, <1>7, <3>2, <3>3
    <2>2. ASSUME NEW p \in slots'[k].dependents
          PROVE  p \in Live(slots') /\ EdgeTo(KeyOf(p), k)'
      <3>1. k # l /\ p \in slots[k].dependents
        BY <1>3, <2>2
      <3>2. p \in Live(slots) /\ EdgeTo(KeyOf(p), k)
        BY <3>1 DEF StorageInv, GraphInv
      <3>3. KeyOf(p) \in Key /\ H(k) \in slots[KeyOf(p)].dependencies
        BY <1>6, <1>10, <3>2
      <3>4. H(k) # h
        BY <1>2, <1>5, <3>1
      <3>5. H(k) \in slots'[KeyOf(p)].dependencies
        BY <1>3, <3>3, <3>4
      <3> QED
        BY <1>7, <1>10, <3>2, <3>3, <3>5
    <2> QED
      BY <2>1, <2>2
  <1>14. OrderInv'
    <2>1. PICK R \in SUBSET (Key \X Key) : Above(R)
      BY DEF StorageInv, OrderInv
    <2>2. \A k \in Key : slots'[k].dependencies \subseteq slots[k].dependencies
      BY <1>3
    <2>3. Above(R)'
      BY <1>8, <2>1, <2>2 DEF Above
    <2> QED
      BY <2>3 DEF OrderInv
  <1>15. FreeInv'
    <2>1. \A t \in Types, i \in Index : slots'[<<t, i>>].state = slots[<<t, i>>].state
      <3>1. \A t \in Types, i \in Index : <<t, i>> \in Key
        BY DEF Key
      <3> QED
        BY <1>4, <3>1
    <2>2. size' = size /\ free' = free
      OBVIOUS
    <2> QED
      BY <2>1, <2>2 DEF StorageInv, FreeInv
  <1>16. CacheInv'
    <2>1. ASSUME NEW t \in Types, NEW p \in Paths, NEW c \in Handle, cache[<<t, p>>] = c
          PROVE  c \in Live(slots') /\ c.type = t /\ slots'[KeyOf(c)].path = p
      <3>1. c \in Live(slots) /\ c.type = t /\ slots[KeyOf(c)].path = p
        BY <2>1 DEF StorageInv, CacheInv
      <3> QED
        BY <1>4, <1>6, <1>7, <3>1
    <2>2. cache' = cache
      OBVIOUS
    <2>3. \A i \in DOMAIN unload' : unload'[i].at = "enter"
      BY <1>8
    <2>4. ASSUME NEW t \in Types, NEW p \in Paths, NEW c \in Handle, cache'[<<t, p>>] = c
          PROVE  c \in Live(slots') /\ c.type = t /\ slots'[KeyOf(c)].path = p
      BY <2>1, <2>2, <2>4
    <2> QED
      BY <2>3, <2>4 DEF CacheInv
  <1>17. GenerationInv'
    <2>1. \A k \in Key : /\ slots[k].generation <= MaxGeneration + 1
                         /\ slots[k].state # "EMPTY" => slots[k].generation <= MaxGeneration
      BY DEF StorageInv, GenerationInv
    <2> QED
      BY <1>4, <2>1 DEF GenerationInv
  <1> QED
    BY <1>11, <1>12, <1>13, <1>14, <1>15, <1>16, <1>17 DEF StorageInv

\* Once slots are destroyed behind the graph, only the calls and the order of
\* the dependencies are kept.
LEMMA StorageEnding ==
    ASSUME Ending', UnloadInv', OrderInv'
    PROVE  StorageInv'
  BY DEF StorageInv, EmptyInv, GraphInv, FreeInv, CacheInv, GenerationInv

LEMMA StorageDestroyAllNext ==
    ASSUME TypeOK, TypeOK', StorageInv, DestroyAllNext
    PROVE  StorageInv'
  <1>1. PICK R \in SUBSET (Key \X Key) : Above(R)
    BY DEF StorageInv, OrderInv
  <1>2. Ending /\ unload = <<>> /\ DOMAIN unload = {}
    <2>1. InMain("destroyAll")
      BY DEF DestroyAllNext
    <2> QED
      BY <2>1 DEF Ending, InMain
  <1>3. Ending'
    BY TypeParts DEF Ending, DestroyAllNext, InMain, Main, Idle
  <1>4. CASE UNCHANGED <<slots, unload>>
    <2>1. UnloadInv'
      BY <1>2, <1>4 DEF UnloadInv
    <2>2. Above(R)'
      BY <1>1, <1>4 DEF Above
    <2> QED
      BY <1>3, <2>1, <2>2, StorageEnding DEF OrderInv
  <1>5. CASE /\ main.index \in 1..size[main.type]
             /\ unload' = <<DestroyCall(HandleAt(slots, <<main.type, main.index>>), FALSE)>>
             /\ UNCHANGED <<slots, size, free, cache>>
    <2> DEFINE k == <<main.type, main.index>>
    <2>1. k \in Key
      <3>1. main.type \in Types
        BY TypeParts DEF Main
      <3> QED
        BY <1>5, <3>1, TypeParts, StorageAssumption DEF Key, Index
    <2>2. slots \in [Key -> Slot] /\ slots[k].generation \in Nat
      BY <2>1, TypeParts DEF Slot
    <2>3. H(k) \in Handle /\ KeyOf(H(k)) = k
      BY <2>1, <2>2, HandleFacts DEF H
    <2>4. Resolves(slots, H(k))
      BY <2>2, <2>3, ResolvesFacts DEF H
    <2> HIDE DEF k
    <2>5. DOMAIN unload' = {1} /\ unload'[1].handle = H(k) /\ unload'[1].rest = {}
      BY <1>5 DEF DestroyCall, k, H
    <2>6. Resolves(slots', H(k))
      BY <1>5, <2>4
    <2>7. UnloadInv'
      BY <1>3, <2>5, <2>6 DEF UnloadInv
    <2>8. Above(R)'
      BY <1>1, <1>5, <2>5 DEF Above
    <2> QED
      BY <1>3, <2>7, <2>8, StorageEnding DEF OrderInv
  <1>6. CASE slots' = [k \in Key |-> EmptySlot(1)] /\ unload' = unload
    <2>1. UnloadInv'
      BY <1>2, <1>6 DEF UnloadInv
    <2>2. \A k \in Key : slots'[k].dependencies = {}
      BY <1>6 DEF EmptySlot
    <2>3. Above(R)'
      BY <1>1, <1>2, <1>6, <2>2 DEF Above
    <2> QED
      BY <1>3, <2>1, <2>3, StorageEnding DEF OrderInv
  <1> QED
    BY <1>4, <1>5, <1>6 DEF DestroyAllNext

-----------------------------------------------------------------------------
(* The inductive invariant: jobs, loading assets and callbacks              *)

\* The assets that jobs are about, and those whose job is not finished.
HandlesOf(q) == {q[i].handle : i \in DOMAIN q}
OpenOf(q) == {q[i].handle : i \in {n \in DOMAIN q : ~Terminal(q[n])}}
Queued == HandlesOf(jobs)
Open == OpenOf(jobs)

\* One job for an asset.
GoodJobs(q) ==
    /\ \A i, j \in DOMAIN q : q[i].handle = q[j].handle => i = j
    /\ \A i \in DOMAIN q : q[i].optional = {}

Unloading == {unload[i].handle : i \in DOMAIN unload}

\* The assets whose loader is being destroyed, by the callbacks cs.
DtorsOf(cs) == {cs[i].handle : i \in {n \in DOMAIN cs : cs[n].op = "dtor"}}
Dtors == DtorsOf(calls)

Gone(h) == h.generation < slots[KeyOf(h)].generation
Known(h) == Gone(h) \/ h \in Live(slots)

JobInv ==
    /\ GoodJobs(jobs)
    /\ ~Ending =>
         /\ \A h \in Queued : Known(h)
         /\ \A h \in Open :
              /\ h \in Live(slots) /\ h \notin Unloading
              /\ slots[KeyOf(h)].state \in InProgress \cup {"PENDING_DELETE"}
              /\ slots[KeyOf(h)].dependencies = {} /\ slots[KeyOf(h)].dependents = {}

PinInv == \A k \in Key : slots[k].state = "PENDING_DELETE" => slots[k].pin = 0

StateInv ==
    ~Ending =>
      \A h \in Live(slots) :
        /\ slots[KeyOf(h)].state \in InProgress => h \in Open
        /\ slots[KeyOf(h)].retiring => h \in Dtors
        /\ \/ slots[KeyOf(h)].pin > 0 \/ slots[KeyOf(h)].dependents # {}
           \/ h \in Queued \/ h \in Unloading

MainInv ==
    /\ calls # <<>> => main.op \in {"idle", "process", "drain", "cancelType", "cancelAll"}
    /\ main.op = "destroyType" => \A h \in Queued : h.type # main.type

FrameOK(c) ==
    /\ ~c.dangling /\ Known(c.handle)
    /\ c.op \in {"ctor", "step"} => c.handle \in Open
    /\ c.op = "dtor" => /\ c.handle \in Queued /\ (c.erase => c.handle \notin Open)
                        /\ (~c.found => Gone(c.handle))
    /\ c.op = "build" /\ ~c.settled => c.handle \in Queued

\* Callbacks about one asset: of a build request and of its job.
Pairs(cs) ==
    \A i, j \in DOMAIN cs :
      i < j /\ cs[i].handle = cs[j].handle =>
        /\ cs[i].op = "build" /\ cs[j].op # "build"
        /\ cs[j].op = "dtor" => cs[i].settled

CallInv == (\A i \in DOMAIN calls : FrameOK(calls[i])) /\ Pairs(calls)

AssetInv == StorageInv /\ JobInv /\ PinInv /\ StateInv /\ MainInv /\ CallInv

-----------------------------------------------------------------------------
(* What becomes of the queue                                                *)

LEMMA JobsEdited ==
    ASSUME NEW q \in Seq(Job), GoodJobs(q), NEW i \in DOMAIN q, NEW f \in Job,
           f.handle = q[i].handle, f.optional = {}
    PROVE  LET r == [q EXCEPT ![i] = f]
           IN  /\ GoodJobs(r) /\ HandlesOf(r) = HandlesOf(q)
               /\ Terminal(f) => OpenOf(r) = OpenOf(q) \ {f.handle}
               /\ ~Terminal(f) => OpenOf(r) = OpenOf(q) \cup {f.handle}
  <1>1. PICK r : r = [q EXCEPT ![i] = f]
    OBVIOUS
  <1>2. DOMAIN r = DOMAIN q /\ r[i] = f /\ \A m \in DOMAIN q : m # i => r[m] = q[m]
    BY <1>1
  <1>3. \A m \in DOMAIN q : r[m].handle = q[m].handle
    BY <1>2
  <1>4. GoodJobs(r)
    BY <1>2, <1>3 DEF GoodJobs
  <1>5. HandlesOf(r) = HandlesOf(q)
    BY <1>2, <1>3 DEF HandlesOf
  <1>6. \A m \in DOMAIN q : q[m].handle = f.handle => m = i
    BY DEF GoodJobs
  <1>7. Terminal(f) => OpenOf(r) = OpenOf(q) \ {f.handle}
    BY <1>2, <1>3, <1>6 DEF OpenOf
  <1>8. ~Terminal(f) => OpenOf(r) = OpenOf(q) \cup {f.handle}
    BY <1>2, <1>3, <1>6 DEF OpenOf
  <1> QED
    BY <1>1, <1>4, <1>5, <1>7, <1>8

LEMMA JobsErased ==
    ASSUME NEW q \in Seq(Job), GoodJobs(q), NEW i \in DOMAIN q
    PROVE  LET r == RemoveAt(q, i)
           IN  /\ r \in Seq(Job) /\ GoodJobs(r)
               /\ HandlesOf(r) = HandlesOf(q) \ {q[i].handle}
               /\ OpenOf(r) = OpenOf(q) \ {q[i].handle}
  <1>1. PICK r \in Seq(Job) : r = RemoveAt(q, i)
    BY RemoveFacts
  <1>2. /\ \A m \in DOMAIN r : \E n \in DOMAIN q : n # i /\ r[m] = q[n]
        /\ \A n \in DOMAIN q : n # i => \E m \in DOMAIN r : r[m] = q[n]
        /\ \A m, l \in DOMAIN r : m # l =>
             \E n, o \in DOMAIN q : n # o /\ r[m] = q[n] /\ r[l] = q[o]
    BY <1>1, RemoveFacts
  <1>3. \A n \in DOMAIN q : n # i => q[n].handle # q[i].handle
    BY DEF GoodJobs
  <1>4. GoodJobs(r)
    <2>1. ASSUME NEW m \in DOMAIN r, NEW l \in DOMAIN r, r[m].handle = r[l].handle, m # l
          PROVE  FALSE
      <3>1. PICK n \in DOMAIN q, o \in DOMAIN q : n # o /\ r[m] = q[n] /\ r[l] = q[o]
        BY <1>2, <2>1
      <3> QED
        BY <2>1, <3>1 DEF GoodJobs
    <2>2. \A m \in DOMAIN r : r[m].optional = {}
      BY <1>2 DEF GoodJobs
    <2> QED
      BY <2>1, <2>2 DEF GoodJobs
  <1>5. HandlesOf(r) = HandlesOf(q) \ {q[i].handle}
    <2>1. ASSUME NEW h \in HandlesOf(r) PROVE h \in HandlesOf(q) /\ h # q[i].handle
      BY <1>2, <1>3, <2>1 DEF HandlesOf
    <2>2. ASSUME NEW h \in HandlesOf(q), h # q[i].handle PROVE h \in HandlesOf(r)
      <3>1. PICK n \in DOMAIN q : h = q[n].handle
        BY DEF HandlesOf
      <3>2. PICK m \in DOMAIN r : r[m] = q[n]
        BY <1>2, <2>2, <3>1
      <3> QED
        BY <3>1, <3>2 DEF HandlesOf
    <2> QED
      BY <2>1, <2>2
  <1>6. OpenOf(r) = OpenOf(q) \ {q[i].handle}
    <2>1. ASSUME NEW h \in OpenOf(r) PROVE h \in OpenOf(q) /\ h # q[i].handle
      <3>1. PICK m \in DOMAIN r : ~Terminal(r[m]) /\ h = r[m].handle
        BY DEF OpenOf
      <3>2. PICK n \in DOMAIN q : n # i /\ r[m] = q[n]
        BY <1>2
      <3> QED
        BY <1>3, <3>1, <3>2 DEF OpenOf
    <2>2. ASSUME NEW h \in OpenOf(q), h # q[i].handle PROVE h \in OpenOf(r)
      <3>1. PICK n \in DOMAIN q : ~Terminal(q[n]) /\ h = q[n].handle
        BY DEF OpenOf
      <3>2. PICK m \in DOMAIN r : r[m] = q[n]
        BY <1>2, <2>2, <3>1
      <3> QED
        BY <3>1, <3>2 DEF OpenOf
    <2> QED
      BY <2>1, <2>2
  <1> QED
    BY <1>1, <1>4, <1>5, <1>6

LEMMA JobsAdded ==
    ASSUME NEW q \in Seq(Job), GoodJobs(q), NEW f \in Job,
           f.handle \notin HandlesOf(q), f.optional = {}
    PROVE  LET r == Append(q, f)
           IN  /\ GoodJobs(r) /\ HandlesOf(r) = HandlesOf(q) \cup {f.handle}
               /\ Terminal(f) => OpenOf(r) = OpenOf(q)
               /\ ~Terminal(f) => OpenOf(r) = OpenOf(q) \cup {f.handle}
  <1>1. PICK r \in Seq(Job) : r = Append(q, f)
    BY AppendFacts
  <1>2. /\ \A m \in DOMAIN q : m \in DOMAIN r /\ m # Len(r) /\ r[m] = q[m]
        /\ Len(r) \in DOMAIN r /\ r[Len(r)] = f
        /\ \A m \in DOMAIN r : m # Len(r) => m \in DOMAIN q
    BY <1>1, AppendFacts
  <1>3. \A m \in DOMAIN q : q[m].handle # f.handle
    BY DEF HandlesOf
  <1>4. GoodJobs(r)
    BY <1>2, <1>3 DEF GoodJobs
  <1>5. HandlesOf(r) = HandlesOf(q) \cup {f.handle}
    BY <1>2 DEF HandlesOf
  <1>6. Terminal(f) => OpenOf(r) = OpenOf(q)
    BY <1>2 DEF OpenOf
  <1>7. ~Terminal(f) => OpenOf(r) = OpenOf(q) \cup {f.handle}
    BY <1>2 DEF OpenOf
  <1> QED
    BY <1>1, <1>4, <1>5, <1>6, <1>7

-----------------------------------------------------------------------------
(* Steps that work on one asset                                             *)

\* Q and R agree on the other assets.
SameBut(Q, R, x) == \A h : h # x => (h \in R <=> h \in Q)

\* The step may do anything to x, but the other assets stay as the invariant
\* wants them, ...
KeepsOthers(x) ==
    /\ \A k \in Key : /\ slots'[k].generation = slots[k].generation
                      /\ slots'[k].state = "EMPTY" <=> slots[k].state = "EMPTY"
    /\ \A h \in Live(slots) : h # x =>
         /\ slots'[KeyOf(h)].state = slots[KeyOf(h)].state
         /\ slots'[KeyOf(h)].retiring => slots[KeyOf(h)].retiring
         /\ slots[KeyOf(h)].state = "PENDING_DELETE" =>
              slots'[KeyOf(h)].pin = slots[KeyOf(h)].pin
         /\ \/ slots'[KeyOf(h)].pin > 0 \/ slots'[KeyOf(h)].dependents # {}
            \/ h \in Queued' \/ h \in Unloading'
         /\ h \in Open => /\ h \notin Unloading'
                          /\ slots'[KeyOf(h)].dependencies = {}
                          /\ slots'[KeyOf(h)].dependents = {}
    /\ SameBut(Queued, Queued', x) /\ SameBut(Open, Open', x)
    /\ \A h \in Dtors : h # x => h \in Dtors'

\* ... and x too.
LeavesWell(x) ==
    /\ x \in Queued' => Known(x)
    /\ x \in Open' =>
         /\ x \in Live(slots) /\ x \notin Unloading'
         /\ slots'[KeyOf(x)].state \in InProgress \cup {"PENDING_DELETE"}
         /\ slots'[KeyOf(x)].dependencies = {} /\ slots'[KeyOf(x)].dependents = {}
    /\ x \in Live(slots) =>
         /\ slots'[KeyOf(x)].state = "PENDING_DELETE" => slots'[KeyOf(x)].pin = 0
         /\ slots'[KeyOf(x)].state \in InProgress => x \in Open'
         /\ slots'[KeyOf(x)].retiring => x \in Dtors'
         /\ \/ slots'[KeyOf(x)].pin > 0 \/ slots'[KeyOf(x)].dependents # {}
            \/ x \in Queued' \/ x \in Unloading'

\* A step that does nothing to the others, and nothing to the graph.
WorksOn(x) ==
    /\ SameGraph(slots, slots')
    /\ \A k \in Key : slots'[k].state = "EMPTY" <=> slots[k].state = "EMPTY"
    /\ \A h \in Live(slots) : h # x =>
         /\ slots'[KeyOf(h)].state = slots[KeyOf(h)].state
         /\ slots'[KeyOf(h)].pin = slots[KeyOf(h)].pin
         /\ slots'[KeyOf(h)].retiring => slots[KeyOf(h)].retiring
    /\ SameBut(Queued, Queued', x) /\ SameBut(Open, Open', x)
    /\ SameBut(Dtors, Dtors', x) /\ SameBut(Unloading, Unloading', x)

\* The same assets exist after a step that changes no generation.
LEMMA SameLive ==
    ASSUME TypeOK, TypeOK',
           \A k \in Key : /\ slots'[k].generation = slots[k].generation
                          /\ slots'[k].state = "EMPTY" <=> slots[k].state = "EMPTY"
    PROVE  /\ \A h : h \in Live(slots)' <=> h \in Live(slots)
           /\ \A h \in Handle : Known(h)' <=> Known(h)
           /\ \A h \in Handle : Gone(h)' <=> Gone(h)
  <1>1. slots \in [Key -> Slot] /\ slots' \in [Key -> Slot]
    BY TypeParts, TypePrimes
  <1>2. \A h \in Handle : KeyOf(h) \in Key /\ (Resolves(slots', h) <=> Resolves(slots, h))
    BY KeyFacts DEF Resolves
  <1>3. \A h : h \in Live(slots') <=> h \in Live(slots)
    BY <1>1, <1>2, LiveFacts
  <1>4. \A h \in Handle : Gone(h)' <=> Gone(h)
    BY <1>2 DEF Gone
  <1> QED
    BY <1>3, <1>4 DEF Known

LEMMA HandlesTypes ==
    ASSUME NEW q \in Seq(Job)
    PROVE  HandlesOf(q) \subseteq Handle /\ OpenOf(q) \subseteq HandlesOf(q)
  <1>1. \A i \in DOMAIN q : q[i] \in Job
    OBVIOUS
  <1>2. \A i \in DOMAIN q : q[i].handle \in Handle
    BY <1>1 DEF Job
  <1> QED
    BY <1>2 DEF HandlesOf, OpenOf

LEMMA QueueTypes ==
    ASSUME TypeOK
    PROVE  /\ Queued \subseteq Handle /\ Open \subseteq Queued
           /\ \A i \in DOMAIN calls : calls[i] \in Call /\ calls[i].handle \in Handle
  <1>1. Queued \subseteq Handle /\ Open \subseteq Queued
    BY TypeParts, HandlesTypes DEF Queued, Open
  <1>2. calls \in Seq(Call)
    BY TypeParts
  <1>3. \A i \in DOMAIN calls : calls[i] \in Call
    BY <1>2
  <1>4. \A i \in DOMAIN calls : calls[i].handle \in Handle
    BY <1>3 DEF Call
  <1> QED
    BY <1>1, <1>3, <1>4

LEMMA JobsStep ==
    ASSUME TypeOK, TypeOK', JobInv, PinInv, StateInv, ~Ending, GoodJobs(jobs'),
           NEW x, KeepsOthers(x), LeavesWell(x)
    PROVE  JobInv' /\ PinInv' /\ StateInv'
  <1>1. slots \in [Key -> Slot] /\ slots' \in [Key -> Slot]
    BY TypeParts, TypePrimes
  <1>2. /\ \A h : h \in Live(slots)' <=> h \in Live(slots)
        /\ \A h \in Handle : Known(h)' <=> Known(h)
    BY SameLive DEF KeepsOthers
  <1>3. \A h \in Live(slots) : h \in Handle /\ KeyOf(h) \in Key
    BY <1>1, LiveFacts, KeyFacts
  <1>4. Queued' \subseteq Handle
    BY TypePrimes, HandlesTypes DEF Queued
  <1>5. ASSUME NEW h \in Queued' PROVE Known(h)'
    BY <1>2, <1>4, <1>5 DEF KeepsOthers, LeavesWell, SameBut, JobInv
  <1>6. ASSUME NEW h \in Open'
        PROVE  /\ h \in Live(slots)' /\ h \notin Unloading'
               /\ slots'[KeyOf(h)].state \in InProgress \cup {"PENDING_DELETE"}
               /\ slots'[KeyOf(h)].dependencies = {} /\ slots'[KeyOf(h)].dependents = {}
    <2>1. CASE h = x
      BY <1>2, <1>6, <2>1 DEF LeavesWell
    <2>2. CASE h # x
      <3>1. h \in Open /\ h \in Live(slots)
        BY <1>6, <2>2 DEF KeepsOthers, SameBut, JobInv
      <3>2. slots[KeyOf(h)].state \in InProgress \cup {"PENDING_DELETE"}
        BY <3>1 DEF JobInv
      <3> QED
        BY <1>2, <2>2, <3>1, <3>2 DEF KeepsOthers
    <2> QED
      BY <2>1, <2>2
  <1>7. JobInv'
    BY <1>5, <1>6 DEF JobInv
  <1>8. ASSUME NEW k \in Key, slots'[k].state = "PENDING_DELETE" PROVE slots'[k].pin = 0
    <2>1. H(k) \in Live(slots) /\ KeyOf(H(k)) = k
      <3>1. slots[k].state # "EMPTY" /\ slots[k].generation \in Nat
        BY <1>1, <1>8 DEF KeepsOthers, Slot
      <3> QED
        BY <3>1, HandleFacts DEF H, Live
    <2>2. CASE H(k) = x
      BY <1>8, <2>1, <2>2 DEF LeavesWell
    <2>3. CASE H(k) # x
      BY <1>8, <2>1, <2>3 DEF KeepsOthers, PinInv
    <2> QED
      BY <2>2, <2>3
  <1>9. ASSUME NEW h \in Live(slots)'
        PROVE  /\ slots'[KeyOf(h)].state \in InProgress => h \in Open'
               /\ slots'[KeyOf(h)].retiring => h \in Dtors'
               /\ \/ slots'[KeyOf(h)].pin > 0 \/ slots'[KeyOf(h)].dependents # {}
                  \/ h \in Queued' \/ h \in Unloading'
    <2>0. h \in Live(slots) /\ KeyOf(h) \in Key
      BY <1>2, <1>3
    <2>1. CASE h = x
      BY <2>0, <2>1 DEF LeavesWell
    <2>2. CASE h # x
      <3>1. /\ slots[KeyOf(h)].state \in InProgress => h \in Open
            /\ slots[KeyOf(h)].retiring => h \in Dtors
        BY <2>0 DEF StateInv
      <3>2. /\ slots'[KeyOf(h)].state = slots[KeyOf(h)].state
            /\ slots'[KeyOf(h)].retiring => slots[KeyOf(h)].retiring
            /\ \/ slots'[KeyOf(h)].pin > 0 \/ slots'[KeyOf(h)].dependents # {}
               \/ h \in Queued' \/ h \in Unloading'
        BY <2>0, <2>2 DEF KeepsOthers
      <3>3. (h \in Open' <=> h \in Open) /\ (h \in Dtors => h \in Dtors')
        BY <2>2 DEF KeepsOthers, SameBut
      <3> QED
        BY <3>1, <3>2, <3>3
    <2> QED
      BY <2>1, <2>2
  <1> QED
    BY <1>7, <1>8, <1>9 DEF PinInv, StateInv

LEMMA WorksKeeps ==
    ASSUME TypeOK, TypeOK', JobInv, StateInv, ~Ending, NEW x, WorksOn(x)
    PROVE  KeepsOthers(x)
  <1>1. \A h \in Live(slots) : h \in Handle /\ KeyOf(h) \in Key
    BY TypeParts, LiveHandle
  <1>2. ASSUME NEW h \in Live(slots), h # x
        PROVE  /\ slots'[KeyOf(h)].state = slots[KeyOf(h)].state
               /\ slots'[KeyOf(h)].retiring => slots[KeyOf(h)].retiring
               /\ slots'[KeyOf(h)].pin = slots[KeyOf(h)].pin
               /\ \/ slots'[KeyOf(h)].pin > 0 \/ slots'[KeyOf(h)].dependents # {}
                  \/ h \in Queued' \/ h \in Unloading'
               /\ h \in Open => /\ h \notin Unloading'
                                /\ slots'[KeyOf(h)].dependencies = {}
                                /\ slots'[KeyOf(h)].dependents = {}
    <2>1. /\ slots'[KeyOf(h)].state = slots[KeyOf(h)].state
          /\ slots'[KeyOf(h)].pin = slots[KeyOf(h)].pin
          /\ slots'[KeyOf(h)].retiring => slots[KeyOf(h)].retiring
      BY <1>2 DEF WorksOn
    <2>2. /\ slots'[KeyOf(h)].dependencies = slots[KeyOf(h)].dependencies
          /\ slots'[KeyOf(h)].dependents = slots[KeyOf(h)].dependents
      BY <1>1 DEF WorksOn, SameGraph
    <2>3. (h \in Queued' <=> h \in Queued) /\ (h \in Unloading' <=> h \in Unloading)
      BY <1>2 DEF WorksOn, SameBut
    <2>4. \/ slots[KeyOf(h)].pin > 0 \/ slots[KeyOf(h)].dependents # {}
          \/ h \in Queued \/ h \in Unloading
      BY DEF StateInv
    <2>5. h \in Open => /\ h \notin Unloading
                        /\ slots[KeyOf(h)].dependencies = {} /\ slots[KeyOf(h)].dependents = {}
      BY DEF JobInv
    <2> QED
      BY <2>1, <2>2, <2>3, <2>4, <2>5
  <1> QED
    BY <1>2 DEF KeepsOthers, WorksOn, SameGraph, SameBut

\* The callbacks about other assets, and the build requests for x that need
\* not find its job any more, are in order after the step.
LEMMA FramesStep ==
    ASSUME TypeOK, TypeOK', NEW x, KeepsOthers(x), NEW c \in Call, FrameOK(c),
           c.handle # x \/ (c.op = "build" /\ (c.settled \/ x \in Queued'))
    PROVE  FrameOK(c)'
  <1>1. c.handle \in Handle
    BY DEF Call
  <1>2. (Known(c.handle)' <=> Known(c.handle)) /\ (Gone(c.handle)' <=> Gone(c.handle))
    BY <1>1, SameLive DEF KeepsOthers
  <1>3. CASE c.handle # x
    <2>1. (c.handle \in Queued' <=> c.handle \in Queued) /\ (c.handle \in Open' <=> c.handle \in Open)
      BY <1>3 DEF KeepsOthers, SameBut
    <2> QED
      BY <1>2, <2>1 DEF FrameOK
  <1>4. CASE c.handle = x /\ c.op = "build" /\ (c.settled \/ x \in Queued')
    BY <1>2, <1>4 DEF FrameOK
  <1> QED
    BY <1>3, <1>4

-----------------------------------------------------------------------------
(* The stack of callbacks                                                   *)

In(c, cs) == \E i \in DOMAIN cs : cs[i] = c

\* A callback c on top of cs makes no pair that should not be.
Fits(c, cs) ==
    \A d : In(d, cs) /\ d.handle = c.handle =>
      d.op = "build" /\ c.op # "build" /\ (c.op = "dtor" => d.settled)

LEMMA Pushed ==
    ASSUME NEW cs \in Seq(Call), NEW c \in Call, Pairs(cs), Fits(c, cs)
    PROVE  LET r == Append(cs, c)
           IN  /\ Pairs(r)
               /\ \A h : h \in DtorsOf(r) <=>
                    \/ h \in DtorsOf(cs)
                    \/ c.op = "dtor" /\ h = c.handle
               /\ \A d : In(d, r) => d = c \/ In(d, cs)
  <1>1. PICK r \in Seq(Call) : r = Append(cs, c)
    BY AppendFacts
  <1>2. /\ \A m \in DOMAIN cs : m \in DOMAIN r /\ m < Len(r) /\ r[m] = cs[m]
        /\ Len(r) \in DOMAIN r /\ r[Len(r)] = c
        /\ \A m \in DOMAIN r : m # Len(r) => m \in DOMAIN cs
    BY <1>1, AppendFacts
  <1>3. \A d : In(d, r) => d = c \/ In(d, cs)
    BY <1>2 DEF In
  <1>4. ASSUME NEW h
        PROVE  h \in DtorsOf(r) <=> \/ h \in DtorsOf(cs)
                                    \/ c.op = "dtor" /\ h = c.handle
    BY <1>2 DEF DtorsOf
  <1>5. ASSUME NEW i \in DOMAIN r, NEW j \in DOMAIN r, i < j, r[i].handle = r[j].handle
        PROVE  r[i].op = "build" /\ r[j].op # "build" /\ (r[j].op = "dtor" => r[i].settled)
    <2>1. i \in DOMAIN cs
      <3>1. i \in 1..Len(r) /\ j \in 1..Len(r) /\ Len(r) \in Nat
        OBVIOUS
      <3>2. i # Len(r)
        BY <1>5, <3>1
      <3> QED
        BY <1>2, <3>2
    <2>2. CASE j = Len(r)
      <3>1. In(cs[i], cs)
        BY <2>1 DEF In
      <3> QED
        BY <1>2, <1>5, <2>1, <2>2, <3>1 DEF Fits
    <2>3. CASE j # Len(r)
      BY <1>2, <1>5, <2>1, <2>3 DEF Pairs
    <2> QED
      BY <2>2, <2>3
  <1>6. Pairs(r)
    BY <1>5 DEF Pairs
  <1> QED
    BY <1>1, <1>3, <1>4, <1>6

LEMMA Popped ==
    ASSUME TypeOK, CallInv, calls # <<>>
    PROVE  /\ Below \in Seq(Call) /\ Top \in Call /\ Top.handle \in Handle /\ FrameOK(Top)
           /\ Pairs(Below) /\ Fits(Top, Below)
           /\ \A h : h \in Dtors <=> \/ h \in DtorsOf(Below)
                                     \/ Top.op = "dtor" /\ h = Top.handle
           /\ \A d : In(d, Below) => d \in Call /\ FrameOK(d)
  <1>1. calls \in Seq(Call)
    BY TypeParts
  <1>2. /\ Below \in Seq(Call) /\ Top \in Call /\ Top.handle \in Handle
    BY <1>1, TopTypes
  <1>3. /\ Len(calls) \in DOMAIN calls /\ Top = calls[Len(calls)]
        /\ \A m \in DOMAIN Below : m \in DOMAIN calls /\ m < Len(calls) /\ Below[m] = calls[m]
        /\ \A m \in DOMAIN calls : m # Len(calls) => m \in DOMAIN Below
    BY <1>1, TopFacts DEF Top, Below
  <1>4. FrameOK(Top)
    BY <1>3 DEF CallInv
  <1>5. \A d : In(d, Below) => d \in Call /\ FrameOK(d)
    <2>1. ASSUME NEW d, In(d, Below) PROVE d \in Call /\ FrameOK(d)
      <3>1. PICK m \in DOMAIN Below : Below[m] = d
        BY <2>1 DEF In
      <3>2. m \in DOMAIN calls /\ d = calls[m]
        BY <1>3, <3>1
      <3> QED
        BY <1>1, <3>2 DEF CallInv
    <2> QED
      BY <2>1
  <1>6. Pairs(Below) /\ Fits(Top, Below)
    BY <1>3 DEF CallInv, Pairs, Fits, In
  <1>7. ASSUME NEW h
        PROVE  h \in Dtors <=> \/ h \in DtorsOf(Below)
                               \/ Top.op = "dtor" /\ h = Top.handle
    BY <1>3 DEF Dtors, DtorsOf
  <1> QED
    BY <1>2, <1>4, <1>5, <1>6, <1>7

LEMMA CallsRight ==
    ASSUME TypeOK', \A c \in Call : In(c, calls') => FrameOK(c)', Pairs(calls')
    PROVE  CallInv'
  <1>1. ASSUME NEW i \in DOMAIN calls' PROVE FrameOK(calls[i])'
    <2>1. calls' \in Seq(Call)
      BY TypePrimes
    <2>2. PICK c \in Call : c = calls'[i]
      BY <2>1
    <2>3. FrameOK(c)'
      BY <2>2 DEF In
    <2> QED
      BY <2>2, <2>3 DEF FrameOK
  <1>2. Pairs(calls)'
    BY DEF Pairs
  <1> QED
    BY <1>1, <1>2 DEF CallInv

LEMMA CallsStep ==
    ASSUME TypeOK, TypeOK', NEW x, KeepsOthers(x), NEW cs \in Seq(Call), Pairs(cs),
           \A d : In(d, cs) => /\ d \in Call /\ FrameOK(d)
                               /\ d.handle = x => d.op = "build" /\ (d.settled \/ x \in Queued'),
           \/ calls' = cs
           \/ \E c \in Call : Fits(c, cs) /\ calls' = Append(cs, c) /\ FrameOK(c)'
    PROVE  CallInv'
  <1>1. \A d \in Call : In(d, cs) => FrameOK(d)'
    <2>1. ASSUME NEW d \in Call, In(d, cs) PROVE FrameOK(d)'
      <3>1. FrameOK(d) /\ (d.handle # x \/ (d.op = "build" /\ (d.settled \/ x \in Queued')))
        BY <2>1
      <3> QED
        BY <3>1, FramesStep
    <2> QED
      BY <2>1
  <1>2. CASE calls' = cs
    <2>1. Pairs(calls') /\ \A d \in Call : In(d, calls') => FrameOK(d)'
      BY <1>1, <1>2
    <2> QED
      BY <2>1, CallsRight
  <1>3. CASE \E c \in Call : Fits(c, cs) /\ calls' = Append(cs, c) /\ FrameOK(c)'
    <2>1. PICK c \in Call : Fits(c, cs) /\ calls' = Append(cs, c) /\ FrameOK(c)'
      BY <1>3
    <2>2. Pairs(calls') /\ \A d : In(d, calls') => d = c \/ In(d, cs)
      BY <2>1, Pushed
    <2>3. \A d \in Call : In(d, calls') => FrameOK(d)'
      BY <1>1, <2>1, <2>2
    <2> QED
      BY <2>2, <2>3, CallsRight
  <1> QED
    BY <1>2, <1>3

-----------------------------------------------------------------------------
(* A load goes on or ends                                                   *)

\* The slot of x is given the state st.
Moves(x, st) ==
    /\ SameGraph(slots, slots')
    /\ \A k \in Key : /\ slots'[k].pin = slots[k].pin
                      /\ (slots'[k].retiring <=> slots[k].retiring)
                      /\ slots'[k].state = IF k = KeyOf(x) THEN st ELSE slots[k].state

LEMMA MoveStep ==
    ASSUME TypeOK, TypeOK', JobInv, PinInv, StateInv, ~Ending, unload' = unload,
           NEW x \in Open, NEW st, Moves(x, st),
           \A h : h \in Queued' <=> h \in Queued,
           \A h : h \in Dtors' <=> h \in Dtors, x \notin Dtors,
           \/ /\ st \in InProgress \/ st = slots[KeyOf(x)].state
              /\ \A h : h \in Open' <=> h \in Open
           \/ /\ st \in {"FAILED", "LOADED"}
              /\ \A h : h \in Open' <=> h \in Open /\ h # x
    PROVE  /\ WorksOn(x) /\ LeavesWell(x)
           /\ \A k \in Key : slots'[k].state = "EMPTY" <=> slots[k].state = "EMPTY"
  <1>1. slots \in [Key -> Slot] /\ slots' \in [Key -> Slot]
    BY TypeParts, TypePrimes
  <1>2. /\ x \in Live(slots) /\ x \notin Unloading /\ x \in Queued
        /\ slots[KeyOf(x)].state \in InProgress \cup {"PENDING_DELETE"}
        /\ slots[KeyOf(x)].dependencies = {} /\ slots[KeyOf(x)].dependents = {}
        /\ ~slots[KeyOf(x)].retiring
    BY QueueTypes DEF JobInv, StateInv
  <1>3. x \in Handle /\ KeyOf(x) \in Key /\ slots[KeyOf(x)].state # "EMPTY" /\ H(KeyOf(x)) = x
    BY <1>1, <1>2, LiveHandle DEF H
  <1>4. st # "EMPTY"
    BY <1>3 DEF InProgress
  <1>5. \A k \in Key : slots'[k].state = "EMPTY" <=> slots[k].state = "EMPTY"
    BY <1>3, <1>4 DEF Moves
  <1>6. \A h : h \in Unloading' <=> h \in Unloading
    BY DEF Unloading
  <1>7. \A h \in Live(slots) : h # x => KeyOf(h) \in Key /\ KeyOf(h) # KeyOf(x)
    BY <1>1, <1>3, LiveHandle DEF H
  <1>8. WorksOn(x)
    <2>1. ASSUME NEW h \in Live(slots), h # x
          PROVE  /\ slots'[KeyOf(h)].state = slots[KeyOf(h)].state
                 /\ slots'[KeyOf(h)].pin = slots[KeyOf(h)].pin
                 /\ (slots'[KeyOf(h)].retiring <=> slots[KeyOf(h)].retiring)
      BY <1>7, <2>1 DEF Moves
    <2>2. SameBut(Queued, Queued', x) /\ SameBut(Open, Open', x)
          /\ SameBut(Dtors, Dtors', x) /\ SameBut(Unloading, Unloading', x)
      BY <1>6 DEF SameBut
    <2>3. SameGraph(slots, slots')
      BY DEF Moves
    <2> QED
      BY <1>5, <2>1, <2>2, <2>3 DEF WorksOn
  <1>9. slots'[KeyOf(x)].state = st /\ slots'[KeyOf(x)].pin = slots[KeyOf(x)].pin
        /\ ~slots'[KeyOf(x)].retiring
    BY <1>2, <1>3 DEF Moves
  <1>10. st = "PENDING_DELETE" => slots[KeyOf(x)].state = "PENDING_DELETE"
    BY DEF InProgress
  <1>11. st = "PENDING_DELETE" => slots[KeyOf(x)].pin = 0
    BY <1>3, <1>10 DEF PinInv
  <1>12. Known(x) /\ x \in Queued'
    BY <1>2 DEF Known
  <1>13. x \in Open' => st \in InProgress \cup {"PENDING_DELETE"}
    BY <1>2 DEF InProgress
  <1>14. st \in InProgress => x \in Open'
    BY DEF InProgress
  <1>15. LeavesWell(x)
    BY <1>2, <1>3, <1>6, <1>9, <1>11, <1>12, <1>13, <1>14 DEF LeavesWell, Moves, SameGraph
  <1> QED
    BY <1>5, <1>8, <1>15

\* The callbacks cs stay, and at most one more runs.
CallsOn(x, cs) ==
    /\ cs \in Seq(Call) /\ Pairs(cs)
    /\ \A d : In(d, cs) => /\ d \in Call /\ FrameOK(d)
                           /\ d.handle = x => d.op = "build" /\ (d.settled \/ x \in Queued')
    /\ \/ calls' = cs
       \/ \E c \in Call : Fits(c, cs) /\ calls' = Append(cs, c) /\ FrameOK(c)'

LEMMA AssetStep ==
    ASSUME TypeOK, TypeOK', AssetInv, ~Ending, UNCHANGED <<size, free, cache>>, Starts,
           GoodJobs(jobs'), NEW x, WorksOn(x), LeavesWell(x), NEW cs, CallsOn(x, cs), MainInv'
    PROVE  AssetInv'
  <1>0. KeepsOthers(x)
    BY WorksKeeps DEF AssetInv
  <1>1. JobInv' /\ PinInv' /\ StateInv'
    BY <1>0, JobsStep DEF AssetInv
  <1>2. CallInv'
    BY <1>0, CallsStep DEF CallsOn
  <1>3. StorageInv'
    BY StorageCalm DEF AssetInv, WorksOn
  <1> QED
    BY <1>1, <1>2, <1>3 DEF AssetInv

\* A callback keeps the loop below it.
LEMMA InsideFacts ==
    ASSUME AssetInv, calls # <<>>, UNCHANGED main
    PROVE  ~Ending /\ MainInv'
  BY DEF AssetInv, MainInv, Ending

LEMMA OpenJob ==
    ASSUME TypeOK, AssetInv, NEW x, NEW i \in JobsOf(x)
    PROVE  /\ i \in DOMAIN jobs /\ jobs[i] \in Job /\ jobs[i].handle = x /\ x \in Handle
           /\ x \in Queued /\ GoodJobs(jobs) /\ jobs \in Seq(Job) /\ jobs[i].optional = {}
           /\ x \in Open <=> ~Terminal(jobs[i])
  <1>1. /\ i \in DOMAIN jobs /\ jobs[i] \in Job /\ jobs[i].handle = x /\ x \in Handle
        /\ jobs \in Seq(Job) /\ GoodJobs(jobs)
    BY TypeParts, JobsOfFacts DEF AssetInv, JobInv
  <1>2. x \in Queued /\ jobs[i].optional = {}
    BY <1>1 DEF Queued, HandlesOf, GoodJobs
  <1>3. x \in Open <=> ~Terminal(jobs[i])
    BY <1>1 DEF Open, OpenOf, GoodJobs
  <1> QED
    BY <1>1, <1>2, <1>3

\* An edit of the job of x that ends it or leaves it open.
LEMMA JobEdited ==
    ASSUME TypeOK, AssetInv, NEW x, NEW i \in JobsOf(x), NEW f \in Job,
           f.handle = x, f.optional = {}, jobs' = [jobs EXCEPT ![i] = f], ~Terminal(jobs[i])
    PROVE  /\ GoodJobs(jobs')
           /\ \A h : h \in Queued' <=> h \in Queued
           /\ Terminal(f) => \A h : h \in Open' <=> h \in Open /\ h # x
           /\ ~Terminal(f) => \A h : h \in Open' <=> h \in Open
  <1>1. /\ i \in DOMAIN jobs /\ jobs[i].handle = x /\ x \in Open
        /\ GoodJobs(jobs) /\ jobs \in Seq(Job)
    BY OpenJob
  <1>2. PICK r : r = [jobs EXCEPT ![i] = f]
    OBVIOUS
  <1>3. LET r2 == [jobs EXCEPT ![i] = f]
        IN  /\ GoodJobs(r2) /\ HandlesOf(r2) = HandlesOf(jobs)
            /\ Terminal(f) => OpenOf(r2) = OpenOf(jobs) \ {f.handle}
            /\ ~Terminal(f) => OpenOf(r2) = OpenOf(jobs) \cup {f.handle}
    BY <1>1, JobsEdited
  <1>4. /\ GoodJobs(jobs') /\ HandlesOf(jobs') = HandlesOf(jobs)
        /\ Terminal(f) => OpenOf(jobs') = OpenOf(jobs) \ {x}
        /\ ~Terminal(f) => OpenOf(jobs') = OpenOf(jobs) \cup {x}
    BY <1>3
  <1> QED
    BY <1>1, <1>4 DEF Queued, Open

LEMMA JobFinished ==
    ASSUME TypeOK, AssetInv, NEW x, NEW i \in JobsOf(x), ~Terminal(jobs[i]),
           NEW o \in {"Loaded", "Failed", "Cancelled"}, jobs' = Finish(i, o)
    PROVE  /\ GoodJobs(jobs')
           /\ \A h : h \in Queued' <=> h \in Queued
           /\ \A h : h \in Open' <=> h \in Open /\ h # x
  <1>1. /\ i \in DOMAIN jobs /\ jobs[i] \in Job /\ jobs[i].handle = x /\ jobs[i].optional = {}
    BY OpenJob
  <1>2. PICK f : f = [jobs[i] EXCEPT !.outcome = o]
    OBVIOUS
  <1>3. f \in Job /\ f.handle = x /\ f.optional = {} /\ Terminal(f)
    BY <1>1, <1>2 DEF Job, Outcomes, Terminal
  <1>4. jobs' = [jobs EXCEPT ![i] = f]
    BY <1>2 DEF Finish
  <1> QED
    BY <1>3, <1>4, JobEdited

LEMMA JobContinued ==
    ASSUME TypeOK, AssetInv, NEW x, NEW i \in JobsOf(x), ~Terminal(jobs[i]),
           NEW p \in Phases,
           \/ jobs' = SetPhase(i, p)
           \/ jobs' = [jobs EXCEPT ![i].phase = p, ![i].built = TRUE]
    PROVE  /\ GoodJobs(jobs')
           /\ \A h : h \in Queued' <=> h \in Queued
           /\ \A h : h \in Open' <=> h \in Open
  <1>1. /\ i \in DOMAIN jobs /\ jobs[i] \in Job /\ jobs[i].handle = x /\ jobs[i].optional = {}
    BY OpenJob
  <1>2. CASE jobs' = SetPhase(i, p)
    <2>1. PICK f : f = [jobs[i] EXCEPT !.phase = p]
      OBVIOUS
    <2>2. f \in Job /\ f.handle = x /\ f.optional = {} /\ ~Terminal(f)
      BY <1>1, <2>1 DEF Job, Terminal
    <2>3. jobs' = [jobs EXCEPT ![i] = f]
      BY <1>2, <2>1 DEF SetPhase
    <2> QED
      BY <2>2, <2>3, JobEdited
  <1>3. CASE jobs' = [jobs EXCEPT ![i].phase = p, ![i].built = TRUE]
    <2>1. PICK f : f = [jobs[i] EXCEPT !.phase = p, !.built = TRUE]
      OBVIOUS
    <2>2. f \in Job /\ f.handle = x /\ f.optional = {} /\ ~Terminal(f)
      BY <1>1, <2>1 DEF Job, Terminal
    <2>3. jobs' = [jobs EXCEPT ![i] = f]
      BY <1>1, <1>3, <2>1
    <2> QED
      BY <2>2, <2>3, JobEdited
  <1> QED
    BY <1>2, <1>3

\* A write of the state of x moves it.
LEMMA StateMoves ==
    ASSUME TypeOK, NEW x \in Handle
    PROVE  /\ \A st \in States : slots' = SetState(slots, x, st) => Moves(x, st)
           /\ \A o : slots' = FinishSlot(slots, x, o) =>
                Moves(x, IF o = "Loaded" THEN "LOADED" ELSE "FAILED")
           /\ slots' = slots => Moves(x, slots[KeyOf(x)].state)
  <1>1. slots \in [Key -> Slot]
    BY TypeParts
  <1>2. ASSUME NEW st \in States, slots' = SetState(slots, x, st) PROVE Moves(x, st)
    <2>1. PICK t : t = SetState(slots, x, st)
      OBVIOUS
    <2>2. /\ SameGraph(slots, t)
          /\ \A k \in Key : /\ t[k].pin = slots[k].pin /\ (t[k].retiring <=> slots[k].retiring)
                            /\ t[k].state = IF k = KeyOf(x) THEN st ELSE slots[k].state
      BY <1>1, <2>1, SetStateFacts
    <2> QED
      BY <1>2, <2>1, <2>2 DEF Moves
  <1>3. ASSUME NEW o, slots' = FinishSlot(slots, x, o)
        PROVE  Moves(x, IF o = "Loaded" THEN "LOADED" ELSE "FAILED")
    <2>1. PICK t : t = FinishSlot(slots, x, o)
      OBVIOUS
    <2>2. PICK st : st = IF o = "Loaded" THEN "LOADED" ELSE "FAILED"
      OBVIOUS
    <2>3. /\ SameGraph(slots, t)
          /\ \A k \in Key : /\ t[k].pin = slots[k].pin /\ (t[k].retiring <=> slots[k].retiring)
                            /\ t[k].state = IF k = KeyOf(x) THEN st ELSE slots[k].state
      BY <1>1, <2>1, <2>2, FinishSlotFacts
    <2>4. Moves(x, st)
      BY <1>3, <2>1, <2>3 DEF Moves
    <2> QED
      BY <2>2, <2>4
  <1>4. ASSUME slots' = slots PROVE Moves(x, slots[KeyOf(x)].state)
    BY <1>4 DEF Moves, SameGraph
  <1> QED
    BY <1>2, <1>3, <1>4

\* The callbacks cs, of which those about x are build requests for it.
Base(x, cs) ==
    /\ cs \in Seq(Call) /\ Pairs(cs)
    /\ \A d : In(d, cs) => d \in Call /\ FrameOK(d) /\ (d.handle = x => d.op = "build")
    /\ \A h : h \in DtorsOf(cs) <=> h \in Dtors

LEMMA BaseDtors ==
    ASSUME NEW x, NEW cs, Base(x, cs)
    PROVE  x \notin Dtors
  BY DEF Base, DtorsOf, In

\* The load of x ends with the outcome o.
LEMMA EndStep ==
    ASSUME TypeOK, TypeOK', AssetInv, ~Ending, UNCHANGED <<size, free, cache, unload>>, MainInv',
           NEW x, NEW i \in JobsOf(x), ~Terminal(jobs[i]),
           NEW o \in {"Loaded", "Failed", "Cancelled"},
           Moves(x, IF o = "Loaded" THEN "LOADED" ELSE "FAILED"), jobs' = Finish(i, o),
           NEW cs, Base(x, cs), calls' = cs
    PROVE  AssetInv'
  <1>1. /\ x \in Open /\ x \in Handle /\ x \in Queued
    BY OpenJob
  <1>2. /\ GoodJobs(jobs')
        /\ \A h : h \in Queued' <=> h \in Queued
        /\ \A h : h \in Open' <=> h \in Open /\ h # x
    BY JobFinished
  <1>3. PICK st : st = IF o = "Loaded" THEN "LOADED" ELSE "FAILED"
    OBVIOUS
  <1>4. \A h : h \in Dtors' <=> h \in Dtors
    BY DEF Base, Dtors
  <1>5. x \notin Dtors
    BY BaseDtors
  <1>6. Moves(x, st) /\ st \in {"FAILED", "LOADED"}
    BY <1>3
  <1>7. JobInv /\ PinInv /\ StateInv
    BY DEF AssetInv
  <1>8. WorksOn(x) /\ LeavesWell(x)
    BY <1>1, <1>2, <1>4, <1>5, <1>6, <1>7, MoveStep
  <1>9. CallsOn(x, cs)
    BY <1>1, <1>2 DEF Base, CallsOn
  <1>10. Starts
    BY DEF Starts
  <1> QED
    BY <1>2, <1>8, <1>9, <1>10, AssetStep

\* The load of x goes on, perhaps into a callback.
LEMMA GoStep ==
    ASSUME TypeOK, TypeOK', AssetInv, ~Ending, UNCHANGED <<size, free, cache, unload>>, MainInv',
           NEW x \in Open, NEW st, st \in InProgress \/ st = slots[KeyOf(x)].state, Moves(x, st),
           GoodJobs(jobs'), \A h : h \in Queued' <=> h \in Queued,
           \A h : h \in Open' <=> h \in Open,
           NEW cs, Base(x, cs),
           \/ calls' = cs
           \/ \E c \in Call : /\ calls' = Append(cs, c) /\ c.handle = x /\ ~c.dangling
                              /\ c.op \in {"ctor", "step"}
    PROVE  AssetInv'
  <1>1. /\ x \in Live(slots) /\ x \in Queued /\ x \in Handle
    BY QueueTypes DEF AssetInv, JobInv
  <1>2. x \notin Dtors
    BY BaseDtors
  <1>3. cs \in Seq(Call) /\ Pairs(cs)
    BY DEF Base
  <1>4. \A c : c.handle = x /\ c.op \in {"ctor", "step"} => Fits(c, cs)
    BY DEF Base, Fits
  <1>5. \A h : h \in Dtors' <=> h \in Dtors
    <2>1. CASE calls' = cs
      BY <2>1 DEF Base, Dtors
    <2>2. CASE \E c \in Call : /\ calls' = Append(cs, c) /\ c.handle = x /\ ~c.dangling
                               /\ c.op \in {"ctor", "step"}
      <3>1. PICK c \in Call : /\ calls' = Append(cs, c) /\ c.handle = x
                              /\ c.op \in {"ctor", "step"}
        BY <2>2
      <3>2. \A h : h \in DtorsOf(calls') <=> h \in DtorsOf(cs)
        BY <1>3, <1>4, <3>1, Pushed
      <3> QED
        BY <3>2 DEF Base, Dtors
    <2> QED
      BY <2>1, <2>2
  <1>6. JobInv /\ PinInv /\ StateInv
    BY DEF AssetInv
  <1>7. /\ WorksOn(x) /\ LeavesWell(x)
        /\ \A k \in Key : slots'[k].state = "EMPTY" <=> slots[k].state = "EMPTY"
    BY <1>2, <1>5, <1>6, MoveStep
  <1>8. Known(x)'
    BY <1>1, <1>7, SameLive DEF WorksOn, SameGraph, Known
  <1>9. \A c \in Call : c.handle = x /\ ~c.dangling /\ c.op \in {"ctor", "step"} => FrameOK(c)'
    BY <1>8 DEF FrameOK
  <1>10. CallsOn(x, cs)
    BY <1>1, <1>3, <1>4, <1>9 DEF Base, CallsOn
  <1>11. Starts
    BY DEF Starts
  <1> QED
    BY <1>7, <1>10, <1>11, AssetStep

\* process_job.
LEMMA ProcessStep ==
    ASSUME TypeOK, TypeOK', AssetInv, ~Ending, UNCHANGED <<size, free, cache, unload>>, MainInv',
           NEW x, NEW i \in JobsOf(x), NEW cs, Base(x, cs), ProcessJob(i, cs)
    PROVE  AssetInv'
  <1>1. /\ i \in DOMAIN jobs /\ jobs[i].handle = x /\ x \in Handle /\ x \in Queued
        /\ GoodJobs(jobs) /\ (x \in Open <=> ~Terminal(jobs[i]))
    BY OpenJob
  <1>2. ProcessOutcome(i, cs)
    BY ProcessFacts
  <1>3. x \in Open => Resolves(slots, x)
    BY TypeParts, LiveHandle DEF AssetInv, JobInv
  <1>4. CASE Terminal(jobs[i]) /\ slots' = slots /\ jobs' = jobs /\ calls' = cs
    <2>1. SameGraph(slots, slots') /\ SameBut(Queued, Queued', x) /\ SameBut(Open, Open', x)
          /\ SameBut(Unloading, Unloading', x) /\ SameBut(Dtors, Dtors', x)
      BY <1>4 DEF SameGraph, SameBut, Queued, Open, Unloading, Dtors, Base
    <2>2. WorksOn(x)
      BY <1>4, <2>1 DEF WorksOn
    <2>3. LeavesWell(x)
      <3>1. /\ x \in Queued' /\ Known(x)
        BY <1>1, <1>4 DEF AssetInv, JobInv, Queued
      <3>2. x \notin Open' /\ x \notin Open
        BY <1>1, <1>4 DEF Open
      <3>3. x \in Live(slots) =>
               /\ slots[KeyOf(x)].state = "PENDING_DELETE" => slots[KeyOf(x)].pin = 0
               /\ slots[KeyOf(x)].state \notin InProgress /\ ~slots[KeyOf(x)].retiring
        BY <3>2, BaseDtors, KeyFacts, <1>1 DEF AssetInv, PinInv, StateInv
      <3> QED
        BY <1>4, <3>1, <3>2, <3>3 DEF LeavesWell
    <2>4. CallsOn(x, cs)
      BY <1>1, <1>4 DEF Base, CallsOn, Queued
    <2>5. Starts /\ GoodJobs(jobs')
      BY <1>1, <1>4 DEF Starts
    <2> QED
      BY <2>2, <2>3, <2>4, <2>5, AssetStep
  <1>5. ASSUME ~Terminal(jobs[i]), NEW o \in {"Failed", "Cancelled"},
               slots' = FinishSlot(slots, x, o), jobs' = Finish(i, o), calls' = cs
        PROVE  AssetInv'
    <2>1. Moves(x, IF o = "Loaded" THEN "LOADED" ELSE "FAILED")
      BY <1>1, <1>5, StateMoves
    <2>2. o \in {"Loaded", "Failed", "Cancelled"} /\ ~Terminal(jobs[i]) /\ jobs' = Finish(i, o)
          /\ calls' = cs
      BY <1>5
    <2> QED
      BY <2>1, <2>2, EndStep
  <1>6. ASSUME ~Terminal(jobs[i]), NEW st \in InProgress, NEW p \in Phases,
               slots' = SetState(slots, x, st), jobs' = SetPhase(i, p),
               \/ calls' = cs
               \/ \E c \in Call : /\ calls' = Append(cs, c) /\ c.handle = x /\ ~c.dangling
                                  /\ c.op \in {"ctor", "step"}
        PROVE  AssetInv'
    <2>1. Moves(x, st)
      BY <1>1, <1>6, StateMoves, OutcomeTypes
    <2>2. /\ GoodJobs(jobs') /\ \A h : h \in Queued' <=> h \in Queued
          /\ \A h : h \in Open' <=> h \in Open
      BY <1>6, JobContinued
    <2>3. x \in Open
      BY <1>1, <1>6
    <2> QED
      BY <1>6, <2>1, <2>2, <2>3, GoStep
  <1>7. \A c \in {NewCall("step", x)} \cup {[NewCall("ctor", x) EXCEPT !.chain = b] : b \in BOOLEAN} :
           c \in Call /\ c.handle = x /\ ~c.dangling /\ c.op \in {"ctor", "step"}
    <2>1. NewCall("step", x) \in Call
          /\ \A b \in BOOLEAN : [NewCall("ctor", x) EXCEPT !.chain = b] \in Call
      BY <1>1, CallTypes
    <2>2. NewCall("step", x).handle = x /\ ~NewCall("step", x).dangling
          /\ NewCall("step", x).op \in {"ctor", "step"}
      BY DEF NewCall
    <2>3. ASSUME NEW b \in BOOLEAN, NEW c, c = [NewCall("ctor", x) EXCEPT !.chain = b]
          PROVE  c.handle = x /\ ~c.dangling /\ c.op \in {"ctor", "step"}
      BY <2>3 DEF NewCall
    <2> QED
      BY <2>1, <2>2, <2>3
  <1>8. CASE /\ ~Terminal(jobs[i]) /\ slots' = slots /\ jobs' = jobs
             /\ calls' = Append(cs, NewCall("step", x))
    <2>1. Moves(x, slots[KeyOf(x)].state)
      BY <1>1, <1>8, StateMoves
    <2>2. /\ GoodJobs(jobs') /\ \A h : h \in Queued' <=> h \in Queued
          /\ \A h : h \in Open' <=> h \in Open
      BY <1>1, <1>8 DEF Queued, Open
    <2>3. x \in Open
      BY <1>1, <1>8
    <2>4. \E c \in Call : /\ calls' = Append(cs, c) /\ c.handle = x /\ ~c.dangling
                          /\ c.op \in {"ctor", "step"}
      BY <1>7, <1>8
    <2> QED
      BY <2>1, <2>2, <2>3, <2>4, GoStep
  <1>9. CASE /\ ~Terminal(jobs[i])
             /\ slots' = SetState(slots, x, "WAITING_DEPENDENCIES")
             /\ jobs' = SetPhase(i, "WaitingDependencies") /\ calls' = cs
    BY <1>6, <1>9, OutcomeTypes DEF InProgress
  <1>10. CASE /\ ~Terminal(jobs[i])
              /\ slots' = SetState(slots, x, "LOADING") /\ jobs' = SetPhase(i, "PendingRead")
              /\ \E b \in BOOLEAN : calls' = Append(cs, [NewCall("ctor", x) EXCEPT !.chain = b])
    <2>1. \E c \in Call : /\ calls' = Append(cs, c) /\ c.handle = x /\ ~c.dangling
                          /\ c.op \in {"ctor", "step"}
      BY <1>7, <1>10
    <2> QED
      BY <1>6, <1>10, <2>1, OutcomeTypes DEF InProgress
  <1>11. CASE /\ ~Terminal(jobs[i])
              /\ slots' = SetState(slots, x, "PROCESSING") /\ jobs' = SetPhase(i, "Processing")
              /\ calls' = Append(cs, NewCall("step", x))
    <2>1. \E c \in Call : /\ calls' = Append(cs, c) /\ c.handle = x /\ ~c.dangling
                          /\ c.op \in {"ctor", "step"}
      BY <1>7, <1>11
    <2> QED
      BY <1>6, <1>11, <2>1, OutcomeTypes DEF InProgress
  <1>12. CASE ~Terminal(jobs[i]) /\ ~Resolves(slots, x)
    BY <1>1, <1>3, <1>12
  <1>13. CASE /\ ~Terminal(jobs[i])
              /\ \E o \in {"Failed", "Cancelled"} :
                   slots' = FinishSlot(slots, x, o) /\ jobs' = Finish(i, o) /\ calls' = cs
    BY <1>5, <1>13
  <1> QED
    BY <1>1, <1>2, <1>4, <1>8, <1>9, <1>10, <1>11, <1>12, <1>13 DEF ProcessOutcome

LEMMA BaseBelow ==
    ASSUME TypeOK, AssetInv, calls # <<>>, Top.op \in {"ctor", "step"}
    PROVE  Base(Top.handle, Below)
  <1>1. CallInv
    BY DEF AssetInv
  <1> QED
    BY <1>1, Popped DEF Base, Fits

LEMMA BaseEmpty ==
    ASSUME calls = <<>>, NEW x
    PROVE  Base(x, <<>>)
  BY DEF Base, Pairs, In, Dtors, DtorsOf

LEMMA JobsLoopPick ==
    ASSUME TypeOK, TypeOK', AssetInv, LoopPick
    PROVE  AssetInv'
  <1>1. /\ main.op \in {"process", "drain"} /\ unload = <<>> /\ calls = <<>> /\ main \in Main
        /\ UNCHANGED <<size, free, cache, unload>>
    BY TypeParts DEF LoopPick, InLoop, InMain
  <1>2. PICK i \in JobsOf(main.next) :
           /\ main' = [main EXCEPT !.left = @ - 1, !.current = main.next,
                                   !.was = IF main.op = "drain" THEN jobs[i].phase ELSE @]
           /\ ProcessJob(i, <<>>)
    BY DEF LoopPick
  <1>3. main'.op = main.op
    BY <1>1, <1>2 DEF Main
  <1>4. MainInv' /\ ~Ending
    BY <1>1, <1>3 DEF MainInv, Ending
  <1>5. Base(main.next, <<>>)
    BY <1>1, BaseEmpty
  <1> QED
    BY <1>1, <1>2, <1>4, <1>5, ProcessStep

LEMMA JobsBuildProcess ==
    ASSUME TypeOK, TypeOK', AssetInv, BuildProcess
    PROVE  AssetInv'
  <1>1. /\ unload = <<>> /\ calls # <<>> /\ Top.op = "build"
        /\ UNCHANGED <<size, free, cache, unload, main>>
    BY DEF BuildProcess, InCallback
  <1>2. PICK i \in JobsOf(Top.handle) : ProcessJob(i, Append(Below, [Top EXCEPT !.chain = FALSE]))
    BY DEF BuildProcess
  <1>3. ~Ending /\ MainInv' /\ CallInv
    BY <1>1, InsideFacts DEF AssetInv
  <1>4. PICK c : c = [Top EXCEPT !.chain = FALSE]
    OBVIOUS
  <1>5. /\ Below \in Seq(Call) /\ Top \in Call /\ FrameOK(Top)
        /\ Pairs(Below) /\ Fits(Top, Below)
        /\ \A h : h \in Dtors <=> h \in DtorsOf(Below)
        /\ \A d : In(d, Below) => d \in Call /\ FrameOK(d)
    BY <1>1, <1>3, Popped
  <1>6. c \in Call /\ c.handle = Top.handle /\ c.op = "build" /\ (c.settled <=> Top.settled)
        /\ (c.dangling <=> Top.dangling) /\ c.op = Top.op
    BY <1>1, <1>4, <1>5 DEF Call
  <1>7. FrameOK(c) /\ Fits(c, Below)
    BY <1>1, <1>5, <1>6 DEF FrameOK, Fits
  <1>8. PICK cs \in Seq(Call) : cs = Append(Below, c)
    BY <1>5, <1>6, AppendFacts
  <1>9. /\ Pairs(cs)
        /\ \A h : h \in DtorsOf(cs) <=> h \in DtorsOf(Below)
        /\ \A d : In(d, cs) => d = c \/ In(d, Below)
    BY <1>5, <1>6, <1>7, <1>8, Pushed
  <1>10. \A d : In(d, Below) /\ d.handle = c.handle => d.op = "build"
    BY <1>7 DEF Fits
  <1>11. Base(Top.handle, cs)
    BY <1>5, <1>6, <1>7, <1>9, <1>10 DEF Base
  <1>12. ProcessJob(i, cs)
    BY <1>2, <1>4, <1>8
  <1> QED
    BY <1>1, <1>3, <1>11, <1>12, ProcessStep

LEMMA JobsCtorReturn ==
    ASSUME TypeOK, TypeOK', AssetInv, CtorReturn
    PROVE  AssetInv'
  <1> DEFINE x == Top.handle
  <1>1. /\ unload = <<>> /\ calls # <<>> /\ Top.op = "ctor"
        /\ UNCHANGED <<size, free, cache, unload, main>>
    BY DEF CtorReturn, InCallback
  <1>2. ~Ending /\ MainInv' /\ CallInv
    BY <1>1, InsideFacts DEF AssetInv
  <1>3. FrameOK(Top) /\ Top \in Call /\ x \in Handle /\ Base(x, Below)
    BY <1>1, <1>2, Popped, BaseBelow
  <1>4. x \in Open /\ ~Top.dangling
    BY <1>1, <1>3 DEF FrameOK
  <1>5. PICK i \in JobsOf(x) :
          \/ /\ slots' = FinishSlot(slots, x, "Failed")
             /\ jobs' = Finish(i, "Failed")
             /\ calls' = Below
          \/ /\ slots' = SetState(slots, x, "PROCESSING")
             /\ jobs' = [jobs EXCEPT ![i].phase = "Processing", ![i].built = TRUE]
             /\ calls' = IF Top.chain
                         THEN Append(Below, [NewCall("step", x) EXCEPT !.dangling = Top.dangling])
                         ELSE Below
    BY <1>4 DEF CtorReturn
  <1>6. ~Terminal(jobs[i])
    BY <1>4, <1>5, OpenJob
  <1> HIDE DEF x
  <1>7. CASE /\ slots' = FinishSlot(slots, x, "Failed")
             /\ jobs' = Finish(i, "Failed")
             /\ calls' = Below
    <2>1. Moves(x, IF "Failed" = "Loaded" THEN "LOADED" ELSE "FAILED")
      BY <1>3, <1>7, StateMoves
    <2> QED
      BY <1>1, <1>2, <1>3, <1>5, <1>6, <1>7, <2>1, EndStep
  <1>8. CASE /\ slots' = SetState(slots, x, "PROCESSING")
             /\ jobs' = [jobs EXCEPT ![i].phase = "Processing", ![i].built = TRUE]
             /\ calls' = IF Top.chain
                         THEN Append(Below, [NewCall("step", x) EXCEPT !.dangling = Top.dangling])
                         ELSE Below
    <2>1. Moves(x, "PROCESSING") /\ "PROCESSING" \in InProgress
      BY <1>3, <1>8, StateMoves, OutcomeTypes DEF InProgress
    <2>2. /\ GoodJobs(jobs') /\ \A h : h \in Queued' <=> h \in Queued
          /\ \A h : h \in Open' <=> h \in Open
      BY <1>5, <1>6, <1>8, JobContinued, OutcomeTypes
    <2>3. PICK c : c = [NewCall("step", x) EXCEPT !.dangling = Top.dangling]
      OBVIOUS
    <2>4. c \in Call
      <3>1. Top.dangling \in BOOLEAN
        BY <1>3 DEF Call
      <3> QED
        BY <1>3, <2>3, <3>1, CallTypes
    <2>5. c.handle = x /\ ~c.dangling /\ c.op \in {"ctor", "step"}
      BY <1>4, <2>3 DEF NewCall
    <2>6. \/ calls' = Below
          \/ \E e \in Call : /\ calls' = Append(Below, e) /\ e.handle = x /\ ~e.dangling
                             /\ e.op \in {"ctor", "step"}
      BY <1>8, <2>3, <2>4, <2>5
    <2> QED
      BY <1>1, <1>2, <1>3, <1>4, <2>1, <2>2, <2>6, GoStep
  <1> QED
    BY <1>5, <1>7, <1>8

\* A step that is not done commits nothing.
LEMMA JobsStepEnds ==
    ASSUME TypeOK, TypeOK', AssetInv, unload = <<>>, calls # <<>>, Top.op = "step",
           UNCHANGED <<size, free, cache, unload, main>>, calls' = Below,
           NEW i \in JobsOf(Top.handle),
           \/ UNCHANGED <<slots, jobs>>
           \/ /\ slots' = SetState(slots, Top.handle, "WAITING_DEPENDENCIES")
              /\ jobs' = SetPhase(i, "WaitingDependencies")
           \/ \E o \in {"Failed", "Cancelled"} :
                slots' = FinishSlot(slots, Top.handle, o) /\ jobs' = Finish(i, o)
    PROVE  AssetInv'
  <1> DEFINE x == Top.handle
  <1>1. ~Ending /\ MainInv' /\ CallInv
    BY InsideFacts DEF AssetInv
  <1>2. FrameOK(Top) /\ Top \in Call /\ x \in Handle /\ Base(x, Below)
    BY <1>1, Popped, BaseBelow
  <1>3. x \in Open /\ ~Terminal(jobs[i])
    BY <1>2, OpenJob DEF FrameOK
  <1>4. CASE UNCHANGED <<slots, jobs>>
    <2>1. Moves(x, slots[KeyOf(x)].state)
      BY <1>2, <1>4, StateMoves
    <2>2. /\ GoodJobs(jobs') /\ \A h : h \in Queued' <=> h \in Queued
          /\ \A h : h \in Open' <=> h \in Open
      BY <1>4, OpenJob DEF Queued, Open
    <2> HIDE DEF x
    <2> QED
      BY <1>1, <1>2, <1>3, <2>1, <2>2, GoStep
  <1>5. CASE /\ slots' = SetState(slots, x, "WAITING_DEPENDENCIES")
             /\ jobs' = SetPhase(i, "WaitingDependencies")
    <2>1. Moves(x, "WAITING_DEPENDENCIES") /\ "WAITING_DEPENDENCIES" \in InProgress
      BY <1>2, <1>5, StateMoves, OutcomeTypes DEF InProgress
    <2>2. /\ GoodJobs(jobs') /\ \A h : h \in Queued' <=> h \in Queued
          /\ \A h : h \in Open' <=> h \in Open
      BY <1>3, <1>5, JobContinued, OutcomeTypes
    <2> HIDE DEF x
    <2> QED
      BY <1>1, <1>2, <1>3, <2>1, <2>2, GoStep
  <1>6. ASSUME NEW o \in {"Failed", "Cancelled"},
               slots' = FinishSlot(slots, x, o), jobs' = Finish(i, o)
        PROVE  AssetInv'
    <2>1. Moves(x, IF o = "Loaded" THEN "LOADED" ELSE "FAILED")
      BY <1>2, <1>6, StateMoves
    <2>2. o \in {"Loaded", "Failed", "Cancelled"} /\ jobs' = Finish(i, o) /\ i \in JobsOf(x)
      BY <1>6
    <2> HIDE DEF x
    <2> QED
      BY <1>1, <1>2, <1>3, <2>1, <2>2, EndStep
  <1> QED
    BY <1>4, <1>5, <1>6

-----------------------------------------------------------------------------
(* A load is done                                                           *)

LEMMA AssetChange ==
    ASSUME TypeOK, TypeOK', AssetInv, ~Ending, StorageInv', MainInv', GoodJobs(jobs'),
           NEW x, KeepsOthers(x), LeavesWell(x), NEW cs, CallsOn(x, cs)
    PROVE  AssetInv'
  <1>1. JobInv' /\ PinInv' /\ StateInv'
    BY JobsStep DEF AssetInv
  <1>2. CallInv'
    BY CallsStep DEF CallsOn
  <1> QED
    BY <1>1, <1>2 DEF AssetInv

LEMMA DoneFacts ==
    ASSUME slots \in [Key -> Slot], NEW h \in Handle, Resolves(slots, h),
           NEW deps \in SUBSET (Handle \cup {NoHandle})
    PROVE  LET t == DoneSlots(h, deps)
               ds == Committable(slots, deps)
           IN  /\ t \in [Key -> Slot]
               /\ \A k \in Key :
                    /\ t[k].generation = slots[k].generation /\ t[k].path = slots[k].path
                    /\ t[k].state = IF k = KeyOf(h) THEN "LOADED" ELSE slots[k].state
                    /\ (t[k].retiring <=> slots[k].retiring)
                    /\ t[k].pin >= slots[k].pin
                    /\ slots[k].state # "LOADED" => t[k].pin = slots[k].pin
                    /\ t[k].dependencies = IF k = KeyOf(h) THEN ds ELSE slots[k].dependencies
                    /\ t[k].dependents = IF HandleAt(slots, k) \in ds THEN slots[k].dependents \cup {h}
                                                                  ELSE slots[k].dependents
  <1>1. PICK s1 : s1 = Commit(slots, h, deps)
    OBVIOUS
  <1>2. PICK ds : ds = Committable(slots, deps)
    OBVIOUS
  <1>3. /\ s1 \in [Key -> Slot] /\ SameAssets(slots, s1)
        /\ \A k \in Key :
             /\ s1[k].dependencies = IF k = KeyOf(h) THEN ds ELSE slots[k].dependencies
             /\ s1[k].dependents = IF HandleAt(slots, k) \in ds
                                   THEN slots[k].dependents \cup {h} ELSE slots[k].dependents
    <2>1. LET t == Commit(slots, h, deps)
              es == Committable(slots, deps)
          IN  /\ es \subseteq Handle
              /\ t \in [Key -> Slot]
              /\ SameAssets(slots, t)
              /\ \A k \in Key :
                   /\ t[k].dependencies = IF k = KeyOf(h) THEN es ELSE slots[k].dependencies
                   /\ t[k].dependents = IF HandleAt(slots, k) \in es
                                        THEN slots[k].dependents \cup {h} ELSE slots[k].dependents
      BY CommitFacts, Zenon
    <2> QED
      BY <1>1, <1>2, <2>1
  <1>4. PICK es : es = s1[KeyOf(h)].dependencies
    OBVIOUS
  <1>5. PICK s2 : s2 = PinCommitted(s1, es)
    OBVIOUS
  <1>6. /\ s2 \in [Key -> Slot] /\ SameGraph(s1, s2)
        /\ \A k \in Key : /\ s2[k].state = s1[k].state
                          /\ (s2[k].retiring <=> s1[k].retiring)
                          /\ s2[k].pin >= s1[k].pin
                          /\ s1[k].state # "LOADED" => s2[k].pin = s1[k].pin
    BY <1>3, <1>5, PinCommittedFacts
  <1>7. PICK s3 : s3 = FinishSlot(s2, h, "Loaded")
    OBVIOUS
  <1>8. /\ s3 \in [Key -> Slot] /\ SameGraph(s2, s3)
        /\ \A k \in Key : /\ s3[k].pin = s2[k].pin /\ (s3[k].retiring <=> s2[k].retiring)
                          /\ s3[k].state = IF k = KeyOf(h) THEN "LOADED" ELSE s2[k].state
    BY <1>6, <1>7, FinishSlotFacts
  <1>9. s3 = DoneSlots(h, deps)
    BY <1>1, <1>4, <1>5, <1>7 DEF DoneSlots
  <1>10. ASSUME NEW k \in Key
         PROVE  /\ s3[k].generation = slots[k].generation /\ s3[k].path = slots[k].path
                /\ s3[k].state = IF k = KeyOf(h) THEN "LOADED" ELSE slots[k].state
                /\ (s3[k].retiring <=> slots[k].retiring)
                /\ s3[k].pin >= slots[k].pin
                /\ slots[k].state # "LOADED" => s3[k].pin = slots[k].pin
                /\ s3[k].dependencies = IF k = KeyOf(h) THEN ds ELSE slots[k].dependencies
                /\ s3[k].dependents = IF HandleAt(slots, k) \in ds THEN slots[k].dependents \cup {h}
                                                               ELSE slots[k].dependents
    BY <1>3, <1>6, <1>8 DEF SameAssets, SameGraph
  <1> QED
    BY <1>2, <1>8, <1>9, <1>10

\* The step of job i is done, its dependencies are there.
Completes(i) ==
    /\ DepsReady(slots, jobs[i].required)
    /\ slots' = DoneSlots(jobs[i].handle, jobs[i].required)
    /\ jobs' = Finish(i, "Loaded")

LEMMA JobsCommit ==
    ASSUME TypeOK, TypeOK', AssetInv, unload = <<>>, calls # <<>>, Top.op = "step",
           UNCHANGED <<size, free, cache, unload, main>>, calls' = Below,
           NEW i \in JobsOf(Top.handle), Completes(i)
    PROVE  AssetInv'
  <1> DEFINE x == Top.handle
             l == KeyOf(x)
  <1>1. ~Ending /\ MainInv' /\ CallInv
    BY InsideFacts DEF AssetInv
  <1>2. FrameOK(Top) /\ Top \in Call /\ x \in Handle /\ Base(x, Below)
    BY <1>1, Popped, BaseBelow
  <1>3. /\ x \in Open /\ ~Terminal(jobs[i]) /\ jobs[i].handle = x /\ jobs[i] \in Job /\ x \in Queued
    BY <1>2, OpenJob DEF FrameOK
  <1>4. /\ slots \in [Key -> Slot] /\ x \in Live(slots)
        /\ slots[l].state \in InProgress \cup {"PENDING_DELETE"}
        /\ slots[l].dependencies = {} /\ slots[l].dependents = {}
    BY <1>1, <1>3, TypeParts DEF AssetInv, JobInv
  <1>5. l \in Key /\ H(l) = x /\ Resolves(slots, x)
    BY <1>4, LiveHandle DEF H
  <1>6. PICK deps \in SUBSET (Handle \cup {NoHandle}) : deps = jobs[i].required
    BY <1>3 DEF Job
  <1>7. PICK ds : ds = Committable(slots, deps)
    OBVIOUS
  <1>8. PICK t : t = DoneSlots(x, deps)
    OBVIOUS
  <1>9. slots' = t /\ DepsReady(slots, deps) /\ jobs' = Finish(i, "Loaded")
    BY <1>3, <1>6, <1>8 DEF Completes
  <1> HIDE DEF x, l
  <1>10. \A k \in Key :
           /\ t[k].generation = slots[k].generation /\ t[k].path = slots[k].path
           /\ t[k].state = IF k = l THEN "LOADED" ELSE slots[k].state
           /\ (t[k].retiring <=> slots[k].retiring)
           /\ t[k].pin >= slots[k].pin
           /\ slots[k].state # "LOADED" => t[k].pin = slots[k].pin
           /\ t[k].dependencies = IF k = l THEN ds ELSE slots[k].dependencies
           /\ t[k].dependents = IF HandleAt(slots, k) \in ds THEN slots[k].dependents \cup {x}
                                                             ELSE slots[k].dependents
    <2>1. LET u == DoneSlots(x, deps)
              es == Committable(slots, deps)
          IN  /\ u \in [Key -> Slot]
              /\ \A k \in Key :
                    /\ u[k].generation = slots[k].generation /\ u[k].path = slots[k].path
                    /\ u[k].state = IF k = KeyOf(x) THEN "LOADED" ELSE slots[k].state
                    /\ (u[k].retiring <=> slots[k].retiring)
                    /\ u[k].pin >= slots[k].pin
                    /\ slots[k].state # "LOADED" => u[k].pin = slots[k].pin
                    /\ u[k].dependencies = IF k = KeyOf(x) THEN es ELSE slots[k].dependencies
                    /\ u[k].dependents = IF HandleAt(slots, k) \in es THEN slots[k].dependents \cup {x}
                                                                     ELSE slots[k].dependents
      BY <1>2, <1>4, <1>5, DoneFacts, Zenon
    <2> QED
      BY <1>7, <1>8, <2>1 DEF l
  <1>11. ASSUME NEW d \in ds
         PROVE  /\ d \in Live(slots) /\ d # x /\ d \notin Open
    <2>1. d \in deps /\ Resolves(slots, d)
      BY <1>7 DEF Committable
    <2>2. d \in Handle /\ slots[KeyOf(d)].state = "LOADED"
      BY <1>6, <1>9, <2>1 DEF DepsReady, StateOf, Resolves
    <2>3. d \in Live(slots)
      BY <1>4, <2>1, <2>2, LiveFacts
    <2>4. d \notin Open
      BY <2>2, <1>1 DEF AssetInv, JobInv, InProgress
    <2> QED
      BY <1>3, <2>3, <2>4
  <1>12. slots[l].state # "EMPTY"
    BY <1>4, <1>5 DEF InProgress
  <1>13. \A k \in Key :
           /\ slots'[k].generation = slots[k].generation /\ slots'[k].path = slots[k].path
           /\ slots'[k].state = "EMPTY" <=> slots[k].state = "EMPTY"
           /\ slots'[k].dependencies = IF k = l THEN ds ELSE slots[k].dependencies
           /\ slots'[k].dependents = IF H(k) \in ds THEN slots[k].dependents \cup {x}
                                                    ELSE slots[k].dependents
    BY <1>9, <1>10, <1>12 DEF H
  <1>14. StorageInv'
    <2>1. ds \subseteq Live(slots) /\ x \notin ds
      BY <1>11
    <2>2. Commits(x, ds)
      BY <1>4, <1>13, <2>1 DEF Commits, l
    <2>3. StorageInv
      BY DEF AssetInv
    <2> QED
      BY <1>1, <2>2, <2>3, StorageCommit
  <1>15. /\ GoodJobs(jobs')
         /\ \A h : h \in Queued' <=> h \in Queued
         /\ \A h : h \in Open' <=> h \in Open /\ h # x
    BY <1>3, <1>9, JobFinished DEF x
  <1>16. /\ \A h : h \in Dtors' <=> h \in Dtors
         /\ \A h : h \in Unloading' <=> h \in Unloading
         /\ x \notin Dtors
    BY <1>2, BaseDtors DEF Base, Dtors, Unloading
  <1>17. KeepsOthers(x)
    <2>1. ASSUME NEW h \in Live(slots), h # x
          PROVE  /\ slots'[KeyOf(h)].state = slots[KeyOf(h)].state
                 /\ slots'[KeyOf(h)].retiring => slots[KeyOf(h)].retiring
                 /\ slots[KeyOf(h)].state = "PENDING_DELETE" =>
                      slots'[KeyOf(h)].pin = slots[KeyOf(h)].pin
                 /\ \/ slots'[KeyOf(h)].pin > 0 \/ slots'[KeyOf(h)].dependents # {}
                    \/ h \in Queued' \/ h \in Unloading'
                 /\ h \in Open => /\ h \notin Unloading'
                                  /\ slots'[KeyOf(h)].dependencies = {}
                                  /\ slots'[KeyOf(h)].dependents = {}
      <3>1. h \in Handle /\ KeyOf(h) \in Key /\ H(KeyOf(h)) = h /\ KeyOf(h) # l
        BY <1>4, <1>5, <2>1, LiveHandle DEF H
      <3>2. PICK k \in Key : k = KeyOf(h)
        BY <3>1
      <3>3. /\ slots'[k].state = slots[k].state
            /\ slots'[k].retiring => slots[k].retiring
            /\ slots[k].state # "LOADED" => slots'[k].pin = slots[k].pin
            /\ slots'[k].pin >= slots[k].pin
        BY <1>9, <1>10, <3>1, <3>2
      <3>4. \/ slots[k].pin > 0 \/ slots[k].dependents # {}
            \/ h \in Queued \/ h \in Unloading
        BY <1>1, <2>1, <3>2 DEF AssetInv, StateInv
      <3>5. slots'[k].dependents = {} => slots[k].dependents = {}
        BY <1>13
      <3>6. slots[k].pin \in Nat /\ slots'[k].pin \in Nat
        BY <1>4, TypePrimes DEF Slot
      <3>7. \/ slots'[k].pin > 0 \/ slots'[k].dependents # {}
            \/ h \in Queued' \/ h \in Unloading'
        BY <1>15, <1>16, <3>3, <3>4, <3>5, <3>6
      <3>8. ASSUME h \in Open
            PROVE  /\ h \notin Unloading' /\ slots'[k].dependencies = {} /\ slots'[k].dependents = {}
        <4>1. h \notin Unloading /\ slots[k].dependencies = {} /\ slots[k].dependents = {}
          BY <1>1, <3>2, <3>8 DEF AssetInv, JobInv
        <4>2. h \notin ds
          BY <1>11, <3>8
        <4> QED
          BY <1>13, <1>16, <3>1, <3>2, <4>1, <4>2
      <3>9. slots[k].state = "PENDING_DELETE" => slots'[k].pin = slots[k].pin
        BY <3>3
      <3> QED
        BY <3>2, <3>3, <3>7, <3>8, <3>9
    <2>2. SameBut(Queued, Queued', x) /\ SameBut(Open, Open', x)
      BY <1>15 DEF SameBut
    <2> QED
      BY <1>13, <1>16, <2>1, <2>2 DEF KeepsOthers
  <1>18. LeavesWell(x)
    <2>1. slots'[KeyOf(x)].state = "LOADED"
      BY <1>5, <1>9, <1>10 DEF l
    <2>2. ~slots'[KeyOf(x)].retiring
      <3>1. ~slots[l].retiring
        BY <1>1, <1>4, <1>16 DEF AssetInv, StateInv, l
      <3> QED
        BY <1>5, <1>9, <1>10, <3>1 DEF l
    <2>3. x \notin Open' /\ x \in Queued' /\ Known(x)
      BY <1>3, <1>4, <1>15 DEF Known
    <2> QED
      BY <2>1, <2>2, <2>3 DEF LeavesWell, InProgress
  <1>19. CallsOn(x, Below)
    BY <1>2, <1>3, <1>15 DEF Base, CallsOn
  <1> QED
    BY <1>1, <1>14, <1>15, <1>17, <1>18, <1>19, AssetChange

LEMMA JobsStepReturn ==
    ASSUME TypeOK, TypeOK', AssetInv, NEW status, StepReturn(status)
    PROVE  AssetInv'
  <1> DEFINE x == Top.handle
  <1>1. /\ unload = <<>> /\ calls # <<>> /\ Top.op = "step" /\ calls' = Below
        /\ UNCHANGED <<size, free, cache, unload, main>>
    BY DEF StepReturn, InCallback
  <1>2. ~Top.dangling
    BY <1>1, Popped DEF AssetInv, FrameOK
  <1>3. PICK i \in JobsOf(x) :
          \/ UNCHANGED <<slots, jobs>>
          \/ /\ slots' = SetState(slots, x, "WAITING_DEPENDENCIES")
             /\ jobs' = SetPhase(i, "WaitingDependencies")
          \/ slots' = FinishSlot(slots, x, "Failed") /\ jobs' = Finish(i, "Failed")
          \/ slots' = FinishSlot(slots, x, "Cancelled") /\ jobs' = Finish(i, "Cancelled")
          \/ /\ DepsReady(slots, jobs[i].required)
             /\ slots' = DoneSlots(x, jobs[i].required \cup jobs[i].optional)
             /\ jobs' = Finish(i, "Loaded")
    BY <1>2 DEF StepReturn
  <1>4. jobs[i].optional = {} /\ jobs[i].handle = x /\ jobs[i].required \cup {} = jobs[i].required
    BY <1>3, OpenJob
  <1>5. CASE /\ DepsReady(slots, jobs[i].required)
             /\ slots' = DoneSlots(x, jobs[i].required \cup jobs[i].optional)
             /\ jobs' = Finish(i, "Loaded")
    <2>1. Completes(i)
      BY <1>4, <1>5 DEF Completes
    <2> QED
      BY <1>1, <1>3, <2>1, JobsCommit
  <1>6. CASE \/ UNCHANGED <<slots, jobs>>
             \/ /\ slots' = SetState(slots, x, "WAITING_DEPENDENCIES")
                /\ jobs' = SetPhase(i, "WaitingDependencies")
             \/ slots' = FinishSlot(slots, x, "Failed") /\ jobs' = Finish(i, "Failed")
             \/ slots' = FinishSlot(slots, x, "Cancelled") /\ jobs' = Finish(i, "Cancelled")
    <2>1. \/ UNCHANGED <<slots, jobs>>
          \/ /\ slots' = SetState(slots, Top.handle, "WAITING_DEPENDENCIES")
             /\ jobs' = SetPhase(i, "WaitingDependencies")
          \/ \E o \in {"Failed", "Cancelled"} :
               slots' = FinishSlot(slots, Top.handle, o) /\ jobs' = Finish(i, o)
      BY <1>6
    <2> QED
      BY <1>1, <1>3, <2>1, JobsStepEnds
  <1> QED
    BY <1>3, <1>5, <1>6

-----------------------------------------------------------------------------
(* A job is retired                                                         *)

LEMMA ResolvedLive ==
    ASSUME TypeOK, NEW x \in Handle, Known(x)
    PROVE  /\ x \in Live(slots) <=> Resolves(slots, x)
           /\ ~Resolves(slots, x) <=> Gone(x)
  <1>1. slots \in [Key -> Slot] /\ KeyOf(x) \in Key
    BY TypeParts, KeyFacts
  <1>2. slots[KeyOf(x)].generation \in Nat /\ x.generation \in Nat
    BY <1>1 DEF Slot, Handle
  <1>3. x \in Live(slots) => Resolves(slots, x)
    BY <1>1, LiveFacts
  <1>4. Resolves(slots, x) => slots[KeyOf(x)].generation = x.generation
    BY <1>1, ResolvesFacts
  <1>5. Gone(x) => ~Resolves(slots, x)
    BY <1>2, <1>4 DEF Gone
  <1> QED
    BY <1>3, <1>5 DEF Known

LEMMA JobErased ==
    ASSUME TypeOK, AssetInv, NEW x, NEW i \in JobsOf(x), jobs' = EraseJob(i)
    PROVE  /\ GoodJobs(jobs')
           /\ \A h : h \in Queued' <=> h \in Queued /\ h # x
           /\ \A h : h \in Open' <=> h \in Open /\ h # x
  <1>1. /\ i \in DOMAIN jobs /\ jobs[i].handle = x /\ GoodJobs(jobs) /\ jobs \in Seq(Job)
    BY OpenJob
  <1>2. PICK r : r = RemoveAt(jobs, i)
    OBVIOUS
  <1>3. LET r2 == RemoveAt(jobs, i)
        IN  /\ r2 \in Seq(Job) /\ GoodJobs(r2)
            /\ HandlesOf(r2) = HandlesOf(jobs) \ {jobs[i].handle}
            /\ OpenOf(r2) = OpenOf(jobs) \ {jobs[i].handle}
    BY <1>1, JobsErased
  <1>4. /\ GoodJobs(jobs') /\ HandlesOf(jobs') = HandlesOf(jobs) \ {x}
        /\ OpenOf(jobs') = OpenOf(jobs) \ {x}
    BY <1>1, <1>3 DEF EraseJob
  <1> QED
    BY <1>4 DEF Queued, Open

\* The step ends with try_unload_slot for x.
Tries(x) == unload = <<>> /\ unload' = TryUnload(slots', x)

LEMMA TriesFacts ==
    ASSUME NEW x, Tries(x)
    PROVE  /\ \A h : h \in Unloading' =>
                h = x /\ Resolves(slots', x) /\ slots'[KeyOf(x)].pin = 0
                      /\ slots'[KeyOf(x)].dependents = {}
           /\ Resolves(slots', x) /\ slots'[KeyOf(x)].pin = 0 /\ slots'[KeyOf(x)].dependents = {}
                => x \in Unloading'
           /\ \A h : h \notin Unloading
  <1>1. \A h : h \notin Unloading
    BY DEF Tries, Unloading
  <1>2. CASE Resolves(slots', x) /\ slots'[KeyOf(x)].pin = 0 /\ slots'[KeyOf(x)].dependents = {}
    <2>1. unload' = <<DestroyCall(x, TRUE)>>
      BY <1>2 DEF Tries, TryUnload
    <2>2. DOMAIN unload' = {1} /\ unload'[1].handle = x
      BY <2>1 DEF DestroyCall
    <2> QED
      BY <1>1, <1>2, <2>2 DEF Unloading
  <1>3. CASE ~(Resolves(slots', x) /\ slots'[KeyOf(x)].pin = 0 /\ slots'[KeyOf(x)].dependents = {})
    <2>1. unload' = <<>>
      BY <1>3 DEF Tries, TryUnload
    <2> QED
      BY <1>1, <1>3, <2>1 DEF Unloading
  <1> QED
    BY <1>2, <1>3

LEMMA TriesStarts ==
    ASSUME TypeOK, TypeOK', NEW x \in Handle, Tries(x), Known(x),
           \A k \in Key : /\ slots'[k].generation = slots[k].generation
                          /\ slots'[k].state = "EMPTY" <=> slots[k].state = "EMPTY"
    PROVE  Starts
  <1>1. Known(x)'
    BY SameLive
  <1>2. slots' \in [Key -> Slot] /\ KeyOf(x) \in Key
    BY TypePrimes, KeyFacts
  <1>3. Resolves(slots', x) => slots'[KeyOf(x)].generation = x.generation
    BY <1>2, ResolvesFacts
  <1>4. slots'[KeyOf(x)].generation \in Nat /\ x.generation \in Nat
    BY <1>2 DEF Slot, Handle
  <1>5. Resolves(slots', x) => x \in Live(slots)'
    BY <1>1, <1>3, <1>4 DEF Known, Gone
  <1>6. Resolves(slots', x) => slots'[KeyOf(x)].state # "EMPTY"
    BY <1>2, <1>5, LiveFacts
  <1> QED
    BY <1>6 DEF Starts, Tries

\* The callbacks cs, of which those about x are build requests that have their
\* outcome; the other loaders that are being destroyed are still there.
SettledBase(x, cs) ==
    /\ cs \in Seq(Call) /\ Pairs(cs)
    /\ \A d : In(d, cs) => /\ d \in Call /\ FrameOK(d)
                           /\ d.handle = x => d.op = "build" /\ d.settled
    /\ SameBut(Dtors, DtorsOf(cs), x)

\* What is written to x; if x is gone that is nothing.
Touches(x) ==
    /\ SameGraph(slots, slots')
    /\ \A k \in Key : slots'[k].state = "EMPTY" <=> slots[k].state = "EMPTY"
    /\ \A h \in Live(slots) : h # x =>
         /\ slots'[KeyOf(h)].state = slots[KeyOf(h)].state
         /\ slots'[KeyOf(h)].pin = slots[KeyOf(h)].pin
         /\ slots'[KeyOf(h)].retiring => slots[KeyOf(h)].retiring

\* The job of x leaves the queue.
LEMMA EraseStep ==
    ASSUME TypeOK, TypeOK', AssetInv, ~Ending, UNCHANGED <<size, free, cache>>, MainInv',
           NEW x, NEW i \in JobsOf(x), jobs' = EraseJob(i), Tries(x), Touches(x),
           x \in Live(slots) =>
              /\ slots'[KeyOf(x)].state \notin InProgress
              /\ slots'[KeyOf(x)].state = "PENDING_DELETE" => slots'[KeyOf(x)].pin = 0
              /\ ~slots'[KeyOf(x)].retiring,
           NEW cs, SettledBase(x, cs), calls' = cs
    PROVE  AssetInv'
  <1>1. x \in Handle /\ x \in Queued /\ Known(x)
    BY OpenJob DEF AssetInv, JobInv
  <1>2. /\ GoodJobs(jobs')
        /\ \A h : h \in Queued' <=> h \in Queued /\ h # x
        /\ \A h : h \in Open' <=> h \in Open /\ h # x
    BY JobErased
  <1>3. /\ \A k \in Key : /\ slots'[k].generation = slots[k].generation
                          /\ slots'[k].state = "EMPTY" <=> slots[k].state = "EMPTY"
        /\ \A k \in Key : slots'[k].dependents = slots[k].dependents
    BY DEF Touches, SameGraph
  <1>4. Starts
    BY <1>1, <1>3, TriesStarts
  <1>5. /\ \A h : h \in Unloading' => h = x
        /\ Resolves(slots', x) /\ slots'[KeyOf(x)].pin = 0 /\ slots'[KeyOf(x)].dependents = {}
                => x \in Unloading'
        /\ \A h : h \notin Unloading
    BY TriesFacts
  <1>6. SameBut(Dtors, Dtors', x)
    BY DEF SettledBase, Dtors
  <1>7. WorksOn(x)
    <2>1. SameBut(Queued, Queued', x) /\ SameBut(Open, Open', x) /\ SameBut(Unloading, Unloading', x)
      BY <1>2, <1>5 DEF SameBut
    <2> QED
      BY <1>6, <2>1 DEF WorksOn, Touches
  <1>8. LeavesWell(x)
    <2>1. ASSUME x \in Live(slots), ~(slots'[KeyOf(x)].pin > 0), slots'[KeyOf(x)].dependents = {}
          PROVE  x \in Unloading'
      <3>1. KeyOf(x) \in Key /\ x \in Live(slots') /\ slots' \in [Key -> Slot]
        BY <1>1, <1>3, <2>1, SameLive, TypePrimes, KeyFacts
      <3>2. Resolves(slots', x)
        BY <3>1, LiveFacts
      <3>3. slots'[KeyOf(x)].pin \in Nat
        BY <3>1 DEF Slot
      <3> QED
        BY <1>5, <2>1, <3>2, <3>3
    <2>2. x \notin Open' /\ x \notin Queued'
      BY <1>2
    <2> QED
      BY <2>1, <2>2 DEF LeavesWell
  <1>9. CallsOn(x, cs)
    BY DEF SettledBase, CallsOn
  <1> QED
    BY <1>2, <1>4, <1>7, <1>8, <1>9, AssetStep

\* The loader of x is to be destroyed: its destroy callback c runs on top of cs.
LEMMA DtorStep ==
    ASSUME TypeOK, TypeOK', AssetInv, ~Ending, UNCHANGED <<size, free, cache, unload>>, MainInv',
           NEW x \in Queued, Touches(x), GoodJobs(jobs'),
           \A h : h \in Queued' <=> h \in Queued,
           \A h : h # x => (h \in Open' <=> h \in Open), x \in Open' => x \in Open,
           x \in Live(slots) =>
              /\ \/ slots'[KeyOf(x)].state = slots[KeyOf(x)].state /\ (x \in Open => x \in Open')
                 \/ slots'[KeyOf(x)].state = "FAILED" /\ x \notin Open'
              /\ slots'[KeyOf(x)].pin = slots[KeyOf(x)].pin,
           NEW cs, SettledBase(x, cs),
           NEW c \in Call, calls' = Append(cs, c), c.op = "dtor", c.handle = x, ~c.dangling,
           c.erase => x \notin Open', ~c.found => ~Resolves(slots, x)
    PROVE  AssetInv'
  <1>1. x \in Handle /\ x \in Queued /\ Known(x)
    BY QueueTypes DEF AssetInv, JobInv
  <1>2. \A k \in Key : /\ slots'[k].generation = slots[k].generation
                       /\ slots'[k].state = "EMPTY" <=> slots[k].state = "EMPTY"
                       /\ slots'[k].dependencies = slots[k].dependencies
                       /\ slots'[k].dependents = slots[k].dependents
    BY DEF Touches, SameGraph
  <1>3. Fits(c, cs) /\ cs \in Seq(Call) /\ Pairs(cs)
    BY DEF Fits, SettledBase
  <1>4. \A h : h \in DtorsOf(calls') <=> h \in DtorsOf(cs) \/ h = x
    BY <1>3, Pushed
  <1>5. SameBut(Dtors, Dtors', x) /\ x \in Dtors'
    BY <1>4 DEF SettledBase, SameBut, Dtors
  <1>6. \A h : h \in Unloading' <=> h \in Unloading
    BY DEF Unloading
  <1>7. WorksOn(x)
    <2>1. SameBut(Queued, Queued', x) /\ SameBut(Open, Open', x) /\ SameBut(Unloading, Unloading', x)
      BY <1>6 DEF SameBut
    <2> QED
      BY <1>5, <2>1 DEF WorksOn, Touches
  <1>8. x \in Queued'
    BY <1>1
  <1>9. LeavesWell(x)
    <2>1. ASSUME x \in Open'
          PROVE  /\ x \in Live(slots) /\ x \notin Unloading'
                 /\ slots'[KeyOf(x)].state \in InProgress \cup {"PENDING_DELETE"}
                 /\ slots'[KeyOf(x)].dependencies = {} /\ slots'[KeyOf(x)].dependents = {}
      <3>1. /\ x \in Live(slots) /\ x \notin Unloading
            /\ slots[KeyOf(x)].state \in InProgress \cup {"PENDING_DELETE"}
            /\ slots[KeyOf(x)].dependencies = {} /\ slots[KeyOf(x)].dependents = {}
        BY <2>1 DEF AssetInv, JobInv
      <3>2. slots'[KeyOf(x)].state = slots[KeyOf(x)].state
        BY <2>1, <3>1
      <3> QED
        BY <1>1, <1>2, <1>6, <3>1, <3>2, KeyFacts
    <2>2. ASSUME x \in Live(slots)
          PROVE  /\ slots'[KeyOf(x)].state = "PENDING_DELETE" => slots'[KeyOf(x)].pin = 0
                 /\ slots'[KeyOf(x)].state \in InProgress => x \in Open'
      <3>1. /\ slots[KeyOf(x)].state = "PENDING_DELETE" => slots[KeyOf(x)].pin = 0
            /\ slots[KeyOf(x)].state \in InProgress => x \in Open
        BY <1>1, <2>2, KeyFacts DEF AssetInv, PinInv, StateInv
      <3> QED
        BY <2>2, <3>1 DEF InProgress
    <2> QED
      BY <1>1, <1>5, <1>8, <2>1, <2>2 DEF LeavesWell
  <1>10. FrameOK(c)'
    <2>1. Known(x)' /\ (Gone(x)' <=> Gone(x))
      BY <1>1, <1>2, SameLive
    <2>2. ~c.found => Gone(x)
      BY <1>1, ResolvedLive
    <2> QED
      BY <1>8, <2>1, <2>2 DEF FrameOK
  <1>11. CallsOn(x, cs)
    BY <1>3, <1>10 DEF SettledBase, CallsOn
  <1>12. Starts
    BY DEF Starts
  <1> QED
    BY <1>7, <1>9, <1>11, <1>12, AssetStep

LEMMA TouchesNothing ==
    ASSUME slots' = slots, NEW x
    PROVE  Touches(x)
  BY DEF Touches, SameGraph

LEMMA RetiringWrites ==
    ASSUME NEW s \in [Key -> Slot], NEW l \in Key, NEW b \in BOOLEAN,
           NEW t, t = [s EXCEPT ![l].retiring = b]
    PROVE  \A k \in Key :
             /\ t[k].generation = s[k].generation /\ t[k].path = s[k].path
             /\ t[k].dependencies = s[k].dependencies /\ t[k].dependents = s[k].dependents
             /\ t[k].pin = s[k].pin /\ t[k].state = s[k].state
             /\ k # l => (t[k].retiring <=> s[k].retiring)
             /\ k = l => (t[k].retiring <=> b)
  <1>1. PICK e \in Slot : e = s[l]
    OBVIOUS
  <1>2. PICK f : f = [e EXCEPT !.retiring = b]
    OBVIOUS
  <1>3. /\ f.generation = e.generation /\ f.path = e.path
        /\ f.dependencies = e.dependencies /\ f.dependents = e.dependents
        /\ f.pin = e.pin /\ f.state = e.state /\ f.retiring = b
    BY <1>2 DEF Slot
  <1>4. t = [s EXCEPT ![l] = f]
    BY <1>1, <1>2
  <1>5. t[l] = f /\ \A k \in Key : k # l => t[k] = s[k]
    BY <1>4
  <1> QED
    BY <1>1, <1>3, <1>5

LEMMA TouchesRetiring ==
    ASSUME TypeOK, NEW x \in Live(slots), NEW b \in BOOLEAN,
           slots' = [slots EXCEPT ![KeyOf(x)].retiring = b]
    PROVE  /\ Touches(x)
           /\ slots'[KeyOf(x)].state = slots[KeyOf(x)].state
           /\ slots'[KeyOf(x)].pin = slots[KeyOf(x)].pin
           /\ (slots'[KeyOf(x)].retiring <=> b)
  <1>1. slots \in [Key -> Slot]
    BY TypeParts
  <1>2. x \in Handle /\ KeyOf(x) \in Key /\ H(KeyOf(x)) = x
    BY <1>1, LiveHandle DEF H
  <1>3. PICK t : t = [slots EXCEPT ![KeyOf(x)].retiring = b]
    OBVIOUS
  <1>4. /\ SameGraph(slots, t)
        /\ \A k \in Key : /\ t[k].pin = slots[k].pin /\ t[k].state = slots[k].state
                          /\ k # KeyOf(x) => (t[k].retiring <=> slots[k].retiring)
                          /\ k = KeyOf(x) => (t[k].retiring <=> b)
    BY <1>1, <1>2, <1>3, RetiringWrites DEF SameGraph
  <1>5. \A h \in Live(slots) : h # x => KeyOf(h) \in Key /\ KeyOf(h) # KeyOf(x)
    BY <1>1, <1>2, LiveHandle DEF H
  <1>6. slots' = t
    BY <1>3
  <1> QED
    BY <1>2, <1>4, <1>5, <1>6 DEF Touches

\* retire_load_job.
LEMMA RetireStep ==
    ASSUME TypeOK, TypeOK', AssetInv, ~Ending, UNCHANGED <<size, free, cache>>, MainInv',
           unload = <<>>, NEW x, NEW i \in JobsOf(x), Terminal(jobs[i]),
           NEW cs, SettledBase(x, cs), x \notin Dtors, Retire(i, cs)
    PROVE  AssetInv'
  <1>1. /\ x \in Handle /\ x \in Queued /\ x \notin Open /\ jobs[i].handle = x /\ GoodJobs(jobs)
    BY OpenJob
  <1>2. Known(x)
    BY <1>1 DEF AssetInv, JobInv
  <1>3. x \in Live(slots) =>
          /\ slots[KeyOf(x)].state \notin InProgress
          /\ slots[KeyOf(x)].state = "PENDING_DELETE" => slots[KeyOf(x)].pin = 0
          /\ ~slots[KeyOf(x)].retiring
    BY <1>1, KeyFacts DEF AssetInv, PinInv, StateInv
  <1>4. CASE jobs[i].built
    <2>1. PICK b \in BOOLEAN : b = Resolves(slots, x)
      BY DEF Resolves
    <2>2. PICK c : c = [NewCall("dtor", x) EXCEPT !.found = b]
      OBVIOUS
    <2>3. c \in Call
      BY <1>1, <2>2, CallTypes
    <2>4. c.op = "dtor" /\ c.handle = x /\ ~c.dangling /\ (c.found <=> b)
      BY <2>2 DEF NewCall
    <2>5. /\ calls' = Append(cs, c)
          /\ slots' = IF b THEN [slots EXCEPT ![KeyOf(x)].retiring = TRUE] ELSE slots
          /\ UNCHANGED <<jobs, unload>>
      BY <1>1, <1>4, <2>1, <2>2 DEF Retire
    <2>6. /\ Touches(x)
          /\ x \in Live(slots) => /\ slots'[KeyOf(x)].state = slots[KeyOf(x)].state
                                  /\ slots'[KeyOf(x)].pin = slots[KeyOf(x)].pin
      <3>1. CASE b
        <4>1. x \in Live(slots) /\ slots' = [slots EXCEPT ![KeyOf(x)].retiring = TRUE]
          BY <1>1, <1>2, <2>1, <2>5, <3>1, ResolvedLive
        <4> QED
          BY <4>1, TouchesRetiring
      <3>2. CASE ~b
        BY <2>5, <3>2, TouchesNothing
      <3> QED
        BY <3>1, <3>2
    <2>7. /\ GoodJobs(jobs') /\ \A h : h \in Queued' <=> h \in Queued
          /\ \A h : h \in Open' <=> h \in Open
      BY <1>1, <2>5 DEF Queued, Open
    <2>8. UNCHANGED unload /\ calls' = Append(cs, c)
      BY <2>5
    <2>9. ~c.found => ~Resolves(slots, x)
      BY <2>1, <2>4
    <2> QED
      BY <1>1, <2>3, <2>4, <2>6, <2>7, <2>8, <2>9, DtorStep
  <1>5. CASE ~jobs[i].built
    <2>1. calls' = cs /\ jobs' = EraseJob(i) /\ unload' = TryUnload(slots, x) /\ slots' = slots
      BY <1>1, <1>5 DEF Retire
    <2>2. Tries(x)
      BY <2>1 DEF Tries
    <2>3. Touches(x)
      BY <2>1, TouchesNothing
    <2>4. x \in Live(slots) =>
            /\ slots'[KeyOf(x)].state \notin InProgress
            /\ slots'[KeyOf(x)].state = "PENDING_DELETE" => slots'[KeyOf(x)].pin = 0
            /\ ~slots'[KeyOf(x)].retiring
      BY <1>3, <2>1
    <2> QED
      BY <2>1, <2>2, <2>3, <2>4, EraseStep
  <1> QED
    BY <1>4, <1>5

LEMMA SettledEmpty ==
    ASSUME calls = <<>>, NEW x
    PROVE  SettledBase(x, <<>>) /\ x \notin Dtors
  BY DEF SettledBase, Pairs, In, Dtors, DtorsOf, SameBut

\* An append of an erased job moves it to the end.
LEMMA JobMoved ==
    ASSUME TypeOK, AssetInv, NEW x, NEW i \in JobsOf(x),
           jobs' = Append(EraseJob(i), jobs[i])
    PROVE  /\ GoodJobs(jobs')
           /\ \A h : h \in Queued' <=> h \in Queued
           /\ \A h : h \in Open' <=> h \in Open
  <1>1. /\ i \in DOMAIN jobs /\ jobs[i].handle = x /\ GoodJobs(jobs) /\ jobs \in Seq(Job)
        /\ jobs[i] \in Job /\ jobs[i].optional = {} /\ x \in Queued
        /\ (x \in Open <=> ~Terminal(jobs[i]))
    BY OpenJob
  <1>2. PICK r : r = RemoveAt(jobs, i)
    OBVIOUS
  <1>3. LET r2 == RemoveAt(jobs, i)
        IN  /\ r2 \in Seq(Job) /\ GoodJobs(r2)
            /\ HandlesOf(r2) = HandlesOf(jobs) \ {jobs[i].handle}
            /\ OpenOf(r2) = OpenOf(jobs) \ {jobs[i].handle}
    BY <1>1, JobsErased
  <1>4. /\ r \in Seq(Job) /\ GoodJobs(r) /\ HandlesOf(r) = HandlesOf(jobs) \ {x}
        /\ OpenOf(r) = OpenOf(jobs) \ {x}
    BY <1>1, <1>2, <1>3
  <1>5. PICK f \in Job : f = jobs[i]
    BY <1>1
  <1>6. f.handle \notin HandlesOf(r) /\ f.optional = {} /\ f.handle = x
    BY <1>1, <1>4, <1>5
  <1>7. LET r2 == Append(r, f)
        IN  /\ GoodJobs(r2) /\ HandlesOf(r2) = HandlesOf(r) \cup {f.handle}
            /\ Terminal(f) => OpenOf(r2) = OpenOf(r)
            /\ ~Terminal(f) => OpenOf(r2) = OpenOf(r) \cup {f.handle}
    BY <1>4, <1>6, JobsAdded
  <1>8. jobs' = Append(r, f)
    BY <1>2, <1>5 DEF EraseJob
  <1>9. /\ GoodJobs(jobs') /\ HandlesOf(jobs') = HandlesOf(r) \cup {x}
        /\ Terminal(f) => OpenOf(jobs') = OpenOf(r)
        /\ ~Terminal(f) => OpenOf(jobs') = OpenOf(r) \cup {x}
    BY <1>6, <1>7, <1>8
  <1> QED
    BY <1>1, <1>4, <1>5, <1>9 DEF Queued, Open

LEMMA NobodyFacts ==
    ASSUME TypeOK
    PROVE  /\ NoHandle \notin Handle /\ NoHandle \notin Live(slots)
           /\ NoHandle \notin Queued /\ NoHandle \notin Open
  BY NoHandleAssumption, TypeParts, LiveFacts, QueueTypes

\* The callbacks cs are in order, and the loaders being destroyed are in them.
Kept(cs) ==
    /\ cs \in Seq(Call) /\ Pairs(cs)
    /\ \A d : In(d, cs) => d \in Call /\ FrameOK(d)
    /\ \A h : h \in DtorsOf(cs) <=> h \in Dtors

LEMMA KeptCalls ==
    ASSUME TypeOK, AssetInv
    PROVE  Kept(calls)
  <1>1. calls \in Seq(Call) /\ Pairs(calls)
    BY TypeParts DEF AssetInv, CallInv
  <1>2. \A d : In(d, calls) => d \in Call /\ FrameOK(d)
    BY <1>1 DEF In, AssetInv, CallInv
  <1> QED
    BY <1>1, <1>2 DEF Kept, Dtors

LEMMA KeptBelow ==
    ASSUME TypeOK, AssetInv, calls # <<>>, Top.op # "dtor"
    PROVE  Kept(Below)
  BY Popped DEF Kept, AssetInv

LEMMA KeptOn ==
    ASSUME TypeOK, NEW cs, Kept(cs), calls' = cs
    PROVE  CallsOn(NoHandle, cs)
  <1>1. \A d : In(d, cs) => d \in Call /\ FrameOK(d) /\ d.handle # NoHandle
    BY NoHandleAssumption DEF Kept, Call
  <1> QED
    BY <1>1 DEF Kept, CallsOn

\* A step of the loops below the callbacks, or of the list of jobs, or the
\* return of a callback that does nothing more.
LEMMA AssetSame ==
    ASSUME TypeOK, TypeOK', AssetInv, ~Ending,
           UNCHANGED <<slots, size, free, cache, unload>>, MainInv', NEW cs, Kept(cs), calls' = cs,
           GoodJobs(jobs'), \A h : h \in Queued' <=> h \in Queued,
           \A h : h \in Open' <=> h \in Open
    PROVE  AssetInv'
  <1>1. PICK x : x = NoHandle
    OBVIOUS
  <1>2. x \notin Handle /\ x \notin Live(slots) /\ x \notin Queued /\ x \notin Open
    BY <1>1, NobodyFacts
  <1>3. /\ \A h : h \in Dtors' <=> h \in Dtors
        /\ \A h : h \in Unloading' <=> h \in Unloading
    BY DEF Dtors, Unloading, Kept
  <1>4. WorksOn(x)
    BY <1>3 DEF WorksOn, SameGraph, SameBut
  <1>5. LeavesWell(x)
    BY <1>2 DEF LeavesWell
  <1>6. Starts
    BY DEF Starts
  <1>7. CallsOn(x, cs)
    BY <1>1, KeptOn
  <1> QED
    BY <1>4, <1>5, <1>6, <1>7, AssetStep

\* ... that leaves the jobs alone, too.
LEMMA AssetStill ==
    ASSUME TypeOK, TypeOK', AssetInv, ~Ending,
           UNCHANGED <<slots, size, free, cache, unload, jobs>>, MainInv', NEW cs, Kept(cs), calls' = cs
    PROVE  AssetInv'
  <1>1. /\ GoodJobs(jobs') /\ \A h : h \in Queued' <=> h \in Queued
        /\ \A h : h \in Open' <=> h \in Open
    BY DEF Queued, Open, AssetInv, JobInv
  <1> QED
    BY <1>1, AssetSame

LEMMA JobsLoopAfter ==
    ASSUME TypeOK, TypeOK', AssetInv, LoopAfter
    PROVE  AssetInv'
  <1>1. /\ main.op \in {"process", "drain"} /\ unload = <<>> /\ calls = <<>> /\ main \in Main
        /\ UNCHANGED <<size, free, cache>>
    BY TypeParts DEF LoopAfter, InLoop, InMain
  <1>2. PICK i \in JobsOf(main.current) :
           /\ main' = [main EXCEPT !.current = NoHandle, !.next = JobAfter(i),
                         !.progress = @ \/ (main.op = "drain"
                                            /\ (Terminal(jobs[i]) \/ jobs[i].phase # main.was))]
           /\ \/ Terminal(jobs[i]) /\ Retire(i, <<>>)
              \/ /\ ~Terminal(jobs[i]) /\ jobs[i].phase = "WaitingDependencies"
                 /\ jobs' = Append(EraseJob(i), jobs[i])
                 /\ UNCHANGED <<slots, calls, unload>>
              \/ /\ ~Terminal(jobs[i]) /\ jobs[i].phase # "WaitingDependencies"
                 /\ UNCHANGED <<slots, jobs, calls, unload>>
    BY DEF LoopAfter
  <1>3. main'.op = main.op
    BY <1>1, <1>2 DEF Main
  <1>4. MainInv' /\ ~Ending
    BY <1>1, <1>3 DEF MainInv, Ending
  <1>5. SettledBase(main.current, <<>>) /\ main.current \notin Dtors
    BY <1>1, SettledEmpty
  <1>6. CASE Terminal(jobs[i]) /\ Retire(i, <<>>)
    BY <1>1, <1>2, <1>4, <1>5, <1>6, RetireStep
  <1>7. CASE jobs' = Append(EraseJob(i), jobs[i]) /\ UNCHANGED <<slots, calls, unload>>
    <2>1. /\ GoodJobs(jobs') /\ \A h : h \in Queued' <=> h \in Queued
          /\ \A h : h \in Open' <=> h \in Open
      BY <1>2, <1>7, JobMoved
    <2> QED
      BY <1>1, <1>4, <1>7, <2>1, KeptCalls, AssetSame
  <1>8. CASE UNCHANGED <<slots, jobs, calls, unload>>
    BY <1>1, <1>4, <1>8, KeptCalls, AssetStill
  <1> QED
    BY <1>2, <1>6, <1>7, <1>8

LEMMA JobsBuildAfter ==
    ASSUME TypeOK, TypeOK', AssetInv, BuildAfter
    PROVE  AssetInv'
  <1> DEFINE x == Top.handle
  <1>1. /\ unload = <<>> /\ calls # <<>> /\ Top.op = "build"
        /\ UNCHANGED <<size, free, cache, main>>
    BY DEF BuildAfter, InCallback
  <1>2. ~Ending /\ MainInv' /\ CallInv
    BY <1>1, InsideFacts DEF AssetInv
  <1>3. PICK i \in JobsOf(x) :
          IF Terminal(jobs[i])
          THEN Retire(i, Append(Below, [Top EXCEPT !.settled = TRUE, !.outcome = jobs[i].outcome]))
          ELSE calls' = Below /\ UNCHANGED <<slots, jobs, unload>>
    BY DEF BuildAfter
  <1>4. CASE Terminal(jobs[i])
    <2>1. PICK c : c = [Top EXCEPT !.settled = TRUE, !.outcome = jobs[i].outcome]
      OBVIOUS
    <2>2. /\ Below \in Seq(Call) /\ Top \in Call /\ FrameOK(Top) /\ x \in Handle
          /\ Pairs(Below) /\ Fits(Top, Below)
          /\ \A h : h \in Dtors <=> h \in DtorsOf(Below)
          /\ \A d : In(d, Below) => d \in Call /\ FrameOK(d)
      BY <1>1, <1>2, Popped
    <2>3. jobs[i].outcome \in Outcomes
      BY <1>3, OpenJob DEF Job
    <2>4. c \in Call /\ c.handle = x /\ c.op = "build" /\ c.settled /\ (c.dangling <=> Top.dangling)
      BY <1>1, <2>1, <2>2, <2>3 DEF Call
    <2>5. FrameOK(c) /\ Fits(c, Below)
      BY <1>1, <2>2, <2>4 DEF FrameOK, Fits
    <2>6. \A d : In(d, Below) => d.handle # x
      BY <1>1, <2>2 DEF Fits
    <2>7. PICK cs \in Seq(Call) : cs = Append(Below, c)
      BY <2>2, <2>4, AppendFacts
    <2>8. /\ Pairs(cs)
          /\ \A h : h \in DtorsOf(cs) <=> h \in DtorsOf(Below)
          /\ \A d : In(d, cs) => d = c \/ In(d, Below)
      BY <2>2, <2>4, <2>5, <2>7, Pushed
    <2>9. SettledBase(x, cs)
      BY <2>2, <2>4, <2>5, <2>6, <2>8 DEF SettledBase, SameBut
    <2>10. x \notin Dtors
      BY <2>2, <2>6 DEF DtorsOf, In
    <2>11. Retire(i, cs)
      BY <1>3, <1>4, <2>1, <2>7
    <2> HIDE DEF x
    <2> QED
      BY <1>1, <1>2, <1>3, <1>4, <2>9, <2>10, <2>11, RetireStep
  <1>5. CASE ~Terminal(jobs[i])
    <2>1. calls' = Below /\ UNCHANGED <<slots, jobs, unload>>
      BY <1>3, <1>5
    <2>2. Kept(Below)
      BY <1>1, KeptBelow
    <2> QED
      BY <1>1, <1>2, <2>1, <2>2, AssetStill
  <1> QED
    BY <1>4, <1>5
=============================================================================
