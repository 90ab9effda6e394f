-------------------------- MODULE RenderGraph_proofs --------------------------
(***************************************************************************)
(* Proofs about RenderGraph, for any resources, passes, edges and bounds.   *)
(***************************************************************************)
EXTENDS RenderGraph, Folds, FiniteSetTheorems, SequenceTheorems, WellFoundedInduction, TLAPS

-----------------------------------------------------------------------------
(* Numbers and finite sets                                                  *)

LEMMA Least ==
    ASSUME NEW S \in SUBSET Nat, S # {}
    PROVE  \E x \in S : \A y \in S : x <= y
  <1> DEFINE less == {ss \in Nat \X Nat : ss[1] < ss[2]}
  <1>1. IsWellFoundedOn(less, Nat)
    BY NatLessThanWellFounded DEF OpToRel
  <1>2. \E x \in S : \A y \in S : <<y, x>> \notin less
    <2> HIDE DEF less
    <2> QED
      BY <1>1, WFMin
  <1>3. PICK x \in S : \A y \in S : <<y, x>> \notin less
    BY <1>2
  <1>4. ASSUME NEW y \in S
        PROVE  x <= y
    <2>1. ~(y < x)
      <3> SUFFICES ASSUME y < x PROVE FALSE
        OBVIOUS
      <3>1. <<y, x>> \in less
        OBVIOUS
      <3> QED
        BY <3>1, <1>3
    <2> QED
      BY <2>1
  <1> QED
    BY <1>4

LEMMA MinIs ==
    ASSUME NEW S \in SUBSET Nat, S # {}
    PROVE  Min(S) \in S /\ \A y \in S : Min(S) <= y
  BY Least DEF Min

\* InOrder lists the elements of a finite set of numbers, each once.
LEMMA InOrderLists ==
    ASSUME NEW S \in SUBSET Nat, IsFiniteSet(S)
    PROVE  /\ InOrder(S) \in Seq(S)
           /\ \A n \in S : \E i \in DOMAIN InOrder(S) : InOrder(S)[i] = n
           /\ \A i, j \in DOMAIN InOrder(S) : InOrder(S)[i] = InOrder(S)[j] => i = j
  <1> DEFINE below(n) == {m \in S : m <= n}
             c == Cardinality(S)
             rank == [n \in S |-> Cardinality(below(n))]
  <1>1. c \in Nat
    BY FS_CardinalityType
  <1>2. ASSUME NEW n \in S
        PROVE  IsFiniteSet(below(n)) /\ Cardinality(below(n)) \in 1..c
    <2>1. below(n) \subseteq S /\ n \in below(n)
      OBVIOUS
    <2>2. IsFiniteSet(below(n)) /\ Cardinality(below(n)) <= c
      BY <2>1, FS_Subset
    <2>3. Cardinality(below(n)) # 0
      BY <2>1, <2>2, FS_EmptySet
    <2> QED
      BY <2>2, <2>3, <1>1, FS_CardinalityType
  <1>3. rank \in [S -> 1..c]
    BY <1>2
  <1>4. ASSUME NEW m \in S, NEW n \in S, m < n
        PROVE  rank[m] < rank[n]
    <2>0. m \in Nat /\ n \in Nat /\ \A x \in S : x \in Nat
      OBVIOUS
    <2>4. ASSUME NEW x \in S, x <= m
          PROVE  x <= n
      BY <1>4, <2>0, <2>4
    <2>1. below(m) \subseteq below(n) /\ n \in below(n) /\ n \notin below(m)
      <3>1. n <= n /\ ~(n <= m)
        BY <1>4, <2>0
      <3> QED
        BY <2>4, <3>1
    <2>2. below(m) # below(n)
      BY <2>1
    <2>3. Cardinality(below(m)) <= Cardinality(below(n)) /\
          (Cardinality(below(m)) = Cardinality(below(n)) => below(m) = below(n))
      BY <1>2, <2>1, FS_Subset
    <2> QED
      BY <2>2, <2>3, <1>2
  <1>5. \A m, n \in S : rank[m] = rank[n] => m = n
    <2> SUFFICES ASSUME NEW m \in S, NEW n \in S, rank[m] = rank[n], m # n
                 PROVE  FALSE
      OBVIOUS
    <2>1. m < n \/ n < m
      OBVIOUS
    <2>2. rank[m] \in Nat /\ rank[n] \in Nat
      BY <1>3
    <2> HIDE DEF rank
    <2> QED
      BY <2>1, <2>2, <1>4
  <1>6. \A i \in 1..c : \E n \in S : rank[n] = i
    <2> HIDE DEF rank
    <2>1. IsFiniteSet(1..c) /\ Cardinality(1..c) = c
      BY <1>1, FS_Interval
    <2>2. rank \in Injection(S, 1..c)
      BY <1>3, <1>5 DEF Injection, IsInjective
    <2>3. rank \in Surjection(S, 1..c)
      BY <2>1, <2>2, FS_Injection
    <2> QED
      BY <2>3 DEF Surjection
  <1>7. \A i \in 1..c : InOrder(S)[i] \in S /\ rank[InOrder(S)[i]] = i
    <2> SUFFICES ASSUME NEW i \in 1..c
                 PROVE  InOrder(S)[i] \in S /\ rank[InOrder(S)[i]] = i
      OBVIOUS
    <2>1. \E n \in S : Cardinality(below(n)) = i
      BY <1>6
    <2>2. InOrder(S)[i] = CHOOSE n \in S : Cardinality(below(n)) = i
      BY DEF InOrder
    <2> QED
      BY <2>1, <2>2
  <1>8. InOrder(S) \in [1..c -> S]
    BY <1>7 DEF InOrder
  <1>9. DOMAIN InOrder(S) = 1..c
    BY <1>8
  <1>10. InOrder(S) \in Seq(S)
    BY <1>1, <1>8
  <1>11. \A n \in S : \E i \in DOMAIN InOrder(S) : InOrder(S)[i] = n
    <2> SUFFICES ASSUME NEW n \in S
                 PROVE  \E i \in 1..c : InOrder(S)[i] = n
      BY <1>9
    <2>1. rank[n] \in 1..c
      BY <1>3
    <2> HIDE DEF rank
    <2>2. InOrder(S)[rank[n]] = n
      BY <2>1, <1>5, <1>7
    <2> QED
      BY <2>1, <2>2
  <1>12. \A i, j \in 1..c : InOrder(S)[i] = InOrder(S)[j] => i = j
    <2> HIDE DEF rank
    <2> QED
      BY <1>7
  <1> QED
    BY <1>9, <1>10, <1>11, <1>12

-----------------------------------------------------------------------------
(* What is recorded                                                         *)

Resource == [class : Classes, manage : {"Managed", "Imported", "SubResource"},
             of : Imported \cup {None}, sub : Nat, hold : BOOLEAN]
EdgeType == [res : Nat, usage : Usages]
PassTypes == {"render", "compute", "holdon", "upload", "present"}
PassRecord == [type : PassTypes, reads : Seq(EdgeType), writes : Seq(EdgeType), staging : Nat]

\* A managed resource that a pass writes is read by the pass too, or is the only
\* thing that it writes.
WritesOK(pass, rs) ==
    \A i \in DOMAIN pass.writes :
      rs[pass.writes[i].res].manage = "Managed" =>
        \/ pass.writes[i].res \in Ends(pass.reads)
        \/ /\ Len(pass.writes) = 1
           /\ \/ pass.type = "upload"
              \/ pass.type = "render" /\ pass.writes[i].usage = "target"

\* A pass names resources that there are, and only uploads, render and compute
\* passes write.
PassOK(pass, rs) ==
    /\ pass \in PassRecord
    /\ Ends(pass.reads) \cup Ends(pass.writes) \subseteq DOMAIN rs
    /\ pass.type \in {"holdon", "present"} => pass.writes = <<>>
    /\ ~MultiTarget => WritesOK(pass, rs)

RecordInv ==
    /\ phase \in {"record", "compile", "cull", "execute", "gpu"}
    /\ resources \in Seq(Resource)
    /\ passes \in Seq(PassRecord)
    /\ \A p \in DOMAIN passes : PassOK(passes[p], resources)
    /\ phase # "record" => passes # <<>>

\* Resources are added behind the others.
Longer(rs, more) ==
    /\ more \in Seq(Resource)
    /\ Len(rs) <= Len(more)
    /\ \A r \in DOMAIN rs : more[r] = rs[r]

LEMMA LongerAppend ==
    ASSUME NEW rs \in Seq(Resource), NEW x \in Resource
    PROVE  Longer(rs, Append(rs, x))
  BY DEF Longer

LEMMA LongerTwice ==
    ASSUME NEW rs \in Seq(Resource), NEW x \in Resource, NEW y \in Resource
    PROVE  Longer(rs, Append(Append(rs, x), y))
  <1>1. Append(rs, x) \in Seq(Resource)
    OBVIOUS
  <1> QED
    BY <1>1 DEF Longer

LEMMA PassOKLonger ==
    ASSUME NEW rs \in Seq(Resource), NEW more, Longer(rs, more), NEW pass, PassOK(pass, rs)
    PROVE  PassOK(pass, more)
  <1>1. DOMAIN rs \subseteq DOMAIN more
    BY DEF Longer
  <1>2. \A i \in DOMAIN pass.writes : pass.writes[i].res \in DOMAIN rs
    BY DEF PassOK, Ends
  <1>3. ~MultiTarget => WritesOK(pass, more)
    BY <1>2 DEF PassOK, WritesOK, Longer
  <1> QED
    BY <1>1, <1>3 DEF PassOK

\* Passes are added behind the others.
LEMMA PassesGrow ==
    ASSUME RecordInv, Longer(resources, resources'), NEW new \in Seq(PassRecord),
           passes' = passes \o new, \A i \in DOMAIN new : PassOK(new[i], resources')
    PROVE  passes' \in Seq(PassRecord) /\ \A p \in DOMAIN passes' : PassOK(passes'[p], resources')
  <1>1. passes \in Seq(PassRecord) /\ resources \in Seq(Resource)
    BY DEF RecordInv
  <1>2. passes' \in Seq(PassRecord)
    BY <1>1
  <1>3. ASSUME NEW p \in DOMAIN passes'
        PROVE  PassOK(passes'[p], resources')
    <2>1. CASE p \in DOMAIN passes
      <3>1. passes'[p] = passes[p]
        BY <1>1, <2>1
      <3> QED
        BY <1>1, <3>1, <2>1, PassOKLonger DEF RecordInv
    <2>2. CASE p \notin DOMAIN passes
      <3>1. p - Len(passes) \in DOMAIN new /\ passes'[p] = new[p - Len(passes)]
        BY <1>1, <2>2
      <3> QED
        BY <3>1
    <2> QED
      BY <2>1, <2>2
  <1> QED
    BY <1>2, <1>3

LEMMA AppendAsConcat ==
    ASSUME NEW T, NEW s \in Seq(T), NEW x \in T
    PROVE  Append(s, x) = s \o <<x>>
  OBVIOUS

LEMMA EndsOfOne ==
    ASSUME NEW e
    PROVE  Ends(<<e>>) = {e.res}
  BY DEF Ends

LEMMA EndsConcat ==
    ASSUME NEW s \in Seq(EdgeType), NEW t \in Seq(EdgeType)
    PROVE  Ends(s \o t) = Ends(s) \cup Ends(t)
  <1>1. \A i \in DOMAIN s : i \in DOMAIN (s \o t) /\ (s \o t)[i] = s[i]
    OBVIOUS
  <1>2. \A i \in DOMAIN t : i + Len(s) \in DOMAIN (s \o t) /\ (s \o t)[i + Len(s)] = t[i]
    OBVIOUS
  <1>3. \A i \in DOMAIN (s \o t) :
          \/ i \in DOMAIN s /\ (s \o t)[i] = s[i]
          \/ i - Len(s) \in DOMAIN t /\ (s \o t)[i] = t[i - Len(s)]
    OBVIOUS
  <1>4. Ends(s \o t) \subseteq Ends(s) \cup Ends(t)
    BY <1>3 DEF Ends
  <1>5. Ends(s) \subseteq Ends(s \o t)
    BY <1>1 DEF Ends
  <1>6. Ends(t) \subseteq Ends(s \o t)
    <2> SUFFICES ASSUME NEW i \in DOMAIN t
                 PROVE  t[i].res \in Ends(s \o t)
      BY DEF Ends
    <2>1. i + Len(s) \in DOMAIN (s \o t) /\ (s \o t)[i + Len(s)].res = t[i].res
      BY <1>2
    <2> QED
      BY <2>1 DEF Ends
  <1> QED
    BY <1>4, <1>5, <1>6

LEMMA SubOfType ==
    ASSUME RecordInv, NEW r \in DOMAIN resources, NEW mip \in Nat
    PROVE  SubOf(r, mip) \in Resource /\ SubOf(r, mip).manage = "SubResource"
  <1>1. resources[r] \in Resource
    BY DEF RecordInv
  <1> QED
    BY <1>1 DEF SubOf, Resource

LEMMA ResourceTypes ==
    /\ \A class \in Classes, hold \in BOOLEAN : Managed(class, hold) \in Resource
    /\ \A class \in Classes, o \in Imported : ImportOf(class, o) \in Resource
  BY DEF Managed, ImportOf, Resource, None, Whole

LEMMA WithBackbufferLonger ==
    ASSUME RecordInv
    PROVE  Longer(resources, WithBackbuffer)
  <1>1. resources \in Seq(Resource)
    BY DEF RecordInv
  <1>2. Managed("texture", FALSE) \in Resource /\ ImportOf("texture", Backbuffer) \in Resource
    BY ResourceTypes DEF Classes, Imported
  <1> QED
    BY <1>1, <1>2, LongerAppend, LongerTwice DEF WithBackbuffer

\* Naming resources: no pass is recorded yet.
LEMMA DeclareKeeps ==
    ASSUME RecordInv, NEW rs, Longer(resources, rs), Declare(rs), phase' = phase
    PROVE  RecordInv'
  <1>1. resources' \in Seq(Resource) /\ passes' = <<>> /\ passes' = passes
    BY DEF Declare, Longer
  <1> QED
    BY <1>1 DEF RecordInv, Declare, Recording

\* A builder call extends the last pass.
Extended(pass, reads, writes) ==
    [pass EXCEPT !.reads = @ \o reads, !.writes = @ \o writes]

LEMMA AttachKeeps ==
    ASSUME RecordInv, NEW types, NEW r \in DOMAIN resources,
           NEW reads \in Seq(EdgeType), NEW writes \in Seq(EdgeType),
           Attach(types, r, reads, writes),
           PassOK(Extended(passes[Len(passes)], reads, writes), resources)
    PROVE  RecordInv'
  <1> DEFINE p == Len(passes)
  <1>1. /\ passes \in Seq(PassRecord) /\ p \in DOMAIN passes /\ p \in Nat
        /\ passes' = [passes EXCEPT ![p] = Extended(passes[p], reads, writes)]
        /\ resources' = resources /\ phase' = phase /\ phase = "record"
    <2>1. /\ passes \in Seq(PassRecord) /\ passes # <<>> /\ phase = "record"
          /\ resources' = resources /\ phase' = phase
      BY DEF RecordInv, Attach, Quiet, KeepSlot, Recording
    <2>2. passes' = [passes EXCEPT ![p].reads = @ \o reads, ![p].writes = @ \o writes]
      BY DEF Attach
    <2>3. p \in DOMAIN passes /\ p \in Nat
      BY <2>1
    <2>4. passes' = [passes EXCEPT ![p] = Extended(passes[p], reads, writes)]
      <3> HIDE DEF p
      <3> QED
        BY <2>2, <2>3 DEF Extended
    <2> QED
      BY <2>1, <2>3, <2>4
  <1>2. Extended(passes[p], reads, writes) \in PassRecord
    BY DEF PassOK
  <1>3. passes' \in Seq(PassRecord) /\ DOMAIN passes' = DOMAIN passes
    BY <1>1, <1>2
  <1>4. \A q \in DOMAIN passes' : PassOK(passes'[q], resources')
    BY <1>1, <1>3 DEF RecordInv
  <1> QED
    BY <1>1, <1>3, <1>4 DEF RecordInv

\* The last pass, as a builder call finds it.
LEMMA LastPass ==
    ASSUME RecordInv, passes # <<>>
    PROVE  /\ Len(passes) \in DOMAIN passes /\ PassOK(passes[Len(passes)], resources)
           /\ passes[Len(passes)] \in PassRecord /\ Last(passes) = passes[Len(passes)]
  BY DEF RecordInv, PassOK, Last

\* It is still as it should be if it reads more.
LEMMA ReadMore ==
    ASSUME RecordInv, NEW pass, PassOK(pass, resources), NEW e \in EdgeType,
           e.res \in DOMAIN resources
    PROVE  PassOK(Extended(pass, <<e>>, <<>>), resources)
  <1> DEFINE more == Extended(pass, <<e>>, <<>>)
  <1>1. pass \in PassRecord
    BY DEF PassOK
  <1>2. /\ more \in PassRecord /\ more.writes = pass.writes /\ more.type = pass.type
        /\ more.reads = pass.reads \o <<e>> /\ pass.reads \in Seq(EdgeType)
    <2>1. pass.reads \in Seq(EdgeType) /\ pass.writes \in Seq(EdgeType)
      BY <1>1 DEF PassRecord
    <2>2. pass.reads \o <<e>> \in Seq(EdgeType) /\ pass.writes \o <<>> = pass.writes
      BY <2>1
    <2> QED
      BY <1>1, <2>1, <2>2 DEF PassRecord, Extended
  <1>3. Ends(more.reads) = Ends(pass.reads) \cup {e.res}
    <2> HIDE DEF more
    <2>1. <<e>> \in Seq(EdgeType)
      OBVIOUS
    <2> QED
      BY <1>2, <2>1, EndsConcat, EndsOfOne
  <1>4. ~MultiTarget => WritesOK(more, resources)
    BY <1>2, <1>3 DEF PassOK, WritesOK
  <1>5. PassOK(more, resources)
    <2> HIDE DEF more
    <2> QED
      BY <1>2, <1>3, <1>4 DEF PassOK
  <1> QED
    BY <1>5

\* And if it writes more, and what it writes is read, or no managed target.
LEMMA WriteMore ==
    ASSUME RecordInv, NEW pass, PassOK(pass, resources), pass.type \in {"render", "compute"},
           NEW reads \in Seq(EdgeType), NEW e \in EdgeType,
           e.res \in DOMAIN resources, Ends(reads) \subseteq {e.res},
           ~MultiTarget =>
             /\ pass.type = "compute" \/
                  \/ Len(Append(pass.writes, e)) = 1
                  \/ \A i \in DOMAIN Append(pass.writes, e) : ~ManagedTarget(Append(pass.writes, e)[i])
             /\ e.res \in Ends(reads) \/ (pass.type = "render" /\ e.usage = "target")
    PROVE  PassOK(Extended(pass, reads, <<e>>), resources)
  <1> DEFINE more == Extended(pass, reads, <<e>>)
  <1>1. pass \in PassRecord /\ pass.reads \in Seq(EdgeType) /\ pass.writes \in Seq(EdgeType)
    BY DEF PassOK, PassRecord
  <1>2. /\ more \in PassRecord /\ more.writes = Append(pass.writes, e) /\ more.type = pass.type
        /\ more.reads = pass.reads \o reads
    <2>1. pass.reads \o reads \in Seq(EdgeType) /\ pass.writes \o <<e>> \in Seq(EdgeType)
      BY <1>1
    <2>2. pass.writes \o <<e>> = Append(pass.writes, e)
      BY <1>1, AppendAsConcat
    <2> QED
      BY <1>1, <2>1, <2>2 DEF PassRecord, Extended
  <1>3. Ends(more.reads) = Ends(pass.reads) \cup Ends(reads)
    BY <1>1, <1>2, EndsConcat
  <1>4. Ends(more.writes) = Ends(pass.writes) \cup {e.res}
    <2>2. <<e>> \in Seq(EdgeType)
      OBVIOUS
    <2>1. <<e>> \in Seq(EdgeType) /\ Append(pass.writes, e) = pass.writes \o <<e>>
      <3> HIDE DEF more
      <3>1. pass.writes \in Seq(EdgeType)
        BY <1>1
      <3> QED
        BY <2>2, <3>1, AppendAsConcat
    <2> HIDE DEF more
    <2>3. Ends(pass.writes \o <<e>>) = Ends(pass.writes) \cup Ends(<<e>>)
      BY <1>1, <2>2, EndsConcat
    <2>4. Ends(<<e>>) = {e.res}
      BY EndsOfOne
    <2> QED
      BY <1>2, <2>1, <2>3, <2>4
  <1>5. ASSUME ~MultiTarget, NEW i \in DOMAIN more.writes,
               resources[more.writes[i].res].manage = "Managed"
        PROVE  \/ more.writes[i].res \in Ends(more.reads)
               \/ /\ Len(more.writes) = 1
                  /\ \/ more.type = "upload"
                     \/ more.type = "render" /\ more.writes[i].usage = "target"
    <2> HIDE DEF more
    <2>1. CASE i \in DOMAIN pass.writes
      <3>1. more.writes[i] = pass.writes[i] /\ Len(more.writes) # 1
        BY <1>1, <1>2, <2>1
      <3>2. \/ pass.writes[i].res \in Ends(pass.reads)
            \/ pass.type = "upload"
            \/ pass.type = "render" /\ pass.writes[i].usage = "target"
        BY <1>5, <2>1, <3>1 DEF PassOK, WritesOK
      <3>3. CASE pass.type = "render" /\ pass.writes[i].usage = "target"
        <4>1. ManagedTarget(more.writes[i])
          BY <1>5, <3>1, <3>3 DEF ManagedTarget, IsManaged
        <4> QED
          BY <1>2, <1>5, <3>1, <3>3, <4>1
      <3> QED
        BY <1>3, <3>1, <3>2, <3>3
    <2>2. CASE i \notin DOMAIN pass.writes
      <3>1. more.writes[i] = e /\ i = Len(pass.writes) + 1 /\ Len(more.writes) = i
        BY <1>1, <1>2, <2>2
      <3>2. CASE e.res \in Ends(reads)
        BY <1>3, <3>1, <3>2
      <3>3. CASE pass.type = "render" /\ e.usage = "target"
        <4>1. ManagedTarget(more.writes[i])
          BY <1>5, <3>1, <3>3 DEF ManagedTarget, IsManaged
        <4>2. Len(more.writes) = 1
          BY <1>2, <1>5, <3>3, <4>1
        <4> QED
          BY <1>2, <3>1, <3>3, <4>2
      <3> QED
        BY <1>5, <3>2, <3>3
    <2> QED
      BY <2>1, <2>2
  <1>6. ~MultiTarget => WritesOK(more, resources)
    BY <1>5 DEF WritesOK
  <1>7. more.type \notin {"holdon", "present"}
    BY <1>2
  <1>8. PassOK(more, resources)
    <2> HIDE DEF more
    <2> QED
      BY <1>2, <1>3, <1>4, <1>6, <1>7 DEF PassOK
  <1> QED
    BY <1>8

LEMMA EdgeTypes ==
    \A r \in Nat, usage \in Usages : Edge(r, usage) \in EdgeType /\ Edge(r, usage).res = r
                                      /\ Edge(r, usage).usage = usage
  BY DEF Edge, EdgeType

\* A builder call that only reads.
LEMMA ReadKeeps ==
    ASSUME RecordInv, NEW types, NEW r \in DOMAIN resources, NEW usage \in Usages,
           Attach(types, r, <<Edge(r, usage)>>, <<>>)
    PROVE  RecordInv'
  <1> DEFINE e == Edge(r, usage)
  <1>1. r \in Nat /\ resources \in Seq(Resource)
    BY DEF RecordInv
  <1>2. e \in EdgeType /\ e.res = r
    BY <1>1, EdgeTypes
  <1>3. PassOK(passes[Len(passes)], resources)
    BY LastPass DEF Attach
  <1> HIDE DEF e
  <1>4. PassOK(Extended(passes[Len(passes)], <<e>>, <<>>), resources)
    BY <1>2, <1>3, ReadMore
  <1>5. <<e>> \in Seq(EdgeType) /\ <<>> \in Seq(EdgeType)
    BY <1>2
  <1> QED
    BY <1>4, <1>5, AttachKeeps DEF e

\* A builder call that writes.
LEMMA WriteKeeps ==
    ASSUME RecordInv, NEW type \in {"render", "compute"}, NEW r \in DOMAIN resources,
           NEW reads \in Seq(EdgeType), Ends(reads) \subseteq {r}, NEW usage \in Usages,
           Attach({type}, r, reads, <<Edge(r, usage)>>),
           type = "compute" \/ TargetAlone(Edge(r, usage)),
           r \in Ends(reads) \/ (type = "render" /\ usage = "target")
    PROVE  RecordInv'
  <1> DEFINE e == Edge(r, usage)
             pass == passes[Len(passes)]
  <1>1. r \in Nat /\ resources \in Seq(Resource)
    BY DEF RecordInv
  <1>2. e \in EdgeType /\ e.res = r /\ e.usage = usage
    BY <1>1, EdgeTypes
  <1>3. PassOK(pass, resources) /\ Last(passes) = pass /\ pass.type = type
    BY LastPass DEF Attach
  <1>4. <<e>> \in Seq(EdgeType)
    BY <1>2
  <1>5. ~MultiTarget =>
             /\ pass.type = "compute" \/
                  \/ Len(Append(pass.writes, e)) = 1
                  \/ \A i \in DOMAIN Append(pass.writes, e) : ~ManagedTarget(Append(pass.writes, e)[i])
             /\ e.res \in Ends(reads) \/ (pass.type = "render" /\ e.usage = "target")
    BY <1>2, <1>3 DEF TargetAlone
  <1> HIDE DEF e, pass
  <1>6. PassOK(Extended(pass, reads, <<e>>), resources)
    BY <1>2, <1>3, <1>5, WriteMore
  <1> QED
    BY <1>4, <1>6, AttachKeeps DEF e, pass

LEMMA BuilderKeeps ==
    ASSUME RecordInv, NEW r \in DOMAIN resources,
           \/ ColorAttachment(r) \/ DepthAttachment(r) \/ Sample(r)
           \/ UseBuffer(r) \/ ReadWriteBuffer(r)
    PROVE  RecordInv'
  <1>1. {"undefined", "target", "depth", "sampled", "vertex", "storage"} \subseteq Usages
    BY DEF Usages
  <1>2. CASE ColorAttachment(r)
    <2>1. <<>> \in Seq(EdgeType) /\ Ends(<<>>) = {}
      BY DEF Ends
    <2> QED
      BY <1>1, <1>2, <2>1, WriteKeeps DEF ColorAttachment
  <1>3. ASSUME NEW usage \in Usages
        PROVE  <<Edge(r, usage)>> \in Seq(EdgeType) /\ Ends(<<Edge(r, usage)>>) = {r}
    <2>1. r \in Nat /\ resources \in Seq(Resource)
      BY DEF RecordInv
    <2>2. Edge(r, usage) \in EdgeType /\ Edge(r, usage).res = r
      BY <2>1, EdgeTypes
    <2> QED
      BY <2>2, EndsOfOne
  <1>4. CASE DepthAttachment(r)
    BY <1>1, <1>3, <1>4, WriteKeeps DEF DepthAttachment
  <1>5. CASE Sample(r)
    BY <1>1, <1>5, ReadKeeps DEF Sample
  <1>6. CASE UseBuffer(r)
    BY <1>1, <1>6, ReadKeeps DEF UseBuffer
  <1>7. CASE ReadWriteBuffer(r)
    BY <1>1, <1>3, <1>7, WriteKeeps DEF ReadWriteBuffer
  <1> QED
    BY <1>2, <1>4, <1>5, <1>6, <1>7

LEMMA DeclarationKeeps ==
    ASSUME RecordInv,
           \/ \E class \in {"texture", "depth"} : DeclareTexture(class)
           \/ DeclareBuffer
           \/ \E t \in Textures : ImportTexture(t)
           \/ \E b \in Buffers : ImportBuffer(b)
           \/ ImportBackbuffer
    PROVE  RecordInv'
  <1>1. resources \in Seq(Resource)
    BY DEF RecordInv
  <1>2. ASSUME NEW x \in Resource, Declare(Append(resources, x)), phase' = phase
        PROVE  RecordInv'
    BY <1>1, <1>2, LongerAppend, DeclareKeeps
  <1>3. CASE \E class \in {"texture", "depth"} : DeclareTexture(class)
    BY <1>2, <1>3, ResourceTypes DEF DeclareTexture, Quiet, KeepSlot, Classes
  <1>4. CASE DeclareBuffer
    BY <1>2, <1>4, ResourceTypes DEF DeclareBuffer, Quiet, KeepSlot, Classes
  <1>5. CASE \E t \in Textures : ImportTexture(t)
    BY <1>2, <1>5, ResourceTypes DEF ImportTexture, Quiet, KeepSlot, Classes, Imported
  <1>6. CASE \E b \in Buffers : ImportBuffer(b)
    BY <1>2, <1>6, ResourceTypes DEF ImportBuffer, Quiet, KeepSlot, Classes, Imported
  <1>7. CASE ImportBackbuffer
    BY <1>7, WithBackbufferLonger, DeclareKeeps DEF ImportBackbuffer, KeepSlot
  <1> QED
    BY <1>3, <1>4, <1>5, <1>6, <1>7

\* A new pass, with resources of its own.
LEMMA NewPassKeeps ==
    ASSUME RecordInv, Longer(resources, resources'), NEW pass, PassOK(pass, resources'),
           passes' = Append(passes, pass), phase' \in {"record", "compile"}
    PROVE  RecordInv'
  <1>1. passes \in Seq(PassRecord) /\ pass \in PassRecord /\ resources' \in Seq(Resource)
    BY DEF RecordInv, PassOK, Longer
  <1>2. passes' = passes \o <<pass>> /\ <<pass>> \in Seq(PassRecord) /\ passes' # <<>>
    BY <1>1, AppendAsConcat
  <1>3. \A i \in DOMAIN <<pass>> : PassOK(<<pass>>[i], resources')
    OBVIOUS
  <1>4. passes' \in Seq(PassRecord) /\ \A p \in DOMAIN passes' : PassOK(passes'[p], resources')
    BY <1>2, <1>3, PassesGrow
  <1> QED
    BY <1>1, <1>2, <1>4 DEF RecordInv

LEMMA PassIs ==
    ASSUME NEW type \in PassTypes, NEW reads \in Seq(EdgeType), NEW writes \in Seq(EdgeType),
           NEW staging \in Nat
    PROVE  /\ Pass(type, reads, writes, staging) \in PassRecord
           /\ Pass(type, reads, writes, staging).type = type
           /\ Pass(type, reads, writes, staging).reads = reads
           /\ Pass(type, reads, writes, staging).writes = writes
  BY DEF Pass, PassRecord

\* A pass of which the managed resource that it writes, if any, is uploaded.
LEMMA PassFits ==
    ASSUME NEW rs, NEW type \in PassTypes, NEW reads \in Seq(EdgeType),
           NEW writes \in Seq(EdgeType), NEW staging \in Nat,
           Ends(reads) \cup Ends(writes) \subseteq DOMAIN rs,
           type \in {"holdon", "present"} => writes = <<>>,
           \A i \in DOMAIN writes :
             rs[writes[i].res].manage = "Managed" => type = "upload" /\ Len(writes) = 1
    PROVE  PassOK(Pass(type, reads, writes, staging), rs)
  <1> DEFINE pass == Pass(type, reads, writes, staging)
  <1>1. /\ pass \in PassRecord /\ pass.type = type
        /\ pass.reads = reads /\ pass.writes = writes
    BY PassIs
  <1>2. PassOK(pass, rs)
    <2> HIDE DEF pass
    <2> QED
      BY <1>1 DEF PassOK, WritesOK
  <1> QED
    BY <1>2

LEMMA NoEdges == <<>> \in Seq(EdgeType) /\ Ends(<<>>) = {}
  BY DEF Ends

LEMMA OneEdge ==
    ASSUME NEW e \in EdgeType
    PROVE  /\ <<e>> \in Seq(EdgeType) /\ Ends(<<e>>) = {e.res} /\ Len(<<e>>) = 1
           /\ \A i \in DOMAIN <<e>> : <<e>>[i] = e
  <1>1. <<e>> \in Seq(EdgeType) /\ Len(<<e>>) = 1 /\ \A i \in DOMAIN <<e>> : <<e>>[i] = e
    OBVIOUS
  <1> QED
    BY <1>1, EndsOfOne

\* What an upload, a mipmap and the presentation add.
LEMMA PassOfTwo ==
    ASSUME NEW rs, NEW type \in {"render", "upload"}, NEW staging \in Nat,
           NEW e \in EdgeType, NEW f \in EdgeType, {e.res, f.res} \subseteq DOMAIN rs,
           type = "upload" \/ rs[f.res].manage # "Managed"
    PROVE  PassOK(Pass(type, <<e>>, <<f>>, staging), rs)
  <1> DEFINE reads == <<e>>
             writes == <<f>>
  <1>1. /\ reads \in Seq(EdgeType) /\ Ends(reads) = {e.res}
        /\ writes \in Seq(EdgeType) /\ Ends(writes) = {f.res}
        /\ Len(writes) = 1 /\ \A i \in DOMAIN writes : writes[i] = f
    BY OneEdge
  <1>2. type \in PassTypes /\ type \notin {"holdon", "present"}
    BY DEF PassTypes
  <1>3. PassOK(Pass(type, reads, writes, staging), rs)
    <2> HIDE DEF reads, writes
    <2> QED
      BY <1>1, <1>2, PassFits
  <1> QED
    BY <1>3

LEMMA PassOfOne ==
    ASSUME NEW rs, NEW type \in PassTypes, NEW reads \in Seq(EdgeType), Ends(reads) \subseteq DOMAIN rs
    PROVE  PassOK(Pass(type, reads, <<>>, None), rs)
  <1> DEFINE writes == <<>>
  <1>1. writes \in Seq(EdgeType) /\ Ends(writes) = {} /\ DOMAIN writes = {}
    BY NoEdges
  <1>2. None \in Nat
    BY DEF None
  <1>3. type \in {"holdon", "present"} => writes = <<>>
    OBVIOUS
  <1>4. PassOK(Pass(type, reads, writes, None), rs)
    <2> HIDE DEF writes
    <2> QED
      BY <1>1, <1>2, <1>3, PassFits
  <1> QED
    BY <1>4

LEMMA AddPassKeeps ==
    ASSUME RecordInv, NEW type \in {"render", "compute", "holdon"}, AddPass(type)
    PROVE  RecordInv'
  <1> DEFINE pass == Pass(type, <<>>, <<>>, None)
  <1>1. type \in PassTypes /\ None \in Nat
    BY DEF PassTypes, None
  <1>3. PassOK(pass, resources)
    BY <1>1, NoEdges, PassOfOne
  <1>4. /\ resources' = resources /\ passes' = Append(passes, pass)
        /\ phase' = "record" /\ Longer(resources, resources')
    BY DEF AddPass, Quiet, KeepSlot, MayAdd, Recording, RecordInv, Longer
  <1> HIDE DEF pass
  <1> QED
    BY <1>3, <1>4, NewPassKeeps

LEMMA UploadPassKeeps ==
    ASSUME RecordInv, NEW rs, Longer(resources, rs), NEW dest \in DOMAIN rs,
           AddUpload("upload", rs, dest)
    PROVE  RecordInv'
  <1> DEFINE staging == Len(rs) + 1
             pass == Pass("upload", <<Edge(staging, "copy_source")>>, <<Edge(dest, "copy_dest")>>, staging)
  <1>1. rs \in Seq(Resource) /\ Managed("staging", TRUE) \in Resource
    BY ResourceTypes DEF Longer, Classes
  <1>2. /\ resources' = Append(rs, Managed("staging", TRUE))
        /\ passes' = Append(passes, pass) /\ phase' = "record"
    BY DEF AddUpload, Quiet, KeepSlot, MayAdd, Recording
  <1>3. Longer(resources, resources')
    <2>1. rs \in Seq(Resource) /\ resources' \in Seq(Resource) /\ Len(resources') = Len(rs) + 1
          /\ \A i \in DOMAIN rs : resources'[i] = rs[i]
      <3>1. ASSUME NEW x \in Resource
            PROVE  /\ Append(rs, x) \in Seq(Resource) /\ Len(Append(rs, x)) = Len(rs) + 1
                   /\ \A i \in DOMAIN rs : Append(rs, x)[i] = rs[i]
        BY <1>1
      <3> QED
        BY <1>1, <1>2, <3>1
    <2>2. DOMAIN resources \subseteq DOMAIN rs /\ Len(resources) \in Nat
      BY DEF RecordInv, Longer
    <2> QED
      BY <2>1, <2>2 DEF Longer
  <1>4. staging \in Nat /\ dest \in Nat /\ staging \in DOMAIN resources' /\ dest \in DOMAIN resources'
    BY <1>1, <1>2
  <1>5. /\ Edge(staging, "copy_source") \in EdgeType /\ Edge(staging, "copy_source").res = staging
        /\ Edge(dest, "copy_dest") \in EdgeType /\ Edge(dest, "copy_dest").res = dest
    BY <1>4, EdgeTypes DEF Usages
  <1>9. PassOK(pass, resources')
    <2> HIDE DEF staging
    <2> QED
      BY <1>4, <1>5, PassOfTwo
  <1> HIDE DEF pass
  <1> QED
    BY <1>2, <1>3, <1>9, NewPassKeeps

LEMMA UploadKeeps ==
    ASSUME RecordInv, NEW r \in DOMAIN resources,
           UploadBuffer(r) \/ \E mip \in 1..Mips : UploadTexture(r, mip)
    PROVE  RecordInv'
  <1>1. resources \in Seq(Resource) /\ r \in Nat
    BY DEF RecordInv
  <1>2. Longer(resources, resources)
    BY <1>1 DEF Longer
  <1>3. CASE AddUpload("upload", resources, r)
    BY <1>2, <1>3, UploadPassKeeps
  <1>4. ASSUME NEW mip \in 1..Mips,
               AddUpload("upload", Append(resources, SubOf(r, mip)), Len(resources) + 1)
        PROVE  RecordInv'
    <2>1. mip \in Nat
      BY RenderGraphAssumption DEF RenderGraphAssumption
    <2>2. SubOf(r, mip) \in Resource
      BY <2>1, SubOfType
    <2>3. Longer(resources, Append(resources, SubOf(r, mip)))
      BY <1>1, <2>2, LongerAppend
    <2>4. Len(resources) + 1 \in DOMAIN Append(resources, SubOf(r, mip))
      BY <1>1, <2>2
    <2> QED
      BY <1>4, <2>3, <2>4, UploadPassKeeps
  <1> QED
    BY <1>3, <1>4 DEF UploadBuffer, UploadTexture

LEMMA MipmapKeeps ==
    ASSUME RecordInv, NEW r \in DOMAIN resources, GenerateMipmap(r)
    PROVE  RecordInv'
  <1> DEFINE base == Len(resources)
             subs == [i \in 1..Mips |-> SubOf(r, i)]
             pass(i) == Pass("render", <<Edge(base + i, "sampled")>>,
                             <<Edge(base + i + 1, "target")>>, None)
             new == [i \in 1..Mips - 1 |-> pass(i)]
  <1>1. resources \in Seq(Resource) /\ base \in Nat /\ Mips \in Nat \ {0}
    BY RenderGraphAssumption DEF RecordInv, RenderGraphAssumption
  <1>2. resources' = resources \o subs /\ passes' = passes \o new /\ phase' = "record"
    BY DEF GenerateMipmap, Quiet, KeepSlot, MayAdd, Recording
  <1>3. \A i \in 1..Mips : SubOf(r, i) \in Resource /\ SubOf(r, i).manage = "SubResource"
    BY <1>1, SubOfType
  <1>4. subs \in Seq(Resource) /\ Len(subs) = Mips
    BY <1>1, <1>3
  <1>5. /\ Longer(resources, resources') /\ Len(resources') = base + Mips
        /\ resources' \in Seq(Resource)
        /\ \A i \in 1..Mips : resources'[base + i] = SubOf(r, i)
    <2> HIDE DEF subs
    <2>1. resources' \in Seq(Resource) /\ Len(resources') = base + Mips
      <3>2. ASSUME NEW t \in Seq(Resource)
            PROVE  resources \o t \in Seq(Resource) /\ Len(resources \o t) = base + Len(t)
        BY <1>1
      <3>1. Len(resources') = Len(resources) + Len(subs) /\ resources' \in Seq(Resource)
        BY <1>2, <1>4, <3>2
      <3> QED
        BY <1>4, <3>1
    <2>2. \A i \in 1..Mips : resources'[base + i] = subs[i]
      BY <1>1, <1>2, <1>4
    <2>3. \A i \in DOMAIN resources : resources'[i] = resources[i]
      BY <1>1, <1>2, <1>4
    <2> QED
      BY <1>1, <2>1, <2>2, <2>3 DEF Longer, subs
  <1>6. ASSUME NEW i \in 1..Mips - 1
        PROVE  PassOK(pass(i), resources')
    <2> DEFINE x == base + i
               y == base + i + 1
    <2>1. x \in DOMAIN resources' /\ y \in DOMAIN resources' /\ x \in Nat /\ y \in Nat
          /\ resources'[y].manage = "SubResource"
      <3>1. i \in 1..Mips /\ i + 1 \in 1..Mips /\ y = base + (i + 1)
        BY <1>1
      <3>2. resources'[base + (i + 1)] = SubOf(r, i + 1)
        BY <3>1, <1>5
      <3> QED
        BY <1>1, <1>3, <1>5, <3>1, <3>2
    <2>2. /\ Edge(x, "sampled") \in EdgeType /\ Edge(x, "sampled").res = x
          /\ Edge(y, "target") \in EdgeType /\ Edge(y, "target").res = y
      BY <2>1, EdgeTypes DEF Usages
    <2>3. None \in Nat
      BY DEF None
    <2> HIDE DEF x, y
    <2>4. PassOK(Pass("render", <<Edge(x, "sampled")>>, <<Edge(y, "target")>>, None), resources')
      BY <2>1, <2>2, <2>3, PassOfTwo
    <2> QED
      BY <2>4 DEF x, y
  <1>7. \A i \in 1..Mips - 1 : pass(i) \in PassRecord
    BY <1>6 DEF PassOK
  <1>8. new \in Seq(PassRecord) /\ DOMAIN new = 1..Mips - 1
    <2> HIDE DEF pass
    <2> QED
      BY <1>1, <1>7
  <1>9. \A i \in DOMAIN new : PassOK(new[i], resources')
    <2> HIDE DEF pass
    <2> QED
      BY <1>6
  <1> HIDE DEF new
  <1>10. passes' \in Seq(PassRecord) /\ \A p \in DOMAIN passes' : PassOK(passes'[p], resources')
    BY <1>2, <1>5, <1>8, <1>9, PassesGrow
  <1> QED
    BY <1>2, <1>5, <1>10 DEF RecordInv

LEMMA PresentKeeps ==
    ASSUME RecordInv, Present
    PROVE  RecordInv'
  <1> DEFINE r == CHOOSE n \in DOMAIN resources' : resources'[n].of = Backbuffer
             pass == Pass("present", <<Edge(r, "present")>>, <<>>, None)
  <1>1. resources' = WithBackbuffer /\ passes' = Append(passes, pass) /\ phase' = "compile"
    BY DEF Present
  <1>2. Longer(resources, resources')
    BY <1>1, WithBackbufferLonger
  <1>3. \E n \in DOMAIN resources' : resources'[n].of = Backbuffer
    <2> DEFINE stray == Append(resources, Managed("texture", FALSE))
               image == ImportOf("texture", Backbuffer)
    <2>1. /\ resources \in Seq(Resource) /\ stray \in Seq(Resource) /\ image \in Resource
          /\ Append(stray, image) \in Seq(Resource)
      <3>1. resources \in Seq(Resource)
        BY DEF RecordInv
      <3>2. Managed("texture", FALSE) \in Resource /\ image \in Resource
        BY ResourceTypes DEF Classes, Imported
      <3> HIDE DEF image
      <3>3. \A x, y \in Resource :
                Append(resources, x) \in Seq(Resource) /\ Append(Append(resources, x), y) \in Seq(Resource)
        BY <3>1
      <3> QED
        BY <3>1, <3>2, <3>3
    <2>2. CASE \E n \in DOMAIN resources : resources[n].of = Backbuffer
      BY <1>2, <2>1, <2>2 DEF Longer
    <2>3. CASE ~\E n \in DOMAIN resources : resources[n].of = Backbuffer
      <3>1. resources' = Append(stray, image)
        BY <1>1, <2>3 DEF WithBackbuffer
      <3>2. image.of = Backbuffer
        BY DEF ImportOf
      <3> HIDE DEF stray, image
      <3>3. Len(resources') \in DOMAIN resources' /\ resources'[Len(resources')] = image
        BY <2>1, <3>1
      <3> QED
        BY <3>2, <3>3
    <2> QED
      BY <2>2, <2>3
  <1>4. r \in DOMAIN resources' /\ r \in Nat
    BY <1>2, <1>3 DEF Longer
  <1> HIDE DEF r
  <1>5. Edge(r, "present") \in EdgeType /\ Edge(r, "present").res = r
    BY <1>4, EdgeTypes DEF Usages
  <1>6. "present" \in PassTypes
    BY DEF PassTypes
  <1>8. PassOK(pass, resources')
    BY <1>4, <1>5, <1>6, OneEdge, PassOfOne
  <1> HIDE DEF pass
  <1> QED
    BY <1>1, <1>2, <1>8, NewPassKeeps

\* Recording keeps what is recorded in order.
LEMMA RecordingKeeps ==
    ASSUME RecordInv, Record
    PROVE  RecordInv'
  <1>1. CASE \E r \in DOMAIN resources :
               \/ ColorAttachment(r) \/ DepthAttachment(r) \/ Sample(r)
               \/ UseBuffer(r) \/ ReadWriteBuffer(r)
    BY <1>1, BuilderKeeps
  <1>2. CASE \E r \in DOMAIN resources :
               UploadBuffer(r) \/ \E mip \in 1..Mips : UploadTexture(r, mip)
    BY <1>2, UploadKeeps
  <1>3. CASE \E r \in DOMAIN resources : GenerateMipmap(r)
    BY <1>3, MipmapKeeps
  <1>4. CASE \E type \in {"render", "compute", "holdon"} : AddPass(type)
    BY <1>4, AddPassKeeps
  <1>5. CASE Present
    BY <1>5, PresentKeeps
  <1> QED
    BY <1>1, <1>2, <1>3, <1>4, <1>5, DeclarationKeeps DEF Record

LEMMA RecordNext ==
    ASSUME RecordInv, [Next]_vars
    PROVE  RecordInv'
  <1>1. CASE Record
    BY <1>1, RecordingKeeps
  <1>2. CASE BeginFrame
    <2>1. phase' = "record" /\ resources' = <<>> /\ passes' = <<>>
      BY <1>2 DEF BeginFrame
    <2> QED
      BY <2>1 DEF RecordInv
  <1>3. CASE ~Record /\ ~BeginFrame
    <2>1. /\ UNCHANGED recorded
          /\ \/ phase' = phase
             \/ phase # "record" /\ phase' \in {"cull", "execute", "gpu"}
      BY <1>3 DEF Next, StartCulling, Cull, StartExecution, Devirtualize, ExecutePass, GpuPass,
                  Executing, vars
    <2> QED
      BY <2>1 DEF RecordInv, recorded
  <1> QED
    BY <1>1, <1>2, <1>3

LEMMA RecordInit == Init => RecordInv
  BY DEF Init, RecordInv

-----------------------------------------------------------------------------
(* The graph, and culling                                                   *)

LEMMA NodeFacts ==
    ASSUME RecordInv
    PROVE  /\ PassCount \in Nat /\ Len(resources) \in Nat
           /\ IsFiniteSet(Nodes) /\ Nodes \subseteq Nat
           /\ DOMAIN passes \subseteq Nodes
           /\ \A r \in DOMAIN resources : NodeOf(r) \in Nodes /\ ~IsPass(NodeOf(r))
                                           /\ NodeOf(r) - PassCount = r
           /\ \A n \in Nodes : IsPass(n) => n \in DOMAIN passes
           /\ \A n \in Nodes : ~IsPass(n) => n - PassCount \in DOMAIN resources
  <1>1. PassCount \in Nat /\ Len(resources) \in Nat /\ DOMAIN passes = 1..PassCount
        /\ DOMAIN resources = 1..Len(resources)
    BY DEF RecordInv, PassCount
  <1>2. IsFiniteSet(Nodes)
    BY <1>1, FS_Interval DEF Nodes
  <1> QED
    BY <1>1, <1>2 DEF Nodes, NodeOf, IsPass

LEMMA EndsKnown ==
    ASSUME RecordInv, NEW p \in DOMAIN passes
    PROVE  Ends(passes[p].reads) \cup Ends(passes[p].writes) \subseteq DOMAIN resources
  BY DEF RecordInv, PassOK

\* What goes into a node and what comes out of it are nodes.
LEMMA NeighboursAreNodes ==
    ASSUME RecordInv, NEW n \in Nodes
    PROVE  Ins(n) \subseteq Nodes /\ Outs(n) \subseteq Nodes
  <1>1. CASE IsPass(n)
    <2>1. n \in DOMAIN passes
      BY <1>1, NodeFacts
    <2> QED
      BY <1>1, <2>1, NodeFacts, EndsKnown DEF Ins, Outs
  <1>2. CASE ~IsPass(n)
    BY <1>2, NodeFacts DEF Ins, Outs, Readers, Writers
  <1> QED
    BY <1>1, <1>2

\* Ins and Outs are the same edges.
LEMMA InsAndOuts ==
    ASSUME RecordInv, NEW m \in Nodes, NEW n \in Nodes
    PROVE  n \in Ins(m) <=> m \in Outs(n)
  <1>1. CASE IsPass(m)
    <2>1. m \in DOMAIN passes /\ Ins(m) = {NodeOf(r) : r \in Ends(passes[m].reads)}
      BY <1>1, NodeFacts DEF Ins
    <2>2. CASE IsPass(n)
      <3>1. n \in DOMAIN passes /\ Outs(n) = {NodeOf(r) : r \in Ends(passes[n].writes)}
        BY <2>2, NodeFacts DEF Outs
      <3> QED
        BY <1>1, <2>1, <2>2, <3>1, NodeFacts, EndsKnown
    <2>3. CASE ~IsPass(n)
      <3>1. n - PassCount \in DOMAIN resources /\ Outs(n) = Readers(n - PassCount)
        BY <2>3, NodeFacts DEF Outs
      <3>2. n = NodeOf(n - PassCount)
        BY NodeFacts DEF NodeOf
      <3>3. n \in Ins(m) <=> n - PassCount \in Ends(passes[m].reads)
        BY <2>1, <3>1, <3>2, NodeFacts, EndsKnown
      <3> QED
        BY <2>1, <3>1, <3>3 DEF Readers
    <2> QED
      BY <2>2, <2>3
  <1>2. CASE ~IsPass(m)
    <2>1. m - PassCount \in DOMAIN resources /\ Ins(m) = Writers(m - PassCount)
      BY <1>2, NodeFacts DEF Ins
    <2>2. CASE IsPass(n)
      <3>1. n \in DOMAIN passes /\ Outs(n) = {NodeOf(r) : r \in Ends(passes[n].writes)}
        BY <2>2, NodeFacts DEF Outs
      <3>2. m = NodeOf(m - PassCount)
        BY NodeFacts DEF NodeOf
      <3>3. m \in Outs(n) <=> m - PassCount \in Ends(passes[n].writes)
        BY <2>1, <3>1, <3>2, NodeFacts, EndsKnown
      <3> QED
        BY <2>1, <3>1, <3>3 DEF Writers
    <2>3. CASE ~IsPass(n)
      <3>1. n - PassCount \in DOMAIN resources /\ Outs(n) = Readers(n - PassCount)
        BY <2>3, NodeFacts DEF Outs
      <3>2. \A p \in DOMAIN passes : IsPass(p)
        BY DEF RecordInv, IsPass, PassCount
      <3> QED
        BY <1>2, <2>1, <2>3, <3>1, <3>2 DEF Writers, Readers
    <2> QED
      BY <2>2, <2>3
  <1> QED
    BY <1>1, <1>2

Culled(counts, m) == counts[m] = 0 /\ ~Persistent(m)
OnStack(st, m) == \E i \in DOMAIN st : st[i] = m

\* The nodes behind n that the culling has not taken away.
Wanting(counts, st, n) == {m \in Outs(n) : ~Culled(counts, m) \/ OnStack(st, m)}

\* A count is the number of nodes that still want this one; what waits on the
\* stack is unwanted, and waits once.
CullOK(counts, st) ==
    /\ counts \in [Nodes -> Nat]
    /\ st \in Seq(Nodes)
    /\ \A i, j \in DOMAIN st : st[i] = st[j] => i = j
    /\ \A i \in DOMAIN st : Culled(counts, st[i])
    /\ \A n \in Nodes : counts[n] = Cardinality(Wanting(counts, st, n))

CullInv ==
    phase \in {"cull", "execute", "gpu"} =>
      /\ CullOK(refs, stack)
      /\ phase # "cull" => stack = <<>>

LEMMA WantingFinite ==
    ASSUME RecordInv, NEW n \in Nodes, NEW counts, NEW st
    PROVE  IsFiniteSet(Wanting(counts, st, n)) /\ IsFiniteSet(Outs(n))
  <1>1. Wanting(counts, st, n) \subseteq Outs(n)
    BY DEF Wanting
  <1> QED
    BY <1>1, NodeFacts, NeighboursAreNodes, FS_Subset

LEMMA SeqOfMore ==
    ASSUME NEW S, NEW T, S \subseteq T, NEW s \in Seq(S)
    PROVE  s \in Seq(T) /\ \A i \in DOMAIN s : s[i] \in S
  OBVIOUS

LEMMA CullStart ==
    ASSUME RecordInv, NEW counts, counts = [n \in Nodes |-> Cardinality(Outs(n))]
    PROVE  CullOK(counts, InOrder(Unwanted(counts, Nodes)))
  <1> DEFINE U == Unwanted(counts, Nodes)
             st == InOrder(U)
  <1>1. U \subseteq Nodes /\ IsFiniteSet(U) /\ U \in SUBSET Nat
    BY NodeFacts, FS_Subset DEF Unwanted
  <1>2. /\ st \in Seq(U)
        /\ \A n \in U : \E i \in DOMAIN st : st[i] = n
        /\ \A i, j \in DOMAIN st : st[i] = st[j] => i = j
    <2> HIDE DEF U
    <2> QED
      BY <1>1, InOrderLists
  <1>3. \A n \in Nodes : Culled(counts, n) <=> n \in U
    BY DEF Culled, Unwanted
  <1>4. counts \in [Nodes -> Nat]
    BY WantingFinite, FS_CardinalityType
  <1> HIDE DEF U, st
  <1>5. st \in Seq(Nodes) /\ \A i \in DOMAIN st : st[i] \in U
    BY <1>1, <1>2, SeqOfMore
  <1>6. ASSUME NEW n \in Nodes
        PROVE  Wanting(counts, st, n) = Outs(n)
    BY <1>2, <1>3, NeighboursAreNodes DEF Wanting, OnStack
  <1>7. CullOK(counts, st)
    <2>1. \A i \in DOMAIN st : Culled(counts, st[i])
      BY <1>1, <1>3, <1>5
    <2>2. \A n \in Nodes : counts[n] = Cardinality(Wanting(counts, st, n))
      BY <1>6
    <2> QED
      BY <1>2, <1>4, <1>5, <2>1, <2>2 DEF CullOK
  <1> QED
    BY <1>7 DEF st, U

\* Two lists one after the other.
LEMMA ConcatLists ==
    ASSUME NEW T, NEW s \in Seq(T), NEW t \in Seq(T)
    PROVE  /\ s \o t \in Seq(T)
           /\ \A m : OnStack(s \o t, m) <=> OnStack(s, m) \/ OnStack(t, m)
           /\ (/\ \A i, j \in DOMAIN s : s[i] = s[j] => i = j
               /\ \A i, j \in DOMAIN t : t[i] = t[j] => i = j
               /\ \A m : ~(OnStack(s, m) /\ OnStack(t, m)))
              => \A i, j \in DOMAIN (s \o t) : (s \o t)[i] = (s \o t)[j] => i = j
  <1> DEFINE st == s \o t
  <1>1. /\ \A i \in DOMAIN s : i \in DOMAIN st /\ st[i] = s[i]
        /\ \A i \in DOMAIN t : i + Len(s) \in DOMAIN st /\ st[i + Len(s)] = t[i]
        /\ \A i \in DOMAIN st :
          \/ i \in DOMAIN s /\ st[i] = s[i]
          \/ i - Len(s) \in DOMAIN t /\ st[i] = t[i - Len(s)]
        /\ Len(s) \in Nat /\ DOMAIN st \subseteq Nat
        /\ st \in Seq(T)
    OBVIOUS
  <1> HIDE DEF st
  <1>2. \A m : OnStack(st, m) <=> OnStack(s, m) \/ OnStack(t, m)
    <2> SUFFICES ASSUME NEW m
                 PROVE  OnStack(st, m) <=> OnStack(s, m) \/ OnStack(t, m)
      OBVIOUS
    <2>1. OnStack(st, m) => OnStack(s, m) \/ OnStack(t, m)
      BY <1>1 DEF OnStack
    <2>2. OnStack(s, m) => OnStack(st, m)
      BY <1>1 DEF OnStack
    <2>3. OnStack(t, m) => OnStack(st, m)
      <3> SUFFICES ASSUME NEW i \in DOMAIN t, t[i] = m
                   PROVE  OnStack(st, m)
        BY DEF OnStack
      <3>1. i + Len(s) \in DOMAIN st /\ st[i + Len(s)] = m
        BY <1>1
      <3> QED
        BY <3>1 DEF OnStack
    <2> QED
      BY <2>1, <2>2, <2>3
  <1>3. ASSUME \A i, j \in DOMAIN s : s[i] = s[j] => i = j,
               \A i, j \in DOMAIN t : t[i] = t[j] => i = j,
               \A m : ~(OnStack(s, m) /\ OnStack(t, m)),
               NEW i \in DOMAIN st, NEW j \in DOMAIN st, st[i] = st[j]
        PROVE  i = j
    <2>1. i \in Nat /\ j \in Nat
      BY <1>1
    <2>2. CASE i \in DOMAIN s /\ j \in DOMAIN s
      BY <1>1, <1>3, <2>2
    <2>3. CASE i \notin DOMAIN s /\ j \notin DOMAIN s
      <3>1. i - Len(s) = j - Len(s)
        BY <1>1, <1>3, <2>3
      <3> QED
        BY <1>1, <2>1, <3>1
    <2>4. CASE i \in DOMAIN s /\ j \notin DOMAIN s
      BY <1>1, <1>3, <2>4 DEF OnStack
    <2>5. CASE i \notin DOMAIN s /\ j \in DOMAIN s
      BY <1>1, <1>3, <2>5 DEF OnStack
    <2> QED
      BY <2>2, <2>3, <2>4, <2>5
  <1>4. \A i, j \in DOMAIN st :
          (/\ \A k, l \in DOMAIN s : s[k] = s[l] => k = l
           /\ \A k, l \in DOMAIN t : t[k] = t[l] => k = l
           /\ \A m : ~(OnStack(s, m) /\ OnStack(t, m))) /\ st[i] = st[j] => i = j
    BY <1>3
  <1> QED
    BY <1>1, <1>2, <1>4 DEF st

\* One node is taken from the stack, and what nothing wants any more is put on it.
LEMMA CullStep ==
    ASSUME RecordInv, NEW counts, NEW st, CullOK(counts, st), st # <<>>,
           NEW ins, ins = Ins(Last(st)),
           NEW less, less = [n \in Nodes |-> IF n \in ins THEN counts[n] - 1 ELSE counts[n]]
    PROVE  CullOK(less, Front(st) \o InOrder(Unwanted(less, ins)))
  <1> DEFINE x == Last(st)
             f == Front(st)
             U == Unwanted(less, ins)
             new == InOrder(U)
             after == f \o new
  <1>1. /\ counts \in [Nodes -> Nat] /\ st \in Seq(Nodes)
        /\ \A i, j \in DOMAIN st : st[i] = st[j] => i = j
        /\ \A i \in DOMAIN st : Culled(counts, st[i])
        /\ \A n \in Nodes : counts[n] = Cardinality(Wanting(counts, st, n))
    BY DEF CullOK
  <1>2. /\ Len(st) \in DOMAIN st /\ x = st[Len(st)] /\ x \in Nodes
        /\ f \in Seq(Nodes) /\ Len(f) = Len(st) - 1
        /\ \A i \in DOMAIN f : i \in DOMAIN st /\ f[i] = st[i] /\ i # Len(st)
        /\ \A i \in DOMAIN st : i # Len(st) => i \in DOMAIN f
    <2>1. st \in Seq(Nodes) /\ st # <<>> /\ Len(st) \in Nat /\ Len(st) # 0
          /\ DOMAIN st = 1..Len(st)
      BY <1>1
    <2>2. Len(st) \in DOMAIN st /\ x = st[Len(st)] /\ x \in Nodes
      BY <2>1 DEF Last
    <2>3. /\ f \in Seq(Nodes) /\ Len(f) = Len(st) - 1
          /\ \A i \in 1..Len(st) - 1 : f[i] = st[i]
      BY <2>1 DEF Front
    <2>4. DOMAIN f = 1..Len(st) - 1
      BY <2>3
    <2> HIDE DEF f, x
    <2> QED
      BY <2>1, <2>2, <2>3, <2>4
  <1>3. ins \subseteq Nodes /\ \A n \in Nodes : n \in ins <=> x \in Outs(n)
    BY <1>2, NeighboursAreNodes, InsAndOuts
  <1>4. Culled(counts, x) /\ OnStack(st, x)
    BY <1>1, <1>2 DEF OnStack
  <1> HIDE DEF x, f
  <1>5. \A m : OnStack(f, m) <=> OnStack(st, m) /\ m # x
    <2> SUFFICES ASSUME NEW m
                 PROVE  OnStack(f, m) <=> OnStack(st, m) /\ m # x
      OBVIOUS
    <2>1. OnStack(f, m) => OnStack(st, m) /\ m # x
      BY <1>1, <1>2 DEF OnStack
    <2>2. OnStack(st, m) /\ m # x => OnStack(f, m)
      BY <1>1, <1>2 DEF OnStack
    <2> QED
      BY <2>1, <2>2
  <1>6. \A n \in ins : x \in Wanting(counts, st, n) /\ counts[n] \in Nat /\ counts[n] # 0
    <2> SUFFICES ASSUME NEW n \in ins
                 PROVE  x \in Wanting(counts, st, n) /\ counts[n] \in Nat /\ counts[n] # 0
      OBVIOUS
    <2>1. n \in Nodes /\ x \in Wanting(counts, st, n)
      BY <1>3, <1>4 DEF Wanting
    <2>2. Cardinality(Wanting(counts, st, n)) # 0
      BY <2>1, WantingFinite, FS_EmptySet
    <2> QED
      BY <1>1, <2>1, <2>2
  <1>7. x \notin ins
    BY <1>4, <1>6 DEF Culled
  <1>8. less \in [Nodes -> Nat]
    BY <1>1, <1>6
  <1>9. /\ U \subseteq ins /\ U \in SUBSET Nat /\ IsFiniteSet(U) /\ U \subseteq Nodes
        /\ \A m \in ins : m \in U <=> Culled(less, m)
    <2>1. U \subseteq ins
      BY DEF Unwanted
    <2>2. \A m \in ins : m \in U <=> Culled(less, m)
      BY DEF Unwanted, Culled
    <2> HIDE DEF U
    <2>3. U \subseteq Nodes
      BY <1>3, <2>1
    <2>4. IsFiniteSet(U) /\ U \in SUBSET Nat
      BY <2>3, NodeFacts, FS_Subset
    <2> QED
      BY <2>1, <2>2, <2>3, <2>4
  <1> HIDE DEF U
  <1>10. /\ new \in Seq(U)
         /\ \A n \in U : \E i \in DOMAIN new : new[i] = n
         /\ \A i, j \in DOMAIN new : new[i] = new[j] => i = j
    BY <1>9, InOrderLists
  <1> HIDE DEF new
  <1>11. new \in Seq(Nodes) /\ \A m : OnStack(new, m) <=> m \in U
    <2>1. new \in Seq(Nodes) /\ \A i \in DOMAIN new : new[i] \in U
      BY <1>9, <1>10, SeqOfMore
    <2> QED
      BY <1>10, <2>1 DEF OnStack
  <1>12. \A m \in Nodes : Culled(less, m) <=> Culled(counts, m) \/ m \in U
    <2> SUFFICES ASSUME NEW m \in Nodes
                 PROVE  Culled(less, m) <=> Culled(counts, m) \/ m \in U
      OBVIOUS
    <2>1. CASE m \in ins
      BY <1>6, <1>9, <2>1 DEF Culled
    <2>2. CASE m \notin ins
      BY <1>9, <2>2 DEF Culled
    <2> QED
      BY <2>1, <2>2
  <1>13. \A m \in U : ~Culled(counts, m)
    BY <1>6, <1>9 DEF Culled
  <1>14. \A m : OnStack(st, m) => Culled(counts, m) /\ m \in Nodes
    BY <1>1 DEF OnStack
  <1>15. /\ after \in Seq(Nodes)
         /\ \A m : OnStack(after, m) <=> OnStack(f, m) \/ OnStack(new, m)
         /\ \A i, j \in DOMAIN after : after[i] = after[j] => i = j
    <2>1. \A i, j \in DOMAIN f : f[i] = f[j] => i = j
      BY <1>1, <1>2
    <2>2. \A m : ~(OnStack(f, m) /\ OnStack(new, m))
      BY <1>5, <1>11, <1>13, <1>14
    <2> QED
      BY <1>2, <1>10, <1>11, <2>1, <2>2, ConcatLists
  <1> HIDE DEF after
  <1>16. \A i \in DOMAIN after : Culled(less, after[i])
    <2>1. \A m : OnStack(after, m) => Culled(less, m)
      BY <1>5, <1>9, <1>11, <1>12, <1>14, <1>15
    <2> QED
      BY <2>1 DEF OnStack
  <1>17. ASSUME NEW n \in Nodes
         PROVE  less[n] = Cardinality(Wanting(less, after, n))
    <2>1. Wanting(less, after, n) = Wanting(counts, st, n) \ {x}
      <3>1. ASSUME NEW m \in Outs(n)
            PROVE  ~Culled(less, m) \/ OnStack(after, m)
                     <=> (~Culled(counts, m) \/ OnStack(st, m)) /\ m # x
        <4>1. m \in Nodes
          BY NeighboursAreNodes
        <4> QED
          BY <4>1, <1>4, <1>5, <1>7, <1>9, <1>11, <1>12, <1>13, <1>14, <1>15
      <3> QED
        BY <3>1 DEF Wanting
    <2>2. IsFiniteSet(Wanting(counts, st, n)) /\ counts[n] = Cardinality(Wanting(counts, st, n))
      BY <1>1, WantingFinite
    <2>3. CASE n \in ins
      <3>1. x \in Wanting(counts, st, n)
        BY <1>6, <2>3
      <3>2. Cardinality(Wanting(counts, st, n) \ {x}) = Cardinality(Wanting(counts, st, n)) - 1
        BY <2>2, <3>1, FS_RemoveElement
      <3> QED
        BY <2>1, <2>2, <2>3, <3>2
    <2>4. CASE n \notin ins
      <3>1. x \notin Wanting(counts, st, n)
        BY <1>3, <2>4 DEF Wanting
      <3>2. Wanting(counts, st, n) \ {x} = Wanting(counts, st, n)
        BY <3>1
      <3> QED
        BY <2>1, <2>2, <2>4, <3>2
    <2> QED
      BY <2>3, <2>4
  <1>18. CullOK(less, after)
    BY <1>8, <1>15, <1>16, <1>17 DEF CullOK
  <1> QED
    BY <1>18 DEF after, new, U, f

LEMMA CullSame ==
    ASSUME UNCHANGED recorded, CullOK(refs', stack')
    PROVE  CullOK(refs, stack)'
  <1>1. resources' = resources /\ passes' = passes
    BY DEF recorded
  <1>2. Nodes' = Nodes /\ PassCount' = PassCount
    BY <1>1 DEF Nodes, PassCount
  <1>3. \A n : Outs(n)' = Outs(n)
    BY <1>1 DEF Outs, IsPass, NodeOf, PassCount, Readers, Ends
  <1>4. \A m : Persistent(m)' = Persistent(m)
    BY <1>1 DEF Persistent, IsPass, IsManaged, PassCount
  <1>5. \A counts, st, n : Wanting(counts, st, n)' = Wanting(counts, st, n)
    BY <1>3, <1>4 DEF Wanting, Culled, OnStack
  <1> QED
    BY <1>2, <1>4, <1>5 DEF CullOK, Culled, OnStack

LEMMA CullNext ==
    ASSUME RecordInv, CullInv, [Next]_vars
    PROVE  CullInv'
  <1>1. CASE Record
    <2>1. phase' \in {"record", "compile"}
      BY <1>1 DEF Record, DeclareTexture, DeclareBuffer, ImportTexture, ImportBuffer,
                  ImportBackbuffer, Declare, AddPass, MayAdd, ColorAttachment, DepthAttachment,
                  Sample, UseBuffer, ReadWriteBuffer, Attach, UploadTexture, UploadBuffer,
                  AddUpload, GenerateMipmap, Present, Quiet, KeepSlot, Recording
    <2> QED
      BY <2>1 DEF CullInv
  <1>2. CASE StartCulling
    <2>1. /\ refs' = [n \in Nodes |-> Cardinality(Outs(n))]
          /\ stack' = InOrder(Unwanted(refs', Nodes))
          /\ phase' = "cull" /\ UNCHANGED recorded
      BY <1>2 DEF StartCulling
    <2>2. CullOK(refs', stack')
      BY <2>1, CullStart
    <2>3. CullOK(refs, stack)'
      BY <2>1, <2>2, CullSame
    <2> QED
      BY <2>1, <2>3 DEF CullInv
  <1>3. CASE Cull
    <2>1. /\ refs' = [n \in Nodes |-> IF n \in Ins(Last(stack)) THEN refs[n] - 1 ELSE refs[n]]
          /\ stack' = Front(stack) \o InOrder(Unwanted(refs', Ins(Last(stack))))
          /\ phase = "cull" /\ phase' = "cull" /\ UNCHANGED recorded /\ stack # <<>>
      BY <1>3 DEF Cull
    <2>2. CullOK(refs, stack)
      BY <2>1 DEF CullInv
    <2>3. CullOK(refs', stack')
      BY <2>1, <2>2, CullStep
    <2>4. CullOK(refs, stack)'
      BY <2>1, <2>3, CullSame
    <2> QED
      BY <2>1, <2>4 DEF CullInv
  <1>4. CASE BeginFrame
    BY <1>4 DEF BeginFrame, CullInv
  <1>5. CASE ~Record /\ ~StartCulling /\ ~Cull /\ ~BeginFrame
    <2>1. /\ UNCHANGED <<recorded, refs, stack>>
          /\ \/ phase' = phase
             \/ phase \in {"cull", "execute"} /\ phase' \in {"execute", "gpu"}
          /\ phase = "cull" /\ phase' # "cull" => stack = <<>>
      BY <1>5 DEF Next, StartExecution, Devirtualize, ExecutePass, GpuPass, Executing, vars,
                  compiled
    <2>2. CASE phase' \in {"cull", "execute", "gpu"}
      <3>1. CullOK(refs, stack)
        BY <2>1, <2>2 DEF CullInv
      <3>2. CullOK(refs', stack')
        BY <2>1, <3>1
      <3>3. CullOK(refs, stack)'
        BY <2>1, <3>2, CullSame
      <3> QED
        BY <2>1, <3>3 DEF CullInv
    <2> QED
      BY <2>2 DEF CullInv
  <1> QED
    BY <1>1, <1>2, <1>3, <1>4, <1>5

-----------------------------------------------------------------------------
(* Objects for resources                                                    *)

\* The passes that name a resource.
LEMMA UsersAreNumbers ==
    ASSUME RecordInv, NEW r
    PROVE  Readers(r) \in SUBSET Nat /\ Writers(r) \in SUBSET Nat
  BY DEF RecordInv, Readers, Writers

\* A resource that lives is read, so it has a first pass.
LEMMA LiveRead ==
    ASSUME RecordInv, CullInv, phase \in {"cull", "execute", "gpu"},
           NEW r \in DOMAIN resources, Live(r)
    PROVE  /\ Readers(r) # {} /\ FirstUse(r) \in Nat
           /\ \A p \in Readers(r) \cup Writers(r) : FirstUse(r) <= p
  <1> DEFINE n == NodeOf(r)
  <1>1. n \in Nodes /\ ~IsPass(n) /\ n - PassCount = r
    BY NodeFacts
  <1>2. IsManaged(r) /\ ~IsCulled(n)
    BY DEF Live
  <1> HIDE DEF n
  <1>3. ~Persistent(n)
    BY <1>1, <1>2 DEF Persistent
  <1>4. refs[n] # 0
    BY <1>2, <1>3 DEF IsCulled
  <1>5. refs[n] = Cardinality(Wanting(refs, stack, n))
    BY <1>1 DEF CullInv, CullOK
  <1>6. Wanting(refs, stack, n) # {}
    BY <1>4, <1>5, FS_EmptySet
  <1>7. Readers(r) # {}
    BY <1>1, <1>6 DEF Wanting, Outs
  <1>8. Readers(r) \cup Writers(r) \in SUBSET Nat
    BY UsersAreNumbers
  <1> QED
    BY <1>7, <1>8, MinIs DEF FirstUse

\* Between the first pass of a resource that lives and the end it has an object.
BoundInv ==
    /\ phase \in {"execute", "gpu"} => bound \in [DOMAIN resources -> Objects \cup {None}]
    /\ phase = "execute" =>
         /\ next \in 1..PassCount
         /\ \A r \in DOMAIN resources : Live(r) /\ FirstUse(r) < next => bound[r] # None

LEMMA LiveSame ==
    ASSUME UNCHANGED <<recorded, refs>>
    PROVE  /\ PassCount' = PassCount
           /\ \A r : Live(r)' = Live(r) /\ FirstUse(r)' = FirstUse(r)
  BY DEF recorded, Live, FirstUse, Readers, Writers, IsManaged, IsCulled, Persistent, IsPass,
         NodeOf, PassCount, Ends

LEMMA BoundNext ==
    ASSUME RecordInv, CullInv, BoundInv, [Next]_vars
    PROVE  BoundInv'
  <1>1. CASE phase' \notin {"execute", "gpu"}
    BY <1>1 DEF BoundInv
  <1>2. CASE StartExecution
    <2>1. /\ phase = "cull" /\ phase' = "execute" /\ next' = 1 /\ UNCHANGED <<recorded, refs>>
          /\ bound' = [r \in DOMAIN resources |-> None]
      BY <1>2 DEF StartExecution, compiled
    <2>2. resources' = resources /\ passes' = passes
      BY <2>1 DEF recorded
    <2>3. PassCount' \in Nat \ {0}
      BY <2>1, <2>2 DEF RecordInv, PassCount
    <2>4. bound' \in [DOMAIN resources' -> Objects \cup {None}]
      BY <2>1, <2>2
    <2>5. ASSUME NEW r \in DOMAIN resources', Live(r)', FirstUse(r)' < next'
          PROVE  FALSE
      <3>1. Live(r) /\ FirstUse(r) < 1
        BY <2>1, <2>5, LiveSame
      <3>2. FirstUse(r) \in Readers(r) \cup Writers(r)
        <4>1. Readers(r) \cup Writers(r) \in SUBSET Nat /\ Readers(r) # {}
          BY <2>1, <2>2, <2>5, <3>1, UsersAreNumbers, LiveRead
        <4> QED
          BY <4>1, MinIs DEF FirstUse
      <3>3. FirstUse(r) \in 1..PassCount
        BY <3>2 DEF Readers, Writers, RecordInv, PassCount
      <3> QED
        BY <3>1, <3>3
    <2> QED
      BY <2>1, <2>3, <2>4, <2>5 DEF BoundInv
  <1>3. ASSUME NEW q \in DOMAIN resources, NEW o \in Objects, Devirtualize(q, o)
        PROVE  BoundInv'
    <2>1. /\ phase = "execute" /\ phase' = phase /\ next' = next /\ UNCHANGED <<recorded, refs>>
          /\ bound' = [bound EXCEPT ![q] = o]
      BY <1>3 DEF Devirtualize, Executing, compiled
    <2>2. resources' = resources
      BY <2>1 DEF recorded
    <2>3. bound' \in [DOMAIN resources -> Objects \cup {None}] /\ bound'[q] # None
      BY <2>1 DEF BoundInv, Objects, None
    <2>4. \A r \in DOMAIN resources : Live(r) /\ FirstUse(r) < next => bound'[r] # None
      BY <2>1, <2>3 DEF BoundInv
    <2> QED
      BY <2>1, <2>2, <2>3, <2>4, LiveSame DEF BoundInv
  <1>4. CASE ExecutePass
    <2>1. /\ phase = "execute" /\ next <= PassCount /\ Due = {} /\ next' = next + 1 /\ bound' = bound
          /\ phase' = IF next = PassCount THEN "gpu" ELSE phase
          /\ UNCHANGED <<recorded, refs>>
      BY <1>4 DEF ExecutePass, Executing, compiled
    <2>2. resources' = resources
      BY <2>1 DEF recorded
    <2>3. next \in 1..PassCount /\ PassCount \in Nat
      BY <2>1, NodeFacts DEF BoundInv
    <2>4. ASSUME NEW r \in DOMAIN resources, Live(r), FirstUse(r) < next + 1
          PROVE  bound[r] # None
      <3>1. FirstUse(r) \in Nat
        BY <2>1, <2>4, LiveRead
      <3>2. CASE FirstUse(r) = next
        BY <2>1, <2>4, <3>2 DEF Due
      <3>3. CASE FirstUse(r) < next
        BY <2>1, <2>4, <3>3 DEF BoundInv
      <3> QED
        BY <2>3, <2>4, <3>1, <3>2, <3>3
    <2>5. phase' = "execute" => next' \in 1..PassCount
      BY <2>1, <2>3
    <2> QED
      BY <2>1, <2>2, <2>4, <2>5, LiveSame DEF BoundInv
  <1>5. CASE phase' = phase /\ UNCHANGED <<recorded, refs, bound, next>>
    <2>1. resources' = resources
      BY <1>5 DEF recorded
    <2> QED
      BY <1>5, <2>1, LiveSame DEF BoundInv
  <1>6. CASE Record
    BY <1>1, <1>6 DEF Record, DeclareTexture, DeclareBuffer, ImportTexture, ImportBuffer,
                  ImportBackbuffer, Declare, AddPass, MayAdd, ColorAttachment, DepthAttachment,
                  Sample, UseBuffer, ReadWriteBuffer, Attach, UploadTexture, UploadBuffer,
                  AddUpload, GenerateMipmap, Present, Quiet, KeepSlot, Recording
  <1>7. CASE StartCulling \/ Cull \/ BeginFrame
    BY <1>1, <1>7 DEF StartCulling, Cull, BeginFrame
  <1>8. CASE GpuPass
    BY <1>5, <1>8 DEF GpuPass, compiled, cpu
  <1>9. CASE UNCHANGED vars
    BY <1>5, <1>9 DEF vars, compiled, cpu
  <1> QED
    BY <1>2, <1>3, <1>4, <1>6, <1>7, <1>8, <1>9 DEF Next

\* What a pass needs that is not culled lives: a resource that it reads has a
\* reader, and the one it writes is the only output the pass was kept for, or
\* read as well.
LEMMA NeededLives ==
    ASSUME ~MultiTarget, RecordInv, CullInv, phase = "execute", NEW p \in DOMAIN passes,
           ~IsCulled(p), NEW r \in Ends(Edges(p)), IsManaged(r)
    PROVE  r \in DOMAIN resources /\ Live(r) /\ p \in Readers(r) \cup Writers(r)
  <1>1. /\ passes \in Seq(PassRecord) /\ PassOK(passes[p], resources)
        /\ passes[p].reads \in Seq(EdgeType) /\ passes[p].writes \in Seq(EdgeType)
    BY DEF RecordInv, PassOK, PassRecord
  <1>2. r \in Ends(passes[p].reads) \/ r \in Ends(passes[p].writes)
    BY <1>1, EndsConcat DEF Edges
  <1>3. r \in DOMAIN resources
    BY <1>2, EndsKnown
  <1>4. /\ p \in Nodes /\ IsPass(p) /\ NodeOf(r) \in Nodes /\ ~IsPass(NodeOf(r))
        /\ NodeOf(r) - PassCount = r
    BY <1>1, <1>3, NodeFacts DEF IsPass, PassCount
  <1>5. /\ CullOK(refs, stack) /\ stack = <<>>
        /\ \A m : ~OnStack(stack, m)
    BY DEF CullInv, OnStack
  <1>6. ASSUME NEW m \in Nodes, NEW n \in Nodes, m \in Outs(n), ~IsCulled(m)
        PROVE  refs[n] # 0
    <2>1. m \in Wanting(refs, stack, n)
      BY <1>6 DEF Wanting, Culled, IsCulled
    <2>2. Cardinality(Wanting(refs, stack, n)) # 0
      BY <2>1, WantingFinite, FS_EmptySet
    <2> QED
      BY <1>5, <2>2 DEF CullOK
  <1>7. CASE r \in Ends(passes[p].reads)
    <2>1. p \in Readers(r)
      BY <1>7 DEF Readers
    <2>2. p \in Outs(NodeOf(r))
      BY <1>4, <2>1 DEF Outs
    <2>3. refs[NodeOf(r)] # 0
      BY <1>4, <1>6, <2>2
    <2> QED
      BY <1>3, <2>1, <2>3 DEF Live, IsCulled
  <1>8. CASE r \notin Ends(passes[p].reads)
    <2>1. PICK i \in DOMAIN passes[p].writes : passes[p].writes[i].res = r
      BY <1>2, <1>8 DEF Ends
    <2>2. Len(passes[p].writes) = 1
      BY <1>1, <1>8, <2>1 DEF PassOK, WritesOK, IsManaged
    <2>3. Ends(passes[p].writes) = {r} /\ passes[p].type \notin {"holdon", "present"}
      BY <1>1, <2>1, <2>2 DEF Ends, PassOK
    <2>4. Outs(p) = {NodeOf(r)}
      BY <1>4, <2>3 DEF Outs
    <2>5. refs[p] # 0
      BY <1>4, <2>3 DEF IsCulled, Persistent
    <2>6. Wanting(refs, stack, p) # {}
      BY <1>4, <1>5, <2>5, FS_EmptySet DEF CullOK
    <2>7. ~IsCulled(NodeOf(r))
      BY <1>5, <2>4, <2>6 DEF Wanting, Culled, IsCulled
    <2>8. p \in Writers(r)
      BY <2>3 DEF Writers
    <2> QED
      BY <1>3, <2>7, <2>8 DEF Live
  <1> QED
    BY <1>7, <1>8

GraphInv == RecordInv /\ CullInv /\ BoundInv

LEMMA GraphInit == Init => GraphInv
  <1> SUFFICES ASSUME Init PROVE GraphInv
    OBVIOUS
  <1>1. RecordInv
    BY RecordInit
  <1>2. CullInv /\ BoundInv
    BY DEF Init, CullInv, BoundInv
  <1> QED
    BY <1>1, <1>2 DEF GraphInv

LEMMA GraphNext == GraphInv /\ [Next]_vars => GraphInv'
  BY RecordNext, CullNext, BoundNext DEF GraphInv

\* A pass that is executed has an object behind every managed resource it names
\* (rendergraph_executor.cpp dereferences them unchecked), for any graph whose
\* passes write a managed target alone.
THEOREM ResourcesBoundCorrect ==
    ASSUME ~MultiTarget
    PROVE  Spec => []ResourcesBound
  <1>1. ASSUME GraphInv, Executing, Due = {}, ~IsCulled(next), NEW r \in Missing(next)
        PROVE  FALSE
    <2>1. /\ RecordInv /\ CullInv /\ BoundInv /\ phase = "execute"
          /\ next \in DOMAIN passes /\ next \in Nat
      BY <1>1 DEF GraphInv, Executing, BoundInv, RecordInv, PassCount
    <2>2. r \in Ends(Edges(next)) /\ IsManaged(r) /\ bound[r] = None
      BY <1>1 DEF Missing
    <2>3. r \in DOMAIN resources /\ Live(r) /\ next \in Readers(r) \cup Writers(r)
      BY <1>1, <2>1, <2>2, NeededLives
    <2>4. FirstUse(r) \in Nat /\ FirstUse(r) <= next
      BY <2>1, <2>3, LiveRead
    <2>5. CASE FirstUse(r) = next
      BY <1>1, <2>2, <2>3, <2>5 DEF Due
    <2>6. CASE FirstUse(r) < next
      BY <2>1, <2>2, <2>3, <2>6 DEF BoundInv
    <2> QED
      BY <2>1, <2>4, <2>5, <2>6
  <1>2. GraphInv => ResourcesBound
    BY <1>1 DEF ResourcesBound
  <1> QED
    BY <1>2, GraphInit, GraphNext, PTL DEF Spec

-----------------------------------------------------------------------------
(* How the edges of a pass go together                                      *)

ReadUsages == {"sampled", "vertex", "copy_source", "present"}
WriteUsages == {"target", "depth", "copy_dest", "storage"}

\* What a resource stands for.
ResOK(res) ==
    /\ res.manage = "Managed" => res.of = None /\ res.sub = Whole
    /\ res.manage = "Imported" => res.of \in Imported /\ res.sub = Whole
    /\ res.manage = "SubResource" => res.of \in Textures /\ res.sub \in 1..Mips
    /\ res.of \in Textures => res.class = "texture"

LocsIn(rs, r) ==
    {<<IF rs[r].manage = "Managed" THEN r ELSE rs[r].of, s>> :
        s \in IF rs[r].sub = Whole THEN Subs(rs[r].of) ELSE {rs[r].sub}}
Apart(rs, r, q) == LocsIn(rs, r) \cap LocsIn(rs, q) = {}

\* The edges of a pass name different locations, but for those of a buffer that
\* it reads and writes and of a depth buffer.
ReadsApart(pass, rs) ==
    \A i, j \in DOMAIN pass.reads :
      i # j => Apart(rs, pass.reads[i].res, pass.reads[j].res)
WritesApart(pass, rs) ==
    \A i, j \in DOMAIN pass.writes :
      i # j => Apart(rs, pass.writes[i].res, pass.writes[j].res)
ReadsFromWrites(pass, rs) ==
    \A i \in DOMAIN pass.reads, j \in DOMAIN pass.writes :
      \/ Apart(rs, pass.reads[i].res, pass.writes[j].res)
      \/ pass.reads[i].usage = "undefined"
      \/ pass.reads[i] = pass.writes[j]

ReadShape(pass) ==
    \A i \in DOMAIN pass.reads :
      \/ pass.reads[i].usage \in ReadUsages \cup {"undefined"}
      \/ /\ pass.reads[i].usage = "storage"
         /\ \E j \in DOMAIN pass.writes : pass.writes[j] = pass.reads[i]
WriteShape(pass, rs) ==
    \A j \in DOMAIN pass.writes :
      /\ pass.writes[j].usage \in WriteUsages
      /\ pass.writes[j].usage \in {"target", "depth"} =>
           rs[pass.writes[j].res].class \in {"texture", "depth"}
      /\ ~StorageRepeats /\ pass.writes[j].usage = "storage" =>
           rs[pass.writes[j].res].manage = "Managed"

PassShape(pass, rs) ==
    /\ ReadsApart(pass, rs) /\ WritesApart(pass, rs) /\ ReadsFromWrites(pass, rs)
    /\ ReadShape(pass) /\ WriteShape(pass, rs)

\* Unless StorageRepeats, one pass of a frame read-writes a buffer.
Storing(pass) == \E j \in DOMAIN pass.writes : pass.writes[j].usage = "storage"
OneStores(ps) ==
    \A p, q \in DOMAIN ps : Storing(ps[p]) /\ Storing(ps[q]) => p = q

ShapeInv ==
    /\ \A r \in DOMAIN resources : ResOK(resources[r])
    /\ \A p \in DOMAIN passes : PassShape(passes[p], resources)
    /\ ~StorageRepeats => OneStores(passes)

\* More resources change nothing about those there are.
LEMMA LocsInLonger ==
    ASSUME NEW rs, NEW more, Longer(rs, more), NEW r \in DOMAIN rs
    PROVE  LocsIn(more, r) = LocsIn(rs, r)
  BY DEF LocsIn, Longer

LEMMA ShapeLonger ==
    ASSUME NEW rs, NEW more, Longer(rs, more), NEW pass, PassOK(pass, rs), PassShape(pass, rs)
    PROVE  PassShape(pass, more)
  <1>1. /\ \A i \in DOMAIN pass.reads : pass.reads[i].res \in DOMAIN rs
        /\ \A i \in DOMAIN pass.writes : pass.writes[i].res \in DOMAIN rs
    BY DEF PassOK, Ends
  <1>2. \A r, q \in DOMAIN rs : Apart(rs, r, q) => Apart(more, r, q)
    BY LocsInLonger DEF Apart
  <1>3. ReadsApart(pass, more) /\ WritesApart(pass, more) /\ ReadsFromWrites(pass, more)
    BY <1>1, <1>2 DEF PassShape, ReadsApart, WritesApart, ReadsFromWrites
  <1>4. \A r \in DOMAIN rs : more[r] = rs[r]
    BY DEF Longer
  <1>5. WriteShape(pass, more)
    BY <1>1, <1>4 DEF PassShape, WriteShape
  <1> QED
    BY <1>3, <1>5 DEF PassShape

\* Edges that name one more resource, in at most one read and one write.
Addable(rs, r, reads, writes) ==
    /\ reads \in Seq(EdgeType) /\ writes \in Seq(EdgeType)
    /\ Len(reads) <= 1 /\ Len(writes) <= 1
    /\ \A i \in DOMAIN reads :
         /\ reads[i].res = r
         /\ \/ reads[i].usage \in ReadUsages /\ DOMAIN writes = {}
            \/ reads[i].usage = "undefined"
            \/ reads[i].usage = "storage" /\ reads = writes
    /\ \A j \in DOMAIN writes :
         /\ writes[j].res = r
         /\ writes[j].usage \in WriteUsages
         /\ writes[j].usage \in {"target", "depth"} => rs[r].class \in {"texture", "depth"}
         /\ ~StorageRepeats /\ writes[j].usage = "storage" => rs[r].manage = "Managed"

\* A pass keeps its shape when a call adds edges of a new location to it.
LEMMA ShapeMore ==
    ASSUME NEW rs, NEW pass \in PassRecord, PassShape(pass, rs), NEW r,
           NEW reads, NEW writes, Addable(rs, r, reads, writes),
           \A q \in Ends(pass.reads) \cup Ends(pass.writes) : Apart(rs, q, r)
    PROVE  PassShape(Extended(pass, reads, writes), rs)
  <1> USE DEF Addable
  <1> DEFINE more == Extended(pass, reads, writes)
  <1>1. /\ pass.reads \in Seq(EdgeType) /\ pass.writes \in Seq(EdgeType)
        /\ more.reads = pass.reads \o reads /\ more.writes = pass.writes \o writes
    BY DEF PassRecord, Extended
  <1>2. \A s, t \in Seq(EdgeType) : \A i \in DOMAIN (s \o t) :
          \/ i \in DOMAIN s /\ (s \o t)[i] = s[i]
          \/ i \notin DOMAIN s /\ i - Len(s) \in DOMAIN t /\ (s \o t)[i] = t[i - Len(s)]
    OBVIOUS
  <1>3. \A s, t \in Seq(EdgeType) :
          /\ \A i \in DOMAIN s : i \in DOMAIN (s \o t) /\ (s \o t)[i] = s[i]
          /\ \A i \in DOMAIN t : i + Len(s) \in DOMAIN (s \o t) /\ (s \o t)[i + Len(s)] = t[i]
    OBVIOUS
  <1>4. \A s \in Seq(EdgeType) : Len(s) <= 1 => \A i \in DOMAIN s : i = 1
    OBVIOUS
  <1>5. \A i \in DOMAIN more.reads :
          \/ i \in DOMAIN pass.reads /\ more.reads[i] = pass.reads[i]
          \/ i = Len(pass.reads) + 1 /\ i \notin DOMAIN pass.reads
             /\ 1 \in DOMAIN reads /\ more.reads[i] = reads[1]
    BY <1>1, <1>2, <1>4
  <1>6. \A i \in DOMAIN more.writes :
          \/ i \in DOMAIN pass.writes /\ more.writes[i] = pass.writes[i]
          \/ i = Len(pass.writes) + 1 /\ i \notin DOMAIN pass.writes
             /\ 1 \in DOMAIN writes /\ more.writes[i] = writes[1]
    BY <1>1, <1>2, <1>4
  <1>7. /\ \A i \in DOMAIN pass.reads : pass.reads[i].res \in Ends(pass.reads)
        /\ \A i \in DOMAIN pass.writes : pass.writes[i].res \in Ends(pass.writes)
        /\ \A q \in Ends(pass.reads) \cup Ends(pass.writes) : Apart(rs, q, r) /\ Apart(rs, r, q)
    BY DEF Ends, Apart
  <1>8. \A j \in DOMAIN pass.writes : j \in DOMAIN more.writes /\ more.writes[j] = pass.writes[j]
    BY <1>1, <1>3
  <1>9. \A j \in DOMAIN writes : j + Len(pass.writes) \in DOMAIN more.writes
                                 /\ more.writes[j + Len(pass.writes)] = writes[j]
    BY <1>1, <1>3
  <1> HIDE DEF more
  <1>10. ReadsApart(more, rs)
    BY <1>5, <1>7 DEF PassShape, ReadsApart
  <1>11. WritesApart(more, rs)
    BY <1>6, <1>7 DEF PassShape, WritesApart
  <1>12. ReadsFromWrites(more, rs)
    <2> SUFFICES ASSUME NEW i \in DOMAIN more.reads, NEW j \in DOMAIN more.writes
                 PROVE  \/ Apart(rs, more.reads[i].res, more.writes[j].res)
                        \/ more.reads[i].usage = "undefined"
                        \/ more.reads[i] = more.writes[j]
      BY DEF ReadsFromWrites
    <2>1. CASE i \in DOMAIN pass.reads /\ more.reads[i] = pass.reads[i]
      <3>1. CASE j \in DOMAIN pass.writes /\ more.writes[j] = pass.writes[j]
        BY <2>1, <3>1 DEF PassShape, ReadsFromWrites
      <3> QED
        BY <1>6, <1>7, <2>1, <3>1
    <2>2. CASE 1 \in DOMAIN reads /\ more.reads[i] = reads[1]
      <3>1. CASE j \in DOMAIN pass.writes /\ more.writes[j] = pass.writes[j]
        BY <1>7, <2>2, <3>1
      <3>2. CASE 1 \in DOMAIN writes /\ more.writes[j] = writes[1]
        <4> QED
          BY <2>2, <3>2
      <3> QED
        BY <1>6, <3>1, <3>2
    <2> QED
      BY <1>5, <2>1, <2>2
  <1>13. ReadShape(more)
    <2> SUFFICES ASSUME NEW i \in DOMAIN more.reads
                 PROVE  \/ more.reads[i].usage \in ReadUsages \cup {"undefined"}
                        \/ /\ more.reads[i].usage = "storage"
                           /\ \E j \in DOMAIN more.writes : more.writes[j] = more.reads[i]
      BY DEF ReadShape
    <2>1. CASE i \in DOMAIN pass.reads /\ more.reads[i] = pass.reads[i]
      BY <1>8, <2>1 DEF PassShape, ReadShape
    <2>2. CASE 1 \in DOMAIN reads /\ more.reads[i] = reads[1]
      BY <1>9, <2>2
    <2> QED
      BY <1>5, <2>1, <2>2
  <1>14. WriteShape(more, rs)
    BY <1>6 DEF PassShape, WriteShape
  <1>15. PassShape(more, rs)
    BY <1>10, <1>11, <1>12, <1>13, <1>14 DEF PassShape
  <1> QED
    BY <1>15 DEF more

AllOK(rs) == \A r \in DOMAIN rs : ResOK(rs[r])

LEMMA AllOKAppend ==
    ASSUME NEW rs \in Seq(Resource), AllOK(rs), NEW x \in Resource, ResOK(x)
    PROVE  AllOK(Append(rs, x)) /\ Append(rs, x) \in Seq(Resource)
  <1>1. \A i \in DOMAIN Append(rs, x) :
          \/ i \in DOMAIN rs /\ Append(rs, x)[i] = rs[i]
          \/ Append(rs, x)[i] = x
    OBVIOUS
  <1> QED
    BY <1>1 DEF AllOK

\* Objects are numbers, what is imported is not.
LEMMA NamesApart ==
    /\ None \notin Imported /\ None \notin Textures /\ Imported \cap Nat = {}
    /\ Objects \subseteq Nat /\ None \notin Objects
    /\ \A o \in Objects : o \notin Textures
    /\ Textures \subseteq Imported /\ Buffers \subseteq Imported /\ Backbuffer \in Imported
    /\ Mips \in Nat \ {0}
  BY RenderGraphAssumption DEF RenderGraphAssumption, None, Imported, Objects

\* The resources that calls declare.
LEMMA NewResources ==
    /\ \A class \in Classes, hold \in BOOLEAN :
         /\ Managed(class, hold) \in Resource /\ ResOK(Managed(class, hold))
         /\ Managed(class, hold).manage = "Managed" /\ Managed(class, hold).of = None
         /\ Managed(class, hold).sub = Whole
    /\ \A o \in Imported :
         ImportOf("texture", o) \in Resource /\ ResOK(ImportOf("texture", o))
    /\ \A b \in Buffers : ImportOf("buffer", b) \in Resource /\ ResOK(ImportOf("buffer", b))
  <1>1. \A class \in Classes, hold \in BOOLEAN :
         /\ Managed(class, hold) \in Resource /\ ResOK(Managed(class, hold))
         /\ Managed(class, hold).manage = "Managed" /\ Managed(class, hold).of = None
         /\ Managed(class, hold).sub = Whole
    BY NamesApart, ResourceTypes DEF Managed, ResOK
  <1>2. "texture" \in Classes /\ "buffer" \in Classes
    BY DEF Classes
  <1>3. \A o \in Imported :
         ImportOf("texture", o) \in Resource /\ ResOK(ImportOf("texture", o))
    BY <1>2, ResourceTypes DEF ImportOf, ResOK
  <1>4. \A b \in Buffers : b \in Imported /\ b \notin Textures
    BY RenderGraphAssumption DEF RenderGraphAssumption, Imported
  <1>5. \A b \in Buffers : ImportOf("buffer", b) \in Resource /\ ResOK(ImportOf("buffer", b))
    BY <1>2, <1>4, ResourceTypes DEF ImportOf, ResOK
  <1> QED
    BY <1>1, <1>3, <1>5

LEMMA SubOfOK ==
    ASSUME RecordInv, ShapeInv, NEW r \in DOMAIN resources, resources[r].of \in Textures,
           NEW mip \in 1..Mips
    PROVE  /\ SubOf(r, mip) \in Resource /\ ResOK(SubOf(r, mip))
           /\ SubOf(r, mip).manage = "SubResource" /\ SubOf(r, mip).sub = mip
           /\ SubOf(r, mip).of = resources[r].of /\ SubOf(r, mip).class = "texture"
  <1>1. resources[r] \in Resource /\ ResOK(resources[r]) /\ mip \in Nat
    BY NamesApart DEF RecordInv, ShapeInv
  <1>2. SubOf(r, mip) \in Resource
    BY <1>1, SubOfType
  <1> QED
    BY <1>1, <1>2 DEF SubOf, ResOK, Resource

LEMMA BackbufferOK ==
    ASSUME RecordInv, ShapeInv
    PROVE  AllOK(WithBackbuffer)
  <1>1. resources \in Seq(Resource) /\ AllOK(resources) /\ "texture" \in Classes
    BY DEF RecordInv, ShapeInv, AllOK, Classes
  <1> QED
    BY <1>1, NamesApart, NewResources, AllOKAppend DEF WithBackbuffer

\* The calls of a record callback keep the shape.
LEMMA DeclarationShape ==
    ASSUME RecordInv, ShapeInv,
           \/ \E class \in {"texture", "depth"} : DeclareTexture(class)
           \/ DeclareBuffer
           \/ \E t \in Textures : ImportTexture(t)
           \/ \E b \in Buffers : ImportBuffer(b)
           \/ ImportBackbuffer
    PROVE  ShapeInv'
  <1>1. resources \in Seq(Resource) /\ AllOK(resources)
        /\ {"texture", "depth", "buffer"} \subseteq Classes
    BY DEF RecordInv, ShapeInv, AllOK, Classes
  <1>2. ASSUME NEW rs, AllOK(rs), Declare(rs)
        PROVE  ShapeInv'
    BY <1>2 DEF Declare, ShapeInv, AllOK, OneStores
  <1>3. CASE \E class \in {"texture", "depth"} : DeclareTexture(class)
    BY <1>1, <1>2, <1>3, NewResources, AllOKAppend DEF DeclareTexture
  <1>4. CASE DeclareBuffer
    BY <1>1, <1>2, <1>4, NewResources, AllOKAppend DEF DeclareBuffer
  <1>5. CASE \E t \in Textures : ImportTexture(t)
    BY <1>1, <1>2, <1>5, NewResources, NamesApart, AllOKAppend DEF ImportTexture
  <1>6. CASE \E b \in Buffers : ImportBuffer(b)
    BY <1>1, <1>2, <1>6, NewResources, AllOKAppend DEF ImportBuffer
  <1>7. CASE ImportBackbuffer
    BY <1>2, <1>7, BackbufferOK DEF ImportBackbuffer
  <1> QED
    BY <1>3, <1>4, <1>5, <1>6, <1>7

\* The last pass gets an edge or two; if it writes storage now, it is the only
\* one that does.
LEMMA AttachShape ==
    ASSUME RecordInv, ShapeInv, NEW types, NEW r \in DOMAIN resources,
           NEW reads \in Seq(EdgeType), NEW writes \in Seq(EdgeType),
           Attach(types, r, reads, writes),
           PassShape(Extended(passes[Len(passes)], reads, writes), resources),
           ~StorageRepeats =>
             \/ \A j \in DOMAIN writes : writes[j].usage # "storage"
             \/ \A p \in DOMAIN passes : ~Storing(passes[p])
    PROVE  ShapeInv'
  <1> DEFINE p == Len(passes)
             more == Extended(passes[p], reads, writes)
  <1>1. /\ passes \in Seq(PassRecord) /\ p \in DOMAIN passes
        /\ passes' = [passes EXCEPT ![p] = more]
        /\ resources' = resources
    <2>1. /\ passes \in Seq(PassRecord) /\ passes # <<>> /\ resources' = resources
      BY DEF RecordInv, Attach
    <2>2. passes' = [passes EXCEPT ![p].reads = @ \o reads, ![p].writes = @ \o writes]
      BY DEF Attach
    <2>3. p \in DOMAIN passes
      BY <2>1
    <2>4. passes' = [passes EXCEPT ![p] = more]
      <3> HIDE DEF p
      <3> QED
        BY <2>2, <2>3 DEF Extended
    <2> QED
      BY <2>1, <2>3, <2>4
  <1>2. /\ DOMAIN passes' = DOMAIN passes /\ passes'[p] = more
        /\ \A q \in DOMAIN passes : q # p => passes'[q] = passes[q]
    <2> HIDE DEF more, p
    <2> QED
      BY <1>1
  <1>3. Storing(more) => Storing(passes[p]) \/ \E j \in DOMAIN writes : writes[j].usage = "storage"
    <2>1. passes[p].writes \in Seq(EdgeType) /\ more.writes = passes[p].writes \o writes
      <3>1. passes[p] \in PassRecord
        BY <1>1
      <3> HIDE DEF p
      <3> QED
        BY <3>1 DEF PassRecord, Extended
    <2>2. \A s, t \in Seq(EdgeType) : \A i \in DOMAIN (s \o t) :
            \/ i \in DOMAIN s /\ (s \o t)[i] = s[i]
            \/ i - Len(s) \in DOMAIN t /\ (s \o t)[i] = t[i - Len(s)]
      OBVIOUS
    <2> HIDE DEF more, p
    <2>3. \A i \in DOMAIN more.writes :
            \/ i \in DOMAIN passes[p].writes /\ more.writes[i] = passes[p].writes[i]
            \/ i - Len(passes[p].writes) \in DOMAIN writes
               /\ more.writes[i] = writes[i - Len(passes[p].writes)]
      BY <2>1, <2>2
    <2> QED
      BY <2>3 DEF Storing
  <1> HIDE DEF more
  <1>4. \A q \in DOMAIN passes' : PassShape(passes'[q], resources')
    BY <1>1, <1>2 DEF ShapeInv, more
  <1>5. ~StorageRepeats => OneStores(passes')
    <2> HIDE DEF p
    <2> QED
      BY <1>1, <1>2, <1>3 DEF ShapeInv, OneStores
  <1> QED
    BY <1>1, <1>4, <1>5 DEF ShapeInv

LEMMA BuilderApart ==
    ASSUME RecordInv, NEW types, NEW r \in DOMAIN resources, NEW reads, NEW writes,
           Attach(types, r, reads, writes)
    PROVE  LET pass == passes[Len(passes)]
           IN  /\ pass \in PassRecord /\ pass.type \in types
               /\ \A q \in Ends(pass.reads) \cup Ends(pass.writes) : Apart(resources, q, r)
  <1> DEFINE p == Len(passes)
             pass == passes[p]
  <1>1. pass \in PassRecord
    BY LastPass DEF Attach
  <1>2. pass.type \in types /\ \A q \in Ends(Edges(p)) : Locs(q) \cap Locs(r) = {}
    BY DEF Attach
  <1>3. Ends(Edges(p)) = Ends(pass.reads) \cup Ends(pass.writes)
    BY <1>1, EndsConcat DEF Edges, PassRecord
  <1>4. \A q : Locs(q) = LocsIn(resources, q)
    BY DEF Locs, LocsIn, SubsOf, IsManaged
  <1> QED
    BY <1>1, <1>2, <1>3, <1>4 DEF Apart

LEMMA WritingShape ==
    ASSUME RecordInv, ShapeInv, NEW types, NEW r \in DOMAIN resources, NEW reads, NEW writes,
           Attach(types, r, reads, writes), Addable(resources, r, reads, writes),
           ~StorageRepeats =>
             \/ \A j \in DOMAIN writes : writes[j].usage # "storage"
             \/ \A p \in DOMAIN passes : ~Storing(passes[p])
    PROVE  ShapeInv'
  <1> DEFINE pass == passes[Len(passes)]
  <1>1. pass \in PassRecord /\ \A q \in Ends(pass.reads) \cup Ends(pass.writes) : Apart(resources, q, r)
    BY BuilderApart
  <1>2. PassShape(pass, resources)
    BY LastPass DEF Attach, ShapeInv
  <1>3. PassShape(Extended(pass, reads, writes), resources)
    <2> HIDE DEF pass
    <2> QED
      BY <1>1, <1>2, ShapeMore
  <1>4. reads \in Seq(EdgeType) /\ writes \in Seq(EdgeType)
    BY DEF Addable
  <1> QED
    BY <1>3, <1>4, AttachShape

LEMMA BuilderShape ==
    ASSUME RecordInv, ShapeInv, NEW r \in DOMAIN resources,
           \/ ColorAttachment(r) \/ DepthAttachment(r) \/ Sample(r)
           \/ UseBuffer(r) \/ ReadWriteBuffer(r)
    PROVE  ShapeInv'
  <1> DEFINE none == <<>>
             one(usage) == <<Edge(r, usage)>>
  <1>1. none \in Seq(EdgeType) /\ Len(none) = 0 /\ DOMAIN none = {}
    OBVIOUS
  <1>2. ASSUME NEW usage \in Usages
        PROVE  /\ one(usage) \in Seq(EdgeType) /\ Len(one(usage)) = 1
               /\ \A i \in DOMAIN one(usage) : one(usage)[i].res = r /\ one(usage)[i].usage = usage
    <2>1. Edge(r, usage) \in EdgeType /\ Edge(r, usage).res = r /\ Edge(r, usage).usage = usage
      BY EdgeTypes DEF RecordInv
    <2> QED
      BY <2>1, OneEdge
  <1>3. CASE ColorAttachment(r)
    <2>1. Attach({"render"}, r, none, one("target")) /\ resources[r].class = "texture"
      BY <1>3 DEF ColorAttachment
    <2> HIDE DEF none, one
    <2>2. Addable(resources, r, none, one("target"))
      BY <1>1, <1>2, <2>1 DEF Addable, Usages, WriteUsages
    <2>3. \A j \in DOMAIN one("target") : one("target")[j].usage # "storage"
      BY <1>2 DEF Usages
    <2> QED
      BY <2>1, <2>2, <2>3, WritingShape
  <1>4. CASE DepthAttachment(r)
    <2>1. Attach({"render"}, r, one("undefined"), one("depth")) /\ resources[r].class = "depth"
      BY <1>4 DEF DepthAttachment
    <2> HIDE DEF none, one
    <2>4. /\ one("undefined") \in Seq(EdgeType) /\ Len(one("undefined")) = 1
          /\ \A i \in DOMAIN one("undefined") :
               one("undefined")[i].res = r /\ one("undefined")[i].usage = "undefined"
      BY <1>2 DEF Usages
    <2>5. /\ one("depth") \in Seq(EdgeType) /\ Len(one("depth")) = 1
          /\ \A i \in DOMAIN one("depth") :
               one("depth")[i].res = r /\ one("depth")[i].usage = "depth"
      BY <1>2 DEF Usages
    <2>2. Addable(resources, r, one("undefined"), one("depth"))
      BY <2>1, <2>4, <2>5 DEF Addable, WriteUsages
    <2>3. \A j \in DOMAIN one("depth") : one("depth")[j].usage # "storage"
      BY <1>2 DEF Usages
    <2> QED
      BY <2>1, <2>2, <2>3, WritingShape
  <1>5. ASSUME NEW types, NEW usage \in ReadUsages, Attach(types, r, one(usage), none)
        PROVE  ShapeInv'
    <2> HIDE DEF none, one
    <2>1. Addable(resources, r, one(usage), none)
      BY <1>1, <1>2 DEF Addable, Usages, ReadUsages
    <2>2. \A j \in DOMAIN none : none[j].usage # "storage"
      BY <1>1
    <2> QED
      BY <1>5, <2>1, <2>2, WritingShape
  <1>6. CASE Sample(r)
    BY <1>5, <1>6 DEF Sample, ReadUsages
  <1>7. CASE UseBuffer(r)
    BY <1>5, <1>7 DEF UseBuffer, ReadUsages
  <1>8. CASE ReadWriteBuffer(r)
    <2>1. Attach({"compute"}, r, one("storage"), one("storage"))
      BY <1>8 DEF ReadWriteBuffer
    <2>2. ASSUME ~StorageRepeats
          PROVE  /\ resources[r].manage = "Managed"
                 /\ \A p \in DOMAIN passes : ~Storing(passes[p])
      <3>1. IsManaged(r) /\ \A p \in DOMAIN passes : \A e \in ToSet(passes[p].writes) : e.usage # "storage"
        BY <1>8, <2>2 DEF ReadWriteBuffer
      <3>2. \A p \in DOMAIN passes : \A j \in DOMAIN passes[p].writes :
              passes[p].writes[j] \in ToSet(passes[p].writes)
        BY DEF ToSet
      <3> QED
        BY <3>1, <3>2 DEF IsManaged, Storing
    <2> HIDE DEF none, one
    <2>3. Addable(resources, r, one("storage"), one("storage"))
      BY <1>2, <2>1, <2>2 DEF Addable, Usages, WriteUsages
    <2> QED
      BY <2>1, <2>2, <2>3, WritingShape
  <1> QED
    BY <1>3, <1>4, <1>6, <1>7, <1>8

\* New passes, with resources of their own, of which none stores.
LEMMA PassesShape ==
    ASSUME RecordInv, ShapeInv, Longer(resources, resources'), AllOK(resources'),
           NEW new \in Seq(PassRecord), passes' = passes \o new,
           \A i \in DOMAIN new : PassShape(new[i], resources') /\ ~Storing(new[i])
    PROVE  ShapeInv'
  <1>1. passes \in Seq(PassRecord)
    BY DEF RecordInv
  <1>2. \A p \in DOMAIN passes' :
          \/ p \in DOMAIN passes /\ passes'[p] = passes[p]
          \/ p - Len(passes) \in DOMAIN new /\ passes'[p] = new[p - Len(passes)]
    BY <1>1
  <1>3. \A p \in DOMAIN passes' : PassShape(passes'[p], resources')
    BY <1>1, <1>2, ShapeLonger DEF RecordInv, ShapeInv
  <1>4. ~StorageRepeats => OneStores(passes')
    BY <1>2 DEF ShapeInv, OneStores
  <1> QED
    BY <1>3, <1>4 DEF ShapeInv, AllOK

LEMMA OnePassShape ==
    ASSUME RecordInv, ShapeInv, Longer(resources, resources'), AllOK(resources'),
           NEW pass \in PassRecord, passes' = Append(passes, pass),
           PassShape(pass, resources'), ~Storing(pass)
    PROVE  ShapeInv'
  <1>1. passes' = passes \o <<pass>> /\ <<pass>> \in Seq(PassRecord)
    BY AppendAsConcat DEF RecordInv
  <1>2. \A i \in DOMAIN <<pass>> : PassShape(<<pass>>[i], resources') /\ ~Storing(<<pass>>[i])
    OBVIOUS
  <1> HIDE DEF ShapeInv, RecordInv
  <1> DEFINE new == <<pass>>
  <1>3. new \in Seq(PassRecord) /\ passes' = passes \o new
        /\ \A i \in DOMAIN new : PassShape(new[i], resources') /\ ~Storing(new[i])
    BY <1>1, <1>2
  <1> HIDE DEF new
  <1> QED
    BY <1>3, PassesShape

\* The edges of the passes that uploads, mipmaps and the presentation add.
Small(rs, reads, writes) ==
    /\ reads \in Seq(EdgeType) /\ writes \in Seq(EdgeType)
    /\ Len(reads) <= 1 /\ Len(writes) <= 1
    /\ \A i \in DOMAIN reads, j \in DOMAIN writes : Apart(rs, reads[i].res, writes[j].res)
    /\ \A i \in DOMAIN reads : reads[i].usage \in ReadUsages
    /\ \A j \in DOMAIN writes :
         \/ writes[j].usage = "copy_dest"
         \/ writes[j].usage = "target" /\ rs[writes[j].res].class = "texture"

\* The passes that a call makes with their edges have it.
LEMMA SmallShape ==
    ASSUME NEW rs, NEW type \in PassTypes, NEW staging \in Nat,
           NEW reads, NEW writes, Small(rs, reads, writes)
    PROVE  /\ Pass(type, reads, writes, staging) \in PassRecord
           /\ PassShape(Pass(type, reads, writes, staging), rs)
           /\ ~Storing(Pass(type, reads, writes, staging))
  <1> DEFINE pass == Pass(type, reads, writes, staging)
  <1> USE DEF Small
  <1>1. pass \in PassRecord /\ pass.reads = reads /\ pass.writes = writes
    BY PassIs
  <1>2. \A s \in Seq(EdgeType) : Len(s) <= 1 => \A i, j \in DOMAIN s : i = j
    OBVIOUS
  <1> HIDE DEF pass
  <1>3. ReadsApart(pass, rs) /\ WritesApart(pass, rs)
    BY <1>1, <1>2 DEF ReadsApart, WritesApart
  <1>4. ReadsFromWrites(pass, rs) /\ ReadShape(pass)
    BY <1>1 DEF ReadsFromWrites, ReadShape
  <1>5. WriteShape(pass, rs) /\ ~Storing(pass)
    BY <1>1 DEF WriteShape, Storing, WriteUsages
  <1>6. pass \in PassRecord /\ PassShape(pass, rs) /\ ~Storing(pass)
    BY <1>1, <1>3, <1>4, <1>5 DEF PassShape
  <1> QED
    BY <1>6 DEF pass

\* What is not managed is imported.
LEMMA NotManaged ==
    ASSUME NEW res \in Resource, ResOK(res), res.manage # "Managed"
    PROVE  res.of \in Imported
  BY NamesApart DEF ResOK, Resource

LEMMA ManagedApart ==
    ASSUME NEW rs, NEW r \in Nat, NEW q \in Nat, r # q, rs[q] \in Resource, ResOK(rs[q]),
           rs[r].manage = "Managed"
    PROVE  Apart(rs, r, q)
  <1>1. r # (IF rs[q].manage = "Managed" THEN q ELSE rs[q].of)
    BY NotManaged, NamesApart
  <1> QED
    BY <1>1 DEF Apart, LocsIn

LEMMA MipsApart ==
    ASSUME NEW rs, NEW r, NEW q, rs[r].sub # rs[q].sub, rs[r].sub # Whole, rs[q].sub # Whole
    PROVE  Apart(rs, r, q)
  BY DEF Apart, LocsIn

LEMMA AddPassShape ==
    ASSUME RecordInv, ShapeInv, NEW type \in {"render", "compute", "holdon"}, AddPass(type)
    PROVE  ShapeInv'
  <1> DEFINE none == <<>>
             pass == Pass(type, none, none, None)
  <1>1. none \in Seq(EdgeType) /\ Len(none) = 0 /\ DOMAIN none = {}
    OBVIOUS
  <1>2. resources' = resources /\ passes' = Append(passes, pass)
    BY DEF AddPass
  <1>3. Longer(resources, resources') /\ AllOK(resources')
    BY <1>2 DEF RecordInv, Longer, ShapeInv, AllOK
  <1>4. type \in PassTypes /\ None \in Nat
    BY DEF PassTypes, None
  <1>5. pass \in PassRecord /\ PassShape(pass, resources') /\ ~Storing(pass)
    <2> HIDE DEF none
    <2>1. Small(resources', none, none)
      BY <1>1 DEF Small
    <2> QED
      BY <1>4, <2>1, SmallShape
  <1> HIDE DEF pass
  <1> QED
    BY <1>2, <1>3, <1>5, OnePassShape

\* An upload to a resource that is there or was added for it.
LEMMA UploadPassShape ==
    ASSUME RecordInv, ShapeInv, NEW rs, Longer(resources, rs), AllOK(rs), NEW dest \in DOMAIN rs,
           AddUpload("upload", rs, dest)
    PROVE  ShapeInv'
  <1> DEFINE staging == Len(rs) + 1
             reads == <<Edge(staging, "copy_source")>>
             writes == <<Edge(dest, "copy_dest")>>
             pass == Pass("upload", reads, writes, staging)
             new == Managed("staging", TRUE)
  <1>1. /\ rs \in Seq(Resource) /\ new \in Resource /\ ResOK(new) /\ new.manage = "Managed"
    BY NewResources DEF Longer, Classes
  <1>2. resources' = Append(rs, new) /\ passes' = Append(passes, pass)
    BY DEF AddUpload
  <1>3. /\ resources' \in Seq(Resource) /\ AllOK(resources') /\ Len(resources') = Len(rs) + 1
        /\ \A i \in DOMAIN rs : resources'[i] = rs[i]
        /\ resources'[Len(rs) + 1] = new
    <2>1. ASSUME NEW x \in Resource
          PROVE  /\ Append(rs, x) \in Seq(Resource) /\ Len(Append(rs, x)) = Len(rs) + 1
                 /\ \A i \in DOMAIN rs : Append(rs, x)[i] = rs[i]
                 /\ Append(rs, x)[Len(rs) + 1] = x
      BY <1>1
    <2> HIDE DEF new
    <2> QED
      BY <1>1, <1>2, <2>1, AllOKAppend
  <1>4. Longer(resources, resources')
    <2>1. DOMAIN resources \subseteq DOMAIN rs /\ Len(resources) <= Len(rs) /\ Len(rs) \in Nat
          /\ Len(resources) \in Nat
      BY <1>1 DEF RecordInv, Longer
    <2> QED
      BY <1>3, <2>1 DEF Longer
  <1>5. /\ staging \in Nat /\ dest \in Nat /\ dest # staging
        /\ resources'[dest] \in Resource /\ ResOK(resources'[dest])
        /\ resources'[staging].manage = "Managed"
    <2> HIDE DEF new
    <2> QED
      BY <1>1, <1>3 DEF AllOK
  <1>6. Apart(resources', staging, dest)
    <2> HIDE DEF staging
    <2> QED
      BY <1>5, ManagedApart
  <1>7. /\ reads \in Seq(EdgeType) /\ Len(reads) = 1
        /\ \A i \in DOMAIN reads : reads[i].res = staging /\ reads[i].usage = "copy_source"
        /\ writes \in Seq(EdgeType) /\ Len(writes) = 1
        /\ \A j \in DOMAIN writes : writes[j].res = dest /\ writes[j].usage = "copy_dest"
    <2>1. /\ Edge(staging, "copy_source") \in EdgeType /\ Edge(staging, "copy_source").res = staging
          /\ Edge(dest, "copy_dest") \in EdgeType /\ Edge(dest, "copy_dest").res = dest
          /\ Edge(staging, "copy_source").usage = "copy_source"
          /\ Edge(dest, "copy_dest").usage = "copy_dest"
      BY <1>5, EdgeTypes DEF Usages
    <2> QED
      BY <2>1, OneEdge
  <1>8. "upload" \in PassTypes
    BY DEF PassTypes
  <1> HIDE DEF reads, writes, staging
  <1>9. pass \in PassRecord /\ PassShape(pass, resources') /\ ~Storing(pass)
    <2>1. Small(resources', reads, writes)
      BY <1>6, <1>7 DEF Small, ReadUsages
    <2> QED
      BY <1>5, <1>8, <2>1, SmallShape
  <1> HIDE DEF pass
  <1> QED
    BY <1>2, <1>3, <1>4, <1>9, OnePassShape

LEMMA UploadShape ==
    ASSUME RecordInv, ShapeInv, NEW r \in DOMAIN resources,
           UploadBuffer(r) \/ \E mip \in 1..Mips : UploadTexture(r, mip)
    PROVE  ShapeInv'
  <1>1. resources \in Seq(Resource) /\ r \in Nat /\ AllOK(resources)
    BY DEF RecordInv, ShapeInv, AllOK
  <1>2. Longer(resources, resources)
    BY <1>1 DEF Longer
  <1>3. CASE AddUpload("upload", resources, r)
    BY <1>1, <1>2, <1>3, UploadPassShape
  <1>4. ASSUME NEW mip \in 1..Mips, resources[r].of \in Textures,
               AddUpload("upload", Append(resources, SubOf(r, mip)), Len(resources) + 1)
        PROVE  ShapeInv'
    <2>1. SubOf(r, mip) \in Resource /\ ResOK(SubOf(r, mip))
      BY <1>4, SubOfOK
    <2>2. Longer(resources, Append(resources, SubOf(r, mip)))
      BY <1>1, <2>1, LongerAppend
    <2>3. AllOK(Append(resources, SubOf(r, mip)))
      BY <1>1, <2>1, AllOKAppend
    <2>4. Len(resources) + 1 \in DOMAIN Append(resources, SubOf(r, mip))
      BY <1>1, <2>1
    <2> QED
      BY <1>4, <2>2, <2>3, <2>4, UploadPassShape
  <1> QED
    BY <1>3, <1>4 DEF UploadBuffer, UploadTexture

LEMMA MipmapShape ==
    ASSUME RecordInv, ShapeInv, NEW r \in DOMAIN resources, GenerateMipmap(r)
    PROVE  ShapeInv'
  <1> DEFINE base == Len(resources)
             subs == [i \in 1..Mips |-> SubOf(r, i)]
             pass(i) == Pass("render", <<Edge(base + i, "sampled")>>,
                             <<Edge(base + i + 1, "target")>>, None)
             new == [i \in 1..Mips - 1 |-> pass(i)]
  <1>1. resources \in Seq(Resource) /\ base \in Nat /\ Mips \in Nat \ {0} /\ AllOK(resources)
    BY NamesApart DEF RecordInv, ShapeInv, AllOK
  <1>2. resources' = resources \o subs /\ passes' = passes \o new /\ resources[r].of \in Textures
    BY DEF GenerateMipmap
  <1>3. \A i \in 1..Mips : SubOf(r, i) \in Resource /\ ResOK(SubOf(r, i))
                            /\ SubOf(r, i).sub = i /\ SubOf(r, i).class = "texture"
    BY <1>2, SubOfOK
  <1>4. subs \in Seq(Resource) /\ Len(subs) = Mips
    BY <1>1, <1>3
  <1>5. /\ Longer(resources, resources') /\ Len(resources') = base + Mips
        /\ resources' \in Seq(Resource) /\ AllOK(resources')
        /\ \A i \in 1..Mips : resources'[base + i] = SubOf(r, i)
    <2> HIDE DEF subs
    <2>1. resources' \in Seq(Resource) /\ Len(resources') = base + Mips
      <3>2. ASSUME NEW t \in Seq(Resource)
            PROVE  resources \o t \in Seq(Resource) /\ Len(resources \o t) = base + Len(t)
        BY <1>1
      <3> QED
        BY <1>2, <1>4, <3>2
    <2>2. \A i \in 1..Mips : resources'[base + i] = subs[i]
      BY <1>1, <1>2, <1>4
    <2>3. \A i \in DOMAIN resources : resources'[i] = resources[i]
      BY <1>1, <1>2, <1>4
    <2>4. \A i \in DOMAIN resources' : i \in DOMAIN resources \/ (i - base \in 1..Mips /\ i = base + (i - base))
      BY <1>1, <2>1
    <2>5. \A i \in 1..Mips : resources'[base + i] = SubOf(r, i)
      BY <2>2 DEF subs
    <2>6. AllOK(resources')
      BY <1>1, <1>3, <2>3, <2>4, <2>5 DEF AllOK
    <2> QED
      BY <1>1, <2>1, <2>3, <2>5, <2>6 DEF Longer
  <1>6. ASSUME NEW i \in 1..Mips - 1
        PROVE  pass(i) \in PassRecord /\ PassShape(pass(i), resources') /\ ~Storing(pass(i))
    <2> DEFINE x == base + i
               y == base + i + 1
               reads == <<Edge(x, "sampled")>>
               writes == <<Edge(y, "target")>>
    <2>1. /\ x \in Nat /\ y \in Nat
          /\ resources'[x].sub = i /\ resources'[y].sub = i + 1 /\ resources'[y].class = "texture"
          /\ i # 0 /\ i + 1 # 0 /\ i # i + 1
      <3>1. i \in 1..Mips /\ i + 1 \in 1..Mips /\ y = base + (i + 1) /\ i \in Nat
        BY <1>1
      <3>2. resources'[base + (i + 1)] = SubOf(r, i + 1)
        BY <3>1, <1>5
      <3> QED
        BY <1>1, <1>3, <1>5, <3>1, <3>2
    <2>2. /\ reads \in Seq(EdgeType) /\ Len(reads) = 1
          /\ \A j \in DOMAIN reads : reads[j].res = x /\ reads[j].usage = "sampled"
          /\ writes \in Seq(EdgeType) /\ Len(writes) = 1
          /\ \A j \in DOMAIN writes : writes[j].res = y /\ writes[j].usage = "target"
      <3>1. /\ Edge(x, "sampled") \in EdgeType /\ Edge(x, "sampled").res = x
            /\ Edge(x, "sampled").usage = "sampled"
            /\ Edge(y, "target") \in EdgeType /\ Edge(y, "target").res = y
            /\ Edge(y, "target").usage = "target"
        BY <2>1, EdgeTypes DEF Usages
      <3> QED
        BY <3>1, OneEdge
    <2>3. None \in Nat /\ "render" \in PassTypes
      BY DEF None, PassTypes
    <2>4. pass(i) = Pass("render", reads, writes, None)
      OBVIOUS
    <2> HIDE DEF x, y, pass
    <2>5. Apart(resources', x, y)
      BY <2>1, MipsApart DEF Whole
    <2> HIDE DEF reads, writes
    <2>7. Small(resources', reads, writes)
      BY <2>1, <2>2, <2>5 DEF Small, ReadUsages
    <2>6. /\ Pass("render", reads, writes, None) \in PassRecord
          /\ PassShape(Pass("render", reads, writes, None), resources')
          /\ ~Storing(Pass("render", reads, writes, None))
      BY <2>3, <2>7, SmallShape
    <2> QED
      BY <2>4, <2>6
  <1>7. /\ new \in Seq(PassRecord)
        /\ \A i \in DOMAIN new : PassShape(new[i], resources') /\ ~Storing(new[i])
    <2> HIDE DEF pass
    <2> QED
      BY <1>1, <1>6
  <1> HIDE DEF new
  <1> QED
    BY <1>2, <1>5, <1>7, PassesShape

LEMMA PresentShape ==
    ASSUME RecordInv, ShapeInv, Present
    PROVE  ShapeInv'
  <1> DEFINE r == CHOOSE n \in DOMAIN resources' : resources'[n].of = Backbuffer
             reads == <<Edge(r, "present")>>
             none == <<>>
             pass == Pass("present", reads, none, None)
  <1>1. resources' = WithBackbuffer /\ passes' = Append(passes, pass)
    BY DEF Present
  <1>2. Longer(resources, resources') /\ AllOK(resources')
    BY <1>1, WithBackbufferLonger, BackbufferOK
  <1>3. passes' \in Seq(PassRecord) /\ Len(passes') \in DOMAIN passes'
        /\ pass = passes'[Len(passes')]
    <2> HIDE DEF pass
    <2>1. RecordInv'
      BY PresentKeeps
    <2>2. \A x : Len(Append(passes, x)) = Len(passes) + 1 /\ Append(passes, x)[Len(passes) + 1] = x
      BY DEF RecordInv
    <2>3. Len(passes) + 1 = Len(passes') /\ Len(passes) \in Nat /\ passes' \in Seq(PassRecord)
      BY <1>1, <2>1, <2>2 DEF RecordInv
    <2> QED
      BY <1>1, <2>2, <2>3
  <1>4. pass \in PassRecord /\ pass.reads = reads /\ pass.writes = none
    <2> HIDE DEF reads, none
    <2> QED
      BY <1>3 DEF Pass
  <1>5. /\ none \in Seq(EdgeType) /\ Len(none) = 0 /\ DOMAIN none = {}
        /\ Len(reads) = 1 /\ \A i \in DOMAIN reads : reads[i].usage = "present"
    <2> HIDE DEF r
    <2> QED
      BY DEF Edge
  <1>6. None \in Nat /\ "present" \in PassTypes /\ "present" \in ReadUsages
        /\ reads \in Seq(EdgeType)
    BY <1>4 DEF None, PassTypes, ReadUsages, PassRecord
  <1> HIDE DEF reads, none
  <1>7. PassShape(pass, resources') /\ ~Storing(pass)
    <2>1. Small(resources', reads, none)
      BY <1>5, <1>6 DEF Small
    <2> QED
      BY <1>6, <2>1, SmallShape
  <1> HIDE DEF pass
  <1> QED
    BY <1>1, <1>2, <1>4, <1>7, OnePassShape

LEMMA ShapeNext ==
    ASSUME RecordInv, ShapeInv, [Next]_vars
    PROVE  ShapeInv'
  <1>1. CASE \E r \in DOMAIN resources :
               \/ ColorAttachment(r) \/ DepthAttachment(r) \/ Sample(r)
               \/ UseBuffer(r) \/ ReadWriteBuffer(r)
    BY <1>1, BuilderShape
  <1>2. CASE \E r \in DOMAIN resources :
               UploadBuffer(r) \/ \E mip \in 1..Mips : UploadTexture(r, mip)
    BY <1>2, UploadShape
  <1>3. CASE \E r \in DOMAIN resources : GenerateMipmap(r)
    BY <1>3, MipmapShape
  <1>4. CASE \E type \in {"render", "compute", "holdon"} : AddPass(type)
    BY <1>4, AddPassShape
  <1>5. CASE Present
    BY <1>5, PresentShape
  <1>6. CASE Record
    BY <1>1, <1>2, <1>3, <1>4, <1>5, <1>6, DeclarationShape DEF Record
  <1>7. CASE BeginFrame
    <2>1. resources' = <<>> /\ passes' = <<>>
      BY <1>7 DEF BeginFrame
    <2> QED
      BY <2>1 DEF ShapeInv, OneStores
  <1>8. CASE ~Record /\ ~BeginFrame
    <2>1. resources' = resources /\ passes' = passes
      BY <1>8 DEF Next, StartCulling, Cull, StartExecution, Devirtualize, ExecutePass, GpuPass,
                  recorded, vars
    <2> QED
      BY <2>1 DEF ShapeInv
  <1> QED
    BY <1>6, <1>7, <1>8

LEMMA ShapeInit == Init => ShapeInv
  BY DEF Init, ShapeInv, OneStores

-----------------------------------------------------------------------------
(* Objects are shared by resources only one after the other                 *)

LEMMA MaxIs ==
    ASSUME NEW n \in Nat, NEW S \in SUBSET (0..n), S # {}
    PROVE  Max(S) \in S /\ \A y \in S : y <= Max(S)
  <1> DEFINE T == {n - x : x \in S}
  <1>1. T \in SUBSET Nat /\ T # {}
    <2>1. \A x \in S : n - x \in Nat
      OBVIOUS
    <2> QED
      BY <2>1
  <1>2. PICK t \in T : \A u \in T : t <= u
    BY <1>1, Least
  <1>3. PICK x \in S : t = n - x
    BY <1>2
  <1>4. \A y \in S : x >= y
    BY <1>2, <1>3
  <1>5. \E z \in S : \A y \in S : z >= y
    BY <1>4
  <1>6. Max(S) \in S /\ \A y \in S : Max(S) >= y
    BY <1>5 DEF Max
  <1> QED
    BY <1>6

\* The life of a resource ends with its last pass or later.
LEMMA LastUseIs ==
    ASSUME RecordInv, NEW r \in DOMAIN resources, Readers(r) \cup Writers(r) # {}
    PROVE  /\ LastUse(r) \in 1..PassCount
           /\ \A p \in Readers(r) \cup Writers(r) : p <= LastUse(r)
  <1> DEFINE S == Readers(r) \cup Writers(r)
  <1>1. PassCount \in Nat /\ DOMAIN passes = 1..PassCount
    BY DEF RecordInv, PassCount
  <1>2. S \subseteq 1..PassCount /\ S \in SUBSET (0..PassCount) /\ S # {}
    BY <1>1 DEF Readers, Writers
  <1>3. Max(S) \in S /\ \A y \in S : y <= Max(S)
    <2> HIDE DEF S
    <2> QED
      BY <1>1, <1>2, MaxIs
  <1>4. CASE resources[r].hold
    <2>1. LastUse(r) = PassCount
      BY <1>4 DEF LastUse
    <2> QED
      BY <1>1, <1>2, <2>1
  <1>5. CASE ~resources[r].hold
    <2>1. LastUse(r) = Max(S)
      BY <1>5 DEF LastUse
    <2> HIDE DEF S
    <2> QED
      BY <1>2, <1>3, <2>1 DEF S
  <1> QED
    BY <1>4, <1>5

\* The resources that have an object and will still be used.
Held(r) == Live(r) /\ bound[r] # None /\ next <= LastUse(r)

PoolType ==
    /\ DOMAIN pool \subseteq Objects
    /\ \A o \in DOMAIN pool : pool[o] \in 0..MaxAge /\ made[o] # "none"
    /\ made \in [Objects -> Classes \cup {"none"}]

AliasInv ==
    /\ phase \in {"execute", "gpu"} =>
         \A r \in DOMAIN resources : bound[r] # None => Live(r) /\ made[bound[r]] # "none"
    /\ phase = "execute" =>
         /\ \A r, q \in DOMAIN resources : Held(r) /\ Held(q) /\ bound[r] = bound[q] => r = q
         /\ \A r \in DOMAIN resources : Held(r) => bound[r] \notin DOMAIN pool

PoolInv == PoolType /\ AliasInv

LEMMA PoolInit == Init => PoolInv
  <1> SUFFICES ASSUME Init PROVE PoolInv
    OBVIOUS
  <1>1. pool = [o \in {} |-> 0] /\ made = [o \in Objects |-> "none"] /\ phase = "record"
    BY DEF Init
  <1> QED
    BY <1>1 DEF PoolInv, PoolType, AliasInv

LEMMA HeldSame ==
    ASSUME UNCHANGED <<recorded, refs>>
    PROVE  \A r : LastUse(r)' = LastUse(r) /\ Live(r)' = Live(r)
  <1>1. passes' = passes /\ resources' = resources
    BY DEF recorded
  <1>2. \A r : LastUse(r)' = LastUse(r)
    BY <1>1 DEF LastUse, PassCount, Readers, Writers, Ends
  <1> QED
    BY <1>2, LiveSame

\* A resource gets an object that nobody has.
LEMMA TakingKeeps ==
    ASSUME RecordInv, CullInv, BoundInv, PoolInv,
           NEW q \in DOMAIN resources, NEW o \in Objects, Devirtualize(q, o)
    PROVE  /\ PoolInv'
           /\ phase = "execute" /\ phase' = phase
           /\ \/ o \in DOMAIN pool /\ UNCHANGED <<made, tracked, consistent, layout, access>>
              \/ /\ made[o] = "none"
                 /\ tracked' = [tracked EXCEPT ![o] = <<"undefined">>]
                 /\ consistent' = [consistent EXCEPT ![o] = TRUE]
                 /\ layout' = [layout EXCEPT ![o] = <<"undefined">>]
                 /\ access' = [access EXCEPT ![o] = <<"none">>]
                 /\ made' = [made EXCEPT ![o] = resources[q].class]
  <1>1. /\ phase = "execute" /\ phase' = phase /\ next' = next /\ UNCHANGED <<recorded, refs>>
        /\ bound' = [bound EXCEPT ![q] = o] /\ resources' = resources
        /\ Due # {} /\ q = Min(Due) /\ (TakeFree(q, o) \/ TakeNew(q, o))
    BY DEF Devirtualize, Executing, compiled, recorded
  <1>2. /\ bound \in [DOMAIN resources -> Objects \cup {None}]
        /\ made \in [Objects -> Classes \cup {"none"}] /\ DOMAIN pool \subseteq Objects
        /\ \A x \in DOMAIN pool : pool[x] \in 0..MaxAge /\ made[x] # "none"
    BY <1>1 DEF BoundInv, PoolInv, PoolType
  <1>3. q \in Due
    <2>1. Due \in SUBSET Nat
      BY DEF Due, RecordInv
    <2> QED
      BY <1>1, <2>1, MinIs
  <1>4. Live(q) /\ bound[q] = None /\ resources[q].class \in Classes
    <2>1. resources[q] \in Resource
      BY DEF RecordInv
    <2> QED
      BY <1>3, <2>1 DEF Due, Resource
  <1>5. "none" \notin Classes
    BY DEF Classes
  <1>6. \/ /\ o \in DOMAIN pool /\ made' = made
           /\ pool' = [x \in DOMAIN pool \ {o} |-> pool[x]]
           /\ UNCHANGED <<tracked, consistent, layout, access>>
        \/ /\ made[o] = "none"
           /\ made' = [made EXCEPT ![o] = resources[q].class] /\ pool' = pool
           /\ tracked' = [tracked EXCEPT ![o] = <<"undefined">>]
           /\ consistent' = [consistent EXCEPT ![o] = TRUE]
           /\ layout' = [layout EXCEPT ![o] = <<"undefined">>]
           /\ access' = [access EXCEPT ![o] = <<"none">>]
    <2>1. CASE TakeFree(q, o)
      BY <2>1 DEF TakeFree, Matching
    <2>2. CASE TakeNew(q, o)
      <3>1. Unmade # {} /\ o = Min(Unmade) /\ Unmade \in SUBSET Nat
        BY <2>2 DEF TakeNew, Unmade, Objects
      <3>2. o \in Unmade
        BY <3>1, MinIs
      <3> QED
        BY <2>2, <3>2 DEF TakeNew, Unmade
    <2> QED
      BY <1>1, <2>1, <2>2
  <1>7. /\ made' \in [Objects -> Classes \cup {"none"}] /\ DOMAIN pool' \subseteq DOMAIN pool
        /\ \A x \in DOMAIN pool' : pool'[x] = pool[x] /\ made'[x] # "none"
        /\ \A x \in Objects : made[x] # "none" => made'[x] # "none"
        /\ made'[o] # "none" /\ o \notin DOMAIN pool'
    BY <1>2, <1>4, <1>5, <1>6
  <1>8. PoolType'
    BY <1>2, <1>7 DEF PoolType
  <1>9. /\ \A r \in DOMAIN resources : r # q => bound'[r] = bound[r]
        /\ bound'[q] = o
    BY <1>1, <1>2
  <1>10. \A r \in DOMAIN resources : bound'[r] # None => Live(r) /\ made'[bound'[r]] # "none"
    BY <1>1, <1>2, <1>4, <1>7, <1>9 DEF PoolInv, AliasInv
  <1>11. \A r \in DOMAIN resources : r # q /\ Held(r)' => Held(r) /\ bound'[r] = bound[r]
    BY <1>1, <1>9, HeldSame DEF Held
  <1>12. \A r \in DOMAIN resources : Held(r) => bound[r] # o
    BY <1>1, <1>2, <1>6 DEF PoolInv, AliasInv, Held
  <1>13. \A r, s \in DOMAIN resources :
           Held(r)' /\ Held(s)' /\ bound'[r] = bound'[s] => r = s
    BY <1>1, <1>9, <1>11, <1>12 DEF PoolInv, AliasInv
  <1>14. \A r \in DOMAIN resources : Held(r)' => bound'[r] \notin DOMAIN pool'
    BY <1>1, <1>7, <1>9, <1>11 DEF PoolInv, AliasInv
  <1>15. AliasInv'
    BY <1>1, <1>10, <1>13, <1>14, HeldSame DEF AliasInv
  <1> QED
    BY <1>1, <1>6, <1>8, <1>15 DEF PoolInv

\* Objects go back to the pool after the last pass that uses them.
LEMMA EndingKeeps ==
    ASSUME RecordInv, CullInv, BoundInv, PoolInv, ExecutePass
    PROVE  PoolInv'
  <1>1. /\ phase = "execute" /\ phase' \in {"execute", "gpu"} /\ next' = next + 1
        /\ UNCHANGED <<recorded, refs>> /\ bound' = bound /\ made' = made /\ Due = {}
        /\ pool' = [o \in DOMAIN pool \cup Ended |-> IF o \in Ended THEN 0 ELSE pool[o]]
        /\ resources' = resources
    BY DEF ExecutePass, Executing, compiled, recorded
  <1>2. /\ next \in Nat /\ bound \in [DOMAIN resources -> Objects \cup {None}]
        /\ made \in [Objects -> Classes \cup {"none"}] /\ DOMAIN pool \subseteq Objects
        /\ \A x \in DOMAIN pool : pool[x] \in 0..MaxAge /\ made[x] # "none"
    BY <1>1 DEF BoundInv, PoolInv, PoolType
  <1>3. ASSUME NEW r \in DOMAIN resources, Live(r)
        PROVE  /\ LastUse(r) \in Nat
               /\ LastUse(r) = next => bound[r] # None
    <2>1. Readers(r) # {} /\ FirstUse(r) \in Nat
          /\ \A p \in Readers(r) \cup Writers(r) : FirstUse(r) <= p
      BY <1>1, <1>3, LiveRead
    <2>2. LastUse(r) \in 1..PassCount /\ \A p \in Readers(r) \cup Writers(r) : p <= LastUse(r)
      BY <2>1, LastUseIs
    <2>3. PICK p \in Readers(r) : TRUE
      BY <2>1
    <2>4. p \in Nat
      BY UsersAreNumbers
    <2>5. PassCount \in Nat
      BY NodeFacts
    <2>6. LastUse(r) \in Nat /\ FirstUse(r) <= LastUse(r)
      BY <2>1, <2>2, <2>3, <2>4, <2>5
    <2>7. CASE FirstUse(r) < next
      BY <1>1, <1>3, <2>6, <2>7 DEF BoundInv
    <2>8. CASE FirstUse(r) = next
      BY <1>1, <1>3, <2>6, <2>8 DEF Due
    <2> QED
      BY <1>2, <2>1, <2>6, <2>7, <2>8
  <1>4. \A o \in Ended : \E q \in DOMAIN resources : Held(q) /\ LastUse(q) = next /\ o = bound[q]
    BY <1>2, <1>3 DEF Ended, Held
  <1>5. Ended \subseteq Objects /\ \A o \in Ended : made[o] # "none"
    BY <1>1, <1>2, <1>4 DEF PoolInv, AliasInv, Held
  <1>6. MaxAge \in Nat
    BY RenderGraphAssumption DEF RenderGraphAssumption
  <1>7. PoolType'
    BY <1>1, <1>2, <1>5, <1>6 DEF PoolType
  <1>8. \A r \in DOMAIN resources : Held(r)' => Held(r) /\ LastUse(r) # next
    BY <1>1, <1>2, <1>3, HeldSame DEF Held
  <1>9. \A r \in DOMAIN resources : Held(r)' => bound'[r] \notin DOMAIN pool'
    BY <1>1, <1>4, <1>8 DEF PoolInv, AliasInv
  <1>10. AliasInv'
    BY <1>1, <1>8, <1>9, HeldSame DEF PoolInv, AliasInv
  <1> QED
    BY <1>7, <1>10 DEF PoolInv

LEMMA PoolNext ==
    ASSUME RecordInv, CullInv, BoundInv, PoolInv, [Next]_vars
    PROVE  PoolInv'
  <1>1. ASSUME UNCHANGED <<pool, made>>, phase' \notin {"execute", "gpu"}
        PROVE  PoolInv'
    BY <1>1 DEF PoolInv, PoolType, AliasInv
  <1>2. ASSUME UNCHANGED <<pool, made, recorded, refs, bound, phase, next>>
        PROVE  PoolInv'
    <2>1. resources' = resources /\ \A r : Held(r)' = Held(r)
      BY <1>2, HeldSame DEF recorded, Held
    <2> QED
      BY <1>2, <2>1, HeldSame DEF PoolInv, PoolType, AliasInv
  <1>3. CASE Record
    <2>1. UNCHANGED <<pool, made>>
      BY <1>3 DEF Record, DeclareTexture, DeclareBuffer, ImportTexture, ImportBuffer,
                  ImportBackbuffer, Declare, AddPass, MayAdd, ColorAttachment, DepthAttachment,
                  Sample, UseBuffer, ReadWriteBuffer, Attach, UploadTexture, UploadBuffer,
                  AddUpload, GenerateMipmap, Present, Quiet, KeepSlot, Recording
    <2>2. phase' \in {"record", "compile"}
      BY <1>3 DEF Record, DeclareTexture, DeclareBuffer, ImportTexture, ImportBuffer,
                  ImportBackbuffer, Declare, AddPass, MayAdd, ColorAttachment, DepthAttachment,
                  Sample, UseBuffer, ReadWriteBuffer, Attach, UploadTexture, UploadBuffer,
                  AddUpload, GenerateMipmap, Present, Quiet, KeepSlot, Recording
    <2> QED
      BY <1>1, <2>1, <2>2
  <1>4. CASE StartCulling \/ Cull
    BY <1>1, <1>4 DEF StartCulling, Cull, cpu
  <1>5. CASE StartExecution
    <2>1. /\ phase' = "execute" /\ UNCHANGED <<pool, made, recorded>>
          /\ bound' = [r \in DOMAIN resources |-> None]
      BY <1>5 DEF StartExecution
    <2>2. resources' = resources /\ \A r \in DOMAIN resources : bound'[r] = None
      BY <2>1 DEF recorded
    <2> QED
      BY <2>1, <2>2 DEF PoolInv, PoolType, AliasInv, Held
  <1>6. CASE \E r \in DOMAIN resources, o \in Objects : Devirtualize(r, o)
    BY <1>6, TakingKeeps
  <1>7. CASE ExecutePass
    BY <1>7, EndingKeeps
  <1>8. CASE GpuPass
    BY <1>2, <1>8 DEF GpuPass, compiled, cpu
  <1>9. CASE BeginFrame
    <2>1. /\ phase' = "record"
          /\ pool' = [o \in UpToDate |-> pool[o] + 1]
          /\ made' = [o \in Objects |-> IF o \in UpToDate THEN made[o] ELSE "none"]
      BY <1>9 DEF BeginFrame
    <2>2. UpToDate \subseteq DOMAIN pool /\ \A o \in UpToDate : pool[o] < MaxAge
      BY DEF UpToDate
    <2>3. MaxAge \in Nat
      BY RenderGraphAssumption DEF RenderGraphAssumption
    <2>4. PoolType'
      BY <2>1, <2>2, <2>3 DEF PoolInv, PoolType
    <2> QED
      BY <2>1, <2>4 DEF PoolInv, AliasInv
  <1>10. CASE UNCHANGED vars
    BY <1>2, <1>10 DEF vars, compiled, cpu
  <1> QED
    BY <1>3, <1>4, <1>5, <1>6, <1>7, <1>8, <1>9, <1>10 DEF Next

-----------------------------------------------------------------------------
(* The barriers of a pass, edge by edge                                     *)

\* What FoldLeft computes on the way, for the sets of indices it has seen.
Folding(base, edges, m, it) ==
    it = [s \in SUBSET (1..m) |->
            IF s = {} THEN base ELSE PlaceBarrier(edges[Max(s)], it[s \ {Max(s)}])]

LEMMA FoldingIs ==
    ASSUME NEW base, NEW edges, NEW m \in Nat, NEW it, NEW g,
           Folding(base, edges, m, it),
           g = [s \in SUBSET (1..m + 1) |->
                  IF s = {} THEN base ELSE PlaceBarrier(edges[Max(s)], it[s \ {Max(s)}])]
    PROVE  Folding(base, edges, m + 1, g)
  <1> DEFINE F(s, h) == IF s = {} THEN base ELSE PlaceBarrier(edges[Max(s)], h[s \ {Max(s)}])
  <1>1. ASSUME NEW s \in SUBSET (1..m + 1), s # {}
        PROVE  s \ {Max(s)} \in SUBSET (1..m)
    <2>1. s \in SUBSET (0..m + 1) /\ m + 1 \in Nat
      OBVIOUS
    <2>2. Max(s) \in s /\ \A y \in s : y <= Max(s)
      BY <1>1, <2>1, MaxIs
    <2>3. ASSUME NEW y \in s, y # Max(s)
          PROVE  y \in 1..m
      <3>1. y \in 1..m + 1 /\ Max(s) \in 1..m + 1 /\ y <= Max(s)
        BY <2>2
      <3> QED
        BY <2>3, <3>1
    <2> QED
      BY <2>3
  <1>2. \A t \in SUBSET (1..m) : t \in SUBSET (1..m + 1)
    OBVIOUS
  <1>3. \A t \in SUBSET (1..m) : it[t] = F(t, it)
    BY DEF Folding
  <1>4. \A t \in SUBSET (1..m + 1) : g[t] = F(t, it)
    OBVIOUS
  <1>5. \A t \in SUBSET (1..m) : g[t] = it[t]
    <2> HIDE DEF F
    <2> QED
      BY <1>2, <1>3, <1>4
  <1>6. \A s \in SUBSET (1..m + 1) : F(s, it) = F(s, g)
    <2> TAKE s \in SUBSET (1..m + 1)
    <2>1. CASE s = {}
      BY <2>1
    <2>2. CASE s # {}
      <3>1. g[s \ {Max(s)}] = it[s \ {Max(s)}]
        BY <1>1, <1>5, <2>2
      <3> QED
        BY <3>1
    <2> QED
      BY <2>1, <2>2
  <1>7. g = [s \in SUBSET (1..m + 1) |-> F(s, it)]
    OBVIOUS
  <1>8. g = [s \in SUBSET (1..m + 1) |-> F(s, g)]
    <2> HIDE DEF F
    <2> QED
      BY <1>6, <1>7
  <1> QED
    BY <1>8 DEF Folding

\* FoldLeft is defined by a function that is chosen: there is one to choose.
LEMMA FoldingExists ==
    ASSUME NEW base, NEW edges
    PROVE  \A m \in Nat : \E it : Folding(base, edges, m, it)
  <1> DEFINE Bad == {m \in Nat : ~\E it : Folding(base, edges, m, it)}
  <1> SUFFICES Bad = {}
    OBVIOUS
  <1> SUFFICES ASSUME Bad # {} PROVE FALSE
    OBVIOUS
  <1>1. PICK m \in Bad : \A k \in Bad : m <= k
    <2>1. Bad \in SUBSET Nat
      OBVIOUS
    <2> HIDE DEF Bad
    <2> QED
      BY <2>1, Least
  <1>2. CASE m = 0
    <2> DEFINE h == [s \in SUBSET (1..0) |-> base]
    <2>1. \A s \in SUBSET (1..0) : s = {}
      OBVIOUS
    <2>2. Folding(base, edges, 0, h)
      BY <2>1 DEF Folding
    <2> HIDE DEF h
    <2> QED
      BY <1>2, <2>2
  <1>3. CASE m # 0
    <2>1. m - 1 \in Nat /\ m - 1 \notin Bad /\ (m - 1) + 1 = m
      BY <1>1, <1>3
    <2>2. PICK it : Folding(base, edges, m - 1, it)
      BY <2>1
    <2> DEFINE g == [s \in SUBSET (1..(m - 1) + 1) |->
                  IF s = {} THEN base ELSE PlaceBarrier(edges[Max(s)], it[s \ {Max(s)}])]
    <2>3. Folding(base, edges, (m - 1) + 1, g)
      BY <2>1, <2>2, FoldingIs
    <2>4. \E h : Folding(base, edges, (m - 1) + 1, h)
      <3> HIDE DEF g
      <3> QED
        BY <2>3
    <2> QED
      BY <2>1, <2>4
  <1> QED
    BY <1>2, <1>3

Unplaced == [tracked |-> tracked, consistent |-> consistent, placed |-> {}]

\* After the first i edges of pass p.
Stages(p, steps) ==
    /\ steps[0] = Unplaced
    /\ \A i \in DOMAIN Edges(p) : steps[i] = PlaceBarrier(Edges(p)[i], steps[i - 1])
    /\ PlaceBarriers(p) = steps[Len(Edges(p))]

\* So the barriers of a pass are placed edge by edge.
LEMMA StagesExist ==
    ASSUME NEW p, Edges(p) \in Seq(EdgeType)
    PROVE  \E steps : Stages(p, steps)
  <1> DEFINE edges == Edges(p)
             n == Len(edges)
  <1>1. n \in Nat /\ DOMAIN edges = 1..n
    OBVIOUS
  <1>2. PICK it0 : Folding(Unplaced, edges, n, it0)
    <2> HIDE DEF edges
    <2> QED
      BY <1>1, FoldingExists
  <1>3. \E it : Folding(Unplaced, edges, n, it) /\ PlaceBarriers(p) = it[DOMAIN edges]
    <2> HIDE DEF n
    <2>1. it0 = [s \in SUBSET DOMAIN edges |->
            IF s = {} THEN Unplaced ELSE PlaceBarrier(edges[Max(s)], it0[s \ {Max(s)}])]
      BY <1>1, <1>2 DEF Folding
    <2>2. \E it : /\ it = [s \in SUBSET DOMAIN edges |->
                       IF s = {} THEN Unplaced ELSE PlaceBarrier(edges[Max(s)], it[s \ {Max(s)}])]
                  /\ PlaceBarriers(p) = it[DOMAIN edges]
      BY <2>1 DEF PlaceBarriers, FoldLeft, MapThenFoldSet, Unplaced
    <2> QED
      BY <1>1, <2>2 DEF Folding
  <1>4. PICK it : Folding(Unplaced, edges, n, it) /\ PlaceBarriers(p) = it[DOMAIN edges]
    BY <1>3
  <1> DEFINE steps == [i \in 0..n |-> it[1..i]]
  <1>5. it[{}] = Unplaced
    <2>1. {} \in SUBSET (1..n)
      OBVIOUS
    <2> QED
      BY <1>4, <2>1 DEF Folding
  <1>6. ASSUME NEW i \in 1..n
        PROVE  it[1..i] = PlaceBarrier(edges[i], it[1..(i - 1)])
    <2>1. 1..i \in SUBSET (1..n) /\ 1..i # {} /\ 1..i \in SUBSET (0..n) /\ i \in 1..i
      <3> HIDE DEF n
      <3>1. i \in 1..i
        BY <1>1
      <3>2. n \in Nat /\ i \in Nat /\ i <= n
        BY <1>1
      <3>3. \A x \in 1..i : x \in 1..n /\ x \in 0..n
        BY <3>2
      <3> QED
        BY <3>1, <3>3
    <2>2. Max(1..i) = i
      <3>1. Max(1..i) \in 1..i /\ i <= Max(1..i)
        BY <1>1, <2>1, MaxIs
      <3> QED
        BY <3>1
    <2>3. (1..i) \ {i} = 1..(i - 1)
      BY <1>1
    <2> DEFINE s == 1..i
    <2>4. it[s] = PlaceBarrier(edges[Max(s)], it[s \ {Max(s)}])
      <3>1. s \in SUBSET (1..n) /\ s # {}
        BY <2>1
      <3> HIDE DEF s, edges, n
      <3> QED
        BY <1>4, <3>1 DEF Folding
    <2> QED
      BY <2>2, <2>3, <2>4
  <1>7. 1..0 = {}
    OBVIOUS
  <1>8. steps[0] = Unplaced
    BY <1>1, <1>5, <1>7
  <1>9. \A i \in 1..n : steps[i] = PlaceBarrier(edges[i], steps[i - 1])
    <2> TAKE i \in 1..n
    <2>1. i \in 0..n /\ i - 1 \in 0..n
      BY <1>1
    <2> HIDE DEF edges, n
    <2> QED
      BY <1>6, <2>1
  <1>10. PlaceBarriers(p) = steps[n]
    BY <1>1, <1>4
  <1>11. Stages(p, steps)
    <2> HIDE DEF steps
    <2> QED
      BY <1>1, <1>8, <1>9, <1>10 DEF Stages
  <1> QED
    BY <1>11

TrackOK(tr) ==
    /\ DOMAIN tr = Places
    /\ \A o \in Places : DOMAIN tr[o] = Subs(o) /\ \A s \in Subs(o) : tr[o][s] \in Usages
Agree(tr, co) ==
    /\ DOMAIN co = Places
    /\ \A o \in Places : co[o] \in BOOLEAN /\ (co[o] => \A s \in Subs(o) : tr[o][s] = tr[o][1])

\* Edge e has a state and is about subresource s of object o.
About(e, o, s) == e.usage # "undefined" /\ Place(e.res) = o /\ s \in SubsOf(e.res)
Barrier(o, s, src, dst) == [spot |-> <<o, s>>, src |-> src, dst |-> dst]

\* A resource is one or all of the subresources of a known object.
Placed(r) ==
    /\ Place(r) \in Places
    /\ SubsOf(r) \subseteq Subs(Place(r))
    /\ resources[r].sub = Whole => SubsOf(r) = Subs(Place(r))

LEMMA OneIsSub == \A o : 1 \in Subs(o)
  BY NamesApart DEF Subs

\* Edge e has turned b into a.
ByOne(b, e, a) ==
    /\ TrackOK(a.tracked) /\ Agree(a.tracked, a.consistent)
    /\ \A o \in Places : \A s \in Subs(o) :
         a.tracked[o][s] = IF About(e, o, s) THEN e.usage ELSE b.tracked[o][s]
    /\ a.placed = b.placed \cup
         {Barrier(Place(e.res), s, b.tracked[Place(e.res)][s], e.usage) :
            s \in {t \in SubsOf(e.res) : b.tracked[Place(e.res)][t] # e.usage \/ Forced(e)}}

\* What one edge does.
LEMMA PlaceOne ==
    ASSUME NEW b, TrackOK(b.tracked), Agree(b.tracked, b.consistent),
           NEW e \in EdgeType, Placed(e.res), e.usage # "undefined",
           NEW a, a = PlaceBarrier(e, b)
    PROVE  ByOne(b, e, a)
  <1> DEFINE r == e.res
             o == Place(r)
             whole == resources[r].sub = Whole
             from(s) == IF whole /\ b.consistent[o] THEN b.tracked[o][1] ELSE b.tracked[o][s]
             moved == {s \in SubsOf(r) : from(s) # e.usage \/ Forced(e)}
             stays == {t \in SubsOf(r) : b.tracked[o][t] # e.usage \/ Forced(e)}
             state == [s \in Subs(o) |-> IF s \in moved THEN e.usage ELSE b.tracked[o][s]]
  <1>1. /\ a.tracked = [b.tracked EXCEPT ![o] = state]
        /\ a.consistent = IF whole THEN [b.consistent EXCEPT ![o] = TRUE]
                          ELSE IF moved = {} THEN b.consistent
                          ELSE [b.consistent EXCEPT ![o] = FALSE]
        /\ a.placed = b.placed \cup {Barrier(o, s, from(s), e.usage) : s \in moved}
    BY DEF PlaceBarrier, Barrier
  <1>2. /\ o \in Places /\ SubsOf(r) \subseteq Subs(o) /\ (whole => SubsOf(r) = Subs(o))
    BY DEF Placed
  <1>3. \A s \in SubsOf(r) : from(s) = b.tracked[o][s]
    BY <1>2 DEF Agree
  <1>4. moved = stays
    <2> HIDE DEF from
    <2> QED
      BY <1>3
  <1>5. a.placed = b.placed \cup {Barrier(o, s, b.tracked[o][s], e.usage) : s \in stays}
    <2>1. \A s \in moved : from(s) = b.tracked[o][s]
      BY <1>3
    <2> HIDE DEF moved, from, stays
    <2> QED
      BY <1>1, <1>4, <2>1
  <1>6. /\ o \in Places /\ e.usage \in Usages /\ SubsOf(r) \subseteq Subs(o)
        /\ (whole => SubsOf(r) = Subs(o)) /\ moved \subseteq SubsOf(r)
        /\ \A s \in SubsOf(r) : s \notin moved => b.tracked[o][s] = e.usage
    BY <1>2, <1>4 DEF EdgeType, Placed
  <1> HIDE DEF moved, whole, o, r, from, stays
  <1>7. /\ DOMAIN a.tracked = Places /\ a.tracked[o] = state
        /\ \A x \in Places : x # o => a.tracked[x] = b.tracked[x]
    <2> HIDE DEF state
    <2> QED
      BY <1>1, <1>6 DEF TrackOK
  <1>8. \A s \in Subs(o) : a.tracked[o][s] = IF s \in SubsOf(r) THEN e.usage ELSE b.tracked[o][s]
    BY <1>6, <1>7
  <1>9. TrackOK(a.tracked)
    <2>1. DOMAIN a.tracked[o] = Subs(o)
      BY <1>7
    <2> HIDE DEF state
    <2>2. ASSUME NEW x \in Places
          PROVE  DOMAIN a.tracked[x] = Subs(x) /\ \A s \in Subs(x) : a.tracked[x][s] \in Usages
      <3>1. CASE x = o
        BY <1>6, <1>8, <2>1, <3>1 DEF TrackOK
      <3>2. CASE x # o
        BY <1>7, <3>2 DEF TrackOK
      <3> QED
        BY <3>1, <3>2
    <2> QED
      BY <1>7, <2>2 DEF TrackOK
  <1>10. Agree(a.tracked, a.consistent)
    <2> HIDE DEF state
    <2>1. DOMAIN a.consistent = Places /\ \A x \in Places : x # o => a.consistent[x] = b.consistent[x]
      BY <1>1, <1>6 DEF Agree
    <2>2. a.consistent[o] \in BOOLEAN
          /\ (a.consistent[o] => \A s \in Subs(o) : a.tracked[o][s] = a.tracked[o][1])
      <3>1. CASE whole
        <4>1. a.consistent[o] = TRUE
          BY <1>1, <1>6, <3>1 DEF Agree
        <4>2. \A s \in Subs(o) : a.tracked[o][s] = e.usage
          BY <1>6, <1>8, <3>1
        <4> QED
          BY <4>1, <4>2, OneIsSub
      <3>2. CASE ~whole /\ moved = {}
        <4>1. a.consistent[o] = b.consistent[o]
          BY <1>1, <3>2
        <4>2. \A s \in Subs(o) : a.tracked[o][s] = b.tracked[o][s]
          BY <1>6, <1>8, <3>2
        <4> QED
          BY <1>6, <4>1, <4>2, OneIsSub DEF Agree
      <3>3. CASE ~whole /\ moved # {}
        <4>1. a.consistent[o] = FALSE
          BY <1>1, <1>6, <3>3 DEF Agree
        <4> QED
          BY <4>1
      <3> QED
        BY <3>1, <3>2, <3>3
    <2> QED
      BY <1>7, <2>1, <2>2 DEF Agree
  <1>11. ASSUME NEW x \in Places, NEW s \in Subs(x)
         PROVE  a.tracked[x][s] = IF About(e, x, s) THEN e.usage ELSE b.tracked[x][s]
    <2>1. About(e, x, s) <=> x = o /\ s \in SubsOf(r)
      BY DEF About, o, r
    <2> HIDE DEF state
    <2> QED
      BY <1>7, <1>8, <2>1
  <1>12. a.placed = b.placed \cup
                {Barrier(Place(e.res), s, b.tracked[Place(e.res)][s], e.usage) :
                   s \in {t \in SubsOf(e.res) : b.tracked[Place(e.res)][t] # e.usage \/ Forced(e)}}
    BY <1>5 DEF o, r, stays
  <1> QED
    BY <1>9, <1>10, <1>11, <1>12 DEF ByOne

\* The edges of a pass that have a state are about different subresources, but
\* for those that are alike and are not forced.
EdgesApart(edges) ==
    \A j, k \in DOMAIN edges : \A o \in Places : \A s \in Subs(o) :
      About(edges[j], o, s) /\ About(edges[k], o, s) =>
        j = k \/ (edges[j] = edges[k] /\ ~Forced(edges[j]))

\* After the first i edges: what they are about is in the state they ask for, by
\* one barrier from the state it was in before the pass, or because it was.
StageOK(edges, b, i) ==
    /\ TrackOK(b.tracked) /\ Agree(b.tracked, b.consistent)
    /\ \A o \in Places : \A s \in Subs(o) :
         /\ \A j \in 1..i : About(edges[j], o, s) =>
              /\ b.tracked[o][s] = edges[j].usage
              /\ \/ \E x \in b.placed : x.spot = <<o, s>>
                 \/ tracked[o][s] = edges[j].usage /\ ~Forced(edges[j])
         /\ (\A j \in 1..i : ~About(edges[j], o, s)) => b.tracked[o][s] = tracked[o][s]
    /\ \A x \in b.placed : \E o \in Places : \E s \in Subs(o) : \E j \in 1..i :
         About(edges[j], o, s) /\ x = Barrier(o, s, tracked[o][s], edges[j].usage)

LEMMA StageStart ==
    ASSUME TrackOK(tracked), Agree(tracked, consistent), NEW edges
    PROVE  StageOK(edges, Unplaced, 0)
  BY DEF StageOK, Unplaced

\* What the first edges have done, the next one keeps.
LEMMA StageStep ==
    ASSUME NEW edges \in Seq(EdgeType), EdgesApart(edges), NEW i \in DOMAIN edges,
           Placed(edges[i].res), NEW b, StageOK(edges, b, i - 1),
           NEW a, a = PlaceBarrier(edges[i], b)
    PROVE  StageOK(edges, a, i)
  <1> DEFINE e == edges[i]
  <1>1. i \in Nat /\ i # 0 /\ e \in EdgeType /\ \A j \in 1..i : j \in DOMAIN edges
    OBVIOUS
  <1>2. \A j \in 1..i : j = i \/ j \in 1..(i - 1)
    BY <1>1
  <1>3. \A j \in 1..(i - 1) : j \in 1..i /\ j # i
    BY <1>1
  <1>4. CASE e.usage = "undefined"
    <2>1. a = b
      BY <1>4 DEF PlaceBarrier
    <2>2. \A o, s : ~About(e, o, s)
      BY <1>4 DEF About
    <2>3. \A j \in 1..i : \A o, s : About(edges[j], o, s) => j \in 1..(i - 1)
      BY <1>2, <2>2
    <2>4. StageOK(edges, a, i - 1)
      BY <2>1
    <2> HIDE DEF e
    <2>5. ASSUME NEW x \in a.placed
          PROVE  \E o \in Places : \E s \in Subs(o) : \E j \in 1..i :
                   About(edges[j], o, s) /\ x = Barrier(o, s, tracked[o][s], edges[j].usage)
      BY <1>3, <2>4, <2>5 DEF StageOK
    <2>6. ASSUME NEW o \in Places, NEW s \in Subs(o)
          PROVE /\ \A j \in 1..i : About(edges[j], o, s) =>
                     /\ a.tracked[o][s] = edges[j].usage
                     /\ \/ \E x \in a.placed : x.spot = <<o, s>>
                        \/ tracked[o][s] = edges[j].usage /\ ~Forced(edges[j])
                /\ (\A j \in 1..i : ~About(edges[j], o, s)) => a.tracked[o][s] = tracked[o][s]
      BY <1>3, <2>3, <2>4 DEF StageOK
    <2> QED
      BY <2>4, <2>5, <2>6 DEF StageOK
  <1>5. CASE e.usage # "undefined"
    <2> DEFINE p == Place(e.res)
               stays == {t \in SubsOf(e.res) : b.tracked[p][t] # e.usage \/ Forced(e)}
    <2>1. TrackOK(b.tracked) /\ Agree(b.tracked, b.consistent)
      BY DEF StageOK
    <2>2. /\ TrackOK(a.tracked) /\ Agree(a.tracked, a.consistent)
          /\ \A o \in Places : \A s \in Subs(o) :
               a.tracked[o][s] = IF About(e, o, s) THEN e.usage ELSE b.tracked[o][s]
          /\ a.placed = b.placed \cup {Barrier(p, s, b.tracked[p][s], e.usage) : s \in stays}
      <3>1. Placed(e.res) /\ a = PlaceBarrier(e, b)
        OBVIOUS
      <3>2. e \in EdgeType
        BY <1>1
      <3>3. ByOne(b, e, a)
        <4> HIDE DEF e
        <4> QED
          BY <1>5, <2>1, <3>1, <3>2, PlaceOne
      <3> HIDE DEF e
      <3> QED
        BY <3>3 DEF ByOne
    <2>3. /\ p \in Places /\ SubsOf(e.res) \subseteq Subs(p)
          /\ \A o, s : About(e, o, s) <=> o = p /\ s \in SubsOf(e.res)
      BY <1>5 DEF Placed, About
    <2>4. ASSUME NEW o \in Places, NEW s \in Subs(o), NEW j \in 1..(i - 1),
                 About(edges[j], o, s), About(e, o, s)
          PROVE  edges[j] = e /\ ~Forced(e) /\ b.tracked[o][s] = e.usage
      BY <1>1, <1>3, <2>4 DEF EdgesApart, StageOK
    <2>5. ASSUME NEW o \in Places, NEW s \in Subs(o), About(e, o, s)
          PROVE  \/ \E x \in a.placed : x.spot = <<o, s>>
                 \/ tracked[o][s] = e.usage /\ ~Forced(e)
      <3>1. o = p /\ s \in SubsOf(e.res)
        BY <2>3, <2>5
      <3>2. CASE s \in stays
        <4> DEFINE x == Barrier(p, s, b.tracked[p][s], e.usage)
        <4>1. x \in a.placed
          BY <2>2, <3>2
        <4>2. x.spot = <<o, s>>
          BY <3>1 DEF Barrier
        <4> QED
          BY <4>1, <4>2
      <3>3. CASE s \notin stays
        <4>1. b.tracked[o][s] = e.usage /\ ~Forced(e)
          BY <3>1, <3>3
        <4>2. CASE \E j \in 1..(i - 1) : About(edges[j], o, s)
          <5>1. PICK j \in 1..(i - 1) : About(edges[j], o, s)
            BY <4>2
          <5>2. edges[j] = e
            BY <2>4, <2>5, <5>1
          <5>3. \/ \E x \in b.placed : x.spot = <<o, s>>
                \/ tracked[o][s] = edges[j].usage /\ ~Forced(edges[j])
            BY <5>1 DEF StageOK
          <5> HIDE DEF e, stays, p
          <5> QED
            BY <2>2, <5>2, <5>3
        <4>3. CASE \A j \in 1..(i - 1) : ~About(edges[j], o, s)
          <5>1. b.tracked[o][s] = tracked[o][s]
            BY <4>3 DEF StageOK
          <5> QED
            BY <4>1, <5>1
        <4> QED
          BY <4>2, <4>3
      <3> QED
        BY <3>2, <3>3
    <2>6. ASSUME NEW o \in Places, NEW s \in Subs(o), NEW j \in 1..i, About(edges[j], o, s)
          PROVE  /\ a.tracked[o][s] = edges[j].usage
                 /\ \/ \E x \in a.placed : x.spot = <<o, s>>
                    \/ tracked[o][s] = edges[j].usage /\ ~Forced(edges[j])
      <3>1. CASE j = i
        BY <2>2, <2>5, <2>6, <3>1
      <3>2. CASE j # i
        <4>1. j \in 1..(i - 1)
          BY <1>2, <3>2
        <4>2. /\ b.tracked[o][s] = edges[j].usage
              /\ \/ \E x \in b.placed : x.spot = <<o, s>>
                 \/ tracked[o][s] = edges[j].usage /\ ~Forced(edges[j])
          BY <2>6, <4>1 DEF StageOK
        <4>3. About(e, o, s) => edges[j] = e
          BY <2>4, <2>6, <4>1
        <4> HIDE DEF e, stays, p
        <4> QED
          BY <2>2, <4>2, <4>3
      <3> QED
        BY <3>1, <3>2
    <2>7. ASSUME NEW o \in Places, NEW s \in Subs(o), \A j \in 1..i : ~About(edges[j], o, s)
          PROVE  a.tracked[o][s] = tracked[o][s]
      <3>1. ~About(e, o, s) /\ \A j \in 1..(i - 1) : ~About(edges[j], o, s)
        BY <1>1, <1>3, <2>7
      <3>2. b.tracked[o][s] = tracked[o][s]
        BY <3>1 DEF StageOK
      <3> QED
        BY <2>2, <3>1, <3>2
    <2>8. ASSUME NEW x \in a.placed
          PROVE  \E o \in Places : \E s \in Subs(o) : \E j \in 1..i :
                   About(edges[j], o, s) /\ x = Barrier(o, s, tracked[o][s], edges[j].usage)
      <3>1. CASE x \in b.placed
        <4>1. PICK o \in Places : \E s \in Subs(o) : \E j \in 1..(i - 1) :
                   About(edges[j], o, s) /\ x = Barrier(o, s, tracked[o][s], edges[j].usage)
          BY <3>1 DEF StageOK
        <4> QED
          BY <1>3, <4>1
      <3>2. CASE x \notin b.placed
        <4>1. PICK s \in stays : x = Barrier(p, s, b.tracked[p][s], e.usage)
          BY <2>2, <3>2
        <4>2. s \in SubsOf(e.res) /\ s \in Subs(p) /\ (b.tracked[p][s] # e.usage \/ Forced(e))
          BY <2>3
        <4>3. About(e, p, s)
          BY <2>3, <4>2
        <4>4. \A j \in 1..(i - 1) : ~About(edges[j], p, s)
          BY <2>3, <2>4, <4>2, <4>3
        <4>5. b.tracked[p][s] = tracked[p][s]
          BY <2>3, <4>2, <4>4 DEF StageOK
        <4>6. i \in 1..i
          BY <1>1
        <4> HIDE DEF p, stays
        <4> QED
          BY <2>3, <4>1, <4>2, <4>3, <4>5, <4>6
      <3> QED
        BY <3>1, <3>2
    <2> QED
      BY <2>2, <2>6, <2>7, <2>8 DEF StageOK
  <1> QED
    BY <1>4, <1>5

\* What placing the barriers of a pass amounts to.
LEMMA BarriersPlaced ==
    ASSUME NEW p, Edges(p) \in Seq(EdgeType), EdgesApart(Edges(p)),
           \A i \in DOMAIN Edges(p) : Placed(Edges(p)[i].res),
           TrackOK(tracked), Agree(tracked, consistent)
    PROVE  StageOK(Edges(p), PlaceBarriers(p), Len(Edges(p)))
  <1> DEFINE edges == Edges(p)
             n == Len(edges)
  <1>1. PICK steps : Stages(p, steps)
    BY StagesExist
  <1>2. n \in Nat /\ DOMAIN edges = 1..n
    OBVIOUS
  <1>3. steps[0] = Unplaced /\ PlaceBarriers(p) = steps[n]
        /\ \A i \in DOMAIN edges : steps[i] = PlaceBarrier(edges[i], steps[i - 1])
    BY <1>1 DEF Stages
  <1> DEFINE Bad == {i \in 0..n : ~StageOK(edges, steps[i], i)}
  <1>4. ASSUME Bad # {}
        PROVE  FALSE
    <2>1. PICK i \in Bad : \A k \in Bad : i <= k
      <3>1. Bad \in SUBSET Nat
        BY <1>2
      <3> HIDE DEF Bad
      <3> QED
        BY <1>4, <3>1, Least
    <2> HIDE DEF n, edges
    <2>2. CASE i = 0
      BY <1>3, <2>1, <2>2, StageStart
    <2>3. CASE i # 0
      <3>1. i \in DOMAIN edges /\ i - 1 \in 0..n /\ i - 1 < i
        BY <1>2, <2>1, <2>3
      <3>2. StageOK(edges, steps[i - 1], i - 1)
        BY <1>2, <2>1, <3>1
      <3>3. StageOK(edges, steps[i], i)
        BY <1>3, <3>1, <3>2, StageStep DEF edges
      <3> QED
        BY <2>1, <3>3
    <2> QED
      BY <2>2, <2>3
  <1>5. n \in 0..n
    BY <1>2
  <1>6. StageOK(edges, steps[n], n)
    <2> HIDE DEF n, edges
    <2> QED
      BY <1>4, <1>5
  <1> QED
    BY <1>3, <1>6

-----------------------------------------------------------------------------
(* The pass that the executor is at                                         *)

\* It is not culled, and nothing it names lacks an object.
Runs == phase = "execute" /\ next \in DOMAIN passes /\ Missing(next) = {}

\* The edges of a pass are its reads, and then its writes.
LEMMA EdgesOf ==
    ASSUME RecordInv, NEW p \in DOMAIN passes
    PROVE  /\ passes[p].reads \in Seq(EdgeType) /\ passes[p].writes \in Seq(EdgeType)
           /\ Edges(p) \in Seq(EdgeType)
           /\ Ends(Edges(p)) = Ends(passes[p].reads) \cup Ends(passes[p].writes)
           /\ \A i \in DOMAIN Edges(p) :
                \/ i \in DOMAIN passes[p].reads /\ Edges(p)[i] = passes[p].reads[i]
                \/ /\ i \notin DOMAIN passes[p].reads
                   /\ i - Len(passes[p].reads) \in DOMAIN passes[p].writes
                   /\ Edges(p)[i] = passes[p].writes[i - Len(passes[p].reads)]
           /\ \A i \in DOMAIN passes[p].reads :
                i \in DOMAIN Edges(p) /\ Edges(p)[i] = passes[p].reads[i]
           /\ \A i \in DOMAIN passes[p].writes :
                /\ i + Len(passes[p].reads) \in DOMAIN Edges(p)
                /\ Edges(p)[i + Len(passes[p].reads)] = passes[p].writes[i]
  <1> DEFINE s == passes[p].reads
             t == passes[p].writes
  <1>1. s \in Seq(EdgeType) /\ t \in Seq(EdgeType) /\ Edges(p) = s \o t
    <2>1. passes[p] \in PassRecord
      BY DEF RecordInv
    <2> QED
      BY <2>1 DEF PassRecord, Edges
  <1> HIDE DEF s, t
  <1>2. Edges(p) \in Seq(EdgeType) /\ Ends(Edges(p)) = Ends(s) \cup Ends(t)
    BY <1>1, EndsConcat
  <1>3. \A i \in DOMAIN Edges(p) :
          \/ i \in DOMAIN s /\ Edges(p)[i] = s[i]
          \/ i \notin DOMAIN s /\ i - Len(s) \in DOMAIN t /\ Edges(p)[i] = t[i - Len(s)]
    BY <1>1
  <1>4. /\ \A i \in DOMAIN s : i \in DOMAIN Edges(p) /\ Edges(p)[i] = s[i]
        /\ \A i \in DOMAIN t : i + Len(s) \in DOMAIN Edges(p) /\ Edges(p)[i + Len(s)] = t[i]
    BY <1>1
  <1> QED
    BY <1>1, <1>2, <1>3, <1>4 DEF s, t

\* What it names is there; the managed ones are held.
LEMMA NamesHeld ==
    ASSUME RecordInv, ShapeInv, BoundInv, PoolInv, Runs,
           NEW i \in DOMAIN Edges(next), NEW r, r = Edges(next)[i].res
    PROVE  /\ r \in DOMAIN resources /\ resources[r] \in Resource /\ ResOK(resources[r])
           /\ IsManaged(r) => Held(r) /\ bound[r] \in Objects /\ made[bound[r]] # "none"
           /\ ~IsManaged(r) => resources[r].of \in Imported
  <1>1. r \in Ends(Edges(next))
    BY DEF Ends
  <1>2. r \in Ends(passes[next].reads) \/ r \in Ends(passes[next].writes)
    BY <1>1, EdgesOf DEF Runs
  <1>3. r \in DOMAIN resources
    BY <1>2 DEF RecordInv, PassOK, Runs
  <1>4. resources[r] \in Resource /\ ResOK(resources[r])
    BY <1>3 DEF RecordInv, ShapeInv
  <1>5. ASSUME IsManaged(r)
        PROVE  Held(r) /\ bound[r] \in Objects /\ made[bound[r]] # "none"
    <2>1. bound[r] # None /\ bound[r] \in Objects
      BY <1>1, <1>3, <1>5 DEF Missing, Runs, BoundInv
    <2>2. Live(r) /\ made[bound[r]] # "none"
      BY <1>3, <2>1 DEF PoolInv, AliasInv, Runs
    <2>3. next \in Readers(r) \cup Writers(r)
      BY <1>2 DEF Readers, Writers, Runs
    <2>4. next <= LastUse(r)
      BY <1>3, <2>3, LastUseIs
    <2> QED
      BY <2>1, <2>2, <2>4 DEF Held
  <1> QED
    BY <1>3, <1>4, <1>5, NotManaged DEF IsManaged

LEMMA PlacedIf ==
    ASSUME NEW r, NEW o \in Places, Place(r) = o, SubsOf(r) \subseteq Subs(o),
           resources[r].sub = Whole => SubsOf(r) = Subs(o)
    PROVE  Placed(r)
  BY DEF Placed

LEMMA NamesPlaced ==
    ASSUME RecordInv, ShapeInv, BoundInv, PoolInv, Runs, NEW i \in DOMAIN Edges(next)
    PROVE  Placed(Edges(next)[i].res)
  <1> SUFFICES ASSUME NEW r, r = Edges(next)[i].res
               PROVE  Placed(r)
    OBVIOUS
  <1>1. /\ resources[r] \in Resource /\ ResOK(resources[r])
        /\ IsManaged(r) => bound[r] \in Objects
        /\ ~IsManaged(r) => resources[r].of \in Imported
    BY NamesHeld
  <1>2. CASE IsManaged(r)
    <2>1. Place(r) = bound[r] /\ resources[r].sub = Whole /\ resources[r].of = None
      BY <1>1, <1>2 DEF Place, IsManaged, ResOK
    <2>2. None \notin Textures /\ bound[r] \notin Textures
      BY <1>1, <1>2, NamesApart
    <2>3. SubsOf(r) = {1} /\ Subs(bound[r]) = {1}
      BY <2>1, <2>2 DEF SubsOf, Subs
    <2>4. bound[r] \in Places
      BY <1>1, <1>2 DEF Places
    <2> QED
      BY <2>1, <2>3, <2>4, PlacedIf
  <1>3. CASE ~IsManaged(r)
    <2>1. Place(r) = resources[r].of /\ resources[r].of \in Places
      BY <1>1, <1>3 DEF Place, Places
    <2>2. CASE resources[r].sub = Whole
      <3>1. SubsOf(r) = Subs(resources[r].of)
        BY <2>2 DEF SubsOf
      <3> QED
        BY <2>1, <3>1, PlacedIf
    <2>3. CASE resources[r].sub # Whole
      <3>1. resources[r].of \in Textures /\ resources[r].sub \in 1..Mips
        BY <1>1, <1>3, <2>3 DEF ResOK, Resource, IsManaged
      <3>2. SubsOf(r) = {resources[r].sub} /\ Subs(resources[r].of) = 1..Mips
        BY <2>3, <3>1 DEF SubsOf, Subs
      <3>3. SubsOf(r) \subseteq Subs(resources[r].of)
        BY <3>1, <3>2
      <3> QED
        BY <2>1, <2>3, <3>3, PlacedIf
    <2> QED
      BY <2>2, <2>3
  <1> QED
    BY <1>2, <1>3

\* Two edges about one subresource of an object are about one location.
LEMMA AboutOne ==
    ASSUME RecordInv, ShapeInv, BoundInv, PoolInv, Runs,
           NEW i \in DOMAIN Edges(next), NEW j \in DOMAIN Edges(next), NEW o, NEW s,
           About(Edges(next)[i], o, s), About(Edges(next)[j], o, s)
    PROVE  ~Apart(resources, Edges(next)[i].res, Edges(next)[j].res)
  <1> DEFINE r == Edges(next)[i].res
             q == Edges(next)[j].res
  <1>1. /\ r \in DOMAIN resources /\ q \in DOMAIN resources
        /\ IsManaged(r) => Held(r) /\ bound[r] \in Objects
        /\ IsManaged(q) => Held(q) /\ bound[q] \in Objects
        /\ ~IsManaged(r) => resources[r].of \in Imported
        /\ ~IsManaged(q) => resources[q].of \in Imported
    BY NamesHeld
  <1>2. Place(r) = o /\ s \in SubsOf(r) /\ Place(q) = o /\ s \in SubsOf(q)
    BY DEF About
  <1> HIDE DEF r, q
  <1>3. CASE IsManaged(r) /\ IsManaged(q)
    <2>1. r = q
      BY <1>1, <1>2, <1>3 DEF Place, PoolInv, AliasInv, Runs
    <2>2. <<r, s>> \in LocsIn(resources, r)
      BY <1>2, <1>3 DEF LocsIn, SubsOf, IsManaged
    <2> QED
      BY <2>1, <2>2 DEF Apart, r, q
  <1>4. CASE ~IsManaged(r) /\ ~IsManaged(q)
    <2>1. <<o, s>> \in LocsIn(resources, r) /\ <<o, s>> \in LocsIn(resources, q)
      BY <1>2, <1>4 DEF LocsIn, SubsOf, IsManaged, Place
    <2> QED
      BY <2>1 DEF Apart, r, q
  <1>5. ~(IsManaged(r) /\ ~IsManaged(q)) /\ ~(~IsManaged(r) /\ IsManaged(q))
    BY <1>1, <1>2, NamesApart DEF Place
  <1> QED
    BY <1>3, <1>4, <1>5

\* So no edge of a pass undoes what another one did.
LEMMA PassApart ==
    ASSUME RecordInv, ShapeInv, BoundInv, PoolInv, Runs
    PROVE  EdgesApart(Edges(next))
  <1> DEFINE pass == passes[next]
             edges == Edges(next)
  <1>1. PassShape(pass, resources)
    BY DEF ShapeInv, Runs
  <1> SUFFICES ASSUME NEW j \in DOMAIN edges, NEW k \in DOMAIN edges,
                      NEW o \in Places, NEW s \in Subs(o),
                      About(edges[j], o, s), About(edges[k], o, s), j # k
               PROVE  edges[j] = edges[k] /\ ~Forced(edges[j])
    BY DEF EdgesApart
  <1>2. ~Apart(resources, edges[j].res, edges[k].res) /\ ~Apart(resources, edges[k].res, edges[j].res)
    BY AboutOne
  <1>3. edges[j].usage # "undefined" /\ edges[k].usage # "undefined"
    BY DEF About
  <1>4. \A i \in DOMAIN edges :
          \/ i \in DOMAIN pass.reads /\ edges[i] = pass.reads[i]
          \/ /\ i \notin DOMAIN pass.reads
             /\ i - Len(pass.reads) \in DOMAIN pass.writes
             /\ edges[i] = pass.writes[i - Len(pass.reads)]
    BY EdgesOf DEF Runs
  <1>5. pass.reads \in Seq(EdgeType) /\ edges \in Seq(EdgeType)
    BY EdgesOf DEF Runs
  <1> HIDE DEF edges, pass
  <1>6. ASSUME NEW m \in DOMAIN pass.reads, NEW n \in DOMAIN pass.writes,
               ~Apart(resources, pass.reads[m].res, pass.writes[n].res),
               pass.reads[m].usage # "undefined"
        PROVE  pass.reads[m] = pass.writes[n] /\ ~Forced(pass.reads[m])
    <2>1. pass.reads[m] = pass.writes[n]
      BY <1>1, <1>6 DEF PassShape, ReadsFromWrites
    <2>2. pass.reads[m].usage = "storage"
      BY <1>1, <1>6, <2>1 DEF PassShape, ReadShape, WriteShape, ReadUsages, WriteUsages
    <2> QED
      BY <2>1, <2>2 DEF Forced
  <1>7. CASE j \in DOMAIN pass.reads /\ k \in DOMAIN pass.reads
    BY <1>1, <1>2, <1>4, <1>7 DEF PassShape, ReadsApart
  <1>8. CASE j \notin DOMAIN pass.reads /\ k \notin DOMAIN pass.reads
    <2>1. j - Len(pass.reads) # k - Len(pass.reads)
      BY <1>5
    <2> QED
      BY <1>1, <1>2, <1>4, <1>8, <2>1 DEF PassShape, WritesApart
  <1>9. CASE j \in DOMAIN pass.reads /\ k \notin DOMAIN pass.reads
    BY <1>2, <1>3, <1>4, <1>6, <1>9
  <1>10. CASE j \notin DOMAIN pass.reads /\ k \in DOMAIN pass.reads
    BY <1>2, <1>3, <1>4, <1>6, <1>10
  <1> QED
    BY <1>7, <1>8, <1>9, <1>10

-----------------------------------------------------------------------------
(* What a recorded command says                                             *)

\* What c does to a subresource that is in state before, and leaves in after.
Explains(c, o, s, before, after) ==
    /\ \A b \in c.barriers : b.spot = <<o, s>> => b.src \in {before, "undefined"} /\ b.dst = after
    /\ (\A b \in c.barriers : b.spot # <<o, s>>) => after = before
    /\ \A u \in c.uses : u.spot = <<o, s>> => u.usage = after

\* A use of command c, of subresource s of o.
UseOK(c, u, o, s) ==
    /\ u.spot = <<o, s>> /\ u.usage \in Usages \ {"undefined"}
    /\ o \in Objects => made[o] # "none"
    /\ u.spot \in c.writes => u.usage \in WriteUsages
    /\ u.spot \notin c.writes => u.usage \in ReadUsages
    /\ u.usage \in {"target", "depth", "copy_dest"} => \E b \in c.barriers : b.spot = u.spot
    /\ u.usage = "storage" =>
         Storing(passes[c.pass]) /\ (~StorageRepeats => o \in Objects)

CommandOK(c) ==
    /\ c.pass \in DOMAIN passes
    /\ \A u \in c.uses : \E o \in Places : \E s \in Subs(o) : UseOK(c, u, o, s)
    /\ \A b \in c.barriers : \E u \in c.uses : b.spot = u.spot

TrackInv ==
    /\ TrackOK(tracked) /\ Agree(tracked, consistent) /\ TrackOK(layout)
    /\ DOMAIN access = Places
    /\ \A o \in Places : DOMAIN access[o] = Subs(o) /\
         \A s \in Subs(o) : access[o][s] \in {"none", "read", "write"}

\* The commands are those of the passes in order.
OrderInv ==
    /\ \E S : cmds \in Seq(S)
    /\ \A i \in DOMAIN cmds : CommandOK(cmds[i]) /\ done < cmds[i].pass
    /\ \A i, j \in DOMAIN cmds : i < j => cmds[i].pass < cmds[j].pass
    /\ phase = "execute" => \A i \in DOMAIN cmds : cmds[i].pass < next
    /\ done \in Nat
    /\ phase # "gpu" => done = 0
    /\ phase \notin {"execute", "gpu"} => cmds = <<>>

\* The states that subresource s of o goes through when the commands run.
TraceOf(o, s, t) ==
    /\ t[0] = layout[o][s]
    /\ \A i \in DOMAIN cmds : Explains(cmds[i], o, s, t[i - 1], t[i])
    /\ tracked[o][s] \in {t[Len(cmds)], "undefined"}
LayoutInv == \A o \in Places : \A s \in Subs(o) : \E t : TraceOf(o, s, t)

\* How a subresource was accessed fits the state it is in.
AccessInv ==
    \A o \in Places : \A s \in Subs(o) :
      /\ access[o][s] = "write" => layout[o][s] \in WriteUsages
      /\ access[o][s] = "read" => layout[o][s] \in ReadUsages
      /\ ~StorageRepeats /\ layout[o][s] = "storage" /\ access[o][s] # "none" =>
           o \in Objects /\ \E q \in DOMAIN passes : q <= done /\ Storing(passes[q])

-----------------------------------------------------------------------------
(* The command of the pass that the executor is at                          *)

\* Edge e of a pass uses the spot of u.
UseOf(e, u, o, s) == About(e, o, s) /\ u.spot = <<o, s>> /\ u.usage = e.usage

\* The uses of a command come from the edges of its pass, and so do its writes.
LEMMA UsesAre ==
    ASSUME NEW p, Edges(p) \in Seq(EdgeType), NEW barriers, NEW u \in Command(p, barriers).uses
    PROVE  \E j \in DOMAIN Edges(p) : \E o, s : UseOf(Edges(p)[j], u, o, s)
  <1> DEFINE of(e) == {[spot |-> x, usage |-> e.usage] : x \in Spots(e.res)}
  <1>1. Command(p, barriers).uses = UNION {of(e) : e \in Used(p)}
    BY DEF Command
  <1>2. PICK e \in Used(p) : u \in of(e)
    <2> HIDE DEF of
    <2> QED
      BY <1>1
  <1>3. PICK x \in Spots(e.res) : u = [spot |-> x, usage |-> e.usage]
    BY <1>2
  <1>4. u.spot = x /\ u.usage = e.usage
    BY <1>3
  <1>5. PICK s \in SubsOf(e.res) : x = <<Place(e.res), s>>
    BY DEF Spots
  <1>6. e \in ToSet(Edges(p)) /\ e.usage # "undefined"
    BY DEF Used
  <1>7. PICK j \in DOMAIN Edges(p) : e = Edges(p)[j]
    BY <1>6 DEF ToSet
  <1>8. UseOf(e, u, Place(e.res), s)
    BY <1>4, <1>5, <1>6 DEF UseOf, About
  <1> QED
    BY <1>7, <1>8

LEMMA UsesAll ==
    ASSUME NEW p, Edges(p) \in Seq(EdgeType), NEW barriers, NEW j \in DOMAIN Edges(p),
           NEW o, NEW s, About(Edges(p)[j], o, s)
    PROVE  \E u \in Command(p, barriers).uses : UseOf(Edges(p)[j], u, o, s)
  <1> DEFINE of(e) == {[spot |-> x, usage |-> e.usage] : x \in Spots(e.res)}
  <1>1. Command(p, barriers).uses = UNION {of(e) : e \in Used(p)}
    BY DEF Command
  <1> SUFFICES ASSUME NEW e, e = Edges(p)[j]
               PROVE  \E u \in Command(p, barriers).uses : UseOf(e, u, o, s)
    OBVIOUS
  <1>2. About(e, o, s)
    OBVIOUS
  <1>3. e \in Used(p)
    BY <1>2 DEF Used, ToSet, About
  <1> DEFINE x == <<o, s>>
             u == [spot |-> x, usage |-> e.usage]
  <1>4. x \in Spots(e.res)
    BY <1>2 DEF About, Spots
  <1>5. u \in of(e)
    BY <1>4
  <1>6. u \in Command(p, barriers).uses
    <2> HIDE DEF of, u
    <2> QED
      BY <1>1, <1>3, <1>5
  <1>7. UseOf(e, u, o, s)
    BY <1>2 DEF UseOf
  <1> QED
    BY <1>6, <1>7

LEMMA WritesAre ==
    ASSUME NEW p, NEW barriers, NEW o, NEW s
    PROVE  <<o, s>> \in Command(p, barriers).writes <=>
             \E j \in DOMAIN passes[p].writes :
               Place(passes[p].writes[j].res) = o /\ s \in SubsOf(passes[p].writes[j].res)
  <1> DEFINE edges == passes[p].writes
             spots == {Spots(r) : r \in Ends(edges)}
  <1>1. Command(p, barriers).writes = UNION spots
    BY DEF Command, SpotsOf
  <1>2. <<o, s>> \in UNION spots <=> \E r \in Ends(edges) : <<o, s>> \in Spots(r)
    OBVIOUS
  <1>3. \A r : <<o, s>> \in Spots(r) <=> Place(r) = o /\ s \in SubsOf(r)
    BY DEF Spots
  <1> HIDE DEF spots
  <1>4. \A r : r \in Ends(edges) <=> \E j \in DOMAIN edges : r = edges[j].res
    BY DEF Ends
  <1> QED
    BY <1>1, <1>2, <1>3, <1>4

\* An edge that has a state reads, or is one of those that write.
Writing(p, e) == \E k \in DOMAIN passes[p].writes : passes[p].writes[k] = e

LEMMA EdgeKinds ==
    ASSUME RecordInv, ShapeInv, Runs, NEW j \in DOMAIN Edges(next), NEW e, e = Edges(next)[j],
           e.usage # "undefined"
    PROVE  \/ e.usage \in ReadUsages /\ j \in DOMAIN passes[next].reads
              /\ e = passes[next].reads[j]
           \/ Writing(next, e)
  <1>1. /\ passes[next].reads \in Seq(EdgeType)
        /\ \/ j \in DOMAIN passes[next].reads /\ e = passes[next].reads[j]
           \/ /\ j - Len(passes[next].reads) \in DOMAIN passes[next].writes
              /\ e = passes[next].writes[j - Len(passes[next].reads)]
    BY EdgesOf DEF Runs
  <1>2. PassShape(passes[next], resources)
    BY DEF ShapeInv, Runs
  <1>3. CASE j \in DOMAIN passes[next].reads /\ e = passes[next].reads[j]
    BY <1>2, <1>3 DEF PassShape, ReadShape, Writing
  <1> QED
    BY <1>1, <1>3 DEF Writing

\* What writes is forced to place a barrier, unless it read-writes a buffer.
LEMMA WritingIs ==
    ASSUME RecordInv, ShapeInv, Runs, NEW e, Writing(next, e)
    PROVE  /\ e.usage \in WriteUsages
           /\ e.usage \in {"target", "depth", "copy_dest"} => Forced(e)
           /\ e.usage = "storage" => Storing(passes[next])
           /\ ~StorageRepeats /\ e.usage = "storage" => IsManaged(e.res)
           /\ \E j \in DOMAIN Edges(next) : Edges(next)[j] = e
  <1>1. PICK k \in DOMAIN passes[next].writes : passes[next].writes[k] = e
    BY DEF Writing
  <1>2. PassShape(passes[next], resources)
    BY DEF ShapeInv, Runs
  <1>3. /\ e.usage \in WriteUsages
        /\ e.usage \in {"target", "depth"} => IsTexture(e.res)
        /\ ~StorageRepeats /\ e.usage = "storage" => IsManaged(e.res)
    BY <1>1, <1>2 DEF PassShape, WriteShape, IsTexture, IsManaged
  <1>4. e.usage \in {"target", "depth", "copy_dest"} => Forced(e)
    BY <1>3 DEF Forced
  <1>5. e.usage = "storage" => Storing(passes[next])
    BY <1>1 DEF Storing
  <1>6. \E j \in DOMAIN Edges(next) : Edges(next)[j] = e
    BY <1>1, EdgesOf DEF Runs
  <1> QED
    BY <1>3, <1>4, <1>5, <1>6

\* The objects that the edges of the pass are about.
LEMMA AboutWhere ==
    ASSUME RecordInv, ShapeInv, BoundInv, PoolInv, Runs,
           NEW j \in DOMAIN Edges(next), NEW o, NEW s, About(Edges(next)[j], o, s)
    PROVE  /\ o \in Places /\ s \in Subs(o)
           /\ Edges(next)[j].usage \in Usages \ {"undefined"}
           /\ o \in Objects => made[o] # "none"
           /\ IsManaged(Edges(next)[j].res) => o \in Objects
  <1> SUFFICES ASSUME NEW e, e = Edges(next)[j]
               PROVE  /\ o \in Places /\ s \in Subs(o)
                      /\ e.usage \in Usages \ {"undefined"}
                      /\ o \in Objects => made[o] # "none"
                      /\ IsManaged(e.res) => o \in Objects
    OBVIOUS
  <1>1. Place(e.res) = o /\ s \in SubsOf(e.res) /\ e.usage # "undefined"
    BY DEF About
  <1>2. Placed(e.res)
    BY NamesPlaced
  <1>3. o \in Places /\ s \in Subs(o)
    BY <1>1, <1>2 DEF Placed
  <1>4. /\ IsManaged(e.res) => bound[e.res] \in Objects /\ made[bound[e.res]] # "none"
        /\ ~IsManaged(e.res) => resources[e.res].of \in Imported
    BY NamesHeld
  <1>5. Edges(next) \in Seq(EdgeType)
    BY EdgesOf DEF Runs
  <1>6. e \in EdgeType
    BY <1>5
  <1>7. IsManaged(e.res) => o = bound[e.res]
    BY <1>1 DEF Place
  <1>8. ~IsManaged(e.res) => o \in Imported /\ o \notin Objects
    BY <1>1, <1>4, NamesApart DEF Place
  <1> QED
    BY <1>1, <1>3, <1>4, <1>6, <1>7, <1>8 DEF EdgeType

\* The barriers and the uses of the pass.
LEMMA StageOfPass ==
    ASSUME RecordInv, ShapeInv, BoundInv, PoolInv, TrackInv, Runs
    PROVE  StageOK(Edges(next), PlaceBarriers(next), Len(Edges(next)))
  <1>1. Edges(next) \in Seq(EdgeType)
    BY EdgesOf DEF Runs
  <1>2. \A i \in DOMAIN Edges(next) : Placed(Edges(next)[i].res)
    BY NamesPlaced
  <1>3. TrackOK(tracked) /\ Agree(tracked, consistent)
    BY DEF TrackInv
  <1> QED
    BY <1>1, <1>2, <1>3, PassApart, BarriersPlaced

\* The command that is recorded is a good one.
LEMMA CommandSays ==
    ASSUME RecordInv, ShapeInv, BoundInv, PoolInv, TrackInv, Runs,
           NEW c, c = Command(next, PlaceBarriers(next).placed)
    PROVE  CommandOK(c)
  <1> DEFINE edges == Edges(next)
             b == PlaceBarriers(next)
  <1>1. edges \in Seq(EdgeType) /\ DOMAIN edges = 1..Len(edges)
    BY EdgesOf DEF Runs
  <1>2. StageOK(edges, b, Len(edges))
    BY StageOfPass
  <1>3. c.pass = next /\ c.barriers = b.placed
    BY DEF Command
  <1>4. next \in DOMAIN passes
    BY DEF Runs
  <1>5. ASSUME NEW u \in c.uses
        PROVE  \E o \in Places : \E s \in Subs(o) : UseOK(c, u, o, s)
    <2>1. PICK j \in DOMAIN edges : \E o, s : UseOf(edges[j], u, o, s)
      BY <1>1, UsesAre
    <2>2. PICK o, s : UseOf(edges[j], u, o, s)
      BY <2>1
    <2> SUFFICES ASSUME NEW e, e = edges[j]
                 PROVE  \E p \in Places : \E t \in Subs(p) : UseOK(c, u, p, t)
      OBVIOUS
    <2>3. About(e, o, s) /\ u.spot = <<o, s>> /\ u.usage = e.usage
      BY <2>2 DEF UseOf
    <2>4. /\ o \in Places /\ s \in Subs(o) /\ e.usage \in Usages \ {"undefined"}
          /\ o \in Objects => made[o] # "none"
          /\ IsManaged(e.res) => o \in Objects
      BY <2>3, AboutWhere
    <2>5. \/ e.usage \in ReadUsages /\ j \in DOMAIN passes[next].reads
             /\ e = passes[next].reads[j]
          \/ Writing(next, e)
      BY <2>4, EdgeKinds
    <2>6. CASE Writing(next, e)
      <3>1. /\ e.usage \in WriteUsages
            /\ e.usage \in {"target", "depth", "copy_dest"} => Forced(e)
            /\ e.usage = "storage" => Storing(passes[next])
            /\ ~StorageRepeats /\ e.usage = "storage" => IsManaged(e.res)
        BY <2>6, WritingIs
      <3>2. <<o, s>> \in c.writes
        <4>1. PICK k \in DOMAIN passes[next].writes : passes[next].writes[k] = e
          BY <2>6 DEF Writing
        <4>2. Place(e.res) = o /\ s \in SubsOf(e.res)
          BY <2>3 DEF About
        <4> QED
          BY <4>1, <4>2, WritesAre
      <3>3. Forced(e) => \E x \in c.barriers : x.spot = <<o, s>>
        <4>1. j \in 1..Len(edges) /\ About(edges[j], o, s)
          BY <1>1, <2>3
        <4>2. (\E x \in b.placed : x.spot = <<o, s>>) \/ ~Forced(edges[j])
          <5> HIDE DEF edges, b
          <5> QED
            BY <1>2, <2>4, <4>1 DEF StageOK
        <4> QED
          BY <1>3, <4>2
      <3>4. UseOK(c, u, o, s)
        BY <1>3, <2>3, <2>4, <3>1, <3>2, <3>3 DEF UseOK
      <3> QED
        BY <2>4, <3>4
    <2>7. CASE e.usage \in ReadUsages /\ j \in DOMAIN passes[next].reads
               /\ e = passes[next].reads[j]
      <3>1. <<o, s>> \notin c.writes
        <4> SUFFICES ASSUME <<o, s>> \in c.writes PROVE FALSE
          OBVIOUS
        <4>1. PICK k \in DOMAIN passes[next].writes :
                 Place(passes[next].writes[k].res) = o /\ s \in SubsOf(passes[next].writes[k].res)
          BY WritesAre
        <4>2. Writing(next, passes[next].writes[k])
          BY DEF Writing
        <4>3. PICK i \in DOMAIN edges : edges[i] = passes[next].writes[k]
          BY <4>2, WritingIs
        <4>4. edges[i].usage \in WriteUsages
          BY <4>2, <4>3, WritingIs
        <4>5. About(edges[i], o, s)
          BY <4>1, <4>3, <4>4 DEF About, WriteUsages
        <4>6. EdgesApart(edges)
          BY PassApart
        <4>7. edges[i] = e
          BY <2>3, <2>4, <4>5, <4>6 DEF EdgesApart
        <4> QED
          BY <2>7, <4>4, <4>7 DEF ReadUsages, WriteUsages
      <3>2. e.usage \notin {"target", "depth", "copy_dest", "storage"}
        BY <2>7 DEF ReadUsages
      <3>3. UseOK(c, u, o, s)
        BY <2>3, <2>4, <2>7, <3>1, <3>2 DEF UseOK
      <3> QED
        BY <2>4, <3>3
    <2> QED
      BY <2>5, <2>6, <2>7
  <1>6. ASSUME NEW x \in c.barriers
        PROVE  \E u \in c.uses : x.spot = u.spot
    <2>1. PICK o \in Places : \E s \in Subs(o) : \E j \in 1..Len(edges) :
               About(edges[j], o, s) /\ x = Barrier(o, s, tracked[o][s], edges[j].usage)
      BY <1>2, <1>3 DEF StageOK
    <2>2. PICK s \in Subs(o), j \in 1..Len(edges) :
               About(edges[j], o, s) /\ x = Barrier(o, s, tracked[o][s], edges[j].usage)
      BY <2>1
    <2>3. j \in DOMAIN edges
      BY <1>1
    <2>4. PICK u \in c.uses : UseOf(edges[j], u, o, s)
      BY <1>1, <2>2, <2>3, UsesAll
    <2>5. u.spot = <<o, s>> /\ x.spot = <<o, s>>
      BY <2>2, <2>4 DEF UseOf, Barrier
    <2> QED
      BY <2>5
  <1> HIDE DEF edges, b
  <1> QED
    BY <1>3, <1>4, <1>5, <1>6 DEF CommandOK

\* The executor believes that subresource s of o is in that state.
Believed(tr, o, s, state) == tr[o][s] \in {state, "undefined"}

\* What the pass does to a subresource follows from what the executor believed.
LEMMA CommandExplains ==
    ASSUME RecordInv, ShapeInv, BoundInv, PoolInv, TrackInv, Runs,
           NEW c, c = Command(next, PlaceBarriers(next).placed),
           NEW o \in Places, NEW s \in Subs(o), NEW before, Believed(tracked, o, s, before),
           NEW b, b = PlaceBarriers(next).tracked
    PROVE  \E after : Explains(c, o, s, before, after) /\ Believed(b, o, s, after)
  <1> DEFINE edges == Edges(next)
             placing == PlaceBarriers(next)
  <1>1. edges \in Seq(EdgeType) /\ DOMAIN edges = 1..Len(edges)
    BY EdgesOf DEF Runs
  <1>2. StageOK(edges, placing, Len(edges))
    BY StageOfPass
  <1>3. c.barriers = placing.placed /\ b = placing.tracked
    BY DEF Command
  <1>4. ASSUME NEW u \in c.uses, u.spot = <<o, s>>
        PROVE  \E j \in DOMAIN edges : About(edges[j], o, s) /\ u.usage = edges[j].usage
    <2>1. PICK j \in DOMAIN edges : \E x, y : UseOf(edges[j], u, x, y)
      BY <1>1, UsesAre
    <2>2. PICK x, y : UseOf(edges[j], u, x, y)
      BY <2>1
    <2>3. x = o /\ y = s
      BY <1>4, <2>2 DEF UseOf
    <2> QED
      BY <2>2, <2>3 DEF UseOf
  <1>5. ASSUME NEW x \in c.barriers, x.spot = <<o, s>>
        PROVE  \E j \in DOMAIN edges : /\ About(edges[j], o, s)
                                       /\ x.src = tracked[o][s] /\ x.dst = edges[j].usage
    <2>1. PICK p \in Places : \E t \in Subs(p) : \E j \in 1..Len(edges) :
               About(edges[j], p, t) /\ x = Barrier(p, t, tracked[p][t], edges[j].usage)
      BY <1>2, <1>3 DEF StageOK
    <2>2. PICK t \in Subs(p), j \in 1..Len(edges) :
               About(edges[j], p, t) /\ x = Barrier(p, t, tracked[p][t], edges[j].usage)
      BY <2>1
    <2>3. p = o /\ t = s /\ x.src = tracked[p][t] /\ x.dst = edges[j].usage
      BY <1>5, <2>2 DEF Barrier
    <2> QED
      BY <1>1, <2>2, <2>3
  <1>6. ASSUME NEW j \in DOMAIN edges, About(edges[j], o, s)
        PROVE  /\ b[o][s] = edges[j].usage
               /\ \/ \E x \in c.barriers : x.spot = <<o, s>>
                  \/ tracked[o][s] = edges[j].usage
               /\ edges[j].usage # "undefined"
    <2>1. j \in 1..Len(edges)
      BY <1>1
    <2>2. /\ placing.tracked[o][s] = edges[j].usage
          /\ \/ \E x \in placing.placed : x.spot = <<o, s>>
             \/ tracked[o][s] = edges[j].usage
      <3> HIDE DEF edges, placing
      <3> QED
        BY <1>2, <1>6, <2>1 DEF StageOK
    <2>3. edges[j].usage # "undefined"
      BY <1>6 DEF About
    <2> QED
      BY <1>3, <2>2, <2>3
  <1>7. (\A j \in DOMAIN edges : ~About(edges[j], o, s)) => b[o][s] = tracked[o][s]
    BY <1>1, <1>2, <1>3 DEF StageOK
  <1> HIDE DEF edges, placing
  <1>8. CASE \E j \in DOMAIN edges : About(edges[j], o, s)
    <2>1. Explains(c, o, s, before, b[o][s])
      BY <1>4, <1>5, <1>6, <1>8 DEF Explains, Believed
    <2> QED
      BY <2>1 DEF Believed
  <1>9. CASE \A j \in DOMAIN edges : ~About(edges[j], o, s)
    <2>1. Explains(c, o, s, before, before)
      BY <1>4, <1>5, <1>9 DEF Explains
    <2> QED
      BY <1>7, <1>9, <2>1 DEF Believed
  <1> QED
    BY <1>8, <1>9

-----------------------------------------------------------------------------
(* The steps, as far as the commands and the states are concerned           *)

\* What recording changes: nothing but what is believed of the image of the window.
LEMMA RecordingIs ==
    ASSUME Record
    PROVE  /\ phase = "record" /\ phase' \in {"record", "compile"}
           /\ UNCHANGED <<made, cmds, layout, access, done>>
           /\ UNCHANGED <<tracked, consistent>> \/ ForgetBackbuffer
  <1>1. phase = "record" /\ phase' \in {"record", "compile"}
    BY DEF Record, DeclareTexture, DeclareBuffer, ImportTexture, ImportBuffer,
           ImportBackbuffer, Declare, AddPass, MayAdd, ColorAttachment, DepthAttachment,
           Sample, UseBuffer, ReadWriteBuffer, Attach, UploadTexture, UploadBuffer,
           AddUpload, GenerateMipmap, Present, Quiet, KeepSlot, Recording
  <1>2. UNCHANGED <<made, gpu>>
    BY DEF Record, DeclareTexture, DeclareBuffer, ImportTexture, ImportBuffer,
           ImportBackbuffer, Declare, AddPass, ColorAttachment, DepthAttachment,
           Sample, UseBuffer, ReadWriteBuffer, Attach, UploadTexture, UploadBuffer,
           AddUpload, GenerateMipmap, Present, Quiet, KeepSlot
  <1>3. UNCHANGED <<tracked, consistent>> \/ ForgetBackbuffer
    BY DEF Record, DeclareTexture, DeclareBuffer, ImportTexture, ImportBuffer,
           ImportBackbuffer, Declare, AddPass, ColorAttachment, DepthAttachment,
           Sample, UseBuffer, ReadWriteBuffer, Attach, UploadTexture, UploadBuffer,
           AddUpload, GenerateMipmap, Present, Quiet
  <1> QED
    BY <1>1, <1>2, <1>3 DEF gpu

\* What executing a pass changes: only a pass that is not culled records a command.
LEMMA ExecutingIs ==
    ASSUME BoundInv, RecordInv, ExecutePass
    PROVE  /\ phase = "execute" /\ phase' \in {"execute", "gpu"}
           /\ next \in DOMAIN passes /\ next \in Nat /\ next' = next + 1
           /\ UNCHANGED <<resources, passes, made, layout, access, done>>
           /\ \/ UNCHANGED <<tracked, consistent, cmds>>
              \/ /\ Runs
                 /\ tracked' = PlaceBarriers(next).tracked
                 /\ consistent' = PlaceBarriers(next).consistent
                 /\ cmds' = Append(cmds, Command(next, PlaceBarriers(next).placed))
  <1>1. phase = "execute" /\ next \in DOMAIN passes /\ next \in Nat
    BY DEF ExecutePass, Executing, BoundInv, RecordInv, PassCount
  <1>2. /\ phase' \in {"execute", "gpu"} /\ next' = next + 1
        /\ UNCHANGED <<recorded, made, layout, access, done>>
    BY <1>1 DEF ExecutePass
  <1>3. CASE IsCulled(next)
    BY <1>1, <1>2, <1>3 DEF ExecutePass, recorded
  <1>4. CASE ~IsCulled(next)
    <2>1. /\ Missing(next) = {}
          /\ tracked' = PlaceBarriers(next).tracked
          /\ consistent' = PlaceBarriers(next).consistent
          /\ cmds' = Append(cmds, Command(next, PlaceBarriers(next).placed))
      BY <1>4 DEF ExecutePass
    <2> QED
      BY <1>1, <1>2, <2>1 DEF recorded, Runs
  <1> QED
    BY <1>3, <1>4

LEMMA CommandKeeps ==
    ASSUME NEW c, CommandOK(c), passes' = passes,
           \A o \in Objects : made[o] # "none" => made'[o] # "none"
    PROVE  CommandOK(c)'
  BY DEF CommandOK, UseOK, Storing

\* Nothing is recorded.
LEMMA OrderEmpty ==
    ASSUME cmds' = <<>>, done' = 0
    PROVE  OrderInv'
  BY DEF OrderInv

LEMMA SameCommands ==
    ASSUME OrderInv, UNCHANGED <<phase, passes, cmds, done, next>>,
           \A o \in Objects : made[o] # "none" => made'[o] # "none"
    PROVE  OrderInv'
  <1>1. \A i \in DOMAIN cmds : CommandOK(cmds[i])'
    BY CommandKeeps DEF OrderInv
  <1> QED
    BY <1>1 DEF OrderInv

LEMMA SeqMore ==
    ASSUME NEW S, NEW q \in Seq(S), NEW c, NEW more, more = Append(q, c)
    PROVE  /\ \E T : more \in Seq(T)
           /\ Len(more) = Len(q) + 1 /\ Len(q) \in Nat
           /\ DOMAIN q = 1..Len(q) /\ DOMAIN more = 1..(Len(q) + 1)
           /\ \A i \in DOMAIN q : more[i] = q[i]
           /\ more[Len(q) + 1] = c
  <1>1. q \in Seq(S \cup {c}) /\ c \in S \cup {c}
    OBVIOUS
  <1>2. more \in Seq(S \cup {c})
    BY <1>1
  <1>3. \E T : more \in Seq(T)
    BY <1>2
  <1> QED
    BY <1>1, <1>3

LEMMA SeqLess ==
    ASSUME NEW S, NEW q \in Seq(S), q # <<>>
    PROVE  /\ Tail(q) \in Seq(S) /\ Len(Tail(q)) = Len(q) - 1 /\ Len(q) \in Nat \ {0}
           /\ DOMAIN q = 1..Len(q) /\ DOMAIN Tail(q) = 1..(Len(q) - 1)
           /\ \A i \in DOMAIN Tail(q) : Tail(q)[i] = q[i + 1] /\ i + 1 \in DOMAIN q
           /\ Head(q) = q[1] /\ 1 \in DOMAIN q
  OBVIOUS

\* A pass adds its command behind the others.
LEMMA OrderMore ==
    ASSUME RecordInv, ShapeInv, BoundInv, PoolInv, TrackInv, OrderInv, ExecutePass
    PROVE  OrderInv'
  <1>1. /\ phase = "execute" /\ phase' \in {"execute", "gpu"}
        /\ next \in DOMAIN passes /\ next \in Nat /\ next' = next + 1
        /\ UNCHANGED <<resources, passes, made, done>>
    BY ExecutingIs
  <1>2. done = 0 /\ \A i \in DOMAIN cmds : cmds[i].pass < next /\ cmds[i].pass \in Nat
    BY <1>1 DEF OrderInv, CommandOK, RecordInv
  <1>3. CASE cmds' = cmds
    <2>1. \A x : CommandOK(x) => CommandOK(x)'
      BY <1>1, CommandKeeps
    <2>2. \A i \in DOMAIN cmds : CommandOK(cmds[i])'
      BY <1>3, <2>1 DEF OrderInv
    <2> QED
      BY <1>1, <1>2, <1>3, <2>2 DEF OrderInv
  <1>4. CASE Runs /\ cmds' = Append(cmds, Command(next, PlaceBarriers(next).placed))
    <2> SUFFICES ASSUME NEW c, c = Command(next, PlaceBarriers(next).placed)
                 PROVE  OrderInv'
      OBVIOUS
    <2>0. cmds' = Append(cmds, c)
      BY <1>4
    <2>1. CommandOK(c) /\ c.pass = next
      BY <1>4, CommandSays DEF Command
    <2>2. PICK S : cmds \in Seq(S)
      BY DEF OrderInv
    <2>3. /\ \E T : cmds' \in Seq(T)
          /\ DOMAIN cmds = 1..Len(cmds) /\ Len(cmds) \in Nat
          /\ DOMAIN cmds' = 1..(Len(cmds) + 1)
          /\ \A i \in DOMAIN cmds : cmds'[i] = cmds[i]
          /\ cmds'[Len(cmds) + 1] = c
      BY <2>0, <2>2, SeqMore
    <2>4. \A i \in DOMAIN cmds' : i \in DOMAIN cmds \/ i = Len(cmds) + 1
      BY <2>3
    <2>5. CommandOK(c)' /\ \A i \in DOMAIN cmds : CommandOK(cmds[i])
      BY <1>1, <2>1, CommandKeeps DEF OrderInv
    <2>6. \A x : CommandOK(x) => CommandOK(x)'
      BY <1>1, CommandKeeps
    <2>7. \A i \in DOMAIN cmds' : CommandOK(cmds[i])'
      BY <2>3, <2>4, <2>5, <2>6
    <2>8. \A i \in DOMAIN cmds' : done' < cmds'[i].pass /\ cmds'[i].pass < next'
      BY <1>1, <1>2, <2>1, <2>3, <2>4 DEF OrderInv, RecordInv
    <2>9. ASSUME NEW i \in DOMAIN cmds', NEW j \in DOMAIN cmds', i < j
          PROVE  cmds'[i].pass < cmds'[j].pass
      <3>1. i \in DOMAIN cmds
        BY <2>3, <2>9
      <3>2. CASE j \in DOMAIN cmds
        BY <2>3, <2>9, <3>1, <3>2 DEF OrderInv
      <3>3. CASE j = Len(cmds) + 1
        BY <1>2, <2>1, <2>3, <3>1, <3>3
      <3> QED
        BY <2>4, <3>2, <3>3
    <2> QED
      BY <1>1, <1>2, <2>3, <2>7, <2>8, <2>9 DEF OrderInv
  <1> QED
    BY <1>3, <1>4, ExecutingIs

\* The GPU takes the first command.
LEMMA GpuIs ==
    ASSUME OrderInv, GpuPass
    PROVE  /\ phase = "gpu" /\ phase' = phase /\ cmds # <<>> /\ 1 \in DOMAIN cmds
           /\ Len(cmds') = Len(cmds) - 1 /\ Len(cmds) \in Nat \ {0}
           /\ DOMAIN cmds = 1..Len(cmds) /\ DOMAIN cmds' = 1..(Len(cmds) - 1)
           /\ \A i \in DOMAIN cmds' : i + 1 \in DOMAIN cmds /\ cmds'[i] = cmds[i + 1]
           /\ Head(cmds) = cmds[1] /\ done' = cmds[1].pass
           /\ \E S : cmds' \in Seq(S)
           /\ UNCHANGED <<resources, passes, next, made, tracked, consistent>>
  <1>1. /\ phase = "gpu" /\ phase' = phase /\ cmds # <<>> /\ cmds' = Tail(cmds)
        /\ done' = Head(cmds).pass
        /\ UNCHANGED <<resources, passes, next, made, tracked, consistent>>
    BY DEF GpuPass, recorded, cpu
  <1>2. PICK S : cmds \in Seq(S)
    BY DEF OrderInv
  <1> QED
    BY <1>1, <1>2, SeqLess

LEMMA OrderLess ==
    ASSUME RecordInv, OrderInv, GpuPass
    PROVE  OrderInv'
  <1>1. /\ phase = "gpu" /\ phase' = phase /\ 1 \in DOMAIN cmds
        /\ \A i \in DOMAIN cmds' : i + 1 \in DOMAIN cmds /\ cmds'[i] = cmds[i + 1]
        /\ done' = cmds[1].pass /\ \E S : cmds' \in Seq(S)
        /\ UNCHANGED <<passes, made>>
        /\ DOMAIN cmds' \subseteq Nat \ {0}
    BY GpuIs
  <1>2. \A x : CommandOK(x) => CommandOK(x)'
    BY <1>1, CommandKeeps
  <1>3. \A i \in DOMAIN cmds' : CommandOK(cmds[i])'
    BY <1>1, <1>2 DEF OrderInv
  <1>4. \A i \in DOMAIN cmds' : done' < cmds'[i].pass
    <2> TAKE i \in DOMAIN cmds'
    <2>1. i + 1 \in DOMAIN cmds /\ 1 < i + 1
      BY <1>1
    <2> QED
      BY <1>1, <2>1 DEF OrderInv
  <1>5. \A i, j \in DOMAIN cmds' : i < j => cmds'[i].pass < cmds'[j].pass
    <2> TAKE i, j \in DOMAIN cmds'
    <2> HAVE i < j
    <2>1. i + 1 \in DOMAIN cmds /\ j + 1 \in DOMAIN cmds /\ i + 1 < j + 1
      BY <1>1
    <2> QED
      BY <1>1, <2>1 DEF OrderInv
  <1>6. done' \in Nat
    BY <1>1 DEF OrderInv, CommandOK, RecordInv
  <1> QED
    BY <1>1, <1>3, <1>4, <1>5, <1>6 DEF OrderInv

LEMMA OrderNext ==
    ASSUME RecordInv, ShapeInv, CullInv, BoundInv, PoolInv, TrackInv, OrderInv, [Next]_vars
    PROVE  OrderInv'
  <1>1. CASE Record
    BY <1>1, RecordingIs, OrderEmpty DEF OrderInv
  <1>2. CASE StartCulling \/ Cull \/ StartExecution
    <2>1. phase \in {"compile", "cull"} /\ UNCHANGED <<cmds, done>>
      BY <1>2 DEF StartCulling, Cull, StartExecution, gpu
    <2> QED
      BY <2>1, OrderEmpty DEF OrderInv
  <1>3. CASE \E r \in DOMAIN resources, o \in Objects : Devirtualize(r, o)
    <2>1. PICK r \in DOMAIN resources, o \in Objects : Devirtualize(r, o)
      BY <1>3
    <2>2. UNCHANGED <<phase, passes, cmds, done, next>>
      BY <2>1 DEF Devirtualize, recorded
    <2>3. \A x \in Objects : made[x] # "none" => made'[x] # "none"
      <3>1. \/ made' = made
            \/ /\ made[o] = "none" /\ made' = [made EXCEPT ![o] = resources[r].class]
        BY <2>1, TakingKeeps
      <3>2. made \in [Objects -> Classes \cup {"none"}]
        BY DEF PoolInv, PoolType
      <3> QED
        BY <3>1, <3>2
    <2> QED
      BY <2>2, <2>3, SameCommands
  <1>4. CASE ExecutePass
    BY <1>4, OrderMore
  <1>5. CASE GpuPass
    BY <1>5, OrderLess
  <1>6. CASE BeginFrame
    <2>1. cmds = <<>> /\ cmds' = cmds /\ done' = 0
      BY <1>6 DEF BeginFrame
    <2> QED
      BY <2>1, OrderEmpty
  <1>7. CASE UNCHANGED vars
    <2>1. UNCHANGED <<phase, passes, cmds, done, next, made>>
      BY <1>7 DEF vars, recorded, cpu, gpu
    <2> QED
      BY <2>1, SameCommands
  <1> QED
    BY <1>1, <1>2, <1>3, <1>4, <1>5, <1>6, <1>7 DEF Next

-----------------------------------------------------------------------------
(* What the GPU does                                                        *)

\* The GPU changes the spots of a command, and no others.
LEMMA Changed ==
    ASSUME NEW f, NEW new
    PROVE  /\ DOMAIN Change(f, new) = Places
           /\ \A o \in Places : DOMAIN Change(f, new)[o] = Subs(o) /\
                \A s \in Subs(o) :
                  Change(f, new)[o][s] =
                    IF <<o, s>> \in DOMAIN new THEN new[<<o, s>>] ELSE f[o][s]
  BY DEF Change

\* Command c is about subresource s of o.
Moved(c, o, s) == \E b \in c.barriers : b.spot = <<o, s>>
Accesses(c, o, s) == \E u \in c.uses : u.spot = <<o, s>>

LEMMA MovesIs ==
    ASSUME NEW c, NEW o, NEW s
    PROVE  /\ Moves(c, <<o, s>>) # {} <=> Moved(c, o, s)
           /\ Moved(c, o, s) =>
                LET b == CHOOSE b \in Moves(c, <<o, s>>) : TRUE
                IN  b \in c.barriers /\ b.spot = <<o, s>>
  BY DEF Moves, Moved

\* The states that the GPU leaves are those of the trace.
LEMMA LayoutMoves ==
    ASSUME OrderInv, GpuPass, NEW o \in Places, NEW s \in Subs(o), NEW t, TraceOf(o, s, t)
    PROVE  layout'[o][s] = t[1]
  <1> DEFINE c == cmds[1]
             at(spot) == (CHOOSE b \in Moves(c, spot) : TRUE).dst
             new == [spot \in {b.spot : b \in c.barriers} |-> at(spot)]
  <1>1. Head(cmds) = c /\ 1 \in DOMAIN cmds
    BY GpuIs
  <1>2. layout' = Change(layout, new)
    BY <1>1 DEF GpuPass
  <1>3. <<o, s>> \in DOMAIN new <=> Moved(c, o, s)
    BY DEF Moved
  <1>4. Moved(c, o, s) => new[<<o, s>>] = at(<<o, s>>)
    BY <1>3
  <1>5. layout'[o][s] = IF Moved(c, o, s) THEN at(<<o, s>>) ELSE layout[o][s]
    <2> HIDE DEF new, at, c
    <2> QED
      BY <1>2, <1>3, <1>4, Changed
  <1>6. Explains(c, o, s, t[0], t[1]) /\ t[0] = layout[o][s]
    <2>1. Explains(cmds[1], o, s, t[1 - 1], t[1])
      BY <1>1 DEF TraceOf
    <2> QED
      BY <2>1 DEF TraceOf
  <1>7. Moved(c, o, s) => at(<<o, s>>) = t[1]
    BY <1>6, MovesIs DEF Explains
  <1>8. ~Moved(c, o, s) => t[1] = layout[o][s]
    BY <1>6 DEF Explains, Moved
  <1> QED
    BY <1>5, <1>7, <1>8

\* It notes how they were accessed.
LEMMA AccessMoves ==
    ASSUME OrderInv, GpuPass, NEW o \in Places, NEW s \in Subs(o)
    PROVE  access'[o][s] = IF Accesses(cmds[1], o, s) THEN AccessOf(cmds[1], <<o, s>>)
                           ELSE access[o][s]
  <1> DEFINE c == cmds[1]
             new == [spot \in Accessed(c) |-> AccessOf(c, spot)]
  <1>1. Head(cmds) = c
    BY GpuIs
  <1>2. access' = Change(access, new)
    BY <1>1 DEF GpuPass
  <1>3. <<o, s>> \in DOMAIN new <=> Accesses(c, o, s)
    BY DEF Accesses, Accessed
  <1>4. Accesses(c, o, s) => new[<<o, s>>] = AccessOf(c, <<o, s>>)
    BY <1>3
  <1>5. access'[o][s] = IF Accesses(c, o, s) THEN AccessOf(c, <<o, s>>) ELSE access[o][s]
    <2> HIDE DEF new, c
    <2> QED
      BY <1>2, <1>3, <1>4, Changed
  <1> QED
    BY <1>5

LEMMA GpuDomains ==
    ASSUME GpuPass
    PROVE  /\ DOMAIN layout' = Places /\ DOMAIN access' = Places
           /\ \A o \in Places : DOMAIN layout'[o] = Subs(o) /\ DOMAIN access'[o] = Subs(o)
  <1>1. (\E new : layout' = Change(layout, new)) /\ (\E new : access' = Change(access, new))
    BY DEF GpuPass
  <1> QED
    BY <1>1, Changed

\* What the first command does to subresource s of o.
LEMMA HeadDoes ==
    ASSUME OrderInv, LayoutInv, 1 \in DOMAIN cmds, NEW o \in Places, NEW s \in Subs(o)
    PROVE  LET c == cmds[1]
           IN  /\ Moved(c, o, s) => Accesses(c, o, s)
               /\ \A u \in c.uses : u.spot = <<o, s>> => UseOK(c, u, o, s)
               /\ \E t : TraceOf(o, s, t) /\ Explains(c, o, s, layout[o][s], t[1])
  <1>1. CommandOK(cmds[1])
    BY DEF OrderInv
  <1>2. Moved(cmds[1], o, s) => Accesses(cmds[1], o, s)
    BY <1>1 DEF CommandOK, Moved, Accesses
  <1>3. ASSUME NEW u \in cmds[1].uses, u.spot = <<o, s>>
        PROVE  UseOK(cmds[1], u, o, s)
    <2>1. PICK p \in Places : \E q \in Subs(p) : UseOK(cmds[1], u, p, q)
      BY <1>1 DEF CommandOK
    <2>2. PICK q \in Subs(p) : UseOK(cmds[1], u, p, q)
      BY <2>1
    <2>3. p = o /\ q = s
      BY <1>3, <2>2 DEF UseOK
    <2> QED
      BY <2>2, <2>3
  <1>4. PICK t : TraceOf(o, s, t)
    BY DEF LayoutInv
  <1>5. Explains(cmds[1], o, s, layout[o][s], t[1])
    <2>1. Explains(cmds[1], o, s, t[1 - 1], t[1])
      BY <1>4 DEF TraceOf
    <2> QED
      BY <1>4, <2>1 DEF TraceOf
  <1> QED
    BY <1>2, <1>3, <1>4, <1>5

LEMMA TrackGpu ==
    ASSUME TrackInv, OrderInv, LayoutInv, GpuPass
    PROVE  TrackInv'
  <1>1. 1 \in DOMAIN cmds /\ UNCHANGED <<tracked, consistent>>
    BY GpuIs
  <1>2. ASSUME NEW o \in Places, NEW s \in Subs(o)
        PROVE  layout'[o][s] \in Usages /\ access'[o][s] \in {"none", "read", "write"}
    <2>1. PICK t : TraceOf(o, s, t) /\ Explains(cmds[1], o, s, layout[o][s], t[1])
      BY <1>1, HeadDoes
    <2>2. layout'[o][s] = t[1]
      BY <2>1, LayoutMoves
    <2>3. CASE Accesses(cmds[1], o, s)
      <3>1. PICK u \in cmds[1].uses : u.spot = <<o, s>>
        BY <2>3 DEF Accesses
      <3>2. u.usage = t[1]
        BY <2>1, <3>1 DEF Explains
      <3>3. UseOK(cmds[1], u, o, s)
        BY <1>1, <3>1, HeadDoes
      <3>4. u.usage \in Usages
        BY <3>3 DEF UseOK
      <3>5. access'[o][s] \in {"read", "write"}
        BY <2>3, AccessMoves DEF AccessOf
      <3> QED
        BY <2>2, <3>2, <3>4, <3>5
    <2>4. CASE ~Accesses(cmds[1], o, s)
      <3>1. ~Moved(cmds[1], o, s)
        BY <1>1, <2>4, HeadDoes
      <3>2. t[1] = layout[o][s]
        BY <2>1, <3>1 DEF Explains, Moved
      <3> QED
        BY <2>2, <2>4, <3>2, AccessMoves DEF TrackInv, TrackOK
    <2> QED
      BY <2>3, <2>4
  <1> QED
    BY <1>1, <1>2, GpuDomains DEF TrackInv, TrackOK, Agree

\* One place of f is replaced.
LEMMA Replaced ==
    ASSUME NEW f, DOMAIN f = Places, NEW o \in Places, NEW v, NEW g, g = [f EXCEPT ![o] = v]
    PROVE  /\ DOMAIN g = Places /\ g[o] = v
           /\ \A x \in Places : x # o => g[x] = f[x]
  OBVIOUS

LEMMA OneSub ==
    /\ \A o \in Objects : Subs(o) = {1} /\ o \in Places
    /\ Subs(Backbuffer) = {1} /\ Backbuffer \in Places
    /\ \A v : DOMAIN <<v>> = {1} /\ <<v>>[1] = v
  <1>1. \A v : DOMAIN <<v>> = {1} /\ <<v>>[1] = v
    OBVIOUS
  <1>2. Backbuffer \notin Textures
    BY RenderGraphAssumption DEF RenderGraphAssumption
  <1> QED
    BY <1>1, <1>2, NamesApart DEF Subs, Places

LEMMA OneReplaced ==
    ASSUME NEW f, TrackOK(f), NEW o \in Places, Subs(o) = {1}, NEW g, DOMAIN g = Places,
           DOMAIN g[o] = {1}, g[o][1] \in Usages, \A x \in Places : x # o => g[x] = f[x]
    PROVE  TrackOK(g)
  <1>1. ASSUME NEW x \in Places
        PROVE  DOMAIN g[x] = Subs(x) /\ \A s \in Subs(x) : g[x][s] \in Usages
    <2>1. CASE x = o
      BY <2>1
    <2>2. CASE x # o
      BY <2>2 DEF TrackOK
    <2> QED
      BY <2>1, <2>2
  <1> QED
    BY <1>1 DEF TrackOK

Elsewhere(f, g, o) == \A x \in Places : x # o => g[x] = f[x]

LEMMA OneAgrees ==
    ASSUME NEW f, NEW co, Agree(f, co), NEW o \in Places, Subs(o) = {1}, NEW g, NEW d,
           DOMAIN d = Places, d[o] \in BOOLEAN,
           Elsewhere(f, g, o), Elsewhere(co, d, o)
    PROVE  Agree(g, d)
  <1>1. ASSUME NEW x \in Places
        PROVE  d[x] \in BOOLEAN /\ (d[x] => \A s \in Subs(x) : g[x][s] = g[x][1])
    <2>1. CASE x = o
      BY <2>1
    <2>2. CASE x # o
      BY <2>2 DEF Agree, Elsewhere
    <2> QED
      BY <2>1, <2>2
  <1> QED
    BY <1>1 DEF Agree

\* A new object has no state.
LEMMA TrackTaking ==
    ASSUME RecordInv, CullInv, BoundInv, PoolInv, TrackInv,
           NEW r \in DOMAIN resources, NEW o \in Objects, Devirtualize(r, o)
    PROVE  TrackInv'
  <1>1. CASE UNCHANGED <<tracked, consistent, layout, access>>
    BY <1>1 DEF TrackInv, TrackOK, Agree
  <1>2. CASE /\ tracked' = [tracked EXCEPT ![o] = <<"undefined">>]
             /\ consistent' = [consistent EXCEPT ![o] = TRUE]
             /\ layout' = [layout EXCEPT ![o] = <<"undefined">>]
             /\ access' = [access EXCEPT ![o] = <<"none">>]
    <2> DEFINE undefined == <<"undefined">>
               unread == <<"none">>
    <2>1. /\ DOMAIN undefined = {1} /\ undefined[1] = "undefined"
          /\ DOMAIN unread = {1} /\ unread[1] = "none"
          /\ Subs(o) = {1} /\ o \in Places
      BY OneSub
    <2>2. /\ tracked' = [tracked EXCEPT ![o] = undefined]
          /\ consistent' = [consistent EXCEPT ![o] = TRUE]
          /\ layout' = [layout EXCEPT ![o] = undefined]
          /\ access' = [access EXCEPT ![o] = unread]
      BY <1>2
    <2> HIDE DEF undefined, unread
    <2>3. /\ DOMAIN tracked' = Places /\ tracked'[o] = undefined
          /\ \A x \in Places : x # o => tracked'[x] = tracked[x]
      BY <2>1, <2>2, Replaced DEF TrackInv, TrackOK
    <2>4. /\ DOMAIN layout' = Places /\ layout'[o] = undefined
          /\ \A x \in Places : x # o => layout'[x] = layout[x]
      BY <2>1, <2>2, Replaced DEF TrackInv, TrackOK
    <2>5. /\ DOMAIN consistent' = Places /\ consistent'[o] = TRUE
          /\ \A x \in Places : x # o => consistent'[x] = consistent[x]
      BY <2>1, <2>2, Replaced DEF TrackInv, Agree
    <2>6. /\ DOMAIN access' = Places /\ access'[o] = unread
          /\ \A x \in Places : x # o => access'[x] = access[x]
      BY <2>1, <2>2, Replaced DEF TrackInv
    <2>7. "undefined" \in Usages
      BY DEF Usages
    <2>8. TrackOK(tracked)'
      BY <2>1, <2>3, <2>7, OneReplaced DEF TrackInv
    <2>9. Agree(tracked, consistent)'
      <3>1. Elsewhere(tracked, tracked', o) /\ Elsewhere(consistent, consistent', o)
        BY <2>3, <2>5 DEF Elsewhere
      <3>2. Agree(tracked, consistent) /\ consistent'[o] \in BOOLEAN
        BY <2>5 DEF TrackInv
      <3>3. Agree(tracked', consistent')
        BY <2>1, <2>5, <3>1, <3>2, OneAgrees
      <3> QED
        BY <3>3 DEF Agree
    <2>10. \A x \in Places : DOMAIN access'[x] = Subs(x) /\
             \A s \in Subs(x) : access'[x][s] \in {"none", "read", "write"}
      BY <2>1, <2>6 DEF TrackInv
    <2>11. TrackOK(layout)'
      BY <2>1, <2>4, <2>7, OneReplaced DEF TrackInv
    <2> QED
      BY <2>6, <2>8, <2>9, <2>10, <2>11 DEF TrackInv
  <1> QED
    BY <1>1, <1>2, TakingKeeps

\* The window forgets the state of its image.
LEMMA TrackForgetting ==
    ASSUME TrackInv, ForgetBackbuffer, UNCHANGED <<layout, access>>
    PROVE  /\ TrackInv'
           /\ \A o \in Places : \A s \in Subs(o) :
                tracked'[o][s] \in {tracked[o][s], "undefined"}
  <1> DEFINE o == Backbuffer
  <1>1. Subs(o) = {1} /\ o \in Places
    BY OneSub
  <1>2. tracked' = [tracked EXCEPT ![o] = [tracked[o] EXCEPT ![1] = "undefined"]]
        /\ consistent' = [consistent EXCEPT ![o] = TRUE]
    BY DEF ForgetBackbuffer
  <1> HIDE DEF o
  <1> DEFINE v == [tracked[o] EXCEPT ![1] = "undefined"]
  <1>3. DOMAIN v = {1} /\ v[1] = "undefined"
    BY <1>1 DEF TrackInv, TrackOK
  <1>4. tracked' = [tracked EXCEPT ![o] = v]
    BY <1>2
  <1> HIDE DEF v
  <1>5. /\ DOMAIN tracked' = Places /\ tracked'[o] = v
        /\ \A x \in Places : x # o => tracked'[x] = tracked[x]
    BY <1>1, <1>4, Replaced DEF TrackInv, TrackOK
  <1>6. /\ DOMAIN consistent' = Places /\ consistent'[o] = TRUE
        /\ \A x \in Places : x # o => consistent'[x] = consistent[x]
    BY <1>1, <1>2, Replaced DEF TrackInv, Agree
  <1>7. "undefined" \in Usages
    BY DEF Usages
  <1>8. TrackOK(tracked)' /\ TrackOK(layout)'
    BY <1>1, <1>3, <1>5, <1>7 DEF TrackInv, TrackOK
  <1>9. Agree(tracked, consistent)'
    <2>1. Elsewhere(tracked, tracked', o) /\ Elsewhere(consistent, consistent', o)
      BY <1>5, <1>6 DEF Elsewhere
    <2>2. Agree(tracked, consistent) /\ consistent'[o] \in BOOLEAN
      BY <1>6 DEF TrackInv
    <2>3. Agree(tracked', consistent')
      BY <1>1, <1>6, <2>1, <2>2, OneAgrees
    <2> QED
      BY <2>3 DEF Agree
  <1>10. TrackInv'
    BY <1>8, <1>9 DEF TrackInv
  <1> QED
    BY <1>1, <1>3, <1>5, <1>10

LEMMA TrackNext ==
    ASSUME RecordInv, ShapeInv, CullInv, BoundInv, PoolInv, TrackInv, OrderInv, LayoutInv,
           [Next]_vars
    PROVE  TrackInv'
  <1>1. ASSUME UNCHANGED <<tracked, consistent, layout, access>>
        PROVE  TrackInv'
    BY <1>1 DEF TrackInv, TrackOK, Agree
  <1>2. CASE Record
    BY <1>1, <1>2, RecordingIs, TrackForgetting
  <1>3. CASE StartCulling \/ Cull \/ StartExecution
    BY <1>1, <1>3 DEF StartCulling, Cull, StartExecution, cpu, gpu
  <1>4. CASE \E r \in DOMAIN resources, o \in Objects : Devirtualize(r, o)
    BY <1>4, TrackTaking
  <1>5. CASE ExecutePass
    <2>1. CASE UNCHANGED <<tracked, consistent>>
      BY <1>1, <1>5, <2>1, ExecutingIs
    <2>2. CASE /\ Runs
               /\ tracked' = PlaceBarriers(next).tracked
               /\ consistent' = PlaceBarriers(next).consistent
      <3>1. TrackOK(tracked') /\ Agree(tracked', consistent')
        BY <2>2, StageOfPass DEF StageOK
      <3>2. UNCHANGED <<layout, access>>
        BY <1>5, ExecutingIs
      <3> QED
        BY <3>1, <3>2 DEF TrackInv, TrackOK, Agree
    <2> QED
      BY <1>5, <2>1, <2>2, ExecutingIs
  <1>6. CASE GpuPass
    BY <1>6, TrackGpu
  <1>7. CASE BeginFrame
    <2>1. /\ UNCHANGED <<tracked, consistent, layout>>
          /\ access' = [o \in Places |-> IF o \in Objects THEN <<"none">> ELSE access[o]]
      BY <1>7 DEF BeginFrame
    <2> DEFINE unread == <<"none">>
    <2>2. DOMAIN unread = {1} /\ unread[1] = "none"
          /\ access' = [o \in Places |-> IF o \in Objects THEN unread ELSE access[o]]
      BY <2>1
    <2> HIDE DEF unread
    <2>3. DOMAIN access' = Places /\ \A o \in Places : DOMAIN access'[o] = Subs(o) /\
             \A s \in Subs(o) : access'[o][s] \in {"none", "read", "write"}
      BY <2>2, OneSub DEF TrackInv
    <2> QED
      BY <2>1, <2>3 DEF TrackInv, TrackOK, Agree
  <1>8. CASE UNCHANGED vars
    BY <1>1, <1>8 DEF vars, cpu, gpu
  <1> QED
    BY <1>2, <1>3, <1>4, <1>5, <1>6, <1>7, <1>8 DEF Next

-----------------------------------------------------------------------------
(* The states that the commands lead through                                *)

LEMMA LayoutKeeps ==
    ASSUME LayoutInv, UNCHANGED <<cmds, layout>>,
           \A o \in Places : \A s \in Subs(o) : tracked'[o][s] \in {tracked[o][s], "undefined"}
    PROVE  LayoutInv'
  <1> SUFFICES ASSUME NEW o \in Places, NEW s \in Subs(o)
               PROVE  \E t : TraceOf(o, s, t)'
    BY DEF LayoutInv
  <1>1. PICK t : TraceOf(o, s, t)
    BY DEF LayoutInv
  <1>2. TraceOf(o, s, t)'
    BY <1>1 DEF TraceOf
  <1> QED
    BY <1>2

\* The trace goes on with what the new command does.
LEMMA LayoutExecuting ==
    ASSUME RecordInv, ShapeInv, BoundInv, PoolInv, TrackInv, OrderInv, LayoutInv, ExecutePass
    PROVE  LayoutInv'
  <1>1. layout' = layout
    BY ExecutingIs
  <1>2. CASE UNCHANGED <<tracked, cmds>>
    BY <1>1, <1>2, LayoutKeeps
  <1>3. CASE /\ Runs
             /\ tracked' = PlaceBarriers(next).tracked
             /\ cmds' = Append(cmds, Command(next, PlaceBarriers(next).placed))
    <2> SUFFICES ASSUME NEW c, c = Command(next, PlaceBarriers(next).placed),
                        NEW o \in Places, NEW s \in Subs(o)
                 PROVE  \E t : TraceOf(o, s, t)'
      BY DEF LayoutInv
    <2>1. PICK t : TraceOf(o, s, t)
      BY DEF LayoutInv
    <2>2. PICK S : cmds \in Seq(S)
      BY DEF OrderInv
    <2> DEFINE n == Len(cmds)
    <2>0. cmds' = Append(cmds, c)
      BY <1>3
    <2>3. /\ Len(cmds') = n + 1 /\ n \in Nat
          /\ DOMAIN cmds = 1..n /\ DOMAIN cmds' = 1..(n + 1)
          /\ \A i \in DOMAIN cmds : cmds'[i] = cmds[i]
          /\ cmds'[n + 1] = c
      BY <2>0, <2>2, SeqMore
    <2>4. /\ t[0] = layout[o][s] /\ tracked[o][s] \in {t[n], "undefined"}
          /\ \A i \in DOMAIN cmds : Explains(cmds[i], o, s, t[i - 1], t[i])
      BY <2>1 DEF TraceOf
    <2> HIDE DEF n
    <2>5. PICK after : /\ Explains(c, o, s, t[n], after)
                       /\ tracked'[o][s] \in {after, "undefined"}
      <3>1. Believed(tracked, o, s, t[n])
        BY <2>4 DEF Believed
      <3>2. PICK after : Explains(c, o, s, t[n], after) /\ Believed(tracked', o, s, after)
        BY <1>3, <3>1, CommandExplains
      <3> QED
        BY <3>2 DEF Believed
    <2> DEFINE m == n + 1
               u == [i \in 0..m |-> IF i = m THEN after ELSE t[i]]
    <2>6. /\ m \in Nat /\ m # 0 /\ n \in 0..m /\ m - 1 = n /\ n # m
          /\ \A k \in 1..n : k \in 0..m /\ k - 1 \in 0..m /\ k # m /\ k - 1 # m
          /\ \A k \in 1..m : k \in 1..n \/ k = m
      BY <2>3
    <2>7. /\ u[0] = t[0] /\ u[m] = after /\ u[n] = t[n]
          /\ \A i \in 1..n : u[i] = t[i] /\ u[i - 1] = t[i - 1]
      <3> HIDE DEF m
      <3> QED
        BY <2>6
    <2> HIDE DEF u
    <2>8. ASSUME NEW i \in DOMAIN cmds'
          PROVE  Explains(cmds'[i], o, s, u[i - 1], u[i])
      <3>1. CASE i \in 1..n
        BY <2>3, <2>4, <2>7, <3>1
      <3>2. CASE i = m
        <4>1. cmds'[i] = c /\ u[i] = after /\ u[i - 1] = t[n]
          BY <2>3, <2>6, <2>7, <3>2
        <4> QED
          BY <2>5, <4>1
      <3> QED
        BY <2>3, <2>6, <3>1, <3>2
    <2>9. Len(cmds') = m
      BY <2>3
    <2>10. PICK w : w = u
      OBVIOUS
    <2>11. TraceOf(o, s, w)'
      <3> HIDE DEF m
      <3> QED
        BY <1>1, <2>4, <2>5, <2>7, <2>8, <2>9, <2>10 DEF TraceOf
    <2> QED
      BY <2>11
  <1> QED
    BY <1>2, <1>3, ExecutingIs

\* The trace begins one command later.
LEMMA LayoutGpu ==
    ASSUME OrderInv, LayoutInv, GpuPass
    PROVE  LayoutInv'
  <1> SUFFICES ASSUME NEW o \in Places, NEW s \in Subs(o)
               PROVE  \E t : TraceOf(o, s, t)'
    BY DEF LayoutInv
  <1>1. PICK t : TraceOf(o, s, t)
    BY DEF LayoutInv
  <1> DEFINE n == Len(cmds)
             u == [i \in 0..(n - 1) |-> t[i + 1]]
  <1>2. /\ Len(cmds') = n - 1 /\ n \in Nat \ {0}
        /\ DOMAIN cmds = 1..n /\ DOMAIN cmds' = 1..(n - 1)
        /\ \A i \in DOMAIN cmds' : i + 1 \in DOMAIN cmds /\ cmds'[i] = cmds[i + 1]
        /\ tracked' = tracked
    BY GpuIs
  <1>3. /\ tracked[o][s] \in {t[n], "undefined"}
        /\ \A i \in DOMAIN cmds : Explains(cmds[i], o, s, t[i - 1], t[i])
    BY <1>1 DEF TraceOf
  <1>4. layout'[o][s] = t[1]
    BY <1>1, LayoutMoves
  <1> HIDE DEF n
  <1>5. u[0] = t[1] /\ u[n - 1] = t[n]
        /\ \A i \in DOMAIN cmds' : u[i] = t[i + 1] /\ u[i - 1] = t[i]
    BY <1>2
  <1>6. ASSUME NEW i \in DOMAIN cmds'
        PROVE  Explains(cmds'[i], o, s, u[i - 1], u[i])
    <2>1. i + 1 \in DOMAIN cmds /\ cmds'[i] = cmds[i + 1] /\ (i + 1) - 1 = i
      BY <1>2
    <2>2. Explains(cmds[i + 1], o, s, t[(i + 1) - 1], t[i + 1])
      BY <1>3, <2>1
    <2> QED
      BY <1>5, <2>1, <2>2
  <1> HIDE DEF u
  <1>7. PICK w : w = u
    OBVIOUS
  <1>8. TraceOf(o, s, w)'
    BY <1>2, <1>3, <1>4, <1>5, <1>6, <1>7 DEF TraceOf
  <1> QED
    BY <1>8

\* No command is about an object that was not made yet.
LEMMA LayoutTaking ==
    ASSUME RecordInv, CullInv, BoundInv, PoolInv, TrackInv, OrderInv, LayoutInv,
           NEW r \in DOMAIN resources, NEW o \in Objects, Devirtualize(r, o)
    PROVE  LayoutInv'
  <1>1. cmds' = cmds
    BY DEF Devirtualize
  <1>2. CASE UNCHANGED <<tracked, layout>>
    BY <1>1, <1>2, LayoutKeeps
  <1>3. CASE /\ made[o] = "none"
             /\ tracked' = [tracked EXCEPT ![o] = <<"undefined">>]
             /\ layout' = [layout EXCEPT ![o] = <<"undefined">>]
    <2> DEFINE undefined == <<"undefined">>
    <2>1. undefined[1] = "undefined" /\ Subs(o) = {1} /\ o \in Places
      BY OneSub
    <2>2. tracked' = [tracked EXCEPT ![o] = undefined] /\ layout' = [layout EXCEPT ![o] = undefined]
      BY <1>3
    <2> HIDE DEF undefined
    <2>3. /\ tracked'[o] = undefined /\ \A x \in Places : x # o => tracked'[x] = tracked[x]
          /\ layout'[o] = undefined /\ \A x \in Places : x # o => layout'[x] = layout[x]
      BY <2>1, <2>2, Replaced DEF TrackInv, TrackOK
    <2> SUFFICES ASSUME NEW x \in Places, NEW s \in Subs(x)
                 PROVE  \E t : TraceOf(x, s, t)'
      BY DEF LayoutInv
    <2>4. CASE x # o
      <3>1. PICK t : TraceOf(x, s, t)
        BY DEF LayoutInv
      <3>2. TraceOf(x, s, t)'
        BY <1>1, <2>3, <2>4, <3>1 DEF TraceOf
      <3> QED
        BY <3>2
    <2>5. CASE x = o
      <3>1. s = 1 /\ tracked'[x][s] = "undefined" /\ layout'[x][s] = "undefined"
        BY <2>1, <2>3, <2>5
      <3>2. ASSUME NEW i \in DOMAIN cmds
            PROVE  Explains(cmds[i], x, s, "undefined", "undefined")
        <4>1. CommandOK(cmds[i])
          BY DEF OrderInv
        <4>2. \A u \in cmds[i].uses : u.spot # <<x, s>>
          BY <1>3, <2>5, <4>1 DEF CommandOK, UseOK
        <4>3. \A b \in cmds[i].barriers : b.spot # <<x, s>>
          BY <4>1, <4>2 DEF CommandOK
        <4> QED
          BY <4>2, <4>3 DEF Explains
      <3>3. PICK S : cmds \in Seq(S)
        BY DEF OrderInv
      <3> DEFINE n == Len(cmds)
                 t == [i \in 0..n |-> "undefined"]
      <3>4. n \in Nat /\ DOMAIN cmds = 1..n
        BY <3>3
      <3> HIDE DEF n
      <3>5. t[0] = "undefined" /\ \A i \in DOMAIN cmds : t[i] = "undefined" /\ t[i - 1] = "undefined"
        BY <3>4
      <3>6. \A i \in DOMAIN cmds : Explains(cmds[i], x, s, t[i - 1], t[i])
        <4> HIDE DEF t
        <4> QED
          BY <3>2, <3>5
      <3> HIDE DEF t
      <3>7. PICK w : w = t
        OBVIOUS
      <3>8. TraceOf(x, s, w)'
        BY <1>1, <3>1, <3>5, <3>6, <3>7 DEF TraceOf
      <3> QED
        BY <3>8
    <2> QED
      BY <2>4, <2>5
  <1> QED
    BY <1>2, <1>3, TakingKeeps

LEMMA LayoutNext ==
    ASSUME RecordInv, ShapeInv, CullInv, BoundInv, PoolInv, TrackInv, OrderInv, LayoutInv,
           [Next]_vars
    PROVE  LayoutInv'
  <1>1. ASSUME UNCHANGED <<tracked, cmds, layout>>
        PROVE  LayoutInv'
    BY <1>1, LayoutKeeps
  <1>2. CASE Record
    <2>1. UNCHANGED <<cmds, layout>>
      BY <1>2, RecordingIs
    <2>2. \A o \in Places : \A s \in Subs(o) : tracked'[o][s] \in {tracked[o][s], "undefined"}
      BY <1>2, RecordingIs, TrackForgetting
    <2> QED
      BY <2>1, <2>2, LayoutKeeps
  <1>3. CASE StartCulling \/ Cull \/ StartExecution
    BY <1>1, <1>3 DEF StartCulling, Cull, StartExecution, cpu, gpu
  <1>4. CASE \E r \in DOMAIN resources, o \in Objects : Devirtualize(r, o)
    BY <1>4, LayoutTaking
  <1>5. CASE ExecutePass
    BY <1>5, LayoutExecuting
  <1>6. CASE GpuPass
    BY <1>6, LayoutGpu
  <1>7. CASE BeginFrame
    BY <1>1, <1>7 DEF BeginFrame
  <1>8. CASE UNCHANGED vars
    BY <1>1, <1>8 DEF vars, cpu, gpu
  <1> QED
    BY <1>2, <1>3, <1>4, <1>5, <1>6, <1>7, <1>8 DEF Next

-----------------------------------------------------------------------------
(* How the GPU accessed the objects                                         *)

LEMMA AccessKeeps ==
    ASSUME AccessInv, UNCHANGED <<access, layout, passes, done>>
    PROVE  AccessInv'
  BY DEF AccessInv, Storing

\* Who writes leaves a state for writing.
LEMMA AccessGpu ==
    ASSUME RecordInv, TrackInv, OrderInv, LayoutInv, AccessInv, GpuPass
    PROVE  AccessInv'
  <1> DEFINE c == cmds[1]
  <1>1. 1 \in DOMAIN cmds /\ done' = c.pass /\ passes' = passes
    BY GpuIs
  <1>2. CommandOK(c) /\ done < c.pass /\ c.pass \in DOMAIN passes
    BY <1>1 DEF OrderInv, CommandOK
  <1>3. c.pass \in Nat /\ done \in Nat /\ DOMAIN passes \subseteq Nat
    BY <1>2 DEF OrderInv, RecordInv
  <1> SUFFICES ASSUME NEW o \in Places, NEW s \in Subs(o)
               PROVE  /\ access'[o][s] = "write" => layout'[o][s] \in WriteUsages
                      /\ access'[o][s] = "read" => layout'[o][s] \in ReadUsages
                      /\ ~StorageRepeats /\ layout'[o][s] = "storage" /\ access'[o][s] # "none" =>
                           o \in Objects /\ \E q \in DOMAIN passes : q <= c.pass /\ Storing(passes[q])
    BY <1>1 DEF AccessInv, Storing
  <1>4. PICK t : TraceOf(o, s, t) /\ Explains(c, o, s, layout[o][s], t[1])
    BY <1>1, HeadDoes
  <1>5. layout'[o][s] = t[1]
    BY <1>4, LayoutMoves
  <1>6. CASE Accesses(c, o, s)
    <2>1. PICK u \in c.uses : u.spot = <<o, s>>
      BY <1>6 DEF Accesses
    <2>2. u.usage = layout'[o][s] /\ UseOK(c, u, o, s)
      BY <1>1, <1>4, <1>5, <2>1, HeadDoes DEF Explains
    <2>3. access'[o][s] = IF <<o, s>> \in c.writes
                               \/ (access[o][s] = "write" /\ Moves(c, <<o, s>>) = {})
                            THEN "write" ELSE "read"
      BY <1>6, AccessMoves DEF AccessOf, At
    <2>4. CASE <<o, s>> \in c.writes
      <3>1. access'[o][s] = "write" /\ u.usage \in WriteUsages
        BY <2>1, <2>2, <2>3, <2>4 DEF UseOK
      <3>2. u.usage = "storage" => Storing(passes[c.pass]) /\ (~StorageRepeats => o \in Objects)
        BY <2>2 DEF UseOK
      <3> QED
        BY <1>2, <1>3, <2>2, <3>1, <3>2
    <2>5. CASE <<o, s>> \notin c.writes
      <3>1. u.usage \in ReadUsages /\ u.usage # "storage"
        BY <2>1, <2>2, <2>5 DEF UseOK, ReadUsages
      <3>2. CASE access[o][s] = "write" /\ Moves(c, <<o, s>>) = {}
        <4>1. ~Moved(c, o, s)
          BY <3>2, MovesIs
        <4>2. layout'[o][s] = layout[o][s]
          BY <1>4, <1>5, <4>1 DEF Explains, Moved
        <4>3. layout[o][s] \in WriteUsages
          BY <3>2 DEF AccessInv
        <4> QED
          BY <2>2, <3>1, <4>2, <4>3 DEF ReadUsages, WriteUsages
      <3>3. CASE ~(access[o][s] = "write" /\ Moves(c, <<o, s>>) = {})
        BY <2>2, <2>3, <2>5, <3>1, <3>3
      <3> QED
        BY <3>2, <3>3
    <2> QED
      BY <2>4, <2>5
  <1>7. CASE ~Accesses(c, o, s)
    <2>1. access'[o][s] = access[o][s]
      BY <1>7, AccessMoves
    <2>2. ~Moved(c, o, s)
      BY <1>1, <1>7, HeadDoes
    <2>3. layout'[o][s] = layout[o][s]
      BY <1>4, <1>5, <2>2 DEF Explains, Moved
    <2>4. \A q \in DOMAIN passes : q <= done => q <= c.pass
      BY <1>2, <1>3
    <2> HIDE DEF c
    <2> QED
      BY <2>1, <2>3, <2>4 DEF AccessInv
  <1> QED
    BY <1>6, <1>7

LEMMA AccessTaking ==
    ASSUME RecordInv, CullInv, BoundInv, PoolInv, TrackInv, AccessInv,
           NEW r \in DOMAIN resources, NEW o \in Objects, Devirtualize(r, o)
    PROVE  AccessInv'
  <1>1. passes' = passes /\ done' = done
    BY DEF Devirtualize, recorded
  <1>2. CASE UNCHANGED <<access, layout>>
    BY <1>1, <1>2, AccessKeeps
  <1>3. CASE /\ access' = [access EXCEPT ![o] = <<"none">>]
             /\ layout' = [layout EXCEPT ![o] = <<"undefined">>]
    <2> DEFINE undefined == <<"undefined">>
               unread == <<"none">>
    <2>1. unread[1] = "none" /\ Subs(o) = {1} /\ o \in Places
      BY OneSub
    <2>2. access' = [access EXCEPT ![o] = unread] /\ layout' = [layout EXCEPT ![o] = undefined]
      BY <1>3
    <2> HIDE DEF undefined, unread
    <2>3. /\ access'[o] = unread /\ \A x \in Places : x # o => access'[x] = access[x]
          /\ \A x \in Places : x # o => layout'[x] = layout[x]
      BY <2>1, <2>2, Replaced DEF TrackInv, TrackOK
    <2> SUFFICES ASSUME NEW x \in Places, NEW s \in Subs(x)
                 PROVE  /\ access'[x][s] = "write" => layout'[x][s] \in WriteUsages
                        /\ access'[x][s] = "read" => layout'[x][s] \in ReadUsages
                        /\ ~StorageRepeats /\ layout'[x][s] = "storage" /\ access'[x][s] # "none" =>
                             x \in Objects /\ \E q \in DOMAIN passes : q <= done /\ Storing(passes[q])
      BY <1>1 DEF AccessInv, Storing
    <2>4. CASE x = o
      <3>1. access'[x][s] = "none"
        BY <2>1, <2>3, <2>4
      <3> QED
        BY <3>1
    <2>5. CASE x # o
      BY <2>3, <2>5 DEF AccessInv
    <2> QED
      BY <2>4, <2>5
  <1> QED
    BY <1>2, <1>3, TakingKeeps

LEMMA AccessNext ==
    ASSUME RecordInv, CullInv, BoundInv, PoolInv, TrackInv, OrderInv, LayoutInv, AccessInv,
           [Next]_vars
    PROVE  AccessInv'
  <1>1. CASE Record
    <2>1. UNCHANGED <<access, layout, done>> /\ done = 0
      BY <1>1, RecordingIs DEF OrderInv
    <2>2. \A q \in DOMAIN passes : ~(q <= 0)
      BY DEF RecordInv
    <2> QED
      BY <2>1, <2>2 DEF AccessInv
  <1>2. CASE StartCulling \/ Cull \/ StartExecution
    BY <1>2, AccessKeeps DEF StartCulling, Cull, StartExecution, recorded, gpu
  <1>3. CASE \E r \in DOMAIN resources, o \in Objects : Devirtualize(r, o)
    BY <1>3, AccessTaking
  <1>4. CASE ExecutePass
    BY <1>4, AccessKeeps, ExecutingIs
  <1>5. CASE GpuPass
    BY <1>5, AccessGpu
  <1>6. CASE BeginFrame
    <2> DEFINE unread == <<"none">>
    <2>1. layout' = layout
          /\ access' = [o \in Places |-> IF o \in Objects THEN unread ELSE access[o]]
      BY <1>6 DEF BeginFrame
    <2>2. unread[1] = "none"
      OBVIOUS
    <2> HIDE DEF unread
    <2> SUFFICES ASSUME NEW x \in Places, NEW s \in Subs(x)
                 PROVE  /\ access'[x][s] = "write" => layout'[x][s] \in WriteUsages
                        /\ access'[x][s] = "read" => layout'[x][s] \in ReadUsages
                        /\ ~(~StorageRepeats /\ layout'[x][s] = "storage"
                               /\ access'[x][s] # "none")
      BY DEF AccessInv
    <2>3. CASE x \in Objects
      <3>1. access'[x][s] = "none"
        BY <2>1, <2>2, <2>3, OneSub
      <3> QED
        BY <3>1
    <2>4. CASE x \notin Objects
      <3>1. access'[x] = access[x]
        BY <2>1, <2>4
      <3> QED
        BY <2>1, <2>4, <3>1 DEF AccessInv
    <2> QED
      BY <2>3, <2>4
  <1>7. CASE UNCHANGED vars
    BY <1>7, AccessKeeps DEF vars, recorded, gpu
  <1> QED
    BY <1>1, <1>2, <1>3, <1>4, <1>5, <1>6, <1>7 DEF Next

-----------------------------------------------------------------------------
(* Whatever is recorded, the barriers are right                             *)

ExecutionInv ==
    GraphInv /\ ShapeInv /\ PoolInv /\ TrackInv /\ OrderInv /\ LayoutInv /\ AccessInv

\* All of it together.
LEMMA ExecutionInit == Init => ExecutionInv
  <1> SUFFICES ASSUME Init PROVE ExecutionInv
    OBVIOUS
  <1> DEFINE fresh == [o \in Places |-> [s \in Subs(o) |-> "undefined"]]
             unread == [o \in Places |-> [s \in Subs(o) |-> "none"]]
  <1>1. /\ tracked = fresh /\ layout = fresh /\ consistent = [o \in Places |-> TRUE]
        /\ access = unread /\ cmds = <<>> /\ done = 0 /\ phase = "record"
    BY DEF Init
  <1>2. "undefined" \in Usages
    BY DEF Usages
  <1>3. DOMAIN fresh = Places /\ \A o \in Places : DOMAIN fresh[o] = Subs(o)
        /\ \A s \in Subs(o) : fresh[o][s] = "undefined"
    OBVIOUS
  <1>4. DOMAIN unread = Places /\ \A o \in Places : DOMAIN unread[o] = Subs(o)
        /\ \A s \in Subs(o) : unread[o][s] = "none"
    OBVIOUS
  <1> HIDE DEF fresh, unread
  <1>5. TrackOK(tracked) /\ TrackOK(layout)
    BY <1>1, <1>2, <1>3 DEF TrackOK
  <1>6. Agree(tracked, consistent)
    BY <1>1, <1>3, OneIsSub DEF Agree
  <1>7. TrackInv
    BY <1>1, <1>4, <1>5, <1>6 DEF TrackInv
  <1>8. OrderInv
    BY <1>1 DEF OrderInv
  <1>9. LayoutInv
    <2> SUFFICES ASSUME NEW o \in Places, NEW s \in Subs(o)
                 PROVE  \E t : TraceOf(o, s, t)
      BY DEF LayoutInv
    <2> DEFINE t == [i \in {0} |-> "undefined"]
    <2>1. t[0] = "undefined" /\ Len(cmds) = 0 /\ DOMAIN cmds = {}
      BY <1>1
    <2> HIDE DEF t
    <2>2. TraceOf(o, s, t)
      BY <1>1, <1>3, <2>1 DEF TraceOf
    <2> QED
      BY <2>2
  <1>10. AccessInv
    BY <1>1, <1>4 DEF AccessInv
  <1> QED
    BY <1>7, <1>8, <1>9, <1>10, GraphInit, ShapeInit, PoolInit DEF ExecutionInv

LEMMA ExecutionNext == ExecutionInv /\ [Next]_vars => ExecutionInv'
  BY GraphNext, ShapeNext, PoolNext, TrackNext, OrderNext, LayoutNext, AccessNext
     DEF ExecutionInv, GraphInv

LEMMA ExecutionAlways == Spec => []ExecutionInv
  BY ExecutionInit, ExecutionNext, PTL DEF Spec

\* Each barrier the executor places starts from the state in which the GPU really
\* left the subresource, or discards it, and leaves all that the pass uses in the
\* state it is used in (rendergraph_executor.cpp, place_barriers), whatever is
\* recorded.
THEOREM LayoutsCorrect == Spec => []LayoutsRight
  <1>1. ASSUME ExecutionInv
        PROVE  LayoutsRight
    <2> DEFINE c == Head(cmds)
               after(spot) == IF Moves(c, spot) = {} THEN At(layout, spot)
                              ELSE (CHOOSE b \in Moves(c, spot) : TRUE).dst
    <2> SUFFICES ASSUME cmds # <<>>
                 PROVE  /\ \A b \in c.barriers : b.src \in {At(layout, b.spot), "undefined"}
                        /\ \A u \in c.uses : after(u.spot) = u.usage
      BY DEF LayoutsRight
    <2>1. OrderInv /\ LayoutInv
      BY <1>1 DEF ExecutionInv
    <2>2. PICK S : cmds \in Seq(S)
      BY <2>1 DEF OrderInv
    <2>3. c = cmds[1] /\ 1 \in DOMAIN cmds
      BY <2>2, SeqLess
    <2>4. CommandOK(c)
      BY <2>1, <2>3 DEF OrderInv
    <2> HIDE DEF c
    <2>5. \A u \in c.uses : \E o \in Places : \E s \in Subs(o) : u.spot = <<o, s>>
      BY <2>4 DEF CommandOK, UseOK
    <2>6. ASSUME NEW o \in Places, NEW s \in Subs(o)
          PROVE  /\ \A b \in c.barriers :
                      b.spot = <<o, s>> => b.src \in {layout[o][s], "undefined"}
                 /\ \A u \in c.uses : u.spot = <<o, s>> => after(u.spot) = u.usage
      <3>1. PICK t : Explains(c, o, s, layout[o][s], t[1])
        BY <2>1, <2>3, HeadDoes
      <3>2. after(<<o, s>>) = t[1]
        <4>1. CASE Moved(c, o, s)
          BY <3>1, <4>1, MovesIs DEF Explains
        <4>2. CASE ~Moved(c, o, s)
          <5>1. Moves(c, <<o, s>>) = {}
            BY <4>2, MovesIs
          <5>2. t[1] = layout[o][s]
            BY <3>1, <4>2 DEF Explains, Moved
          <5> QED
            BY <5>1, <5>2 DEF At
        <4> QED
          BY <4>1, <4>2
      <3> QED
        BY <3>1, <3>2 DEF Explains
    <2>7. ASSUME NEW b \in c.barriers
          PROVE  b.src \in {At(layout, b.spot), "undefined"}
      <3>1. PICK u \in c.uses : b.spot = u.spot
        BY <2>4 DEF CommandOK
      <3>2. PICK o \in Places : \E s \in Subs(o) : u.spot = <<o, s>>
        BY <2>5
      <3>3. PICK s \in Subs(o) : u.spot = <<o, s>>
        BY <3>2
      <3>4. b.src \in {layout[o][s], "undefined"}
        BY <2>6, <3>1, <3>3
      <3> QED
        BY <3>1, <3>3, <3>4 DEF At
    <2>8. ASSUME NEW u \in c.uses
          PROVE  after(u.spot) = u.usage
      <3>1. PICK o \in Places : \E s \in Subs(o) : u.spot = <<o, s>>
        BY <2>5
      <3> HIDE DEF after
      <3> QED
        BY <2>6, <3>1
    <2> QED
      BY <2>7, <2>8
  <1> QED
    BY <1>1, ExecutionAlways, PTL

\* Unless several passes read-write buffers, no two passes of which one writes
\* touch a subresource without a barrier between them.
THEOREM SynchronisedCorrect ==
    ASSUME ~StorageRepeats
    PROVE  Spec => []Synchronised
  <1>1. ASSUME ExecutionInv
        PROVE  Synchronised
    <2> DEFINE c == Head(cmds)
    <2> SUFFICES ASSUME cmds # <<>>, NEW spot \in Accessed(c), At(access, spot) # "none",
                        ~(At(access, spot) = "read" /\ spot \notin c.writes),
                        Moves(c, spot) = {}
                 PROVE  FALSE
      BY DEF Synchronised
    <2>1. RecordInv /\ ShapeInv /\ TrackInv /\ OrderInv /\ LayoutInv /\ AccessInv
      BY <1>1 DEF ExecutionInv, GraphInv
    <2>2. PICK S : cmds \in Seq(S)
      BY <2>1 DEF OrderInv
    <2>3. c = cmds[1] /\ 1 \in DOMAIN cmds
      BY <2>2, SeqLess
    <2>4. CommandOK(c) /\ done < c.pass
      BY <2>1, <2>3 DEF OrderInv
    <2> HIDE DEF c
    <2>5. PICK u \in c.uses : u.spot = spot
      BY DEF Accessed
    <2>6. PICK o \in Places : \E s \in Subs(o) : UseOK(c, u, o, s)
      BY <2>4 DEF CommandOK
    <2>7. PICK s \in Subs(o) : UseOK(c, u, o, s)
      BY <2>6
    <2>8. spot = <<o, s>> /\ At(access, spot) = access[o][s]
      BY <2>5, <2>7 DEF UseOK, At
    <2>9. ~Moved(c, o, s)
      BY <2>8, MovesIs
    <2>10. u.usage = layout[o][s]
      <3>1. PICK t : Explains(c, o, s, layout[o][s], t[1])
        BY <2>1, <2>3, HeadDoes
      <3> QED
        BY <2>5, <2>8, <2>9, <3>1 DEF Explains, Moved
    <2>11. access[o][s] \in {"read", "write"}
      BY <2>1, <2>8 DEF TrackInv
    <2>12. CASE spot \in c.writes
      <3>1. u.usage \in WriteUsages /\ u.usage \notin {"target", "depth", "copy_dest"}
        BY <2>5, <2>7, <2>8, <2>9, <2>12 DEF UseOK, Moved
      <3>2. u.usage = "storage"
        BY <3>1 DEF WriteUsages
      <3>3. PICK q \in DOMAIN passes : q <= done /\ Storing(passes[q])
        BY <2>1, <2>10, <2>11, <3>2 DEF AccessInv
      <3>4. Storing(passes[c.pass]) /\ c.pass \in DOMAIN passes
        BY <2>4, <2>7, <3>2 DEF UseOK, CommandOK
      <3>5. q = c.pass
        BY <2>1, <3>3, <3>4 DEF ShapeInv, OneStores
      <3>6. q \in Nat /\ done \in Nat
        BY <2>1, <3>3 DEF RecordInv, OrderInv
      <3> QED
        BY <2>4, <3>3, <3>5, <3>6
    <2>13. CASE spot \notin c.writes
      <3>1. u.usage \in ReadUsages
        BY <2>5, <2>7, <2>13 DEF UseOK
      <3>2. access[o][s] = "write"
        BY <2>8, <2>11, <2>13
      <3>3. layout[o][s] \in WriteUsages
        BY <2>1, <3>2 DEF AccessInv
      <3> QED
        BY <2>10, <3>1, <3>3 DEF ReadUsages, WriteUsages
    <2> QED
      BY <2>12, <2>13
  <1> QED
    BY <1>1, ExecutionAlways, PTL

-----------------------------------------------------------------------------
(* Types                                                                    *)

\* What a phase has not come to yet is empty.
IdleInv ==
    /\ next \in Nat
    /\ phase \in {"record", "compile"} => DOMAIN refs = {} /\ DOMAIN stack = {}
    /\ phase \notin {"execute", "gpu"} => DOMAIN bound = {}

LEMMA IdleNext ==
    ASSUME RecordInv, BoundInv, OrderInv, IdleInv, [Next]_vars
    PROVE  IdleInv'
  <1>1. CASE Record
    <2>1. phase = "record" /\ phase' \in {"record", "compile"}
      BY <1>1, RecordingIs
    <2>2. UNCHANGED <<refs, stack, next, bound>>
      BY <1>1 DEF Record, DeclareTexture, DeclareBuffer, ImportTexture, ImportBuffer,
                  ImportBackbuffer, Declare, AddPass, ColorAttachment, DepthAttachment,
                  Sample, UseBuffer, ReadWriteBuffer, Attach, UploadTexture, UploadBuffer,
                  AddUpload, GenerateMipmap, Present, Quiet, KeepSlot, compiled
    <2> QED
      BY <2>1, <2>2 DEF IdleInv
  <1>2. CASE StartCulling \/ Cull
    <2>1. phase \in {"compile", "cull"} /\ phase' = "cull" /\ UNCHANGED <<next, bound>>
      BY <1>2 DEF StartCulling, Cull, cpu
    <2> QED
      BY <2>1 DEF IdleInv
  <1>3. CASE StartExecution
    <2>1. phase' = "execute" /\ next' = 1
      BY <1>3 DEF StartExecution
    <2> QED
      BY <2>1 DEF IdleInv
  <1>4. CASE \E r \in DOMAIN resources, o \in Objects : Devirtualize(r, o)
    <2>1. phase = "execute" /\ UNCHANGED <<phase, next>>
      BY <1>4 DEF Devirtualize, Executing
    <2> QED
      BY <2>1 DEF IdleInv
  <1>5. CASE ExecutePass
    BY <1>5, ExecutingIs DEF IdleInv
  <1>6. CASE GpuPass
    <2>1. phase = "gpu" /\ UNCHANGED <<phase, next>>
      BY <1>6, GpuIs
    <2> QED
      BY <2>1 DEF IdleInv
  <1>7. CASE BeginFrame
    <2>1. phase' = "record" /\ refs' = <<>> /\ stack' = <<>> /\ bound' = <<>> /\ next' = 0
      BY <1>7 DEF BeginFrame
    <2> QED
      BY <2>1 DEF IdleInv
  <1>8. CASE UNCHANGED vars
    BY <1>8 DEF vars, compiled, cpu, IdleInv
  <1> QED
    BY <1>1, <1>2, <1>3, <1>4, <1>5, <1>6, <1>7, <1>8 DEF Next

LEMMA IdleInit == Init => IdleInv
  BY DEF Init, IdleInv

\* Every variable keeps to its type, and the pools hold objects that were made.
THEOREM TypeCorrect == Spec => []TypeOK
  <1>1. ExecutionInv /\ IdleInv /\ [Next]_vars => IdleInv'
    BY IdleNext DEF ExecutionInv, GraphInv
  <1>2. ASSUME ExecutionInv, IdleInv
        PROVE  TypeOK
    <2>1. /\ RecordInv /\ CullInv /\ BoundInv /\ PoolInv /\ TrackInv
      BY <1>2 DEF ExecutionInv, GraphInv
    <2>2. \A r \in DOMAIN resources :
            /\ resources[r].class \in Classes
            /\ resources[r].manage \in {"Managed", "Imported", "SubResource"}
            /\ resources[r].of \in Imported \cup {None}
      <3>1. \A r \in DOMAIN resources : resources[r] \in Resource
        BY <2>1 DEF RecordInv
      <3> QED
        BY <3>1 DEF Resource
    <2>3. ASSUME NEW p \in DOMAIN passes, NEW e \in ToSet(Edges(p))
          PROVE  e.res \in DOMAIN resources /\ e.usage \in Usages
      <3>1. PICK i \in DOMAIN Edges(p) : e = Edges(p)[i]
        BY DEF ToSet
      <3>2. Edges(p) \in Seq(EdgeType)
        BY <2>1, EdgesOf
      <3>3. e \in EdgeType
        BY <3>1, <3>2
      <3>4. e.res \in Ends(Edges(p))
        BY <3>1 DEF Ends
      <3>5. e.res \in DOMAIN resources
        BY <2>1, <3>4, EdgesOf, EndsKnown
      <3> QED
        BY <3>3, <3>5 DEF EdgeType
    <2>4. DOMAIN refs \in {{}, Nodes} /\ (\A n \in DOMAIN refs : refs[n] \in Nat)
          /\ ToSet(stack) \subseteq DOMAIN refs
      <3>1. CASE phase \in {"record", "compile"}
        BY <1>2, <3>1 DEF IdleInv, ToSet
      <3>2. CASE phase \in {"cull", "execute", "gpu"}
        <4>1. refs \in [Nodes -> Nat] /\ stack \in Seq(Nodes)
          BY <2>1, <3>2 DEF CullInv, CullOK
        <4> QED
          BY <4>1 DEF ToSet
      <3> QED
        BY <2>1, <3>1, <3>2 DEF RecordInv
    <2>5. /\ next \in Nat /\ DOMAIN bound \in {{}, DOMAIN resources}
          /\ \A r \in DOMAIN bound : bound[r] \in Objects \cup {None}
      BY <1>2, <2>1 DEF IdleInv, BoundInv
    <2>6. \A o \in DOMAIN pool : made[o] \in Classes /\ pool[o] \in 0..MaxAge
      BY <2>1 DEF PoolInv, PoolType
    <2>7. \A o \in Places : consistent[o] \in BOOLEAN /\
            \A s \in Subs(o) : {tracked[o][s], layout[o][s]} \subseteq Usages
      BY <2>1 DEF TrackInv, TrackOK, Agree
    <2>8. phase \in {"record", "compile", "cull", "execute", "gpu"}
      BY <2>1 DEF RecordInv
    <2> QED
      BY <2>2, <2>3, <2>4, <2>5, <2>6, <2>7, <2>8 DEF TypeOK
  <1> QED
    BY <1>1, <1>2, IdleInit, ExecutionInit, ExecutionNext, PTL DEF Spec

=============================================================================
