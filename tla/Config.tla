------------------------------- MODULE Config -------------------------------
(***************************************************************************)
(* The configuration tree (pulse_config/src/config.cpp): nodes that count   *)
(* their references, shared between trees and held by callers.              *)
(*                                                                          *)
(* Calls run one at a time and to their end, but not in one step: a release *)
(* cascades, and parsing, copying and merging recurse and can fail half way *)
(* when the nesting is too deep.  The variable releases holds the nodes      *)
(* release_node still has to work on, frames the recursive calls in         *)
(* progress, the innermost last.                                            *)
(***************************************************************************)
EXTENDS Integers, FiniteSets, Sequences, FiniteSetsExt, SequencesExt

CONSTANTS
    Nodes,        \* the addresses of nodes, a set of numbers
    Keys,         \* the keys of objects
    Elements,     \* the indices of arrays
    None,         \* the null pointer
    Documents,    \* the JSON values there are
    Texts,        \* those that callers parse
    DocKind,      \* their types
    DocKids,      \* their members and elements
    MaxDepth,     \* kMaxDepth
    MaxLive,      \* bound: the nodes alive when a call makes more
    MaxMerge,     \* bound: the nodes alive when a merge begins
    MaxMerges,    \* bound: the merges; after the last, callers only
                  \* create and release
    MaxHeld       \* bound: the references that callers hold, but for the
                  \* result of a merge

ASSUME ConfigAssumption ==
    /\ Nodes \subseteq Nat /\ IsFiniteSet(Nodes)
    /\ Keys \cap Elements = {} /\ Nodes \cap Documents = {} /\ Texts \subseteq Documents
    /\ None \notin Nodes \cup Documents
    /\ MaxDepth \in Nat /\ MaxLive \in Nat /\ MaxMerge \in Nat
    /\ MaxMerges \in Nat /\ MaxHeld \in Nat

VARIABLES
    kind,      \* Node::type, "free" when there is no node at the address
    val,       \* the value of a node that is neither object nor array
    kids,      \* Node::object and Node::array, by key and by index
    refs,      \* Node::ref_count
    held,      \* how many references callers have to a node
    releases,  \* the releases to be done
    frames,    \* the calls of json_to_node, copy_node and merge_nodes
    ret,       \* the result of the call that returned last
    call,      \* the frame a caller's parse or merge began with, if one is on
    merges     \* how many merges there were, for the bound

vars == <<kind, val, kids, refs, held, releases, frames, ret, call, merges>>

Pointers == Nodes \cup {None}
Slots == Keys \cup Elements
Kinds == {"object", "array", "value"}
Values == {x \in Documents : DocKind[x] = "value"}

\* A call.  src is the defaults of a merge and over its overrides; new is the
\* node under construction, slot where the result of the inner call goes.
Frame == [op: {"copy", "merge"}, at: {"enter", "base", "next", "child"},
          src: Pointers \cup Documents, over: Pointers, depth: Nat,
          new: Pointers, slot: Slots \cup {None}, todo: SUBSET Slots]

NewCopy(src, depth) ==
    [op |-> "copy", at |-> "enter", src |-> src, over |-> None, depth |-> depth,
     new |-> None, slot |-> None, todo |-> {}]
NewMerge(d, o, depth) == [NewCopy(d, depth) EXCEPT !.op = "merge", !.over = o]

Live == {n \in Nodes : kind[n] # "free"}
KidsOf(n) == Range(kids[n])

\* reaches_node: the nodes met from the set ns; no way is longer than Live.
Reached(ns) ==
    FoldSet(LAMBDA n, ms : ms \cup UNION {KidsOf(m) : m \in ms}, ns, Live)

\* What callers can get at: what they hold, and what they reach from there.
Accessible == Reached({n \in Nodes : held[n] > 0})

TypeOK ==
    /\ kind \in [Nodes -> Kinds \cup {"free"}]
    /\ val \in [Nodes -> Values \cup {None}]
    /\ \A n \in Nodes : DOMAIN kids[n] \subseteq Slots /\ KidsOf(n) \subseteq Nodes
    /\ refs \in [Nodes -> Nat]
    /\ held \in [Nodes -> 0..(MaxHeld + 1)]
    /\ releases \in Seq(Nodes)
    /\ frames \in Seq(Frame)
    /\ ret \in Pointers
    /\ call \in Frame \cup {None}
    /\ merges \in 0..MaxMerges

NoKids == [s \in {} |-> None]

Init ==
    /\ kind = [n \in Nodes |-> "free"]
    /\ val = [n \in Nodes |-> None]
    /\ kids = [n \in Nodes |-> NoKids]
    /\ refs = [n \in Nodes |-> 0]
    /\ held = [n \in Nodes |-> 0]
    /\ releases = <<>>
    /\ frames = <<>>
    /\ ret = None
    /\ call = None
    /\ merges = 0

-----------------------------------------------------------------------------
(* Nodes                                                                    *)

\* new_node: the node gets the first free address, and the caller's reference.
Fresh == CHOOSE n \in Nodes \ Live : \A m \in Nodes \ Live : n <= m

Allocate(n, k, v) ==
    /\ kind' = [kind EXCEPT ![n] = k]
    /\ val' = [val EXCEPT ![n] = v]
    /\ refs' = [refs EXCEPT ![n] = 1]

KidAt(n, s) == IF s \in DOMAIN kids[n] THEN kids[n][s] ELSE None
AsReleases(n) == IF n = None THEN <<>> ELSE <<n>>
WithKid(f, s, c) == [t \in DOMAIN f \cup {s} |-> IF t = s THEN c ELSE f[t]]

\* Mutant: the child that was at the key is released once more.
ReplaceChildTwice(n, s, c) ==
    /\ kids' = [kids EXCEPT ![n] = WithKid(@, s, c)]
    /\ releases' = AsReleases(KidAt(n, s)) \o AsReleases(KidAt(n, s))

\* replace_child: the child that was at the key before is released.
ReplaceChild(n, s, c) ==
    /\ kids' = [kids EXCEPT ![n] = WithKid(@, s, c)]
    /\ releases' = AsReleases(KidAt(n, s))

\* ~Node releases the members, or the elements.
Destroyed(n) == SetToSeq(DOMAIN kids[n])

\* release_node, and ~Node when the count is down to 0.
ReleaseStep ==
    /\ releases # <<>>
    /\ LET n == Head(releases)
           slots == Destroyed(n)
       IN  /\ refs' = [refs EXCEPT ![n] = @ - 1]
           /\ IF refs[n] = 1
              THEN /\ releases' = [i \in DOMAIN slots |-> kids[n][slots[i]]] \o Tail(releases)
                   /\ kind' = [kind EXCEPT ![n] = "free"]
                   /\ val' = [val EXCEPT ![n] = None]
                   /\ kids' = [kids EXCEPT ![n] = NoKids]
              ELSE releases' = Tail(releases) /\ UNCHANGED <<kind, val, kids>>
    /\ UNCHANGED <<held, frames, ret, call, merges>>

-----------------------------------------------------------------------------
(* json_to_node, copy_node, merge_nodes                                     *)

Top == frames[Len(frames)]
Callers == SubSeq(frames, 1, Len(frames) - 1)
At(op, at) == releases = <<>> /\ frames # <<>> /\ Top.op = op /\ Top.at = at

Goes(f) == frames' = Append(Callers, f) /\ ret' = None
Calls(f, c) == frames' = Callers \o <<f, c>> /\ ret' = None
Returns(n) == frames' = Callers /\ ret' = n

\* The values copied from are nodes, or JSON values when a text is parsed.
KindOf(x) == IF x \in Documents THEN DocKind[x] ELSE kind[x]
ValueOf(x) == IF x \in Documents THEN x ELSE val[x]
SourceKids(x) == IF x \in Documents THEN DocKids[x] ELSE kids[x]

\* copy_node and json_to_node: too deep, or a new node.
CopyEnter ==
    /\ At("copy", "enter")
    /\ IF Top.depth > MaxDepth
       THEN Returns(None) /\ UNCHANGED <<kind, val, refs>>
       ELSE /\ Allocate(Fresh, KindOf(Top.src),
                        IF KindOf(Top.src) = "value" THEN ValueOf(Top.src) ELSE None)
            /\ Goes([Top EXCEPT !.at = "next", !.new = Fresh,
                                !.todo = DOMAIN SourceKids(Top.src)])
    /\ UNCHANGED <<kids, held, releases, call, merges>>

CopyKid ==
    /\ At("copy", "next")
    /\ IF Top.todo = {} THEN Returns(Top.new)
       ELSE LET s == CHOOSE s \in Top.todo : TRUE
            IN  Calls([Top EXCEPT !.at = "child", !.slot = s, !.todo = @ \ {s}],
                      NewCopy(SourceKids(Top.src)[s], Top.depth + 1))
    /\ UNCHANGED <<kind, val, kids, refs, held, releases, call, merges>>

\* Mutant: what was copied before a failure is forgotten.
CopyFailedForgets == UNCHANGED releases

\* After a failure the copy made so far is released.
CopyFailed == releases' = <<Top.new>>

CopyKidDone ==
    /\ At("copy", "child")
    /\ IF ret = None THEN CopyFailed /\ Returns(None) /\ UNCHANGED kids
       ELSE /\ kids' = [kids EXCEPT ![Top.new] = WithKid(@, Top.slot, ret)]
            /\ Goes([Top EXCEPT !.at = "next"])
            /\ UNCHANGED releases
    /\ UNCHANGED <<kind, val, refs, held, call, merges>>

\* merge_nodes: with one side missing, or not both objects, a copy is returned;
\* else a copy of the defaults is made to put the overrides in.
BothObjects(d, o) == kind[d] = "object" /\ kind[o] = "object"

MergeEnter ==
    /\ At("merge", "enter")
    /\ LET d == Top.src
           o == Top.over
       IN  IF Top.depth > MaxDepth
           THEN Returns(None) /\ UNCHANGED <<kind, val, refs>>
           ELSE IF d = None /\ o = None
           THEN Allocate(Fresh, "object", None) /\ Returns(Fresh)
           ELSE /\ IF d = None THEN Goes(NewCopy(o, Top.depth))
                   ELSE IF o = None THEN Goes(NewCopy(d, Top.depth))
                   ELSE IF ~BothObjects(d, o) THEN Goes(NewCopy(o, Top.depth))
                   ELSE Calls([Top EXCEPT !.at = "base"], NewCopy(d, Top.depth))
                /\ UNCHANGED <<kind, val, refs>>
    /\ UNCHANGED <<kids, held, releases, call, merges>>

MergeBase ==
    /\ At("merge", "base")
    /\ IF ret = None THEN Returns(None)
       ELSE Goes([Top EXCEPT !.at = "next", !.new = ret, !.todo = DOMAIN kids[Top.over]])
    /\ UNCHANGED <<kind, val, kids, refs, held, releases, call, merges>>

\* Mutant: an object in the overrides replaces one in the defaults.
MergeInnerReplaces(mine, theirs, depth) == NewCopy(theirs, depth)

\* Objects on both sides are merged, anything else is replaced by a copy.
MergeInner(mine, theirs, depth) ==
    IF mine # None /\ BothObjects(mine, theirs)
    THEN NewMerge(mine, theirs, depth) ELSE NewCopy(theirs, depth)

MergeKey ==
    /\ At("merge", "next")
    /\ IF Top.todo = {} THEN Returns(Top.new)
       ELSE LET s == CHOOSE s \in Top.todo : TRUE
            IN  Calls([Top EXCEPT !.at = "child", !.slot = s, !.todo = @ \ {s}],
                      MergeInner(KidAt(Top.new, s), kids[Top.over][s], Top.depth + 1))
    /\ UNCHANGED <<kind, val, kids, refs, held, releases, call, merges>>

MergeKeyDone ==
    /\ At("merge", "child")
    /\ IF ret = None
       THEN releases' = <<Top.new>> /\ Returns(None) /\ UNCHANGED kids
       ELSE /\ ReplaceChild(Top.new, Top.slot, ret)
            /\ Goes([Top EXCEPT !.at = "next"])
    /\ UNCHANGED <<kind, val, refs, held, call, merges>>

-----------------------------------------------------------------------------
(* The calls.  A caller has the nodes it holds, and borrows what they lead  *)
(* to; it calls nothing before the call it made last is over.               *)

Idle == releases = <<>> /\ frames = <<>> /\ call = None
Free == Idle /\ merges < MaxMerges
Objects == {n \in Accessible : kind[n] = "object"}
Roomy == Cardinality(Live) <= MaxLive
AllHeld == MapThenSumSet(LAMBDA n : held[n], Nodes)
MayHold == AllHeld < MaxHeld

\* pulse_config_create
Create ==
    /\ Idle /\ Roomy /\ MayHold
    /\ Allocate(Fresh, "object", None)
    /\ held' = [held EXCEPT ![Fresh] = 1]
    /\ UNCHANGED <<kids, releases, frames, ret, call, merges>>

Starts(f) ==
    /\ Free
    /\ frames' = <<f>>
    /\ call' = f
    /\ UNCHANGED <<kind, val, kids, refs, held, releases, ret>>

\* pulse_config_create_from_json, of a text that is JSON, and pulse_config_merge
Parse(doc) == Roomy /\ MayHold /\ Starts(NewCopy(doc, 0)) /\ UNCHANGED merges
Merge(d, o) ==
    /\ Cardinality(Live) <= MaxMerge /\ AllHeld <= MaxHeld
    /\ Starts(NewMerge(d, o, 0))
    /\ merges' = merges + 1

\* The parse or merge is over: the result, if any, is the caller's.
Result ==
    /\ call # None /\ frames = <<>> /\ releases = <<>>
    /\ held' = IF ret = None THEN held ELSE [held EXCEPT ![ret] = 1]
    /\ call' = None
    /\ ret' = None
    /\ UNCHANGED <<kind, val, kids, refs, releases, frames, merges>>

\* pulse_config_addref
Addref(n) ==
    /\ Free /\ MayHold
    /\ refs' = [refs EXCEPT ![n] = @ + 1]
    /\ held' = [held EXCEPT ![n] = @ + 1]
    /\ UNCHANGED <<kind, val, kids, releases, frames, ret, call, merges>>

\* pulse_config_release
Release(n) ==
    /\ Idle /\ held[n] > 0
    /\ held' = [held EXCEPT ![n] = @ - 1]
    /\ releases' = <<n>>
    /\ UNCHANGED <<kind, val, kids, refs, frames, ret, call, merges>>

\* pulse_config_set_bool, set_int, set_double and set_string
SetScalar(n, k, v) ==
    /\ Free /\ Roomy
    /\ Allocate(Fresh, "value", v)
    /\ ReplaceChild(n, k, Fresh)
    /\ UNCHANGED <<held, frames, ret, call, merges>>

\* Mutant: only the object itself is refused.
SetAllowedMember(n, child) == kind[child] # "value" /\ n # child

SetAllowed(n, child) == kind[child] # "value" /\ n \notin Reached({child})

\* pulse_config_set_obj and set_array: the object may not become part of itself.
SetChild(n, k, child) ==
    /\ Free /\ SetAllowed(n, child)
    /\ refs' = [refs EXCEPT ![child] = @ + 1]
    /\ ReplaceChild(n, k, child)
    /\ UNCHANGED <<kind, val, held, frames, ret, call, merges>>

\* pulse_config_remove
RemoveKey(n, k) ==
    /\ Free /\ k \in DOMAIN kids[n]
    /\ releases' = <<kids[n][k]>>
    /\ kids' = [kids EXCEPT ![n] = [s \in DOMAIN @ \ {k} |-> @[s]]]
    /\ UNCHANGED <<kind, val, refs, held, frames, ret, call, merges>>

\* What callers do, one call at a time, with the nodes they can get at.
Caller ==
    /\ Idle
    /\ \/ Create
       \/ \E doc \in Texts : Parse(doc)
       \/ \E d, o \in Accessible \cup {None} : Merge(d, o)
       \/ \E n \in Accessible : Addref(n) \/ Release(n)
       \/ \E n \in Objects, k \in Keys :
              \/ RemoveKey(n, k)
              \/ \E v \in Values : SetScalar(n, k, v)
              \/ \E child \in Accessible : SetChild(n, k, child)

Next ==
    \/ ReleaseStep \/ Result
    \/ CopyEnter \/ CopyKid \/ CopyKidDone
    \/ MergeEnter \/ MergeBase \/ MergeKey \/ MergeKeyDone
    \/ Caller

Spec == Init /\ [][Next]_vars

-----------------------------------------------------------------------------
(* Properties                                                               *)

\* Who has a reference to a node: callers, the trees it is in, the calls that
\* build a node or are about to return one, and the releases to come.
Edges == UNION {{<<m, s>> : s \in DOMAIN kids[m]} : m \in Live}
References(n, edges) ==
    held[n] + Cardinality({e \in edges : kids[e[1]][e[2]] = n})
    + Cardinality({i \in DOMAIN frames : frames[i].new = n})
    + Cardinality({i \in DOMAIN releases : releases[i] = n})
    + (IF ret = n THEN 1 ELSE 0)

\* A node's count is the number of references there are to it, at every moment
\* of every call; so nothing refers to a node that is gone.
RefsExact == LET edges == Edges IN \A n \in Nodes : refs[n] = References(n, edges)

\* Between calls only what a caller can still get at is alive: failed parses
\* and merges give everything back.
NothingLeaked == Idle => Live = Accessible

\* No node is part of itself, whatever callers set: what is counted can always
\* be released, and walks end.
Acyclic == \A n \in Live : KidsOf(n) = {} \/ n \notin Reached(KidsOf(n))

\* Nodes, shared by any number of callers and parents, stay exactly counted and
\* free of cycles (set_obj, set_array, merge, ~Node).
TreesExact == RefsExact /\ Acyclic

Node(n, p) == FoldLeft(LAMBDA m, s : IF m = None THEN None ELSE KidAt(m, s), n, p)
Paths == SeqOf(Slots, MaxDepth + 1)
TooDeep(n) == \E p \in Paths : Len(p) = MaxDepth + 1 /\ Node(n, p) # None

Merged == call # None /\ call.op = "merge" /\ frames = <<>> /\ releases = <<>>

\* What a merge has at a path: the objects that both sides have down to there
\* stay objects; from the first place where not both have one, the overrides
\* count if they have anything there, and the defaults otherwise.
MergedAt(d, o, p) ==
    LET both == {q \in Prefixes(p) : \A r \in Prefixes(q) :
                     /\ Node(d, r) # None /\ Node(o, r) # None
                     /\ BothObjects(Node(d, r), Node(o, r))}
        parts == Prefixes(p) \ both
        first == CHOOSE q \in parts : \A r \in parts : Len(q) <= Len(r)
    IN  IF parts = {} THEN {"object"}
        ELSE LET n == IF Node(o, first) # None THEN Node(o, p) ELSE Node(d, p)
             IN  IF n = None THEN {} ELSE {kind[n], val[n]} \ {None}

\* The result shares no node with what it was made from or with anything else:
\* changing it changes nothing else.
MergeFresh ==
    Merged /\ ret # None =>
        /\ Reached({ret}) \cap Accessible = {}
        /\ \A n \in Reached({ret}) : refs[n] = 1

\* The result has at every path what the defaults and the overrides call for,
\* and fails exactly when what it has to copy is nested too deep.
MergeValues ==
    Merged =>
      LET d == call.src
          o == call.over
      IN  IF ret # None
          THEN \A p \in Paths :
                 LET n == Node(ret, p)
                 IN  (IF n = None THEN {} ELSE {kind[n], val[n]} \ {None})
                       = IF d = None /\ o = None /\ p = <<>> THEN {"object"}
                         ELSE MergedAt(d, o, p)
          ELSE \/ o # None /\ TooDeep(o)
               \/ d # None /\ TooDeep(d) /\ (o # None => BothObjects(d, o))

\* pulse_config_merge gives a new tree that is the deep merge of its arguments.
MergeCorrect == MergeFresh /\ MergeValues
=============================================================================
