----------------------------- MODULE PassStream -----------------------------
(***************************************************************************)
(* What a render graph promises to the callbacks that record it: the       *)
(* passes run one after the other in the order they were recorded, each    *)
(* reads at every location what the last pass recorded before it wrote     *)
(* there, an upload brings its own data, and a pass may only be left out   *)
(* when nothing that leaves the graph depends on it.  Ownership, pools,    *)
(* aliasing and staging memory do not show.                                *)
(***************************************************************************)
EXTENDS Integers, Sequences, FiniteSetsExt

CONSTANT Locations      \* what a pass can read or write

VARIABLES
    stream,     \* the recorded passes
    sealed,     \* recording has ended
    kept,       \* the passes that will run
    done,       \* the last pass that ran, or 0
    seen        \* what every pass saw when it ran

vars == <<stream, sealed, kept, done, seen>>

\* root: the pass itself leaves the graph (it presents, or writes something
\* imported); data: it brings data of the CPU.
PassDesc == [reads : SUBSET Locations, writes : SUBSET Locations,
             root : BOOLEAN, data : BOOLEAN]

Numbers == DOMAIN stream
Before(p, l) == {q \in Numbers : q < p /\ l \in stream[q].writes}

\* The passes something outside of the graph depends on.
Closed(S) ==
    /\ \A p \in Numbers : stream[p].root => p \in S
    /\ \A p \in S : \A l \in stream[p].reads : Before(p, l) \subseteq S
Needed == {p \in Numbers : \A S \in SUBSET Numbers : Closed(S) => p \in S}

\* What pass p has to see.
View(p) ==
    [from |-> {<<l, Max(Before(p, l))>> : l \in {m \in stream[p].reads : Before(p, m) # {}}},
     data |-> IF stream[p].data THEN p ELSE 0]

Init == stream = <<>> /\ ~sealed /\ kept = {} /\ done = 0 /\ seen = <<>>

Record ==
    /\ ~sealed
    /\ stream' \in Seq(PassDesc)
    /\ Len(stream') >= Len(stream)
    /\ UNCHANGED <<sealed, kept, done, seen>>

Seal ==
    /\ ~sealed
    /\ sealed'
    /\ kept' \subseteq Numbers
    /\ Needed \subseteq kept'
    /\ seen' = <<>>
    /\ UNCHANGED <<stream, done>>

Run(p) ==
    /\ sealed
    /\ p \in kept
    /\ done < p
    /\ \A q \in kept : done < q => p <= q
    /\ seen' = Append(seen, <<p, View(p)>>)
    /\ done' = p
    /\ UNCHANGED <<stream, sealed, kept>>

NewFrame ==
    /\ sealed
    /\ \A p \in kept : p <= done
    /\ stream' = <<>> /\ ~sealed' /\ kept' = {} /\ done' = 0 /\ seen' = <<>>

Next == Record \/ Seal \/ (\E p \in Numbers : Run(p)) \/ NewFrame

Spec == Init /\ [][Next]_vars
=============================================================================
