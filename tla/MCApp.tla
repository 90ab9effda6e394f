-------------------------------- MODULE MCApp --------------------------------
(***************************************************************************)
(* Instances of App for TLC.                                                *)
(***************************************************************************)
EXTENDS App

AllLists == SUBSET Names

\* Some plugin that any plugin, also the plugin itself, may depend on.
OnOne == {{}, {CHOOSE n \in Names : TRUE}}

Symmetry == Permutations(Apps) \cup Permutations(Names)
=============================================================================
