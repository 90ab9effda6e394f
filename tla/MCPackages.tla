----------------------------- MODULE MCPackages -----------------------------
(* Instances of Packages for TLC.                                           *)
EXTENDS Packages

\* p is a native package with assets whose library brings the script runtime,
\* q a native package that is also linked into the host, s a script package.
\* The manifest of q has a name of its own.
MCPackageSet == {"p", "q", "s"}
MCManifestName == [x \in MCPackageSet |-> IF x = "q" THEN "Q" ELSE x]

\* Dependencies by entry name, by manifest name, on a package that need not
\* be listed, and on two.
MCDepLists == {{}, {"p"}, {"s"}, {"p", "Q"}}
=============================================================================
