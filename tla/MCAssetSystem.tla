---------------------------- MODULE MCAssetSystem ----------------------------
(***************************************************************************)
(* Instances of AssetSystem for TLC: what the loaders of an instance call   *)
(* from their callbacks, and which type's assets name assets of which type. *)
(***************************************************************************)
EXTENDS AssetSystem

CONSTANTS ta, tb    \* two asset types

NoOps == {}

\* Steps that start the loads of what they need, as materials do for textures.
StartsLoads == {<<"step", "load">>, <<"step", "add">>}
OnlyLoads == {<<"step", "load">>}
OnlyAdds == {<<"step", "add">>}

\* Loaders that also give references back, and build other assets.
UsesEverything ==
    StartsLoads \cup {<<"step", "release">>, <<"dtor", "release">>,
                      <<"step", "build">>, <<"dtor", "build">>}

\* Loaders that hold what they use; their destructors build nothing.
UsesReferences ==
    (UsesEverything \ {<<"dtor", "build">>}) \cup {<<"step", "retain">>, <<"dtor", "load">>}

\* A loader whose constructor gives a reference back.
CtorReleases == {<<"ctor", "release">>}

AnyDepends == Types \X Types
OneWay == {<<ta, tb>>}
=============================================================================
