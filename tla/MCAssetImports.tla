---------------------------- MODULE MCAssetImports ----------------------------
(* The constants of the runs over AssetImports. *)
EXTENDS AssetImports

CONSTANTS a, b, main, part

\* A content of two assets, one of a single asset, and one the importer refuses.
MCMakes == [content \in 0..2 |-> CASE content = 0 -> {}
                                   [] content = 1 -> {main}
                                   [] content = 2 -> {main, part}]

Allows(files, changes, shares, options, forces, holds, closes, crashes) ==
  [files |-> files, changes |-> changes, shares |-> shares, options |-> options, forces |-> forces,
   holds |-> holds, closes |-> closes, crashes |-> crashes]

\* One source and what it depends on, changed while the program closes, with an option or a failure,
\* and while it crashes; one that changes often; and two sources.
MCBudgets ==
  {Allows({a}, 2, 1, 0, 0, 1, 1, 0),
   Allows({a}, 1, 1, 1, 0, 0, 1, 0),
   Allows({a}, 2, 1, 0, 1, 0, 0, 1),
   Allows({a}, 3, 0, 0, 0, 1, 0, 0),
   Allows({a, b}, 1, 0, 0, 0, 1, 0, 0),
   Allows({a, b}, 1, 0, 0, 0, 0, 1, 0)}
=============================================================================
