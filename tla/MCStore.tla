------------------------------ MODULE MCStore ------------------------------
(***************************************************************************)
(* Values for the constants of Store: two files that are loaded and one    *)
(* that is not, two playlists, and whoever writes at the same time.        *)
(***************************************************************************)
EXTENDS Store, TLC

CONSTANTS main, h1, h2, a1, shared, nobody, l1, l2, i1, i2, i3, file1, file2, show,
          anon, schedule_row, lock_row

TwoLoaded == (i1 :> file1) @@ (i2 :> file2)
Names == {show, file1, file2, 1}
KnownAndNot == {{i1}, {i2}, {i3}}
Handlers == Permutations({h1, h2})
=============================================================================
