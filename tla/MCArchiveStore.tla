--------------------------- MODULE MCArchiveStore ---------------------------
EXTENDS ArchiveStore, TLC

CONSTANTS a, b, c, i, j

(* One archive_all call saving a then b; c is a save of another process.    *)
BatchOfTwo == (a :> {}) @@ (b :> {a}) @@ (c :> {})

(* Two saves of different processes.                                        *)
TwoSaves == (a :> {}) @@ (b :> {})

TwoIds == Permutations({i, j})
=============================================================================
