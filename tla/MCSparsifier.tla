---------------------------- MODULE MCSparsifier ----------------------------
(* Sparsifier for TLC: readings that can leave, cross and touch the deadbands. *)
EXTENDS Sparsifier
MCValues == {0, 1, 3}
MCDeadBands == {0, 2}
=============================================================================
