--------------------------- MODULE MCWriteRequests ---------------------------
(* WriteRequests for TLC: good requests that compete for the same daemon, and one for *)
(* a uid that cannot be written.  The good ones can be swapped in the runs that check *)
(* no liveness.  One that does not parse is in MCBase.                                *)
EXTENDS WriteRequests, TLC
CONSTANTS r1, r2, readOnly
Good == {r1, r2}
WithReadOnly == Good \cup {readOnly}
Symmetry == Permutations(Good)
=============================================================================
