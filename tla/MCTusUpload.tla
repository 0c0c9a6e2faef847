----------------------------- MODULE MCTusUpload -----------------------------
(* Two requests over one upload, which is small enough for every way to    *)
(* cut it into PATCHes and every place to drop one.                        *)
EXTENDS TusUpload, TLC

CONSTANTS r1, r2

TwoRequests == {r1, r2}
Symmetry == Permutations(Request)

==============================================================================
