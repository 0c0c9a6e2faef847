-------------------------- MODULE MCPendingApprovals --------------------------
(* Model values and symmetry for the run of PendingApprovals.              *)
EXTENDS PendingApprovals, TLC

CONSTANTS k1, k2, s1, s2, r1, r2, t1, t2

Conversations == {k1, k2}
Senders == {s1, s2}
Requests == {r1, r2}
Turns == {t1, t2}

Symmetry == Permutations(Conversations) \cup Permutations(Senders)
              \cup Permutations(Requests) \cup Permutations(Turns)

===============================================================================
