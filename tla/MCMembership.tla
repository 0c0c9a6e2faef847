----------------------------- MODULE MCMembership -----------------------------
(* Model values and symmetry for the run of Membership.                    *)
EXTENDS Membership, TLC

CONSTANTS u1, u2, u3, c1, c2, i1, i2

Users == {u1, u2, u3}
TwoCalls == {c1, c2}
TwoInvites == {i1, i2}

Symmetry == Permutations(Users) \cup Permutations(TwoCalls)
              \cup Permutations(TwoInvites)

===============================================================================
