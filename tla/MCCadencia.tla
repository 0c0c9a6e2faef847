------------------------------ MODULE MCCadencia ------------------------------
(* Model values for the run of Cadencia.                                   *)
EXTENDS Cadencia, TLC

CONSTANTS c1, c2

Chats == {c1, c2}
KnobValues == {0, 2}

ChatSymmetry == Permutations(Chats)

===============================================================================
