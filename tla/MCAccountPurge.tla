---------------------------- MODULE MCAccountPurge ----------------------------
(* Model values and small sets for the runs of AccountPurge.             *)
EXTENDS AccountPurge, TLC

CONSTANTS u1, u2, f1, w1, w2, x1, x2

TwoSubjects == {u1, u2}
OneSubject == {u1}
OneWorker == {w1}
OneFile == {f1}
Sole == f1 :> u1
Workers == {w1, w2}
OneWriter == {x1}

===============================================================================
