---------------------------- MODULE UploadContract ----------------------------
(***************************************************************************)
(* What the resumable upload promises its client, with nothing of the      *)
(* staging file, the object store or the requests under way.               *)
(*                                                                         *)
(* The client has a file and sends it in pieces.  Each piece acknowledged  *)
(* moves one counter forward, from which the client may always resume; the *)
(* last makes the file, whole, in the same step.  Until then the client    *)
(* may give the upload up, or it lapses, but not before its time.  Once it *)
(* has ended nothing changes any more: no second file, no other ending,    *)
(* and the file that was made stays the client's.                          *)
(***************************************************************************)
EXTENDS Integers, Sequences

CONSTANT Contents   \* the client's file

VARIABLES state,         \* how the upload stands
          acknowledged,  \* how many bytes the client knows are kept
          due,           \* the time to finish it is over
          made           \* the contents of the files made of it

contractVars == <<state, acknowledged, due, made>>

ContractInit ==
  /\ state = "in_progress"
  /\ acknowledged = 0
  /\ due = FALSE
  /\ made = <<>>

(* n more bytes are acknowledged; the last of them make the file.          *)
Accept(n) ==
  /\ state = "in_progress"
  /\ acknowledged + n <= Len(Contents)
  /\ acknowledged' = acknowledged + n
  /\ IF acknowledged' = Len(Contents)
     THEN state' = "completed" /\ made' = <<Contents>>
     ELSE UNCHANGED <<state, made>>
  /\ UNCHANGED due

Abort ==
  /\ state = "in_progress"
  /\ state' = "aborted"
  /\ UNCHANGED <<acknowledged, due, made>>

Lapse ==
  /\ state = "in_progress" /\ due
  /\ state' = "expired"
  /\ UNCHANGED <<acknowledged, due, made>>

TimeIsOver ==
  /\ ~due
  /\ due' = TRUE
  /\ UNCHANGED <<state, acknowledged, made>>

ContractNext ==
  \/ \E n \in 0..Len(Contents) : Accept(n)
  \/ Abort \/ Lapse \/ TimeIsOver

Contract == ContractInit /\ [][ContractNext]_contractVars

===============================================================================
