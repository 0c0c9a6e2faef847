--------------------------- MODULE TusUpload_proofs ---------------------------
(***************************************************************************)
(* Proofs about TusUpload, for every set of requests, every length and     *)
(* every combination of upsets.  The heart of the argument: bytes only     *)
(* enter the staging file behind those already there, so a staging file    *)
(* that is as long as the ledger says holds the client's bytes and nothing *)
(* else, and one that holds anything else is too long for ever.            *)
(***************************************************************************)
EXTENDS TusUpload, SequenceTheorems, TLAPS

(* The row lock: one PATCH at a time is past its SELECT.                   *)
OneHolder == \A r, s \in Request : req[r].pc \in Holding /\ req[s].pc \in Holding => r = s

(* What a PATCH that holds the row knows of it.                            *)
HolderOf(r) ==
  /\ status = "in_progress"
  /\ req[r].from = offset /\ offset + req[r].n <= Length /\ req[r].done <= req[r].n
  /\ req[r].pc # "open" => staged
  /\ req[r].pc = "open" => req[r].done = 0
  /\ req[r].pc \in {"stat", "put", "commit"} => req[r].done = req[r].n
  /\ req[r].pc \in {"stat", "put"} => offset + req[r].n = Length

HoldersKnow ==
  \A r \in Request : /\ req[r].pc \in Holding => HolderOf(r)
                     /\ req[r].pc = "lock" => req[r].done = 0

(* n bytes are accounted for, and the staging file is no shorter; if it is *)
(* no longer either, they are the client's.                                *)
Accounted(n) == n <= Len(staging) /\ (Len(staging) = n => staging = Bytes(0, n))

Ledger ==
  status = "in_progress" =>
    /\ offset < Length
    /\ Accounted(offset)
    /\ \A r \in Request : req[r].pc \in Holding => Accounted(offset + req[r].done)

(* A late put belongs to a PATCH that was dropped after it appended: the   *)
(* staging file is too long for any other to complete.                     *)
Overlong ==
  \A r \in Request : req[r].pc = "adrift_put" =>
    /\ status # "completed"
    /\ status = "in_progress" =>
         /\ offset < Len(staging)
         /\ \A s \in Request : req[s].pc \in Holding => offset + req[s].done < Len(staging)

(* From the put to the commit nobody else writes the object.               *)
Completing(r) ==
  \/ req[r].pc = "put"
  \/ req[r].pc = "commit" /\ req[r].from + req[r].n = Length

PutIsWhole ==
  \A r \in Request : Completing(r) =>
    /\ req[r].pc = "commit" => blob = Whole
    /\ \A s \in Request : req[s].pc # "adrift_put"

(* Files are removed after the end only.                                   *)
RemovedAfter ==
  /\ \A r \in Request : req[r].pc = "clean" => status \in Terminal
  /\ worker = "swept" => status \in Terminal

Ended == OneFile /\ (status = "completed" => blob = Whole)

Inv ==
  /\ TypeOK /\ OneHolder /\ HoldersKnow /\ Ledger /\ Overlong /\ PutIsWhole
  /\ RemovedAfter /\ Ended

-------------------------------------------------------------------------------
(* What the sequences of bytes do.                                         *)
LEMMA BytesAre ==
  ASSUME NEW f \in Nat, NEW k \in Nat
  PROVE  Bytes(f, k) \in Seq(Nat) /\ Len(Bytes(f, k)) = k
BY DEF Bytes

(* The length of two sequences of bytes, one behind the other.             *)
LEMMA JoinLength ==
  ASSUME NEW s \in Seq(Nat), NEW w \in Seq(Nat)
  PROVE  /\ s \o w \in Seq(Nat) /\ Len(s \o w) = Len(s) + Len(w)
         /\ Len(s) \in Nat /\ Len(w) \in Nat
OBVIOUS

LEMMA BytesJoin ==
  ASSUME NEW a \in Nat, NEW k \in Nat
  PROVE  Bytes(0, a) \o Bytes(a, k) = Bytes(0, a + k)
<1> DEFINE s == Bytes(0, a)
           t == Bytes(a, k)
           u == Bytes(0, a + k)
<1>1. /\ s \in Seq(Nat) /\ Len(s) = a /\ \A i \in 1..a : s[i] = i - 1
      /\ t \in Seq(Nat) /\ Len(t) = k /\ \A i \in 1..k : t[i] = a + i - 1
      /\ u \in Seq(Nat) /\ Len(u) = a + k /\ \A i \in 1..a + k : u[i] = i - 1
  BY BytesAre DEF Bytes
<1> HIDE DEF s, t, u
<1>2. s \o t \in Seq(Nat) /\ Len(s \o t) = a + k
  BY <1>1, JoinLength
<1>3. ASSUME NEW i \in 1..a + k PROVE (s \o t)[i] = u[i]
  <2>1. CASE i <= a
    <3>1. (s \o t)[i] = s[i] /\ i \in 1..a
      BY <1>1, <2>1, ConcatProperties
    <3>2. QED BY <1>1, <3>1
  <2>2. CASE i > a
    <3>1. (s \o t)[i] = t[i - a] /\ i - a \in 1..k
      BY <1>1, <2>2, ConcatProperties
    <3>2. t[i - a] = a + (i - a) - 1
      BY <1>1, <3>1, Zenon
    <3>3. a + (i - a) - 1 = i - 1 /\ u[i] = i - 1
      BY <1>1
    <3>4. QED BY <3>1, <3>2, <3>3
  <2>3. i <= a \/ i > a
    OBVIOUS
  <2>4. QED BY <2>1, <2>2, <2>3, Zenon
<1>4. s \o t = u
  BY <1>1, <1>2, <1>3, SeqEqual, Zenon
<1>5. QED BY <1>4 DEF s, t, u

(* Bytes that come where the account ends are accounted for.               *)
LEMMA AccountGrows ==
  ASSUME NEW n \in Nat, NEW k \in Nat, staging \in Seq(Nat), Accounted(n),
         staging' = staging \o Bytes(n, k)
  PROVE  Accounted(n + k)'
<1>1. Len(staging') = Len(staging) + k /\ Len(staging) \in Nat
  <2>1. Bytes(n, k) \in Seq(Nat) /\ Len(Bytes(n, k)) = k
    BY BytesAre, Zenon
  <2>2. QED BY <2>1, JoinLength, Zenon
<1>2. n + k <= Len(staging')
  BY <1>1 DEF Accounted
<1>3. ASSUME Len(staging') = n + k PROVE staging' = Bytes(0, n + k)
  <2>1. staging = Bytes(0, n)
    BY <1>1, <1>3 DEF Accounted
  <2>2. QED BY <2>1, BytesJoin
<1>4. QED BY <1>2, <1>3 DEF Accounted

(* Any bytes behind it leave the account true: they make the file too long. *)
LEMMA AccountStands ==
  ASSUME NEW n \in Nat, NEW w \in Seq(Nat), staging \in Seq(Nat), Accounted(n),
         staging' = staging \o w
  PROVE  Accounted(n)' /\ Len(staging) <= Len(staging')
<1>1. Len(staging') = Len(staging) + Len(w) /\ Len(staging) \in Nat /\ Len(w) \in Nat
  BY JoinLength
<1>2. CASE Len(w) = 0
  <2>1. staging' = staging
    BY <1>2
  <2>2. QED BY <2>1 DEF Accounted
<1>3. CASE Len(w) # 0
  BY <1>1, <1>3 DEF Accounted
<1>4. QED BY <1>1, <1>2, <1>3

-------------------------------------------------------------------------------
(* The parts of the invariant that speak of the stores only.               *)
LEMMA InitHolds == Init => Inv
<1> SUFFICES ASSUME Init PROVE Inv
  OBVIOUS
<1>1. TypeOK
  <2>1. <<>> \in Seq(Nat)
    OBVIOUS
  <2>2. req \in [Request -> RequestState]
    BY DEF Init, RequestState
  <2>3. staging \in Seq(Nat) /\ blob \in Seq(Nat) /\ (~staged => staging = <<>>)
    BY <2>1 DEF Init
  <2>4. due \in BOOLEAN /\ staged \in BOOLEAN
    BY DEF Init
  <2>5. status \in {"in_progress"} \cup Terminal /\ worker \in {"idle", "swept"}
    BY DEF Init
  <2>6. offset \in 0..Length /\ files \in Nat
    BY UploadAssumption DEF Init
  <2>7. QED BY <2>2, <2>3, <2>4, <2>5, <2>6, Zenon DEF TypeOK
<1>2. \A r \in Request : req[r].pc = "idle"
  BY DEF Init, Idle
<1>3. Accounted(0)
  BY DEF Init, Accounted, Bytes
<1>4. Ledger
  BY <1>2, <1>3, UploadAssumption DEF Init, Ledger, Holding
<1>5. QED
  BY <1>1, <1>2, <1>4
  DEF Inv, Init, OneHolder, HoldersKnow, Holding, Overlong, PutIsWhole, Completing,
      RemovedAfter, Ended, OneFile

(* A handler that gives up or has not begun: only its own place changes.   *)
LEMMA Quiet ==
  ASSUME Inv, NEW r \in Request, NEW q \in RequestState,
         q.pc \in {"idle", "lock", "delete", "adrift"}, q.pc = "lock" => q.done = 0,
         Become(r, q), UNCHANGED <<row, due, disk, blob, worker>>
  PROVE  Inv'
<1>1. req \in [Request -> RequestState] /\ req' = [req EXCEPT ![r] = q]
  BY DEF Inv, TypeOK, Become
<1>2. /\ req'[r] = q
      /\ \A s \in Request : s # r => req'[s] = req[s]
      /\ req' \in [Request -> RequestState]
  BY <1>1
<1>3. q.pc \notin Holding /\ q.pc # "adrift_put" /\ q.pc # "clean" /\ q.pc # "put" /\ q.pc # "commit"
  BY DEF Holding
<1> USE <1>2, <1>3
<1>4. TypeOK'
  BY DEF Inv, TypeOK, row, disk
<1>5. OneHolder'
  BY DEF Inv, OneHolder
<1>6. HoldersKnow'
  BY DEF Inv, HoldersKnow, HolderOf, row, disk
<1>7. Ledger'
  BY DEF Inv, Ledger, Accounted, row, disk
<1>8. Overlong'
  BY DEF Inv, Overlong, row, disk
<1>9. PutIsWhole'
  BY DEF Inv, PutIsWhole, Completing
<1>10. RemovedAfter'
  BY DEF Inv, RemovedAfter, row
<1>11. Ended'
  BY DEF Inv, Ended, OneFile, row
<1>12. QED BY <1>4, <1>5, <1>6, <1>7, <1>8, <1>9, <1>10, <1>11 DEF Inv

-------------------------------------------------------------------------------
(* One lemma per step that does more than give up.                         *)
LEMMA PatchTyped ==
  ASSUME TypeOK, NEW r \in Request, req[r].pc \in {"lock"} \cup Holding
  PROVE  req[r] \in Patch
<1>1. req[r] \in RequestState
  BY DEF TypeOK
<1>2. QED BY <1>1 DEF RequestState, Idle, Adrift, Holding

LEMMA GotoTyped ==
  ASSUME TypeOK, NEW r \in Request, req[r].pc \in {"lock"} \cup Holding,
         NEW pc \in Holding, Goto(r, pc)
  PROVE  /\ req' \in [Request -> RequestState]
         /\ req'[r] = [req[r] EXCEPT !.pc = pc] /\ req'[r].pc = pc
         /\ req'[r].from = req[r].from /\ req'[r].n = req[r].n /\ req'[r].done = req[r].done
         /\ \A s \in Request : s # r => req'[s] = req[s]
<1>1. req[r] \in Patch
  BY PatchTyped
<1>2. [req[r] EXCEPT !.pc = pc] \in Patch
  BY <1>1 DEF Patch, Holding
<1>3. QED BY <1>1, <1>2 DEF Goto, TypeOK, RequestState, Patch, Holding

LEMMA LockHolds ==
  ASSUME Inv, NEW r \in Request, Lock(r)
  PROVE  Inv'
<1>1. CASE ~Fits(req[r])
  BY <1>1, Quiet DEF Lock, Become, Idle, RequestState, row, disk, Inv, TypeOK
<1>2. CASE Fits(req[r])
  <2>1. req[r].pc = "lock" /\ "open" \in Holding /\ Goto(r, "open")
    BY <1>2 DEF Lock, At, Holding
  <2>2. req[r] \in Patch
    BY <2>1, PatchTyped DEF Inv
  <2>3. /\ req' \in [Request -> RequestState]
        /\ req'[r].pc = "open" /\ req'[r].done = req[r].done
        /\ req'[r].from = req[r].from /\ req'[r].n = req[r].n
        /\ \A s \in Request : s # r => req'[s] = req[s]
    BY <2>1, GotoTyped DEF Inv
  <2>4. req[r].done = 0 /\ \A s \in Request : req[s].pc \notin Holding
    BY <2>1 DEF Inv, HoldersKnow, Lock, Free
  <2>5. UNCHANGED <<status, offset, files, due, staged, staging, blob, worker>>
    BY DEF Lock, row, disk
  <2> USE <2>3, <2>4, <2>5
  <2>6. TypeOK'
    BY DEF Inv, TypeOK
  <2>7. OneHolder'
    BY DEF OneHolder
  <2>8. HoldersKnow'
    BY <1>2, <2>2 DEF Inv, HoldersKnow, HolderOf, Fits, Patch
  <2>9. Ledger'
    BY DEF Inv, Ledger, Accounted, TypeOK
  <2>10. Overlong'
    <3>1. offset + req'[r].done = offset
      BY UploadAssumption DEF Inv, TypeOK
    <3>2. QED BY <3>1 DEF Inv, Overlong
  <2>11. PutIsWhole'
    BY DEF Inv, PutIsWhole, Completing
  <2>12. RemovedAfter' /\ Ended'
    BY DEF Inv, RemovedAfter, Ended, OneFile
  <2>13. QED BY <2>6, <2>7, <2>8, <2>9, <2>10, <2>11, <2>12 DEF Inv
<1>3. QED BY <1>1, <1>2

LEMMA OpenHolds ==
  ASSUME Inv, NEW r \in Request, Open(r)
  PROVE  Inv'
<1>1. req[r].pc = "open" /\ req[r].pc \in Holding /\ "write" \in Holding /\ Goto(r, "write")
  BY DEF Open, At, Holding
<1>2. /\ req' \in [Request -> RequestState]
      /\ req'[r].pc = "write" /\ req'[r].done = req[r].done
      /\ req'[r].from = req[r].from /\ req'[r].n = req[r].n
      /\ \A s \in Request : s # r => req'[s] = req[s]
  BY <1>1, GotoTyped DEF Inv
<1>3. staged' = TRUE /\ UNCHANGED <<status, offset, files, due, staging, blob, worker>>
  BY DEF Open, row
<1> USE <1>1, <1>2, <1>3
<1>4. TypeOK'
  BY DEF Inv, TypeOK
<1>5. OneHolder'
  BY DEF Inv, OneHolder
<1>6. HoldersKnow'
  BY DEF Inv, HoldersKnow, HolderOf
<1>7. Ledger'
  BY DEF Inv, Ledger, Accounted
<1>8. Overlong'
  BY DEF Inv, Overlong
<1>9. PutIsWhole'
  BY DEF Inv, PutIsWhole, Completing
<1>10. RemovedAfter' /\ Ended'
  BY DEF Inv, RemovedAfter, Ended, OneFile
<1>11. QED BY <1>4, <1>5, <1>6, <1>7, <1>8, <1>9, <1>10 DEF Inv

LEMMA WriteHolds ==
  ASSUME Inv, NEW r \in Request, NEW k \in 1..Length, Write(r, k)
  PROVE  Inv'
<1>1. req[r].pc = "write" /\ req[r].pc \in Holding /\ k <= req[r].n - req[r].done /\ k \in Nat
  BY UploadAssumption DEF Write, At, Holding
<1>2. req[r] \in Patch
  BY <1>1, PatchTyped DEF Inv
<1>3. HolderOf(r) /\ staged /\ offset \in Nat /\ staging \in Seq(Nat)
  BY <1>1, UploadAssumption DEF Inv, HoldersKnow, HolderOf, TypeOK
<1>4. req'[r] = [req[r] EXCEPT !.done = @ + k] /\ \A s \in Request : s # r => req'[s] = req[s]
  BY DEF Write, Inv, TypeOK
<1>5. /\ req'[r].pc = "write" /\ req'[r].done = req[r].done + k
      /\ req'[r].from = req[r].from /\ req'[r].n = req[r].n /\ req'[r] \in Patch
  BY <1>1, <1>2, <1>4 DEF Patch
<1>6. req' \in [Request -> RequestState]
  BY <1>5 DEF Write, Inv, TypeOK, RequestState
<1>7. staging' = staging \o Bytes(offset + req[r].done, k)
  BY <1>3 DEF Write, AppendToStaging, HolderOf
<1>8. /\ Bytes(offset + req[r].done, k) \in Seq(Nat)
      /\ Len(Bytes(offset + req[r].done, k)) = k /\ req[r].done \in Nat
  <2>1. req[r].done \in Nat /\ offset + req[r].done \in Nat
    BY <1>2, <1>3 DEF Patch
  <2>2. QED BY <1>1, <2>1, BytesAre
<1>9. staging' \in Seq(Nat) /\ Len(staging') = Len(staging) + k /\ Len(staging) \in Nat
  <2>1. PICK w \in Seq(Nat) : w = Bytes(offset + req[r].done, k) /\ Len(w) = k
    BY <1>8, Zenon
  <2>2. staging' = staging \o w
    BY <1>7, <2>1, Zenon
  <2>3. /\ staging \o w \in Seq(Nat) /\ Len(staging \o w) = Len(staging) + Len(w)
        /\ Len(staging) \in Nat
    BY <1>3, JoinLength, Zenon
  <2>4. QED BY <2>1, <2>2, <2>3, Zenon
<1>10. UNCHANGED <<status, offset, files, due, staged, blob, worker>>
  BY DEF Write, row
<1>11. TypeOK'
  BY <1>3, <1>6, <1>9, <1>10 DEF Inv, TypeOK
<1>12. OneHolder'
  BY <1>1, <1>4, <1>5 DEF Inv, OneHolder
<1>13. HoldersKnow'
  <2>1. req[r].done + k <= req[r].n
    BY <1>1, <1>2 DEF Patch
  <2>2. HolderOf(r)'
    BY <1>1, <1>3, <1>5, <1>10, <2>1 DEF HolderOf
  <2>3. ASSUME NEW s \in Request, s # r
        PROVE  (req[s].pc \in Holding => HolderOf(s))' /\ (req[s].pc = "lock" => req[s].done = 0)'
    BY <1>4, <1>10, <2>3 DEF Inv, HoldersKnow, HolderOf
  <2>4. QED BY <1>5, <2>2, <2>3 DEF HoldersKnow
<1>14. Ledger'
  <2>1. Accounted(offset + req[r].done)' /\ status = "in_progress" /\ offset < Length
    <3>1. Accounted(offset + req[r].done) /\ status = "in_progress" /\ offset < Length
      BY <1>1, <1>3 DEF Inv, Ledger, HolderOf
    <3>2. PICK n \in Nat : n = offset + req[r].done
      BY <1>3, <1>8
    <3>3. Accounted(n) /\ staging' = staging \o Bytes(n, k)
      BY <1>7, <3>1, <3>2
    <3>4. Accounted(n + k)'
      BY <1>1, <1>3, <3>3, AccountGrows
    <3>5. offset' + req'[r].done = n + k
      BY <1>1, <1>3, <1>5, <1>8, <1>10, <3>2
    <3>6. QED BY <3>1, <3>4, <3>5
  <2>2. Accounted(offset)'
    <3>1. PICK m \in Nat : m = offset
      BY <1>3
    <3>2. PICK w \in Seq(Nat) : w = Bytes(offset + req[r].done, k)
      BY <1>8
    <3>3. Accounted(m)
      BY <2>1, <3>1 DEF Inv, Ledger
    <3>4. Accounted(m)'
      BY <1>3, <1>7, <3>2, <3>3, AccountStands
    <3>5. QED BY <1>10, <3>1, <3>4
  <2>3. QED BY <1>1, <1>4, <1>10, <1>12, <2>1, <2>2 DEF Inv, OneHolder, Ledger
<1>15. Overlong'
  <2>1. ASSUME NEW s \in Request, req'[s].pc = "adrift_put"
        PROVE  offset + req[r].done < Len(staging) /\ offset < Len(staging)
    BY <1>1, <1>3, <1>4, <1>5, <2>1 DEF Inv, Overlong, HolderOf
  <2>2. ASSUME NEW s \in Request, req'[s].pc = "adrift_put"
        PROVE  status' # "completed" /\ offset' < Len(staging')
    BY <1>1, <1>3, <1>9, <1>10, <2>1, <2>2 DEF HolderOf
  <2>3. ASSUME NEW s \in Request, req'[s].pc = "adrift_put"
        PROVE  offset' + req'[r].done < Len(staging')
    <3>1. offset + req[r].done < Len(staging)
      BY <2>1, <2>3
    <3>2. PICK d \in Nat : d = req[r].done
      BY <1>8
    <3>3. offset + (d + k) < Len(staging) + k
      <4>1. offset + d < Len(staging) /\ offset \in Nat /\ Len(staging) \in Nat /\ k \in Nat
        BY <1>1, <1>3, <1>9, <3>1, <3>2, Zenon
      <4>2. QED BY <4>1
    <3>4. QED BY <1>5, <1>9, <1>10, <3>2, <3>3
  <2>4. \A s \in Request : req'[s].pc \in Holding => s = r
    BY <1>1, <1>5, <1>12 DEF OneHolder
  <2>5. QED BY <2>2, <2>3, <2>4 DEF Overlong
<1>16. PutIsWhole'
  BY <1>1, <1>4, <1>5, <1>10 DEF Inv, PutIsWhole, Completing
<1>17. RemovedAfter' /\ Ended'
  BY <1>1, <1>4, <1>5, <1>10 DEF Inv, RemovedAfter, Ended, OneFile
<1>18. QED BY <1>11, <1>12, <1>13, <1>14, <1>15, <1>16, <1>17 DEF Inv

LEMMA AdvanceHolds ==
  ASSUME Inv, NEW r \in Request, Advance(r)
  PROVE  Inv'
<1>1. req[r].pc = "write" /\ req[r].pc \in Holding /\ req[r].done = req[r].n
  BY DEF Advance, At, Holding
<1>2. PICK pc \in {"stat", "commit"} : Goto(r, pc) /\ (pc = "stat" <=> req[r].from + req[r].n = Length)
  BY DEF Advance
<1>3. pc \in Holding
  BY <1>2 DEF Holding
<1>4. /\ req' \in [Request -> RequestState]
      /\ req'[r].pc = pc /\ req'[r].done = req[r].done
      /\ req'[r].from = req[r].from /\ req'[r].n = req[r].n
      /\ \A s \in Request : s # r => req'[s] = req[s]
  BY <1>1, <1>2, <1>3, GotoTyped DEF Inv
<1>5. UNCHANGED <<status, offset, files, due, staged, staging, blob, worker>>
  BY DEF Advance, row, disk
<1> USE <1>1, <1>2, <1>3, <1>4, <1>5
<1>6. TypeOK'
  BY DEF Inv, TypeOK
<1>7. OneHolder'
  BY DEF Inv, OneHolder
<1>8. HoldersKnow'
  BY DEF Inv, HoldersKnow, HolderOf
<1>9. Ledger'
  BY DEF Inv, Ledger, Accounted
<1>10. Overlong'
  BY DEF Inv, Overlong
<1>11. PutIsWhole'
  BY DEF Inv, PutIsWhole, Completing
<1>12. RemovedAfter' /\ Ended'
  BY DEF Inv, RemovedAfter, Ended, OneFile
<1>13. QED BY <1>6, <1>7, <1>8, <1>9, <1>10, <1>11, <1>12 DEF Inv

(* The length check of finalize_upload: past it the staging file is the    *)
(* client's, and no late put is left to come.                              *)
LEMMA StatHolds ==
  ASSUME Inv, NEW r \in Request, Stat(r)
  PROVE  Inv'
<1>1. req[r].pc = "stat" /\ req[r].pc \in Holding /\ "put" \in Holding
  BY DEF Stat, At, Holding
<1>2. UNCHANGED <<status, offset, files, due, staged, staging, blob, worker>>
  BY DEF Stat, row, disk
<1>3. CASE Len(staging) # Length
  <2>1. Become(r, Idle) /\ Idle \in RequestState
    BY <1>3 DEF Stat, RequestState
  <2>2. QED BY <1>2, <2>1, Quiet DEF Idle, row, disk
<1>4. CASE Len(staging) = Length
  <2>1. Goto(r, "put")
    BY <1>4 DEF Stat
  <2>2. /\ req' \in [Request -> RequestState]
        /\ req'[r].pc = "put" /\ req'[r].done = req[r].done
        /\ req'[r].from = req[r].from /\ req'[r].n = req[r].n
        /\ \A s \in Request : s # r => req'[s] = req[s]
    BY <1>1, <2>1, GotoTyped DEF Inv
  <2>3. \A s \in Request : req[s].pc # "adrift_put"
    <3>1. offset + req[r].done = Length /\ status = "in_progress"
      BY <1>1 DEF Inv, HoldersKnow, HolderOf
    <3>2. QED BY <1>1, <1>4, <3>1, UploadAssumption DEF Inv, Overlong
  <2> USE <1>1, <1>2, <2>1, <2>2, <2>3
  <2>4. TypeOK'
    BY DEF Inv, TypeOK
  <2>5. OneHolder'
    BY DEF Inv, OneHolder
  <2>6. HoldersKnow'
    BY DEF Inv, HoldersKnow, HolderOf
  <2>7. Ledger'
    BY DEF Inv, Ledger, Accounted
  <2>8. Overlong'
    BY DEF Inv, Overlong
  <2>9. PutIsWhole'
    BY DEF Inv, PutIsWhole, Completing
  <2>10. RemovedAfter' /\ Ended'
    BY DEF Inv, RemovedAfter, Ended, OneFile
  <2>11. QED BY <2>4, <2>5, <2>6, <2>7, <2>8, <2>9, <2>10 DEF Inv
<1>5. QED BY <1>3, <1>4

(* The put writes the object of an upload that has not completed.          *)
LEMMA PutHolds ==
  ASSUME Inv, NEW r \in Request, Put(r)
  PROVE  Inv'
<1>1. req[r].pc = "put" /\ req[r].pc \in Holding /\ "commit" \in Holding /\ Idle.pc \notin Holding
  BY DEF Put, At, Holding, Idle
<1>2. /\ UNCHANGED <<status, offset, files, due, staged, staging, worker>>
      /\ blob' = staging
  BY DEF Put, row, disk, Inv, TypeOK
<1>3. status = "in_progress" /\ offset + req[r].done = Length /\ HolderOf(r)
  BY <1>1 DEF Inv, HoldersKnow, HolderOf
<1>4. \A s \in Request : req[s].pc # "adrift_put"
  BY <1>1 DEF Inv, PutIsWhole, Completing
<1>5. CASE Len(staging) # Length
  <2>1. req' = [req EXCEPT ![r] = Idle]
    BY <1>5 DEF Put, Become
  <2>2. /\ req' \in [Request -> RequestState] /\ req'[r].pc = "idle"
        /\ \A s \in Request : s # r => req'[s] = req[s]
    BY <2>1 DEF Inv, TypeOK, RequestState, Idle
  <2>3. \A s \in Request : req'[s].pc \notin Holding
    BY <1>1, <2>2 DEF Inv, OneHolder, Holding
  <2> USE <1>1, <1>2, <1>3, <1>4, <2>2, <2>3
  <2>4. TypeOK'
    BY DEF Inv, TypeOK
  <2>5. OneHolder' /\ HoldersKnow'
    BY DEF Inv, OneHolder, HoldersKnow
  <2>6. Ledger' /\ Overlong'
    BY DEF Inv, Ledger, Accounted, Overlong
  <2>7. PutIsWhole'
    BY DEF PutIsWhole, Completing, Holding
  <2>8. RemovedAfter' /\ Ended'
    BY DEF Inv, RemovedAfter, Ended, OneFile
  <2>9. QED BY <2>4, <2>5, <2>6, <2>7, <2>8 DEF Inv
<1>6. CASE Len(staging) = Length
  <2>1. Goto(r, "commit")
    BY <1>6 DEF Put
  <2>2. /\ req' \in [Request -> RequestState]
        /\ req'[r].pc = "commit" /\ req'[r].done = req[r].done
        /\ req'[r].from = req[r].from /\ req'[r].n = req[r].n
        /\ \A s \in Request : s # r => req'[s] = req[s]
    BY <1>1, <2>1, GotoTyped DEF Inv
  <2>3. blob' = Whole
    BY <1>1, <1>2, <1>3, <1>6 DEF Inv, Ledger, Accounted, Whole
  <2> USE <1>1, <1>2, <1>3, <1>4, <2>2, <2>3
  <2>4. TypeOK'
    BY DEF Inv, TypeOK
  <2>5. OneHolder'
    BY DEF Inv, OneHolder
  <2>6. HoldersKnow'
    BY DEF Inv, HoldersKnow, HolderOf
  <2>7. Ledger' /\ Overlong'
    BY DEF Inv, Ledger, Accounted, Overlong
  <2>8. PutIsWhole'
    BY DEF Inv, PutIsWhole, OneHolder, Completing, Holding
  <2>9. RemovedAfter' /\ Ended'
    BY DEF Inv, RemovedAfter, Ended, OneFile
  <2>10. QED BY <2>4, <2>5, <2>6, <2>7, <2>8, <2>9 DEF Inv
<1>7. QED BY <1>5, <1>6

(* The commit, heard or not: it completes only behind a whole object.      *)
LEMMA CommittedHolds ==
  ASSUME Inv, NEW r \in Request, At(r, "commit"), Committed(r),
         NEW q \in RequestState, q.pc \in {"idle", "clean"}, Become(r, q),
         q.pc = "clean" => offset' = Length
  PROVE  Inv'
<1>1. req[r].pc = "commit" /\ req[r].pc \in Holding /\ q.pc \notin Holding
  BY DEF At, Holding
<1>2. UNCHANGED <<due, staged, staging, blob, worker>>
  BY DEF Committed, disk
<1>3. /\ status = "in_progress" /\ req[r].from = offset /\ req[r].done = req[r].n
      /\ offset + req[r].n <= Length /\ offset \in Nat /\ offset < Length
  BY <1>1, UploadAssumption DEF Inv, HoldersKnow, HolderOf, TypeOK, Ledger
<1>4. req[r].n \in Nat
  BY <1>1, PatchTyped DEF Inv, Patch
<1>5. offset' = offset + req[r].n /\ offset' \in 0..Length /\ files = 0
  BY <1>3, <1>4, UploadAssumption DEF Committed, Inv, Ended, OneFile
<1>6. /\ req' \in [Request -> RequestState] /\ req'[r] = q
      /\ \A s \in Request : s # r => req'[s] = req[s]
  BY DEF Become, Inv, TypeOK
<1>7. \A s \in Request : req'[s].pc \notin Holding
  BY <1>1, <1>6 DEF Inv, OneHolder
<1>8. \A s \in Request : ~Completing(s)'
  BY <1>7 DEF Completing, Holding
<1>9. OneHolder' /\ HoldersKnow'
  BY <1>6, <1>7 DEF Inv, OneHolder, HoldersKnow
<1>10. PutIsWhole'
  BY <1>8 DEF PutIsWhole
<1>11. CASE offset' = Length
  <2>1. status' = "completed" /\ files' = 1 /\ blob = Whole
    BY <1>1, <1>3, <1>5, <1>11 DEF Committed, Inv, PutIsWhole, Completing
  <2>2. \A s \in Request : req'[s].pc # "adrift_put"
    BY <1>1, <1>3, <1>5, <1>6, <1>11 DEF Inv, PutIsWhole, Completing
  <2>3. TypeOK'
    BY <1>2, <1>5, <1>6, <2>1 DEF Inv, TypeOK, Terminal
  <2>4. Ledger' /\ Overlong' /\ RemovedAfter' /\ Ended'
    BY <1>2, <2>1, <2>2 DEF Ledger, Overlong, RemovedAfter, Ended, OneFile, Terminal
  <2>5. QED BY <1>9, <1>10, <2>3, <2>4 DEF Inv
<1>12. CASE offset' # Length
  <2>1. UNCHANGED <<status, files>> /\ q.pc = "idle"
    BY <1>12 DEF Committed
  <2>2. TypeOK'
    BY <1>2, <1>5, <1>6, <2>1 DEF Inv, TypeOK
  <2>3. Accounted(offset + req[r].done)
    BY <1>1, <1>3 DEF Inv, Ledger
  <2>4. Ledger'
    BY <1>2, <1>3, <1>5, <1>7, <1>12, <2>1, <2>3, UploadAssumption DEF Ledger, Accounted
  <2>5. Overlong'
    BY <1>1, <1>2, <1>3, <1>5, <1>6, <1>7, <2>1 DEF Inv, Overlong
  <2>6. RemovedAfter' /\ Ended'
    BY <1>2, <1>6, <2>1 DEF Inv, RemovedAfter, Ended, OneFile
  <2>7. QED BY <1>9, <1>10, <2>2, <2>4, <2>5, <2>6 DEF Inv
<1>13. QED BY <1>11, <1>12

(* An upload that has ended without completing has no PATCH at work.       *)
LEMMA EndingHolds ==
  ASSUME Inv, Free, status = "in_progress", status' \in {"aborted", "expired"},
         UNCHANGED <<offset, files, due, staged, staging, blob>>,
         req' \in [Request -> RequestState], worker' \in {"idle", "swept"},
         \A s \in Request : req'[s] = req[s] \/ req'[s].pc = "clean"
  PROVE  Inv'
<1>1. \A s \in Request : req'[s].pc \notin Holding
  BY DEF Free, Holding
<1>2. \A s \in Request : ~Completing(s)'
  BY <1>1 DEF Completing, Holding
<1>3. TypeOK'
  BY DEF Inv, TypeOK, Terminal
<1>4. OneHolder' /\ HoldersKnow'
  BY <1>1 DEF Inv, OneHolder, HoldersKnow
<1>5. Ledger' /\ Overlong' /\ RemovedAfter'
  BY DEF Inv, Ledger, Overlong, RemovedAfter, Terminal
<1>6. PutIsWhole'
  BY <1>2 DEF PutIsWhole
<1>7. Ended'
  BY DEF Inv, Ended, OneFile
<1>8. QED BY <1>3, <1>4, <1>5, <1>6, <1>7 DEF Inv

LEMMA DeleteHolds ==
  ASSUME Inv, NEW r \in Request, Delete(r)
  PROVE  Inv'
<1>1. CASE status = "in_progress"
  <2>1. /\ status' = "aborted" /\ Goto(r, "clean") /\ req[r].pc = "delete" /\ Free
        /\ UNCHANGED <<offset, files, due, staged, staging, blob, worker>>
    BY <1>1 DEF Delete, At, disk
  <2>2. req[r] \in [pc: {"delete", "clean"}]
    <3>1. req[r] \in {Idle} \cup Patch \cup [pc: {"delete", "clean"}] \cup Adrift
      BY DEF Inv, TypeOK, RequestState
    <3>2. req[r] \notin Patch
      BY <2>1 DEF Patch, Holding
    <3>3. req[r] \notin Adrift /\ req[r] # Idle
      BY <2>1 DEF Adrift, Idle
    <3>4. QED BY <3>1, <3>2, <3>3
  <2>3. [req[r] EXCEPT !.pc = "clean"] \in [pc: {"delete", "clean"}]
    BY <2>2
  <2>4. /\ req' \in [Request -> RequestState]
        /\ \A s \in Request : req'[s] = req[s] \/ req'[s].pc = "clean"
    BY <2>1, <2>2, <2>3 DEF Goto, Inv, TypeOK, RequestState
  <2>5. QED BY <1>1, <2>1, <2>4, EndingHolds DEF Inv, TypeOK
<1>2. CASE status # "in_progress"
  <2>1. Become(r, Idle) /\ Idle \in RequestState /\ Idle.pc = "idle"
    BY <1>2 DEF Delete, RequestState, Idle
  <2>2. UNCHANGED <<row, due, disk, blob, worker>>
    BY <1>2 DEF Delete, row, disk, Inv, TypeOK
  <2>3. QED BY <2>1, <2>2, Quiet
<1>3. QED BY <1>1, <1>2

LEMMA SweepHolds ==
  ASSUME Inv, Sweep
  PROVE  Inv'
<1>1. /\ Free /\ status = "in_progress" /\ status' = "expired" /\ worker' = "swept"
      /\ UNCHANGED <<offset, files, due, staged, staging, blob>> /\ req' = req
  BY DEF Sweep, disk
<1>2. req' \in [Request -> RequestState]
  BY <1>1 DEF Inv, TypeOK
<1>3. QED BY <1>1, <1>2, EndingHolds

(* Once the upload has ended its staging file may go, or shrink, or grow.  *)
LEMMA AfterTheEnd ==
  ASSUME Inv, status \in Terminal,
         UNCHANGED <<status, offset, files, due, blob>>,
         staged' \in BOOLEAN, staging' \in Seq(Nat), ~staged' => staging' = <<>>,
         req' \in [Request -> RequestState], worker' \in {"idle", "swept"},
         \A s \in Request : req'[s] = req[s] \/ req'[s] = Idle
  PROVE  Inv'
<1>1. \A s \in Request : req[s].pc \notin Holding
  BY DEF Inv, HoldersKnow, HolderOf, Terminal
<1>2. \A s \in Request : req'[s].pc \notin Holding
  BY <1>1 DEF Idle, Holding
<1>3. \A s \in Request : ~Completing(s)'
  BY <1>2 DEF Completing, Holding
<1>4. TypeOK'
  BY DEF Inv, TypeOK
<1>5. OneHolder' /\ HoldersKnow'
  BY <1>2 DEF Inv, OneHolder, HoldersKnow, Idle
<1>6. Ledger' /\ Overlong' /\ RemovedAfter'
  BY DEF Inv, Ledger, Overlong, RemovedAfter, Terminal, Idle
<1>7. PutIsWhole'
  BY <1>3 DEF PutIsWhole
<1>8. Ended'
  BY DEF Inv, Ended, OneFile
<1>9. QED BY <1>4, <1>5, <1>6, <1>7, <1>8 DEF Inv

LEMMA CleanHolds ==
  ASSUME Inv, NEW r \in Request, Clean(r)
  PROVE  Inv'
<1>1. /\ status \in Terminal /\ staged' = FALSE /\ staging' = <<>> /\ staging' \in Seq(Nat)
      /\ UNCHANGED <<status, offset, files, due, blob, worker>>
  BY DEF Clean, At, RemoveStaging, row, Inv, RemovedAfter
<1>2. /\ req' \in [Request -> RequestState] /\ worker' \in {"idle", "swept"}
      /\ \A s \in Request : req'[s] = req[s] \/ req'[s] = Idle
  BY <1>1 DEF Clean, Become, Inv, TypeOK, RequestState
<1>3. staged' \in BOOLEAN /\ (~staged' => staging' = <<>>)
  BY <1>1
<1>4. QED BY <1>1, <1>2, <1>3, AfterTheEnd

LEMMA SweepFileHolds ==
  ASSUME Inv, SweepFile \/ SweepFileFails
  PROVE  Inv'
<1>1. /\ status \in Terminal /\ req' = req /\ worker' = "idle"
      /\ UNCHANGED <<status, offset, files, due, blob>>
  BY DEF SweepFile, SweepFileFails, row, Inv, RemovedAfter
<1>2. staged' \in BOOLEAN /\ staging' \in Seq(Nat) /\ (~staged' => staging' = <<>>)
  <2>1. CASE SweepFile
    <3>1. staged' = FALSE /\ staging' = <<>>
      BY <2>1 DEF SweepFile, RemoveStaging
    <3>2. <<>> \in Seq(Nat)
      OBVIOUS
    <3>3. QED BY <3>1, <3>2, Zenon
  <2>2. CASE SweepFileFails
    <3>1. staged' = staged /\ staging' = staging
      BY <2>2 DEF SweepFileFails, disk
    <3>2. QED BY <3>1, Zenon DEF Inv, TypeOK
  <2>3. QED BY <2>1, <2>2, Zenon
<1>3. req' \in [Request -> RequestState] /\ \A s \in Request : req'[s] = req[s]
  BY <1>1 DEF Inv, TypeOK
<1>4. QED BY <1>1, <1>2, <1>3, AfterTheEnd

(* A dropped PATCH gives the row back; what it left behind can only make   *)
(* the staging file too long.                                              *)
LEMMA CancelHolds ==
  ASSUME Inv, NEW r \in Request, Cancel(r)
  PROVE  Inv'
<1>1. PICK q \in LeftBehind(req[r]) : Become(r, q)
  BY DEF Cancel
<1>2. UNCHANGED <<row, due, disk, blob, worker>>
  BY DEF Cancel, Inv, TypeOK
<1>3. CASE req[r].pc = "put"
  <2>1. req[r].pc \in Holding /\ HolderOf(r) /\ status = "in_progress" /\ staging \in Seq(Nat)
    BY <1>3 DEF Holding, Inv, HoldersKnow, HolderOf, TypeOK
  <2>2. q = Idle \/ q = [pc |-> "adrift_put", late |-> staging]
    BY <1>1, <1>3 DEF LeftBehind
  <2>3. q \in RequestState /\ q.pc \in {"idle", "adrift_put"}
    BY <2>1, <2>2 DEF RequestState, Idle, Adrift
  <2>4. /\ req' \in [Request -> RequestState] /\ req'[r] = q
        /\ \A s \in Request : s # r => req'[s] = req[s]
    BY <1>1, <2>3 DEF Become, Inv, TypeOK
  <2>5. \A s \in Request : req'[s].pc \notin Holding
    BY <2>1, <2>3, <2>4 DEF Inv, OneHolder, Holding
  <2>6. \A s \in Request : ~Completing(s)'
    BY <2>5 DEF Completing, Holding
  <2>7. offset < Len(staging)
    <3>1. offset + req[r].done <= Len(staging) /\ offset + req[r].done = Length /\ offset < Length
      BY <1>3, <2>1 DEF Inv, Ledger, Accounted, HolderOf
    <3>2. QED BY <2>1, <3>1, UploadAssumption DEF Inv, TypeOK
  <2>8. TypeOK'
    BY <1>2, <2>4 DEF Inv, TypeOK, row, disk
  <2>9. OneHolder' /\ HoldersKnow'
    BY <2>3, <2>4, <2>5 DEF Inv, OneHolder, HoldersKnow
  <2>10. Ledger'
    BY <1>2, <2>5 DEF Inv, Ledger, Accounted, row, disk
  <2>11. Overlong'
    BY <1>2, <2>1, <2>5, <2>7 DEF Overlong, row, disk
  <2>12. PutIsWhole'
    BY <2>6 DEF PutIsWhole
  <2>13. RemovedAfter' /\ Ended'
    BY <1>2, <2>3, <2>4 DEF Inv, RemovedAfter, Ended, OneFile, row
  <2>14. QED BY <2>8, <2>9, <2>10, <2>11, <2>12, <2>13 DEF Inv
<1>4. CASE req[r].pc # "put"
  <2>1. q \in RequestState /\ q.pc \in {"idle", "adrift"}
    <3>1. CASE req[r].pc = "open"
      <4>0. <<>> \in Seq(Nat)
        OBVIOUS
      <4>1. PICK w \in Seq(Nat) : w = <<>>
        BY <4>0, Zenon
      <4>2. q = Idle \/ q = [pc |-> "adrift", late |-> w]
        BY <1>1, <3>1, <4>1 DEF LeftBehind
      <4>3. QED BY <4>2 DEF RequestState, Idle, Adrift
    <3>2. CASE req[r].pc = "write" /\ req[r].done < req[r].n
      <4> DEFINE w == Bytes(req[r].from + req[r].done, req[r].n - req[r].done)
      <4>1. req[r] \in Patch
        BY <3>2, PatchTyped DEF Inv, Holding
      <4>2. req[r].from + req[r].done \in Nat /\ req[r].n - req[r].done \in Nat
        BY <3>2, <4>1 DEF Patch
      <4>3. w \in Seq(Nat)
        BY <4>2, BytesAre
      <4>4. q = Idle \/ q = [pc |-> "adrift", late |-> w]
        BY <1>1, <3>2 DEF LeftBehind
      <4> HIDE DEF w
      <4>5. QED BY <4>3, <4>4 DEF RequestState, Idle, Adrift
    <3>3. CASE req[r].pc # "open" /\ ~(req[r].pc = "write" /\ req[r].done < req[r].n)
      BY <1>1, <1>4, <3>3 DEF LeftBehind, RequestState, Idle
    <3>4. QED BY <3>1, <3>2, <3>3
  <2>2. QED BY <1>1, <1>2, <2>1, Quiet
<1>5. QED BY <1>3, <1>4

(* What lands late lands behind the bytes that are accounted for.          *)
LEMMA LandHolds ==
  ASSUME Inv, NEW r \in Request, Land(r)
  PROVE  Inv'
<1>1. req[r].pc = "adrift" /\ req[r].late \in Seq(Nat)
  <2>1. req[r] \in {Idle} \cup Patch \cup [pc: {"delete", "clean"}] \cup Adrift
    BY DEF Inv, TypeOK, RequestState
  <2>2. req[r] \notin Patch \cup [pc: {"delete", "clean"}] /\ req[r] # Idle
    BY DEF Land, At, Patch, Holding, Idle
  <2>3. QED BY <2>1, <2>2 DEF Land, At, Adrift
<1>2. /\ UNCHANGED <<status, offset, files, due, blob, worker>>
      /\ staged => staged'
  BY DEF Land, row
<1>3. /\ req' \in [Request -> RequestState] /\ req'[r] = Idle /\ Idle.pc = "idle"
      /\ \A s \in Request : s # r => req'[s] = req[s]
  BY DEF Land, Become, Inv, TypeOK, RequestState, Idle
<1>4. PICK w \in Seq(Nat) : staging' = staging \o w /\ (~staged => w = <<>>)
  <2>1. CASE staged
    BY <1>1, <2>1 DEF Land, AppendToStaging
  <2>2. CASE ~staged
    <3>1. staging' = staging \o <<>> /\ <<>> \in Seq(Nat)
      BY <2>2 DEF Land, AppendToStaging, Inv, TypeOK
    <3>2. QED BY <3>1
  <2>3. QED BY <2>1, <2>2
<1>5. staging' \in Seq(Nat) /\ Len(staging) \in Nat /\ Len(staging') \in Nat
      /\ Len(staging) <= Len(staging')
  BY <1>4 DEF Inv, TypeOK
<1>6. ASSUME NEW n \in Nat, Accounted(n) PROVE Accounted(n)'
  BY <1>4, <1>6, AccountStands DEF Inv, TypeOK
<1>7. TypeOK'
  <2>1. staged' \in BOOLEAN
    BY DEF Land
  <2>2. ~staged' => staging' = <<>>
    BY DEF Land, AppendToStaging, Inv, TypeOK
  <2>3. QED BY <1>2, <1>3, <1>5, <2>1, <2>2 DEF Inv, TypeOK
<1>8. OneHolder'
  BY <1>1, <1>3 DEF Inv, OneHolder, Holding
<1>9. HoldersKnow'
  BY <1>1, <1>2, <1>3 DEF Inv, HoldersKnow, HolderOf, Holding
<1>10. Ledger'
  <2> SUFFICES ASSUME status' = "in_progress" PROVE Ledger'
    BY DEF Ledger
  <2>1. status = "in_progress" /\ offset \in Nat /\ offset' < Length
    BY <1>2, UploadAssumption DEF Inv, TypeOK, Ledger
  <2>2. Accounted(offset)'
    <3>1. PICK n \in Nat : n = offset
      BY <2>1
    <3>2. Accounted(n)
      BY <2>1, <3>1 DEF Inv, Ledger
    <3>3. Accounted(n)'
      BY <1>6, <3>2
    <3>4. QED BY <1>2, <3>1, <3>3
  <2>3. ASSUME NEW s \in Request, req'[s].pc \in Holding
        PROVE  Accounted(offset + req[s].done)'
    <3>1. req'[s] = req[s] /\ req[s].pc \in Holding
      BY <1>3, <2>3 DEF Holding
    <3>2. req[s].done \in Nat
      BY <3>1, PatchTyped DEF Inv, Patch
    <3>3. PICK n \in Nat : n = offset + req[s].done
      BY <2>1, <3>2
    <3>4. Accounted(n)
      BY <2>1, <3>1, <3>3 DEF Inv, Ledger
    <3>5. Accounted(n)'
      BY <1>6, <3>4
    <3>6. QED BY <1>2, <3>1, <3>3, <3>5
  <2>4. QED BY <2>1, <2>2, <2>3 DEF Ledger
<1>11. Overlong'
  <2> SUFFICES ASSUME NEW s \in Request, req'[s].pc = "adrift_put"
               PROVE  /\ status # "completed"
                      /\ status = "in_progress" =>
                           /\ offset < Len(staging')
                           /\ \A h \in Request :
                                req'[h].pc \in Holding => offset + req'[h].done < Len(staging')
    BY <1>2 DEF Overlong
  <2>1. req[s].pc = "adrift_put"
    BY <1>3
  <2>2. ASSUME NEW h \in Request, req'[h].pc \in Holding
        PROVE  req'[h] = req[h] /\ req[h].pc \in Holding /\ req[h].done \in Nat
    <3>1. req'[h] = req[h] /\ req[h].pc \in Holding
      BY <1>3, <2>2 DEF Holding
    <3>2. QED BY <3>1, PatchTyped DEF Inv, Patch
  <2>3. offset \in Nat
    BY UploadAssumption DEF Inv, TypeOK
  <2>4. ASSUME status = "in_progress", NEW h \in Request, req'[h].pc \in Holding
        PROVE  offset + req'[h].done < Len(staging')
    <3>1. PICK n \in Nat : n = offset + req[h].done
      BY <2>2, <2>3, <2>4
    <3>2. n < Len(staging)
      BY <2>1, <2>2, <2>4, <3>1 DEF Inv, Overlong
    <3>3. QED BY <1>5, <2>2, <2>4, <3>1, <3>2
  <2>5. status # "completed" /\ (status = "in_progress" => offset < Len(staging'))
    BY <1>5, <2>1, <2>3 DEF Inv, Overlong
  <2>6. QED BY <2>4, <2>5
<1>12. PutIsWhole'
  BY <1>1, <1>2, <1>3 DEF Inv, PutIsWhole, Completing
<1>13. RemovedAfter' /\ Ended'
  BY <1>2, <1>3 DEF Inv, RemovedAfter, Ended, OneFile
<1>14. QED BY <1>7, <1>8, <1>9, <1>10, <1>11, <1>12, <1>13 DEF Inv

(* A late put writes an object that no file row names, and will not.       *)
LEMMA LandPutHolds ==
  ASSUME Inv, NEW r \in Request, LandPut(r)
  PROVE  Inv'
<1>1. req[r].pc = "adrift_put" /\ status # "completed"
  BY DEF LandPut, At, Inv, Overlong
<1>2. req[r].late \in Seq(Nat)
  <2>1. req[r] \in {Idle} \cup Patch \cup [pc: {"delete", "clean"}] \cup Adrift
    BY DEF Inv, TypeOK, RequestState
  <2>2. req[r] \notin Patch \cup [pc: {"delete", "clean"}] /\ req[r] # Idle
    BY <1>1 DEF Patch, Holding, Idle
  <2>3. QED BY <2>1, <2>2 DEF Adrift
<1>3. /\ UNCHANGED <<status, offset, files, due, staged, staging, worker>>
      /\ blob' \in Seq(Nat)
  BY <1>2 DEF LandPut, row, disk
<1>4. /\ req' \in [Request -> RequestState] /\ req'[r] = Idle /\ Idle.pc = "idle"
      /\ \A s \in Request : s # r => req'[s] = req[s]
  BY DEF LandPut, Become, Inv, TypeOK, RequestState, Idle
<1>5. \A s \in Request : ~Completing(s)'
  BY <1>1, <1>3, <1>4 DEF Inv, PutIsWhole, Completing
<1> USE <1>1, <1>3, <1>4
<1>6. TypeOK'
  BY DEF Inv, TypeOK
<1>7. OneHolder' /\ HoldersKnow'
  BY DEF Inv, OneHolder, HoldersKnow, HolderOf, Holding
<1>8. Ledger' /\ Overlong'
  BY DEF Inv, Ledger, Accounted, Overlong, Holding
<1>9. PutIsWhole'
  BY <1>5 DEF PutIsWhole
<1>10. RemovedAfter' /\ Ended'
  BY DEF Inv, RemovedAfter, Ended, OneFile
<1>11. QED BY <1>6, <1>7, <1>8, <1>9, <1>10 DEF Inv

LEMMA CrashHolds ==
  ASSUME Inv, Crash
  PROVE  Inv'
<1>1. UNCHANGED <<status, offset, files, due, staged, staging, blob>>
  BY DEF Crash, row, disk
<1>2. /\ req' \in [Request -> RequestState] /\ worker' = "idle"
      /\ \A s \in Request : req'[s].pc = "idle"
  BY DEF Crash, RequestState, Idle
<1>3. TypeOK'
  BY <1>1, <1>2 DEF Inv, TypeOK
<1>4. OneHolder' /\ HoldersKnow' /\ Overlong' /\ PutIsWhole' /\ RemovedAfter'
  BY <1>2 DEF OneHolder, HoldersKnow, Overlong, PutIsWhole, Completing, RemovedAfter, Holding
<1>5. Ledger'
  BY <1>1, <1>2 DEF Inv, Ledger, Accounted, Holding
<1>6. Ended'
  BY <1>1 DEF Inv, Ended, OneFile
<1>7. QED BY <1>3, <1>4, <1>5, <1>6 DEF Inv

(* Steps that leave req alone and touch no store.                          *)
LEMMA ExpireHolds ==
  ASSUME Inv, Expire \/ UNCHANGED vars
  PROVE  Inv'
<1>1. UNCHANGED <<status, offset, files, staged, staging, blob, req, worker>>
  BY DEF Expire, vars, row, disk
<1>2. due' \in BOOLEAN
  BY DEF Expire, vars, Inv, TypeOK
<1>3. TypeOK'
  BY <1>1, <1>2 DEF Inv, TypeOK
<1>4. QED
  BY <1>1, <1>3
  DEF Inv, OneHolder, HoldersKnow, HolderOf, Ledger, Accounted, Overlong, PutIsWhole,
      Completing, RemovedAfter, Ended, OneFile

LEMMA SendHolds ==
  ASSUME Inv, NEW r \in Request,
         \/ \E from \in 0..Length, n \in Nat : Send(r, from, n)
         \/ SendDelete(r)
  PROVE  Inv'
<1>1. PICK q \in RequestState :
        /\ q.pc \in {"lock", "delete"} /\ (q.pc = "lock" => q.done = 0) /\ Become(r, q)
  <2>1. ASSUME NEW from \in 0..Length, NEW n \in Nat, Send(r, from, n)
        PROVE  \E q \in RequestState :
                 /\ q.pc \in {"lock", "delete"} /\ (q.pc = "lock" => q.done = 0) /\ Become(r, q)
    <3>1. [pc |-> "lock", from |-> from, n |-> n, done |-> 0] \in RequestState
      BY UploadAssumption DEF RequestState, Patch
    <3>2. QED BY <2>1, <3>1 DEF Send
  <2>2. CASE SendDelete(r)
    <3>1. [pc |-> "delete"] \in RequestState
      BY DEF RequestState
    <3>2. QED BY <2>2, <3>1 DEF SendDelete
  <2>3. QED BY <2>1, <2>2
<1>2. UNCHANGED <<row, due, disk, blob, worker>>
  BY DEF Send, SendDelete, Inv, TypeOK
<1>3. QED BY <1>1, <1>2, Quiet

LEMMA GiveUpHolds ==
  ASSUME Inv, NEW r \in Request,
         PutFails(r) \/ CommitFails(r) \/ DiskFails(r) \/ CleanFails(r)
  PROVE  Inv'
<1>1. Become(r, Idle) /\ UNCHANGED <<row, due, disk, blob, worker>>
  BY DEF PutFails, CommitFails, DiskFails, CleanFails, Inv, TypeOK
<1>2. Idle \in RequestState /\ Idle.pc = "idle"
  BY DEF RequestState, Idle
<1>3. QED BY <1>1, <1>2, Quiet

LEMMA CommitHolds ==
  ASSUME Inv, NEW r \in Request, Commit(r) \/ CommitUnheard(r)
  PROVE  Inv'
<1>1. At(r, "commit") /\ Committed(r)
  BY DEF Commit, CommitUnheard
<1>2. Idle \in RequestState /\ Idle.pc = "idle" /\ [pc |-> "clean"] \in RequestState
  BY DEF RequestState, Idle
<1>3. PICK q \in RequestState :
        q.pc \in {"idle", "clean"} /\ Become(r, q) /\ (q.pc = "clean" => offset' = Length)
  BY <1>2 DEF Commit, CommitUnheard
<1>4. QED BY <1>1, <1>3, CommittedHolds

LEMMA StepHolds == Inv /\ [Next]_vars => Inv'
<1> SUFFICES ASSUME Inv, [Next]_vars PROVE Inv'
  OBVIOUS
<1>1. ASSUME NEW r \in Request, NEW from \in 0..Length, NEW n \in 0..Length - from + 1,
             Send(r, from, n)
      PROVE  Inv'
  BY <1>1, SendHolds, UploadAssumption
<1>2. ASSUME NEW r \in Request, SendDelete(r) PROVE Inv'
  BY <1>2, SendHolds
<1>3. ASSUME NEW r \in Request, Handle(r) PROVE Inv'
  BY <1>3, LockHolds, OpenHolds, WriteHolds, AdvanceHolds, StatHolds, PutHolds, CommitHolds,
     DeleteHolds, CleanHolds, LandHolds, LandPutHolds
  DEF Handle
<1>4. ASSUME NEW r \in Request, Upset(r) PROVE Inv'
  BY <1>4, GiveUpHolds, CommitHolds, CancelHolds DEF Upset
<1>5. CASE Expire \/ UNCHANGED vars
  BY <1>5, ExpireHolds
<1>6. CASE Sweep \/ SweepFile \/ SweepFileFails
  BY <1>6, SweepHolds, SweepFileHolds
<1>7. CASE Crash
  BY <1>7, CrashHolds
<1>8. QED BY <1>1, <1>2, <1>3, <1>4, <1>5, <1>6, <1>7 DEF Next

LEMMA Always == Spec => []Inv
BY InitHolds, StepHolds, PTL DEF Spec

-------------------------------------------------------------------------------
(* Type correctness: the committed offset never passes the length.         *)
THEOREM TypeCorrect == Spec => []TypeOK
BY Always, PTL DEF Inv

(* A row of files names an object that is the client's file, for every     *)
(* length, any number of requests and everything that may go wrong.        *)
THEOREM Integrity == Spec => []FileIsWhole
<1>1. Inv => FileIsWhole
  BY DEF Inv, Ended, OneFile, FileIsWhole
<1>2. QED BY <1>1, Always, PTL

(* One file when the upload completed, none in any other state.            *)
THEOREM CompletesOnce == Spec => []OneFile
<1>1. Inv => OneFile
  BY DEF Inv, Ended
<1>2. QED BY <1>1, Always, PTL

(* The acknowledged bytes are in the staging file.                         *)
THEOREM NothingAcknowledgedIsLost == Spec => []AcknowledgedIsStaged
<1>1. Inv => AcknowledgedIsStaged
  BY DEF Inv, Ledger, Accounted, AcknowledgedIsStaged
<1>2. QED BY <1>1, Always, PTL

(* An upload ends once and its offset never goes back.                     *)
THEOREM EndIsFinal == Spec => EndsOnce
<1>1. Inv /\ [Next]_vars => [/\ status \in Terminal => status' = status
                             /\ offset <= offset']_<<status, offset>>
  <2> SUFFICES ASSUME Inv, Next
               PROVE  (status \in Terminal => status' = status) /\ offset <= offset'
    BY DEF vars
  <2>1. offset \in Nat
    BY UploadAssumption DEF Inv, TypeOK
  <2>2. ASSUME NEW r \in Request, Commit(r) \/ CommitUnheard(r)
        PROVE  (status \in Terminal => status' = status) /\ offset <= offset'
    <3>1. req[r].pc = "commit" /\ req[r].pc \in Holding /\ offset' = req[r].from + req[r].n
      BY <2>2 DEF Commit, CommitUnheard, Committed, At, Holding
    <3>2. HolderOf(r) /\ req[r].n \in Nat
      BY <3>1, PatchTyped DEF Inv, HoldersKnow, Patch
    <3>3. status = "in_progress" /\ offset' = offset + req[r].n
      BY <3>1, <3>2 DEF HolderOf
    <3>4. status \notin Terminal
      BY <3>3 DEF Terminal
    <3>5. QED BY <2>1, <3>2, <3>3, <3>4
  <2>3. ASSUME NEW r \in Request, Delete(r)
        PROVE  (status \in Terminal => status' = status) /\ offset <= offset'
    BY <2>1, <2>3 DEF Delete, Terminal
  <2>4. CASE Sweep
    BY <2>1, <2>4 DEF Sweep, Terminal
  <2>5. ASSUME UNCHANGED <<status, offset>>
        PROVE  (status \in Terminal => status' = status) /\ offset <= offset'
    BY <2>1, <2>5
  <2>6. ASSUME NEW r \in Request, Handle(r), ~Commit(r), ~Delete(r)
        PROVE  UNCHANGED <<status, offset>>
    BY <2>6 DEF Handle, Lock, Open, Write, Advance, Stat, Put, Clean, Land, LandPut, row
  <2>7. ASSUME NEW r \in Request, Upset(r), ~CommitUnheard(r)
        PROVE  UNCHANGED <<status, offset>>
    BY <2>7 DEF Upset, PutFails, CommitFails, DiskFails, CleanFails, Cancel, row
  <2>8. ASSUME NEW r \in Request, NEW from, NEW n, Send(r, from, n) \/ SendDelete(r)
        PROVE  UNCHANGED <<status, offset>>
    BY <2>8 DEF Send, SendDelete, row
  <2>9. ASSUME Expire \/ SweepFile \/ SweepFileFails \/ Crash
        PROVE  UNCHANGED <<status, offset>>
    BY <2>9 DEF Expire, SweepFile, SweepFileFails, Crash, row
  <2>10. QED
    BY <2>2, <2>3, <2>4, <2>5, <2>6, <2>7, <2>8, <2>9 DEF Next
<1>2. QED BY <1>1, Always, PTL DEF Spec, EndsOnce

-------------------------------------------------------------------------------
(* The files made of an upload: none, or the client's, once it completed.  *)
LEMMA MadeIs ==
  ASSUME TypeOK, Ended
  PROVE  Made = IF status = "completed" THEN <<Whole>> ELSE <<>>
<1>1. CASE status = "completed"
  <2>1. files = 1 /\ blob = Whole
    BY <1>1 DEF Ended, OneFile
  <2>2. Made = [i \in 1..1 |-> Whole]
    BY <2>1 DEF Made
  <2>3. QED
    BY <1>1, <2>2
<1>2. CASE status # "completed"
  <2>1. files = 0
    BY <1>2 DEF Ended, OneFile
  <2>2. Made = [i \in 1..0 |-> blob]
    BY <2>1 DEF Made
  <2>3. QED
    BY <1>2, <2>2
<1>3. QED
  BY <1>1, <1>2

(* The client's file is as long as it said.                                *)
LEMMA WholeLength == Whole \in Seq(Nat) /\ Len(Whole) = Length /\ Length \in Nat \ {0}
BY BytesAre, UploadAssumption DEF Whole

(* Nothing is acknowledged and nothing made at first.                      *)
LEMMA InitMaps == Init => C!ContractInit
<1> SUFFICES ASSUME Init PROVE C!ContractInit
  OBVIOUS
<1>1. Made = <<>>
  BY DEF Init, Made
<1>2. QED
  BY <1>1 DEF Init, C!ContractInit

(* The same after the step.                                                *)
LEMMA MadeNext ==
  ASSUME Inv'
  PROVE  Made' = IF status' = "completed" THEN <<Whole>> ELSE <<>>
<1>1. TypeOK' /\ Ended'
  BY DEF Inv
<1>2. (TypeOK /\ Ended => Made = IF status = "completed" THEN <<Whole>> ELSE <<>>)'
  BY MadeIs, PTL
<1>3. Whole' = Whole
  BY DEF Whole, Bytes
<1>4. QED
  BY <1>1, <1>2, <1>3

(* A step that leaves the row alone and the time: the contract sees none,  *)
(* whatever it did to the staging file and to the store.                   *)
LEMMA Unseen ==
  ASSUME Inv, Inv', UNCHANGED <<status, offset, due>>
  PROVE  UNCHANGED C!contractVars
<1>1. Made = IF status = "completed" THEN <<Whole>> ELSE <<>>
  BY MadeIs DEF Inv
<1>2. Made' = Made
  BY <1>1, MadeNext
<1>3. QED
  BY <1>2 DEF C!contractVars

(* A commit, heard of or not, is the acknowledgement of its bytes; the one *)
(* of the last bytes makes the file.                                       *)
LEMMA CommitMaps ==
  ASSUME Inv, Inv', NEW r \in Request, Commit(r) \/ CommitUnheard(r)
  PROVE  C!ContractNext
<1>1. /\ req[r].pc = "commit" /\ req[r].pc \in Holding
      /\ offset' = req[r].from + req[r].n /\ due' = due
      /\ IF offset' = Length THEN status' = "completed" ELSE status' = status
  BY DEF Commit, CommitUnheard, Committed, At, Holding
<1>2. HolderOf(r) /\ req[r].n \in Nat /\ offset \in Nat
  BY <1>1, PatchTyped, UploadAssumption DEF Inv, HoldersKnow, Patch, TypeOK
<1>3. PICK n \in Nat : n = req[r].n
  BY <1>2
<1>4. /\ status = "in_progress" /\ offset' = offset + n /\ offset + n <= Length
      /\ n \in 0..Length
  BY <1>1, <1>2, <1>3, UploadAssumption DEF HolderOf
<1>5. Made = <<>>
  BY <1>4, MadeIs DEF Inv
<1>6. Made' = IF status' = "completed" THEN <<Whole>> ELSE <<>>
  BY MadeNext
<1>7. C!Accept(n)
  BY <1>1, <1>4, <1>5, <1>6, WholeLength DEF C!Accept
<1>8. QED
  BY <1>4, <1>7, WholeLength DEF C!ContractNext

(* A DELETE that finds the upload under way, and the sweep, end it.        *)
LEMMA EndMaps ==
  ASSUME Inv, Inv', Sweep \/ \E r \in Request : Delete(r)
  PROVE  C!ContractNext \/ UNCHANGED C!contractVars
<1>1. CASE UNCHANGED <<status, offset, due>>
  BY <1>1, Unseen
<1>2. CASE /\ status = "in_progress" /\ UNCHANGED <<offset, due>>
           /\ status' = "aborted" \/ (due /\ status' = "expired")
  <2>1. Made = <<>> /\ Made' = <<>>
    BY <1>2, MadeIs, MadeNext DEF Inv
  <2>2. C!Abort \/ C!Lapse
    BY <1>2, <2>1 DEF C!Abort, C!Lapse
  <2>3. QED
    BY <2>2 DEF C!ContractNext
<1>3. QED
  BY <1>1, <1>2 DEF Sweep, Delete

(* The time runs out.                                                      *)
LEMMA ExpireMaps ==
  ASSUME Inv, Inv', Expire
  PROVE  C!ContractNext
<1>1. ~due /\ due' = TRUE /\ UNCHANGED <<status, offset>>
  BY DEF Expire, row
<1>2. Made' = Made
  BY <1>1, MadeIs, MadeNext DEF Inv
<1>3. C!TimeIsOver
  BY <1>1, <1>2 DEF C!TimeIsOver
<1>4. QED
  BY <1>3 DEF C!ContractNext

(* Every step of the three stores is one of the contract, or none.         *)
LEMMA StepMaps ==
  ASSUME Inv, Inv', [Next]_vars
  PROVE  C!ContractNext \/ UNCHANGED C!contractVars
<1>1. ASSUME NEW r \in Request, Commit(r) \/ CommitUnheard(r)
      PROVE  C!ContractNext
  BY <1>1, CommitMaps
<1>2. CASE Sweep \/ \E r \in Request : Delete(r)
  BY <1>2, EndMaps
<1>3. CASE Expire
  BY <1>3, ExpireMaps
<1>4. ASSUME NEW r \in Request, Handle(r), ~Commit(r), ~Delete(r)
      PROVE  UNCHANGED <<status, offset, due>>
  BY <1>4 DEF Handle, Lock, Open, Write, Advance, Stat, Put, Clean, Land, LandPut, row
<1>5. ASSUME NEW r \in Request, Upset(r), ~CommitUnheard(r)
      PROVE  UNCHANGED <<status, offset, due>>
  BY <1>5 DEF Upset, PutFails, CommitFails, DiskFails, CleanFails, Cancel, row
<1>6. ASSUME NEW r \in Request, NEW from, NEW n, Send(r, from, n) \/ SendDelete(r)
      PROVE  UNCHANGED <<status, offset, due>>
  BY <1>6 DEF Send, SendDelete, row
<1>7. ASSUME SweepFile \/ SweepFileFails \/ Crash \/ UNCHANGED vars
      PROVE  UNCHANGED <<status, offset, due>>
  BY <1>7 DEF SweepFile, SweepFileFails, Crash, row, vars
<1>8. QED
  BY <1>1, <1>2, <1>3, <1>4, <1>5, <1>6, <1>7, Unseen DEF Next

(* The row, the staging file and the object store together implement the   *)
(* contract of the upload, for every length, any number of requests and    *)
(* everything that may go wrong: one counter that only moves on, one end,  *)
(* and with the last byte one file that is the client's from then on.      *)
THEOREM Refines == Spec => KeepsContract
<1>1. Inv /\ Inv' /\ [Next]_vars => [C!ContractNext]_C!contractVars
  BY StepMaps
<1>2. QED
  BY InitMaps, Always, <1>1, PTL DEF Spec, KeepsContract, C!Contract

==============================================================================
