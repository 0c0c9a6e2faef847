------------------------------ MODULE TusUpload ------------------------------
(***************************************************************************)
(* One resumable upload of the workspace API (garraia-gateway:             *)
(* rest_v1/uploads.rs and uploads_worker.rs).  Three stores that no        *)
(* transaction spans: the row of tus_uploads in Postgres, the staging file *)
(* that each PATCH appends to, and the object store.  A PATCH locks the    *)
(* row, appends before it updates the offset, puts the whole file in the   *)
(* store before it commits, and removes the staging file afterwards.  A    *)
(* handler may be dropped at any await: its transaction rolls back, what   *)
(* it appended stays, and a write already handed to the file system lands  *)
(* later.                                                                  *)
(***************************************************************************)
EXTENDS Integers, Sequences

CONSTANTS Request,     \* requests being handled at the same time
          Length,      \* Upload-Length
          Upsets,      \* what may go wrong: see AllUpsets
          MaxStaged    \* bound on the bytes of the staging file

AllUpsets == {"cancel", "disk", "store", "commit", "remove", "crash"}

ASSUME UploadAssumption ==
  /\ Length \in Nat \ {0} /\ MaxStaged \in Nat
  /\ Upsets \subseteq AllUpsets

VARIABLES
  status,     \* tus_uploads.status, committed
  offset,     \* tus_uploads.upload_offset, committed
  due,        \* expires_at has passed
  staged,     \* the staging file exists
  staging,    \* its bytes, each named by its position in the client's file
  blob,       \* the object under object_key, <<>> when there is none
  files,      \* rows of files for this upload
  req,        \* request -> where its handler is
  worker      \* what the expiration worker is doing

row == <<status, offset, files>>
disk == <<staged, staging>>
vars == <<status, offset, due, staged, staging, blob, files, req, worker>>

Idle == [pc |-> "idle"]

Terminal == {"completed", "aborted", "expired"}

\* The steps of a PATCH that holds FOR UPDATE on the row.
Holding == {"open", "write", "stat", "put", "commit"}

\* A PATCH claims the offset "from" and carries n bytes, of which "done" are
\* appended.
Patch == [pc: {"lock"} \cup Holding, from: Nat, n: Nat, done: Nat]

\* What a dropped handler leaves to the file system: bytes to append (none
\* when it was still opening the file), or a rename in the object store.
Adrift == [pc: {"adrift", "adrift_put"}, late: Seq(Nat)]

RequestState == {Idle} \cup Patch \cup [pc: {"delete", "clean"}] \cup Adrift

Bytes(from, k) == [i \in 1..k |-> from + i - 1]
Whole == Bytes(0, Length)

Init ==
  /\ status = "in_progress"
  /\ offset = 0
  /\ due = FALSE
  /\ staged = FALSE
  /\ staging = <<>>
  /\ blob = <<>>
  /\ files = 0
  /\ req = [r \in Request |-> Idle]
  /\ worker = "idle"

At(r, pc) == req[r].pc = pc
Become(r, q) == req' = [req EXCEPT ![r] = q]
Goto(r, pc) == req' = [req EXCEPT ![r].pc = pc]

Free == \A r \in Request : req[r].pc \notin Holding

-----------------------------------------------------------------------------
(* The client sends the bytes of its file that belong at the offset it     *)
(* claims, or one byte too many.                                           *)
Send(r, from, n) ==
  /\ At(r, "idle")
  /\ Len(staging) + n <= MaxStaged
  /\ Become(r, [pc |-> "lock", from |-> from, n |-> n, done |-> 0])
  /\ UNCHANGED <<row, due, disk, blob, worker>>

SendDelete(r) ==
  /\ At(r, "idle")
  /\ Become(r, [pc |-> "delete"])
  /\ UNCHANGED <<row, due, disk, blob, worker>>

\* A slip to check against: the offset the client claims is not compared.
FitsAnywhere(q) == status = "in_progress" /\ offset + q.n <= Length

\* The row says yes to this PATCH; else 410, 409 or 413.
Fits(q) == status = "in_progress" /\ q.from = offset /\ offset + q.n <= Length

Lock(r) ==
  /\ At(r, "lock")
  /\ Free
  /\ IF Fits(req[r]) THEN Goto(r, "open") ELSE Become(r, Idle)
  /\ UNCHANGED <<row, due, disk, blob, worker>>

\* A slip to check against: the file is opened to be written from its start.
OpenTruncating(r) ==
  /\ At(r, "open")
  /\ staged' = TRUE
  /\ staging' = <<>>
  /\ Goto(r, "write")
  /\ UNCHANGED <<row, due, blob, worker>>

Open(r) ==
  /\ At(r, "open")
  /\ staged' = TRUE
  /\ UNCHANGED staging
  /\ Goto(r, "write")
  /\ UNCHANGED <<row, due, blob, worker>>

AppendToStaging(bytes) ==
  staging' = IF staged THEN staging \o bytes ELSE staging

(* write_all in pieces; O_APPEND puts each at the end of the file that was *)
(* opened, which nobody sees any more if it has been removed.              *)
Write(r, k) ==
  /\ At(r, "write")
  /\ k <= req[r].n - req[r].done
  /\ AppendToStaging(Bytes(req[r].from + req[r].done, k))
  /\ UNCHANGED staged
  /\ req' = [req EXCEPT ![r].done = @ + k]
  /\ UNCHANGED <<row, due, blob, worker>>

(* The flush, and the UPDATE of the offset inside the transaction.  Its    *)
(* guards hold by the row lock, so the 409 that follows them is never met. *)
Advance(r) ==
  /\ At(r, "write")
  /\ req[r].done = req[r].n
  /\ Goto(r, IF req[r].from + req[r].n = Length THEN "stat" ELSE "commit")
  /\ UNCHANGED <<row, due, disk, blob, worker>>

Stat(r) ==
  /\ At(r, "stat")
  /\ IF Len(staging) = Length
     THEN Goto(r, "put")
     ELSE Become(r, Idle)
  /\ UNCHANGED <<row, due, disk, blob, worker>>

(* put_stream reads the file as it is now and renames over the old object; *)
(* only then is the size of what it read compared.                         *)
Put(r) ==
  /\ At(r, "put")
  /\ blob' = staging
  /\ IF Len(staging) = Length
     THEN Goto(r, "commit")
     ELSE Become(r, Idle)
  /\ UNCHANGED <<row, due, disk, worker>>

PutFails(r) ==
  /\ "store" \in Upsets
  /\ At(r, "put")
  /\ Become(r, Idle)
  /\ UNCHANGED <<row, due, disk, blob, worker>>

(* What the transaction of r leaves in the row once it commits.            *)
Committed(r) ==
  /\ offset' = req[r].from + req[r].n
  /\ IF offset' = Length
     THEN status' = "completed" /\ files' = files + 1
     ELSE UNCHANGED <<status, files>>
  /\ UNCHANGED <<due, disk, blob, worker>>

Commit(r) ==
  /\ At(r, "commit")
  /\ Committed(r)
  /\ Become(r, IF offset' = Length THEN [pc |-> "clean"] ELSE Idle)

(* The COMMIT reached the database and its answer did not come back.       *)
CommitUnheard(r) ==
  /\ Upsets \cap {"commit", "cancel"} # {}
  /\ At(r, "commit")
  /\ Committed(r)
  /\ Become(r, Idle)

CommitFails(r) ==
  /\ "commit" \in Upsets
  /\ At(r, "commit")
  /\ Become(r, Idle)
  /\ UNCHANGED <<row, due, disk, blob, worker>>

(* An error of the file system, or at the last PATCH a declared type that  *)
(* is not in the allow-list: the transaction is dropped.                   *)
DiskFails(r) ==
  /\ "disk" \in Upsets
  /\ req[r].pc \in {"open", "write", "stat"}
  /\ Become(r, Idle)
  /\ UNCHANGED <<row, due, disk, blob, worker>>

-----------------------------------------------------------------------------
(* DELETE: lock, UPDATE, audit and COMMIT touch nothing but the row.       *)
Delete(r) ==
  /\ At(r, "delete")
  /\ Free
  /\ IF status = "in_progress"
     THEN status' = "aborted" /\ Goto(r, "clean")
     ELSE UNCHANGED status /\ Become(r, Idle)
  /\ UNCHANGED <<offset, files, due, disk, blob, worker>>

RemoveStaging == staged' = FALSE /\ staging' = <<>>

(* After the commit, of a PATCH or of a DELETE, at best.                   *)
Clean(r) ==
  /\ At(r, "clean")
  /\ RemoveStaging
  /\ Become(r, Idle)
  /\ UNCHANGED <<row, due, blob, worker>>

CleanFails(r) ==
  /\ "remove" \in Upsets
  /\ At(r, "clean")
  /\ Become(r, Idle)
  /\ UNCHANGED <<row, due, disk, blob, worker>>

-----------------------------------------------------------------------------
(* The client disconnects and the handler is dropped: the transaction is   *)
(* rolled back, with a call to the file system perhaps under way.          *)
LeftBehind(q) ==
  {Idle} \cup
  CASE q.pc = "open" -> {[pc |-> "adrift", late |-> <<>>]}
    [] q.pc = "write" /\ q.done < q.n ->
         {[pc |-> "adrift", late |-> Bytes(q.from + q.done, q.n - q.done)]}
    [] q.pc = "put" -> {[pc |-> "adrift_put", late |-> staging]}
    [] OTHER -> {}

Cancel(r) ==
  /\ "cancel" \in Upsets
  /\ req[r].pc \notin {"idle", "adrift", "adrift_put"}
  /\ \E q \in LeftBehind(req[r]) : Become(r, q)
  /\ UNCHANGED <<row, due, disk, blob, worker>>

(* The open that was under way creates the file, or the write ends.        *)
Land(r) ==
  /\ At(r, "adrift")
  /\ staged' = (staged \/ req[r].late = <<>>)
  /\ AppendToStaging(req[r].late)
  /\ Become(r, Idle)
  /\ UNCHANGED <<row, due, blob, worker>>

LandPut(r) ==
  /\ At(r, "adrift_put")
  /\ blob' = req[r].late
  /\ Become(r, Idle)
  /\ UNCHANGED <<row, due, disk, worker>>

-----------------------------------------------------------------------------
Expire ==
  /\ ~due
  /\ due' = TRUE
  /\ UNCHANGED <<row, disk, blob, req, worker>>

\* A slip to check against: the sweep takes a row that a PATCH is working on.
SweepLocked ==
  /\ worker = "idle"
  /\ due /\ status = "in_progress"
  /\ status' = "expired"
  /\ worker' = "swept"
  /\ UNCHANGED <<offset, files, due, disk, blob, req>>

(* expire_tus_uploads_sweep: SKIP LOCKED, committed by itself.             *)
Sweep ==
  /\ worker = "idle"
  /\ due /\ status = "in_progress"
  /\ Free
  /\ status' = "expired"
  /\ worker' = "swept"
  /\ UNCHANGED <<offset, files, due, disk, blob, req>>

SweepFile ==
  /\ worker = "swept"
  /\ RemoveStaging
  /\ worker' = "idle"
  /\ UNCHANGED <<row, due, blob, req>>

SweepFileFails ==
  /\ "remove" \in Upsets
  /\ worker = "swept"
  /\ worker' = "idle"
  /\ UNCHANGED <<row, due, disk, blob, req>>

(* The gateway dies and starts again: Postgres rolls back what was open.   *)
Crash ==
  /\ "crash" \in Upsets
  /\ req' = [r \in Request |-> Idle]
  /\ worker' = "idle"
  /\ UNCHANGED <<row, due, disk, blob>>

-----------------------------------------------------------------------------
Handle(r) ==
  \/ Lock(r) \/ Open(r) \/ Advance(r) \/ Stat(r) \/ Put(r) \/ Commit(r)
  \/ \E k \in 1..Length : Write(r, k)
  \/ Delete(r) \/ Clean(r) \/ Land(r) \/ LandPut(r)

Upset(r) ==
  \/ PutFails(r) \/ CommitUnheard(r) \/ CommitFails(r) \/ DiskFails(r)
  \/ CleanFails(r) \/ Cancel(r)

Next ==
  \/ \E r \in Request :
       \/ \E from \in 0..Length : \E n \in 0..Length - from + 1 : Send(r, from, n)
       \/ SendDelete(r)
       \/ Handle(r)
       \/ Upset(r)
  \/ Expire \/ Sweep \/ SweepFile \/ SweepFileFails \/ Crash

Spec == Init /\ [][Next]_vars

-----------------------------------------------------------------------------
(* Every variable keeps its shape, and the committed offset is within the  *)
(* length declared when the upload was created.                            *)
TypeOK ==
  /\ status \in {"in_progress"} \cup Terminal
  /\ offset \in 0..Length
  /\ due \in BOOLEAN /\ staged \in BOOLEAN
  /\ staging \in Seq(Nat) /\ (~staged => staging = <<>>)
  /\ blob \in Seq(Nat)
  /\ files \in Nat
  /\ req \in [Request -> RequestState]
  /\ worker \in {"idle", "swept"}

(* A file of the workspace is the client's file, every byte of it once and *)
(* in its place, whatever was retried, dropped, written late or put over   *)
(* an earlier object (finalize_upload, after append_to_staging).           *)
FileIsWhole == files > 0 => blob = Whole

(* A file row exists exactly when the upload completed, and only one: no   *)
(* retry or race of PATCH, DELETE and the worker makes a second one or     *)
(* leaves one behind an upload that was aborted or expired.                *)
OneFile == files = (IF status = "completed" THEN 1 ELSE 0)

(* What was acknowledged is on disk while the upload can still go on: the  *)
(* offset HEAD answers never runs ahead of the staging file, and a file    *)
(* of exactly that size holds the client's bytes (append_to_staging).      *)
AcknowledgedIsStaged ==
  status = "in_progress" =>
    /\ offset <= Len(staging)
    /\ Len(staging) = offset => staging = Bytes(0, offset)

(* An upload that ended stays as it ended, and the acknowledged offset     *)
(* never goes back.                                                        *)
EndsOnce == [][/\ status \in Terminal => status' = status
               /\ offset <= offset']_<<status, offset>>

-----------------------------------------------------------------------------
(* What a file row of this upload has to show, each: the object under its  *)
(* object_key, as it is now.                                               *)
Made == [i \in 1..files |-> blob]

C == INSTANCE UploadContract
       WITH Contents <- Whole, state <- status, acknowledged <- offset, made <- Made

(* Every behaviour of the three stores is one the contract allows: the     *)
(* client may resume from the last acknowledged byte until the upload ends *)
(* in one way, and the commit of its last PATCH makes one file, which is   *)
(* the client's in that very step and is so for ever (patch_upload,        *)
(* delete_upload, the sweep, and whatever lands after its caller is gone). *)
KeepsContract == C!Contract

==============================================================================
