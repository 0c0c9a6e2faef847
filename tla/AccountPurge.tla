----------------------------- MODULE AccountPurge -----------------------------
(***************************************************************************)
(* Erasing an account (garraia-gateway: account_purge_worker.rs; migration *)
(* 034 of garraia-workspace; delete_me of rest_v1/me.rs).  The subject's   *)
(* DELETE /v1/me files a request; after the grace period a worker of some  *)
(* replica claims it, erases the rows in one transaction that also notes   *)
(* the keys of the blobs, removes the blobs from the object store, which   *)
(* is outside the database, and closes the request.  Any of it may fail or *)
(* die in between; the request is then retried or taken over.              *)
(*                                                                         *)
(* Beside it, other members of the group add versions to the subject's     *)
(* files (post_new_version of rest_v1/files.rs): row lock, put, insert.    *)
(*                                                                         *)
(* The advisory lock belongs to the database session the worker pinned.    *)
(* Instants are kept as what the claim asks of them: the grace is over     *)
(* (due), the claim is too old (stale).                                    *)
(***************************************************************************)
EXTENDS Integers, FiniteSets

CONSTANTS
  Subject,     \* accounts that may ask to be erased
  File,        \* files of theirs
  Owner,       \* file -> subject: files.created_by
  Worker,      \* replicas of the purge worker
  Writer,      \* requests that add a version to a file
  First,       \* names the version a file was created with
  NoOne,       \* nobody holds the lock, no subject, no file
  MaxAttempts, \* max_attempts
  Batch,       \* batch_size
  MaxAborts    \* bound on how often a worker or its session dies

ASSUME PurgeAssumption ==
  /\ Owner \in [File -> Subject]
  /\ First \notin Writer
  /\ NoOne \notin Worker /\ NoOne \notin Subject /\ NoOne \notin File
  /\ MaxAttempts \in Nat /\ MaxAborts \in Nat /\ Batch \in Nat

VARIABLES
  account,   \* users.status
  req,       \* account_deletion_requests, the one row a subject can have
  files,     \* rows of files
  versions,  \* rows of file_versions
  blobs,     \* objects in the store
  lock,      \* whose session holds the advisory lock
  worker,    \* replica -> the locals of its tick
  writer,    \* request -> the locals of post_new_version
  aborts     \* how many deaths there were

vars == <<account, req, files, versions, blobs, lock, worker, writer, aborts>>

Key == [file: File, by: {First} \cup Writer]

KeysOf(u) == {k \in Key : Owner[k.file] = u}

Request == [status: {"none", "pending", "in_progress", "completed", "failed"},
            due: BOOLEAN, stale: BOOLEAN, attempts: Nat, db_purged: BOOLEAN,
            object_keys: SUBSET Key]

NoRequest == [status |-> "none", due |-> FALSE, stale |-> FALSE, attempts |-> 0,
              db_purged |-> FALSE, object_keys |-> {}]

(* A tick: the claimed requests still to do, as the claim returned them,   *)
(* the one being done, the keys it has left, and whether one failed.       *)
Idle == [pc |-> "idle", claimed |-> {}, cur |-> NoOne, keys |-> {},
         failed |-> FALSE, session |-> TRUE]

(* late: the version was committed while a purge of its file's owner had   *)
(* its keys collected and its rows not yet deleted.                        *)
Fresh == [pc |-> "idle", file |-> NoOne, late |-> FALSE]

Init ==
  /\ account = [u \in Subject |-> "active"]
  /\ req = [u \in Subject |-> NoRequest]
  /\ files = File
  /\ versions = [file: File, by: {First}]
  /\ blobs = [file: File, by: {First}]
  /\ lock = NoOne
  /\ worker = [w \in Worker |-> Idle]
  /\ writer = [x \in Writer |-> Fresh]
  /\ aborts = 0

-------------------------------------------------------------------------------
(* DELETE /v1/me: the account is marked and the request filed, in one      *)
(* transaction; a second one is refused by the status.                     *)
DeleteMe(u) ==
  /\ account[u] = "active"
  /\ account' = [account EXCEPT ![u] = "deleted"]
  /\ req' = [req EXCEPT ![u] = [NoRequest EXCEPT !.status = "pending"]]
  /\ UNCHANGED <<files, versions, blobs, lock, worker, writer, aborts>>

(* Time: purge_after passes; a claim grows older than p_stale.             *)
GraceEnds(u) ==
  /\ req[u].status = "pending" /\ ~req[u].due
  /\ req' = [req EXCEPT ![u].due = TRUE]
  /\ UNCHANGED <<account, files, versions, blobs, lock, worker, writer, aborts>>

GoesStale(u) ==
  /\ req[u].status = "in_progress" /\ ~req[u].stale
  /\ req' = [req EXCEPT ![u].stale = TRUE]
  /\ UNCHANGED <<account, files, versions, blobs, lock, worker, writer, aborts>>

-------------------------------------------------------------------------------
(* run_purge_tick: only one session has the lock; the others skip.         *)
TakeLock(w) ==
  /\ worker[w].pc = "idle" /\ lock = NoOne
  /\ lock' = w
  /\ worker' = [worker EXCEPT ![w].pc = "claim"]
  /\ UNCHANGED <<account, req, files, versions, blobs, writer, aborts>>

(* A slip to check against: what a dead worker claimed is never taken over. *)
ClaimablePending(u) == req[u].status = "pending" /\ req[u].due

(* claim_account_purge's victims.                                          *)
Claimable(u) == \/ req[u].status = "pending" /\ req[u].due
                \/ req[u].status = "in_progress" /\ req[u].stale

(* claim_account_purge: a batch of them, each marked as started now.       *)
Claim(w) ==
  /\ worker[w].pc = "claim"
  /\ \E batch \in SUBSET {u \in Subject : Claimable(u)} :
       /\ Cardinality(batch) <= Batch
       /\ batch = {u \in Subject : Claimable(u)} \/ Cardinality(batch) = Batch
       /\ req' = [u \in Subject |->
            IF u \in batch
            THEN [req[u] EXCEPT !.status = "in_progress", !.stale = FALSE,
                                !.attempts = @ + 1]
            ELSE req[u]]
       /\ worker' = [worker EXCEPT ![w].pc = "next", ![w].claimed =
            {[u |-> u, purged |-> req[u].db_purged, keys |-> req[u].object_keys] :
               u \in batch}]
  /\ UNCHANGED <<account, files, versions, blobs, lock, writer, aborts>>

(* A slip to check against: the database pass runs again on a retry.       *)
FromTheStart(c) == [pc |-> "collect", keys |-> {}]

(* purge_one: rows that are gone already are not erased again.             *)
Resume(c) == IF c.purged THEN [pc |-> "blobs", keys |-> c.keys]
             ELSE [pc |-> "collect", keys |-> {}]

(* locked_tick goes on to the next of its batch.                           *)
NextRequest(w) ==
  /\ worker[w].pc = "next"
  /\ \E c \in worker[w].claimed :
       worker' = [worker EXCEPT ![w].claimed = @ \ {c}, ![w].cur = c.u,
                                ![w].pc = Resume(c).pc, ![w].keys = Resume(c).keys,
                                ![w].failed = FALSE]
  /\ UNCHANGED <<account, req, files, versions, blobs, lock, writer, aborts>>

(* The batch is done: the lock is released on the session that took it.    *)
EndTick(w) ==
  /\ worker[w].pc = "next" /\ worker[w].claimed = {}
  /\ worker' = [worker EXCEPT ![w] = Idle]
  /\ lock' = NoOne
  /\ UNCHANGED <<account, req, files, versions, blobs, writer, aborts>>

(* purge_account_data, steps 1 and 2: the keys as they are now.            *)
Collect(w) ==
  /\ worker[w].pc = "collect"
  /\ worker' = [worker EXCEPT ![w].pc = "delete",
                              ![w].keys = versions \cap KeysOf(worker[w].cur)]
  /\ UNCHANGED <<account, req, files, versions, blobs, lock, writer, aborts>>

Locked(f) == \E x \in Writer : writer[x].pc \in {"locked", "put"} /\ writer[x].file = f

(* A slip to check against: the keys live in the worker's memory only.     *)
NotNoted(r, keys) == [r EXCEPT !.db_purged = TRUE]

(* A slip to check against: the mark of the database pass is not kept.     *)
NotMarked(r, keys) == [r EXCEPT !.object_keys = keys]

Noted(r, keys) == [r EXCEPT !.db_purged = TRUE, !.object_keys = keys]

(* purge_account_data, steps 3 to 11: the DELETE waits for whoever has a   *)
(* file's row, versions fall with their file, the marks commit with them.  *)
DeleteRows(w) ==
  LET u == worker[w].cur IN
  /\ worker[w].pc = "delete"
  /\ \A f \in File : Owner[f] = u => ~Locked(f)
  /\ files' = {f \in files : Owner[f] # u}
  /\ versions' = versions \ KeysOf(u)
  /\ account' = [account EXCEPT ![u] = "purged"]
  /\ req' = IF req[u].status = "in_progress"
            THEN [req EXCEPT ![u] = Noted(req[u], worker[w].keys)]
            ELSE req
  /\ worker' = [worker EXCEPT ![w].pc = "blobs"]
  /\ UNCHANGED <<blobs, lock, writer, aborts>>

(* purge_account_data fails and rolls back.                                *)
PurgeFails(w) ==
  /\ worker[w].pc \in {"collect", "delete"}
  /\ worker' = [worker EXCEPT ![w].pc = "blobs", ![w].keys = {},
                              ![w].failed = TRUE]
  /\ UNCHANGED <<account, req, files, versions, blobs, lock, writer, aborts>>

(* The object store removes a blob, or does not (it fails, or none is      *)
(* wired): the loop goes on to the next key either way.                    *)
RemoveBlob(w, k) ==
  /\ worker[w].pc = "blobs" /\ k \in worker[w].keys
  /\ blobs' = blobs \ {k}
  /\ worker' = [worker EXCEPT ![w].keys = @ \ {k}]
  /\ UNCHANGED <<account, req, files, versions, lock, writer, aborts>>

BlobStays(w, k) ==
  /\ worker[w].pc = "blobs" /\ k \in worker[w].keys
  /\ worker' = [worker EXCEPT ![w].keys = @ \ {k}, ![w].failed = TRUE]
  /\ UNCHANGED <<account, req, files, versions, blobs, lock, writer, aborts>>

(* Every blob of the list is gone; one that stayed holds the close.        *)
Removed(w) == /\ worker[w].pc = "blobs" /\ worker[w].keys = {}
              /\ ~worker[w].failed

(* finish_account_purge: only what is still in progress is closed.         *)
Finish(w) ==
  LET u == worker[w].cur IN
  /\ Removed(w) /\ worker[w].session
  /\ req' = IF req[u].status = "in_progress"
            THEN [req EXCEPT ![u].status = "completed", ![u].object_keys = {}]
            ELSE req
  /\ worker' = [worker EXCEPT ![w].pc = "next", ![w].cur = NoOne]
  /\ UNCHANGED <<account, files, versions, blobs, lock, writer, aborts>>

(* fail_account_purge: back to the queue while there are attempts left.    *)
Fail(w) ==
  LET u == worker[w].cur IN
  /\ worker[w].pc = "blobs" /\ worker[w].keys = {} /\ worker[w].failed
  /\ worker[w].session
  /\ req' = IF req[u].status = "in_progress"
            THEN [req EXCEPT ![u].status =
                    IF req[u].attempts >= MaxAttempts THEN "failed" ELSE "pending"]
            ELSE req
  /\ worker' = [worker EXCEPT ![w].pc = "next", ![w].cur = NoOne,
                              ![w].failed = FALSE]
  /\ UNCHANGED <<account, files, versions, blobs, lock, writer, aborts>>

Unlocked(w) == IF lock = w THEN NoOne ELSE lock

(* The worker dies, or a statement of its own fails: what it claimed stays *)
(* in progress, an open transaction rolls back, the lock goes with the     *)
(* session.                                                                *)
Abort(w) ==
  /\ worker[w].pc # "idle" /\ aborts < MaxAborts
  /\ aborts' = aborts + 1
  /\ worker' = [worker EXCEPT ![w] = Idle]
  /\ lock' = Unlocked(w)
  /\ UNCHANGED <<account, req, files, versions, blobs, writer>>

(* The session dies while the worker is busy with the object store.        *)
SessionDies(w) ==
  /\ worker[w].pc = "blobs" /\ worker[w].session /\ aborts < MaxAborts
  /\ aborts' = aborts + 1
  /\ worker' = [worker EXCEPT ![w].session = FALSE]
  /\ lock' = Unlocked(w)
  /\ UNCHANGED <<account, req, files, versions, blobs, writer>>

(* It finds out with its next statement, and gives the tick up.            *)
FindsItDead(w) ==
  /\ worker[w].pc = "blobs" /\ worker[w].keys = {} /\ ~worker[w].session
  /\ worker' = [worker EXCEPT ![w] = Idle]
  /\ UNCHANGED <<account, req, files, versions, blobs, lock, writer, aborts>>

-------------------------------------------------------------------------------
(* post_new_version: SELECT ... FOR UPDATE of the file.                    *)
LockFile(x, f) ==
  /\ writer[x] = Fresh
  /\ f \in files /\ ~Locked(f)
  /\ writer' = [writer EXCEPT ![x] = [pc |-> "locked", file |-> f, late |-> FALSE]]
  /\ UNCHANGED <<account, req, files, versions, blobs, lock, worker, aborts>>

KeyOf(x) == [file |-> writer[x].file, by |-> x]

(* The blob is put before the row is inserted.                             *)
Put(x) ==
  /\ writer[x].pc = "locked"
  /\ blobs' = blobs \cup {KeyOf(x)}
  /\ writer' = [writer EXCEPT ![x].pc = "put"]
  /\ UNCHANGED <<account, req, files, versions, lock, worker, aborts>>

Collected(u) == \E w \in Worker : worker[w].pc = "delete" /\ worker[w].cur = u

Commit(x) ==
  /\ writer[x].pc = "put"
  /\ versions' = versions \cup {KeyOf(x)}
  /\ writer' = [writer EXCEPT ![x].pc = "committed",
                              ![x].late = Collected(Owner[writer[x].file])]
  /\ UNCHANGED <<account, req, files, blobs, lock, worker, aborts>>

(* The put fails, or what follows it, or the request is dropped: the       *)
(* transaction rolls back, and a blob that was put stays.                  *)
Rollback(x) ==
  /\ writer[x].pc \in {"locked", "put"}
  /\ writer' = [writer EXCEPT ![x].pc = "rolled back"]
  /\ UNCHANGED <<account, req, files, versions, blobs, lock, worker, aborts>>

-------------------------------------------------------------------------------
Work(w) ==
  \/ TakeLock(w) \/ Claim(w) \/ NextRequest(w) \/ EndTick(w)
  \/ Collect(w) \/ DeleteRows(w) \/ PurgeFails(w)
  \/ \E k \in Key : RemoveBlob(w, k) \/ BlobStays(w, k)
  \/ Finish(w) \/ Fail(w) \/ FindsItDead(w)

Write(x) == (\E f \in File : LockFile(x, f)) \/ Put(x) \/ Commit(x) \/ Rollback(x)

Next ==
  \/ \E u \in Subject : DeleteMe(u) \/ GraceEnds(u) \/ GoesStale(u)
  \/ \E w \in Worker : Work(w) \/ Abort(w) \/ SessionDies(w)
  \/ \E x \in Writer : Write(x)

(* Time passes, the replicas keep ticking, a request that holds a row ends. *)
Fairness ==
  /\ \A u \in Subject : WF_vars(GraceEnds(u)) /\ WF_vars(GoesStale(u))
  /\ \A w \in Worker : WF_vars(Work(w))
  /\ \A x \in Writer : WF_vars(Rollback(x) \/ Commit(x))

Spec == Init /\ [][Next]_vars /\ Fairness

-------------------------------------------------------------------------------
Claims == [u: Subject, purged: BOOLEAN, keys: SUBSET Key]

(* Rows, locals and marks keep their shapes; a session that has the lock   *)
(* is one that is working, so two ticks never claim at once.               *)
TypeOK ==
  /\ account \in [Subject -> {"active", "deleted", "purged"}]
  /\ req \in [Subject -> Request]
  /\ files \subseteq File /\ versions \subseteq Key /\ blobs \subseteq Key
  /\ lock \in Worker \cup {NoOne}
  /\ worker \in [Worker ->
       [pc: {"idle", "claim", "next", "collect", "delete", "blobs"},
        claimed: SUBSET Claims, cur: Subject \cup {NoOne}, keys: SUBSET Key,
        failed: BOOLEAN, session: BOOLEAN]]
  /\ writer \in [Writer -> [pc: {"idle", "locked", "put", "committed", "rolled back"},
                            file: File \cup {NoOne}, late: BOOLEAN]]
  /\ aborts \in 0..MaxAborts
  /\ \A w \in Worker : worker[w].pc # "idle" /\ worker[w].session <=> lock = w

(* A key that no purge could know of: its row was never committed, or was  *)
(* committed between the collection of the keys and the delete.            *)
Unknown(k) == k.by # First /\ (writer[k.by].pc # "committed" \/ writer[k.by].late)

(* No blob is forgotten.  Whatever dies, and whoever takes over, a blob in *)
(* the store either still has its row, or its key is in the subject's      *)
(* request, which is not closed before the blob is gone.                   *)
BlobsAccountedFor ==
  \A k \in blobs :
    \/ k \in versions
    \/ k \in req[Owner[k.file]].object_keys
    \/ Unknown(k)

(* A closed request is one whose subject has nothing left: neither rows,   *)
(* nor a blob a purge could know of.                                       *)
CompletedIsClean ==
  \A u \in Subject : req[u].status = "completed" =>
    /\ account[u] = "purged"
    /\ \A f \in files : Owner[f] # u
    /\ \A k \in blobs : Owner[k.file] = u => Unknown(k)

(* The database pass is not repeated and what it noted is not lost: once   *)
(* marked, a request keeps its keys until it is completed.                 *)
ProgressIsKept ==
  [][\A u \in Subject : req[u].db_purged =>
       /\ req'[u].db_purged
       /\ req'[u].object_keys = req[u].object_keys \/ req'[u].status = "completed"]_vars

(* Nothing of an account is erased before its grace is over, nor unless    *)
(* its subject asked.                                                      *)
NothingBeforeTheGrace ==
  [][\A f \in files \ files' : req[Owner[f]].due /\ account[Owner[f]] = "deleted"]_vars

(* A request settles: after its grace it is completed, or failed for an    *)
(* operator to see, however the replicas die and take over on the way.     *)
RequestSettles ==
  \A u \in Subject :
    req[u].status \in {"pending", "in_progress"}
      ~> req[u].status \in {"completed", "failed"}

(* What migration 034 says of its order, keys before rows: no blob of an   *)
(* erased account is left for ever.                                        *)
NoOrphan ==
  \A k \in blobs :
    /\ req[Owner[k.file]].status = "completed"
    /\ k.by # First
    => writer[k.by].pc # "committed"

===============================================================================
