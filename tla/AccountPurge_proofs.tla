-------------------------- MODULE AccountPurge_proofs --------------------------
(***************************************************************************)
(* Proofs about AccountPurge, for every set of subjects, files, replicas   *)
(* and writers, every batch, every number of attempts and of deaths.       *)
(*                                                                         *)
(* What makes them work is that a worker that has its session has the lock *)
(* alone, so what it claimed is still as it was claimed; a worker that     *)
(* lost its session can only go on removing blobs whose keys it knows.     *)
(***************************************************************************)
EXTENDS AccountPurge, TLAPS

Tick == [pc: {"idle", "claim", "next", "collect", "delete", "blobs"},
         claimed: SUBSET Claims, cur: Subject \cup {NoOne}, keys: SUBSET Key,
         failed: BOOLEAN, session: BOOLEAN]

Upload == [pc: {"idle", "locked", "put", "committed", "rolled back"},
           file: File \cup {NoOne}, late: BOOLEAN]

(* A key whose row was committed at some time.                             *)
Known(k) == k.by = First \/ writer[k.by].pc = "committed"

(* A request and its subject's rows.                                       *)
Filed ==
  \A u \in Subject :
    /\ account[u] = "active" <=> req[u].status = "none"
    /\ req[u].status = "none" => req[u] = NoRequest
    /\ req[u].status \in {"in_progress", "completed"} => req[u].due
    /\ account[u] = "purged" <=> req[u].db_purged
    /\ ~req[u].db_purged => req[u].object_keys = {}
    /\ req[u].status = "completed" => req[u].db_purged /\ req[u].object_keys = {}
    /\ req[u].db_purged => \A f \in files : Owner[f] # u
    /\ \A k \in req[u].object_keys : Known(k)

(* Versions, blobs and the requests that add them.                         *)
Rows ==
  /\ \A k \in versions : k.file \in files /\ Known(k)
  /\ \A x \in Writer :
       /\ writer[x].pc \in {"locked", "put"} => writer[x].file \in files
       /\ writer[x].pc = "idle" => writer[x] = Fresh
  /\ \A k \in blobs : k.by # First =>
       writer[k.by].pc \notin {"idle", "locked"} /\ writer[k.by].file = k.file

(* What a tick with a session knows of the request it works on.            *)
Current(r) ==
  /\ \A c \in r.claimed :
       /\ req[c.u].status = "in_progress" /\ c.u # r.cur
       /\ c.purged = req[c.u].db_purged /\ c.keys = req[c.u].object_keys
  /\ r.cur \in Subject => req[r.cur].status = "in_progress"
  /\ r.pc \in {"collect", "delete"} => ~req[r.cur].db_purged
  /\ r.pc = "delete" =>
       \A k \in versions : Owner[k.file] = r.cur =>
         k \in r.keys \/ (k.by # First /\ writer[k.by].late)
  /\ r.pc = "blobs" /\ ~r.failed =>
       /\ req[r.cur].db_purged
       /\ req[r.cur].object_keys \cap blobs \subseteq r.keys

Good(r) ==
  /\ r.cur \in Subject <=> r.pc \in {"collect", "delete", "blobs"}
  /\ r.pc \in {"idle", "claim"} => r.claimed = {}
  /\ ~r.session => r.pc = "blobs"
  /\ \A k \in r.keys : Known(k)
  /\ r.session => Current(r)

Ticks == \A w \in Worker : Good(worker[w])

IInv ==
  /\ TypeOK
  /\ Filed
  /\ Rows
  /\ Ticks
  /\ BlobsAccountedFor

-------------------------------------------------------------------------------
LEMMA InitOK == Init => IInv
<1> SUFFICES ASSUME Init PROVE IInv
  OBVIOUS
<1>1. TypeOK
  BY PurgeAssumption
  DEF Init, TypeOK, Request, NoRequest, Idle, Fresh, Key, Claims
<1>2. Filed
  BY DEF Init, Filed, NoRequest
<1>3. Rows
  BY DEF Init, Rows, Fresh, Known
<1>4. Ticks
  BY PurgeAssumption DEF Init, Ticks, Good, Current, Idle
<1>5. BlobsAccountedFor
  BY DEF Init, BlobsAccountedFor
<1>6. QED BY <1>1, <1>2, <1>3, <1>4, <1>5 DEF IInv

(* One worker has the lock, and with it the only session.                  *)
LEMMA OneSession ==
  ASSUME IInv, NEW w \in Worker, worker[w].pc # "idle", worker[w].session,
         NEW v \in Worker, v # w
  PROVE  worker[v].pc = "idle" \/ ~worker[v].session
BY DEF IInv, TypeOK

(* A step of one worker that leaves the database alone and removes at most *)
(* blobs.                                                                  *)
LEMMA LocalStep ==
  ASSUME IInv, NEW w \in Worker, NEW r \in Tick,
         worker' = [worker EXCEPT ![w] = r],
         UNCHANGED <<account, req, files, versions, writer>>,
         blobs' \subseteq blobs, aborts' \in 0..MaxAborts,
         lock' \in Worker \cup {NoOne},
         r.pc # "idle" /\ r.session <=> lock' = w,
         \A v \in Worker \ {w} : lock' = v <=> lock = v,
         Good(r)'
  PROVE  IInv'
<1>1. /\ worker \in [Worker -> Tick] /\ worker' \in [Worker -> Tick]
      /\ worker'[w] = r /\ \A v \in Worker \ {w} : worker'[v] = worker[v]
  BY DEF IInv, TypeOK, Tick
<1>2. TypeOK'
  BY <1>1 DEF IInv, TypeOK, Tick
<1>3. Filed' /\ Rows'
  BY DEF IInv, Filed, Rows, Known
<1>4. ASSUME NEW v \in Worker \ {w}
      PROVE  Good(worker[v])'
  <2>1. Good(worker[v]) /\ worker'[v] = worker[v]
    BY <1>1 DEF IInv, Ticks
  <2>2. QED BY <2>1 DEF Good, Current, Known
<1>5. Ticks'
  BY <1>1, <1>4 DEF Ticks
<1>6. BlobsAccountedFor'
  BY DEF IInv, BlobsAccountedFor, Unknown
<1>7. QED BY <1>2, <1>3, <1>5, <1>6 DEF IInv

LEMMA IdleIsGood == Idle \in Tick /\ Good(Idle)' /\ Idle.pc = "idle"
BY PurgeAssumption DEF Idle, Tick, Good, Current

LEMMA WorkerIsTick ==
  ASSUME IInv, NEW w \in Worker
  PROVE  /\ worker[w] \in Tick /\ Good(worker[w])
         /\ lock \in Worker \cup {NoOne} /\ aborts \in 0..MaxAborts
         /\ (worker[w].pc # "idle" /\ worker[w].session) <=> lock = w
         /\ w # NoOne
BY PurgeAssumption DEF IInv, TypeOK, Tick, Ticks

LEMMA TakeLockKeeps ==
  ASSUME IInv, NEW w \in Worker, TakeLock(w)
  PROVE  IInv'
<1>1. /\ worker[w] \in Tick /\ Good(worker[w]) /\ worker[w].pc = "idle"
      /\ worker' = [worker EXCEPT ![w] = [worker[w] EXCEPT !.pc = "claim"]]
      /\ lock = NoOne /\ lock' = w
      /\ UNCHANGED <<account, req, files, versions, blobs, writer, aborts>>
  BY WorkerIsTick DEF TakeLock
<1>2. PICK r \in Tick :
        /\ worker' = [worker EXCEPT ![w] = r]
        /\ r.pc = "claim" /\ r.session = worker[w].session
        /\ r.cur = worker[w].cur /\ r.claimed = worker[w].claimed
        /\ r.keys = worker[w].keys
  <2> DEFINE r == [worker[w] EXCEPT !.pc = "claim"]
  <2>1. /\ r \in Tick /\ r.pc = "claim" /\ r.session = worker[w].session
        /\ r.cur = worker[w].cur /\ r.claimed = worker[w].claimed
        /\ r.keys = worker[w].keys
    BY <1>1 DEF Tick
  <2>2. worker' = [worker EXCEPT ![w] = r]
    BY <1>1
  <2> HIDE DEF r
  <2>3. QED BY <2>1, <2>2
<1>3. Good(r)'
  BY <1>1, <1>2 DEF Good, Current, Known
<1>4. r.session
  BY <1>1, <1>2 DEF Good
<1>5. aborts' \in 0..MaxAborts /\ lock' \in Worker \cup {NoOne}
      /\ \A v \in Worker \ {w} : lock' = v <=> lock = v
  BY <1>1, PurgeAssumption, WorkerIsTick
<1>6. QED BY <1>1, <1>2, <1>3, <1>4, <1>5, LocalStep

(* The worker goes idle and lets go of the lock if it had it.              *)
LEMMA GoesIdle ==
  ASSUME IInv, NEW w \in Worker, worker' = [worker EXCEPT ![w] = Idle],
         lock' = (IF lock = w THEN NoOne ELSE lock), aborts' \in 0..MaxAborts,
         UNCHANGED <<account, req, files, versions, blobs, writer>>
  PROVE  IInv'
<1>1. lock \in Worker \cup {NoOne} /\ w # NoOne /\ NoOne \notin Worker
  BY WorkerIsTick, PurgeAssumption
<1>2. /\ lock' \in Worker \cup {NoOne} /\ lock' # w
      /\ \A v \in Worker \ {w} : lock' = v <=> lock = v
  BY <1>1
<1>3. QED BY <1>2, IdleIsGood, LocalStep

LEMMA EndTickKeeps ==
  ASSUME IInv, NEW w \in Worker, EndTick(w)
  PROVE  IInv'
<1>1. worker[w].pc = "next" /\ worker[w].session
  BY WorkerIsTick DEF EndTick, Good
<1>2. lock = w /\ aborts \in 0..MaxAborts
  BY <1>1, WorkerIsTick
<1>3. QED BY <1>2, GoesIdle DEF EndTick

LEMMA AbortKeeps ==
  ASSUME IInv, NEW w \in Worker, Abort(w)
  PROVE  IInv'
<1>1. aborts' \in 0..MaxAborts
  BY WorkerIsTick, PurgeAssumption DEF Abort
<1>2. QED BY <1>1, GoesIdle DEF Abort, Unlocked

LEMMA FindsItDeadKeeps ==
  ASSUME IInv, NEW w \in Worker, FindsItDead(w)
  PROVE  IInv'
<1>1. lock # w /\ aborts \in 0..MaxAborts
  BY WorkerIsTick DEF FindsItDead
<1>2. QED BY <1>1, GoesIdle DEF FindsItDead

(* The worker keeps its session, or loses it and the lock.                 *)
LEMMA WorkingStep ==
  ASSUME IInv, NEW w \in Worker, NEW r \in Tick,
         worker' = [worker EXCEPT ![w] = r], UNCHANGED lock,
         r.pc # "idle", worker[w].pc # "idle", r.session = worker[w].session,
         UNCHANGED <<account, req, files, versions, writer, aborts>>,
         blobs' \subseteq blobs, Good(r)'
  PROVE  IInv'
<1>1. /\ aborts' \in 0..MaxAborts /\ lock' \in Worker \cup {NoOne}
      /\ (r.pc # "idle" /\ r.session) <=> lock' = w
      /\ \A v \in Worker \ {w} : lock' = v <=> lock = v
  BY WorkerIsTick
<1>2. QED BY <1>1, LocalStep

LEMMA NextRequestKeeps ==
  ASSUME IInv, NEW w \in Worker, NextRequest(w)
  PROVE  IInv'
<1>1. /\ worker[w] \in Tick /\ Good(worker[w]) /\ worker[w].pc = "next"
      /\ UNCHANGED <<account, req, files, versions, blobs, lock, writer, aborts>>
  BY WorkerIsTick DEF NextRequest
<1>2. PICK c \in worker[w].claimed :
        worker' = [worker EXCEPT ![w].claimed = @ \ {c}, ![w].cur = c.u,
                                 ![w].pc = Resume(c).pc, ![w].keys = Resume(c).keys,
                                 ![w].failed = FALSE]
  BY DEF NextRequest
<1>3. /\ c \in Claims /\ c.u \in Subject /\ worker[w].session
      /\ worker[w].claimed \in SUBSET Claims
  BY <1>1 DEF Tick, Good, Claims
<1>4. /\ req[c.u].status = "in_progress"
      /\ c.purged = req[c.u].db_purged /\ c.keys = req[c.u].object_keys
      /\ \A d \in worker[w].claimed :
           /\ req[d.u].status = "in_progress"
           /\ d.purged = req[d.u].db_purged /\ d.keys = req[d.u].object_keys
  BY <1>1, <1>3 DEF Good, Current
<1>5. \A d \in worker[w].claimed \ {c} : d.u # c.u
  BY <1>3, <1>4 DEF Claims
<1>6. /\ Resume(c).pc \in {"collect", "blobs"} /\ Resume(c).keys \subseteq Key
      /\ Resume(c).pc = "collect" => ~c.purged
      /\ Resume(c).pc = "blobs" => c.purged /\ Resume(c).keys = c.keys
      /\ \A k \in Resume(c).keys : k \in c.keys
  BY <1>3 DEF Resume, Claims
<1>7. PICK r \in Tick :
        /\ worker' = [worker EXCEPT ![w] = r]
        /\ r.pc = Resume(c).pc /\ r.session /\ r.cur = c.u
        /\ r.claimed = worker[w].claimed \ {c} /\ r.keys = Resume(c).keys
  <2> DEFINE r == [worker[w] EXCEPT !.claimed = @ \ {c}, !.cur = c.u,
                     !.pc = Resume(c).pc, !.keys = Resume(c).keys, !.failed = FALSE]
  <2>1. /\ r \in Tick /\ r.pc = Resume(c).pc /\ r.session /\ r.cur = c.u
        /\ r.claimed = worker[w].claimed \ {c} /\ r.keys = Resume(c).keys
    BY <1>1, <1>3, <1>6 DEF Tick
  <2>2. worker' = [worker EXCEPT ![w] = r]
    BY <1>2
  <2> HIDE DEF r
  <2>3. QED BY <2>1, <2>2
<1>8. Good(r)
  BY <1>3, <1>4, <1>5, <1>6, <1>7 DEF Good, Current, IInv, Filed
<1>9. Good(r)'
  BY <1>1, <1>8 DEF Good, Current, Known
<1>10. r.pc # "idle" /\ worker[w].pc # "idle" /\ r.session = worker[w].session
  BY <1>1, <1>3, <1>6, <1>7
<1>11. QED BY <1>1, <1>7, <1>9, <1>10, WorkingStep

LEMMA CollectKeeps ==
  ASSUME IInv, NEW w \in Worker, Collect(w)
  PROVE  IInv'
<1>1. /\ worker[w] \in Tick /\ Good(worker[w]) /\ worker[w].pc = "collect"
      /\ worker' = [worker EXCEPT ![w].pc = "delete",
                      ![w].keys = versions \cap KeysOf(worker[w].cur)]
      /\ versions \subseteq Key
      /\ UNCHANGED <<account, req, files, versions, blobs, lock, writer, aborts>>
  BY WorkerIsTick DEF Collect, IInv, TypeOK
<1>2. PICK r \in Tick :
        /\ worker' = [worker EXCEPT ![w] = r]
        /\ r.pc = "delete" /\ r.session = worker[w].session
        /\ r.cur = worker[w].cur /\ r.claimed = worker[w].claimed
        /\ r.keys = versions \cap KeysOf(worker[w].cur)
  <2> DEFINE r == [worker[w] EXCEPT !.pc = "delete",
                     !.keys = versions \cap KeysOf(worker[w].cur)]
  <2>1. /\ r \in Tick /\ r.pc = "delete" /\ r.session = worker[w].session
        /\ r.cur = worker[w].cur /\ r.claimed = worker[w].claimed
        /\ r.keys = versions \cap KeysOf(worker[w].cur)
    BY <1>1 DEF Tick
  <2>2. worker' = [worker EXCEPT ![w] = r]
    BY <1>1
  <2> HIDE DEF r
  <2>3. QED BY <2>1, <2>2
<1>3. \A k \in versions : Owner[k.file] = r.cur => k \in r.keys
  BY <1>1, <1>2 DEF KeysOf
<1>4. Good(r)
  BY <1>1, <1>2, <1>3 DEF Good, Current, IInv, Rows
<1>5. Good(r)'
  BY <1>1, <1>4 DEF Good, Current, Known
<1>6. QED BY <1>1, <1>2, <1>5, WorkingStep

LEMMA PurgeFailsKeeps ==
  ASSUME IInv, NEW w \in Worker, PurgeFails(w)
  PROVE  IInv'
<1>1. /\ worker[w] \in Tick /\ Good(worker[w])
      /\ worker[w].pc \in {"collect", "delete"}
      /\ worker' = [worker EXCEPT ![w].pc = "blobs", ![w].keys = {},
                                  ![w].failed = TRUE]
      /\ UNCHANGED <<account, req, files, versions, blobs, lock, writer, aborts>>
  BY WorkerIsTick DEF PurgeFails
<1>2. PICK r \in Tick :
        /\ worker' = [worker EXCEPT ![w] = r]
        /\ r.pc = "blobs" /\ r.session = worker[w].session
        /\ r.cur = worker[w].cur /\ r.claimed = worker[w].claimed
        /\ r.keys = {} /\ r.failed
  <2> DEFINE r == [worker[w] EXCEPT !.pc = "blobs", !.keys = {}, !.failed = TRUE]
  <2>1. /\ r \in Tick /\ r.pc = "blobs" /\ r.session = worker[w].session
        /\ r.cur = worker[w].cur /\ r.claimed = worker[w].claimed
        /\ r.keys = {} /\ r.failed
    BY <1>1 DEF Tick
  <2>2. worker' = [worker EXCEPT ![w] = r]
    BY <1>1
  <2> HIDE DEF r
  <2>3. QED BY <2>1, <2>2
<1>3. Good(r)'
  BY <1>1, <1>2 DEF Good, Current
<1>4. QED BY <1>1, <1>2, <1>3, WorkingStep

(* One blob fewer to remove.                                               *)
LEMMA RemoveBlobKeeps ==
  ASSUME IInv, NEW w \in Worker, NEW k \in Key, RemoveBlob(w, k)
  PROVE  IInv'
<1>1. /\ worker[w] \in Tick /\ Good(worker[w]) /\ worker[w].pc = "blobs"
      /\ blobs' = blobs \ {k}
      /\ worker' = [worker EXCEPT ![w].keys = @ \ {k}]
      /\ UNCHANGED <<account, req, files, versions, lock, writer, aborts>>
  BY WorkerIsTick DEF RemoveBlob
<1>2. PICK r \in Tick :
        /\ worker' = [worker EXCEPT ![w] = r]
        /\ r.pc = "blobs" /\ r.session = worker[w].session
        /\ r.cur = worker[w].cur /\ r.claimed = worker[w].claimed
        /\ r.keys = worker[w].keys \ {k} /\ r.failed = worker[w].failed
  <2> DEFINE r == [worker[w] EXCEPT !.keys = @ \ {k}]
  <2>1. /\ r \in Tick /\ r.pc = "blobs" /\ r.session = worker[w].session
        /\ r.cur = worker[w].cur /\ r.claimed = worker[w].claimed
        /\ r.keys = worker[w].keys \ {k} /\ r.failed = worker[w].failed
    BY <1>1 DEF Tick
  <2>2. worker' = [worker EXCEPT ![w] = r]
    BY <1>1
  <2> HIDE DEF r
  <2>3. QED BY <2>1, <2>2
<1>3. Good(r)'
  BY <1>1, <1>2 DEF Good, Current, Known
<1>4. QED BY <1>1, <1>2, <1>3, WorkingStep

LEMMA BlobStaysKeeps ==
  ASSUME IInv, NEW w \in Worker, NEW k \in Key, BlobStays(w, k)
  PROVE  IInv'
<1>1. /\ worker[w] \in Tick /\ Good(worker[w]) /\ worker[w].pc = "blobs"
      /\ worker' = [worker EXCEPT ![w].keys = @ \ {k}, ![w].failed = TRUE]
      /\ UNCHANGED <<account, req, files, versions, blobs, lock, writer, aborts>>
  BY WorkerIsTick DEF BlobStays
<1>2. PICK r \in Tick :
        /\ worker' = [worker EXCEPT ![w] = r]
        /\ r.pc = "blobs" /\ r.session = worker[w].session
        /\ r.cur = worker[w].cur /\ r.claimed = worker[w].claimed
        /\ r.keys = worker[w].keys \ {k} /\ r.failed
  <2> DEFINE r == [worker[w] EXCEPT !.keys = @ \ {k}, !.failed = TRUE]
  <2>1. /\ r \in Tick /\ r.pc = "blobs" /\ r.session = worker[w].session
        /\ r.cur = worker[w].cur /\ r.claimed = worker[w].claimed
        /\ r.keys = worker[w].keys \ {k} /\ r.failed
    BY <1>1 DEF Tick
  <2>2. worker' = [worker EXCEPT ![w] = r]
    BY <1>1
  <2> HIDE DEF r
  <2>3. QED BY <2>1, <2>2
<1>3. Good(r)'
  BY <1>1, <1>2 DEF Good, Current, Known
<1>4. QED BY <1>1, <1>2, <1>3, WorkingStep

LEMMA SessionDiesKeeps ==
  ASSUME IInv, NEW w \in Worker, SessionDies(w)
  PROVE  IInv'
<1>1. /\ worker[w] \in Tick /\ Good(worker[w]) /\ worker[w].pc = "blobs"
      /\ lock = w /\ lock' = NoOne /\ aborts' = aborts + 1 /\ aborts < MaxAborts
      /\ worker' = [worker EXCEPT ![w].session = FALSE]
      /\ UNCHANGED <<account, req, files, versions, blobs, writer>>
  BY WorkerIsTick DEF SessionDies, Unlocked
<1>2. PICK r \in Tick :
        /\ worker' = [worker EXCEPT ![w] = r]
        /\ r.pc = "blobs" /\ ~r.session
        /\ r.cur = worker[w].cur /\ r.claimed = worker[w].claimed
        /\ r.keys = worker[w].keys
  <2> DEFINE r == [worker[w] EXCEPT !.session = FALSE]
  <2>1. /\ r \in Tick /\ r.pc = "blobs" /\ ~r.session
        /\ r.cur = worker[w].cur /\ r.claimed = worker[w].claimed
        /\ r.keys = worker[w].keys
    BY <1>1 DEF Tick
  <2>2. worker' = [worker EXCEPT ![w] = r]
    BY <1>1
  <2> HIDE DEF r
  <2>3. QED BY <2>1, <2>2
<1>3. Good(r)'
  BY <1>1, <1>2 DEF Good, Known
<1>4. aborts' \in 0..MaxAborts
  BY <1>1, WorkerIsTick, PurgeAssumption
<1>5. /\ lock' \in Worker \cup {NoOne} /\ lock' # w
      /\ \A v \in Worker \ {w} : lock' = v <=> lock = v
  BY <1>1, PurgeAssumption
<1>6. QED BY <1>1, <1>2, <1>3, <1>4, <1>5, LocalStep

(* Whoever works beside a tick that has the session knows only its keys.   *)
LEMMA OthersStayGood ==
  ASSUME IInv, NEW w \in Worker, worker[w].pc # "idle", worker[w].session,
         NEW v \in Worker \ {w}, worker'[v] = worker[v], UNCHANGED writer
  PROVE  Good(worker[v])'
<1>1. Good(worker[v]) /\ worker[v] \in Tick
  BY WorkerIsTick
<1>2. worker[v].pc = "idle" \/ ~worker[v].session
  BY OneSession
<1>3. QED BY <1>1, <1>2 DEF Good, Current, Known

(* A step of the worker that has the session, on the requests.             *)
LEMMA SessionStep ==
  ASSUME IInv, NEW w \in Worker, NEW r \in Tick,
         worker' = [worker EXCEPT ![w] = r],
         worker[w].pc # "idle", worker[w].session, r.pc # "idle", r.session,
         UNCHANGED <<lock, writer, aborts>>, Good(r)',
         account' \in [Subject -> {"active", "deleted", "purged"}],
         req' \in [Subject -> Request], files' \subseteq File,
         versions' \subseteq Key, blobs' \subseteq Key
  PROVE  TypeOK' /\ Ticks'
<1>1. /\ worker \in [Worker -> Tick] /\ worker' \in [Worker -> Tick]
      /\ worker'[w] = r /\ \A v \in Worker \ {w} : worker'[v] = worker[v]
  BY DEF IInv, TypeOK, Tick
<1>2. TypeOK'
  BY <1>1 DEF IInv, TypeOK, Tick
<1>3. Ticks'
  BY <1>1, OthersStayGood DEF Ticks
<1>4. QED BY <1>2, <1>3

LEMMA StartedRequest ==
  ASSUME NEW q \in Request
  PROVE  [q EXCEPT !.status = "in_progress", !.stale = FALSE,
                   !.attempts = @ + 1] \in Request
<1>1. q.attempts + 1 \in Nat
  BY DEF Request
<1>2. QED BY <1>1 DEF Request

LEMMA ClaimKeeps ==
  ASSUME IInv, NEW w \in Worker, Claim(w)
  PROVE  IInv'
<1>1. /\ worker[w] \in Tick /\ Good(worker[w]) /\ worker[w].pc = "claim"
      /\ worker[w].session
      /\ UNCHANGED <<account, files, versions, blobs, lock, writer, aborts>>
  BY WorkerIsTick DEF Claim, Good
<1>2. PICK batch \in SUBSET {u \in Subject : Claimable(u)} :
        /\ req' = [u \in Subject |->
             IF u \in batch
             THEN [req[u] EXCEPT !.status = "in_progress", !.stale = FALSE,
                                 !.attempts = @ + 1]
             ELSE req[u]]
        /\ worker' = [worker EXCEPT ![w].pc = "next", ![w].claimed =
             {[u |-> u, purged |-> req[u].db_purged, keys |-> req[u].object_keys] :
                u \in batch}]
  BY DEF Claim
<1>3. req \in [Subject -> Request]
  BY DEF IInv, TypeOK
<1>4. \A u \in Subject : req[u] \in Request
  BY <1>3
<1>5. ASSUME NEW u \in Subject
      PROVE  /\ req'[u] \in Request
             /\ req'[u].due = req[u].due /\ req'[u].db_purged = req[u].db_purged
             /\ req'[u].object_keys = req[u].object_keys
             /\ u \in batch => req'[u].status = "in_progress" /\ req[u].due
                               /\ req[u].status # "none"
             /\ u \notin batch => req'[u] = req[u]
  <2>1. CASE u \in batch
    <3>1. req'[u] = [req[u] EXCEPT !.status = "in_progress", !.stale = FALSE,
                                   !.attempts = @ + 1]
      BY <1>2, <2>1
    <3>2. Claimable(u)
      BY <2>1
    <3>3. req[u].due /\ req[u].status # "none"
      BY <3>2 DEF Claimable, IInv, Filed
    <3>4. req[u] \in Request
      BY <1>4
    <3>5. /\ req'[u].status = "in_progress" /\ req'[u].stale = FALSE
          /\ req'[u].attempts = req[u].attempts + 1
          /\ req'[u].due = req[u].due /\ req'[u].db_purged = req[u].db_purged
          /\ req'[u].object_keys = req[u].object_keys
      BY <3>1, <3>4 DEF Request
    <3>6. req'[u] \in Request
      BY <3>1, <3>4, StartedRequest
    <3>7. QED BY <2>1, <3>3, <3>5, <3>6
  <2>2. CASE u \notin batch
    BY <1>2, <1>4, <2>2
  <2>3. QED BY <2>1, <2>2
<1>6. req' \in [Subject -> Request]
  BY <1>2, <1>5
<1>7. PICK r \in Tick :
        /\ worker' = [worker EXCEPT ![w] = r]
        /\ r.pc = "next" /\ r.session
        /\ r.cur = worker[w].cur /\ r.keys = worker[w].keys
        /\ r.claimed = {[u |-> u, purged |-> req[u].db_purged,
                         keys |-> req[u].object_keys] : u \in batch}
  <2> DEFINE cs == {[u |-> u, purged |-> req[u].db_purged,
                     keys |-> req[u].object_keys] : u \in batch}
             r == [worker[w] EXCEPT !.pc = "next", !.claimed = cs]
  <2>1. cs \in SUBSET Claims
    BY <1>4 DEF Claims, Request
  <2>2. worker' = [worker EXCEPT ![w] = r]
    BY <1>2
  <2> HIDE DEF cs
  <2>3. /\ r \in Tick /\ r.pc = "next" /\ r.session
        /\ r.cur = worker[w].cur /\ r.keys = worker[w].keys /\ r.claimed = cs
    BY <1>1, <2>1 DEF Tick
  <2> HIDE DEF r
  <2>4. QED BY <2>2, <2>3 DEF cs
<1>8. Good(r)'
  <2>1. worker[w].cur \notin Subject /\ \A k \in worker[w].keys : Known(k)
    BY <1>1 DEF Good
  <2>2. ASSUME NEW c \in r.claimed
        PROVE  /\ req'[c.u].status = "in_progress" /\ c.u # r.cur
               /\ c.purged = req'[c.u].db_purged /\ c.keys = req'[c.u].object_keys
    <3>1. PICK u \in batch : c = [u |-> u, purged |-> req[u].db_purged,
                                  keys |-> req[u].object_keys]
      BY <1>7
    <3>2. u \in Subject
      OBVIOUS
    <3>3. QED BY <1>5, <1>7, <2>1, <3>1, <3>2
  <2>3. QED BY <1>1, <1>7, <2>1, <2>2 DEF Good, Current, Known
<1>9. TypeOK' /\ Ticks'
  BY <1>1, <1>6, <1>7, <1>8, SessionStep DEF IInv, TypeOK
<1>10. Filed'
  <2> SUFFICES ASSUME NEW u \in Subject
               PROVE  (/\ account[u] = "active" <=> req[u].status = "none"
                       /\ req[u].status = "none" => req[u] = NoRequest
                       /\ req[u].status \in {"in_progress", "completed"} => req[u].due
                       /\ account[u] = "purged" <=> req[u].db_purged
                       /\ ~req[u].db_purged => req[u].object_keys = {}
                       /\ req[u].status = "completed" =>
                            req[u].db_purged /\ req[u].object_keys = {}
                       /\ req[u].db_purged => \A f \in files : Owner[f] # u
                       /\ \A k \in req[u].object_keys : Known(k))'
    BY DEF Filed
  <2>1. CASE u \in batch
    BY <1>1, <1>5, <2>1 DEF IInv, Filed, Known
  <2>2. CASE u \notin batch
    BY <1>1, <1>5, <2>2 DEF IInv, Filed, Known
  <2>3. QED BY <2>1, <2>2
<1>11. Rows'
  BY <1>1 DEF IInv, Rows, Known
<1>12. BlobsAccountedFor'
  <2>1. \A k \in blobs : Owner[k.file] \in Subject
    BY PurgeAssumption DEF IInv, TypeOK, Key
  <2>2. QED BY <1>1, <1>5, <2>1 DEF IInv, BlobsAccountedFor, Unknown
<1>13. QED BY <1>9, <1>10, <1>11, <1>12 DEF IInv

LEMMA FinishKeeps ==
  ASSUME IInv, NEW w \in Worker, Finish(w)
  PROVE  IInv'
<1> DEFINE u == worker[w].cur
<1>1. /\ worker[w] \in Tick /\ Good(worker[w]) /\ worker[w].pc = "blobs"
      /\ worker[w].session /\ worker[w].keys = {} /\ ~worker[w].failed
      /\ UNCHANGED <<account, files, versions, blobs, lock, writer, aborts>>
  BY WorkerIsTick DEF Finish, Removed
<1>2. /\ u \in Subject /\ req[u].status = "in_progress" /\ req[u].db_purged
      /\ req[u].object_keys \cap blobs = {}
  BY <1>1 DEF Good, Current
<1>3. /\ req' = [req EXCEPT ![u].status = "completed", ![u].object_keys = {}]
      /\ worker' = [worker EXCEPT ![w].pc = "next", ![w].cur = NoOne]
  BY <1>2 DEF Finish
<1>4. req \in [Subject -> Request]
  BY DEF IInv, TypeOK
<1>5. /\ req' \in [Subject -> Request]
      /\ req'[u].status = "completed" /\ req'[u].object_keys = {}
      /\ req'[u].due = req[u].due /\ req'[u].db_purged
      /\ \A v \in Subject \ {u} : req'[v] = req[v]
  BY <1>2, <1>3, <1>4 DEF Request
<1>6. PICK r \in Tick :
        /\ worker' = [worker EXCEPT ![w] = r]
        /\ r.pc = "next" /\ r.session /\ r.cur = NoOne
        /\ r.claimed = worker[w].claimed /\ r.keys = {}
  <2> DEFINE r == [worker[w] EXCEPT !.pc = "next", !.cur = NoOne]
  <2>1. /\ r \in Tick /\ r.pc = "next" /\ r.session /\ r.cur = NoOne
        /\ r.claimed = worker[w].claimed /\ r.keys = {}
    BY <1>1 DEF Tick
  <2>2. worker' = [worker EXCEPT ![w] = r]
    BY <1>3
  <2> HIDE DEF r
  <2>3. QED BY <2>1, <2>2
<1>7. \A c \in worker[w].claimed : c.u \in Subject \ {u}
  BY <1>1 DEF Good, Current, Tick, Claims
<1>8. Good(r)'
  BY <1>1, <1>5, <1>6, <1>7, PurgeAssumption DEF Good, Current
<1>9. TypeOK' /\ Ticks'
  BY <1>1, <1>5, <1>6, <1>8, SessionStep DEF IInv, TypeOK
<1>10. Filed'
  BY <1>1, <1>2, <1>5 DEF IInv, Filed, Known
<1>11. Rows'
  BY <1>1 DEF IInv, Rows, Known
<1>12. BlobsAccountedFor'
  <2>1. \A k \in blobs : Owner[k.file] \in Subject
    BY PurgeAssumption DEF IInv, TypeOK, Key
  <2>2. QED BY <1>1, <1>2, <1>5, <2>1 DEF IInv, BlobsAccountedFor, Unknown
<1>13. QED BY <1>9, <1>10, <1>11, <1>12 DEF IInv

LEMMA FailKeeps ==
  ASSUME IInv, NEW w \in Worker, Fail(w)
  PROVE  IInv'
<1> DEFINE u == worker[w].cur
           st == IF req[u].attempts >= MaxAttempts THEN "failed" ELSE "pending"
<1>1. /\ worker[w] \in Tick /\ Good(worker[w]) /\ worker[w].pc = "blobs"
      /\ worker[w].session /\ worker[w].keys = {}
      /\ UNCHANGED <<account, files, versions, blobs, lock, writer, aborts>>
  BY WorkerIsTick DEF Fail
<1>2. u \in Subject /\ req[u].status = "in_progress"
  BY <1>1 DEF Good, Current
<1>3. /\ req' = [req EXCEPT ![u].status = st]
      /\ worker' = [worker EXCEPT ![w].pc = "next", ![w].cur = NoOne,
                                  ![w].failed = FALSE]
  BY <1>2 DEF Fail
<1>4. req \in [Subject -> Request] /\ st \in {"failed", "pending"}
  BY DEF IInv, TypeOK
<1> HIDE DEF st
<1>5. /\ req' \in [Subject -> Request] /\ req'[u].status \in {"failed", "pending"}
      /\ req'[u].object_keys = req[u].object_keys
      /\ req'[u].due = req[u].due /\ req'[u].db_purged = req[u].db_purged
      /\ \A v \in Subject \ {u} : req'[v] = req[v]
  BY <1>2, <1>3, <1>4 DEF Request
<1>6. PICK r \in Tick :
        /\ worker' = [worker EXCEPT ![w] = r]
        /\ r.pc = "next" /\ r.session /\ r.cur = NoOne
        /\ r.claimed = worker[w].claimed /\ r.keys = {}
  <2> DEFINE r == [worker[w] EXCEPT !.pc = "next", !.cur = NoOne, !.failed = FALSE]
  <2>1. /\ r \in Tick /\ r.pc = "next" /\ r.session /\ r.cur = NoOne
        /\ r.claimed = worker[w].claimed /\ r.keys = {}
    BY <1>1 DEF Tick
  <2>2. worker' = [worker EXCEPT ![w] = r]
    BY <1>3
  <2> HIDE DEF r
  <2>3. QED BY <2>1, <2>2
<1>7. \A c \in worker[w].claimed : c.u \in Subject \ {u}
  BY <1>1 DEF Good, Current, Tick, Claims
<1>8. Good(r)'
  BY <1>1, <1>5, <1>6, <1>7, PurgeAssumption DEF Good, Current
<1>9. TypeOK' /\ Ticks'
  BY <1>1, <1>5, <1>6, <1>8, SessionStep DEF IInv, TypeOK
<1>10. Filed'
  BY <1>1, <1>2, <1>5 DEF IInv, Filed, Known
<1>11. Rows'
  BY <1>1 DEF IInv, Rows, Known
<1>12. BlobsAccountedFor'
  <2>1. \A k \in blobs : Owner[k.file] \in Subject
    BY PurgeAssumption DEF IInv, TypeOK, Key
  <2>2. QED BY <1>1, <1>2, <1>5, <2>1 DEF IInv, BlobsAccountedFor, Unknown
<1>13. QED BY <1>9, <1>10, <1>11, <1>12 DEF IInv

LEMMA DeleteRowsKeeps ==
  ASSUME IInv, NEW w \in Worker, DeleteRows(w)
  PROVE  IInv'
<1> DEFINE u == worker[w].cur
           ks == worker[w].keys
<1>1. /\ worker[w] \in Tick /\ Good(worker[w]) /\ worker[w].pc = "delete"
      /\ worker[w].session
      /\ \A f \in File : Owner[f] = u => ~Locked(f)
      /\ files' = {f \in files : Owner[f] # u}
      /\ versions' = versions \ KeysOf(u)
      /\ account' = [account EXCEPT ![u] = "purged"]
      /\ worker' = [worker EXCEPT ![w].pc = "blobs"]
      /\ UNCHANGED <<blobs, lock, writer, aborts>>
  BY WorkerIsTick DEF DeleteRows, Good
<1>2. /\ u \in Subject /\ req[u].status = "in_progress" /\ ~req[u].db_purged
      /\ ks \in SUBSET Key /\ \A k \in ks : Known(k)
      /\ \A k \in versions : Owner[k.file] = u =>
           k \in ks \/ (k.by # First /\ writer[k.by].late)
  BY <1>1 DEF Good, Current, Tick
<1>3. req' = [req EXCEPT ![u] = Noted(req[u], ks)]
  BY <1>2 DEF DeleteRows
<1>4. /\ req \in [Subject -> Request]
      /\ account \in [Subject -> {"active", "deleted", "purged"}]
      /\ files \subseteq File /\ versions \subseteq Key /\ blobs \subseteq Key
  BY DEF IInv, TypeOK
<1>5. /\ req' \in [Subject -> Request]
      /\ req'[u].status = "in_progress" /\ req'[u].object_keys = ks
      /\ req'[u].due = req[u].due /\ req'[u].db_purged
      /\ \A v \in Subject \ {u} : req'[v] = req[v]
  BY <1>2, <1>3, <1>4 DEF Request, Noted
<1>6. /\ account' \in [Subject -> {"active", "deleted", "purged"}]
      /\ account'[u] = "purged"
      /\ \A v \in Subject \ {u} : account'[v] = account[v]
  BY <1>1, <1>2, <1>4
<1>7. PICK r \in Tick :
        /\ worker' = [worker EXCEPT ![w] = r]
        /\ r.pc = "blobs" /\ r.session /\ r.cur = u
        /\ r.claimed = worker[w].claimed /\ r.keys = ks
  <2> DEFINE r == [worker[w] EXCEPT !.pc = "blobs"]
  <2>1. /\ r \in Tick /\ r.pc = "blobs" /\ r.session /\ r.cur = u
        /\ r.claimed = worker[w].claimed /\ r.keys = ks
    BY <1>1 DEF Tick
  <2>2. worker' = [worker EXCEPT ![w] = r]
    BY <1>1
  <2> HIDE DEF r
  <2>3. QED BY <2>1, <2>2
<1>8. \A c \in worker[w].claimed : c.u \in Subject \ {u}
  BY <1>1 DEF Good, Current, Tick, Claims
<1> HIDE DEF u, ks
<1>9. Good(r)'
  <2>1. \A c \in r.claimed :
          /\ req[c.u].status = "in_progress"
          /\ c.purged = req[c.u].db_purged /\ c.keys = req[c.u].object_keys
    BY <1>1, <1>7 DEF Good, Current
  <2>2. \A c \in r.claimed : req'[c.u] = req[c.u] /\ c.u # r.cur
    BY <1>5, <1>7, <1>8
  <2>3. \A k \in r.keys : Known(k)'
    BY <1>1, <1>2, <1>7 DEF Known
  <2>4. Current(r)'
    BY <1>1, <1>2, <1>5, <1>7, <2>1, <2>2 DEF Current
  <2>5. QED BY <1>2, <1>7, <2>3, <2>4 DEF Good
<1>10. TypeOK' /\ Ticks'
  <2>1. files' \subseteq File /\ versions' \subseteq Key /\ blobs' \subseteq Key
    BY <1>1, <1>4
  <2>2. QED BY <1>1, <1>5, <1>6, <1>7, <1>9, <2>1, SessionStep
<1>11. Filed'
  <2> SUFFICES ASSUME NEW v \in Subject
               PROVE  (/\ account[v] = "active" <=> req[v].status = "none"
                       /\ req[v].status = "none" => req[v] = NoRequest
                       /\ req[v].status \in {"in_progress", "completed"} => req[v].due
                       /\ account[v] = "purged" <=> req[v].db_purged
                       /\ ~req[v].db_purged => req[v].object_keys = {}
                       /\ req[v].status = "completed" =>
                            req[v].db_purged /\ req[v].object_keys = {}
                       /\ req[v].db_purged => \A f \in files : Owner[f] # v
                       /\ \A k \in req[v].object_keys : Known(k))'
    BY DEF Filed
  <2>1. CASE v = u
    BY <1>1, <1>2, <1>5, <1>6, <2>1 DEF IInv, Filed, Known
  <2>2. CASE v # u
    BY <1>1, <1>5, <1>6, <2>2 DEF IInv, Filed, Known
  <2>3. QED BY <2>1, <2>2
<1>12. Rows'
  <2>1. ASSUME NEW k \in versions'
        PROVE  k.file \in files' /\ Known(k)'
    BY <1>1, <1>4, <2>1 DEF IInv, Rows, Known, KeysOf
  <2>2. ASSUME NEW x \in Writer, writer[x].pc \in {"locked", "put"}
        PROVE  writer[x].file \in files'
    BY <1>1, <1>4, <2>2 DEF IInv, Rows, Locked
  <2>3. QED BY <1>1, <2>1, <2>2 DEF IInv, Rows, Known
<1>13. BlobsAccountedFor'
  <2> SUFFICES ASSUME NEW k \in blobs
               PROVE  (\/ k \in versions
                       \/ k \in req[Owner[k.file]].object_keys
                       \/ Unknown(k))'
    BY <1>1 DEF BlobsAccountedFor
  <2>1. /\ k \in Key /\ Owner[k.file] \in Subject
        /\ \/ k \in versions
           \/ k \in req[Owner[k.file]].object_keys
           \/ Unknown(k)
    BY <1>4, PurgeAssumption DEF IInv, BlobsAccountedFor, Key
  <2>2. CASE Owner[k.file] = u
    BY <1>1, <1>2, <1>5, <2>1, <2>2 DEF IInv, Filed, Unknown
  <2>3. CASE Owner[k.file] # u
    BY <1>1, <1>5, <2>1, <2>3 DEF Unknown, KeysOf
  <2>4. QED BY <2>2, <2>3
<1>14. QED BY <1>10, <1>11, <1>12, <1>13 DEF IInv

-------------------------------------------------------------------------------
(* A step of the request that adds a version.                              *)
LEMMA WriterIsUpload ==
  ASSUME IInv, NEW x \in Writer
  PROVE  /\ writer[x] \in Upload /\ writer \in [Writer -> Upload] /\ x # First
         /\ files \subseteq File /\ versions \subseteq Key /\ blobs \subseteq Key
         /\ writer[x].pc = "idle" => writer[x] = Fresh
         /\ writer[x].pc \in {"locked", "put"} =>
              writer[x].file \in files /\ KeyOf(x) \in Key
BY PurgeAssumption DEF IInv, TypeOK, Upload, Rows, KeyOf, Key

LEMMA UploadStep ==
  ASSUME IInv, NEW x \in Writer, NEW p \in Upload,
         writer' = [writer EXCEPT ![x] = p],
         UNCHANGED <<account, req, files, lock, worker, aborts>>,
         versions' \subseteq Key, blobs' \subseteq Key
  PROVE  /\ TypeOK'
         /\ writer'[x] = p /\ \A y \in Writer \ {x} : writer'[y] = writer[y]
<1>1. writer \in [Writer -> Upload]
  BY WriterIsUpload
<1>2. /\ writer' \in [Writer -> Upload]
      /\ writer'[x] = p /\ \A y \in Writer \ {x} : writer'[y] = writer[y]
  BY <1>1
<1>3. QED BY <1>2 DEF IInv, TypeOK, Upload

(* What a request that has not committed does changes nothing the purge    *)
(* knows, as long as it adds no version.                                   *)
LEMMA UncommittedStep ==
  ASSUME IInv, NEW x \in Writer, NEW p \in Upload,
         writer' = [writer EXCEPT ![x] = p],
         UNCHANGED <<account, req, files, versions, lock, worker, aborts>>,
         writer[x].pc \in {"idle", "locked", "put"},
         p.pc \in {"locked", "put", "rolled back"},
         p.pc \in {"locked", "put"} => p.file \in files,
         blobs' \subseteq Key,
         writer[x].pc = "idle" \/ p.file = writer[x].file,
         \A k \in blobs' \ blobs : k.by = x /\ k.file = p.file /\ p.pc = "put",
         p.pc = "locked" => writer[x].pc = "idle"
  PROVE  IInv'
<1>1. /\ TypeOK'
      /\ writer'[x] = p /\ \A y \in Writer \ {x} : writer'[y] = writer[y]
  <2>1. versions' \subseteq Key /\ blobs' \subseteq Key
    BY WriterIsUpload
  <2>2. QED BY <2>1, UploadStep
<1>2. \A k \in Key : Known(k) => Known(k)' /\ k.by # x
  BY <1>1, WriterIsUpload DEF Known, Key
<1>3. \A k \in Key : k.by # First /\ k.by # x => writer'[k.by] = writer[k.by]
  BY <1>1 DEF Key
<1>4. Filed'
  BY <1>2 DEF IInv, TypeOK, Filed, Request
<1>5. Rows'
  <2>1. \A k \in versions' : k.file \in files' /\ Known(k)'
    BY <1>2, WriterIsUpload DEF IInv, Rows
  <2>2. \A y \in Writer :
          /\ writer'[y].pc \in {"locked", "put"} => writer'[y].file \in files'
          /\ writer'[y].pc = "idle" => writer'[y] = Fresh
    <3> TAKE y \in Writer
    <3>1. CASE y = x
      <4>1. writer'[y] = p /\ p.pc # "idle"
        BY <1>1, <3>1
      <4>2. files' = files
        OBVIOUS
      <4>3. QED BY <4>1, <4>2, Zenon
    <3>2. CASE y # x
      <4>1. writer'[y] = writer[y]
        BY <1>1, <3>2
      <4>2. files' = files
        OBVIOUS
      <4>3. /\ writer[y].pc \in {"locked", "put"} => writer[y].file \in files
            /\ writer[y].pc = "idle" => writer[y] = Fresh
        BY DEF IInv, Rows
      <4>4. QED BY <4>1, <4>2, <4>3, Zenon
    <3>3. QED BY <3>1, <3>2
  <2>3. ASSUME NEW k \in blobs', k.by # First
        PROVE  writer'[k.by].pc \notin {"idle", "locked"} /\ writer'[k.by].file = k.file
    <3>1. CASE k \in blobs /\ k.by # x
      BY <1>3, <2>3, <3>1, WriterIsUpload DEF IInv, Rows
    <3>2. CASE k \in blobs /\ k.by = x
      BY <1>1, <2>3, <3>2 DEF IInv, Rows
    <3>3. CASE k \notin blobs
      BY <1>1, <3>3
    <3>4. QED BY <3>1, <3>2, <3>3
  <2>4. QED BY <2>1, <2>2, <2>3 DEF Rows
<1>6. Ticks'
  <2> SUFFICES ASSUME NEW w \in Worker PROVE Good(worker[w])'
    BY DEF Ticks
  <2>1. worker[w] \in Tick /\ Good(worker[w])
    BY WorkerIsTick
  <2>2. \A k \in worker[w].keys : Known(k)'
    BY <1>2, <2>1 DEF Good, Tick
  <2>3. worker[w].session => Current(worker[w])'
    <3> SUFFICES ASSUME worker[w].session PROVE Current(worker[w])'
      OBVIOUS
    <3>1. Current(worker[w])
      BY <2>1 DEF Good
    <3>2. worker[w].pc = "delete" =>
            \A k \in versions : Owner[k.file] = worker[w].cur =>
              k \in worker[w].keys \/ (k.by # First /\ writer'[k.by].late)
      BY <1>2, <1>3, <3>1, WriterIsUpload DEF Current, IInv, Rows
    <3>3. worker[w].pc = "blobs" /\ ~worker[w].failed =>
            req[worker[w].cur].object_keys \cap blobs' \subseteq worker[w].keys
      <4>1. worker[w].pc = "blobs" =>
              /\ worker[w].cur \in Subject
              /\ \A k \in blobs' \ blobs : k \notin req[worker[w].cur].object_keys
        BY <1>2, <2>1 DEF IInv, Filed, Good
      <4>2. QED BY <3>1, <4>1 DEF Current
    <3>4. QED BY <3>1, <3>2, <3>3 DEF Current
  <2>4. QED BY <2>1, <2>2, <2>3 DEF Good
<1>7. BlobsAccountedFor'
  <2> SUFFICES ASSUME NEW k \in blobs'
               PROVE  (\/ k \in versions
                       \/ k \in req[Owner[k.file]].object_keys
                       \/ Unknown(k))'
    BY DEF BlobsAccountedFor
  <2>1. CASE k.by = x
    BY <1>1, <2>1, WriterIsUpload DEF Unknown
  <2>2. CASE k.by # x
    <3>1. k \in blobs /\ k \in Key
      BY <2>2
    <3>2. QED BY <1>3, <2>2, <3>1 DEF IInv, BlobsAccountedFor, Unknown
  <2>3. QED BY <2>1, <2>2
<1>8. QED BY <1>1, <1>4, <1>5, <1>6, <1>7 DEF IInv

LEMMA LockFileKeeps ==
  ASSUME IInv, NEW x \in Writer, NEW f \in File, LockFile(x, f)
  PROVE  IInv'
<1>1. /\ writer[x] = Fresh /\ f \in files
      /\ writer' = [writer EXCEPT ![x] = [pc |-> "locked", file |-> f, late |-> FALSE]]
      /\ UNCHANGED <<account, req, files, versions, blobs, lock, worker, aborts>>
  BY DEF LockFile
<1>2. writer[x].pc = "idle" /\ blobs \subseteq Key
  BY <1>1, WriterIsUpload DEF Fresh
<1> DEFINE p == [pc |-> "locked", file |-> f, late |-> FALSE]
<1>3. p \in Upload /\ p.pc = "locked" /\ p.file = f
  BY DEF Upload
<1>4. writer' = [writer EXCEPT ![x] = p]
  BY <1>1
<1> HIDE DEF p
<1>5. QED BY <1>1, <1>2, <1>3, <1>4, UncommittedStep

LEMMA PutKeeps ==
  ASSUME IInv, NEW x \in Writer, Put(x)
  PROVE  IInv'
<1>1. /\ writer[x].pc = "locked" /\ writer[x] \in Upload
      /\ blobs' = blobs \cup {KeyOf(x)} /\ blobs \subseteq Key
      /\ writer' = [writer EXCEPT ![x].pc = "put"]
      /\ writer[x].file \in files /\ KeyOf(x) \in Key
      /\ UNCHANGED <<account, req, files, versions, lock, worker, aborts>>
  BY WriterIsUpload DEF Put
<1> DEFINE p == [writer[x] EXCEPT !.pc = "put"]
<1>2. p \in Upload /\ p.pc = "put" /\ p.file = writer[x].file
  BY <1>1 DEF Upload
<1>3. writer' = [writer EXCEPT ![x] = p]
  BY <1>1
<1> HIDE DEF p
<1>4. \A k \in blobs' \ blobs : k.by = x /\ k.file = p.file /\ p.pc = "put"
  BY <1>1, <1>2 DEF KeyOf
<1>5. blobs' \subseteq Key
  BY <1>1
<1>6. QED BY <1>1, <1>2, <1>3, <1>4, <1>5, UncommittedStep

LEMMA RollbackKeeps ==
  ASSUME IInv, NEW x \in Writer, Rollback(x)
  PROVE  IInv'
<1>1. /\ writer[x].pc \in {"locked", "put"} /\ writer[x] \in Upload
      /\ writer' = [writer EXCEPT ![x].pc = "rolled back"]
      /\ blobs \subseteq Key
      /\ UNCHANGED <<account, req, files, versions, blobs, lock, worker, aborts>>
  BY WriterIsUpload DEF Rollback
<1> DEFINE p == [writer[x] EXCEPT !.pc = "rolled back"]
<1>2. p \in Upload /\ p.pc = "rolled back" /\ p.file = writer[x].file
  BY <1>1 DEF Upload
<1>3. writer' = [writer EXCEPT ![x] = p]
  BY <1>1
<1> HIDE DEF p
<1>4. QED BY <1>1, <1>2, <1>3, UncommittedStep

(* The version is committed: what a purge collected before is known to be  *)
(* late for it.                                                            *)
LEMMA CommitKeeps ==
  ASSUME IInv, NEW x \in Writer, Commit(x)
  PROVE  IInv'
<1>1. /\ writer[x].pc = "put" /\ writer[x] \in Upload
      /\ versions' = versions \cup {KeyOf(x)}
      /\ versions \subseteq Key /\ blobs \subseteq Key
      /\ writer' = [writer EXCEPT ![x].pc = "committed",
                      ![x].late = Collected(Owner[writer[x].file])]
      /\ writer[x].file \in files /\ KeyOf(x) \in Key /\ x # First
      /\ UNCHANGED <<account, req, files, blobs, lock, worker, aborts>>
  BY WriterIsUpload DEF Commit
<1> DEFINE p == [writer[x] EXCEPT !.pc = "committed",
                   !.late = Collected(Owner[writer[x].file])]
<1>2. Collected(Owner[writer[x].file]) \in BOOLEAN
  BY DEF Collected
<1>3. /\ p \in Upload /\ p.pc = "committed" /\ p.file = writer[x].file
      /\ p.late = Collected(Owner[writer[x].file])
  BY <1>1, <1>2 DEF Upload
<1>4. writer' = [writer EXCEPT ![x] = p]
  BY <1>1
<1> HIDE DEF p
<1>5. versions' \subseteq Key /\ blobs' \subseteq Key
  BY <1>1
<1>6. /\ TypeOK'
      /\ writer'[x] = p /\ \A y \in Writer \ {x} : writer'[y] = writer[y]
  BY <1>1, <1>3, <1>4, <1>5, UploadStep
<1>7. \A k \in Key : Known(k) => Known(k)' /\ k.by # x
  BY <1>1, <1>6 DEF Known, Key
<1>8. \A k \in Key : k.by # First /\ k.by # x => writer'[k.by] = writer[k.by]
  BY <1>6 DEF Key
<1>9. KeyOf(x).by = x /\ KeyOf(x).file = writer[x].file /\ Known(KeyOf(x))'
  BY <1>3, <1>6 DEF KeyOf, Known
<1>10. Filed'
  BY <1>1, <1>7 DEF IInv, TypeOK, Filed, Request
<1>11. Rows'
  <2>1. \A k \in versions' : k.file \in files' /\ Known(k)'
    <3>1. ASSUME NEW k \in versions
          PROVE  k.file \in files /\ Known(k)'
      BY <1>1, <1>7 DEF IInv, Rows
    <3>2. KeyOf(x).file \in files /\ Known(KeyOf(x))'
      BY <1>1, <1>9
    <3>3. files' = files /\ \A k \in versions' : k \in versions \/ k = KeyOf(x)
      BY <1>1
    <3>4. KeyOf(x)' = KeyOf(x)
      BY <1>3, <1>6 DEF KeyOf
    <3>5. TAKE k \in versions'
    <3>6. CASE k \in versions
      BY <3>1, <3>3, <3>6
    <3>7. CASE k = KeyOf(x)
      BY <1>3, <1>6, <1>9, <3>2, <3>3, <3>7 DEF Known
    <3>8. QED BY <3>3, <3>6, <3>7
  <2>2. \A y \in Writer :
          /\ writer'[y].pc \in {"locked", "put"} => writer'[y].file \in files'
          /\ writer'[y].pc = "idle" => writer'[y] = Fresh
    <3> TAKE y \in Writer
    <3>1. CASE y = x
      <4>1. writer'[y] = p
        BY <1>6, <3>1
      <4>2. QED BY <1>3, <4>1
    <3>2. CASE y # x
      <4>1. writer'[y] = writer[y] /\ files' = files
        BY <1>1, <1>6, <3>2
      <4>2. /\ writer[y].pc \in {"locked", "put"} => writer[y].file \in files
            /\ writer[y].pc = "idle" => writer[y] = Fresh
        BY DEF IInv, Rows
      <4>3. QED BY <4>1, <4>2, Zenon
    <3>3. QED BY <3>1, <3>2
  <2>3. ASSUME NEW k \in blobs, k.by # First
        PROVE  writer'[k.by].pc \notin {"idle", "locked"} /\ writer'[k.by].file = k.file
    <3>1. k \in Key /\ writer[k.by].file = k.file
          /\ writer[k.by].pc \notin {"idle", "locked"}
      BY <1>1, <2>3 DEF IInv, Rows
    <3>2. CASE k.by = x
      BY <1>3, <1>6, <3>1, <3>2
    <3>3. CASE k.by # x
      BY <1>8, <2>3, <3>1, <3>3
    <3>4. QED BY <3>2, <3>3
  <2>4. QED BY <1>1, <2>1, <2>2, <2>3 DEF Rows
<1>12. Ticks'
  <2> SUFFICES ASSUME NEW w \in Worker PROVE Good(worker[w])'
    BY DEF Ticks
  <2>1. worker[w] \in Tick /\ Good(worker[w]) /\ worker'[w] = worker[w]
    BY <1>1, WorkerIsTick
  <2>2. \A k \in worker[w].keys : Known(k)'
    BY <1>7, <2>1 DEF Good, Tick
  <2>3. worker[w].session => Current(worker[w])'
    <3> SUFFICES ASSUME worker[w].session PROVE Current(worker[w])'
      OBVIOUS
    <3>1. Current(worker[w])
      BY <2>1 DEF Good
    <3>2. ASSUME worker[w].pc = "delete", NEW k \in versions',
                 Owner[k.file] = worker[w].cur
          PROVE  k \in worker[w].keys \/ (k.by # First /\ writer'[k.by].late)
      <4>1. CASE k \in versions
        BY <1>1, <1>7, <1>8, <3>1, <3>2, <4>1 DEF Current, IInv, Rows
      <4>2. CASE k = KeyOf(x)
        <5>1. Collected(Owner[writer[x].file])
          BY <1>9, <3>2, <4>2 DEF Collected
        <5>2. QED BY <1>1, <1>3, <1>6, <1>9, <4>2, <5>1
      <4>3. QED BY <1>1, <4>1, <4>2
    <3>3. QED BY <1>1, <2>1, <3>1, <3>2 DEF Current
  <2>4. QED BY <2>1, <2>2, <2>3 DEF Good
<1>13. BlobsAccountedFor'
  <2> SUFFICES ASSUME NEW k \in blobs
               PROVE  (\/ k \in versions
                       \/ k \in req[Owner[k.file]].object_keys
                       \/ Unknown(k))'
    BY <1>1 DEF BlobsAccountedFor
  <2>1. k \in Key
    BY <1>1
  <2>2. CASE k.by = x
    <3>1. k.file = writer[x].file
      BY <1>1, <2>2 DEF IInv, Rows
    <3>2. k = KeyOf(x)
      BY <2>1, <2>2, <3>1 DEF KeyOf, Key
    <3>3. QED BY <1>1, <3>2
  <2>3. CASE k.by # x
    BY <1>1, <1>8, <2>1, <2>3 DEF IInv, BlobsAccountedFor, Unknown
  <2>4. QED BY <2>2, <2>3
<1>14. QED BY <1>6, <1>10, <1>11, <1>12, <1>13 DEF IInv

-------------------------------------------------------------------------------
(* A change of one request that no tick is at work on, or of its age only. *)
LEMMA RequestStep ==
  ASSUME IInv, NEW u \in Subject, NEW q \in Request,
         req' = [req EXCEPT ![u] = q],
         UNCHANGED <<files, versions, blobs, lock, worker, writer, aborts>>,
         account' \in [Subject -> {"active", "deleted", "purged"}],
         \A v \in Subject \ {u} : account'[v] = account[v],
         q.db_purged = req[u].db_purged, q.object_keys = req[u].object_keys,
         req[u].status = "in_progress" => q.status = "in_progress",
         q.status \in {"in_progress", "completed"} => q.due /\ q.status = req[u].status,
         q.status # "none",
         account'[u] # "active",
         account'[u] = "purged" <=> account[u] = "purged"
  PROVE  IInv'
<1>1. req \in [Subject -> Request]
  BY DEF IInv, TypeOK
<1>2. /\ req' \in [Subject -> Request] /\ req'[u] = q
      /\ \A v \in Subject \ {u} : req'[v] = req[v]
  BY <1>1
<1>3. TypeOK'
  BY <1>2 DEF IInv, TypeOK
<1>4. Filed'
  <2> SUFFICES ASSUME NEW v \in Subject
               PROVE  (/\ account[v] = "active" <=> req[v].status = "none"
                       /\ req[v].status = "none" => req[v] = NoRequest
                       /\ req[v].status \in {"in_progress", "completed"} => req[v].due
                       /\ account[v] = "purged" <=> req[v].db_purged
                       /\ ~req[v].db_purged => req[v].object_keys = {}
                       /\ req[v].status = "completed" =>
                            req[v].db_purged /\ req[v].object_keys = {}
                       /\ req[v].db_purged => \A f \in files : Owner[f] # v
                       /\ \A k \in req[v].object_keys : Known(k))'
    BY DEF Filed
  <2>1. CASE v = u
    BY <1>2, <2>1 DEF IInv, Filed, Known
  <2>2. CASE v # u
    BY <1>2, <2>2 DEF IInv, Filed, Known
  <2>3. QED BY <2>1, <2>2
<1>5. Rows'
  BY DEF IInv, Rows, Known
<1>6. Ticks'
  <2> SUFFICES ASSUME NEW w \in Worker PROVE Good(worker[w])'
    BY DEF Ticks
  <2>1. worker[w] \in Tick /\ Good(worker[w])
    BY WorkerIsTick
  <2>2. \A v \in Subject :
          /\ req'[v].db_purged = req[v].db_purged
          /\ req'[v].object_keys = req[v].object_keys
          /\ req[v].status = "in_progress" => req'[v].status = "in_progress"
    BY <1>2
  <2>3. \A c \in worker[w].claimed : c.u \in Subject
    BY <2>1 DEF Tick, Claims
  <2>4. QED BY <2>1, <2>2, <2>3 DEF Good, Current, Known
<1>7. BlobsAccountedFor'
  <2>1. \A k \in blobs : Owner[k.file] \in Subject
    BY PurgeAssumption DEF IInv, TypeOK, Key
  <2>2. QED BY <1>2, <2>1 DEF IInv, BlobsAccountedFor, Unknown
<1>8. QED BY <1>3, <1>4, <1>5, <1>6, <1>7 DEF IInv

LEMMA DeleteMeKeeps ==
  ASSUME IInv, NEW u \in Subject, DeleteMe(u)
  PROVE  IInv'
<1>1. /\ account[u] = "active" /\ req[u].status = "none" /\ req[u] = NoRequest
      /\ account \in [Subject -> {"active", "deleted", "purged"}]
  BY DEF DeleteMe, IInv, TypeOK, Filed
<1> DEFINE q == [NoRequest EXCEPT !.status = "pending"]
<1>2. /\ q \in Request /\ q.status = "pending"
      /\ q.db_purged = req[u].db_purged /\ q.object_keys = req[u].object_keys
  BY <1>1 DEF NoRequest, Request
<1>3. req' = [req EXCEPT ![u] = q]
  BY DEF DeleteMe
<1> HIDE DEF q
<1>4. /\ account' \in [Subject -> {"active", "deleted", "purged"}]
      /\ account'[u] = "deleted"
      /\ \A v \in Subject \ {u} : account'[v] = account[v]
      /\ UNCHANGED <<files, versions, blobs, lock, worker, writer, aborts>>
  BY <1>1 DEF DeleteMe
<1>5. QED BY <1>1, <1>2, <1>3, <1>4, RequestStep

LEMMA GraceEndsKeeps ==
  ASSUME IInv, NEW u \in Subject, GraceEnds(u)
  PROVE  IInv'
<1>1. /\ req[u].status = "pending" /\ req[u] \in Request
      /\ account[u] # "active"
      /\ account \in [Subject -> {"active", "deleted", "purged"}]
  BY DEF GraceEnds, IInv, TypeOK, Filed
<1> DEFINE q == [req[u] EXCEPT !.due = TRUE]
<1>2. /\ q \in Request /\ q.status = "pending"
      /\ q.db_purged = req[u].db_purged /\ q.object_keys = req[u].object_keys
  BY <1>1 DEF Request
<1>3. req' = [req EXCEPT ![u] = q]
  BY DEF GraceEnds
<1> HIDE DEF q
<1>4. UNCHANGED <<account, files, versions, blobs, lock, worker, writer, aborts>>
  BY DEF GraceEnds
<1>5. QED BY <1>1, <1>2, <1>3, <1>4, RequestStep

LEMMA GoesStaleKeeps ==
  ASSUME IInv, NEW u \in Subject, GoesStale(u)
  PROVE  IInv'
<1>1. /\ req[u].status = "in_progress" /\ req[u] \in Request /\ req[u].due
      /\ account[u] # "active"
      /\ account \in [Subject -> {"active", "deleted", "purged"}]
  BY DEF GoesStale, IInv, TypeOK, Filed
<1> DEFINE q == [req[u] EXCEPT !.stale = TRUE]
<1>2. /\ q \in Request /\ q.status = "in_progress" /\ q.due
      /\ q.db_purged = req[u].db_purged /\ q.object_keys = req[u].object_keys
  BY <1>1 DEF Request
<1>3. req' = [req EXCEPT ![u] = q]
  BY DEF GoesStale
<1> HIDE DEF q
<1>4. UNCHANGED <<account, files, versions, blobs, lock, worker, writer, aborts>>
  BY DEF GoesStale
<1>5. QED BY <1>1, <1>2, <1>3, <1>4, RequestStep

-------------------------------------------------------------------------------
LEMMA NextOK == IInv /\ [Next]_vars => IInv'
<1> SUFFICES ASSUME IInv, [Next]_vars PROVE IInv'
  OBVIOUS
<1>1. CASE UNCHANGED vars
  <2>1. UNCHANGED <<account, req, files, versions, blobs, lock, worker, writer,
                    aborts>>
    BY <1>1 DEF vars
  <2>2. TypeOK'
    BY <2>1 DEF IInv, TypeOK
  <2>3. Filed' /\ Rows'
    BY <2>1 DEF IInv, Filed, Rows, Known
  <2>4. Ticks'
    BY <2>1 DEF IInv, Ticks, Good, Current, Known
  <2>5. BlobsAccountedFor'
    BY <2>1 DEF IInv, BlobsAccountedFor, Unknown
  <2>6. QED BY <2>2, <2>3, <2>4, <2>5 DEF IInv
<1>2. ASSUME NEW u \in Subject, DeleteMe(u) \/ GraceEnds(u) \/ GoesStale(u)
      PROVE  IInv'
  BY <1>2, DeleteMeKeeps, GraceEndsKeeps, GoesStaleKeeps
<1>3. ASSUME NEW w \in Worker, Work(w) \/ Abort(w) \/ SessionDies(w)
      PROVE  IInv'
  BY <1>3, TakeLockKeeps, ClaimKeeps, NextRequestKeeps, EndTickKeeps,
     CollectKeeps, DeleteRowsKeeps, PurgeFailsKeeps, RemoveBlobKeeps,
     BlobStaysKeeps, FinishKeeps, FailKeeps, FindsItDeadKeeps, AbortKeeps,
     SessionDiesKeeps
  DEF Work
<1>4. ASSUME NEW x \in Writer, Write(x)
      PROVE  IInv'
  BY <1>4, LockFileKeeps, PutKeeps, CommitKeeps, RollbackKeeps DEF Write
<1>5. QED BY <1>1, <1>2, <1>3, <1>4 DEF Next

THEOREM Invariant == Spec => []IInv
BY InitOK, NextOK, PTL DEF Spec

(* Every row, tick and upload keeps its shape; two ticks never claim at    *)
(* once.                                                                   *)
THEOREM TypeCorrect == Spec => []TypeOK
<1>1. IInv => TypeOK
  BY DEF IInv
<1>2. QED BY <1>1, Invariant, PTL

(* Whatever dies and whoever takes over, a blob has its row or its key is  *)
(* noted in the request, unless no purge could know of it.                 *)
THEOREM BlobsAlwaysAccountedFor == Spec => []BlobsAccountedFor
<1>1. IInv => BlobsAccountedFor
  BY DEF IInv
<1>2. QED BY <1>1, Invariant, PTL

(* A completed request leaves nothing of its subject.                      *)
THEOREM CompletedIsAlwaysClean == Spec => []CompletedIsClean
<1>1. ASSUME IInv, NEW u \in Subject, req[u].status = "completed"
      PROVE  /\ account[u] = "purged"
             /\ \A f \in files : Owner[f] # u
             /\ \A k \in blobs : Owner[k.file] = u => Unknown(k)
  <2>1. /\ req[u].object_keys = {} /\ account[u] = "purged"
        /\ \A f \in files : Owner[f] # u
    BY <1>1 DEF IInv, Filed
  <2>2. \A k \in versions : Owner[k.file] # u
    BY <1>1, <2>1 DEF IInv, Rows
  <2>3. QED BY <1>1, <2>1, <2>2 DEF IInv, BlobsAccountedFor
<1>2. IInv => CompletedIsClean
  BY <1>1 DEF CompletedIsClean
<1>3. QED BY <1>2, Invariant, PTL

(* What a request becomes in one step.                                     *)
LEMMA RequestKeepsProgress ==
  ASSUME IInv, [Next]_vars, NEW u \in Subject, req[u].db_purged
  PROVE  /\ req'[u].db_purged
         /\ req'[u].object_keys = req[u].object_keys \/ req'[u].status = "completed"
<1>1. /\ req \in [Subject -> Request] /\ req[u] \in Request
      /\ req[u].status # "none"
  BY DEF IInv, TypeOK, Filed, NoRequest
<1>2. CASE UNCHANGED req
  BY <1>2
<1>3. ASSUME NEW v \in Subject, DeleteMe(v) \/ GraceEnds(v) \/ GoesStale(v)
      PROVE  req'[u].db_purged /\ req'[u].object_keys = req[u].object_keys
  <2>1. CASE DeleteMe(v)
    <3>1. v # u
      BY <1>1, <2>1 DEF DeleteMe, IInv, Filed
    <3>2. QED BY <1>1, <2>1, <3>1 DEF DeleteMe
  <2>2. CASE GraceEnds(v)
    BY <1>1, <2>2 DEF GraceEnds, Request
  <2>3. CASE GoesStale(v)
    BY <1>1, <2>3 DEF GoesStale, Request
  <2>4. QED BY <1>3, <2>1, <2>2, <2>3
<1>4. ASSUME NEW w \in Worker, Claim(w)
      PROVE  req'[u].db_purged /\ req'[u].object_keys = req[u].object_keys
  <2>1. PICK batch \in SUBSET {v \in Subject : Claimable(v)} :
          req' = [v \in Subject |->
             IF v \in batch
             THEN [req[v] EXCEPT !.status = "in_progress", !.stale = FALSE,
                                 !.attempts = @ + 1]
             ELSE req[v]]
    BY <1>4 DEF Claim
  <2>2. CASE u \in batch
    BY <1>1, <2>1, <2>2 DEF Request
  <2>3. CASE u \notin batch
    BY <2>1, <2>3
  <2>4. QED BY <2>2, <2>3
<1>5. ASSUME NEW w \in Worker, DeleteRows(w)
      PROVE  req'[u].db_purged /\ req'[u].object_keys = req[u].object_keys
  <2>1. /\ worker[w].pc = "delete" /\ Good(worker[w])
    BY <1>5, WorkerIsTick DEF DeleteRows
  <2>2. worker[w].cur \in Subject /\ ~req[worker[w].cur].db_purged
    BY <2>1 DEF Good, Current
  <2>3. worker[w].cur # u
    BY <2>2
  <2>4. QED BY <1>1, <1>5, <2>2, <2>3 DEF DeleteRows
<1>6. ASSUME NEW w \in Worker, Finish(w)
      PROVE  /\ req'[u].db_purged
             /\ req'[u].object_keys = req[u].object_keys \/ req'[u].status = "completed"
  <2>1. CASE req' = [req EXCEPT ![worker[w].cur].status = "completed",
                                ![worker[w].cur].object_keys = {}]
    <3>1. CASE worker[w].cur = u
      BY <1>1, <2>1, <3>1 DEF Request
    <3>2. CASE worker[w].cur # u
      BY <1>1, <2>1, <3>2
    <3>3. QED BY <3>1, <3>2
  <2>2. QED BY <1>2, <1>6, <2>1 DEF Finish
<1>7. ASSUME NEW w \in Worker, Fail(w)
      PROVE  req'[u].db_purged /\ req'[u].object_keys = req[u].object_keys
  <2> DEFINE st == IF req[worker[w].cur].attempts >= MaxAttempts
                   THEN "failed" ELSE "pending"
  <2>1. req' = [req EXCEPT ![worker[w].cur].status = st] \/ UNCHANGED req
    BY <1>7 DEF Fail
  <2> HIDE DEF st
  <2>2. CASE req' = [req EXCEPT ![worker[w].cur].status = st]
    BY <1>1, <2>2 DEF Request
  <2>3. QED BY <2>1, <2>2
<1>8. QED
  BY <1>2, <1>3, <1>4, <1>5, <1>6, <1>7
  DEF Next, Work, Write, vars, TakeLock, NextRequest, EndTick, Collect,
      PurgeFails, RemoveBlob, BlobStays, FindsItDead, Abort, SessionDies,
      LockFile, Put, Commit, Rollback

(* Once the database pass is marked, it stays marked and its keys stay     *)
(* noted until the request is completed.                                   *)
THEOREM ProgressIsAlwaysKept == Spec => ProgressIsKept
<1>1. IInv /\ [Next]_vars =>
        [\A u \in Subject : req[u].db_purged =>
           /\ req'[u].db_purged
           /\ req'[u].object_keys = req[u].object_keys
                \/ req'[u].status = "completed"]_vars
  BY RequestKeepsProgress
<1>2. QED BY <1>1, Invariant, PTL DEF Spec, ProgressIsKept

(* A file's row goes only after its owner asked and the grace passed.      *)
THEOREM NothingEverBeforeTheGrace == Spec => NothingBeforeTheGrace
<1>1. ASSUME IInv, [Next]_vars, NEW f \in files \ files'
      PROVE  req[Owner[f]].due /\ account[Owner[f]] = "deleted"
  <2>1. PICK w \in Worker : DeleteRows(w)
    BY <1>1
    DEF Next, Work, Write, vars, DeleteMe, GraceEnds, GoesStale, TakeLock, Claim,
        NextRequest, EndTick, Collect, PurgeFails, RemoveBlob, BlobStays, Finish,
        Fail, FindsItDead, Abort, SessionDies, LockFile, Put, Commit, Rollback
  <2>2. worker[w].pc = "delete" /\ Good(worker[w]) /\ Owner[f] = worker[w].cur
    BY <1>1, <2>1, WorkerIsTick DEF DeleteRows
  <2>3. /\ worker[w].cur \in Subject /\ ~req[worker[w].cur].db_purged
        /\ req[worker[w].cur].status = "in_progress"
    BY <2>2 DEF Good, Current
  <2>4. account[worker[w].cur] \in {"active", "deleted", "purged"}
    BY <1>1, <2>3 DEF IInv, TypeOK
  <2>5. QED BY <1>1, <2>2, <2>3, <2>4 DEF IInv, Filed
<1>2. IInv /\ [Next]_vars =>
        [\A f \in files \ files' :
           req[Owner[f]].due /\ account[Owner[f]] = "deleted"]_vars
  BY <1>1
<1>3. QED BY <1>2, Invariant, PTL DEF Spec, NothingBeforeTheGrace

===============================================================================
