# GarraRUST in TLA+

TLA+ models of the parts of GarraRUST whose correctness depends on history,
interleaving or failure; TLC configurations that check them on small instances;
and theorems about them, for every value of their constants, with proofs for
TLAPS. Every definition is translated from the Rust source (paths below are
relative to the repository); `PROJECT.json` maps each one to its lines.

1. [The system](#1-the-system)
2. [The modules](#2-the-modules)
3. [The runs and their bounds](#3-the-runs-and-their-bounds)
4. [Fairness](#4-fairness)
5. [What is proved](#5-what-is-proved)
6. [Where the code and its words differ](#6-where-the-code-and-its-words-differ)
7. [What the models leave out](#7-what-the-models-leave-out)
8. [The plan](#8-the-plan)

## 1. The system

GarraRUST is a gateway for a personal agent. Channels (WhatsApp, Telegram, a
WebSocket, the command line) bring messages of humans; the gateway starts a
**turn** of the agent for each; the turn asks a language model, runs the tools
the model calls for, and answers. Beside it, a multi-user **workspace** keeps
groups, chats, tasks and files in Postgres and an object store behind a REST
API, with background workers.

The components, the state they keep, and how they meet:

| Component | State | Operations | Meets | What is hard |
|---|---|---|---|---|
| Approval of dangerous calls (`garraia-agents/src/tools/pending_approval.rs`, `approval.rs`) | a map conversation -> pending question, in memory, bounded, with expiry | `resolve` at the start of a turn, `register` when a call pauses it | turns of all channels, under one mutex | turns of one conversation overlap; expiry, eviction, poisoning and restart between the question and the answer |
| Cadence guard (`garraia-gateway/src/bootstrap/whatsapp_linked/cadencia.rs`) | per chat: a sliding window of turns, a cut flag, a backoff, a count of bursts | `admitir`, `set_max`, `varrer` | the WhatsApp sink, before every paid turn | lazy pruning, sweeping under load, a ceiling reloaded under way |
| Agent turn (`garraia-agents/src/runtime.rs`) | the conversation so far, the batch of calls under way, a tool program | the tool loop, `dispatch_tool_call`, `executar_tool_program` | provider, tools, budget, breaker, approvals | two copies of the loop; programs that call back into the dispatch; early ends |
| Execution budget and loop detector (`execution_budget.rs`) | counters of turn and task, a window of signatures, a warning | `can_call_tool`, `registrar_*`, `veredito_de_loop`, `resetar_turno` | the agent turn | counters reset under way, two limits, a warning that must survive the reset |
| Tool breaker (`tools/breaker.rs`) | per session and tool: open for the turn, errors, timeouts, cooldown; a bounded list of sessions | `abrir_turno`, `estado`, `registrar` | every dispatch, before and after the tool runs | the tool is awaited without the lock: other turns, eviction and re-creation in between |
| Provider resilience (`provider_resilience.rs`, and its callers in `runtime.rs`) | four atomics and a lock per provider | `allow_request`, `record_success`, `record_failure` | every request to a model, with retries and fallbacks | the operations are not atomic together; requests are cancelled at awaits |
| Resumable uploads (`garraia-gateway/src/rest_v1/uploads.rs`, `uploads_worker.rs`, migration 032) | a row in Postgres, a staging file, an object | PATCH, DELETE, HEAD, the expiration sweep | clients that retry, the worker, the object store | three stores and no transaction over them; handlers dropped at any await |
| WebSocket connection (`garraia-gateway/src/ws.rs`) | the turn under way, a deferred queue of bounded length, a rate window, the last voice turn and its note | first frame, message, stop, pong, close, heartbeat, the events and the end of a turn | turns, which it runs and aborts | three sources in one select: the end of the turn, its last events and a stop are ready at once |
| Account erasure (`account_purge_worker.rs`, `rest_v1/me.rs`, `rest_v1/files.rs`, migration 034) | a request per subject with its progress, rows, objects, an advisory lock | request, claim, database pass, removal of blobs, close, retry | replicas of the worker, members adding versions, the object store | a store outside the transaction; a worker or its session dies at any step and another takes over |
| Groups (`rest_v1/groups.rs`, `invites.rs`, `me.rs`, `garraia-auth`) | members with role and status, invites | create, set role, remove, leave, invite, revoke, decline, accept by token or from the inbox | the extractor that read the role earlier; account erasure | checks before the transaction, two requests on one row, one invite taken twice |
| WhatsApp runner and bridge (`garraia-channels/src/whatsapp_linked/`, `garraia-cli/src/whatsapp.rs`) | the files of a linked session (`session.enc`, `.prev`, `session.key`, `session.salt`), the channel's switch, a child process | link, re-link, restore, logout; serve, persist, purge; restart with backoff, send | the operator's command and the gateway, over the same files; the sink; the child | two programs that nothing excludes from each other; deaths between two files; keys that outlive or miss their session; restarts racing messages |
| Other workspace workers (`tasks_recurrence_worker.rs`, `memory_retention_worker.rs`) | rows, under an advisory lock | one tick each | users editing the same rows | little: see 7 |
| Other REST handlers (`rest_v1/`) | rows | mostly one statement each | Postgres | little of their own |
| MCP manager, hardware automations, desktop supervisor | connections, devices, a child process | connect, restart, dispatch | tools, devices | restarts |
| Stores, authentication, channels, configuration, CLI, media, voice, plugins, learning | files, tables | request and response | the rest | little of their own |

A message on a channel therefore passes, in this order: the cadence guard
(`Cadencia`), the start of a turn, which resolves a pending approval
(`PendingApprovals`) and opens the turn in the breaker (`ToolBreaker`), then the
loop (`ToolTurn`), in which every request to a model goes through
`ProviderCircuit` and every call of a tool through budget, approval and breaker.
The session the WhatsApp channel speaks with is what `LinkStore` is about.
A message of the web chat arrives through `Connection`, which runs one turn at a
time and can abort it. `TusUpload`, `AccountPurge` and `Membership` are the
workspace side. The channels start **one task per message**,
so everything a session or a conversation owns is shared by turns that overlap:
that is the source of most of what the models explore.

What makes each component correct, in one line: an approval authorises exactly
what was asked, to whom it was asked, once and in time; a chat is never served
over its ceiling nor before its backoff ends, and a quiet one comes back; a turn
stays within its budget, does not repeat itself, and ends; a tool in cooldown is
not run; a provider's circuit opens on real failures, half-opens unless streams keep
failing, and closes when the provider is back and batches ask for it; a
stored file is the client's file, byte for byte, once; a chat's messages are answered in order and a stop stops its own turn;
an erased account leaves nothing behind, and nothing goes before its time; a group
keeps its owner, and an invite makes one member; a linked session can always be
opened again, and one that was logged out never.

## 2. The modules

One module per component, its MC module (model values, small sets, symmetry) and
its proofs (`_proofs`, which EXTEND the component and `TLAPS`). Two proof modules
hold two components each: `Breakers_proofs` the breakers of the tools and of the
providers, `LinkedChannel_proofs` the linked session and its cadence guard. That is
why the top-level names of `ProviderCircuit` and `Cadencia` carry a prefix
(`CircuitNext`, `CadenciaSpec`). Modules with theorems use no RECURSIVE operator. In every module the variables under
"what an observer ... has seen" are history: no action reads them, and the
properties are stated over them so that they do not merely repeat the
implementation's own bookkeeping. Definitions introduced by "A slip to check
against" are mistakes a maintainer could make in the definition that follows;
nothing uses them, and each run has been seen to fail when one takes its place.

**ApprovalContract** is the abstract specification: open questions, authority of
turns, executions. **PendingApprovals** is the code: the registry and its entries
with `created_at` and `expires_at`, and each turn as a small machine, received ->
running -> paused -> replying. `Resolve` and `Register` are the two critical
sections of the mutex; `Kept` is the purge, replacement and eviction inside
`register`; `Poison` and `Restart` empty the registry. The module ends with the
refinement mapping, and `KeepsContract` is the contract under it. The digest of
a call is a model value (two calls agree exactly when their digests do).

**Cadencia** is `CadenciaGuard`: one action for each of the three outcomes of
`admitir` (held by a backoff, cut by the ceiling, admitted), all of which begin
with the sweep and the reading of the live ceiling, as the code does. The loop that
pops the front of a chat's queue is `Pops` (how many) and `Since` (what is left);
`Doubling` is the doubling of the backoff up to its longest. The clock
is in units of the window. Suspect content has its own, lower ceiling.

**ToolTurn** is one turn, by the agent's loop or by the heartbeat's copy of it.
The model's answer is any batch of calls and programs; the outcome of a call is
any the dispatch can return. `Dispatch` is `dispatch_tool_call` with the order
the code has: budget, counting, loop verdict, then the outcome. A program opens
an envelope, runs its steps through the same `Dispatch`, and closes with a
report, or ends the turn.

**ToolBreaker** is the breaker under overlapping turns: `Start` reads the state,
the outcomes register later, after anything else happened. The bounded registry
of sessions (`entrada`) is the pair `ordem` / records; `Forget` is what eviction
and re-creation do to the records. `Recover` is a lock found poisoned, at any
moment: the registry starts over (`breaker.rs:450`), and with it what it promised.

**ProviderCircuit** splits `record_failure`, `record_success` and
`allow_request` into their individual atomic operations, under the retry and
fallback logic of `complete_reportando_provider` and
`stream_complete_with_fallback`. Empty answers, errors worth a retry and errors
that are not are told apart as in the code. Batches and streams differ where the code
does: a stream asks its primary without `allow_request`, records no success, and does
not retry. The observer's `streak` counts the failed answers of a provider as they are
seen; `Owing` are those its breaker has still to count.

**UploadContract** is what the upload promises its client: a counter of acknowledged
bytes that only moves on, one end, and with the last byte one file, whole from then
on. **TusUpload** is one upload: the committed row, the staging file as a sequence of
byte positions, the object, and each handler as a machine whose steps are its
awaits. `Cancel` drops a handler at any of them, leaving behind a write or a
rename that lands later (`Land`, `LandPut`). The worker's sweep and its removal
of the file are two steps. `Upsets` names which failures an instance allows. The
mapping at its end shows the contract only the row and, for each file row, the object
its key leads to now: what is staged, written late or put too early must not show.

**Connection** is the task of one WebSocket. `phase` says where it stands: the
wait for the first frame, the main loop, `drain_turns`, the select of
`run_streaming_turn`, the sending of a final frame. The turn's own task is the
record `task`, its events a count in a bounded channel. Each arm of each select is
an action, and the guards follow the order of the code: rate, size, stop, queue.
What the socket's task does without an await in which another task could matter is
one step. `Retained` is the `retain` over the window of the rate limit, element by
element. `Stop` frames carry what the code tells apart: the turn they name, another
session, how much of a voice answer was heard. Texts are followed by their size: an
event has any up to `MaxText` (none, when it is not a `TextDelta`), the frame goes out
whole, and `partial` takes of it what fits in `MaxPartial` (32 KiB in the code), cut
where a character of at most `CharBytes` ends (`Cut`). The properties are stated over
`msg`, what each message's sender was told and shown, and `history`, what
`persist_turn` wrote.

**AccountPurge** is the erasure of accounts. The request row, the rows of files and
versions, the objects in the store, the advisory lock and the locals of each
replica's tick are separate variables, and every statement that another process can
come between is an action: collecting the keys and deleting the rows are two,
because the transaction is READ COMMITTED and the DELETE waits for row locks. `Abort`
is the death of a worker or the failure of a statement of its own, `SessionDies` the
loss of its database session while it is busy with the object store. Instants are
kept as what the claim asks of them (`due`, `stale`).

**Membership** is one group: rows of members, rows of invites, and the requests
under way, each with the role the extractor read. `LockTarget` and `ChangeMember`
are the two halves of the transaction of `set_member_role` and `delete_member`;
`MatchToken` is the part of `accept_invite` before its transaction.

**LinkStore** is the directory of a linked WhatsApp session, file by file: `live`
(`session.enc`), `prev` (`session.enc.prev`), `keyfile` (`session.key`) and `salt`
(`session.salt`). Sessions and keys are numbers in the order they were made, and a
file is a session with the key that seals it. `cli` is the operator's command (link,
re-link, restore or logout, one at a time) and `gw` the supervisor of the gateway
(boot, serve, persist, purge, switch off). Whatever touches one file is one action;
`Dies` and `Stop` end either program between any two, guard and all; `Fails` is every
early return, which does drop the guard of `link_paired`. `Resolves` is
`SessionKey::resolve`: the key the directory has, or a new one, with the passphrase or
without. The history is `linked`, the session the operator counts on, and `gone`,
those logged out; `Save` and `RestoreMove` set `linked` only for a command that had
the gateway down all along (`alone`), for the reasons in section 6.

## 3. The runs and their bounds

To run one: `tlc -config <cfg> <module>`. The "violation" run states what a comment
of the repository says and shows that the code does otherwise.

| Run | Configuration | Shows |
|---|---|---|
| `approval_registry` | `PendingApprovals.cfg`: 2 conversations, 2 senders, 2 requests, 2 overlapping turns, capacity 1, TTL 1, clock to 2, 3 questions, each request run once per turn | `FirstAnswerDecides`: an entry decides once; `KeepsContract`: the registry and its turns implement `ApprovalContract` |
| `cadencia` | 2 chats and a table for 1, window 2, default ceiling 1, ceiling reloaded among 0 (none) and 2, longest backoff 4, grace 3, clock to 6 | `CeilingHolds`, `BackoffServed`, `QuietChatReturns`, `NoticeOnce` |
| `tool_turn` | 2 tools, programs that repeat a call, are broken or empty, batches of up to 2, limits (turn, task) = (3,5), (5,6), (4,3), (2,0), both loops | `BudgetHolds`, `RoundsBounded`, `NoThirdRun`, `WarnedNeverRuns`, and that every turn ends (`TurnEnds`) |
| `tool_breaker` | 2 sessions and 2 turns over a registry of 1 session, 2 contexts, cooldown 1 to 3, 2 equal errors to open, clock to 4 | `RegistryConsistent`, `CooldownServed`, `AloneTurnGivesUp` |
| `provider_circuit` | 1 provider, 2 requests, each a batch or a stream, threshold 3, 1 retry, 2 successes to close, recovery 2, no cancellation | `OpenEnds`: a circuit stays shut for good only while streams keep stamping it; `Recovers`: the circuit of a primary that is healthy for good, and that batches keep asking for, closes for good (liveness); `OpensOnConsecutive` |
| `provider_chain` | primary and fallback, 1 request at a time, batch or streamed, threshold 5 and 3 retries as in the code, cancelled anywhere | `OneRequestNeverOpens` |
| `tus_upload` | 2 requests and the worker, 3 bytes cut in every way, staging up to 5 bytes, every failure | `FileIsWhole`, `AcknowledgedIsStaged`; `KeepsContract`: row, staging file and store implement `UploadContract` |
| `connection` | up to 4 messages (a voice turn, then a voice turn or a text without stream, then one that is refused, then a text), every stop, queue of 2, channel of 1, 1 event a turn, of up to 2 bytes of text, a cap of 1 on what is collected and characters of up to 2, rate of 2 per unit of time, interval 1 and timeout 0, clock to 1 | `AnswersInOrder`, `NothingDropped`, `StopSilences`, `AnswerIsWhole`, `InterruptedKeepsWhatWasShown`, `NoteIsOfADeliveredAnswer`, `StopEndsTheTurn` (liveness) |
| `account_purge` | 2 subjects, 1 file, 2 replicas, 1 writer of a version, 2 attempts, batches of 2, 1 death | `BlobsAccountedFor`, `CompletedIsClean`, `ProgressIsKept`, `RequestSettles` (liveness) |
| `purge_orphan` (violation) | 1 subject, 1 file, 1 replica, 1 writer, no deaths | `NoOrphan`: see 6 |
| `membership` | 3 users, 2 requests at once, 2 invites, 1 erasure | `OwnerStays`, `OneMemberPerInvite`, `HierarchyHolds` |
| `link_store` | 2 devices, 3 keys, with and without the passphrase, a command and a gateway that fail or die at any step, the server refusing a device at any time | `LinkedIsRecoverable`, `LoggedOutStaysOut` |

Every component has a theorem for its type invariant; three of those invariants are
also checked by a run (`CadenciaTypeOK`, `CircuitTypeOK`, `TypeOK` of `Connection`),
the others are left to the proofs. Some have a theorem for a further property (`RegistryBounded`, `EvictionTakesTheOldest`, `WarnedBeforeAborted`, `OneFile`,
`EndsOnce`, `StopHitsItsTurn`, `NothingBeforeTheGrace`, `RemovedStaysOut`, `AcceptedIsFinal`): those
too are left to section 5 and to no run.

Why the bounds are enough:

- **Approvals.** What can go wrong needs two turns of one conversation, or of two
  that compete for a place; a second sender; a second request to confuse with the
  first; a question that replaces another. Each is there with exactly two. A
  capacity of 1 makes every registration of another conversation an eviction, and
  a TTL of 1 with a clock to 2 gives an entry an instant in which it lives and one
  in which it has expired. Which entry an eviction of several takes does not show
  at this capacity: theorem `EvictsOldest` covers it for every capacity.
- **Cadence.** The sweep only acts when a new chat meets a full table, hence two
  chats and a table for one. The clock reaches past a window, a whole backoff and
  the grace that follows. Section 5 lifts all four properties to any chats, table,
  window, ceilings and backoffs.
- **Tool turn.** Three equal calls fill the loop window; limits (5,6) let a program
  of two equal calls be followed by another in one turn, (3,5) reset the turn and
  go on, (4,3) reach the task's limit first, (2,0) start with nothing.
- **Breaker.** With one place for two sessions every change of session is an
  eviction, also under a tool being awaited. The clock covers two growing cooldowns.
- **Provider.** Two requests race on one breaker: more would race on the same two
  critical sequences. With two requests a threshold of 3 is over what one can
  count (one call and one retry). A recovery of 2 lets a failure land while the
  circuit waits, which stamps it again before it is half-open: streams can keep
  it shut for good, and the run has that behaviour. The age of the last failure is
  kept up to `Recovery`, after which nothing depends on it, so time is unbounded. For
  `OneRequestNeverOpens` the threshold and retries are the code's own defaults.
  Section 5 lifts `OpensOnConsecutive` to any requests, providers and limits, and
  `OneRequestNeverOpens` to any providers and limits, one request at a time; the two
  liveness properties stay with these bounds.
- **Uploads.** Two requests are what the row lock arbitrates; three bytes give a
  first, a middle and a last PATCH; two bytes of slack in the staging file are
  enough for one stray write and for two. The theorems of section 5 lift all of
  this to any length, any number of requests and any staging.
- **Connection.** Four messages are one that runs, two that wait behind it and one
  that meets a full window, a full queue or one that a stop emptied; the bounded
  channel of one makes the turn's task wait for the socket. A text of one byte fits in
  the cap, one of two goes past it, and its cut may fall in a character. That texts of
  several events add up to the cap is left to the theorems of section 5, which lift the
  safety properties to any client, channel, queue, cap and number of events.
- **Erasure.** Two replicas are what the lock and the takeover are about; one death
  may fall on any step, of either. A second subject is what a batch and a lost lock
  may confuse with the first. Section 5 lifts the safety to any number of each.
- **Groups.** Three users are an owner, a manager and the one they act on; two
  requests are what the row lock arbitrates, two invites what a user may hold at
  once. Section 5 lifts it to any number.
- **Linked session.** Two devices are the old and the new of a re-link; three keys are
  the random one, the one of the passphrase, and one made anew after a purge. Section
  5 lifts both to any number.

`ToolTurn.cfg` disables the deadlock check: a turn that ended has no step. So do
`Connection.cfg` (a closed socket), `AccountPurge.cfg` (everybody erased),
`Membership.cfg` (a group whose only rows are removed and whose invites are spent)
and `LinkStore.cfg` (nothing linked and no key left of the bound).
Symmetry is declared only in runs with no liveness property.

## 4. Fairness

- `ToolTurn`: weak fairness of `Next`. A turn is one sequential task; every tool
  runs under a timeout; that the provider answers or fails is assumed (its client
  has a timeout). `TurnEnds` then rests on the budget and on nothing the model does.
- `ProviderCircuit`: weak fairness of time and of a request under way (a provider's
  answer is bounded by the client's timeout). Nothing is assumed of what is asked, nor
  of the providers' health: the two liveness properties state their conditions
  themselves. `OpenEnds` excuses a circuit that streams stamp again and again;
  `Recovers` is about a primary that ends up healthy and that batches keep asking for,
  since a circuit only closes when a batch tells it so. Section 6 says why neither
  condition can be dropped. The run has no cancellation, also for a reason of section 6.
- `Connection`: weak fairness of what the socket's task does once something is
  ready, and of the dropping of an aborted task at its next await: both are the
  runtime's. Nothing is assumed of the client, of time, nor that a turn ends by
  itself: `StopEndsTheTurn` rests on the abort alone.
- `AccountPurge`: weak fairness of time, of every replica's tick
  (`spawn_account_purge_worker` loops for ever) and of the end of a request that
  holds a file's row. Deaths are bounded by `MaxAborts`: were every claim's worker
  to die, nothing would settle.
- The other specifications have no fairness: only safety is claimed of them.

## 5. What is proved

Each proof is about the specification for every value of the constants, from the
module's named assumption alone (`ApprovalAssumption`, `ToolTurnAssumption`,
`BreakerAssumption`, `UploadAssumption`, `StoreAssumption` and so on: the constants have the right kinds, the
capacities and limits are not zero).

**Approvals** (`PendingApprovals_proofs`).
`TypeCorrect`: `Spec => []TypeOK`. `Bounded`: the registry never exceeds its
capacity; inductive with `BoundInv`, the type and finiteness of the registry, since
the step that matters counts `Live` minus the oldest plus one. `EvictsOldest` is
the action property that a registration only drops a live entry of another
conversation when the registry is full of live ones, and then one at least as old
as all it keeps. `DecidesOnce`: by `VerdictInv`, entries carry distinct
numbers, up to the count of questions asked, and the verdict of an entry still in
the registry is open. `Refines`: `Spec => KeepsContract`; each action maps to a
step of the contract or stutters (`ResolveMaps` to `Answer`, `RegisterMaps` to
`Ask` with the evicted and expired ones forgotten, `ExecuteMaps` to `Run`, the
ends, poison and restart to `EndAndForget`).

**Turn** (`ToolTurn_proofs`).
`TypeCorrect` by `TypeInv`, which adds that a program under way is the head of the
batch. `RunsWithinBudget` by `BudgetInv` (what ran was counted). `RoundsPaidFor`
by `RoundInv`: an answer asked is matched by a counted call, except the last; this
is why the program's envelope must be counted even when none of its steps is.
`WarnsBeforeAborting` and `NeverRunsAfterWarning` by `WarnInv`: the flag, the
signature and the observer's list agree, and the list has at most one.
`NeverRunsThrice` by `LoopInv`, which relates the observer's last calls to the
detector's window: the window is at least as informed as the observer.

**Breaker of the tools** (`Breakers_proofs`).
`RegistryStaysConsistent`: `RegistryConsistent` with the facts that a session
outside the queue has fresh records and that open turns name sessions; the lemmas
about queues (tail, append) carry it through eviction and re-creation. `TypeCorrect`,
with the ceiling of a cooldown. `CooldownIsServed` by `Remembered`: what the record
holds is the last cooldown earned, and a tool with one to serve has timeouts in a
row, which is the condition under which the next turn keeps it (`Kept`).
`AloneTurnAlwaysGivesUp` by `Solo`: while no other turn of its session is open, the
record of the session says of a turn exactly the errors it got and the tools that
are doomed in it, through evictions that other sessions' turns cause.

**Providers** (`Breakers_proofs`).
`CircuitTypeCorrect` and `OpensOnlyOnConsecutive` hold for any number of requests, with
nothing assumed of when they run. `OpensOnlyOnConsecutive` rests on `RowInv`: what a
closed circuit has counted, together with the answers *owed* (seen, not yet counted, by
any request), is no more than what failed in a row, unless a good answer is being
recorded at that moment. A failed answer is seen before it is counted, and the empty
answer of a primary that a batch retries is counted only when the request leaves it, so
the invariant sums both, over all requests (`OwingCount`). This is why the observer's
`streak` starts over, after a good answer, from what the others owe and not from zero:
failures seen before the good answer are counted after it, and the property says that
nothing else outlives it.
`OneRequestIsNotEnough` is about a request alone and says so in its hypotheses:
`OneAtATime`, no two requests at once (with two, the failures of both add up), and
`FewTries`: `MaxRetries + 1 < Threshold` (3 and 5 in the
code) and a chain that names each provider once. The code skips the primary among the
fallbacks (`runtime.rs:4472`) but not a fallback listed twice; such a list is outside
that theorem, since its two visits may count one failure each time. It rests on
`CleanInv`: at a provider that had no failure counted, the count is at most the tries of
this request, and zero at those it has not reached. `PlaceInv` says which steps belong to
a batch and which to a stream. Both theorems hold with requests dropped at any await.

**Uploads** (`TusUpload_proofs`).
`TypeCorrect`, `Integrity` (`FileIsWhole`), `CompletesOnce` (`OneFile`),
`NothingAcknowledgedIsLost` (`AcknowledgedIsStaged`), `EndIsFinal` (`EndsOnce`), and
`Refines`: `Spec => KeepsContract`.
None is inductive alone. `Inv` adds: one handler at most holds the row
(`OneHolder`) and knows what the row says (`HoldersKnow`); and the argument that
makes resumption sound, `Ledger` and `Overlong`. Bytes only ever enter the
staging file behind those already there. So as long as the file is exactly as long
as the acknowledged offset, plus what the present holder appended, it is the
client's; the first byte that does not belong makes it longer than that, and it
never becomes shorter while the upload can go on. The size check before the put
therefore accepts the client's bytes only. `PutIsWhole` carries this to the object
until the commit, and through renames that land after their caller is gone;
`RemovedAfter` says the file is only removed once the row has ended. For the refinement, a commit maps
to `Accept` (`CommitMaps`: the holder claims the committed offset, and if its bytes are
the last the object is whole), a DELETE or a sweep that finds the upload under way to
`Abort` or `Lapse`, and everything else to a stutter: by `MadeIs` the files made depend
on the row alone, so no put, late rename or crash changes them.

**Connection** (`Connection_proofs`).
The central invariant orders the messages: what is answered, then the one that
runs, then the queue in increasing order, then what came after the last; refusals
for a full queue are final at once. `AnswersAlwaysInOrder` and `NothingEverDropped`
follow from it. `StopAlwaysHitsItsTurn` and `StopAlwaysSilences` rest on the
locals of the turn being those of one message from `Start` to its final frame.
`AnswerIsAlwaysWhole` counts: what the turn's task made is what was shown plus what
is in the channel while nothing was stopped, and `Over` asks for an empty channel.
`InterruptedAlwaysKeepsWhatWasShown` rests on `Collected`: while a turn runs, what it
collected covers the text that was shown, up to the cap, and of a stream is no more than
that; `CutCovers` is the step, for any cap and any characters.
`NoteIsAlwaysOfADeliveredAnswer` follows the history from the answer that is kept to the
frame that delivers it. `TypeCorrect`
comes last, since its bounds follow from the others: `Clock` bounds the window
(`RetainedBounds`: `retain` keeps times, and no more than there were), `Sizes` the
queue, the channel and the events made, `Collected` what is collected and kept.

**Erasure** (`AccountPurge_proofs`).
`TypeCorrect`, `BlobsAlwaysAccountedFor`, `CompletedIsAlwaysClean`,
`ProgressIsAlwaysKept`, `NothingEverBeforeTheGrace`, all from one inductive
invariant. Its parts say what a replica may believe: what it claimed was claimable
then, and is in progress or was finished by a replica that took it over; the keys it
has left are among those the request noted; a session that has the lock belongs to
the one replica that may be between the claim and the end of its database pass. The
last is what makes the takeover sound: a replica that lost its session can only
remove blobs, which is idempotent, and cannot close or fail the request.

**Groups** (`Membership_proofs`).
`TypeCorrect`, `OwnerAlwaysStays`, `InvitesMakeOneMember`, `HierarchyAlwaysHolds`,
`RemovedAlwaysStaysOut`, `AcceptedIsAlwaysFinal`. The invariant adds that a request
that holds a row has passed the gate against the role the row has now (nobody else
can change it while it is held), and that the row of the owner can only be held by
its owner.

**Linked session** (`LinkedChannel_proofs`).
`TypeCorrect`, `LinkedAlwaysRecoverable`, `LoggedOutAlwaysStaysOut`, by an invariant
of three parts. `Shape`: a file on disk is sealed with a key, a program past its start
has one. `GoneInv`: whatever still holds a session that was logged out, a file or a
gateway, has a key that is on disk no longer and that no command has in hand. A key
is never made twice, so what such a gateway writes back stays sealed. This needs the
order of the purge: when the salt is about to go, `session.key` is already another or
absent. `LinkInv` says where the session counted on is at each point of a command: in
the archive until the new one is saved, in `session.enc` otherwise; a gateway that
serves serves that one, and none is purging.

**Cadence guard** (`LinkedChannel_proofs`).
`GuardTypeCorrect`, `NoticeSentOnce`, `CeilingAlwaysHolds`, `BackoffAlwaysServed` and
`QuietChatAlwaysReturns`: everything its run checks. The code prunes a queue only when
its chat writes and forgets a chat only when a new one meets a full table; the
properties are stated over what an observer saw, which never forgets. `TurnsInv` links
the two: the queue of a chat has, in order, every turn it was admitted within the last
window, so lazy pruning and the sweep lose none that counts. `BackoffInv`: a backoff
not yet served is in the map, since the sweep spares what has not ended, and none in
the map outlasts the longest one counted from the chat's last message. `NoticeInv`:
a chat that was told has the record that says so, or no turn left in the window.

That `Doubling` and the function behind `Retained` are defined, and their bounds, and
that the loop of `Pops` stops, is proved by the least counterexample: the set of
numbers for which the claim fails has a least element (`LeastNatural`, from the
well-foundedness of `<`), and one step back contradicts it.

Only model-checked: the liveness properties (`TurnEnds`, `OpenEnds`, `Recovers`,
`StopEndsTheTurn`, `RequestSettles`), out of the prover's reach. Every safety property
that a passing run checks has a theorem.

## 6. Where the code and its words differ

One run shows it:

- **`purge_orphan`.** Migration `034:368` collects the keys of the blobs before any
  DELETE so that no blob is left an orphan for ever. The collection locks nothing. A
  member who is adding a version holds the file's row (`files.rs:1242`) and may commit
  after the collection; the DELETE waits for that row, then removes the new version by
  cascade. Its blob is in no list, and the request closes as completed.

Others met while modelling. The models contain the behaviour; no run is about it:

- `pending_approval.rs:240` lets a newer question replace an older one because the
  yes answers the last, "que e o que o humano acabou de ler". A turn registers its
  question (`runtime.rs:2330`) before the reply that shows it is delivered
  (`whatsapp_linked.rs:1877`), and channels run one task per message: a yes to the
  question on the screen may settle one that has not been shown yet.
- `cadencia.rs:48` says the grace must be greater than the longest backoff (480 s);
  the constant is 300 s (`:52`). A burst that follows a long backoff is forgiven
  before it counts, so a chat that insists falls back to the first level.
- `breaker.rs:20` says a permanent failure opens the breaker "ate o fim do turno";
  a turn that begins in the same session clears it for the one that is running
  (`:292`).
- `provider_resilience.rs:27` describes how long the circuit stays open.
  `record_failure` opens it (`:98`) and then awaits a lock before it notes the
  instant; a request dropped there leaves a circuit with nothing to count from, open
  for ever. `provider_circuit` therefore runs without cancellation; `provider_chain`
  has it.
- `ws.rs:511` says the heartbeat no longer starves in a long turn, and `:802` that
  pongs count again. Pongs are read, but no ping is sent while a turn runs
  (`ws.rs:339`): after a turn longer than the timeout the first beat closes a client
  that answered every ping it got, unless a frame of its own came in between.
- `ws.rs:376` explains that a stop is a request and not a question. The first frame
  of a socket is not tried for one (`:301`), nor against the rate and the size.
- `groups.rs:976` keeps a group from ever being without an active owner. The erasure
  of the owner's account does not ask (`034:413`); from then on every change of role
  and every departure counts no owner and answers 409, although `groups.rs:1244` says
  any member can leave. `OwnerStays` is about groups whose creator was not erased.
- `groups.rs:972` speaks of a co-owner; no request can make one.
- `invites.rs:197` says the guard of the UPDATE closes any gap after the check for
  expiry; the UPDATE (`:233`) asks for `accepted_at` only. An invite that expires, is
  revoked or declined after the scan, or was revoked or declined before it, still
  makes a member when its token is brought.
- The unique index of pending invites (`025:25`) counts one that has expired: the
  address cannot be invited again until somebody revokes it.
- `garraia-cli/src/chat.rs:455` says the approved request runs once; `Execute`
  does not use the grant up, because `runtime.rs:2307` clones it for every call.
- `runtime.rs:2199` says results already collected are no longer thrown away with
  "execution budget exceeded"; a program whose step meets a spent task
  (`ProgramOverBudget`, `runtime.rs:4045`) still ends the turn so.
- `provider_resilience.rs:25` counts *consecutive* failures; a stream that succeeds
  does not record a success (`runtime.rs:4556`), so with streams between them
  failures add up, also those of several requests. `OpensOnConsecutive` therefore counts
  good answers to batches only.
- `provider_resilience.rs:27` is how long the circuit stays open before it is half-open.
  A stream calls its primary without asking the breaker (`runtime.rs:4555`), and every
  failure past the threshold stamps the circuit again (`runtime.rs:4576`,
  `provider_resilience.rs:97`): streams that fail more often than the recovery time keep
  it open for as long as they come, and batches away from the primary with it.
  `OpenEnds` says that nothing else does.
- A provider asked by streams alone never gets its circuit closed, however healthy: a
  stream records no success. As a primary of streams it is still called, but the next
  failure shuts it again for a whole recovery time. `Recovers` therefore asks for batches.
- `uploads.rs:640` documents the 502 as safe to retry. The retry appends the same
  bytes again (`:756`) and `finalize_upload` refuses it for the size of the staging
  file (`:1081`).
- `uploads.rs:844` says an upload in progress has nothing in the bucket; a commit
  that fails after the put leaves an object there (`Put`, then `CommitFails`).
- `uploads.rs:977` leaves a staging file that could not be removed to the worker;
  the worker only removes files of rows it has itself just expired (`CleanFails`,
  `SweepFileFails`, `Crash`, and no action removes the file later).
- `garraia-cli/src/whatsapp.rs:1405` tells the operator a new link is valid without a
  restart. A gateway that still serves the previous session writes it back at its next
  update (`runner.rs:1722`) over the one just saved; and one that purges a dead session
  while the command shows its QR shreds `session.key` and `session.salt`, so the new
  session is saved under a key that is nowhere. `LinkedIsRecoverable` is therefore about
  what is linked or restored with the gateway down, and a gateway started afterwards.
- `whatsapp.rs:1099`: a re-link that ends with a dead session brings the previous one
  back and says nothing was unlinked; `disable_channel` has switched the channel off.
- `runner.rs:794` keeps the loaded session when no update came. If a QR archived it in
  between, `had_existing` is still true: the pairing succeeds and the channel is
  switched on with no session in use (`ShowQr`, `KeepSession`).

## 7. What the models leave out

- Data: texts, arguments, digests, tokens and costs are model values or choices.
- Memory ordering: the atomics of `provider_resilience.rs` are relaxed in the code
  and sequentially consistent in the model; each is read and written alone.
- Power loss: only the death of the process is modelled. What was written stays.
- In `TusUpload`: creation (the initial state), HEAD (reads only), audit rows, the
  advisory lock that keeps one worker alive (the row lock and SKIP LOCKED decide),
  and the S3 backend, whose put is one request.
- In `Cadencia`: the hourly counter of the diagnostics, and the fail-open of its caller:
  a turn that finds the mutex of the guard poisoned is admitted without asking it
  (`whatsapp_linked.rs:1796`), and so is every later one. The guard's properties are
  about the messages it is asked about.
- In `ToolTurn`: prompt building, memory, compaction, token streaming, and the
  aggregate clock of a program beyond the stop it may cause.
- In `ProviderCircuit`: the length of backoffs between retries; `reset()`, which
  nothing in production calls.
- In `Connection`: texts but for their size (after a cut that left a byte free, at
  `ws.rs:838`, a shorter text may still be appended, so that what is kept lacks a
  character in its middle: `InterruptedKeepsWhatWasShown` is about how much is kept),
  the session table the socket's turns read and write (two sockets of one session,
  hydration, the sweep of old sessions), reconnection, and the ten seconds of the wait
  for a first frame, which only end that wait.
- In `AccountPurge`: the rows that are redacted in place (steps 4 to 10 are one
  transaction with the deletes), audit rows, and uploads in flight.
- In `Membership`: other groups, archiving (nothing asks for it), bans (nothing
  sets one), and `anonymize_me`, which moves an address and the invites to it alike.
- In `LinkStore`: a death inside the shredding of one file, torn files, two programs
  that make the same key at once, a passphrase that changes, two commands at a time,
  the installation of the bridge and its protocol, the count of QR codes, and every
  deadline and the pace of reconnection.
- The recurrence worker: its sweep (`033:71`) asks for `completed_at` and
  `recurrence_rrule`; `patch_task` sets the status alone and nothing sets the rule, so
  no state of the program has work for it. Retention is one statement per tick.
- Components with no module are listed in `PROJECT.json` with the reason: they are
  planned, or pure I/O, or one SQL statement per operation.

## 8. The plan

In order of what matters most:

1. *Done.* Approvals and their contract; the turn with its budget; the breaker;
   provider resilience; the cadence guard; uploads.
2. *Done.* `Connection`, `AccountPurge`, `Membership`, `LinkStore`, each with its proofs.
3. `Sessions`: the table the sockets and channels share: resume, disconnection,
   hydration and the sweep, under `Connection`.
4. `LinkedRunner`: the WhatsApp child process over the files of `LinkStore`, with its
   restarts and the messages that cross them, composed with `Cadencia` and `PendingApprovals`: a message of a
   channel from its arrival to its answer.
5. `McpManager`, then the desktop supervisor once the shell uses it.

Theorems to add: an abstract specification of one chat of the socket (messages answered in the
order they came, a stop of the one that runs) that `Connection` implements.
