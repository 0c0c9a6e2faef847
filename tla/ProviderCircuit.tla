--------------------------- MODULE ProviderCircuit ---------------------------
(***************************************************************************)
(* The circuit breakers of the LLM providers (garraia-agents:              *)
(* provider_resilience.rs) under the requests that use them                *)
(* (complete_reportando_provider and stream_complete_with_fallback of      *)
(* runtime.rs): retries on the primary, then the fallbacks in order.       *)
(*                                                                         *)
(* A breaker is three atomics and a locked instant, written one by one by  *)
(* requests of any thread, so every load and store is a step of its own    *)
(* (taken in program order: the reorderings Relaxed allows are left out).  *)
(* Time is the age of the last failure.  Backoff, bookkeeping of usage and *)
(* of credentials, and the text of the answers are left out.               *)
(***************************************************************************)
EXTENDS Integers, Sequences, FiniteSets

CONSTANTS Provider, Request,
          Chain,        \* the primary, then the fallbacks, in order
          Kinds,        \* the kinds of requests made: "batch", "stream"
          Threshold,    \* failure_threshold
          Recovery,     \* recovery_timeout
          HalfOpenSuccesses,  \* half_open_successes
          MaxRetries,   \* retry_policy.max_retries
          Cancels       \* whether a request may be dropped at an await

ASSUME CircuitAssumption ==
  /\ Chain \in Seq(Provider) /\ Chain # <<>> /\ IsFiniteSet(Request)
  /\ Kinds \subseteq {"batch", "stream"}
  /\ Threshold \in Nat \ {0} /\ Recovery \in Nat \ {0}
  /\ HalfOpenSuccesses \in Nat \ {0} /\ MaxRetries \in Nat
  /\ Cancels \in BOOLEAN

VARIABLES
  failure_count, success_count, is_open,
  age,       \* since last_failure, up to Recovery; Never: None
  healthy,   \* providers that answer
  req,       \* request -> what it is doing
  \* what an observer of the providers has seen
  streak,    \* provider -> failed answers since its last good one to a batch, and
             \* those that its breaker had still to count when that one came
  clean      \* providers that had no failure counted when the request began

breaker == <<failure_count, success_count, is_open, age>>
observed == <<streak, clean>>
circuitVars == <<breaker, healthy, req, observed>>

Never == -1

IdleRequest == [pc |-> "idle", kind |-> "batch", i |-> 1, attempt |-> 0, vazias |-> 0,
                vazio |-> FALSE, n |-> 0, then |-> "done"]

AtMost(n, bound) == IF n < bound THEN n ELSE bound

CircuitInit ==
  /\ failure_count = [p \in Provider |-> 0]
  /\ success_count = [p \in Provider |-> 0]
  /\ is_open = [p \in Provider |-> FALSE]
  /\ age = [p \in Provider |-> Never]
  /\ healthy \in SUBSET Provider
  /\ req = [r \in Request |-> IdleRequest]
  /\ streak = [p \in Provider |-> 0]
  /\ clean = [r \in Request |-> {}]

At(r) == Chain[req[r].i]

(* q goes on with the next provider of the chain, or fails *)
NextProvider(q) ==
  IF q.i < Len(Chain) THEN [q EXCEPT !.i = @ + 1, !.pc = "gate"] ELSE IdleRequest

(* q once its outcome is recorded; the primary owes one more failure when  *)
(* any of its answers was empty.                                           *)
Proceed(q) ==
  CASE q.then = "done"            -> IdleRequest
    [] q.then = "retry"           -> [q EXCEPT !.pc = "call"]
    [] q.then = "leave" /\ q.vazio -> [q EXCEPT !.pc = "failed", !.vazio = FALSE]
    [] OTHER                      -> NextProvider(q)

Goto(r, pc) == req' = [req EXCEPT ![r].pc = pc]

(* The failed answers of p that its breaker has still to count *)
Owes(q, what) ==
  \/ what = "answer" /\ q.pc = "failed"
  \/ what = "empty" /\ q.vazio /\ q.pc \in {"call", "failed", "failed_success", "open", "stamp"}

Owing(p) ==
  {o \in Request \X {"answer", "empty"} : At(o[1]) = p /\ Owes(req[o[1]], o[2])}

OwingOfOthers(p, r) == {o \in Owing(p) : o[1] # r}

-------------------------------------------------------------------------------
(* A stream calls its primary without asking the breaker *)
Begin(r, kind) ==
  /\ req[r].pc = "idle"
  /\ req' = [req EXCEPT ![r] = [IdleRequest EXCEPT
                                 !.kind = kind,
                                 !.pc = IF kind = "batch" THEN "gate" ELSE "call"]]
  /\ clean' = [clean EXCEPT ![r] = {p \in Provider : failure_count[p] = 0}]
  /\ UNCHANGED <<breaker, healthy, streak>>

(* allow_request: is_open, and then the age of the last failure *)
Gate(r) ==
  /\ req[r].pc = "gate"
  /\ Goto(r, IF is_open[At(r)] THEN "gate_age" ELSE "call")
  /\ UNCHANGED <<breaker, healthy, observed>>

GateAge(r) ==
  /\ req[r].pc = "gate_age"
  /\ req' = [req EXCEPT ![r] = IF age[At(r)] = Recovery THEN [@ EXCEPT !.pc = "call"]
                                                        ELSE NextProvider(@)]
  /\ UNCHANGED <<breaker, healthy, observed>>

-------------------------------------------------------------------------------
(* The answers of a provider                                               *)

Served(r) ==
  /\ req[r].pc = "call" /\ At(r) \in healthy
  /\ req' = [req EXCEPT ![r] = IF @.kind = "batch"
                                 THEN [@ EXCEPT !.pc = "success", !.then = "done"]
                                 ELSE IdleRequest]
  /\ streak' = IF req[r].kind = "batch"
                 THEN [streak EXCEPT ![At(r)] =
                         AtMost(Cardinality(OwingOfOthers(At(r), r)), Threshold)]
                 ELSE streak
  /\ UNCHANGED <<breaker, healthy, clean>>

(* A slip to check against: one retry too many.                            *)
CanRetryOnceMore(q) == q.kind = "batch" /\ q.i = 1 /\ q.attempt <= MaxRetries

CanRetry(q) == q.kind = "batch" /\ q.i = 1 /\ q.attempt < MaxRetries

(* An error: only the primary of a batch retries, and only what may pass;  *)
(* transport, credential and quota errors go straight to the fallbacks.    *)
Refused(r, retryable) ==
  LET q == req[r] IN
  /\ q.pc = "call" /\ At(r) \notin healthy
  /\ req' = [req EXCEPT ![r] =
               IF retryable /\ CanRetry(q)
                 THEN [q EXCEPT !.pc = "failed", !.attempt = @ + 1, !.then = "retry"]
                 ELSE [q EXCEPT !.pc = "failed", !.then = "leave"]]
  /\ streak' = [streak EXCEPT ![At(r)] = AtMost(@ + 1, Threshold)]
  /\ UNCHANGED <<breaker, healthy, clean>>

(* Any other error of the primary is the caller's, and counts for nothing *)
Rejected(r) ==
  /\ req[r].pc = "call" /\ req[r].i = 1 /\ At(r) \notin healthy
  /\ req' = [req EXCEPT ![r] = IdleRequest]
  /\ UNCHANGED <<breaker, healthy, observed>>

(* An empty 200 to a batch: the primary may retry once, and owes a single  *)
(* failure when it is left; a fallback records it at once.                 *)
Empty(r) ==
  LET q == req[r]
      again == q.vazias = 0 /\ CanRetry(q)
  IN
  /\ q.pc = "call" /\ q.kind = "batch" /\ At(r) \notin healthy
  /\ req' = [req EXCEPT ![r] =
               IF q.i > 1 THEN [q EXCEPT !.pc = "failed", !.then = "leave"]
               ELSE IF again
                 THEN [q EXCEPT !.vazio = TRUE, !.vazias = 1, !.attempt = @ + 1]
                 ELSE [q EXCEPT !.pc = "failed", !.vazio = FALSE, !.then = "leave"]]
  /\ streak' = [streak EXCEPT ![At(r)] = AtMost(@ + 1, Threshold)]
  /\ UNCHANGED <<breaker, healthy, clean>>

-------------------------------------------------------------------------------
(* record_failure                                                          *)

CountFailure(r) ==
  LET n == failure_count[At(r)] + 1 IN
  /\ req[r].pc = "failed"
  /\ failure_count' = [failure_count EXCEPT ![At(r)] = AtMost(n, Threshold)]
  /\ req' = [req EXCEPT ![r].pc = "failed_success", ![r].n = AtMost(n, Threshold)]
  /\ UNCHANGED <<success_count, is_open, age, healthy, observed>>

ForgetSuccesses(r) ==
  /\ req[r].pc = "failed_success"
  /\ success_count' = [success_count EXCEPT ![At(r)] = 0]
  /\ req' = [req EXCEPT ![r] = IF @.n >= Threshold THEN [@ EXCEPT !.pc = "open"]
                                                  ELSE Proceed(@)]
  /\ UNCHANGED <<failure_count, is_open, age, healthy, observed>>

Open(r) ==
  /\ req[r].pc = "open"
  /\ is_open' = [is_open EXCEPT ![At(r)] = TRUE]
  /\ Goto(r, "stamp")
  /\ UNCHANGED <<failure_count, success_count, age, healthy, observed>>

(* A slip to check against: the instant of the failure is not noted.       *)
StampNothing(r) ==
  /\ req[r].pc = "stamp"
  /\ req' = [req EXCEPT ![r] = Proceed(@)]
  /\ UNCHANGED <<breaker, healthy, observed>>

Stamp(r) ==
  /\ req[r].pc = "stamp"
  /\ age' = [age EXCEPT ![At(r)] = 0]
  /\ req' = [req EXCEPT ![r] = Proceed(@)]
  /\ UNCHANGED <<failure_count, success_count, is_open, healthy, observed>>

-------------------------------------------------------------------------------
(* record_success, which counts in half-open and starts over otherwise     *)

ReadOpen(r) ==
  /\ req[r].pc = "success"
  /\ Goto(r, IF is_open[At(r)] THEN "success_age" ELSE "zero")
  /\ UNCHANGED <<breaker, healthy, observed>>

(* A slip to check against: successes count while the circuit is shut, and *)
(* not once it is half-open.                                               *)
ReadAgeInverted(r) ==
  /\ req[r].pc = "success_age"
  /\ Goto(r, IF age[At(r)] = Recovery THEN "zero" ELSE "success_count")
  /\ UNCHANGED <<breaker, healthy, observed>>

ReadAge(r) ==
  /\ req[r].pc = "success_age"
  /\ Goto(r, IF age[At(r)] = Recovery THEN "success_count" ELSE "zero")
  /\ UNCHANGED <<breaker, healthy, observed>>

CountSuccess(r) ==
  LET n == AtMost(success_count[At(r)] + 1, HalfOpenSuccesses) IN
  /\ req[r].pc = "success_count"
  /\ success_count' = [success_count EXCEPT ![At(r)] = n]
  /\ req' = [req EXCEPT ![r] = IF n = HalfOpenSuccesses THEN [@ EXCEPT !.pc = "close"]
                                                        ELSE Proceed(@)]
  /\ UNCHANGED <<failure_count, is_open, age, healthy, observed>>

Close(r) ==
  /\ req[r].pc = "close"
  /\ is_open' = [is_open EXCEPT ![At(r)] = FALSE]
  /\ Goto(r, "zero")
  /\ UNCHANGED <<failure_count, success_count, age, healthy, observed>>

(* A slip to check against: the failures are never forgotten.              *)
ZeroNoFailures(r) ==
  /\ req[r].pc = "zero"
  /\ Goto(r, "zero_success")
  /\ UNCHANGED <<breaker, healthy, observed>>

ZeroFailures(r) ==
  /\ req[r].pc = "zero"
  /\ failure_count' = [failure_count EXCEPT ![At(r)] = 0]
  /\ Goto(r, "zero_success")
  /\ UNCHANGED <<success_count, is_open, age, healthy, observed>>

ZeroSuccesses(r) ==
  /\ req[r].pc = "zero_success"
  /\ success_count' = [success_count EXCEPT ![At(r)] = 0]
  /\ req' = [req EXCEPT ![r] = Proceed(@)]
  /\ UNCHANGED <<failure_count, is_open, age, healthy, observed>>

-------------------------------------------------------------------------------
(* The caller goes away (a client that disconnects, a tool that times out) *)
(* while the request awaits an answer or the lock of last_failure (which   *)
(* yields when it is held, or when the task has spent its share).          *)
Cancel(r) ==
  /\ Cancels /\ req[r].pc \in {"call", "gate_age", "success_age", "stamp"}
  /\ req' = [req EXCEPT ![r] = IdleRequest]
  /\ UNCHANGED <<breaker, healthy, observed>>

TimePasses ==
  /\ \E p \in Provider : age[p] \in 0..(Recovery - 1)
  /\ age' = [p \in Provider |-> IF age[p] \in 0..(Recovery - 1) THEN age[p] + 1 ELSE age[p]]
  /\ UNCHANGED <<failure_count, success_count, is_open, healthy, req, observed>>

ProviderChanges ==
  /\ healthy' \in SUBSET Provider /\ healthy' # healthy
  /\ UNCHANGED <<breaker, req, observed>>

Works(r) ==
  \/ Gate(r) \/ GateAge(r)
  \/ Served(r) \/ Rejected(r) \/ Empty(r) \/ \E b \in BOOLEAN : Refused(r, b)
  \/ CountFailure(r) \/ ForgetSuccesses(r) \/ Open(r) \/ Stamp(r)
  \/ ReadOpen(r) \/ ReadAge(r) \/ CountSuccess(r) \/ Close(r)
  \/ ZeroFailures(r) \/ ZeroSuccesses(r)

CircuitNext ==
  \/ \E r \in Request : Works(r) \/ Cancel(r)
  \/ \E r \in Request, kind \in Kinds : Begin(r, kind)
  \/ TimePasses
  \/ ProviderChanges

(* Time passes, and a request under way goes on: its answers are bounded   *)
(* by the client's timeout.  Nothing is assumed of what is asked for.      *)
CircuitFairness ==
  /\ WF_circuitVars(TimePasses)
  /\ \A r \in Request : WF_circuitVars(Works(r))

CircuitSpec == CircuitInit /\ [][CircuitNext]_circuitVars /\ CircuitFairness

-------------------------------------------------------------------------------
Steps == {"idle", "gate", "gate_age", "call", "failed", "failed_success", "open", "stamp",
          "success", "success_age", "success_count", "close", "zero", "zero_success"}

(* The state is what the atomics may hold.  A request makes at most        *)
(* MaxRetries retries, and keeps its place in the chain.                   *)
CircuitTypeOK ==
  /\ failure_count \in [Provider -> 0..Threshold]
  /\ success_count \in [Provider -> 0..HalfOpenSuccesses]
  /\ is_open \in [Provider -> BOOLEAN]
  /\ age \in [Provider -> {Never} \cup 0..Recovery]
  /\ healthy \subseteq Provider
  /\ req \in [Request -> [pc : Steps, kind : {"batch", "stream"}, i : 1..Len(Chain),
                          attempt : 0..MaxRetries, vazias : 0..1, vazio : BOOLEAN,
                          n : 0..Threshold, then : {"done", "retry", "leave"}]]
  /\ streak \in [Provider -> 0..Threshold]
  /\ clean \in [Request -> SUBSET Provider]

Shut(p) == is_open[p] /\ age[p] # Recovery

(* "How long the circuit stays open before moving to half-open"            *)
(* (recovery_timeout) is how long only while no stream fails: a stream     *)
(* asks its primary without asking the breaker, and each failure of it     *)
(* past the threshold stamps the circuit again.  Whatever requests         *)
(* interleave, a circuit that stays shut for good is one that streams keep *)
(* on stamping; batches alone never do that.                               *)
StreamStamps(p) == \E r \in Request : /\ req[r].pc = "stamp" /\ req[r].kind = "stream"
                                      /\ At(r) = p

OpenEnds == \A p \in Provider : []<>~Shut(p) \/ []<>StreamStamps(p)

(* A primary that is healthy for good gets its circuit closed for good,    *)
(* whatever outcomes of earlier requests come in late, provided batches    *)
(* keep asking for it: a stream that succeeds tells the breaker nothing,   *)
(* so streams alone leave the circuit of a healthy primary open.           *)
BatchAsks == \E r \in Request : req[r].pc = "gate" /\ req[r].i = 1

Recovers ==
  <>[](Chain[1] \in healthy) /\ []<>BatchAsks => <>[](~is_open[Chain[1]])

(* "How many consecutive failures before opening the circuit"              *)
(* (failure_threshold), under any number of requests: a closed circuit is  *)
(* found to have that many failures only when as many answers failed with  *)
(* no good one between them, or a good answer is being recorded at that    *)
(* moment.  A failure is not counted twice, and of those before a recorded *)
(* good answer only the ones counted late still count.  The good answers   *)
(* are those to batches: a stream that succeeds does not tell the breaker. *)
Decides(r) == req[r].pc = "failed_success" /\ req[r].n = Threshold

OpensOnConsecutive ==
  [][\A r \in Request :
       req[r].pc = "failed" /\ Decides(r)' /\ ~is_open[At(r)] =>
         \/ streak[At(r)] >= Threshold
         \/ \E s \in Request : At(s) = At(r) /\ req[s].pc \in {"success", "zero"}]_circuitVars

(* "um provider intermitente nao abre o circuito so porque re-tentou": the *)
(* retries of a request alone never open a circuit that had no failure     *)
(* counted when it began.                                                  *)
OneRequestNeverOpens ==
  [][\A p \in Provider, r \in Request :
       ~is_open[p] /\ is_open'[p] /\ req[r].pc = "open" /\ At(r) = p => p \notin clean[r]]_circuitVars

===============================================================================
