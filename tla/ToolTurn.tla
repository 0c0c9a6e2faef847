------------------------------- MODULE ToolTurn -------------------------------
(***************************************************************************)
(* One turn of the agent (garraia-agents: the tool loop of runtime.rs, the *)
(* execution budget of execution_budget.rs and the tool_program intrinsic).*)
(* The runtime asks the model; the model answers with text, or with a      *)
(* batch of tool calls, some of which are programs: sequences of calls     *)
(* that come back through the same dispatch.  The budget counts every call *)
(* of the task, resets its per-turn counter under way, and looks for a     *)
(* model that repeats itself.                                              *)
(*                                                                         *)
(* A tool and its arguments are one value of Tool (a signature); what the  *)
(* tool answers, the gate, the availability and the breaker are a choice   *)
(* of outcome.  Event sinks, texts and the aggregate clock are left out,   *)
(* but for the stop the clock may cause.                                   *)
(***************************************************************************)
EXTENDS Integers, Sequences, FiniteSets

CONSTANTS Tool,      \* signatures of calls (name and arguments)
          Program,   \* programs: sequences of members of Tool and of Broken
          Broken,    \* a step refused before it is dispatched
          NoSig,     \* no signature
          Limits,    \* the pairs [turn, task] a task may be given
          MaxBatch   \* bound on the calls of one answer

ASSUME ToolTurnAssumption ==
  /\ Broken \notin Tool /\ NoSig \notin Tool \cup Program
  /\ Program \subseteq Seq(Tool \cup {Broken})
  /\ Tool \cap Program = {}
  /\ Limits \subseteq [turn : Nat \ {0}, task : Nat]
  /\ MaxBatch \in Nat \ {0}

JANELA_LOOP == 3

Paths == {"agent", "heartbeat"}

VARIABLES
  path,          \* process_message_impl, or the heartbeat's copy of the loop
  limits,        \* max_per_turn, max_per_task
  turn_calls, task_calls,
  historico,     \* the last JANELA_LOOP signatures since the last reset
  aviso_dado,    \* aviso_de_loop_dado
  avisada,       \* assinatura_avisada
  fase,          \* where the turn is
  volta_final,   \* the answer awaited is the last: no tool of it runs
  lote,          \* calls of the answer not yet dispatched
  passos,        \* steps of the program being run
  antes,         \* chamadas_antes of that program
  fim,           \* how the turn ended
  \* what an observer of the turn has seen
  rounds,        \* answers asked of the model, up to the task's limit and two
  ranTurn, ranTask,  \* tools run since the last reset, and in all
  calls,         \* the last calls since the reset: signature, whether it ran
  warnings       \* signatures the model was warned about, in order

budget == <<limits, turn_calls, task_calls, historico, aviso_dado, avisada>>
control == <<path, fase, volta_final, lote, passos, antes, fim>>
seen == <<rounds, ranTurn, ranTask, calls, warnings>>
vars == <<budget, control, seen>>

Sig == Tool \cup Program

Batches == UNION {[1..n -> Sig] : n \in 1..MaxBatch}

Init ==
  /\ path \in Paths
  /\ limits \in Limits
  /\ turn_calls = 0 /\ task_calls = 0
  /\ historico = <<>>
  /\ aviso_dado = FALSE /\ avisada = NoSig
  /\ fase = "ask"
  /\ volta_final = FALSE
  /\ lote = <<>> /\ passos = <<>> /\ antes = 0
  /\ fim = "open"
  /\ rounds = 0 /\ ranTurn = 0 /\ ranTask = 0
  /\ calls = <<>> /\ warnings = <<>>

-------------------------------------------------------------------------------
(* The budget                                                              *)

AtTurnLimit == turn_calls >= limits.turn /\ task_calls < limits.task

(* A slip to check against: one call too many.                             *)
CanCallOneMore == turn_calls <= limits.turn /\ task_calls <= limits.task

CanCall == turn_calls < limits.turn /\ task_calls < limits.task

LastOf(s) == s[Len(s)]

LastTwo(s) == SubSeq(s, IF Len(s) < JANELA_LOOP THEN 1 ELSE Len(s) - 1, Len(s))

Looping(h) == Len(h) = JANELA_LOOP /\ \A i \in 1..Len(h) : h[i] = h[1]

(* registrar_contagem *)
Count ==
  /\ turn_calls' = turn_calls + 1
  /\ task_calls' = task_calls + 1

(* registrar_assinatura: a full window drops its oldest signature *)
Pushed(sig) == Append(LastTwo(historico), sig)

(* A slip to check against: a warned call is forgotten as soon as another  *)
(* comes between.                                                          *)
VerdictOfWindow(h, sig) ==
  IF Looping(h) THEN IF aviso_dado THEN "abort" ELSE "warn" ELSE "none"

(* veredito_de_loop, of the window h that ends with sig *)
Verdict(h, sig) ==
  IF Looping(h)
  THEN IF aviso_dado THEN "abort" ELSE "warn"
  ELSE IF avisada = sig THEN "abort" ELSE "none"

(* what registering sig does to the loop detector, and what it decides *)
Judge(sig, verdict) ==
  /\ historico' = Pushed(sig)
  /\ verdict = Verdict(Pushed(sig), sig)
  /\ IF verdict = "warn"
       THEN aviso_dado' = TRUE /\ avisada' = sig /\ warnings' = Append(warnings, sig)
       ELSE UNCHANGED <<aviso_dado, avisada, warnings>>

(* resetar_turno; the task's counter and the warning stay *)
ResetTurn ==
  /\ turn_calls' = 0
  /\ historico' = <<>>
  /\ ranTurn' = 0
  /\ calls' = <<>>

Ran(sig, did) ==
  /\ calls' = Append(LastTwo(calls), [sig |-> sig, ran |-> did])
  /\ ranTurn' = IF did THEN ranTurn + 1 ELSE ranTurn
  /\ ranTask' = IF did THEN ranTask + 1 ELSE ranTask

EndTurn(how) ==
  /\ fase' = "over"
  /\ fim' = how
  /\ lote' = <<>> /\ passos' = <<>>

-------------------------------------------------------------------------------
(* The top of the loop.  The agent resets a spent turn and goes on, and    *)
(* asks one last time when the task is spent; the heartbeat gives up.      *)
Ask ==
  /\ fase = "ask"
  /\ path = "heartbeat" => CanCall
  /\ IF AtTurnLimit THEN ResetTurn
                    ELSE UNCHANGED <<turn_calls, historico, ranTurn, calls>>
  /\ volta_final' = ~(task_calls < limits.task /\ turn_calls' < limits.turn)
  /\ fase' = "model"
  /\ rounds' = IF rounds > limits.task + 1 THEN rounds ELSE rounds + 1
  /\ UNCHANGED <<path, limits, task_calls, aviso_dado, avisada, lote, passos,
                 antes, fim, ranTask, warnings>>

GiveUp ==
  /\ fase = "ask" /\ path = "heartbeat" /\ ~CanCall
  /\ EndTurn("budget")
  /\ UNCHANGED <<path, volta_final, antes, budget, seen>>

(* The model's answer: text ends the turn, and so does whatever it answers *)
(* in the last round; a provider that failed, or an empty text, fails it.  *)
Answer(how) ==
  /\ fase = "model" /\ how \in {"answered", "failed"}
  /\ EndTurn(how)
  /\ UNCHANGED <<path, volta_final, antes, budget, seen>>

(* A slip to check against: the last round calls tools like any other.     *)
AlwaysCallTools(batch) ==
  /\ fase = "model"
  /\ fase' = "batch" /\ lote' = batch
  /\ UNCHANGED <<path, volta_final, passos, antes, fim, budget, seen>>

CallTools(batch) ==
  /\ fase = "model" /\ ~volta_final
  /\ fase' = "batch" /\ lote' = batch
  /\ UNCHANGED <<path, volta_final, passos, antes, fim, budget, seen>>

NextRound ==
  /\ fase = "batch" /\ lote = <<>>
  /\ fase' = "ask"
  /\ UNCHANGED <<path, volta_final, lote, passos, antes, fim, budget, seen>>

-------------------------------------------------------------------------------
(* dispatch_tool_call of the next call of the batch                        *)

Refuse ==
  /\ fase = "batch" /\ lote # <<>> /\ ~CanCall
  /\ lote' = Tail(lote)
  /\ UNCHANGED <<path, fase, volta_final, passos, antes, fim, budget, seen>>

(* A tool, called by the model (stop: what is left after it) or as a step  *)
(* of a program (rest: the steps left).  "denied" is the gate, an          *)
(* unavailable tool or the breaker: counted, and not run.                  *)
Dispatch(sig, outcome) ==
  /\ CanCall
  /\ Count
  /\ \E verdict \in {"none", "warn", "abort"} :
       /\ Judge(sig, verdict)
       /\ outcome \in CASE verdict = "none" -> {"ok", "error", "denied", "paused"}
                        [] OTHER            -> {verdict}
  /\ Ran(sig, outcome \in {"ok", "error", "paused"})
  /\ UNCHANGED <<limits, rounds>>

Ends(outcome) == outcome \in {"paused", "abort"}

EndedBy(outcome) == IF outcome = "paused" THEN "paused" ELSE "loop"

CallTool(outcome) ==
  /\ fase = "batch" /\ lote # <<>> /\ Head(lote) \in Tool
  /\ Dispatch(Head(lote), outcome)
  /\ IF Ends(outcome)
       THEN EndTurn(EndedBy(outcome))
       ELSE lote' = Tail(lote) /\ UNCHANGED <<fase, fim, passos>>
  /\ UNCHANGED <<path, volta_final, antes>>

(* Slips to check against: the envelope enters the loop window, between    *)
(* the steps of two programs; the envelope costs nothing.                  *)
OpenInWindow(denied) ==
  /\ fase = "batch" /\ lote # <<>> /\ Head(lote) \in Program
  /\ CanCall /\ Count
  /\ historico' = Pushed(Head(lote))
  /\ IF denied
       THEN lote' = Tail(lote) /\ UNCHANGED <<fase, passos, antes>>
       ELSE /\ fase' = "program" /\ passos' = Head(lote) /\ antes' = task_calls'
            /\ UNCHANGED lote
  /\ UNCHANGED <<path, volta_final, fim, limits, aviso_dado, avisada, seen>>

OpenForFree(denied) ==
  /\ fase = "batch" /\ lote # <<>> /\ Head(lote) \in Program
  /\ CanCall
  /\ IF denied
       THEN lote' = Tail(lote) /\ UNCHANGED <<fase, passos, antes>>
       ELSE /\ fase' = "program" /\ passos' = Head(lote) /\ antes' = task_calls
            /\ UNCHANGED lote
  /\ UNCHANGED <<path, volta_final, fim, budget, seen>>

(* A program's envelope is counted, and stays out of the loop window *)
OpenProgram(denied) ==
  /\ fase = "batch" /\ lote # <<>> /\ Head(lote) \in Program
  /\ CanCall /\ Count
  /\ IF denied
       THEN lote' = Tail(lote) /\ UNCHANGED <<fase, passos, antes>>
       ELSE /\ fase' = "program" /\ passos' = Head(lote) /\ antes' = task_calls'
            /\ UNCHANGED lote
  /\ UNCHANGED <<path, volta_final, fim, limits, historico, aviso_dado, avisada, seen>>

-------------------------------------------------------------------------------
(* executar_tool_program.  A program that stops keeps no step to run.      *)

(* The step is broken (a nested program is seen before the budget, a value *)
(* that no step saved after it), or the program is older than its          *)
(* aggregate ceiling (never before its first step), or the turn is out of  *)
(* calls: the program stops with a partial report.                         *)
StopProgram ==
  /\ fase = "program" /\ passos # <<>>
  /\ \/ Head(passos) = Broken
     \/ task_calls > antes
     \/ AtTurnLimit
  /\ passos' = <<>>
  /\ UNCHANGED <<path, fase, volta_final, lote, antes, fim, budget, seen>>

(* The task is out of calls: the error of the program ends the turn *)
ProgramOverBudget ==
  /\ fase = "program" /\ passos # <<>>
  /\ task_calls >= limits.task
  /\ EndTurn("budget")
  /\ UNCHANGED <<path, volta_final, antes, budget, seen>>

Step(outcome) ==
  /\ fase = "program" /\ passos # <<>> /\ Head(passos) \in Tool
  /\ Dispatch(Head(passos), outcome)
  /\ IF Ends(outcome)
       THEN EndTurn(EndedBy(outcome))
       ELSE /\ passos' = IF outcome = "ok" THEN Tail(passos) ELSE <<>>
            /\ UNCHANGED <<fase, fim, lote>>
  /\ UNCHANGED <<path, volta_final, antes>>

(* Back in the dispatch of the envelope: a program that dispatched nothing *)
(* enters the loop window itself.                                          *)
CloseProgram ==
  /\ fase = "program" /\ passos = <<>>
  /\ IF task_calls > antes
       THEN /\ fase' = "batch" /\ lote' = Tail(lote)
            /\ UNCHANGED <<fim, passos, historico, aviso_dado, avisada, seen>>
       ELSE /\ \E verdict \in {"none", "warn", "abort"} :
                 /\ Judge(Head(lote), verdict)
                 /\ IF verdict = "abort"
                      THEN EndTurn("loop")
                      ELSE /\ fase' = "batch" /\ lote' = Tail(lote)
                           /\ UNCHANGED <<fim, passos>>
            /\ Ran(Head(lote), FALSE)
            /\ UNCHANGED rounds
  /\ UNCHANGED <<path, volta_final, antes, limits, turn_calls, task_calls>>

Outcomes == {"ok", "error", "denied", "paused", "warn", "abort"}

Next ==
  \/ Ask
  \/ GiveUp
  \/ \E how \in {"answered", "failed"} : Answer(how)
  \/ \E batch \in Batches : CallTools(batch)
  \/ NextRound
  \/ Refuse
  \/ \E outcome \in Outcomes : CallTool(outcome)
  \/ \E denied \in BOOLEAN : OpenProgram(denied)
  \/ StopProgram
  \/ ProgramOverBudget
  \/ \E outcome \in Outcomes : Step(outcome)
  \/ CloseProgram

(* The loop is one sequential task.  Every tool runs under a timeout; that *)
(* the provider answers or fails is assumed.                               *)
Spec == Init /\ [][Next]_vars /\ WF_vars(Next)

-------------------------------------------------------------------------------
(* The state is what the counters, the window and the observer may hold;   *)
(* in particular the window is never longer than JANELA_LOOP (the deque of *)
(* registrar_assinatura) and counters never pass their limits.             *)
TypeOK ==
  /\ path \in Paths
  /\ limits \in Limits
  /\ turn_calls \in 0..limits.turn
  /\ task_calls \in 0..limits.task
  /\ historico \in Seq(Sig) /\ Len(historico) <= JANELA_LOOP
  /\ aviso_dado \in BOOLEAN /\ avisada \in Sig \cup {NoSig}
  /\ fase \in {"ask", "model", "batch", "program", "over"}
  /\ volta_final \in BOOLEAN
  /\ lote \in Seq(Sig) /\ passos \in Seq(Tool \cup {Broken})
  /\ antes \in Nat
  /\ fim \in {"open", "answered", "failed", "paused", "loop", "budget"}
  /\ rounds \in Nat /\ ranTurn \in Nat /\ ranTask \in Nat
  /\ calls \in Seq([sig : Sig, ran : BOOLEAN]) /\ Len(calls) <= JANELA_LOOP
  /\ warnings \in Seq(Sig)

(* However the model batches its calls and nests them in programs, the     *)
(* tools that really run never exceed the ceiling of the task, nor, since  *)
(* the last reset, that of the turn (the budget is asked call by call).    *)
BudgetHolds ==
  /\ ranTask <= limits.task
  /\ ranTurn <= limits.turn

(* Every answer that calls tools spends at least one call, whatever the    *)
(* batch and however its programs stop, so a task asks the model at most   *)
(* once more than it may call tools: it is the bound on paid calls.        *)
RoundsBounded == rounds <= limits.task + 1

(* Between two resets a tool never runs a third time in a row with the     *)
(* same arguments, wherever the three calls came from: the batch, the      *)
(* steps of one program, or one-step programs round after round.           *)
NoThirdRun ==
  ~ /\ Len(calls) = JANELA_LOOP
    /\ \A i \in 1..JANELA_LOOP : calls[i].ran /\ calls[i].sig = calls[1].sig

(* Once the model was warned about a call, that call never runs again in   *)
(* the task: a reset of the turn or calls in between do not free it.       *)
WarnedNeverRuns ==
  [][ranTask' > ranTask =>
       \A i \in 1..Len(warnings) : warnings[i] # LastOf(calls').sig]_vars

(* The model is warned at most once in a task, and a turn is only aborted  *)
(* for a loop after that warning (veredito_de_loop).                       *)
WarnedBeforeAborted ==
  /\ Len(warnings) <= 1
  /\ fim = "loop" => Len(warnings) = 1

(* Every turn ends, however long the model keeps asking for tools.         *)
TurnEnds == <>(fase = "over")

===============================================================================
