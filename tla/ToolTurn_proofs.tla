---------------------------- MODULE ToolTurn_proofs ----------------------------
(* What the tool loop guarantees for every set of tools and programs,      *)
(* every limits and every batch size.                                      *)
EXTENDS ToolTurn, SequenceTheorems, TLAPS

CallRecord == [sig : Sig, ran : BOOLEAN]

(* The two most recent of at most JANELA_LOOP elements are a sequence that *)
(* has room for one more.                                                  *)
LEMMA LastTwoProperties ==
  ASSUME NEW S, NEW s \in Seq(S), Len(s) <= JANELA_LOOP
  PROVE  /\ LastTwo(s) \in Seq(S)
         /\ Len(LastTwo(s)) = IF Len(s) < JANELA_LOOP THEN Len(s) ELSE 2
         /\ \A i \in 1..Len(LastTwo(s)) :
              LastTwo(s)[i] = IF Len(s) < JANELA_LOOP THEN s[i] ELSE s[i + 1]
<1> DEFINE m == IF Len(s) < JANELA_LOOP THEN 1 ELSE Len(s) - 1
           n == Len(s)
<1>1. /\ n \in Nat /\ m \in Int /\ n \in Int
      /\ m = IF n < 3 THEN 1 ELSE 2
      /\ n <= 3
  BY LenProperties DEF JANELA_LOOP
<1>2. \A i \in m..n : s[i] \in S
  BY <1>1, ElementOfSeq
<1>3. LastTwo(s) = SubSeq(s, m, n)
  BY DEF LastTwo
<1> HIDE DEF m, n
<1>4. /\ SubSeq(s, m, n) \in Seq(S)
      /\ Len(SubSeq(s, m, n)) = IF m <= n THEN n - m + 1 ELSE 0
      /\ \A i \in 1..(n - m + 1) : SubSeq(s, m, n)[i] = s[m + i - 1]
  BY <1>1, <1>2, SubSeqProperties
<1>5. Len(LastTwo(s)) = IF n < 3 THEN n ELSE 2
  BY <1>1, <1>3, <1>4
<1>6. ASSUME NEW i \in 1..Len(LastTwo(s))
      PROVE  LastTwo(s)[i] = IF n < 3 THEN s[i] ELSE s[i + 1]
  <2>1. i \in 1..(n - m + 1)
    BY <1>1, <1>5
  <2>2. SubSeq(s, m, n)[i] = s[m + i - 1]
    BY <2>1, <1>4
  <2>3. i \in Int /\ m + i - 1 = IF n < 3 THEN i ELSE i + 1
    BY <1>1, <1>5
  <2> QED BY <1>3, <2>2, <2>3
<1> QED BY <1>3, <1>4, <1>5, <1>6 DEF JANELA_LOOP, n

(* Adding to a window keeps it a window, with the addition last.           *)
LEMMA WindowProperties ==
  ASSUME NEW S, NEW s \in Seq(S), Len(s) <= JANELA_LOOP, NEW e \in S
  PROVE  /\ Append(LastTwo(s), e) \in Seq(S)
         /\ Len(Append(LastTwo(s), e)) = Len(LastTwo(s)) + 1
         /\ Len(Append(LastTwo(s), e)) \in 1..JANELA_LOOP
         /\ Len(Append(LastTwo(s), e)) <= JANELA_LOOP
         /\ Append(LastTwo(s), e)[Len(Append(LastTwo(s), e))] = e
         /\ \A i \in 1..Len(LastTwo(s)) : Append(LastTwo(s), e)[i] = LastTwo(s)[i]
<1> DEFINE w == LastTwo(s)
           n == Len(s)
           k == Len(w)
<1>1. n \in Nat /\ n <= 3
  BY LenProperties DEF JANELA_LOOP
<1>2. w \in Seq(S) /\ k = IF n < 3 THEN n ELSE 2
  BY LastTwoProperties DEF JANELA_LOOP
<1>3. k \in 0..2
  <2> HIDE DEF n, k
  <2> QED BY <1>1, <1>2
<1>4. /\ Append(w, e) \in Seq(S)
      /\ Len(Append(w, e)) = k + 1
      /\ \A i \in 1..k : Append(w, e)[i] = w[i]
      /\ Append(w, e)[k + 1] = e
  <2> HIDE DEF w
  <2>1. w \in Seq(S)
    BY <1>2
  <2>2. Append(w, e) \in Seq(S)
    BY <2>1, AppendProperties
  <2>3. Len(Append(w, e)) = Len(w) + 1
    BY <2>1, AppendProperties
  <2>4. \A i \in 1..Len(w) : Append(w, e)[i] = w[i]
    BY <2>1, AppendProperties
  <2>5. Append(w, e)[Len(w) + 1] = e
    BY <2>1, AppendProperties
  <2> QED BY <2>2, <2>3, <2>4, <2>5
<1>5. k + 1 \in 1..JANELA_LOOP /\ k + 1 <= JANELA_LOOP
  <2> HIDE DEF k
  <2> QED BY <1>3 DEF JANELA_LOOP
<1> QED BY <1>4, <1>5

-------------------------------------------------------------------------------
(* A program under way is the head of the batch.                           *)
ProgramIsHead == fase = "program" => lote # <<>>

TypeInv == TypeOK /\ ProgramIsHead

(* What the budget and the loop detector are after a call or an envelope   *)
(* is judged.                                                              *)
LEMMA JudgeTypes ==
  ASSUME TypeOK, NEW sig \in Sig, NEW verdict, Judge(sig, verdict)
  PROVE  /\ historico' \in Seq(Sig) /\ Len(historico') <= JANELA_LOOP
         /\ aviso_dado' \in BOOLEAN /\ avisada' \in Sig \cup {NoSig}
         /\ warnings' \in Seq(Sig)
<1>1. historico \in Seq(Sig) /\ Len(historico) <= JANELA_LOOP /\ warnings \in Seq(Sig)
  BY DEF TypeOK
<1>2. historico' = Append(LastTwo(historico), sig)
  BY DEF Judge, Pushed
<1>3. historico' \in Seq(Sig) /\ Len(historico') <= JANELA_LOOP
  BY <1>1, <1>2, WindowProperties
<1>4. Append(warnings, sig) \in Seq(Sig)
  BY <1>1, AppendProperties
<1>5. aviso_dado \in BOOLEAN /\ avisada \in Sig \cup {NoSig}
  BY DEF TypeOK
<1>6. IF verdict = "warn"
        THEN aviso_dado' = TRUE /\ avisada' = sig /\ warnings' = Append(warnings, sig)
        ELSE aviso_dado' = aviso_dado /\ avisada' = avisada /\ warnings' = warnings
  BY DEF Judge
<1> QED BY <1>1, <1>3, <1>4, <1>5, <1>6

(* What the observer holds after a call has its types.                     *)
LEMMA RanTypes ==
  ASSUME TypeOK, NEW sig \in Sig, NEW did \in BOOLEAN, Ran(sig, did)
  PROVE  /\ calls' \in Seq(CallRecord) /\ Len(calls') <= JANELA_LOOP
         /\ ranTurn' \in Nat /\ ranTask' \in Nat
<1>1. calls \in Seq(CallRecord) /\ Len(calls) <= JANELA_LOOP
  BY DEF TypeOK, CallRecord
<1>2. [sig |-> sig, ran |-> did] \in CallRecord
  BY DEF CallRecord
<1>3. calls' = Append(LastTwo(calls), [sig |-> sig, ran |-> did])
  BY DEF Ran
<1>4. calls' \in Seq(CallRecord) /\ Len(calls') <= JANELA_LOOP
  BY <1>1, <1>2, <1>3, WindowProperties
<1>5. ranTurn' \in Nat /\ ranTask' \in Nat
  BY DEF Ran, TypeOK
<1> QED BY <1>4, <1>5

(* A call that the budget allows is counted within the limits.             *)
LEMMA CountTypes ==
  ASSUME TypeOK, CanCall, Count
  PROVE  /\ turn_calls' \in 0..limits.turn
         /\ task_calls' \in 0..limits.task
BY ToolTurnAssumption DEF TypeOK, CanCall, Count

(* Everything a dispatch changes has its type.                             *)
LEMMA DispatchTypes ==
  ASSUME TypeOK, NEW sig \in Sig, NEW outcome, Dispatch(sig, outcome)
  PROVE  /\ turn_calls' \in 0..limits.turn /\ task_calls' \in 0..limits.task
         /\ historico' \in Seq(Sig) /\ Len(historico') <= JANELA_LOOP
         /\ aviso_dado' \in BOOLEAN /\ avisada' \in Sig \cup {NoSig}
         /\ warnings' \in Seq(Sig)
         /\ calls' \in Seq(CallRecord) /\ Len(calls') <= JANELA_LOOP
         /\ ranTurn' \in Nat /\ ranTask' \in Nat
         /\ limits' = limits /\ rounds' = rounds
<1>1. CanCall /\ Count /\ limits' = limits /\ rounds' = rounds
  BY DEF Dispatch
<1>2. PICK verdict \in {"none", "warn", "abort"} : Judge(sig, verdict)
  BY DEF Dispatch
<1>3. Ran(sig, outcome \in {"ok", "error", "paused"})
  BY DEF Dispatch
<1>4. (outcome \in {"ok", "error", "paused"}) \in BOOLEAN
  OBVIOUS
<1> QED BY <1>1, <1>2, <1>3, <1>4, CountTypes, JudgeTypes, RanTypes

(* The empty sequence, which a turn that ends leaves behind.               *)
LEMMA EndTurnTypes ==
  ASSUME NEW how \in {"answered", "failed", "paused", "loop", "budget"}, EndTurn(how)
  PROVE  /\ fase' = "over" /\ fim' = how
         /\ lote' \in Seq(Sig) /\ passos' \in Seq(Tool \cup {Broken})
BY EmptySeq DEF EndTurn

(* The invariant holds when a task begins.                                 *)
LEMMA TypeInvInit == Init => TypeInv
<1> SUFFICES ASSUME Init PROVE TypeInv
  OBVIOUS
<1>1. /\ <<>> \in Seq(Sig) /\ <<>> \in Seq(Tool \cup {Broken})
      /\ <<>> \in Seq(CallRecord) /\ Len(<<>>) = 0
  BY EmptySeq
<1>2. 0 \in 0..limits.turn /\ 0 \in 0..limits.task
  BY ToolTurnAssumption DEF Init
<1>3. /\ historico \in Seq(Sig) /\ Len(historico) <= JANELA_LOOP
      /\ calls \in Seq(CallRecord) /\ Len(calls) <= JANELA_LOOP
      /\ warnings \in Seq(Sig) /\ lote \in Seq(Sig)
      /\ passos \in Seq(Tool \cup {Broken})
  <2>1. /\ historico = <<>> /\ calls = <<>> /\ warnings = <<>>
        /\ lote = <<>> /\ passos = <<>>
    BY DEF Init
  <2>2. 0 <= JANELA_LOOP
    BY DEF JANELA_LOOP
  <2> QED BY <1>1, <2>1, <2>2
<1> QED BY <1>2, <1>3 DEF Init, TypeInv, TypeOK, ProgramIsHead, CallRecord

(* Every action keeps the types and the batch under a program.             *)
LEMMA TypeInvStep == TypeInv /\ [Next]_vars => TypeInv'
<1> SUFFICES ASSUME TypeInv, [Next]_vars PROVE TypeInv'
  OBVIOUS
<1> USE DEF TypeInv
<1>1. CASE Ask
  <2>1. <<>> \in Seq(Sig) /\ <<>> \in Seq(CallRecord) /\ Len(<<>>) = 0
    BY EmptySeq
  <2>2. limits.turn \in Nat /\ limits.task \in Nat
    BY ToolTurnAssumption DEF TypeOK
  <2>3. turn_calls' \in 0..limits.turn /\ ranTurn' \in Nat
    BY <1>1, <2>2 DEF TypeOK, Ask, ResetTurn
  <2>4. \/ historico' = <<>> /\ calls' = <<>>
        \/ historico' = historico /\ calls' = calls
    BY <1>1 DEF Ask, ResetTurn
  <2>5. /\ historico \in Seq(Sig) /\ Len(historico) <= JANELA_LOOP
        /\ calls \in Seq(CallRecord) /\ Len(calls) <= JANELA_LOOP
    BY DEF TypeOK, CallRecord
  <2>7. /\ historico' \in Seq(Sig) /\ Len(historico') <= JANELA_LOOP
        /\ calls' \in Seq(CallRecord) /\ Len(calls') <= JANELA_LOOP
    <3>1. CASE historico' = <<>> /\ calls' = <<>>
      BY <2>1, <3>1 DEF JANELA_LOOP
    <3>2. CASE historico' = historico /\ calls' = calls
      BY <2>5, <3>2
    <3> QED BY <2>4, <3>1, <3>2
  <2>6. rounds' \in Nat /\ volta_final' \in BOOLEAN
    BY <1>1, <2>2 DEF TypeOK, Ask
  <2> QED BY <1>1, <2>3, <2>6, <2>7 DEF Ask, TypeOK, ProgramIsHead, CallRecord
<1>2. CASE GiveUp
  BY <1>2, EndTurnTypes DEF GiveUp, TypeOK, ProgramIsHead, budget, seen
<1>3. ASSUME NEW how \in {"answered", "failed"}, Answer(how)
      PROVE  TypeInv'
  BY <1>3, EndTurnTypes DEF Answer, TypeOK, ProgramIsHead, budget, seen
<1>4. ASSUME NEW batch \in Batches, CallTools(batch)
      PROVE  TypeInv'
  <2>1. PICK n \in 1..MaxBatch : batch \in [1..n -> Sig]
    BY DEF Batches
  <2>2. batch \in Seq(Sig)
    BY <2>1, ToolTurnAssumption, SeqDef
  <2> QED BY <1>4, <2>2 DEF CallTools, TypeOK, ProgramIsHead, budget, seen
<1>5. CASE NextRound
  BY <1>5 DEF NextRound, TypeOK, ProgramIsHead, budget, seen
<1>6. CASE Refuse
  <2>1. Tail(lote) \in Seq(Sig)
    BY <1>6, HeadTailProperties DEF Refuse, TypeOK
  <2> QED BY <1>6, <2>1 DEF Refuse, TypeOK, ProgramIsHead, budget, seen
<1>7. ASSUME NEW outcome \in Outcomes, CallTool(outcome)
      PROVE  TypeInv'
  <2>1. Head(lote) \in Sig /\ Tail(lote) \in Seq(Sig)
    BY <1>7, HeadTailProperties DEF CallTool, TypeOK
  <2>2. Dispatch(Head(lote), outcome)
    BY <1>7 DEF CallTool
  <2>3. /\ lote' \in Seq(Sig) /\ passos' \in Seq(Tool \cup {Broken})
        /\ fase' \in {"batch", "over"}
        /\ fim' \in {"open", "answered", "failed", "paused", "loop", "budget"}
    <3>1. CASE Ends(outcome)
      BY <1>7, <3>1, EndTurnTypes DEF CallTool, EndedBy
    <3>2. CASE ~Ends(outcome)
      BY <1>7, <2>1, <3>2 DEF CallTool, TypeOK
    <3> QED BY <3>1, <3>2
  <2>4. UNCHANGED <<path, volta_final, antes>>
    BY <1>7 DEF CallTool
  <2> QED BY <2>1, <2>2, <2>3, <2>4, DispatchTypes DEF TypeOK, ProgramIsHead, CallRecord
<1>8. ASSUME NEW denied \in BOOLEAN, OpenProgram(denied)
      PROVE  TypeInv'
  <2>1. Tail(lote) \in Seq(Sig) /\ Head(lote) \in Seq(Tool \cup {Broken})
    BY <1>8, HeadTailProperties, ToolTurnAssumption DEF OpenProgram, TypeOK
  <2>2. turn_calls' \in 0..limits.turn /\ task_calls' \in 0..limits.task
    BY <1>8, CountTypes DEF OpenProgram
  <2>3. task_calls' \in Nat
    BY <1>8, ToolTurnAssumption DEF OpenProgram, Count, TypeOK
  <2>4. lote' \in Seq(Sig) /\ passos' \in Seq(Tool \cup {Broken}) /\ antes' \in Nat
    BY <1>8, <2>1, <2>3 DEF OpenProgram, TypeOK
  <2> QED BY <1>8, <2>2, <2>4 DEF OpenProgram, TypeOK, ProgramIsHead, seen
<1>9. CASE StopProgram
  BY <1>9, EmptySeq DEF StopProgram, TypeOK, ProgramIsHead, budget, seen
<1>10. CASE ProgramOverBudget
  BY <1>10, EndTurnTypes DEF ProgramOverBudget, TypeOK, ProgramIsHead, budget, seen
<1>11. ASSUME NEW outcome \in Outcomes, Step(outcome)
       PROVE  TypeInv'
  <2>1. Head(passos) \in Sig /\ Tail(passos) \in Seq(Tool \cup {Broken})
    BY <1>11, HeadTailProperties DEF Step, TypeOK, Sig
  <2>2. Dispatch(Head(passos), outcome)
    BY <1>11 DEF Step
  <2>3. /\ lote' \in Seq(Sig) /\ passos' \in Seq(Tool \cup {Broken})
        /\ (fase' = "program" /\ lote' # <<>>) \/ fase' = "over"
        /\ fim' \in {"open", "answered", "failed", "paused", "loop", "budget"}
    <3>1. CASE Ends(outcome)
      BY <1>11, <3>1, EndTurnTypes DEF Step, EndedBy
    <3>2. CASE ~Ends(outcome)
      BY <1>11, <2>1, <3>2, EmptySeq DEF Step, TypeOK, ProgramIsHead
    <3> QED BY <3>1, <3>2
  <2>4. UNCHANGED <<path, volta_final, antes>>
    BY <1>11 DEF Step
  <2> QED BY <2>1, <2>2, <2>3, <2>4, DispatchTypes DEF TypeOK, ProgramIsHead, CallRecord
<1>12. CASE CloseProgram
  <2>1. lote # <<>> /\ Head(lote) \in Sig /\ Tail(lote) \in Seq(Sig)
    BY <1>12, HeadTailProperties DEF CloseProgram, TypeOK, ProgramIsHead
  <2>2. CASE task_calls > antes
    BY <1>12, <2>1, <2>2 DEF CloseProgram, TypeOK, ProgramIsHead, seen
  <2>3. CASE ~(task_calls > antes)
    <3>1. PICK verdict \in {"none", "warn", "abort"} :
            /\ Judge(Head(lote), verdict)
            /\ IF verdict = "abort"
                 THEN EndTurn("loop")
                 ELSE /\ fase' = "batch" /\ lote' = Tail(lote)
                      /\ UNCHANGED <<fim, passos>>
      BY <1>12, <2>3 DEF CloseProgram
    <3>2. Ran(Head(lote), FALSE) /\ rounds' = rounds
      BY <1>12, <2>3 DEF CloseProgram
    <3>3. /\ lote' \in Seq(Sig) /\ passos' \in Seq(Tool \cup {Broken})
          /\ fase' \in {"batch", "over"}
          /\ fim' \in {"open", "answered", "failed", "paused", "loop", "budget"}
      BY <2>1, <3>1, EndTurnTypes DEF TypeOK
    <3>4. UNCHANGED <<path, volta_final, antes, limits, turn_calls, task_calls>>
      BY <1>12 DEF CloseProgram
    <3> QED BY <2>1, <3>1, <3>2, <3>3, <3>4, JudgeTypes, RanTypes
        DEF TypeOK, ProgramIsHead, CallRecord
  <2> QED BY <2>2, <2>3
<1>13. CASE UNCHANGED vars
  BY <1>13 DEF vars, budget, control, seen, TypeOK, ProgramIsHead
<1> QED BY <1>1, <1>2, <1>3, <1>4, <1>5, <1>6, <1>7, <1>8, <1>9, <1>10, <1>11,
           <1>12, <1>13 DEF Next

(* TypeOK for every set of tools, programs and limits: the loop window of  *)
(* registrar_assinatura never outgrows JANELA_LOOP, and the counters of    *)
(* registrar_contagem never pass the limits they are compared with.        *)
THEOREM TypeCorrect == Spec => []TypeOK
<1>1. TypeInv => TypeOK
  BY DEF TypeInv
<1> QED BY <1>1, TypeInvInit, TypeInvStep, PTL DEF Spec

-------------------------------------------------------------------------------
(* What has run was counted.                                               *)
BudgetInv == ranTask <= task_calls /\ ranTurn <= turn_calls

(* An answer in the model's hands is the only one that may not have spent  *)
(* a call yet, and the first call of its batch finds the budget open.      *)
RoundInv ==
  /\ rounds <= task_calls + 1
  /\ fase \in {"ask", "program"} => rounds <= task_calls
  /\ fase = "model" => volta_final \/ CanCall
  /\ fase = "batch" => rounds <= task_calls \/ (lote # <<>> /\ CanCall)

(* The warning given is the one the detector remembers.                    *)
WarnInv ==
  /\ aviso_dado => warnings = <<avisada>>
  /\ ~aviso_dado => warnings = <<>> /\ avisada = NoSig
  /\ fim = "loop" => aviso_dado

(* The loop window is what the observer saw.                               *)
SeenInv ==
  /\ Len(calls) = Len(historico)
  /\ \A i \in 1..Len(historico) : calls[i].sig = historico[i]

LoopInv == SeenInv /\ NoThirdRun

(* Every action counts at least as many calls as it runs.                  *)
LEMMA BudgetInvStep == TypeOK /\ BudgetInv /\ [Next]_vars => BudgetInv'
<1> SUFFICES ASSUME TypeOK, BudgetInv, [Next]_vars PROVE BudgetInv'
  OBVIOUS
<1>1. /\ turn_calls \in Int /\ task_calls \in Int
      /\ ranTurn \in Nat /\ ranTask \in Nat
      /\ limits.turn \in Nat
  BY ToolTurnAssumption DEF TypeOK
<1>2. ASSUME NEW sig, NEW outcome, Dispatch(sig, outcome) PROVE BudgetInv'
  BY <1>1, <1>2 DEF Dispatch, Count, Ran, BudgetInv
<1>3. CASE Ask
  BY <1>1, <1>3 DEF Ask, ResetTurn, BudgetInv
<1>4. ASSUME NEW denied \in BOOLEAN, OpenProgram(denied) PROVE BudgetInv'
  BY <1>1, <1>4 DEF OpenProgram, Count, BudgetInv, seen
<1>5. CASE CloseProgram
  <2>1. ranTurn' = ranTurn /\ ranTask' = ranTask
    BY <1>5 DEF CloseProgram, Ran, seen
  <2> QED BY <1>5, <2>1 DEF CloseProgram, BudgetInv
<1>6. ASSUME UNCHANGED <<budget, seen>> PROVE BudgetInv'
  BY <1>6 DEF BudgetInv, budget, seen
<1> QED BY <1>2, <1>3, <1>4, <1>5, <1>6
    DEF Next, GiveUp, Answer, CallTools, NextRound, Refuse, CallTool, StopProgram,
        ProgramOverBudget, Step, vars

(* The tools that run are bounded by the limits of the mode                *)
(* (com_limites_do_modo), whatever the model asks for.                     *)
THEOREM RunsWithinBudget == Spec => []BudgetHolds
<1>1. Init => TypeInv /\ BudgetInv
  BY TypeInvInit DEF Init, BudgetInv
<1>2. TypeInv /\ BudgetInv /\ [Next]_vars => (TypeInv /\ BudgetInv)'
  BY TypeInvStep, BudgetInvStep DEF TypeInv
<1>3. TypeInv /\ BudgetInv => BudgetHolds
  BY ToolTurnAssumption DEF TypeInv, TypeOK, BudgetInv, BudgetHolds
<1> QED BY <1>1, <1>2, <1>3, PTL DEF Spec

-------------------------------------------------------------------------------
(* No action lets a round end without a call spent.                        *)
LEMMA RoundInvStep == TypeInv /\ RoundInv /\ [Next]_vars => RoundInv'
<1> SUFFICES ASSUME TypeInv, RoundInv, [Next]_vars PROVE RoundInv'
  OBVIOUS
<1>1. /\ turn_calls \in Int /\ task_calls \in Int /\ rounds \in Nat
      /\ limits.turn \in Nat \ {0} /\ limits.task \in Nat
      /\ 0 <= task_calls /\ task_calls <= limits.task
  BY ToolTurnAssumption DEF TypeInv, TypeOK
<1>2. ASSUME NEW sig, NEW outcome, Dispatch(sig, outcome)
      PROVE  task_calls' = task_calls + 1 /\ rounds' = rounds /\ limits' = limits
  BY <1>2 DEF Dispatch, Count
<1>3. CASE Ask
  <2>1. rounds <= task_calls
    BY <1>3 DEF Ask, RoundInv
  <2>2. rounds' = rounds + 1 /\ task_calls' = task_calls /\ limits' = limits
    BY <1>1, <1>3, <2>1 DEF Ask
  <2>3. fase' = "model" /\ (volta_final' \/ CanCall')
    BY <1>1, <1>3 DEF Ask, CanCall
  <2> QED BY <1>1, <2>1, <2>2, <2>3 DEF RoundInv
<1>4. CASE GiveUp
  BY <1>4 DEF GiveUp, EndTurn, RoundInv, budget, seen
<1>5. ASSUME NEW how \in {"answered", "failed"}, Answer(how) PROVE RoundInv'
  BY <1>5 DEF Answer, EndTurn, RoundInv, budget, seen
<1>6. ASSUME NEW batch \in Batches, CallTools(batch) PROVE RoundInv'
  <2>1. batch # <<>>
    <3>1. PICK n \in 1..MaxBatch : batch \in [1..n -> Sig]
      BY DEF Batches
    <3>2. batch \in Seq(Sig) /\ Len(batch) = n /\ n > 0
      BY <3>1, ToolTurnAssumption, SeqDef, LenProperties
    <3> QED BY <3>2, EmptySeq
  <2>2. lote' # <<>> /\ fase' = "batch" /\ CanCall
    BY <1>6, <2>1 DEF CallTools, RoundInv
  <2>3. CanCall' /\ rounds' = rounds /\ task_calls' = task_calls
    BY <1>6, <2>2 DEF CallTools, CanCall, budget, seen
  <2> QED BY <2>2, <2>3 DEF RoundInv
<1>7. CASE NextRound
  BY <1>7 DEF NextRound, RoundInv, budget, seen
<1>8. CASE Refuse
  BY <1>8 DEF Refuse, RoundInv, budget, seen
<1>9. ASSUME NEW outcome \in Outcomes, CallTool(outcome) PROVE RoundInv'
  <2>1. task_calls' = task_calls + 1 /\ rounds' = rounds
    BY <1>2, <1>9 DEF CallTool
  <2>2. fase' \in {"batch", "over"}
    BY <1>9 DEF CallTool, EndTurn
  <2> QED BY <1>1, <2>1, <2>2 DEF RoundInv
<1>10. ASSUME NEW denied \in BOOLEAN, OpenProgram(denied) PROVE RoundInv'
  <2>1. task_calls' = task_calls + 1 /\ rounds' = rounds
    BY <1>10 DEF OpenProgram, Count, seen
  <2>2. fase' \in {"batch", "program"}
    BY <1>10 DEF OpenProgram
  <2> QED BY <1>1, <2>1, <2>2 DEF RoundInv
<1>11. CASE StopProgram
  BY <1>11 DEF StopProgram, RoundInv, budget, seen
<1>12. CASE ProgramOverBudget
  BY <1>12 DEF ProgramOverBudget, EndTurn, RoundInv, budget, seen
<1>13. ASSUME NEW outcome \in Outcomes, Step(outcome) PROVE RoundInv'
  <2>1. task_calls' = task_calls + 1 /\ rounds' = rounds
    BY <1>2, <1>13 DEF Step
  <2>2. fase' \in {"program", "over"}
    BY <1>13 DEF Step, EndTurn
  <2> QED BY <1>1, <2>1, <2>2 DEF RoundInv
<1>14. CASE CloseProgram
  <2>1. rounds <= task_calls /\ rounds' = rounds /\ task_calls' = task_calls
    BY <1>14 DEF CloseProgram, RoundInv, seen
  <2>2. fase' \in {"batch", "over"}
    BY <1>14 DEF CloseProgram, EndTurn
  <2> QED BY <1>1, <2>1, <2>2 DEF RoundInv
<1>15. CASE UNCHANGED vars
  BY <1>15 DEF vars, budget, control, seen, RoundInv, CanCall
<1> QED BY <1>3, <1>4, <1>5, <1>6, <1>7, <1>8, <1>9, <1>10, <1>11, <1>12, <1>13,
           <1>14, <1>15 DEF Next

(* A task asks the model at most once more than it may call tools: each    *)
(* round of the loop of process_message_impl pays for itself.              *)
THEOREM RoundsPaidFor == Spec => []RoundsBounded
<1>1. Init => TypeInv /\ RoundInv
  BY TypeInvInit DEF Init, RoundInv
<1>2. TypeInv /\ RoundInv /\ [Next]_vars => (TypeInv /\ RoundInv)'
  BY TypeInvStep, RoundInvStep
<1>3. TypeInv /\ RoundInv => RoundsBounded
  BY ToolTurnAssumption DEF TypeInv, TypeOK, RoundInv, RoundsBounded
<1> QED BY <1>1, <1>2, <1>3, PTL DEF Spec

-------------------------------------------------------------------------------
(* What a judgement leaves of the warning: it is given once, and then      *)
(* neither a third call in a row nor the warned call passes.               *)
LEMMA JudgeWarns ==
  ASSUME TypeOK, WarnInv, NEW sig \in Sig, NEW verdict, Judge(sig, verdict)
  PROVE  /\ aviso_dado' => warnings' = <<avisada'>>
         /\ ~aviso_dado' => warnings' = <<>> /\ avisada' = NoSig
         /\ aviso_dado => aviso_dado'
         /\ verdict = "abort" => aviso_dado /\ aviso_dado'
         /\ verdict = "none" => avisada # sig /\ ~Looping(historico')
<1>1. sig # NoSig
  BY ToolTurnAssumption DEF Sig
<1>2. verdict = Verdict(historico', sig)
  BY DEF Judge
<1>3. CASE verdict = "warn"
  <2>1. ~aviso_dado
    BY <1>2, <1>3 DEF Verdict
  <2>2. Append(<<>>, sig) = <<sig>>
    OBVIOUS
  <2> QED BY <1>3, <2>1, <2>2 DEF Judge, WarnInv
<1>4. CASE verdict # "warn"
  <2>1. UNCHANGED <<aviso_dado, avisada, warnings>>
    BY <1>4 DEF Judge
  <2>2. verdict = "abort" => aviso_dado
    BY <1>1, <1>2 DEF Verdict, WarnInv
  <2>3. verdict = "none" => avisada # sig /\ ~Looping(historico')
    BY <1>2 DEF Verdict
  <2> QED BY <1>4, <2>1, <2>2, <2>3 DEF WarnInv
<1> QED BY <1>3, <1>4

(* A tool runs only when the detector has nothing against it.              *)
LEMMA DispatchWarns ==
  ASSUME TypeOK, WarnInv, NEW sig \in Sig, NEW outcome, Dispatch(sig, outcome)
  PROVE  /\ aviso_dado' => warnings' = <<avisada'>>
         /\ ~aviso_dado' => warnings' = <<>> /\ avisada' = NoSig
         /\ aviso_dado => aviso_dado'
         /\ outcome = "abort" => aviso_dado'
         /\ outcome \in {"ok", "error", "paused"} => avisada # sig /\ ~Looping(historico')
<1>1. PICK verdict \in {"none", "warn", "abort"} :
        /\ Judge(sig, verdict)
        /\ outcome \in CASE verdict = "none" -> {"ok", "error", "denied", "paused"}
                         [] OTHER            -> {verdict}
  BY DEF Dispatch
<1>2. outcome = "abort" => verdict = "abort"
  BY <1>1
<1>3. outcome \in {"ok", "error", "paused"} => verdict = "none"
  BY <1>1
<1> QED BY <1>1, <1>2, <1>3, JudgeWarns

(* Only a judgement changes the warning, and only the loop ends a turn so. *)
LEMMA WarnInvStep == TypeInv /\ WarnInv /\ [Next]_vars => WarnInv'
<1> SUFFICES ASSUME TypeInv, WarnInv, [Next]_vars PROVE WarnInv'
  OBVIOUS
<1>0. TypeOK
  BY DEF TypeInv
<1>1. ASSUME NEW outcome \in Outcomes, CallTool(outcome) PROVE WarnInv'
  <2>1. Head(lote) \in Sig /\ Dispatch(Head(lote), outcome)
    BY <1>1 DEF CallTool, Sig
  <2>2. fim' = "loop" => fim = "loop" \/ outcome = "abort"
    BY <1>1 DEF CallTool, EndTurn, Ends, EndedBy
  <2> QED BY <1>0, <2>1, <2>2, DispatchWarns DEF WarnInv
<1>2. ASSUME NEW outcome \in Outcomes, Step(outcome) PROVE WarnInv'
  <2>1. Head(passos) \in Sig /\ Dispatch(Head(passos), outcome)
    BY <1>2 DEF Step, Sig
  <2>2. fim' = "loop" => fim = "loop" \/ outcome = "abort"
    BY <1>2 DEF Step, EndTurn, Ends, EndedBy
  <2> QED BY <1>0, <2>1, <2>2, DispatchWarns DEF WarnInv
<1>3. CASE CloseProgram
  <2>1. Head(lote) \in Sig
    BY <1>0, <1>3, HeadTailProperties DEF CloseProgram, TypeInv, TypeOK, ProgramIsHead
  <2>2. CASE task_calls > antes
    BY <1>3, <2>2 DEF CloseProgram, WarnInv, seen
  <2>3. CASE ~(task_calls > antes)
    <3>1. PICK verdict \in {"none", "warn", "abort"} :
            /\ Judge(Head(lote), verdict)
            /\ fim' = fim \/ verdict = "abort"
      BY <1>3, <2>3 DEF CloseProgram
    <3> QED BY <1>0, <2>1, <3>1, JudgeWarns DEF WarnInv
  <2> QED BY <2>2, <2>3
<1>4. ASSUME UNCHANGED <<aviso_dado, avisada, warnings>>, fim' = fim \/ fim' # "loop"
      PROVE  WarnInv'
  BY <1>4 DEF WarnInv
<1>5. CASE Ask
  BY <1>4, <1>5 DEF Ask
<1>6. CASE GiveUp
  BY <1>4, <1>6 DEF GiveUp, EndTurn, budget, seen
<1>7. ASSUME NEW how \in {"answered", "failed"}, Answer(how) PROVE WarnInv'
  BY <1>4, <1>7 DEF Answer, EndTurn, budget, seen
<1>8. ASSUME NEW denied \in BOOLEAN, OpenProgram(denied) PROVE WarnInv'
  BY <1>4, <1>8 DEF OpenProgram, seen
<1>9. CASE ProgramOverBudget
  BY <1>4, <1>9 DEF ProgramOverBudget, EndTurn, budget, seen
<1>10. ASSUME UNCHANGED <<fim, budget, seen>> PROVE WarnInv'
  BY <1>4, <1>10 DEF budget, seen
<1> QED BY <1>1, <1>2, <1>3, <1>5, <1>6, <1>7, <1>8, <1>9, <1>10
    DEF Next, CallTools, NextRound, Refuse, StopProgram, vars, control

(* No warning is given when a task begins.                                 *)
LEMMA WarnInvInit == Init => WarnInv
BY DEF Init, WarnInv

(* veredito_de_loop warns once in a task, and no turn is aborted for a     *)
(* loop without that warning.                                              *)
THEOREM WarnsBeforeAborting == Spec => []WarnedBeforeAborted
<1>1. Init => TypeInv /\ WarnInv
  BY TypeInvInit, WarnInvInit
<1>2. TypeInv /\ WarnInv /\ [Next]_vars => (TypeInv /\ WarnInv)'
  BY TypeInvStep, WarnInvStep
<1>3. TypeInv /\ WarnInv => WarnedBeforeAborted
  <2> SUFFICES ASSUME WarnInv PROVE WarnedBeforeAborted
    OBVIOUS
  <2>1. Len(<<>>) = 0 /\ Len(<<avisada>>) = 1
    OBVIOUS
  <2>2. Len(warnings) = IF aviso_dado THEN 1 ELSE 0
    BY <2>1, Zenon DEF WarnInv
  <2>3. fim = "loop" => aviso_dado
    BY DEF WarnInv
  <2> QED BY <2>2, <2>3 DEF WarnedBeforeAborted
<1> QED BY <1>1, <1>2, <1>3, PTL DEF Spec

(* The last of what the observer has seen after a call is that call.       *)
LEMMA RanLast ==
  ASSUME TypeOK, NEW sig \in Sig, NEW did \in BOOLEAN, Ran(sig, did)
  PROVE  LastOf(calls') = [sig |-> sig, ran |-> did]
<1>1. calls \in Seq(CallRecord) /\ Len(calls) <= JANELA_LOOP
  BY DEF TypeOK, CallRecord
<1>2. [sig |-> sig, ran |-> did] \in CallRecord
  BY DEF CallRecord
<1> QED BY <1>1, <1>2, WindowProperties DEF Ran, LastOf

(* A call the model was warned about never runs again in the task, from    *)
(* the batch or from a program, before or after a reset of the turn.       *)
THEOREM NeverRunsAfterWarning == Spec => WarnedNeverRuns
<1> DEFINE A == ranTask' > ranTask =>
                  \A i \in 1..Len(warnings) : warnings[i] # LastOf(calls').sig
<1>1. TypeInv /\ WarnInv /\ [Next]_vars => [A]_vars
  <2> SUFFICES ASSUME TypeInv, WarnInv, Next, ranTask' > ranTask
               PROVE  \A i \in 1..Len(warnings) : warnings[i] # LastOf(calls').sig
    OBVIOUS
  <2>0. TypeOK /\ ranTask \in Nat
    BY DEF TypeInv, TypeOK
  <2>1. ASSUME NEW sig \in Sig, NEW outcome, Dispatch(sig, outcome)
        PROVE  \A i \in 1..Len(warnings) : warnings[i] # LastOf(calls').sig
    <3>1. outcome \in {"ok", "error", "paused"}
      BY <2>0, <2>1 DEF Dispatch, Ran
    <3>2. avisada # sig
      BY <2>0, <2>1, <3>1, DispatchWarns
    <3>3. LastOf(calls').sig = sig
      <4>1. Ran(sig, outcome \in {"ok", "error", "paused"})
        BY <2>1 DEF Dispatch
      <4>2. (outcome \in {"ok", "error", "paused"}) \in BOOLEAN
        OBVIOUS
      <4>3. LastOf(calls') = [sig |-> sig, ran |-> outcome \in {"ok", "error", "paused"}]
        BY <2>0, <4>1, <4>2, RanLast
      <4> QED BY <4>3
    <3>4. warnings = <<>> \/ warnings = <<avisada>>
      BY DEF WarnInv
    <3> QED BY <3>2, <3>3, <3>4
  <2>2. ranTask' # ranTask
    BY <2>0
  <2>3. \/ \E outcome \in Outcomes : CallTool(outcome) \/ Step(outcome)
        \/ CloseProgram
    BY <2>2 DEF Next, Ask, GiveUp, Answer, CallTools, NextRound, Refuse, OpenProgram,
                StopProgram, ProgramOverBudget, seen
  <2>4. ~CloseProgram
    BY <2>2 DEF CloseProgram, Ran, seen
  <2> QED BY <2>1, <2>3, <2>4 DEF CallTool, Step, Sig
<1>2. Init => TypeInv /\ WarnInv
  BY TypeInvInit, WarnInvInit
<1>3. TypeInv /\ WarnInv /\ [Next]_vars => (TypeInv /\ WarnInv)'
  BY TypeInvStep, WarnInvStep
<1> QED BY <1>1, <1>2, <1>3, PTL DEF Spec, WarnedNeverRuns

-------------------------------------------------------------------------------
(* A call enters the loop window and the observer's together.              *)
LEMMA SeenTogether ==
  ASSUME TypeOK, SeenInv, NEW sig \in Sig, NEW did \in BOOLEAN, NEW verdict,
         Judge(sig, verdict), Ran(sig, did)
  PROVE  /\ SeenInv'
         /\ Len(calls') <= JANELA_LOOP
         /\ LastOf(calls') = [sig |-> sig, ran |-> did]
<1> DEFINE rec == [sig |-> sig, ran |-> did]
           k == Len(LastTwo(historico))
<1>1. /\ historico \in Seq(Sig) /\ Len(historico) <= JANELA_LOOP
      /\ calls \in Seq(CallRecord) /\ Len(calls) <= JANELA_LOOP
  BY DEF TypeOK, CallRecord
<1>2. rec \in CallRecord
  BY DEF CallRecord
<1>3. historico' = Append(LastTwo(historico), sig) /\ calls' = Append(LastTwo(calls), rec)
  BY DEF Judge, Pushed, Ran
<1>4. Len(LastTwo(calls)) = k /\ k \in Nat
  <2>1. Len(calls) = Len(historico)
    BY DEF SeenInv
  <2>2. k \in Nat
    BY <1>1, LastTwoProperties, LenProperties
  <2>3. Len(LastTwo(calls)) = IF Len(historico) < JANELA_LOOP THEN Len(historico) ELSE 2
    BY <1>1, <2>1, LastTwoProperties
  <2>4. k = IF Len(historico) < JANELA_LOOP THEN Len(historico) ELSE 2
    BY <1>1, LastTwoProperties
  <2> QED BY <2>2, <2>3, <2>4
<1>5. /\ Len(historico') = k + 1
      /\ historico'[k + 1] = sig
      /\ \A i \in 1..k : historico'[i] = LastTwo(historico)[i]
  BY <1>1, <1>3, WindowProperties
<1>6. /\ Len(calls') = k + 1 /\ Len(calls') <= JANELA_LOOP
      /\ calls'[k + 1] = rec
      /\ \A i \in 1..k : calls'[i] = LastTwo(calls)[i]
  BY <1>1, <1>2, <1>3, <1>4, WindowProperties
<1>7. ASSUME NEW i \in 1..k
      PROVE  LastTwo(calls)[i].sig = LastTwo(historico)[i]
  <2> DEFINE j == IF Len(historico) < JANELA_LOOP THEN i ELSE i + 1
             n == Len(historico)
  <2>1. Len(calls) = n /\ \A x \in 1..n : calls[x].sig = historico[x]
    BY DEF SeenInv
  <2>2. LastTwo(historico)[i] = historico[j]
    BY <1>1, LastTwoProperties
  <2>3. LastTwo(calls)[i] = calls[j]
    BY <1>1, <1>4, <2>1, LastTwoProperties
  <2>4. k = IF n < JANELA_LOOP THEN n ELSE 2
    BY <1>1, LastTwoProperties
  <2>5. n \in Nat /\ n <= JANELA_LOOP
    BY <1>1, LenProperties
  <2>6. j = IF n < JANELA_LOOP THEN i ELSE i + 1
    OBVIOUS
  <2>7. j \in 1..n
    <3> HIDE DEF n, j, k
    <3> QED BY <2>4, <2>5, <2>6 DEF JANELA_LOOP
  <2> QED BY <2>1, <2>2, <2>3, <2>7
<1>8. rec.sig = sig
  OBVIOUS
<1> HIDE DEF k, rec
<1>9. ASSUME NEW i \in 1..(k + 1)
      PROVE  calls'[i].sig = historico'[i]
  <2>1. CASE i \in 1..k
    BY <1>5, <1>6, <1>7, <2>1
  <2>2. CASE i = k + 1
    BY <1>5, <1>6, <1>8, <2>2
  <2> QED BY <1>4, <2>1, <2>2
<1>10. SeenInv'
  BY <1>5, <1>6, <1>9 DEF SeenInv
<1>11. LastOf(calls') = rec
  BY <1>6 DEF LastOf
<1> QED BY <1>6, <1>10, <1>11 DEF rec

(* A third call in a row does not run: the detector sees it.               *)
LEMMA NoThirdAfter ==
  ASSUME TypeOK, SeenInv', Len(calls') <= JANELA_LOOP,
         NEW sig, NEW did \in BOOLEAN,
         LastOf(calls') = [sig |-> sig, ran |-> did],
         did => ~Looping(historico')
  PROVE  NoThirdRun'
<1> SUFFICES ASSUME Len(calls') = JANELA_LOOP,
                    \A i \in 1..JANELA_LOOP : calls'[i].ran /\ calls'[i].sig = calls'[1].sig
             PROVE  FALSE
  BY DEF NoThirdRun
<1>1. JANELA_LOOP \in 1..JANELA_LOOP /\ 1 \in 1..JANELA_LOOP
  BY DEF JANELA_LOOP
<1>2. calls'[JANELA_LOOP].ran
  BY <1>1
<1>3. did
  BY <1>2 DEF LastOf
<1>4. Len(historico') = JANELA_LOOP /\ \A i \in 1..JANELA_LOOP : historico'[i] = historico'[1]
  BY <1>1 DEF SeenInv
<1> QED BY <1>3, <1>4 DEF Looping

(* Every action moves the two windows together and lets no third run in.   *)
LEMMA LoopInvStep == TypeInv /\ WarnInv /\ LoopInv /\ [Next]_vars => LoopInv'
<1> SUFFICES ASSUME TypeInv, WarnInv, LoopInv, [Next]_vars PROVE LoopInv'
  OBVIOUS
<1>0. TypeOK /\ SeenInv /\ NoThirdRun
  BY DEF TypeInv, LoopInv
<1>1. ASSUME NEW sig \in Sig, NEW outcome, Dispatch(sig, outcome) PROVE LoopInv'
  <2> DEFINE did == outcome \in {"ok", "error", "paused"}
  <2>1. PICK verdict \in {"none", "warn", "abort"} : Judge(sig, verdict)
    BY <1>1 DEF Dispatch
  <2>2. Ran(sig, did) /\ did \in BOOLEAN
    BY <1>1 DEF Dispatch
  <2>3. did => ~Looping(historico')
    BY <1>0, <1>1, DispatchWarns
  <2> HIDE DEF did
  <2>4. /\ SeenInv' /\ Len(calls') <= JANELA_LOOP
        /\ LastOf(calls') = [sig |-> sig, ran |-> did]
    BY <1>0, <2>1, <2>2, SeenTogether
  <2>5. NoThirdRun'
    BY <1>0, <2>2, <2>3, <2>4, NoThirdAfter
  <2> QED BY <2>4, <2>5 DEF LoopInv
<1>2. CASE CloseProgram
  <2>1. CASE task_calls > antes
    BY <1>0, <1>2, <2>1 DEF CloseProgram, seen, LoopInv, SeenInv, NoThirdRun
  <2>2. CASE ~(task_calls > antes)
    <3>1. Head(lote) \in Sig
      BY <1>0, <1>2, HeadTailProperties DEF CloseProgram, TypeInv, TypeOK, ProgramIsHead
    <3>2. PICK verdict \in {"none", "warn", "abort"} : Judge(Head(lote), verdict)
      BY <1>2, <2>2 DEF CloseProgram
    <3>3. Ran(Head(lote), FALSE)
      BY <1>2, <2>2 DEF CloseProgram
    <3>4. /\ SeenInv' /\ Len(calls') <= JANELA_LOOP
          /\ LastOf(calls') = [sig |-> Head(lote), ran |-> FALSE]
      BY <1>0, <3>1, <3>2, <3>3, SeenTogether
    <3>5. NoThirdRun'
      BY <1>0, <3>4, NoThirdAfter
    <3> QED BY <3>4, <3>5 DEF LoopInv
  <2> QED BY <2>1, <2>2
<1>3. CASE Ask
  <2>1. CASE historico' = <<>> /\ calls' = <<>>
    <3>1. Len(<<>>) = 0
      OBVIOUS
    <3> QED BY <2>1, <3>1 DEF LoopInv, SeenInv, NoThirdRun, JANELA_LOOP
  <2>2. CASE historico' = historico /\ calls' = calls
    BY <1>0, <2>2 DEF LoopInv, SeenInv, NoThirdRun
  <2> QED BY <1>3, <2>1, <2>2 DEF Ask, ResetTurn
<1>4. ASSUME NEW denied \in BOOLEAN, OpenProgram(denied) PROVE LoopInv'
  BY <1>0, <1>4 DEF OpenProgram, seen, LoopInv, SeenInv, NoThirdRun
<1>5. ASSUME UNCHANGED <<budget, seen>> PROVE LoopInv'
  BY <1>0, <1>5 DEF budget, seen, LoopInv, SeenInv, NoThirdRun
<1>6. ASSUME NEW outcome \in Outcomes, CallTool(outcome) PROVE LoopInv'
  BY <1>1, <1>6 DEF CallTool, Sig
<1>7. ASSUME NEW outcome \in Outcomes, Step(outcome) PROVE LoopInv'
  BY <1>1, <1>7 DEF Step, Sig
<1> QED BY <1>2, <1>3, <1>4, <1>5, <1>6, <1>7
    DEF Next, GiveUp, Answer, CallTools, NextRound, Refuse, StopProgram,
        ProgramOverBudget, vars

(* Between two resets no tool runs a third time in a row with the same     *)
(* arguments, in batches and in programs alike (veredito_de_loop).         *)
THEOREM NeverRunsThrice == Spec => []NoThirdRun
<1>1. Init => TypeInv /\ WarnInv /\ LoopInv
  <2> SUFFICES ASSUME Init PROVE LoopInv
    BY TypeInvInit, WarnInvInit
  <2>1. Len(<<>>) = 0
    OBVIOUS
  <2> QED BY <2>1 DEF Init, LoopInv, SeenInv, NoThirdRun, JANELA_LOOP
<1>2. TypeInv /\ WarnInv /\ LoopInv /\ [Next]_vars => (TypeInv /\ WarnInv /\ LoopInv)'
  BY TypeInvStep, WarnInvStep, LoopInvStep
<1>3. LoopInv => NoThirdRun
  BY DEF LoopInv
<1> QED BY <1>1, <1>2, <1>3, PTL DEF Spec

================================================================================
