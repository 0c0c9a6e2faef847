----------------------------- MODULE ToolBreaker -----------------------------
(***************************************************************************)
(* The circuit breaker of the tools (garraia-agents: tools/breaker.rs, and *)
(* its two uses in dispatch_tool_call).  Each session has a record per     *)
(* tool; a turn reads the state of a tool before it runs it, awaits the    *)
(* tool without the lock, and registers the outcome afterwards.  Turns of  *)
(* one session may overlap (the channels start a task per message), and    *)
(* the registry keeps a bounded number of sessions, the oldest to arrive   *)
(* leaving first.                                                          *)
(***************************************************************************)
EXTENDS Integers, Sequences, FiniteSets

CONSTANTS Session, Turn, Tool,
          Context,      \* working directories a session may declare
          NoContext,    \* the context of a session just created
          Erro,         \* signatures of generic errors
          NoTool,       \* no call under way
          Base, Teto,   \* COOLDOWN_BASE, COOLDOWN_TETO
          Repeticoes,   \* REPETICOES_PARA_ABRIR
          Capacidade,   \* MAX_SESSOES
          MaxTimeouts,  \* bound on the timeouts in a row that are told apart
          MaxTime       \* bound on the clock

ASSUME BreakerAssumption ==
  /\ Session # {} /\ NoContext \in Context /\ NoTool \notin Tool
  /\ Base \in Nat \ {0} /\ Teto \in Nat /\ Base <= Teto
  /\ Repeticoes \in Nat \ {0} /\ Capacidade \in Nat \ {0}
  /\ MaxTimeouts \in Nat \ {0} /\ MaxTime \in Nat

VARIABLES
  now,
  ordem,        \* sessions of the registry, oldest arrival first
  contexto,     \* session -> context of its last turn
  no_turno,     \* session -> tool -> open until the end of the turn
  genericas,    \* session -> tool -> error -> how often, this turn
  timeouts,     \* session -> tool -> timeouts in a row
  cooldown_ate, \* session -> tool -> end of its cooldown, 0 when none
  turno,        \* turn -> its session, whether it is open, the call it awaits
  \* what an observer of the turns has seen
  alone,        \* turns that had their session to themselves so far
  failed,       \* turn -> tool -> errors it got in this turn: error -> how often
  doomed,       \* turn -> tools that failed in it in a way that will not change
  held          \* session -> tool -> end of the last cooldown it earned

registry == <<ordem, contexto, no_turno, genericas, timeouts, cooldown_ate>>
seen == <<alone, failed, doomed, held>>
vars == <<now, registry, turno, seen>>

Idle == [open |-> FALSE, session |-> CHOOSE s \in Session : TRUE, call |-> NoTool]

Closed == [tool \in Tool |-> FALSE]
Zero == [tool \in Tool |-> 0]
NoErrors == [tool \in Tool |-> [e \in Erro |-> 0]]

Init ==
  /\ now = 0
  /\ ordem = <<>>
  /\ contexto = [s \in Session |-> NoContext]
  /\ no_turno = [s \in Session |-> Closed]
  /\ genericas = [s \in Session |-> NoErrors]
  /\ timeouts = [s \in Session |-> Zero]
  /\ cooldown_ate = [s \in Session |-> Zero]
  /\ turno = [t \in Turn |-> Idle]
  /\ alone = {}
  /\ failed = [t \in Turn |-> NoErrors]
  /\ doomed = [t \in Turn |-> {}]
  /\ held = [s \in Session |-> Zero]

-------------------------------------------------------------------------------
(* The registry: a session it does not know reads as a fresh one           *)

Known == {ordem[i] : i \in 1..Len(ordem)}

(* Sessoes::entrada: a session that arrives is last, and pushes the first  *)
(* ones out over the ceiling.                                              *)
Arrived(s) ==
  IF s \in Known THEN ordem
  ELSE LET queue == Append(ordem, s)
       IN  IF Len(queue) > Capacidade THEN Tail(queue) ELSE queue

(* A slip to check against: who leaves the queue stays in the map.         *)
EvictedFromQueue(s) == {}

Evicted(s) == {o \in Known : \A i \in 1..Len(Arrived(s)) : Arrived(s)[i] # o}

(* f with the sessions of gone forgotten, and then s set to value *)
Forget(f, gone, fresh, s, value) ==
  [o \in Session |-> IF o = s THEN value ELSE IF o \in gone THEN fresh ELSE f[o]]

(* A slip to check against: a tool with timeouts is judged by its cooldown *)
(* alone.                                                                  *)
IsCooling(s, tool) ==
  IF timeouts[s][tool] > 0 THEN now < cooldown_ate[s][tool] ELSE no_turno[s][tool]

(* Breaker::estado *)
IsOpen(s, tool) == no_turno[s][tool] \/ now < cooldown_ate[s][tool]

(* 2^(n-1) times the base, up to the ceiling *)
Cooldown(n) == IF Base * 2^(n - 1) < Teto THEN Base * 2^(n - 1) ELSE Teto

-------------------------------------------------------------------------------
TurnsOf(s) == {t \in Turn : turno[t].open /\ turno[t].session = s}

(* A slip to check against: a new turn starts afresh.                      *)
KeptNone(s, c, tool) == FALSE

(* the tools whose timeouts outlive the opening of a turn in context c     *)
Kept(s, c, tool) == contexto[s] = c /\ timeouts[s][tool] > 0

(* abrir_turno.  Another context clears the session; the same one only     *)
(* what lasts a turn, and the tools without timeouts in a row.             *)
OpenTurn(t, s, c) ==
  LET same == contexto[s] = c
      gone == Evicted(s)
  IN
  /\ ~turno[t].open
  /\ ordem' = Arrived(s)
  /\ contexto' = Forget(contexto, gone, NoContext, s, c)
  /\ no_turno' = Forget(no_turno, gone, Closed, s, Closed)
  /\ genericas' = Forget(genericas, gone, NoErrors, s, NoErrors)
  /\ timeouts' = Forget(timeouts, gone, Zero, s,
                        [tool \in Tool |-> IF Kept(s, c, tool) THEN timeouts[s][tool] ELSE 0])
  /\ cooldown_ate' = Forget(cooldown_ate, gone, Zero, s,
                        [tool \in Tool |-> IF Kept(s, c, tool) THEN cooldown_ate[s][tool] ELSE 0])
  /\ turno' = [turno EXCEPT ![t] = [open |-> TRUE, session |-> s, call |-> NoTool]]
  /\ alone' = (alone \ TurnsOf(s)) \cup (IF TurnsOf(s) = {} THEN {t} ELSE {})
  /\ failed' = [u \in Turn |-> IF u = t \/ turno[u].session \in gone THEN NoErrors ELSE failed[u]]
  /\ doomed' = [u \in Turn |-> IF u = t \/ turno[u].session \in gone THEN {} ELSE doomed[u]]
  /\ held' = Forget(held, gone, Zero, s, IF same THEN held[s] ELSE Zero)
  /\ UNCHANGED now

(* dispatch_tool_call asks the breaker, and runs a tool that is not open *)
Start(t, tool) ==
  /\ turno[t].open /\ turno[t].call = NoTool
  /\ ~IsOpen(turno[t].session, tool)
  /\ turno' = [turno EXCEPT ![t].call = tool]
  /\ UNCHANGED <<now, registry, seen>>

(* Breaker::registrar, once the tool answered.  A session evicted meanwhile *)
(* arrives again, with nothing but this outcome.                            *)
Register(t, turn_open, errors, row, until) ==
  LET s == turno[t].session
      tool == turno[t].call
      gone == Evicted(s)
  IN
  /\ turno[t].open /\ tool # NoTool
  /\ ordem' = Arrived(s)
  /\ contexto' = Forget(contexto, gone, NoContext, s, contexto[s])
  /\ no_turno' = Forget(no_turno, gone, Closed, s, [no_turno[s] EXCEPT ![tool] = turn_open])
  /\ genericas' = Forget(genericas, gone, NoErrors, s, [genericas[s] EXCEPT ![tool] = errors])
  /\ timeouts' = Forget(timeouts, gone, Zero, s, [timeouts[s] EXCEPT ![tool] = row])
  /\ cooldown_ate' = Forget(cooldown_ate, gone, Zero, s, [cooldown_ate[s] EXCEPT ![tool] = until])
  /\ turno' = [turno EXCEPT ![t].call = NoTool]
  /\ UNCHANGED <<now, alone>>

(* what the observer notes of an outcome: the errors of the turn, whether  *)
(* they doom the tool in it, and the end of the cooldown earned            *)
Observe(t, errors, dooms, clears, until) ==
  LET s == turno[t].session
      tool == turno[t].call
      gone == Evicted(s)
  IN
  /\ failed' = [u \in Turn |->
                  CASE turno[u].session \in gone                -> NoErrors
                    [] u = t \/ (clears /\ turno[u].session = s) ->
                         [failed[u] EXCEPT ![tool] = errors]
                    [] OTHER                                    -> failed[u]]
  /\ doomed' = [u \in Turn |->
                  CASE turno[u].session \in gone         -> {}
                    [] clears /\ turno[u].session = s    -> doomed[u] \ {tool}
                    [] dooms /\ u = t                    -> doomed[u] \cup {tool}
                    [] OTHER                             -> doomed[u]]
  /\ held' = Forget(held, gone, Zero, s, [held[s] EXCEPT ![tool] = until])

Succeed(t) ==
  LET none == [e \in Erro |-> 0] IN
  /\ Register(t, FALSE, none, 0, 0)
  /\ Observe(t, none, FALSE, TRUE, 0)

(* a pause for confirmation is neither a success nor a failure *)
Neutral(t) ==
  LET s == turno[t].session
      tool == turno[t].call IN
  /\ Register(t, no_turno[s][tool], genericas[s][tool], timeouts[s][tool], cooldown_ate[s][tool])
  /\ Observe(t, failed[t][tool], FALSE, FALSE, held[s][tool])

FailForGood(t) ==
  LET s == turno[t].session
      tool == turno[t].call IN
  /\ Register(t, TRUE, genericas[s][tool], timeouts[s][tool], cooldown_ate[s][tool])
  /\ Observe(t, failed[t][tool], TRUE, FALSE, held[s][tool])

TimeOut(t) ==
  LET s == turno[t].session
      tool == turno[t].call
      row == IF timeouts[s][tool] < MaxTimeouts THEN timeouts[s][tool] + 1 ELSE MaxTimeouts
      until == now + Cooldown(row)
  IN
  /\ Register(t, no_turno[s][tool], genericas[s][tool], row, until)
  /\ Observe(t, failed[t][tool], FALSE, FALSE, until)

FailWith(t, e) ==
  LET s == turno[t].session
      tool == turno[t].call
      n == genericas[s][tool][e] + 1
      mine == failed[t][tool][e] + 1
  IN
  /\ Register(t, no_turno[s][tool] \/ n >= Repeticoes,
              [genericas[s][tool] EXCEPT ![e] = IF n < Repeticoes THEN n ELSE Repeticoes],
              timeouts[s][tool], cooldown_ate[s][tool])
  /\ Observe(t, [failed[t][tool] EXCEPT ![e] = IF mine < Repeticoes THEN mine ELSE Repeticoes],
             mine >= Repeticoes, FALSE, held[s][tool])

(* The turn ends, or is cancelled while a tool runs *)
CloseTurn(t) ==
  /\ turno[t].open
  /\ turno' = [turno EXCEPT ![t] = Idle]
  /\ alone' = alone \ {t}
  /\ failed' = [failed EXCEPT ![t] = NoErrors]
  /\ doomed' = [doomed EXCEPT ![t] = {}]
  /\ UNCHANGED <<now, registry, held>>

(* Breakers::lock finds the mutex poisoned, a call having panicked while it *)
(* held it: the registry starts over, and every session with it.            *)
Recover ==
  /\ ordem' = <<>>
  /\ contexto' = [s \in Session |-> NoContext]
  /\ no_turno' = [s \in Session |-> Closed]
  /\ genericas' = [s \in Session |-> NoErrors]
  /\ timeouts' = [s \in Session |-> Zero]
  /\ cooldown_ate' = [s \in Session |-> Zero]
  /\ failed' = [t \in Turn |-> NoErrors]
  /\ doomed' = [t \in Turn |-> {}]
  /\ held' = [s \in Session |-> Zero]
  /\ UNCHANGED <<now, turno, alone>>

Tick == now < MaxTime /\ now' = now + 1 /\ UNCHANGED <<registry, turno, seen>>

Next ==
  \/ \E t \in Turn, s \in Session, c \in Context : OpenTurn(t, s, c)
  \/ \E t \in Turn, tool \in Tool : Start(t, tool)
  \/ \E t \in Turn : Succeed(t) \/ Neutral(t) \/ FailForGood(t) \/ TimeOut(t)
  \/ \E t \in Turn, e \in Erro : FailWith(t, e)
  \/ \E t \in Turn : CloseTurn(t)
  \/ Recover
  \/ Tick

Spec == Init /\ [][Next]_vars

-------------------------------------------------------------------------------
(* The records hold what the code can put in them: counters up to their    *)
(* bounds, and no cooldown further away than the ceiling of cooldown().    *)
TypeOK ==
  /\ now \in 0..MaxTime
  /\ ordem \in Seq(Session)
  /\ contexto \in [Session -> Context]
  /\ no_turno \in [Session -> [Tool -> BOOLEAN]]
  /\ genericas \in [Session -> [Tool -> [Erro -> 0..Repeticoes]]]
  /\ timeouts \in [Session -> [Tool -> 0..MaxTimeouts]]
  /\ cooldown_ate \in [Session -> [Tool -> Int]]
  /\ \A s \in Session, tool \in Tool : cooldown_ate[s][tool] <= now + Teto
  /\ turno \in [Turn -> [open : BOOLEAN, session : Session, call : Tool \cup {NoTool}]]
  /\ alone \subseteq Turn
  /\ failed \in [Turn -> [Tool -> [Erro -> 0..Repeticoes]]]
  /\ doomed \in [Turn -> SUBSET Tool]
  /\ held \in [Session -> [Tool -> Int]]

(* The two maps of Sessoes agree and stay bounded, whatever turns arrive,  *)
(* finish late or come back after their session was evicted: a session is  *)
(* queued at most once, at most Capacidade are, and one that is not queued *)
(* keeps no record.                                                        *)
RegistryConsistent ==
  /\ Len(ordem) <= Capacidade
  /\ \A i, j \in 1..Len(ordem) : ordem[i] = ordem[j] => i = j
  /\ \A s \in Session \ Known :
       /\ contexto[s] = NoContext
       /\ no_turno[s] = Closed /\ timeouts[s] = Zero /\ cooldown_ate[s] = Zero

Starts(t, tool) == turno[t].call = NoTool /\ turno'[t].call = tool

(* A tool that timed out is not run again in the session before its        *)
(* cooldown is over, across turns and whatever other outcomes come in      *)
(* late, unless it succeeded meanwhile, the session changed its context or *)
(* was evicted, or the registry started over.                              *)
CooldownServed ==
  [][\A t \in Turn, tool \in Tool :
       Starts(t, tool) => now >= held[turno[t].session][tool]]_vars

(* A turn that has its session to itself does not run again a tool that    *)
(* failed in it for good, or Repeticoes times with the same error, unless  *)
(* the tool succeeded since, the session was evicted or the registry       *)
(* started over.                                                           *)
AloneTurnGivesUp ==
  [][\A t \in alone, tool \in Tool : Starts(t, tool) => tool \notin doomed[t]]_vars

===============================================================================
