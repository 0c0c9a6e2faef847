----------------------------- MODULE Breakers_proofs -----------------------------
(***************************************************************************)
(* The two circuit breakers, of the tools (ToolBreaker) and of the         *)
(* providers (ProviderCircuit).                                            *)
(*                                                                         *)
(* Tools: the registry of sessions stays consistent and bounded for every  *)
(* number of sessions, turns and tools, and every ceiling; cooldowns are   *)
(* served.                                                                 *)
(*                                                                         *)
(* Providers: for any number of requests, the types; and a closed circuit  *)
(* has counted no more than what came in a row, with what is still owed,   *)
(* unless a good answer is being recorded (RowInv).  For one request at a  *)
(* time, at a provider that was clean when it began, a circuit has counted *)
(* no more than the request's own tries (CleanInv).                        *)
(***************************************************************************)
EXTENDS ToolBreaker, ProviderCircuit, SequenceTheorems, FiniteSetTheorems, TLAPS

Members(queue) == {queue[i] : i \in 1..Len(queue)}

Injective(queue) == \A i, j \in 1..Len(queue) : queue[i] = queue[j] => i = j

(* A queue the registry may hold.                                          *)
Queue(queue) ==
  queue \in Seq(Session) /\ Len(queue) <= Capacidade /\ Injective(queue)

(* The queue without its head is still one, and has lost only its head.    *)
LEMMA TailOfQueue ==
  ASSUME NEW queue \in Seq(Session), queue # <<>>, Injective(queue)
  PROVE  /\ Tail(queue) \in Seq(Session) /\ Injective(Tail(queue))
         /\ Len(Tail(queue)) = Len(queue) - 1
         /\ Members(Tail(queue)) \subseteq Members(queue)
         /\ Len(queue) > 1 => queue[Len(queue)] \in Members(Tail(queue))
<1> DEFINE n == Len(queue)
           tail == Tail(queue)
<1>1. n \in Nat \ {0}
  BY EmptySeq
<1>2. /\ tail \in Seq(Session) /\ Len(tail) = n - 1
      /\ \A i \in 1..Len(tail) : tail[i] = queue[i + 1]
  BY HeadTailProperties
<1>3. \A i, j \in 1..n : queue[i] = queue[j] => i = j
  BY DEF Injective
<1>4. Members(queue) = {queue[i] : i \in 1..n} /\ Members(tail) = {tail[i] : i \in 1..Len(tail)}
  BY DEF Members
<1>5. Injective(tail) <=> \A i, j \in 1..Len(tail) : tail[i] = tail[j] => i = j
  BY DEF Injective
<1> HIDE DEF n, tail
<1>6. \A i \in 1..Len(tail) : i + 1 \in 1..n
  BY <1>1, <1>2
<1>7. Injective(tail)
  <2> SUFFICES ASSUME NEW i \in 1..Len(tail), NEW j \in 1..Len(tail), tail[i] = tail[j]
               PROVE  i = j
    BY <1>5
  <2>1. i + 1 = j + 1
    BY <1>2, <1>3, <1>6
  <2> QED BY <2>1
<1>8. Members(tail) \subseteq Members(queue)
  BY <1>2, <1>4, <1>6
<1>9. ASSUME n > 1 PROVE queue[n] \in Members(tail)
  <2>1. n - 1 \in 1..Len(tail) /\ (n - 1) + 1 = n
    BY <1>1, <1>2, <1>9
  <2> QED BY <1>2, <1>4, <2>1
<1> QED BY <1>2, <1>7, <1>8, <1>9 DEF n, tail

(* A session that arrives last makes a queue, if it was not in it.         *)
LEMMA AppendToQueue ==
  ASSUME NEW queue \in Seq(Session), Injective(queue),
         NEW s \in Session, s \notin Members(queue)
  PROVE  /\ Append(queue, s) \in Seq(Session) /\ Injective(Append(queue, s))
         /\ Append(queue, s) # <<>>
         /\ Len(Append(queue, s)) = Len(queue) + 1
         /\ Members(Append(queue, s)) = Members(queue) \cup {s}
         /\ Append(queue, s)[Len(queue) + 1] = s
<1> DEFINE n == Len(queue)
           more == Append(queue, s)
<1>1. n \in Nat
  BY LenProperties
<1>2. /\ more \in Seq(Session) /\ more # <<>> /\ Len(more) = n + 1
      /\ \A i \in 1..n : more[i] = queue[i]
      /\ more[n + 1] = s
  BY AppendProperties
<1>3. \A i, j \in 1..n : queue[i] = queue[j] => i = j
  BY DEF Injective
<1>4. Members(queue) = {queue[i] : i \in 1..n} /\ Members(more) = {more[i] : i \in 1..Len(more)}
  BY DEF Members
<1>5. Injective(more) <=> \A i, j \in 1..Len(more) : more[i] = more[j] => i = j
  BY DEF Injective
<1> HIDE DEF n, more
<1>6. \A i \in 1..Len(more) : i \in 1..n \/ i = n + 1
  BY <1>1, <1>2
<1>7. \A i \in 1..n : queue[i] # s
  BY <1>4
<1>8. Injective(more)
  <2> SUFFICES ASSUME NEW i \in 1..Len(more), NEW j \in 1..Len(more), more[i] = more[j]
               PROVE  i = j
    BY <1>5
  <2> QED BY <1>2, <1>3, <1>6, <1>7
<1>9. Members(more) = Members(queue) \cup {s}
  <2>1. n + 1 \in 1..Len(more) /\ \A i \in 1..n : i \in 1..Len(more)
    BY <1>1, <1>2
  <2> QED BY <1>2, <1>4, <1>6, <2>1
<1> QED BY <1>2, <1>8, <1>9 DEF n, more

(* Sessoes::entrada leaves a queue that holds the session, and nobody new. *)
LEMMA ArrivedIsQueue ==
  ASSUME Queue(ordem), NEW s \in Session
  PROVE  /\ Queue(Arrived(s)) /\ s \in Members(Arrived(s))
         /\ Members(Arrived(s)) \subseteq Known \cup {s}
         /\ Evicted(s) = Known \ Members(Arrived(s))
<1>1. ordem \in Seq(Session) /\ Len(ordem) <= Capacidade /\ Injective(ordem)
  BY DEF Queue
<1>2. Known = Members(ordem)
  BY DEF Known, Members
<1>3. Evicted(s) = Known \ Members(Arrived(s))
  BY DEF Evicted, Members
<1>4. Capacidade \in Nat \ {0}
  BY BreakerAssumption
<1>5. CASE s \in Known
  BY <1>1, <1>2, <1>3, <1>5 DEF Arrived, Queue
<1>6. CASE s \notin Known
  <2> DEFINE queue == Append(ordem, s)
             n == Len(ordem)
  <2>1. n \in Nat /\ n <= Capacidade
    BY <1>1, LenProperties
  <2>2. /\ queue \in Seq(Session) /\ Injective(queue) /\ queue # <<>>
        /\ Len(queue) = n + 1 /\ Members(queue) = Known \cup {s}
        /\ queue[n + 1] = s
    BY <1>1, <1>2, <1>6, AppendToQueue
  <2>3. Arrived(s) = IF Len(queue) > Capacidade THEN Tail(queue) ELSE queue
    BY <1>6 DEF Arrived
  <2> HIDE DEF queue, n
  <2>4. CASE Len(queue) > Capacidade
    <3>1. /\ Tail(queue) \in Seq(Session) /\ Injective(Tail(queue))
          /\ Len(Tail(queue)) = Len(queue) - 1
          /\ Members(Tail(queue)) \subseteq Members(queue)
          /\ Len(queue) > 1 => queue[Len(queue)] \in Members(Tail(queue))
      BY <2>2, TailOfQueue
    <3>2. Len(queue) > 1 /\ Len(Tail(queue)) <= Capacidade
      BY <1>4, <2>1, <2>2, <2>4, <3>1
    <3> QED BY <1>3, <2>2, <2>3, <2>4, <3>1, <3>2 DEF Queue
  <2>5. CASE ~(Len(queue) > Capacidade)
    <3>1. Len(queue) <= Capacidade
      BY <1>4, <2>1, <2>2, <2>5
    <3> QED BY <1>3, <2>2, <2>3, <2>5, <3>1 DEF Queue
  <2> QED BY <2>4, <2>5
<1> QED BY <1>5, <1>6

-------------------------------------------------------------------------------
(* A session outside the queue has nothing in the registry.                *)
FreshOutside ==
  \A s \in Session \ Known :
    /\ contexto[s] = NoContext
    /\ no_turno[s] = Closed /\ timeouts[s] = Zero /\ cooldown_ate[s] = Zero

(* An open turn is a turn of a session.                                    *)
TurnsOfSessions ==
  turno \in [Turn -> [open : BOOLEAN, session : Session, call : Tool \cup {NoTool}]]

RegistryInv == Queue(ordem) /\ FreshOutside /\ TurnsOfSessions

(* What an arrival forgets is exactly what the queue no longer holds.      *)
LEMMA ForgetKeepsFresh ==
  ASSUME Queue(ordem), NEW s \in Session, NEW f, NEW fresh, NEW value,
         \A o \in Session \ Known : f[o] = fresh,
         ordem' = Arrived(s)
  PROVE  \A o \in Session \ Known' : Forget(f, Evicted(s), fresh, s, value)[o] = fresh
<1> SUFFICES ASSUME NEW o \in Session \ Known'
             PROVE  Forget(f, Evicted(s), fresh, s, value)[o] = fresh
  OBVIOUS
<1>1. Known' = Members(Arrived(s))
  BY DEF Known, Members
<1>2. o # s
  BY <1>1, ArrivedIsQueue
<1>3. o \in Known => o \in Evicted(s)
  BY <1>1, ArrivedIsQueue
<1> QED BY <1>2, <1>3 DEF Forget

(* An arrival that forgets the evicted in every map leaves the sessions    *)
(* outside the queue with nothing.                                         *)
LEMMA ArrivalKeepsFresh ==
  ASSUME RegistryInv, NEW s \in Session, NEW c, NEW open, NEW row, NEW until,
         ordem' = Arrived(s),
         contexto' = Forget(contexto, Evicted(s), NoContext, s, c),
         no_turno' = Forget(no_turno, Evicted(s), Closed, s, open),
         timeouts' = Forget(timeouts, Evicted(s), Zero, s, row),
         cooldown_ate' = Forget(cooldown_ate, Evicted(s), Zero, s, until)
  PROVE  Queue(ordem') /\ FreshOutside'
<1>1. Queue(ordem) /\ FreshOutside
  BY DEF RegistryInv
<1>2. Queue(ordem')
  BY <1>1, ArrivedIsQueue
<1>3. \A o \in Session \ Known' : contexto'[o] = NoContext
  BY <1>1, ForgetKeepsFresh DEF FreshOutside
<1>4. \A o \in Session \ Known' : no_turno'[o] = Closed
  BY <1>1, ForgetKeepsFresh DEF FreshOutside
<1>5. \A o \in Session \ Known' : timeouts'[o] = Zero
  BY <1>1, ForgetKeepsFresh DEF FreshOutside
<1>6. \A o \in Session \ Known' : cooldown_ate'[o] = Zero
  BY <1>1, ForgetKeepsFresh DEF FreshOutside
<1>7. Closed' = Closed /\ Zero' = Zero
  BY DEF Closed, Zero
<1> QED BY <1>2, <1>3, <1>4, <1>5, <1>6, <1>7 DEF FreshOutside

(* The idle turn has the type of a turn.                                   *)
LEMMA IdleTurn == Idle \in [open : BOOLEAN, session : Session, call : Tool \cup {NoTool}]
BY BreakerAssumption DEF Idle

(* The invariant holds of the empty registry.                              *)
LEMMA RegistryInvInit == Init => RegistryInv
<1> SUFFICES ASSUME Init PROVE RegistryInv
  OBVIOUS
<1>1. ordem = <<>> /\ <<>> \in Seq(Session) /\ Len(<<>>) = 0
  BY EmptySeq DEF Init
<1>2. Queue(ordem)
  BY <1>1, BreakerAssumption DEF Queue, Injective
<1>3. FreshOutside
  BY DEF Init, FreshOutside
<1>4. TurnsOfSessions
  BY IdleTurn DEF Init, TurnsOfSessions
<1> QED BY <1>2, <1>3, <1>4 DEF RegistryInv

(* Registering an outcome, of whatever kind and however late, keeps it.    *)
LEMMA RegisterKeepsRegistry ==
  ASSUME RegistryInv, NEW t \in Turn, NEW turn_open, NEW errors, NEW row, NEW until,
         Register(t, turn_open, errors, row, until)
  PROVE  RegistryInv'
<1>1. turno[t].session \in Session
  BY DEF RegistryInv, TurnsOfSessions
<1>2. Queue(ordem') /\ FreshOutside'
  BY <1>1, ArrivalKeepsFresh DEF Register
<1>3. TurnsOfSessions'
  BY DEF Register, RegistryInv, TurnsOfSessions
<1> QED BY <1>2, <1>3 DEF RegistryInv, Queue, Injective

(* A step that does not touch the registry keeps it.                       *)
LEMMA RegistryUnchanged ==
  ASSUME RegistryInv, UNCHANGED registry,
         turno' \in [Turn -> [open : BOOLEAN, session : Session, call : Tool \cup {NoTool}]]
  PROVE  RegistryInv'
<1>1. TurnsOfSessions'
  BY DEF TurnsOfSessions
<1>2. Queue(ordem)' /\ Known' = Known
  BY DEF RegistryInv, registry, Queue, Injective, Known
<1>3. FreshOutside'
  BY <1>2 DEF RegistryInv, registry, FreshOutside, Closed, Zero
<1> QED BY <1>1, <1>2, <1>3 DEF RegistryInv

(* Every step keeps it.                                                    *)
LEMMA RegistryInvStep == RegistryInv /\ [Next]_vars => RegistryInv'
<1> SUFFICES ASSUME RegistryInv, [Next]_vars PROVE RegistryInv'
  OBVIOUS
<1>1. ASSUME NEW t \in Turn, NEW s \in Session, NEW c \in Context, OpenTurn(t, s, c)
      PROVE  RegistryInv'
  <2>1. Queue(ordem') /\ FreshOutside'
    BY <1>1, ArrivalKeepsFresh DEF OpenTurn
  <2>2. TurnsOfSessions'
    BY <1>1 DEF OpenTurn, RegistryInv, TurnsOfSessions
  <2> QED BY <2>1, <2>2 DEF RegistryInv, Queue, Injective
<1>2. ASSUME NEW t \in Turn, NEW tool \in Tool, Start(t, tool) PROVE RegistryInv'
  <2>1. turno' \in [Turn -> [open : BOOLEAN, session : Session, call : Tool \cup {NoTool}]]
    BY <1>2 DEF Start, RegistryInv, TurnsOfSessions
  <2>2. UNCHANGED registry
    BY <1>2 DEF Start
  <2> QED BY <2>1, <2>2, RegistryUnchanged
<1>3. ASSUME NEW t \in Turn, Succeed(t) PROVE RegistryInv'
  BY <1>3, RegisterKeepsRegistry DEF Succeed
<1>4. ASSUME NEW t \in Turn, Neutral(t) PROVE RegistryInv'
  BY <1>4, RegisterKeepsRegistry DEF Neutral
<1>5. ASSUME NEW t \in Turn, FailForGood(t) PROVE RegistryInv'
  BY <1>5, RegisterKeepsRegistry DEF FailForGood
<1>6. ASSUME NEW t \in Turn, TimeOut(t) PROVE RegistryInv'
  BY <1>6, RegisterKeepsRegistry DEF TimeOut
<1>7. ASSUME NEW t \in Turn, NEW e \in Erro, FailWith(t, e) PROVE RegistryInv'
  BY <1>7, RegisterKeepsRegistry DEF FailWith
<1>8. ASSUME NEW t \in Turn, CloseTurn(t) PROVE RegistryInv'
  <2>1. turno' \in [Turn -> [open : BOOLEAN, session : Session, call : Tool \cup {NoTool}]]
    BY <1>8, IdleTurn DEF CloseTurn, RegistryInv, TurnsOfSessions
  <2>2. UNCHANGED registry
    BY <1>8 DEF CloseTurn
  <2> QED BY <2>1, <2>2, RegistryUnchanged
<1>9. CASE Tick
  BY <1>9, RegistryUnchanged DEF Tick, RegistryInv, TurnsOfSessions
<1>10. CASE UNCHANGED vars
  BY <1>10, RegistryUnchanged DEF vars, RegistryInv, TurnsOfSessions
<1>11. CASE Recover
  <2>1. ordem' = <<>> /\ <<>> \in Seq(Session) /\ Len(<<>>) = 0
    BY <1>11, EmptySeq DEF Recover
  <2>2. Queue(ordem')
    BY <2>1, BreakerAssumption DEF Queue, Injective
  <2>3. FreshOutside'
    BY <1>11 DEF Recover, FreshOutside, Closed, Zero
  <2>4. TurnsOfSessions'
    BY <1>11 DEF Recover, RegistryInv, TurnsOfSessions
  <2> QED BY <2>2, <2>3, <2>4 DEF RegistryInv, Queue, Injective
<1> QED BY <1>1, <1>2, <1>3, <1>4, <1>5, <1>6, <1>7, <1>8, <1>9, <1>10, <1>11 DEF Next

(* Sessoes stays within MAX_SESSOES, queues a session once, and keeps no   *)
(* record of a session out of its queue, whatever turns arrive, end late   *)
(* or come back (entrada, abrir_turno, registrar).                         *)
THEOREM RegistryStaysConsistent == Spec => []RegistryConsistent
<1>1. RegistryInv => RegistryConsistent
  BY DEF RegistryInv, Queue, Injective, FreshOutside, RegistryConsistent
<1> QED BY <1>1, RegistryInvInit, RegistryInvStep, PTL DEF Spec

-------------------------------------------------------------------------------
(* Types *)

Flags == [Tool -> BOOLEAN]
Counts == [Tool -> [Erro -> 0..Repeticoes]]

(* A map of the registry keeps its type over an arrival.                   *)
LEMMA ForgetTyped ==
  ASSUME NEW T, NEW f \in [Session -> T], NEW gone, NEW fresh \in T,
         NEW s \in Session, NEW value \in T
  PROVE  Forget(f, gone, fresh, s, value) \in [Session -> T]
BY DEF Forget

(* What is left of a map after an arrival.                                 *)
LEMMA ForgetAt ==
  ASSUME NEW f, NEW gone, NEW fresh, NEW s \in Session, NEW value, NEW o \in Session
  PROVE  /\ o = s => Forget(f, gone, fresh, s, value)[o] = value
         /\ o # s /\ o \in gone => Forget(f, gone, fresh, s, value)[o] = fresh
         /\ o # s /\ o \notin gone => Forget(f, gone, fresh, s, value)[o] = f[o]
BY DEF Forget

(* What a fresh session holds has the types of the maps.                   *)
LEMMA FreshTyped ==
  /\ NoContext \in Context /\ Closed \in Flags /\ NoErrors \in Counts
  /\ Zero \in [Tool -> 0..MaxTimeouts] /\ Zero \in [Tool -> Int]
<1>1. Repeticoes \in Nat /\ MaxTimeouts \in Nat /\ NoContext \in Context
  BY BreakerAssumption
<1>2. 0 \in 0..Repeticoes /\ 0 \in 0..MaxTimeouts
  BY <1>1
<1> QED BY <1>1, <1>2 DEF Closed, NoErrors, Zero, Flags, Counts

(* A cooldown is a number of ticks up to the ceiling.                      *)
LEMMA CooldownBounded ==
  ASSUME NEW n \in Nat, n > 0
  PROVE  Cooldown(n) \in Int /\ Cooldown(n) <= Teto
<1>1. n - 1 \in Nat
  OBVIOUS
<1>2. \A m \in Nat : 2^m \in Int
  OBVIOUS
<1>3. PICK power \in Int : power = 2^(n - 1)
  BY <1>1, <1>2
<1>4. Base \in Int /\ Teto \in Int
  BY BreakerAssumption
<1>5. Base * power \in Int
  BY <1>3, <1>4
<1>6. PICK x \in Int : x = Base * 2^(n - 1)
  BY <1>3, <1>5
<1> QED BY <1>4, <1>6 DEF Cooldown

(* The part of TypeOK about the clock of the cooldowns.                    *)
Near == \A s \in Session, tool \in Tool : cooldown_ate[s][tool] <= now + Teto

(* The registry and what was seen keep their types when an outcome of the  *)
(* right types is registered and noted.                                    *)
LEMMA OutcomeKeepsType ==
  ASSUME TypeOK, NEW t \in Turn, NEW open \in BOOLEAN,
         NEW errors \in [Erro -> 0..Repeticoes], NEW row \in 0..MaxTimeouts,
         NEW until \in Int, until <= now + Teto,
         Register(t, open, errors, row, until),
         NEW mine \in [Erro -> 0..Repeticoes], NEW dooms, NEW clears, NEW late \in Int,
         Observe(t, mine, dooms, clears, late)
  PROVE  TypeOK'
<1> DEFINE s == turno[t].session
           tool == turno[t].call
           gone == Evicted(s)
<1>1. /\ s \in Session /\ tool \in Tool
      /\ turno' \in [Turn -> [open : BOOLEAN, session : Session, call : Tool \cup {NoTool}]]
  <2>1. turno \in [Turn -> [open : BOOLEAN, session : Session, call : Tool \cup {NoTool}]]
    BY DEF TypeOK
  <2>2. turno' = [turno EXCEPT ![t].call = NoTool] /\ tool # NoTool
    BY DEF Register
  <2> QED BY <2>1, <2>2
<1>2. now' \in 0..MaxTime /\ now' = now /\ now \in Int /\ Teto \in Int
  BY BreakerAssumption DEF Register, TypeOK
<1>3. ordem' \in Seq(Session)
  <2>1. ordem \in Seq(Session) /\ ordem' = Arrived(s)
    BY DEF TypeOK, Register
  <2>2. Append(ordem, s) \in Seq(Session) /\ Append(ordem, s) # <<>>
    BY <1>1, <2>1, AppendProperties
  <2>3. Tail(Append(ordem, s)) \in Seq(Session)
    BY <2>2, HeadTailProperties
  <2> QED BY <2>1, <2>2, <2>3 DEF Arrived
<1>4. contexto' \in [Session -> Context]
  <2>1. contexto[s] \in Context /\ contexto \in [Session -> Context]
    BY <1>1 DEF TypeOK
  <2> QED BY <1>1, <2>1, FreshTyped, ForgetTyped DEF Register
<1>5. no_turno' \in [Session -> Flags]
  <2>1. no_turno \in [Session -> Flags] /\ [no_turno[s] EXCEPT ![tool] = open] \in Flags
    BY <1>1 DEF TypeOK, Flags
  <2> QED BY <1>1, <2>1, FreshTyped, ForgetTyped DEF Register
<1>6. genericas' \in [Session -> Counts]
  <2>1. genericas \in [Session -> Counts] /\ [genericas[s] EXCEPT ![tool] = errors] \in Counts
    BY <1>1 DEF TypeOK, Counts
  <2> QED BY <1>1, <2>1, FreshTyped, ForgetTyped DEF Register
<1>7. timeouts' \in [Session -> [Tool -> 0..MaxTimeouts]]
  <2>1. /\ timeouts \in [Session -> [Tool -> 0..MaxTimeouts]]
        /\ [timeouts[s] EXCEPT ![tool] = row] \in [Tool -> 0..MaxTimeouts]
    BY <1>1 DEF TypeOK
  <2> QED BY <1>1, <2>1, FreshTyped, ForgetTyped DEF Register
<1>8. cooldown_ate' \in [Session -> [Tool -> Int]]
  <2>1. /\ cooldown_ate \in [Session -> [Tool -> Int]]
        /\ [cooldown_ate[s] EXCEPT ![tool] = until] \in [Tool -> Int]
    BY <1>1 DEF TypeOK
  <2> QED BY <1>1, <2>1, FreshTyped, ForgetTyped DEF Register
<1>9. held' \in [Session -> [Tool -> Int]]
  <2>1. held \in [Session -> [Tool -> Int]] /\ [held[s] EXCEPT ![tool] = late] \in [Tool -> Int]
    BY <1>1 DEF TypeOK
  <2> QED BY <1>1, <2>1, FreshTyped, ForgetTyped DEF Observe
<1>10. Near'
  <2> SUFFICES ASSUME NEW o \in Session, NEW u \in Tool
               PROVE  cooldown_ate'[o][u] <= now' + Teto
    BY DEF Near
  <2>1. /\ cooldown_ate \in [Session -> [Tool -> Int]]
        /\ cooldown_ate[o][u] <= now + Teto /\ 0 <= now + Teto
    BY BreakerAssumption DEF TypeOK
  <2>2. cooldown_ate'[o][u] \in {cooldown_ate[o][u], 0, until}
    BY <1>1, <2>1 DEF Register, Forget, Zero
  <2> QED BY <1>2, <2>1, <2>2
<1>11. alone' \subseteq Turn
  BY DEF TypeOK, Register
<1>12. failed' \in [Turn -> Counts]
  <2>1. failed \in [Turn -> Counts]
    BY DEF TypeOK, Counts
  <2>2. \A u \in Turn : [failed[u] EXCEPT ![tool] = mine] \in Counts
    BY <1>1, <2>1 DEF Counts
  <2> QED BY <2>1, <2>2, FreshTyped DEF Observe
<1>13. doomed' \in [Turn -> SUBSET Tool]
  <2>1. doomed \in [Turn -> SUBSET Tool]
    BY DEF TypeOK
  <2>2. \A u \in Turn : doomed[u] \ {tool} \in SUBSET Tool /\ doomed[u] \cup {tool} \in SUBSET Tool
    BY <1>1, <2>1
  <2>3. \A u \in Turn : doomed'[u] \in {{}, doomed[u] \ {tool}, doomed[u] \cup {tool}, doomed[u]}
    BY DEF Observe
  <2>4. doomed' = [u \in Turn |-> doomed'[u]]
    BY DEF Observe
  <2> QED BY <2>1, <2>2, <2>3, <2>4
<1> QED
  BY <1>1, <1>2, <1>3, <1>4, <1>5, <1>6, <1>7, <1>8, <1>9, <1>10, <1>11, <1>12, <1>13
  DEF TypeOK, Near, Flags, Counts

(* The records are typed when nothing has happened.                        *)
LEMMA TypeInit == Init => TypeOK
<1> SUFFICES ASSUME Init PROVE TypeOK
  OBVIOUS
<1>1. now \in 0..MaxTime /\ \A s \in Session, tool \in Tool : cooldown_ate[s][tool] <= now + Teto
  BY BreakerAssumption DEF Init, Zero
<1>2. ordem \in Seq(Session)
  BY EmptySeq DEF Init
<1> QED BY <1>1, <1>2, FreshTyped, IdleTurn DEF Init, TypeOK, Flags, Counts

(* The opening of a turn keeps the types.                                  *)
LEMMA OpenTurnType ==
  ASSUME TypeOK, NEW t \in Turn, NEW s \in Session, NEW c \in Context, OpenTurn(t, s, c)
  PROVE  TypeOK'
<1> DEFINE gone == Evicted(s)
           keep(f) == [tool \in Tool |-> IF Kept(s, c, tool) THEN f[s][tool] ELSE 0]
<1>1. turno' \in [Turn -> [open : BOOLEAN, session : Session, call : Tool \cup {NoTool}]]
  BY DEF TypeOK, OpenTurn
<1>2. now' \in 0..MaxTime /\ now' = now /\ now \in Int /\ Teto \in Int
  BY BreakerAssumption DEF OpenTurn, TypeOK
<1>3. ordem' \in Seq(Session)
  <2>1. ordem \in Seq(Session) /\ ordem' = Arrived(s)
    BY DEF TypeOK, OpenTurn
  <2>2. Append(ordem, s) \in Seq(Session) /\ Append(ordem, s) # <<>>
    BY <2>1, AppendProperties
  <2>3. Tail(Append(ordem, s)) \in Seq(Session)
    BY <2>2, HeadTailProperties
  <2> QED BY <2>1, <2>2, <2>3 DEF Arrived
<1>4. contexto' \in [Session -> Context]
  BY FreshTyped, ForgetTyped DEF TypeOK, OpenTurn
<1>5. no_turno' \in [Session -> Flags]
  BY FreshTyped, ForgetTyped DEF TypeOK, OpenTurn, Flags
<1>6. genericas' \in [Session -> Counts]
  BY FreshTyped, ForgetTyped DEF TypeOK, OpenTurn, Counts
<1>7. timeouts' \in [Session -> [Tool -> 0..MaxTimeouts]]
  <2>1. timeouts \in [Session -> [Tool -> 0..MaxTimeouts]] /\ 0 \in 0..MaxTimeouts
    BY BreakerAssumption DEF TypeOK
  <2>2. keep(timeouts) \in [Tool -> 0..MaxTimeouts]
    BY <2>1
  <2> QED BY <2>1, <2>2, FreshTyped, ForgetTyped DEF OpenTurn
<1>8. cooldown_ate' \in [Session -> [Tool -> Int]]
  <2>1. cooldown_ate \in [Session -> [Tool -> Int]]
    BY DEF TypeOK
  <2>2. keep(cooldown_ate) \in [Tool -> Int]
    BY <2>1
  <2> QED BY <2>1, <2>2, FreshTyped, ForgetTyped DEF OpenTurn
<1>9. held' \in [Session -> [Tool -> Int]]
  <2>1. held \in [Session -> [Tool -> Int]]
    BY DEF TypeOK
  <2>2. (IF contexto[s] = c THEN held[s] ELSE Zero) \in [Tool -> Int]
    BY <2>1, FreshTyped
  <2> QED BY <2>1, <2>2, FreshTyped, ForgetTyped DEF OpenTurn
<1>10. Near'
  <2> SUFFICES ASSUME NEW o \in Session, NEW u \in Tool
               PROVE  cooldown_ate'[o][u] <= now' + Teto
    BY DEF Near
  <2>1. /\ cooldown_ate \in [Session -> [Tool -> Int]]
        /\ cooldown_ate[o][u] <= now + Teto /\ 0 <= now + Teto
    BY BreakerAssumption DEF TypeOK
  <2>2. cooldown_ate'[o][u] \in {cooldown_ate[o][u], 0}
    BY <2>1 DEF OpenTurn, Forget, Zero
  <2> QED BY <1>2, <2>1, <2>2
<1>11. alone' \subseteq Turn
  BY DEF TypeOK, OpenTurn
<1>12. failed' \in [Turn -> Counts]
  BY FreshTyped DEF TypeOK, OpenTurn, Counts
<1>13. doomed' \in [Turn -> SUBSET Tool]
  BY DEF TypeOK, OpenTurn
<1> QED
  BY <1>1, <1>2, <1>3, <1>4, <1>5, <1>6, <1>7, <1>8, <1>9, <1>10, <1>11, <1>12, <1>13
  DEF TypeOK, Near, Flags, Counts

(* What an outcome finds in the records of its session.                    *)
LEMMA OutcomeFinds ==
  ASSUME TypeOK, NEW t \in Turn, turno[t].call # NoTool
  PROVE  LET s == turno[t].session
             tool == turno[t].call
         IN  /\ s \in Session /\ tool \in Tool
             /\ no_turno[s][tool] \in BOOLEAN
             /\ genericas[s][tool] \in [Erro -> 0..Repeticoes]
             /\ timeouts[s][tool] \in 0..MaxTimeouts
             /\ cooldown_ate[s][tool] \in Int /\ cooldown_ate[s][tool] <= now + Teto
             /\ failed[t][tool] \in [Erro -> 0..Repeticoes]
             /\ held[s][tool] \in Int
<1>1. turno[t].session \in Session /\ turno[t].call \in Tool
  BY DEF TypeOK
<1> QED BY <1>1 DEF TypeOK

(* Every step keeps the types.                                             *)
LEMMA TypeStep == TypeOK /\ [Next]_vars => TypeOK'
<1> SUFFICES ASSUME TypeOK, [Next]_vars PROVE TypeOK'
  OBVIOUS
<1>1. ASSUME NEW t \in Turn, NEW s \in Session, NEW c \in Context, OpenTurn(t, s, c)
      PROVE  TypeOK'
  BY <1>1, OpenTurnType
<1>2. ASSUME NEW t \in Turn, NEW tool \in Tool, Start(t, tool) PROVE TypeOK'
  BY <1>2 DEF Start, TypeOK, registry, seen
<1>n. /\ [e \in Erro |-> 0] \in [Erro -> 0..Repeticoes] /\ 0 \in 0..MaxTimeouts
      /\ 0 \in Int /\ 0 <= now + Teto
  BY BreakerAssumption DEF TypeOK
<1>3. ASSUME NEW t \in Turn, Succeed(t) PROVE TypeOK'
  BY <1>3, <1>n, OutcomeKeepsType DEF Succeed
<1>4. ASSUME NEW t \in Turn, Neutral(t) PROVE TypeOK'
  <2>1. turno[t].call # NoTool
    BY <1>4 DEF Neutral, Register
  <2> QED BY <1>4, <2>1, OutcomeFinds, OutcomeKeepsType DEF Neutral
<1>5. ASSUME NEW t \in Turn, FailForGood(t) PROVE TypeOK'
  <2>1. turno[t].call # NoTool
    BY <1>5 DEF FailForGood, Register
  <2> QED BY <1>5, <2>1, OutcomeFinds, OutcomeKeepsType DEF FailForGood
<1>6. ASSUME NEW t \in Turn, TimeOut(t) PROVE TypeOK'
  <2> DEFINE s == turno[t].session
             tool == turno[t].call
             row == IF timeouts[s][tool] < MaxTimeouts THEN timeouts[s][tool] + 1 ELSE MaxTimeouts
             until == now + Cooldown(row)
  <2>1. turno[t].call # NoTool
    BY <1>6 DEF TimeOut, Register
  <2>2. timeouts[s][tool] \in 0..MaxTimeouts /\ MaxTimeouts \in Nat \ {0}
    BY <2>1, OutcomeFinds, BreakerAssumption
  <2>3. row \in Nat /\ row > 0 /\ row \in 0..MaxTimeouts
    BY <2>2
  <2> HIDE DEF row
  <2>4. Cooldown(row) \in Int /\ Cooldown(row) <= Teto /\ now \in Int /\ Teto \in Int
    BY <2>3, CooldownBounded, BreakerAssumption DEF TypeOK
  <2>5. until \in Int /\ until <= now + Teto
    BY <2>4
  <2> HIDE DEF until
  <2>6. /\ Register(t, no_turno[s][tool], genericas[s][tool], row, until)
        /\ Observe(t, failed[t][tool], FALSE, FALSE, until)
    BY <1>6 DEF TimeOut, row, until
  <2> QED BY <2>1, <2>3, <2>5, <2>6, OutcomeFinds, OutcomeKeepsType
<1>7. ASSUME NEW t \in Turn, NEW e \in Erro, FailWith(t, e) PROVE TypeOK'
  <2> DEFINE s == turno[t].session
             tool == turno[t].call
             n == genericas[s][tool][e] + 1
             mine == failed[t][tool][e] + 1
             errors == [genericas[s][tool] EXCEPT ![e] = IF n < Repeticoes THEN n ELSE Repeticoes]
             own == [failed[t][tool] EXCEPT ![e] = IF mine < Repeticoes THEN mine ELSE Repeticoes]
             open == no_turno[s][tool] \/ n >= Repeticoes
  <2>1. turno[t].call # NoTool
    BY <1>7 DEF FailWith, Register
  <2>2. /\ genericas[s][tool] \in [Erro -> 0..Repeticoes]
        /\ failed[t][tool] \in [Erro -> 0..Repeticoes]
        /\ no_turno[s][tool] \in BOOLEAN
    BY <2>1, OutcomeFinds
  <2>3. Repeticoes \in Nat
    BY BreakerAssumption
  <2>4. errors \in [Erro -> 0..Repeticoes] /\ own \in [Erro -> 0..Repeticoes]
    BY <2>2, <2>3
  <2>5. open \in BOOLEAN
    BY <2>2
  <2>6. /\ Register(t, open, errors, timeouts[s][tool], cooldown_ate[s][tool])
        /\ Observe(t, own, mine >= Repeticoes, FALSE, held[s][tool])
    BY <1>7 DEF FailWith
  <2> HIDE DEF errors, own, open
  <2> QED BY <2>1, <2>4, <2>5, <2>6, OutcomeFinds, OutcomeKeepsType
<1>8. ASSUME NEW t \in Turn, CloseTurn(t) PROVE TypeOK'
  BY <1>8, IdleTurn, FreshTyped DEF CloseTurn, TypeOK, registry, Counts
<1>9. CASE Tick
  BY <1>9, BreakerAssumption DEF Tick, TypeOK, registry, seen
<1>10. CASE UNCHANGED vars
  BY <1>10 DEF TypeOK, vars, registry, seen
<1>11. CASE Recover
  <2>1. ordem' \in Seq(Session)
    BY <1>11, EmptySeq DEF Recover
  <2>2. \A s \in Session, tool \in Tool : cooldown_ate'[s][tool] <= now' + Teto
    BY <1>11, BreakerAssumption DEF Recover, Zero, TypeOK
  <2> QED BY <1>11, <2>1, <2>2, FreshTyped DEF Recover, TypeOK, Flags, Counts
<1> QED BY <1>1, <1>2, <1>3, <1>4, <1>5, <1>6, <1>7, <1>8, <1>9, <1>10, <1>11 DEF Next

(* Every record of the breaker has its type, and no cooldown is further    *)
(* away than the ceiling, in every instance (registrar, cooldown).         *)
THEOREM TypeCorrect == Spec => []TypeOK
BY TypeInit, TypeStep, PTL DEF Spec

-------------------------------------------------------------------------------
(* Cooldowns *)

(* The registry remembers of each tool the end of the last cooldown it     *)
(* earned, and a tool that has one to serve has timeouts in a row, which   *)
(* is what carries it over to the next turn.                               *)
Remembered ==
  \A s \in Session, tool \in Tool :
    /\ held[s][tool] = cooldown_ate[s][tool]
    /\ cooldown_ate[s][tool] # 0 => timeouts[s][tool] > 0

CooldownInv == TypeOK /\ Remembered

(* An outcome keeps the memory of the cooldowns if it resets a cooldown    *)
(* together with its timeouts, and prolongs it together with one.          *)
LEMMA OutcomeRemembers ==
  ASSUME CooldownInv, NEW t \in Turn, NEW open, NEW errors, NEW row, NEW until,
         Register(t, open, errors, row, until), until # 0 => row > 0,
         NEW mine, NEW dooms, NEW clears,
         Observe(t, mine, dooms, clears, until)
  PROVE  Remembered'
<1> DEFINE s == turno[t].session
           tool == turno[t].call
<1>1. s \in Session /\ tool \in Tool
  BY DEF CooldownInv, TypeOK, Register
<1> SUFFICES ASSUME NEW o \in Session, NEW u \in Tool
             PROVE  /\ held'[o][u] = cooldown_ate'[o][u]
                    /\ cooldown_ate'[o][u] # 0 => timeouts'[o][u] > 0
  BY DEF Remembered
<1>2. /\ held[o][u] = cooldown_ate[o][u]
      /\ cooldown_ate[o][u] # 0 => timeouts[o][u] > 0
      /\ held \in [Session -> [Tool -> Int]]
      /\ cooldown_ate \in [Session -> [Tool -> Int]]
      /\ timeouts \in [Session -> [Tool -> 0..MaxTimeouts]]
  BY DEF CooldownInv, Remembered, TypeOK
<1>s. ASSUME o = s
      PROVE  /\ held'[o] = [held[s] EXCEPT ![tool] = until]
             /\ cooldown_ate'[o] = [cooldown_ate[s] EXCEPT ![tool] = until]
             /\ timeouts'[o] = [timeouts[s] EXCEPT ![tool] = row]
  <2>1. /\ held' = Forget(held, Evicted(s), Zero, s, [held[s] EXCEPT ![tool] = until])
        /\ cooldown_ate' = Forget(cooldown_ate, Evicted(s), Zero, s,
                                  [cooldown_ate[s] EXCEPT ![tool] = until])
        /\ timeouts' = Forget(timeouts, Evicted(s), Zero, s, [timeouts[s] EXCEPT ![tool] = row])
    BY DEF Register, Observe
  <2>2. held'[s] = [held[s] EXCEPT ![tool] = until]
    BY <1>1, <2>1, ForgetAt
  <2>3. cooldown_ate'[s] = [cooldown_ate[s] EXCEPT ![tool] = until]
    BY <1>1, <2>1, ForgetAt
  <2>4. timeouts'[s] = [timeouts[s] EXCEPT ![tool] = row]
    BY <1>1, <2>1, ForgetAt
  <2> QED BY <1>s, <2>2, <2>3, <2>4
<1>3. CASE o = s /\ u = tool
  BY <1>1, <1>2, <1>3, <1>s
<1>4. CASE o = s /\ u # tool
  BY <1>1, <1>2, <1>4, <1>s
<1>5. CASE o # s /\ o \in Evicted(s)
  BY <1>5 DEF Register, Observe, Forget, Zero
<1>6. CASE o # s /\ o \notin Evicted(s)
  BY <1>2, <1>6 DEF Register, Observe, Forget
<1> QED BY <1>3, <1>4, <1>5, <1>6

LEMMA CooldownInvInit == Init => CooldownInv
BY TypeInit DEF CooldownInv, Remembered, Init, Zero

LEMMA CooldownInvStep == CooldownInv /\ [Next]_vars => CooldownInv'
<1> SUFFICES ASSUME CooldownInv, [Next]_vars PROVE Remembered'
  BY TypeStep DEF CooldownInv
<1>0. TypeOK /\ Remembered
  BY DEF CooldownInv
<1>1. ASSUME NEW t \in Turn, NEW s \in Session, NEW c \in Context, OpenTurn(t, s, c)
      PROVE  Remembered'
  <2> SUFFICES ASSUME NEW o \in Session, NEW u \in Tool
               PROVE  /\ held'[o][u] = cooldown_ate'[o][u]
                      /\ cooldown_ate'[o][u] # 0 => timeouts'[o][u] > 0
    BY DEF Remembered
  <2>1. /\ held[o][u] = cooldown_ate[o][u]
        /\ cooldown_ate[o][u] # 0 => timeouts[o][u] > 0
        /\ timeouts[o][u] \in Nat
    BY <1>0 DEF Remembered, TypeOK
  <2>2. CASE o # s
    BY <1>1, <2>1, <2>2 DEF OpenTurn, Forget, Zero
  <2>3. CASE o = s
    <3>1. /\ held'[o][u] = IF contexto[s] = c THEN held[s][u] ELSE 0
          /\ cooldown_ate'[o][u] = IF Kept(s, c, u) THEN cooldown_ate[s][u] ELSE 0
          /\ timeouts'[o][u] = IF Kept(s, c, u) THEN timeouts[s][u] ELSE 0
      <4>1. /\ held'[o] = IF contexto[s] = c THEN held[s] ELSE Zero
            /\ cooldown_ate'[o] =
                 [tool \in Tool |-> IF Kept(s, c, tool) THEN cooldown_ate[s][tool] ELSE 0]
            /\ timeouts'[o] = [tool \in Tool |-> IF Kept(s, c, tool) THEN timeouts[s][tool] ELSE 0]
        BY <1>1, <2>3, ForgetAt DEF OpenTurn
      <4> QED BY <4>1 DEF Zero
    <3> QED BY <2>1, <2>3, <3>1 DEF Kept
  <2> QED BY <2>2, <2>3
<1>2. ASSUME NEW t \in Turn, NEW tool \in Tool, Start(t, tool) PROVE Remembered'
  BY <1>0, <1>2 DEF Start, Remembered, registry, seen
<1>3. ASSUME NEW t \in Turn, Succeed(t) PROVE Remembered'
  BY <1>3, OutcomeRemembers DEF Succeed
<1>found. ASSUME NEW t \in Turn, turno[t].call # NoTool
          PROVE  LET s == turno[t].session
                     tool == turno[t].call
                 IN  /\ held[s][tool] = cooldown_ate[s][tool]
                     /\ cooldown_ate[s][tool] # 0 => timeouts[s][tool] > 0
  BY <1>0, <1>found, OutcomeFinds DEF Remembered
<1>4. ASSUME NEW t \in Turn, Neutral(t) PROVE Remembered'
  <2>1. turno[t].call # NoTool
    BY <1>4 DEF Neutral, Register
  <2> QED BY <1>4, <2>1, <1>found, OutcomeRemembers DEF Neutral
<1>5. ASSUME NEW t \in Turn, FailForGood(t) PROVE Remembered'
  <2>1. turno[t].call # NoTool
    BY <1>5 DEF FailForGood, Register
  <2> QED BY <1>5, <2>1, <1>found, OutcomeRemembers DEF FailForGood
<1>6. ASSUME NEW t \in Turn, TimeOut(t) PROVE Remembered'
  <2> DEFINE s == turno[t].session
             tool == turno[t].call
             row == IF timeouts[s][tool] < MaxTimeouts THEN timeouts[s][tool] + 1 ELSE MaxTimeouts
             until == now + Cooldown(row)
  <2>1. turno[t].call # NoTool
    BY <1>6 DEF TimeOut, Register
  <2>2. timeouts[s][tool] \in 0..MaxTimeouts /\ MaxTimeouts \in Nat \ {0}
    BY <1>0, <2>1, OutcomeFinds, BreakerAssumption
  <2>3. row > 0
    BY <2>2
  <2> HIDE DEF row, until
  <2>4. /\ Register(t, no_turno[s][tool], genericas[s][tool], row, until)
        /\ Observe(t, failed[t][tool], FALSE, FALSE, until)
    BY <1>6 DEF TimeOut, row, until
  <2> QED BY <2>3, <2>4, OutcomeRemembers
<1>7. ASSUME NEW t \in Turn, NEW e \in Erro, FailWith(t, e) PROVE Remembered'
  <2>1. turno[t].call # NoTool
    BY <1>7 DEF FailWith, Register
  <2> QED BY <1>7, <2>1, <1>found, OutcomeRemembers DEF FailWith
<1>8. ASSUME NEW t \in Turn, CloseTurn(t) PROVE Remembered'
  BY <1>0, <1>8 DEF CloseTurn, Remembered, registry
<1>9. CASE Tick
  BY <1>0, <1>9 DEF Tick, Remembered, registry, seen
<1>10. CASE UNCHANGED vars
  BY <1>0, <1>10 DEF Remembered, vars, registry, seen
<1>11. CASE Recover
  BY <1>11 DEF Recover, Remembered, Zero
<1> QED BY <1>1, <1>2, <1>3, <1>4, <1>5, <1>6, <1>7, <1>8, <1>9, <1>10, <1>11 DEF Next

(* Only dispatch starts a tool, and only one that is not open.             *)
LEMMA OnlyStartStarts ==
  ASSUME TypeOK, [Next]_vars, NEW t \in Turn, NEW tool \in Tool, Starts(t, tool)
  PROVE  ~IsOpen(turno[t].session, tool)
<1>0. turno \in [Turn -> [open : BOOLEAN, session : Session, call : Tool \cup {NoTool}]]
  BY DEF TypeOK
<1>1. turno[t].call = NoTool /\ turno'[t].call = tool /\ tool # NoTool
  BY BreakerAssumption DEF Starts
<1>2. ASSUME NEW u \in Turn, NEW s \in Session, NEW c \in Context, OpenTurn(u, s, c) PROVE FALSE
  BY <1>0, <1>1, <1>2 DEF OpenTurn
<1>3. ASSUME NEW u \in Turn, NEW other \in Tool, Start(u, other)
      PROVE  ~IsOpen(turno[t].session, tool)
  <2>1. turno' = [turno EXCEPT ![u].call = other] /\ ~IsOpen(turno[u].session, other)
    BY <1>3 DEF Start
  <2>2. t = u /\ tool = other
    BY <1>0, <1>1, <2>1
  <2> QED BY <2>1, <2>2
<1>4. ASSUME NEW u \in Turn, turno' = [turno EXCEPT ![u].call = NoTool] PROVE FALSE
  BY <1>0, <1>1, <1>4
<1>5. ASSUME NEW u \in Turn, Succeed(u) \/ Neutral(u) \/ FailForGood(u) \/ TimeOut(u) PROVE FALSE
  BY <1>4, <1>5 DEF Succeed, Neutral, FailForGood, TimeOut, Register
<1>6. ASSUME NEW u \in Turn, NEW e \in Erro, FailWith(u, e) PROVE FALSE
  BY <1>4, <1>6 DEF FailWith, Register
<1>7. ASSUME NEW u \in Turn, CloseTurn(u) PROVE FALSE
  BY <1>0, <1>1, <1>7 DEF CloseTurn, Idle
<1>8. CASE Tick
  BY <1>1, <1>8 DEF Tick
<1>9. CASE UNCHANGED vars
  BY <1>1, <1>9 DEF vars
<1>10. CASE Recover
  BY <1>1, <1>10 DEF Recover
<1> QED BY <1>2, <1>3, <1>5, <1>6, <1>7, <1>8, <1>9, <1>10 DEF Next

(* No tool runs before the cooldown it earned is over: the record that     *)
(* dispatch reads is the last cooldown, however late the outcomes came     *)
(* (estado, abrir_turno, registrar).                                       *)
THEOREM CooldownIsServed == Spec => CooldownServed
<1>1. ASSUME CooldownInv, [Next]_vars, NEW t \in Turn, NEW tool \in Tool, Starts(t, tool)
      PROVE  now >= held[turno[t].session][tool]
  <2>1. turno[t].session \in Session /\ now \in Int /\ TypeOK
    BY <1>1 DEF CooldownInv, TypeOK
  <2>2. ~(now < cooldown_ate[turno[t].session][tool])
    BY <1>1, <2>1, OnlyStartStarts DEF IsOpen
  <2>3. /\ held[turno[t].session][tool] = cooldown_ate[turno[t].session][tool]
        /\ cooldown_ate[turno[t].session][tool] \in Int
    BY <1>1, <2>1 DEF CooldownInv, Remembered, TypeOK
  <2> QED BY <2>1, <2>2, <2>3
<1>2. CooldownInv /\ [Next]_vars =>
        [\A t \in Turn, tool \in Tool :
           Starts(t, tool) => now >= held[turno[t].session][tool]]_vars
  BY <1>1
<1> QED BY <1>2, CooldownInvInit, CooldownInvStep, PTL DEF Spec, CooldownServed

-------------------------------------------------------------------------------
(* Turns that have their session to themselves *)

(* The record of the session says of a turn alone what happened in it: the *)
(* errors it counts are the ones it got, and a tool that failed for good   *)
(* is open until the turn ends.                                            *)
Solo(t) ==
  LET s == turno[t].session IN
  /\ turno[t].open
  /\ \A u \in Turn : turno[u].open /\ turno[u].session = s => u = t
  /\ failed[t] = genericas[s]
  /\ \A tool \in doomed[t] : no_turno[s][tool]

SoloInv == RegistryInv /\ TypeOK /\ \A t \in alone : Solo(t)

(* An outcome keeps a turn alone on record if what it adds to the record   *)
(* of the session is what the turn got.                                    *)
LEMMA OutcomeKeepsSolo ==
  ASSUME SoloInv, NEW t \in Turn, NEW open, NEW errors, NEW row, NEW until,
         Register(t, open, errors, row, until),
         NEW mine, NEW dooms \in BOOLEAN, NEW clears \in BOOLEAN, NEW late,
         Observe(t, mine, dooms, clears, late), ~(dooms /\ clears),
         t \in alone => mine = errors,
         t \in alone /\ ~clears /\ (dooms \/ turno[t].call \in doomed[t]) => open
  PROVE  \A u \in alone' : Solo(u)'
<1> DEFINE s == turno[t].session
           tool == turno[t].call
           gone == Evicted(s)
<1>0. /\ turno \in [Turn -> [open : BOOLEAN, session : Session, call : Tool \cup {NoTool}]]
      /\ alone \subseteq Turn /\ doomed \in [Turn -> SUBSET Tool]
      /\ no_turno \in [Session -> Flags] /\ genericas \in [Session -> Counts]
      /\ failed \in [Turn -> Counts]
  BY DEF SoloInv, TypeOK, Flags, Counts
<1>1. /\ s \in Session /\ tool \in Tool /\ turno[t].open
      /\ alone' = alone /\ turno' = [turno EXCEPT ![t].call = NoTool]
      /\ no_turno' = Forget(no_turno, gone, Closed, s, [no_turno[s] EXCEPT ![tool] = open])
      /\ genericas' = Forget(genericas, gone, NoErrors, s, [genericas[s] EXCEPT ![tool] = errors])
  BY <1>0 DEF Register
<1>2. s \notin gone
  BY <1>1, ArrivedIsQueue DEF SoloInv, RegistryInv
<1> SUFFICES ASSUME NEW u \in alone PROVE Solo(u)'
  BY <1>1
<1> DEFINE o == turno[u].session
<1>3. u \in Turn /\ o \in Session /\ Solo(u)
  BY <1>0 DEF SoloInv
<1>4. /\ turno'[u].open = turno[u].open /\ turno'[u].session = o
      /\ \A v \in Turn : turno'[v].open = turno[v].open /\ turno'[v].session = turno[v].session
  BY <1>0, <1>1, <1>3
<1>5. ASSUME o \notin gone, u # t
      PROVE  failed'[u] = failed[u] /\ doomed'[u] = doomed[u] /\ o # s
  <2>1. o # s
    BY <1>1, <1>3, <1>5 DEF Solo
  <2> QED BY <1>3, <1>5, <2>1 DEF Observe
<1>6. CASE o \in gone
  <2>1. o # s
    BY <1>2, <1>6
  <2>2. failed'[u] = NoErrors /\ doomed'[u] = {} /\ u # t
    BY <1>3, <1>6, <2>1 DEF Observe
  <2>3. genericas'[o] = NoErrors
    BY <1>1, <1>3, <1>6, <2>1, ForgetAt
  <2> QED BY <1>3, <1>4, <2>2, <2>3 DEF Solo
<1>7. CASE o \notin gone /\ u # t
  <2>1. genericas'[o] = genericas[o] /\ no_turno'[o] = no_turno[o]
    BY <1>1, <1>3, <1>5, <1>7, ForgetAt
  <2> QED BY <1>3, <1>4, <1>5, <1>7, <2>1 DEF Solo
<1>8. CASE u = t
  <2>1. /\ genericas'[s] = [genericas[s] EXCEPT ![tool] = errors]
        /\ no_turno'[s] = [no_turno[s] EXCEPT ![tool] = open]
    BY <1>1, ForgetAt
  <2>2. failed'[t] = [failed[t] EXCEPT ![tool] = mine]
    BY <1>2 DEF Observe
  <2>3. failed'[t] = genericas'[s]
    BY <1>3, <1>8, <2>1, <2>2 DEF Solo
  <2>4. \A other \in doomed'[t] : no_turno'[s][other]
    <3>1. doomed'[t] = IF clears THEN doomed[t] \ {tool}
                       ELSE IF dooms THEN doomed[t] \cup {tool} ELSE doomed[t]
      BY <1>2 DEF Observe
    <3> SUFFICES ASSUME NEW other \in doomed'[t] PROVE no_turno'[s][other]
      OBVIOUS
    <3>2. other \in doomed[t] \/ (other = tool /\ dooms /\ ~clears)
      BY <3>1
    <3>3. other \in Tool /\ no_turno[s] \in Flags
      BY <1>0, <1>1, <3>2
    <3>4. CASE other = tool
      <4>1. ~clears
        BY <3>1, <3>4
      <4>2. open
        BY <1>8, <3>2, <3>4, <4>1
      <4> QED BY <1>1, <2>1, <3>3, <3>4, <4>2 DEF Flags
    <3>5. CASE other # tool
      <4>1. no_turno[s][other]
        BY <1>3, <1>8, <3>2, <3>5 DEF Solo
      <4> QED BY <2>1, <3>3, <3>5, <4>1 DEF Flags
    <3> QED BY <3>4, <3>5
  <2> QED BY <1>3, <1>4, <1>8, <2>3, <2>4 DEF Solo
<1> QED BY <1>6, <1>7, <1>8

LEMMA SoloInvInit == Init => SoloInv
BY TypeInit, RegistryInvInit DEF SoloInv, Init

LEMMA SoloInvStep == SoloInv /\ [Next]_vars => SoloInv'
<1> SUFFICES ASSUME SoloInv, [Next]_vars PROVE \A u \in alone' : Solo(u)'
  BY TypeStep, RegistryInvStep DEF SoloInv
<1>0. /\ TypeOK /\ RegistryInv /\ \A u \in alone : Solo(u)
      /\ turno \in [Turn -> [open : BOOLEAN, session : Session, call : Tool \cup {NoTool}]]
      /\ alone \subseteq Turn
  BY DEF SoloInv, TypeOK
<1>1. ASSUME NEW t \in Turn, NEW s \in Session, NEW c \in Context, OpenTurn(t, s, c),
             NEW u \in alone'
      PROVE  Solo(u)'
  <2>1. /\ ~turno[t].open
        /\ turno' = [turno EXCEPT ![t] = [open |-> TRUE, session |-> s, call |-> NoTool]]
        /\ alone' = (alone \ TurnsOf(s)) \cup (IF TurnsOf(s) = {} THEN {t} ELSE {})
        /\ no_turno' = Forget(no_turno, Evicted(s), Closed, s, Closed)
        /\ genericas' = Forget(genericas, Evicted(s), NoErrors, s, NoErrors)
        /\ failed' = [v \in Turn |-> IF v = t \/ turno[v].session \in Evicted(s)
                                     THEN NoErrors ELSE failed[v]]
        /\ doomed' = [v \in Turn |-> IF v = t \/ turno[v].session \in Evicted(s)
                                     THEN {} ELSE doomed[v]]
    BY <1>1 DEF OpenTurn
  <2>2. /\ turno'[t].open /\ turno'[t].session = s
        /\ \A v \in Turn : v # t => turno'[v] = turno[v]
    BY <1>0, <2>1
  <2>3. CASE u = t
    <3>1. t \notin alone
      BY <1>0, <2>1 DEF Solo
    <3>2. TurnsOf(s) = {}
      BY <2>1, <2>3, <3>1
    <3>3. \A v \in Turn : turno'[v].open /\ turno'[v].session = s => v = t
      BY <2>2, <3>2 DEF TurnsOf
    <3>4. failed'[t] = NoErrors /\ doomed'[t] = {}
      BY <2>1
    <3>5. genericas'[s] = NoErrors
      BY <2>1, ForgetAt
    <3> QED BY <2>2, <2>3, <3>3, <3>4, <3>5 DEF Solo
  <2>4. CASE u # t
    <3>1. u \in alone /\ u \in Turn /\ Solo(u) /\ turno'[u] = turno[u]
      BY <1>0, <2>1, <2>2, <2>4
    <3> DEFINE o == turno[u].session
    <3>2. o \in Session /\ turno[u].open
      BY <1>0, <3>1 DEF Solo
    <3>3. o # s
      BY <2>1, <2>4, <3>1, <3>2 DEF TurnsOf
    <3>4. \A v \in Turn : turno'[v].open /\ turno'[v].session = o => v = u
      BY <2>2, <3>1, <3>3 DEF Solo
    <3>5. CASE o \in Evicted(s)
      <4>1. failed'[u] = NoErrors /\ doomed'[u] = {}
        BY <2>1, <3>1, <3>5
      <4>2. genericas'[o] = NoErrors
        BY <2>1, <3>2, <3>3, <3>5, ForgetAt
      <4> QED BY <3>1, <3>2, <3>4, <4>1, <4>2 DEF Solo
    <3>6. CASE o \notin Evicted(s)
      <4>1. failed'[u] = failed[u] /\ doomed'[u] = doomed[u]
        BY <2>1, <2>4, <3>1, <3>6
      <4>2. genericas'[o] = genericas[o] /\ no_turno'[o] = no_turno[o]
        BY <2>1, <3>2, <3>3, <3>6, ForgetAt
      <4> QED BY <3>1, <3>2, <3>4, <4>1, <4>2 DEF Solo
    <3> QED BY <3>5, <3>6
  <2> QED BY <2>3, <2>4
<1>2. ASSUME NEW t \in Turn, NEW tool \in Tool, Start(t, tool), NEW u \in alone' PROVE Solo(u)'
  <2>1. /\ alone' = alone /\ failed' = failed /\ doomed' = doomed
        /\ genericas' = genericas /\ no_turno' = no_turno
        /\ turno' = [turno EXCEPT ![t].call = tool]
    BY <1>2 DEF Start, registry, seen
  <2>2. \A v \in Turn : turno'[v].open = turno[v].open /\ turno'[v].session = turno[v].session
    BY <1>0, <2>1
  <2>3. u \in Turn /\ Solo(u)
    BY <1>0, <1>2, <2>1
  <2> QED BY <2>1, <2>2, <2>3 DEF Solo
<1>3. ASSUME NEW t \in Turn, Succeed(t) PROVE \A u \in alone' : Solo(u)'
  BY <1>3, OutcomeKeepsSolo DEF Succeed
<1>same. ASSUME NEW t \in alone, turno[t].call # NoTool
         PROVE  LET s == turno[t].session
                    tool == turno[t].call
                IN  /\ failed[t][tool] = genericas[s][tool]
                    /\ tool \in doomed[t] => no_turno[s][tool]
  BY <1>0 DEF Solo
<1>4. ASSUME NEW t \in Turn, Neutral(t) PROVE \A u \in alone' : Solo(u)'
  <2>1. turno[t].call # NoTool
    BY <1>4 DEF Neutral, Register
  <2> DEFINE s == turno[t].session
             tool == turno[t].call
  <2>2. /\ Register(t, no_turno[s][tool], genericas[s][tool], timeouts[s][tool],
                    cooldown_ate[s][tool])
        /\ Observe(t, failed[t][tool], FALSE, FALSE, held[s][tool])
    BY <1>4 DEF Neutral
  <2>3. t \in alone => /\ failed[t][tool] = genericas[s][tool]
                       /\ tool \in doomed[t] => no_turno[s][tool]
    BY <2>1, <1>same
  <2> QED BY <2>2, <2>3, OutcomeKeepsSolo
<1>5. ASSUME NEW t \in Turn, FailForGood(t) PROVE \A u \in alone' : Solo(u)'
  <2>1. turno[t].call # NoTool
    BY <1>5 DEF FailForGood, Register
  <2> QED BY <1>5, <2>1, <1>same, OutcomeKeepsSolo DEF FailForGood
<1>6. ASSUME NEW t \in Turn, TimeOut(t) PROVE \A u \in alone' : Solo(u)'
  <2>1. turno[t].call # NoTool
    BY <1>6 DEF TimeOut, Register
  <2> DEFINE s == turno[t].session
             tool == turno[t].call
             row == IF timeouts[s][tool] < MaxTimeouts THEN timeouts[s][tool] + 1 ELSE MaxTimeouts
             until == now + Cooldown(row)
  <2>2. /\ Register(t, no_turno[s][tool], genericas[s][tool], row, until)
        /\ Observe(t, failed[t][tool], FALSE, FALSE, until)
    BY <1>6 DEF TimeOut
  <2>3. t \in alone => /\ failed[t][tool] = genericas[s][tool]
                       /\ tool \in doomed[t] => no_turno[s][tool]
    BY <2>1, <1>same
  <2> HIDE DEF row, until
  <2> QED BY <2>2, <2>3, OutcomeKeepsSolo
<1>7. ASSUME NEW t \in Turn, NEW e \in Erro, FailWith(t, e) PROVE \A u \in alone' : Solo(u)'
  <2> DEFINE s == turno[t].session
             tool == turno[t].call
             n == genericas[s][tool][e] + 1
             mine == failed[t][tool][e] + 1
             errors == [genericas[s][tool] EXCEPT ![e] = IF n < Repeticoes THEN n ELSE Repeticoes]
             own == [failed[t][tool] EXCEPT ![e] = IF mine < Repeticoes THEN mine ELSE Repeticoes]
             open == no_turno[s][tool] \/ n >= Repeticoes
             dooms == mine >= Repeticoes
  <2>1. turno[t].call # NoTool
    BY <1>7 DEF FailWith, Register
  <2>2. /\ Register(t, open, errors, timeouts[s][tool], cooldown_ate[s][tool])
        /\ Observe(t, own, dooms, FALSE, held[s][tool])
    BY <1>7 DEF FailWith
  <2>3. ASSUME t \in alone
        PROVE  own = errors /\ (dooms \/ tool \in doomed[t] => open)
    BY <2>1, <2>3, <1>same
  <2>4. dooms \in BOOLEAN
    OBVIOUS
  <2> HIDE DEF errors, own, open, dooms
  <2> QED BY <2>2, <2>3, <2>4, OutcomeKeepsSolo
<1>8. ASSUME NEW t \in Turn, CloseTurn(t), NEW u \in alone' PROVE Solo(u)'
  <2>1. /\ alone' = alone \ {t} /\ failed' = [failed EXCEPT ![t] = NoErrors]
        /\ doomed' = [doomed EXCEPT ![t] = {}]
        /\ genericas' = genericas /\ no_turno' = no_turno
        /\ turno' = [turno EXCEPT ![t] = Idle]
    BY <1>8 DEF CloseTurn, registry
  <2>2. u \in Turn /\ u # t /\ Solo(u)
    BY <1>0, <1>8, <2>1
  <2>3. /\ failed'[u] = failed[u] /\ doomed'[u] = doomed[u] /\ turno'[u] = turno[u]
        /\ ~turno'[t].open /\ \A v \in Turn : v # t => turno'[v] = turno[v]
    BY <1>0, <2>1, <2>2 DEF TypeOK, Idle
  <2> QED BY <2>1, <2>2, <2>3 DEF Solo
<1>9. CASE Tick
  BY <1>0, <1>9 DEF Tick, Solo, registry, seen
<1>10. CASE UNCHANGED vars
  BY <1>0, <1>10 DEF Solo, vars, registry, seen
<1>11. CASE Recover
  <2> SUFFICES ASSUME NEW u \in alone PROVE Solo(u)'
    BY <1>11 DEF Recover
  <2>1. u \in Turn /\ Solo(u) /\ turno[u].session \in Session
    BY <1>0
  <2>2. /\ turno' = turno /\ failed'[u] = NoErrors /\ doomed'[u] = {}
        /\ genericas'[turno[u].session] = NoErrors
    BY <1>11, <2>1 DEF Recover
  <2> QED BY <2>1, <2>2 DEF Solo
<1> QED BY <1>1, <1>2, <1>3, <1>4, <1>5, <1>6, <1>7, <1>8, <1>9, <1>10, <1>11 DEF Next

(* A turn that has its session to itself gives a tool up once it failed in *)
(* it for good, or too often the same way (estado, registrar).             *)
THEOREM AloneTurnAlwaysGivesUp == Spec => AloneTurnGivesUp
<1>1. ASSUME SoloInv, [Next]_vars, NEW t \in alone, NEW tool \in Tool, Starts(t, tool)
      PROVE  tool \notin doomed[t]
  <2>1. TypeOK /\ Solo(t) /\ t \in Turn
    BY <1>1 DEF SoloInv, TypeOK
  <2>2. ~no_turno[turno[t].session][tool]
    BY <1>1, <2>1, OnlyStartStarts DEF IsOpen
  <2> QED BY <2>1, <2>2 DEF Solo
<1>2. SoloInv /\ [Next]_vars =>
        [\A t \in alone, tool \in Tool : Starts(t, tool) => tool \notin doomed[t]]_vars
  BY <1>1
<1> QED BY <1>2, SoloInvInit, SoloInvStep, PTL DEF Spec, AloneTurnGivesUp

-------------------------------------------------------------------------------
(* The breakers of the providers.                                          *)

(* The states of a request.                                                *)
RequestState ==
  [pc : Steps, kind : {"batch", "stream"}, i : 1..Len(Chain), attempt : 0..MaxRetries,
   vazias : 0..1, vazio : BOOLEAN, n : 0..Threshold, then : {"done", "retry", "leave"}]

(* The types of the breakers, named one by one.                            *)
LEMMA CircuitTypes ==
  CircuitTypeOK <=>
    /\ failure_count \in [Provider -> 0..Threshold]
    /\ success_count \in [Provider -> 0..HalfOpenSuccesses]
    /\ is_open \in [Provider -> BOOLEAN]
    /\ age \in [Provider -> {Never} \cup 0..Recovery]
    /\ healthy \in SUBSET Provider
    /\ req \in [Request -> RequestState]
    /\ streak \in [Provider -> 0..Threshold]
    /\ clean \in [Request -> SUBSET Provider]
  BY DEF CircuitTypeOK, RequestState

(* The bounds, and where a request is.                                     *)
LEMMA CircuitBounds ==
  /\ Threshold \in Nat \ {0} /\ Recovery \in Nat \ {0} /\ HalfOpenSuccesses \in Nat \ {0}
  /\ MaxRetries \in Nat /\ Kinds \subseteq {"batch", "stream"}
  /\ Len(Chain) \in Nat \ {0} /\ \A i \in 1..Len(Chain) : Chain[i] \in Provider
  BY CircuitAssumption, LenProperties, EmptySeq

LEMMA AtIsProvider ==
  ASSUME CircuitTypeOK, NEW r \in Request
  PROVE  req[r] \in RequestState /\ At(r) \in Provider
<1>1. req[r] \in RequestState
  BY CircuitTypes
<1>2. req[r].i \in 1..Len(Chain)
  BY <1>1 DEF RequestState
<1>3. QED
  BY <1>1, <1>2, CircuitBounds DEF At

(* A sum that stops at its bound.                                          *)
LEMMA AtMostBounds ==
  ASSUME NEW n \in Nat, NEW bound \in Nat
  PROVE  AtMost(n, bound) \in 0..bound /\ AtMost(n, bound) <= n
  BY DEF AtMost

(* What is owed is a finite number of answers.                             *)
LEMMA OwingFinite ==
  ASSUME NEW r, NEW p
  PROVE  IsFiniteSet(OwingOfOthers(p, r)) /\ Cardinality(OwingOfOthers(p, r)) \in Nat
<1>1. IsFiniteSet({"answer"} \cup {"empty"})
  BY FS_EmptySet, FS_Singleton, FS_AddElement
<1>2. IsFiniteSet(Request \X ({"answer"} \cup {"empty"}))
  BY <1>1, CircuitAssumption, FS_Product
<1>3. OwingOfOthers(p, r) \subseteq Request \X ({"answer"} \cup {"empty"})
  BY DEF OwingOfOthers, Owing
<1>4. IsFiniteSet(OwingOfOthers(p, r))
  BY <1>2, <1>3, FS_Subset
<1>5. QED
  BY <1>4, FS_CardinalityType

(* A table with one entry replaced.                                        *)
LEMMA OneEntry ==
  ASSUME NEW D, NEW S, NEW f \in [D -> S], NEW d, NEW v \in S
  PROVE  /\ [f EXCEPT ![d] = v] \in [D -> S]
         /\ d \in D => [f EXCEPT ![d] = v][d] = v
         /\ \A e \in D : e # d => [f EXCEPT ![d] = v][e] = f[e]
  OBVIOUS

(* A request at rest,                                                      *)
LEMMA IdleState == IdleRequest \in RequestState
  BY CircuitBounds DEF IdleRequest, RequestState, Steps

(* one that moves to another step,                                         *)
LEMMA MoveState ==
  ASSUME NEW q \in RequestState, NEW pc \in Steps
  PROVE  [q EXCEPT !.pc = pc] \in RequestState
  BY DEF RequestState

(* one that is sent to the next provider,                                  *)
LEMMA NextState ==
  ASSUME NEW q \in RequestState
  PROVE  NextProvider(q) \in RequestState
<1>1. ASSUME NEW i \in 1..Len(Chain)
      PROVE  [q EXCEPT !.i = i, !.pc = "gate"] \in RequestState
  BY <1>1 DEF RequestState, Steps
<1>2. q.i \in 1..Len(Chain)
  BY DEF RequestState
<1>3. q.i < Len(Chain) => q.i + 1 \in 1..Len(Chain)
  BY <1>2, CircuitBounds
<1>4. QED
  BY <1>1, <1>3, IdleState DEF NextProvider

(* and one whose outcome is recorded.                                      *)
LEMMA Proceeds ==
  ASSUME NEW q \in RequestState
  PROVE  /\ q.then = "done" => Proceed(q) = IdleRequest
         /\ q.then = "retry" => Proceed(q) = [q EXCEPT !.pc = "call"]
         /\ q.then = "leave" /\ q.vazio =>
              Proceed(q) = [q EXCEPT !.pc = "failed", !.vazio = FALSE]
         /\ q.then = "leave" /\ ~q.vazio => Proceed(q) = NextProvider(q)
         /\ q.then \in {"done", "retry", "leave"}
  BY DEF Proceed, RequestState

LEMMA ProceedState ==
  ASSUME NEW q \in RequestState
  PROVE  Proceed(q) \in RequestState
<1>1. "call" \in Steps
  BY DEF Steps
<1>2. [q EXCEPT !.pc = "failed", !.vazio = FALSE] \in RequestState
  BY DEF RequestState, Steps
<1>3. [q EXCEPT !.pc = "call"] \in RequestState
  BY <1>1, MoveState
<1>4. QED
  BY <1>2, <1>3, Proceeds, IdleState, NextState

(* The first state has the types.                                          *)
LEMMA CircuitTypeInit == CircuitInit => CircuitTypeOK
<1>1. CircuitInit => req \in [Request -> RequestState]
  BY IdleState DEF CircuitInit
<1>2. QED
  BY <1>1, CircuitBounds, CircuitTypes DEF CircuitInit

(* A step of a request: which of the atomics it may touch, and how.        *)
LEMMA CircuitTypeStep == CircuitTypeOK /\ [CircuitNext]_circuitVars => CircuitTypeOK'
<1> SUFFICES ASSUME CircuitTypeOK, [CircuitNext]_circuitVars PROVE CircuitTypeOK'
  OBVIOUS
<1>1. /\ failure_count \in [Provider -> 0..Threshold]
      /\ success_count \in [Provider -> 0..HalfOpenSuccesses]
      /\ is_open \in [Provider -> BOOLEAN]
      /\ age \in [Provider -> {Never} \cup 0..Recovery]
      /\ healthy \in SUBSET Provider
      /\ req \in [Request -> RequestState]
      /\ streak \in [Provider -> 0..Threshold]
      /\ clean \in [Request -> SUBSET Provider]
  BY CircuitTypes
<1>2. CircuitTypeOK' <=>
        /\ failure_count' \in [Provider -> 0..Threshold]
        /\ success_count' \in [Provider -> 0..HalfOpenSuccesses]
        /\ is_open' \in [Provider -> BOOLEAN]
        /\ age' \in [Provider -> {Never} \cup 0..Recovery]
        /\ healthy' \in SUBSET Provider
        /\ req' \in [Request -> RequestState]
        /\ streak' \in [Provider -> 0..Threshold]
        /\ clean' \in [Request -> SUBSET Provider]
  BY DEF CircuitTypeOK, RequestState
<1>3. ASSUME NEW r \in Request, Gate(r) \/ GateAge(r) \/ Rejected(r) \/ ReadOpen(r)
                                \/ ReadAge(r) \/ Cancel(r)
      PROVE  CircuitTypeOK'
  <2>1. UNCHANGED <<failure_count, success_count, is_open, age, healthy, streak, clean>>
    BY <1>3 DEF Gate, GateAge, Rejected, ReadOpen, ReadAge, Cancel, breaker, observed
  <2>2. \E pc \in Steps :
          req' \in {[req EXCEPT ![r] = q] :
                      q \in {IdleRequest, NextProvider(req[r]), [req[r] EXCEPT !.pc = pc]}}
    BY <1>3 DEF Gate, GateAge, Rejected, ReadOpen, ReadAge, Cancel, Goto, Steps
  <2>3. req' \in [Request -> RequestState]
    BY <2>2, <1>1, AtIsProvider, IdleState, NextState, MoveState, OneEntry
  <2>4. QED
    BY <2>1, <2>3, <1>1, <1>2
<1>4. ASSUME NEW r \in Request, Served(r) \/ Empty(r) \/ \E b \in BOOLEAN : Refused(r, b)
      PROVE  CircuitTypeOK'
  <2> DEFINE p == At(r)
             q == req[r]
             n == AtMost(streak[p] + 1, Threshold)
             owed == AtMost(Cardinality(OwingOfOthers(p, r)), Threshold)
  <2>0. p \in Provider /\ q \in RequestState
    BY AtIsProvider
  <2>1. UNCHANGED <<failure_count, success_count, is_open, age, healthy, clean>>
    BY <1>4 DEF Served, Empty, Refused, breaker
  <2>2. n \in 0..Threshold /\ owed \in 0..Threshold
    <3>1. streak[p] + 1 \in Nat /\ Cardinality(OwingOfOthers(p, r)) \in Nat
      BY <1>1, <2>0, OwingFinite
    <3>2. QED
      BY <3>1, CircuitBounds, AtMostBounds
  <2>3. \/ streak' = [streak EXCEPT ![p] = n]
        \/ streak' = [streak EXCEPT ![p] = owed]
        \/ streak' = streak
    BY <1>4 DEF Served, Empty, Refused
  <2>4. streak' \in [Provider -> 0..Threshold]
    <3> HIDE DEF n, owed, p, q
    <3>1. QED
      BY <2>2, <2>3, <1>1
  <2>5. CanRetry(q) => q.attempt + 1 \in 0..MaxRetries
    BY <2>0, CircuitBounds DEF CanRetry, RequestState
  <2>6. CASE Served(r)
    <3>1. [q EXCEPT !.pc = "success", !.then = "done"] \in RequestState
      BY <2>0 DEF RequestState, Steps
    <3>2. req' \in [Request -> RequestState]
      BY <2>6, <3>1, <1>1, IdleState, OneEntry DEF Served
    <3>3. QED
      BY <2>1, <2>4, <3>2, <1>1, <1>2
  <2>7. CASE Empty(r)
    <3>1. ASSUME NEW attempt \in 0..MaxRetries
          PROVE  [q EXCEPT !.vazio = TRUE, !.vazias = 1, !.attempt = attempt] \in RequestState
      <4>1. TRUE \in BOOLEAN /\ 1 \in 0..1
        OBVIOUS
      <4> HIDE DEF q
      <4>2. QED
        BY <4>1, <3>1, <2>0 DEF RequestState
    <3>2. /\ [q EXCEPT !.pc = "failed", !.then = "leave"] \in RequestState
          /\ [q EXCEPT !.pc = "failed", !.vazio = FALSE, !.then = "leave"] \in RequestState
      BY <2>0 DEF RequestState, Steps
    <3>3. \/ req' = [req EXCEPT ![r] = [q EXCEPT !.pc = "failed", !.then = "leave"]]
          \/ req' = [req EXCEPT ![r] = [q EXCEPT !.pc = "failed", !.vazio = FALSE,
                                                 !.then = "leave"]]
          \/ /\ CanRetry(q)
             /\ req' = [req EXCEPT ![r] = [q EXCEPT !.vazio = TRUE, !.vazias = 1,
                                                    !.attempt = q.attempt + 1]]
      BY <2>7 DEF Empty
    <3>4. CanRetry(q) =>
            [q EXCEPT !.vazio = TRUE, !.vazias = 1, !.attempt = q.attempt + 1] \in RequestState
      BY <2>5, <3>1
    <3>5. req' \in [Request -> RequestState]
      BY <3>2, <3>3, <3>4, <1>1, OneEntry
    <3>6. QED
      BY <2>1, <2>4, <3>5, <1>1, <1>2
  <2>8. ASSUME NEW b \in BOOLEAN, Refused(r, b) PROVE CircuitTypeOK'
    <3>1. ASSUME NEW attempt \in 0..MaxRetries
          PROVE  [q EXCEPT !.pc = "failed", !.attempt = attempt, !.then = "retry"] \in RequestState
      BY <3>1, <2>0 DEF RequestState, Steps
    <3>2. [q EXCEPT !.pc = "failed", !.then = "leave"] \in RequestState
      BY <2>0 DEF RequestState, Steps
    <3>3. CASE b /\ CanRetry(q)
      <4>1. req' = [req EXCEPT ![r] =
                      [q EXCEPT !.pc = "failed", !.attempt = q.attempt + 1, !.then = "retry"]]
        BY <2>8, <3>3 DEF Refused
      <4>2. req' \in [Request -> RequestState]
        BY <4>1, <2>5, <3>1, <3>3, <1>1
      <4>3. QED
        BY <4>2, <2>1, <2>4, <1>1, <1>2
    <3>4. CASE ~(b /\ CanRetry(q))
      <4>1. req' = [req EXCEPT ![r] = [q EXCEPT !.pc = "failed", !.then = "leave"]]
        BY <2>8, <3>4 DEF Refused
      <4>2. req' \in [Request -> RequestState]
        BY <4>1, <3>2, <1>1
      <4>3. QED
        BY <4>2, <2>1, <2>4, <1>1, <1>2
    <3>5. QED
      BY <3>3, <3>4
  <2>9. QED
    BY <1>4, <2>6, <2>7, <2>8
<1>5. ASSUME NEW r \in Request, CountFailure(r)
      PROVE  CircuitTypeOK'
  <2> DEFINE n == AtMost(failure_count[At(r)] + 1, Threshold)
  <2>1. n \in 0..Threshold
    <3>1. failure_count[At(r)] + 1 \in Nat
      BY <1>1, AtIsProvider
    <3>2. QED
      BY <3>1, CircuitBounds, AtMostBounds
  <2>2. /\ failure_count' = [failure_count EXCEPT ![At(r)] = n]
        /\ req' = [req EXCEPT ![r] = [req[r] EXCEPT !.pc = "failed_success", !.n = n]]
        /\ UNCHANGED <<success_count, is_open, age, healthy, streak, clean>>
    BY <1>1, <1>5 DEF CountFailure, observed
  <2> HIDE DEF n
  <2>3. [req[r] EXCEPT !.pc = "failed_success", !.n = n] \in RequestState
    BY <2>1, AtIsProvider DEF RequestState, Steps
  <2>4. QED
    BY <2>1, <2>2, <2>3, <1>1, <1>2, OneEntry
<1>6. ASSUME NEW r \in Request, ForgetSuccesses(r) \/ CountSuccess(r) \/ ZeroSuccesses(r)
      PROVE  CircuitTypeOK'
  <2> DEFINE n == AtMost(success_count[At(r)] + 1, HalfOpenSuccesses)
  <2>1. n \in 0..HalfOpenSuccesses /\ 0 \in 0..HalfOpenSuccesses
    <3>1. success_count[At(r)] + 1 \in Nat
      BY <1>1, AtIsProvider
    <3>2. QED
      BY <3>1, CircuitBounds DEF AtMost
  <2>2. UNCHANGED <<failure_count, is_open, age, healthy, streak, clean>>
    BY <1>6 DEF ForgetSuccesses, CountSuccess, ZeroSuccesses, observed
  <2>3. \/ success_count' = [success_count EXCEPT ![At(r)] = n]
        \/ success_count' = [success_count EXCEPT ![At(r)] = 0]
    BY <1>6 DEF ForgetSuccesses, CountSuccess, ZeroSuccesses
  <2>4. \/ req' = [req EXCEPT ![r] = Proceed(req[r])]
        \/ req' = [req EXCEPT ![r] = [req[r] EXCEPT !.pc = "open"]]
        \/ req' = [req EXCEPT ![r] = [req[r] EXCEPT !.pc = "close"]]
    BY <1>6 DEF ForgetSuccesses, CountSuccess, ZeroSuccesses
  <2>5. /\ Proceed(req[r]) \in RequestState
        /\ [req[r] EXCEPT !.pc = "open"] \in RequestState
        /\ [req[r] EXCEPT !.pc = "close"] \in RequestState
    BY AtIsProvider, ProceedState, MoveState DEF Steps
  <2> HIDE DEF n
  <2>6. req' \in [Request -> RequestState]
    BY <2>4, <2>5, <1>1
  <2>7. success_count' \in [Provider -> 0..HalfOpenSuccesses]
    BY <2>1, <2>3, <1>1
  <2>8. QED
    BY <2>2, <2>6, <2>7, <1>1, <1>2
<1>7. ASSUME NEW r \in Request, Open(r) \/ Close(r) \/ ZeroFailures(r)
      PROVE  CircuitTypeOK'
  <2>1. /\ UNCHANGED <<success_count, age, healthy, streak, clean>>
        /\ \/ failure_count' = failure_count
           \/ failure_count' = [failure_count EXCEPT ![At(r)] = 0]
        /\ \E b \in BOOLEAN : \/ is_open' = is_open
                              \/ is_open' = [is_open EXCEPT ![At(r)] = b]
    BY <1>7 DEF Open, Close, ZeroFailures, observed
  <2>2. 0 \in 0..Threshold
    BY CircuitBounds
  <2>3. \E pc \in Steps : req' = [req EXCEPT ![r] = [req[r] EXCEPT !.pc = pc]]
    BY <1>7 DEF Open, Close, ZeroFailures, Goto, Steps
  <2>4. req' \in [Request -> RequestState]
    BY <2>3, <1>1, AtIsProvider, MoveState, OneEntry
  <2>5. failure_count' \in [Provider -> 0..Threshold] /\ is_open' \in [Provider -> BOOLEAN]
    BY <2>1, <2>2, <1>1, OneEntry
  <2>6. QED
    BY <2>1, <2>4, <2>5, <1>1, <1>2
<1>8. ASSUME NEW r \in Request, Stamp(r)
      PROVE  CircuitTypeOK'
  <2>1. /\ UNCHANGED <<failure_count, success_count, is_open, healthy, streak, clean>>
        /\ age' = [age EXCEPT ![At(r)] = 0]
        /\ req' = [req EXCEPT ![r] = Proceed(req[r])]
    BY <1>8 DEF Stamp, observed
  <2>2. 0 \in {Never} \cup 0..Recovery
    BY CircuitBounds
  <2>3. QED
    BY <2>1, <2>2, <1>1, <1>2, AtIsProvider, ProceedState, OneEntry
<1>9. ASSUME NEW r \in Request, NEW kind \in Kinds, Begin(r, kind)
      PROVE  CircuitTypeOK'
  <2>1. [IdleRequest EXCEPT !.kind = kind, !.pc = IF kind = "batch" THEN "gate" ELSE "call"]
          \in RequestState
    BY CircuitBounds, IdleState DEF RequestState, Steps
  <2>2. /\ clean' = [clean EXCEPT ![r] = {p \in Provider : failure_count[p] = 0}]
        /\ UNCHANGED <<failure_count, success_count, is_open, age, healthy, streak>>
    BY <1>9 DEF Begin, breaker
  <2>3. req' \in [Request -> RequestState]
    BY <1>9, <2>1, <1>1, OneEntry DEF Begin
  <2>4. QED
    BY <2>2, <2>3, <1>1, <1>2
<1>10. CASE TimePasses
  <2>1. UNCHANGED <<failure_count, success_count, is_open, healthy, req, streak, clean>>
    BY <1>10 DEF TimePasses, observed
  <2>2. \A p \in Provider : age[p] \in 0..(Recovery - 1) => age[p] + 1 \in 0..Recovery
    BY CircuitBounds
  <2>3. age' \in [Provider -> {Never} \cup 0..Recovery]
    BY <1>1, <1>10, <2>2 DEF TimePasses
  <2>4. QED
    BY <2>1, <2>3, <1>1, <1>2
<1>11. CASE ProviderChanges \/ UNCHANGED circuitVars
  <2>1. /\ UNCHANGED <<failure_count, success_count, is_open, age, req, streak, clean>>
        /\ healthy' = healthy \/ healthy' \in SUBSET Provider
    BY <1>11 DEF ProviderChanges, circuitVars, breaker, observed
  <2>2. QED
    BY <2>1, <1>1, <1>2
<1>12. QED
  BY <1>3, <1>4, <1>5, <1>6, <1>7, <1>8, <1>9, <1>10, <1>11 DEF CircuitNext, Works

(* For any providers, any chain, any requests and any limits, the atomics  *)
(* of a breaker hold what they may hold, and a request makes at most       *)
(* MaxRetries retries and keeps its place in the chain.                    *)
THEOREM CircuitTypeCorrect == CircuitSpec => []CircuitTypeOK
  BY CircuitTypeInit, CircuitTypeStep, PTL DEF CircuitSpec

(* The steps of a request that records a failure, that may owe one, that    *)
(* records a success while the circuit is open, and at any time.            *)
Failing == {"failed", "failed_success", "open", "stamp"}
Calling == Failing \cup {"call"}
HalfOpen == {"success_age", "success_count", "close"}
Succeeding == HalfOpen \cup {"success", "zero"}

(* A request by where it is: only the primary owes for an empty answer and *)
(* retries, and an outcome is recorded for what it was.                    *)
Place(q) ==
  /\ q.pc \in {"gate", "gate_age"} \/ q.i > 1 => ~q.vazio
  /\ q.vazio => q.vazias = 1
  /\ q.pc \in Succeeding \cup {"zero_success"} => q.then = "done"
  /\ q.pc \in Failing => q.then = "leave" \/ (q.then = "retry" /\ q.i = 1)

PlaceInv == \A r \in Request : Place(req[r])

(* A step of one request leaves the others where they are.                 *)
LEMMA PlaceKept ==
  ASSUME CircuitTypeOK, PlaceInv, NEW r \in Request, NEW w, Place(w),
         req' = [req EXCEPT ![r] = w]
  PROVE  PlaceInv'
<1>1. \A s \in Request : req'[s] = w \/ req'[s] = req[s]
  BY CircuitTypes
<1>2. QED
  BY <1>1 DEF PlaceInv

(* Where a request may move by changing its step alone,                    *)
LEMMA PlaceMoved ==
  ASSUME NEW q \in RequestState, Place(q), NEW pc \in Steps,
         pc \in {"gate", "gate_age"} => q.pc = "gate",
         pc \in Succeeding \cup {"zero_success"} => q.pc \in Succeeding,
         pc \in Failing => q.pc \in Failing
  PROVE  Place([q EXCEPT !.pc = pc])
  BY DEF Place, RequestState

(* when it goes to the next provider,                                      *)
LEMMA PlaceNext ==
  ASSUME NEW q \in RequestState, ~q.vazio
  PROVE  Place(NextProvider(q))
  BY DEF Place, NextProvider, IdleRequest, RequestState, Failing, Succeeding, HalfOpen

(* and when its outcome is recorded.                                       *)
LEMMA PlaceProceed ==
  ASSUME NEW q \in RequestState, Place(q)
  PROVE  Place(Proceed(q))
<1>1. Place(IdleRequest)
  BY DEF Place, IdleRequest, Failing, Succeeding, HalfOpen
<1>2. Place([q EXCEPT !.pc = "call"])
  BY DEF Place, RequestState, Failing, Succeeding, HalfOpen
<1>3. q.then = "leave" => Place([q EXCEPT !.pc = "failed", !.vazio = FALSE])
  BY DEF Place, RequestState, Failing, Succeeding, HalfOpen
<1>4. QED
  BY <1>1, <1>2, <1>3, Proceeds, PlaceNext

(* Requests keep their places, however many they are.                      *)
LEMMA PlaceStep == CircuitTypeOK /\ PlaceInv /\ [CircuitNext]_circuitVars => PlaceInv'
<1> SUFFICES ASSUME CircuitTypeOK, PlaceInv, [CircuitNext]_circuitVars PROVE PlaceInv'
  OBVIOUS
<1>1. \A r \in Request : req[r] \in RequestState /\ Place(req[r])
  BY AtIsProvider DEF PlaceInv
<1>2. Place(IdleRequest)
  BY DEF Place, IdleRequest, Failing, Succeeding, HalfOpen
<1>3. ASSUME NEW r \in Request, Gate(r) \/ ReadOpen(r) \/ ReadAge(r) \/ Open(r) \/ Close(r)
                                \/ ZeroFailures(r)
      PROVE  PlaceInv'
  <2>1. PICK pc \in Steps :
          /\ req' = [req EXCEPT ![r] = [req[r] EXCEPT !.pc = pc]]
          /\ pc \in {"gate", "gate_age"} => req[r].pc = "gate"
          /\ pc \in Succeeding \cup {"zero_success"} => req[r].pc \in Succeeding
          /\ pc \in Failing => req[r].pc \in Failing
    BY <1>3 DEF Gate, ReadOpen, ReadAge, Open, Close, ZeroFailures, Goto, Steps, Failing,
                Succeeding, HalfOpen
  <2>2. QED
    BY <2>1, <1>1, PlaceMoved, PlaceKept
<1>4. ASSUME NEW r \in Request, GateAge(r)
      PROVE  PlaceInv'
  <2>1. ~req[r].vazio /\ Place([req[r] EXCEPT !.pc = "call"])
    BY <1>1, <1>4 DEF GateAge, Place, RequestState, Failing, Succeeding, HalfOpen
  <2>2. Place(NextProvider(req[r]))
    BY <1>1, <2>1, PlaceNext
  <2>3. QED
    BY <1>4, <2>1, <2>2, PlaceKept DEF GateAge
<1>5. ASSUME NEW r \in Request, ForgetSuccesses(r) \/ Stamp(r) \/ CountSuccess(r)
                                \/ ZeroSuccesses(r)
      PROVE  PlaceInv'
  <2>1. PICK w \in {Proceed(req[r])}
                     \cup (IF req[r].pc = "failed_success" THEN {[req[r] EXCEPT !.pc = "open"]}
                                                           ELSE {})
                     \cup (IF req[r].pc = "success_count" THEN {[req[r] EXCEPT !.pc = "close"]}
                                                          ELSE {}) :
          req' = [req EXCEPT ![r] = w]
    BY <1>5 DEF ForgetSuccesses, Stamp, CountSuccess, ZeroSuccesses
  <2>2. Place(Proceed(req[r]))
    BY <1>1, PlaceProceed
  <2>3. req[r].pc = "failed_success" => Place([req[r] EXCEPT !.pc = "open"])
    BY <1>1, PlaceMoved DEF Steps, Failing, Succeeding, HalfOpen
  <2>4. req[r].pc = "success_count" => Place([req[r] EXCEPT !.pc = "close"])
    BY <1>1, PlaceMoved DEF Steps, Failing, Succeeding, HalfOpen
  <2>5. Place(w)
    BY <2>1, <2>2, <2>3, <2>4
  <2>6. QED
    BY <2>1, <2>5, PlaceKept
<1>6. ASSUME NEW r \in Request, Rejected(r) \/ Cancel(r)
      PROVE  PlaceInv'
  BY <1>2, <1>6, PlaceKept DEF Rejected, Cancel
<1>7. ASSUME NEW r \in Request, Served(r)
      PROVE  PlaceInv'
  <2>1. req[r].pc = "call" => Place([req[r] EXCEPT !.pc = "success", !.then = "done"])
    BY <1>1 DEF Place, RequestState, Failing, Succeeding, HalfOpen
  <2>2. QED
    BY <1>2, <1>7, <2>1, PlaceKept DEF Served
<1>8. ASSUME NEW r \in Request, Empty(r)
      PROVE  PlaceInv'
  <2>1. CanRetry(req[r]) /\ req[r].pc = "call" => 
          Place([req[r] EXCEPT !.vazio = TRUE, !.vazias = 1, !.attempt = @ + 1])
    BY <1>1 DEF Place, RequestState, Failing, Succeeding, HalfOpen, CanRetry
  <2>2. /\ req[r].pc = "call" => Place([req[r] EXCEPT !.pc = "failed", !.then = "leave"])
        /\ Place([req[r] EXCEPT !.pc = "failed", !.vazio = FALSE, !.then = "leave"])
    BY <1>1 DEF Place, RequestState, Failing, Succeeding, HalfOpen
  <2>3. QED
    BY <1>8, <2>1, <2>2, PlaceKept DEF Empty
<1>9. ASSUME NEW r \in Request, NEW b \in BOOLEAN, Refused(r, b)
      PROVE  PlaceInv'
  <2>1. CanRetry(req[r]) /\ req[r].pc = "call" => 
          Place([req[r] EXCEPT !.pc = "failed", !.attempt = @ + 1, !.then = "retry"])
    BY <1>1 DEF Place, RequestState, Failing, Succeeding, HalfOpen, CanRetry
  <2>2. req[r].pc = "call" => Place([req[r] EXCEPT !.pc = "failed", !.then = "leave"])
    BY <1>1 DEF Place, RequestState, Failing, Succeeding, HalfOpen
  <2>3. QED
    BY <1>9, <2>1, <2>2, PlaceKept DEF Refused
<1>10. ASSUME NEW r \in Request, CountFailure(r)
       PROVE  PlaceInv'
  <2> DEFINE n == AtMost(failure_count[At(r)] + 1, Threshold)
  <2>1. req' = [req EXCEPT ![r] = [req[r] EXCEPT !.pc = "failed_success", !.n = n]]
    BY <1>10, CircuitTypes DEF CountFailure
  <2> HIDE DEF n
  <2>2. req[r].pc = "failed" => Place([req[r] EXCEPT !.pc = "failed_success", !.n = n])
    BY <1>1 DEF Place, RequestState, Failing, Succeeding, HalfOpen
  <2>3. QED
    BY <1>10, <2>1, <2>2, PlaceKept DEF CountFailure
<1>11. ASSUME NEW r \in Request, NEW kind \in Kinds, Begin(r, kind)
       PROVE  PlaceInv'
  <2>1. Place([IdleRequest EXCEPT !.kind = kind,
                                  !.pc = IF kind = "batch" THEN "gate" ELSE "call"])
    BY DEF Place, IdleRequest, Failing, Succeeding, HalfOpen
  <2>2. QED
    BY <1>11, <2>1, PlaceKept DEF Begin
<1>12. CASE TimePasses \/ ProviderChanges \/ UNCHANGED circuitVars
  BY <1>12 DEF TimePasses, ProviderChanges, circuitVars, PlaceInv
<1>13. QED
  BY <1>3, <1>4, <1>5, <1>6, <1>7, <1>8, <1>9, <1>10, <1>11, <1>12 DEF CircuitNext, Works

(* The answer of p, a good one, that is about to make it forget.            *)
Recording(q, p) == Chain[q.i] = p /\ q.pc \in {"success", "zero"}

RecordingOfOthers(p, r) == \E s \in Request : s # r /\ Recording(req[s], p)

(* The failures of p that q has seen and not counted yet.                  *)
Owed(q, p) ==
  IF Chain[q.i] # p \/ q.pc \notin Calling THEN 0
  ELSE (IF q.pc = "failed" THEN 1 ELSE 0) + (IF q.vazio THEN 1 ELSE 0)

(* What p has failed since its last good answer is no less than what is    *)
(* owed; and no less than what is counted and owed together, unless its    *)
(* circuit is open or a good answer is about to make it forget.            *)
RowInv ==
  \A p \in Provider :
    /\ AtMost(Cardinality(Owing(p)), Threshold) <= streak[p]
    /\ \/ is_open[p]
       \/ \E s \in Request : Recording(req[s], p)
       \/ AtMost(failure_count[p] + Cardinality(Owing(p)), Threshold) <= streak[p]

(* The same for one request q, others being what the others owe, and free  *)
(* whether the second part is excused without it.                          *)
Row(q, p, others, count, free, row) ==
  /\ AtMost(others + Owed(q, p), Threshold) <= row
  /\ ~free /\ ~Recording(q, p) => AtMost(count + (others + Owed(q, p)), Threshold) <= row

RowAt(r, p) ==
  Row(req[r], p, Cardinality(OwingOfOthers(p, r)), failure_count[p],
      is_open[p] \/ RecordingOfOthers(p, r), streak[p])

(* A request owes at most the answer it got and the empty ones before it.  *)
LEMMA OwedBounds ==
  ASSUME NEW q, NEW p
  PROVE  Owed(q, p) \in 0..2
  BY DEF Owed

(* What all requests owe p is what r owes and what the others do.          *)
LEMMA OwingCount ==
  ASSUME NEW r \in Request, NEW p
  PROVE  /\ Cardinality(OwingOfOthers(p, r)) \in Nat
         /\ Cardinality(Owing(p)) = Cardinality(OwingOfOthers(p, r)) + Owed(req[r], p)
<1> DEFINE others == OwingOfOthers(p, r)
           answer == <<r, "answer">>
           empty == <<r, "empty">>
           q == req[r]
<1>1. /\ IsFiniteSet(others) /\ Cardinality(others) \in Nat
      /\ answer \notin others /\ empty \notin others /\ answer # empty
  BY OwingFinite DEF OwingOfOthers
<1>2. answer \in Owing(p) <=> Chain[q.i] = p /\ q.pc = "failed"
  BY DEF Owing, Owes, At
<1>3. empty \in Owing(p) <=> Chain[q.i] = p /\ q.vazio /\ q.pc \in Calling
  BY DEF Owing, Owes, At, Calling, Failing
<1>4. Owing(p) = others \cup {o \in {answer, empty} : o \in Owing(p)}
  BY DEF Owing, OwingOfOthers
<1>5. /\ IsFiniteSet(others \cup {answer}) /\ IsFiniteSet(others \cup {empty})
      /\ Cardinality(others \cup {answer}) = Cardinality(others) + 1
      /\ Cardinality(others \cup {empty}) = Cardinality(others) + 1
  BY <1>1, FS_AddElement
<1>6. Cardinality((others \cup {answer}) \cup {empty}) = Cardinality(others) + 2
  <2>1. Cardinality((others \cup {answer}) \cup {empty}) = Cardinality(others \cup {answer}) + 1
    BY <1>1, <1>5, FS_AddElement
  <2>2. QED
    BY <2>1, <1>1, <1>5
<1>7. /\ Owed(q, p) = 2 <=> answer \in Owing(p) /\ empty \in Owing(p)
      /\ Owed(q, p) = 0 <=> answer \notin Owing(p) /\ empty \notin Owing(p)
      /\ Owed(q, p) \in 0..2
  BY <1>2, <1>3, OwedBounds DEF Owed, Calling, Failing
<1> HIDE DEF others, answer, empty, q
<1>8. CASE answer \in Owing(p) /\ empty \in Owing(p)
  <2>1. Owing(p) = (others \cup {answer}) \cup {empty}
    BY <1>4, <1>8
  <2>2. QED
    BY <2>1, <1>1, <1>6, <1>7, <1>8 DEF others, q
<1>9. CASE answer \in Owing(p) /\ empty \notin Owing(p)
  <2>1. Owing(p) = others \cup {answer}
    BY <1>4, <1>9
  <2>2. Owed(q, p) = 1
    BY <1>7, <1>9
  <2>3. QED
    BY <2>1, <2>2, <1>1, <1>5 DEF others, q
<1>10. CASE answer \notin Owing(p) /\ empty \in Owing(p)
  <2>1. Owing(p) = others \cup {empty}
    BY <1>4, <1>10
  <2>2. Owed(q, p) = 1
    BY <1>7, <1>10
  <2>3. QED
    BY <2>1, <2>2, <1>1, <1>5 DEF others, q
<1>11. CASE answer \notin Owing(p) /\ empty \notin Owing(p)
  <2>1. Owing(p) = others
    BY <1>4, <1>11
  <2>2. QED
    BY <2>1, <1>1, <1>7, <1>11 DEF others, q
<1>12. QED
  BY <1>8, <1>9, <1>10, <1>11

(* So RowInv may be read at any request,                                   *)
LEMMA RowIsAt ==
  RowInv => \A r \in Request, p \in Provider : RowAt(r, p)
<1> SUFFICES ASSUME RowInv, NEW r \in Request, NEW p \in Provider
             PROVE  RowAt(r, p)
  OBVIOUS
<1>1. /\ Cardinality(OwingOfOthers(p, r)) \in Nat
      /\ Cardinality(Owing(p)) = Cardinality(OwingOfOthers(p, r)) + Owed(req[r], p)
  BY OwingCount
<1>2. (\E s \in Request : Recording(req[s], p)) =>
        RecordingOfOthers(p, r) \/ Recording(req[r], p)
  BY DEF RecordingOfOthers
<1> DEFINE others == Cardinality(OwingOfOthers(p, r))
           owing == Cardinality(Owing(p))
<1>3. /\ AtMost(owing, Threshold) <= streak[p]
      /\ \/ is_open[p]
         \/ \E s \in Request : Recording(req[s], p)
         \/ AtMost(failure_count[p] + owing, Threshold) <= streak[p]
  BY DEF RowInv
<1>4. owing = others + Owed(req[r], p)
  BY <1>1
<1> HIDE DEF others, owing
<1>5. Row(req[r], p, others, failure_count[p], is_open[p] \/ RecordingOfOthers(p, r), streak[p])
  BY <1>2, <1>3, <1>4 DEF Row
<1>6. QED
  BY <1>5 DEF RowAt, others

(* and shown at one.                                                       *)
LEMMA RowFromAt ==
  ASSUME NEW r \in Request
  PROVE  (\A p \in Provider : RowAt(r, p)) => RowInv
<1> SUFFICES ASSUME \A p \in Provider : RowAt(r, p), NEW p \in Provider
             PROVE  /\ AtMost(Cardinality(Owing(p)), Threshold) <= streak[p]
                    /\ \/ is_open[p]
                       \/ \E s \in Request : Recording(req[s], p)
                       \/ AtMost(failure_count[p] + Cardinality(Owing(p)), Threshold) <= streak[p]
  BY DEF RowInv
<1>1. /\ Cardinality(OwingOfOthers(p, r)) \in Nat
      /\ Cardinality(Owing(p)) = Cardinality(OwingOfOthers(p, r)) + Owed(req[r], p)
  BY OwingCount
<1>2. RecordingOfOthers(p, r) \/ Recording(req[r], p) =>
        \E s \in Request : Recording(req[s], p)
  BY DEF RecordingOfOthers
<1> DEFINE others == Cardinality(OwingOfOthers(p, r))
           owing == Cardinality(Owing(p))
<1>3. Row(req[r], p, others, failure_count[p], is_open[p] \/ RecordingOfOthers(p, r), streak[p])
  BY DEF RowAt
<1>4. owing = others + Owed(req[r], p)
  BY <1>1
<1> HIDE DEF others, owing
<1>5. /\ AtMost(owing, Threshold) <= streak[p]
      /\ \/ is_open[p]
         \/ \E s \in Request : Recording(req[s], p)
         \/ AtMost(failure_count[p] + owing, Threshold) <= streak[p]
  BY <1>2, <1>3, <1>4 DEF Row
<1>6. QED
  BY <1>5 DEF owing

(* What is enough to owe no more than before.                              *)
LEMMA NothingOwed ==
  ASSUME NEW q, NEW w, NEW p, Owed(w, p) = 0 \/ Owed(w, p) = Owed(q, p)
  PROVE  Owed(w, p) <= Owed(q, p)
<1>1. Owed(q, p) \in 0..2
  BY OwedBounds
<1> HIDE DEF Owed
<1>2. QED
  BY <1>1

(* A step that neither counts nor sees a failure,                          *)
LEMMA RowRelaxed ==
  ASSUME NEW q, NEW w, NEW p, NEW others \in Nat, NEW count \in 0..Threshold,
         NEW row \in 0..Threshold, NEW free, NEW after,
         Row(q, p, others, count, free, row), Owed(w, p) <= Owed(q, p),
         free \/ Recording(q, p) => after \/ Recording(w, p)
  PROVE  Row(w, p, others, count, after, row)
  BY OwedBounds, CircuitBounds DEF Row, AtMost

(* one that sees a failed answer,                                          *)
LEMMA RowFailed ==
  ASSUME NEW q, NEW w, NEW p, NEW others \in Nat, NEW count \in 0..Threshold,
         NEW row \in 0..Threshold, NEW free,
         Row(q, p, others, count, free, row), Owed(w, p) <= Owed(q, p) + 1,
         ~Recording(q, p)
  PROVE  Row(w, p, others, count, free, AtMost(row + 1, Threshold))
  BY OwedBounds, CircuitBounds DEF Row, AtMost

(* one that counts it,                                                     *)
LEMMA RowCounted ==
  ASSUME NEW q, NEW w, NEW p, NEW others \in Nat, NEW count \in 0..Threshold,
         NEW row \in 0..Threshold, NEW free,
         Row(q, p, others, count, free, row), Owed(w, p) + 1 <= Owed(q, p),
         ~Recording(q, p)
  PROVE  Row(w, p, others, AtMost(count + 1, Threshold), free, row)
  BY OwedBounds, CircuitBounds DEF Row, AtMost

(* and one that forgets them all.                                          *)
LEMMA RowForgotten ==
  ASSUME NEW q, NEW w, NEW p, NEW others \in Nat, NEW count, NEW row \in 0..Threshold,
         NEW free, NEW after,
         Row(q, p, others, count, free, row), Owed(w, p) <= Owed(q, p)
  PROVE  Row(w, p, others, 0, after, row)
  BY OwedBounds, CircuitBounds DEF Row, AtMost

(* A step of r leaves the others as they are: what is left to show of it,  *)
(* w being what becomes of r.                                              *)
LEMMA RowMade ==
  ASSUME CircuitTypeOK, RowInv, NEW r \in Request, NEW w, req' = [req EXCEPT ![r] = w],
         \A p \in Provider :
           RowAt(r, p) =>
             Row(w, p, Cardinality(OwingOfOthers(p, r)), failure_count'[p],
                 is_open'[p] \/ RecordingOfOthers(p, r), streak'[p])
  PROVE  RowInv'
<1>1. \A s \in Request : req'[s] = IF s = r THEN w ELSE req[s]
  BY CircuitTypes
<1>2. ASSUME NEW p \in Provider
      PROVE  RowAt(r, p)'
  <2>1. OwingOfOthers(p, r)' = OwingOfOthers(p, r)
    BY <1>1 DEF OwingOfOthers, Owing, Owes, At
  <2>2. RecordingOfOthers(p, r)' <=> RecordingOfOthers(p, r)
    BY <1>1 DEF RecordingOfOthers, Recording
  <2>3. RowAt(r, p)
    BY RowIsAt
  <2>4. Row(w, p, Cardinality(OwingOfOthers(p, r)), failure_count'[p],
            is_open'[p] \/ RecordingOfOthers(p, r), streak'[p])
    BY <2>3
  <2>5. req'[r] = w
    BY <1>1
  <2>6. QED
    BY <2>1, <2>2, <2>4, <2>5 DEF RowAt, Row, Recording, Owed
<1>3. ((\A p \in Provider : RowAt(r, p)) => RowInv)'
  BY RowFromAt, PTL
<1>4. QED
  BY <1>2, <1>3

(* A step that touches no breaker, by a request with nothing new to owe.   *)
LEMMA RowKept ==
  ASSUME CircuitTypeOK, RowInv, NEW r \in Request, NEW w,
         req' = [req EXCEPT ![r] = w],
         UNCHANGED <<failure_count, is_open, streak>>,
         \A p \in Provider :
           /\ Owed(w, p) <= Owed(req[r], p)
           /\ ~is_open[p] /\ Recording(req[r], p) => Recording(w, p)
  PROVE  RowInv'
<1>1. ASSUME NEW p \in Provider, RowAt(r, p)
      PROVE  Row(w, p, Cardinality(OwingOfOthers(p, r)), failure_count'[p],
                 is_open'[p] \/ RecordingOfOthers(p, r), streak'[p])
  <2>1. /\ failure_count[p] \in 0..Threshold /\ streak[p] \in 0..Threshold
        /\ Cardinality(OwingOfOthers(p, r)) \in Nat
    BY CircuitTypes, OwingCount
  <2>2. (is_open[p] \/ RecordingOfOthers(p, r)) \/ Recording(req[r], p) =>
          (is_open[p] \/ RecordingOfOthers(p, r)) \/ Recording(w, p)
    OBVIOUS
  <2>3. Row(req[r], p, Cardinality(OwingOfOthers(p, r)), failure_count[p],
            is_open[p] \/ RecordingOfOthers(p, r), streak[p])
    BY <1>1 DEF RowAt
  <2>4. QED
    BY <2>1, <2>2, <2>3, RowRelaxed
<1>2. QED
  BY <1>1, RowMade

(* The request that goes to the next provider owes nothing,                *)
LEMMA NextOwes ==
  ASSUME NEW q \in RequestState, NEW p
  PROVE  Owed(NextProvider(q), p) = 0
<1> DEFINE w == NextProvider(q)
<1>1. w.pc \in {"idle", "gate"}
  BY DEF NextProvider, IdleRequest, RequestState
<1> HIDE DEF w
<1>2. w.pc \notin Calling => Owed(w, p) = 0
  BY DEF Owed
<1>3. QED
  BY <1>1, <1>2 DEF w, Calling, Failing

(* and the one that goes on from here nothing more.                        *)
LEMMA ProceedOwes ==
  ASSUME NEW q \in RequestState, Place(q), NEW p, q.pc \in {"failed_success", "stamp"}
  PROVE  Owed(Proceed(q), p) <= Owed(q, p)
<1>1. Owed(IdleRequest, p) = 0
  BY DEF Owed, IdleRequest, Calling, Failing
<1>2. Owed([q EXCEPT !.pc = "call"], p) = Owed(q, p)
  BY DEF Owed, Calling, Failing, RequestState
<1>3. q.vazio => Owed([q EXCEPT !.pc = "failed", !.vazio = FALSE], p) = Owed(q, p)
  BY DEF Owed, Calling, Failing, RequestState
<1>4. Owed(Proceed(q), p) = 0 \/ Owed(Proceed(q), p) = Owed(q, p)
  BY <1>1, <1>2, <1>3, Proceeds, NextOwes
<1>5. QED
  BY <1>4, NothingOwed

LEMMA ProceedGoesOn ==
  ASSUME NEW q \in RequestState
  PROVE  Proceed(q).pc \in {"idle", "call", "failed", "gate"}
<1>1. NextProvider(q).pc \in {"idle", "gate"} /\ IdleRequest.pc = "idle"
  BY DEF NextProvider, IdleRequest, RequestState
<1>2. QED
  BY <1>1, Proceeds DEF RequestState

(* A request moves by its own steps, and comes to have counted a failure   *)
(* by counting it.                                                         *)
LEMMA OnlyCountCounts ==
  ASSUME CircuitTypeOK, [CircuitNext]_circuitVars, NEW r \in Request,
         req'[r].pc = "failed_success", ~CountFailure(r)
  PROVE  \/ UNCHANGED <<req, failure_count>>
         \/ req'[r] = req[r] /\ \E s \in Request : s # r
<1>1. \A s \in Request : req[s] \in RequestState
  BY AtIsProvider
<1>2. ASSUME NEW s \in Request, Works(s) \/ Cancel(s) \/ \E kind \in Kinds : Begin(s, kind),
             s # r
      PROVE  req'[r] = req[r]
  BY <1>2, CircuitTypes
     DEF Works, Cancel, Begin, Gate, GateAge, Served, Rejected, Empty, Refused, CountFailure,
         ForgetSuccesses, Open, Stamp, ReadOpen, ReadAge, CountSuccess, Close, ZeroFailures,
         ZeroSuccesses, Goto
<1>3. ASSUME Gate(r) \/ ReadOpen(r) \/ ReadAge(r) \/ Open(r) \/ Close(r) \/ ZeroFailures(r)
      PROVE  FALSE
  BY <1>1, <1>3, CircuitTypes DEF Gate, ReadOpen, ReadAge, Open, Close, ZeroFailures, Goto,
                                  RequestState
<1>4. ASSUME ForgetSuccesses(r) \/ Stamp(r) \/ CountSuccess(r) \/ ZeroSuccesses(r)
      PROVE  FALSE
  <2>1. /\ Proceed(req[r]).pc # "failed_success"
        /\ [req[r] EXCEPT !.pc = "open"].pc # "failed_success"
        /\ [req[r] EXCEPT !.pc = "close"].pc # "failed_success"
    BY <1>1, ProceedGoesOn DEF RequestState
  <2>2. QED
    BY <1>4, <2>1, CircuitTypes DEF ForgetSuccesses, Stamp, CountSuccess, ZeroSuccesses
<1>5. ASSUME GateAge(r) \/ Rejected(r) \/ Cancel(r) \/ Served(r)
             \/ \E kind \in Kinds : Begin(r, kind)
      PROVE  FALSE
  <2>1. NextProvider(req[r]).pc \in {"idle", "gate"} /\ IdleRequest.pc = "idle"
    BY <1>1 DEF NextProvider, IdleRequest, RequestState
  <2>2. /\ [req[r] EXCEPT !.pc = "call"].pc = "call"
        /\ [req[r] EXCEPT !.pc = "success", !.then = "done"].pc = "success"
        /\ \A kind : [IdleRequest EXCEPT !.kind = kind,
                                         !.pc = IF kind = "batch" THEN "gate" ELSE "call"].pc
                      \in {"gate", "call"}
    BY <1>1 DEF IdleRequest, RequestState
  <2>3. CASE GateAge(r)
    BY <2>1, <2>2, <2>3, CircuitTypes DEF GateAge
  <2>4. CASE Rejected(r) \/ Cancel(r)
    BY <2>1, <2>4, CircuitTypes DEF Rejected, Cancel
  <2>5. CASE Served(r)
    BY <2>1, <2>2, <2>5, CircuitTypes DEF Served
  <2>6. ASSUME NEW kind \in Kinds, Begin(r, kind) PROVE FALSE
    <3> DEFINE w == [IdleRequest EXCEPT !.kind = kind,
                                        !.pc = IF kind = "batch" THEN "gate" ELSE "call"]
    <3>1. req' = [req EXCEPT ![r] = w] /\ w.pc \in {"gate", "call"}
      BY <2>2, <2>6 DEF Begin
    <3> HIDE DEF w
    <3>2. QED
      BY <3>1, CircuitTypes
  <2>7. QED
    BY <1>5, <2>3, <2>4, <2>5, <2>6
<1>6. ASSUME Empty(r) \/ \E b \in BOOLEAN : Refused(r, b)
      PROVE  FALSE
  <2>1. PICK w \in {[req[r] EXCEPT !.pc = "failed", !.then = "leave"],
                   [req[r] EXCEPT !.pc = "failed", !.vazio = FALSE, !.then = "leave"],
                   [req[r] EXCEPT !.vazio = TRUE, !.vazias = 1, !.attempt = @ + 1],
                   [req[r] EXCEPT !.pc = "failed", !.attempt = @ + 1, !.then = "retry"]} :
          req' = [req EXCEPT ![r] = w]
    BY <1>6 DEF Empty, Refused
  <2>2. req[r].pc = "call"
    BY <1>6 DEF Empty, Refused
  <2>3. w.pc \in {"failed", "call"}
    BY <1>1, <2>1, <2>2 DEF RequestState
  <2>4. QED
    BY <2>1, <2>3, CircuitTypes
<1>7. CASE \E s \in Request : Works(s) \/ Cancel(s) \/ \E kind \in Kinds : Begin(s, kind)
  BY <1>2, <1>3, <1>4, <1>5, <1>6, <1>7 DEF Works
<1>8. CASE TimePasses \/ ProviderChanges \/ UNCHANGED circuitVars
  BY <1>8 DEF TimePasses, ProviderChanges, circuitVars, breaker
<1>9. QED
  BY <1>7, <1>8 DEF CircuitNext

(* No step lets a breaker count more than what came in a row, however many *)
(* requests there are: a failure is owed as soon as it is seen, and a good *)
(* answer that ends the row leaves in it what the others still owe.        *)
LEMMA RowStep == CircuitTypeOK /\ PlaceInv /\ RowInv /\ [CircuitNext]_circuitVars => RowInv'
<1> SUFFICES ASSUME CircuitTypeOK, PlaceInv, RowInv, [CircuitNext]_circuitVars
             PROVE  RowInv'
  OBVIOUS
<1>1. \A r \in Request : req[r] \in RequestState /\ Place(req[r]) /\ At(r) \in Provider
  BY AtIsProvider DEF PlaceInv
<1>2. \A p : Owed(IdleRequest, p) = 0
  BY DEF Owed, IdleRequest, Calling, Failing
<1>3. \A p \in Provider : /\ failure_count[p] \in 0..Threshold /\ streak[p] \in 0..Threshold
                          /\ is_open[p] \in BOOLEAN
  BY CircuitTypes
<1>4. \A r \in Request, p \in Provider : Cardinality(OwingOfOthers(p, r)) \in Nat
  BY OwingCount
<1>5. ASSUME NEW r \in Request, NEW w, req' = [req EXCEPT ![r] = w],
             UNCHANGED <<failure_count, is_open, streak>>,
             \A p : Owed(w, p) = 0,
             \A p \in Provider : ~is_open[p] /\ Recording(req[r], p) => Recording(w, p)
      PROVE  RowInv'
  BY <1>5, NothingOwed, RowKept
<1>6. ASSUME NEW r \in Request, Gate(r)
      PROVE  RowInv'
  <2>1. PICK pc \in {"gate_age", "call"} : req' = [req EXCEPT ![r] = [req[r] EXCEPT !.pc = pc]]
    BY <1>6 DEF Gate, Goto
  <2> DEFINE w == [req[r] EXCEPT !.pc = pc]
  <2>2. req[r].pc = "gate" /\ ~req[r].vazio /\ w.pc = pc /\ ~w.vazio
    BY <1>1, <1>6 DEF Gate, Place, RequestState
  <2> HIDE DEF w
  <2>3. \A p : Owed(w, p) = 0 /\ ~Recording(req[r], p)
    BY <2>2 DEF Owed, Recording, Calling, Failing
  <2>4. UNCHANGED <<failure_count, is_open, streak>>
    BY <1>6 DEF Gate, breaker, observed
  <2>5. req' = [req EXCEPT ![r] = w]
    BY <2>1 DEF w
  <2>6. QED
    BY <2>3, <2>4, <2>5, <1>5
<1>7. ASSUME NEW r \in Request, GateAge(r)
      PROVE  RowInv'
  <2>1. PICK w \in {[req[r] EXCEPT !.pc = "call"], NextProvider(req[r])} :
          req' = [req EXCEPT ![r] = w]
    BY <1>7 DEF GateAge
  <2>2. req[r].pc = "gate_age" /\ ~req[r].vazio
    BY <1>1, <1>7 DEF GateAge, Place
  <2>3. \A p : Owed([req[r] EXCEPT !.pc = "call"], p) = 0
    BY <1>1, <2>2 DEF Owed, RequestState, Calling, Failing
  <2>4. \A p : Owed(NextProvider(req[r]), p) = 0
    BY <1>1, NextOwes
  <2>5. \A p : Owed(w, p) = 0 /\ ~Recording(req[r], p)
    BY <2>1, <2>2, <2>3, <2>4 DEF Recording
  <2>6. UNCHANGED <<failure_count, is_open, streak>>
    BY <1>7 DEF GateAge, breaker, observed
  <2>7. QED
    BY <2>1, <2>5, <2>6, <1>5
<1>8. ASSUME NEW r \in Request, Rejected(r) \/ Cancel(r)
      PROVE  RowInv'
  <2>1. /\ req' = [req EXCEPT ![r] = IdleRequest]
        /\ UNCHANGED <<failure_count, is_open, streak>>
        /\ req[r].pc \in {"call", "gate_age", "success_age", "stamp"}
    BY <1>8 DEF Rejected, Cancel, breaker, observed
  <2>2. \A p : ~Recording(req[r], p)
    BY <2>1 DEF Recording
  <2>3. QED
    BY <2>1, <2>2, <1>2, <1>5
<1>9. ASSUME NEW r \in Request, Stamp(r) \/ ForgetSuccesses(r)
      PROVE  RowInv'
  <2>1. /\ req[r].pc \in {"stamp", "failed_success"}
        /\ UNCHANGED <<failure_count, is_open, streak>>
    BY <1>9 DEF Stamp, ForgetSuccesses, observed
  <2>2. \A p : ~Recording(req[r], p)
    BY <2>1 DEF Recording
  <2>3. CASE req' = [req EXCEPT ![r] = Proceed(req[r])]
    <3>1. \A p : Owed(Proceed(req[r]), p) <= Owed(req[r], p)
      BY <1>1, <2>1, ProceedOwes
    <3>2. QED
      BY <2>1, <2>2, <2>3, <3>1, RowKept
  <2>4. CASE req' = [req EXCEPT ![r] = [req[r] EXCEPT !.pc = "open"]] /\ ForgetSuccesses(r)
    <3>1. req[r].pc = "failed_success"
      BY <2>4 DEF ForgetSuccesses
    <3>2. \A p : Owed([req[r] EXCEPT !.pc = "open"], p) = Owed(req[r], p)
      BY <1>1, <3>1 DEF Owed, Calling, Failing, RequestState
    <3>3. \A p : Owed([req[r] EXCEPT !.pc = "open"], p) <= Owed(req[r], p)
      BY <3>2, NothingOwed
    <3>4. QED
      BY <2>1, <2>2, <2>4, <3>3, RowKept
  <2>5. QED
    BY <1>9, <2>3, <2>4 DEF Stamp, ForgetSuccesses
<1>10. ASSUME NEW r \in Request, CountSuccess(r) \/ ZeroSuccesses(r)
       PROVE  RowInv'
  <2>1. /\ UNCHANGED <<failure_count, is_open, streak>>
        /\ req[r].pc \in {"success_count", "zero_success"}
        /\ \/ req' = [req EXCEPT ![r] = [req[r] EXCEPT !.pc = "close"]]
           \/ req' = [req EXCEPT ![r] = Proceed(req[r])]
    BY <1>10 DEF CountSuccess, ZeroSuccesses, observed
  <2>2. \A p : ~Recording(req[r], p)
    BY <2>1 DEF Recording
  <2>3. Proceed(req[r]) = IdleRequest
    BY <1>1, <2>1, Proceeds DEF Place, Succeeding, HalfOpen
  <2>4. \A p : Owed([req[r] EXCEPT !.pc = "close"], p) = 0
    BY <1>1 DEF Owed, Calling, Failing, RequestState
  <2>5. QED
    BY <2>1, <2>2, <2>3, <2>4, <1>2, <1>5
<1>11. ASSUME NEW r \in Request, ReadOpen(r) \/ ReadAge(r)
       PROVE  RowInv'
  <2>1. PICK pc \in {"success_age", "success_count", "zero"} :
          /\ req' = [req EXCEPT ![r] = [req[r] EXCEPT !.pc = pc]]
          /\ req[r].pc = "success" => pc = "zero" \/ is_open[At(r)]
          /\ req[r].pc \in {"success", "success_age"}
          /\ UNCHANGED <<failure_count, is_open, streak>>
    BY <1>11 DEF ReadOpen, ReadAge, Goto, breaker, observed
  <2> DEFINE w == [req[r] EXCEPT !.pc = pc]
  <2>2. w.pc = pc /\ w.i = req[r].i
    BY <1>1 DEF RequestState
  <2>3. req' = [req EXCEPT ![r] = w]
    BY <2>1
  <2> HIDE DEF w
  <2>4. \A p : Owed(w, p) = 0
    BY <2>1, <2>2 DEF Owed, Calling, Failing
  <2>5. \A p \in Provider : ~is_open[p] /\ Recording(req[r], p) => Recording(w, p)
    BY <2>1, <2>2 DEF Recording, At
  <2>6. QED
    BY <2>1, <2>3, <2>4, <2>5, <1>5
<1>12. ASSUME NEW r \in Request, NEW kind \in Kinds, Begin(r, kind)
       PROVE  RowInv'
  <2> DEFINE w == [IdleRequest EXCEPT !.kind = kind,
                                      !.pc = IF kind = "batch" THEN "gate" ELSE "call"]
  <2>1. /\ UNCHANGED <<failure_count, is_open, streak>>
        /\ req[r].pc = "idle"
        /\ req' = [req EXCEPT ![r] = w]
    BY <1>12 DEF Begin, breaker
  <2>2. w.pc \in {"gate", "call"} /\ ~w.vazio
    BY DEF IdleRequest
  <2> HIDE DEF w
  <2>3. \A p : Owed(w, p) = 0 /\ ~Recording(req[r], p)
    BY <2>1, <2>2 DEF Owed, Recording
  <2>4. QED
    BY <2>1, <2>3, <1>5
<1>13. ASSUME NEW r \in Request, Served(r)
       PROVE  RowInv'
  <2>1. /\ UNCHANGED <<failure_count, is_open>>
        /\ req[r].pc = "call"
    BY <1>13 DEF Served, breaker
  <2>2. \A p : ~Recording(req[r], p)
    BY <2>1 DEF Recording
  <2>3. CASE req[r].kind = "batch"
    <3> DEFINE w == [req[r] EXCEPT !.pc = "success", !.then = "done"]
               owed == Cardinality(OwingOfOthers(At(r), r))
    <3>1. /\ req' = [req EXCEPT ![r] = w]
          /\ streak' = [streak EXCEPT ![At(r)] = AtMost(owed, Threshold)]
      BY <1>13, <2>3 DEF Served
    <3>2. w.pc = "success" /\ w.i = req[r].i
      BY <1>1 DEF RequestState
    <3> HIDE DEF w
    <3>3. \A p : Owed(w, p) = 0
      BY <3>2 DEF Owed, Calling, Failing
    <3>4. Recording(w, At(r))
      BY <3>2 DEF Recording, At
    <3>5. ASSUME NEW p \in Provider, RowAt(r, p)
          PROVE  Row(w, p, Cardinality(OwingOfOthers(p, r)), failure_count'[p],
                     is_open'[p] \/ RecordingOfOthers(p, r), streak'[p])
      <4>1. CASE p = At(r)
        <5>1. streak'[p] = AtMost(owed, Threshold) /\ owed \in Nat
          BY <3>1, <4>1, <1>1, <1>4, CircuitTypes
        <5>2. AtMost(owed, Threshold) <= AtMost(owed, Threshold)
          BY <5>1, CircuitBounds DEF AtMost
        <5> HIDE DEF owed
        <5>3. owed + Owed(w, p) = owed
          BY <5>1, <3>3
        <5>4. AtMost(owed + Owed(w, p), Threshold) <= streak'[p]
          BY <5>1, <5>2, <5>3
        <5>5. QED
          BY <5>4, <3>4, <4>1 DEF Row, owed
      <4>2. CASE p # At(r)
        <5>1. streak'[p] = streak[p]
          BY <3>1, <4>2, CircuitTypes
        <5>2. Owed(w, p) <= Owed(req[r], p)
          BY <3>3, NothingOwed
        <5>3. is_open'[p] = is_open[p] /\ failure_count'[p] = failure_count[p]
          BY <2>1
        <5>4. QED
          BY <5>1, <5>2, <5>3, <2>2, <3>5, <1>3, <1>4, RowRelaxed DEF RowAt
      <4>3. QED
        BY <4>1, <4>2
    <3>6. QED
      BY <3>1, <3>5, RowMade
  <2>4. CASE req[r].kind # "batch"
    <3>1. req' = [req EXCEPT ![r] = IdleRequest] /\ UNCHANGED streak
      BY <1>13, <2>4 DEF Served
    <3>2. QED
      BY <2>1, <2>2, <3>1, <1>2, <1>5
  <2>5. QED
    BY <2>3, <2>4
<1>14. ASSUME NEW r \in Request, Empty(r) \/ \E b \in BOOLEAN : Refused(r, b)
       PROVE  RowInv'
  <2>1. /\ UNCHANGED <<failure_count, is_open>>
        /\ req[r].pc = "call"
        /\ streak' = [streak EXCEPT ![At(r)] = AtMost(streak[At(r)] + 1, Threshold)]
    BY <1>1, <1>3, <1>14 DEF Empty, Refused, breaker
  <2>2. \A p : ~Recording(req[r], p)
    BY <2>1 DEF Recording
  <2>3. PICK w : /\ req' = [req EXCEPT ![r] = w]
                 /\ w.i = req[r].i
                 /\ \/ w.pc = "failed" /\ (w.vazio => req[r].vazio)
                    \/ w.pc = "call" 
    <3>1. ASSUME NEW b \in BOOLEAN, Refused(r, b)
          PROVE  \E w : /\ req' = [req EXCEPT ![r] = w]
                        /\ w.i = req[r].i /\ w.pc = "failed" /\ w.vazio = req[r].vazio
      <4>1. CASE b /\ CanRetry(req[r])
        <5> DEFINE w == [req[r] EXCEPT !.pc = "failed", !.attempt = @ + 1, !.then = "retry"]
        <5>1. req' = [req EXCEPT ![r] = w]
          BY <3>1, <4>1 DEF Refused
        <5>2. w.i = req[r].i /\ w.pc = "failed" /\ w.vazio = req[r].vazio
          BY <1>1 DEF RequestState
        <5> HIDE DEF w
        <5>3. QED
          BY <5>1, <5>2
      <4>2. CASE ~(b /\ CanRetry(req[r]))
        <5> DEFINE w == [req[r] EXCEPT !.pc = "failed", !.then = "leave"]
        <5>1. req' = [req EXCEPT ![r] = w]
          BY <3>1, <4>2 DEF Refused
        <5>2. w.i = req[r].i /\ w.pc = "failed" /\ w.vazio = req[r].vazio
          BY <1>1 DEF RequestState
        <5> HIDE DEF w
        <5>3. QED
          BY <5>1, <5>2
      <4>3. QED
        BY <4>1, <4>2
    <3>2. ASSUME Empty(r)
          PROVE  \E w : /\ req' = [req EXCEPT ![r] = w]
                        /\ w.i = req[r].i
                        /\ \/ w.pc = "failed" /\ (w.vazio => req[r].vazio)
                           \/ w.pc = "call"
      <4> DEFINE left == [req[r] EXCEPT !.pc = "failed", !.then = "leave"]
                 once == [req[r] EXCEPT !.pc = "failed", !.vazio = FALSE, !.then = "leave"]
                 again == [req[r] EXCEPT !.vazio = TRUE, !.vazias = 1, !.attempt = @ + 1]
      <4>1. \/ req' = [req EXCEPT ![r] = left]
            \/ req' = [req EXCEPT ![r] = once]
            \/ req' = [req EXCEPT ![r] = again]
        BY <3>2 DEF Empty
      <4>2. /\ left.i = req[r].i /\ left.pc = "failed" /\ left.vazio = req[r].vazio
            /\ once.i = req[r].i /\ once.pc = "failed" /\ ~once.vazio
            /\ again.i = req[r].i /\ again.pc = "call"
        BY <1>1, <2>1 DEF RequestState
      <4> HIDE DEF left, once, again
      <4>3. QED
        BY <4>1, <4>2
    <3>3. QED
      BY <1>14, <3>1, <3>2
  <2>4. \A p : Owed(w, p) <= Owed(req[r], p) + 1
    <3>1. ASSUME NEW p, Chain[req[r].i] = p
          PROVE  Owed(w, p) <= Owed(req[r], p) + 1
      <4>1. /\ Owed(req[r], p) = IF req[r].vazio THEN 1 ELSE 0
            /\ w.pc = "call" => Owed(w, p) = IF w.vazio THEN 1 ELSE 0
            /\ w.pc = "failed" => Owed(w, p) = 1 + IF w.vazio THEN 1 ELSE 0
        BY <2>1, <2>3, <3>1 DEF Owed, Calling, Failing
      <4>2. QED
        BY <4>1, <2>3
    <3>2. ASSUME NEW p, Chain[req[r].i] # p
          PROVE  Owed(w, p) <= Owed(req[r], p) + 1
      BY <2>3, <3>2 DEF Owed
    <3>3. QED
      BY <3>1, <3>2
  <2>5. ASSUME NEW p \in Provider, RowAt(r, p)
        PROVE  Row(w, p, Cardinality(OwingOfOthers(p, r)), failure_count'[p],
                   is_open'[p] \/ RecordingOfOthers(p, r), streak'[p])
    <3>1. failure_count'[p] = failure_count[p] /\ is_open'[p] = is_open[p]
      BY <2>1
    <3>2. CASE p = At(r)
      <4>1. streak'[p] = AtMost(streak[p] + 1, Threshold)
        BY <2>1, <3>2, CircuitTypes
      <4>2. QED
        BY <3>1, <4>1, <2>2, <2>4, <2>5, <1>3, <1>4, RowFailed DEF RowAt
    <3>3. CASE p # At(r)
      <4>1. streak'[p] = streak[p]
        BY <2>1, <3>3, CircuitTypes
      <4>2. Owed(w, p) = 0
        BY <2>3, <3>3 DEF Owed, At
      <4>3. Owed(w, p) <= Owed(req[r], p)
        BY <4>2, NothingOwed
      <4>4. QED
        BY <3>1, <4>1, <4>3, <2>2, <2>5, <1>3, <1>4, RowRelaxed DEF RowAt
    <3>4. QED
      BY <3>2, <3>3
  <2>6. QED
    BY <2>3, <2>5, RowMade
<1>15. ASSUME NEW r \in Request, CountFailure(r)
       PROVE  RowInv'
  <2> DEFINE n == AtMost(failure_count[At(r)] + 1, Threshold)
             w == [req[r] EXCEPT !.pc = "failed_success", !.n = n]
  <2>1. /\ UNCHANGED <<is_open, streak>>
        /\ req[r].pc = "failed"
        /\ failure_count' = [failure_count EXCEPT ![At(r)] = n]
    BY <1>15 DEF CountFailure, observed
  <2>2. req' = [req EXCEPT ![r] = w]
    BY <1>15, CircuitTypes DEF CountFailure
  <2>3. w.pc = "failed_success" /\ w.i = req[r].i /\ w.vazio = req[r].vazio
    BY <1>1 DEF RequestState
  <2> HIDE DEF w
  <2>4. \A p : ~Recording(req[r], p)
    BY <2>1 DEF Recording
  <2>5. Owed(w, At(r)) + 1 <= Owed(req[r], At(r))
    <3>1. /\ Owed(w, At(r)) = IF w.vazio THEN 1 ELSE 0
          /\ Owed(req[r], At(r)) = 1 + IF req[r].vazio THEN 1 ELSE 0
      BY <2>1, <2>3 DEF Owed, At, Calling, Failing
    <3>2. QED
      BY <2>3, <3>1
  <2>6. failure_count'[At(r)] = n
    BY <2>1, <1>1, CircuitTypes
  <2>7. ASSUME NEW p \in Provider, RowAt(r, p)
        PROVE  Row(w, p, Cardinality(OwingOfOthers(p, r)), failure_count'[p],
                   is_open'[p] \/ RecordingOfOthers(p, r), streak'[p])
    <3>1. streak'[p] = streak[p] /\ is_open'[p] = is_open[p]
      BY <2>1
    <3>2. CASE p = At(r)
      <4>1. failure_count'[p] = AtMost(failure_count[p] + 1, Threshold)
        BY <2>6, <3>2
      <4>2. Owed(w, p) + 1 <= Owed(req[r], p)
        BY <2>5, <3>2
      <4>3. QED
        BY <3>1, <4>1, <4>2, <2>4, <2>7, <1>3, <1>4, RowCounted DEF RowAt
    <3>3. CASE p # At(r)
      <4>1. failure_count'[p] = failure_count[p]
        BY <2>1, <3>3, CircuitTypes
      <4>2. Owed(w, p) = 0
        BY <2>3, <3>3 DEF Owed, At
      <4>3. Owed(w, p) <= Owed(req[r], p)
        BY <4>2, NothingOwed
      <4>4. QED
        BY <3>1, <4>1, <4>3, <2>4, <2>7, <1>3, <1>4, RowRelaxed DEF RowAt
    <3>4. QED
      BY <3>2, <3>3
  <2> HIDE DEF n
  <2>8. QED
    BY <2>2, <2>7, RowMade
<1>16. ASSUME NEW r \in Request, Open(r) \/ Close(r)
       PROVE  RowInv'
  <2> DEFINE w == [req[r] EXCEPT !.pc = IF req[r].pc = "open" THEN "stamp" ELSE "zero"]
  <2>1. /\ UNCHANGED <<failure_count, streak>>
        /\ req[r].pc \in {"open", "close"}
        /\ req' = [req EXCEPT ![r] = w]
        /\ is_open' = [is_open EXCEPT ![At(r)] = (req[r].pc = "open")]
    BY <1>16 DEF Open, Close, Goto, observed
  <2>2. w.i = req[r].i /\ w.vazio = req[r].vazio
        /\ w.pc = IF req[r].pc = "open" THEN "stamp" ELSE "zero"
    BY <1>1 DEF RequestState
  <2> HIDE DEF w
  <2>3. \A p : Owed(w, p) <= Owed(req[r], p)
    <3>1. \A p : Owed(w, p) = 0 \/ Owed(w, p) = Owed(req[r], p)
      BY <2>1, <2>2 DEF Owed, Calling, Failing
    <3>2. QED
      BY <3>1, NothingOwed
  <2>4. ASSUME NEW p \in Provider, RowAt(r, p)
        PROVE  Row(w, p, Cardinality(OwingOfOthers(p, r)), failure_count'[p],
                   is_open'[p] \/ RecordingOfOthers(p, r), streak'[p])
    <3>1. streak'[p] = streak[p] /\ failure_count'[p] = failure_count[p]
      BY <2>1
    <3>2. is_open[p] \/ Recording(req[r], p) => is_open'[p] \/ Recording(w, p)
      <4>1. CASE p = At(r)
        <5>1. is_open'[p] = (req[r].pc = "open")
          BY <2>1, <4>1, CircuitTypes
        <5>2. req[r].pc = "close" => Recording(w, p)
          BY <2>2, <4>1 DEF Recording, At
        <5>3. QED
          BY <2>1, <5>1, <5>2
      <4>2. CASE p # At(r)
        <5>1. is_open'[p] = is_open[p]
          BY <2>1, <4>2, CircuitTypes
        <5>2. ~Recording(req[r], p)
          BY <2>1 DEF Recording
        <5>3. QED
          BY <5>1, <5>2
      <4>3. QED
        BY <4>1, <4>2
    <3>3. (is_open[p] \/ RecordingOfOthers(p, r)) \/ Recording(req[r], p) =>
            (is_open'[p] \/ RecordingOfOthers(p, r)) \/ Recording(w, p)
      BY <3>2
    <3>4. Row(req[r], p, Cardinality(OwingOfOthers(p, r)), failure_count[p],
              is_open[p] \/ RecordingOfOthers(p, r), streak[p])
      BY <2>4 DEF RowAt
    <3>5. Owed(w, p) <= Owed(req[r], p) /\ Cardinality(OwingOfOthers(p, r)) \in Nat
      BY <2>3, <1>4
    <3>6. Row(w, p, Cardinality(OwingOfOthers(p, r)), failure_count[p],
              is_open'[p] \/ RecordingOfOthers(p, r), streak[p])
      BY <3>3, <3>4, <3>5, <1>3, RowRelaxed
    <3>7. QED
      BY <3>1, <3>6
  <2>5. QED
    BY <2>1, <2>4, RowMade
<1>17. ASSUME NEW r \in Request, ZeroFailures(r)
       PROVE  RowInv'
  <2> DEFINE w == [req[r] EXCEPT !.pc = "zero_success"]
  <2>1. /\ UNCHANGED <<is_open, streak>>
        /\ failure_count' = [failure_count EXCEPT ![At(r)] = 0]
        /\ req' = [req EXCEPT ![r] = w]
    BY <1>17 DEF ZeroFailures, Goto, observed
  <2>2. w.pc = "zero_success"
    BY <1>1 DEF RequestState
  <2> HIDE DEF w
  <2>3. \A p : Owed(w, p) = 0
    BY <2>2 DEF Owed, Calling, Failing
  <2>4. ASSUME NEW p \in Provider, RowAt(r, p)
        PROVE  Row(w, p, Cardinality(OwingOfOthers(p, r)), failure_count'[p],
                   is_open'[p] \/ RecordingOfOthers(p, r), streak'[p])
    <3>1. streak'[p] = streak[p] /\ is_open'[p] = is_open[p]
      BY <2>1
    <3>2. Owed(w, p) <= Owed(req[r], p)
      BY <2>3, NothingOwed
    <3>3. CASE p = At(r)
      <4>1. failure_count'[p] = 0
        BY <2>1, <3>3, CircuitTypes
      <4>2. QED
        BY <3>1, <3>2, <4>1, <2>4, <1>3, <1>4, RowForgotten DEF RowAt
    <3>4. CASE p # At(r)
      <4>1. failure_count'[p] = failure_count[p]
        BY <2>1, <3>4, CircuitTypes
      <4>2. ~Recording(req[r], p)
        BY <3>4 DEF Recording, At
      <4>3. QED
        BY <3>1, <3>2, <4>1, <4>2, <2>4, <1>3, <1>4, RowRelaxed DEF RowAt
    <3>5. QED
      BY <3>3, <3>4
  <2>5. QED
    BY <2>1, <2>4, RowMade
<1>18. CASE TimePasses \/ ProviderChanges \/ UNCHANGED circuitVars
  <2>1. UNCHANGED <<failure_count, is_open, streak, req>>
    BY <1>18 DEF TimePasses, ProviderChanges, circuitVars, breaker, observed
  <2>2. \A p \in Provider : Owing(p)' = Owing(p)
    BY <2>1 DEF Owing, Owes, At
  <2>3. QED
    BY <2>1, <2>2 DEF RowInv
<1>19. QED
  BY <1>6, <1>7, <1>8, <1>9, <1>10, <1>11, <1>12, <1>13, <1>14, <1>15, <1>16, <1>17, <1>18
     DEF CircuitNext, Works

(* The first state: nothing was seen and nothing is counted.               *)
LEMMA RowInit == CircuitInit => PlaceInv /\ RowInv
<1> SUFFICES ASSUME CircuitInit PROVE PlaceInv /\ RowInv
  OBVIOUS
<1>1. \A r \in Request : req[r] = IdleRequest
  BY DEF CircuitInit
<1>2. Place(IdleRequest) /\ IdleRequest.pc = "idle"
  BY DEF Place, IdleRequest, Failing, Succeeding, HalfOpen
<1>3. PlaceInv
  BY <1>1, <1>2 DEF PlaceInv
<1>4. \A p \in Provider : failure_count[p] = 0 /\ streak[p] = 0
  BY DEF CircuitInit
<1>5. \A p \in Provider : Owing(p) = {}
  BY <1>1 DEF Owing, Owes, IdleRequest
<1>6. Cardinality({}) = 0
  BY FS_EmptySet
<1>7. AtMost(0, Threshold) <= 0 /\ AtMost(0 + 0, Threshold) <= 0
  BY CircuitBounds DEF AtMost
<1>8. RowInv
  BY <1>4, <1>5, <1>6, <1>7 DEF RowInv
<1>9. QED
  BY <1>3, <1>8

(* However many requests there are and whatever they interleave, in batch  *)
(* or streamed and cancelled anywhere, a closed circuit is found to have   *)
(* the threshold's worth of failures only when so many answers failed with *)
(* no good one to a batch between them, late failures included, or a good  *)
(* answer is being recorded at that moment.                                *)
THEOREM OpensOnlyOnConsecutive == CircuitSpec => OpensOnConsecutive
<1>1. ASSUME CircuitTypeOK, RowInv, [CircuitNext]_circuitVars, NEW r \in Request,
             req[r].pc = "failed", Decides(r)', ~is_open[At(r)]
      PROVE  \/ streak[At(r)] >= Threshold
             \/ \E s \in Request : At(s) = At(r) /\ req[s].pc \in {"success", "zero"}
  <2> DEFINE p == At(r)
  <2>1. p \in Provider /\ failure_count[p] \in 0..Threshold /\ streak[p] \in 0..Threshold
    BY <1>1, AtIsProvider, CircuitTypes
  <2>2. CountFailure(r)
    <3>1. req'[r].pc = "failed_success"
      BY <1>1 DEF Decides
    <3>2. ~CountFailure(r) => req'[r] = req[r]
      BY <1>1, <3>1, OnlyCountCounts
    <3>3. QED
      BY <1>1, <3>1, <3>2
  <2>3. AtMost(failure_count[p] + 1, Threshold) = Threshold
    <3>1. req'[r].n = AtMost(failure_count[p] + 1, Threshold)
      BY <1>1, <2>2, AtIsProvider, CircuitTypes DEF CountFailure, RequestState
    <3>2. QED
      BY <1>1, <3>1 DEF Decides
  <2>4. Cardinality(Owing(p)) \in Nat /\ Cardinality(Owing(p)) >= 1
    <3>1. Owed(req[r], p) \in {1, 2}
      BY <1>1 DEF Owed, At, Calling, Failing
    <3>2. /\ Cardinality(OwingOfOthers(p, r)) \in Nat
          /\ Cardinality(Owing(p)) = Cardinality(OwingOfOthers(p, r)) + Owed(req[r], p)
      BY OwingCount
    <3>3. QED
      BY <3>1, <3>2
  <2>5. CASE \E s \in Request : Recording(req[s], p)
    BY <2>5 DEF Recording, At
  <2>6. CASE AtMost(failure_count[p] + Cardinality(Owing(p)), Threshold) <= streak[p]
    <3> DEFINE owing == Cardinality(Owing(p))
    <3>1. owing \in Nat /\ owing >= 1
      BY <2>4
    <3>2. AtMost(failure_count[p] + owing, Threshold) <= streak[p]
      BY <2>6
    <3> HIDE DEF owing, p
    <3>3. streak[p] >= Threshold
      BY <2>1, <2>3, <3>1, <3>2, CircuitBounds DEF AtMost
    <3>4. QED
      BY <3>3 DEF p
  <2>7. QED
    BY <1>1, <2>1, <2>5, <2>6 DEF RowInv
<1>2. CircuitTypeOK /\ RowInv /\ [CircuitNext]_circuitVars =>
        [\A r \in Request :
           req[r].pc = "failed" /\ Decides(r)' /\ ~is_open[At(r)] =>
             \/ streak[At(r)] >= Threshold
             \/ \E s \in Request : At(s) = At(r) /\ req[s].pc \in {"success", "zero"}]_circuitVars
  BY <1>1
<1>3. CircuitSpec => [](CircuitTypeOK /\ PlaceInv /\ RowInv)
  BY CircuitTypeInit, CircuitTypeStep, PlaceStep, RowInit, RowStep, PTL DEF CircuitSpec
<1>4. QED
  BY <1>2, <1>3, PTL DEF CircuitSpec, OpensOnConsecutive

(* No two requests are ever under way at once.                             *)
OneAtATime == \A r, s \in Request : r = s

(* What a request counted is what the breaker still has.                   *)
ReadInv ==
  \A r \in Request : req[r].pc = "failed_success" => req[r].n = failure_count[At(r)]

(* What the steps of the only request leave to show.                       *)
LEMMA OnlyRequest ==
  ASSUME OneAtATime, CircuitTypeOK, NEW r \in Request, NEW w, req' = [req EXCEPT ![r] = w]
  PROVE  \A s \in Request : s = r /\ req'[s] = w
  BY CircuitTypes DEF OneAtATime

LEMMA ReadStep ==
  OneAtATime => (CircuitTypeOK /\ PlaceInv /\ ReadInv /\ [CircuitNext]_circuitVars => ReadInv')
<1> SUFFICES ASSUME OneAtATime, CircuitTypeOK, PlaceInv, ReadInv, [CircuitNext]_circuitVars
             PROVE  ReadInv'
  OBVIOUS
<1>1. CASE \E r \in Request : CountFailure(r)
  <2>1. PICK r \in Request : CountFailure(r)
    BY <1>1
  <2> DEFINE n == AtMost(failure_count[At(r)] + 1, Threshold)
             w == [req[r] EXCEPT !.pc = "failed_success", !.n = n]
  <2>2. failure_count' = [failure_count EXCEPT ![At(r)] = n] /\ req' = [req EXCEPT ![r] = w]
    BY <2>1, CircuitTypes DEF CountFailure
  <2>3. w.n = n /\ w.i = req[r].i
    BY AtIsProvider DEF RequestState
  <2>4. failure_count'[At(r)] = n
    BY <2>2, AtIsProvider, CircuitTypes
  <2> HIDE DEF w
  <2>5. \A s \in Request : s = r /\ req'[s] = w
    BY <2>2, OnlyRequest
  <2>6. QED
    BY <2>3, <2>4, <2>5 DEF ReadInv, At
<1>2. CASE ~\E r \in Request : CountFailure(r)
  <2>1. ASSUME NEW r \in Request, req'[r].pc = "failed_success"
        PROVE  UNCHANGED <<req, failure_count>>
    <3>1. \A s \in Request : s = r
      BY DEF OneAtATime
    <3>2. QED
      BY <2>1, <3>1, <1>2, OnlyCountCounts
  <2>2. QED
    BY <2>1 DEF ReadInv, At
<1>3. QED
  BY <1>1, <1>2

LEMMA ReadInit == CircuitInit => ReadInv
  BY DEF CircuitInit, ReadInv, IdleRequest

(* The failures that a request has counted at the provider it is at.       *)
Counted(q) ==
  LET tries == IF q.i > 1 THEN 0 ELSE IF q.vazio THEN q.attempt - 1 ELSE q.attempt IN
  CASE q.pc = "failed" /\ q.then = "retry" -> tries - 1
    [] q.pc = "failed_success" /\ q.then = "leave" -> tries + 1
    [] OTHER -> tries

(* p, with count failures, had none when q began: it has none until q      *)
(* comes to it, then those of q, which are too few to open it.             *)
Clean(q, p, count) ==
  /\ q.pc # "idle" => \A j \in 1..Len(Chain) : j > q.i /\ Chain[j] = p => count = 0
  /\ Chain[q.i] = p => /\ q.pc \notin {"open", "stamp"}
                       /\ q.pc \in {"gate", "gate_age", "call", "failed", "failed_success"}
                            => count <= Counted(q)

CleanInv == \A r \in Request : \A p \in clean[r] : Clean(req[r], p, failure_count[p])

(* The chain names a provider once, and a request has fewer tries than it  *)
(* takes to open a circuit.                                                *)
FewTries ==
  /\ \A i, j \in 1..Len(Chain) : Chain[i] = Chain[j] => i = j
  /\ MaxRetries + 1 < Threshold

(* It is a number, and no more than all the tries there are.               *)
LEMMA CountedType ==
  ASSUME NEW q \in RequestState
  PROVE  Counted(q) \in Int /\ Counted(q) <= MaxRetries + 1
<1>1. q.attempt \in Int /\ q.attempt <= MaxRetries /\ MaxRetries \in Nat
  BY CircuitBounds DEF RequestState
<1> DEFINE tries == IF q.i > 1 THEN 0 ELSE IF q.vazio THEN q.attempt - 1 ELSE q.attempt
<1>2. tries \in Int /\ tries <= MaxRetries
  BY <1>1
<1>3. \/ Counted(q) = tries - 1
      \/ Counted(q) = tries + 1
      \/ Counted(q) = tries
  BY DEF Counted
<1> HIDE DEF tries
<1>4. QED
  BY <1>1, <1>2, <1>3

(* A request at rest promises nothing.                                     *)
LEMMA CleanIdle ==
  ASSUME NEW p, NEW count
  PROVE  Clean(IdleRequest, p, count)
  BY DEF Clean, IdleRequest

(* A request that stays with its provider,                                 *)
LEMMA CleanStays ==
  ASSUME NEW q \in RequestState, NEW w \in RequestState, NEW p, NEW count \in Nat,
         Clean(q, p, count), q.pc # "idle", w.i = q.i,
         Chain[q.i] = p => w.pc \notin {"open", "stamp"},
         Chain[q.i] = p /\ w.pc \in {"gate", "gate_age", "call", "failed", "failed_success"} =>
           /\ q.pc \in {"gate", "gate_age", "call", "failed", "failed_success"}
           /\ Counted(q) <= Counted(w)
  PROVE  Clean(w, p, count)
<1>1. Counted(q) \in Int /\ Counted(w) \in Int
  BY CountedType
<1>2. QED
  BY <1>1 DEF Clean

(* and one that leaves it for the next.                                    *)
LEMMA CleanNext ==
  ASSUME NEW q \in RequestState, NEW p, NEW count \in Nat, Clean(q, p, count), q.pc # "idle"
  PROVE  Clean(NextProvider(q), p, count)
<1>1. CASE q.i < Len(Chain)
  <2> DEFINE w == [q EXCEPT !.i = @ + 1, !.pc = "gate"]
  <2>1. w.i = q.i + 1 /\ w.pc = "gate" /\ NextProvider(q) = w
    BY <1>1 DEF NextProvider, RequestState
  <2>2. q.i \in 1..Len(Chain)
    BY DEF RequestState
  <2> HIDE DEF w
  <2>3. Counted(w) = 0
    BY <2>1, <2>2 DEF Counted
  <2>4. \A j \in 1..Len(Chain) : j > q.i /\ Chain[j] = p => count = 0
    BY DEF Clean
  <2>5. w.i \in 1..Len(Chain) /\ w.i > q.i
    BY <2>1, <2>2, <1>1, CircuitBounds
  <2>6. Chain[w.i] = p => count <= Counted(w)
    BY <2>3, <2>4, <2>5
  <2>7. \A j \in 1..Len(Chain) : j > w.i /\ Chain[j] = p => count = 0
    BY <2>1, <2>2, <2>4, CircuitBounds
  <2>8. Clean(w, p, count)
    BY <2>1, <2>6, <2>7 DEF Clean
  <2>9. QED
    BY <2>1, <2>8
<1>2. CASE ~(q.i < Len(Chain))
  BY <1>2, CleanIdle DEF NextProvider
<1>3. QED
  BY <1>1, <1>2

(* A request whose outcome is recorded: one that retries keeps its count, and *)
(* one that leaves has counted it.                                         *)
LEMMA CleanProceed ==
  ASSUME NEW q \in RequestState, Place(q), NEW p, NEW count \in Nat, Clean(q, p, count),
         q.pc \in {"failed_success", "stamp", "success_count", "zero_success"}
  PROVE  Clean(Proceed(q), p, count)
<1>1. CASE q.then = "done"
  <2>1. Proceed(q) = IdleRequest
    BY <1>1, Proceeds
  <2>2. Clean(IdleRequest, p, count)
    BY CleanIdle
  <2>3. QED
    BY <2>1, <2>2
<1>2. CASE q.then = "retry"
  <2> DEFINE w == [q EXCEPT !.pc = "call"]
  <2>1. w \in RequestState
    BY MoveState DEF Steps
  <2>2. w.i = q.i /\ w.pc = "call" /\ w.vazio = q.vazio /\ w.attempt = q.attempt
    BY DEF RequestState
  <2>3. Chain[q.i] = p => q.pc = "failed_success"
    BY <1>2 DEF Clean, Place, Succeeding, HalfOpen
  <2> HIDE DEF w
  <2>4. q.pc = "failed_success" => Counted(q) <= Counted(w)
    <3>1. q.pc = "failed_success" => Counted(q) = Counted(w)
      BY <1>2, <2>2 DEF Counted
    <3>2. Counted(w) \in Int
      BY <2>1, CountedType
    <3>3. QED
      BY <3>1, <3>2
  <2>5. Clean(w, p, count)
    BY <2>1, <2>2, <2>3, <2>4, CleanStays
  <2>6. QED
    BY <1>2, <2>5, Proceeds DEF w
<1>3. CASE q.then = "leave" /\ q.vazio
  <2> DEFINE w == [q EXCEPT !.pc = "failed", !.vazio = FALSE]
  <2>1. w \in RequestState
    BY DEF RequestState, Steps
  <2>2. w.i = q.i /\ w.pc = "failed" /\ ~w.vazio /\ w.attempt = q.attempt /\ w.then = "leave"
    BY <1>3 DEF RequestState
  <2>3. Chain[q.i] = p => q.pc = "failed_success"
    BY <1>3 DEF Clean, Place, Succeeding, HalfOpen
  <2>4. ~(q.i > 1) /\ q.attempt \in Nat
    BY <1>3, CircuitBounds DEF Place, RequestState
  <2> HIDE DEF w
  <2>5. q.pc = "failed_success" => Counted(q) <= Counted(w)
    BY <1>3, <2>2, <2>4 DEF Counted
  <2>6. Clean(w, p, count)
    BY <2>1, <2>2, <2>3, <2>5, CleanStays
  <2>7. QED
    BY <1>3, <2>6, Proceeds DEF w
<1>4. CASE q.then = "leave" /\ ~q.vazio
  <2>1. Proceed(q) = NextProvider(q)
    BY <1>4, Proceeds
  <2>2. Clean(NextProvider(q), p, count)
    BY CleanNext
  <2>3. QED
    BY <2>1, <2>2
<1>5. QED
  BY <1>1, <1>2, <1>3, <1>4, Proceeds

(* What is left to show of a step that begins no request.                  *)
LEMMA CleanMade ==
  ASSUME OneAtATime, CircuitTypeOK, CleanInv, NEW r \in Request, NEW w,
         req' = [req EXCEPT ![r] = w], UNCHANGED clean,
         \A p \in clean[r] : Clean(req[r], p, failure_count[p]) => Clean(w, p, failure_count'[p])
  PROVE  CleanInv'
<1>1. \A s \in Request : s = r /\ req'[s] = w
  BY OnlyRequest
<1>2. QED
  BY <1>1 DEF CleanInv

(* The failures a request counts at a clean provider are its own tries.    *)
LEMMA CleanStep ==
  OneAtATime /\ FewTries =>
    (CircuitTypeOK /\ PlaceInv /\ ReadInv /\ CleanInv /\ [CircuitNext]_circuitVars => CleanInv')
<1> SUFFICES ASSUME OneAtATime, FewTries, CircuitTypeOK, PlaceInv, ReadInv, CleanInv,
                    [CircuitNext]_circuitVars
             PROVE  CleanInv'
  OBVIOUS
<1>1. \A r \in Request : req[r] \in RequestState /\ Place(req[r]) /\ At(r) \in Provider
  BY AtIsProvider DEF PlaceInv
<1>2. \A r \in Request : \A p \in clean[r] :
        /\ p \in Provider /\ failure_count[p] \in 0..Threshold /\ failure_count[p] \in Nat
        /\ Clean(req[r], p, failure_count[p])
  BY CircuitTypes, CircuitBounds DEF CleanInv
<1>3. ASSUME NEW r \in Request, Rejected(r) \/ Cancel(r)
      PROVE  CleanInv'
  <2>1. req' = [req EXCEPT ![r] = IdleRequest] /\ UNCHANGED clean
    BY <1>3 DEF Rejected, Cancel, observed
  <2>2. QED
    BY <2>1, CleanIdle, CleanMade
<1>4. ASSUME NEW r \in Request, NEW pc \in Steps \ {"failed_success"}, req[r].pc # "idle",
             req' = [req EXCEPT ![r] = [req[r] EXCEPT !.pc = pc]],
             UNCHANGED <<clean, failure_count>>,
             pc \in {"open", "stamp"} => At(r) \notin clean[r],
             pc \in {"gate", "gate_age", "call", "failed"} =>
               req[r].pc \in {"gate", "gate_age", "call"} /\ pc # "failed"
      PROVE  CleanInv'
  <2> DEFINE w == [req[r] EXCEPT !.pc = pc]
  <2>1. w \in RequestState
    BY <1>1, MoveState
  <2>2. /\ w.i = req[r].i /\ w.pc = pc /\ w.vazio = req[r].vazio
        /\ w.attempt = req[r].attempt /\ w.then = req[r].then
    BY <1>1 DEF RequestState
  <2>3. req' = [req EXCEPT ![r] = w]
    BY <1>4
  <2> HIDE DEF w
  <2>4. pc \in {"gate", "gate_age", "call"} => Counted(req[r]) <= Counted(w)
    <3>1. pc \in {"gate", "gate_age", "call"} => Counted(req[r]) = Counted(w)
      BY <1>4, <2>2 DEF Counted
    <3>2. Counted(w) \in Int
      BY <2>1, CountedType
    <3>3. QED
      BY <3>1, <3>2
  <2>5. ASSUME NEW p \in clean[r]
        PROVE  Clean(w, p, failure_count[p])
    <3>1. Chain[req[r].i] = p => At(r) \in clean[r]
      BY DEF At
    <3>2. req[r] \in RequestState /\ failure_count[p] \in Nat /\ Clean(req[r], p, failure_count[p])
      BY <1>1, <1>2
    <3>3. QED
      BY <1>4, <2>1, <2>2, <2>4, <3>1, <3>2, CleanStays
  <2>6. QED
    BY <1>4, <2>3, <2>5, CleanMade
<1>5. ASSUME NEW r \in Request, Gate(r) \/ ReadOpen(r) \/ ReadAge(r) \/ Close(r)
      PROVE  CleanInv'
  <2>1. PICK pc \in {"gate_age", "call", "success_age", "success_count", "zero"} :
          /\ req' = [req EXCEPT ![r] = [req[r] EXCEPT !.pc = pc]]
          /\ req[r].pc \in {"gate", "success", "success_age", "close"}
          /\ pc \in {"gate_age", "call"} => req[r].pc = "gate"
          /\ UNCHANGED <<clean, failure_count>>
    BY <1>5 DEF Gate, ReadOpen, ReadAge, Close, Goto, breaker, observed
  <2>2. pc \in Steps \ {"failed_success"}
    BY DEF Steps
  <2>3. QED
    BY <2>1, <2>2, <1>4
<1>6. ASSUME NEW r \in Request, Open(r)
      PROVE  CleanInv'
  <2>1. At(r) \notin clean[r]
    BY <1>2, <1>6 DEF Open, Clean, At
  <2>2. "stamp" \in Steps \ {"failed_success"}
    BY DEF Steps
  <2>3. /\ req' = [req EXCEPT ![r] = [req[r] EXCEPT !.pc = "stamp"]]
        /\ req[r].pc = "open" /\ UNCHANGED <<clean, failure_count>>
    BY <1>6 DEF Open, Goto, observed
  <2>4. QED
    BY <2>1, <2>2, <2>3, <1>4
<1>7. ASSUME NEW r \in Request, GateAge(r)
      PROVE  CleanInv'
  <2>1. UNCHANGED <<clean, failure_count>> /\ req[r].pc = "gate_age"
    BY <1>7 DEF GateAge, breaker, observed
  <2>2. CASE req' = [req EXCEPT ![r] = [req[r] EXCEPT !.pc = "call"]]
    <3>1. "call" \in Steps \ {"failed_success"}
      BY DEF Steps
    <3>2. QED
      BY <2>1, <2>2, <3>1, <1>4
  <2>3. CASE req' = [req EXCEPT ![r] = NextProvider(req[r])]
    BY <1>1, <1>2, <2>1, <2>3, CleanNext, CleanMade
  <2>4. QED
    BY <1>7, <2>2, <2>3 DEF GateAge
<1>8. ASSUME NEW r \in Request, Stamp(r) \/ ZeroSuccesses(r) \/ CountSuccess(r)
      PROVE  CleanInv'
  <2>1. /\ UNCHANGED <<clean, failure_count>>
        /\ req[r].pc \in {"stamp", "success_count", "zero_success"}
        /\ \/ req' = [req EXCEPT ![r] = Proceed(req[r])]
           \/ /\ req[r].pc = "success_count"
              /\ req' = [req EXCEPT ![r] = [req[r] EXCEPT !.pc = "close"]]
    BY <1>8 DEF Stamp, ZeroSuccesses, CountSuccess, observed
  <2>2. CASE req' = [req EXCEPT ![r] = Proceed(req[r])]
    BY <1>1, <1>2, <2>1, <2>2, CleanProceed, CleanMade
  <2>3. "close" \in Steps \ {"failed_success"}
    BY DEF Steps
  <2>4. CASE req[r].pc = "success_count"
             /\ req' = [req EXCEPT ![r] = [req[r] EXCEPT !.pc = "close"]]
    BY <2>1, <2>3, <2>4, <1>4
  <2>5. QED
    BY <2>1, <2>2, <2>4
<1>9. ASSUME NEW r \in Request, ForgetSuccesses(r)
      PROVE  CleanInv'
  <2>1. /\ UNCHANGED <<clean, failure_count>>
        /\ req[r].pc = "failed_success" /\ req[r].n = failure_count[At(r)]
    BY <1>9 DEF ForgetSuccesses, ReadInv, observed
  <2>2. CASE req' = [req EXCEPT ![r] = Proceed(req[r])]
    BY <1>1, <1>2, <2>1, <2>2, CleanProceed, CleanMade
  <2>3. CASE req[r].n >= Threshold /\ req' = [req EXCEPT ![r] = [req[r] EXCEPT !.pc = "open"]]
    <3>1. ASSUME At(r) \in clean[r]
          PROVE  FALSE
      <4>1. failure_count[At(r)] <= Counted(req[r])
        BY <1>2, <2>1, <3>1 DEF Clean, At
      <4>2. Counted(req[r]) \in Int /\ Counted(req[r]) <= MaxRetries + 1
        BY <1>1, CountedType
      <4>3. failure_count[At(r)] \in Nat
        BY <1>2, <3>1
      <4>4. QED
        BY <2>1, <2>3, <4>1, <4>2, <4>3, CircuitBounds DEF FewTries
    <3>2. "open" \in Steps \ {"failed_success"}
      BY DEF Steps
    <3>3. QED
      BY <2>1, <2>3, <3>1, <3>2, <1>4
  <2>4. QED
    BY <1>9, <2>2, <2>3 DEF ForgetSuccesses
<1>10. ASSUME NEW r \in Request, Served(r)
       PROVE  CleanInv'
  <2>1. UNCHANGED <<clean, failure_count>> /\ req[r].pc = "call"
    BY <1>10 DEF Served, breaker
  <2>2. CASE req' = [req EXCEPT ![r] = IdleRequest]
    BY <2>1, <2>2, CleanIdle, CleanMade
  <2>3. CASE req' = [req EXCEPT ![r] = [req[r] EXCEPT !.pc = "success", !.then = "done"]]
    <3> DEFINE w == [req[r] EXCEPT !.pc = "success", !.then = "done"]
    <3>1. w \in RequestState
      BY <1>1 DEF RequestState, Steps
    <3>2. w.i = req[r].i /\ w.pc = "success" /\ req' = [req EXCEPT ![r] = w]
      BY <1>1, <2>3 DEF RequestState
    <3> HIDE DEF w
    <3>3. \A p \in clean[r] : Clean(w, p, failure_count[p])
      BY <1>1, <1>2, <2>1, <3>1, <3>2, CleanStays
    <3>4. QED
      BY <2>1, <3>2, <3>3, CleanMade
  <2>4. QED
    BY <1>10, <2>2, <2>3 DEF Served
<1>11. ASSUME NEW r \in Request, NEW w \in RequestState, req' = [req EXCEPT ![r] = w],
              UNCHANGED <<clean, failure_count>>, req[r].pc = "call", w.i = req[r].i,
              w.pc \in {"call", "failed"}, Counted(req[r]) <= Counted(w)
       PROVE  CleanInv'
  <2>1. req[r].pc # "idle" /\ w.pc \notin {"open", "stamp"}
    BY <1>11
  <2>2. \A p \in clean[r] : Clean(w, p, failure_count[p])
    BY <1>1, <1>2, <1>11, <2>1, CleanStays
  <2>3. QED
    BY <1>11, <2>2, CleanMade
<1>12. ASSUME NEW r \in Request, NEW b \in BOOLEAN, Refused(r, b)
       PROVE  CleanInv'
  <2>1. UNCHANGED <<clean, failure_count>> /\ req[r].pc = "call"
    BY <1>12 DEF Refused, breaker
  <2>2. CASE b /\ CanRetry(req[r])
    <3> DEFINE w == [req[r] EXCEPT !.pc = "failed", !.attempt = @ + 1, !.then = "retry"]
    <3>1. w \in RequestState
      <4>1. req[r].attempt + 1 \in 0..MaxRetries
        BY <1>1, <2>2, CircuitBounds DEF CanRetry, RequestState
      <4>2. ASSUME NEW n \in 0..MaxRetries
            PROVE  [req[r] EXCEPT !.pc = "failed", !.attempt = n, !.then = "retry"]
                     \in RequestState
        BY <1>1, <4>2 DEF RequestState, Steps
      <4>3. QED
        BY <4>1, <4>2
    <3>2. /\ w.i = req[r].i /\ w.pc = "failed" /\ w.attempt = req[r].attempt + 1
          /\ w.then = "retry" /\ w.vazio = req[r].vazio
      BY <1>1 DEF RequestState
    <3>3. req' = [req EXCEPT ![r] = w]
      BY <1>12, <2>2 DEF Refused
    <3>4. req[r].i = 1 /\ req[r].attempt \in Int
      BY <1>1, <2>2, CircuitBounds DEF CanRetry, RequestState
    <3> HIDE DEF w
    <3>5. Counted(req[r]) <= Counted(w)
      BY <2>1, <3>2, <3>4 DEF Counted
    <3>6. QED
      BY <1>11, <2>1, <3>1, <3>2, <3>3, <3>5
  <2>3. CASE ~(b /\ CanRetry(req[r]))
    <3> DEFINE w == [req[r] EXCEPT !.pc = "failed", !.then = "leave"]
    <3>1. w \in RequestState
      BY <1>1 DEF RequestState, Steps
    <3>2. /\ w.i = req[r].i /\ w.pc = "failed" /\ w.attempt = req[r].attempt
          /\ w.then = "leave" /\ w.vazio = req[r].vazio
      BY <1>1 DEF RequestState
    <3>3. req' = [req EXCEPT ![r] = w]
      BY <1>12, <2>3 DEF Refused
    <3> HIDE DEF w
    <3>4. Counted(req[r]) <= Counted(w)
      <4>1. Counted(req[r]) = Counted(w)
        BY <2>1, <3>2 DEF Counted
      <4>2. Counted(w) \in Int
        BY <3>1, CountedType
      <4>3. QED
        BY <4>1, <4>2
    <3>5. QED
      BY <1>11, <2>1, <3>1, <3>2, <3>3, <3>4
  <2>4. QED
    BY <2>2, <2>3
<1>13. ASSUME NEW r \in Request, Empty(r)
       PROVE  CleanInv'
  <2> DEFINE left == [req[r] EXCEPT !.pc = "failed", !.then = "leave"]
             once == [req[r] EXCEPT !.pc = "failed", !.vazio = FALSE, !.then = "leave"]
             again == [req[r] EXCEPT !.vazio = TRUE, !.vazias = 1, !.attempt = @ + 1]
  <2>1. UNCHANGED <<clean, failure_count>> /\ req[r].pc = "call"
    BY <1>13 DEF Empty, breaker
  <2>2. \/ req[r].i > 1 /\ req' = [req EXCEPT ![r] = left]
        \/ req[r].vazias = 0 /\ CanRetry(req[r]) /\ req' = [req EXCEPT ![r] = again]
        \/ ~(req[r].i > 1) /\ req' = [req EXCEPT ![r] = once]
    BY <1>13 DEF Empty
  <2>3. req[r].i \in Int /\ req[r].attempt \in Int
    BY <1>1, CircuitBounds DEF RequestState
  <2>4. CASE req[r].i > 1 /\ req' = [req EXCEPT ![r] = left]
    <3>1. left \in RequestState
      BY <1>1 DEF RequestState, Steps
    <3>2. left.i = req[r].i /\ left.pc = "failed" /\ left.then = "leave"
      BY <1>1 DEF RequestState
    <3> HIDE DEF left
    <3>3. Counted(req[r]) <= Counted(left)
      BY <2>1, <2>4, <3>2 DEF Counted
    <3>4. QED
      BY <1>11, <2>1, <2>4, <3>1, <3>2, <3>3
  <2>5. CASE ~(req[r].i > 1) /\ req' = [req EXCEPT ![r] = once]
    <3>1. once \in RequestState
      BY <1>1 DEF RequestState, Steps
    <3>2. /\ once.i = req[r].i /\ once.pc = "failed" /\ once.then = "leave" /\ ~once.vazio
          /\ once.attempt = req[r].attempt
      BY <1>1 DEF RequestState
    <3> HIDE DEF once
    <3>3. Counted(req[r]) <= Counted(once)
      BY <2>1, <2>3, <2>5, <3>2 DEF Counted
    <3>4. QED
      BY <1>11, <2>1, <2>5, <3>1, <3>2, <3>3
  <2>6. CASE req[r].vazias = 0 /\ CanRetry(req[r]) /\ req' = [req EXCEPT ![r] = again]
    <3>1. again \in RequestState
      <4>1. req[r].attempt + 1 \in 0..MaxRetries /\ TRUE \in BOOLEAN /\ 1 \in 0..1
        BY <1>1, <2>6, CircuitBounds DEF CanRetry, RequestState
      <4> DEFINE q == req[r]
      <4>2. q \in RequestState
        BY <1>1
      <4> HIDE DEF q
      <4>3. ASSUME NEW n \in 0..MaxRetries
            PROVE  [q EXCEPT !.vazio = TRUE, !.vazias = 1, !.attempt = n] \in RequestState
        BY <4>1, <4>2, <4>3 DEF RequestState
      <4>4. QED
        BY <4>1, <4>3 DEF q
    <3>2. /\ again.i = req[r].i /\ again.pc = "call" /\ again.vazio
          /\ again.attempt = req[r].attempt + 1
      BY <1>1, <2>1 DEF RequestState
    <3>3. req[r].i = 1 /\ ~req[r].vazio
      BY <1>1, <2>6 DEF CanRetry, Place
    <3> HIDE DEF again
    <3>4. Counted(req[r]) <= Counted(again)
      BY <2>1, <2>3, <3>2, <3>3 DEF Counted
    <3>5. QED
      BY <1>11, <2>1, <2>6, <3>1, <3>2, <3>4
  <2>7. QED
    BY <2>2, <2>4, <2>5, <2>6
<1>14. ASSUME NEW r \in Request, CountFailure(r)
       PROVE  CleanInv'
  <2> DEFINE n == AtMost(failure_count[At(r)] + 1, Threshold)
             w == [req[r] EXCEPT !.pc = "failed_success", !.n = n]
  <2>1. /\ UNCHANGED clean
        /\ req[r].pc = "failed"
        /\ failure_count' = [failure_count EXCEPT ![At(r)] = n]
    BY <1>14 DEF CountFailure, observed
  <2>2. req' = [req EXCEPT ![r] = w]
    BY <1>14, CircuitTypes DEF CountFailure
  <2>3. failure_count[At(r)] \in Nat /\ failure_count'[At(r)] = n
    BY <2>1, <1>1, CircuitTypes, CircuitBounds
  <2>4. n \in 0..Threshold /\ n <= failure_count[At(r)] + 1
    BY <2>3, CircuitBounds DEF AtMost
  <2> HIDE DEF n
  <2>5. w \in RequestState
    BY <1>1, <2>4 DEF RequestState, Steps
  <2>6. /\ w.pc = "failed_success" /\ w.i = req[r].i /\ w.vazio = req[r].vazio
        /\ w.attempt = req[r].attempt /\ w.then = req[r].then
    BY <1>1 DEF RequestState
  <2> HIDE DEF w
  <2>7. req[r].then \in {"retry", "leave"} /\ req[r].i \in 1..Len(Chain)
    BY <1>1, <2>1 DEF Place, Failing, RequestState
  <2>8. Counted(w) = Counted(req[r]) + 1
    <3>1. req[r].attempt \in Int
      BY <1>1, CircuitBounds DEF RequestState
    <3>2. QED
      BY <2>1, <2>6, <2>7, <3>1 DEF Counted
  <2>9. ASSUME NEW p \in clean[r]
        PROVE  Clean(w, p, failure_count'[p])
    <3>1. Clean(req[r], p, failure_count[p]) /\ p \in Provider /\ failure_count[p] \in Nat
      BY <1>2
    <3>2. CASE p = At(r)
      <4>1. failure_count[p] <= Counted(req[r])
        BY <2>1, <3>1, <3>2 DEF Clean, At
      <4>2. failure_count'[p] <= Counted(w)
        <5>1. Counted(req[r]) \in Int
          BY <1>1, CountedType
        <5>2. QED
          BY <2>3, <2>4, <2>8, <3>2, <4>1, <5>1
      <4>3. \A j \in 1..Len(Chain) : ~(j > w.i /\ Chain[j] = p)
        <5>1. \A j \in 1..Len(Chain) : Chain[j] = p => j = req[r].i
          BY <2>7, <3>2 DEF FewTries, At
        <5>2. QED
          BY <2>6, <2>7, <5>1
      <4>4. QED
        BY <2>6, <4>2, <4>3 DEF Clean
    <3>3. CASE p # At(r)
      <4>1. failure_count'[p] = failure_count[p]
        BY <2>1, <3>1, <3>3, CircuitTypes
      <4>2. Chain[req[r].i] # p /\ req[r].pc # "idle"
        BY <2>1, <3>3 DEF At
      <4>3. QED
        BY <1>1, <2>5, <2>6, <3>1, <4>1, <4>2, CleanStays
    <3>4. QED
      BY <3>2, <3>3
  <2>10. QED
    BY <2>1, <2>2, <2>9, CleanMade
<1>15. ASSUME NEW r \in Request, ZeroFailures(r)
       PROVE  CleanInv'
  <2> DEFINE w == [req[r] EXCEPT !.pc = "zero_success"]
  <2>1. /\ UNCHANGED clean
        /\ req[r].pc = "zero"
        /\ failure_count' = [failure_count EXCEPT ![At(r)] = 0]
        /\ req' = [req EXCEPT ![r] = w]
    BY <1>15 DEF ZeroFailures, Goto, observed
  <2>2. w.pc = "zero_success" /\ w.i = req[r].i
    BY <1>1 DEF RequestState
  <2> HIDE DEF w
  <2>3. ASSUME NEW p \in clean[r]
        PROVE  Clean(w, p, failure_count'[p])
    <3>1. Clean(req[r], p, failure_count[p]) /\ p \in Provider
      BY <1>2
    <3>2. failure_count'[p] = 0 \/ failure_count'[p] = failure_count[p]
      BY <2>1, <3>1, CircuitTypes
    <3>3. QED
      BY <2>1, <2>2, <3>1, <3>2 DEF Clean
  <2>4. QED
    BY <2>1, <2>3, CleanMade
<1>16. ASSUME NEW r \in Request, NEW kind \in Kinds, Begin(r, kind)
       PROVE  CleanInv'
  <2> DEFINE w == [IdleRequest EXCEPT !.kind = kind,
                                      !.pc = IF kind = "batch" THEN "gate" ELSE "call"]
  <2>1. /\ UNCHANGED failure_count
        /\ clean' = [clean EXCEPT ![r] = {p \in Provider : failure_count[p] = 0}]
        /\ req' = [req EXCEPT ![r] = w]
    BY <1>16 DEF Begin, breaker
  <2>2. w.pc \in {"gate", "call"} /\ ~w.vazio /\ w.attempt = 0
    BY DEF IdleRequest
  <2> HIDE DEF w
  <2>3. Counted(w) = 0
    BY <2>2 DEF Counted
  <2>4. \A s \in Request : s = r /\ req'[s] = w
    BY <2>1, OnlyRequest
  <2>5. \A p \in clean'[r] : failure_count'[p] = 0
    BY <2>1, CircuitTypes
  <2>6. \A p : Clean(w, p, 0)
    BY <2>2, <2>3 DEF Clean
  <2>7. QED
    BY <2>4, <2>5, <2>6 DEF CleanInv
<1>17. CASE TimePasses \/ ProviderChanges \/ UNCHANGED circuitVars
  <2>1. UNCHANGED <<failure_count, clean, req>>
    BY <1>17 DEF TimePasses, ProviderChanges, circuitVars, breaker, observed
  <2>2. QED
    BY <2>1 DEF CleanInv
<1>18. QED
  BY <1>3, <1>5, <1>6, <1>7, <1>8, <1>9, <1>10, <1>12, <1>13, <1>14, <1>15, <1>16, <1>17
     DEF CircuitNext, Works

(* With one request at a time, a chain that names each provider once, and  *)
(* fewer tries than the threshold (the code's are 3 retries and 5 failures), *)
(* the retries of a request never open a circuit that had nothing counted  *)
(* when it began.                                                          *)
THEOREM OneRequestIsNotEnough ==
  ASSUME OneAtATime, FewTries
  PROVE  CircuitSpec => OneRequestNeverOpens
<1>1. CircuitTypeOK /\ CleanInv /\ [CircuitNext]_circuitVars =>
        [\A p \in Provider, r \in Request :
           ~is_open[p] /\ is_open'[p] /\ req[r].pc = "open" /\ At(r) = p
             => p \notin clean[r]]_circuitVars
  BY DEF CleanInv, Clean, At
<1>2. CircuitInit => CleanInv
  BY DEF CircuitInit, CleanInv
<1>3. CircuitSpec => [](CircuitTypeOK /\ PlaceInv /\ ReadInv /\ CleanInv)
  BY CircuitTypeInit, CircuitTypeStep, PlaceStep, RowInit, ReadInit, ReadStep, CleanStep, <1>2,
     OneAtATime, FewTries, PTL DEF CircuitSpec
<1>4. QED
  BY <1>1, <1>3, PTL DEF CircuitSpec, OneRequestNeverOpens

===============================================================================
