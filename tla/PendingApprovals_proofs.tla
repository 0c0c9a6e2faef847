----------------------- MODULE PendingApprovals_proofs ------------------------
(***************************************************************************)
(* Proofs about PendingApprovals, for every set of conversations, senders, *)
(* requests and turns, every TTL and every capacity.                       *)
(***************************************************************************)
EXTENDS PendingApprovals, FiniteSetTheorems, TLAPS

(* The registry after a message is resolved is the old one or a restriction *)
(* of it, so every entry that is left is an old entry.                     *)
LEMMA ResolveShrinks ==
  ASSUME NEW m
  PROVE  /\ DOMAIN AfterResolve(m) \subseteq DOMAIN pending
         /\ \A k \in DOMAIN AfterResolve(m) : AfterResolve(m)[k] = pending[k]
         /\ pending = [k \in DOMAIN pending |-> pending[k]]
              => AfterResolve(m) = [k \in DOMAIN AfterResolve(m) |-> AfterResolve(m)[k]]
BY DEF AfterResolve, Restrict

(* Type correctness.                                                       *)
THEOREM TypeCorrect == Spec => []TypeOK
<1>1. Init => TypeOK
  BY ApprovalAssumption
  DEF Init, TypeOK, Empty, TurnState
<1>2. TypeOK /\ [Next]_vars => TypeOK'
  <2> SUFFICES ASSUME TypeOK, [Next]_vars PROVE TypeOK'
    OBVIOUS
  <2>1. ASSUME NEW t \in Turn, NEW k \in Conversation, NEW s \in Sender,
               NEW scoped \in BOOLEAN, NEW word \in BOOLEAN,
               Receive(t, k, s, scoped, word)
        PROVE  TypeOK'
    BY <2>1 DEF Receive, TypeOK, TurnState, Received
  <2>2. ASSUME NEW t \in Turn, Resolve(t)
        PROVE  TypeOK'
    <3> DEFINE m == turn[t]
    <3>1. m \in Received
      BY <2>2 DEF Resolve, TypeOK, TurnState, Idle, Received, Running, Paused, Replying
    <3>2. GrantOf(m) \in Request \cup {NoRequest}
      BY <3>1 DEF GrantOf, Meets, TypeOK, Entry
    <3>3. NeverRan \in [Request -> Nat]
      BY DEF NeverRan
    <3>4. turn' \in [Turn -> TurnState]
      BY <2>2, <3>1, <3>2, <3>3 DEF Resolve, TypeOK, TurnState, Received, Running
    <3>5. verdict' \in [1..MaxAsked -> {"open", "closed", "granted"}]
      BY <2>2 DEF Resolve, TypeOK
    <3>6. /\ DOMAIN pending' \subseteq Conversation
          /\ pending' = [k \in DOMAIN pending' |-> pending'[k]]
          /\ \A k \in DOMAIN pending' : pending'[k] \in Entry
      BY <2>2, ResolveShrinks DEF Resolve, TypeOK
    <3>7. QED BY <2>2, <3>4, <3>5, <3>6 DEF Resolve, TypeOK
  <2>3. ASSUME NEW t \in Turn, NEW r \in Request, Execute(t, r)
        PROVE  TypeOK'
    <3>1. turn[t] \in Running
      BY <2>3 DEF Execute, TypeOK, TurnState, Idle, Received, Running, Paused, Replying
    <3>2. [turn[t].runs EXCEPT ![r] = @ + 1] \in [Request -> Nat]
      BY <3>1 DEF Running
    <3>3. [turn[t] EXCEPT !.runs[r] = @ + 1] \in Running
      BY <3>1, <3>2 DEF Running
    <3>4. QED BY <2>3, <3>3 DEF Execute, TypeOK, TurnState
  <2>4. ASSUME NEW t \in Turn, NEW r \in Request, Pause(t, r)
        PROVE  TypeOK'
    <3>1. turn[t] \in Running
      BY <2>4 DEF Pause, TypeOK, TurnState, Idle, Received, Running, Paused, Replying
    <3>2. QED BY <2>4, <3>1 DEF Pause, TypeOK, TurnState, Running, Paused
  <2>5. ASSUME NEW t \in Turn, Register(t)
        PROVE  TypeOK'
    <3>1. turn[t] \in Paused
      BY <2>5 DEF Register, TypeOK, TurnState, Idle, Received, Running, Paused, Replying
    <3>2. turn' \in [Turn -> TurnState]
      BY <2>5, <3>1 DEF Register, TypeOK, TurnState, Paused, Replying
    <3>3. CASE ~turn[t].scoped
      BY <2>5, <3>2, <3>3 DEF Register, TypeOK
    <3>4. CASE turn[t].scoped
      <4>1. NewEntry(turn[t]) \in Entry
        BY <3>1, ApprovalAssumption DEF NewEntry, Entry, Paused, TypeOK
      <4>2. PICK kept \in SUBSET Live :
              pending' = [k \in kept \cup {turn[t].conv} |->
                            IF k = turn[t].conv THEN NewEntry(turn[t]) ELSE pending[k]]
        BY <2>5, <3>4 DEF Register
      <4>3. kept \subseteq DOMAIN pending /\ turn[t].conv \in Conversation
        BY <3>1 DEF Live, Paused
      <4>4. /\ DOMAIN pending' \subseteq Conversation
            /\ pending' = [k \in DOMAIN pending' |-> pending'[k]]
            /\ \A k \in DOMAIN pending' : pending'[k] \in Entry
        BY <4>1, <4>2, <4>3 DEF TypeOK
      <4>5. asked' \in 0..MaxAsked
        BY <2>5, <3>4, ApprovalAssumption DEF Register, TypeOK
      <4>6. QED BY <2>5, <3>2, <4>4, <4>5 DEF Register, TypeOK
    <3>5. QED BY <3>3, <3>4
  <2>6. ASSUME NEW t \in Turn, Deliver(t)
        PROVE  TypeOK'
    <3>1. turn[t] \in Replying
      BY <2>6 DEF Deliver, TypeOK, TurnState, Idle, Received, Running, Paused, Replying
    <3>2. QED BY <2>6, <3>1 DEF Deliver, TypeOK, TurnState, Replying
  <2>7. ASSUME NEW t \in Turn, End(t)
        PROVE  TypeOK'
    BY <2>7 DEF End, TypeOK, TurnState
  <2>8. ASSUME NEW t \in Turn, Poison(t)
        PROVE  TypeOK'
    BY <2>8 DEF Poison, TypeOK, TurnState, Empty
  <2>9. CASE Restart
    BY <2>9 DEF Restart, TypeOK, TurnState, Empty
  <2>10. CASE Tick
    BY <2>10 DEF Tick, TypeOK
  <2>11. CASE UNCHANGED vars
    BY <2>11 DEF vars, TypeOK
  <2>12. QED
    BY <2>1, <2>2, <2>3, <2>4, <2>5, <2>6, <2>7, <2>8, <2>9, <2>10, <2>11 DEF Next
<1>3. QED BY <1>1, <1>2, PTL DEF Spec

-------------------------------------------------------------------------------
(* The capacity bound.  It is inductive once the registry is known to be   *)
(* finite: every entry was put there by one registration.                  *)
BoundInv ==
  /\ IsFiniteSet(DOMAIN pending)
  /\ RegistryBounded

(* The strengthened bound holds in every reachable state.                  *)
LEMMA BoundInvariant == Spec => []BoundInv
<1>1. Init => BoundInv
  BY FS_EmptySet, ApprovalAssumption DEF Init, BoundInv, RegistryBounded, Empty
<1>2. BoundInv /\ [Next]_vars => BoundInv'
  <2> SUFFICES ASSUME BoundInv, [Next]_vars PROVE BoundInv'
    OBVIOUS
  <2>1. ASSUME DOMAIN pending' \subseteq DOMAIN pending
        PROVE  BoundInv'
    <3>1. /\ IsFiniteSet(DOMAIN pending')
          /\ Cardinality(DOMAIN pending') <= Cardinality(DOMAIN pending)
      BY <2>1, FS_Subset DEF BoundInv
    <3>2. /\ Cardinality(DOMAIN pending) \in Nat
          /\ Cardinality(DOMAIN pending') \in Nat
      BY <3>1, FS_CardinalityType DEF BoundInv
    <3>3. QED BY <3>1, <3>2, ApprovalAssumption DEF BoundInv, RegistryBounded
  <2>2. ASSUME NEW t \in Turn, Resolve(t)
        PROVE  BoundInv'
    BY <2>1, <2>2, ResolveShrinks DEF Resolve
  <2>3. ASSUME NEW t \in Turn, Register(t)
        PROVE  BoundInv'
    <3> DEFINE k == turn[t].conv
    <3>1. CASE ~turn[t].scoped
      BY <2>1, <2>3, <3>1 DEF Register
    <3>2. CASE turn[t].scoped
      <4>1. PICK kept \in SUBSET Live :
              /\ Kept(k, kept)
              /\ DOMAIN pending' = kept \cup {k}
        BY <2>3, <3>2 DEF Register
      <4>2. /\ IsFiniteSet(Live)
            /\ Cardinality(Live) <= Cardinality(DOMAIN pending)
        BY FS_Subset DEF BoundInv, Live
      <4>3. Cardinality(Live) \in Nat /\ Cardinality(DOMAIN pending) \in Nat
        BY <4>2, FS_CardinalityType DEF BoundInv
      <4>4. IsFiniteSet(kept)
        BY <4>1, <4>2, FS_Subset
      <4>5. /\ IsFiniteSet(kept \cup {k})
            /\ Cardinality(kept \cup {k})
                 = IF k \in kept THEN Cardinality(kept) ELSE Cardinality(kept) + 1
        BY <4>4, FS_AddElement
      <4>6. CASE k \notin Live /\ Cardinality(Live) >= Capacity
        <5>1. PICK old \in Live : kept = Live \ {old}
          BY <4>1, <4>6 DEF Kept
        <5>2. Cardinality(kept) = Cardinality(Live) - 1
          BY <4>2, <5>1, FS_RemoveElement
        <5>3. QED BY <4>1, <4>2, <4>3, <4>5, <5>2, ApprovalAssumption
                  DEF BoundInv, RegistryBounded
      <4>7. CASE ~(k \notin Live /\ Cardinality(Live) >= Capacity)
        <5>1. kept = Live
          BY <4>1, <4>7 DEF Kept
        <5>2. QED BY <4>1, <4>2, <4>3, <4>5, <4>7, <5>1, ApprovalAssumption
                  DEF BoundInv, RegistryBounded
      <4>8. QED BY <4>6, <4>7
    <3>3. QED BY <3>1, <3>2
  <2>4. ASSUME NEW t \in Turn, Poison(t)
        PROVE  BoundInv'
    BY <2>1, <2>4 DEF Poison, Empty
  <2>5. CASE Restart
    BY <2>1, <2>5 DEF Restart, Empty
  <2>6. CASE UNCHANGED pending
    BY <2>1, <2>6
  <2>7. QED
    BY <2>2, <2>3, <2>4, <2>5, <2>6
    DEF Next, vars, Receive, Execute, Pause, Deliver, End, Tick
<1>3. QED BY <1>1, <1>2, PTL DEF Spec

(* PENDING_APPROVAL_CAPACITY is never exceeded: register() purges, evicts  *)
(* and inserts under one lock.                                             *)
THEOREM Bounded == Spec => []RegistryBounded
<1>1. BoundInv => RegistryBounded
  BY DEF BoundInv
<1>2. QED BY <1>1, BoundInvariant, PTL

(* An eviction takes the oldest live entry, in every step of the runtime.  *)
(* The bound is needed: it excludes a registry full of live entries beside *)
(* an expired one.                                                         *)
THEOREM EvictsOldest == Spec => EvictionTakesTheOldest
<1> DEFINE Fair == asked' = asked + 1 =>
       \A k \in Live \ DOMAIN pending' :
         /\ Cardinality(Live) >= Capacity
         /\ \A other \in DOMAIN pending \cap DOMAIN pending' :
              pending[k].created_at <= pending[other].created_at
<1>1. TypeOK /\ BoundInv /\ [Next]_vars => [Fair]_vars
  <2> SUFFICES ASSUME TypeOK, BoundInv, Next, asked' = asked + 1 PROVE Fair
    OBVIOUS
  <2>1. asked' # asked
    BY DEF TypeOK
  <2>2. PICK t \in Turn : Register(t) /\ turn[t].scoped
    BY <2>1 DEF Next, Receive, Resolve, Execute, Pause, Register, Deliver, End,
                Poison, Restart, Tick
  <2> DEFINE k0 == turn[t].conv
  <2>3. PICK kept \in SUBSET Live :
          Kept(k0, kept) /\ DOMAIN pending' = kept \cup {k0}
    BY <2>2 DEF Register
  <2>4. SUFFICES ASSUME NEW k \in Live \ DOMAIN pending'
        PROVE  /\ Cardinality(Live) >= Capacity
               /\ \A other \in DOMAIN pending \cap DOMAIN pending' :
                    pending[k].created_at <= pending[other].created_at
    OBVIOUS
  <2>5. k \notin kept
    BY <2>3, <2>4
  <2>6. k0 \notin Live /\ Cardinality(Live) >= Capacity
    BY <2>3, <2>5 DEF Kept
  <2>7. PICK old \in Live : Oldest(old) /\ kept = Live \ {old}
    BY <2>3, <2>6 DEF Kept
  <2>8. k = old
    BY <2>4, <2>5, <2>7
  <2>9. ASSUME NEW other \in DOMAIN pending \cap DOMAIN pending'
        PROVE  pending[k].created_at <= pending[other].created_at
    <3>1. CASE other \in Live
      BY <2>7, <2>8, <3>1 DEF Oldest
    <3>2. CASE other = k0
      \* Impossible: an expired entry of the registering conversation takes
      \* one of the Capacity places, so the live ones cannot fill them all.
      <4>1. Live \subseteq DOMAIN pending \ {k0} /\ k0 \in DOMAIN pending
        BY <2>6, <2>9, <3>2 DEF Live
      <4>2. /\ IsFiniteSet(DOMAIN pending \ {k0})
            /\ Cardinality(DOMAIN pending \ {k0}) = Cardinality(DOMAIN pending) - 1
        <5> DEFINE D == DOMAIN pending
        <5>1. IsFiniteSet(D) /\ k0 \in D
          BY <4>1 DEF BoundInv
        <5> HIDE DEF D, k0
        <5>2. IsFiniteSet(D \ {k0}) /\ Cardinality(D \ {k0}) = Cardinality(D) - 1
          BY <5>1, FS_RemoveElement
        <5>3. QED BY <5>2 DEF D
      <4>3. Cardinality(Live) <= Cardinality(DOMAIN pending) - 1
        BY <4>1, <4>2, FS_Subset
      <4>4. Cardinality(Live) \in Nat /\ Cardinality(DOMAIN pending) \in Nat
        BY <4>1, <4>2, FS_Subset, FS_CardinalityType DEF BoundInv
      <4>5. QED BY <2>6, <4>3, <4>4, ApprovalAssumption DEF BoundInv, RegistryBounded
    <3>3. QED BY <2>3, <2>9, <3>1, <3>2
  <2>10. QED BY <2>6, <2>9
<1>2. QED BY <1>1, TypeCorrect, BoundInvariant, PTL DEF Spec, EvictionTakesTheOldest

-------------------------------------------------------------------------------
(* An entry decides once.  The strengthening names the entries not yet     *)
(* made: nothing has decided them either.                                  *)
VerdictInv ==
  /\ FirstAnswerDecides
  /\ \A i \in 1..MaxAsked : i > asked => verdict[i] = "open"

(* The first message after a prompt takes its entry out, whatever it says  *)
(* (resolve()): no entry in the registry was ever decided.                 *)
THEOREM DecidesOnce == Spec => []FirstAnswerDecides
<1>1. Init => VerdictInv
  BY DEF Init, VerdictInv, FirstAnswerDecides, Empty
<1>2. TypeOK /\ VerdictInv /\ [Next]_vars => VerdictInv'
  <2> SUFFICES ASSUME TypeOK, VerdictInv, [Next]_vars PROVE VerdictInv'
    OBVIOUS
  <2>1. ASSUME /\ DOMAIN pending' \subseteq DOMAIN pending
               /\ \A k \in DOMAIN pending' : pending'[k] = pending[k]
               /\ UNCHANGED <<asked, verdict>>
        PROVE  VerdictInv'
    BY <2>1 DEF VerdictInv, FirstAnswerDecides
  <2>2. ASSUME NEW t \in Turn, Resolve(t)
        PROVE  VerdictInv'
    <3> DEFINE m == turn[t]
    <3>1. CASE ~Meets(m)
      BY <2>1, <2>2, <3>1, ResolveShrinks DEF Resolve
    <3>2. CASE Meets(m)
      <4>1. /\ m.conv \in DOMAIN pending
            /\ DOMAIN pending' = DOMAIN pending \ {m.conv}
            /\ \A k \in DOMAIN pending' : pending'[k] = pending[k]
        BY <2>2, <3>2 DEF Resolve, Meets, AfterResolve, Restrict
      <4>2. \A i \in 1..MaxAsked : i # pending[m.conv].id => verdict'[i] = verdict[i]
        BY <2>2, <3>2 DEF Resolve, TypeOK
      <4>3. \A k \in DOMAIN pending' : pending'[k].id # pending[m.conv].id
        BY <4>1 DEF VerdictInv, FirstAnswerDecides
      <4>4. pending[m.conv].id \in 1..asked /\ asked \in 0..MaxAsked
        BY <4>1 DEF VerdictInv, FirstAnswerDecides, TypeOK
      <4>5. asked' = asked
        BY <2>2 DEF Resolve
      <4>6. FirstAnswerDecides'
        BY <4>1, <4>2, <4>3, <4>4, <4>5, ApprovalAssumption
        DEF VerdictInv, FirstAnswerDecides
      <4>7. QED BY <4>2, <4>4, <4>5, <4>6, ApprovalAssumption DEF VerdictInv
    <3>3. QED BY <3>1, <3>2
  <2>3. ASSUME NEW t \in Turn, Register(t)
        PROVE  VerdictInv'
    <3> DEFINE k0 == turn[t].conv
    <3>1. CASE ~turn[t].scoped
      BY <2>1, <2>3, <3>1 DEF Register
    <3>2. CASE turn[t].scoped
      <4>1. PICK kept \in SUBSET Live :
              pending' = [k \in kept \cup {k0} |->
                            IF k = k0 THEN NewEntry(turn[t]) ELSE pending[k]]
        BY <2>3, <3>2 DEF Register
      <4>2. /\ asked \in Nat /\ asked < MaxAsked
            /\ asked' = asked + 1 /\ verdict' = verdict
        BY <2>3, <3>2, ApprovalAssumption DEF Register, TypeOK
      <4>3. NewEntry(turn[t]).id = asked + 1
        BY DEF NewEntry
      <4>4. \A k \in kept : k \in DOMAIN pending
        BY <4>1 DEF Live
      <4>5. verdict[asked + 1] = "open"
        BY <4>2, ApprovalAssumption DEF VerdictInv
      <4>6. \A k \in DOMAIN pending' :
              \/ k = k0 /\ pending'[k].id = asked + 1
              \/ /\ k \in DOMAIN pending
                 /\ pending'[k] = pending[k]
        BY <4>1, <4>3, <4>4
      <4>7. FirstAnswerDecides'
        BY <4>2, <4>5, <4>6 DEF VerdictInv, FirstAnswerDecides
      <4>8. QED BY <4>2, <4>7 DEF VerdictInv
    <3>3. QED BY <3>1, <3>2
  <2>4. ASSUME NEW t \in Turn, Poison(t)
        PROVE  VerdictInv'
    BY <2>1, <2>4 DEF Poison, Empty
  <2>5. CASE Restart
    BY <2>1, <2>5 DEF Restart, Empty
  <2>6. CASE UNCHANGED <<pending, asked, verdict>>
    BY <2>1, <2>6
  <2>7. QED
    BY <2>2, <2>3, <2>4, <2>5, <2>6
    DEF Next, vars, Receive, Execute, Pause, Deliver, End, Tick
<1>3. VerdictInv => FirstAnswerDecides
  BY DEF VerdictInv
<1>4. QED BY <1>1, <1>2, <1>3, TypeCorrect, PTL DEF Spec

-------------------------------------------------------------------------------
(* The runtime implements the contract.                                    *)
LEMMA InitMaps == Init => C!ContractInit
BY DEF Init, Empty, C!ContractInit, C!Nothing, C!NeverRan, Question, Authority,
       Executions, Idle, NeverRan

(* A step that only ends turns and only loses entries is the contract's    *)
(* EndAndForget.                                                           *)
LEMMA EndsAndForgets ==
  ASSUME TypeOK,
         NEW ended \in SUBSET Turn,
         \A t \in ended : turn'[t].pc # "running",
         \A t \in Turn \ ended :
           Authority'[t] = Authority[t] /\ Executions'[t] = Executions[t],
         DOMAIN pending' \subseteq DOMAIN pending,
         \A k \in DOMAIN pending' : pending'[k] = pending[k],
         now' = now
  PROVE  C!ContractNext
<1> DEFINE forgotten == Conversation \ DOMAIN pending'
<1>1. Question' = [q \in Conversation |->
                     IF q \in forgotten THEN C!Nothing ELSE Question[q]]
  BY DEF Question, C!Nothing
<1>2. Authority' = [t \in Turn |-> IF t \in ended THEN {} ELSE Authority[t]]
  BY DEF Authority
<1>3. Executions' = [t \in Turn |-> IF t \in ended THEN C!NeverRan ELSE Executions[t]]
  BY DEF Executions, NeverRan, C!NeverRan
<1>4. C!EndAndForget(ended, forgotten)
  BY <1>1, <1>2, <1>3 DEF C!EndAndForget
<1>5. forgotten \in SUBSET Conversation
  OBVIOUS
<1>6. QED BY <1>4, <1>5 DEF C!ContractNext

(* Resolving a message is an Answer of the contract.                       *)
LEMMA ResolveMaps ==
  ASSUME TypeOK, NEW t \in Turn, Resolve(t)
  PROVE  C!ContractNext \/ UNCHANGED C!cvars
<1> DEFINE m == turn[t]
<1>1. m \in Received
  BY DEF Resolve, TypeOK, TurnState, Idle, Received, Running, Paused, Replying
<1>2. /\ turn'[t].pc = "running" /\ turn'[t].grant = GrantOf(m)
      /\ turn'[t].runs = NeverRan
      /\ \A u \in Turn \ {t} : turn'[u] = turn[u]
  BY DEF Resolve, TypeOK
<1>3. Executions' = Executions
  BY <1>1, <1>2 DEF Executions, Received
<1>4. Authority[t] = {}
  BY <1>1 DEF Authority, Received
<1>5. Authority' = [Authority EXCEPT ![t] = {GrantOf(m)} \ {NoRequest}]
  BY <1>2 DEF Authority
<1>6. CASE ~Meets(m)
  <2>1. GrantOf(m) = NoRequest
    BY <1>6 DEF GrantOf
  <2>2. Authority' = Authority
    BY <1>4, <1>5, <2>1 DEF Authority
  <2>3. pending' = pending
    BY <1>6, ResolveShrinks DEF Resolve, Meets, AfterResolve, Restrict, TypeOK
  <2>4. QED BY <1>3, <2>2, <2>3 DEF Resolve, C!cvars, Question
<1>7. CASE Meets(m)
  <2>1. /\ m.conv \in DOMAIN pending
        /\ DOMAIN pending' = DOMAIN pending \ {m.conv}
        /\ \A k \in DOMAIN pending' : pending'[k] = pending[k]
    BY <1>7 DEF Resolve, Meets, AfterResolve, Restrict
  <2>2. m.conv \in Conversation /\ m.sender \in Sender
    BY <1>1 DEF Received
  <2>3. Question' = [Question EXCEPT ![m.conv] = C!Nothing]
    BY <2>1, <2>2 DEF Question, C!Nothing
  <2>4. \/ UNCHANGED Authority
        \/ /\ C!Authorises(Question[m.conv], m.sender)
           /\ Authority' = [Authority EXCEPT ![t] = {Question[m.conv].what}]
    <3>1. CASE Accepts(pending[m.conv], m)
      <4>1. GrantOf(m) = pending[m.conv].request
        BY <1>7, <3>1 DEF GrantOf
      <4>2. GrantOf(m) # NoRequest
        BY <4>1, <2>1, ApprovalAssumption DEF TypeOK, Entry
      <4>3. Question[m.conv].what = GrantOf(m)
        BY <2>1, <2>2, <4>1 DEF Question
      <4>4. C!Authorises(Question[m.conv], m.sender)
        BY <2>1, <2>2, <3>1 DEF C!Authorises, Question, Accepts
      <4>5. QED BY <1>5, <4>2, <4>3, <4>4
    <3>2. CASE ~Accepts(pending[m.conv], m)
      BY <1>4, <1>5, <3>2 DEF GrantOf, Authority
    <3>3. QED BY <3>1, <3>2
  <2>5. C!Answer(t, m.conv, m.sender)
    BY <1>3, <1>4, <2>3, <2>4 DEF C!Answer, Resolve
  <2>6. QED BY <2>2, <2>5 DEF C!ContractNext
<1>8. QED BY <1>6, <1>7

(* Registering a pause is an Ask, or the end of a turn without a scope.    *)
LEMMA RegisterMaps ==
  ASSUME TypeOK, NEW t \in Turn, Register(t)
  PROVE  C!ContractNext \/ UNCHANGED C!cvars
<1> DEFINE m == turn[t]
<1>1. m \in Paused
  BY DEF Register, TypeOK, TurnState, Idle, Received, Running, Paused, Replying
<1>2. /\ turn'[t].pc = "replying"
      /\ \A u \in Turn \ {t} : turn'[u] = turn[u]
  BY DEF Register, TypeOK
<1>3. Authority' = Authority /\ Executions' = Executions
  BY <1>1, <1>2 DEF Authority, Executions, Paused
<1>4. CASE ~m.scoped
  BY <1>3, <1>4 DEF Register, C!cvars, Question
<1>5. CASE m.scoped
  <2>1. PICK kept \in SUBSET Live :
          pending' = [k \in kept \cup {m.conv} |->
                        IF k = m.conv THEN NewEntry(m) ELSE pending[k]]
    BY <1>5 DEF Register
  <2>2. kept \subseteq DOMAIN pending
    BY <2>1 DEF Live
  <2>3. m.conv \in Conversation /\ m.sender \in Sender /\ m.asks \in Request
    BY <1>1 DEF Paused
  <2> DEFINE forgotten == Conversation \ (kept \cup {m.conv})
  <2>4. Question' = [q \in Conversation |->
          IF q = m.conv
          THEN [asked |-> TRUE, who |-> m.sender, what |-> m.asks, until |-> now + TTL]
          ELSE IF q \in forgotten THEN C!Nothing ELSE Question[q]]
    BY <2>1, <2>2, <2>3 DEF Question, C!Nothing, NewEntry
  <2>5. forgotten \in SUBSET (Conversation \ {m.conv})
    OBVIOUS
  <2>6. C!Ask(m.conv, m.sender, m.asks)
    BY <1>3, <2>4, <2>5 DEF C!Ask, Register
  <2>7. QED BY <2>3, <2>6 DEF C!ContractNext
<1>6. QED BY <1>4, <1>5

(* Running an approved request is a Run.                                   *)
LEMMA ExecuteMaps ==
  ASSUME TypeOK, NEW t \in Turn, NEW r \in Request, Execute(t, r)
  PROVE  C!ContractNext
<1>1. turn[t] \in Running
  BY DEF Execute, TypeOK, TurnState, Idle, Received, Running, Paused, Replying
<1>2. /\ turn'[t].pc = "running" /\ turn'[t].grant = turn[t].grant
      /\ turn'[t].runs = [turn[t].runs EXCEPT ![r] = @ + 1]
      /\ \A u \in Turn \ {t} : turn'[u] = turn[u]
  BY <1>1 DEF Execute, TypeOK, Running
<1>3. turn[t].pc = "running" /\ turn[t].grant = r
  BY DEF Execute, Covers
<1>4. r \in Authority[t]
  BY <1>3, ApprovalAssumption DEF Authority
<1>5. Authority' = Authority
  BY <1>2, <1>3 DEF Authority
<1>6. Executions' = [Executions EXCEPT ![t][r] = @ + 1]
  BY <1>2, <1>3 DEF Executions
<1>7. Question' = Question
  BY DEF Question, Execute
<1>8. C!Run(t, r)
  BY <1>4, <1>5, <1>6, <1>7 DEF C!Run, Execute
<1>9. QED BY <1>8 DEF C!ContractNext

(* The runtime with its registry implements ApprovalContract: authority to *)
(* run a request comes from the human asked, once, in time, for that       *)
(* request only.                                                           *)
THEOREM Refines == Spec => KeepsContract
<1>1. Init => C!ContractInit
  BY InitMaps
<1>2. TypeOK /\ [Next]_vars => [C!ContractNext]_(C!cvars)
  <2> SUFFICES ASSUME TypeOK, [Next]_vars
               PROVE  C!ContractNext \/ UNCHANGED C!cvars
    OBVIOUS
  <2>1. ASSUME NEW t \in Turn, NEW k \in Conversation, NEW s \in Sender,
               NEW scoped \in BOOLEAN, NEW word \in BOOLEAN,
               Receive(t, k, s, scoped, word)
        PROVE  UNCHANGED C!cvars
    <3>1. /\ turn[t].pc = "idle" /\ turn'[t].pc = "received"
          /\ \A u \in Turn \ {t} : turn'[u] = turn[u]
          /\ UNCHANGED <<now, pending>>
      BY <2>1 DEF Receive, Idle, TypeOK
    <3>2. Authority' = Authority /\ Executions' = Executions
      BY <3>1 DEF Authority, Executions
    <3>3. QED BY <3>1, <3>2 DEF C!cvars, Question
  <2>2. ASSUME NEW t \in Turn,
               (\E r \in Request : Pause(t, r)) \/ Deliver(t) \/ End(t) \/ Poison(t)
        PROVE  C!ContractNext
    <3>1. /\ turn'[t].pc # "running"
          /\ \A u \in Turn \ {t} : turn'[u] = turn[u]
          /\ now' = now
      BY <2>2 DEF Pause, Deliver, End, Poison, Idle, TypeOK
    <3>2. /\ DOMAIN pending' \subseteq DOMAIN pending
          /\ \A k \in DOMAIN pending' : pending'[k] = pending[k]
      BY <2>2 DEF Pause, Deliver, End, Poison, Empty
    <3>3. \A u \in Turn \ {t} : /\ Authority'[u] = Authority[u]
                               /\ Executions'[u] = Executions[u]
      BY <3>1 DEF Authority, Executions
    <3>4. {t} \in SUBSET Turn /\ \A u \in {t} : turn'[u].pc # "running"
      BY <3>1
    <3>5. QED BY <3>1, <3>2, <3>3, <3>4, EndsAndForgets
  <2>3. CASE Restart
    <3>1. /\ \A u \in Turn : turn'[u].pc # "running"
          /\ now' = now
          /\ DOMAIN pending' \subseteq DOMAIN pending
          /\ \A k \in DOMAIN pending' : pending'[k] = pending[k]
      BY <2>3 DEF Restart, Idle, Empty
    <3>2. QED BY <3>1, EndsAndForgets
  <2>4. CASE Tick
    <3>1. C!Advance
      BY <2>4 DEF Tick, C!Advance, Question, Authority, Executions
    <3>2. QED BY <3>1 DEF C!ContractNext
  <2>5. CASE UNCHANGED vars
    BY <2>5 DEF vars, C!cvars, Question, Authority, Executions
  <2>6. QED
    BY <2>1, <2>2, <2>3, <2>4, <2>5, ResolveMaps, RegisterMaps, ExecuteMaps DEF Next
<1>3. QED BY <1>1, <1>2, TypeCorrect, PTL DEF Spec, KeepsContract, C!Contract

===============================================================================
