--------------------------- MODULE PendingApprovals ---------------------------
(***************************************************************************)
(* The confirmation flow of the agent runtime: a turn whose tool call      *)
(* needs a human's yes pauses, leaves an entry in the registry of pending  *)
(* approvals and puts a prompt to the human; the next message of that      *)
(* conversation takes the entry out and may carry the approval into its    *)
(* own turn (garraia-agents: tools/pending_approval.rs, tools/approval.rs, *)
(* and the three places of runtime.rs that use them).                      *)
(*                                                                         *)
(* The channels start a task per message, so turns of one conversation     *)
(* overlap.  A turn takes the registry's lock twice, once to resolve the   *)
(* message and once to register a pause, and anything may happen between:  *)
(* other turns, the passage of time, the abort of the task, a panic that   *)
(* poisons the lock, a restart of the process.                             *)
(*                                                                         *)
(* A Request is what ApprovalFingerprint::of digests, a tool and its       *)
(* trimmed subject; the HMAC is taken to be injective.  A Conversation is  *)
(* the registry's key, a channel and a session.                            *)
(***************************************************************************)
EXTENDS Integers, FiniteSets, Functions

CONSTANTS Conversation, Sender, Request, Turn,
          NoRequest,   \* ToolApproval::None
          TTL,         \* PENDING_APPROVAL_TTL
          Capacity,    \* PENDING_APPROVAL_CAPACITY
          MaxTime,     \* bound on the clock
          MaxAsked,    \* bound on how many requests are registered
          MaxRuns      \* bound on how often one turn runs one request

ASSUME ApprovalAssumption ==
  /\ TTL \in Nat
  /\ Capacity \in Nat \ {0}
  /\ MaxTime \in Nat /\ MaxAsked \in Nat /\ MaxRuns \in Nat
  /\ NoRequest \notin Request

VARIABLES
  now,       \* Instant::now()
  pending,   \* the registry: conversation -> entry, at most one each
  turn,      \* turn -> where it stands, with the values it read
  asked,     \* how many requests were ever registered (names the entries)
  verdict    \* entry -> what the first message after it decided

vars == <<now, pending, turn, asked, verdict>>

Entry == [sender: Sender, request: Request, created_at: Nat, expires_at: Nat,
          id: Nat]

Idle == [pc |-> "idle"]

Received == [pc: {"received"}, conv: Conversation, sender: Sender,
             scoped: BOOLEAN, word: BOOLEAN]

Running == [pc: {"running"}, conv: Conversation, sender: Sender,
            scoped: BOOLEAN, grant: Request \cup {NoRequest},
            runs: [Request -> Nat]]

Paused == [pc: {"paused"}, conv: Conversation, sender: Sender,
           scoped: BOOLEAN, asks: Request]

Replying == [pc: {"replying"}, conv: Conversation, scoped: BOOLEAN,
             asks: Request]

TurnState == {Idle} \cup Received \cup Running \cup Paused \cup Replying

NeverRan == [r \in Request |-> 0]

Empty == [k \in {} |-> NoRequest]

Init ==
  /\ now = 0
  /\ pending = Empty
  /\ turn = [t \in Turn |-> Idle]
  /\ asked = 0
  /\ verdict = [i \in 1..MaxAsked |-> "open"]

-------------------------------------------------------------------------------
(* A human message arrives and its channel spawns a turn for it.  It is    *)
(* scoped when the path gives the turn an ApprovalScope of its own session; *)
(* word says whether the whole text is an approval word.                   *)
Receive(t, k, s, scoped, word) ==
  /\ turn[t] = Idle
  /\ turn' = [turn EXCEPT ![t] =
       [pc |-> "received", conv |-> k, sender |-> s, scoped |-> scoped,
        word |-> word]]
  /\ UNCHANGED <<now, pending, asked, verdict>>

(* The entry approves message m: an approval word, the sender who was in   *)
(* the turn that paused, and not yet expired.                              *)
Accepts(entry, m) ==
  /\ m.word
  /\ entry.sender = m.sender
  /\ now < entry.expires_at

(* The entry this message meets, in the scoped paths only: without a scope *)
(* the approval is looked for in the history, which the production paths   *)
(* rebuild as plain text, so nothing is ever found there.                  *)
Meets(m) == m.scoped /\ m.conv \in DOMAIN pending

GrantOf(m) == IF Meets(m) /\ Accepts(pending[m.conv], m)
              THEN pending[m.conv].request
              ELSE NoRequest

(* A slip to check against: a message that is no approval word leaves the  *)
(* entry where it is.                                                      *)
AfterWordOnly(m) == IF m.scoped /\ m.word
                    THEN Restrict(pending, DOMAIN pending \ {m.conv})
                    ELSE pending

(* The entry leaves the registry whatever the message decides.             *)
AfterResolve(m) == IF m.scoped THEN Restrict(pending, DOMAIN pending \ {m.conv})
                   ELSE pending

(* Start of a turn: PendingApprovals::resolve, under one lock.             *)
Resolve(t) ==
  LET m == turn[t] IN
  /\ m.pc = "received"
  /\ pending' = AfterResolve(m)
  /\ turn' = [turn EXCEPT ![t] =
       [pc |-> "running", conv |-> m.conv, sender |-> m.sender,
        scoped |-> m.scoped, grant |-> GrantOf(m), runs |-> NeverRan]]
  /\ verdict' = IF Meets(m)
                THEN [verdict EXCEPT ![pending[m.conv].id] =
                        IF GrantOf(m) = NoRequest THEN "closed" ELSE "granted"]
                ELSE verdict
  /\ UNCHANGED <<now, asked>>

(* A slip to check against: any approval covers any request.               *)
CoversAny(grant, r) == grant # NoRequest

(* ToolApproval::covers: by equality, not by presence.                     *)
Covers(grant, r) == grant = r

(* The model asks for r again and the turn's approval covers it.  Every    *)
(* call of the turn gets a clone of the approval, so it is not used up.    *)
Execute(t, r) ==
  /\ turn[t].pc = "running"
  /\ Covers(turn[t].grant, r)
  /\ turn[t].runs[r] < MaxRuns
  /\ turn' = [turn EXCEPT ![t].runs[r] = @ + 1]
  /\ UNCHANGED <<now, pending, asked, verdict>>

(* The model asks for a request nobody approved: the tool answers with a   *)
(* confirmation request and the dispatch pauses the turn.                  *)
Pause(t, r) ==
  /\ turn[t].pc = "running"
  /\ ~Covers(turn[t].grant, r)
  /\ turn' = [turn EXCEPT ![t] =
       [pc |-> "paused", conv |-> turn[t].conv, sender |-> turn[t].sender,
        scoped |-> turn[t].scoped, asks |-> r]]
  /\ UNCHANGED <<now, pending, asked, verdict>>

Live == {k \in DOMAIN pending : now < pending[k].expires_at}

Oldest(k) == \A other \in Live : pending[k].created_at <= pending[other].created_at

(* What stays beside a new entry for k: the live ones, less the oldest of  *)
(* them when there is no room (ties fall either way: it is a hash map).    *)
Kept(k, kept) ==
  IF k \notin Live /\ Cardinality(Live) >= Capacity
  THEN \E old \in Live : Oldest(old) /\ kept = Live \ {old}
  ELSE kept = Live

NewEntry(m) == [sender |-> m.sender, request |-> m.asks, created_at |-> now,
                expires_at |-> now + TTL, id |-> asked + 1]

(* PendingApprovals::register, under one lock; a new entry replaces the    *)
(* one its conversation had.  Without a scope nothing is written.          *)
Register(t) ==
  LET m == turn[t] IN
  /\ m.pc = "paused"
  /\ turn' = [turn EXCEPT ![t] = [pc |-> "replying", conv |-> m.conv,
                                  scoped |-> m.scoped, asks |-> m.asks]]
  /\ IF m.scoped
     THEN /\ asked < MaxAsked
          /\ asked' = asked + 1
          /\ \E kept \in SUBSET Live :
               /\ Kept(m.conv, kept)
               /\ pending' = [k \in kept \cup {m.conv} |->
                                IF k = m.conv THEN NewEntry(m) ELSE pending[k]]
     ELSE UNCHANGED <<asked, pending>>
  /\ UNCHANGED <<now, verdict>>

(* The prompt reaches the conversation.                                    *)
Deliver(t) ==
  /\ turn[t].pc = "replying"
  /\ turn' = [turn EXCEPT ![t] = Idle]
  /\ UNCHANGED <<now, pending, asked, verdict>>

(* The turn ends with a plain answer or an error, is aborted at one of its *)
(* awaits, or its prompt is lost on the way.                               *)
End(t) ==
  /\ turn[t] # Idle
  /\ turn' = [turn EXCEPT ![t] = Idle]
  /\ UNCHANGED <<now, pending, asked, verdict>>

(* A thread dies holding the lock: its turn ends, and the next one to take *)
(* the lock throws every entry away.                                       *)
Poison(t) ==
  /\ turn[t].pc \in {"received", "paused"}
  /\ turn' = [turn EXCEPT ![t] = Idle]
  /\ pending' = Empty
  /\ UNCHANGED <<now, asked, verdict>>

(* The process restarts: the registry and the HMAC key live in memory only. *)
Restart ==
  /\ pending' = Empty
  /\ turn' = [t \in Turn |-> Idle]
  /\ UNCHANGED <<now, asked, verdict>>

Tick ==
  /\ now < MaxTime
  /\ now' = now + 1
  /\ UNCHANGED <<pending, turn, asked, verdict>>

Next ==
  \/ \E t \in Turn :
       \/ \E k \in Conversation, s \in Sender, scoped, word \in BOOLEAN :
            Receive(t, k, s, scoped, word)
       \/ Resolve(t)
       \/ \E r \in Request : Execute(t, r) \/ Pause(t, r)
       \/ Register(t)
       \/ Deliver(t)
       \/ End(t)
       \/ Poison(t)
  \/ Restart
  \/ Tick

Spec == Init /\ [][Next]_vars

-------------------------------------------------------------------------------
(* The clock, the registry, the turns and what the observers noted keep    *)
(* their shapes: an entry always has a sender, a request and two instants. *)
TypeOK ==
  /\ now \in Nat
  /\ DOMAIN pending \subseteq Conversation
  /\ pending = [k \in DOMAIN pending |-> pending[k]]
  /\ \A k \in DOMAIN pending : pending[k] \in Entry
  /\ turn \in [Turn -> TurnState]
  /\ asked \in 0..MaxAsked
  /\ verdict \in [1..MaxAsked -> {"open", "closed", "granted"}]

(* The registry never holds more than its capacity, whatever mix of        *)
(* expired, replaced and evicted entries a registration finds: the purge,  *)
(* the eviction and the insertion of register() together keep the bound.   *)
RegistryBounded == Cardinality(DOMAIN pending) <= Capacity

(* An entry decides once.  While an entry is in the registry no message    *)
(* has decided it, so a refused request (a "no", another sender's yes, a   *)
(* late yes) can never be granted by a later yes, and one yes serves one   *)
(* turn: resolve() takes the entry out in every outcome.                   *)
FirstAnswerDecides ==
  \A k \in DOMAIN pending :
    /\ pending[k].id \in 1..asked
    /\ verdict[pending[k].id] = "open"
    /\ \A other \in DOMAIN pending : pending[other].id = pending[k].id => other = k

(* Making room costs the oldest live conversation and no other: when a     *)
(* registration drops an unexpired entry of another conversation, the      *)
(* registry was full of live entries and everything it keeps is at least   *)
(* as young as what it dropped.                                            *)
EvictionTakesTheOldest ==
  [][asked' = asked + 1 =>
       \A k \in Live \ DOMAIN pending' :
         /\ Cardinality(Live) >= Capacity
         /\ \A other \in DOMAIN pending \cap DOMAIN pending' :
              pending[k].created_at <= pending[other].created_at]_vars

(* The registry implements the contract of ApprovalContract: its entries   *)
(* are the open questions and the grant of a running turn its authority.   *)
Question == [k \in Conversation |->
  IF k \in DOMAIN pending
  THEN [asked |-> TRUE, who |-> pending[k].sender, what |-> pending[k].request,
        until |-> pending[k].expires_at]
  ELSE [asked |-> FALSE]]

Authority == [t \in Turn |->
  IF turn[t].pc = "running" THEN {turn[t].grant} \ {NoRequest} ELSE {}]

Executions == [t \in Turn |->
  IF turn[t].pc = "running" THEN turn[t].runs ELSE NeverRan]

C == INSTANCE ApprovalContract
       WITH clock <- now, open <- Question, may <- Authority, ran <- Executions

(* Every behaviour of the runtime is one the contract allows: authority    *)
(* comes only from the human who was asked, in the conversation that was   *)
(* asked, with the first message after the question, before it expires,    *)
(* and for exactly the request that was asked; and only a turn with that   *)
(* authority runs the request.                                             *)
KeepsContract == C!Contract

===============================================================================
