------------------------------- MODULE Cadencia -------------------------------
(***************************************************************************)
(* The cadence guard between the turns of a WhatsApp chat                  *)
(* (garraia-gateway: bootstrap/whatsapp_linked/cadencia.rs, and its call   *)
(* in GatewaySink::turno).  Every admitted turn is a paid call, so a chat  *)
(* that exceeds a ceiling of turns per sliding window is cut, and a chat   *)
(* that keeps hitting the ceiling is held back for longer and longer.      *)
(*                                                                         *)
(* The turns of all chats go through one lock, so an admission is atomic;  *)
(* what is hard is the history: the window is pruned lazily, idle chats    *)
(* are swept when the table is full, the operator's ceiling changes under  *)
(* way, and four maps with different lifetimes must stay consistent.  The  *)
(* hourly counter of the diagnostics (por_hora) is left out.               *)
(***************************************************************************)
EXTENDS Integers, Sequences, FiniteSets

CONSTANTS Chat,
          Window,      \* JANELA
          DefaultMax,  \* MAX_TURNOS_POR_JANELA
          SuspectMax,  \* MAX_CONTEUDO_SUSPEITO
          Grace,       \* GRACE_POR_RAJADA
          ExpMax,      \* EXP_MAX
          ChatsMax,    \* CHATS_MAX
          Knobs,       \* the operator's max_turnos_per_minute; 0: absent or zero
          MaxTime      \* bound on the clock

ASSUME CadenciaAssumption ==
  /\ Window \in Nat \ {0} /\ DefaultMax \in Nat \ {0} /\ SuspectMax \in Nat \ {0}
  /\ Grace \in Nat /\ ExpMax \in Nat /\ ChatsMax \in Nat \ {0}
  /\ Knobs \subseteq Nat /\ MaxTime \in Nat

VARIABLES
  now,
  knob,           \* what the live configuration says
  max,            \* the ceiling in force
  declared,       \* the ceiling came from the configuration (max_operador)
  turnos,         \* chat -> instants of its admitted turns, oldest first
  em_corte,       \* chats cut since their last admitted turn
  bloqueio_ate,   \* chat -> end of its backoff, 0 when it has none
  rajadas,        \* chat -> consecutive bursts, 0 when it has none
  ultimo_corte,   \* chat -> instant of the first cut of its last burst, or Never
  \* what an observer of the chats has seen
  recent,         \* chat -> turns admitted within the last Window
  heldUntil,      \* chat -> the latest end of any backoff it was given
  lastSeen,       \* chat -> instant of its last message, or Never
  lastCut,        \* chat -> instant of its last cut message, or Never
  notices         \* chat -> notices sent to it since its last admitted turn

guard == <<max, declared, turnos, em_corte, bloqueio_ate, rajadas, ultimo_corte>>
seen == <<recent, heldUntil, lastSeen, lastCut, notices>>
cadenciaVars == <<now, knob, guard, seen>>

Never == -1

Smaller(a, b) == IF a <= b THEN a ELSE b

CadenciaInit ==
  /\ now = 0
  /\ knob \in Knobs
  /\ max = DefaultMax
  /\ declared = FALSE
  /\ turnos = [c \in Chat |-> <<>>]
  /\ em_corte = {}
  /\ bloqueio_ate = [c \in Chat |-> 0]
  /\ rajadas = [c \in Chat |-> 0]
  /\ ultimo_corte = [c \in Chat |-> Never]
  /\ recent = [c \in Chat |-> <<>>]
  /\ heldUntil = [c \in Chat |-> 0]
  /\ lastSeen = [c \in Chat |-> Never]
  /\ lastCut = [c \in Chat |-> Never]
  /\ notices = [c \in Chat |-> 0]

-------------------------------------------------------------------------------
(* The first d of times are before t, and no other is popped with them.    *)
Pops(times, t, d) ==
  /\ d \in 0..Len(times)
  /\ \A k \in 1..d : times[k] < t
  /\ d < Len(times) => times[d + 1] >= t

(* What is left of times once its front is popped while it is before t.    *)
Since(times, t) ==
  SubSeq(times, (CHOOSE d \in 0..Len(times) : Pops(times, t, d)) + 1, Len(times))

(* Slips to check against: a window one instant short; one never pruned.   *)
ShortWindow(times) == Since(times, now - Window + 2)
NeverPruned(times) == times

InWindow(times) == Since(times, now - Window + 1)

Known == {c \in Chat : turnos[c] # <<>>}

Alive == {c \in Known : now - turnos[c][Len(turnos[c])] < Window}

(* A slip to check against: an absent knob is taken for a ceiling of zero. *)
SetMaxToKnob ==
  /\ max' = IF knob > 0 \/ ~declared THEN knob ELSE DefaultMax
  /\ declared' = (knob > 0)

(* Cadencia::set_max: a valid knob is the ceiling; without one a declared  *)
(* ceiling goes back to the default and a built-in one stays.              *)
SetMax ==
  /\ max' = IF knob > 0 THEN knob ELSE IF declared THEN DefaultMax ELSE max
  /\ declared' = (knob > 0)

Tables == [turnos |-> turnos, em_corte |-> em_corte, bloqueio_ate |-> bloqueio_ate,
           rajadas |-> rajadas, ultimo_corte |-> ultimo_corte]

(* What a sweep leaves: all of the chats alive, the backoffs of held.      *)
SweptTo(held) ==
  [turnos       |-> [d \in Chat |-> IF d \in Alive THEN turnos[d] ELSE <<>>],
   em_corte     |-> em_corte \cap Alive,
   bloqueio_ate |-> [d \in Chat |-> IF d \in Alive \cup held THEN bloqueio_ate[d] ELSE 0],
   rajadas      |-> [d \in Chat |-> IF d \in Alive THEN rajadas[d] ELSE 0],
   ultimo_corte |-> [d \in Chat |-> IF d \in Alive THEN ultimo_corte[d] ELSE Never]]

MeetsFullTable(c) == c \notin Known /\ Cardinality(Known) >= ChatsMax

(* Slips to check against: a sweep that drops the backoffs under way, and  *)
(* one that forgets which chats were cut.                                  *)
SweptWithBackoff(c) == IF MeetsFullTable(c) THEN SweptTo({}) ELSE Tables

SweptWithCuts(c) == [Tables EXCEPT !.em_corte = @ \ (Chat \ {c})]

(* Cadencia::varrer, when a new chat meets a full table: chats with no     *)
(* turn in the window are dropped from every map, a running backoff apart. *)
Swept(c) ==
  IF MeetsFullTable(c) THEN SweptTo({d \in Chat : bloqueio_ate[d] > now}) ELSE Tables

(* The ceiling for this message: an empty text or the marker of an empty   *)
(* turn is what a loop sends, and has a ceiling of its own.                *)
Limit(suspect) == IF suspect THEN Smaller(max', SuspectMax) ELSE max'

(* 1 << exp                                                                *)
Doubling[exp \in 0..ExpMax] == IF exp = 0 THEN 1 ELSE 2 * Doubling[exp - 1]

Backoff(n) == LET exp == Smaller(n - 1, ExpMax) IN
              IF exp >= 1 THEN Window * Doubling[exp] ELSE 0

ObserveCut(c, notice) ==
  /\ lastSeen' = [lastSeen EXCEPT ![c] = now]
  /\ lastCut' = [lastCut EXCEPT ![c] = now]
  /\ notices' = IF notice THEN [notices EXCEPT ![c] = @ + 1] ELSE notices
  /\ UNCHANGED recent

(* Still held by an earlier burst.                                         *)
CutByBackoff(c) ==
  LET g == Swept(c) IN
  /\ SetMax
  /\ now < g.bloqueio_ate[c]
  /\ turnos' = g.turnos
  /\ em_corte' = g.em_corte
  /\ bloqueio_ate' = g.bloqueio_ate
  /\ rajadas' = g.rajadas
  /\ ultimo_corte' = g.ultimo_corte
  /\ ObserveCut(c, FALSE)
  /\ UNCHANGED <<now, knob, heldUntil>>

(* Over the ceiling.  The first cut since the last admission starts a new  *)
(* burst: it is announced once and, from the second burst on, held.        *)
CutByCeiling(c, suspect) ==
  LET g == Swept(c)
      fila == InWindow(g.turnos[c])
      first == c \notin g.em_corte
      n == g.rajadas[c] + 1
      held == first /\ Backoff(n) > 0
  IN /\ SetMax
     /\ now >= g.bloqueio_ate[c]
     /\ Len(fila) >= Limit(suspect)
     /\ turnos' = [g.turnos EXCEPT ![c] = fila]
     /\ em_corte' = g.em_corte \cup {c}
     /\ rajadas' = IF first THEN [g.rajadas EXCEPT ![c] = n] ELSE g.rajadas
     /\ bloqueio_ate' = IF held THEN [g.bloqueio_ate EXCEPT ![c] = now + Backoff(n)]
                        ELSE g.bloqueio_ate
     /\ ultimo_corte' = IF first THEN [g.ultimo_corte EXCEPT ![c] = now]
                        ELSE g.ultimo_corte
     /\ heldUntil' = IF held THEN [heldUntil EXCEPT ![c] = now + Backoff(n)]
                     ELSE heldUntil
     /\ ObserveCut(c, first)
     /\ UNCHANGED <<now, knob>>

(* Admitted; the bursts are forgotten once Grace has passed since the      *)
(* first cut of the last one.                                              *)
Admit(c, suspect) ==
  LET g == Swept(c)
      fila == InWindow(g.turnos[c])
      forgiven == g.ultimo_corte[c] # Never /\ now - g.ultimo_corte[c] >= Grace
  IN /\ SetMax
     /\ now >= g.bloqueio_ate[c]
     /\ Len(fila) < Limit(suspect)
     /\ turnos' = [g.turnos EXCEPT ![c] = Append(fila, now)]
     /\ em_corte' = g.em_corte \ {c}
     /\ rajadas' = IF forgiven THEN [g.rajadas EXCEPT ![c] = 0] ELSE g.rajadas
     /\ bloqueio_ate' = IF forgiven THEN [g.bloqueio_ate EXCEPT ![c] = 0]
                        ELSE g.bloqueio_ate
     /\ ultimo_corte' = g.ultimo_corte
     /\ recent' = [recent EXCEPT ![c] = Append(@, now)]
     /\ lastSeen' = [lastSeen EXCEPT ![c] = now]
     /\ notices' = [notices EXCEPT ![c] = 0]
     /\ UNCHANGED <<now, knob, heldUntil, lastCut>>

(* The configuration is reloaded; the guard sees it at the next message.   *)
Reload(k) ==
  /\ knob' = k
  /\ UNCHANGED <<now, guard, seen>>

Tick ==
  /\ now < MaxTime
  /\ now' = now + 1
  /\ recent' = [c \in Chat |-> Since(recent[c], now' - Window + 1)]
  /\ UNCHANGED <<knob, guard, heldUntil, lastSeen, lastCut, notices>>

CadenciaNext ==
  \/ \E c \in Chat :
       \/ CutByBackoff(c)
       \/ \E suspect \in BOOLEAN : CutByCeiling(c, suspect) \/ Admit(c, suspect)
  \/ \E k \in Knobs : Reload(k)
  \/ Tick

CadenciaSpec == CadenciaInit /\ [][CadenciaNext]_cadenciaVars

-------------------------------------------------------------------------------
Instant == 0..MaxTime

(* The four maps, the ceiling and the observer keep their shapes; the      *)
(* ceiling in force is never zero, which would mute every chat.            *)
CadenciaTypeOK ==
  /\ now \in Instant /\ knob \in Knobs
  /\ max \in Nat \ {0} /\ declared \in BOOLEAN
  /\ turnos \in [Chat -> Seq(Instant)]
  /\ em_corte \subseteq Chat
  /\ bloqueio_ate \in [Chat -> Nat] /\ rajadas \in [Chat -> Nat]
  /\ ultimo_corte \in [Chat -> Instant \cup {Never}]
  /\ recent \in [Chat -> Seq(Instant)] /\ heldUntil \in [Chat -> Nat]
  /\ lastSeen \in [Chat -> Instant \cup {Never}]
  /\ lastCut \in [Chat -> Instant \cup {Never}]
  /\ notices \in [Chat -> Nat]

Admitted(c) == Len(recent'[c]) > Len(recent[c])

(* No turn is admitted when the turns really admitted in the last Window   *)
(* already fill the ceiling in force: lazy pruning, sweeps and reloads     *)
(* never lose a turn that still counts.                                    *)
CeilingHolds == [][\A c \in Chat : Admitted(c) => Len(recent[c]) < max']_cadenciaVars

(* A backoff is served in full: no message of the chat is admitted before  *)
(* the end of any backoff it was given, swept or not.                      *)
BackoffServed == [][\A c \in Chat : Admitted(c) => now >= heldUntil[c]]_cadenciaVars

(* The chat is told once per burst that it is being held, never at every   *)
(* cut message: the notice itself must not feed a loop.                    *)
NoticeOnce == \A c \in Chat : notices[c] <= 1

(* A chat whose other side falls silent comes back on its own: after the   *)
(* longest backoff without a message, its next one is admitted.            *)
LongestBackoff == Window * Doubling[ExpMax]

QuietChatReturns ==
  [][\A c \in Chat :
       lastCut'[c] = now /\ lastCut[c] # now /\ lastSeen[c] # Never
         => now - lastSeen[c] < LongestBackoff]_cadenciaVars

===============================================================================
