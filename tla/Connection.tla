------------------------------ MODULE Connection ------------------------------
(***************************************************************************)
(* One WebSocket of a web chat (garraia-gateway: ws.rs).  The task of the  *)
(* socket reads the client's frames; a chat message becomes a turn, run by *)
(* a task of its own that sends its events over a bounded channel.  While  *)
(* a turn runs the socket's task selects among the channel, the end of the *)
(* turn's task and the client, so the client can stop the turn, leave, or  *)
(* send more messages, which wait in a bounded queue.  Outside a turn the  *)
(* same task keeps the heartbeat.                                          *)
(*                                                                         *)
(* The client is free: any frame may come whenever the socket is read.     *)
(* What it does in time is the bounded clock `now'.                        *)
(***************************************************************************)
EXTENDS Integers, Sequences

CONSTANTS
  Script,       \* bound: what the client's first, second, ... message may be
  Id,           \* turn_id values a client uses
  NoId,         \* a message without turn_id
  Current,      \* a stop without turn_id: the turn that runs
  Invalid,      \* a stop whose turn_id is malformed
  MaxDeferred,  \* MAX_DEFERRED_MESSAGES
  Channel,      \* TURN_EVENT_CHANNEL
  Interval,     \* HEARTBEAT_INTERVAL
  Timeout,      \* HEARTBEAT_TIMEOUT
  RateMax,      \* WS_RATE_LIMIT_MAX
  Window,       \* WS_RATE_LIMIT_WINDOW
  MaxPartial,   \* bytes of text kept of a turn that may be interrupted
  CharBytes,    \* bytes of the longest character
  MaxEvents,    \* bound on the events of one turn
  MaxText,      \* bound on the bytes of text of one event
  MaxTime       \* bound on the clock

(* A chat message: its turn_id, what it asks for, and whether the server   *)
(* refuses it (a malformed turn_id, text that looks like an injection).    *)
Chat == [id: Id \cup {NoId}, voice: BOOLEAN, stream: BOOLEAN, bad: BOOLEAN]

ASSUME ConnectionAssumption ==
  /\ Script \in Seq(SUBSET Chat)
  /\ NoId \notin Id /\ Current \notin Id /\ Invalid \notin Id
  /\ Current # Invalid
  /\ MaxDeferred \in Nat /\ Channel \in Nat \ {0}
  /\ Interval \in Nat \ {0} /\ Timeout \in Nat
  /\ RateMax \in Nat /\ Window \in Nat
  /\ MaxPartial \in Nat /\ CharBytes \in Nat \ {0}
  /\ MaxEvents \in Nat /\ MaxText \in Nat /\ MaxTime \in Nat

VARIABLES
  now,       \* Instant::now()
  beat,      \* when the heartbeat fires next; 0 before the main loop
  lastPong,  \* last_pong
  pinged,    \* a ping the client has not answered yet
  stamps,    \* msg_timestamps
  phase,     \* where the socket's task stands
  queue,     \* drain_turns's pending, the turns' deferred
  voz,       \* VozDaConexao: the last voice turn and the pending note
  turn,      \* the locals of run_streaming_turn
  task,      \* the turn's task and its channel
  msg,       \* the chat messages taken, in order, with what became of each
  history    \* what persist_turn wrote, in order

vars == <<now, beat, lastPong, pinged, stamps, phase, queue, voz, turn, task,
          msg, history>>
clock == <<now, beat, lastPong, pinged, stamps>>

Stop == [to: Id \cup {Current, Invalid}, other: BOOLEAN,
         heard: {"none", "part", "all"}]

(* A message's fate: the final frame its sender was given, if any, how     *)
(* many events of its turn it was shown before, and how much text of them. *)
Final == {"message", "error", "stopped", "refused", "busy"}

Message == [chat: Chat, told: {"none"} \cup Final, shown: Nat, text: Nat]

NoTurn == [n |-> 0, open |-> FALSE, finished |-> "no", stopped |-> FALSE,
           by |-> Current, gone |-> FALSE, partial |-> 0]

TurnOf(n) == [NoTurn EXCEPT !.n = n, !.open = TRUE]

NoTask == [st |-> "none", result |-> "ok", aborting |-> FALSE, events |-> 0,
           made |-> 0]

Init ==
  /\ now = 0 /\ beat = 0 /\ lastPong = 0 /\ pinged = FALSE
  /\ stamps = <<>>
  /\ phase = "hello"
  /\ queue = <<>>
  /\ voz = [last |-> 0, note |-> 0]
  /\ turn = NoTurn
  /\ task = NoTask
  /\ msg = <<>>
  /\ history = <<>>

-------------------------------------------------------------------------------
(* The times that are within Window of t, in their order (retain).         *)
Retained(times, t) ==
  LET kept[i \in 0..Len(times)] ==
        IF i = 0 THEN <<>>
        ELSE IF t - times[i] < Window THEN Append(kept[i - 1], times[i])
        ELSE kept[i - 1]
  IN  kept[Len(times)]

(* rate_limit_admits: the instants still in the window, and one more when  *)
(* there is room.                                                          *)
Recent == Retained(stamps, now)
Admits == Len(Recent) < RateMax
Stamped == IF Admits THEN Append(Recent, now) ELSE Recent

Taken(c, told) == Append(msg, [chat |-> c, told |-> told, shown |-> 0, text |-> 0])

(* What the client may send next.                                         *)
NextChat == IF Len(msg) < Len(Script) THEN Script[Len(msg) + 1] ELSE {}

(* The socket is done with: the locals of its task go with it.             *)
Close ==
  /\ phase' = "closed"
  /\ queue' = <<>> /\ voz' = [last |-> 0, note |-> 0]
  /\ turn' = NoTurn /\ task' = NoTask

Tell(n, frame) == msg' = [msg EXCEPT ![n].told = frame]

(* The main loop makes its heartbeat when it starts.                       *)
ToMainLoop ==
  /\ phase' = "waiting"
  /\ beat' = IF beat = 0 THEN now + Interval ELSE beat

(* handle_socket, first frame: init, resume, or none in time.              *)
FirstOther ==
  /\ phase = "hello"
  /\ ToMainLoop
  /\ UNCHANGED <<now, lastPong, pinged, stamps, queue, voz, turn, task, msg,
                 history>>

(* handle_socket, first frame: anything else becomes a turn at once,       *)
(* before either guard of the main loop; a stop is a question like others. *)
FirstMessage(c) ==
  /\ phase = "hello"
  /\ msg' = Taken(c, "none")
  /\ queue' = <<1>>
  /\ phase' = "drain"
  /\ UNCHANGED <<clock, voz, turn, task, history>>

-------------------------------------------------------------------------------
(* Main loop, a text frame: the window first, then the size, then stop.    *)
WaitingLimited ==
  /\ phase = "waiting" /\ ~Admits
  /\ lastPong' = now
  /\ stamps' = Recent
  /\ UNCHANGED <<now, beat, pinged, phase, queue, voz, turn, task, msg, history>>

WaitingTooLarge ==
  /\ phase = "waiting" /\ Admits
  /\ lastPong' = now
  /\ stamps' = Stamped
  /\ Close
  /\ UNCHANGED <<now, beat, pinged, msg, history>>

(* registrar_interrupcao_tardia: the stop names the last voice turn and    *)
(* says how much was heard; a part of it makes a note for the next one.    *)
Late(stop) ==
  IF /\ stop.to \in Id /\ stop.heard # "none"
     /\ voz.last # 0
     /\ msg[voz.last].chat.id = stop.to
  THEN [last |-> 0, note |-> IF stop.heard = "part" THEN voz.last ELSE 0]
  ELSE voz

WaitingStop(stop) ==
  /\ phase = "waiting" /\ Admits
  /\ lastPong' = now
  /\ stamps' = Stamped
  /\ voz' = Late(stop)
  /\ UNCHANGED <<now, beat, pinged, phase, queue, turn, task, msg, history>>

WaitingMessage(c) ==
  /\ phase = "waiting" /\ Admits
  /\ lastPong' = now
  /\ stamps' = Stamped
  /\ msg' = Taken(c, "none")
  /\ queue' = <<Len(msg) + 1>>
  /\ phase' = "drain"
  /\ UNCHANGED <<now, beat, pinged, voz, turn, task, history>>

(* Main loop, the heartbeat: too long without a sign of life closes.       *)
Heartbeat ==
  /\ phase = "waiting"
  /\ beat <= now
  /\ beat' = beat + Interval
  /\ IF now - lastPong > Timeout
     THEN Close /\ UNCHANGED pinged
     ELSE pinged' = TRUE /\ UNCHANGED <<phase, queue, voz, turn, task>>
  /\ UNCHANGED <<now, lastPong, stamps, msg, history>>

(* The client's answer to a ping is read, in a turn or out of one.         *)
Pong ==
  /\ pinged
  /\ phase = "waiting" \/ (phase = "turn" /\ ~turn.gone)
  /\ pinged' = FALSE
  /\ lastPong' = now
  /\ UNCHANGED <<now, beat, stamps, phase, queue, voz, turn, task, msg, history>>

(* A close frame, an error or the end of the stream, outside a turn.       *)
WaitingClose ==
  /\ phase = "waiting"
  /\ Close
  /\ UNCHANGED <<clock, msg, history>>

-------------------------------------------------------------------------------
(* drain_turns: nothing waits, back to the main loop.                      *)
Drained ==
  /\ phase = "drain" /\ queue = <<>>
  /\ ToMainLoop
  /\ UNCHANGED <<now, lastPong, pinged, stamps, queue, voz, turn, task, msg,
                 history>>

(* process_text_message refuses the message inline: a malformed turn_id,   *)
(* or text that looks like a prompt injection.                             *)
Refuse ==
  /\ phase = "drain" /\ queue # <<>>
  /\ msg[Head(queue)].chat.bad
  /\ Tell(Head(queue), "refused")
  /\ queue' = Tail(queue)
  /\ UNCHANGED <<clock, phase, voz, turn, task, history>>

(* A slip to check against: a voice turn counts as the last one before it  *)
(* has an answer.                                                          *)
VozAtStartEarly(n) == IF msg[n].chat.voice THEN [last |-> n, note |-> 0] ELSE voz

VozAtStart(n) == IF msg[n].chat.voice THEN [voz EXCEPT !.note = 0] ELSE voz

(* process_text_message starts the turn: a voice turn takes the pending    *)
(* note, the task is spawned.                                              *)
Start ==
  /\ phase = "drain" /\ queue # <<>>
  /\ ~msg[Head(queue)].chat.bad
  /\ turn' = TurnOf(Head(queue))
  /\ task' = [NoTask EXCEPT !.st = "running"]
  /\ voz' = VozAtStart(Head(queue))
  /\ queue' = Tail(queue)
  /\ phase' = "turn"
  /\ UNCHANGED <<clock, msg, history>>

(* The turn's task sends an event; a full channel makes it wait.           *)
Emit ==
  /\ task.st = "running" /\ task.events < Channel /\ task.made < MaxEvents
  /\ task' = [task EXCEPT !.events = @ + 1, !.made = @ + 1]
  /\ UNCHANGED <<clock, phase, queue, voz, turn, msg, history>>

(* The turn's task ends with an answer or an error; an abort that comes    *)
(* too late changes nothing.                                               *)
Complete(result) ==
  /\ task.st = "running"
  /\ task' = [task EXCEPT !.st = "done", !.result = result]
  /\ UNCHANGED <<clock, phase, queue, voz, turn, msg, history>>

(* An aborted task is dropped at its next await.                           *)
Aborted ==
  /\ task.st = "running" /\ task.aborting
  /\ task' = [task EXCEPT !.st = "done", !.result = "cancelled"]
  /\ UNCHANGED <<clock, phase, queue, voz, turn, msg, history>>

Asked == msg[turn.n].chat

(* A slip to check against: the task is left to run.                       *)
AbortNothing == task

AbortTask == [task EXCEPT !.aborting = TRUE]

(* A slip to check against: frames go out after a stop too.                *)
ForwardsAlways == Asked.stream /\ ~turn.gone

(* The frame of an event goes out to a client that asked for it.           *)
Forwards == Asked.stream /\ ~turn.stopped /\ ~turn.gone

(* A slip to check against: text is collected after a stop too.            *)
CollectsAlways == TRUE

Collects == ~turn.stopped

(* What partial may hold after a text: all of it while it fits, else what  *)
(* fits of it, cut where a character ends.                                 *)
Cut(text) ==
  IF turn.partial + text <= MaxPartial THEN {turn.partial + text}
  ELSE {k \in turn.partial..MaxPartial : MaxPartial - k < CharBytes}

(* run_streaming_turn, first arm: an event, of which a TextDelta carries   *)
(* text and the others none.  The text is collected up to the cap; the     *)
(* frame goes out whole, and sending it may find that the client has left. *)
TakeEvent ==
  /\ phase = "turn" /\ turn.open /\ task.events > 0
  /\ \E text \in 0..MaxText, fails \in BOOLEAN :
     \E kept \in IF Collects THEN Cut(text) ELSE {turn.partial} :
       /\ fails => Forwards
       /\ turn' = [turn EXCEPT !.partial = kept, !.gone = @ \/ fails]
       /\ task' = [task EXCEPT !.events = @ - 1, !.aborting = @ \/ fails]
       /\ msg' = IF Forwards /\ ~fails
                 THEN [msg EXCEPT ![turn.n].shown = @ + 1, ![turn.n].text = @ + text]
                 ELSE msg
  /\ UNCHANGED <<clock, phase, queue, voz, history>>

(* First arm, the channel is closed and empty.                             *)
ChannelCloses ==
  /\ phase = "turn" /\ turn.open /\ task.st = "done" /\ task.events = 0
  /\ turn' = [turn EXCEPT !.open = FALSE]
  /\ UNCHANGED <<clock, phase, queue, voz, task, msg, history>>

(* Second arm: the task has ended.                                         *)
Join ==
  /\ phase = "turn" /\ turn.finished = "no" /\ task.st = "done"
  /\ turn' = [turn EXCEPT !.finished = task.result]
  /\ UNCHANGED <<clock, phase, queue, voz, task, msg, history>>

(* PedidoDeStop::cancela.                                                  *)
Cancels(stop) == stop.to = Current \/ (stop.to # Invalid /\ stop.to = Asked.id)

Listening == phase = "turn" /\ ~turn.gone

(* Third arm: a stop of another session is refused; one of another turn is *)
(* acknowledged and may leave a note; one of this turn aborts its task.    *)
TurnStop(stop) ==
  /\ Listening
  /\ lastPong' = now
  /\ \/ /\ stop.other
        /\ UNCHANGED <<voz, turn, task>>
     \/ /\ ~stop.other /\ ~Cancels(stop)
        /\ voz' = Late(stop)
        /\ UNCHANGED <<turn, task>>
     \/ /\ ~stop.other /\ Cancels(stop)
        /\ turn' = [turn EXCEPT !.stopped = TRUE, !.by = stop.to]
        /\ task' = AbortTask
        /\ UNCHANGED voz
  /\ UNCHANGED <<now, beat, pinged, stamps, phase, queue, msg, history>>

(* Third arm, the client is gone: an oversized text, a close, an error.    *)
TurnLeave(oversized) ==
  /\ Listening
  /\ lastPong' = IF oversized THEN now ELSE lastPong
  /\ turn' = [turn EXCEPT !.gone = TRUE]
  /\ task' = AbortTask
  /\ UNCHANGED <<now, beat, pinged, stamps, phase, queue, voz, msg, history>>

TurnLimited ==
  /\ Listening /\ ~Admits
  /\ lastPong' = now
  /\ stamps' = Recent
  /\ UNCHANGED <<now, beat, pinged, phase, queue, voz, turn, task, msg, history>>

(* A slip to check against: what waits is served last come, first served.  *)
DeferredFirst == <<Len(msg) + 1>> \o queue

(* A slip to check against: one message too many fits.                     *)
FitsOneMore == Len(queue) <= MaxDeferred

Fits == Len(queue) < MaxDeferred

Deferred == Append(queue, Len(msg) + 1)

(* Third arm, another message: it waits, or is turned away.                *)
TurnMessage(c) ==
  /\ Listening /\ Admits
  /\ lastPong' = now
  /\ stamps' = Stamped
  /\ IF Fits
     THEN msg' = Taken(c, "none") /\ queue' = Deferred
     ELSE msg' = Taken(c, "busy") /\ UNCHANGED queue
  /\ UNCHANGED <<now, beat, pinged, phase, voz, turn, task, history>>

(* A slip to check against: the answer does not wait for its events.       *)
OverEarly == phase = "turn" /\ turn.finished # "no"

Over == phase = "turn" /\ ~turn.open /\ turn.finished # "no"

(* persist_turn, with how much of what was collected: an interrupted turn  *)
(* is kept as that, an answer as its task returned it, which is nothing    *)
(* of what was collected.                                                  *)
Kept(kind, said) == Append(history, [n |-> turn.n, kind |-> kind, said |-> said])

(* The end of run_streaming_turn, in the order the code asks: a client     *)
(* that left, a stop, the result.  What follows up to the final frame is   *)
(* the socket's task alone, so it is one step with it.                     *)
EndGone ==
  /\ Over /\ turn.gone
  /\ Close
  /\ UNCHANGED <<clock, msg, history>>

(* A slip to check against: a stop empties the queue as well.              *)
EndStoppedClears ==
  /\ Over /\ ~turn.gone /\ turn.stopped
  /\ Tell(turn.n, "stopped")
  /\ queue' = <<>>
  /\ phase' = "drain" /\ turn' = NoTurn /\ task' = NoTask
  /\ UNCHANGED <<clock, voz, history>>

(* A stopped turn; of a voice turn persist_turn keeps what was generated.  *)
EndStopped ==
  /\ Over /\ ~turn.gone /\ turn.stopped
  /\ Tell(turn.n, "stopped")
  /\ history' = IF Asked.voice THEN Kept("interrupted", turn.partial) ELSE history
  /\ phase' = "drain" /\ turn' = NoTurn /\ task' = NoTask
  /\ UNCHANGED <<clock, queue, voz>>

(* The `stopped' frame finds the client gone: nothing is kept.             *)
EndStoppedUnsent ==
  /\ Over /\ ~turn.gone /\ turn.stopped
  /\ Close
  /\ UNCHANGED <<clock, msg, history>>

(* An answer: persist_turn first; a voice turn with an id is now the last. *)
EndAnswered ==
  /\ Over /\ ~turn.gone /\ ~turn.stopped /\ turn.finished = "ok"
  /\ history' = Kept("answer", 0)
  /\ voz' = IF Asked.voice /\ Asked.id # NoId
            THEN [voz EXCEPT !.last = turn.n]
            ELSE voz
  /\ phase' = "reply"
  /\ UNCHANGED <<clock, queue, turn, task, msg>>

EndFailed ==
  /\ Over /\ ~turn.gone /\ ~turn.stopped /\ turn.finished = "failed"
  /\ phase' = "reply"
  /\ UNCHANGED <<clock, queue, voz, turn, task, msg, history>>

(* drain_turns sends the final frame.                                      *)
Reply ==
  /\ phase = "reply"
  /\ Tell(turn.n, IF turn.finished = "ok" THEN "message" ELSE "error")
  /\ phase' = "drain" /\ turn' = NoTurn /\ task' = NoTask
  /\ UNCHANGED <<clock, queue, voz, history>>

ReplyUnsent ==
  /\ phase = "reply"
  /\ Close
  /\ UNCHANGED <<clock, msg, history>>

(* Time passes between turns and during one; what else the socket's task   *)
(* does is short of a unit of the clock, the wait for a first frame, cut   *)
(* off after 10 s, included.  Between turns a heartbeat that is due fires  *)
(* before more time passes; a turn keeps it from being polled.             *)
Tick ==
  /\ now < MaxTime /\ phase \in {"waiting", "turn"}
  /\ phase = "waiting" => now < beat
  /\ now' = now + 1
  /\ UNCHANGED <<beat, lastPong, pinged, stamps, phase, queue, voz, turn, task,
                 msg, history>>

(* What the socket's task does on its own once something is ready.         *)
Serve ==
  \/ Drained \/ Refuse \/ Start
  \/ TakeEvent \/ ChannelCloses \/ Join
  \/ EndGone \/ EndStopped \/ EndStoppedUnsent \/ EndAnswered \/ EndFailed
  \/ Reply \/ ReplyUnsent

(* What the turn's task does.                                              *)
Work == Emit \/ (\E r \in {"ok", "failed"} : Complete(r)) \/ Aborted

(* What the client sends and the socket's task reads.                      *)
Read ==
  \/ FirstOther \/ WaitingLimited \/ WaitingTooLarge \/ WaitingClose \/ Pong
  \/ TurnLimited
  \/ \E c \in NextChat : FirstMessage(c) \/ WaitingMessage(c) \/ TurnMessage(c)
  \/ \E stop \in Stop : WaitingStop(stop) \/ TurnStop(stop)
  \/ \E oversized \in BOOLEAN : TurnLeave(oversized)

Next == Serve \/ Work \/ Read \/ Heartbeat \/ Tick

(* The socket's task is scheduled, and an aborted task is dropped; nothing *)
(* is assumed of the client, nor that a turn ends by itself.               *)
Fairness == WF_vars(Serve) /\ WF_vars(Aborted)

Spec == Init /\ [][Next]_vars /\ Fairness

-------------------------------------------------------------------------------
(* The locals of the socket's task keep their shapes, the queue and the    *)
(* window their bounds, whichever way a message came in.                   *)
TypeOK ==
  /\ now \in Nat /\ beat \in Nat /\ lastPong \in Nat /\ pinged \in BOOLEAN
  /\ stamps \in Seq(Nat) /\ Len(stamps) <= RateMax
  /\ phase \in {"hello", "waiting", "drain", "turn", "reply", "closed"}
  /\ msg \in Seq(Message)
  /\ queue \in Seq(1..Len(msg)) /\ (Len(queue) <= 1 \/ Len(queue) <= MaxDeferred)
  /\ voz \in [last: 0..Len(msg), note: 0..Len(msg)]
  /\ turn \in [n: 0..Len(msg), open: BOOLEAN, stopped: BOOLEAN,
               finished: {"no", "ok", "failed", "cancelled"}, gone: BOOLEAN,
               by: Id \cup {Current, Invalid}, partial: 0..MaxPartial]
  /\ task \in [st: {"none", "running", "done"}, aborting: BOOLEAN,
               result: {"ok", "failed", "cancelled"}, events: 0..Channel,
               made: 0..MaxEvents]
  /\ history \in Seq([n: 1..Len(msg), kind: {"answer", "interrupted"},
                      said: 0..MaxPartial])

Settled(n) == msg[n].told # "none"

(* Messages are answered in the order they came, those that waited in the  *)
(* queue included, and the history has the turns in that order, each once: *)
(* no message is answered while an earlier one still waits.                *)
AnswersInOrder ==
  /\ \A i, j \in DOMAIN msg :
       i < j /\ msg[j].told \notin {"none", "busy"} => Settled(i)
  /\ \A i, j \in DOMAIN history : i < j => history[i].n < history[j].n

(* While the socket is open, a message that was not given its final frame  *)
(* is the running turn's or waits for one: whatever stops, refusals and    *)
(* failures came before it, it is not dropped without a word.              *)
NothingDropped ==
  phase # "closed" =>
    \A n \in DOMAIN msg :
      Settled(n) \/ turn.n = n \/ \E i \in DOMAIN queue : queue[i] = n

(* After a stop that cancels, the turn shows nothing more, gets no frame   *)
(* but `stopped', and leaves no answer in the history, even when its       *)
(* answer was ready before the stop was read.                              *)
StopSilences ==
  [][turn.stopped =>
       /\ msg'[turn.n].shown = msg[turn.n].shown
       /\ msg'[turn.n].told \in {"none", "stopped"}
       /\ \A i \in DOMAIN history' \ DOMAIN history :
            history'[i].kind = "interrupted"]_vars

(* A stop that names a turn cancels that turn and no other: a late stop of *)
(* an earlier answer does not cut the one that follows.                    *)
StopHitsItsTurn ==
  turn.stopped => turn.by \in {Current, msg[turn.n].chat.id}

(* When an answer is about to be kept and sent, its client has been shown  *)
(* every event of it: none is lost between the channel and the end of the  *)
(* task, and none can come after the final frame.                          *)
AnswerIsWhole ==
  phase = "reply" /\ turn.finished = "ok" /\ msg[turn.n].chat.stream
    => msg[turn.n].shown = task.made

(* What the history keeps of an interrupted voice turn is text that was    *)
(* generated before the stop: all the text its client was shown while that *)
(* fits in MaxPartial, else MaxPartial but for a character cut at its edge *)
(* (tool events are shown and not kept).  When the client asked for the    *)
(* stream it is never more than the client was shown.                      *)
InterruptedKeepsWhatWasShown ==
  \A i \in DOMAIN history : history[i].kind = "interrupted" =>
    LET said == history[i].said
        m == msg[history[i].n]
    IN  /\ m.text <= MaxPartial => said >= m.text
        /\ m.text > MaxPartial => MaxPartial - said < CharBytes
        /\ m.chat.stream => said <= m.text

(* The note the next voice turn gets is about a voice answer that was kept *)
(* and delivered, never about one that was stopped, failed or refused.     *)
NoteIsOfADeliveredAnswer ==
  voz.note # 0 =>
    /\ msg[voz.note].told = "message"
    /\ msg[voz.note].chat.voice
    /\ \E i \in DOMAIN history : history[i].n = voz.note /\ history[i].kind = "answer"

(* A stop takes effect and a client that left frees its turn, whatever the *)
(* turn was doing: nothing is assumed but that the socket's task runs and  *)
(* that an aborted task is dropped.                                        *)
StopEndsTheTurn == turn.stopped \/ turn.gone ~> turn.n = 0

===============================================================================
