--------------------------- MODULE Connection_proofs ---------------------------
(***************************************************************************)
(* Proofs about Connection, for every script of the client, every bound on *)
(* the queue, the channel, the window and the events, and every clock.     *)
(*                                                                         *)
(* What waits in the queue came after the turn that runs, in order, and    *)
(* everything without a final frame is in one of the two places: from that *)
(* the order of the answers follows, and that none is dropped.  The type   *)
(* comes last: its bounds rest on what the other invariants say of what    *)
(* was made, collected and shown.                                          *)
(***************************************************************************)
EXTENDS Connection, SequenceTheorems, WellFoundedInduction, TLAPS

Turns == [n: Nat, open: BOOLEAN, stopped: BOOLEAN,
          finished: {"no", "ok", "failed", "cancelled"}, gone: BOOLEAN,
          by: Id \cup {Current, Invalid}, partial: Nat]
Tasks == [st: {"none", "running", "done"}, aborting: BOOLEAN,
          result: {"ok", "failed", "cancelled"}, events: Nat, made: Nat]
Entry == [n: Nat, kind: {"answer", "interrupted"}, said: Nat]

(* The shapes the proofs need.  The window of the rate limit is not among  *)
(* them: nothing below depends on which messages it admits.                *)
Shape ==
  /\ phase \in {"hello", "waiting", "drain", "turn", "reply", "closed"}
  /\ msg \in Seq(Message)
  /\ queue \in Seq(Nat)
  /\ voz \in [last: Nat, note: Nat]
  /\ turn \in Turns
  /\ task \in Tasks
  /\ history \in Seq(Entry)

(* What the client sends is a chat message.                                *)
LEMMA NextIsChat ==
  ASSUME Shape, NEW c \in NextChat
  PROVE  c \in Chat
<1>1. Len(msg) + 1 \in 1..Len(Script)
  BY ConnectionAssumption DEF NextChat, Shape
<1>2. QED BY <1>1, ConnectionAssumption DEF NextChat

LEMMA TakenIsMessage ==
  ASSUME Shape, NEW c \in Chat, NEW told \in {"none", "busy"}
  PROVE  /\ Taken(c, told) \in Seq(Message)
         /\ Len(Taken(c, told)) = Len(msg) + 1
         /\ Taken(c, told)[Len(msg) + 1] = [chat |-> c, told |-> told, shown |-> 0, text |-> 0]
         /\ \A n \in DOMAIN msg : Taken(c, told)[n] = msg[n]
BY DEF Shape, Taken, Message, Final

LEMMA TellIsMessage ==
  ASSUME Shape, NEW n \in DOMAIN msg, NEW frame \in Final, Tell(n, frame)
  PROVE  /\ msg' \in Seq(Message) /\ Len(msg') = Len(msg)
         /\ \A m \in DOMAIN msg :
              /\ msg'[m].chat = msg[m].chat /\ msg'[m].shown = msg[m].shown
             /\ msg'[m].text = msg[m].text
              /\ msg'[m].text = msg[m].text
              /\ msg'[m].told = IF m = n THEN frame ELSE msg[m].told
<1>1. msg \in Seq(Message) /\ n \in 1..Len(msg) /\ msg[n] \in Message
  BY DEF Shape
<1> DEFINE e == [msg[n] EXCEPT !.told = frame]
<1>2. /\ e \in Message /\ e.told = frame
      /\ e.chat = msg[n].chat /\ e.shown = msg[n].shown /\ e.text = msg[n].text
  BY <1>1 DEF Message
<1>3. msg' = [msg EXCEPT ![n] = e]
  BY <1>1 DEF Tell
<1> HIDE DEF e
<1>4. /\ msg' \in Seq(Message) /\ Len(msg') = Len(msg)
      /\ \A m \in 1..Len(msg) : msg'[m] = IF m = n THEN e ELSE msg[m]
  BY <1>1, <1>2, <1>3, ExceptSeq
<1>5. DOMAIN msg = 1..Len(msg)
  BY <1>1
<1>6. QED BY <1>2, <1>4, <1>5

-------------------------------------------------------------------------------
(* Where the messages without a final frame are, and in which order.       *)
Order ==
  /\ phase \in {"turn", "reply"} <=> turn.n # 0
  /\ turn.n # 0 => turn.n \in DOMAIN msg /\ ~Settled(turn.n)
  /\ \A i \in DOMAIN queue :
       queue[i] \in DOMAIN msg /\ ~Settled(queue[i]) /\ turn.n < queue[i]
  /\ \A i, j \in DOMAIN queue : i < j => queue[i] < queue[j]
  /\ phase \in {"hello", "waiting"} => queue = <<>>
  /\ phase = "hello" => Len(msg) = 0
  /\ NothingDropped
  /\ AnswersInOrder
  /\ \A i \in DOMAIN history :
       /\ history[i].n \in DOMAIN msg /\ msg[history[i].n].told # "busy"
       /\ \/ Settled(history[i].n)
          \/ phase = "reply" /\ history[i].n = turn.n
          \/ phase = "closed"

Inv == Shape /\ Order

LEMMA InitInv == Init => Inv
BY DEF Init, Inv, Shape, Order, NothingDropped, AnswersInOrder, NoTurn, NoTask, Turns, Tasks

(* Nothing moved and nobody was told anything.                             *)
LEMMA StillInOrder ==
  ASSUME Inv, Shape', UNCHANGED <<phase, queue, history>>, turn'.n = turn.n,
         Len(msg') = Len(msg), \A n \in DOMAIN msg : msg'[n].told = msg[n].told
  PROVE  Inv'
<1>1. DOMAIN msg' = DOMAIN msg
  BY DEF Inv, Shape
<1>2. \A n \in DOMAIN msg : Settled(n)' <=> Settled(n)
  BY DEF Settled
<1>3. NothingDropped' /\ AnswersInOrder'
  BY <1>1, <1>2 DEF Inv, Order, NothingDropped, AnswersInOrder
<1>4. QED BY <1>1, <1>2, <1>3 DEF Inv, Order

LEMMA CloseKeeps ==
  ASSUME Inv, Close, UNCHANGED <<msg, history>>
  PROVE  Inv'
<1>1. Shape'
  BY DEF Inv, Shape, Close, NoTurn, NoTask, Turns, Tasks
<1>2. phase' = "closed" /\ queue' = <<>> /\ turn'.n = 0
  BY DEF Close, NoTurn
<1>3. NothingDropped' /\ AnswersInOrder'
  BY <1>2 DEF Inv, Order, NothingDropped, AnswersInOrder, Settled
<1>4. QED BY <1>1, <1>2, <1>3 DEF Inv, Order

LEMMA IdleKeeps ==
  ASSUME Inv, FirstOther \/ Drained
  PROVE  Inv'
<1>1. /\ phase \in {"hello", "drain"} /\ phase' = "waiting" /\ queue = <<>>
      /\ UNCHANGED <<queue, voz, turn, task, msg, history>>
      /\ turn.n = 0
  BY DEF FirstOther, Drained, ToMainLoop, Inv, Order
<1>2. Shape'
  BY <1>1 DEF Inv, Shape
<1>3. NothingDropped' /\ AnswersInOrder'
  BY <1>1 DEF Inv, Order, NothingDropped, AnswersInOrder, Settled
<1>4. \A i \in DOMAIN history : Settled(history[i].n)
  BY <1>1 DEF Inv, Order
<1>5. QED BY <1>1, <1>2, <1>3, <1>4 DEF Inv, Order, Settled

(* The first of a fresh round: the message goes to the queue alone.        *)
LEMMA FirstOfRoundKeeps ==
  ASSUME Inv, NEW c \in NextChat, FirstMessage(c) \/ WaitingMessage(c)
  PROVE  Inv'
<1> DEFINE k == Len(msg) + 1
<1>1. /\ phase \in {"hello", "waiting"} /\ phase' = "drain"
      /\ queue = <<>> /\ turn.n = 0
      /\ msg' = Taken(c, "none") /\ queue' = <<k>>
      /\ UNCHANGED <<voz, turn, task, history>>
  BY DEF FirstMessage, WaitingMessage, Inv, Order
<1>2. /\ msg' \in Seq(Message) /\ Len(msg') = k /\ k \in Nat
      /\ msg'[k].told = "none"
      /\ \A n \in DOMAIN msg : msg'[n] = msg[n]
      /\ DOMAIN msg = 1..Len(msg) /\ DOMAIN msg' = 1..k
  <2>1. Shape /\ c \in Chat /\ msg \in Seq(Message)
    BY NextIsChat DEF Inv, Shape
  <2>2. /\ msg' \in Seq(Message) /\ Len(msg') = k
        /\ msg'[k] = [chat |-> c, told |-> "none", shown |-> 0, text |-> 0]
        /\ \A n \in DOMAIN msg : msg'[n] = msg[n]
    BY <1>1, <2>1, TakenIsMessage
  <2>3. QED BY <2>1, <2>2
<1>3. /\ queue' \in Seq(Nat) /\ DOMAIN queue' = {1} /\ queue'[1] = k
  BY <1>1, <1>2
<1>4. Shape'
  BY <1>1, <1>2, <1>3 DEF Inv, Shape
<1>5. NothingDropped'
  BY <1>1, <1>2, <1>3 DEF Inv, Order, NothingDropped, Settled
<1>6. AnswersInOrder'
  BY <1>1, <1>2 DEF Inv, Order, AnswersInOrder, Settled
<1>7. QED BY <1>1, <1>2, <1>3, <1>4, <1>5, <1>6 DEF Inv, Order, Settled

-------------------------------------------------------------------------------
(* The head of the queue is the earliest message that waits.               *)
LEMMA HeadOfQueue ==
  ASSUME Inv, queue # <<>>
  PROVE  /\ Head(queue) \in DOMAIN msg /\ ~Settled(Head(queue))
         /\ turn.n < Head(queue)
         /\ Tail(queue) \in Seq(Nat)
         /\ \A i \in DOMAIN Tail(queue) :
              /\ Tail(queue)[i] \in DOMAIN msg /\ ~Settled(Tail(queue)[i])
              /\ Head(queue) < Tail(queue)[i]
         /\ \A i, j \in DOMAIN Tail(queue) :
              i < j => Tail(queue)[i] < Tail(queue)[j]
         /\ \A i \in DOMAIN queue : queue[i] # Head(queue) =>
              \E j \in DOMAIN Tail(queue) : Tail(queue)[j] = queue[i]
<1>1. /\ queue \in Seq(Nat) /\ Len(queue) \in Nat \ {0}
      /\ DOMAIN queue = 1..Len(queue)
      /\ Head(queue) = queue[1]
  BY EmptySeq DEF Inv, Shape
<1>2. /\ Tail(queue) \in Seq(Nat) /\ DOMAIN Tail(queue) = 1..(Len(queue) - 1)
      /\ \A i \in 1..(Len(queue) - 1) : Tail(queue)[i] = queue[i + 1]
  <2>1. /\ Tail(queue) \in Seq(Nat) /\ Len(Tail(queue)) = Len(queue) - 1
        /\ \A i \in 1..Len(Tail(queue)) : Tail(queue)[i] = queue[i + 1]
    BY <1>1, HeadTailProperties
  <2>2. QED BY <2>1
<1>3. /\ queue[1] \in DOMAIN msg /\ ~Settled(queue[1]) /\ turn.n < queue[1]
  BY <1>1 DEF Inv, Order
<1>4. ASSUME NEW i \in 1..(Len(queue) - 1)
      PROVE  /\ Tail(queue)[i] \in DOMAIN msg /\ ~Settled(Tail(queue)[i])
             /\ queue[1] < Tail(queue)[i]
  <2>1. i + 1 \in DOMAIN queue /\ 1 \in DOMAIN queue /\ 1 < i + 1
    BY <1>1
  <2>2. QED BY <1>2, <2>1 DEF Inv, Order
<1>5. ASSUME NEW i \in 1..(Len(queue) - 1), NEW j \in 1..(Len(queue) - 1), i < j
      PROVE  Tail(queue)[i] < Tail(queue)[j]
  <2>1. i + 1 \in DOMAIN queue /\ j + 1 \in DOMAIN queue /\ i + 1 < j + 1
    BY <1>1, <1>5
  <2>2. QED BY <1>2, <2>1 DEF Inv, Order
<1>6. ASSUME NEW i \in DOMAIN queue, queue[i] # queue[1]
      PROVE  \E j \in 1..(Len(queue) - 1) : Tail(queue)[j] = queue[i]
  <2>1. i - 1 \in 1..(Len(queue) - 1) /\ (i - 1) + 1 = i
    BY <1>1, <1>6
  <2>2. QED BY <1>2, <2>1
<1>7. QED BY <1>1, <1>2, <1>3, <1>4, <1>5, <1>6

(* The turn's message, or the first that waits when there is no turn, is   *)
(* the earliest without a final frame.                                     *)
LEMMA EarlierAreSettled ==
  ASSUME Inv, phase # "closed", NEW n \in DOMAIN msg,
         \/ turn.n = n
         \/ turn.n = 0 /\ queue # <<>> /\ n = Head(queue),
         NEW m \in DOMAIN msg, m < n
  PROVE  Settled(m)
<1> SUFFICES ASSUME ~Settled(m) PROVE FALSE
  OBVIOUS
<1>1. m \in Nat /\ n \in Nat /\ m # 0
  BY DEF Inv, Shape
<1>2. m # turn.n
  BY <1>1 DEF Inv, Order
<1>3. PICK i \in DOMAIN queue : queue[i] = m
  BY <1>2 DEF Inv, Order, NothingDropped
<1>4. CASE turn.n = n
  BY <1>1, <1>3, <1>4 DEF Inv, Order
<1>5. CASE queue # <<>> /\ n = Head(queue)
  <2>1. queue[i] # Head(queue)
    BY <1>1, <1>3, <1>5
  <2>2. PICK j \in DOMAIN Tail(queue) : Tail(queue)[j] = queue[i]
    BY <1>5, <2>1, HeadOfQueue
  <2>3. Head(queue) < Tail(queue)[j]
    BY <1>5, HeadOfQueue
  <2>4. QED BY <1>1, <1>3, <1>5, <2>2, <2>3
<1>6. QED BY <1>4, <1>5

(* Telling the earliest one keeps the answers in order.                    *)
LEMMA TellInOrder ==
  ASSUME Inv, phase # "closed", NEW n \in DOMAIN msg, ~Settled(n),
         \/ turn.n = n
         \/ turn.n = 0 /\ queue # <<>> /\ n = Head(queue),
         NEW frame \in Final, Tell(n, frame)
  PROVE  /\ msg' \in Seq(Message) /\ Len(msg') = Len(msg) /\ DOMAIN msg' = DOMAIN msg
         /\ \A m \in DOMAIN msg : Settled(m)' <=> (m = n \/ Settled(m))
         /\ \A i, j \in DOMAIN msg' :
              i < j /\ msg'[j].told \notin {"none", "busy"} => Settled(i)'
<1>1. /\ msg' \in Seq(Message) /\ Len(msg') = Len(msg) /\ DOMAIN msg' = DOMAIN msg
      /\ \A m \in DOMAIN msg :
           msg'[m].told = IF m = n THEN frame ELSE msg[m].told
  <2>1. Shape /\ msg \in Seq(Message)
    BY DEF Inv, Shape
  <2>2. QED BY <2>1, TellIsMessage
<1>2. \A m \in DOMAIN msg : Settled(m)' <=> (m = n \/ Settled(m))
  BY <1>1 DEF Settled, Final
<1>3. ASSUME NEW i \in DOMAIN msg, NEW j \in DOMAIN msg, i < j,
             msg'[j].told \notin {"none", "busy"}
      PROVE  Settled(i)'
  <2>1. CASE j = n
    BY <1>2, <1>3, <2>1, EarlierAreSettled
  <2>2. CASE j # n
    BY <1>1, <1>2, <1>3, <2>2 DEF Inv, Order, AnswersInOrder
  <2>3. QED BY <2>1, <2>2
<1>4. QED BY <1>1, <1>2, <1>3

(* What is left once the head of the queue is taken off.                   *)
Behind(h) ==
  /\ queue' \in Seq(Nat)
  /\ \A i \in DOMAIN queue' : /\ queue'[i] \in DOMAIN msg
                              /\ msg[queue'[i]].told = "none"
                              /\ h < queue'[i]
  /\ \A i, j \in DOMAIN queue' : i < j => queue'[i] < queue'[j]
  /\ \A m \in DOMAIN msg :
       m # h /\ msg[m].told = "none" /\ m # turn.n =>
         \E j \in DOMAIN queue' : queue'[j] = m

LEMMA TakeHead ==
  ASSUME Inv, phase = "drain", queue # <<>>, queue' = Tail(queue)
  PROVE  \E h \in Nat : /\ h = Head(queue) /\ h # 0 /\ h \in DOMAIN msg
                        /\ msg[h].told = "none" /\ Behind(h)
<1>1. /\ Head(queue) \in DOMAIN msg /\ msg[Head(queue)].told = "none"
      /\ Head(queue) \in Nat /\ Head(queue) # 0
  BY HeadOfQueue DEF Inv, Shape, Settled
<1>2. ASSUME NEW m \in DOMAIN msg, m # Head(queue), msg[m].told = "none", m # turn.n
      PROVE  \E j \in DOMAIN queue' : queue'[j] = m
  <2>1. PICK i \in DOMAIN queue : queue[i] = m
    BY <1>2 DEF Inv, Order, NothingDropped, Settled
  <2>2. QED BY <1>2, <2>1, HeadOfQueue
<1>3. Behind(Head(queue))
  BY <1>2, HeadOfQueue DEF Behind, Settled
<1>4. QED BY <1>1, <1>3

LEMMA RefuseKeeps ==
  ASSUME Inv, Refuse
  PROVE  Inv'
<1>1. /\ phase = "drain" /\ queue # <<>> /\ Tell(Head(queue), "refused")
      /\ queue' = Tail(queue) /\ turn.n = 0
      /\ UNCHANGED <<phase, voz, turn, task, history>>
  BY DEF Refuse, Inv, Order
<1>2. PICK n \in Nat : /\ n = Head(queue) /\ n # 0 /\ n \in DOMAIN msg
                       /\ msg[n].told = "none" /\ Behind(n)
  BY <1>1, TakeHead
<1>3. /\ msg' \in Seq(Message) /\ Len(msg') = Len(msg) /\ DOMAIN msg' = DOMAIN msg
      /\ \A i, j \in DOMAIN msg' :
           i < j /\ msg'[j].told \notin {"none", "busy"} => msg'[i].told # "none"
  BY <1>1, <1>2, TellInOrder DEF Final, Settled
<1>4. \A m \in DOMAIN msg :
        msg'[m].told = IF m = n THEN "refused" ELSE msg[m].told
  BY <1>1, <1>2, TellIsMessage DEF Inv, Final
<1>5. Shape'
  BY <1>1, <1>2, <1>3 DEF Inv, Shape, Behind
<1>6. NothingDropped'
  BY <1>1, <1>2, <1>3, <1>4 DEF Behind, NothingDropped, Settled
<1>7. \A i \in DOMAIN queue' :
        /\ queue'[i] \in DOMAIN msg' /\ msg'[queue'[i]].told = "none"
        /\ turn'.n < queue'[i]
  <2>1. ASSUME NEW i \in DOMAIN queue'
        PROVE  /\ queue'[i] \in DOMAIN msg' /\ msg'[queue'[i]].told = "none"
               /\ turn'.n < queue'[i]
    <3>1. /\ queue'[i] \in DOMAIN msg /\ msg[queue'[i]].told = "none"
          /\ n < queue'[i] /\ queue'[i] \in Nat
      BY <1>2 DEF Behind
    <3>2. QED BY <1>1, <1>2, <1>3, <1>4, <3>1
  <2>2. QED BY <2>1
<1>8. AnswersInOrder'
  BY <1>1, <1>3 DEF Inv, Order, AnswersInOrder, Settled
<1>9. \A i \in DOMAIN history' :
        /\ history'[i].n \in DOMAIN msg'
        /\ msg'[history'[i].n].told \notin {"none", "busy"}
  BY <1>1, <1>3, <1>4 DEF Inv, Order, Settled
<1>10. QED
  BY <1>1, <1>2, <1>5, <1>6, <1>7, <1>8, <1>9 DEF Inv, Order, Settled, Behind

LEMMA StartKeeps ==
  ASSUME Inv, Start
  PROVE  Inv'
<1>1. /\ phase = "drain" /\ queue # <<>> /\ turn.n = 0
      /\ turn' = TurnOf(Head(queue)) /\ task' = [NoTask EXCEPT !.st = "running"]
      /\ voz' = VozAtStart(Head(queue)) /\ queue' = Tail(queue) /\ phase' = "turn"
      /\ UNCHANGED <<msg, history>>
  BY DEF Start, Inv, Order
<1>2. PICK n \in Nat : /\ n = Head(queue) /\ n # 0 /\ n \in DOMAIN msg
                       /\ msg[n].told = "none" /\ Behind(n)
  BY <1>1, TakeHead
<1>3. turn'.n = n
  BY <1>1, <1>2 DEF TurnOf, NoTurn
<1>4. Shape'
  BY <1>1, <1>2 DEF Inv, Shape, TurnOf, NoTurn, NoTask, Turns, Tasks, VozAtStart, Behind
<1>5. NothingDropped'
  <2>1. ASSUME NEW m \in DOMAIN msg, msg[m].told = "none", m # n
        PROVE  \E j \in DOMAIN queue' : queue'[j] = m
    <3>1. m # turn.n
      BY <1>1 DEF Inv, Shape
    <3>2. QED BY <1>2, <2>1, <3>1 DEF Behind
  <2>2. QED BY <1>1, <1>3, <2>1 DEF NothingDropped, Settled
<1>6. AnswersInOrder'
  BY <1>1 DEF Inv, Order, AnswersInOrder, Settled
<1>7. QED
  BY <1>1, <1>2, <1>3, <1>4, <1>5, <1>6 DEF Inv, Order, Settled, Behind

LEMMA TurnMessageKeeps ==
  ASSUME Inv, NEW c \in NextChat, TurnMessage(c)
  PROVE  Inv'
<1>1. /\ phase = "turn"
      /\ UNCHANGED <<phase, voz, turn, task, history>>
      /\ \/ msg' = Taken(c, "none") /\ queue' = Append(queue, Len(msg) + 1)
         \/ msg' = Taken(c, "busy") /\ queue' = queue
  BY DEF TurnMessage, Listening, Deferred
<1>2. PICK k \in Nat : k = Len(msg) + 1
  BY DEF Inv, Shape
<1>3. PICK told \in {"none", "busy"} :
        /\ msg' = Taken(c, told)
        /\ told = "none" => queue' = Append(queue, k)
        /\ told = "busy" => queue' = queue
  BY <1>1, <1>2
<1>4. /\ msg' \in Seq(Message) /\ Len(msg') = k
      /\ msg'[k].told = told
      /\ \A n \in DOMAIN msg : msg'[n] = msg[n]
  <2>1. Shape /\ c \in Chat
    BY NextIsChat DEF Inv
  <2>2. /\ msg' \in Seq(Message) /\ Len(msg') = k
        /\ msg'[k] = [chat |-> c, told |-> told, shown |-> 0, text |-> 0]
        /\ \A n \in DOMAIN msg : msg'[n] = msg[n]
    BY <1>2, <1>3, <2>1, TakenIsMessage
  <2>3. QED BY <2>2
<1>5. /\ DOMAIN msg = 1..(k - 1) /\ DOMAIN msg' = 1..k /\ k > 0
      /\ \A n \in DOMAIN msg' : n \in Nat /\ (n \in DOMAIN msg \/ n = k)
  BY <1>2, <1>4 DEF Inv, Shape
<1>6. AnswersInOrder'
  <2>1. \A i, j \in DOMAIN msg' :
          i < j /\ msg'[j].told \notin {"none", "busy"} => msg'[i].told # "none"
    <3>1. ASSUME NEW i \in DOMAIN msg', NEW j \in DOMAIN msg', i < j,
                 msg'[j].told \notin {"none", "busy"}
          PROVE  msg'[i].told # "none"
      <4>1. j # k /\ j \in DOMAIN msg /\ i \in DOMAIN msg
        BY <1>4, <1>5, <3>1
      <4>2. QED BY <1>4, <3>1, <4>1 DEF Inv, Order, AnswersInOrder, Settled
    <3>2. QED BY <3>1
  <2>2. QED BY <1>1, <2>1 DEF Inv, Order, AnswersInOrder, Settled
<1>7. /\ turn.n \in DOMAIN msg /\ turn.n < k /\ turn.n # 0
      /\ \A i \in DOMAIN queue : /\ queue[i] \in DOMAIN msg /\ queue[i] < k
                                 /\ msg[queue[i]].told = "none"
                                 /\ turn.n < queue[i]
  BY <1>1, <1>5 DEF Inv, Order, Settled
<1>8. CASE told = "busy"
  <2>1. NothingDropped'
    BY <1>1, <1>3, <1>4, <1>5, <1>8
    DEF Inv, Order, NothingDropped, Settled
  <2>2. Shape'
    BY <1>1, <1>3, <1>4, <1>8 DEF Inv, Shape
  <2>3. QED
    BY <1>1, <1>3, <1>4, <1>5, <1>6, <1>7, <1>8, <2>1, <2>2
    DEF Inv, Order, Settled
<1>9. CASE told = "none"
  <2>1. PICK l \in Nat : l = Len(queue)
    BY DEF Inv, Shape
  <2>2. /\ queue' \in Seq(Nat) /\ DOMAIN queue' = 1..(l + 1)
        /\ queue'[l + 1] = k
        /\ DOMAIN queue = 1..l
        /\ \A i \in 1..l : queue'[i] = queue[i]
    <3>1. queue \in Seq(Nat) /\ queue' = Append(queue, k)
      BY <1>3, <1>9 DEF Inv, Shape
    <3>2. QED BY <2>1, <3>1
  <2>3. \A i \in DOMAIN queue' : /\ queue'[i] \in DOMAIN msg'
                                 /\ msg'[queue'[i]].told = "none"
                                 /\ turn'.n < queue'[i]
    <3>1. ASSUME NEW i \in 1..l
          PROVE  /\ queue'[i] \in DOMAIN msg' /\ msg'[queue'[i]].told = "none"
                 /\ turn'.n < queue'[i]
      <4>1. queue'[i] = queue[i] /\ i \in DOMAIN queue
        BY <2>2
      <4>2. /\ queue[i] \in DOMAIN msg /\ msg[queue[i]].told = "none"
            /\ turn.n < queue[i]
        BY <1>7, <4>1
      <4>3. msg'[queue[i]] = msg[queue[i]] /\ queue[i] \in DOMAIN msg'
        BY <1>4, <1>5, <4>2
      <4>4. turn' = turn
        BY <1>1
      <4>5. QED BY <4>1, <4>2, <4>3, <4>4
    <3>2. /\ queue'[l + 1] \in DOMAIN msg' /\ msg'[queue'[l + 1]].told = "none"
          /\ turn'.n < queue'[l + 1]
      <4>1. queue'[l + 1] = k /\ k \in DOMAIN msg' /\ turn' = turn
        BY <1>1, <1>5, <2>2
      <4>2. QED BY <1>4, <1>7, <1>9, <4>1
    <3>3. \A i \in DOMAIN queue' : i \in 1..l \/ i = l + 1
      BY <2>2
    <3>4. QED BY <3>1, <3>2, <3>3
  <2>4. \A i, j \in DOMAIN queue' : i < j => queue'[i] < queue'[j]
    <3>1. \A i, j \in 1..l : i < j => queue[i] < queue[j]
      BY <2>2 DEF Inv, Order
    <3>2. QED BY <1>7, <2>2, <3>1
  <2>5. NothingDropped'
    <3>1. ASSUME NEW n \in DOMAIN msg', msg'[n].told = "none", n # turn.n
          PROVE  \E i \in DOMAIN queue' : queue'[i] = n
      <4>1. CASE n = k
        BY <2>2, <4>1
      <4>2. CASE n \in DOMAIN msg
        <5>1. PICK i \in DOMAIN queue : queue[i] = n
          BY <1>1, <1>4, <3>1, <4>2 DEF Inv, Order, NothingDropped, Settled
        <5>2. QED BY <2>2, <5>1
      <4>3. QED BY <1>5, <4>1, <4>2
    <3>2. QED BY <1>1, <3>1 DEF NothingDropped, Settled
  <2>6. Shape'
    BY <1>1, <1>4, <2>2 DEF Inv, Shape
  <2>7. QED
    BY <1>1, <1>4, <1>5, <1>6, <1>7, <2>3, <2>4, <2>5, <2>6
    DEF Inv, Order, Settled
<1>10. QED BY <1>8, <1>9

(* The final frame of the turn, and what the history keeps of it.          *)
LEMMA FinalFrameKeeps ==
  ASSUME Inv, turn.n # 0, NEW frame \in Final \ {"busy"}, Tell(turn.n, frame),
         UNCHANGED <<queue, voz>>,
         phase' = "drain", turn' = NoTurn, task' = NoTask,
         \/ history' = history
         \/ phase = "turn" /\ history' = Kept("interrupted", turn.partial)
  PROVE  Inv'
<1>1. PICK n \in Nat : n = turn.n
  BY DEF Inv, Shape, Turns
<1>2. /\ n \in DOMAIN msg /\ ~Settled(n) /\ n # 0 /\ phase \in {"turn", "reply"}
  BY <1>1 DEF Inv, Order
<1>3. /\ msg' \in Seq(Message) /\ Len(msg') = Len(msg) /\ DOMAIN msg' = DOMAIN msg
      /\ \A i, j \in DOMAIN msg' :
           i < j /\ msg'[j].told \notin {"none", "busy"} => msg'[i].told # "none"
  BY <1>1, <1>2, TellInOrder DEF Settled
<1>4. \A m \in DOMAIN msg :
        msg'[m].told = IF m = n THEN frame ELSE msg[m].told
  BY <1>1, <1>2, TellIsMessage DEF Inv
<1>5. turn'.n = 0
  BY DEF NoTurn
<1>6. \A i \in DOMAIN queue :
        /\ queue[i] \in DOMAIN msg /\ msg[queue[i]].told = "none"
        /\ queue[i] # n /\ queue[i] > 0
  BY <1>1, <1>2 DEF Inv, Order, Settled, Shape
<1>7. NothingDropped'
  BY <1>1, <1>2, <1>3, <1>4, <1>6 DEF Inv, Order, NothingDropped, Settled, Final
<1>8. /\ history' \in Seq(Entry)
      /\ \A i \in DOMAIN history' :
           history'[i].n = n \/ (i \in DOMAIN history /\ history'[i] = history[i])
      /\ \A i, j \in DOMAIN history' : i < j => history'[i].n < history'[j].n
  <2>1. CASE history' = history
    BY <2>1 DEF Inv, Shape, Order, AnswersInOrder
  <2>2. CASE phase = "turn" /\ history' = Kept("interrupted", turn.partial)
    <3>1. PICK l \in Nat : l = Len(history)
      BY DEF Inv, Shape
    <3>2. [n |-> turn.n, kind |-> "interrupted", said |-> turn.partial] \in Entry
      BY DEF Inv, Shape, Turns, Entry
    <3>3. /\ history' \in Seq(Entry) /\ DOMAIN history' = 1..(l + 1)
          /\ history'[l + 1].n = n
          /\ DOMAIN history = 1..l
          /\ \A i \in 1..l : history'[i] = history[i]
      BY <1>1, <2>2, <3>1, <3>2 DEF Inv, Shape, Kept
    <3>4. \A i \in 1..l : history[i].n < n
      <4>1. ASSUME NEW i \in 1..l
            PROVE  history[i].n < n
        <5>1. /\ history[i].n \in DOMAIN msg /\ Settled(history[i].n)
              /\ msg[history[i].n].told # "busy"
          BY <2>2, <3>3 DEF Inv, Order
        <5>2. history[i].n \in Nat /\ history[i].n # n
          BY <1>2, <5>1 DEF Inv, Shape
        <5>3. ~(n < history[i].n)
          BY <1>2, <5>1 DEF Inv, Order, AnswersInOrder, Settled
        <5>4. QED BY <5>2, <5>3
      <4>2. QED BY <4>1
    <3>5. \A i, j \in 1..l : i < j => history[i].n < history[j].n
      BY <3>3 DEF Inv, Order, AnswersInOrder
    <3>6. QED BY <3>3, <3>4, <3>5
  <2>3. QED BY <2>1, <2>2
<1>9. \A i \in DOMAIN history' :
        /\ history'[i].n \in DOMAIN msg'
        /\ msg'[history'[i].n].told \notin {"none", "busy"}
  <2>1. ASSUME NEW i \in DOMAIN history', history'[i].n # n
        PROVE  /\ history'[i].n \in DOMAIN msg
               /\ msg[history'[i].n].told \notin {"none", "busy"}
    <3>1. i \in DOMAIN history /\ history'[i] = history[i]
      BY <1>8, <2>1
    <3>2. QED BY <1>1, <1>2, <2>1, <3>1 DEF Inv, Order, Settled
  <2>2. QED BY <1>2, <1>3, <1>4, <2>1 DEF Final
<1>10. Shape'
  BY <1>3, <1>8 DEF Inv, Shape, NoTurn, NoTask, Turns, Tasks
<1>11. AnswersInOrder'
  BY <1>3, <1>8 DEF AnswersInOrder, Settled
<1>12. QED
  BY <1>3, <1>4, <1>5, <1>6, <1>7, <1>9, <1>10, <1>11 DEF Inv, Order, Settled

LEMMA AnsweredKeeps ==
  ASSUME Inv, EndAnswered
  PROVE  Inv'
<1>1. /\ phase = "turn" /\ phase' = "reply" /\ history' = Kept("answer", 0)
      /\ UNCHANGED <<queue, turn, task, msg>>
  BY DEF EndAnswered, Over
<1>2. PICK n \in Nat : n = turn.n
  BY DEF Inv, Shape, Turns
<1>3. n \in DOMAIN msg /\ ~Settled(n) /\ n # 0
  BY <1>1, <1>2 DEF Inv, Order
<1>4. PICK l \in Nat : l = Len(history)
  BY DEF Inv, Shape
<1>5. /\ history' \in Seq(Entry) /\ DOMAIN history' = 1..(l + 1)
      /\ history'[l + 1].n = n
      /\ DOMAIN history = 1..l
      /\ \A i \in 1..l : history'[i] = history[i]
  <2>1. [n |-> turn.n, kind |-> "answer", said |-> 0] \in Entry
    BY DEF Inv, Shape, Turns, Entry
  <2>2. QED BY <1>1, <1>2, <1>4, <2>1 DEF Inv, Shape, Kept
<1>6. ASSUME NEW i \in 1..l
      PROVE  /\ history[i].n \in DOMAIN msg /\ Settled(history[i].n)
             /\ msg[history[i].n].told # "busy" /\ history[i].n < n
  <2>1. /\ history[i].n \in DOMAIN msg /\ Settled(history[i].n)
        /\ msg[history[i].n].told # "busy"
    BY <1>1, <1>5 DEF Inv, Order
  <2>2. history[i].n \in Nat /\ history[i].n # n
    BY <1>3, <2>1 DEF Inv, Shape
  <2>3. ~(n < history[i].n)
    BY <1>3, <2>1 DEF Inv, Order, AnswersInOrder, Settled
  <2>4. QED BY <2>1, <2>2, <2>3
<1>7. \A i, j \in 1..l : i < j => history[i].n < history[j].n
  BY <1>5 DEF Inv, Order, AnswersInOrder
<1>8. \A i, j \in DOMAIN history' : i < j => history'[i].n < history'[j].n
  BY <1>5, <1>6, <1>7
<1>9. Shape'
  BY <1>1, <1>2, <1>5 DEF EndAnswered, Inv, Shape
<1>10. NothingDropped' /\ AnswersInOrder'
  BY <1>1, <1>8 DEF Inv, Order, NothingDropped, AnswersInOrder, Settled
<1>11. QED
  BY <1>1, <1>2, <1>3, <1>5, <1>6, <1>9, <1>10 DEF Inv, Order, Settled

LEMMA FailedKeeps ==
  ASSUME Inv, EndFailed
  PROVE  Inv'
<1>1. /\ phase = "turn" /\ phase' = "reply"
      /\ UNCHANGED <<queue, turn, voz, task, msg, history>>
  BY DEF EndFailed, Over
<1>2. Shape'
  BY <1>1 DEF Inv, Shape
<1>3. NothingDropped' /\ AnswersInOrder'
  BY <1>1 DEF Inv, Order, NothingDropped, AnswersInOrder, Settled
<1>4. QED BY <1>1, <1>2, <1>3 DEF Inv, Order, Settled

(* The client was shown so much text, and this much of it is kept.         *)
Covers(said, shown) ==
  /\ shown <= MaxPartial => said >= shown
  /\ shown > MaxPartial => MaxPartial - said < CharBytes

(* A text is collected up to the cap: what covered the text shown before   *)
(* still does, and covers this text too if it held no more than was shown. *)
LEMMA CutCovers ==
  ASSUME turn.partial \in Nat, turn.partial <= MaxPartial,
         NEW text \in Nat, NEW kept \in Cut(text), NEW shown \in Nat,
         Covers(turn.partial, shown)
  PROVE  /\ kept \in Nat /\ kept <= MaxPartial /\ Covers(kept, shown)
         /\ turn.partial <= shown =>
              kept <= shown + text /\ Covers(kept, shown + text)
<1>1. MaxPartial \in Nat /\ CharBytes \in Nat
  BY ConnectionAssumption
<1>2. PICK p \in Nat : p = turn.partial
  OBVIOUS
<1>3. CASE p + text <= MaxPartial
  <2>1. kept = p + text
    BY <1>2, <1>3 DEF Cut
  <2> QED BY <1>1, <1>2, <1>3, <2>1 DEF Covers
<1>4. CASE ~(p + text <= MaxPartial)
  <2>1. kept \in p..MaxPartial /\ MaxPartial - kept < CharBytes
    BY <1>2, <1>4 DEF Cut
  <2>2. kept \in Nat /\ kept <= MaxPartial /\ p <= kept
    BY <1>1, <1>2, <2>1
  <2> QED BY <1>1, <1>2, <1>4, <2>1, <2>2 DEF Covers
<1> QED BY <1>3, <1>4

(* An event: what its sender was shown grows, nothing else of a message.   *)
LEMMA EventKeeps ==
  ASSUME Inv, TakeEvent
  PROVE  /\ Inv' /\ DOMAIN msg' = DOMAIN msg
         /\ \A n \in DOMAIN msg : /\ msg'[n].chat = msg[n].chat
                                  /\ msg'[n].told = msg[n].told
                                  /\ n # turn.n => msg'[n] = msg[n]
<1>1. PICK n \in Nat : n = turn.n
  BY DEF Inv, Shape, Turns
<1>2. n \in DOMAIN msg /\ msg \in Seq(Message) /\ msg[n] \in Message
  BY <1>1 DEF TakeEvent, Inv, Shape, Order
<1>3. /\ msg' \in Seq(Message) /\ Len(msg') = Len(msg)
      /\ \A m \in DOMAIN msg : /\ msg'[m].chat = msg[m].chat
                               /\ msg'[m].told = msg[m].told
                               /\ m # n => msg'[m] = msg[m]
  <2>1. CASE msg' = msg
    BY <1>2, <2>1
  <2>2. ASSUME NEW text \in 0..MaxText,
               msg' = [msg EXCEPT ![turn.n].shown = @ + 1, ![turn.n].text = @ + text]
        PROVE  /\ msg' \in Seq(Message) /\ Len(msg') = Len(msg)
               /\ \A m \in DOMAIN msg : /\ msg'[m].chat = msg[m].chat
                                        /\ msg'[m].told = msg[m].told
                                        /\ m # n => msg'[m] = msg[m]
    <3> DEFINE e == [msg[n] EXCEPT !.shown = @ + 1, !.text = @ + text]
    <3>0. msg[n].shown + 1 \in Nat /\ msg[n].text + text \in Nat
      <4>1. text \in Nat
        BY <2>2, ConnectionAssumption
      <4> QED BY <1>2, <4>1 DEF Message
    <3>1. e \in Message /\ e.chat = msg[n].chat /\ e.told = msg[n].told
      BY <1>2, <3>0, Zenon DEF Message
    <3>2. msg' = [msg EXCEPT ![n] = e]
      BY <1>1, <1>2, <2>2
    <3> HIDE DEF e
    <3>3. /\ msg' \in Seq(Message) /\ Len(msg') = Len(msg)
          /\ \A m \in 1..Len(msg) : msg'[m] = IF m = n THEN e ELSE msg[m]
      BY <1>2, <3>1, <3>2, ExceptSeq
    <3>4. DOMAIN msg = 1..Len(msg)
      BY <1>2
    <3>5. QED BY <3>1, <3>3, <3>4
  <2>3. QED BY <2>1, <2>2 DEF TakeEvent
<1>4. /\ UNCHANGED <<phase, queue, voz, history>> /\ turn'.n = turn.n
  BY DEF TakeEvent, Inv, Shape, Turns
<1>5. PICK text \in 0..MaxText, fails \in BOOLEAN :
        \E kept \in IF Collects THEN Cut(text) ELSE {turn.partial} :
          /\ turn' = [turn EXCEPT !.partial = kept, !.gone = @ \/ fails]
          /\ task' = [task EXCEPT !.events = @ - 1, !.aborting = @ \/ fails]
          /\ task.events > 0
  BY DEF TakeEvent
<1>6. PICK kept \in IF Collects THEN Cut(text) ELSE {turn.partial} :
        /\ turn' = [turn EXCEPT !.partial = kept, !.gone = @ \/ fails]
        /\ task' = [task EXCEPT !.events = @ - 1, !.aborting = @ \/ fails]
        /\ task.events > 0
  BY <1>5
<1>7. turn' \in Turns /\ task' \in Tasks
  <2>1. turn \in Turns /\ task \in Tasks
    BY DEF Inv, Shape
  <2>2. /\ (turn.gone \/ fails) \in BOOLEAN
        /\ kept \in Nat
    BY <2>1, ConnectionAssumption DEF Turns, Cut
  <2>3. /\ (task.aborting \/ fails) \in BOOLEAN
        /\ task.events - 1 \in Nat
    BY <1>6, <2>1 DEF Tasks
  <2>4. turn' \in Turns
    BY <1>6, <2>1, <2>2, Zenon DEF Turns
  <2>5. task' \in Tasks
    BY <1>6, <2>1, <2>3, Zenon DEF Tasks
  <2>6. QED BY <2>4, <2>5
<1>8. Shape'
  BY <1>3, <1>4, <1>7 DEF Inv, Shape
<1>9. Inv'
  BY <1>3, <1>4, <1>8, StillInOrder
<1>10. DOMAIN msg' = DOMAIN msg
  BY <1>2, <1>3
<1>11. QED BY <1>1, <1>3, <1>9, <1>10

(* Steps that touch neither the queue, the messages nor the history.       *)
LEMMA QuietKeeps ==
  ASSUME Inv, UNCHANGED <<phase, queue, msg, history>>, turn'.n = turn.n,
         voz' \in [last: Nat, note: Nat], turn' \in Turns, task' \in Tasks
  PROVE  Inv'
<1>1. Shape'
  BY DEF Inv, Shape
<1>2. QED BY <1>1, StillInOrder

LEMMA LateIsVoz ==
  ASSUME Inv, NEW stop \in Stop
  PROVE  Late(stop) \in [last: Nat, note: Nat]
BY DEF Late, Inv, Shape

LEMMA TaskKeeps ==
  ASSUME Inv, Work
  PROVE  Inv'
<1>1. task \in Tasks
  BY DEF Inv, Shape
<1>2. task' \in Tasks
  <2>1. CASE Emit
    <3>1. task.events + 1 \in Nat /\ task.made + 1 \in Nat
      BY <1>1 DEF Tasks
    <3>2. task' = [task EXCEPT !.events = task.events + 1, !.made = task.made + 1]
      BY <2>1 DEF Emit
    <3>3. QED BY <1>1, <3>1, <3>2, Zenon DEF Tasks
  <2>2. ASSUME NEW r \in {"ok", "failed"}, Complete(r)
        PROVE  task' \in Tasks
    BY <1>1, <2>2 DEF Complete, Tasks
  <2>3. CASE Aborted
    BY <1>1, <2>3 DEF Aborted, Tasks
  <2>4. QED BY <2>1, <2>2, <2>3 DEF Work
<1>3. UNCHANGED <<phase, queue, voz, turn, msg, history>>
  BY DEF Work, Emit, Complete, Aborted
<1>4. QED BY <1>2, <1>3, QuietKeeps DEF Inv, Shape

LEMMA ListenKeeps ==
  ASSUME Inv,
         \/ \E stop \in Stop : TurnStop(stop)
         \/ \E oversized \in BOOLEAN : TurnLeave(oversized)
  PROVE  Inv' /\ phase = "turn"
<1>1. turn \in Turns /\ task \in Tasks /\ voz \in [last: Nat, note: Nat]
  BY DEF Inv, Shape
<1>2. AbortTask \in Tasks
  BY <1>1 DEF AbortTask, Tasks
<1>3. ASSUME NEW stop \in Stop, TurnStop(stop)
      PROVE  Inv' /\ phase = "turn"
  <2>1. stop.to \in Id \cup {Current, Invalid}
    BY DEF Stop
  <2>2. /\ turn' \in Turns /\ turn'.n = turn.n /\ task' \in Tasks
        /\ voz' \in [last: Nat, note: Nat]
        /\ UNCHANGED <<phase, queue, msg, history>> /\ phase = "turn"
    BY <1>1, <1>2, <1>3, <2>1, LateIsVoz DEF TurnStop, Listening, Turns
  <2>3. QED BY <2>2, QuietKeeps
<1>4. ASSUME NEW oversized \in BOOLEAN, TurnLeave(oversized)
      PROVE  Inv' /\ phase = "turn"
  <2>1. /\ turn' \in Turns /\ turn'.n = turn.n /\ task' \in Tasks
        /\ UNCHANGED <<phase, queue, voz, msg, history>> /\ phase = "turn"
    BY <1>1, <1>2, <1>4 DEF TurnLeave, Listening, Turns
  <2>2. QED BY <1>1, <2>1, QuietKeeps
<1>5. QED BY <1>3, <1>4

(* Every step of the socket's task keeps the order.                        *)
LEMMA StepKeeps ==
  ASSUME Inv, [Next]_vars
  PROVE  Inv'
<1>1. CASE Drained \/ FirstOther
  BY <1>1, IdleKeeps
<1>2. CASE Refuse
  BY <1>2, RefuseKeeps
<1>3. CASE Start
  BY <1>3, StartKeeps
<1>4. CASE TakeEvent
  BY <1>4, EventKeeps
<1>5. CASE ChannelCloses \/ Join
  <2>1. turn \in Turns /\ task \in Tasks
    BY DEF Inv, Shape
  <2>2. turn' \in Turns /\ turn'.n = turn.n
    BY <1>5, <2>1 DEF ChannelCloses, Join, Turns, Tasks
  <2>3. UNCHANGED <<phase, queue, voz, task, msg, history>>
    BY <1>5 DEF ChannelCloses, Join
  <2>4. QED BY <2>2, <2>3, QuietKeeps DEF Inv, Shape
<1>6. CASE EndGone \/ EndStoppedUnsent \/ ReplyUnsent \/ WaitingTooLarge \/ WaitingClose
  BY <1>6, CloseKeeps
  DEF EndGone, EndStoppedUnsent, ReplyUnsent, WaitingTooLarge, WaitingClose
<1>7. CASE EndStopped
  <2>1. turn.n # 0
    BY <1>7 DEF EndStopped, Over, Inv, Order
  <2>2. QED BY <1>7, <2>1, FinalFrameKeeps DEF EndStopped, Over, Final
<1>8. CASE EndAnswered
  BY <1>8, AnsweredKeeps
<1>9. CASE EndFailed
  BY <1>9, FailedKeeps
<1>10. CASE Reply
  <2>1. turn.n # 0
    BY <1>10 DEF Reply, Inv, Order
  <2>2. PICK frame \in {"message", "error"} : Tell(turn.n, frame)
    BY <1>10 DEF Reply
  <2>3. QED BY <1>10, <2>1, <2>2, FinalFrameKeeps DEF Reply, Final
<1>11. CASE Work
  BY <1>11, TaskKeeps
<1>12. CASE WaitingLimited \/ Pong \/ TurnLimited \/ Tick
  <2>1. UNCHANGED <<phase, queue, voz, turn, task, msg, history>>
    BY <1>12 DEF WaitingLimited, Pong, TurnLimited, Tick
  <2>2. QED BY <2>1, QuietKeeps DEF Inv, Shape
<1>13. ASSUME NEW c \in NextChat, FirstMessage(c) \/ WaitingMessage(c)
       PROVE  Inv'
  BY <1>13, FirstOfRoundKeeps
<1>14. ASSUME NEW c \in NextChat, TurnMessage(c)
       PROVE  Inv'
  BY <1>14, TurnMessageKeeps
<1>15. ASSUME NEW stop \in Stop, WaitingStop(stop)
       PROVE  Inv'
  <2>1. /\ UNCHANGED <<phase, queue, turn, task, msg, history>>
        /\ voz' \in [last: Nat, note: Nat]
    BY <1>15, LateIsVoz DEF WaitingStop
  <2>2. QED BY <2>1, QuietKeeps DEF Inv, Shape
<1>16. CASE \/ \E stop \in Stop : TurnStop(stop)
            \/ \E oversized \in BOOLEAN : TurnLeave(oversized)
  BY <1>16, ListenKeeps
<1>17. CASE Heartbeat
  <2>1. CASE Close
    BY <1>17, <2>1, CloseKeeps DEF Heartbeat
  <2>2. CASE UNCHANGED <<phase, queue, voz, turn, task>>
    BY <1>17, <2>2, QuietKeeps DEF Heartbeat, Inv, Shape
  <2>3. QED BY <1>17, <2>1, <2>2 DEF Heartbeat
<1>18. CASE UNCHANGED vars
  BY <1>18, QuietKeeps DEF vars, Inv, Shape
<1>19. QED
  BY <1>1, <1>2, <1>3, <1>4, <1>5, <1>6, <1>7, <1>8, <1>9, <1>10, <1>11,
     <1>12, <1>13, <1>14, <1>15, <1>16, <1>17, <1>18 DEF Next, Serve, Read

LEMMA Invariant == Spec => []Inv
<1>1. QED BY InitInv, StepKeeps, PTL DEF Spec

(* Messages are answered in the order they came, and the history has the   *)
(* turns in that order.                                                    *)
THEOREM AnswersAlwaysInOrder == Spec => []AnswersInOrder
<1>1. Inv => AnswersInOrder
  BY DEF Inv, Order
<1>2. QED BY <1>1, Invariant, PTL

(* While the socket is open no message is dropped without a final frame.   *)
THEOREM NothingEverDropped == Spec => []NothingDropped
<1>1. Inv => NothingDropped
  BY DEF Inv, Order
<1>2. QED BY <1>1, Invariant, PTL

-------------------------------------------------------------------------------
(* A stop, or the client's departure, is of the turn that runs.            *)
Stopping ==
  /\ turn.stopped \/ turn.gone => phase = "turn"
  /\ StopHitsItsTurn

(* What the client was shown is what came out of the channel.              *)
Whole ==
  /\ phase \in {"turn", "reply"} /\ ~turn.open => task.st = "done" /\ task.events = 0
  /\ phase = "reply" => ~turn.open
  /\ \A i \in DOMAIN queue : msg[queue[i]].shown = 0 /\ msg[queue[i]].text = 0
  /\ phase \in {"turn", "reply"} /\ msg[turn.n].chat.stream
       /\ ~turn.stopped /\ ~turn.gone
     => msg[turn.n].shown + task.events = task.made

(* What is collected of the running turn covers the text that was shown,   *)
(* within the cap; of a stream it is no more than was shown.               *)
Collected ==
  /\ turn.partial <= MaxPartial
  /\ \A i \in DOMAIN history : history[i].said <= MaxPartial
  /\ phase = "turn" =>
       /\ Covers(turn.partial, msg[turn.n].text)
       /\ msg[turn.n].chat.stream /\ ~turn.gone => turn.partial <= msg[turn.n].text
  /\ InterruptedKeepsWhatWasShown

(* Whose answer the history has.                                           *)
Answered(n) ==
  /\ n \in DOMAIN msg /\ msg[n].chat.voice
  /\ \E i \in DOMAIN history : history[i].n = n /\ history[i].kind = "answer"

(* The last voice turn has its answer, on its way at the latest, and the   *)
(* note is of one that was delivered.                                      *)
Noted ==
  /\ voz.last # 0 =>
       /\ Answered(voz.last)
       /\ \/ msg[voz.last].told = "message"
          \/ phase = "reply" /\ voz.last = turn.n /\ turn.finished = "ok"
  /\ voz.note # 0 => Answered(voz.note) /\ msg[voz.note].told = "message"

Rest ==
  /\ Stopping
  /\ Whole
  /\ Collected
  /\ Noted

LEMMA InitRest == Init => Rest
BY ConnectionAssumption DEF Init, Rest, Stopping, StopHitsItsTurn, Whole, Collected,
       InterruptedKeepsWhatWasShown, Noted, NoTurn, NoTask

LEMMA CloseRest ==
  ASSUME Inv, Rest, Close, UNCHANGED <<msg, history>>
  PROVE  Rest'
<1>1. /\ phase' = "closed" /\ queue' = <<>> /\ turn' = NoTurn
      /\ voz' = [last |-> 0, note |-> 0] /\ UNCHANGED <<msg, history>>
  BY DEF Close
<1>2. Stopping' /\ Whole' /\ Noted'
  BY <1>1 DEF Stopping, StopHitsItsTurn, Whole, Noted, NoTurn
<1>3. Collected'
  <2>1. turn'.partial <= MaxPartial
    BY <1>1, ConnectionAssumption DEF NoTurn
  <2> QED BY <1>1, <2>1 DEF Rest, Collected, InterruptedKeepsWhatWasShown
<1>4. QED BY <1>2, <1>3 DEF Rest

(* Back to the main loop, or a step of the clock.                          *)
LEMMA IdleRest ==
  ASSUME Inv, Rest, UNCHANGED <<queue, voz, turn, task, msg, history>>,
         phase' = phase \/ (phase \in {"hello", "drain"} /\ phase' = "waiting")
  PROVE  Rest'
<1>1. Stopping'
  BY DEF Rest, Stopping, StopHitsItsTurn
<1>2. Whole'
  BY DEF Rest, Whole
<1>3. Collected'
  BY DEF Rest, Collected, InterruptedKeepsWhatWasShown
<1>4. Noted'
  BY DEF Rest, Noted, Answered
<1>5. QED BY <1>1, <1>2, <1>3, <1>4 DEF Rest

(* A message is taken: nothing known of the others changes.                *)
LEMMA TakeRest ==
  ASSUME Inv, Inv', Rest, NEW c \in NextChat, NEW told \in {"none", "busy"},
         msg' = Taken(c, told),
         UNCHANGED <<voz, turn, task, history>>,
         phase' = phase \/ (phase \in {"hello", "waiting"} /\ phase' = "drain"),
         \A i \in DOMAIN queue' :
           queue'[i] = Len(msg) + 1 \/ \E j \in DOMAIN queue : queue'[i] = queue[j]
  PROVE  Rest'
<1>1. /\ DOMAIN msg \subseteq DOMAIN msg'
      /\ \A n \in DOMAIN msg : msg'[n] = msg[n]
      /\ msg'[Len(msg) + 1].shown = 0 /\ msg'[Len(msg) + 1].text = 0
  <2>1. c \in Chat /\ Shape /\ Shape'
    BY NextIsChat DEF Inv
  <2>2. /\ Len(msg') = Len(msg) + 1
        /\ msg'[Len(msg) + 1] = [chat |-> c, told |-> told, shown |-> 0, text |-> 0]
        /\ \A n \in DOMAIN msg : msg'[n] = msg[n]
    BY <2>1, TakenIsMessage
  <2>3. /\ msg \in Seq(Message) /\ msg' \in Seq(Message)
    BY <2>1 DEF Shape
  <2>4. QED BY <2>2, <2>3
<1>2. phase' \in {"turn", "reply"} => phase' = phase /\ turn.n \in DOMAIN msg
  BY DEF Inv, Order
<1>3. Stopping'
  BY <1>1, <1>2 DEF Rest, Stopping, StopHitsItsTurn
<1>4. Whole'
  <2>1. \A i \in DOMAIN queue' : msg'[queue'[i]].shown = 0 /\ msg'[queue'[i]].text = 0
    BY <1>1 DEF Inv, Order, Rest, Whole
  <2>2. QED BY <1>1, <1>2, <2>1 DEF Rest, Whole
<1>5. Collected'
  <2>1. \A i \in DOMAIN history : msg'[history[i].n] = msg[history[i].n]
    BY <1>1 DEF Inv, Order
  <2>2. QED
    BY <1>1, <1>2, <2>1 DEF Rest, Collected, InterruptedKeepsWhatWasShown
<1>6. Noted'
  BY <1>1 DEF Rest, Noted, Answered
<1>7. QED BY <1>3, <1>4, <1>5, <1>6 DEF Rest

(* A frame is told and the queue left alone or shortened: the messages'    *)
(* other fields stay.                                                      *)
LEMMA RefuseRest ==
  ASSUME Inv, Rest, Refuse
  PROVE  Rest'
<1>1. /\ phase = "drain" /\ queue # <<>> /\ Tell(Head(queue), "refused")
      /\ queue' = Tail(queue)
      /\ UNCHANGED <<phase, voz, turn, task, history>>
  BY DEF Refuse
<1>2. PICK n \in Nat : /\ n = Head(queue) /\ n \in DOMAIN msg
                       /\ msg[n].told = "none" /\ Behind(n)
  BY <1>1, TakeHead
<1>3. /\ DOMAIN msg' = DOMAIN msg
      /\ \A m \in DOMAIN msg :
           /\ msg'[m].chat = msg[m].chat /\ msg'[m].shown = msg[m].shown
           /\ msg'[m].text = msg[m].text
           /\ m # n => msg'[m].told = msg[m].told
  <2>1. Shape /\ msg \in Seq(Message)
    BY DEF Inv, Shape
  <2>2. /\ msg' \in Seq(Message) /\ Len(msg') = Len(msg)
        /\ \A m \in DOMAIN msg :
             /\ msg'[m].chat = msg[m].chat /\ msg'[m].shown = msg[m].shown
             /\ msg'[m].text = msg[m].text
             /\ msg'[m].told = IF m = n THEN "refused" ELSE msg[m].told
    BY <1>1, <1>2, <2>1, TellIsMessage DEF Final
  <2>3. QED BY <2>1, <2>2
<1>4. ASSUME NEW i \in DOMAIN queue'
      PROVE  msg'[queue'[i]].shown = 0 /\ msg'[queue'[i]].text = 0
  <2>1. queue'[i] \in DOMAIN msg /\ \E j \in DOMAIN queue : queue[j] = queue'[i]
    BY <1>1, <1>2 DEF Behind, Inv, Order, NothingDropped, Settled
  <2>2. QED BY <1>3, <2>1 DEF Rest, Whole
<1>5. Stopping' /\ Whole'
  BY <1>1, <1>4 DEF Rest, Stopping, StopHitsItsTurn, Whole
<1>6. Collected'
  <2>1. \A i \in DOMAIN history : history[i].n \in DOMAIN msg
    BY DEF Inv, Order
  <2>2. QED
    BY <1>1, <1>3, <2>1 DEF Rest, Collected, InterruptedKeepsWhatWasShown
<1>7. Noted'
  <2>1. \A m : Answered(m) => Answered(m)'
    BY <1>1, <1>3 DEF Answered
  <2>2. QED BY <1>1, <1>2, <1>3, <2>1 DEF Rest, Noted, Answered
<1>8. QED BY <1>5, <1>6, <1>7 DEF Rest

LEMMA StartRest ==
  ASSUME Inv, Inv', Rest, Start
  PROVE  Rest'
<1>1. /\ phase = "drain" /\ queue # <<>>
      /\ turn' = TurnOf(Head(queue)) /\ task' = [NoTask EXCEPT !.st = "running"]
      /\ voz' = VozAtStart(Head(queue)) /\ queue' = Tail(queue) /\ phase' = "turn"
      /\ UNCHANGED <<msg, history>>
  BY DEF Start
<1>2. PICK n \in Nat : /\ n = Head(queue) /\ n \in DOMAIN msg
                       /\ msg[n].told = "none" /\ Behind(n)
  BY <1>1, TakeHead
<1>3. /\ turn'.n = n /\ turn'.open /\ ~turn'.stopped /\ ~turn'.gone
      /\ turn'.partial = 0 /\ task'.events = 0 /\ task'.made = 0
  BY <1>1, <1>2 DEF TurnOf, NoTurn, NoTask
<1>4. msg[n].shown = 0 /\ msg[n].text = 0
  <2>1. queue[1] = n /\ 1 \in DOMAIN queue
    BY <1>1, <1>2, EmptySeq DEF Inv, Shape
  <2>2. QED BY <2>1 DEF Rest, Whole
<1>5. ASSUME NEW i \in DOMAIN queue'
      PROVE  msg[queue'[i]].shown = 0 /\ msg[queue'[i]].text = 0
  <2>1. \E j \in DOMAIN queue : queue[j] = queue'[i]
    <3>1. /\ queue'[i] \in DOMAIN msg /\ msg[queue'[i]].told = "none"
          /\ turn.n = 0 /\ queue'[i] # 0
      <4>1. queue'[i] \in DOMAIN msg /\ msg[queue'[i]].told = "none"
        BY <1>2 DEF Behind
      <4>2. turn.n = 0
        BY <1>1 DEF Inv, Order
      <4>3. queue'[i] # 0
        BY <4>1 DEF Inv, Shape
      <4>4. QED BY <4>1, <4>2, <4>3
    <3>2. QED BY <1>1, <3>1 DEF Inv, Order, NothingDropped, Settled
  <2>2. QED BY <2>1 DEF Rest, Whole
<1>6. Stopping' /\ Whole'
  BY <1>1, <1>3, <1>4, <1>5 DEF Stopping, StopHitsItsTurn, Whole
<1>7. Collected'
  <2>1. Covers(0, 0) /\ 0 <= MaxPartial
    BY ConnectionAssumption DEF Covers
  <2> QED
    BY <1>1, <1>3, <1>4, <2>1 DEF Rest, Collected, InterruptedKeepsWhatWasShown
<1>8. Noted'
  <2>1. \A m : Answered(m) => Answered(m)'
    BY <1>1 DEF Answered
  <2>2. voz'.last = voz.last /\ (voz'.note = voz.note \/ voz'.note = 0)
    BY <1>1 DEF VozAtStart, Inv, Shape
  <2>3. QED BY <1>1, <2>1, <2>2 DEF Rest, Noted
<1>9. QED BY <1>6, <1>7, <1>8 DEF Rest

LEMMA EventRest ==
  ASSUME Inv, Rest, TakeEvent
  PROVE  Rest'
<1>1. PICK n \in Nat : n = turn.n
  BY DEF Inv, Shape, Turns
<1>e. PICK text \in 0..MaxText, fails \in BOOLEAN :
        \E kept \in IF Collects THEN Cut(text) ELSE {turn.partial} :
          /\ fails => Forwards
          /\ turn' = [turn EXCEPT !.partial = kept, !.gone = @ \/ fails]
          /\ task' = [task EXCEPT !.events = @ - 1, !.aborting = @ \/ fails]
          /\ msg' = IF Forwards /\ ~fails
                    THEN [msg EXCEPT ![turn.n].shown = @ + 1, ![turn.n].text = @ + text]
                    ELSE msg
  BY DEF TakeEvent
<1>2. PICK kept \in IF Collects THEN Cut(text) ELSE {turn.partial} :
        /\ fails => Forwards
        /\ turn' = [turn EXCEPT !.partial = kept, !.gone = @ \/ fails]
        /\ task' = [task EXCEPT !.events = @ - 1, !.aborting = @ \/ fails]
        /\ msg' = IF Forwards /\ ~fails
                  THEN [msg EXCEPT ![turn.n].shown = @ + 1, ![turn.n].text = @ + text]
                  ELSE msg
  BY <1>e
<1>3. /\ phase = "turn" /\ turn.open /\ UNCHANGED <<phase, queue, voz, history>>
      /\ task.events > 0 /\ turn \in Turns /\ task \in Tasks
      /\ n \in DOMAIN msg /\ msg \in Seq(Message) /\ msg[n] \in Message
      /\ \A i \in DOMAIN queue : queue[i] \in DOMAIN msg /\ queue[i] # n
  BY <1>1 DEF TakeEvent, Inv, Shape, Order
<1>4. /\ turn'.n = n /\ turn'.open /\ turn'.stopped = turn.stopped
      /\ turn'.by = turn.by /\ turn'.finished = turn.finished
      /\ turn'.partial = kept
      /\ ~turn'.gone => ~turn.gone /\ ~fails
      /\ task'.events = task.events - 1 /\ task'.made = task.made
      /\ task'.st = task.st
  <2>1. /\ turn'.n = n /\ turn'.open /\ turn'.stopped = turn.stopped
        /\ turn'.by = turn.by /\ turn'.finished = turn.finished
        /\ turn'.gone = (turn.gone \/ fails)
    BY <1>1, <1>2, <1>3, Zenon DEF Turns
  <2>2. turn'.partial = kept
    BY <1>2, <1>3, Zenon DEF Turns
  <2>3. /\ task'.events = task.events - 1 /\ task'.made = task.made
        /\ task'.st = task.st
    BY <1>2, <1>3 DEF Tasks
  <2>4. ~turn'.gone => ~turn.gone /\ ~fails
    BY <2>1, Zenon
  <2>5. QED BY <2>1, <2>2, <2>3, <2>4
<1>5. /\ DOMAIN msg' = DOMAIN msg
      /\ \A m \in DOMAIN msg : /\ msg'[m].chat = msg[m].chat
                               /\ msg'[m].told = msg[m].told
                               /\ m # n => msg'[m] = msg[m]
  BY <1>1, EventKeeps
<1>6. /\ Forwards /\ ~fails => /\ msg'[n].shown = msg[n].shown + 1
                                /\ msg'[n].text = msg[n].text + text
      /\ ~(Forwards /\ ~fails) => msg'[n] = msg[n]
  <2>1. CASE Forwards /\ ~fails
    <3>1. msg' = [msg EXCEPT ![n].shown = @ + 1, ![n].text = @ + text]
      BY <1>1, <1>2, <2>1, Zenon
    <3>2. msg'[n] = [[msg[n] EXCEPT !.shown = @ + 1] EXCEPT !.text = @ + text]
      BY <1>3, <3>1
    <3> QED BY <1>3, <2>1, <3>2 DEF Message
  <2>2. CASE ~(Forwards /\ ~fails)
    BY <1>2, <2>2
  <2> QED BY <2>1, <2>2
<1>7. Forwards <=> msg[n].chat.stream /\ ~turn.stopped /\ ~turn.gone
  BY <1>1 DEF Forwards, Asked
<1>8. /\ msg[n].shown \in Nat /\ msg[n].text \in Nat /\ turn.partial \in Nat
      /\ task.events \in Nat /\ task.made \in Nat /\ text \in Nat
  BY <1>3, ConnectionAssumption DEF Message, Turns, Tasks
<1>9. Stopping'
  BY <1>1, <1>3, <1>4, <1>5 DEF Rest, Stopping, StopHitsItsTurn
<1>10. Whole'
  <2>1. \A i \in DOMAIN queue' : msg'[queue'[i]].shown = 0 /\ msg'[queue'[i]].text = 0
    BY <1>3, <1>5 DEF Rest, Whole
  <2>2. ASSUME msg'[n].chat.stream, ~turn'.stopped, ~turn'.gone
        PROVE  msg'[n].shown + task'.events = task'.made
    <3>1. msg[n].chat.stream /\ ~turn.stopped /\ ~turn.gone /\ ~fails
      BY <1>3, <1>4, <1>5, <2>2
    <3>2. msg[n].shown + task.events = task.made
      BY <1>1, <1>3, <3>1 DEF Rest, Whole
    <3>3. msg'[n].shown = msg[n].shown + 1
      BY <1>6, <1>7, <3>1
    <3>4. QED BY <1>4, <1>8, <3>2, <3>3
  <2>3. QED BY <1>3, <1>4, <2>1, <2>2 DEF Whole
<1>11. Collected'
  <2>1. /\ kept <= MaxPartial /\ Covers(kept, msg'[n].text)
        /\ msg'[n].chat.stream /\ ~turn'.gone => kept <= msg'[n].text
    <3>1. /\ turn.partial <= MaxPartial /\ Covers(turn.partial, msg[n].text)
          /\ msg[n].chat.stream /\ ~turn.gone => turn.partial <= msg[n].text
      BY <1>1, <1>3 DEF Rest, Collected
    <3>2. CASE turn.stopped
      <4>1. kept = turn.partial
        BY <3>2 DEF Collects
      <4>2. msg'[n] = msg[n]
        BY <1>6, <1>7, <3>2
      <4> QED BY <1>4, <3>1, <4>1, <4>2
    <3>3. CASE ~turn.stopped
      <4>1. /\ kept <= MaxPartial /\ Covers(kept, msg[n].text)
            /\ turn.partial <= msg[n].text =>
                 kept <= msg[n].text + text /\ Covers(kept, msg[n].text + text)
        <5>1. kept \in Cut(text)
          BY <3>3 DEF Collects
        <5> QED BY <1>8, <3>1, <5>1, CutCovers
      <4>2. CASE Forwards /\ ~fails
        BY <1>5, <1>6, <1>7, <3>1, <4>1, <4>2
      <4>3. CASE ~(Forwards /\ ~fails)
        <5>1. msg'[n] = msg[n]
          BY <1>6, <4>3
        <5>2. ~(msg[n].chat.stream /\ ~turn'.gone)
          BY <1>4, <1>7, <3>3, <4>3
        <5> QED BY <4>1, <5>1, <5>2
      <4> QED BY <4>2, <4>3
    <3>4. QED BY <3>2, <3>3
  <2>2. \A i \in DOMAIN history : history[i].n \in DOMAIN msg /\ history[i].n # n
    BY <1>1, <1>3 DEF Inv, Order
  <2>3. QED
    BY <1>3, <1>4, <1>5, <2>1, <2>2
    DEF Rest, Collected, InterruptedKeepsWhatWasShown
<1>12. Noted'
  <2>1. \A m : Answered(m) => Answered(m)'
    BY <1>3, <1>5 DEF Answered
  <2>2. QED BY <1>3, <1>5, <2>1 DEF Rest, Noted, Answered
<1>13. QED BY <1>9, <1>10, <1>11, <1>12 DEF Rest

(* The two arms that only mark the turn.                                   *)
LEMMA MarkRest ==
  ASSUME Inv, Rest, ChannelCloses \/ Join
  PROVE  Rest'
<1>1. turn \in Turns
  BY DEF Inv, Shape
<1>2. /\ phase = "turn" /\ UNCHANGED <<phase, queue, voz, task, msg, history>>
      /\ turn'.n = turn.n /\ turn'.stopped = turn.stopped /\ turn'.gone = turn.gone
      /\ turn'.by = turn.by /\ turn'.partial = turn.partial
      /\ turn'.open = turn.open \/ (task.st = "done" /\ task.events = 0)
  BY <1>1 DEF ChannelCloses, Join, Turns
<1>3. Stopping' /\ Whole'
  BY <1>2 DEF Rest, Stopping, StopHitsItsTurn, Whole
<1>4. Collected'
  BY <1>2 DEF Rest, Collected, InterruptedKeepsWhatWasShown
<1>5. Noted'
  BY <1>2 DEF Rest, Noted, Answered
<1>6. QED BY <1>3, <1>4, <1>5 DEF Rest

(* The turn's task: an event more in the channel is an event more made.    *)
LEMMA WorkRest ==
  ASSUME Inv, Rest, Work
  PROVE  Rest'
<1>1. task \in Tasks
  BY DEF Inv, Shape
<1>2. UNCHANGED <<phase, queue, voz, turn, msg, history>> /\ task.st = "running"
  BY DEF Work, Emit, Complete, Aborted
<1>3. phase \in {"turn", "reply"} => turn.open
  BY <1>2 DEF Rest, Whole
<1>4. PICK k \in {0, 1} : task'.events = task.events + k /\ task'.made = task.made + k
  <2>1. CASE Emit
    BY <1>1, <2>1 DEF Emit, Tasks
  <2>2. ASSUME NEW r \in {"ok", "failed"}, Complete(r)
        PROVE  task'.events = task.events /\ task'.made = task.made
    BY <1>1, <2>2 DEF Complete, Tasks
  <2>3. CASE Aborted
    BY <1>1, <2>3 DEF Aborted, Tasks
  <2>4. task.events + 0 = task.events /\ task.made + 0 = task.made
    BY <1>1 DEF Tasks
  <2>5. QED BY <2>1, <2>2, <2>3, <2>4 DEF Work
<1>5. Whole'
  <2>1. ASSUME phase \in {"turn", "reply"}, msg[turn.n].chat.stream,
               ~turn.stopped, ~turn.gone
        PROVE  msg[turn.n].shown + task'.events = task'.made
    <3>1. msg[turn.n].shown + task.events = task.made
      BY <2>1 DEF Rest, Whole
    <3>2. msg[turn.n].shown \in Nat
      <4>1. turn.n \in DOMAIN msg /\ msg \in Seq(Message)
        BY <2>1 DEF Inv, Shape, Order
      <4>2. msg[turn.n] \in Message
        BY <4>1
      <4>3. QED BY <4>2 DEF Message
    <3>3. task.events \in Nat /\ task.made \in Nat
      BY <1>1 DEF Tasks
    <3>4. QED BY <1>4, <3>1, <3>2, <3>3
  <2>2. QED BY <1>2, <1>3, <2>1 DEF Rest, Whole
<1>6. Stopping'
  BY <1>2 DEF Rest, Stopping, StopHitsItsTurn
<1>7. Collected'
  BY <1>2 DEF Rest, Collected, InterruptedKeepsWhatWasShown
<1>8. Noted'
  BY <1>2 DEF Rest, Noted, Answered
<1>9. QED BY <1>5, <1>6, <1>7, <1>8 DEF Rest

(* A stop that does not cancel may turn the last voice turn into a note.   *)
LEMMA LateIsNoted ==
  ASSUME Inv, Rest, phase # "reply", NEW stop \in Stop,
         voz' = Late(stop) \/ voz' = voz, UNCHANGED <<phase, msg, history>>
  PROVE  Noted'
<1>1. \A n : Answered(n)' <=> Answered(n)
  BY DEF Answered
<1>2. /\ voz'.last = voz.last \/ voz'.last = 0
      /\ voz'.note = voz.note \/ voz'.note = voz.last \/ voz'.note = 0
  BY DEF Late, Inv, Shape
<1>3. QED BY <1>1, <1>2 DEF Rest, Noted

LEMMA ListenRest ==
  ASSUME Inv, Rest,
         \/ \E stop \in Stop : TurnStop(stop)
         \/ \E oversized \in BOOLEAN : TurnLeave(oversized)
  PROVE  Rest'
<1>1. turn \in Turns /\ task \in Tasks /\ phase = "turn" /\ turn.open \in BOOLEAN
  BY DEF Inv, Shape, TurnStop, TurnLeave, Listening, Turns
<1>2. /\ UNCHANGED <<phase, queue, msg, history>>
      /\ turn'.n = turn.n /\ turn'.open = turn.open
      /\ turn'.partial = turn.partial
      /\ turn.stopped => turn'.stopped
      /\ turn.gone => turn'.gone
      /\ task'.events = task.events /\ task'.made = task.made
      /\ task'.st = task.st
  BY <1>1 DEF TurnStop, TurnLeave, Turns, Tasks, AbortTask
<1>3. turn'.stopped => turn'.by \in {Current, msg[turn.n].chat.id}
  <2>1. turn.stopped => turn.by \in {Current, msg[turn.n].chat.id}
    BY DEF Rest, Stopping, StopHitsItsTurn
  <2>2. ASSUME NEW stop \in Stop, TurnStop(stop)
        PROVE  turn'.stopped => turn'.by \in {Current, msg[turn.n].chat.id}
    BY <1>1, <2>1, <2>2 DEF TurnStop, Cancels, Asked, Turns
  <2>3. ASSUME NEW oversized \in BOOLEAN, TurnLeave(oversized)
        PROVE  turn'.stopped => turn'.by \in {Current, msg[turn.n].chat.id}
    BY <1>1, <2>1, <2>3 DEF TurnLeave, Turns
  <2>4. QED BY <2>2, <2>3
<1>4. Stopping'
  BY <1>1, <1>2, <1>3 DEF Stopping, StopHitsItsTurn
<1>5. Whole'
  BY <1>1, <1>2 DEF Rest, Whole
<1>6. Collected'
  BY <1>1, <1>2 DEF Rest, Collected, InterruptedKeepsWhatWasShown
<1>7. Noted'
  <2>1. ASSUME NEW stop \in Stop, TurnStop(stop)
        PROVE  Noted'
    <3>1. voz' = Late(stop) \/ voz' = voz
      BY <2>1 DEF TurnStop
    <3>2. QED BY <1>1, <1>2, <3>1, LateIsNoted
  <2>2. CASE voz' = voz
    BY <1>1, <1>2, <2>2 DEF Rest, Noted, Answered
  <2>3. QED BY <2>1, <2>2 DEF TurnLeave
<1>8. QED BY <1>4, <1>5, <1>6, <1>7 DEF Rest

(* The final frame, and what is kept of an interrupted answer.             *)
LEMMA FinalFrameRest ==
  ASSUME Inv, Inv', Rest,
         \/ EndStopped
         \/ Reply
  PROVE  Rest'
<1>1. PICK n \in Nat : n = turn.n
  BY DEF Inv, Shape, Turns
<1>2. /\ phase \in {"turn", "reply"} /\ phase' = "drain" /\ turn' = NoTurn
      /\ UNCHANGED <<queue, voz>>
  BY DEF EndStopped, Reply, Over
<1>3. /\ n \in DOMAIN msg /\ msg[n].told = "none" /\ n # 0
      /\ \A i \in DOMAIN queue : queue[i] \in DOMAIN msg
  BY <1>1, <1>2 DEF Inv, Order, Settled
<1>4. PICK frame \in Final :
        /\ Tell(n, frame)
        /\ phase = "reply" /\ turn.finished = "ok" => frame = "message"
  BY <1>1 DEF EndStopped, Reply, Over, Final
<1>5. /\ DOMAIN msg' = DOMAIN msg
      /\ \A m \in DOMAIN msg :
           /\ msg'[m].chat = msg[m].chat /\ msg'[m].shown = msg[m].shown
           /\ msg'[m].text = msg[m].text
           /\ msg'[m].told = IF m = n THEN frame ELSE msg[m].told
  <2>1. Shape /\ msg \in Seq(Message)
    BY DEF Inv, Shape
  <2>2. /\ msg' \in Seq(Message) /\ Len(msg') = Len(msg)
        /\ \A m \in DOMAIN msg :
             /\ msg'[m].chat = msg[m].chat /\ msg'[m].shown = msg[m].shown
             /\ msg'[m].text = msg[m].text
             /\ msg'[m].told = IF m = n THEN frame ELSE msg[m].told
    BY <1>3, <1>4, <2>1, TellIsMessage
  <2>3. QED BY <2>1, <2>2
<1>6. /\ \A i \in DOMAIN history : i \in DOMAIN history' /\ history'[i] = history[i]
      /\ \A i \in DOMAIN history' :
           \/ i \in DOMAIN history
           \/ /\ history'[i].n = n /\ history'[i].said = turn.partial
              /\ phase = "turn" /\ ~turn.gone
  <2>1. CASE history' = history
    BY <2>1
  <2>2. CASE /\ history' = Kept("interrupted", turn.partial)
             /\ phase = "turn" /\ ~turn.gone
    BY <1>1, <2>2 DEF Kept, Inv, Shape
  <2>3. QED BY <2>1, <2>2 DEF EndStopped, Reply, Over
<1>7. Stopping' /\ Whole'
  BY <1>2, <1>3, <1>5 DEF Rest, Stopping, StopHitsItsTurn, Whole, NoTurn
<1>8. Collected'
  <2>1. ASSUME NEW i \in DOMAIN history', history'[i].kind = "interrupted"
        PROVE  /\ Covers(history'[i].said, msg'[history'[i].n].text)
               /\ msg'[history'[i].n].chat.stream =>
                    history'[i].said <= msg'[history'[i].n].text
    <3>1. CASE i \in DOMAIN history
      <4>1. history[i].n \in DOMAIN msg /\ history'[i] = history[i]
        BY <1>6, <3>1 DEF Inv, Order
      <4>2. /\ Covers(history[i].said, msg[history[i].n].text)
            /\ msg[history[i].n].chat.stream =>
                 history[i].said <= msg[history[i].n].text
        BY <2>1, <3>1, <4>1 DEF Rest, Collected, InterruptedKeepsWhatWasShown, Covers
      <4>3. QED BY <1>5, <4>1, <4>2
    <3>2. CASE i \notin DOMAIN history
      <4>1. /\ history'[i].n = n /\ history'[i].said = turn.partial
            /\ phase = "turn" /\ ~turn.gone
        BY <1>6, <2>1, <3>2
      <4>2. /\ Covers(turn.partial, msg[n].text)
            /\ msg[n].chat.stream => turn.partial <= msg[n].text
        BY <1>1, <4>1 DEF Rest, Collected
      <4>3. QED BY <1>3, <1>5, <4>1, <4>2
    <3>3. QED BY <3>1, <3>2
  <2>2. \A i \in DOMAIN history' : history'[i].said <= MaxPartial
    BY <1>6 DEF Rest, Collected
  <2>3. turn'.partial <= MaxPartial
    BY <1>2, ConnectionAssumption DEF NoTurn
  <2>4. InterruptedKeepsWhatWasShown'
    BY <2>1 DEF InterruptedKeepsWhatWasShown, Covers
  <2>5. QED BY <1>2, <2>2, <2>3, <2>4 DEF Collected
<1>9. Noted'
  <2>1. \A m : Answered(m) => Answered(m)'
    BY <1>5, <1>6 DEF Answered
  <2>2. voz.last # 0 => msg'[voz.last].told = "message"
    BY <1>1, <1>3, <1>4, <1>5 DEF Rest, Noted, Answered
  <2>3. voz.note # 0 => msg'[voz.note].told = "message"
    BY <1>3, <1>5 DEF Rest, Noted, Answered
  <2>4. QED BY <1>2, <2>1, <2>2, <2>3 DEF Rest, Noted
<1>10. QED BY <1>7, <1>8, <1>9 DEF Rest

(* The end with an answer or an error, before its frame.                   *)
LEMMA EndRest ==
  ASSUME Inv, Rest, EndAnswered \/ EndFailed
  PROVE  Rest'
<1>1. /\ phase = "turn" /\ phase' = "reply" /\ ~turn.stopped /\ ~turn.gone
      /\ ~turn.open /\ UNCHANGED <<queue, turn, task, msg>>
      /\ turn.n \in DOMAIN msg
  BY DEF EndAnswered, EndFailed, Over, Inv, Order
<1>2. /\ \A i \in DOMAIN history : i \in DOMAIN history' /\ history'[i] = history[i]
      /\ \A i \in DOMAIN history' :
           i \in DOMAIN history \/ (history'[i].kind = "answer" /\ history'[i].said = 0)
  <2>1. CASE history' = history
    BY <2>1
  <2>2. CASE history' = Kept("answer", 0)
    BY <2>2 DEF Kept, Inv, Shape
  <2>3. QED BY <2>1, <2>2 DEF EndAnswered, EndFailed
<1>3. Stopping' /\ Whole'
  BY <1>1 DEF Rest, Stopping, StopHitsItsTurn, Whole
<1>4. Collected'
  <2>1. \A i \in DOMAIN history' : history'[i].kind = "interrupted" =>
          i \in DOMAIN history /\ history'[i] = history[i]
    BY <1>2
  <2>2. \A i \in DOMAIN history' : history'[i].said <= MaxPartial
    BY <1>2, ConnectionAssumption DEF Rest, Collected
  <2>3. QED BY <1>1, <2>1, <2>2 DEF Rest, Collected, InterruptedKeepsWhatWasShown
<1>5. Noted'
  <2>1. \A m : Answered(m) => Answered(m)'
    BY <1>1, <1>2 DEF Answered
  <2>2. CASE voz' = voz
    BY <1>1, <2>1, <2>2 DEF Rest, Noted
  <2>3. CASE EndAnswered /\ Asked.voice /\ voz' = [voz EXCEPT !.last = turn.n]
    <3>1. voz'.last = turn.n /\ voz'.note = voz.note
      BY <2>3 DEF Inv, Shape
    <3>2. /\ Len(history) + 1 \in DOMAIN history'
          /\ history'[Len(history) + 1].n = turn.n
          /\ history'[Len(history) + 1].kind = "answer"
      BY <2>3 DEF EndAnswered, Kept, Inv, Shape
    <3>3. Answered(turn.n)'
      BY <1>1, <2>3, <3>2 DEF Answered, Asked
    <3>4. QED
      BY <1>1, <2>1, <2>3, <3>1, <3>3 DEF Rest, Noted, EndAnswered
  <2>4. QED BY <2>2, <2>3 DEF EndAnswered, EndFailed
<1>6. QED BY <1>3, <1>4, <1>5 DEF Rest

LEMMA StepRest ==
  ASSUME Inv, Rest, [Next]_vars
  PROVE  Rest'
<1> Inv'
  BY StepKeeps
<1>1. CASE Drained \/ FirstOther
  <2>1. /\ UNCHANGED <<queue, voz, turn, task, msg, history>>
        /\ phase \in {"hello", "drain"} /\ phase' = "waiting"
    BY <1>1 DEF Drained, FirstOther, ToMainLoop
  <2>2. QED BY <2>1, IdleRest
<1>2. CASE Refuse
  BY <1>2, RefuseRest
<1>3. CASE Start
  BY <1>3, StartRest
<1>4. CASE TakeEvent
  BY <1>4, EventRest
<1>5. CASE ChannelCloses \/ Join
  BY <1>5, MarkRest
<1>6. CASE EndGone \/ EndStoppedUnsent \/ ReplyUnsent \/ WaitingTooLarge \/ WaitingClose
  BY <1>6, CloseRest
  DEF EndGone, EndStoppedUnsent, ReplyUnsent, WaitingTooLarge, WaitingClose
<1>7. CASE EndStopped \/ Reply
  BY <1>7, FinalFrameRest
<1>8. CASE EndAnswered \/ EndFailed
  BY <1>8, EndRest
<1>9. CASE Work
  BY <1>9, WorkRest
<1>10. CASE WaitingLimited \/ Pong \/ TurnLimited \/ Tick
  BY <1>10, IdleRest DEF WaitingLimited, Pong, TurnLimited, Tick
<1>11. ASSUME NEW c \in NextChat, FirstMessage(c) \/ WaitingMessage(c)
       PROVE  Rest'
  <2>1. /\ UNCHANGED <<voz, turn, task, history>>
        /\ msg' = Taken(c, "none") /\ queue' = <<Len(msg) + 1>>
        /\ phase \in {"hello", "waiting"} /\ phase' = "drain"
    <3>1. CASE FirstMessage(c)
      <4>1. Len(msg) = 0 /\ Len(msg) + 1 = 1
        BY <3>1 DEF FirstMessage, Inv, Order
      <4>2. QED BY <3>1, <4>1 DEF FirstMessage
    <3>2. CASE WaitingMessage(c)
      BY <3>2 DEF WaitingMessage
    <3>3. QED BY <1>11, <3>1, <3>2
  <2>2. \A i \in DOMAIN queue' : queue'[i] = Len(msg) + 1
    BY <2>1
  <2>3. QED BY <2>1, <2>2, TakeRest
<1>12. ASSUME NEW c \in NextChat, TurnMessage(c)
       PROVE  Rest'
  <2>1. PICK told \in {"none", "busy"} :
          /\ msg' = Taken(c, told)
          /\ queue' = queue \/ queue' = Append(queue, Len(msg) + 1)
    BY <1>12 DEF TurnMessage, Deferred
  <2>2. \A i \in DOMAIN queue' :
          queue'[i] = Len(msg) + 1 \/ \E j \in DOMAIN queue : queue'[i] = queue[j]
    <3>1. /\ queue \in Seq(Nat) /\ Len(msg) + 1 \in Nat /\ Len(queue) \in Nat
          /\ DOMAIN queue = 1..Len(queue)
      BY DEF Inv, Shape
    <3>2. CASE queue' = queue
      BY <3>2
    <3>3. CASE queue' = Append(queue, Len(msg) + 1)
      <4>1. /\ DOMAIN queue' = 1..(Len(queue) + 1)
            /\ queue'[Len(queue) + 1] = Len(msg) + 1
            /\ \A i \in 1..Len(queue) : queue'[i] = queue[i]
        BY <3>1, <3>3
      <4>2. QED BY <3>1, <4>1
    <3>4. QED BY <2>1, <3>2, <3>3
  <2>3. QED BY <1>12, <2>1, <2>2, TakeRest DEF TurnMessage
<1>13. ASSUME NEW stop \in Stop, WaitingStop(stop)
       PROVE  Rest'
  <2>1. /\ voz' = Late(stop) /\ phase = "waiting"
        /\ UNCHANGED <<phase, queue, turn, task, msg, history>>
    BY <1>13 DEF WaitingStop
  <2>2. Noted'
    BY <2>1, LateIsNoted
  <2>3. Stopping' /\ Whole'
    BY <2>1 DEF Rest, Stopping, StopHitsItsTurn, Whole
  <2>4. Collected'
    BY <2>1 DEF Rest, Collected, InterruptedKeepsWhatWasShown
  <2>5. QED BY <2>2, <2>3, <2>4 DEF Rest
<1>14. CASE \/ \E stop \in Stop : TurnStop(stop)
            \/ \E oversized \in BOOLEAN : TurnLeave(oversized)
  BY <1>14, ListenRest
<1>15. CASE Heartbeat
  BY <1>15, CloseRest, IdleRest DEF Heartbeat
<1>16. CASE UNCHANGED vars
  BY <1>16, IdleRest DEF vars
<1>17. QED
  BY <1>1, <1>2, <1>3, <1>4, <1>5, <1>6, <1>7, <1>8, <1>9, <1>10, <1>11,
     <1>12, <1>13, <1>14, <1>15, <1>16 DEF Next, Serve, Read

LEMMA FullInvariant == Spec => [](Inv /\ Rest)
<1>1. Inv /\ Rest /\ [Next]_vars => (Inv /\ Rest)'
  BY StepKeeps, StepRest
<1>2. QED BY InitInv, InitRest, <1>1, PTL DEF Spec

(* A stop that names a turn cancels that turn and no other.                *)
THEOREM StopAlwaysHitsItsTurn == Spec => []StopHitsItsTurn
<1>1. Rest => StopHitsItsTurn
  BY DEF Rest, Stopping
<1>2. QED BY <1>1, FullInvariant, PTL

(* An answer about to be sent was shown whole.                             *)
THEOREM AnswerIsAlwaysWhole == Spec => []AnswerIsWhole
<1>1. Inv /\ Rest => AnswerIsWhole
  <2> SUFFICES ASSUME Inv, Rest, phase = "reply", msg[turn.n].chat.stream
               PROVE  msg[turn.n].shown = task.made
    BY DEF AnswerIsWhole
  <2>1. ~turn.open /\ ~turn.stopped /\ ~turn.gone
    BY DEF Rest, Whole, Stopping
  <2>2. msg[turn.n].shown + task.events = task.made /\ task.events = 0
    BY <2>1 DEF Rest, Whole
  <2>3. msg[turn.n].shown \in Nat
    <3>1. turn.n \in DOMAIN msg /\ msg \in Seq(Message)
      BY DEF Inv, Shape, Order
    <3>2. msg[turn.n] \in Message
      BY <3>1
    <3>3. QED BY <3>2 DEF Message
  <2>4. QED BY <2>2, <2>3
<1>2. QED BY <1>1, FullInvariant, PTL

(* The history of an interrupted turn has the text that was shown, up to   *)
(* the cap and a character cut at its edge, and no more than was shown of  *)
(* a stream (run_streaming_turn's partial, persist_turn).                  *)
THEOREM InterruptedAlwaysKeepsWhatWasShown == Spec => []InterruptedKeepsWhatWasShown
<1>1. Rest => InterruptedKeepsWhatWasShown
  BY DEF Rest, Collected
<1>2. QED BY <1>1, FullInvariant, PTL

(* The note is about an answer that was kept and delivered.                *)
THEOREM NoteIsAlwaysOfADeliveredAnswer == Spec => []NoteIsOfADeliveredAnswer
<1>1. Rest => NoteIsOfADeliveredAnswer
  BY DEF Rest, Noted, Answered, NoteIsOfADeliveredAnswer
<1>2. QED BY <1>1, FullInvariant, PTL

(* After a stop nothing more is shown or kept but what was generated.      *)
THEOREM StopAlwaysSilences == Spec => StopSilences
<1>1. ASSUME Inv, Rest, [Next]_vars, turn.stopped
      PROVE  /\ msg'[turn.n].shown = msg[turn.n].shown
             /\ msg'[turn.n].told \in {"none", "stopped"}
             /\ \A i \in DOMAIN history' \ DOMAIN history :
                  history'[i].kind = "interrupted"
  <2>1. /\ phase = "turn" /\ turn.n \in DOMAIN msg /\ msg[turn.n].told = "none"
    BY <1>1 DEF Inv, Order, Rest, Stopping, Settled
  <2>2. CASE UNCHANGED <<msg, history>>
    BY <2>1, <2>2
  <2>3. CASE TakeEvent
    BY <1>1, <2>2, <2>3 DEF TakeEvent, Forwards
  <2>4. CASE EndStopped
    <3>1. /\ msg'[turn.n].shown = msg[turn.n].shown
          /\ msg'[turn.n].told = "stopped"
      <4>1. Shape /\ Tell(turn.n, "stopped")
        BY <1>1, <2>4 DEF Inv, EndStopped
      <4>2. QED BY <2>1, <4>1, TellIsMessage DEF Final
    <3>2. CASE history' = history
      BY <3>1, <3>2
    <3>3. CASE history' = Kept("interrupted", turn.partial)
      <4>1. history \in Seq(Entry)
        BY <1>1 DEF Inv, Shape
      <4>2. \A i \in DOMAIN history' \ DOMAIN history :
              history'[i].kind = "interrupted"
        BY <3>3, <4>1 DEF Kept
      <4>3. QED BY <3>1, <4>2
    <3>4. QED BY <2>4, <3>2, <3>3 DEF EndStopped
  <2>5. ASSUME NEW c \in NextChat, TurnMessage(c)
        PROVE  msg'[turn.n] = msg[turn.n] /\ history' = history
    <3>1. Shape /\ c \in Chat
      BY <1>1, NextIsChat DEF Inv
    <3>2. PICK told \in {"none", "busy"} : msg' = Taken(c, told)
      BY <2>5 DEF TurnMessage
    <3>3. msg'[turn.n] = msg[turn.n]
      BY <2>1, <3>1, <3>2, TakenIsMessage
    <3>4. QED BY <2>5, <3>3 DEF TurnMessage
  <2>6. ~Drained /\ ~Refuse /\ ~Start /\ ~EndAnswered /\ ~EndFailed /\ ~Reply
        /\ ~ReplyUnsent /\ ~FirstOther
    BY <1>1, <2>1
    DEF Drained, Refuse, Start, EndAnswered, EndFailed, Reply, ReplyUnsent, FirstOther
  <2>7. \A c \in NextChat : ~FirstMessage(c) /\ ~WaitingMessage(c)
    BY <2>1 DEF FirstMessage, WaitingMessage
  <2>8. CASE \/ Work \/ ChannelCloses \/ Join \/ EndGone \/ EndStoppedUnsent
             \/ WaitingLimited \/ WaitingTooLarge \/ WaitingClose \/ Pong
             \/ TurnLimited \/ Heartbeat \/ Tick
    <3>1. UNCHANGED <<msg, history>>
      BY <2>8
      DEF Work, Emit, Complete, Aborted, ChannelCloses, Join, EndGone,
          EndStoppedUnsent, WaitingLimited, WaitingTooLarge, WaitingClose, Pong,
          TurnLimited, Heartbeat, Tick
    <3>2. QED BY <2>2, <3>1
  <2>9. CASE \/ \E stop \in Stop : WaitingStop(stop) \/ TurnStop(stop)
             \/ \E oversized \in BOOLEAN : TurnLeave(oversized)
    BY <2>2, <2>9 DEF WaitingStop, TurnStop, TurnLeave
  <2>10. CASE UNCHANGED vars
    BY <2>2, <2>10 DEF vars
  <2>11. QED
    BY <1>1, <2>1, <2>3, <2>4, <2>5, <2>6, <2>7, <2>8, <2>9, <2>10
    DEF Next, Serve, Read
<1>2. Inv /\ Rest /\ [Next]_vars =>
        [turn.stopped =>
           /\ msg'[turn.n].shown = msg[turn.n].shown
           /\ msg'[turn.n].told \in {"none", "stopped"}
           /\ \A i \in DOMAIN history' \ DOMAIN history :
                history'[i].kind = "interrupted"]_vars
  BY <1>1
<1>3. QED BY <1>2, FullInvariant, PTL DEF Spec, StopSilences

-------------------------------------------------------------------------------
(* A set of naturals has a least element.                                  *)
LEMMA LeastNatural ==
  ASSUME NEW T, T \subseteq Nat, T # {}
  PROVE  \E n \in T : \A m \in T : n <= m
<1>1. PICK n \in T : \A m \in T : ~(<<m, n>> \in OpToRel(<, Nat))
  BY NatLessThanWellFounded, WFMin, Zenon
<1>2. \A m \in T : ~(m < n)
  BY <1>1, Zenon DEF OpToRel
<1>3. QED
  BY <1>2

(* What retain has kept of the first n times.                              *)
RetainedOf(kept, times, t, n) ==
  kept = [i \in 0..n |-> IF i = 0 THEN <<>>
                         ELSE IF t - times[i] < Window THEN Append(kept[i - 1], times[i])
                         ELSE kept[i - 1]]

(* Such a function exists: extend the one for n - 1, from the least n that *)
(* would have none.                                                        *)
LEMMA RetainedExists ==
  ASSUME NEW times \in Seq(Nat), NEW t \in Nat
  PROVE  \E kept : RetainedOf(kept, times, t, Len(times))
<1> DEFINE T == {n \in Nat : ~\E kept : RetainedOf(kept, times, t, n)}
<1>0. Len(times) \in Nat
  OBVIOUS
<1> SUFFICES ASSUME T # {} PROVE FALSE
  BY <1>0
<1>1. PICK n \in T : \A m \in T : n <= m
  BY LeastNatural
<1>2. n # 0
  <2> DEFINE kept == [i \in 0..0 |-> <<>>]
  <2>1. RetainedOf(kept, times, t, 0)
    BY DEF RetainedOf
  <2> HIDE DEF kept
  <2>2. QED
    BY <2>1
<1> DEFINE p == n - 1
<1>3. p \in Nat /\ ~(n <= p) /\ n = p + 1
  BY <1>2
<1> HIDE DEF p
<1>4. p \notin T
  BY <1>1, <1>3
<1>5. PICK f : RetainedOf(f, times, t, p)
  BY <1>3, <1>4
<1> DEFINE last == IF t - times[n] < Window THEN Append(f[p], times[n]) ELSE f[p]
           g == [i \in 0..n |-> IF i = n THEN last ELSE f[i]]
<1>6. \A i \in 0..p : g[i] = f[i]
  BY <1>3
<1>7. g[n] = last
  BY <1>3
<1>8. \A i \in 0..n : g[i] = IF i = 0 THEN <<>>
                             ELSE IF t - times[i] < Window THEN Append(g[i - 1], times[i])
                             ELSE g[i - 1]
  <2>1. \A i \in 0..p : f[i] = IF i = 0 THEN <<>>
                               ELSE IF t - times[i] < Window THEN Append(f[i - 1], times[i])
                               ELSE f[i - 1]
    BY <1>5 DEF RetainedOf
  <2>2. g[n - 1] = f[p]
    BY <1>3, <1>6
  <2>3. ASSUME NEW i \in 0..p
        PROVE  g[i] = IF i = 0 THEN <<>>
                      ELSE IF t - times[i] < Window THEN Append(g[i - 1], times[i])
                      ELSE g[i - 1]
    <3>1. i # 0 => i - 1 \in 0..p
      BY <1>3
    <3> HIDE DEF g
    <3>2. QED
      BY <1>6, <2>1, <3>1
  <2> HIDE DEF g
  <2>4. \A i \in 0..n : i \in 0..p \/ i = n
    BY <1>3
  <2>5. QED
    BY <1>2, <1>7, <2>2, <2>3, <2>4
<1>9. RetainedOf(g, times, t, n)
  BY <1>8 DEF RetainedOf
<1> HIDE DEF g
<1>10. QED
  BY <1>1, <1>9

(* retain keeps times, and no more of them than there were.                *)
LEMMA RetainedBounds ==
  ASSUME NEW times \in Seq(Nat), NEW t \in Nat
  PROVE  Retained(times, t) \in Seq(Nat) /\ Len(Retained(times, t)) <= Len(times)
<1> DEFINE kept == CHOOSE k : RetainedOf(k, times, t, Len(times))
<1>1. RetainedOf(kept, times, t, Len(times))
  BY RetainedExists
<1>2. Retained(times, t) = kept[Len(times)]
  BY DEF Retained, RetainedOf
<1> HIDE DEF kept
<1>3. \A i \in 0..Len(times) :
        kept[i] = IF i = 0 THEN <<>>
                  ELSE IF t - times[i] < Window THEN Append(kept[i - 1], times[i])
                  ELSE kept[i - 1]
  BY <1>1 DEF RetainedOf
<1>4. Len(times) \in Nat
  OBVIOUS
<1> DEFINE T == {n \in 0..Len(times) : ~(kept[n] \in Seq(Nat) /\ Len(kept[n]) <= n)}
<1>5. T = {}
  <2> SUFFICES ASSUME T # {} PROVE FALSE
    OBVIOUS
  <2>0. T \subseteq Nat
    BY <1>4
  <2>1. PICK n \in T : \A m \in T : n <= m
    BY <2>0, LeastNatural
  <2>2. n # 0
    <3>1. kept[0] = <<>>
      BY <1>3, <1>4
    <3>2. kept[0] \in Seq(Nat) /\ Len(kept[0]) <= 0
      BY <3>1
    <3>3. QED
      BY <2>1, <3>2
  <2>3. n - 1 \in 0..Len(times) /\ ~(n <= n - 1) /\ n \in 1..Len(times)
    BY <1>4, <2>1, <2>2
  <2>4. kept[n - 1] \in Seq(Nat) /\ Len(kept[n - 1]) <= n - 1
    BY <2>1, <2>3
  <2>5. kept[n] \in {Append(kept[n - 1], times[n]), kept[n - 1]}
    BY <1>3, <2>2, <2>3
  <2>6. times[n] \in Nat
    BY <2>3
  <2> DEFINE k == kept[n - 1]
             x == times[n]
  <2>7. k \in Seq(Nat) /\ x \in Nat /\ Len(k) <= n - 1 /\ kept[n] \in {Append(k, x), k}
    BY <2>4, <2>5, <2>6
  <2> HIDE DEF k, x
  <2>8. Append(k, x) \in Seq(Nat) /\ Len(Append(k, x)) = Len(k) + 1 /\ Len(k) \in Nat
    BY <2>7
  <2>9. n \in Int /\ Len(k) + 1 <= n /\ Len(k) <= n
    BY <1>4, <2>3, <2>7, <2>8
  <2>10. kept[n] \in Seq(Nat) /\ Len(kept[n]) <= n
    BY <2>7, <2>8, <2>9
  <2>11. QED
    BY <2>1, <2>10
<1>6. QED
  BY <1>2, <1>4, <1>5

(* The clock, and the window of the rate limit.                            *)
Clock ==
  /\ now \in Nat /\ beat \in Nat /\ lastPong \in Nat /\ pinged \in BOOLEAN
  /\ stamps \in Seq(Nat) /\ Len(stamps) <= RateMax

(* How much the queue, the channel and what was made of a turn may hold.   *)
Sizes ==
  /\ Len(queue) <= 1 \/ Len(queue) <= MaxDeferred
  /\ task.made <= MaxEvents /\ task.events <= Channel

(* Either way retain leaves no more than RateMax.                           *)
LEMMA WindowKeeps ==
  ASSUME Clock
  PROVE  /\ Recent \in Seq(Nat) /\ Len(Recent) <= RateMax
         /\ Admits => Stamped \in Seq(Nat) /\ Len(Stamped) <= RateMax
<1>1. /\ stamps \in Seq(Nat) /\ now \in Nat /\ RateMax \in Nat /\ Len(stamps) <= RateMax
  BY ConnectionAssumption DEF Clock
<1>2. Recent \in Seq(Nat) /\ Len(Recent) <= Len(stamps)
  BY <1>1, RetainedBounds DEF Recent
<1>3. Len(stamps) \in Nat /\ Len(Recent) \in Nat
  BY <1>1, <1>2
<1>4. Len(Recent) <= RateMax
  BY <1>1, <1>2, <1>3
<1>5. Append(Recent, now) \in Seq(Nat) /\ Len(Append(Recent, now)) = Len(Recent) + 1
  BY <1>1, <1>2
<1>6. Admits => Len(Recent) + 1 <= RateMax
  BY <1>1, <1>3 DEF Admits
<1>7. QED
  BY <1>2, <1>4, <1>5, <1>6 DEF Stamped

(* Every step keeps the clock's types and the window's bound.              *)
LEMMA ClockKeeps ==
  ASSUME Clock, [Next]_vars
  PROVE  Clock'
<1>1. /\ now \in Nat /\ beat \in Nat /\ lastPong \in Nat /\ pinged \in BOOLEAN
      /\ stamps \in Seq(Nat) /\ Len(stamps) <= RateMax
      /\ now + 1 \in Nat /\ now + Interval \in Nat /\ beat + Interval \in Nat
  BY ConnectionAssumption DEF Clock
<1>2. CASE UNCHANGED clock
  BY <1>1, <1>2 DEF clock, Clock
<1>3. ASSUME UNCHANGED stamps, now' \in {now, now + 1},
             beat' \in {beat, now + Interval, beat + Interval},
             lastPong' \in {lastPong, now}, pinged' \in {pinged, TRUE, FALSE}
      PROVE  Clock'
  BY <1>1, <1>3 DEF Clock
<1>4. ASSUME UNCHANGED <<now, beat, pinged>>, lastPong' = now,
             \/ stamps' = Recent
             \/ Admits /\ stamps' = Stamped
      PROVE  Clock'
  BY <1>1, <1>4, WindowKeeps DEF Clock
<1>5. CASE Serve
  <2>1. CASE Drained
    BY <1>3, <2>1 DEF Drained, ToMainLoop
  <2>2. CASE ~Drained
    BY <1>2, <1>5, <2>2
    DEF Serve, Refuse, Start, TakeEvent, ChannelCloses, Join, EndGone, EndStopped,
        EndStoppedUnsent, EndAnswered, EndFailed, Reply, ReplyUnsent
  <2>3. QED
    BY <2>1, <2>2
<1>6. CASE Work
  BY <1>2, <1>6 DEF Work, Emit, Complete, Aborted
<1>7. CASE FirstOther \/ Pong \/ Heartbeat \/ Tick
  BY <1>3, <1>7 DEF FirstOther, ToMainLoop, Pong, Heartbeat, Tick
<1>8. CASE WaitingLimited \/ WaitingTooLarge \/ TurnLimited
  BY <1>4, <1>8 DEF WaitingLimited, WaitingTooLarge, TurnLimited
<1>9. CASE WaitingClose
  BY <1>2, <1>9 DEF WaitingClose
<1>10. ASSUME NEW c \in NextChat, FirstMessage(c) \/ WaitingMessage(c) \/ TurnMessage(c)
       PROVE  Clock'
  BY <1>2, <1>4, <1>10 DEF FirstMessage, WaitingMessage, TurnMessage
<1>11. ASSUME NEW stop \in Stop, WaitingStop(stop)
       PROVE  Clock'
  BY <1>4, <1>11 DEF WaitingStop
<1>12. ASSUME NEW stop \in Stop, TurnStop(stop)
       PROVE  Clock'
  BY <1>3, <1>12 DEF TurnStop
<1>13. ASSUME NEW oversized \in BOOLEAN, TurnLeave(oversized)
       PROVE  Clock'
  BY <1>3, <1>13 DEF TurnLeave
<1>14. CASE UNCHANGED vars
  BY <1>2, <1>14 DEF vars, clock
<1>15. QED
  BY <1>5, <1>6, <1>7, <1>8, <1>9, <1>10, <1>11, <1>12, <1>13, <1>14 DEF Next, Read

(* The sizes of what a closed socket, or one between turns, has.           *)
LEMMA SizesInit ==
  ASSUME Init
  PROVE  Clock /\ Sizes
<1>1. MaxEvents \in Nat /\ Channel \in Nat /\ RateMax \in Nat
  BY ConnectionAssumption
<1>2. Clock
  <2>1. stamps = <<>> /\ <<>> \in Seq(Nat) /\ Len(<<>>) = 0
    BY EmptySeq DEF Init
  <2>2. stamps \in Seq(Nat) /\ Len(stamps) <= RateMax
    BY <1>1, <2>1
  <2>3. now = 0 /\ beat = 0 /\ lastPong = 0 /\ pinged = FALSE
    BY DEF Init
  <2>4. now \in Nat /\ beat \in Nat /\ lastPong \in Nat /\ pinged \in BOOLEAN
    BY <2>3
  <2>5. QED
    BY <2>2, <2>4 DEF Clock
<1>3. Sizes
  BY <1>1 DEF Init, Sizes, NoTurn, NoTask
<1>4. QED
  BY <1>2, <1>3

(* The queue and the turn's task go on: what they may hold, one by one.    *)
LEMMA SizesMade ==
  ASSUME Sizes,
         queue' = queue \/ Len(queue') <= 1 \/ Len(queue') <= MaxDeferred
           \/ (Len(queue') <= Len(queue) /\ queue \in Seq(Nat) /\ queue' \in Seq(Nat)),
         \/ UNCHANGED task
         \/ task' = NoTask
         \/ task'.made <= MaxEvents /\ task'.events <= Channel
  PROVE  Sizes'
<1>1. MaxEvents \in Nat /\ Channel \in Nat /\ MaxDeferred \in Nat
  BY ConnectionAssumption
<1>2. Len(queue') <= 1 \/ Len(queue') <= MaxDeferred
  BY <1>1 DEF Sizes
<1>3. task'.made <= MaxEvents /\ task'.events <= Channel
  BY <1>1 DEF Sizes, NoTask
<1>4. QED
  BY <1>2, <1>3 DEF Sizes

(* An event of the turn is made, or is taken out of the channel.           *)
LEMMA EventSizes ==
  ASSUME Inv, Sizes, Emit \/ TakeEvent
  PROVE  Sizes'
<1>1. /\ MaxEvents \in Nat /\ Channel \in Nat /\ task \in Tasks
      /\ task.events \in Nat /\ task.made \in Nat
      /\ task.made <= MaxEvents /\ task.events <= Channel
  BY ConnectionAssumption DEF Inv, Shape, Tasks, Sizes
<1>2. queue' = queue
  BY DEF Emit, TakeEvent
<1>3. CASE Emit
  <2>1. /\ task.events < Channel /\ task.made < MaxEvents
        /\ task'.events = task.events + 1 /\ task'.made = task.made + 1
    BY <1>1, <1>3 DEF Emit, Tasks
  <2>2. task'.made <= MaxEvents /\ task'.events <= Channel
    BY <1>1, <2>1
  <2>3. QED
    BY <1>2, <2>2, SizesMade
<1>4. CASE TakeEvent
  <2>1. task'.events = task.events - 1 /\ task'.made = task.made
    BY <1>1, <1>4 DEF TakeEvent, Tasks
  <2>2. task'.made <= MaxEvents /\ task'.events <= Channel
    BY <1>1, <2>1
  <2>3. QED
    BY <1>2, <2>2, SizesMade
<1>5. QED
  BY <1>3, <1>4

(* A message is taken: the queue has room.                                 *)
LEMMA MessageSizes ==
  ASSUME Inv, Sizes, NEW c \in NextChat,
         FirstMessage(c) \/ WaitingMessage(c) \/ TurnMessage(c)
  PROVE  Sizes'
<1>1. MaxDeferred \in Nat
  BY ConnectionAssumption
<1>2. UNCHANGED task
  BY DEF FirstMessage, WaitingMessage, TurnMessage
<1>3. queue' = queue \/ Len(queue') <= 1 \/ Len(queue') <= MaxDeferred
  <2>1. ASSUME NEW k, queue' = <<k>>
        PROVE  Len(queue') <= 1
    BY <2>1
  <2>2. CASE Fits /\ queue' = Deferred
    <3>1. queue \in Seq(Nat) /\ Len(queue) \in Nat /\ Len(msg) + 1 \in Nat
      BY DEF Inv, Shape
    <3>2. Len(queue') = Len(queue) + 1
      BY <2>2, <3>1 DEF Deferred
    <3>3. QED
      BY <1>1, <2>2, <3>1, <3>2 DEF Fits
  <2>3. QED
    BY <2>1, <2>2 DEF FirstMessage, WaitingMessage, TurnMessage
<1>4. QED
  BY <1>2, <1>3, SizesMade

(* What only moves marks of the turn and its task, or closes.              *)
LEMMA QuietSizes ==
  ASSUME Inv, Sizes,
         queue' = queue \/ queue' = <<>>,
         \/ UNCHANGED task
         \/ task' = NoTask
         \/ task'.events = task.events /\ task'.made = task.made
  PROVE  Sizes'
<1>1. queue' = queue \/ Len(queue') <= 1
  <2>1. Len(<<>>) = 0
    OBVIOUS
  <2>2. QED
    BY <2>1
<1>2. \/ UNCHANGED task
      \/ task' = NoTask
      \/ task'.made <= MaxEvents /\ task'.events <= Channel
  BY DEF Sizes
<1>3. QED
  BY <1>1, <1>2, SizesMade

(* Every step keeps the sizes, one group of actions after the other.       *)
LEMMA SizesStep ==
  ASSUME Inv, Sizes, [Next]_vars
  PROVE  Sizes'
<1>1. CASE Emit \/ TakeEvent
  BY <1>1, EventSizes
<1>2. CASE EndStopped \/ Reply \/ EndAnswered
  BY <1>2, QuietSizes DEF EndStopped, Reply, EndAnswered
<1>3. ASSUME NEW c \in NextChat, FirstMessage(c) \/ WaitingMessage(c) \/ TurnMessage(c)
      PROVE  Sizes'
  BY <1>3, MessageSizes
<1>4. CASE Refuse \/ Start
  <2>1. queue # <<>> /\ phase = "drain" /\ queue' = Tail(queue)
    BY <1>4 DEF Refuse, Start
  <2>2. /\ queue \in Seq(Nat) /\ queue' \in Seq(Nat) /\ Len(queue') <= Len(queue)
    <3>1. queue \in Seq(Nat)
      BY DEF Inv, Shape
    <3>2. Tail(queue) \in Seq(Nat) /\ Len(Tail(queue)) = Len(queue) - 1
      BY <2>1, <3>1, HeadTailProperties
    <3>3. Len(queue) \in Nat
      BY <3>1
    <3>4. QED
      BY <2>1, <3>1, <3>2, <3>3
  <2>3. CASE Refuse
    BY <2>2, <2>3, SizesMade DEF Refuse
  <2>4. CASE Start
    <3>1. task'.events = 0 /\ task'.made = 0
      BY <2>4 DEF Start, NoTask
    <3>2. task'.made <= MaxEvents /\ task'.events <= Channel
      BY <3>1, ConnectionAssumption
    <3>3. QED
      BY <2>2, <3>2, SizesMade
  <2>5. QED
    BY <1>4, <2>3, <2>4
<1>5. CASE EndGone \/ EndStoppedUnsent \/ ReplyUnsent \/ WaitingTooLarge \/ WaitingClose
  BY <1>5, QuietSizes
  DEF EndGone, EndStoppedUnsent, ReplyUnsent, WaitingTooLarge, WaitingClose, Close
<1>6. CASE \/ Drained \/ FirstOther \/ EndFailed \/ WaitingLimited \/ Pong
           \/ TurnLimited \/ Tick
  BY <1>6, QuietSizes
  DEF Drained, FirstOther, ToMainLoop, EndFailed, WaitingLimited, Pong, TurnLimited, Tick
<1>7. ASSUME \/ ChannelCloses \/ Join \/ Aborted
             \/ \E r \in {"ok", "failed"} : Complete(r)
             \/ \E stop \in Stop : TurnStop(stop)
             \/ \E oversized \in BOOLEAN : TurnLeave(oversized)
      PROVE  Sizes'
  <2>1. queue' = queue
    BY <1>7 DEF ChannelCloses, Join, Aborted, Complete, TurnStop, TurnLeave
  <2>2. task'.events = task.events /\ task'.made = task.made
    <3>1. task \in Tasks
      BY DEF Inv, Shape
    <3>2. QED
      BY <1>7, <3>1
      DEF ChannelCloses, Join, Aborted, Complete, TurnStop, TurnLeave, AbortTask, Tasks
  <2>3. QED
    BY <2>1, <2>2, QuietSizes
<1>8. ASSUME NEW stop \in Stop, WaitingStop(stop)
      PROVE  Sizes'
  BY <1>8, QuietSizes DEF WaitingStop
<1>9. CASE Heartbeat
  <2>1. \/ queue' = <<>> /\ task' = NoTask
        \/ UNCHANGED <<queue, task>>
    BY <1>9 DEF Heartbeat, Close
  <2>2. QED
    BY <2>1, QuietSizes
<1>10. CASE UNCHANGED vars
  BY <1>10, QuietSizes DEF vars
<1>11. QED
  BY <1>1, <1>2, <1>3, <1>4, <1>5, <1>6, <1>7, <1>8, <1>9, <1>10
  DEF Next, Serve, Work, Read

(* The invariants together give the type, message by message.              *)
LEMMA TypeFollows ==
  ASSUME Inv, Rest, Clock, Sizes
  PROVE  TypeOK
<1>1. MaxEvents \in Nat /\ Channel \in Nat /\ MaxPartial \in Nat
  BY ConnectionAssumption
<1>2. /\ msg \in Seq(Message) /\ queue \in Seq(Nat) /\ history \in Seq(Entry)
      /\ voz \in [last: Nat, note: Nat] /\ turn \in Turns /\ task \in Tasks
      /\ Len(msg) \in Nat /\ DOMAIN msg = 1..Len(msg)
  BY DEF Inv, Shape
<1>4. queue \in Seq(1..Len(msg))
  <2>1. /\ Len(queue) \in Nat /\ DOMAIN queue = 1..Len(queue)
        /\ queue = [i \in 1..Len(queue) |-> queue[i]]
    BY <1>2
  <2>2. \A i \in 1..Len(queue) : queue[i] \in 1..Len(msg)
    BY <1>2, <2>1 DEF Inv, Order
  <2>3. queue \in [1..Len(queue) -> 1..Len(msg)]
    BY <2>1, <2>2
  <2>4. QED
    BY <2>1, <2>3, SeqDef
<1>5. voz \in [last: 0..Len(msg), note: 0..Len(msg)]
  <2>1. voz.last \in Nat /\ voz.note \in Nat
    BY <1>2
  <2>2. /\ voz.last # 0 => voz.last \in 1..Len(msg)
        /\ voz.note # 0 => voz.note \in 1..Len(msg)
    BY <1>2 DEF Rest, Noted, Answered
  <2>3. voz.last \in 0..Len(msg) /\ voz.note \in 0..Len(msg)
    BY <1>2, <2>1, <2>2
  <2>4. QED
    BY <1>2, <2>3
<1>6. /\ turn.partial \in Nat /\ task.events \in Nat /\ task.made \in Nat
      /\ turn.n \in Nat
  BY <1>2 DEF Turns, Tasks
<1>7. turn.partial \in 0..MaxPartial /\ task.events \in 0..Channel
      /\ task.made \in 0..MaxEvents
  BY <1>1, <1>6 DEF Sizes, Rest, Collected
<1>8. turn \in [n: 0..Len(msg), open: BOOLEAN, stopped: BOOLEAN,
                finished: {"no", "ok", "failed", "cancelled"}, gone: BOOLEAN,
                by: Id \cup {Current, Invalid}, partial: 0..MaxPartial]
  <2>1. turn.n # 0 => turn.n \in 1..Len(msg)
    BY <1>2 DEF Inv, Order
  <2>2. turn.n \in 0..Len(msg)
    BY <1>2, <1>6, <2>1
  <2>3. QED
    BY <1>2, <1>7, <2>2 DEF Turns
<1>9. task \in [st: {"none", "running", "done"}, aborting: BOOLEAN,
                result: {"ok", "failed", "cancelled"}, events: 0..Channel,
                made: 0..MaxEvents]
  BY <1>2, <1>7 DEF Tasks
<1>10. history \in Seq([n: 1..Len(msg), kind: {"answer", "interrupted"},
                        said: 0..MaxPartial])
  <2> DEFINE E == [n: 1..Len(msg), kind: {"answer", "interrupted"}, said: 0..MaxPartial]
  <2>1. /\ Len(history) \in Nat /\ DOMAIN history = 1..Len(history)
        /\ history = [i \in 1..Len(history) |-> history[i]]
    BY <1>2
  <2>2. ASSUME NEW i \in 1..Len(history)
        PROVE  history[i] \in E
    <3>1. /\ history[i] \in Entry /\ history[i].n \in 1..Len(msg)
          /\ history[i].said <= MaxPartial
      BY <1>2, <2>1 DEF Rest, Collected, Inv, Order
    <3>2. history[i].said \in 0..MaxPartial
      BY <1>1, <3>1 DEF Entry
    <3>3. QED
      BY <3>1, <3>2 DEF Entry
  <2>3. history \in [1..Len(history) -> E]
    BY <2>1, <2>2
  <2> HIDE DEF E
  <2>4. history \in Seq(E)
    BY <2>1, <2>3, SeqDef
  <2>5. QED
    BY <2>4 DEF E
<1>11. /\ now \in Nat /\ beat \in Nat /\ lastPong \in Nat /\ pinged \in BOOLEAN
       /\ stamps \in Seq(Nat) /\ Len(stamps) <= RateMax
       /\ phase \in {"hello", "waiting", "drain", "turn", "reply", "closed"}
       /\ Len(queue) <= 1 \/ Len(queue) <= MaxDeferred
  BY DEF Inv, Shape, Clock, Sizes
<1>12. QED
  BY <1>2, <1>4, <1>5, <1>8, <1>9, <1>10, <1>11 DEF TypeOK

(* The locals of the socket's task keep their shapes, the queue holds no   *)
(* more than it may, the window of the rate limit no more than RateMax,    *)
(* and what is kept of a turn no more than MaxPartial: whichever way a     *)
(* message came in, and whatever stopped the turn.                         *)
THEOREM TypeCorrect == Spec => []TypeOK
<1>1. Init => Clock /\ Sizes
  BY SizesInit
<1>2. Inv /\ Clock /\ Sizes /\ [Next]_vars => Clock' /\ Sizes'
  BY ClockKeeps, SizesStep
<1>3. Inv /\ Rest /\ Clock /\ Sizes => TypeOK
  BY TypeFollows
<1>4. QED
  BY <1>1, <1>2, <1>3, FullInvariant, PTL DEF Spec

===============================================================================
