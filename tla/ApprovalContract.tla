--------------------------- MODULE ApprovalContract ---------------------------
(***************************************************************************)
(* What the confirmation flow of the agent promises the humans it asks,    *)
(* with nothing of how the registry keeps its entries.                     *)
(*                                                                         *)
(* A conversation has at most one open question.  The next human message   *)
(* of that conversation closes it, whatever it says; the turn that carries *)
(* the message receives the authority to run the request only when the     *)
(* message is an approval, comes from the human who was asked and comes    *)
(* before the question expires.  A turn runs nothing without authority,    *)
(* and its authority ends with it.  The implementation may forget open     *)
(* questions (a full registry, a restart, a poisoned lock): the human is   *)
(* asked again.  Nothing may ever create authority in another way.         *)
(***************************************************************************)
EXTENDS Integers

CONSTANTS Conversation, Sender, Request, Turn, TTL

VARIABLES clock,    \* the instant
          open,     \* conversation -> its open question, or Nothing
          may,      \* turn -> the requests it has the authority to run
          ran       \* turn -> how often it has run each request

cvars == <<clock, open, may, ran>>

Nothing == [asked |-> FALSE]

Question == [asked: {TRUE}, who: Sender, what: Request, until: Nat]

NeverRan == [r \in Request |-> 0]

ContractInit ==
  /\ clock = 0
  /\ open = [k \in Conversation |-> Nothing]
  /\ may = [t \in Turn |-> {}]
  /\ ran = [t \in Turn |-> NeverRan]

(* A question is put; questions of other conversations may be forgotten.   *)
Ask(k, s, r) ==
  /\ \E forgotten \in SUBSET (Conversation \ {k}) :
       open' = [q \in Conversation |->
                  IF q = k
                  THEN [asked |-> TRUE, who |-> s, what |-> r, until |-> clock + TTL]
                  ELSE IF q \in forgotten THEN Nothing ELSE open[q]]
  /\ UNCHANGED <<clock, may, ran>>

(* The question q authorises a message of sender s now.                    *)
Authorises(q, s) == q.asked /\ q.who = s /\ clock < q.until

(* A message of s reaches conversation k in turn t and closes its question. *)
Answer(t, k, s) ==
  /\ may[t] = {}
  /\ open' = [open EXCEPT ![k] = Nothing]
  /\ \/ UNCHANGED may
     \/ /\ Authorises(open[k], s)
        /\ may' = [may EXCEPT ![t] = {open[k].what}]
  /\ UNCHANGED <<clock, ran>>

Run(t, r) ==
  /\ r \in may[t]
  /\ ran' = [ran EXCEPT ![t][r] = @ + 1]
  /\ UNCHANGED <<clock, open, may>>

(* Turns end, and with them their authority; questions may be forgotten.   *)
EndAndForget(ended, forgotten) ==
  /\ open' = [q \in Conversation |-> IF q \in forgotten THEN Nothing ELSE open[q]]
  /\ may' = [t \in Turn |-> IF t \in ended THEN {} ELSE may[t]]
  /\ ran' = [t \in Turn |-> IF t \in ended THEN NeverRan ELSE ran[t]]
  /\ UNCHANGED clock

Advance ==
  /\ clock' = clock + 1
  /\ UNCHANGED <<open, may, ran>>

ContractNext ==
  \/ \E k \in Conversation, s \in Sender, r \in Request : Ask(k, s, r)
  \/ \E t \in Turn, k \in Conversation, s \in Sender : Answer(t, k, s)
  \/ \E t \in Turn, r \in Request : Run(t, r)
  \/ \E ended \in SUBSET Turn, forgotten \in SUBSET Conversation :
       EndAndForget(ended, forgotten)
  \/ Advance

Contract == ContractInit /\ [][ContractNext]_cvars

===============================================================================
