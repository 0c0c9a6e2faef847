----------------------------- MODULE MCConnection -----------------------------
(* Model values for the run of Connection: what the client may send, as    *)
(* plain text messages, voice turns and one the server refuses.            *)
EXTENDS Connection

CONSTANTS a

Ids == {a}

Text == [id |-> NoId, voice |-> FALSE, stream |-> FALSE, bad |-> FALSE]
Voice == [id |-> a, voice |-> TRUE, stream |-> TRUE, bad |-> FALSE]
Refused == [id |-> a, voice |-> FALSE, stream |-> FALSE, bad |-> TRUE]

Talk == <<{Voice}, {Voice, Text}, {Refused}, {Text}>>

===============================================================================
