-------------------------- MODULE MCProviderCircuit --------------------------
(* One provider under two requests, or a primary and a fallback under one. *)
EXTENDS ProviderCircuit

CONSTANTS main, backup, r1, r2

Alone == {main}
Both == {main, backup}
AloneChain == <<main>>
BothChain == <<main, backup>>
OneRequest == {r1}
TwoRequests == {r1, r2}
BatchAndStream == {"batch", "stream"}

===============================================================================
