----------------------------- MODULE MCToolTurn -----------------------------
(* Two tools, programs that repeat a call, hold a broken step or are empty, *)
(* and budgets whose turn limit is under or over the task's.               *)
EXTENDS ToolTurn

CONSTANTS a, b, broken, none

MCTool == {a, b}
MCProgram == {<<>>, <<broken>>, <<a, a>>}
MCLimits == {[turn |-> 3, task |-> 5], [turn |-> 5, task |-> 6],
             [turn |-> 4, task |-> 3], [turn |-> 2, task |-> 0]}

=============================================================================
