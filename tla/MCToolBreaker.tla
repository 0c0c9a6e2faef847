---------------------------- MODULE MCToolBreaker ----------------------------
(* Two turns that may share a session, and two sessions that compete for   *)
(* the one place of the registry.                                          *)
EXTENDS ToolBreaker

CONSTANTS s1, s2, t1, t2, shell, home, project, e1, noTool

TwoSessions == {s1, s2}
MCTurn == {t1, t2}
OneTool == {shell}
MCContext == {home, project}
MCErro == {e1}

==============================================================================
