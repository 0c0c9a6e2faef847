SPECIFICATION Spec
CONSTANTS
  s1 = s1
  s2 = s2
  t1 = t1
  t2 = t2
  shell = shell
  home = home
  project = project
  e1 = e1
  noTool = noTool
  Session <- TwoSessions
  Turn <- MCTurn
  Tool <- OneTool
  Context <- MCContext
  NoContext = home
  Erro <- MCErro
  NoTool = noTool
  Base = 1
  Teto = 3
  Repeticoes = 2
  Capacidade = 1
  MaxTimeouts = 3
  MaxTime = 4
INVARIANTS RegistryConsistent
PROPERTIES CooldownServed AloneTurnGivesUp
