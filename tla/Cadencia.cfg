CONSTANTS
  c1 = c1  c2 = c2
  Chat <- Chats
  Window = 2
  DefaultMax = 1
  SuspectMax = 1
  Grace = 3
  ExpMax = 1
  ChatsMax = 1
  Knobs <- KnobValues
  MaxTime = 6
SPECIFICATION CadenciaSpec
SYMMETRY ChatSymmetry
INVARIANT CadenciaTypeOK
INVARIANT NoticeOnce
PROPERTY CeilingHolds
PROPERTY BackoffServed
PROPERTY QuietChatReturns
