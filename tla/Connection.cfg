SPECIFICATION Spec
CONSTANTS
  a = a
  Id <- Ids
  NoId = noId
  Current = current
  Invalid = invalid
  Script <- Talk
  MaxDeferred = 2
  Channel = 1
  Interval = 1
  Timeout = 0
  RateMax = 2
  Window = 1
  MaxPartial = 1
  CharBytes = 2
  MaxEvents = 1
  MaxText = 2
  MaxTime = 1
CHECK_DEADLOCK FALSE
INVARIANTS TypeOK AnswersInOrder NothingDropped AnswerIsWhole InterruptedKeepsWhatWasShown NoteIsOfADeliveredAnswer
PROPERTIES StopSilences StopEndsTheTurn
