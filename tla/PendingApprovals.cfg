CONSTANTS
  k1 = k1  k2 = k2
  s1 = s1  s2 = s2
  r1 = r1  r2 = r2
  t1 = t1  t2 = t2
  Conversation <- Conversations
  Sender <- Senders
  Request <- Requests
  Turn <- Turns
  NoRequest = NoRequest
  TTL = 1
  Capacity = 1
  MaxTime = 2
  MaxAsked = 3
  MaxRuns = 1
SPECIFICATION Spec
SYMMETRY Symmetry
INVARIANT FirstAnswerDecides
PROPERTY KeepsContract
