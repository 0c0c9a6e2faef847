SPECIFICATION Spec
CONSTANTS
  u1 = u1  u2 = u2
  f1 = f1
  w1 = w1  w2 = w2
  x1 = x1  x2 = x2
  Subject <- TwoSubjects
  File <- OneFile
  Owner <- Sole
  Worker <- Workers
  Writer <- OneWriter
  First = first
  NoOne = noOne
  MaxAttempts = 2
  Batch = 2
  MaxAborts = 1
CHECK_DEADLOCK FALSE
INVARIANT BlobsAccountedFor
INVARIANT CompletedIsClean
PROPERTY ProgressIsKept
PROPERTY RequestSettles
