SPECIFICATION CircuitSpec
CONSTANTS
  main = main
  backup = backup
  r1 = r1
  r2 = r2
  Provider <- Alone
  Chain <- AloneChain
  Request <- TwoRequests
  Kinds <- BatchAndStream
  Threshold = 3
  Recovery = 2
  HalfOpenSuccesses = 2
  MaxRetries = 1
  Cancels = FALSE
INVARIANTS CircuitTypeOK
PROPERTIES OpenEnds Recovers OpensOnConsecutive
