SPECIFICATION CircuitSpec
CONSTANTS
  main = main
  backup = backup
  r1 = r1
  r2 = r2
  Provider <- Both
  Chain <- BothChain
  Request <- OneRequest
  Kinds <- BatchAndStream
  Threshold = 5
  Recovery = 2
  HalfOpenSuccesses = 2
  MaxRetries = 3
  Cancels = TRUE
PROPERTIES OneRequestNeverOpens
