SPECIFICATION Spec
CONSTANTS
  MaxSession = 2
  MaxKey = 3
CHECK_DEADLOCK FALSE
INVARIANTS LinkedIsRecoverable LoggedOutStaysOut
