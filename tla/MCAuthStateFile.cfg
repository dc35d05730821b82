SPECIFICATION Spec
CONSTANTS
  None = None
  MaxWrites = 3
INVARIANT NoLeftovers
PROPERTY AtomicWrites
CHECK_DEADLOCK FALSE
