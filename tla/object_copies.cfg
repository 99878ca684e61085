CONSTANTS
  Macs = {m1, m2}
  Nil = Nil
  MaxPasses <- Passes
  MaxWrites <- Writes
SPECIFICATION Spec
INVARIANTS TypeOK
PROPERTIES InformerIntact ErrorsRevert ChangesSent StaleReleased
CHECK_DEADLOCK FALSE
