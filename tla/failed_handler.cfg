CONSTANTS
  Macs = {m1, m2}
  Nil = Nil
  MaxPasses <- Passes
  MaxWrites <- Writes
SPECIFICATION Spec
PROPERTIES ErrorsLeaveNothing
CHECK_DEADLOCK FALSE
