\* Two servers join at the same time.
SPECIFICATION Spec
CONSTANTS
  Server <- Addresses3
  Master = 2
  Patient = FALSE
INVARIANTS
  EveryoneKnown
CHECK_DEADLOCK FALSE
