\* Four servers, started one after the other.
SPECIFICATION LiveSpec
CONSTANTS
  Server <- Addresses4
  Master = 2
  Patient = TRUE
INVARIANTS
  TypeOK
  EveryoneKnown
  IndexesMatch
PROPERTIES
  EveryoneStarts
\* All servers vote.
CHECK_DEADLOCK FALSE
