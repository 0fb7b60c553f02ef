\* Two votes for all; one with shares at other points, one of a higher degree.
SPECIFICATION LiveSpec
CONSTANTS
  Parties = 4
  PrimeP = 23
  PrimeQ = 11
  v1 = v1
  v2 = v2
  v3 = v3
  v4 = v4
  Nobody = Nobody
  Vote <- Votes4
  VoteF <- CurvesF
  VoteG <- CurvesG
  StartF <- StartLineF
  StartG <- StartLineG
  PointAt <- SwappedForV3
  HandedTo <- OddToOne
INVARIANTS
  TypeOK
  SumMatchesProof
  StillReadExact
PROPERTIES
  EveryShareAdded
\* All votes are counted.
CHECK_DEADLOCK FALSE
