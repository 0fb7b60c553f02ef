\* A share that does not verify ends the process of its server.
SPECIFICATION Spec
CONSTANTS
  s1 = s1
  s2 = s2
  s3 = s3
  s4 = s4
  b1 = b1
  b2 = b2
  id1 = id1
  id2 = id2
  NilId = NilId
  None = None
  Server <- Servers4
  Ballot = {b1}
  VoteId = {id1}
  IdOf <- OneBallot
  ValidAt <- NotAt4
  PostedTo <- ToAll4
  MaxRetries = 0
  MaxCrashes = 0
INVARIANTS
  EveryServerStays
SYMMETRY First3Symmetry
\* Clients finish, and servers may stop.
CHECK_DEADLOCK FALSE
