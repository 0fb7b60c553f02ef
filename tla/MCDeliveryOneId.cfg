\* Two ballots with one id, all shares verify.
SPECIFICATION Spec
CONSTANTS
  s1 = s1
  s2 = s2
  s3 = s3
  s4 = s4
  b1 = b1
  b2 = b2
  id1 = id1
  id2 = id2
  NilId = NilId
  None = None
  Server <- Servers3
  Ballot = {b1, b2}
  VoteId = {id1}
  IdOf <- SameId
  ValidAt <- AllValid3
  PostedTo <- ToAll3
  MaxRetries = 0
  MaxCrashes = 0
INVARIANTS
  SignaturesAuthentic
  OneSignaturePerSender
  Agreement
PROPERTIES
  ImplementsBroadcast
SYMMETRY ServerSymmetry
\* Clients finish, and servers may stop.
CHECK_DEADLOCK FALSE
