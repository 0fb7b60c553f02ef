\* A client that posts to three of four servers and may stop earlier; so may a server.
SPECIFICATION LiveSpec
CONSTANTS
  s1 = s1
  s2 = s2
  s3 = s3
  s4 = s4
  b1 = b1
  b2 = b2
  id1 = id1
  id2 = id2
  NilId = NilId
  None = None
  Server <- Servers4
  Ballot = {b1}
  VoteId = {id1}
  IdOf <- OneBallot
  ValidAt <- AllValid4
  PostedTo <- ToAll3
  MaxRetries = 0
  MaxCrashes = 1
INVARIANTS
  CountedOnce
  NoQuorumWaiting
  HonestBallotsHarmless
PROPERTIES
  SignedBallotsCounted
\* Clients finish, and servers may stop.
CHECK_DEADLOCK FALSE
