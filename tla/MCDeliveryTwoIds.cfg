\* Two ids, answers are lost; a share of the first ballot does not verify.
SPECIFICATION Spec
CONSTANTS
  s1 = s1
  s2 = s2
  s3 = s3
  s4 = s4
  b1 = b1
  b2 = b2
  id1 = id1
  id2 = id2
  NilId = NilId
  None = None
  Server <- Servers3
  Ballot = {b1, b2}
  VoteId = {id1, id2}
  IdOf <- OwnIds
  ValidAt <- FirstNotAt3
  PostedTo <- TwoEach
  MaxRetries = 1
  MaxCrashes = 0
INVARIANTS
  HonestIdsUndisturbed
\* Clients finish, and servers may stop.
CHECK_DEADLOCK FALSE
