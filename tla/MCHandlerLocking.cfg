\* One server, every choice of three calls, lock by lock.
SPECIFICATION Spec
CONSTANTS
  h = h
  v = v
  w = w
  good = good
  other = other
  bad = bad
  id1 = id1
  id2 = id2
  NilId = NilId
  None = None
  Here = h
  Server = {h, v, w}
  Ballot = {good, other, bad}
  VoteId = {id1, id2}
  IdOf <- Ids
  ValidAt <- Valid
  PeerCalls <- Calls
  MaxCalls = 3
INVARIANTS
  HandedOverOnce
PROPERTIES
  SectionsAtomic
  EveryCallEnds
  CondemnedKept
  SignaturesTold
\* Calls end.
CHECK_DEADLOCK FALSE
