\* Two of four servers are late; a client votes meanwhile.
SPECIFICATION LiveSpec
CONSTANTS
  b1 = b1
  None = None
  Parties = 4
  Late = {0, 3}
  JoinedAs <- AsJoined
  Ballot = {b1}
INVARIANTS
  SharesReachTheirServers
  CountedWithQuorum
  OnlyOvertakenGetStuck
PROPERTIES
  CountedByTheRest
  PostsEnd
\* The client's votes end.
CHECK_DEADLOCK FALSE
