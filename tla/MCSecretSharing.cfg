\* Seven servers, of which two shares must tell nothing.
SPECIFICATION Spec
CONSTANTS
  Parties = 7
  PrimeP = 23
  PrimeQ = 11
  Coefs <- SomeCoefs
  Nonces <- SomeNonces
  SimAnswers <- SomeAnswers
INVARIANTS
  HonestSharesVerify
  AlteredProofsRejected
  AnyQuorumReconstructs
  AlteredSharesRejected
  TSharesHideTheVote
\* A dealing ends.
CHECK_DEADLOCK FALSE
