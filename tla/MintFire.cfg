CONSTANTS
  Txs = {x1, x2}
  Foreign = Foreign
  Pending = Pending
  MaxAttempts = 2
  TotalTimeout = 2
  LookupsFail = TRUE
SPECIFICATION FairSpec
INVARIANT TypeOK
INVARIANT VerdictIsGrounded
INVARIANT AttemptsBounded
PROPERTY NothingSentAfterFailure
PROPERTY EndsQuiet
