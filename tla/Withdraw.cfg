CONSTANTS
  Handlers = {h1, h2}
  evmPart = evmPart
  solAll = solAll
  solPart = solPart
  Commands = {evmPart, solAll}
  Net <- MCNet
  Amount <- MCAmount
  Attempts <- MCAttempts
  Funds = 3
  Reserve = 1
  Window = 1
  TTL = 1
  WithdrawPerHour = 1
  MaxConfirms = 3
  MaxBlockhash = 2
  None = None
SPECIFICATION Spec
INVARIANT TypeOK
INVARIANT PaysOnce
INVARIANT RateBounded
PROPERTY ImplementsConfirmation
SYMMETRY Symmetry
