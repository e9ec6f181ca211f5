CONSTANTS
  Handlers = {h1}
  evmPart = evmPart
  solAll = solAll
  solPart = solPart
  Commands = {solPart}
  Net <- MCNet
  Amount <- MCAmount
  Attempts <- MCAttempts
  Funds = 3
  Reserve = 1
  Window = 2
  TTL = 1
  WithdrawPerHour = 1
  MaxConfirms = 1
  MaxBlockhash = 2
  None = None
SPECIFICATION Spec
INVARIANT PaysOnceEverywhere
