CONSTANTS
  Txs = {x1, x2}
  Foreign = Foreign
  Pending = Pending
  MaxAttempts = 2
  TotalTimeout = 2
  LookupsFail = FALSE
SPECIFICATION Spec
SYMMETRY TxSymmetry
PROPERTY GraceCatchesLanded
