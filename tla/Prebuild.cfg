CONSTANTS
  Networks <- MCNetworks
  Evm = {"ethereum", "base"}
  DefaultNetwork = "ethereum"
  Enabled = {"opensea", "magiceden", "rarible"}
  Builtin <- MCBuiltin
  Declared <- MCDeclared
  Links <- MCLinks
  Deployed <- MCDeployed
  Requests = 3
  Typed = {1}
  Qtys = {1, 2}
  Funds = 4
  Attempts = 2
  Unknown = Unknown
  None = None
SPECIFICATION Spec
INVARIANT TypeOK
INVARIANT TemplateIsAccepted
INVARIANT VerdictIsDeserved
INVARIANT TrustedPriceCovers
INVARIANT StageIsOwn
INVARIANT OrderDecidesNothing
PROPERTY LeadsToLinked
PROPERTY Ends
