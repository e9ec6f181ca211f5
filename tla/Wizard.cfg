CONSTANTS
  Users = {u1, u2}
  Handlers = {h1, h2}
  pricedLink = pricedLink
  timedLink = timedLink
  Links <- BothLinks
  Prices = {1, 2}
  Typed = {1}
  Unknown = Unknown
  Failed = Failed
  None = None
  Published <- MCPublished
  Qtys = {1, 2}
  Cap = 2
SPECIFICATION Spec
SYMMETRY ConversationSymmetry
INVARIANT TypeOK
INVARIANT SavedIsComplete
INVARIANT WithinCap
INVARIANT PriceIsOwn
INVARIANT AsksOwnLink
