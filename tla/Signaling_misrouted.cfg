SPECIFICATION Spec
CONSTANTS
  Nodes = {a, b, c}
  NoNode = NoNode
  Impls = {TRUE}
  Checking = {}
  MaxChecks = 1
  Closers = {}
  OfferCap = 1
  AnswerCap = 1
  MaxDials = 1
  MaxStreamDials = 1
  MaxLost = 0
INVARIANTS
  AnswerToOfferer
CHECK_DEADLOCK FALSE
