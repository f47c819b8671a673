SPECIFICATION FairSpec
CONSTANTS
  Nodes = {a, b, c}
  NoNode = NoNode
  Impls = {TRUE, FALSE}
  Checking = {a}
  MaxChecks = 1
  Closers = {b}
  OfferCap = 1
  AnswerCap = 1
  MaxDials = 2
  MaxStreamDials = 1
  MaxLost = 1
  MaxOffers = 4
CONSTRAINT Bounds
INVARIANTS
  TypeOK
  HandledOnce
  RegistryAnswers
  NoAnswerLeft
PROPERTIES
  EveryDialAnswered
  CloseReleases
CHECK_DEADLOCK FALSE
