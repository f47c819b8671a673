SPECIFICATION Spec
CONSTANTS
  Initiator = alice
  Responder = bob
  MaxSkip = 2
  MaxSend = 4
  MaxReply = 3
  MaxDups = 1
  OneTime = TRUE
INVARIANTS
  TypeOK
  KeysFresh
  OpensOnce
  ChainsAgree
PROPERTIES
  OpensInAnyOrder
CHECK_DEADLOCK FALSE
