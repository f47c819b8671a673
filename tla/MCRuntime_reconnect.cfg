SPECIFICATION Spec
CONSTANTS
  alice = alice
  bob = bob
  m1 = m1
  m2 = m2
  m3 = m3
  m4 = m4
  Nodes <- TwoNodes
  Conns = {c1, c2}
  Msgs = {m1, m3}
  Files = {m1}
  Owner <- MCOwner
  Dest <- MCDest
  NoNode = NoNode
  NoConn = NoConn
  NoMsg = NoMsg
  Attempts = 1
  OutboxCap = 1
  MaxFails = 1
  Stoppers = {}
  Diagnosers = {}
  Markers = {bob}
  Typists = {alice}
CONSTRAINT TypingOnFirst
SYMMETRY ConnSymmetry
INVARIANTS
  TypeOK
  FailedTextNeverArrives
  FileBodyFollowsOffer
PROPERTIES
  ImplementsDelivery
CHECK_DEADLOCK FALSE
