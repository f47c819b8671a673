SPECIFICATION FairSpec
CONSTANTS
  alice = alice
  bob = bob
  m1 = m1
  m2 = m2
  m3 = m3
  m4 = m4
  Nodes <- TwoNodes
  Conns = {c1, c2}
  Msgs = {m1, m3, m4}
  Files = {}
  Owner <- MCOwner
  Dest <- MCDestBad
  NoNode = NoNode
  NoConn = NoConn
  NoMsg = NoMsg
  Attempts = 2
  OutboxCap = 1
  MaxFails = 1
  Stoppers = {alice, bob}
  Diagnosers = {}
  Markers = {}
  Typists = {}
CONSTRAINT LiveBounds
PROPERTIES
  EveryRequestAnswered
  DeadLinkForgotten
  SendReturns
CHECK_DEADLOCK FALSE
