SPECIFICATION Spec
CONSTANTS
  Blobs = {b1, b2}
  Envelopes = {m}
  NoBlob = NoBlob
  MaxStarts = 3
  MaxOps = 3
  MaxFaults = 1
  MaxCrashes = 2
INVARIANTS
  TypeOK
  SealedByKey
  OneIdentity
  StateSurvives
CHECK_DEADLOCK FALSE
