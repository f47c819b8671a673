SPECIFICATION FairSpec
CONSTANTS
  Peers = {p}
  MaxOut = 2
  MaxIn = 1
  MaxKills = 1
  Flags = {"muted"}
  Repairs = TRUE
CONSTRAINT Bounds
INVARIANTS
  TypeOK
  OneChatPerContact
  DirtyIsScheduled
  StatusTruthful
PROPERTIES
  VerdictShown
  ReceiptsNeverRegress
CHECK_DEADLOCK FALSE
