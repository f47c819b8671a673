SPECIFICATION Spec
CONSTANTS
  Peers = {p}
  MaxOut = 1
  MaxIn = 0
  MaxKills = 0
  Flags = {}
  Repairs = FALSE
PROPERTIES
  ReadNeverRegresses
CHECK_DEADLOCK FALSE
