SPECIFICATION FairSpec
CONSTANTS
  Cap = 3
  ChunkSize = 2
  Sizes = {0, 1, 4, 5}
  Programs = {"none", "harness", "readers", "crossed"}
  Senders = {s1, s2}
  Fetchers = {f1, f2}
  MaxPuts = 2
  MaxOthers = 1
  MaxRestarts = 1
  MaxFetches = 1
  MaxLetters = 3
CONSTRAINT FewLetters
INVARIANTS
  ReassembleExact
  FileIntact
  HistoryOrder
  FetchedOnce
PROPERTIES
  LostOnlyInBatch
  EveryCallReturns
  SentIsRead
CHECK_DEADLOCK FALSE
