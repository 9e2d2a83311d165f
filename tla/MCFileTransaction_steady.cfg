SPECIFICATION FairSpec
CONSTANTS
  t = t
  a = a
  c1 = c1
  c2 = c2
  Name = {t, a}
  ValidName = {t, a}
  TestFile = t
  Root = 1
  Conn <- MCConn
  UID = {2, 3, 4}
  Chunks = 2
  Buffer = {1}
  Absent = Absent
  Backpressure = TRUE
  MaxFaults = 0
  MaxRestarts = 0
CHECK_DEADLOCK FALSE
INVARIANTS StoredWhole RevertRestores ReadWhole
PROPERTIES Released
