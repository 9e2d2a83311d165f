SPECIFICATION Spec
CONSTANTS
  t = t
  a = a
  c1 = c1
  c2 = c2
  Name = {t}
  ValidName = {t}
  TestFile = t
  Root = 1
  Conn <- MCConn
  UID = {2, 3, 4}
  Chunks = 2
  Buffer = {1, 2}
  Absent = Absent
  Backpressure = FALSE
  MaxFaults = 1
  MaxRestarts = 1
CHECK_DEADLOCK FALSE
SYMMETRY Symmetry
VIEW View
INVARIANTS BufferInv WritersApart
PROPERTIES NothingLost
