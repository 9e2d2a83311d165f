\* Two threads, every method, but no request overlaps a dirCreate or a revert.
SPECIFICATION FairSpec
CONSTANTS
  t1 = t1
  t2 = t2
  Thread = {t1, t2}
  NoOwner = NoOwner
  test = test
  bad = bad
  Name = {test, bad}
  ValidName = {test}
  TestFile = test
  Root = 1
  MaxUID = 4
  Ops <- AllOps
  Reserve = 1
  UnlockedAlone = TRUE
INVARIANT TypeOK
PROPERTIES AtomicVFS Progress
