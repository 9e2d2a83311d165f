\* A fileDelete may overlap a dirCreate.
SPECIFICATION FairSpec
CONSTANTS
  t1 = t1
  t2 = t2
  Thread = {t1, t2}
  NoOwner = NoOwner
  test = test
  Name = {test, a}
  ValidName = {test, a}
  a = a
  TestFile = test
  Root = 1
  MaxUID = 5
  Ops <- RaceOps
  Reserve = 1
  UnlockedAlone = FALSE
PROPERTY AtomicVFS
