\* Two threads; dirCreate and the end of uploads overlap everything.
SPECIFICATION Spec
CONSTANTS
  t1 = t1
  t2 = t2
  Thread = {t1, t2}
  NoOwner = NoOwner
  test = test
  a = a
  Name = {test, a}
  ValidName = {test, a}
  TestFile = test
  Root = 1
  MaxUID = 5
  Reserve = 1
  Ops <- DirOps
  UnlockedAlone = FALSE
SYMMETRY Symmetry
VIEW MCView
INVARIANTS LockInv FileNamesUnique DirNamesUnique UIDsUnique PointersLive
PROPERTIES OnlyDeletionsRemove
