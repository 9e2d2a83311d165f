\* One user, two requests at a time, a directory in a directory.
SPECIFICATION FairSpec
CONSTANTS
  test = test
  other = other
  Name = {test, other}
  ValidName = {test}
  TestFile = test
  Root = 1
  StartTree <- Tree
  StartUID = 4
  MaxUID = 4
  MaxRequest = 2
  MaxDepth = 3
  MaxMishap = 2
INVARIANTS CrumbSettles PathShown 
PROPERTIES Ends
