\* One person, two requests at a time, two registrations.
SPECIFICATION FairSpec
CONSTANTS
  anna = anna
  ben = ben
  Name = {anna, ben}
  Blank = Blank
  CodeLen = 2
  MaxKey = 2
  MaxRequest = 2
  MaxMishap = 1
INVARIANTS EveryKeySeen SessionRightful NoWholeCode
PROPERTIES KeysArrive
