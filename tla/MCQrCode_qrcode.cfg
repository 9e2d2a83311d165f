\* Texts at the edges of the capacities, and one too long for any version.
SPECIFICATION Spec
CONSTANTS
  Texts <- SomeTexts
  StartEcl = 1
INVARIANTS SmallestFit RoomForAll ScoreRight BestMask ReadsBack
CHECK_DEADLOCK FALSE
