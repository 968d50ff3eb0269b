SPECIFICATION FairSpec
CONSTANTS
  MaxKeys = 3
  MaxCrashes = 2
INVARIANTS SignersVerifiable CursorsSurvive NoUnannouncedSigner
PROPERTY RotationEnds
