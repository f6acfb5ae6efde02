SPECIFICATION Spec
CONSTANTS
  micro = micro
  small = small
  user = user
  foreign = foreign
  NoName = NoName
  Shape <- MCShape
  FreeLimit <- MCFree
  Limit <- MCLimit
  Reserved = {"other"}
  PublicId = {"m1", "m2"}
  MaxModels = 1
  Bins = 2
  Offered <- MCOffered
  Profiles <- MCProfiles
  Registered = {user}
  Caps <- MCCaps
  WireLimit <- MCWireLimit
  MaxMessages = 3
  MaxEntries = 3
  MaxWord = 9
  Fragment <- MCFragment
  MaxFields = 3
  MaxInt = 7
  MaxDuration = 3
  Document <- MCDocument
INVARIANTS
  SameScan
  DepthBounded
  AllocationsBounded
  SameDecision
  CanonicalStable
  SameIntake
CONSTRAINT MCBound
CHECK_DEADLOCK FALSE
