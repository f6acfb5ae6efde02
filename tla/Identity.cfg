SPECIFICATION IdentitySpec
CONSTANTS
  Nfd <- MCNfd
  Nfkd <- MCNfkd
  Ccc <- MCCcc
  Composite <- MCComposite
  Backward = {"vowel"}
  MissingCcc = {"new220", "new230"}
  White = {"space", "CR", "LF"}
  CR = "CR"
  LF = "LF"
  CGJ = "CGJ"
  Limit = 2
  Byte <- MCByte
  Registry <- MCRegistry
  NUL = "NUL"
  MinSecretBytes = 2
  Placeholders <- MCPlaceholders
  Domain <- MCDomain
  Name = {"SECRET", "UNSET", ""}
  Environment <- MCEnvironment
  InvalidChar = {"stray"}
  Text = {"model", "request", "user", "x", "?"}
  Replacement = "?"
  PublicId = {"gpt", "opus"}
  Accounting = {"books"}
  RequestModel = "request"
  MaxSlices = 1
  Absent = Absent
  Alphabets <- MCAlphabets
  MaxText = 5
  Settings <- MCSettings
  ObservedModel = {"x", "?", "bad"}
  PublicName = {"gpt", "opus", "__unmapped__"}
  Slice <- MCSlice
  MaxSlice = 2
  MaxMap = 2
  MaxDrift = 1
INVARIANTS
  SameIdentity
  CanonicalForm
  EquivalentTextsAgree
  MessagesSeparate
  SameContract
CONSTRAINT MCBound
CHECK_DEADLOCK FALSE
