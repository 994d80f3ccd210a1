SPECIFICATION Spec
SYMMETRY ParentSymmetry
CONSTANTS
  Selections <- MCSelections
  Parents = {p1, p2}
  Indexes = {0}
  Paths = {default, chosen}
  DefaultPath = default
  MaxGenerations = 3
  Legacy = Legacy
  None = None
  Empty = Empty
INVARIANTS
  TypeOK
  IdentityIsOnePair
  AssignmentIsTrue
  TokensVerify
  TrustedPeersOmitSelf
PROPERTIES
  ExistingMaterialIsKept
  LegacySecretSurvives
