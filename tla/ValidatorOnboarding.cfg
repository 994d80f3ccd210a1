SPECIFICATION FairSpec
CONSTANTS
  MaxEpoch = 3
  MaxAge = 1
  WaitTimeouts = {0, 2}
  SnapshotTimeouts = {0, 1}
  NoEpoch = NoEpoch
CHECK_DEADLOCK FALSE
INVARIANTS
  TypeOK
  InstallFollowsDecision
  ExplicitEpochIsKept
  WaitBudgetIsShared
PROPERTIES
  StartIsAuthorized
  OnboardingEnds
