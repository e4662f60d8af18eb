CONSTANTS
  root = root
  child = child
  alice = alice
  bob = bob
  Threads <- MCThreads
  Root <- root
  Profiles <- MCProfiles
  NoProfile = NoProfile
  NoGrant = NoGrant
  MaxEpoch = 3
  MaxAttempts = 3
  Nobody = Nobody
  Abandoned = Abandoned
SPECIFICATION Spec
SYMMETRY Symmetry
INVARIANTS TypeOK BlockedMeansUntouched SplitIsJournaled RequestedNotReplayed
PROPERTIES CompleteMeansHandedOver ImplementsOwnership
