CONSTANTS
  root = root
  child = child
  alice = alice
  bob = bob
  Threads <- MCThreads
  Root <- root
  Profiles <- MCProfiles
  NoProfile = NoProfile
  NoGrant = NoGrant
  MaxEpoch = 3
  MaxAttempts = 2
  Nobody = Nobody
  Abandoned = Abandoned
SPECIFICATION Spec
SYMMETRY Symmetry
INVARIANT CloseNotReplayed
