CONSTANTS
  t1 = t1
  t2 = t2
  alice = alice
  bob = bob
  m1 = m1
  m2 = m2
  Threads <- MCThreads
  Profiles <- MCProfiles
  Movers <- MCMovers
  NoProfile = NoProfile
  Abandoned = Abandoned
  NoGrant = NoGrant
  MaxEpoch = 3
SPECIFICATION Spec
SYMMETRY Symmetry
INVARIANTS TypeOK OnlyOwnerWrites
PROPERTIES AbandonedStaysFrozen TransferAccounted ImplementsOwnership
