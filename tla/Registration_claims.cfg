SPECIFICATION FairSpec
CONSTANTS
  Registrations = {r1, r2, r3}
  Emails = {e1, e2}
  Nobody = Nobody
INVARIANTS IInv SavedIsQueued
PROPERTIES
  AcceptedUnlessDeactivated
  ImplementsClaims
  RegistrationsEnd
CHECK_DEADLOCK FALSE
