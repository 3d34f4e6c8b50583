SPECIFICATION FairSpec
CONSTANTS
  Tabs = {t1, t2}
  Users = {alice, bob}
  Pages = {p1}
  Life = 2
  Spare = 1
  InFlight = 2
  None = None
INVARIANTS IInv ActsAsShown
PROPERTIES SignOutIsOwn LogoutHolds ExpiredOnly LoadsEnd
