SPECIFICATION FairSpec
CONSTANTS
  alice = alice
  bob = bob
  Users = {alice, bob}
  Requests = {r1, r2}
  NoRequest = NoRequest
  Inputs <- AllInputs
INVARIANTS IInv ShownPasswordWorks
PROPERTIES
  CommitMatchesAudit
  LastAdminLostOnlyInRace
  AccessLostToAnother
  RefinesUserTable
  RequestsEnd
