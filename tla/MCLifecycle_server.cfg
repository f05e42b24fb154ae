SPECIFICATION FairSpec
CONSTANTS
  init = init
  later = later
  Servers = {p1, p2}
  Names = {init, later}
  Builds <- TwoBuilds
  Repeatable = {later}
  Environments <- Settings
  Calls = {k1}
  Grace = 1
  Timeout = 2
  MaxWait = 1
  MaxFaults = 2
  Unset = Unset
  None = None
INVARIANT TypeOK
INVARIANT SchemaMatchesRecord
INVARIANT ServesOnFullSchema
INVARIANT TokensSurviveRestarts
INVARIANT DiscoveryLeadsHome
PROPERTY EverybodyComesUp
