SPECIFICATION FairSpec
CONSTANTS
  Tenants = {t1, t2}
  Calls = {k1}
  Objects <- URNs
  Asks <- AllAsks
  Grants <- Anything
  Requested <- MostScopes
  KnownMetrics <- Metrics
  DefaultMetrics <- Defaults
  TotalOnlyMetrics <- Totals
  Ledgers <- SomeLedgers
  DefaultPostLimit = 1
  MaxPostLimit = 3
  LastDay = 30
  MaxSignIns = 1
  Malformed = Malformed
  None = None
INVARIANT TypeOK
INVARIANT AnswersAreTrue
INVARIANT OneEffectPerCall
INVARIANT EveryMetricAccounted
INVARIANT StatusMatchesTools
INVARIANT ListDegrades
INVARIANT LedgerListIsLatest
INVARIANT CountersMatchList
INVARIANT PeriodAsAsked
PROPERTY NothingUnasked
PROPERTY CallsEnd
