SPECIFICATION Spec
CONSTANTS
  a = a
  b = b
  c = c
  origin = origin
  Visits <- MCVisits
  LastTime = 3
  MaxRows = 4
  Funnels <- MCFunnels
  FunnelWindows = {1}
  FunnelRange <- MCFunnelRange
  Horizon = 4
  Granularities <- MCGranularities
  RetentionWindows = {1}
  RetentionRanges <- MCRetentionRanges
  Whole = 60
  CreditRange <- MCCreditRange
  Conversions <- MCConversions
  Events = {a, b, c}
  Origin = origin
  MaxEdges = 3
INVARIANTS FunnelCountsChains RetentionCountsReturns CreditsAddUp SplitIsAcyclic
CHECK_DEADLOCK FALSE
