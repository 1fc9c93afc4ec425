SPECIFICATION FairSpec
CONSTANTS
  loop = loop
  api = api
  d1 = d1
  Passes = {loop, api}
  Loop = loop
  Dag = {d1}
  MaxAttempts = 2
  Budget = 2
INVARIANTS ObligationKept SmokeBeforeDag
PROPERTIES ReleaseSparesWork ImplementsCampaignLifecycle EveryCampaignEnds
CHECK_DEADLOCK FALSE
