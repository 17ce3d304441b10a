SPECIFICATION Spec
CONSTANTS
  f1 = f1
  f2 = f2
  f3 = f3
  c1 = c1
  c2 = c2
  c3 = c3
  Feedbacks = {f1, f2, f3}
  Content <- MCContent
  Campaigns <- MCCampaigns
  Thresholds = {100, 150}
  Capacity = 4
  LastTime = 2
  Nobody = Nobody
  NoTarget = NoTarget
CHECK_DEADLOCK FALSE
INVARIANTS
  Traceable
  NewestKept
  RecordsTruthful
  MemoryAdvises
