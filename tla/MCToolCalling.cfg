SPECIFICATION FairSpec
CONSTANTS
  Queries = {q1, q2}
  Campaigns = campaigns
  Rounds = 6
  MaxCalls = 4
  Repairs = 2
  PolicyCalls = {0, 2}
  MaxBatch = 5
INVARIANTS
  EvidenceBacked
  BudgetKept
  NoReadRepeated
PROPERTY Terminates
