SPECIFICATION FairSpec
CONSTANTS
  Risk <- MCRisk
  MinRisks = {2, 3}
  Approvers = {a1, a2}
  NoRun = NoRun
  NoApprover = NoApprover
INVARIANTS
  EffectsAuthorized
  AtMostOnce
  RecordTruthful
PROPERTIES
  SettledStaysSettled
  EveryRequestReturns
