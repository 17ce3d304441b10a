SPECIFICATION Spec
CONSTANTS
  Risk <- MCRisk
  MinRisks = {2}
  Approvers = {a1}
  NoRun = NoRun
  NoApprover = NoApprover
INVARIANT RejectionCloses
