CONSTANTS
    Cases <- MCCases
    Replays <- MCReplays
    Deviations <- MCDeviations
    Judgements <- MCJudgements
    Limits <- MCLimits
    SearchTool = "search_knowledge"
    NoReplay = NoReplay
    NoReport = NoReport
SPECIFICATION Spec
INVARIANTS
    HarnessTypeOK
    PassedIsSound
    DefectsAttributed
    DriftBounded
