SPECIFICATION FreshSpec
CONSTANTS
  v0 = v0
  v1 = v1
  v2 = v2
  s1 = s1
  a = a
  b = b
  c = c
  Versions <- MCVersions
  Sessions = {a, b}
  Bootstrap = v0
  NoVersion = NoVersion
  Suites = {s1}
  NoSuite = NoSuite
  NoReport = NoReport
  Attributions <- MCAttributions
  FeedbackCounts <- MCFeedback
  Percents = {0, 5, 51}
  Stores <- MCStores
  Bucket <- MCBucket
  Prompts = {p0}
  ValidPrompts = {p0}
  DefaultPrompt = p0
  FallbackPrompt = p0
  NoPrompt = NoPrompt
  GroundedLabel = GroundedLabel
INVARIANT MutationsFromParent
