SPECIFICATION Spec
CONSTANTS
  v0 = v0
  v1 = v1
  v2 = v2
  v3 = v3
  s1 = s1
  s2 = s2
  p0 = p0
  p1 = p1
  Versions <- MCVersions
  Bootstrap = v0
  NoVersion = NoVersion
  Suites = {s1, s2}
  NoSuite = NoSuite
  NoReport = NoReport
  Attributions <- MCAttributions
  FeedbackCounts <- MCFeedback
  Percents = {0, 5, 51}
  Stores <- MCStores
  Bucket <- MCBucket
  Prompts = {p0, p1}
  ValidPrompts = {p0}
  DefaultPrompt = p0
  FallbackPrompt = p0
  NoPrompt = NoPrompt
  GroundedLabel = GroundedLabel
PROPERTY ReleaseRechecksSuite
