SPECIFICATION Spec
CONSTANTS
  Destinations = 2
  Configs <- SomeConfigs
  Forces <- SomeForces
  Takes <- SomeTakes
  SilentTools = TRUE
  Missing = Missing
  MaxBuilds = 3
  MaxKills = 1
  p1 = p1
  p2 = p2
  narration = narration
  ffmpeg = ffmpeg
  r1 = r1
  r2 = r2
INVARIANTS DeliveredIsCurrent ManifestTruthful
CHECK_DEADLOCK FALSE
