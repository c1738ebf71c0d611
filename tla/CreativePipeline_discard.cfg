SPECIFICATION Spec
CONSTANTS
  Destinations = 2
  Configs <- OneConfig
  Forces <- SomeForces
  Takes <- SomeTakes
  SilentTools = FALSE
  Missing = Missing
  MaxBuilds = 3
  MaxKills = 0
  p1 = p1
  p2 = p2
  narration = narration
  ffmpeg = ffmpeg
  r1 = r1
  r2 = r2
PROPERTIES UnrelatedWorkKept
CHECK_DEADLOCK FALSE
