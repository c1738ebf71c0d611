------------------------- MODULE MCCreativePipeline -------------------------
\* Two visual prompts, two master renderers, known or not; images come out
\* different each time they are made.
EXTENDS CreativePipeline
CONSTANTS p1, p2, narration, ffmpeg, r1, r2

Config(prompts, renderer, identified) ==
  [prompts |-> prompts, text |-> narration, identified |-> identified,
   custom |-> ~identified,
   tool |-> [s \in Stages |-> IF s = Master THEN renderer ELSE ffmpeg]]

SomeConfigs == {Config(p1, r1, TRUE), Config(p2, r1, TRUE),
                Config(p1, r1, FALSE), Config(p1, r2, FALSE)}
OneConfig   == {Config(p1, r1, TRUE)}
SomeForces  == {{}, {Images}, 4..NStages}
SomeTakes   == [s \in Stages |-> IF s = Images THEN {1, 2} ELSE {1}]
=============================================================================
