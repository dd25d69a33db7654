SPECIFICATION Spec
CONSTANTS
  s1 = s1
  s2 = s2
  s3 = s3
  Story <- ThreeStories
  None = None
  MaxPayload = 3
  MaxBackups = 2
  MaxRestores = 2
  MayLose = TRUE
SYMMETRY StorySymmetry
INVARIANTS ChunkOnce StoryOnce
PROPERTIES AckSurvives
