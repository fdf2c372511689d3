CONSTANTS
  Recordings = {r1, r2}
  NoSession = NoSession
  Scenes = {command}
  CommandScene = command
  LlmScenes = {command}
  NoScene = NoScene
  Texts = {t1}
  NoText = NoText
  DuckOutput = FALSE
  Notice = Notice
  LiveFailures = FALSE
  EmitMayFail = TRUE
SPECIFICATION ServiceSpec
CHECK_DEADLOCK FALSE
INVARIANT NoStrandedStop
