CONSTANTS
  Recordings = {r1, r2}
  NoSession = NoSession
  Scenes = {command}
  CommandScene = command
  LlmScenes = {command}
  NoScene = NoScene
  Texts = {t1}
  NoText = NoText
  DuckOutput = FALSE
  Notice = Notice
  LiveFailures = TRUE
  EmitMayFail = FALSE
SPECIFICATION ServiceSpec
CHECK_DEADLOCK FALSE
INVARIANTS
  NoStrandedStop
  FollowedByOne
  ResultMatchesOutcome
  ShownStatusIsCurrent
PROPERTIES ServiceProgress BusPromise
