CONSTANTS
  Recordings = {r1, r2}
  NoSession = NoSession
  Scenes = {raw, command}
  CommandScene = command
  LlmScenes = {command}
  NoScene = NoScene
  Texts = {t1, t2}
  NoText = NoText
  DuckOutput = TRUE
  Notice = Notice
  LiveFailures = TRUE
  EmitMayFail = TRUE
SPECIFICATION ServiceSpec
CHECK_DEADLOCK FALSE
INVARIANTS
  CaptureMatchesStatus
  SessionHasOneOwner
  VolumeComesBack
  HandMatchesStatus
  IdleIsClean
PROPERTIES
  StatusFollowsStateMachine
SYMMETRY Symmetry
