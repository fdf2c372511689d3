----------------------- MODULE RecordingServiceProofs -----------------------
(***************************************************************************)
(* The recording runtime and the D-Bus service above it with its emitter   *)
(* tasks, for any number of recordings: the invariants of the runtime      *)
(* under arbitrary callers, and under the service; the service's own       *)
(* invariants (which emitter follows which recording, what the stop        *)
(* operation holds, what has been signalled); and that it keeps the        *)
(* promise of DictationBus.                                                *)
(***************************************************************************)
EXTENDS RecordingService, SequenceTheorems, TLAPS

-----------------------------------------------------------------------------
(***************************************************************************)
(* The invariants of RecordingRuntime hold for every set of sessions,      *)
(* scenes and texts.  Taken together they are inductive: none of the named *)
(* parts is on its own (that the capture is stopped when a live error is   *)
(* recovered, for instance, rests on CaptureMatchesStatus; that the Busy   *)
(* branch of begin_stop_inference changes nothing rests on                 *)
(* HandMatchesStatus).                                                     *)
(***************************************************************************)
RuntimeInv ==
  /\ RuntimeTypeOK
  /\ CaptureMatchesStatus
  /\ SessionHasOneOwner
  /\ VolumeComesBack
  /\ HandMatchesStatus
  /\ IdleIsClean

-----------------------------------------------------------------------------
(* restore leaves nothing saved, and leaves the sink ducked only if it      *)
(* failed now or at an earlier recording.                                   *)
LEMMA RestoreReleases ==
  ASSUME RuntimeTypeOK, VolumeComesBack, Restore
  PROVE  /\ savedVolume' = NoVolume
         /\ sinkVolume' \in Volumes
         /\ restoreFailed' \in BOOLEAN
         /\ sinkVolume' = "ducked" => restoreFailed'
  BY DEF RuntimeTypeOK, VolumeComesBack, Restore, Volumes, NoVolume, volumeVars

(* duck saves a volume only when none is saved.                             *)
LEMMA DuckSaves ==
  ASSUME RuntimeTypeOK, VolumeComesBack, Duck
  PROVE  /\ savedVolume' \in Volumes \cup {NoVolume}
         /\ sinkVolume' \in Volumes
         /\ restoreFailed' \in BOOLEAN
         /\ sinkVolume' = "ducked" /\ ~restoreFailed' => savedVolume' = "user"
         /\ savedVolume' = "ducked" => restoreFailed'
  BY DEF RuntimeTypeOK, VolumeComesBack, Duck, Volumes, NoVolume, volumeVars

(* The invariant holds of a new runtime.                                    *)
LEMMA RuntimeInitInv == RuntimeInit => RuntimeInv
<1> SUFFICES ASSUME RuntimeInit PROVE RuntimeInv
  OBVIOUS
<1> USE ConstantsDistinct DEF ConstantsDistinct, RuntimeInit, NoVolume
<1>1. RuntimeTypeOK
  BY DEF RuntimeTypeOK, EmptyHand, HandValues, Statuses, Phases, Volumes
<1>2. CaptureMatchesStatus
  BY DEF CaptureMatchesStatus
<1>3. SessionHasOneOwner
  BY DEF SessionHasOneOwner, EmptyHand
<1>4. VolumeComesBack
  BY DEF VolumeComesBack
<1>5. HandMatchesStatus
  BY DEF HandMatchesStatus, EmptyHand
<1>6. IdleIsClean
  BY DEF IdleIsClean
<1> QED
  BY <1>1, <1>2, <1>3, <1>4, <1>5, <1>6 DEF RuntimeInv

-----------------------------------------------------------------------------
(* A step that changes nothing keeps the invariant.                         *)
LEMMA StutterKeepsInv ==
  ASSUME RuntimeInv, UNCHANGED runtimeVars
  PROVE  RuntimeInv'
  BY DEF runtimeVars, RuntimeInv, RuntimeTypeOK, CaptureMatchesStatus, SessionHasOneOwner,
         VolumeComesBack, HandMatchesStatus, ExpectedStatus, IdleIsClean

(* Whichever way a recording ends: when the runtime is reset with the       *)
(* capture stopped, nothing in the caller's hands and no session alive, the *)
(* invariant holds again.                                                   *)
LEMMA ResetRestoresInv ==
  ASSUME RuntimeInv, ResetToIdle, recorder' = FALSE, callback' = NoSession,
         hand' = EmptyHand, phase' \in [Recordings -> Phases],
         \A s \in Recordings : phase'[s] # "live"
  PROVE  RuntimeInv'
<1> USE ConstantsDistinct DEF ConstantsDistinct
<1>1. /\ savedVolume' = NoVolume
      /\ sinkVolume' \in Volumes
      /\ restoreFailed' \in BOOLEAN
      /\ sinkVolume' = "ducked" => restoreFailed'
  BY RestoreReleases DEF RuntimeInv, ResetToIdle
<1>2. /\ status' = "idle"
      /\ activeSession' = NoSession
      /\ currentScene' = NoScene
      /\ selectedText' = NoText
      /\ partialText' = NoText
  BY DEF ResetToIdle
<1>3. RuntimeTypeOK'
  BY <1>1, <1>2 DEF RuntimeTypeOK, EmptyHand, HandValues, Statuses, NoVolume
<1>4. CaptureMatchesStatus'
  BY <1>2 DEF CaptureMatchesStatus
<1>5. SessionHasOneOwner'
  BY <1>2 DEF SessionHasOneOwner, EmptyHand
<1>6. VolumeComesBack'
  BY <1>1 DEF VolumeComesBack, NoVolume
<1>7. HandMatchesStatus'
  BY DEF HandMatchesStatus, EmptyHand
<1>8. IdleIsClean'
  BY <1>2 DEF IdleIsClean
<1> QED
  BY <1>3, <1>4, <1>5, <1>6, <1>7, <1>8 DEF RuntimeInv

(* While the runtime is not recording, only the stop operation can own a    *)
(* live session.                                                            *)
LEMMA OnlyHandIsLive ==
  ASSUME RuntimeInv, status # "recording", NEW s \in Recordings
  PROVE  phase[s] = "live" => hand.stage = "ready" /\ s = hand.session
  BY ConstantsDistinct
  DEF ConstantsDistinct, RuntimeInv, CaptureMatchesStatus, SessionHasOneOwner

(* While it records, the recording's session is the only live one and the   *)
(* stop operation holds nothing.                                            *)
LEMMA OnlyActiveIsLive ==
  ASSUME RuntimeInv, status = "recording"
  PROVE  /\ activeSession \in Recordings
         /\ hand.stage = "none"
         /\ \A s \in Recordings : phase[s] = "live" <=> s = activeSession
  BY ConstantsDistinct
  DEF ConstantsDistinct, RuntimeInv, RuntimeTypeOK, CaptureMatchesStatus, SessionHasOneOwner

-----------------------------------------------------------------------------
(* Starting: the invariant passes from the idle runtime to the recording    *)
(* one, whose only live session is the new one.                             *)
LEMMA StartKeepsInv ==
  ASSUME RuntimeInv, NEW s \in Recordings, NEW sc \in Scenes, NEW sel \in Texts \cup {NoText},
         sel # NoText => sc = CommandScene, StartRecording(s, sc, sel)
  PROVE  RuntimeInv'
<1> USE ConstantsDistinct DEF ConstantsDistinct
<1>1. /\ status = "idle" /\ status' = "recording"
      /\ recorder' = TRUE /\ callback' = s /\ activeSession' = s
      /\ currentScene' = sc /\ selectedText' = sel
      /\ phase' = [phase EXCEPT ![s] = "live"]
      /\ partialText' = partialText /\ hand' = hand
  BY DEF StartRecording, EndSession
<1>2. hand = EmptyHand /\ partialText = NoText
  BY <1>1 DEF RuntimeInv, IdleIsClean
<1>3. \A t \in Recordings : phase[t] # "live"
  BY <1>1, <1>2, OnlyHandIsLive DEF EmptyHand
<1>4. /\ savedVolume' \in Volumes \cup {NoVolume}
      /\ sinkVolume' \in Volumes
      /\ restoreFailed' \in BOOLEAN
      /\ sinkVolume' = "ducked" /\ ~restoreFailed' => savedVolume' = "user"
      /\ savedVolume' = "ducked" => restoreFailed'
  BY DuckSaves DEF RuntimeInv, StartRecording
<1>5. RuntimeTypeOK'
  BY <1>1, <1>4 DEF RuntimeInv, RuntimeTypeOK, Statuses, Phases
<1>6. CaptureMatchesStatus'
  BY <1>1 DEF CaptureMatchesStatus
<1>7. SessionHasOneOwner'
  BY <1>1, <1>2, <1>3 DEF RuntimeInv, RuntimeTypeOK, SessionHasOneOwner, EmptyHand
<1>8. VolumeComesBack'
  BY <1>1, <1>4 DEF VolumeComesBack
<1>9. HandMatchesStatus' /\ IdleIsClean'
  BY <1>1, <1>2 DEF HandMatchesStatus, IdleIsClean, EmptyHand
<1> QED
  BY <1>5, <1>6, <1>7, <1>8, <1>9 DEF RuntimeInv

(* A start that fails leaves the idle runtime as it was.                    *)
LEMMA StartFailsKeepsInv ==
  ASSUME RuntimeInv, StartRecordingFails
  PROVE  RuntimeInv'
<1>1. /\ recorder' = recorder /\ callback' = callback
      /\ UNCHANGED <<status, activeSession, currentScene, selectedText, partialText,
                      savedVolume, sinkVolume, restoreFailed, phase, hand>>
  BY DEF StartRecordingFails, StopCapture, requestVars, volumeVars, RuntimeInv,
         RuntimeTypeOK, CaptureMatchesStatus
<1> QED
  BY <1>1 DEF RuntimeInv, RuntimeTypeOK, CaptureMatchesStatus, SessionHasOneOwner,
              VolumeComesBack, HandMatchesStatus, ExpectedStatus, IdleIsClean

(* Polling only remembers a partial of the recording.                       *)
LEMMA TakeLiveKeepsInv ==
  ASSUME RuntimeInv, NEW p \in Texts \cup {NoText}, TakeLiveEvents(p)
  PROVE  RuntimeInv'
<1>1. /\ status = "recording"
      /\ partialText' \in Texts \cup {NoText}
      /\ UNCHANGED <<status, recorder, callback, activeSession, currentScene, selectedText,
                      savedVolume, sinkVolume, restoreFailed, phase, hand>>
  BY DEF TakeLiveEvents, captureVars, requestVars, volumeVars, RuntimeInv, RuntimeTypeOK
<1>2. RuntimeTypeOK'
  BY <1>1 DEF RuntimeInv, RuntimeTypeOK
<1>3. IdleIsClean'
  BY <1>1 DEF RuntimeInv, IdleIsClean
<1> QED
  BY <1>1, <1>2, <1>3
  DEF RuntimeInv, CaptureMatchesStatus, SessionHasOneOwner, VolumeComesBack,
      HandMatchesStatus, ExpectedStatus

(* A live failure stops the capture, cancels the session and restores the   *)
(* sink before the status becomes error.                                    *)
LEMMA LiveFailureKeepsInv ==
  ASSUME RuntimeInv, TakeLiveEventsFails
  PROVE  RuntimeInv'
<1> USE ConstantsDistinct DEF ConstantsDistinct
<1>1. /\ status = "recording" /\ status' = "error"
      /\ recorder' = FALSE /\ callback' = NoSession /\ activeSession' = NoSession
      /\ currentScene' = NoScene /\ selectedText' = NoText /\ partialText' = NoText
      /\ phase' = [phase EXCEPT ![activeSession] = "cancelled"]
      /\ hand' = hand
  BY DEF TakeLiveEventsFails, StopCapture, EndSession
<1>2. /\ activeSession \in Recordings
      /\ hand.stage = "none"
      /\ \A s \in Recordings : phase[s] = "live" <=> s = activeSession
  BY <1>1, OnlyActiveIsLive
<1>3. hand = EmptyHand
  BY <1>2 DEF RuntimeInv, SessionHasOneOwner
<1>4. \A s \in Recordings : phase'[s] # "live"
  BY <1>1, <1>2 DEF RuntimeInv, RuntimeTypeOK
<1>5. /\ savedVolume' = NoVolume
      /\ sinkVolume' \in Volumes
      /\ restoreFailed' \in BOOLEAN
      /\ sinkVolume' = "ducked" => restoreFailed'
  BY RestoreReleases DEF RuntimeInv, TakeLiveEventsFails
<1>6. RuntimeTypeOK'
  BY <1>1, <1>5 DEF RuntimeInv, RuntimeTypeOK, Statuses, Phases
<1>7. CaptureMatchesStatus' /\ HandMatchesStatus' /\ IdleIsClean'
  BY <1>1, <1>3 DEF CaptureMatchesStatus, HandMatchesStatus, IdleIsClean, EmptyHand
<1>8. SessionHasOneOwner'
  BY <1>1, <1>3, <1>4 DEF SessionHasOneOwner, EmptyHand
<1>9. VolumeComesBack'
  BY <1>1, <1>5 DEF VolumeComesBack, NoVolume
<1> QED
  BY <1>6, <1>7, <1>8, <1>9 DEF RuntimeInv

(* Recovering a live error resets a runtime that stopped capturing already. *)
LEMMA RecoverKeepsInv ==
  ASSUME RuntimeInv, RecoverLiveRecordingError
  PROVE  RuntimeInv'
<1>1. CASE status = "error"
  <2>1. /\ ResetToIdle
        /\ UNCHANGED <<recorder, callback, phase, hand>>
    BY <1>1 DEF RecoverLiveRecordingError, captureVars
  <2>2. recorder = FALSE /\ callback = NoSession /\ hand = EmptyHand
    BY <1>1 DEF RuntimeInv, RuntimeTypeOK, CaptureMatchesStatus, IdleIsClean
  <2>3. \A s \in Recordings : phase[s] # "live"
    BY <1>1, <2>2, OnlyHandIsLive DEF EmptyHand
  <2> QED
    BY <2>1, <2>2, <2>3, ResetRestoresInv DEF RuntimeInv, RuntimeTypeOK
<1>2. CASE status # "error"
  BY <1>2, StutterKeepsInv DEF RecoverLiveRecordingError
<1> QED
  BY <1>1, <1>2

-----------------------------------------------------------------------------
(* A discarded recording: the cancelled session was the only live one.      *)
LEMMA DiscardKeepsInv ==
  ASSUME RuntimeInv, PrepareStopDiscards
  PROVE  RuntimeInv'
<1>1. /\ status = "recording"
      /\ recorder' = FALSE /\ callback' = NoSession
      /\ phase' = [phase EXCEPT ![activeSession] = "cancelled"]
      /\ ResetToIdle
      /\ hand' = hand
  BY DEF PrepareStopDiscards, StopCapture, EndSession
<1>2. /\ activeSession \in Recordings
      /\ hand.stage = "none"
      /\ \A s \in Recordings : phase[s] = "live" <=> s = activeSession
  BY <1>1, OnlyActiveIsLive
<1>3. hand' = EmptyHand
  BY <1>1, <1>2 DEF RuntimeInv, SessionHasOneOwner
<1>4. /\ phase' \in [Recordings -> Phases]
      /\ \A s \in Recordings : phase'[s] # "live"
  BY <1>1, <1>2 DEF RuntimeInv, RuntimeTypeOK, Phases
<1> QED
  BY <1>1, <1>3, <1>4, ResetRestoresInv

(* The session of a recording worth recognising passes to the caller.       *)
LEMMA ReadyKeepsInv ==
  ASSUME RuntimeInv, NEW sc \in Scenes, PrepareStopReady(sc)
  PROVE  RuntimeInv'
<1> USE ConstantsDistinct DEF ConstantsDistinct
<1>1. /\ status = "recording" /\ status' = "inferring"
      /\ recorder' = FALSE /\ callback' = NoSession /\ activeSession' = NoSession
      /\ hand' = [stage |-> "ready", session |-> activeSession, scene |-> sc,
                  selected |-> selectedText, post |-> FALSE, text |-> FALSE]
      /\ UNCHANGED <<currentScene, selectedText, partialText, phase>>
  BY DEF PrepareStopReady, StopCapture, Ready, requestVars
<1>2. /\ activeSession \in Recordings
      /\ \A s \in Recordings : phase[s] = "live" <=> s = activeSession
  BY <1>1, OnlyActiveIsLive
<1>3. /\ savedVolume' = NoVolume
      /\ sinkVolume' \in Volumes
      /\ restoreFailed' \in BOOLEAN
      /\ sinkVolume' = "ducked" => restoreFailed'
  BY RestoreReleases DEF RuntimeInv, PrepareStopReady
<1>4. RuntimeTypeOK'
  BY <1>1, <1>2, <1>3 DEF RuntimeInv, RuntimeTypeOK, Statuses, HandValues
<1>5. CaptureMatchesStatus' /\ HandMatchesStatus'
  BY <1>1 DEF CaptureMatchesStatus, HandMatchesStatus
<1>6. SessionHasOneOwner'
  BY <1>1, <1>2 DEF SessionHasOneOwner
<1>7. VolumeComesBack'
  BY <1>3 DEF VolumeComesBack, NoVolume
<1>8. IdleIsClean'
  BY <1>1 DEF RuntimeInv, IdleIsClean
<1> QED
  BY <1>4, <1>5, <1>6, <1>7, <1>8 DEF RuntimeInv

-----------------------------------------------------------------------------
(* While the stop operation holds something, the runtime does not capture,  *)
(* and no session but possibly the one in its hands is alive.               *)
LEMMA HoldingMeansNotCapturing ==
  ASSUME RuntimeInv, hand.stage # "none"
  PROVE  /\ hand.session \in Recordings
         /\ activeSession = NoSession /\ recorder = FALSE /\ callback = NoSession
         /\ \A s \in Recordings : s # hand.session => phase[s] # "live"
  BY ConstantsDistinct
  DEF ConstantsDistinct, RuntimeInv, RuntimeTypeOK, CaptureMatchesStatus, SessionHasOneOwner

(* Inference failed; the Busy branch is excluded by HandMatchesStatus.      *)
LEMMA InferenceFailsKeepsInv ==
  ASSUME RuntimeInv, BeginStopInferenceFails
  PROVE  RuntimeInv'
<1>1. hand.stage = "ready" /\ status = "inferring"
  BY DEF BeginStopInferenceFails, RuntimeInv, HandMatchesStatus
<1>2. /\ ResetToIdle /\ hand' = EmptyHand
      /\ recorder' = recorder /\ callback' = callback
      /\ phase' = [phase EXCEPT ![hand.session] = "cancelled"]
  BY <1>1 DEF BeginStopInferenceFails, ResetIf, EndSession, captureVars
<1>3. /\ phase' \in [Recordings -> Phases]
      /\ \A s \in Recordings : phase'[s] # "live"
  BY <1>1, <1>2, HoldingMeansNotCapturing DEF RuntimeInv, RuntimeTypeOK, Phases
<1> QED
  BY <1>1, <1>2, <1>3, HoldingMeansNotCapturing, ResetRestoresInv

(* Inference done: the status follows what the pending value calls for.     *)
LEMMA InferenceKeepsInv ==
  ASSUME RuntimeInv, NEW text \in BOOLEAN, NEW p \in Texts \cup {NoText},
         BeginStopInference(text, p)
  PROVE  RuntimeInv'
<1> USE ConstantsDistinct DEF ConstantsDistinct
<1> DEFINE post == EntersPostprocessing(hand.scene, text)
<1>1. /\ hand.stage = "ready" /\ status = "inferring"
      /\ hand' = [stage |-> "pending", session |-> hand.session, scene |-> hand.scene,
                  selected |-> hand.selected, post |-> post, text |-> text]
      /\ phase' = [phase EXCEPT ![hand.session] = "finished"]
      /\ status' = IF post THEN "postprocessing" ELSE "inferring"
      /\ partialText' = IF p = NoText THEN partialText ELSE p
      /\ UNCHANGED <<recorder, callback, activeSession, currentScene, selectedText,
                      savedVolume, sinkVolume, restoreFailed>>
  BY DEF BeginStopInference, Pending, EndSession, captureVars, requestVars, volumeVars
<1>2. post \in BOOLEAN
  BY DEF EntersPostprocessing
<1> HIDE DEF post
<1>3. /\ hand.session \in Recordings
      /\ activeSession = NoSession /\ recorder = FALSE /\ callback = NoSession
      /\ \A s \in Recordings : s # hand.session => phase[s] # "live"
  BY <1>1, HoldingMeansNotCapturing
<1>4. hand' \in HandValues
  BY <1>1, <1>2 DEF RuntimeInv, RuntimeTypeOK, HandValues
<1>5. RuntimeTypeOK'
  BY <1>1, <1>4 DEF RuntimeInv, RuntimeTypeOK, Statuses, Phases
<1>6. CaptureMatchesStatus'
  BY <1>1, <1>3 DEF CaptureMatchesStatus
<1>7. SessionHasOneOwner'
  <2>1. \A s \in Recordings : phase'[s] # "live"
    BY <1>1, <1>3 DEF RuntimeInv, RuntimeTypeOK
  <2> QED
    BY <1>1, <1>3, <2>1 DEF SessionHasOneOwner
<1>8. VolumeComesBack'
  BY <1>1 DEF RuntimeInv, VolumeComesBack, NoVolume
<1>9. HandMatchesStatus'
  BY <1>1 DEF HandMatchesStatus, ExpectedStatus
<1>10. IdleIsClean'
  BY <1>1 DEF RuntimeInv, IdleIsClean
<1> QED
  BY <1>5, <1>6, <1>7, <1>8, <1>9, <1>10 DEF RuntimeInv

(* A pending result ends in one of three ways, all through a reset.         *)
LEMMA PendingEndsKeepInv ==
  ASSUME RuntimeInv, FinishStopRecording \/ FinishStopRecordingFails \/ AbortStopRecording
  PROVE  RuntimeInv'
<1>1. hand.stage = "pending" /\ status = ExpectedStatus(hand)
  BY DEF FinishStopRecording, FinishStopRecordingFails, AbortStopRecording,
         RuntimeInv, HandMatchesStatus
<1>2. /\ hand.session \in Recordings
      /\ recorder = FALSE /\ callback = NoSession
      /\ \A s \in Recordings : s # hand.session => phase[s] # "live"
  BY <1>1, HoldingMeansNotCapturing
<1>3. /\ ResetToIdle /\ hand' = EmptyHand
      /\ recorder' = FALSE /\ callback' = NoSession
      /\ phase' = phase \/ phase' = [phase EXCEPT ![hand.session] = "cancelled"]
  BY <1>1, <1>2 DEF FinishStopRecording, FinishStopRecordingFails, AbortStopRecording,
                    ResetIf, EndSession, StopCapture, captureVars
<1>4. phase[hand.session] # "live"
  BY <1>1, <1>2, ConstantsDistinct DEF ConstantsDistinct, RuntimeInv, SessionHasOneOwner
<1>5. /\ phase' \in [Recordings -> Phases]
      /\ \A s \in Recordings : phase'[s] # "live"
  BY <1>2, <1>3, <1>4 DEF RuntimeInv, RuntimeTypeOK, Phases
<1> QED
  BY <1>3, <1>5, ResetRestoresInv

(* A dropped prepared value takes its session with it.                      *)
LEMMA DropKeepsInv ==
  ASSUME RuntimeInv, DropPrepared
  PROVE  RuntimeInv'
<1> USE ConstantsDistinct DEF ConstantsDistinct
<1>1. /\ hand.stage = "ready" /\ hand' = EmptyHand
      /\ phase' = [phase EXCEPT ![hand.session] = "dropped"]
      /\ UNCHANGED <<status, recorder, callback, activeSession, currentScene, selectedText,
                      partialText, savedVolume, sinkVolume, restoreFailed>>
  BY DEF DropPrepared, EndSession, captureVars, requestVars, volumeVars
<1>2. /\ hand.session \in Recordings
      /\ activeSession = NoSession /\ recorder = FALSE /\ callback = NoSession
      /\ \A s \in Recordings : s # hand.session => phase[s] # "live"
  BY <1>1, HoldingMeansNotCapturing
<1>3. RuntimeTypeOK'
  BY <1>1 DEF RuntimeInv, RuntimeTypeOK, Phases, HandValues, EmptyHand
<1>4. SessionHasOneOwner'
  BY <1>1, <1>2 DEF RuntimeInv, RuntimeTypeOK, SessionHasOneOwner, EmptyHand
<1>5. CaptureMatchesStatus' /\ VolumeComesBack'
  BY <1>1 DEF RuntimeInv, CaptureMatchesStatus, VolumeComesBack
<1>6. HandMatchesStatus' /\ IdleIsClean'
  BY <1>1 DEF RuntimeInv, HandMatchesStatus, IdleIsClean, EmptyHand
<1> QED
  BY <1>3, <1>4, <1>5, <1>6 DEF RuntimeInv

-----------------------------------------------------------------------------
(* Every method of the runtime preserves the invariant.                     *)
LEMMA RuntimeStepInv == RuntimeInv /\ [RuntimeNext]_runtimeVars => RuntimeInv'
<1> SUFFICES ASSUME RuntimeInv, [RuntimeNext]_runtimeVars PROVE RuntimeInv'
  OBVIOUS
<1>1. CASE StartSteps
  BY <1>1, ConstantsDistinct, StartKeepsInv, StartFailsKeepsInv
  DEF ConstantsDistinct, StartSteps
<1>2. CASE LiveSteps
  BY <1>2, TakeLiveKeepsInv, LiveFailureKeepsInv, RecoverKeepsInv DEF LiveSteps
<1>3. CASE StopSteps
  BY <1>3, DiscardKeepsInv, ReadyKeepsInv, InferenceFailsKeepsInv, InferenceKeepsInv,
     PendingEndsKeepInv, DropKeepsInv DEF StopSteps
<1>4. CASE UNCHANGED runtimeVars
  BY <1>4, StutterKeepsInv
<1> QED
  BY <1>1, <1>2, <1>3, <1>4 DEF RuntimeNext

(* The conjunction of the invariants holds throughout, for every set of     *)
(* sessions, scenes and texts, whichever methods are called in whichever    *)
(* order.                                                                   *)
LEMMA RuntimeInvHolds == RuntimeSpec => []RuntimeInv
<1>1. RuntimeInit => RuntimeInv
  BY RuntimeInitInv
<1>2. RuntimeInv /\ [RuntimeNext]_runtimeVars => RuntimeInv'
  BY RuntimeStepInv
<1> QED
  BY <1>1, <1>2, PTL DEF RuntimeSpec

-----------------------------------------------------------------------------
(* Every variable keeps its type.                                           *)
THEOREM RuntimeTypeCorrect == RuntimeSpec => []RuntimeTypeOK
<1>1. RuntimeInv => RuntimeTypeOK
  BY DEF RuntimeInv
<1> QED
  BY <1>1, RuntimeInvHolds, PTL

(* No exit path leaves the microphone open or a callback of an ended session*)
(* installed: start, stop, live failure, abort.                             *)
THEOREM CaptureFollowsStatus == RuntimeSpec => []CaptureMatchesStatus
<1>1. RuntimeInv => CaptureMatchesStatus
  BY DEF RuntimeInv
<1> QED
  BY <1>1, RuntimeInvHolds, PTL

(* Every live recognition session has one owner, and no early return loses  *)
(* one without ending it.                                                   *)
THEOREM SessionsAreOwned == RuntimeSpec => []SessionHasOneOwner
<1>1. RuntimeInv => SessionHasOneOwner
  BY DEF RuntimeInv
<1> QED
  BY <1>1, RuntimeInvHolds, PTL

(* The sink stays ducked after a recording only if wpctl failed.            *)
THEOREM SinkIsRestored == RuntimeSpec => []VolumeComesBack
<1>1. RuntimeInv => VolumeComesBack
  BY DEF RuntimeInv
<1> QED
  BY <1>1, RuntimeInvHolds, PTL

(* The Busy returns of begin_stop_inference and finish_stop_recording are   *)
(* unreachable: the value held by the stop operation fits the status.       *)
THEOREM NoBusyAtInference == RuntimeSpec => []HandMatchesStatus
<1>1. RuntimeInv => HandMatchesStatus
  BY DEF RuntimeInv
<1> QED
  BY <1>1, RuntimeInvHolds, PTL

(* No scene, selection or partial of one recording is seen by the next.     *)
THEOREM IdleStaysClean == RuntimeSpec => []IdleIsClean
<1>1. RuntimeInv => IdleIsClean
  BY DEF RuntimeInv
<1> QED
  BY <1>1, RuntimeInvHolds, PTL

(* The status moves only along the arrows of the state machine.            *)
THEOREM StatusMovesAlongArrows == RuntimeSpec => StatusFollowsStateMachine
<1>1. RuntimeInv /\ [RuntimeNext]_runtimeVars => [Follows(status, status')]_status
  <2> SUFFICES ASSUME RuntimeInv, [RuntimeNext]_runtimeVars, status' # status
               PROVE  Follows(status, status')
    OBVIOUS
  <2>1. RuntimeNext
    BY DEF runtimeVars
  <2>2. CASE StartSteps
    BY <2>2 DEF Follows, StartSteps, StartRecording, StartRecordingFails
  <2>3. CASE LiveSteps
    BY <2>3 DEF Follows, LiveSteps, TakeLiveEvents, TakeLiveEventsFails, RecoverLiveRecordingError,
                ResetToIdle, runtimeVars
  <2>4. CASE StopSteps
    BY <2>4 DEF Follows, StopSteps, PrepareStopDiscards, PrepareStopReady, BeginStopInferenceFails,
                BeginStopInference, FinishStopRecording, FinishStopRecordingFails,
                AbortStopRecording, DropPrepared, ResetToIdle, ResetIf, ExpectedStatus,
                RuntimeInv, RuntimeTypeOK, HandMatchesStatus, Statuses
  <2> QED
    BY <2>1, <2>2, <2>3, <2>4 DEF RuntimeNext
<1> QED
  BY <1>1, RuntimeInvHolds, PTL DEF RuntimeSpec, StatusFollowsStateMachine

-----------------------------------------------------------------------------
(***************************************************************************)
(* The service drives the runtime only through its methods, so everything  *)
(* proved of the runtime under arbitrary callers holds under the D-Bus     *)
(* handlers and the emitter tasks, whatever they interleave.               *)
(***************************************************************************)

(* A handler step is a step of the runtime, or leaves it alone.             *)
LEMMA HandlerUsesRuntime ==
  ASSUME Handler
  PROVE  RuntimeNext \/ UNCHANGED runtimeVars
<1>1. CASE BeginLive \/ CancelLive
  BY <1>1 DEF BeginLive, CancelLive
<1>2. CASE Prepare
  BY <1>2 DEF Prepare, RuntimeNext, StopSteps
<1>3. CASE Begin
  BY <1>3 DEF Begin, RuntimeNext, StopSteps
<1>4. CASE Abort \/ Finish
  BY <1>4 DEF Abort, Finish, RuntimeNext, StopSteps
<1>5. CASE \E ok \in Emissions : ShowInferring(ok)
  BY <1>5 DEF ShowInferring, RuntimeNext, StopSteps
<1>6. CASE \E ok \in Emissions :
             \/ AnnounceRecording(ok) \/ ShowPostprocessing(ok)
             \/ EmitPartial(ok) \/ EmitResult(ok) \/ ShowIdle(ok)
  BY <1>6 DEF AnnounceRecording, ShowPostprocessing, EmitPartial, EmitResult, ShowIdle
<1> QED
  BY <1>1, <1>2, <1>3, <1>4, <1>5, <1>6 DEF Handler

(* So is a step of an emitter task.                                         *)
LEMMA TaskUsesRuntime ==
  ASSUME NEW s \in Recordings, Task(s)
  PROVE  RuntimeNext \/ UNCHANGED runtimeVars
<1>1. CASE Tick(s) \/ PollEnds(s) \/ CheckEvent(s) \/ ComparePartial(s) \/ RecordPartial(s)
  BY <1>1 DEF Tick, PollEnds, CheckEvent, ComparePartial, RecordPartial
<1>2. CASE PollFails(s)
  BY <1>2 DEF PollFails, RuntimeNext, LiveSteps
<1>3. CASE \E p \in Texts \cup {NoText}, error \in BOOLEAN : Poll(s, p, error)
  <2>1. \E p \in Texts \cup {NoText} : TakeLiveEvents(p)
    BY <1>3 DEF Poll
  <2> QED
    BY <2>1 DEF RuntimeNext, LiveSteps
<1>4. CASE Recover(s)
  BY <1>4 DEF Recover, RuntimeNext, LiveSteps
<1>5. CASE \E ok \in Emissions :
             SendPartial(s, ok) \/ NotifyError(s, ok) \/ ShowError(s, ok) \/ ShowRecovered(s, ok)
  BY <1>5 DEF SendPartial, NotifyError, ShowError, ShowRecovered
<1> QED
  BY <1>1, <1>2, <1>3, <1>4, <1>5 DEF Task

(* Every step of the service is a step of the runtime or a stutter of it.   *)
LEMMA ServiceStepUsesRuntime == [ServiceNext]_serviceVars => [RuntimeNext]_runtimeVars
<1> SUFFICES ASSUME [ServiceNext]_serviceVars
             PROVE  RuntimeNext \/ UNCHANGED runtimeVars
  OBVIOUS
<1>1. CASE StartCall
  BY <1>1 DEF StartCall, Start, RuntimeNext, StartSteps
<1>2. CASE Stop
  BY <1>2 DEF Stop
<1>3. CASE Handler
  BY <1>3, HandlerUsesRuntime
<1>4. CASE \E s \in Recordings : Task(s)
  BY <1>4, TaskUsesRuntime
<1>5. CASE UNCHANGED serviceVars
  BY <1>5 DEF serviceVars
<1> QED
  BY <1>1, <1>2, <1>3, <1>4, <1>5 DEF ServiceNext

(* Under the D-Bus handlers too, the capture, the sessions, the sink and    *)
(* the hand-off of stop are as RuntimeInv says.                             *)
THEOREM ServiceRuntimeSafe == ServiceSpec => []RuntimeInv
<1>1. ServiceInit => RuntimeInit
  BY DEF ServiceInit
<1>2. [ServiceNext]_serviceVars => [RuntimeNext]_runtimeVars
  BY ServiceStepUsesRuntime
<1> QED
  BY <1>1, <1>2, RuntimeInvHolds, PTL DEF ServiceSpec, RuntimeSpec

-----------------------------------------------------------------------------
(***************************************************************************)
(* The invariants of the service itself.                                   *)
(***************************************************************************)

Tasks == [pc : TaskStages, gen : Nat, from : Recordings \cup {NoSession},
          todo : Seq(Texts \cup {Notice})]

(* Stages of the handler: the recording may still be running; stop holds    *)
(* the session; it holds a pending result; it delivers it; it has withdrawn *)
(* the generation of every emitter.                                         *)
Starting   == {"announce", "beginLive"}
Opening    == Starting \cup {"cancelLive", "prepare"}
Handing    == {"showInferring", "begin"}
Held       == {"showPostprocessing", "abort", "finish"}
Delivering == {"emitPartial", "emitResult"}
Withdrawn  == {"prepare", "showIdle"} \cup Handing \cup Held \cup Delivering

Working  == TaskStages \ Over
Judging  == {"compare", "send", "record"}
Speaking == Judging \cup {"notify"}

(* The recording was ended by a failure another emitter came upon.          *)
EndedByOther(s) ==
  phase[s] = "cancelled" /\ \E t \in Recordings \ {s} : emitter[t].pc \in FailurePath

ServiceTyped ==
  /\ op \in [pc : OpStages, session : Recordings \cup {NoSession},
             last : Texts \cup {NoText}, partial : Texts \cup {NoText}]
  /\ generation \in Nat
  /\ lastEmitted \in Texts \cup {NoText}
  /\ emitter \in [Recordings -> Tasks]
  /\ shown \in Statuses
  /\ results \in [Recordings -> 0 .. 1]
  /\ notice \in [Recordings -> {"none", "drained", "reported"}]

HandlerFits ==
  /\ op.pc # "free" => op.session \in Recordings
  /\ op.pc \notin Handing \cup Held => hand = EmptyHand
  /\ op.pc \in Handing => hand.stage = "ready" /\ hand.session = op.session
  /\ op.pc \in Held => hand.stage = "pending" /\ hand.session = op.session
  /\ op.pc \in Held \cup Delivering => phase[op.session] = "finished"
  /\ op.pc \in Opening => /\ status \in {"recording", "error", "idle"}
                          /\ status = "recording" => op.session = activeSession
  /\ op.pc \in Delivering \cup {"showIdle"} => status \in {"idle", "error"}
  /\ op.pc \in Starting => /\ emitter[op.session].pc = "none"
                           /\ phase[op.session] = "live" \/ EndedByOther(op.session)

(* What holds of the emitter of each recording.                             *)
EmitterFits(s) ==
  /\ emitter[s].gen <= generation
  /\ emitter[s].pc \in Working => emitter[s].gen # 0
  /\ phase[s] = "unused" => emitter[s].pc = "none"
  /\ emitter[s].pc \in Speaking => emitter[s].todo # <<>>
  /\ emitter[s].pc \in Judging => Head(emitter[s].todo) # Notice
  /\ emitter[s].pc \in FailurePath => phase[s] # "live"
  /\ emitter[s].pc \in Working /\ IsCurrent(s) =>
       /\ op.pc \notin Withdrawn
       /\ emitter[s].pc \notin FailurePath => phase[s] = "live" \/ EndedByOther(s)
       /\ emitter[s].pc = "event" /\ emitter[s].todo # <<>> =>
            emitter[s].from = s \/ EndedByOther(s)
  /\ emitter[s].pc \in Speaking => emitter[s].from = s \/ EndedByOther(s)

GenerationsDiffer ==
  \A s, t \in Recordings :
    emitter[s].pc \in Working /\ emitter[t].pc \in Working /\ emitter[s].gen = emitter[t].gen
      => s = t

ResultsFit ==
  /\ \A s \in Recordings : phase[s] # "finished" => results[s] = 0
  /\ op.pc \in Held \cup Delivering => results[op.session] = 0

ServiceSound ==
  /\ ServiceTyped /\ HandlerFits
  /\ \A s \in Recordings : EmitterFits(s)
  /\ GenerationsDiffer /\ ResultsFit

ServiceInv == RuntimeInv /\ ServiceSound

(* What holds besides as long as every signal is sent.                      *)
Follower(s) == emitter[s].pc \in Working \ FailurePath /\ IsCurrent(s)

ReliableInv ==
  /\ op.pc = "free" => status \in {"idle", "recording", "error"}
  /\ op.pc \in {"free", "cancelLive"} /\ status = "recording" => Follower(activeSession)
  /\ \A s \in Recordings :
       phase[s] = "finished" /\ ~(s = op.session /\ op.pc \in Held \cup Delivering)
         => results[s] = 1
  /\ ~LiveFailed =>
       /\ status # "error"
       /\ op.pc \in Opening => status = "recording"
       /\ op.pc \in {"free", "beginLive"} => shown = status

(* What a step does to it.                                                  *)
Reliable == EmitMayFail = FALSE /\ ReliableInv
StaysReliable == Reliable => ReliableInv'

-----------------------------------------------------------------------------
(* Types.                                                                   *)

LEMMA TasksUpdate ==
  ASSUME NEW r \in Tasks
  PROVE  /\ \A pc \in TaskStages :
              LET n == [r EXCEPT !.pc = pc]
              IN  /\ n \in Tasks /\ n.pc = pc
                  /\ n.gen = r.gen /\ n.from = r.from /\ n.todo = r.todo
         /\ r.todo # <<>> =>
              LET n == [r EXCEPT !.pc = "event", !.todo = Tail(@)]
              IN  n \in Tasks /\ n.pc = "event" /\ n.gen = r.gen /\ n.from = r.from
         /\ \A f \in Recordings \cup {NoSession}, q \in Seq(Texts \cup {Notice}),
               pc \in {"tick", "event"} :
              LET n == [r EXCEPT !.pc = pc, !.from = f, !.todo = q]
              IN  n \in Tasks /\ n.pc = pc /\ n.gen = r.gen /\ n.from = f /\ n.todo = q
<1>1. ASSUME NEW pc \in TaskStages
      PROVE  LET n == [r EXCEPT !.pc = pc]
             IN  /\ n \in Tasks /\ n.pc = pc
                 /\ n.gen = r.gen /\ n.from = r.from /\ n.todo = r.todo
  BY DEF Tasks
<1>2. ASSUME r.todo # <<>>
      PROVE  LET n == [r EXCEPT !.pc = "event", !.todo = Tail(@)]
             IN  n \in Tasks /\ n.pc = "event" /\ n.gen = r.gen /\ n.from = r.from
  <2>1. r.todo \in Seq(Texts \cup {Notice})
    BY DEF Tasks
  <2>2. Tail(r.todo) \in Seq(Texts \cup {Notice})
    BY <1>2, <2>1, HeadTailProperties
  <2> QED
    BY <2>2 DEF Tasks, TaskStages
<1>3. ASSUME NEW f \in Recordings \cup {NoSession}, NEW q \in Seq(Texts \cup {Notice}),
             NEW pc \in {"tick", "event"}
      PROVE  LET n == [r EXCEPT !.pc = pc, !.from = f, !.todo = q]
             IN  n \in Tasks /\ n.pc = pc /\ n.gen = r.gen /\ n.from = f /\ n.todo = q
  BY DEF Tasks, TaskStages
<1> QED
  BY <1>1, <1>2, <1>3

LEMMA NewTasks ==
  /\ NoTask \in Tasks
  /\ \A pc \in TaskStages :
       LET n == [NoTask EXCEPT !.pc = pc]
       IN  n \in Tasks /\ n.pc = pc /\ n.gen = 0 /\ n.todo = <<>>
  /\ \A g \in Nat :
       LET n == [NoTask EXCEPT !.pc = "tick", !.gen = g]
       IN  n \in Tasks /\ n.pc = "tick" /\ n.gen = g /\ n.todo = <<>>
<1>1. <<>> \in Seq(Texts \cup {Notice})
  OBVIOUS
<1> QED
  BY <1>1 DEF NoTask, Tasks, TaskStages

(* What a step of an emitter does to itself and to the others.              *)
Becomes(s, r) == emitter' = [emitter EXCEPT ![s] = r]

LEMMA BecomesOne ==
  ASSUME NEW s \in Recordings, NEW r \in Tasks, emitter \in [Recordings -> Tasks], Becomes(s, r)
  PROVE  /\ emitter' \in [Recordings -> Tasks]
         /\ emitter'[s] = r
         /\ \A t \in Recordings \ {s} : emitter'[t] = emitter[t]
BY DEF Becomes

(* The four ways the tasks write their progress.                            *)
LEMMA TaskWrites ==
  ASSUME ServiceTyped, NEW s \in Recordings
  PROVE  /\ \A pc \in TaskStages : TaskGoto(s, pc) =>
              /\ emitter' \in [Recordings -> Tasks]
              /\ \A t \in Recordings \ {s} : emitter'[t] = emitter[t]
              /\ emitter'[s].pc = pc /\ emitter'[s].gen = emitter[s].gen
              /\ emitter'[s].from = emitter[s].from /\ emitter'[s].todo = emitter[s].todo
         /\ \A pc \in TaskStages : TaskEndsAs(s, pc) =>
              /\ emitter' \in [Recordings -> Tasks]
              /\ \A t \in Recordings \ {s} : emitter'[t] = emitter[t]
              /\ emitter'[s].pc = pc /\ emitter'[s].gen = 0
         /\ NextEvent(s) /\ emitter[s].todo # <<>> =>
              /\ emitter' \in [Recordings -> Tasks]
              /\ \A t \in Recordings \ {s} : emitter'[t] = emitter[t]
              /\ emitter'[s].pc = "event" /\ emitter'[s].gen = emitter[s].gen
              /\ emitter'[s].from = emitter[s].from
<1>1. emitter \in [Recordings -> Tasks] /\ emitter[s] \in Tasks
  BY DEF ServiceTyped
<1>2. ASSUME NEW pc \in TaskStages, TaskGoto(s, pc)
      PROVE  /\ emitter' \in [Recordings -> Tasks]
             /\ \A t \in Recordings \ {s} : emitter'[t] = emitter[t]
             /\ emitter'[s].pc = pc /\ emitter'[s].gen = emitter[s].gen
             /\ emitter'[s].from = emitter[s].from /\ emitter'[s].todo = emitter[s].todo
  <2> DEFINE r == [emitter[s] EXCEPT !.pc = pc]
  <2>1. Becomes(s, r)
    BY <1>1, <1>2 DEF TaskGoto, Becomes
  <2>2. /\ r \in Tasks /\ r.pc = pc
        /\ r.gen = emitter[s].gen /\ r.from = emitter[s].from /\ r.todo = emitter[s].todo
    BY <1>1 DEF Tasks
  <2> HIDE DEF r
  <2> QED
    BY <1>1, <2>1, <2>2, BecomesOne
<1>3. ASSUME NEW pc \in TaskStages, TaskEndsAs(s, pc)
      PROVE  /\ emitter' \in [Recordings -> Tasks]
             /\ \A t \in Recordings \ {s} : emitter'[t] = emitter[t]
             /\ emitter'[s].pc = pc /\ emitter'[s].gen = 0
  <2> DEFINE r == [NoTask EXCEPT !.pc = pc]
  <2>1. Becomes(s, r)
    BY <1>3 DEF TaskEndsAs, Becomes
  <2>2. r \in Tasks /\ r.pc = pc /\ r.gen = 0
    BY NewTasks
  <2> HIDE DEF r
  <2> QED
    BY <1>1, <2>1, <2>2, BecomesOne
<1>4. ASSUME NextEvent(s), emitter[s].todo # <<>>
      PROVE  /\ emitter' \in [Recordings -> Tasks]
             /\ \A t \in Recordings \ {s} : emitter'[t] = emitter[t]
             /\ emitter'[s].pc = "event" /\ emitter'[s].gen = emitter[s].gen
             /\ emitter'[s].from = emitter[s].from
  <2> DEFINE r == [emitter[s] EXCEPT !.pc = "event", !.todo = Tail(@)]
  <2>1. Becomes(s, r)
    BY <1>1, <1>4 DEF NextEvent, Becomes
  <2>2. r \in Tasks /\ r.pc = "event" /\ r.gen = emitter[s].gen /\ r.from = emitter[s].from
    BY <1>1, <1>4, TasksUpdate
  <2> HIDE DEF r
  <2> QED
    BY <1>1, <2>1, <2>2, BecomesOne
<1> QED
  BY <1>2, <1>3, <1>4

-----------------------------------------------------------------------------
(* What a step of the runtime does to the sessions: an unused one may go    *)
(* live, nobody revives another, and a cancelled one stays cancelled.       *)
PhasesMove ==
  /\ phase' \in [Recordings -> Phases]
  /\ \A s \in Recordings :
       /\ phase'[s] = "unused" => phase[s] = "unused"
       /\ phase'[s] = "live" => phase[s] \in {"live", "unused"}
       /\ phase[s] = "cancelled" => phase'[s] = "cancelled"

LEMMA PhasesStay ==
  ASSUME RuntimeInv, phase' = phase
  PROVE  PhasesMove
  BY DEF PhasesMove, RuntimeInv, RuntimeTypeOK

LEMMA OnePhaseMoves ==
  ASSUME RuntimeInv, NEW s \in Recordings \cup {NoSession}, phase[s] # "cancelled",
         NEW p \in Phases \ {"unused"}, p = "live" => phase[s] = "unused",
         phase' = [phase EXCEPT ![s] = p]
  PROVE  PhasesMove
  BY DEF PhasesMove, RuntimeInv, RuntimeTypeOK, Phases

(* An exception, once made, lasts: the session stays cancelled, and a task  *)
(* on the failure path stays there.                                         *)
LEMMA ExceptionsLast ==
  ASSUME PhasesMove,
         \A t \in Recordings : emitter[t].pc \in FailurePath => emitter'[t].pc \in FailurePath
  PROVE  \A s \in Recordings : EndedByOther(s) => EndedByOther(s)'
  BY DEF PhasesMove, EndedByOther

(* No task of the current generation is at work.                            *)
Quiet == \A s \in Recordings : emitter[s].pc \in Working => ~IsCurrent(s)

LEMMA WithdrawnIsQuiet ==
  ASSUME ServiceInv, op.pc \in Withdrawn
  PROVE  Quiet
  BY DEF ServiceInv, ServiceSound, EmitterFits, Quiet

(* What the handler does leaves the tasks in order, as long as it either    *)
(* withdraws their generation or lets the live sessions live.               *)
LEMMA HandlerKeepsEmitters ==
  ASSUME ServiceInv, PhasesMove, emitter' = emitter, generation' \in Nat,
         \/ Quiet'
         \/ op'.pc \notin Withdrawn /\ \A s \in Recordings : phase[s] = "live" => phase'[s] = "live",
         generation <= generation', generation' = generation \/ Quiet'
  PROVE  /\ \A s \in Recordings : EmitterFits(s)'
         /\ GenerationsDiffer'
<1>1. \A s \in Recordings : EndedByOther(s) => EndedByOther(s)'
  BY ExceptionsLast
<1>2. ASSUME NEW s \in Recordings
      PROVE  EmitterFits(s)'
  <2>1. EmitterFits(s) /\ emitter[s].gen \in Nat /\ generation \in Nat
    BY DEF ServiceInv, ServiceSound, ServiceTyped, Tasks
  <2>2. emitter'[s].gen <= generation'
    BY <2>1 DEF EmitterFits
  <2>3. /\ emitter'[s].pc \in Working => emitter'[s].gen # 0
        /\ phase'[s] = "unused" => emitter'[s].pc = "none"
        /\ emitter'[s].pc \in Speaking => emitter'[s].todo # <<>>
        /\ emitter'[s].pc \in Judging => Head(emitter'[s].todo) # Notice
    BY <2>1 DEF EmitterFits, PhasesMove
  <2>4. emitter'[s].pc \in FailurePath => phase'[s] # "live"
    BY <2>1 DEF EmitterFits, PhasesMove, FailurePath
  <2>5. emitter'[s].pc \in Speaking => emitter'[s].from = s \/ EndedByOther(s)'
    BY <1>1, <2>1 DEF EmitterFits
  <2>6. ASSUME emitter'[s].pc \in Working, IsCurrent(s)'
        PROVE  /\ op'.pc \notin Withdrawn
               /\ emitter'[s].pc \notin FailurePath => phase'[s] = "live" \/ EndedByOther(s)'
               /\ emitter'[s].pc = "event" /\ emitter'[s].todo # <<>> =>
                    emitter'[s].from = s \/ EndedByOther(s)'
    <3>1. ~Quiet'
      BY <2>6 DEF Quiet
    <3>2. IsCurrent(s)
      BY <2>6, <3>1 DEF IsCurrent
    <3> QED
      BY <1>1, <2>1, <2>6, <3>1, <3>2 DEF EmitterFits
  <2> QED
    BY <2>2, <2>3, <2>4, <2>5, <2>6 DEF EmitterFits
<1>3. GenerationsDiffer'
  BY DEF GenerationsDiffer, ServiceInv, ServiceSound
<1> QED
  BY <1>2, <1>3

-----------------------------------------------------------------------------
(* The steps of the handler.                                                *)

LEMMA StartKeepsSound ==
  ASSUME ServiceInv, NEW s \in Recordings, NEW sc \in Scenes, NEW sel \in Texts \cup {NoText},
         Start(s, sc, sel)
  PROVE  ServiceSound' /\ StaysReliable
<1>1. /\ op.pc = "free"
      /\ op' = [pc |-> "announce", session |-> s, last |-> NoText, partial |-> NoText]
      /\ status = "idle" /\ status' = "recording" /\ activeSession' = s /\ hand' = hand
      /\ phase[s] = "unused" /\ phase' = [phase EXCEPT ![s] = "live"]
      /\ UNCHANGED <<generation, lastEmitted, emitter, shown, results, notice>>
  BY DEF Start, Free, StartRecording, EndSession, liveVars, busVars
<1>2. hand = EmptyHand
  BY <1>1 DEF ServiceInv, RuntimeInv, IdleIsClean
<1>3. ServiceTyped'
  BY <1>1 DEF ServiceInv, ServiceSound, ServiceTyped, OpStages
<1>4. HandlerFits'
  <2>1. emitter[s].pc = "none"
    BY <1>1 DEF ServiceInv, ServiceSound, EmitterFits
  <2>2. phase'[s] = "live"
    BY <1>1 DEF ServiceInv, RuntimeInv, RuntimeTypeOK
  <2> QED
    BY <1>1, <1>2, <2>1, <2>2 DEF HandlerFits, Handing, Held, Delivering, Opening, Starting
<1>5. PhasesMove
  <2>1. phase[s] # "cancelled" /\ "live" \in Phases \ {"unused"}
    BY <1>1 DEF Phases
  <2> QED
    BY <1>1, <2>1, OnePhaseMoves DEF ServiceInv
<1>6. (\A t \in Recordings : EmitterFits(t)') /\ GenerationsDiffer'
  <2>1. \A t \in Recordings : phase[t] = "live" => phase'[t] = "live"
    BY <1>1 DEF ServiceInv, RuntimeInv, RuntimeTypeOK
  <2>2. op'.pc \notin Withdrawn
    BY <1>1 DEF Withdrawn, Handing, Held, Delivering
  <2>3. generation \in Nat /\ generation' = generation
    BY <1>1 DEF ServiceInv, ServiceSound, ServiceTyped
  <2> QED
    BY <1>1, <1>5, <2>1, <2>2, <2>3, HandlerKeepsEmitters
<1>7. ResultsFit'
  <2>1. \A t \in Recordings : phase'[t] # "finished" => phase[t] # "finished"
    BY <1>1 DEF ServiceInv, RuntimeInv, RuntimeTypeOK
  <2> QED
    BY <1>1, <2>1 DEF ServiceInv, ServiceSound, ResultsFit, Held, Delivering
<1>8. StaysReliable
  <2> SUFFICES ASSUME Reliable PROVE ReliableInv'
    BY DEF StaysReliable
  <2>1. \A t \in Recordings : phase'[t] = "finished" => phase[t] = "finished"
    BY <1>1 DEF ServiceInv, RuntimeInv, RuntimeTypeOK
  <2> QED
    BY <1>1, <2>1 
    DEF Reliable, ReliableInv, Follower, IsCurrent, LiveFailed, Held, Delivering, Opening, Starting
<1> QED
  BY <1>3, <1>4, <1>6, <1>7, <1>8 DEF ServiceSound

(* Steps of the handler that touch neither the runtime nor the tasks.       *)
LEMMA OnlyHandlerMoves ==
  ASSUME ServiceInv, UNCHANGED runtimeVars, UNCHANGED liveVars, emitter' = emitter,
         op'.pc \in Withdrawn => op.pc \in Withdrawn
  PROVE  (\A s \in Recordings : EmitterFits(s)') /\ GenerationsDiffer'
<1>1. /\ phase' = phase /\ generation' = generation /\ generation \in Nat
      /\ generation <= generation'
  BY DEF ServiceInv, ServiceSound, ServiceTyped, runtimeVars, liveVars
<1>2. PhasesMove
  BY <1>1, PhasesStay DEF ServiceInv
<1>3. op.pc \in Withdrawn => Quiet'
  BY <1>1, WithdrawnIsQuiet DEF Quiet, IsCurrent
<1> QED
  BY <1>1, <1>2, <1>3, HandlerKeepsEmitters

LEMMA StopKeepsSound ==
  ASSUME ServiceInv, Stop
  PROVE  ServiceSound' /\ StaysReliable
<1>1. /\ op.pc = "free" /\ status = "recording"
      /\ op' = [pc |-> "cancelLive", session |-> activeSession, last |-> NoText,
                partial |-> NoText]
      /\ UNCHANGED <<runtimeVars, liveVars, emitter, busVars>>
  BY DEF Stop, Free
<1>2. activeSession \in Recordings /\ hand.stage = "none" /\ hand = EmptyHand
  BY <1>1, OnlyActiveIsLive DEF ServiceInv, RuntimeInv, SessionHasOneOwner
<1>3. UNCHANGED <<status, activeSession, phase, hand, generation, lastEmitted, shown,
                  results, notice>>
  BY <1>1 DEF runtimeVars, liveVars, busVars
<1>4. ServiceTyped'
  BY <1>1, <1>2, <1>3 DEF ServiceInv, ServiceSound, ServiceTyped, OpStages
<1>5. HandlerFits'
  BY <1>1, <1>2, <1>3 DEF HandlerFits, Handing, Held, Delivering, Opening, Starting
<1>6. (\A s \in Recordings : EmitterFits(s)') /\ GenerationsDiffer'
  BY <1>1, OnlyHandlerMoves DEF Withdrawn, Handing, Held, Delivering
<1>7. ResultsFit'
  BY <1>1, <1>3 DEF ServiceInv, ServiceSound, ResultsFit, Held, Delivering
<1>8. StaysReliable
  <2> SUFFICES ASSUME Reliable PROVE ReliableInv'
    BY DEF StaysReliable
  <2> QED
    BY <1>1, <1>3
    DEF Reliable, ReliableInv, Follower, IsCurrent, LiveFailed, Held, Delivering, Opening, Starting
<1> QED
  BY <1>4, <1>5, <1>6, <1>7, <1>8 DEF ServiceSound

Handlers == [pc : OpStages, session : Recordings \cup {NoSession},
             last : Texts \cup {NoText}, partial : Texts \cup {NoText}]

LEMMA HandlerWrites ==
  ASSUME op \in Handlers
  PROVE  /\ \A pc \in OpStages : Goto(pc) =>
              op' \in Handlers /\ op'.pc = pc /\ op'.session = op.session
         /\ Return => op' \in Handlers /\ op'.pc = "free" /\ op'.session = NoSession
<1>1. \A pc \in OpStages : Goto(pc) =>
              op' \in Handlers /\ op'.pc = pc /\ op'.session = op.session
  BY DEF Goto, Handlers
<1>2. Return => op' \in Handlers /\ op'.pc = "free" /\ op'.session = NoSession
  BY DEF Return, Free, Handlers, OpStages
<1> QED
  BY <1>1, <1>2

LEMMA AnnounceKeepsSound ==
  ASSUME ServiceInv, NEW ok \in Emissions, AnnounceRecording(ok)
  PROVE  ServiceSound' /\ StaysReliable
<1>1. /\ op.pc = "announce" /\ shown' \in {"recording", shown}
      /\ Goto("beginLive") \/ Return
      /\ UNCHANGED <<runtimeVars, liveVars, emitter, results, notice>>
  BY DEF AnnounceRecording, StatusChanged
<1>2. UNCHANGED <<status, activeSession, phase, hand, generation, lastEmitted>>
  BY <1>1 DEF runtimeVars, liveVars
<1>3. op \in Handlers
  BY DEF ServiceInv, ServiceSound, ServiceTyped, Handlers
<1>4. /\ op' \in Handlers
      /\ \/ op'.pc = "beginLive" /\ op'.session = op.session
         \/ op'.pc = "free"
  <2>1. "beginLive" \in OpStages
    BY DEF OpStages
  <2> QED
    BY <1>1, <1>3, <2>1, HandlerWrites
<1>5. ServiceTyped'
  BY <1>1, <1>2, <1>4 DEF ServiceInv, ServiceSound, ServiceTyped, Statuses, Handlers
<1>6. HandlerFits'
  BY <1>1, <1>2, <1>4
  DEF ServiceInv, ServiceSound, HandlerFits, Handing, Held, Delivering, Opening, Starting,
      EndedByOther
<1>7. (\A s \in Recordings : EmitterFits(s)') /\ GenerationsDiffer'
  BY <1>1, <1>4, OnlyHandlerMoves DEF Withdrawn, Handing, Held, Delivering
<1>8. ResultsFit'
  BY <1>1, <1>2, <1>4 DEF ServiceInv, ServiceSound, ResultsFit, Held, Delivering
<1>9. StaysReliable
  <2> SUFFICES ASSUME Reliable PROVE ReliableInv'
    BY DEF StaysReliable
  <2>1. shown' = "recording" /\ op'.pc = "beginLive"
    <3>1. ok /\ "beginLive" \in OpStages
      BY DEF Reliable, Emissions, OpStages
    <3> QED
      BY <1>3, <3>1, HandlerWrites DEF AnnounceRecording, StatusChanged
  <2> QED
    BY <1>1, <1>2, <1>4, <2>1
    DEF Reliable, ReliableInv, Follower, IsCurrent, LiveFailed, Held, Delivering, Opening, Starting
<1> QED
  BY <1>5, <1>6, <1>7, <1>8, <1>9 DEF ServiceSound

(* The signals of stop that are followed by another of its steps, or end it.*)
LEMMA SignalsKeepSound ==
  ASSUME ServiceInv, NEW ok \in Emissions,
         ShowPostprocessing(ok) \/ EmitPartial(ok) \/ EmitResult(ok) \/ ShowIdle(ok)
  PROVE  ServiceSound' /\ StaysReliable
<1>1. UNCHANGED <<runtimeVars, liveVars, emitter, notice>> /\ op.pc \in Withdrawn
  BY DEF ShowPostprocessing, EmitPartial, EmitResult, ShowIdle, StatusChanged,
         RecognitionPartial, busVars, Withdrawn, Held, Delivering
<1>2. UNCHANGED <<status, activeSession, phase, hand, generation, lastEmitted>>
  BY <1>1 DEF runtimeVars, liveVars
<1>3. op \in Handlers /\ {"finish", "abort", "emitResult", "showIdle"} \subseteq OpStages
  BY DEF ServiceInv, ServiceSound, ServiceTyped, Handlers, OpStages
<1>4. /\ op' \in Handlers
      /\ \/ op'.session = op.session /\ op.pc \in Held /\ op'.pc \in Held
         \/ op'.session = op.session /\ op.pc = "emitPartial" /\ op'.pc \in {"emitResult", "showIdle"}
         \/ op'.session = op.session /\ op.pc = "emitResult" /\ op'.pc = "showIdle"
         \/ op'.pc = "free" /\ op.pc = "showIdle"
  <2>1. CASE ShowPostprocessing(ok)
    BY <1>3, <2>1, HandlerWrites DEF ShowPostprocessing, Held
  <2>2. CASE EmitPartial(ok)
    BY <1>3, <2>2, HandlerWrites DEF EmitPartial
  <2>3. CASE EmitResult(ok)
    BY <1>3, <2>3, HandlerWrites DEF EmitResult
  <2>4. CASE ShowIdle(ok)
    BY <1>3, <2>4, HandlerWrites DEF ShowIdle
  <2> QED
    BY <2>1, <2>2, <2>3, <2>4
<1>5. /\ shown' \in Statuses
      /\ \/ results' = results
         \/ op.pc = "emitResult" /\ results' = [results EXCEPT ![op.session] = @ + 1]
  BY DEF ShowPostprocessing, EmitPartial, EmitResult, ShowIdle, StatusChanged,
         RecognitionPartial, busVars, Statuses, ServiceInv, ServiceSound, ServiceTyped
<1>6. HandlerFits'
  BY <1>1, <1>2, <1>4
  DEF ServiceInv, ServiceSound, HandlerFits, Handing, Held, Delivering, Opening, Starting
<1>7. (\A s \in Recordings : EmitterFits(s)') /\ GenerationsDiffer'
  BY <1>1, OnlyHandlerMoves
<1>8. /\ results' \in [Recordings -> 0 .. 1]
      /\ results' = results
         \/ /\ op.pc = "emitResult" /\ phase[op.session] = "finished"
            /\ \A s \in Recordings \ {op.session} : results'[s] = results[s]
  BY <1>5 DEF ServiceInv, ServiceSound, ServiceTyped, HandlerFits, ResultsFit, Delivering
<1>9. ServiceTyped'
  BY <1>1, <1>2, <1>4, <1>5, <1>8 DEF ServiceInv, ServiceSound, ServiceTyped, Handlers
<1>10. ResultsFit'
  BY <1>2, <1>4, <1>8 DEF ServiceInv, ServiceSound, ResultsFit, Held, Delivering
<1>11. StaysReliable
  <2> SUFFICES ASSUME Reliable PROVE ReliableInv'
    BY DEF StaysReliable
  <2>1. ok
    BY DEF Reliable, Emissions
  <2>2. /\ op' \in Handlers
        /\ \/ op'.session = op.session /\ op.pc \in Held /\ op'.pc \in Held
              /\ results' = results
           \/ op'.session = op.session /\ op.pc = "emitPartial" /\ op'.pc = "emitResult"
              /\ results' = results
           \/ op'.session = op.session /\ op.pc = "emitResult" /\ op'.pc = "showIdle"
              /\ results' = [results EXCEPT ![op.session] = @ + 1]
           \/ op'.pc = "free" /\ op.pc = "showIdle" /\ shown' = "idle" /\ results' = results
    <3>1. CASE ShowPostprocessing(ok)
      BY <1>3, <2>1, <3>1, HandlerWrites DEF ShowPostprocessing, StatusChanged, Held
    <3>2. CASE EmitPartial(ok)
      BY <1>3, <2>1, <3>2, HandlerWrites DEF EmitPartial, RecognitionPartial, busVars
    <3>3. CASE EmitResult(ok)
      BY <1>3, <2>1, <3>3, HandlerWrites DEF EmitResult
    <3>4. CASE ShowIdle(ok)
      BY <1>3, <2>1, <3>4, HandlerWrites DEF ShowIdle, StatusChanged
    <3> QED
      BY <3>1, <3>2, <3>3, <3>4
  <2>3. op.pc = "emitResult" => results[op.session] = 0 /\ op.session \in Recordings
    BY DEF ServiceInv, ServiceSound, HandlerFits, ResultsFit, Delivering
  <2>4. op.pc = "showIdle" => status \in {"idle", "error"}
    BY DEF ServiceInv, ServiceSound, HandlerFits
  <2>5. results \in [Recordings -> 0 .. 1]
    BY DEF ServiceInv, ServiceSound, ServiceTyped
  <2> QED
    BY <1>1, <1>2, <2>2, <2>3, <2>4, <2>5
    DEF Reliable, ReliableInv, Follower, IsCurrent, LiveFailed, Held, Delivering, Opening, Starting
<1> QED
  BY <1>6, <1>7, <1>9, <1>10, <1>11 DEF ServiceSound

(* Once the generation is withdrawn, no task is disturbed by what stop does *)
(* to the runtime.                                                          *)
LEMMA WithdrawnMoves ==
  ASSUME ServiceInv, op.pc \in Withdrawn, PhasesMove, emitter' = emitter,
         generation' = generation
  PROVE  (\A s \in Recordings : EmitterFits(s)') /\ GenerationsDiffer'
<1>1. Quiet'
  BY WithdrawnIsQuiet DEF Quiet, IsCurrent
<1>2. generation' \in Nat /\ generation <= generation'
  BY DEF ServiceInv, ServiceSound, ServiceTyped
<1> QED
  BY <1>1, <1>2, HandlerKeepsEmitters

LEMMA PrepareKeepsSound ==
  ASSUME ServiceInv, Prepare
  PROVE  ServiceSound' /\ StaysReliable
<1>1. /\ op.pc = "prepare" /\ op.session \in Recordings
      /\ UNCHANGED <<liveVars, emitter, busVars>>
      /\ UNCHANGED <<generation, lastEmitted, shown, results, notice>>
  BY DEF Prepare, liveVars, busVars, ServiceInv, ServiceSound, HandlerFits
<1>2. op \in Handlers /\ {"showInferring", "showIdle"} \subseteq OpStages
  BY DEF ServiceInv, ServiceSound, ServiceTyped, Handlers, OpStages
<1>3. /\ status = "recording" => /\ op.session = activeSession /\ hand = EmptyHand
                                 /\ phase[activeSession] = "live"
      /\ status # "recording" => status \in {"error", "idle"} /\ hand = EmptyHand
  BY <1>1, OnlyActiveIsLive
  DEF ServiceInv, ServiceSound, HandlerFits, Opening, Starting, Handing, Held, RuntimeInv,
      SessionHasOneOwner
<1>4. \/ /\ status = "recording" /\ status' = "inferring" /\ phase' = phase
         /\ hand'.stage = "ready" /\ hand'.session = op.session
         /\ op'.pc = "showInferring" /\ op'.session = op.session /\ op' \in Handlers
      \/ /\ status = "recording" /\ status' = "idle"
         /\ phase' = [phase EXCEPT ![activeSession] = "cancelled"]
         /\ hand' = EmptyHand
         /\ op'.pc = "showIdle" /\ op'.session = op.session /\ op' \in Handlers
      \/ /\ status' = status /\ status \in {"error", "idle"}
         /\ phase' = phase /\ hand' = EmptyHand
         /\ op'.pc = "showIdle" /\ op'.session = op.session /\ op' \in Handlers
  <2>1. ASSUME NEW sc \in Scenes, PrepareStopReady(sc), Goto("showInferring")
        PROVE  /\ status = "recording" /\ status' = "inferring" /\ phase' = phase
               /\ hand'.stage = "ready" /\ hand'.session = op.session
               /\ op'.pc = "showInferring" /\ op'.session = op.session /\ op' \in Handlers
    BY <1>2, <1>3, <2>1, HandlerWrites DEF PrepareStopReady, Ready
  <2>2. ASSUME PrepareStopDiscards, Goto("showIdle")
        PROVE  /\ status = "recording" /\ status' = "idle"
               /\ phase' = [phase EXCEPT ![activeSession] = "cancelled"]
               /\ hand' = EmptyHand
               /\ op'.pc = "showIdle" /\ op'.session = op.session /\ op' \in Handlers
    BY <1>2, <1>3, <2>2, HandlerWrites DEF PrepareStopDiscards, ResetToIdle, EndSession
  <2>3. ASSUME status # "recording", Goto("showIdle"), UNCHANGED runtimeVars
        PROVE  /\ status' = status /\ status \in {"error", "idle"}
               /\ phase' = phase /\ hand' = EmptyHand
               /\ op'.pc = "showIdle" /\ op'.session = op.session /\ op' \in Handlers
    BY <1>2, <1>3, <2>3, HandlerWrites DEF runtimeVars
  <2> QED
    BY <2>1, <2>2, <2>3 DEF Prepare
<1>5. ServiceTyped'
  BY <1>1, <1>4 DEF ServiceInv, ServiceSound, ServiceTyped, Handlers
<1>6. HandlerFits'
  BY <1>1, <1>4 DEF HandlerFits, Handing, Held, Delivering, Opening, Starting
<1>7. PhasesMove
  <2>1. CASE phase' = phase
    BY <2>1, PhasesStay DEF ServiceInv
  <2>2. CASE status = "recording" /\ phase' = [phase EXCEPT ![activeSession] = "cancelled"]
    <3>1. activeSession \in Recordings /\ phase[activeSession] # "cancelled"
      BY <1>1, <1>3, <2>2
    <3>2. "cancelled" \in Phases \ {"unused"}
      BY DEF Phases
    <3> QED
      BY <2>2, <3>1, <3>2, OnePhaseMoves DEF ServiceInv
  <2> QED
    BY <1>4, <2>1, <2>2
<1>8. (\A s \in Recordings : EmitterFits(s)') /\ GenerationsDiffer'
  BY <1>1, <1>7, WithdrawnMoves DEF Withdrawn
<1>9. ResultsFit'
  <2>1. \A s \in Recordings : phase'[s] # "finished" => phase[s] # "finished"
    BY <1>1, <1>3, <1>4 DEF ServiceInv, RuntimeInv, RuntimeTypeOK
  <2> QED
    BY <1>1, <1>4, <2>1 DEF ServiceInv, ServiceSound, ResultsFit, Held, Delivering
<1>10. StaysReliable
  <2> SUFFICES ASSUME Reliable PROVE ReliableInv'
    BY DEF StaysReliable
  <2>1. \A s \in Recordings : phase'[s] = "finished" => phase[s] = "finished"
    BY <1>1, <1>3, <1>4 DEF ServiceInv, RuntimeInv, RuntimeTypeOK
  <2>2. ~LiveFailed => status = "recording"
    BY <1>1 DEF Reliable, ReliableInv, Opening
  <2>3. LiveFailed' <=> LiveFailed
    BY <1>1 DEF LiveFailed
  <2> QED
    BY <1>1, <1>3, <1>4, <2>1, <2>2, <2>3
    DEF Reliable, ReliableInv, Follower, IsCurrent, Held, Delivering, Opening, Starting
<1> QED
  BY <1>5, <1>6, <1>8, <1>9, <1>10 DEF ServiceSound

LEMMA ShowInferringKeepsSound ==
  ASSUME ServiceInv, NEW ok \in Emissions, ShowInferring(ok)
  PROVE  ServiceSound' /\ StaysReliable
<1>1. /\ op.pc = "showInferring" /\ shown' \in {"inferring", shown}
      /\ UNCHANGED <<liveVars, emitter>>
      /\ UNCHANGED <<generation, lastEmitted, results, notice>>
  BY DEF ShowInferring, StatusChanged, liveVars
<1>2. op \in Handlers /\ "begin" \in OpStages
  BY DEF ServiceInv, ServiceSound, ServiceTyped, Handlers, OpStages
<1>3. /\ hand.stage = "ready" /\ hand.session = op.session /\ op.session \in Recordings
      /\ phase[op.session] = "live"
  BY <1>1 DEF ServiceInv, ServiceSound, HandlerFits, Handing, RuntimeInv, SessionHasOneOwner
<1>4. \/ /\ UNCHANGED <<status, activeSession, phase, hand>>
         /\ op'.pc = "begin" /\ op'.session = op.session /\ op' \in Handlers
      \/ /\ phase' = [phase EXCEPT ![op.session] = "dropped"] /\ hand' = EmptyHand
         /\ op'.pc = "free" /\ op' \in Handlers
  BY <1>2, <1>3, HandlerWrites DEF ShowInferring, DropPrepared, EndSession, runtimeVars
<1>5. ServiceTyped'
  BY <1>1, <1>4 DEF ServiceInv, ServiceSound, ServiceTyped, Handlers, Statuses
<1>6. HandlerFits'
  BY <1>1, <1>3, <1>4 DEF HandlerFits, Handing, Held, Delivering, Opening, Starting
<1>7. PhasesMove
  <2>1. "dropped" \in Phases \ {"unused"}
    BY DEF Phases
  <2> QED
    BY <1>3, <1>4, <2>1, PhasesStay, OnePhaseMoves DEF ServiceInv
<1>8. (\A s \in Recordings : EmitterFits(s)') /\ GenerationsDiffer'
  BY <1>1, <1>7, WithdrawnMoves DEF Withdrawn, Handing
<1>9. ResultsFit'
  <2>1. \A s \in Recordings : phase'[s] # "finished" => phase[s] # "finished"
    BY <1>3, <1>4 DEF ServiceInv, RuntimeInv, RuntimeTypeOK
  <2> QED
    BY <1>1, <1>4, <2>1 DEF ServiceInv, ServiceSound, ResultsFit, Held, Delivering
<1>10. StaysReliable
  <2> SUFFICES ASSUME Reliable PROVE ReliableInv'
    BY DEF StaysReliable
  <2>1. ok
    BY DEF Reliable, Emissions
  <2>2. /\ UNCHANGED <<status, activeSession, phase, hand>>
        /\ op'.pc = "begin" /\ op'.session = op.session
    BY <1>2, <2>1, HandlerWrites DEF ShowInferring, runtimeVars
  <2> QED
    BY <1>1, <2>2
    DEF Reliable, ReliableInv, Follower, IsCurrent, LiveFailed, Held, Delivering, Opening, Starting
<1> QED
  BY <1>5, <1>6, <1>8, <1>9, <1>10 DEF ServiceSound

LEMMA BeginKeepsSound ==
  ASSUME ServiceInv, RuntimeInv', Begin
  PROVE  ServiceSound' /\ StaysReliable
<1>1. /\ op.pc = "begin" /\ op.session \in Recordings
      /\ UNCHANGED <<liveVars, emitter, busVars>>
      /\ UNCHANGED <<generation, lastEmitted, shown, results, notice>>
  BY DEF Begin, liveVars, busVars, ServiceInv, ServiceSound, HandlerFits
<1>2. op \in Handlers /\ {"showPostprocessing", "finish", "showIdle"} \subseteq OpStages
  BY DEF ServiceInv, ServiceSound, ServiceTyped, Handlers, OpStages
<1>3. /\ hand.stage = "ready" /\ hand.session = op.session /\ status = "inferring"
      /\ phase[op.session] = "live" /\ results[op.session] = 0
  BY <1>1 DEF ServiceInv, ServiceSound, HandlerFits, ResultsFit, Handing, RuntimeInv,
              SessionHasOneOwner, HandMatchesStatus
<1>4. \/ /\ phase' = [phase EXCEPT ![op.session] = "finished"]
         /\ hand'.stage = "pending" /\ hand'.session = op.session
         /\ op'.pc \in Held /\ op'.session = op.session /\ op' \in Handlers
      \/ /\ phase' = [phase EXCEPT ![op.session] = "cancelled"] /\ hand' = EmptyHand
         /\ status' = "idle"
         /\ op'.pc = "showIdle" /\ op'.session = op.session /\ op' \in Handlers
  <2>1. ASSUME NEW text \in BOOLEAN, NEW p \in Texts \cup {NoText}, BeginStopInference(text, p),
               op' = [op EXCEPT !.pc = IF hand'.post THEN "showPostprocessing" ELSE "finish",
                                !.partial = partialText']
        PROVE  /\ phase' = [phase EXCEPT ![op.session] = "finished"]
               /\ hand'.stage = "pending" /\ hand'.session = op.session
               /\ op'.pc \in Held /\ op'.session = op.session /\ op' \in Handlers
    <3>1. partialText' \in Texts \cup {NoText}
      BY DEF RuntimeInv, RuntimeTypeOK
    <3>2. op'.pc \in Held /\ op'.session = op.session /\ op' \in Handlers
      BY <1>2, <2>1, <3>1 DEF Held, Handlers
    <3> QED
      BY <1>3, <2>1, <3>2 DEF BeginStopInference, EndSession, Pending
  <2>2. ASSUME BeginStopInferenceFails, Goto("showIdle")
        PROVE  /\ phase' = [phase EXCEPT ![op.session] = "cancelled"] /\ hand' = EmptyHand
               /\ status' = "idle"
               /\ op'.pc = "showIdle" /\ op'.session = op.session /\ op' \in Handlers
    BY <1>2, <1>3, <2>2, HandlerWrites
    DEF BeginStopInferenceFails, EndSession, ResetIf, ResetToIdle
  <2> QED
    BY <2>1, <2>2 DEF Begin
<1>5. ServiceTyped'
  BY <1>1, <1>4 DEF ServiceInv, ServiceSound, ServiceTyped, Handlers
<1>6. phase \in [Recordings -> Phases]
  BY DEF ServiceInv, RuntimeInv, RuntimeTypeOK
<1>7. HandlerFits'
  BY <1>1, <1>4, <1>6 DEF HandlerFits, Handing, Held, Delivering, Opening, Starting
<1>8. PhasesMove
  <2>1. {"finished", "cancelled"} \subseteq Phases \ {"unused"}
    BY DEF Phases
  <2> QED
    BY <1>1, <1>3, <1>4, <2>1, OnePhaseMoves DEF ServiceInv
<1>9. (\A s \in Recordings : EmitterFits(s)') /\ GenerationsDiffer'
  BY <1>1, <1>8, WithdrawnMoves DEF Withdrawn, Handing
<1>10. ResultsFit'
  <2>1. \A s \in Recordings : phase'[s] # "finished" => results[s] = 0
    BY <1>1, <1>3, <1>4, <1>6 DEF ServiceInv, ServiceSound, ResultsFit
  <2> QED
    BY <1>1, <1>3, <1>4, <2>1 DEF ResultsFit, Held, Delivering
<1>11. StaysReliable
  <2> SUFFICES ASSUME Reliable PROVE ReliableInv'
    BY DEF StaysReliable
  <2>1. \A s \in Recordings \ {op.session} : phase'[s] = phase[s]
    BY <1>4, <1>6
  <2>2. op'.pc = "showIdle" => phase'[op.session] = "cancelled"
    BY <1>1, <1>4, <1>6 DEF Held
  <2>3. op'.session = op.session /\ op'.pc \in Held \cup {"showIdle"}
    BY <1>4
  <2>4. status' # "error"
    BY <1>4 DEF RuntimeInv, HandMatchesStatus, ExpectedStatus
  <2> QED
    BY <1>1, <1>4, <2>1, <2>2, <2>3, <2>4
    DEF Reliable, ReliableInv, Follower, IsCurrent, LiveFailed, Held, Delivering, Opening, Starting
<1> QED
  BY <1>5, <1>7, <1>9, <1>10, <1>11 DEF ServiceSound

LEMMA EndKeepsSound ==
  ASSUME ServiceInv, Finish \/ Abort
  PROVE  ServiceSound' /\ StaysReliable
<1>1. /\ op.pc \in Held /\ op.session \in Recordings
      /\ UNCHANGED <<liveVars, emitter, busVars>>
      /\ UNCHANGED <<generation, lastEmitted, shown, results, notice>>
  BY DEF Finish, Abort, liveVars, busVars, ServiceInv, ServiceSound, HandlerFits, Held
<1>2. op \in Handlers /\ {"emitPartial", "showIdle"} \subseteq OpStages
  BY DEF ServiceInv, ServiceSound, ServiceTyped, Handlers, OpStages
<1>3. /\ hand.stage = "pending" /\ hand.session = op.session /\ status = ExpectedStatus(hand)
      /\ phase[op.session] = "finished" /\ results[op.session] = 0
  BY <1>1 DEF ServiceInv, ServiceSound, HandlerFits, ResultsFit, RuntimeInv, HandMatchesStatus
<1>4. /\ status' = "idle" /\ hand' = EmptyHand
      /\ op'.session = op.session /\ op' \in Handlers
      /\ \/ phase' = phase /\ op'.pc = "emitPartial"
         \/ phase' = [phase EXCEPT ![op.session] = "cancelled"] /\ op'.pc = "showIdle"
  <2>1. CASE Finish
    BY <1>2, <1>3, <2>1, HandlerWrites
    DEF Finish, FinishStopRecording, FinishStopRecordingFails, ResetIf, ResetToIdle, EndSession
  <2>2. CASE Abort
    BY <1>2, <1>3, <2>2, HandlerWrites DEF Abort, AbortStopRecording, ResetToIdle, EndSession
  <2> QED
    BY <2>1, <2>2
<1>5. ServiceTyped'
  BY <1>1, <1>4 DEF ServiceInv, ServiceSound, ServiceTyped, Handlers
<1>6. phase \in [Recordings -> Phases]
  BY DEF ServiceInv, RuntimeInv, RuntimeTypeOK
<1>7. HandlerFits'
  BY <1>1, <1>3, <1>4, <1>6 DEF HandlerFits, Handing, Held, Delivering, Opening, Starting
<1>8. PhasesMove
  <2>1. "cancelled" \in Phases \ {"unused"}
    BY DEF Phases
  <2> QED
    BY <1>1, <1>3, <1>4, <2>1, PhasesStay, OnePhaseMoves DEF ServiceInv
<1>9. (\A s \in Recordings : EmitterFits(s)') /\ GenerationsDiffer'
  BY <1>1, <1>8, WithdrawnMoves DEF Withdrawn
<1>10. ResultsFit'
  <2>1. \A s \in Recordings : phase'[s] # "finished" => results[s] = 0
    BY <1>1, <1>3, <1>4, <1>6 DEF ServiceInv, ServiceSound, ResultsFit
  <2> QED
    BY <1>1, <1>3, <1>4, <2>1 DEF ResultsFit, Held, Delivering
<1>11. StaysReliable
  <2> SUFFICES ASSUME Reliable PROVE ReliableInv'
    BY DEF StaysReliable
  <2>1. \A s \in Recordings \ {op.session} : phase'[s] = phase[s]
    BY <1>4, <1>6
  <2>2. op'.pc = "showIdle" => phase'[op.session] = "cancelled"
    BY <1>1, <1>4, <1>6
  <2> QED
    BY <1>1, <1>4, <2>1, <2>2
    DEF Reliable, ReliableInv, Follower, IsCurrent, LiveFailed, Held, Delivering, Opening, Starting
<1> QED
  BY <1>5, <1>7, <1>9, <1>10, <1>11 DEF ServiceSound

(* CancelLive withdraws the generation of every task.                       *)
LEMMA CancelKeepsSound ==
  ASSUME ServiceInv, CancelLive
  PROVE  ServiceSound' /\ StaysReliable
<1>1. /\ op.pc = "cancelLive" /\ op.session \in Recordings
      /\ generation \in Nat /\ generation' = generation + 1 /\ lastEmitted' = NoText
      /\ op' = [op EXCEPT !.pc = "prepare", !.last = lastEmitted]
      /\ UNCHANGED <<runtimeVars, emitter, busVars>>
  BY DEF CancelLive, ServiceInv, ServiceSound, HandlerFits, ServiceTyped
<1>2. UNCHANGED <<status, activeSession, phase, hand, shown, results, notice>>
  BY <1>1 DEF runtimeVars, busVars
<1>3. op' \in Handlers /\ op'.pc = "prepare" /\ op'.session = op.session
  BY <1>1 DEF ServiceInv, ServiceSound, ServiceTyped, Handlers, OpStages
<1>4. ServiceTyped'
  BY <1>1, <1>2, <1>3 DEF ServiceInv, ServiceSound, ServiceTyped, Handlers
<1>5. HandlerFits'
  BY <1>1, <1>2, <1>3
  DEF ServiceInv, ServiceSound, HandlerFits, Handing, Held, Delivering, Opening, Starting
<1>6. (\A s \in Recordings : EmitterFits(s)') /\ GenerationsDiffer'
  <2>1. PhasesMove
    BY <1>2, PhasesStay DEF ServiceInv
  <2>2. \A s \in Recordings : emitter[s].gen \in Nat /\ emitter[s].gen <= generation
    BY DEF ServiceInv, ServiceSound, ServiceTyped, EmitterFits, Tasks
  <2>3. Quiet'
    BY <1>1, <2>2 DEF Quiet, IsCurrent
  <2>4. generation' \in Nat /\ generation <= generation'
    BY <1>1
  <2> QED
    BY <1>1, <2>1, <2>3, <2>4, HandlerKeepsEmitters
<1>7. ResultsFit'
  BY <1>1, <1>2, <1>3 DEF ServiceInv, ServiceSound, ResultsFit, Held, Delivering
<1>8. StaysReliable
  <2> SUFFICES ASSUME Reliable PROVE ReliableInv'
    BY DEF StaysReliable
  <2> QED
    BY <1>1, <1>2, <1>3
    DEF Reliable, ReliableInv, Follower, IsCurrent, LiveFailed, Held, Delivering, Opening, Starting
<1> QED
  BY <1>4, <1>5, <1>6, <1>7, <1>8 DEF ServiceSound

(* BeginLive gives a generation of its own to the task of its recording.    *)
LEMMA BeginLiveKeepsSound ==
  ASSUME ServiceInv, BeginLive
  PROVE  ServiceSound' /\ StaysReliable
<1> DEFINE r == op.session
           n == [NoTask EXCEPT !.pc = "tick", !.gen = generation + 1]
<1>1. /\ op.pc = "beginLive" /\ r \in Recordings
      /\ generation \in Nat /\ generation' = generation + 1 /\ lastEmitted' = NoText
      /\ Becomes(r, n)
      /\ op' = Free
      /\ UNCHANGED <<runtimeVars, busVars>>
  BY DEF BeginLive, Return, Becomes, ServiceInv, ServiceSound, HandlerFits, ServiceTyped
<1>2. UNCHANGED <<status, activeSession, phase, hand, shown, results, notice>>
  BY <1>1 DEF runtimeVars, busVars
<1>3. op' \in Handlers /\ op'.pc = "free"
  BY <1>1 DEF Free, Handlers, OpStages
<1>4. /\ n \in Tasks /\ n.pc = "tick" /\ n.gen = generation' /\ n.todo = <<>>
  <2>1. <<>> \in Seq(Texts \cup {Notice}) /\ generation + 1 \in Nat
    BY <1>1
  <2> QED
    BY <1>1, <2>1 DEF NoTask, Tasks, TaskStages
<1> HIDE DEF n
<1>5. /\ emitter \in [Recordings -> Tasks] /\ emitter' \in [Recordings -> Tasks]
      /\ emitter'[r].pc = "tick" /\ emitter'[r].gen = generation' /\ emitter'[r].todo = <<>>
      /\ \A t \in Recordings \ {r} : emitter'[t] = emitter[t]
  BY <1>1, <1>4, BecomesOne DEF ServiceInv, ServiceSound, ServiceTyped
<1>6. emitter[r].pc = "none" /\ (phase[r] = "live" \/ EndedByOther(r))
  BY <1>1 DEF ServiceInv, ServiceSound, HandlerFits, Starting
<1> HIDE DEF r
<1>7. ServiceTyped'
  BY <1>1, <1>2, <1>3, <1>5 DEF ServiceInv, ServiceSound, ServiceTyped, Handlers
<1>8. HandlerFits'
  BY <1>1, <1>2, <1>3
  DEF r, ServiceInv, ServiceSound, HandlerFits, Handing, Held, Delivering, Opening, Starting
<1>9. \A s \in Recordings : EndedByOther(s) => EndedByOther(s)'
  <2>1. PhasesMove
    BY <1>2, PhasesStay DEF ServiceInv
  <2>2. \A t \in Recordings : emitter[t].pc \in FailurePath => emitter'[t].pc \in FailurePath
    BY <1>5, <1>6 DEF FailurePath
  <2> QED
    BY <2>1, <2>2, ExceptionsLast
<1>10. \A t \in Recordings : /\ EmitterFits(t) /\ emitter[t].gen \in Nat
                            /\ emitter[t].gen <= generation
  BY DEF ServiceInv, ServiceSound, ServiceTyped, EmitterFits, Tasks
<1>11. ASSUME NEW s \in Recordings
       PROVE  EmitterFits(s)'
  <2>1. CASE s = r
    <3>1. phase'[s] # "unused" /\ (phase'[s] = "live" \/ EndedByOther(s)')
      BY <1>2, <1>6, <1>9, <2>1 DEF EndedByOther
    <3>2. /\ emitter'[s].pc \in Working /\ emitter'[s].pc \notin Speaking \cup FailurePath
          /\ emitter'[s].pc \notin Judging /\ op'.pc \notin Withdrawn
      BY <1>3, <1>5, <2>1
      DEF Working, TaskStages, Over, Speaking, Judging, FailurePath, Withdrawn, Handing,
          Held, Delivering
    <3> QED
      BY <1>1, <1>5, <2>1, <3>1, <3>2 DEF EmitterFits
  <2>2. CASE s # r
    <3>1. emitter'[s] = emitter[s] /\ ~IsCurrent(s)'
      BY <1>1, <1>5, <1>10, <2>2 DEF IsCurrent
    <3>2. emitter'[s].gen <= generation'
      BY <1>1, <1>10, <3>1
    <3> QED
      BY <1>2, <1>9, <1>10, <3>1, <3>2 DEF EmitterFits
  <2> QED
    BY <2>1, <2>2
<1>12. GenerationsDiffer'
  <2> SUFFICES ASSUME NEW s \in Recordings, NEW t \in Recordings, s # t,
                      emitter'[s].pc \in Working, emitter'[t].pc \in Working
               PROVE  emitter'[s].gen # emitter'[t].gen
    BY DEF GenerationsDiffer
  <2> QED
    BY <1>1, <1>5, <1>10 DEF ServiceInv, ServiceSound, GenerationsDiffer
<1>13. ResultsFit'
  BY <1>1, <1>2, <1>3 DEF ServiceInv, ServiceSound, ResultsFit, Held, Delivering
<1>14. StaysReliable
  <2> SUFFICES ASSUME Reliable PROVE ReliableInv'
    BY DEF StaysReliable
  <2>1. ~LiveFailed' => ~LiveFailed
    BY <1>5, <1>6 DEF LiveFailed, FailurePath
  <2>2. status \in {"recording", "error", "idle"} /\ (status = "recording" => r = activeSession)
    BY <1>1 DEF r, ServiceInv, ServiceSound, HandlerFits, Opening, Starting
  <2>3. emitter'[r].pc \in Working \ FailurePath /\ generation' = emitter'[r].gen
    BY <1>1, <1>5 DEF Working, TaskStages, Over, FailurePath
  <2> QED
    BY <1>1, <1>2, <1>3, <2>1, <2>2, <2>3
    DEF Reliable, ReliableInv, Follower, IsCurrent, Held, Delivering, Opening, Starting
<1> QED
  BY <1>7, <1>8, <1>11, <1>12, <1>13, <1>14 DEF ServiceSound

LEMMA HandlerKeepsSound ==
  ASSUME ServiceInv, RuntimeInv', StartCall \/ Stop \/ Handler
  PROVE  ServiceSound' /\ StaysReliable
<1>1. CASE StartCall
  BY <1>1, StartKeepsSound, ConstantsDistinct DEF StartCall, ConstantsDistinct
<1>2. CASE Stop
  BY <1>2, StopKeepsSound
<1>3. CASE BeginLive \/ CancelLive \/ Prepare \/ Begin \/ Abort \/ Finish
  BY <1>3, BeginLiveKeepsSound, CancelKeepsSound, PrepareKeepsSound, BeginKeepsSound,
     EndKeepsSound
<1>4. CASE \E ok \in Emissions :
             \/ AnnounceRecording(ok) \/ ShowInferring(ok) \/ ShowPostprocessing(ok)
             \/ EmitPartial(ok) \/ EmitResult(ok) \/ ShowIdle(ok)
  <2>1. Emissions \subseteq BOOLEAN
    BY DEF Emissions
  <2> QED
    BY <1>4, <2>1, AnnounceKeepsSound, ShowInferringKeepsSound, SignalsKeepSound
<1> QED
  BY <1>1, <1>2, <1>3, <1>4 DEF Handler

-----------------------------------------------------------------------------
(* The steps of the emitter tasks.  A step of the task of s leaves the      *)
(* handler and the generation alone; it may end the recording under way,    *)
(* but then it is on the failure path itself.                               *)
TaskMoves(s) ==
  /\ emitter[s].pc \in Working /\ op' = op /\ generation' = generation /\ hand' = hand
  /\ results' = results
  /\ emitter' \in [Recordings -> Tasks]
  /\ \A t \in Recordings \ {s} : emitter'[t] = emitter[t]
  /\ emitter'[s].gen = emitter[s].gen \/ emitter'[s].pc \notin Working
  /\ emitter[s].pc \in FailurePath => emitter'[s].pc \in FailurePath
  /\ \/ UNCHANGED <<status, activeSession, phase>>
     \/ /\ status = "recording" /\ status' = "error"
        /\ phase' = [phase EXCEPT ![activeSession] = "cancelled"]
        /\ emitter'[s].pc \in FailurePath
     \/ status = "error" /\ status' = "idle" /\ phase' = phase

LEMMA TaskMovesPhases ==
  ASSUME ServiceInv, NEW s \in Recordings, TaskMoves(s)
  PROVE  /\ PhasesMove
         /\ \A t \in Recordings : EndedByOther(t) => EndedByOther(t)'
         /\ \A t \in Recordings \ {s} :
              phase[t] = "live" => phase'[t] = "live" \/ EndedByOther(t)'
         /\ \A t \in Recordings : phase'[t] = "finished" <=> phase[t] = "finished"
<1>1. phase \in [Recordings -> Phases]
  BY DEF ServiceInv, RuntimeInv, RuntimeTypeOK
<1>2. CASE phase' = phase
  <2>1. PhasesMove
    BY <1>2, PhasesStay DEF ServiceInv
  <2> QED
    BY <1>2, <2>1, ExceptionsLast DEF TaskMoves
<1>3. CASE /\ status = "recording" /\ emitter'[s].pc \in FailurePath
           /\ phase' = [phase EXCEPT ![activeSession] = "cancelled"]
  <2>1. activeSession \in Recordings /\ phase[activeSession] = "live"
    BY <1>3, OnlyActiveIsLive DEF ServiceInv
  <2>2. PhasesMove
    <3>1. "cancelled" \in Phases \ {"unused"} /\ phase[activeSession] # "cancelled"
      BY <2>1 DEF Phases
    <3> QED
      BY <1>3, <2>1, <3>1, OnePhaseMoves DEF ServiceInv
  <2>3. \A t \in Recordings : EndedByOther(t) => EndedByOther(t)'
    BY <2>2, ExceptionsLast DEF TaskMoves
  <2>4. \A t \in Recordings \ {s} : phase'[t] = "cancelled" => EndedByOther(t)'
    BY <1>3 DEF EndedByOther
  <2>5. \A t \in Recordings \ {s} :
          phase[t] = "live" => phase'[t] = "live" \/ phase'[t] = "cancelled"
    BY <1>1, <1>3
  <2>6. \A t \in Recordings : phase'[t] = "finished" <=> phase[t] = "finished"
    BY <1>1, <1>3, <2>1
  <2> QED
    BY <2>2, <2>3, <2>4, <2>5, <2>6
<1> QED
  BY <1>2, <1>3 DEF TaskMoves

(* Such a step disturbs nothing but the task itself.                        *)
LEMMA TaskKeepsRest ==
  ASSUME ServiceInv, NEW s \in Recordings, TaskMoves(s), ServiceTyped', EmitterFits(s)'
  PROVE  ServiceSound'
<1>1. /\ PhasesMove
      /\ \A t \in Recordings : EndedByOther(t) => EndedByOther(t)'
      /\ \A t \in Recordings \ {s} :
           phase[t] = "live" => phase'[t] = "live" \/ EndedByOther(t)'
      /\ \A t \in Recordings : phase'[t] = "finished" <=> phase[t] = "finished"
  BY TaskMovesPhases
<1>2. ASSUME NEW t \in Recordings \ {s}
      PROVE  EmitterFits(t)'
  <2>1. /\ EmitterFits(t) /\ emitter'[t] = emitter[t] /\ op' = op
        /\ generation' = generation
    BY DEF TaskMoves, ServiceInv, ServiceSound
  <2>2. /\ phase'[t] = "unused" => phase[t] = "unused"
        /\ phase'[t] = "live" => phase[t] = "live" \/ phase[t] = "unused"
        /\ phase[t] = "live" => phase'[t] = "live" \/ EndedByOther(t)'
        /\ EndedByOther(t) => EndedByOther(t)'
    BY <1>1 DEF PhasesMove
  <2>3. "none" \notin FailurePath
    BY DEF FailurePath
  <2> QED
    BY <2>1, <2>2, <2>3 DEF EmitterFits, IsCurrent
<1>3. GenerationsDiffer'
  <2> SUFFICES ASSUME NEW t \in Recordings, NEW u \in Recordings, t # u,
                      emitter'[t].pc \in Working, emitter'[u].pc \in Working
               PROVE  emitter'[t].gen # emitter'[u].gen
    BY DEF GenerationsDiffer
  <2> QED
    BY DEF TaskMoves, ServiceInv, ServiceSound, GenerationsDiffer
<1>4. HandlerFits'
  <2>1. op' = op /\ hand' = hand /\ HandlerFits
    BY DEF TaskMoves, ServiceInv, ServiceSound
  <2>2. /\ status' \in {status, "error", "idle"}
        /\ status' = "idle" => status \in {"idle", "error"}
        /\ status' = "error" => status \in {"recording", "error"}
        /\ status' = "recording" => status = "recording" /\ activeSession' = activeSession
    BY DEF TaskMoves
  <2>3. op.pc \in Starting => /\ emitter'[op.session].pc = "none"
                              /\ phase'[op.session] = "live" \/ EndedByOther(op.session)'
    <3> SUFFICES ASSUME op.pc \in Starting
                 PROVE  /\ emitter'[op.session].pc = "none"
                        /\ phase'[op.session] = "live" \/ EndedByOther(op.session)'
      OBVIOUS
    <3>1. /\ emitter[op.session].pc = "none" /\ op.session \in Recordings
          /\ phase[op.session] = "live" \/ EndedByOther(op.session)
      BY <2>1 DEF HandlerFits, Starting
    <3>2. op.session # s
      BY <3>1 DEF TaskMoves, Working, Over
    <3> QED
      BY <1>1, <2>1, <3>1, <3>2 DEF TaskMoves, EndedByOther
  <2>4. op.pc \in Held \cup Delivering => phase'[op.session] = "finished"
    BY <1>1, <2>1 DEF HandlerFits, Held, Delivering
  <2>5. op.pc \in Opening => /\ status' \in {"recording", "error", "idle"}
                             /\ status' = "recording" => op.session = activeSession'
    BY <2>1, <2>2 DEF HandlerFits
  <2>6. op.pc \in Delivering \cup {"showIdle"} => status' \in {"idle", "error"}
    BY <2>1, <2>2 DEF HandlerFits
  <2> QED
    BY <2>1, <2>3, <2>4, <2>5, <2>6 DEF HandlerFits, EndedByOther
<1>5. ResultsFit'
  BY <1>1 DEF TaskMoves, ServiceInv, ServiceSound, ResultsFit
<1> QED
  BY <1>2, <1>3, <1>4, <1>5 DEF ServiceSound

(* As long as every signal is sent, a task that is not on the failure path  *)
(* leaves the bus and the runtime alone, and the task that follows the      *)
(* recording under way goes on following it.                                *)
Steady(s) ==
  /\ emitter'[s].pc \notin FailurePath =>
       UNCHANGED <<status, activeSession, phase, shown>>
  /\ Follower(s) /\ status' = "recording" =>
       emitter'[s].pc \in Working \ FailurePath /\ emitter'[s].gen = emitter[s].gen

LEMMA SteadyStaysReliable ==
  ASSUME ServiceInv, NEW s \in Recordings, TaskMoves(s), EmitMayFail = FALSE => Steady(s)
  PROVE  StaysReliable
<1> SUFFICES ASSUME Reliable PROVE ReliableInv'
  BY DEF StaysReliable
<1>1. ReliableInv /\ Steady(s)
  BY DEF Reliable
<1>2. /\ op' = op /\ results' = results /\ generation' = generation
      /\ \A t \in Recordings \ {s} : emitter'[t] = emitter[t]
      /\ emitter[s].pc \in FailurePath => emitter'[s].pc \in FailurePath
      /\ status' \in {status, "error", "idle"}
      /\ status' = "recording" => status = "recording" /\ activeSession' = activeSession
  BY DEF TaskMoves
<1>3. \A t \in Recordings : phase'[t] = "finished" <=> phase[t] = "finished"
  BY TaskMovesPhases
<1>4. ~LiveFailed' => /\ ~LiveFailed
                      /\ UNCHANGED <<status, activeSession, phase, shown>>
  BY <1>1, <1>2 DEF LiveFailed, Steady
<1>5. op'.pc \in {"free", "cancelLive"} /\ status' = "recording" => Follower(activeSession)'
  <2> SUFFICES ASSUME op'.pc \in {"free", "cancelLive"}, status' = "recording"
               PROVE  /\ emitter'[activeSession].pc \in Working \ FailurePath
                      /\ generation' = emitter'[activeSession].gen
    BY <1>2 DEF Follower, IsCurrent
  <2>1. activeSession \in Recordings
    BY <1>2, OnlyActiveIsLive DEF ServiceInv
  <2>2. Follower(activeSession)
    BY <1>1, <1>2 DEF ReliableInv
  <2>3. CASE activeSession = s
    BY <1>1, <1>2, <2>2, <2>3 DEF Steady, Follower, IsCurrent
  <2>4. CASE activeSession # s
    BY <1>2, <2>1, <2>2, <2>4 DEF Follower, IsCurrent
  <2> QED
    BY <2>3, <2>4
<1>6. op'.pc = "free" => status' \in {"idle", "recording", "error"}
  BY <1>1, <1>2 DEF ReliableInv
<1>7. \A t \in Recordings :
        phase'[t] = "finished" /\ ~(t = op'.session /\ op'.pc \in Held \cup Delivering)
          => results'[t] = 1
  BY <1>1, <1>2, <1>3 DEF ReliableInv
<1>8. ~LiveFailed' => /\ status' # "error"
                      /\ op'.pc \in Opening => status' = "recording"
                      /\ op'.pc \in {"free", "beginLive"} => shown' = status'
  BY <1>1, <1>2, <1>4 DEF ReliableInv
<1> QED
  BY <1>5, <1>6, <1>7, <1>8 DEF ReliableInv

(* A step of a task that leaves the runtime alone moves it along, ends it,  *)
(* or takes it to its next event.                                           *)
Advances(s) ==
  \/ \E pc \in TaskStages :
       /\ TaskGoto(s, pc)
       /\ \/ emitter[s].pc = "tick" /\ IsCurrent(s) /\ pc = "poll"
          \/ emitter[s].pc = "event" /\ emitter[s].todo = <<>> /\ pc = "tick"
          \/ /\ emitter[s].pc = "event" /\ emitter[s].todo # <<>> /\ IsCurrent(s)
             /\ pc = IF Head(emitter[s].todo) = Notice THEN "notify" ELSE "compare"
          \/ emitter[s].pc = "compare" /\ pc = "send"
          \/ emitter[s].pc = "send" /\ pc = "record"
          \/ emitter[s].pc = "showError" /\ pc = "recover"
  \/ emitter[s].pc \in Working \ FailurePath /\ TaskEnds(s)
  \/ emitter[s].pc = "showRecovered" /\ TaskEndsAs(s, "recovered")
  \/ emitter[s].pc \in Speaking /\ NextEvent(s)

LEMMA AdvancingKeepsFit ==
  ASSUME ServiceInv, NEW s \in Recordings, Advances(s), UNCHANGED runtimeVars,
         op' = op, generation' = generation, results' = results
  PROVE  TaskMoves(s) /\ EmitterFits(s)'
<1> USE DEF TaskStages, Working, Over, Speaking, Judging, FailurePath
<1>1. UNCHANGED <<status, activeSession, phase, hand>>
  BY DEF runtimeVars
<1>2. /\ ServiceTyped /\ EmitterFits(s) /\ emitter[s].gen \in Nat /\ generation \in Nat
      /\ emitter[s] \in Tasks
  BY DEF ServiceInv, ServiceSound, ServiceTyped, Tasks
<1>3. EndedByOther(s) => EndedByOther(s)'
  <2>1. \A t \in Recordings \ {s} : emitter'[t] = emitter[t]
    BY <1>2 DEF Advances, TaskGoto, TaskEnds, TaskEndsAs, NextEvent, ServiceTyped
  <2> QED
    BY <1>1, <2>1 DEF EndedByOther
<1>4. ASSUME NEW pc \in TaskStages, TaskGoto(s, pc),
             \/ emitter[s].pc = "tick" /\ IsCurrent(s) /\ pc = "poll"
             \/ emitter[s].pc = "event" /\ emitter[s].todo = <<>> /\ pc = "tick"
             \/ /\ emitter[s].pc = "event" /\ emitter[s].todo # <<>> /\ IsCurrent(s)
                /\ pc = IF Head(emitter[s].todo) = Notice THEN "notify" ELSE "compare"
             \/ emitter[s].pc = "compare" /\ pc = "send"
             \/ emitter[s].pc = "send" /\ pc = "record"
             \/ emitter[s].pc = "showError" /\ pc = "recover"
      PROVE  TaskMoves(s) /\ EmitterFits(s)'
  <2>1. /\ emitter' \in [Recordings -> Tasks]
        /\ \A t \in Recordings \ {s} : emitter'[t] = emitter[t]
        /\ emitter'[s].pc = pc /\ emitter'[s].gen = emitter[s].gen
        /\ emitter'[s].from = emitter[s].from /\ emitter'[s].todo = emitter[s].todo
    BY <1>2, <1>4, TaskWrites
  <2>2. TaskMoves(s)
    BY <1>1, <1>4, <2>1 DEF TaskMoves
  <2>3. EmitterFits(s)'
    BY <1>1, <1>2, <1>3, <1>4, <2>1 DEF EmitterFits, IsCurrent
  <2> QED
    BY <2>2, <2>3
<1>5. ASSUME NEW pc \in {"done", "recovered"}, TaskEndsAs(s, pc),
             \/ emitter[s].pc \in Working \ FailurePath
             \/ emitter[s].pc = "showRecovered" /\ pc = "recovered",
             pc = "recovered" => emitter[s].pc = "showRecovered"
      PROVE  TaskMoves(s) /\ EmitterFits(s)'
  <2>1. /\ emitter' \in [Recordings -> Tasks]
        /\ \A t \in Recordings \ {s} : emitter'[t] = emitter[t]
        /\ emitter'[s].pc = pc /\ emitter'[s].gen = 0
    BY <1>2, <1>5, TaskWrites
  <2>2. TaskMoves(s)
    BY <1>1, <1>5, <2>1 DEF TaskMoves
  <2>3. EmitterFits(s)'
    BY <1>1, <1>2, <1>3, <1>5, <2>1 DEF EmitterFits, IsCurrent
  <2> QED
    BY <2>2, <2>3
<1>6. ASSUME emitter[s].pc \in Speaking, NextEvent(s)
      PROVE  TaskMoves(s) /\ EmitterFits(s)'
  <2>1. /\ emitter' \in [Recordings -> Tasks]
        /\ \A t \in Recordings \ {s} : emitter'[t] = emitter[t]
        /\ emitter'[s].pc = "event" /\ emitter'[s].gen = emitter[s].gen
        /\ emitter'[s].from = emitter[s].from
    BY <1>2, <1>6, TaskWrites DEF EmitterFits
  <2>2. TaskMoves(s)
    BY <1>1, <1>6, <2>1 DEF TaskMoves
  <2>3. EmitterFits(s)'
    BY <1>1, <1>2, <1>3, <1>6, <2>1 DEF EmitterFits, IsCurrent
  <2> QED
    BY <2>2, <2>3
<1> QED
  BY <1>4, <1>5, <1>6 DEF Advances, TaskEnds

LEMMA QuietTaskKeepsSound ==
  ASSUME ServiceInv, NEW s \in Recordings, NEW ok \in Emissions,
         \/ Tick(s) \/ PollEnds(s) \/ CheckEvent(s) \/ ComparePartial(s) \/ RecordPartial(s)
         \/ SendPartial(s, ok) \/ NotifyError(s, ok) \/ ShowError(s, ok) \/ ShowRecovered(s, ok)
  PROVE  /\ ServiceSound' /\ StaysReliable
         /\ TaskMoves(s) /\ (EmitMayFail = FALSE => Steady(s))
<1> USE DEF TaskStages, Working, Over, Speaking, Judging, FailurePath
<1>1. Advances(s)
  <2>1. CASE Tick(s)
    BY <2>1 DEF Tick, Advances
  <2>2. CASE PollEnds(s)
    BY <2>2 DEF PollEnds, Advances
  <2>3. CASE CheckEvent(s)
    BY <2>3 DEF CheckEvent, Advances
  <2>4. CASE ComparePartial(s) \/ RecordPartial(s)
    BY <2>4 DEF ComparePartial, RecordPartial, Advances
  <2>5. CASE SendPartial(s, ok) \/ NotifyError(s, ok)
    BY <2>5 DEF SendPartial, NotifyError, Advances
  <2>6. CASE ShowError(s, ok) \/ ShowRecovered(s, ok)
    BY <2>6 DEF ShowError, ShowRecovered, Advances
  <2> QED
    BY <2>1, <2>2, <2>3, <2>4, <2>5, <2>6
<1>2. UNCHANGED runtimeVars /\ op' = op /\ generation' = generation /\ results' = results
  BY DEF Tick, PollEnds, CheckEvent, ComparePartial, RecordPartial, SendPartial, NotifyError,
         ShowError, ShowRecovered, liveVars, busVars, StatusChanged, RecognitionPartial
<1>3. shown' \in Statuses
  BY DEF Tick, PollEnds, CheckEvent, ComparePartial, RecordPartial, SendPartial, NotifyError,
         ShowError, ShowRecovered, busVars, StatusChanged, RecognitionPartial, Statuses,
         ServiceInv, ServiceSound, ServiceTyped
<1>4. notice' \in [Recordings -> {"none", "drained", "reported"}]
  BY DEF Tick, PollEnds, CheckEvent, ComparePartial, RecordPartial, SendPartial, NotifyError,
         ShowError, ShowRecovered, busVars, StatusChanged, RecognitionPartial,
         ServiceInv, ServiceSound, ServiceTyped
<1>5. lastEmitted' \in Texts \cup {NoText}
  <2>1. CASE RecordPartial(s)
    <3>1. /\ emitter[s].todo \in Seq(Texts \cup {Notice}) /\ emitter[s].todo # <<>>
          /\ Head(emitter[s].todo) # Notice
      BY <2>1 DEF RecordPartial, ServiceInv, ServiceSound, ServiceTyped, EmitterFits, Tasks
    <3>2. Head(emitter[s].todo) \in Texts
      BY <3>1, HeadTailProperties
    <3> QED
      BY <2>1, <3>2 DEF RecordPartial, ServiceInv, ServiceSound, ServiceTyped
  <2>2. CASE ~RecordPartial(s)
    BY <2>2 DEF Tick, PollEnds, CheckEvent, ComparePartial, SendPartial, NotifyError,
           ShowError, ShowRecovered, liveVars, ServiceInv, ServiceSound, ServiceTyped
  <2> QED
    BY <2>1, <2>2
<1>6. TaskMoves(s) /\ EmitterFits(s)'
  BY <1>1, <1>2, AdvancingKeepsFit
<1>7. ServiceTyped'
  BY <1>2, <1>3, <1>4, <1>5, <1>6 DEF TaskMoves, ServiceInv, ServiceSound, ServiceTyped
<1>8. EmitMayFail = FALSE => Steady(s)
  <2> SUFFICES ASSUME EmitMayFail = FALSE PROVE Steady(s)
    OBVIOUS
  <2>1. ok
    BY DEF Emissions
  <2>2. emitter'[s].pc \notin FailurePath => UNCHANGED <<status, activeSession, phase, shown>>
    <3>1. emitter \in [Recordings -> Tasks]
      BY DEF ServiceInv, ServiceSound, ServiceTyped
    <3>2. ASSUME ShowError(s, ok) \/ ShowRecovered(s, ok)
          PROVE  emitter'[s].pc \in FailurePath
      BY <3>1, <3>2 DEF ShowError, ShowRecovered, TaskGoto, TaskEndsAs, NoTask, Tasks
    <3>3. ASSUME ~(ShowError(s, ok) \/ ShowRecovered(s, ok))
          PROVE  shown' = shown
      BY <3>3 DEF Tick, PollEnds, CheckEvent, ComparePartial, RecordPartial, SendPartial,
             NotifyError, busVars, RecognitionPartial
    <3> QED
      BY <1>2, <3>2, <3>3 DEF runtimeVars
  <2>3. ASSUME Follower(s), status' = "recording"
        PROVE  emitter'[s].pc \in Working \ FailurePath /\ emitter'[s].gen = emitter[s].gen
    <3>1. /\ emitter \in [Recordings -> Tasks] /\ emitter[s] \in Tasks
          /\ status = "recording"
      BY <1>2, <2>3 DEF ServiceInv, ServiceSound, ServiceTyped, runtimeVars
    <3>2. \/ NextEvent(s)
          \/ \E pc \in {"poll", "tick", "notify", "compare", "send", "record"} : TaskGoto(s, pc)
      BY <2>1, <2>3, <3>1
      DEF Follower, Tick, PollEnds, CheckEvent, ComparePartial, RecordPartial, SendPartial,
          NotifyError, ShowError, ShowRecovered
    <3> QED
      BY <3>1, <3>2 DEF NextEvent, TaskGoto, Tasks
  <2> QED
    BY <2>2, <2>3 DEF Steady
<1> QED
  BY <1>6, <1>7, <1>8, TaskKeepsRest, SteadyStaysReliable

LEMMA PollKeepsSound ==
  ASSUME ServiceInv, NEW s \in Recordings, NEW p \in Texts \cup {NoText}, NEW error \in BOOLEAN,
         Poll(s, p, error)
  PROVE  /\ ServiceSound' /\ StaysReliable
         /\ TaskMoves(s) /\ (EmitMayFail = FALSE => Steady(s))
<1> DEFINE partials == IF LivePartialIsNew(p) THEN <<p>> ELSE <<>>
           events   == IF error THEN partials \o <<Notice>> ELSE partials
           pc       == IF events = <<>> THEN "tick" ELSE "event"
           r        == [emitter[s] EXCEPT !.pc = pc, !.from = activeSession, !.todo = events]
<1>1. /\ emitter[s].pc = "poll" /\ status = "recording"
      /\ UNCHANGED <<status, activeSession, phase, hand>>
      /\ UNCHANGED <<op, generation, lastEmitted, shown, results>>
  BY DEF Poll, TakeLiveEvents, liveVars
<1>2. /\ EmitterFits(s) /\ emitter[s].gen \in Nat
      /\ emitter \in [Recordings -> Tasks] /\ emitter[s] \in Tasks
  BY DEF ServiceInv, ServiceSound, ServiceTyped, Tasks
<1>3. /\ activeSession \in Recordings
      /\ \A t \in Recordings : phase[t] = "live" <=> t = activeSession
  BY <1>1, OnlyActiveIsLive DEF ServiceInv
<1>4. events \in Seq(Texts \cup {Notice})
  <2>1. partials \in Seq(Texts \cup {Notice})
    <3>1. CASE LivePartialIsNew(p)
      <4>1. p \in Texts \cup {Notice}
        BY <3>1 DEF LivePartialIsNew
      <4>2. <<p>> \in Seq(Texts \cup {Notice})
        BY <4>1
      <4> QED
        BY <3>1, <4>2
    <3>2. CASE ~LivePartialIsNew(p)
      BY <3>2
    <3> QED
      BY <3>1, <3>2
  <2>2. <<Notice>> \in Seq(Texts \cup {Notice})
    OBVIOUS
  <2> HIDE DEF partials
  <2>3. partials \o <<Notice>> \in Seq(Texts \cup {Notice})
    BY <2>1, <2>2, ConcatProperties
  <2> QED
    BY <2>1, <2>3
<1>5. emitter' = [emitter EXCEPT ![s] = r]
  BY <1>2 DEF Poll
<1> HIDE DEF events
<1>6. /\ r \in Tasks /\ r.pc \in {"tick", "event"} /\ r.gen = emitter[s].gen
      /\ r.from = activeSession /\ (r.todo # <<>> => r.pc = "event")
  BY <1>2, <1>3, <1>4 DEF Tasks, TaskStages
<1> HIDE DEF r
<1>7. /\ emitter' \in [Recordings -> Tasks] /\ emitter'[s] = r
      /\ \A t \in Recordings \ {s} : emitter'[t] = emitter[t]
  BY <1>2, <1>5, <1>6
<1>8. TaskMoves(s)
  BY <1>1, <1>6, <1>7 DEF TaskMoves, Working, Over, TaskStages, FailurePath
<1>9. EmitterFits(s)'
  <2>1. /\ emitter'[s].pc \in Working
        /\ emitter'[s].pc \notin Speaking \cup FailurePath /\ emitter'[s].pc \notin Judging
        /\ emitter[s].pc \in Working \ FailurePath
    BY <1>1, <1>6, <1>7
    DEF Working, TaskStages, Over, Speaking, Judging, FailurePath
  <2>2. emitter'[s].gen = emitter[s].gen /\ emitter'[s].from = activeSession
    BY <1>6, <1>7
  <2>3. EndedByOther(s) => EndedByOther(s)'
    BY <1>1, <1>7 DEF EndedByOther
  <2>4. phase'[s] # "unused"
    BY <1>1, <1>2 DEF EmitterFits
  <2>5. IsCurrent(s)' => IsCurrent(s)
    BY <1>1, <2>2 DEF IsCurrent
  <2> QED
    BY <1>1, <1>2, <1>3, <2>1, <2>2, <2>3, <2>4, <2>5 DEF EmitterFits
<1>10. notice' \in [Recordings -> {"none", "drained", "reported"}]
  BY <1>3 DEF Poll, ServiceInv, ServiceSound, ServiceTyped
<1>11. ServiceTyped'
  BY <1>1, <1>7, <1>10 DEF ServiceInv, ServiceSound, ServiceTyped
<1>12. Steady(s)
  BY <1>1, <1>6, <1>7 DEF Steady, Working, Over, TaskStages, FailurePath
<1> QED
  BY <1>8, <1>9, <1>11, <1>12, TaskKeepsRest, SteadyStaysReliable

LEMMA FailureKeepsSound ==
  ASSUME ServiceInv, NEW s \in Recordings, PollFails(s) \/ Recover(s)
  PROVE  /\ ServiceSound' /\ StaysReliable
         /\ TaskMoves(s) /\ (EmitMayFail = FALSE => Steady(s))
<1>1. UNCHANGED <<op, generation, lastEmitted, shown, results, notice>>
  BY DEF PollFails, Recover, liveVars, busVars
<1>2. ServiceTyped /\ EmitterFits(s)
  BY DEF ServiceInv, ServiceSound
<1>3. PICK pc \in {"showError", "showRecovered"} :
        /\ TaskGoto(s, pc)
        /\ \/ /\ pc = "showError" /\ emitter[s].pc = "poll"
              /\ status = "recording" /\ status' = "error"
              /\ phase' = [phase EXCEPT ![activeSession] = "cancelled"]
           \/ /\ pc = "showRecovered" /\ emitter[s].pc = "recover"
              /\ phase' = phase
              /\ \/ status = "error" /\ status' = "idle"
                 \/ status' = status /\ activeSession' = activeSession
  BY DEF PollFails, TakeLiveEventsFails, EndSession, Recover, RecoverLiveRecordingError,
         ResetToIdle, runtimeVars
<1>4. hand' = hand
  BY DEF PollFails, TakeLiveEventsFails, Recover, RecoverLiveRecordingError, runtimeVars
<1>5. /\ emitter' \in [Recordings -> Tasks]
      /\ \A t \in Recordings \ {s} : emitter'[t] = emitter[t]
      /\ emitter'[s].pc = pc /\ emitter'[s].gen = emitter[s].gen
  <2>1. pc \in TaskStages
    BY DEF TaskStages
  <2> QED
    BY <1>2, <1>3, <2>1, TaskWrites
<1>6. TaskMoves(s)
  BY <1>1, <1>3, <1>4, <1>5 DEF TaskMoves, Working, Over, TaskStages, FailurePath
<1>7. EmitterFits(s)'
  <2>1. PhasesMove
    BY <1>6, TaskMovesPhases
  <2>2. phase'[s] # "live" /\ phase'[s] # "unused"
    <3>1. phase[s] # "unused"
      BY <1>2, <1>3 DEF EmitterFits
    <3>2. CASE pc = "showError"
      <4>1. \A t \in Recordings : phase[t] = "live" <=> t = activeSession
        BY <1>3, <3>2, OnlyActiveIsLive DEF ServiceInv
      <4>2. phase \in [Recordings -> Phases]
        BY DEF ServiceInv, RuntimeInv, RuntimeTypeOK
      <4> QED
        BY <1>3, <3>1, <3>2, <4>1, <4>2
    <3>3. CASE pc = "showRecovered"
      BY <1>2, <1>3, <3>1, <3>3 DEF EmitterFits, FailurePath
    <3> QED
      BY <3>2, <3>3
  <2>3. /\ emitter'[s].pc \in Working /\ emitter'[s].pc \in FailurePath
        /\ emitter'[s].pc \notin Speaking /\ emitter'[s].pc \notin Judging
        /\ emitter'[s].pc # "event" /\ emitter[s].pc \in Working
    BY <1>3, <1>5 DEF Working, TaskStages, Over, Speaking, Judging, FailurePath
  <2>4. IsCurrent(s)' => IsCurrent(s)
    BY <1>1, <1>5 DEF IsCurrent
  <2> QED
    BY <1>1, <1>2, <1>5, <2>2, <2>3, <2>4 DEF EmitterFits
<1>8. ServiceTyped'
  BY <1>1, <1>5 DEF ServiceInv, ServiceSound, ServiceTyped
<1>9. Steady(s)
  <2>1. emitter'[s].pc \in FailurePath
    BY <1>5 DEF FailurePath
  <2>2. ~(Follower(s) /\ status' = "recording")
    BY <1>3 DEF Follower, FailurePath
  <2> QED
    BY <2>1, <2>2 DEF Steady
<1> QED
  BY <1>6, <1>7, <1>8, <1>9, TaskKeepsRest, SteadyStaysReliable

-----------------------------------------------------------------------------
(* The invariants.                                                          *)

LEMMA ServiceInitInv == ServiceInit => ServiceInv /\ ReliableInv
<1> SUFFICES ASSUME ServiceInit PROVE ServiceInv /\ ReliableInv
  OBVIOUS
<1>1. RuntimeInv
  BY RuntimeInitInv DEF ServiceInit
<1>2. /\ op = Free /\ generation = 0 /\ lastEmitted = NoText /\ shown = "idle"
      /\ results = [s \in Recordings |-> 0] /\ notice = [s \in Recordings |-> "none"]
      /\ status = "idle" /\ phase = [s \in Recordings |-> "unused"] /\ hand = EmptyHand
  BY DEF ServiceInit, RuntimeInit
<1>3. /\ emitter \in [Recordings -> Tasks]
      /\ \A s \in Recordings : emitter[s].pc = "none" /\ emitter[s].gen = 0
  BY NewTasks DEF ServiceInit, NoTask
<1>4. ServiceTyped
  BY <1>2, <1>3 DEF ServiceTyped, Free, OpStages, Statuses
<1>5. HandlerFits
  BY <1>2 DEF HandlerFits, Free, Handing, Held, Delivering, Opening, Starting
<1>6. ASSUME NEW s \in Recordings
      PROVE  EmitterFits(s)
  BY <1>2, <1>3
  DEF EmitterFits, Working, TaskStages, Over, Speaking, Judging, FailurePath
<1>7. GenerationsDiffer
  BY <1>3 DEF GenerationsDiffer, Working, Over
<1>8. ResultsFit
  BY <1>2 DEF ResultsFit, Free, Held, Delivering
<1>9. ReliableInv
  BY <1>2 DEF ReliableInv, Free, Opening, Starting
<1> QED
  BY <1>1, <1>4, <1>5, <1>6, <1>7, <1>8, <1>9 DEF ServiceInv, ServiceSound

LEMMA TaskKeepsSound ==
  ASSUME ServiceInv, NEW s \in Recordings, Task(s)
  PROVE  /\ ServiceSound' /\ StaysReliable
         /\ TaskMoves(s) /\ (EmitMayFail = FALSE => Steady(s))
<1>1. CASE \E p \in Texts \cup {NoText}, error \in BOOLEAN : Poll(s, p, error)
  BY <1>1, PollKeepsSound
<1>2. CASE PollFails(s) \/ Recover(s)
  BY <1>2, FailureKeepsSound
<1>3. CASE \/ Tick(s) \/ PollEnds(s) \/ CheckEvent(s) \/ ComparePartial(s) \/ RecordPartial(s)
           \/ \E ok \in Emissions :
                SendPartial(s, ok) \/ NotifyError(s, ok) \/ ShowError(s, ok) \/ ShowRecovered(s, ok)
  <2>1. TRUE \in Emissions
    BY DEF Emissions
  <2> QED
    BY <1>3, <2>1, QuietTaskKeepsSound
<1> QED
  BY <1>1, <1>2, <1>3 DEF Task

LEMMA ServiceStepInv ==
  ASSUME ServiceInv, [ServiceNext]_serviceVars
  PROVE  ServiceInv' /\ StaysReliable
<1>1. RuntimeInv'
  BY ServiceStepUsesRuntime, RuntimeStepInv DEF ServiceInv
<1>2. CASE StartCall \/ Stop \/ Handler
  BY <1>1, <1>2, HandlerKeepsSound DEF ServiceInv
<1>3. CASE \E s \in Recordings : Task(s)
  BY <1>1, <1>3, TaskKeepsSound DEF ServiceInv
<1>4. CASE UNCHANGED serviceVars
  <2>1. /\ op' = op /\ UNCHANGED liveVars /\ emitter' = emitter /\ UNCHANGED runtimeVars
        /\ UNCHANGED <<generation, lastEmitted, shown, results, notice>>
        /\ UNCHANGED <<status, activeSession, phase, hand>>
    BY <1>4 DEF serviceVars, liveVars, busVars, runtimeVars
  <2>2. ServiceTyped' /\ HandlerFits' /\ ResultsFit'
    BY <2>1
    DEF ServiceInv, ServiceSound, ServiceTyped, HandlerFits, ResultsFit, EndedByOther
  <2>3. (\A s \in Recordings : EmitterFits(s)') /\ GenerationsDiffer'
    BY <2>1, OnlyHandlerMoves
  <2>4. StaysReliable
    BY <2>1 DEF StaysReliable, Reliable, ReliableInv, LiveFailed, Follower, IsCurrent
  <2> QED
    BY <1>1, <2>2, <2>3, <2>4 DEF ServiceInv, ServiceSound
<1> QED
  BY <1>2, <1>3, <1>4 DEF ServiceNext

LEMMA ServiceInvHolds == ServiceSpec => []ServiceInv
<1>1. ServiceInit => ServiceInv
  BY ServiceInitInv
<1>2. ServiceInv /\ [ServiceNext]_serviceVars => ServiceInv'
  BY ServiceStepInv
<1> QED
  BY <1>1, <1>2, PTL DEF ServiceSpec

LEMMA ReliableInvHolds ==
  ASSUME EmitMayFail = FALSE
  PROVE  ServiceSpec => [](ServiceInv /\ ReliableInv)
<1>1. ServiceInit => ServiceInv /\ ReliableInv
  BY ServiceInitInv
<1>2. ServiceInv /\ ReliableInv /\ [ServiceNext]_serviceVars => (ServiceInv /\ ReliableInv)'
  BY ServiceStepInv DEF StaysReliable, Reliable
<1> QED
  BY <1>1, <1>2, PTL DEF ServiceSpec

(* Whatever fails, every variable of the service keeps its type, two        *)
(* emitters never follow the same generation, and what one signals comes    *)
(* from its own recording, but for the exception                            *)
(* PartialsComeFromOwnRecording names.                                      *)
THEOREM EmittersStayApart ==
  ServiceSpec => [](ServiceTypeOK /\ OneCurrentEmitter /\ PartialsComeFromOwnRecording)
<1>1. ServiceInv => ServiceTypeOK
  BY DEF ServiceInv, ServiceSound, ServiceTyped, ServiceTypeOK, RuntimeInv, Tasks, EmitterFits
<1>2. ServiceInv => OneCurrentEmitter
  <2> SUFFICES ASSUME ServiceInv, NEW s \in Recordings, NEW t \in Recordings,
                      emitter[s].pc \notin Over, IsCurrent(s),
                      emitter[t].pc \notin Over, IsCurrent(t)
               PROVE  s = t
    BY DEF OneCurrentEmitter
  <2>1. emitter[s].pc \in Working /\ emitter[t].pc \in Working
    BY DEF ServiceInv, ServiceSound, ServiceTyped, Tasks, Working
  <2> QED
    BY <2>1 DEF ServiceInv, ServiceSound, GenerationsDiffer, IsCurrent
<1>3. ServiceInv => PartialsComeFromOwnRecording
  BY DEF ServiceInv, ServiceSound, EmitterFits, EndedByOther, PartialsComeFromOwnRecording,
         Speaking, Judging
<1> QED
  BY <1>1, <1>2, <1>3, ServiceInvHolds, PTL

(* As long as every signal is sent, no stop leaves the runtime busy.        *)
THEOREM NoStopIsStranded ==
  ASSUME EmitMayFail = FALSE
  PROVE  ServiceSpec => []NoStrandedStop
<1>1. ServiceInv /\ ReliableInv => NoStrandedStop
  BY DEF ReliableInv, NoStrandedStop
<1> QED
  BY <1>1, ReliableInvHolds, PTL

(* Likewise, a recording nobody is starting or stopping is followed by one  *)
(* emitter of its own, whatever live sessions fail.                         *)
THEOREM RecordingsAreFollowed ==
  ASSUME EmitMayFail = FALSE
  PROVE  ServiceSpec => []FollowedByOne
<1>1. ServiceInv /\ ReliableInv => RecordingIsFollowed
  BY DEF ReliableInv, Follower, RecordingIsFollowed, Working
<1>2. ServiceSpec => []RecordingIsFollowed
  BY <1>1, ReliableInvHolds, PTL
<1> QED
  BY <1>2, EmittersStayApart, PTL DEF FollowedByOne

(* Likewise, each finished recording has had its one result and no other    *)
(* recording any.                                                           *)
THEOREM ResultsMatchOutcomes ==
  ASSUME EmitMayFail = FALSE
  PROVE  ServiceSpec => []ResultMatchesOutcome
<1>1. ServiceInv /\ ReliableInv => ResultMatchesOutcome
  BY DEF ServiceInv, ServiceSound, ResultsFit, ReliableInv, ResultMatchesOutcome, Held,
         Delivering
<1> QED
  BY <1>1, ReliableInvHolds, PTL

(* Likewise, until a live session fails, what the bus showed last is the    *)
(* status of the runtime whenever no call is under way.                     *)
THEOREM ShownStatusStaysCurrent ==
  ASSUME EmitMayFail = FALSE
  PROVE  ServiceSpec => []ShownStatusIsCurrent
<1>1. ServiceInv /\ ReliableInv => ShownStatusIsCurrent
  BY DEF ReliableInv, ShownStatusIsCurrent
<1> QED
  BY <1>1, ReliableInvHolds, PTL

-----------------------------------------------------------------------------
(***************************************************************************)
(* As long as every signal is sent, the service implements the safety part *)
(* of DictationBus: each step shows a listening client a step of its       *)
(* promise or nothing at all, or a live session has failed.                *)
(***************************************************************************)

DueStages == {"begin", "showPostprocessing", "finish", "emitPartial", "emitResult"}

(* What the bus shows at each stage of a call, until a live session fails.  *)
StagesShown ==
  /\ op.pc # "abort"
  /\ op.pc = "announce" => shown = "idle"
  /\ op.pc \in {"beginLive", "cancelLive", "prepare", "showInferring"} => shown = "recording"
  /\ op.pc \in {"begin", "showPostprocessing"} => shown = "inferring"
  /\ op.pc \in {"finish", "emitPartial", "emitResult"} => shown \in {"inferring", "postprocessing"}
  /\ op.pc = "showIdle" => shown \in {"recording", "inferring", "postprocessing"}

ShownInv == ~LiveFailed => StagesShown

(* A failure of a live session is never taken back.                         *)
LEMMA FailuresLast ==
  ASSUME ServiceInv, ServiceNext, LiveFailed
  PROVE  LiveFailed'
<1>1. PICK t \in Recordings : emitter[t].pc \in FailurePath
  BY DEF LiveFailed
<1>2. emitter \in [Recordings -> Tasks]
  BY DEF ServiceInv, ServiceSound, ServiceTyped
<1>3. CASE StartCall \/ Stop \/ (Handler /\ ~BeginLive)
  <2>1. emitter' = emitter
    BY <1>3
    DEF StartCall, Start, Stop, Handler, CancelLive, Prepare, Begin, Abort, Finish,
        AnnounceRecording, ShowInferring, ShowPostprocessing, EmitPartial, EmitResult, ShowIdle
  <2> QED
    BY <1>1, <2>1 DEF LiveFailed
<1>4. CASE BeginLive
  <2>1. emitter[op.session].pc = "none"
    BY <1>4 DEF BeginLive, ServiceInv, ServiceSound, HandlerFits, Starting
  <2>2. emitter'[t] = emitter[t]
    BY <1>1, <1>2, <1>4, <2>1 DEF BeginLive, FailurePath
  <2> QED
    BY <1>1, <2>2 DEF LiveFailed
<1>5. ASSUME NEW s \in Recordings, Task(s)
      PROVE  LiveFailed'
  <2>1. TaskMoves(s)
    BY <1>5, TaskKeepsSound
  <2> QED
    BY <1>1, <2>1 DEF TaskMoves, LiveFailed
<1> QED
  BY <1>3, <1>4, <1>5 DEF ServiceNext

(* A step of a task that reveals no failure shows nothing.                  *)
LEMMA TasksShowNothing ==
  ASSUME ServiceInv, EmitMayFail = FALSE, NEW s \in Recordings, Task(s), ~LiveFailed'
  PROVE  op' = op /\ shown' = shown /\ results' = results
<1>1. TaskMoves(s) /\ Steady(s)
  BY TaskKeepsSound
<1>2. emitter'[s].pc \notin FailurePath
  BY DEF LiveFailed
<1> QED
  BY <1>1, <1>2 DEF TaskMoves, Steady

(* What the handler shows, stage by stage.                                  *)
LEMMA HandlerShows ==
  ASSUME ServiceInv, ReliableInv, EmitMayFail = FALSE, ~LiveFailed, StagesShown,
         StartCall \/ Stop \/ Handler
  PROVE  /\ StagesShown'
         /\ \/ shown' = shown /\ results' = results
               /\ (op'.pc \in DueStages <=> op.pc \in DueStages)
            \/ Bus!Record \/ Bus!Discard \/ Bus!Infer \/ Bus!Postprocess \/ Bus!Ending
<1> DEFINE Silent == /\ shown' = shown /\ results' = results
                     /\ (op'.pc \in DueStages <=> op.pc \in DueStages)
<1>1. op \in Handlers /\ Emissions = {TRUE}
  BY DEF ServiceInv, ServiceSound, ServiceTyped, Handlers, Emissions
<1>2. op.pc = "free" => shown = status
  BY DEF ReliableInv
<1>3. CASE StartCall
  <2>1. /\ op.pc = "free" /\ status = "idle" /\ op'.pc = "announce"
        /\ shown' = shown /\ results' = results
    BY <1>3 DEF StartCall, Start, StartRecording, Free, busVars
  <2> QED
    BY <1>2, <2>1 DEF StagesShown, DueStages
<1>4. CASE Stop
  <2>1. /\ op.pc = "free" /\ status = "recording" /\ op'.pc = "cancelLive"
        /\ shown' = shown /\ results' = results
    BY <1>4 DEF Stop, Free, busVars
  <2> QED
    BY <1>2, <2>1 DEF StagesShown, DueStages
<1>5. CASE BeginLive \/ CancelLive
  <2>1. /\ shown' = shown /\ results' = results
        /\ \/ op.pc = "beginLive" /\ op'.pc = "free"
           \/ op.pc = "cancelLive" /\ op'.pc = "prepare"
    <3>1. ASSUME BeginLive
          PROVE  op.pc = "beginLive" /\ op'.pc = "free" /\ UNCHANGED <<shown, results>>
      BY <3>1 DEF BeginLive, Return, Free, busVars
    <3>2. ASSUME CancelLive
          PROVE  op.pc = "cancelLive" /\ op'.pc = "prepare" /\ UNCHANGED <<shown, results>>
      BY <1>1, <3>2 DEF CancelLive, busVars, Handlers
    <3> QED
      BY <1>5, <3>1, <3>2
  <2> QED
    BY <2>1 DEF StagesShown, DueStages
<1>6. CASE Prepare
  <2>1. /\ shown' = shown /\ results' = results /\ op.pc = "prepare"
        /\ op'.pc \in {"showInferring", "showIdle"}
    BY <1>1, <1>6 DEF Prepare, Goto, busVars, Handlers
  <2> QED
    BY <2>1 DEF StagesShown, DueStages
<1>7. CASE \E ok \in Emissions : AnnounceRecording(ok)
  <2>1. /\ op.pc = "announce" /\ op'.pc = "beginLive" /\ shown' = "recording"
        /\ results' = results
    BY <1>1, <1>7 DEF AnnounceRecording, StatusChanged, Goto, Handlers
  <2> QED
    BY <2>1 DEF StagesShown, Bus!Record, Bus!Announce
<1>8. CASE \E ok \in Emissions : ShowInferring(ok)
  <2>1. /\ op.pc = "showInferring" /\ op'.pc = "begin" /\ shown' = "inferring"
        /\ results' = results
    BY <1>1, <1>8 DEF ShowInferring, StatusChanged, Goto, Handlers
  <2> QED
    BY <2>1 DEF StagesShown, Bus!Infer, Bus!Announce
<1>9. CASE Begin
  <2>1. /\ op.pc = "begin" /\ op'.pc \in {"showPostprocessing", "finish", "showIdle"}
        /\ shown' = shown /\ results' = results
    BY <1>1, <1>9 DEF Begin, Goto, busVars, Handlers
  <2>2. CASE op'.pc = "showIdle"
    BY <2>1, <2>2 DEF StagesShown, Bus!Ending, Bus!GiveUp
  <2>3. CASE op'.pc # "showIdle"
    BY <2>1, <2>3 DEF StagesShown, DueStages
  <2> QED
    BY <2>2, <2>3
<1>10. CASE \E ok \in Emissions : ShowPostprocessing(ok)
  <2>1. /\ op.pc = "showPostprocessing" /\ op'.pc = "finish" /\ shown' = "postprocessing"
        /\ results' = results
    BY <1>1, <1>10 DEF ShowPostprocessing, StatusChanged, Goto, Handlers
  <2> QED
    BY <2>1 DEF StagesShown, Bus!Postprocess, Bus!Announce
<1>11. CASE Abort
  BY <1>11 DEF Abort, StagesShown
<1>12. CASE Finish
  <2>1. /\ op.pc = "finish" /\ op'.pc \in {"emitPartial", "showIdle"}
        /\ shown' = shown /\ results' = results
    BY <1>1, <1>12 DEF Finish, Goto, busVars, Handlers
  <2>2. CASE op'.pc = "showIdle"
    BY <2>1, <2>2 DEF StagesShown, Bus!Ending, Bus!GiveUp
  <2>3. CASE op'.pc # "showIdle"
    BY <2>1, <2>3 DEF StagesShown, DueStages
  <2> QED
    BY <2>2, <2>3
<1>13. CASE \E ok \in Emissions : EmitPartial(ok)
  <2>1. /\ op.pc = "emitPartial" /\ op'.pc = "emitResult"
        /\ shown' = shown /\ results' = results
    BY <1>1, <1>13 DEF EmitPartial, RecognitionPartial, Goto, busVars, Handlers
  <2> QED
    BY <2>1 DEF StagesShown, DueStages
<1>14. CASE \E ok \in Emissions : EmitResult(ok)
  <2>1. /\ op.pc = "emitResult" /\ op'.pc = "showIdle" /\ shown' = shown
        /\ results' = [results EXCEPT ![op.session] = @ + 1]
    BY <1>1, <1>14 DEF EmitResult, Goto, Handlers
  <2>2. op.session \in Recordings /\ results[op.session] = 0
    BY <2>1 DEF ServiceInv, ServiceSound, HandlerFits, ResultsFit, Delivering
  <2>3. results' = [results EXCEPT ![op.session] = 1]
    BY <2>1, <2>2
  <2>4. Bus!Deliver(op.session)
    BY <2>1, <2>2, <2>3 DEF Bus!Deliver
  <2> QED
    BY <2>1, <2>2, <2>4 DEF StagesShown, Bus!Ending
<1>15. CASE \E ok \in Emissions : ShowIdle(ok)
  <2>1. /\ op.pc = "showIdle" /\ op'.pc = "free" /\ shown' = "idle" /\ results' = results
    BY <1>1, <1>15 DEF ShowIdle, StatusChanged, Return, Free
  <2>2. shown = "recording" => Bus!Discard
    BY <2>1 DEF Bus!Discard, Bus!Announce
  <2>3. shown \in {"inferring", "postprocessing"} => Bus!Ending
    BY <2>1 DEF Bus!Ending, Bus!Over, Bus!Announce
  <2> QED
    BY <2>1, <2>2, <2>3 DEF StagesShown
<1> QED
  BY <1>3, <1>4, <1>5, <1>6, <1>7, <1>8, <1>9, <1>10, <1>11, <1>12, <1>13, <1>14, <1>15
  DEF Handler

(* Every step of the service shows the client a step of its promise, or     *)
(* nothing.                                                                 *)
LEMMA EveryStepIsPromised ==
  ASSUME ServiceInv, ReliableInv, EmitMayFail = FALSE, ShownInv, [ServiceNext]_serviceVars
  PROVE  ShownInv' /\ [Bus!Next \/ Bus!Fail]_(Bus!busSpecVars)
<1>1. CASE LiveFailed'
  BY <1>1 DEF ShownInv, Bus!Fail
<1>2. CASE ~LiveFailed' /\ ServiceNext
  <2>1. ~LiveFailed
    BY <1>2, FailuresLast
  <2>2. StagesShown
    BY <2>1 DEF ShownInv
  <2>3. UNCHANGED LiveFailed
    BY <1>2, <2>1 DEF LiveFailed
  <2>4. CASE StartCall \/ Stop \/ Handler
    <3>1. /\ StagesShown'
          /\ \/ shown' = shown /\ results' = results
                /\ (op'.pc \in DueStages <=> op.pc \in DueStages)
             \/ Bus!Record \/ Bus!Discard \/ Bus!Infer \/ Bus!Postprocess \/ Bus!Ending
      BY <2>1, <2>2, <2>4, HandlerShows
    <3>2. ShownInv'
      BY <3>1 DEF ShownInv
    <3>3. CASE /\ shown' = shown /\ results' = results
               /\ (op'.pc \in DueStages <=> op.pc \in DueStages)
      BY <2>3, <3>2, <3>3 DEF DueStages, Bus!busSpecVars
    <3>4. CASE Bus!Record \/ Bus!Discard \/ Bus!Infer \/ Bus!Postprocess \/ Bus!Ending
      BY <2>3, <3>2, <3>4 DEF Bus!Next
    <3> QED
      BY <3>1, <3>3, <3>4
  <2>5. CASE \E s \in Recordings : Task(s)
    <3>1. op' = op /\ shown' = shown /\ results' = results
      BY <1>2, <2>5, TasksShowNothing
    <3> QED
      BY <2>2, <2>3, <3>1 DEF ShownInv, StagesShown, Bus!busSpecVars
  <2> QED
    BY <1>2, <2>4, <2>5 DEF ServiceNext
<1>3. CASE UNCHANGED serviceVars
  <2>1. UNCHANGED <<op, shown, results, emitter>>
    BY <1>3 DEF serviceVars, busVars
  <2> QED
    BY <2>1 DEF ShownInv, StagesShown, LiveFailed, Bus!busSpecVars
<1> QED
  BY <1>1, <1>2, <1>3

(* What a client hears until a live session fails: statuses that move along *)
(* the arrows of the documented state machine, and at most one result per   *)
(* dictation, while one is due.                                             *)
THEOREM BusKeepsItsPromise ==
  ASSUME EmitMayFail = FALSE
  PROVE  ServiceSpec => Bus!Safe
<1>1. ServiceInit => Bus!Init /\ ShownInv
  <2> SUFFICES ASSUME ServiceInit PROVE Bus!Init /\ ShownInv
    OBVIOUS
  <2>1. op.pc = "free" /\ shown = "idle" /\ results = [s \in Recordings |-> 0]
    BY DEF ServiceInit, Free
  <2>2. ~LiveFailed
    BY DEF ServiceInit, LiveFailed, NoTask, FailurePath
  <2> QED
    BY <2>1, <2>2 DEF Bus!Init, ShownInv, StagesShown
<1>2. /\ ServiceInv /\ ReliableInv /\ ShownInv /\ [ServiceNext]_serviceVars
      => ShownInv' /\ [Bus!Next \/ Bus!Fail]_(Bus!busSpecVars)
  BY EveryStepIsPromised
<1> QED
  BY <1>1, <1>2, ReliableInvHolds, PTL DEF ServiceSpec, Bus!Safe
=============================================================================
