-------------------------- MODULE RecordingRuntime --------------------------
(***************************************************************************)
(* The recording state machine of the daemon: RuntimeState of              *)
(* vinpst-daemon and the methods of runtime/recording.rs.  Every method    *)
(* takes &mut self under the runtime mutex, so each is one action here,    *)
(* whatever it calls.  The callers are left open: any method may be called *)
(* whenever its guard lets it, which is what the D-Bus service, the live   *)
(* emitter tasks and the unit tests between them do (RecordingService      *)
(* closes the system with the real callers).                               *)
(*                                                                         *)
(* Abstractions: audio is reduced to "long enough", "too short" or "failed"*)
(* at stop; a recognition to failed, empty or some text; a partial to a    *)
(* member of Texts; a scene definition to whether it post-processes.       *)
(***************************************************************************)
EXTENDS Naturals, FiniteSets

CONSTANTS
  Recordings,    (* identities of recognition sessions, one per start       *)
  NoSession,     (* absence of a session                                    *)
  Scenes,        (* scene ids of the config, the command scene among them   *)
  CommandScene,  (* COMMAND_SCENE_ID                                        *)
  LlmScenes,     (* scenes whose definition asks for post-processing        *)
  NoScene,       (* current_scene = None                                    *)
  Texts,         (* partial texts, and the selection of a command recording *)
  NoText,        (* None or the empty string                                *)
  DuckOutput     (* duck_output_while_recording                             *)

ASSUME ConstantsDistinct ==
  /\ NoSession \notin Recordings
  /\ NoScene \notin Scenes
  /\ NoText \notin Texts
  /\ CommandScene \in Scenes
  /\ LlmScenes \subseteq Scenes
  /\ DuckOutput \in BOOLEAN

VARIABLES
  status,        (* ServiceStatus                                           *)
  recorder,      (* whether audio_recorder.is_recording()                   *)
  callback,      (* session fed by the installed chunk callback             *)
  activeSession, (* active_session                                          *)
  currentScene,
  selectedText,
  partialText,
  savedVolume,   (* OutputDucker.saved_volume                               *)
  sinkVolume,    (* what the default sink really plays at                   *)
  restoreFailed, (* history: some restore could not set the sink volume     *)
  phase,         (* what has become of each recognition session             *)
  hand           (* the PreparedStopRecording::Ready or                     *)
                 (* PendingStopRecording value the caller of stop holds     *)

runtimeVars == <<status, recorder, callback, activeSession, currentScene,
                 selectedText, partialText, savedVolume, sinkVolume,
                 restoreFailed, phase, hand>>
captureVars == <<recorder, callback>>
volumeVars  == <<savedVolume, sinkVolume, restoreFailed>>
requestVars == <<currentScene, selectedText>>

Statuses == {"idle", "recording", "inferring", "postprocessing", "error"}
NoVolume == "none"
Volumes  == {"user", "ducked"}

(* "unused" sessions do not exist yet; "dropped" ones were deallocated by   *)
(* their owner without finish or cancel.                                    *)
Phases == {"unused", "live", "finished", "cancelled", "dropped"}

EmptyHand == [stage |-> "none", session |-> NoSession, scene |-> NoScene,
              selected |-> NoText, post |-> FALSE, text |-> FALSE]
Ready(s, sc, sel) ==
  [stage |-> "ready", session |-> s, scene |-> sc, selected |-> sel,
   post |-> FALSE, text |-> FALSE]

(* PendingStopRecording.enters_postprocessing: some text, and a scene with  *)
(* candidates, a provider, and a prompt unless it is the command scene.     *)
EntersPostprocessing(sc, text) == text /\ sc \in LlmScenes
Pending(h, text) ==
  [stage |-> "pending", session |-> h.session, scene |-> h.scene, selected |-> h.selected,
   post |-> EntersPostprocessing(h.scene, text), text |-> text]

HandValues ==
  [stage : {"none", "ready", "pending"}, session : Recordings \cup {NoSession},
   scene : Scenes \cup {NoScene}, selected : Texts \cup {NoText},
   post : BOOLEAN, text : BOOLEAN]

RuntimeInit ==
  /\ status = "idle"
  /\ recorder = FALSE
  /\ callback = NoSession
  /\ activeSession = NoSession
  /\ currentScene = NoScene
  /\ selectedText = NoText
  /\ partialText = NoText
  /\ savedVolume = NoVolume
  /\ sinkVolume = "user"
  /\ restoreFailed = FALSE
  /\ phase = [s \in Recordings |-> "unused"]
  /\ hand = EmptyHand

-----------------------------------------------------------------------------
(* Parts of the methods.                                                    *)

(* OutputDucker::duck, or nothing when ducking is not configured, wpctl     *)
(* cannot read the sink or cannot set it.                                   *)
Duck ==
  \/ UNCHANGED volumeVars
  \/ /\ DuckOutput
     /\ savedVolume = NoVolume
     /\ savedVolume' = sinkVolume
     /\ sinkVolume' = "ducked"
     /\ UNCHANGED restoreFailed

(* OutputDucker::restore takes the saved volume first; when setting the     *)
(* sink fails it is not kept.                                               *)
Restore ==
  IF savedVolume = NoVolume
  THEN UNCHANGED volumeVars
  ELSE /\ savedVolume' = NoVolume
       /\ \/ /\ sinkVolume' = savedVolume
             /\ UNCHANGED restoreFailed
          \/ /\ restoreFailed' = TRUE
             /\ UNCHANGED sinkVolume

(* reset_to_idle.  Its last call, apply_pending_asr_backend_reload, touches  *)
(* only reload state: it is BecomeIdle of AsrReload.                        *)
ResetToIdle ==
  /\ Restore
  /\ status' = "idle"
  /\ currentScene' = NoScene
  /\ selectedText' = NoText
  /\ partialText' = NoText
  /\ activeSession' = NoSession

ResetIf(fits) ==
  IF fits
  THEN ResetToIdle
  ELSE UNCHANGED <<status, activeSession, requestVars, partialText, volumeVars>>

StopCapture_KeepsCallback ==
  /\ recorder' = FALSE
  /\ UNCHANGED callback

StopCapture ==
  /\ recorder' = FALSE
  /\ callback' = NoSession

EndSession(s, p) == phase' = [phase EXCEPT ![s] = p]

-----------------------------------------------------------------------------
(* start_recording and start_command_recording.                             *)

StartRecording_WithoutEnsureIdle(s, sc, sel) ==
  /\ ~recorder
  /\ phase[s] = "unused"
  /\ recorder' = TRUE
  /\ callback' = s
  /\ EndSession(s, "live")
  /\ status' = "recording"
  /\ currentScene' = sc
  /\ selectedText' = sel
  /\ activeSession' = s
  /\ Duck
  /\ UNCHANGED <<partialText, hand>>

(* The recorder begins behind the start gate, the session is created, the   *)
(* gate is armed with the session's callback, and only then is the state    *)
(* published.                                                               *)
StartRecording(s, sc, sel) ==
  /\ status = "idle"
  /\ ~recorder
  /\ phase[s] = "unused"
  /\ recorder' = TRUE
  /\ callback' = s
  /\ EndSession(s, "live")
  /\ status' = "recording"
  /\ currentScene' = sc
  /\ selectedText' = sel
  /\ activeSession' = s
  /\ Duck
  /\ UNCHANGED <<partialText, hand>>

(* begin_recording failed, or it succeeded and create_session failed, in    *)
(* which case the recorder is cancelled again; the callback is cleared.     *)
StartRecordingFails ==
  /\ status = "idle"
  /\ StopCapture
  /\ UNCHANGED <<status, activeSession, requestVars, partialText, volumeVars, phase, hand>>

-----------------------------------------------------------------------------
(* take_live_recognition_events and recover_live_recording_error.           *)

(* A partial text is remembered, and projected only when it differs from    *)
(* the one remembered (see LivePartialIsNew).                               *)
TakeLiveEvents(p) ==
  /\ status = "recording"
  /\ activeSession # NoSession
  /\ partialText' = IF p = NoText THEN partialText ELSE p
  /\ UNCHANGED <<status, captureVars, activeSession, requestVars, volumeVars, phase, hand>>

LivePartialIsNew(p) == p # NoText /\ p # partialText

TakeLiveEventsFails_KeepsPartial ==
  /\ status = "recording"
  /\ activeSession # NoSession
  /\ status' = "error"
  /\ StopCapture
  /\ EndSession(activeSession, "cancelled")
  /\ activeSession' = NoSession
  /\ Restore
  /\ currentScene' = NoScene
  /\ selectedText' = NoText
  /\ UNCHANGED <<partialText, hand>>

(* A poll or delivery failure: enter_live_recording_error.                  *)
TakeLiveEventsFails ==
  /\ status = "recording"
  /\ activeSession # NoSession
  /\ status' = "error"
  /\ StopCapture
  /\ EndSession(activeSession, "cancelled")
  /\ activeSession' = NoSession
  /\ Restore
  /\ currentScene' = NoScene
  /\ selectedText' = NoText
  /\ partialText' = NoText
  /\ UNCHANGED hand

RecoverLiveRecordingError ==
  IF status = "error"
  THEN /\ ResetToIdle
       /\ UNCHANGED <<captureVars, phase, hand>>
  ELSE UNCHANGED runtimeVars

-----------------------------------------------------------------------------
(* prepare_stop_recording.                                                  *)

PrepareStopDiscards_ForgetsSession ==
  /\ status = "recording"
  /\ activeSession # NoSession
  /\ StopCapture
  /\ ResetToIdle
  /\ UNCHANGED <<phase, hand>>

(* The capture was shorter than MIN_SAMPLES_FOR_RECOGNITION, or stopping it *)
(* failed: the session is cancelled and the runtime is idle again.          *)
PrepareStopDiscards ==
  /\ status = "recording"
  /\ activeSession # NoSession
  /\ StopCapture
  /\ EndSession(activeSession, "cancelled")
  /\ ResetToIdle
  /\ UNCHANGED hand

PrepareStopReady_StaysDucked(sc) ==
  /\ status = "recording"
  /\ activeSession # NoSession
  /\ StopCapture
  /\ status' = "inferring"
  /\ hand' = Ready(activeSession, sc, selectedText)
  /\ activeSession' = NoSession
  /\ UNCHANGED <<requestVars, partialText, volumeVars, phase>>

(* Long enough: the session leaves active_session for the caller's hands.   *)
(* An explicit scene of the caller overrides the scene of the recording.    *)
PrepareStopReady(sc) ==
  /\ status = "recording"
  /\ activeSession # NoSession
  /\ StopCapture
  /\ Restore
  /\ status' = "inferring"
  /\ hand' = Ready(activeSession, sc, selectedText)
  /\ activeSession' = NoSession
  /\ UNCHANGED <<requestVars, partialText, phase>>

-----------------------------------------------------------------------------
(* begin_stop_inference.                                                    *)

BeginStopInferenceFails_KeepsStatus ==
  /\ hand.stage = "ready"
  /\ EndSession(hand.session, "cancelled")
  /\ ResetIf(FALSE)
  /\ hand' = EmptyHand
  /\ UNCHANGED captureVars

(* Pushing, polling, finishing or an Error event failed, or the runtime is   *)
(* not inferring (Busy), when the status is left alone.                     *)
BeginStopInferenceFails ==
  /\ hand.stage = "ready"
  /\ EndSession(hand.session, "cancelled")
  /\ ResetIf(status = "inferring")
  /\ hand' = EmptyHand
  /\ UNCHANGED captureVars

BeginStopInference_StaysInferring(text, p) ==
  /\ hand.stage = "ready"
  /\ status = "inferring"
  /\ EndSession(hand.session, "finished")
  /\ hand' = Pending(hand, text)
  /\ partialText' = IF p = NoText THEN partialText ELSE p
  /\ UNCHANGED <<status, captureVars, activeSession, requestVars, volumeVars>>

(* The session finished with some text or with none.  A partial polled now  *)
(* is remembered, and is the one the pending stop carries.                  *)
BeginStopInference(text, p) ==
  /\ hand.stage = "ready"
  /\ status = "inferring"
  /\ EndSession(hand.session, "finished")
  /\ hand' = Pending(hand, text)
  /\ status' = IF EntersPostprocessing(hand.scene, text) THEN "postprocessing" ELSE status
  /\ partialText' = IF p = NoText THEN partialText ELSE p
  /\ UNCHANGED <<captureVars, activeSession, requestVars, volumeVars>>

-----------------------------------------------------------------------------
(* finish_stop_recording, abort_stop_recording.                             *)

ExpectedStatus(h) == IF h.post THEN "postprocessing" ELSE "inferring"

FinishStopRecording ==
  /\ hand.stage = "pending"
  /\ status = ExpectedStatus(hand)
  /\ ResetToIdle
  /\ hand' = EmptyHand
  /\ UNCHANGED <<captureVars, phase>>

(* The text processor fails outright (without text it is not called), or    *)
(* the status is not the expected one (Busy).                               *)
FinishStopRecordingFails ==
  /\ hand.stage = "pending"
  /\ hand.text \/ status # ExpectedStatus(hand)
  /\ EndSession(hand.session, "cancelled")
  /\ ResetIf(status = ExpectedStatus(hand))
  /\ hand' = EmptyHand
  /\ UNCHANGED captureVars

AbortStopRecording ==
  /\ hand.stage = "pending"
  /\ EndSession(hand.session, "cancelled")
  /\ StopCapture
  /\ ResetToIdle
  /\ hand' = EmptyHand

(* The caller drops the prepared value and never calls                      *)
(* begin_stop_inference: the session goes with it, the status stays.        *)
DropPrepared ==
  /\ hand.stage = "ready"
  /\ EndSession(hand.session, "dropped")
  /\ hand' = EmptyHand
  /\ UNCHANGED <<status, captureVars, activeSession, requestVars, partialText, volumeVars>>

-----------------------------------------------------------------------------
StartSteps ==
  \/ \E s \in Recordings, sc \in Scenes : StartRecording(s, sc, NoText)
  \/ \E s \in Recordings, sel \in Texts : StartRecording(s, CommandScene, sel)
  \/ StartRecordingFails

LiveSteps ==
  \/ \E p \in Texts \cup {NoText} : TakeLiveEvents(p)
  \/ TakeLiveEventsFails
  \/ RecoverLiveRecordingError

StopSteps ==
  \/ PrepareStopDiscards
  \/ \E sc \in Scenes : PrepareStopReady(sc)
  \/ BeginStopInferenceFails
  \/ \E text \in BOOLEAN, p \in Texts \cup {NoText} : BeginStopInference(text, p)
  \/ FinishStopRecording
  \/ FinishStopRecordingFails
  \/ AbortStopRecording
  \/ DropPrepared

RuntimeNext == StartSteps \/ LiveSteps \/ StopSteps

RuntimeSpec == RuntimeInit /\ [][RuntimeNext]_runtimeVars
-----------------------------------------------------------------------------
(* Properties.                                                              *)

(* Every variable keeps the type of the Rust field it stands for.           *)
RuntimeTypeOK ==
  /\ status \in Statuses
  /\ recorder \in BOOLEAN
  /\ callback \in Recordings \cup {NoSession}
  /\ activeSession \in Recordings \cup {NoSession}
  /\ currentScene \in Scenes \cup {NoScene}
  /\ selectedText \in Texts \cup {NoText}
  /\ partialText \in Texts \cup {NoText}
  /\ savedVolume \in Volumes \cup {NoVolume}
  /\ sinkVolume \in Volumes
  /\ restoreFailed \in BOOLEAN
  /\ phase \in [Recordings -> Phases]
  /\ hand \in HandValues

(* The microphone is open exactly while the status says recording, and its  *)
(* chunks go to the session of that recording and to no other: no exit path *)
(* of stop, live error or abort leaves capture running or a callback of an  *)
(* ended session installed.                                                 *)
CaptureMatchesStatus ==
  /\ recorder <=> status = "recording"
  /\ recorder <=> activeSession # NoSession
  /\ callback = activeSession

(* A live recognition session has exactly one owner, the runtime while it   *)
(* records or the stop operation until inference: none leaks on the early   *)
(* returns, and none is held by both.                                       *)
SessionHasOneOwner ==
  /\ \A s \in Recordings :
       phase[s] = "live" <=> (s = activeSession \/ (hand.stage = "ready" /\ s = hand.session))
  /\ hand.stage = "none" => hand = EmptyHand
  /\ hand.stage # "none" => hand.session \in Recordings /\ activeSession = NoSession

(* The sink is ducked only while recording: whichever way a recording ends, *)
(* the volume saved at its start is what the sink plays again, unless       *)
(* wpctl itself failed to restore it.                                       *)
VolumeComesBack ==
  /\ savedVolume # NoVolume => status = "recording"
  /\ sinkVolume = "ducked" /\ ~restoreFailed => savedVolume = "user"
  /\ savedVolume = "ducked" => restoreFailed

(* The value the stop operation holds always fits the status: the Busy      *)
(* returns of begin_stop_inference and finish_stop_recording, which would   *)
(* lose a recognised text, are never taken.                                 *)
HandMatchesStatus ==
  /\ hand.stage = "ready" => status = "inferring"
  /\ hand.stage = "pending" => status = ExpectedStatus(hand)

(* Nothing of a recording survives into idle: the scene, the selection of a *)
(* command recording and the last partial cannot show up in the next one.   *)
IdleIsClean ==
  /\ status \in {"idle", "error"} => /\ currentScene = NoScene
                                     /\ selectedText = NoText
                                     /\ partialText = NoText
                                     /\ hand = EmptyHand
  /\ selectedText # NoText => currentScene = CommandScene

Follows(from, to) ==
  \/ from = "idle" /\ to = "recording"
  \/ from = "recording" /\ to \in {"idle", "inferring", "error"}
  \/ from = "inferring" /\ to \in {"idle", "postprocessing"}
  \/ from \in {"postprocessing", "error"} /\ to = "idle"

(* The status moves only along the arrows of the documented state machine,  *)
(* with the live-error detour through error.                                *)
StatusFollowsStateMachine == [][Follows(status, status')]_status
=============================================================================
