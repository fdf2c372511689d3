------------------------------ MODULE Frontend ------------------------------
(***************************************************************************)
(* The Fcitx addon and the daemon it drives, as two processes that share   *)
(* only D-Bus.  The addon (fcitx_addon.cpp over the trigger state machine  *)
(* and the session controller of vinpst-fcitx-core) runs on the event loop *)
(* of Fcitx: a key, a timer, a reply or a signal is one step.  The daemon  *)
(* is what RecordingService does as a client sees it: calls wait for the   *)
(* recording lock in order, signals and replies reach the addon in the     *)
(* order they were sent (inbox), while GetStatus is a call of its own that *)
(* overtakes them.  A call times out after five seconds, wherever it is.   *)
(* Input contexts, menus and what is displayed are left out.               *)
(***************************************************************************)
EXTENDS TriggerMode, Sequences

CONSTANTS
  MaxCalls,  (* recording calls the addon sends                            *)
  MaxEvents  (* everything else that just happens: other clients, failures,*)
             (* timeouts, crashes, changes of the mode                     *)

ASSUME FrontendConstants == MaxCalls \in Nat /\ MaxEvents \in Nat

VARIABLES
  trigger,       (* TriggerModeState                                        *)
  startTimer,    (* pending_trigger_start_event_ is armed                   *)
  stopTimer,     (* pending_trigger_stop_event_ is armed                    *)
  recording,     (* FrontendState.recording                                 *)
  commandMode,   (* FrontendState.command_mode                              *)
  pendingStop,   (* FrontendController.pending_call is a Stop               *)
  awaiting,      (* awaiting_result_terminal_status_                        *)
  cooldown,      (* daemon_sync_blocked_until_ lies ahead                   *)
  remoteStatus,  (* remote_status_ic_ is valid                              *)
  seen,          (* last_input_ic_ is valid                                 *)
  keysDown,      (* the trigger keys held by the user                       *)
  status,        (* of the daemon, "down" when it does not run              *)
  own,           (* its recording was started by a call of the addon        *)
  calls,         (* waiting for or holding the recording lock, oldest first *)
  liveError,     (* the emitter task of a failed recording has yet to "recover" or
                    to announce "idle", or "none"                           *)
  inbox,         (* signals and replies on their way to the addon           *)
  sent, events,  (* how often the two bounds were used                      *)
  excused,       (* since the addon's last start an error was shown, or the live
                    failure of a recording announced; a start with a result of
                    an earlier recording still on its way does not end that *)
  timerStale     (* the stop timer was armed before the dictation followed now *)

addonVars  == <<trigger, startTimer, stopTimer, recording, commandMode, pendingStop,
                awaiting, cooldown, remoteStatus, seen, timerStale>>
daemonVars == <<status, own, liveError>>
busVars    == <<calls, inbox>>
boundVars  == <<sent, events>>
vars == <<addonVars, excused, keysDown, daemonVars, busVars, boundVars>>

Statuses == {"recording", "inferring", "postprocessing", "error", "idle"}
Busy == {"recording", "inferring", "postprocessing"}

(* A message to the addon, and a call of the slot that waits for its reply  *)
(* ("none" once nobody waits for it any more).                              *)
Signal(s) == [msg |-> "status", arg |-> s, slot |-> "none", mine |-> FALSE]
Result(mine) == [msg |-> "result", arg |-> "", slot |-> "none", mine |-> mine]
Notification == [msg |-> "notice", arg |-> "", slot |-> "none", mine |-> FALSE]
Availability(a) == [msg |-> "availability", arg |-> a, slot |-> "none", mine |-> FALSE]
Reply(slot, arg) == [msg |-> "reply", arg |-> arg, slot |-> slot, mine |-> FALSE]

Call(slot, method) == [slot |-> slot, method |-> method]

(* A slot that is overwritten drops the reply it waited for: nobody waits   *)
(* for the calls and replies of q that had it.                              *)
Disown(q, slot) == [i \in DOMAIN q |-> IF q[i].slot = slot THEN [q[i] EXCEPT !.slot = "none"] ELSE q[i]]

Init ==
  /\ \E m \in Modes : trigger = NewTrigger(m)
  /\ startTimer = FALSE /\ stopTimer = FALSE
  /\ recording = FALSE /\ commandMode = FALSE /\ pendingStop = FALSE
  /\ awaiting = FALSE /\ cooldown = FALSE /\ remoteStatus = FALSE /\ seen = FALSE
  /\ keysDown = {}
  /\ status = "idle" /\ own = FALSE /\ liveError = "none"
  /\ calls = <<>> /\ inbox = <<>>
  /\ sent = 0 /\ events = 0
  /\ excused = FALSE /\ timerStale = FALSE

-----------------------------------------------------------------------------
(* Pieces of the addon's handlers.                                          *)

Follow(command) ==
  /\ recording' = TRUE
  /\ commandMode' = command
  /\ timerStale' = (timerStale \/ (stopTimer /\ ~recording))

(* FrontendController::reset, and FrontendState::reset.                     *)
Forget ==
  /\ recording' = FALSE
  /\ commandMode' = FALSE
  /\ pendingStop' = FALSE
  /\ UNCHANGED timerStale

KeepSession == UNCHANGED <<recording, commandMode, pendingStop, timerStale>>

Send(slot, method) ==
  /\ calls' = Append(Disown(calls, slot), Call(slot, method))
  /\ inbox' = Disown(inbox, slot)
  /\ sent' = sent + 1

(* Mutant: a hold timer stays armed.                                        *)
ResetActiveRecording_KeepsStartTimer ==
  /\ UNCHANGED startTimer
  /\ stopTimer' = FALSE
  /\ awaiting' = FALSE
  /\ Forget
  /\ trigger' = RecordingStopped(trigger)

(* ResetActiveRecording.                                                    *)
ResetActiveRecording ==
  /\ startTimer' = FALSE
  /\ stopTimer' = FALSE
  /\ awaiting' = FALSE
  /\ Forget
  /\ trigger' = RecordingStopped(trigger)

(* The end of StopActiveRecording when the session is over, for the state   *)
(* t of the trigger.                                                        *)
ReleaseTrigger(t) ==
  /\ startTimer' = FALSE
  /\ stopTimer' = FALSE
  /\ trigger' = RecordingStopped(t)

(* StopRecording of the addon while recording, then StopActiveRecording's   *)
(* cleanup: refused in the cooldown, which ends the session with an error.  *)
StopActiveRecording(t, start, stop) ==
  \/ /\ recording /\ ~cooldown
     /\ sent < MaxCalls
     /\ Send("stop", "stop")
     /\ pendingStop' = TRUE
     /\ trigger' = t /\ startTimer' = start /\ stopTimer' = stop
     /\ UNCHANGED <<recording, commandMode, timerStale, cooldown, remoteStatus, excused>>
  \/ /\ recording /\ cooldown
     /\ Forget
     /\ cooldown' = TRUE /\ remoteStatus' = FALSE /\ excused' = TRUE
     /\ ReleaseTrigger(t)
     /\ UNCHANGED <<calls, sent, inbox>>
  \/ /\ ~recording
     /\ KeepSession
     /\ ReleaseTrigger(t)
     /\ UNCHANGED <<cooldown, remoteStatus, excused, calls, sent, inbox>>

(* Start of a recording of kind k by the trigger, with the query of         *)
(* GetStatus before it; started says what ConfirmStart is excused.  A session  *)
(* already followed is left alone (PlanTrigger).                            *)
KeepFollowing(t, k) ==
  /\ recording
  /\ KeepSession
  /\ trigger' = ConfirmStart(t, TRUE)
  /\ UNCHANGED <<cooldown, remoteStatus, excused, calls, sent, inbox>>

(* No answer from GetStatus (a daemon that is gone, or one that holds its   *)
(* runtime lock too long), or none asked for in the cooldown; the start     *)
(* itself is then refused.                                                  *)
StartRefused(t, k) ==
  /\ ~recording
  /\ \/ cooldown /\ UNCHANGED events
     \/ ~cooldown /\ status = "down" /\ UNCHANGED events
     \/ ~cooldown /\ status \in {"inferring", "postprocessing"}
        /\ events < MaxEvents /\ events' = events + 1
  /\ cooldown' = TRUE
  /\ Forget
  /\ remoteStatus' = FALSE
  /\ excused' = TRUE
  /\ trigger' = ConfirmStart(t, FALSE)
  /\ UNCHANGED <<calls, sent, inbox>>

(* The daemon is idle: the session begins before the daemon has answered.   *)
StartSent(t, k) ==
  /\ ~recording /\ ~cooldown /\ status = "idle"
  /\ sent < MaxCalls
  /\ Send("start", "start")
  /\ Follow(k = "command")
  /\ pendingStop' = FALSE
  /\ remoteStatus' = FALSE
  /\ excused' = (excused /\ \E i \in DOMAIN inbox : inbox[i].msg = "result")
  /\ trigger' = ConfirmStart(t, TRUE)
  /\ UNCHANGED cooldown

(* Command mode without a selection.                                        *)
NothingSelected(t, k) ==
  /\ ~recording /\ ~cooldown /\ k = "command" /\ status = "idle"
  /\ Forget
  /\ remoteStatus' = FALSE
  /\ excused' = TRUE
  /\ trigger' = ConfirmStart(t, FALSE)
  /\ UNCHANGED <<cooldown, calls, sent, inbox>>

(* A recording of another client: the normal trigger adopts and stops it.   *)
AdoptAndStop(t, k) ==
  /\ ~recording /\ ~cooldown /\ status = "recording" /\ k = "normal"
  /\ sent < MaxCalls
  /\ Follow(FALSE)
  /\ pendingStop' = TRUE
  /\ remoteStatus' = FALSE
  /\ Send("stop", "stop")
  /\ trigger' = ConfirmStart(t, TRUE)
  /\ UNCHANGED <<cooldown, excused>>

(* A daemon that is busy otherwise is only shown; a failed one is cleared.  *)
ShowRemote(t, k) ==
  /\ ~recording /\ ~cooldown
  /\ \/ status = "recording" /\ k = "command"
     \/ status \in {"inferring", "postprocessing", "error"}
  /\ remoteStatus' = (status # "error")
  /\ KeepSession
  /\ trigger' = ConfirmStart(t, FALSE)
  /\ UNCHANGED <<cooldown, excused, calls, sent, inbox>>

StartRecording(t, k) ==
  \/ StartRefused(t, k)
  \/ /\ \/ KeepFollowing(t, k) \/ StartSent(t, k) \/ NothingSelected(t, k)
        \/ AdoptAndStop(t, k) \/ ShowRemote(t, k)
     /\ UNCHANGED events

-----------------------------------------------------------------------------
(* Keys: HandleKeyEvent and HandleTriggerModeAction.  A held key repeats.   *)

KeyPress(k) ==
  LET effect == PressEffect(trigger, recording)
      t      == Press(trigger, k, recording)
  IN  /\ keysDown' = keysDown \cup {k}
      /\ seen' = TRUE
      /\ \/ /\ effect = "Consume"
            /\ trigger' = t
            /\ KeepSession
            /\ UNCHANGED <<startTimer, stopTimer, cooldown, remoteStatus, excused, calls, sent, inbox, events>>
         \/ /\ effect = "ScheduleStart"
            /\ trigger' = t
            /\ startTimer' = TRUE
            /\ stopTimer' = FALSE
            /\ KeepSession
            /\ UNCHANGED <<cooldown, remoteStatus, excused, calls, sent, inbox, events>>
         \/ /\ effect = "Start"
            /\ StartRecording(t, k)
            /\ stopTimer' = FALSE
            /\ UNCHANGED startTimer
         \/ /\ effect = "StopActive"
            /\ StopActiveRecording(t, startTimer, FALSE)
            /\ UNCHANGED events
      /\ UNCHANGED <<awaiting, daemonVars>>

KeyRelease(k) ==
  /\ k \in keysDown
  /\ keysDown' = keysDown \ {k}
  /\ seen' = TRUE
  /\ trigger' = Release(trigger, k)
  /\ LET effect == ReleaseEffect(trigger, k) IN
       /\ startTimer' = (startTimer /\ effect # "CancelPendingStart")
       /\ stopTimer' = (stopTimer \/ effect = "ScheduleStop")
       /\ timerStale' = (timerStale /\ effect # "ScheduleStop")
  /\ UNCHANGED <<recording, commandMode, pendingStop, awaiting, cooldown, remoteStatus, excused, daemonVars, busVars, boundVars>>

StartTimerFires ==
  /\ startTimer
  /\ startTimer' = FALSE
  /\ IF trigger.pending = NoPress
     THEN /\ KeepSession
          /\ UNCHANGED <<trigger, cooldown, remoteStatus, excused, calls, sent, inbox, events>>
     ELSE StartRecording(FireStart(trigger), trigger.pending.kind)
  /\ UNCHANGED <<stopTimer, awaiting, seen, keysDown, daemonVars>>

StopTimerFires ==
  /\ stopTimer
  /\ IF StopIsDue(trigger)
     THEN StopActiveRecording(FireStop(trigger), startTimer, FALSE)
     ELSE /\ stopTimer' = FALSE
          /\ KeepSession
          /\ UNCHANGED <<trigger, startTimer, cooldown, remoteStatus, excused, calls, sent, inbox>>
  /\ UNCHANGED <<awaiting, seen, keysDown, daemonVars, events>>

(* The clock, and the end of the cooldown.                                  *)
Elapse ==
  /\ \/ trigger' = DebounceElapses(trigger) /\ UNCHANGED cooldown
     \/ trigger' = HoldElapses(trigger) /\ UNCHANGED cooldown
     \/ cooldown' = FALSE /\ UNCHANGED trigger
  /\ UNCHANGED <<startTimer, stopTimer, recording, commandMode, pendingStop, awaiting,
                 remoteStatus, seen, excused, timerStale, keysDown, daemonVars, busVars, boundVars>>

(* ApplyFrontendSettings, on a new configuration.                           *)
ChangeMode(m) ==
  /\ events < MaxEvents
  /\ events' = events + 1
  /\ m # trigger.mode
  /\ startTimer' = FALSE
  /\ IF recording
     THEN trigger' = SetMode(trigger, m) /\ UNCHANGED stopTimer
     ELSE trigger' = RecordingStopped(SetMode(trigger, m)) /\ stopTimer' = FALSE
  /\ KeepSession
  /\ UNCHANGED <<awaiting, cooldown, remoteStatus, seen, excused, keysDown, daemonVars, busVars, sent>>

-----------------------------------------------------------------------------
(* Signals: the handlers of FcitxDaemonSignalMonitor's callbacks.           *)

Receive(m) == inbox # <<>> /\ Head(inbox) = m /\ inbox' = Tail(inbox)

IgnoreStatus ==
  /\ KeepSession
  /\ UNCHANGED <<trigger, startTimer, stopTimer, remoteStatus>>

(* plan_daemon_control of a status, and what ExecuteDaemonControl does.     *)
FollowStatus(s) ==
  \/ /\ recording /\ s \in {"idle", "error"}
     /\ ResetActiveRecording
     /\ UNCHANGED remoteStatus
  \/ /\ recording /\ s \notin {"idle", "error"}
     /\ awaiting' = FALSE
     /\ IgnoreStatus
  \/ /\ ~recording /\ remoteStatus
     /\ remoteStatus' = (s \notin {"idle", "error"})
     /\ awaiting' = FALSE
     /\ KeepSession
     /\ UNCHANGED <<trigger, startTimer, stopTimer>>
  \/ /\ ~recording /\ ~remoteStatus /\ s \in Busy /\ seen
     /\ Follow(FALSE)
     /\ pendingStop' = FALSE
     /\ awaiting' = FALSE
     /\ UNCHANGED <<trigger, startTimer, stopTimer, remoteStatus>>
  \/ /\ ~recording /\ ~remoteStatus /\ ~(s \in Busy /\ seen)
     /\ awaiting' = FALSE
     /\ IgnoreStatus

(* The idle or error after a result the addon has taken is swallowed.       *)
HandleDaemonStatus(s) ==
  /\ Receive(Signal(s))
  /\ IF awaiting /\ s \in {"idle", "error"}
     THEN awaiting' = FALSE /\ IgnoreStatus
     ELSE FollowStatus(s)
  /\ UNCHANGED <<cooldown, seen, excused, keysDown, daemonVars, calls, boundVars>>

HandleRecognitionResult(mine) ==
  /\ Receive(Result(mine))
  /\ IF recording
     THEN /\ awaiting' = TRUE
          /\ Forget
          /\ startTimer' = FALSE
          /\ stopTimer' = FALSE
          /\ trigger' = RecordingStopped(trigger)
          /\ remoteStatus' = FALSE
     ELSE IgnoreStatus /\ UNCHANGED awaiting
  /\ UNCHANGED <<cooldown, seen, excused, keysDown, daemonVars, calls, boundVars>>

(* An Error notification, whatever it is about, ends the session.           *)
HandleDaemonNotification ==
  /\ Receive(Notification)
  /\ ResetActiveRecording
  /\ remoteStatus' = FALSE
  /\ excused' = TRUE
  /\ UNCHANGED <<cooldown, seen, keysDown, daemonVars, calls, boundVars>>

HandleDaemonAvailability(a) ==
  /\ Receive(Availability(a))
  /\ IF a = "gone" /\ (recording \/ remoteStatus)
     THEN /\ ResetActiveRecording
          /\ remoteStatus' = FALSE
          /\ excused' = TRUE
     ELSE awaiting' = FALSE /\ IgnoreStatus /\ UNCHANGED excused
  /\ cooldown' = (cooldown /\ a = "gone")
  /\ UNCHANGED <<seen, keysDown, daemonVars, calls, boundVars>>

(* The callback of DispatchPreparedDaemonCall.  A failed start resets the   *)
(* session, a failed stop completes a Stop still pending; neither tells the *)
(* trigger.                                                                 *)
CallFails(slot) ==
  /\ cooldown' = TRUE
  /\ IF slot = "start" \/ pendingStop
     THEN Forget /\ remoteStatus' = FALSE /\ excused' = TRUE
     ELSE KeepSession /\ UNCHANGED <<remoteStatus, excused>>
  /\ UNCHANGED <<trigger, startTimer, stopTimer, awaiting, seen, keysDown, daemonVars>>

(* Mutant: a reply that arrives completes the session as a failed one does. *)
HandleReply_AlwaysCompletes(slot, arg) ==
  /\ Receive(Reply(slot, arg))
  /\ UNCHANGED <<calls, boundVars>>
  /\ cooldown' = (arg = "error")
  /\ Forget
  /\ UNCHANGED <<trigger, startTimer, stopTimer, awaiting, remoteStatus, seen, excused,
                 keysDown, daemonVars>>

HandleReply(slot, arg) ==
  /\ Receive(Reply(slot, arg))
  /\ UNCHANGED <<calls, boundVars>>
  /\ IF arg = "error"
     THEN CallFails(slot)
     ELSE /\ cooldown' = FALSE
          /\ KeepSession
          /\ UNCHANGED <<trigger, startTimer, stopTimer, awaiting, remoteStatus, seen, excused,
                         keysDown, daemonVars>>

(* A reply that nobody waits for any more.                                  *)
DropReply(arg) ==
  /\ Receive(Reply("none", arg))
  /\ UNCHANGED <<addonVars, excused, keysDown, daemonVars, calls, boundVars>>

(* kDbusCallTimeoutUsec: the addon stops waiting, the daemon does not know. *)
CallTimesOut(slot) ==
  /\ events < MaxEvents
  /\ \E i \in DOMAIN calls : calls[i].slot = slot
  /\ calls' = Disown(calls, slot)
  /\ events' = events + 1
  /\ CallFails(slot)
  /\ UNCHANGED <<inbox, sent>>

-----------------------------------------------------------------------------
(* The daemon, as RecordingService announces its steps.                     *)

Announce(messages) == inbox' = inbox \o messages
AndReply(arg) ==
  IF Head(calls).slot = "none" THEN <<>> ELSE <<Reply(Head(calls).slot, arg)>>
NextCall == calls' = Tail(calls)

DaemonStep == UNCHANGED <<addonVars, excused, keysDown, sent>>
LiveStep == UNCHANGED <<addonVars, keysDown, sent>> /\ excused' = TRUE

(* Another client.                                                          *)
OtherCall(method) ==
  /\ events < MaxEvents /\ events' = events + 1
  /\ status # "down"
  /\ calls' = Append(calls, Call("none", method))
  /\ UNCHANGED <<addonVars, excused, keysDown, daemonVars, inbox, sent>>

ServeStart ==
  /\ calls # <<>> /\ Head(calls).method \in {"start", "otherStart"}
  /\ NextCall
  /\ \/ /\ status = "idle"
        /\ status' = "recording"
        /\ own' = (Head(calls).method = "start")
        /\ Announce(<<Signal("recording")>> \o AndReply("ok"))
        /\ UNCHANGED events
     \/ /\ status # "idle" \/ events < MaxEvents
        /\ events' = IF status = "idle" THEN events + 1 ELSE events
        /\ Announce(<<Notification>> \o AndReply("error"))
        /\ UNCHANGED <<status, own>>
  /\ UNCHANGED liveError
  /\ DaemonStep

(* Mutant: a recording too short ends without a word.                       *)
ServeStop_Silent ==
  /\ calls # <<>> /\ Head(calls).method = "stop"
  /\ \/ /\ status \notin Busy
        /\ NextCall
        /\ Announce(AndReply("error"))
        /\ UNCHANGED status
     \/ /\ status = "recording"
        /\ NextCall
        /\ status' = "idle"
        /\ Announce(AndReply("ok"))
     \/ /\ status = "recording"
        /\ status' = "inferring"
        /\ Announce(<<Signal("inferring")>>)
        /\ UNCHANGED calls
  /\ UNCHANGED <<own, liveError, events>>
  /\ DaemonStep

(* A recording too short is over at once.                                   *)
ServeStop ==
  /\ calls # <<>> /\ Head(calls).method = "stop"
  /\ \/ /\ status \notin Busy
        /\ NextCall
        /\ Announce(AndReply("error"))
        /\ UNCHANGED status
     \/ /\ status = "recording"
        /\ NextCall
        /\ status' = "idle"
        /\ Announce(<<Signal("idle")>> \o AndReply("ok"))
     \/ /\ status = "recording"
        /\ status' = "inferring"
        /\ Announce(<<Signal("inferring")>>)
        /\ UNCHANGED calls
  /\ UNCHANGED <<own, liveError, events>>
  /\ DaemonStep

(* Mutant: idle is announced before the result.                             *)
Finish_IdleFirst(messages, arg) ==
  /\ status' = "idle"
  /\ NextCall
  /\ Announce(<<Signal("idle")>> \o messages \o AndReply(arg))

(* The stop ends: with a result, which a warning of the text processor      *)
(* precedes if it failed, or without one.                                   *)
Finish(messages, arg) ==
  /\ status' = "idle"
  /\ NextCall
  /\ Announce(messages \o <<Signal("idle")>> \o AndReply(arg))

Infer ==
  /\ status = "inferring"
  /\ \/ Finish(<<Result(own)>>, "ok") /\ UNCHANGED events
     \/ /\ events < MaxEvents /\ events' = events + 1
        /\ Finish(<<Notification>>, "error")
     \/ /\ status' = "postprocessing"
        /\ Announce(<<Signal("postprocessing")>>)
        /\ UNCHANGED <<calls, events>>
  /\ UNCHANGED <<own, liveError>>
  /\ DaemonStep

Postprocess ==
  /\ status = "postprocessing"
  /\ \/ Finish(<<Result(own)>>, "ok") /\ UNCHANGED events
     \/ /\ events < MaxEvents /\ events' = events + 1
        /\ \/ Finish(<<Notification, Result(own)>>, "ok")
           \/ Finish(<<>>, "error")
  /\ UNCHANGED <<own, liveError>>
  /\ DaemonStep

(* A live session fails; its emitter task announces that, then lets the     *)
(* runtime recover, then announces idle without the recording lock.         *)
LiveFails ==
  /\ events < MaxEvents /\ events' = events + 1
  /\ status = "recording" /\ liveError = "none"
  /\ status' = "error"
  /\ liveError' = "recover"
  /\ Announce(<<Signal("error"), Notification>>)
  /\ UNCHANGED <<own, calls>>
  /\ LiveStep

LiveRecovers ==
  /\ \/ /\ liveError = "recover"
        /\ status' = IF status = "error" THEN "idle" ELSE status
        /\ liveError' = "idle"
        /\ UNCHANGED inbox
     \/ /\ liveError = "idle"
        /\ liveError' = "none"
        /\ Announce(<<Signal("idle")>>)
        /\ UNCHANGED status
  /\ UNCHANGED <<own, calls, events>>
  /\ LiveStep

(* An error of the recording or of a reload is notified at any time.        *)
Notify ==
  /\ events < MaxEvents /\ events' = events + 1
  /\ status # "down"
  /\ Announce(<<Notification>>)
  /\ UNCHANGED <<daemonVars, calls>>
  /\ DaemonStep

(* The daemon dies and returns; the bus answers what was waiting.           *)
Dies ==
  /\ events < MaxEvents /\ events' = events + 1
  /\ status # "down"
  /\ status' = "down"
  /\ liveError' = "none"
  /\ own' = FALSE
  /\ calls' = <<>>
  /\ Announce(<<Availability("gone")>>
                \o [i \in DOMAIN calls |-> Reply(calls[i].slot, "error")])
  /\ DaemonStep

Returns ==
  /\ status = "down"
  /\ status' = "idle"
  /\ Announce(<<Availability("back")>>)
  /\ UNCHANGED <<own, liveError, calls, events>>
  /\ DaemonStep

-----------------------------------------------------------------------------
Deliver ==
  \/ \E s \in Statuses : HandleDaemonStatus(s)
  \/ \E mine \in BOOLEAN : HandleRecognitionResult(mine)
  \/ HandleDaemonNotification
  \/ \E a \in {"gone", "back"} : HandleDaemonAvailability(a)
  \/ \E slot \in {"start", "stop"}, arg \in {"ok", "error"} : HandleReply(slot, arg)
  \/ \E arg \in {"ok", "error"} : DropReply(arg)

Serve == ServeStart \/ ServeStop \/ Infer \/ Postprocess

Next ==
  \/ \E k \in Kinds : KeyPress(k) \/ KeyRelease(k)
  \/ StartTimerFires \/ StopTimerFires \/ Elapse
  \/ \E m \in Modes : ChangeMode(m)
  \/ Deliver
  \/ \E slot \in {"start", "stop"} : CallTimesOut(slot)
  \/ \E method \in {"otherStart", "stop"} : OtherCall(method)
  \/ Serve \/ LiveFails \/ LiveRecovers \/ Notify \/ Dies \/ Returns

Fairness ==
  /\ WF_vars(Deliver)
  /\ WF_vars(Serve)
  /\ WF_vars(LiveRecovers)
  /\ WF_vars(StartTimerFires)
  /\ WF_vars(StopTimerFires)

Spec == Init /\ [][Next]_vars /\ Fairness

-----------------------------------------------------------------------------
FrontendTypeOK ==
  /\ trigger \in Triggers
  /\ {startTimer, stopTimer, recording, commandMode, pendingStop, awaiting, cooldown,
      remoteStatus, seen, own, excused, timerStale} \subseteq BOOLEAN
  /\ keysDown \subseteq Kinds
  /\ status \in Statuses \cup {"down"}
  /\ liveError \in {"none", "recover", "idle"}
  /\ \A i \in DOMAIN calls : calls[i].slot \in {"none", "start", "stop"}
                              /\ calls[i].method \in {"start", "otherStart", "stop"}
  /\ sent \in 0..MaxCalls /\ events \in 0..MaxEvents

Settled == inbox = <<>> /\ calls = <<>> /\ liveError = "none"

(* Once everything said has been heard, the addon follows no dictation of a *)
(* daemon that has none: whatever was reset, adopted, refused or timed out, *)
(* the signals bring ResetActiveRecording about.                            *)
NoPhantomDictation == Settled /\ status \in {"idle", "down"} => ~recording

(* Once everything said has been heard, the recording the addon asked for   *)
(* is followed or at least shown by it, unless an error was shown or a live *)
(* failure announced since: a trigger never leaves the microphone open      *)
(* behind a user who sees nothing.                                          *)
OwnRecordingIsFollowed ==
  Settled /\ status = "recording" /\ own => recording \/ remoteStatus \/ excused

(* What the addon shows and what the daemon does agree again once both have *)
(* said everything.                                                         *)
DictationIsSeen == NoPhantomDictation /\ OwnRecordingIsFollowed

(* The hold timer of the addon is armed exactly while the state machine     *)
(* behind the FFI has a press waiting for it.                               *)
HoldTimerMatchesPress == startTimer <=> trigger.pending # NoPress
TimersMatchTrigger == FrontendTypeOK /\ HoldTimerMatchesPress

(* A stop timer armed in one dictation stops a later one only after an      *)
(* error was shown in between.                                              *)
StaleStopTimerIsHarmless ==
  [][timerStale /\ StopTimerFires => calls' = calls \/ excused]_vars

(* The result of the addon's own recording is dropped by                    *)
(* HandleRecognitionResult only if an error was shown, a live failure was   *)
(* announced, or the recording is displayed as another client's.            *)
NoSilentLoss ==
  [][HandleRecognitionResult(TRUE) => recording \/ remoteStatus \/ excused]_vars

(* What the user cannot see going wrong does not go wrong.                  *)
OnlyExcusedLosses == StaleStopTimerIsHarmless /\ NoSilentLoss

(* A stop the addon asked for ends the dictation it follows: by the result, *)
(* a terminal status, an error or the loss of the daemon.                   *)
StopEndsDictation == pendingStop ~> ~recording
=============================================================================
