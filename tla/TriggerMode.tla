---------------------------- MODULE TriggerMode ----------------------------
(***************************************************************************)
(* The Tap/Hold/Both state machine of the trigger keys                     *)
(* (vinpst-fcitx-core/src/trigger_mode.rs), as functions from a state and  *)
(* an event to the next state and to the effect asked of the addon.        *)
(* Timestamps are reduced to what they are compared with: debouncing says  *)
(* the last press is less than 80 ms old, held that a press is at least    *)
(* 300 ms old.  The key the C++ controller remembers next to a press       *)
(* (pending_key_, active_key_) is the kind of that press.                  *)
(***************************************************************************)
EXTENDS Naturals

Modes == {"Tap", "Hold", "Both"}
Kinds == {"normal", "command"}

(* No press, and one of kind k.                                             *)
NoPress == [kind |-> "none", held |-> FALSE, released |-> FALSE]
NewPress(k) == [kind |-> k, held |-> FALSE, released |-> FALSE]

Presses == [kind : Kinds \cup {"none"}, held : BOOLEAN, released : BOOLEAN]

Triggers == [mode : Modes, debouncing : BOOLEAN, pending : Presses, active : Presses,
             stopPending : BOOLEAN]

NewTrigger(mode) ==
  [mode |-> mode, debouncing |-> FALSE, pending |-> NoPress, active |-> NoPress,
   stopPending |-> FALSE]

(* A mode change cancels only a start whose timer has not fired.            *)
SetMode(t, mode) ==
  [t EXCEPT !.mode = mode, !.pending = NoPress, !.debouncing = FALSE]

-----------------------------------------------------------------------------
(* on_press: what it asks for, and the state it leaves.                     *)

PressEffect(t, recording) ==
  CASE t.debouncing                                -> "Consume"
    [] ~t.debouncing /\ t.active # NoPress         ->
         IF t.active.released THEN "StopActive" ELSE "Consume"
    [] ~t.debouncing /\ t.active = NoPress /\ recording -> "StopActive"
    [] ~t.debouncing /\ t.active = NoPress /\ ~recording /\ t.pending # NoPress -> "Consume"
    [] OTHER -> IF t.mode = "Hold" THEN "ScheduleStart" ELSE "Start"

Press(t, k, recording) ==
  LET seen == [t EXCEPT !.debouncing = TRUE, !.stopPending = FALSE]
  IN  CASE t.debouncing -> t
        [] PressEffect(t, recording) = "ScheduleStart" -> [seen EXCEPT !.pending = NewPress(k)]
        [] PressEffect(t, recording) = "Start" -> [seen EXCEPT !.active = NewPress(k)]
        [] OTHER -> seen

(* on_release of the key of kind k.                                         *)
ReleaseEffect(t, k) ==
  IF t.mode = "Hold" /\ t.pending # NoPress THEN "CancelPendingStart"
  ELSE IF t.mode # "Tap" /\ t.active.kind = k /\ t.active.held THEN "ScheduleStop"
  ELSE "Consume"

Release(t, k) ==
  CASE ReleaseEffect(t, k) = "CancelPendingStart" -> [t EXCEPT !.pending = NoPress]
    [] ReleaseEffect(t, k) = "ScheduleStop" ->
         [t EXCEPT !.active.released = TRUE, !.stopPending = TRUE]
    [] OTHER ->
         IF t.active # NoPress /\ (t.mode # "Hold" \/ t.active.kind = k)
         THEN [t EXCEPT !.active.released = TRUE]
         ELSE t

(* The two timers of the addon.                                             *)
FireStart(t) == [t EXCEPT !.active = t.pending, !.pending = NoPress]

StopIsDue(t) == t.stopPending /\ t.active # NoPress /\ t.active.released
FireStop(t) == IF StopIsDue(t) THEN [t EXCEPT !.stopPending = FALSE] ELSE t

ConfirmStart(t, started) ==
  IF started THEN t ELSE [t EXCEPT !.pending = NoPress, !.active = NoPress]

RecordingStopped(t) ==
  [t EXCEPT !.pending = NoPress, !.active = NoPress, !.stopPending = FALSE]

-----------------------------------------------------------------------------
(* Time passes for the last press, and for the press still held.            *)
DebounceElapses(t) == [t EXCEPT !.debouncing = FALSE]
HoldElapses(t) ==
  [t EXCEPT !.pending = IF t.pending = NoPress THEN NoPress ELSE [t.pending EXCEPT !.held = TRUE],
            !.active  = IF t.active = NoPress THEN NoPress ELSE [t.active EXCEPT !.held = TRUE]]
=============================================================================
