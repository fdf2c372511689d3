--------------------------- MODULE FrontendProofs ---------------------------
(* Proofs about Frontend, for any number of calls and of disturbances.      *)
EXTENDS Frontend, SequenceTheorems, TLAPS

Slots == {"none", "start", "stop"}
Calls == [slot : Slots, method : {"start", "otherStart", "stop"}]
Messages == [msg : {"status", "result", "notice", "availability", "reply"},
             arg : Statuses \cup {"", "gone", "back", "ok", "error"},
             slot : Slots, mine : BOOLEAN]

(* What a message does to a dictation the addon follows: some messages end  *)
(* it in silence, some end it with an error, and some make one known.       *)
Ends(m)   == m.msg = "result" \/ (m.msg = "status" /\ m.arg \in {"idle", "error"})
Resets(m) == Ends(m) \/ m.msg = "notice" \/ (m.msg = "availability" /\ m.arg = "gone")
Begins(m) == m.msg = "status" /\ m.arg \in Busy

Types ==
  /\ trigger \in Triggers
  /\ startTimer \in BOOLEAN /\ stopTimer \in BOOLEAN /\ recording \in BOOLEAN
  /\ commandMode \in BOOLEAN /\ pendingStop \in BOOLEAN /\ awaiting \in BOOLEAN
  /\ cooldown \in BOOLEAN /\ remoteStatus \in BOOLEAN /\ seen \in BOOLEAN
  /\ own \in BOOLEAN /\ excused \in BOOLEAN /\ timerStale \in BOOLEAN
  /\ keysDown \subseteq Kinds
  /\ status \in Statuses \cup {"down"}
  /\ liveError \in {"none", "recover", "idle"}
  /\ calls \in Seq(Calls) /\ inbox \in Seq(Messages)
  /\ sent \in 0 .. MaxCalls /\ events \in 0 .. MaxEvents

(* The stop under way is the call at the head, and a call keeps its slot.   *)
CallsFit ==
  /\ status \in {"inferring", "postprocessing"} => calls # <<>> /\ calls[1].method = "stop"
  /\ \A i \in DOMAIN calls : calls[i].slot # "none" => calls[i].method = calls[i].slot

(* The idle of a result is right behind it, and is what the addon awaits.   *)
IdleFollows ==
  /\ awaiting => inbox # <<>> /\ inbox[1] = Signal("idle")
  /\ \A i \in DOMAIN inbox :
       inbox[i].msg = "result" => i + 1 \in DOMAIN inbox /\ inbox[i + 1] = Signal("idle")

(* A busy status on its way is still true, or followed by its end.          *)
BeginningsEnd ==
  \A i \in DOMAIN inbox :
    Begins(inbox[i]) => status \in Busy \/ \E j \in DOMAIN inbox : i < j /\ Resets(inbox[j])

StartWaits == \E i \in DOMAIN calls : calls[i].slot = "start"

(* A dictation that is followed is under way, about to be started, or about *)
(* to be ended by a message that is not swallowed.                          *)
FollowedEnd ==
  recording =>
    \/ status \in Busy
    \/ StartWaits
    \/ \E j \in DOMAIN inbox : Resets(inbox[j]) /\ (awaiting => j > 1)

(* What the addon has asked for, it has asked for from an input context.    *)
StartsAreSeen ==
  /\ startTimer \/ own => seen
  /\ \A i \in DOMAIN calls : calls[i].method = "start" => seen

(* When the first n - 1 messages are delivered, the addon shows a dictation.*)
Shown(n) ==
  \E k \in 0 .. n - 1 :
    /\ IF k = 0 THEN recording \/ remoteStatus ELSE Begins(inbox[k])
    /\ \A j \in k + 1 .. n - 1 : ~Ends(inbox[j])

(* Unless excused, the addon shows its own recording when all that was said *)
(* of it is heard, and showed it when its result arrives.                   *)
OwnIsShown ==
  ~excused =>
    /\ status # "error"
    /\ status \in Busy /\ own => Shown(Len(inbox) + 1)
    /\ \A i \in DOMAIN inbox :
         inbox[i].msg = "result" /\ inbox[i].mine => seen /\ Shown(i)

(* A press that waits was made in Hold mode and is not released, and a stop *)
(* that waits is that of a released press.                                  *)
PressFits(t) ==
  /\ t.pending # NoPress => t.mode = "Hold" /\ ~t.stopPending /\ ~t.pending.released
  /\ t.active # NoPress /\ t.stopPending => t.active.released
PressesFit == PressFits(trigger)

(* A press outlives its dictation, and a stop timer another, only if an     *)
(* error was shown.                                                         *)
StopsFit ==
  /\ trigger.active # NoPress /\ ~recording => excused
  /\ timerStale /\ StopIsDue(trigger) => excused

(* The inductive invariant.                                                 *)
FrontendInv ==
  /\ Types /\ CallsFit
  /\ IdleFollows /\ BeginningsEnd /\ FollowedEnd
  /\ StartsAreSeen /\ OwnIsShown
  /\ HoldTimerMatchesPress /\ PressesFit /\ StopsFit

-----------------------------------------------------------------------------
(* Types.                                                                   *)

LEMMA PressTypes ==
  /\ NoPress \in Presses
  /\ \A k \in Kinds : NewPress(k) \in Presses /\ NewPress(k) # NoPress
BY DEF NoPress, NewPress, Presses, Kinds

(* The functions of the trigger return triggers.                            *)
LEMMA TriggerTypes ==
  ASSUME NEW t \in Triggers
  PROVE  /\ \A m \in Modes : SetMode(t, m) \in Triggers
         /\ \A k \in Kinds, r \in BOOLEAN : Press(t, k, r) \in Triggers
         /\ \A k \in Kinds : Release(t, k) \in Triggers
         /\ FireStart(t) \in Triggers /\ FireStop(t) \in Triggers
         /\ \A s \in BOOLEAN : ConfirmStart(t, s) \in Triggers
         /\ RecordingStopped(t) \in Triggers
         /\ DebounceElapses(t) \in Triggers /\ HoldElapses(t) \in Triggers
<1> USE PressTypes
<1>1. \A m \in Modes : SetMode(t, m) \in Triggers
  BY DEF SetMode, Triggers
<1>2. \A k \in Kinds, r \in BOOLEAN : Press(t, k, r) \in Triggers
  <2> SUFFICES ASSUME NEW k \in Kinds, NEW r \in BOOLEAN PROVE Press(t, k, r) \in Triggers
    OBVIOUS
  <2> DEFINE pressed == [t EXCEPT !.debouncing = TRUE, !.stopPending = FALSE]
  <2>1. pressed \in Triggers
    BY DEF Triggers
  <2>2. [pressed EXCEPT !.pending = NewPress(k)] \in Triggers
    BY <2>1 DEF Triggers
  <2>3. [pressed EXCEPT !.active = NewPress(k)] \in Triggers
    BY <2>1 DEF Triggers
  <2> HIDE DEF pressed
  <2>4. Press(t, k, r) \in {t, pressed, [pressed EXCEPT !.pending = NewPress(k)],
                            [pressed EXCEPT !.active = NewPress(k)]}
    BY DEF Press, pressed
  <2> QED
    BY <2>1, <2>2, <2>3, <2>4
<1>3. \A k \in Kinds : Release(t, k) \in Triggers
  <2> SUFFICES ASSUME NEW k \in Kinds PROVE Release(t, k) \in Triggers
    OBVIOUS
  <2>1. [t EXCEPT !.pending = NoPress] \in Triggers
    BY DEF Triggers
  <2>2. /\ [t EXCEPT !.active.released = TRUE, !.stopPending = TRUE] \in Triggers
        /\ [t EXCEPT !.active.released = TRUE] \in Triggers
    BY DEF Triggers, Presses
  <2>3. Release(t, k) \in {t, [t EXCEPT !.pending = NoPress], [t EXCEPT !.active.released = TRUE],
                           [t EXCEPT !.active.released = TRUE, !.stopPending = TRUE]}
    BY DEF Release
  <2> QED
    BY <2>1, <2>2, <2>3
<1>4. FireStart(t) \in Triggers /\ FireStop(t) \in Triggers
  BY DEF FireStart, FireStop, Triggers
<1>5. /\ \A s \in BOOLEAN : ConfirmStart(t, s) \in Triggers
      /\ RecordingStopped(t) \in Triggers /\ DebounceElapses(t) \in Triggers
  BY DEF ConfirmStart, RecordingStopped, DebounceElapses, Triggers
<1>6. HoldElapses(t) \in Triggers
  <2>1. /\ t.pending \in Presses => [t.pending EXCEPT !.held = TRUE] \in Presses
        /\ t.active \in Presses => [t.active EXCEPT !.held = TRUE] \in Presses
    BY DEF Presses
  <2> QED
    BY <2>1 DEF HoldElapses, Triggers
<1> QED
  BY <1>1, <1>2, <1>3, <1>4, <1>5, <1>6


(* A queue whose entries lose a slot keeps its entries but for that.        *)
LEMMA DisownGives ==
  ASSUME NEW slot \in Slots
  PROVE  /\ \A q \in Seq(Calls) :
              /\ Disown(q, slot) \in Seq(Calls)
              /\ Len(Disown(q, slot)) = Len(q)
              /\ \A i \in 1 .. Len(q) : /\ Disown(q, slot)[i].method = q[i].method
                                        /\ Disown(q, slot)[i].slot = IF q[i].slot = slot THEN "none" ELSE q[i].slot
         /\ \A q \in Seq(Messages) :
              /\ Disown(q, slot) \in Seq(Messages)
              /\ Len(Disown(q, slot)) = Len(q)
              /\ \A i \in 1 .. Len(q) : /\ Disown(q, slot)[i].msg = q[i].msg
                                        /\ Disown(q, slot)[i].arg = q[i].arg
                                        /\ Disown(q, slot)[i].mine = q[i].mine
                                        /\ Disown(q, slot)[i].slot = IF q[i].slot = slot THEN "none" ELSE q[i].slot
<1>1. ASSUME NEW q \in Seq(Calls)
      PROVE  /\ Disown(q, slot) \in Seq(Calls)
             /\ Len(Disown(q, slot)) = Len(q)
             /\ \A i \in 1 .. Len(q) : /\ Disown(q, slot)[i].method = q[i].method
                                       /\ Disown(q, slot)[i].slot = IF q[i].slot = slot THEN "none" ELSE q[i].slot
  <2>1. \A i \in 1 .. Len(q) : q[i] \in Calls
    OBVIOUS
  <2>2. \A c \in Calls : [c EXCEPT !.slot = "none"] \in Calls
    BY DEF Calls, Slots
  <2>3. /\ Disown(q, slot) = [i \in 1 .. Len(q) |-> IF q[i].slot = slot THEN [q[i] EXCEPT !.slot = "none"] ELSE q[i]]
        /\ Len(q) \in Nat
    BY DEF Disown
  <2>4. Disown(q, slot) \in [1 .. Len(q) -> Calls]
    BY <2>1, <2>2, <2>3
  <2>5. Disown(q, slot) \in Seq(Calls) /\ Len(Disown(q, slot)) = Len(q)
    BY <2>3, <2>4
  <2> QED
    BY <2>1, <2>3, <2>5 DEF Calls
<1>2. ASSUME NEW q \in Seq(Messages)
      PROVE  /\ Disown(q, slot) \in Seq(Messages)
             /\ Len(Disown(q, slot)) = Len(q)
             /\ \A i \in 1 .. Len(q) : /\ Disown(q, slot)[i].msg = q[i].msg
                                       /\ Disown(q, slot)[i].arg = q[i].arg
                                       /\ Disown(q, slot)[i].mine = q[i].mine
                                       /\ Disown(q, slot)[i].slot = IF q[i].slot = slot THEN "none" ELSE q[i].slot
  <2>1. \A i \in 1 .. Len(q) : q[i] \in Messages
    OBVIOUS
  <2>2. \A m \in Messages : [m EXCEPT !.slot = "none"] \in Messages
    BY DEF Messages, Slots
  <2>3. /\ Disown(q, slot) = [i \in 1 .. Len(q) |-> IF q[i].slot = slot THEN [q[i] EXCEPT !.slot = "none"] ELSE q[i]]
        /\ Len(q) \in Nat
    BY DEF Disown
  <2>6. \A m \in Messages : /\ [m EXCEPT !.slot = "none"].msg = m.msg
                            /\ [m EXCEPT !.slot = "none"].arg = m.arg
                            /\ [m EXCEPT !.slot = "none"].mine = m.mine
                            /\ [m EXCEPT !.slot = "none"].slot = "none"
    BY Zenon DEF Messages
  <2>4. Disown(q, slot) \in [1 .. Len(q) -> Messages]
    BY <2>1, <2>2, <2>3
  <2>5. Disown(q, slot) \in Seq(Messages) /\ Len(Disown(q, slot)) = Len(q)
    BY <2>3, <2>4
  <2> QED
    BY <2>1, <2>3, <2>5, <2>6
<1> QED
  BY <1>1, <1>2

(* The messages are messages.                                               *)
LEMMA MessageTypes ==
  /\ \A s \in Statuses : Signal(s) \in Messages
  /\ \A mine \in BOOLEAN : Result(mine) \in Messages
  /\ Notification \in Messages
  /\ \A a \in {"gone", "back"} : Availability(a) \in Messages
  /\ \A slot \in Slots, arg \in {"ok", "error"} : Reply(slot, arg) \in Messages
  /\ \A slot \in Slots, method \in {"start", "otherStart", "stop"} : Call(slot, method) \in Calls
BY DEF Messages, Calls, Slots, Statuses, Signal, Result, Notification, Availability, Reply, Call

(* What a call that is sent leaves.                                         *)
LEMMA SendTypes ==
  ASSUME Types, sent < MaxCalls,
         NEW slot \in {"start", "stop"}, NEW method \in {"start", "stop"}, Send(slot, method)
  PROVE  calls' \in Seq(Calls) /\ inbox' \in Seq(Messages) /\ sent' \in 0 .. MaxCalls
<1>1. slot \in Slots
  BY DEF Slots
<1>2. Disown(calls, slot) \in Seq(Calls) /\ inbox' \in Seq(Messages)
  BY <1>1, DisownGives DEF Send, Types
<1>3. Call(slot, method) \in Calls
  BY <1>1, MessageTypes
<1>4. calls' \in Seq(Calls)
  BY <1>2, <1>3 DEF Send
<1> QED
  BY <1>2, <1>4, FrontendConstants DEF Send, Types

(* What the handlers of keys and timers may change, with its types.         *)
InputTypes ==
  /\ trigger \in Triggers
  /\ recording \in BOOLEAN /\ commandMode \in BOOLEAN /\ pendingStop \in BOOLEAN
  /\ timerStale \in BOOLEAN /\ cooldown \in BOOLEAN /\ remoteStatus \in BOOLEAN
  /\ excused \in BOOLEAN
  /\ calls \in Seq(Calls) /\ inbox \in Seq(Messages)
  /\ sent \in 0 .. MaxCalls

(* What the queues and the daemon keep, and what the addon does, with types. *)
WorldTypes ==
  /\ keysDown \subseteq Kinds /\ seen \in BOOLEAN /\ awaiting \in BOOLEAN
  /\ status \in Statuses \cup {"down"} /\ own \in BOOLEAN
  /\ liveError \in {"none", "recover", "idle"}
  /\ events \in 0 .. MaxEvents

TimerTypes == startTimer \in BOOLEAN /\ stopTimer \in BOOLEAN

LEMMA TypesSplit == Types <=> InputTypes /\ WorldTypes /\ TimerTypes
BY DEF Types, InputTypes, WorldTypes, TimerTypes

LEMMA UnchangedInput ==
  ASSUME InputTypes,
         UNCHANGED <<trigger, recording, commandMode, pendingStop, timerStale, cooldown,
                     remoteStatus, excused, calls, inbox, sent>>
  PROVE  InputTypes'
BY DEF InputTypes

LEMMA UnchangedWorld ==
  ASSUME WorldTypes, UNCHANGED <<keysDown, seen, awaiting, status, own, liveError, events>>
  PROVE  WorldTypes'
BY DEF WorldTypes

LEMMA StopActiveTypes ==
  ASSUME Types, NEW t \in Triggers, NEW start \in BOOLEAN, NEW stop \in BOOLEAN,
         StopActiveRecording(t, start, stop)
  PROVE  InputTypes' /\ startTimer' \in BOOLEAN /\ stopTimer' \in BOOLEAN
<1>1. RecordingStopped(t) \in Triggers
  BY TriggerTypes
<1>2. CASE recording /\ ~cooldown
  <2>1. Send("stop", "stop") /\ sent < MaxCalls
    BY <1>2 DEF StopActiveRecording
  <2>2. calls' \in Seq(Calls) /\ inbox' \in Seq(Messages) /\ sent' \in 0 .. MaxCalls
    BY <2>1, SendTypes
  <2>3. /\ pendingStop' = TRUE /\ trigger' = t /\ startTimer' = start /\ stopTimer' = stop
        /\ UNCHANGED <<recording, commandMode, timerStale, cooldown, remoteStatus, excused>>
    BY <1>2 DEF StopActiveRecording
  <2> QED
    BY <2>2, <2>3 DEF InputTypes, Types
<1>3. CASE recording /\ cooldown
  BY <1>1, <1>3 DEF StopActiveRecording, Forget, ReleaseTrigger, InputTypes, Types
<1>4. CASE ~recording
  BY <1>1, <1>4 DEF StopActiveRecording, KeepSession, ReleaseTrigger, InputTypes, Types
<1> QED
  BY <1>2, <1>3, <1>4 DEF Types

LEMMA StartRecordingTypes ==
  ASSUME Types, NEW t \in Triggers, NEW k, StartRecording(t, k)
  PROVE  InputTypes' /\ events' \in 0 .. MaxEvents
<1>0. events' \in 0 .. MaxEvents
  <2>1. CASE StartRefused(t, k)
    BY <2>1, FrontendConstants DEF StartRefused, Types
  <2>2. CASE UNCHANGED events
    BY <2>2 DEF Types
  <2> QED
    BY <2>1, <2>2 DEF StartRecording
<1>1. ConfirmStart(t, TRUE) \in Triggers /\ ConfirmStart(t, FALSE) \in Triggers
  BY TriggerTypes
<1>2. CASE KeepFollowing(t, k)
  BY <1>0, <1>1, <1>2 DEF KeepFollowing, KeepSession, InputTypes, Types
<1>3. CASE StartRefused(t, k)
  BY <1>0, <1>1, <1>3 DEF StartRefused, Forget, InputTypes, Types
<1>4. CASE StartSent(t, k)
  <2>1. calls' \in Seq(Calls) /\ inbox' \in Seq(Messages) /\ sent' \in 0 .. MaxCalls
    BY <1>4, SendTypes DEF StartSent
  <2>2. /\ trigger' \in Triggers /\ recording' = TRUE /\ commandMode' \in BOOLEAN
        /\ timerStale' \in BOOLEAN /\ pendingStop' = FALSE /\ remoteStatus' = FALSE
        /\ excused' \in BOOLEAN /\ cooldown' = cooldown
    BY <1>1, <1>4 DEF StartSent, Follow
  <2> QED
    BY <1>0, <2>1, <2>2 DEF InputTypes, Types
<1>5. CASE NothingSelected(t, k)
  BY <1>0, <1>1, <1>5 DEF NothingSelected, Forget, InputTypes, Types
<1>6. CASE AdoptAndStop(t, k)
  <2>1. calls' \in Seq(Calls) /\ inbox' \in Seq(Messages) /\ sent' \in 0 .. MaxCalls
    BY <1>6, SendTypes DEF AdoptAndStop
  <2>2. /\ trigger' \in Triggers /\ recording' = TRUE /\ commandMode' \in BOOLEAN
        /\ timerStale' \in BOOLEAN /\ pendingStop' = TRUE /\ remoteStatus' = FALSE
        /\ UNCHANGED <<cooldown, excused>>
    BY <1>1, <1>6 DEF AdoptAndStop, Follow
  <2> QED
    BY <1>0, <2>1, <2>2 DEF InputTypes, Types
<1>7. CASE ShowRemote(t, k)
  BY <1>0, <1>1, <1>7 DEF ShowRemote, KeepSession, InputTypes, Types
<1> QED
  BY <1>2, <1>3, <1>4, <1>5, <1>6, <1>7 DEF StartRecording


(* A message is received.                                                   *)
LEMMA ReceiveTypes ==
  ASSUME Types, NEW m, Receive(m)
  PROVE  /\ inbox # <<>> /\ m = inbox[1] /\ m \in Messages
         /\ inbox' \in Seq(Messages) /\ Len(inbox') = Len(inbox) - 1 /\ Len(inbox) >= 1
         /\ \A i \in 1 .. Len(inbox') : inbox'[i] = inbox[i + 1]
BY DEF Receive, Types

LEMMA CallFailsTypes ==
  ASSUME Types, NEW slot, CallFails(slot)
  PROVE  /\ recording' \in BOOLEAN /\ commandMode' \in BOOLEAN /\ pendingStop' \in BOOLEAN
         /\ timerStale' \in BOOLEAN /\ remoteStatus' \in BOOLEAN /\ excused' \in BOOLEAN
         /\ cooldown' = TRUE
         /\ UNCHANGED <<trigger, startTimer, stopTimer, awaiting, seen, keysDown, daemonVars>>
BY DEF CallFails, Forget, KeepSession, Types

Input ==
  \/ \E k \in Kinds : KeyPress(k) \/ KeyRelease(k)
  \/ StartTimerFires \/ StopTimerFires \/ Elapse
  \/ \E m \in Modes : ChangeMode(m)
  \/ \E slot \in {"start", "stop"} : CallTimesOut(slot)

LEMMA InputKeepsTypes ==
  ASSUME Types, Input
  PROVE  Types'
<1>1. ASSUME NEW k \in Kinds, KeyPress(k)
      PROVE  Types'
  <2> DEFINE t == Press(trigger, k, recording)
  <2>1. t \in Triggers
    BY TriggerTypes DEF Types
  <2>2. /\ keysDown' \subseteq Kinds /\ seen' \in BOOLEAN
        /\ UNCHANGED <<awaiting, daemonVars>>
    BY <1>1 DEF KeyPress, Types
  <2>3. CASE /\ trigger' = t /\ KeepSession
             /\ startTimer' \in BOOLEAN /\ stopTimer' \in BOOLEAN
             /\ UNCHANGED <<cooldown, remoteStatus, excused, calls, sent, inbox, events>>
    BY <2>1, <2>2, <2>3 DEF Types, KeepSession, daemonVars
  <2>4. CASE StartRecording(t, k) /\ stopTimer' = FALSE /\ UNCHANGED startTimer
    <3> HIDE DEF t
    <3>1. InputTypes' /\ events' \in 0 .. MaxEvents
      BY <2>1, <2>4, StartRecordingTypes
    <3> QED
      BY <2>2, <2>4, <3>1 DEF Types, InputTypes, daemonVars
  <2>5. CASE StopActiveRecording(t, startTimer, FALSE) /\ UNCHANGED events
    <3> HIDE DEF t
    <3>1. InputTypes' /\ startTimer' \in BOOLEAN /\ stopTimer' \in BOOLEAN
      BY <2>1, <2>5, StopActiveTypes DEF Types
    <3> QED
      BY <2>2, <2>5, <3>1 DEF Types, InputTypes, daemonVars
  <2>6. \/ /\ trigger' = t /\ KeepSession
           /\ startTimer' \in BOOLEAN /\ stopTimer' \in BOOLEAN
           /\ UNCHANGED <<cooldown, remoteStatus, excused, calls, sent, inbox, events>>
        \/ StartRecording(t, k) /\ stopTimer' = FALSE /\ UNCHANGED startTimer
        \/ StopActiveRecording(t, startTimer, FALSE) /\ UNCHANGED events
    <3> HIDE DEF t
    <3> QED
      BY <1>1 DEF KeyPress, Types, t
  <2> QED
    BY <2>3, <2>4, <2>5, <2>6
<1>2. ASSUME NEW k \in Kinds, KeyRelease(k)
      PROVE  Types'
  <2>1. trigger' \in Triggers
    BY <1>2, TriggerTypes DEF KeyRelease, Types
  <2> QED
    BY <1>2, <2>1 DEF KeyRelease, Types, daemonVars, busVars, boundVars
<1>3. CASE StartTimerFires
  <2>1. startTimer' = FALSE /\ UNCHANGED <<stopTimer, awaiting, seen, keysDown, daemonVars>>
    BY <1>3 DEF StartTimerFires
  <2>2. CASE trigger.pending = NoPress
    <3>1. /\ UNCHANGED <<recording, commandMode, pendingStop, timerStale>>
          /\ UNCHANGED <<trigger, cooldown, remoteStatus, excused, calls, sent, inbox, events>>
      BY <1>3, <2>2 DEF StartTimerFires, KeepSession
    <3>2. InputTypes' /\ WorldTypes' /\ TimerTypes'
      BY <2>1, <3>1, TypesSplit, UnchangedInput, UnchangedWorld DEF TimerTypes, daemonVars
    <3> QED
      BY <3>2 DEF Types, InputTypes, WorldTypes, TimerTypes
  <2>3. CASE trigger.pending # NoPress
    <3>1. FireStart(trigger) \in Triggers
      BY TriggerTypes DEF Types
    <3>2. StartRecording(FireStart(trigger), trigger.pending.kind)
      BY <1>3, <2>3 DEF StartTimerFires
    <3>3. InputTypes' /\ events' \in 0 .. MaxEvents
      BY <3>1, <3>2, StartRecordingTypes
    <3> QED
      BY <2>1, <3>3 DEF Types, InputTypes, daemonVars
  <2> QED
    BY <2>2, <2>3
<1>4. CASE StopTimerFires
  <2>1. UNCHANGED <<awaiting, seen, keysDown, daemonVars, events>>
    BY <1>4 DEF StopTimerFires
  <2>2. CASE StopIsDue(trigger)
    <3>1. FireStop(trigger) \in Triggers
      BY TriggerTypes DEF Types
    <3>2. StopActiveRecording(FireStop(trigger), startTimer, FALSE)
      BY <1>4, <2>2 DEF StopTimerFires
    <3>3. InputTypes' /\ startTimer' \in BOOLEAN /\ stopTimer' \in BOOLEAN
      BY <3>1, <3>2, StopActiveTypes DEF Types
    <3> QED
      BY <2>1, <3>3 DEF Types, InputTypes, daemonVars
  <2>3. CASE ~StopIsDue(trigger)
    <3>1. /\ UNCHANGED <<recording, commandMode, pendingStop, timerStale>> /\ stopTimer' = FALSE
          /\ UNCHANGED <<trigger, startTimer, cooldown, remoteStatus, excused, calls, sent, inbox>>
      BY <1>4, <2>3 DEF StopTimerFires, KeepSession
    <3>2. InputTypes' /\ WorldTypes' /\ TimerTypes'
      BY <2>1, <3>1, TypesSplit, UnchangedInput, UnchangedWorld DEF TimerTypes, daemonVars
    <3> QED
      BY <3>2 DEF Types, InputTypes, WorldTypes, TimerTypes
  <2> QED
    BY <2>2, <2>3
<1>5. CASE Elapse
  <2>1. trigger' \in Triggers /\ cooldown' \in BOOLEAN
    BY <1>5, TriggerTypes DEF Elapse, Types
  <2> QED
    BY <1>5, <2>1 DEF Elapse, Types, daemonVars, busVars, boundVars
<1>6. ASSUME NEW m \in Modes, ChangeMode(m)
      PROVE  Types'
  <2>1. SetMode(trigger, m) \in Triggers /\ RecordingStopped(SetMode(trigger, m)) \in Triggers
    BY TriggerTypes DEF Types
  <2>2. trigger' \in Triggers /\ startTimer' = FALSE /\ stopTimer' \in BOOLEAN
    BY <1>6, <2>1 DEF ChangeMode, Types
  <2>3. events' \in 0 .. MaxEvents
    BY <1>6, FrontendConstants DEF ChangeMode, Types
  <2> QED
    <3>1. /\ UNCHANGED <<recording, commandMode, pendingStop, timerStale>>
          /\ UNCHANGED <<awaiting, cooldown, remoteStatus, seen, excused, keysDown, sent>>
          /\ UNCHANGED <<status, own, liveError, calls, inbox>>
      BY <1>6 DEF ChangeMode, KeepSession, daemonVars, busVars
    <3>2. InputTypes'
      BY <2>2, <3>1 DEF InputTypes, Types
    <3>3. WorldTypes'
      BY <2>3, <3>1 DEF WorldTypes, Types
    <3> QED
      BY <2>2, <3>2, <3>3 DEF Types, InputTypes, WorldTypes
<1>7. ASSUME NEW slot \in {"start", "stop"}, CallTimesOut(slot)
      PROVE  Types'
  <2>1. calls' \in Seq(Calls)
    BY <1>7, DisownGives DEF CallTimesOut, Types, Slots
  <2>2. events' \in 0 .. MaxEvents
    BY <1>7, FrontendConstants DEF CallTimesOut, Types
  <2>3. CallFails(slot) /\ UNCHANGED <<inbox, sent>>
    BY <1>7 DEF CallTimesOut
  <2> QED
    BY <2>1, <2>2, <2>3, CallFailsTypes DEF Types, daemonVars
<1> QED
  BY <1>1, <1>2, <1>3, <1>4, <1>5, <1>6, <1>7 DEF Input


LEMMA DeliverKeepsTypes ==
  ASSUME Types, Deliver
  PROVE  Types'
<1>1. ASSUME NEW s \in Statuses, HandleDaemonStatus(s)
      PROVE  Types'
  <2>1. inbox' \in Seq(Messages)
    BY <1>1, ReceiveTypes DEF HandleDaemonStatus
  <2>2. UNCHANGED <<cooldown, seen, excused, keysDown, status, own, liveError, calls, sent, events>>
    BY <1>1 DEF HandleDaemonStatus, daemonVars, boundVars
  <2>3. RecordingStopped(trigger) \in Triggers
    BY TriggerTypes DEF Types
  <2>4. /\ trigger' \in Triggers /\ startTimer' \in BOOLEAN /\ stopTimer' \in BOOLEAN
        /\ recording' \in BOOLEAN /\ commandMode' \in BOOLEAN /\ pendingStop' \in BOOLEAN
        /\ awaiting' \in BOOLEAN /\ timerStale' \in BOOLEAN /\ remoteStatus' \in BOOLEAN
    <3>1. CASE awaiting' = FALSE /\ IgnoreStatus
      BY <3>1 DEF IgnoreStatus, KeepSession, Types
    <3>2. CASE ResetActiveRecording /\ UNCHANGED remoteStatus
      BY <2>3, <3>2 DEF ResetActiveRecording, Forget, Types
    <3>3. CASE /\ remoteStatus' = (s \notin {"idle", "error"}) /\ awaiting' = FALSE
               /\ KeepSession /\ UNCHANGED <<trigger, startTimer, stopTimer>>
      BY <3>3 DEF KeepSession, Types
    <3>4. CASE /\ Follow(FALSE) /\ pendingStop' = FALSE /\ awaiting' = FALSE
               /\ UNCHANGED <<trigger, startTimer, stopTimer, remoteStatus>>
      BY <3>4 DEF Follow, Types
    <3> QED
      BY <1>1, <3>1, <3>2, <3>3, <3>4 DEF HandleDaemonStatus, FollowStatus
  <2> QED
    BY <2>1, <2>2, <2>4, Zenon DEF Types
<1>2. ASSUME NEW mine \in BOOLEAN, HandleRecognitionResult(mine)
      PROVE  Types'
  <2>1. inbox' \in Seq(Messages)
    BY <1>2, ReceiveTypes DEF HandleRecognitionResult
  <2>2. UNCHANGED <<cooldown, seen, excused, keysDown, status, own, liveError, calls, sent, events>>
    BY <1>2 DEF HandleRecognitionResult, daemonVars, boundVars
  <2>3. RecordingStopped(trigger) \in Triggers
    BY TriggerTypes DEF Types
  <2>4. /\ trigger' \in Triggers /\ startTimer' \in BOOLEAN /\ stopTimer' \in BOOLEAN
        /\ recording' \in BOOLEAN /\ commandMode' \in BOOLEAN /\ pendingStop' \in BOOLEAN
        /\ awaiting' \in BOOLEAN /\ timerStale' \in BOOLEAN /\ remoteStatus' \in BOOLEAN
    <3>1. CASE recording
      BY <1>2, <2>3, <3>1 DEF HandleRecognitionResult, Forget, Types
    <3>2. CASE ~recording
      BY <1>2, <3>2 DEF HandleRecognitionResult, IgnoreStatus, KeepSession, Types
    <3> QED
      BY <3>1, <3>2
  <2> QED
    BY <2>1, <2>2, <2>4, Zenon DEF Types
<1>3. CASE HandleDaemonNotification
  <2>1. inbox' \in Seq(Messages)
    BY <1>3, ReceiveTypes DEF HandleDaemonNotification
  <2>2. UNCHANGED <<cooldown, seen, keysDown, status, own, liveError, calls, sent, events, timerStale>>
    BY <1>3 DEF HandleDaemonNotification, daemonVars, boundVars, ResetActiveRecording, Forget
  <2>3. RecordingStopped(trigger) \in Triggers
    BY TriggerTypes DEF Types
  <2>4. /\ trigger' \in Triggers /\ startTimer' = FALSE /\ stopTimer' = FALSE
        /\ recording' = FALSE /\ commandMode' = FALSE /\ pendingStop' = FALSE
        /\ awaiting' = FALSE /\ remoteStatus' = FALSE /\ excused' = TRUE
    BY <1>3, <2>3 DEF HandleDaemonNotification, ResetActiveRecording, Forget
  <2> QED
    BY <2>1, <2>2, <2>4 DEF Types
<1>4. ASSUME NEW a \in {"gone", "back"}, HandleDaemonAvailability(a)
      PROVE  Types'
  <2>1. inbox' \in Seq(Messages)
    BY <1>4, ReceiveTypes DEF HandleDaemonAvailability
  <2>2. /\ UNCHANGED <<seen, keysDown, status, own, liveError, calls, sent, events>>
        /\ cooldown' \in BOOLEAN
    BY <1>4 DEF HandleDaemonAvailability, daemonVars, boundVars, Types
  <2>3. RecordingStopped(trigger) \in Triggers
    BY TriggerTypes DEF Types
  <2>4. /\ trigger' \in Triggers /\ startTimer' \in BOOLEAN /\ stopTimer' \in BOOLEAN
        /\ recording' \in BOOLEAN /\ commandMode' \in BOOLEAN /\ pendingStop' \in BOOLEAN
        /\ awaiting' \in BOOLEAN /\ timerStale' \in BOOLEAN /\ remoteStatus' \in BOOLEAN
        /\ excused' \in BOOLEAN
    <3>1. CASE ResetActiveRecording /\ remoteStatus' = FALSE /\ excused' = TRUE
      BY <2>3, <3>1 DEF ResetActiveRecording, Forget, Types
    <3>2. CASE awaiting' = FALSE /\ IgnoreStatus /\ UNCHANGED excused
      BY <3>2 DEF IgnoreStatus, KeepSession, Types
    <3> QED
      BY <1>4, <3>1, <3>2 DEF HandleDaemonAvailability
  <2> QED
    BY <2>1, <2>2, <2>4, Zenon DEF Types
<1>5. ASSUME NEW slot \in {"start", "stop"}, NEW arg \in {"ok", "error"}, HandleReply(slot, arg)
      PROVE  Types'
  <2>1. inbox' \in Seq(Messages)
    BY <1>5, ReceiveTypes DEF HandleReply
  <2>2. UNCHANGED <<calls, sent, events>>
    BY <1>5 DEF HandleReply, boundVars
  <2>3. CASE CallFails(slot)
    BY <2>1, <2>2, <2>3, CallFailsTypes DEF Types, daemonVars
  <2>4. CASE /\ cooldown' = FALSE /\ KeepSession
             /\ UNCHANGED <<trigger, startTimer, stopTimer, awaiting, remoteStatus, seen, excused,
                            keysDown, daemonVars>>
    <3>1. InputTypes'
      BY <2>1, <2>2, <2>4 DEF InputTypes, Types, KeepSession
    <3>2. WorldTypes' /\ TimerTypes'
      BY <2>2, <2>4, TypesSplit, UnchangedWorld DEF TimerTypes, daemonVars
    <3> QED
      BY <3>1, <3>2 DEF Types, InputTypes, WorldTypes, TimerTypes
  <2> QED
    BY <1>5, <2>3, <2>4 DEF HandleReply
<1>6. ASSUME NEW arg \in {"ok", "error"}, DropReply(arg)
      PROVE  Types'
  <2>1. inbox' \in Seq(Messages)
    BY <1>6, ReceiveTypes DEF DropReply
  <2>2. UNCHANGED <<addonVars, excused, keysDown, status, own, liveError, calls, sent, events>>
    BY <1>6 DEF DropReply, daemonVars, boundVars
  <2> QED
    BY <2>1, <2>2 DEF Types, addonVars
<1> QED
  BY <1>1, <1>2, <1>3, <1>4, <1>5, <1>6 DEF Deliver


-----------------------------------------------------------------------------
(* The daemon.  What it announces is front, and then replies only.          *)
Announced(front) ==
  /\ Len(inbox') >= Len(inbox) + Len(front)
  /\ \A i \in 1 .. Len(inbox) : inbox'[i] = inbox[i]
  /\ \A i \in 1 .. Len(front) : inbox'[Len(inbox) + i] = front[i]
  /\ \A i \in Len(inbox) + Len(front) + 1 .. Len(inbox') : inbox'[i].msg = "reply"

IsReplies(rep) == rep \in Seq(Messages) /\ \A i \in 1 .. Len(rep) : rep[i].msg = "reply"

LEMMA ConcatGives ==
  ASSUME NEW s \in Seq(Messages), NEW t \in Seq(Messages), NEW u, u = s \o t
  PROVE  /\ u \in Seq(Messages) /\ Len(u) = Len(s) + Len(t)
         /\ \A i \in 1 .. Len(s) + Len(t) : u[i] = IF i <= Len(s) THEN s[i] ELSE t[i - Len(s)]
BY ConcatProperties, Zenon

LEMMA AnnounceGives ==
  ASSUME inbox \in Seq(Messages), NEW front \in Seq(Messages), NEW rep, IsReplies(rep),
         Announce(front \o rep)
  PROVE  inbox' \in Seq(Messages) /\ Announced(front)
<1> DEFINE ms == front \o rep
<1>1. /\ ms \in Seq(Messages) /\ Len(ms) = Len(front) + Len(rep)
      /\ \A i \in 1 .. Len(front) + Len(rep) :
           ms[i] = IF i <= Len(front) THEN front[i] ELSE rep[i - Len(front)]
  BY ConcatGives DEF IsReplies
<1>2. inbox' = inbox \o ms
  BY DEF Announce
<1> HIDE DEF ms
<1>3. /\ inbox' \in Seq(Messages) /\ Len(inbox') = Len(inbox) + Len(ms)
      /\ \A i \in 1 .. Len(inbox) + Len(ms) :
           inbox'[i] = IF i <= Len(inbox) THEN inbox[i] ELSE ms[i - Len(inbox)]
  BY <1>1, <1>2, ConcatGives
<1>4. /\ Len(front) \in Nat /\ Len(rep) \in Nat /\ Len(inbox) \in Nat
  BY DEF IsReplies
<1>5. \A i \in 1 .. Len(inbox) : inbox'[i] = inbox[i]
  BY <1>1, <1>3, <1>4
<1>6. \A i \in 1 .. Len(front) : inbox'[Len(inbox) + i] = front[i]
  <2> SUFFICES ASSUME NEW i \in 1 .. Len(front)
               PROVE  inbox'[Len(inbox) + i] = front[i]
    OBVIOUS
  <2>1. /\ Len(inbox) + i \in 1 .. Len(inbox) + Len(ms) /\ ~(Len(inbox) + i <= Len(inbox))
        /\ Len(inbox) + i - Len(inbox) = i /\ i \in 1 .. Len(front) + Len(rep) /\ i <= Len(front)
    BY <1>1, <1>4
  <2>2. inbox'[Len(inbox) + i] = ms[i]
    BY <1>3, <2>1
  <2> QED
    BY <1>1, <2>1, <2>2
<1>7. \A i \in Len(inbox) + Len(front) + 1 .. Len(inbox') : inbox'[i].msg = "reply"
  <2> SUFFICES ASSUME NEW i \in Len(inbox) + Len(front) + 1 .. Len(inbox')
               PROVE  inbox'[i].msg = "reply"
    OBVIOUS
  <2>1. i - Len(inbox) \in 1 .. Len(front) + Len(rep) /\ ~(i - Len(inbox) <= Len(front))
        /\ i - Len(inbox) - Len(front) \in 1 .. Len(rep) /\ i \in 1 .. Len(inbox) + Len(ms)
        /\ ~(i <= Len(inbox))
    BY <1>1, <1>3, <1>4
  <2>2. inbox'[i] = rep[i - Len(inbox) - Len(front)]
    BY <1>1, <1>3, <2>1
  <2> QED
    BY <2>1, <2>2 DEF IsReplies
<1> QED
  BY <1>1, <1>3, <1>4, <1>5, <1>6, <1>7 DEF Announced

(* Nothing is announced but front.                                          *)
LEMMA AnnounceAlone ==
  ASSUME inbox \in Seq(Messages), NEW front \in Seq(Messages), Announce(front)
  PROVE  inbox' \in Seq(Messages) /\ Announced(front)
<1>1. IsReplies(<<>>)
  BY EmptySeq DEF IsReplies
<1>2. front \o <<>> = front
  BY ConcatEmptySeq
<1> QED
  BY <1>1, <1>2, AnnounceGives

LEMMA AndReplyIsReplies ==
  ASSUME calls \in Seq(Calls), calls # <<>>, NEW arg \in {"ok", "error"}
  PROVE  IsReplies(AndReply(arg))
<1>1. Head(calls).slot \in Slots
  <2>1. Head(calls) \in Calls
    BY HeadTailProperties
  <2> QED
    BY <2>1 DEF Calls
<1>2. Reply(Head(calls).slot, arg) \in Messages /\ Reply(Head(calls).slot, arg).msg = "reply"
  BY <1>1, MessageTypes DEF Reply
<1>3. CASE AndReply(arg) = <<>>
  BY <1>3, EmptySeq DEF IsReplies
<1>4. CASE AndReply(arg) = <<Reply(Head(calls).slot, arg)>>
  <2> DEFINE r == Reply(Head(calls).slot, arg)
  <2> HIDE DEF r
  <2>1. r \in Messages /\ r.msg = "reply" /\ AndReply(arg) = <<r>>
    BY <1>2, <1>4 DEF r
  <2> QED
    BY <2>1 DEF IsReplies
<1> QED
  BY <1>3, <1>4 DEF AndReply

(* What a step of the daemon does to a client that listens.                 *)
EndsNothing(front)  == \A i \in 1 .. Len(front) : ~Ends(front[i])
ResetsIt(front)     == \E i \in 1 .. Len(front) : Resets(front[i])
ShowsNew(front) ==
  \E k \in 1 .. Len(front) : Begins(front[k]) /\ \A j \in k + 1 .. Len(front) : ~Ends(front[j])

DaemonMoves(front) ==
  /\ front \in Seq(Messages) /\ Announced(front)
  /\ UNCHANGED addonVars
  /\ \A i \in 1 .. Len(front) :
       front[i].msg = "result" => i + 1 \in 1 .. Len(front) /\ front[i + 1] = Signal("idle")
  /\ \A i \in 1 .. Len(front) :
       Begins(front[i]) => status' \in Busy \/ \E j \in 1 .. Len(front) : i < j /\ Resets(front[j])
  /\ status \in Busy => status' \in Busy \/ ResetsIt(front)
  /\ StartWaits => StartWaits' \/ status' \in Busy \/ ResetsIt(front)
  /\ \A i \in DOMAIN calls' :
       calls'[i].method = "start" => \E j \in DOMAIN calls : calls[j].method = "start"
  /\ own' => own \/ \E j \in DOMAIN calls : calls[j].method = "start"
  /\ ~excused' =>
       /\ ~excused
       /\ status' = "error" => status = "error"
       /\ status' \in Busy /\ own' => ShowsNew(front) \/ (status \in Busy /\ own /\ EndsNothing(front))
       /\ \A i \in 1 .. Len(front) : front[i].msg = "result" /\ front[i].mine =>
            /\ status \in Busy /\ own
            /\ \A j \in 1 .. i - 1 : ~Ends(front[j])

(* What the messages do.                                                    *)
LEMMA MessageKinds ==
  /\ \A s \in Statuses : /\ Ends(Signal(s)) <=> s \in {"idle", "error"}
                         /\ Begins(Signal(s)) <=> s \in Busy
                         /\ Signal(s).msg = "status"
  /\ \A mine \in BOOLEAN : /\ Ends(Result(mine)) /\ ~Begins(Result(mine))
                           /\ Result(mine).msg = "result" /\ Result(mine).mine = mine
  /\ ~Ends(Notification) /\ ~Begins(Notification) /\ Notification.msg = "notice"
  /\ \A a \in {"gone", "back"} : /\ ~Ends(Availability(a)) /\ ~Begins(Availability(a))
                                 /\ Availability(a).msg = "availability"
                                 /\ Resets(Availability("gone"))
  /\ Resets(Notification)
  /\ \A m : Ends(m) => Resets(m)
BY DEF Ends, Begins, Resets, Signal, Result, Notification, Availability, Busy, Statuses

LEMMA FrontOne ==
  ASSUME NEW m \in Messages, m.msg # "result"
  PROVE  /\ <<m>> \in Seq(Messages) /\ Len(<<m>>) = 1
         /\ \A i \in 1 .. Len(<<m>>) : <<m>>[i] = m /\ i = 1
         /\ EndsNothing(<<m>>) <=> ~Ends(m)
         /\ ResetsIt(<<m>>) <=> Resets(m)
         /\ Begins(m) => ShowsNew(<<m>>)
<1> DEFINE f == <<m>>
<1>1. f \in Seq(Messages) /\ Len(f) = 1 /\ f[1] = m
  OBVIOUS
<1> HIDE DEF f
<1>2. \A i \in 1 .. Len(f) : f[i] = m /\ i = 1
  BY <1>1
<1>3. EndsNothing(f) <=> ~Ends(m)
  BY <1>1, <1>2 DEF EndsNothing
<1>4. ResetsIt(f) <=> Resets(m)
  BY <1>1, <1>2 DEF ResetsIt
<1>5. Begins(m) => ShowsNew(f)
  BY <1>1, <1>2 DEF ShowsNew
<1> QED
  BY <1>1, <1>2, <1>3, <1>4, <1>5 DEF f

(* The oldest call is served.                                               *)
LEMMA NextCallGives ==
  ASSUME Types, CallsFit, calls # <<>>, NextCall
  PROVE  /\ calls' \in Seq(Calls)
         /\ Head(calls) = calls[1] /\ calls[1] \in Calls /\ 1 \in DOMAIN calls
         /\ calls[1].slot # "none" => calls[1].method = calls[1].slot
         /\ \A i \in DOMAIN calls' : i + 1 \in DOMAIN calls /\ calls'[i] = calls[i + 1]
         /\ StartWaits => StartWaits' \/ calls[1].method = "start"
         /\ \A i \in DOMAIN calls' : calls'[i].slot # "none" => calls'[i].method = calls'[i].slot
         /\ \A i \in DOMAIN calls' :
              calls'[i].method = "start" => \E j \in DOMAIN calls : calls[j].method = "start"
<1>1. /\ calls' \in Seq(Calls) /\ Head(calls) = calls[1] /\ calls[1] \in Calls
      /\ 1 \in DOMAIN calls /\ Len(calls') = Len(calls) - 1 /\ Len(calls) \in Nat /\ Len(calls) >= 1
      /\ \A i \in 1 .. Len(calls') : calls'[i] = calls[i + 1]
  BY DEF NextCall, Types
<1>2. DOMAIN calls' = 1 .. Len(calls) - 1 /\ DOMAIN calls = 1 .. Len(calls)
  BY <1>1 DEF Types
<1>3. \A i \in DOMAIN calls' : i + 1 \in DOMAIN calls /\ calls'[i] = calls[i + 1]
  BY <1>1, <1>2
<1>4. \A i \in DOMAIN calls : i = 1 \/ (i - 1 \in DOMAIN calls' /\ calls'[i - 1] = calls[i])
  BY <1>1, <1>2
<1>5. calls[1].slot # "none" => calls[1].method = calls[1].slot
  BY <1>1 DEF CallsFit
<1>6. StartWaits => StartWaits' \/ calls[1].method = "start"
  BY <1>4, <1>5 DEF StartWaits
<1>7. \A i \in DOMAIN calls' : calls'[i].slot # "none" => calls'[i].method = calls'[i].slot
  BY <1>3 DEF CallsFit
<1>8. \A i \in DOMAIN calls' :
        calls'[i].method = "start" => \E j \in DOMAIN calls : calls[j].method = "start"
  BY <1>3
<1> QED
  BY <1>1, <1>3, <1>5, <1>6, <1>7, <1>8

LEMMA DaemonTypes ==
  ASSUME Types, UNCHANGED addonVars, UNCHANGED <<keysDown, sent>>,
         excused' \in BOOLEAN, status' \in Statuses \cup {"down"}, own' \in BOOLEAN,
         liveError' \in {"none", "recover", "idle"}, events' \in 0 .. MaxEvents,
         calls' \in Seq(Calls), inbox' \in Seq(Messages)
  PROVE  Types'
BY DEF Types, addonVars

DaemonKeeps == Types' /\ CallsFit' /\ \E front : DaemonMoves(front)

LEMMA ServeStartKeeps ==
  ASSUME Types, CallsFit, ServeStart
  PROVE  DaemonKeeps
<1>1. /\ calls # <<>> /\ Head(calls).method \in {"start", "otherStart"} /\ NextCall
      /\ UNCHANGED liveError /\ UNCHANGED <<addonVars, excused, keysDown, sent>>
  BY DEF ServeStart, DaemonStep
<1>2. /\ calls' \in Seq(Calls)
      /\ Head(calls) = calls[1] /\ calls[1] \in Calls /\ 1 \in DOMAIN calls
      /\ StartWaits => StartWaits' \/ calls[1].method = "start"
      /\ \A i \in DOMAIN calls' : calls'[i].slot # "none" => calls'[i].method = calls'[i].slot
      /\ \A i \in DOMAIN calls' :
           calls'[i].method = "start" => \E j \in DOMAIN calls : calls[j].method = "start"
  BY <1>1, NextCallGives
<1>3. status \notin {"inferring", "postprocessing"}
  BY <1>1, <1>2 DEF CallsFit
<1>4. inbox \in Seq(Messages) /\ calls \in Seq(Calls)
  BY DEF Types
<1>5. IsReplies(AndReply("ok")) /\ IsReplies(AndReply("error"))
  BY <1>1, <1>4, AndReplyIsReplies
<1>6. CASE /\ status = "idle" /\ status' = "recording"
           /\ own' = (Head(calls).method = "start")
           /\ Announce(<<Signal("recording")>> \o AndReply("ok"))
           /\ UNCHANGED events
  <2> DEFINE m == Signal("recording")
             f == <<m>>
  <2>1. /\ m \in Messages /\ Begins(m) /\ ~Ends(m) /\ m.msg = "status"
    BY MessageTypes, MessageKinds DEF Statuses, Busy
  <2> HIDE DEF m
  <2>2. /\ f \in Seq(Messages) /\ Len(f) = 1
        /\ \A i \in 1 .. Len(f) : f[i] = m /\ i = 1
        /\ ShowsNew(f)
    BY <2>1, FrontOne
  <2> HIDE DEF f
  <2>3. Announce(f \o AndReply("ok"))
    BY <1>6 DEF f, m
  <2>4. inbox' \in Seq(Messages) /\ Announced(f)
    BY <1>4, <1>5, <2>2, <2>3, AnnounceGives
  <2>5. Types'
    BY <1>1, <1>2, <1>6, <2>4, DaemonTypes DEF Types, Statuses
  <2>6. CallsFit'
    BY <1>2, <1>6 DEF CallsFit
  <2>7. status' \in Busy
    BY <1>6 DEF Busy
  <2>8. DaemonMoves(f)
    BY <1>1, <1>2, <1>6, <2>1, <2>2, <2>4, <2>7 DEF DaemonMoves
  <2> QED
    BY <2>5, <2>6, <2>8 DEF DaemonKeeps
<1>7. CASE /\ events' \in 0 .. MaxEvents
           /\ Announce(<<Notification>> \o AndReply("error"))
           /\ UNCHANGED <<status, own>>
  <2> DEFINE m == Notification
             f == <<m>>
  <2>1. /\ m \in Messages /\ ~Begins(m) /\ ~Ends(m) /\ Resets(m) /\ m.msg = "notice"
    BY MessageTypes, MessageKinds
  <2> HIDE DEF m
  <2>2. /\ f \in Seq(Messages) /\ Len(f) = 1
        /\ \A i \in 1 .. Len(f) : f[i] = m /\ i = 1
        /\ EndsNothing(f) /\ ResetsIt(f)
    BY <2>1, FrontOne
  <2> HIDE DEF f
  <2>3. Announce(f \o AndReply("error"))
    BY <1>7 DEF f, m
  <2>4. inbox' \in Seq(Messages) /\ Announced(f)
    BY <1>4, <1>5, <2>2, <2>3, AnnounceGives
  <2>5. Types'
    BY <1>1, <1>2, <1>7, <2>4, DaemonTypes DEF Types
  <2>6. CallsFit'
    BY <1>2, <1>3, <1>7 DEF CallsFit
  <2>8. DaemonMoves(f)
    BY <1>1, <1>2, <1>7, <2>1, <2>2, <2>4 DEF DaemonMoves
  <2> QED
    BY <2>5, <2>6, <2>8 DEF DaemonKeeps
<1>8. \/ /\ status = "idle" /\ status' = "recording"
         /\ own' = (Head(calls).method = "start")
         /\ Announce(<<Signal("recording")>> \o AndReply("ok"))
         /\ UNCHANGED events
      \/ /\ events' \in 0 .. MaxEvents
         /\ Announce(<<Notification>> \o AndReply("error"))
         /\ UNCHANGED <<status, own>>
  BY FrontendConstants DEF ServeStart, Types
<1> QED
  BY <1>6, <1>7, <1>8

(* A stop that is served ends with messages and the idle behind them.       *)
LEMMA FinishKeeps ==
  ASSUME Types, CallsFit, status \in {"inferring", "postprocessing"},
         NEW messages \in Seq(Messages), NEW arg \in {"ok", "error"}, Finish(messages, arg),
         \A i \in 1 .. Len(messages) :
           /\ ~Begins(messages[i])
           /\ Ends(messages[i]) => i = Len(messages)
           /\ messages[i].msg = "result" /\ messages[i].mine => own,
         UNCHANGED <<own, liveError>>, DaemonStep, events' \in 0 .. MaxEvents
  PROVE  DaemonKeeps
<1> DEFINE m == Signal("idle")
           f == messages \o <<m>>
<1>1. /\ m \in Messages /\ ~Begins(m) /\ Ends(m) /\ Resets(m) /\ m.msg = "status"
  BY MessageTypes, MessageKinds DEF Statuses, Busy
<1>2. \A e : Ends(e) => Resets(e)
  BY MessageKinds
<1>3. Announce(f \o AndReply(arg))
  BY DEF Finish
<1>4. m = Signal("idle")
  OBVIOUS
<1> HIDE DEF m
<1>5. <<m>> \in Seq(Messages) /\ Len(<<m>>) = 1 /\ <<m>>[1] = m
  BY <1>1
<1>6. /\ f \in Seq(Messages) /\ Len(f) = Len(messages) + 1
      /\ \A i \in 1 .. Len(messages) + 1 :
           f[i] = IF i <= Len(messages) THEN messages[i] ELSE <<m>>[i - Len(messages)]
  <2> DEFINE one == <<m>>
  <2>1. one \in Seq(Messages) /\ Len(one) = 1
    BY <1>5
  <2>2. f = messages \o one
    OBVIOUS
  <2> HIDE DEF one, f
  <2>3. /\ f \in Seq(Messages) /\ Len(f) = Len(messages) + Len(one)
        /\ \A i \in 1 .. Len(messages) + Len(one) :
             f[i] = IF i <= Len(messages) THEN messages[i] ELSE one[i - Len(messages)]
    BY <2>1, <2>2, ConcatGives
  <2> QED
    BY <2>1, <2>3 DEF one
<1>7. /\ f \in Seq(Messages) /\ Len(f) = Len(messages) + 1 /\ f[Len(messages) + 1] = m
      /\ \A i \in 1 .. Len(messages) : f[i] = messages[i]
      /\ Len(messages) \in Nat
  BY <1>5, <1>6
<1> HIDE DEF f
<1>8. calls # <<>> /\ NextCall /\ status' = "idle" /\ UNCHANGED <<addonVars, excused, keysDown, sent>>
  BY DEF CallsFit, Finish, DaemonStep
<1>9. /\ calls' \in Seq(Calls)
      /\ \A i \in DOMAIN calls' : calls'[i].slot # "none" => calls'[i].method = calls'[i].slot
      /\ \A i \in DOMAIN calls' :
           calls'[i].method = "start" => \E j \in DOMAIN calls : calls[j].method = "start"
  BY <1>8, NextCallGives
<1>10. inbox \in Seq(Messages) /\ calls \in Seq(Calls)
  BY DEF Types
<1>11. IsReplies(AndReply(arg))
  BY <1>8, <1>10, AndReplyIsReplies
<1>12. inbox' \in Seq(Messages) /\ Announced(f)
  BY <1>3, <1>7, <1>10, <1>11, AnnounceGives
<1>13. Types'
  BY <1>8, <1>9, <1>12, DaemonTypes DEF Types, Statuses
<1>14. CallsFit'
  BY <1>8, <1>9 DEF CallsFit
<1>15. ResetsIt(f) /\ status' \notin Busy /\ status \in Busy
  BY <1>1, <1>7, <1>8 DEF ResetsIt, Busy
<1>16. \A i \in 1 .. Len(f) : ~Begins(f[i])
  <2> TAKE i \in 1 .. Len(f)
  <2>1. CASE i = Len(messages) + 1
    BY <1>1, <1>7, <2>1
  <2>2. CASE i \in 1 .. Len(messages)
    BY <1>7, <2>2
  <2> QED
    BY <1>7, <2>1, <2>2
<1>17. \A i \in 1 .. Len(f) :
         f[i].msg = "result" => i + 1 \in 1 .. Len(f) /\ f[i + 1] = Signal("idle")
  <2> SUFFICES ASSUME NEW i \in 1 .. Len(f), f[i].msg = "result"
               PROVE  i + 1 \in 1 .. Len(f) /\ f[i + 1] = Signal("idle")
    OBVIOUS
  <2>1. i \in 1 .. Len(messages)
    BY <1>1, <1>7
  <2>2. Ends(messages[i])
    BY <1>7, <2>1 DEF Ends
  <2>3. i = Len(messages)
    BY <2>1, <2>2
  <2> QED
    BY <1>4, <1>7, <2>3
<1>18. \A i \in 1 .. Len(f) : f[i].msg = "result" /\ f[i].mine =>
         own /\ \A j \in 1 .. i - 1 : ~Ends(f[j])
  <2> SUFFICES ASSUME NEW i \in 1 .. Len(f), f[i].msg = "result", f[i].mine
               PROVE  own /\ \A j \in 1 .. i - 1 : ~Ends(f[j])
    OBVIOUS
  <2>1. i \in 1 .. Len(messages)
    BY <1>1, <1>7
  <2>2. Ends(messages[i]) /\ own
    BY <1>7, <2>1 DEF Ends
  <2>3. i = Len(messages)
    BY <2>1, <2>2
  <2>4. ASSUME NEW j \in 1 .. i - 1 PROVE ~Ends(f[j])
    <3>1. j \in 1 .. Len(messages) /\ j # Len(messages)
      BY <1>7, <2>3
    <3> QED
      BY <1>7, <3>1
  <2> QED
    BY <2>2, <2>4
<1>19. DaemonMoves(f)
  BY <1>7, <1>8, <1>9, <1>12, <1>15, <1>16, <1>17, <1>18 DEF DaemonMoves, Busy
<1> QED
  BY <1>13, <1>14, <1>19 DEF DaemonKeeps

(* Steps that announce one message and keep the calls.                      *)
LEMMA ServeStopKeeps ==
  ASSUME Types, CallsFit, ServeStop
  PROVE  DaemonKeeps
<1>1. /\ calls # <<>> /\ Head(calls).method = "stop"
      /\ UNCHANGED <<own, liveError, events>> /\ UNCHANGED <<addonVars, excused, keysDown, sent>>
  BY DEF ServeStop, DaemonStep
<1>2. inbox \in Seq(Messages) /\ calls \in Seq(Calls)
  BY DEF Types
<1>3. IsReplies(AndReply("ok")) /\ IsReplies(AndReply("error"))
  BY <1>1, <1>2, AndReplyIsReplies
<1>4. ASSUME NextCall
      PROVE  /\ calls' \in Seq(Calls)
             /\ calls[1].method = "stop"
             /\ StartWaits => StartWaits'
             /\ \A i \in DOMAIN calls' : calls'[i].slot # "none" => calls'[i].method = calls'[i].slot
             /\ \A i \in DOMAIN calls' :
                  calls'[i].method = "start" => \E j \in DOMAIN calls : calls[j].method = "start"
  BY <1>1, <1>4, NextCallGives
<1>5. CASE /\ status \notin Busy /\ NextCall /\ Announce(AndReply("error")) /\ UNCHANGED status
  <2> DEFINE f == <<>>
  <2>1. f \in Seq(Messages) /\ Len(f) = 0
    BY EmptySeq
  <2>2. f \o AndReply("error") = AndReply("error")
    BY <1>3, ConcatEmptySeq DEF IsReplies
  <2>3. inbox' \in Seq(Messages) /\ Announced(f)
    BY <1>2, <1>3, <1>5, <2>1, <2>2, AnnounceGives
  <2>4. Types'
    BY <1>1, <1>4, <1>5, <2>3, DaemonTypes DEF Types
  <2>5. CallsFit'
    BY <1>4, <1>5 DEF CallsFit, Busy
  <2>6. DaemonMoves(f)
    BY <1>1, <1>4, <1>5, <2>1, <2>3 DEF DaemonMoves, EndsNothing, ResetsIt
  <2> QED
    BY <2>4, <2>5, <2>6 DEF DaemonKeeps
<1>6. CASE /\ status = "recording" /\ NextCall /\ status' = "idle"
           /\ Announce(<<Signal("idle")>> \o AndReply("ok"))
  <2> DEFINE m == Signal("idle")
             f == <<m>>
  <2>1. /\ m \in Messages /\ ~Begins(m) /\ Resets(m) /\ m.msg = "status"
    BY MessageTypes, MessageKinds DEF Statuses, Busy
  <2> HIDE DEF m
  <2>2. /\ f \in Seq(Messages) /\ Len(f) = 1
        /\ \A i \in 1 .. Len(f) : f[i] = m /\ i = 1
        /\ ResetsIt(f)
    BY <2>1, FrontOne
  <2> HIDE DEF f
  <2>3. Announce(f \o AndReply("ok"))
    BY <1>6 DEF f, m
  <2>4. inbox' \in Seq(Messages) /\ Announced(f)
    BY <1>2, <1>3, <2>2, <2>3, AnnounceGives
  <2>5. Types'
    BY <1>1, <1>4, <1>6, <2>4, DaemonTypes DEF Types, Statuses
  <2>6. CallsFit'
    BY <1>4, <1>6 DEF CallsFit
  <2>8. DaemonMoves(f)
    BY <1>1, <1>4, <1>6, <2>1, <2>2, <2>4 DEF DaemonMoves, Busy
  <2> QED
    BY <2>5, <2>6, <2>8 DEF DaemonKeeps
<1>7. CASE /\ status = "recording" /\ status' = "inferring"
           /\ Announce(<<Signal("inferring")>>) /\ UNCHANGED calls
  <2> DEFINE m == Signal("inferring")
             f == <<m>>
  <2>1. /\ m \in Messages /\ Begins(m) /\ ~Ends(m) /\ m.msg = "status"
    BY MessageTypes, MessageKinds DEF Statuses, Busy
  <2> HIDE DEF m
  <2>2. /\ f \in Seq(Messages) /\ Len(f) = 1
        /\ \A i \in 1 .. Len(f) : f[i] = m /\ i = 1
        /\ EndsNothing(f)
    BY <2>1, FrontOne
  <2> HIDE DEF f
  <2>3. Announce(f)
    BY <1>7 DEF f, m
  <2>4. inbox' \in Seq(Messages) /\ Announced(f)
    BY <1>2, <2>2, <2>3, AnnounceAlone
  <2>5. Types'
    BY <1>1, <1>2, <1>7, <2>4, DaemonTypes DEF Types, Statuses
  <2>6. CallsFit'
    BY <1>1, <1>2, <1>7 DEF CallsFit
  <2>7. status' \in Busy /\ status \in Busy
    BY <1>7 DEF Busy
  <2>8. DaemonMoves(f)
    BY <1>1, <1>7, <2>1, <2>2, <2>4, <2>7 DEF DaemonMoves
  <2> QED
    BY <2>5, <2>6, <2>8 DEF DaemonKeeps
<1> QED
  BY <1>5, <1>6, <1>7 DEF ServeStop

(* A message alone.                                                         *)
LEMMA OneKeeps ==
  ASSUME Types, CallsFit, NEW m \in Messages, m.msg # "result", Announce(<<m>>),
         UNCHANGED addonVars, UNCHANGED <<keysDown, sent, calls, own>>,
         excused' \in BOOLEAN, ~excused' => ~excused,
         status' \in Statuses \cup {"down"}, liveError' \in {"none", "recover", "idle"},
         events' \in 0 .. MaxEvents,
         status' \in {"inferring", "postprocessing"} => status \in {"inferring", "postprocessing"},
         Begins(m) => status' \in Busy,
         status \in Busy => status' \in Busy \/ Resets(m),
         status' \in Busy => status \in Busy,
         ~excused' /\ status' = "error" => status = "error",
         Ends(m) => excused'
  PROVE  DaemonKeeps
<1> DEFINE f == <<m>>
<1>1. inbox \in Seq(Messages) /\ calls \in Seq(Calls) /\ own' \in BOOLEAN
  BY DEF Types
<1>2. /\ f \in Seq(Messages) /\ Len(f) = 1
      /\ \A i \in 1 .. Len(f) : f[i] = m /\ i = 1
      /\ EndsNothing(f) <=> ~Ends(m)
      /\ ResetsIt(f) <=> Resets(m)
  BY FrontOne
<1>3. Announce(f)
  OBVIOUS
<1> HIDE DEF f
<1>4. inbox' \in Seq(Messages) /\ Announced(f)
  BY <1>1, <1>2, <1>3, AnnounceAlone
<1>5. Types'
  BY <1>1, <1>4, DaemonTypes
<1>6. CallsFit'
  BY <1>1 DEF CallsFit
<1>7. DaemonMoves(f)
  BY <1>2, <1>4 DEF DaemonMoves, StartWaits
<1> QED
  BY <1>5, <1>6, <1>7 DEF DaemonKeeps

LEMMA StopKeeps ==
  ASSUME Types, CallsFit, Infer \/ Postprocess
  PROVE  DaemonKeeps
<1>1. /\ status \in {"inferring", "postprocessing"} /\ UNCHANGED <<own, liveError>> /\ DaemonStep
      /\ events' \in 0 .. MaxEvents /\ own \in BOOLEAN
  BY FrontendConstants DEF Infer, Postprocess, Types
<1>2. CASE Finish(<<Result(own)>>, "ok")
  <2> DEFINE r == Result(own)
             ms == <<r>>
  <2>1. r \in Messages /\ ~Begins(r) /\ r.mine = own
    BY <1>1, MessageTypes, MessageKinds
  <2> HIDE DEF r
  <2>2. ms \in Seq(Messages) /\ Len(ms) = 1 /\ ms[1] = r
    BY <2>1
  <2>3. Finish(ms, "ok")
    BY <1>2 DEF r
  <2> HIDE DEF ms
  <2>4. \A i \in 1 .. Len(ms) :
          /\ ~Begins(ms[i])
          /\ Ends(ms[i]) => i = Len(ms)
          /\ ms[i].msg = "result" /\ ms[i].mine => own
    BY <2>1, <2>2
  <2> QED
    BY <1>1, <2>2, <2>3, <2>4, FinishKeeps
<1>3. CASE Finish(<<Notification>>, "error")
  <2> DEFINE r == Notification
             ms == <<r>>
  <2>1. r \in Messages /\ ~Begins(r) /\ ~Ends(r) /\ r.msg = "notice"
    BY MessageTypes, MessageKinds
  <2> HIDE DEF r
  <2>2. ms \in Seq(Messages) /\ Len(ms) = 1 /\ ms[1] = r
    BY <2>1
  <2>3. Finish(ms, "error")
    BY <1>3 DEF r
  <2> HIDE DEF ms
  <2>4. \A i \in 1 .. Len(ms) :
          /\ ~Begins(ms[i])
          /\ Ends(ms[i]) => i = Len(ms)
          /\ ms[i].msg = "result" /\ ms[i].mine => own
    BY <2>1, <2>2
  <2> QED
    BY <1>1, <2>2, <2>3, <2>4, FinishKeeps
<1>4. CASE Finish(<<Notification, Result(own)>>, "ok")
  <2> DEFINE n == Notification
             r == Result(own)
             ms == <<n, r>>
  <2>1. /\ r \in Messages /\ ~Begins(r) /\ r.mine = own
        /\ n \in Messages /\ ~Begins(n) /\ ~Ends(n) /\ n.msg = "notice"
    BY <1>1, MessageTypes, MessageKinds
  <2> HIDE DEF r, n
  <2>2. ms \in Seq(Messages) /\ Len(ms) = 2 /\ ms[1] = n /\ ms[2] = r
    BY <2>1
  <2>3. Finish(ms, "ok")
    BY <1>4 DEF r, n
  <2> HIDE DEF ms
  <2>4. \A i \in 1 .. Len(ms) :
          /\ ~Begins(ms[i])
          /\ Ends(ms[i]) => i = Len(ms)
          /\ ms[i].msg = "result" /\ ms[i].mine => own
    BY <2>1, <2>2
  <2> QED
    BY <1>1, <2>2, <2>3, <2>4, FinishKeeps
<1>5. CASE Finish(<<>>, "error")
  <2> DEFINE ms == <<>>
  <2>1. ms \in Seq(Messages) /\ Len(ms) = 0
    BY EmptySeq
  <2>2. \A i \in 1 .. Len(ms) :
          /\ ~Begins(ms[i])
          /\ Ends(ms[i]) => i = Len(ms)
          /\ ms[i].msg = "result" /\ ms[i].mine => own
    BY <2>1
  <2>3. Finish(ms, "error")
    BY <1>5
  <2> HIDE DEF ms
  <2> QED
    BY <1>1, <2>1, <2>2, <2>3, FinishKeeps
<1>6. CASE /\ status = "inferring" /\ status' = "postprocessing"
           /\ Announce(<<Signal("postprocessing")>>) /\ UNCHANGED calls
  <2> DEFINE m == Signal("postprocessing")
  <2>1. m \in Messages /\ Begins(m) /\ ~Ends(m) /\ m.msg = "status"
    BY MessageTypes, MessageKinds DEF Statuses, Busy
  <2>2. Announce(<<m>>)
    BY <1>6
  <2> HIDE DEF m
  <2> QED
    BY <1>1, <1>6, <2>1, <2>2, OneKeeps DEF DaemonStep, Types, Busy, Statuses
<1> QED
  BY <1>2, <1>3, <1>4, <1>5, <1>6 DEF Infer, Postprocess

(* Nothing is announced.                                                    *)
LEMMA QuietKeeps ==
  ASSUME Types, CallsFit, UNCHANGED inbox, UNCHANGED addonVars, UNCHANGED <<keysDown, sent, own>>,
         excused' \in BOOLEAN, ~excused' => ~excused,
         status' \in Statuses \cup {"down"}, liveError' \in {"none", "recover", "idle"},
         events' \in 0 .. MaxEvents,
         status' = status \/ (status \notin Busy /\ status' = "idle"),
         \/ UNCHANGED calls
         \/ \E method \in {"otherStart", "stop"} : calls' = Append(calls, Call("none", method))
  PROVE  DaemonKeeps
<1> DEFINE f == <<>>
<1>1. f \in Seq(Messages) /\ Len(f) = 0
  BY EmptySeq
<1> HIDE DEF f
<1>2. inbox \in Seq(Messages) /\ calls \in Seq(Calls) /\ own' \in BOOLEAN
  BY DEF Types
<1>3. Announced(f)
  BY <1>1, <1>2 DEF Announced
<1>4. /\ calls' \in Seq(Calls) /\ Len(calls') >= Len(calls)
      /\ \A i \in 1 .. Len(calls) : calls'[i] = calls[i]
      /\ \A i \in 1 .. Len(calls') : i \in 1 .. Len(calls) \/ (calls'[i].slot = "none" /\ calls'[i].method # "start")
  <2>1. CASE UNCHANGED calls
    BY <1>2, <2>1
  <2>2. ASSUME NEW method \in {"otherStart", "stop"}, calls' = Append(calls, Call("none", method))
        PROVE  <1>4!1 /\ <1>4!2 /\ <1>4!3
    <3> DEFINE c == Call("none", method)
    <3>1. c \in Calls /\ c.slot = "none" /\ c.method # "start"
      BY MessageTypes DEF Slots, Call
    <3>2. calls' = Append(calls, c)
      BY <2>2
    <3> HIDE DEF c
    <3>3. /\ calls' \in Seq(Calls) /\ Len(calls') = Len(calls) + 1 /\ calls'[Len(calls) + 1] = c
          /\ \A i \in 1 .. Len(calls) : calls'[i] = calls[i]
      BY <1>2, <3>1, <3>2
    <3> QED
      BY <1>2, <3>1, <3>3
  <2> QED
    BY <2>1, <2>2
<1>5. Types'
  BY <1>2, <1>4, DaemonTypes
<1>6. CallsFit'
  <2>1. ASSUME status' \in {"inferring", "postprocessing"}
        PROVE  calls' # <<>> /\ calls'[1].method = "stop"
    <3>1. calls # <<>> /\ calls[1].method = "stop"
      BY <2>1 DEF CallsFit
    <3>2. 1 \in 1 .. Len(calls)
      BY <1>2, <3>1
    <3> QED
      BY <1>2, <1>4, <3>1, <3>2
  <2>2. \A i \in 1 .. Len(calls') : calls'[i].slot # "none" => calls'[i].method = calls'[i].slot
    BY <1>4 DEF CallsFit
  <2> QED
    BY <1>4, <2>1, <2>2 DEF CallsFit
<1>7. \A i \in DOMAIN calls' :
        calls'[i].method = "start" => \E j \in DOMAIN calls : calls[j].method = "start"
  BY <1>2, <1>4
<1>8. StartWaits => StartWaits'
  BY <1>2, <1>4 DEF StartWaits
<1>9. DaemonMoves(f)
  BY <1>1, <1>3, <1>7, <1>8 DEF DaemonMoves, EndsNothing, Busy
<1> QED
  BY <1>5, <1>6, <1>9 DEF DaemonKeeps

LEMMA LiveFailsKeeps ==
  ASSUME Types, CallsFit, LiveFails
  PROVE  DaemonKeeps
<1> DEFINE e == Signal("error")
           n == Notification
           f == <<e, n>>
<1>1. /\ e \in Messages /\ ~Begins(e) /\ e.msg = "status"
      /\ n \in Messages /\ ~Begins(n) /\ Resets(n) /\ n.msg = "notice"
  BY MessageTypes, MessageKinds DEF Statuses, Busy
<1>2. Announce(f) /\ UNCHANGED <<own, calls>> /\ UNCHANGED <<addonVars, keysDown, sent>>
  BY DEF LiveFails, LiveStep
<1>3. excused' = TRUE /\ status' = "error" /\ status = "recording" /\ liveError' = "recover"
      /\ events' \in 0 .. MaxEvents
  BY FrontendConstants DEF LiveFails, LiveStep, Types
<1> HIDE DEF e, n
<1>4. f \in Seq(Messages) /\ Len(f) = 2 /\ f[1] = e /\ f[2] = n
  BY <1>1
<1> HIDE DEF f
<1>5. inbox \in Seq(Messages) /\ calls' \in Seq(Calls) /\ own' \in BOOLEAN
  BY <1>2 DEF Types
<1>6. inbox' \in Seq(Messages) /\ Announced(f)
  BY <1>2, <1>4, <1>5, AnnounceAlone
<1>7. Types'
  BY <1>2, <1>3, <1>5, <1>6, DaemonTypes DEF Statuses
<1>8. CallsFit'
  BY <1>2, <1>3, <1>5 DEF CallsFit
<1>9. ResetsIt(f)
  BY <1>1, <1>4 DEF ResetsIt
<1>10. DaemonMoves(f)
  BY <1>1, <1>2, <1>3, <1>4, <1>6, <1>9 DEF DaemonMoves
<1> QED
  BY <1>7, <1>8, <1>10 DEF DaemonKeeps

LEMMA LiveRecoversKeeps ==
  ASSUME Types, CallsFit, LiveRecovers
  PROVE  DaemonKeeps
<1>1. /\ UNCHANGED <<own, calls, events>> /\ UNCHANGED <<addonVars, keysDown, sent>>
      /\ excused' = TRUE
  BY DEF LiveRecovers, LiveStep
<1>2. CASE /\ status' = (IF status = "error" THEN "idle" ELSE status) /\ liveError' = "idle"
           /\ UNCHANGED inbox
  BY <1>1, <1>2, QuietKeeps DEF Types, Busy, Statuses
<1>3. CASE liveError' = "none" /\ Announce(<<Signal("idle")>>) /\ UNCHANGED status
  <2> DEFINE m == Signal("idle")
  <2>1. m \in Messages /\ ~Begins(m) /\ m.msg = "status"
    BY MessageTypes, MessageKinds DEF Statuses, Busy
  <2>2. Announce(<<m>>)
    BY <1>3
  <2> HIDE DEF m
  <2> QED
    BY <1>1, <1>3, <2>1, <2>2, OneKeeps DEF Types
<1> QED
  BY <1>2, <1>3 DEF LiveRecovers

LEMMA NotifyKeeps ==
  ASSUME Types, CallsFit, Notify
  PROVE  DaemonKeeps
<1> DEFINE m == Notification
<1>1. m \in Messages /\ ~Begins(m) /\ ~Ends(m) /\ m.msg = "notice"
  BY MessageTypes, MessageKinds
<1>2. /\ Announce(<<m>>) /\ UNCHANGED <<status, own, liveError, calls>>
      /\ UNCHANGED <<addonVars, excused, keysDown, sent>> /\ events' \in 0 .. MaxEvents
  BY FrontendConstants DEF Notify, DaemonStep, daemonVars, Types
<1> HIDE DEF m
<1> QED
  BY <1>1, <1>2, OneKeeps DEF Types

LEMMA ReturnsKeeps ==
  ASSUME Types, CallsFit, Returns
  PROVE  DaemonKeeps
<1> DEFINE m == Availability("back")
<1>1. m \in Messages /\ ~Begins(m) /\ ~Ends(m) /\ m.msg = "availability"
  BY MessageTypes, MessageKinds
<1>2. /\ Announce(<<m>>) /\ UNCHANGED <<own, liveError, calls, events>>
      /\ status = "down" /\ status' = "idle"
      /\ UNCHANGED <<addonVars, excused, keysDown, sent>>
  BY DEF Returns, DaemonStep
<1> HIDE DEF m
<1> QED
  BY <1>1, <1>2, OneKeeps DEF Types, Busy, Statuses

LEMMA OtherCallKeeps ==
  ASSUME Types, CallsFit, NEW method \in {"otherStart", "stop"}, OtherCall(method)
  PROVE  DaemonKeeps
<1>1. /\ calls' = Append(calls, Call("none", method)) /\ UNCHANGED <<status, own, liveError, inbox>>
      /\ UNCHANGED <<addonVars, excused, keysDown, sent>> /\ events' \in 0 .. MaxEvents
  BY FrontendConstants DEF OtherCall, daemonVars, Types
<1> QED
  BY <1>1, QuietKeeps DEF Types

LEMMA DiesKeeps ==
  ASSUME Types, CallsFit, Dies
  PROVE  DaemonKeeps
<1> DEFINE m == Availability("gone")
           f == <<m>>
           rep == [i \in DOMAIN calls |-> Reply(calls[i].slot, "error")]
<1>1. /\ m \in Messages /\ ~Begins(m) /\ ~Ends(m) /\ Resets(m) /\ m.msg = "availability"
  BY MessageTypes, MessageKinds
<1>2. /\ Announce(f \o rep) /\ status' = "down" /\ liveError' = "none" /\ own' = FALSE /\ calls' = <<>>
      /\ UNCHANGED <<addonVars, excused, keysDown, sent>> /\ events' \in 0 .. MaxEvents
  BY FrontendConstants DEF Dies, DaemonStep, Types
<1>3. inbox \in Seq(Messages) /\ calls \in Seq(Calls)
  BY DEF Types
<1>4. IsReplies(rep)
  <2>1. \A i \in 1 .. Len(calls) : calls[i] \in Calls
    BY <1>3
  <2>2. \A i \in 1 .. Len(calls) : calls[i].slot \in Slots
    BY <2>1 DEF Calls
  <2>3. \A i \in 1 .. Len(calls) : Reply(calls[i].slot, "error") \in Messages
    BY <2>2, MessageTypes
  <2>4. rep = [i \in 1 .. Len(calls) |-> Reply(calls[i].slot, "error")] /\ Len(calls) \in Nat
    BY <1>3
  <2>5. rep \in [1 .. Len(calls) -> Messages]
    BY <2>3, <2>4
  <2>6. rep \in Seq(Messages) /\ Len(rep) = Len(calls)
    BY <2>4, <2>5
  <2>7. \A i \in 1 .. Len(calls) : rep[i] = Reply(calls[i].slot, "error")
    BY <2>4
  <2> QED
    BY <2>6, <2>7 DEF IsReplies, Reply
<1> HIDE DEF m, rep
<1>5. /\ f \in Seq(Messages) /\ Len(f) = 1
      /\ \A i \in 1 .. Len(f) : f[i] = m /\ i = 1
      /\ ResetsIt(f)
  BY <1>1, FrontOne
<1> HIDE DEF f
<1>6. inbox' \in Seq(Messages) /\ Announced(f)
  BY <1>2, <1>3, <1>4, <1>5, AnnounceGives
<1>7. calls' \in Seq(Calls) /\ \A i : i \notin DOMAIN calls'
  BY <1>2, EmptySeq
<1>8. Types'
  BY <1>2, <1>6, <1>7, DaemonTypes DEF Types
<1>9. CallsFit'
  BY <1>2, <1>7 DEF CallsFit
<1>10. DaemonMoves(f)
  BY <1>1, <1>2, <1>5, <1>6, <1>7 DEF DaemonMoves, Busy
<1> QED
  BY <1>8, <1>9, <1>10 DEF DaemonKeeps

Daemon ==
  \/ \E method \in {"otherStart", "stop"} : OtherCall(method)
  \/ Serve \/ LiveFails \/ LiveRecovers \/ Notify \/ Dies \/ Returns

LEMMA DaemonStepKeeps ==
  ASSUME Types, CallsFit, Daemon
  PROVE  DaemonKeeps
BY ServeStartKeeps, ServeStopKeeps, StopKeeps, LiveFailsKeeps, LiveRecoversKeeps, NotifyKeeps,
   ReturnsKeeps, OtherCallKeeps, DiesKeeps DEF Daemon, Serve

(* A message on its way was there before, or is of the front, or a reply.   *)
LEMMA AnnouncedSplit ==
  ASSUME inbox \in Seq(Messages), inbox' \in Seq(Messages), NEW front \in Seq(Messages), Announced(front)
  PROVE  /\ Len(inbox) \in Nat /\ Len(inbox') \in Nat /\ Len(front) \in Nat
         /\ Len(inbox') >= Len(inbox) + Len(front)
         /\ DOMAIN inbox = 1 .. Len(inbox) /\ DOMAIN inbox' = 1 .. Len(inbox')
         /\ \A i \in 1 .. Len(inbox') :
              \/ i \in 1 .. Len(inbox) /\ inbox'[i] = inbox[i]
              \/ /\ i > Len(inbox) /\ i - Len(inbox) \in 1 .. Len(front)
                 /\ inbox'[i] = front[i - Len(inbox)]
              \/ /\ i > Len(inbox) + Len(front) /\ inbox'[i].msg = "reply"
                 /\ ~Ends(inbox'[i]) /\ ~Begins(inbox'[i])
         /\ \A i \in 1 .. Len(inbox) : i \in 1 .. Len(inbox') /\ inbox'[i] = inbox[i]
         /\ \A i \in 1 .. Len(front) :
              Len(inbox) + i \in 1 .. Len(inbox') /\ inbox'[Len(inbox) + i] = front[i]
<1>1. /\ Len(inbox) \in Nat /\ Len(inbox') \in Nat /\ Len(front) \in Nat
      /\ DOMAIN inbox = 1 .. Len(inbox) /\ DOMAIN inbox' = 1 .. Len(inbox')
  OBVIOUS
<1>2. /\ Len(inbox') >= Len(inbox) + Len(front)
      /\ \A i \in 1 .. Len(inbox) : inbox'[i] = inbox[i]
      /\ \A i \in 1 .. Len(front) : inbox'[Len(inbox) + i] = front[i]
      /\ \A i \in Len(inbox) + Len(front) + 1 .. Len(inbox') : inbox'[i].msg = "reply"
  BY DEF Announced
<1>3. ASSUME NEW i \in 1 .. Len(inbox')
      PROVE  \/ i \in 1 .. Len(inbox) /\ inbox'[i] = inbox[i]
             \/ /\ i > Len(inbox) /\ i - Len(inbox) \in 1 .. Len(front)
                /\ inbox'[i] = front[i - Len(inbox)]
             \/ /\ i > Len(inbox) + Len(front) /\ inbox'[i].msg = "reply"
                /\ ~Ends(inbox'[i]) /\ ~Begins(inbox'[i])
  <2>1. CASE i \in 1 .. Len(inbox)
    BY <1>2, <2>1
  <2>2. CASE i > Len(inbox) /\ i - Len(inbox) \in 1 .. Len(front)
    <3>1. Len(inbox) + (i - Len(inbox)) = i
      BY <1>1
    <3> QED
      BY <1>2, <2>2, <3>1
  <2>3. CASE i > Len(inbox) + Len(front)
    <3>1. inbox'[i].msg = "reply"
      BY <1>1, <1>2, <2>3
    <3> QED
      BY <2>3, <3>1 DEF Ends, Begins
  <2> QED
    BY <1>1, <2>1, <2>2, <2>3
<1>4. \A i \in 1 .. Len(inbox) : i \in 1 .. Len(inbox') /\ inbox'[i] = inbox[i]
  BY <1>1, <1>2
<1>5. \A i \in 1 .. Len(front) :
        Len(inbox) + i \in 1 .. Len(inbox') /\ inbox'[Len(inbox) + i] = front[i]
  BY <1>1, <1>2
<1> QED
  BY <1>1, <1>2, <1>3, <1>4, <1>5

LEMMA DaemonIdleFollows ==
  ASSUME Types, Types', NEW front, DaemonMoves(front), IdleFollows
  PROVE  IdleFollows'
<1>1. /\ front \in Seq(Messages) /\ Announced(front) /\ UNCHANGED awaiting
      /\ \A i \in 1 .. Len(front) :
           front[i].msg = "result" => i + 1 \in 1 .. Len(front) /\ front[i + 1] = Signal("idle")
  BY DEF DaemonMoves, addonVars
<1>2. inbox \in Seq(Messages) /\ inbox' \in Seq(Messages)
  BY DEF Types
<1>3. /\ Len(inbox) \in Nat /\ Len(inbox') \in Nat /\ Len(front) \in Nat
      /\ Len(inbox') >= Len(inbox) + Len(front)
      /\ DOMAIN inbox = 1 .. Len(inbox) /\ DOMAIN inbox' = 1 .. Len(inbox')
      /\ \A i \in 1 .. Len(inbox') :
           \/ i \in 1 .. Len(inbox) /\ inbox'[i] = inbox[i]
           \/ /\ i > Len(inbox) /\ i - Len(inbox) \in 1 .. Len(front)
              /\ inbox'[i] = front[i - Len(inbox)]
           \/ inbox'[i].msg = "reply"
      /\ \A i \in 1 .. Len(inbox) : i \in 1 .. Len(inbox') /\ inbox'[i] = inbox[i]
      /\ \A i \in 1 .. Len(front) :
           Len(inbox) + i \in 1 .. Len(inbox') /\ inbox'[Len(inbox) + i] = front[i]
  BY <1>1, <1>2, AnnouncedSplit
<1>4. awaiting' => inbox' # <<>> /\ inbox'[1] = Signal("idle")
  <2> HAVE awaiting'
  <2>1. inbox # <<>> /\ inbox[1] = Signal("idle")
    BY <1>1 DEF IdleFollows
  <2>2. 1 \in 1 .. Len(inbox)
    BY <1>2, <2>1
  <2> QED
    BY <1>2, <1>3, <2>1, <2>2
<1>5. ASSUME NEW i \in 1 .. Len(inbox'), inbox'[i].msg = "result"
      PROVE  i + 1 \in 1 .. Len(inbox') /\ inbox'[i + 1] = Signal("idle")
  <2>1. CASE i \in 1 .. Len(inbox) /\ inbox'[i] = inbox[i]
    <3>1. i + 1 \in 1 .. Len(inbox) /\ inbox[i + 1] = Signal("idle")
      BY <1>3, <1>5, <2>1 DEF IdleFollows
    <3> QED
      BY <1>3, <3>1
  <2>2. CASE /\ i > Len(inbox) /\ i - Len(inbox) \in 1 .. Len(front)
             /\ inbox'[i] = front[i - Len(inbox)]
    <3>1. (i - Len(inbox)) + 1 \in 1 .. Len(front) /\ front[(i - Len(inbox)) + 1] = Signal("idle")
      BY <1>1, <1>5, <2>2
    <3>2. Len(inbox) + ((i - Len(inbox)) + 1) = i + 1
      BY <1>3
    <3> QED
      BY <1>3, <3>1, <3>2
  <2> QED
    BY <1>3, <1>5, <2>1, <2>2
<1> QED
  BY <1>3, <1>4, <1>5 DEF IdleFollows

LEMMA DaemonBeginningsEnd ==
  ASSUME Types, Types', NEW front, DaemonMoves(front), BeginningsEnd
  PROVE  BeginningsEnd'
<1>1. /\ front \in Seq(Messages) /\ Announced(front)
      /\ \A i \in 1 .. Len(front) :
           Begins(front[i]) => status' \in Busy \/ \E j \in 1 .. Len(front) : i < j /\ Resets(front[j])
      /\ status \in Busy => status' \in Busy \/ ResetsIt(front)
  BY DEF DaemonMoves
<1>2. inbox \in Seq(Messages) /\ inbox' \in Seq(Messages)
  BY DEF Types
<1>3. /\ Len(inbox) \in Nat /\ Len(inbox') \in Nat /\ Len(front) \in Nat
      /\ Len(inbox') >= Len(inbox) + Len(front)
      /\ DOMAIN inbox = 1 .. Len(inbox) /\ DOMAIN inbox' = 1 .. Len(inbox')
      /\ \A i \in 1 .. Len(inbox') :
           \/ i \in 1 .. Len(inbox) /\ inbox'[i] = inbox[i]
           \/ /\ i > Len(inbox) /\ i - Len(inbox) \in 1 .. Len(front)
              /\ inbox'[i] = front[i - Len(inbox)]
           \/ ~Begins(inbox'[i])
      /\ \A i \in 1 .. Len(inbox) : i \in 1 .. Len(inbox') /\ inbox'[i] = inbox[i]
      /\ \A i \in 1 .. Len(front) :
           Len(inbox) + i \in 1 .. Len(inbox') /\ inbox'[Len(inbox) + i] = front[i]
  BY <1>1, <1>2, AnnouncedSplit
<1>4. ASSUME NEW i \in 1 .. Len(inbox'), Begins(inbox'[i])
      PROVE  status' \in Busy \/ \E j \in 1 .. Len(inbox') : i < j /\ Resets(inbox'[j])
  <2>1. CASE i \in 1 .. Len(inbox) /\ inbox'[i] = inbox[i]
    <3>1. status \in Busy \/ \E j \in 1 .. Len(inbox) : i < j /\ Resets(inbox[j])
      BY <1>3, <1>4, <2>1 DEF BeginningsEnd
    <3>2. CASE \E j \in 1 .. Len(inbox) : i < j /\ Resets(inbox[j])
      BY <1>3, <3>2
    <3>3. CASE ResetsIt(front)
      <4>1. PICK j \in 1 .. Len(front) : Resets(front[j])
        BY <3>3 DEF ResetsIt
      <4>2. Len(inbox) + j \in 1 .. Len(inbox') /\ Resets(inbox'[Len(inbox) + j]) /\ i < Len(inbox) + j
        BY <1>3, <2>1, <4>1
      <4> QED
        BY <4>2
    <3> QED
      BY <1>1, <3>1, <3>2, <3>3
  <2>2. CASE /\ i > Len(inbox) /\ i - Len(inbox) \in 1 .. Len(front)
             /\ inbox'[i] = front[i - Len(inbox)]
    <3>1. status' \in Busy \/ \E j \in 1 .. Len(front) : i - Len(inbox) < j /\ Resets(front[j])
      BY <1>1, <1>4, <2>2
    <3>2. ASSUME NEW j \in 1 .. Len(front), i - Len(inbox) < j, Resets(front[j])
          PROVE  Len(inbox) + j \in 1 .. Len(inbox') /\ Resets(inbox'[Len(inbox) + j]) /\ i < Len(inbox) + j
      BY <1>3, <3>2
    <3> QED
      BY <3>1, <3>2
  <2> QED
    BY <1>3, <1>4, <2>1, <2>2
<1> QED
  BY <1>3, <1>4 DEF BeginningsEnd

LEMMA DaemonFollowedEnd ==
  ASSUME Types, Types', NEW front, DaemonMoves(front), IdleFollows, FollowedEnd
  PROVE  FollowedEnd'
<1>1. /\ front \in Seq(Messages) /\ Announced(front) /\ UNCHANGED <<recording, awaiting>>
      /\ status \in Busy => status' \in Busy \/ ResetsIt(front)
      /\ StartWaits => StartWaits' \/ status' \in Busy \/ ResetsIt(front)
  BY DEF DaemonMoves, addonVars
<1>2. inbox \in Seq(Messages) /\ inbox' \in Seq(Messages)
  BY DEF Types
<1>3. /\ Len(inbox) \in Nat /\ Len(inbox') \in Nat /\ Len(front) \in Nat
      /\ DOMAIN inbox = 1 .. Len(inbox) /\ DOMAIN inbox' = 1 .. Len(inbox')
      /\ \A i \in 1 .. Len(inbox) : i \in 1 .. Len(inbox') /\ inbox'[i] = inbox[i]
      /\ \A i \in 1 .. Len(front) :
           Len(inbox) + i \in 1 .. Len(inbox') /\ inbox'[Len(inbox) + i] = front[i]
  BY <1>1, <1>2, AnnouncedSplit
<1>4. CASE ResetsIt(front)
  <2>1. PICK j \in 1 .. Len(front) : Resets(front[j])
    BY <1>4 DEF ResetsIt
  <2>2. awaiting => Len(inbox) >= 1
    BY <1>2 DEF IdleFollows
  <2>3. Len(inbox) + j \in DOMAIN inbox' /\ Resets(inbox'[Len(inbox) + j]) /\ (awaiting' => Len(inbox) + j > 1)
    BY <1>1, <1>3, <2>1, <2>2
  <2> QED
    BY <2>3 DEF FollowedEnd
<1>5. CASE \E j \in DOMAIN inbox : Resets(inbox[j]) /\ (awaiting => j > 1)
  BY <1>1, <1>3, <1>5 DEF FollowedEnd
<1> QED
  BY <1>1, <1>4, <1>5 DEF FollowedEnd

LEMMA DaemonStartsAreSeen ==
  ASSUME NEW front, DaemonMoves(front), StartsAreSeen
  PROVE  StartsAreSeen'
BY DEF DaemonMoves, addonVars, StartsAreSeen

LEMMA DaemonOwnIsShown ==
  ASSUME Types, Types', NEW front, DaemonMoves(front), StartsAreSeen, OwnIsShown
  PROVE  OwnIsShown'
<1> SUFFICES ASSUME ~excused'
             PROVE  /\ status' # "error"
                    /\ status' \in Busy /\ own' => Shown(Len(inbox) + 1)'
                    /\ \A i \in DOMAIN inbox' :
                         inbox'[i].msg = "result" /\ inbox'[i].mine => seen' /\ Shown(i)'
  BY DEF OwnIsShown
<1>1. /\ front \in Seq(Messages) /\ Announced(front) /\ UNCHANGED <<recording, remoteStatus, seen>>
      /\ ~excused
      /\ status' = "error" => status = "error"
      /\ status' \in Busy /\ own' => ShowsNew(front) \/ (status \in Busy /\ own /\ EndsNothing(front))
      /\ \A i \in 1 .. Len(front) : front[i].msg = "result" /\ front[i].mine =>
           status \in Busy /\ own /\ \A j \in 1 .. i - 1 : ~Ends(front[j])
  BY DEF DaemonMoves, addonVars
<1>2. inbox \in Seq(Messages) /\ inbox' \in Seq(Messages)
  BY DEF Types
<1>3. /\ Len(inbox) \in Nat /\ Len(inbox') \in Nat /\ Len(front) \in Nat
      /\ Len(inbox') >= Len(inbox) + Len(front)
      /\ DOMAIN inbox = 1 .. Len(inbox) /\ DOMAIN inbox' = 1 .. Len(inbox')
      /\ \A i \in 1 .. Len(inbox') :
           \/ i \in 1 .. Len(inbox) /\ inbox'[i] = inbox[i]
           \/ /\ i > Len(inbox) /\ i - Len(inbox) \in 1 .. Len(front)
              /\ inbox'[i] = front[i - Len(inbox)]
           \/ /\ i > Len(inbox) + Len(front) /\ inbox'[i].msg = "reply"
              /\ ~Ends(inbox'[i]) /\ ~Begins(inbox'[i])
      /\ \A i \in 1 .. Len(inbox) : i \in 1 .. Len(inbox') /\ inbox'[i] = inbox[i]
      /\ \A i \in 1 .. Len(front) :
           Len(inbox) + i \in 1 .. Len(inbox') /\ inbox'[Len(inbox) + i] = front[i]
  BY <1>1, <1>2, AnnouncedSplit
<1>4. /\ status # "error"
      /\ status \in Busy /\ own => Shown(Len(inbox) + 1)
      /\ \A i \in 1 .. Len(inbox) : inbox[i].msg = "result" /\ inbox[i].mine => seen /\ Shown(i)
  BY <1>1, <1>3 DEF OwnIsShown
<1>5. ASSUME NEW n \in 1 .. Len(inbox) + 1, NEW p \in 1 .. Len(inbox') + 1, n <= p, Shown(n),
             \A j \in n .. p - 1 : ~Ends(inbox'[j])
      PROVE  Shown(p)'
  <2>1. PICK k \in 0 .. n - 1 : /\ IF k = 0 THEN recording \/ remoteStatus ELSE Begins(inbox[k])
                                /\ \A j \in k + 1 .. n - 1 : ~Ends(inbox[j])
    BY <1>5 DEF Shown
  <2>2. k \in 0 .. p - 1 /\ n \in Nat /\ p \in Nat /\ n - 1 <= Len(inbox)
    BY <1>3, <1>5
  <2>3. IF k = 0 THEN recording' \/ remoteStatus' ELSE Begins(inbox'[k])
    <3>1. CASE k = 0
      BY <1>1, <2>1, <3>1
    <3>2. CASE k # 0
      <4>1. k \in 1 .. Len(inbox)
        BY <1>3, <2>2, <3>2
      <4> QED
        BY <1>3, <2>1, <3>2, <4>1
    <3> QED
      BY <3>1, <3>2
  <2>4. ASSUME NEW j \in k + 1 .. p - 1 PROVE ~Ends(inbox'[j])
    <3>1. CASE j \in n .. p - 1
      BY <1>5, <3>1
    <3>2. CASE j \in k + 1 .. n - 1
      <4>1. j \in 1 .. Len(inbox)
        BY <1>3, <2>2, <3>2
      <4> QED
        BY <1>3, <2>1, <3>2, <4>1
    <3> QED
      BY <2>2, <3>1, <3>2
  <2> QED
    BY <2>2, <2>3, <2>4 DEF Shown
<1>6. ASSUME status' \in Busy, own'
      PROVE  Shown(Len(inbox) + 1)'
  <2>1. CASE status \in Busy /\ own /\ EndsNothing(front)
    <3>1. \A j \in Len(inbox) + 1 .. Len(inbox') : ~Ends(inbox'[j])
      <4> SUFFICES ASSUME NEW j \in Len(inbox) + 1 .. Len(inbox')
                   PROVE  ~Ends(inbox'[j])
        OBVIOUS
      <4>1. j \in 1 .. Len(inbox') /\ j \notin 1 .. Len(inbox)
        BY <1>3
      <4> QED
        BY <1>3, <2>1, <4>1 DEF EndsNothing
    <3>2. \A p \in {Len(inbox') + 1} : Shown(p)'
      <4> TAKE p \in {Len(inbox') + 1}
      <4>1. /\ p \in 1 .. Len(inbox') + 1 /\ Len(inbox) + 1 <= p
            /\ \A j \in Len(inbox) + 1 .. p - 1 : ~Ends(inbox'[j])
        BY <1>3, <3>1
      <4>2. Len(inbox) + 1 \in 1 .. Len(inbox) + 1
        BY <1>3
      <4> QED
        BY <1>4, <1>5, <2>1, <4>1, <4>2
    <3> QED
      BY <3>2 DEF Shown
  <2>2. CASE ShowsNew(front)
    <3>1. PICK k \in 1 .. Len(front) :
            Begins(front[k]) /\ \A j \in k + 1 .. Len(front) : ~Ends(front[j])
      BY <2>2 DEF ShowsNew
    <3>2. /\ Len(inbox) + k \in 0 .. Len(inbox') + 1 - 1 /\ Len(inbox) + k # 0
          /\ Begins(inbox'[Len(inbox) + k])
      BY <1>3, <3>1
    <3>3. ASSUME NEW j \in Len(inbox) + k + 1 .. Len(inbox') + 1 - 1 PROVE ~Ends(inbox'[j])
      <4>1. j \in 1 .. Len(inbox') /\ j \notin 1 .. Len(inbox)
        BY <1>3
      <4>2. j - Len(inbox) \in 1 .. Len(front) => j - Len(inbox) \in k + 1 .. Len(front)
        BY <1>3
      <4> QED
        BY <1>3, <3>1, <4>1, <4>2
    <3> QED
      BY <3>2, <3>3 DEF Shown
  <2> QED
    BY <1>1, <1>6, <2>1, <2>2
<1>7. ASSUME NEW i \in 1 .. Len(inbox'), inbox'[i].msg = "result", inbox'[i].mine
      PROVE  seen' /\ Shown(i)'
  <2>1. CASE i \in 1 .. Len(inbox) /\ inbox'[i] = inbox[i]
    <3>1. seen /\ Shown(i)
      BY <1>4, <1>7, <2>1
    <3>2. i \in 1 .. Len(inbox) + 1 /\ i \in 1 .. Len(inbox') + 1 /\ i <= i
          /\ \A j \in i .. i - 1 : ~Ends(inbox'[j])
      BY <1>3, <2>1
    <3> QED
      BY <1>1, <1>5, <3>1, <3>2
  <2>2. CASE /\ i > Len(inbox) /\ i - Len(inbox) \in 1 .. Len(front)
             /\ inbox'[i] = front[i - Len(inbox)]
    <3>1. /\ status \in Busy /\ own
          /\ \A j \in 1 .. (i - Len(inbox)) - 1 : ~Ends(front[j])
      BY <1>1, <1>7, <2>2
    <3>2. Shown(Len(inbox) + 1) /\ seen
      BY <1>4, <3>1 DEF StartsAreSeen
    <3>3. ASSUME NEW j \in Len(inbox) + 1 .. i - 1 PROVE ~Ends(inbox'[j])
      <4>1. j \in 1 .. Len(inbox') /\ j \notin 1 .. Len(inbox)
        BY <1>3
      <4>2. j - Len(inbox) \in 1 .. (i - Len(inbox)) - 1
        BY <1>3
      <4> QED
        BY <1>3, <3>1, <4>1, <4>2
    <3>4. Len(inbox) + 1 \in 1 .. Len(inbox) + 1 /\ i \in 1 .. Len(inbox') + 1 /\ Len(inbox) + 1 <= i
      BY <1>3, <2>2
    <3> QED
      BY <1>1, <1>5, <3>2, <3>3, <3>4
  <2> QED
    BY <1>3, <1>7, <2>1, <2>2
<1> QED
  BY <1>1, <1>3, <1>4, <1>6, <1>7

-----------------------------------------------------------------------------
(* What the delivery of a message does to the dictation the addon follows.  *)
Followed == recording \/ remoteStatus

DeliverMoves ==
  /\ inbox # <<>> /\ Len(inbox) >= 1 /\ Len(inbox') = Len(inbox) - 1
  /\ \A i \in 1 .. Len(inbox') : inbox'[i] = inbox[i + 1]
  /\ UNCHANGED <<status, own, calls, seen>>
  /\ Resets(inbox[1]) /\ ~awaiting => ~recording'
  /\ recording' => recording \/ Begins(inbox[1])
  /\ awaiting' => inbox[1].msg = "result"
  /\ ~excused' =>
       /\ ~excused
       /\ Begins(inbox[1]) /\ seen => Followed'
       /\ ~Ends(inbox[1]) /\ Followed => Followed'
  /\ startTimer' => startTimer

LEMMA StatusMoves ==
  ASSUME Types, IdleFollows, NEW s \in Statuses, HandleDaemonStatus(s)
  PROVE  DeliverMoves
<1> DEFINE m == Signal(s)
<1>1. Receive(m)
  BY DEF HandleDaemonStatus
<1>2. /\ inbox # <<>> /\ m = inbox[1] /\ Len(inbox') = Len(inbox) - 1 /\ Len(inbox) >= 1
      /\ \A i \in 1 .. Len(inbox') : inbox'[i] = inbox[i + 1]
  BY <1>1, ReceiveTypes
<1>3. /\ Ends(m) <=> s \in {"idle", "error"}
      /\ Begins(m) <=> s \in Busy
      /\ Resets(m) <=> s \in {"idle", "error"}
      /\ s \in Busy <=> s \notin {"idle", "error"}
  BY MessageKinds DEF Resets, Signal, Statuses, Busy
<1> HIDE DEF m
<1>4. UNCHANGED <<status, own, calls, seen, excused>>
  BY DEF HandleDaemonStatus, daemonVars
<1>5. /\ awaiting' = FALSE /\ (startTimer' => startTimer)
      /\ Resets(m) /\ ~awaiting => ~recording'
      /\ recording' => recording \/ Begins(m)
      /\ Begins(m) /\ seen => Followed'
      /\ ~Ends(m) /\ Followed => Followed'
  <2>1. CASE awaiting /\ s \in {"idle", "error"} /\ awaiting' = FALSE /\ IgnoreStatus
    BY <1>3, <2>1 DEF IgnoreStatus, KeepSession
  <2>2. CASE ~(awaiting /\ s \in {"idle", "error"}) /\ FollowStatus(s)
    <3>1. CASE recording /\ s \in {"idle", "error"} /\ ResetActiveRecording
      BY <1>3, <3>1 DEF ResetActiveRecording, Forget
    <3>2. CASE recording /\ s \notin {"idle", "error"} /\ awaiting' = FALSE /\ IgnoreStatus
      BY <1>3, <3>2 DEF IgnoreStatus, KeepSession, Followed
    <3>3. CASE /\ ~recording /\ remoteStatus /\ remoteStatus' = (s \notin {"idle", "error"})
               /\ awaiting' = FALSE /\ KeepSession /\ UNCHANGED startTimer
      BY <1>3, <3>3 DEF KeepSession, Followed
    <3>4. CASE /\ ~recording /\ s \in Busy /\ Follow(FALSE) /\ awaiting' = FALSE
               /\ UNCHANGED startTimer
      BY <1>3, <3>4 DEF Follow, Followed
    <3>5. CASE /\ ~recording /\ ~remoteStatus /\ ~(s \in Busy /\ seen)
               /\ awaiting' = FALSE /\ IgnoreStatus
      BY <1>3, <3>5 DEF IgnoreStatus, KeepSession, Followed
    <3> QED
      BY <2>2, <3>1, <3>2, <3>3, <3>4, <3>5 DEF FollowStatus
  <2> QED
    BY <2>1, <2>2 DEF HandleDaemonStatus
<1> QED
  BY <1>2, <1>4, <1>5 DEF DeliverMoves

LEMMA ResultMoves ==
  ASSUME Types, IdleFollows, NEW mine \in BOOLEAN, HandleRecognitionResult(mine)
  PROVE  DeliverMoves
<1> DEFINE m == Result(mine)
<1>1. Receive(m)
  BY DEF HandleRecognitionResult
<1>2. /\ inbox # <<>> /\ m = inbox[1] /\ Len(inbox') = Len(inbox) - 1 /\ Len(inbox) >= 1
      /\ \A i \in 1 .. Len(inbox') : inbox'[i] = inbox[i + 1]
  BY <1>1, ReceiveTypes
<1>3. Ends(m) /\ ~Begins(m) /\ m.msg = "result"
  BY MessageKinds
<1> HIDE DEF m
<1>4. UNCHANGED <<status, own, calls, seen, excused>>
  BY DEF HandleRecognitionResult, daemonVars
<1>5. ~recording' /\ (startTimer' => startTimer)
  <2>1. CASE recording
    BY <2>1 DEF HandleRecognitionResult, Forget
  <2>2. CASE ~recording
    BY <2>2 DEF HandleRecognitionResult, IgnoreStatus, KeepSession
  <2> QED
    BY <2>1, <2>2
<1> QED
  BY <1>2, <1>3, <1>4, <1>5 DEF DeliverMoves

LEMMA NotificationMoves ==
  ASSUME Types, IdleFollows, HandleDaemonNotification
  PROVE  DeliverMoves
<1> DEFINE m == Notification
<1>1. Receive(m)
  BY DEF HandleDaemonNotification
<1>2. /\ inbox # <<>> /\ m = inbox[1] /\ Len(inbox') = Len(inbox) - 1 /\ Len(inbox) >= 1
      /\ \A i \in 1 .. Len(inbox') : inbox'[i] = inbox[i + 1]
  BY <1>1, ReceiveTypes
<1> HIDE DEF m
<1>3. UNCHANGED <<status, own, calls, seen>>
  BY DEF HandleDaemonNotification, daemonVars
<1>4. recording' = FALSE /\ awaiting' = FALSE /\ startTimer' = FALSE /\ excused' = TRUE
  BY DEF HandleDaemonNotification, ResetActiveRecording, Forget
<1> QED
  BY <1>2, <1>3, <1>4 DEF DeliverMoves

LEMMA AvailabilityMoves ==
  ASSUME Types, IdleFollows, NEW a \in {"gone", "back"}, HandleDaemonAvailability(a)
  PROVE  DeliverMoves
<1> DEFINE m == Availability(a)
<1>1. Receive(m)
  BY DEF HandleDaemonAvailability
<1>2. /\ inbox # <<>> /\ m = inbox[1] /\ Len(inbox') = Len(inbox) - 1 /\ Len(inbox) >= 1
      /\ \A i \in 1 .. Len(inbox') : inbox'[i] = inbox[i + 1]
  BY <1>1, ReceiveTypes
<1>3. ~Ends(m) /\ ~Begins(m) /\ (Resets(m) => a = "gone")
  BY MessageKinds DEF Resets, Availability
<1> HIDE DEF m
<1>4. UNCHANGED <<status, own, calls, seen>>
  BY DEF HandleDaemonAvailability, daemonVars
<1>5. CASE /\ a = "gone" /\ (recording \/ remoteStatus)
           /\ ResetActiveRecording /\ excused' = TRUE
  <2>1. recording' = FALSE /\ awaiting' = FALSE /\ startTimer' = FALSE
    BY <1>5 DEF ResetActiveRecording, Forget
  <2> QED
    BY <1>2, <1>4, <1>5, <2>1 DEF DeliverMoves
<1>6. CASE /\ ~(a = "gone" /\ (recording \/ remoteStatus))
           /\ awaiting' = FALSE /\ IgnoreStatus /\ UNCHANGED excused
  <2>1. UNCHANGED <<recording, remoteStatus, startTimer>>
    BY <1>6 DEF IgnoreStatus, KeepSession
  <2> QED
    BY <1>2, <1>3, <1>4, <1>6, <2>1 DEF DeliverMoves, Followed
<1> QED
  BY <1>5, <1>6 DEF HandleDaemonAvailability

LEMMA ReplyMoves ==
  ASSUME Types, IdleFollows, NEW slot \in Slots, NEW arg \in {"ok", "error"}, HandleReply(slot, arg)
  PROVE  DeliverMoves
<1> DEFINE m == Reply(slot, arg)
<1>1. Receive(m)
  BY DEF HandleReply
<1>2. /\ inbox # <<>> /\ m = inbox[1] /\ Len(inbox') = Len(inbox) - 1 /\ Len(inbox) >= 1
      /\ \A i \in 1 .. Len(inbox') : inbox'[i] = inbox[i + 1]
  BY <1>1, ReceiveTypes
<1>3. ~Ends(m) /\ ~Begins(m) /\ ~Resets(m) /\ m.msg = "reply"
  BY DEF Ends, Begins, Resets, Reply
<1> HIDE DEF m
<1>4. ~awaiting
  <2>1. Signal("idle").msg = "status"
    BY DEF Signal
  <2> QED
    BY <1>2, <1>3, <2>1 DEF IdleFollows
<1>5. CASE CallFails(slot)
  <2>1. UNCHANGED <<awaiting, startTimer, seen, status, own, calls>>
    BY <1>5 DEF CallFails, HandleReply, daemonVars
  <2>2. CASE recording' = FALSE /\ excused' = TRUE
    BY <1>2, <1>3, <1>4, <2>1, <2>2 DEF DeliverMoves
  <2>3. CASE UNCHANGED <<recording, remoteStatus, excused>>
    BY <1>2, <1>3, <1>4, <2>1, <2>3 DEF DeliverMoves, Followed
  <2> QED
    BY <1>5, <2>2, <2>3 DEF CallFails, Forget, KeepSession
<1>6. CASE /\ KeepSession
           /\ UNCHANGED <<startTimer, awaiting, remoteStatus, seen, excused, daemonVars, calls>>
  BY <1>2, <1>3, <1>4, <1>6 DEF DeliverMoves, Followed, KeepSession, daemonVars
<1> QED
  BY <1>5, <1>6 DEF HandleReply

LEMMA DropMoves ==
  ASSUME Types, IdleFollows, NEW arg \in {"ok", "error"}, DropReply(arg)
  PROVE  DeliverMoves
<1> DEFINE m == Reply("none", arg)
<1>1. Receive(m) /\ UNCHANGED <<addonVars, excused, daemonVars, calls>>
  BY DEF DropReply
<1>2. /\ inbox # <<>> /\ m = inbox[1] /\ Len(inbox') = Len(inbox) - 1 /\ Len(inbox) >= 1
      /\ \A i \in 1 .. Len(inbox') : inbox'[i] = inbox[i + 1]
  BY <1>1, ReceiveTypes
<1>3. ~Ends(m) /\ ~Begins(m) /\ ~Resets(m) /\ m.msg = "reply"
  BY DEF Ends, Begins, Resets, Reply
<1> HIDE DEF m
<1>4. ~awaiting
  <2>1. Signal("idle").msg = "status"
    BY DEF Signal
  <2> QED
    BY <1>2, <1>3, <2>1 DEF IdleFollows
<1> QED
  BY <1>1, <1>2, <1>3, <1>4 DEF DeliverMoves, Followed, addonVars, daemonVars

LEMMA DeliverGives ==
  ASSUME Types, IdleFollows, Deliver
  PROVE  DeliverMoves
BY StatusMoves, ResultMoves, NotificationMoves, AvailabilityMoves, ReplyMoves, DropMoves
DEF Deliver, Slots

LEMMA InboxRange ==
  ASSUME Types
  PROVE  Len(inbox) \in Nat /\ DOMAIN inbox = 1 .. Len(inbox) /\ (inbox # <<>> <=> Len(inbox) >= 1)
BY DEF Types

(* What is left on its way is what was behind the head.                     *)
LEMMA DeliverShifts ==
  ASSUME Types, Types', DeliverMoves
  PROVE  /\ Len(inbox) \in Nat /\ Len(inbox') = Len(inbox) - 1 /\ Len(inbox) >= 1
         /\ DOMAIN inbox = 1 .. Len(inbox) /\ DOMAIN inbox' = 1 .. Len(inbox')
         /\ \A i \in DOMAIN inbox' : i + 1 \in DOMAIN inbox /\ inbox'[i] = inbox[i + 1]
         /\ \A j \in DOMAIN inbox : j > 1 => j - 1 \in DOMAIN inbox' /\ inbox'[j - 1] = inbox[j]
<1>1. /\ Len(inbox) \in Nat /\ DOMAIN inbox = 1 .. Len(inbox)
      /\ DOMAIN inbox' = 1 .. Len(inbox')
  BY DEF Types
<1>2. /\ Len(inbox') = Len(inbox) - 1 /\ Len(inbox) >= 1
      /\ \A i \in 1 .. Len(inbox') : inbox'[i] = inbox[i + 1]
  BY DEF DeliverMoves
<1>3. \A i \in DOMAIN inbox' : i + 1 \in DOMAIN inbox /\ inbox'[i] = inbox[i + 1]
  BY <1>1, <1>2
<1>4. \A j \in DOMAIN inbox : j > 1 => j - 1 \in DOMAIN inbox' /\ inbox'[j - 1] = inbox[j]
  <2> SUFFICES ASSUME NEW j \in DOMAIN inbox, j > 1
               PROVE  j - 1 \in DOMAIN inbox' /\ inbox'[j - 1] = inbox[j]
    OBVIOUS
  <2>1. j - 1 \in 1 .. Len(inbox') /\ (j - 1) + 1 = j
    BY <1>1, <1>2
  <2> QED
    BY <1>1, <1>2, <2>1
<1> QED
  BY <1>1, <1>2, <1>3, <1>4

LEMMA DeliverIdleFollows ==
  ASSUME Types, Types', DeliverMoves, IdleFollows
  PROVE  IdleFollows'
<1>1. /\ Len(inbox) \in Nat /\ Len(inbox') = Len(inbox) - 1 /\ Len(inbox) >= 1
      /\ DOMAIN inbox = 1 .. Len(inbox) /\ DOMAIN inbox' = 1 .. Len(inbox')
      /\ \A i \in DOMAIN inbox' : i + 1 \in DOMAIN inbox /\ inbox'[i] = inbox[i + 1]
      /\ \A j \in DOMAIN inbox : j > 1 => j - 1 \in DOMAIN inbox' /\ inbox'[j - 1] = inbox[j]
  BY DeliverShifts
<1>2. awaiting' => inbox' # <<>> /\ inbox'[1] = Signal("idle")
  <2> HAVE awaiting'
  <2>1. inbox[1].msg = "result" /\ 1 \in DOMAIN inbox
    BY <1>1 DEF DeliverMoves
  <2>2. 2 \in DOMAIN inbox /\ inbox[2] = Signal("idle")
    <3>1. 1 + 1 \in DOMAIN inbox /\ inbox[1 + 1] = Signal("idle")
      BY <2>1 DEF IdleFollows
    <3> QED
      BY <3>1
  <2>3. 1 \in DOMAIN inbox' /\ inbox'[1] = Signal("idle")
    <3>1. 2 - 1 \in DOMAIN inbox' /\ inbox'[2 - 1] = Signal("idle")
      BY <1>1, <2>2
    <3> QED
      BY <3>1
  <2> QED
    BY <1>1, <2>3 DEF Types
<1>3. ASSUME NEW i \in DOMAIN inbox', inbox'[i].msg = "result"
      PROVE  i + 1 \in DOMAIN inbox' /\ inbox'[i + 1] = Signal("idle")
  <2>1. i + 1 \in DOMAIN inbox /\ inbox[i + 1].msg = "result"
    BY <1>1, <1>3
  <2>2. (i + 1) + 1 \in DOMAIN inbox /\ inbox[(i + 1) + 1] = Signal("idle")
    BY <2>1 DEF IdleFollows
  <2>3. (i + 1) + 1 > 1 /\ ((i + 1) + 1) - 1 = i + 1
    BY <1>1
  <2> QED
    BY <1>1, <2>2, <2>3
<1> QED
  BY <1>2, <1>3 DEF IdleFollows

LEMMA DeliverBeginningsEnd ==
  ASSUME Types, Types', DeliverMoves, BeginningsEnd
  PROVE  BeginningsEnd'
<1>1. /\ Len(inbox) \in Nat
      /\ DOMAIN inbox = 1 .. Len(inbox) /\ DOMAIN inbox' = 1 .. Len(inbox')
      /\ \A i \in DOMAIN inbox' : i + 1 \in DOMAIN inbox /\ inbox'[i] = inbox[i + 1]
      /\ \A j \in DOMAIN inbox : j > 1 => j - 1 \in DOMAIN inbox' /\ inbox'[j - 1] = inbox[j]
  BY DeliverShifts
<1>2. ASSUME NEW i \in DOMAIN inbox', Begins(inbox'[i])
      PROVE  status' \in Busy \/ \E j \in DOMAIN inbox' : i < j /\ Resets(inbox'[j])
  <2>1. i + 1 \in DOMAIN inbox /\ Begins(inbox[i + 1])
    BY <1>1, <1>2
  <2>2. status \in Busy \/ \E j \in DOMAIN inbox : i + 1 < j /\ Resets(inbox[j])
    BY <2>1 DEF BeginningsEnd
  <2>3. ASSUME NEW j \in DOMAIN inbox, i + 1 < j, Resets(inbox[j])
        PROVE  j - 1 \in DOMAIN inbox' /\ i < j - 1 /\ Resets(inbox'[j - 1])
    <3>1. j > 1 /\ i < j - 1
      BY <1>1, <2>3
    <3> QED
      BY <1>1, <2>3, <3>1
  <2> QED
    BY <2>2, <2>3 DEF DeliverMoves
<1> QED
  BY <1>2 DEF BeginningsEnd

LEMMA DeliverFollowedEnd ==
  ASSUME Types, Types', DeliverMoves, IdleFollows, BeginningsEnd, FollowedEnd
  PROVE  FollowedEnd'
<1> SUFFICES ASSUME recording'
             PROVE  \/ status' \in Busy
                    \/ StartWaits'
                    \/ \E j \in DOMAIN inbox' : Resets(inbox'[j]) /\ (awaiting' => j > 1)
  BY DEF FollowedEnd
<1>1. /\ Len(inbox) \in Nat /\ Len(inbox) >= 1
      /\ DOMAIN inbox = 1 .. Len(inbox) /\ DOMAIN inbox' = 1 .. Len(inbox')
      /\ \A j \in DOMAIN inbox : j > 1 => j - 1 \in DOMAIN inbox' /\ inbox'[j - 1] = inbox[j]
  BY DeliverShifts
<1>2. /\ UNCHANGED <<status, own, calls, seen>>
      /\ Resets(inbox[1]) /\ ~awaiting => ~recording'
      /\ recording' => recording \/ Begins(inbox[1])
      /\ awaiting' => inbox[1].msg = "result"
  BY DEF DeliverMoves
<1>3. ~awaiting'
  <2>1. Signal("idle").msg = "status"
    BY DEF Signal
  <2>2. inbox[1].msg = "result" => ~awaiting
    BY <2>1 DEF IdleFollows
  <2>3. inbox[1].msg = "result" => Resets(inbox[1])
    BY DEF Resets, Ends
  <2> QED
    BY <1>2, <2>2, <2>3
<1>4. ASSUME NEW j \in DOMAIN inbox, j > 1, Resets(inbox[j])
      PROVE  \E i \in DOMAIN inbox' : Resets(inbox'[i]) /\ (awaiting' => i > 1)
  BY <1>1, <1>3, <1>4
<1>5. CASE recording
  <2>1. CASE status \in Busy \/ StartWaits
    BY <1>2, <2>1 DEF StartWaits
  <2>2. ASSUME NEW j \in DOMAIN inbox, Resets(inbox[j]), awaiting => j > 1
        PROVE  j > 1
    BY <1>1, <1>2, <2>2
  <2> QED
    BY <1>4, <1>5, <2>1, <2>2 DEF FollowedEnd
<1>6. CASE Begins(inbox[1])
  <2>1. 1 \in DOMAIN inbox
    BY <1>1
  <2>2. status \in Busy \/ \E j \in DOMAIN inbox : 1 < j /\ Resets(inbox[j])
    BY <1>6, <2>1 DEF BeginningsEnd
  <2> QED
    BY <1>1, <1>2, <1>4, <2>2
<1> QED
  BY <1>2, <1>5, <1>6

LEMMA DeliverStartsAreSeen ==
  ASSUME DeliverMoves, StartsAreSeen
  PROVE  StartsAreSeen'
BY DEF DeliverMoves, StartsAreSeen

LEMMA DeliverOwnIsShown ==
  ASSUME Types, Types', DeliverMoves, StartsAreSeen, OwnIsShown
  PROVE  OwnIsShown'
<1> SUFFICES ASSUME ~excused'
             PROVE  /\ status' # "error"
                    /\ status' \in Busy /\ own' => Shown(Len(inbox) + 1)'
                    /\ \A i \in DOMAIN inbox' :
                         inbox'[i].msg = "result" /\ inbox'[i].mine => seen' /\ Shown(i)'
  BY DEF OwnIsShown
<1>1. /\ UNCHANGED <<status, own, calls, seen>> /\ ~excused
      /\ Begins(inbox[1]) /\ seen => Followed'
      /\ ~Ends(inbox[1]) /\ Followed => Followed'
  BY DEF DeliverMoves
<1>2. /\ Len(inbox) \in Nat /\ Len(inbox') = Len(inbox) - 1 /\ Len(inbox) >= 1
      /\ DOMAIN inbox = 1 .. Len(inbox) /\ DOMAIN inbox' = 1 .. Len(inbox')
      /\ \A i \in DOMAIN inbox' : i + 1 \in DOMAIN inbox /\ inbox'[i] = inbox[i + 1]
      /\ \A j \in DOMAIN inbox : j > 1 => j - 1 \in DOMAIN inbox' /\ inbox'[j - 1] = inbox[j]
  BY DeliverShifts
<1>3. /\ status # "error"
      /\ status \in Busy /\ own => Shown(Len(inbox) + 1)
      /\ \A i \in DOMAIN inbox : inbox[i].msg = "result" /\ inbox[i].mine => seen /\ Shown(i)
  BY <1>1 DEF OwnIsShown
<1>4. ASSUME NEW n \in 1 .. Len(inbox') + 1, seen, Shown(n + 1)
      PROVE  Shown(n)'
  <2>1. PICK k \in 0 .. n : /\ IF k = 0 THEN recording \/ remoteStatus ELSE Begins(inbox[k])
                            /\ \A j \in k + 1 .. n : ~Ends(inbox[j])
    BY <1>2, <1>4 DEF Shown
  <2>2. \A j \in 1 .. n - 1 : j \in DOMAIN inbox' /\ inbox'[j] = inbox[j + 1] /\ j + 1 \in 2 .. n
    BY <1>2
  <2>3. CASE k \in {0, 1}
    <3>1. Followed'
      <4>1. CASE k = 0
        <5>1. 1 \in 1 .. n
          BY <1>2
        <5>2. ~Ends(inbox[1]) /\ Followed
          BY <2>1, <4>1, <5>1 DEF Followed
        <5> QED
          BY <1>1, <5>2
      <4>2. CASE k = 1
        BY <1>1, <1>4, <2>1, <4>2
      <4> QED
        BY <2>3, <4>1, <4>2
    <3>2. \A j \in 1 .. n - 1 : ~Ends(inbox'[j])
      <4> TAKE j \in 1 .. n - 1
      <4>1. j + 1 \in k + 1 .. n
        BY <1>2, <2>3
      <4> QED
        BY <2>1, <2>2, <4>1
    <3>3. 0 \in 0 .. n - 1
      BY <1>2
    <3> QED
      BY <3>1, <3>2, <3>3 DEF Shown, Followed
  <2>4. CASE k \in 2 .. n
    <3>1. k - 1 \in 1 .. n - 1 /\ k - 1 \in 0 .. n - 1 /\ (k - 1) + 1 = k /\ k - 1 # 0 /\ k # 0
      BY <1>2, <2>4
    <3>2. Begins(inbox'[k - 1])
      BY <2>1, <2>2, <3>1
    <3>3. \A j \in (k - 1) + 1 .. n - 1 : ~Ends(inbox'[j])
      <4> TAKE j \in (k - 1) + 1 .. n - 1
      <4>1. j \in 1 .. n - 1 /\ j + 1 \in k + 1 .. n
        BY <1>2, <2>4
      <4> QED
        BY <2>1, <2>2, <4>1
    <3> QED
      BY <3>1, <3>2, <3>3 DEF Shown
  <2> QED
    BY <1>2, <2>1, <2>3, <2>4
<1>5. ASSUME status' \in Busy, own'
      PROVE  Shown(Len(inbox) + 1)'
  <2>1. Shown(Len(inbox) + 1) /\ seen
    BY <1>1, <1>3, <1>5 DEF StartsAreSeen
  <2>2. ASSUME NEW n \in {Len(inbox') + 1}
        PROVE  Shown(n)'
    <3>1. n \in 1 .. Len(inbox') + 1 /\ n + 1 = Len(inbox) + 1
      BY <1>2
    <3> QED
      BY <1>4, <2>1, <3>1
  <2> QED
    BY <2>2 DEF Shown
<1>6. ASSUME NEW i \in DOMAIN inbox', inbox'[i].msg = "result", inbox'[i].mine
      PROVE  seen' /\ Shown(i)'
  <2>1. i + 1 \in DOMAIN inbox /\ inbox[i + 1].msg = "result" /\ inbox[i + 1].mine
    BY <1>2, <1>6
  <2>2. seen /\ Shown(i + 1)
    BY <1>3, <2>1
  <2>3. i \in 1 .. Len(inbox') + 1
    BY <1>2
  <2> QED
    BY <1>1, <1>4, <2>2, <2>3
<1> QED
  BY <1>1, <1>3, <1>5, <1>6

-----------------------------------------------------------------------------
(* What a key, a timer or a timeout does to it.                             *)
SameMessages ==
  /\ DOMAIN inbox' = DOMAIN inbox /\ Len(inbox') = Len(inbox)
  /\ \A i \in DOMAIN inbox :
       /\ inbox'[i].msg = inbox[i].msg /\ inbox'[i].mine = inbox[i].mine
       /\ Begins(inbox'[i]) <=> Begins(inbox[i])
       /\ Ends(inbox'[i]) <=> Ends(inbox[i])
       /\ Resets(inbox'[i]) <=> Resets(inbox[i])
       /\ inbox[i] = Signal("idle") => inbox'[i] = inbox[i]

MovesCore ==
  /\ SameMessages /\ CallsFit' /\ UNCHANGED status
  /\ recording' => status \in Busy \/ StartWaits' \/ (recording /\ (StartWaits => StartWaits'))
  /\ ~excused' =>
       /\ status # "error" /\ Followed => Followed'
       /\ ~excused \/ (status = "idle" /\ \A i \in DOMAIN inbox : inbox[i].msg # "result")

StartsKept ==
  \A i \in DOMAIN calls' : calls'[i].method = "start" => \E j \in DOMAIN calls : calls[j].method = "start"

LEMMA DisownedMessages ==
  ASSUME inbox \in Seq(Messages), NEW slot \in {"start", "stop"}, inbox' = Disown(inbox, slot)
  PROVE  SameMessages
<1>1. slot \in Slots /\ slot # "none"
  BY DEF Slots
<1>2. /\ inbox' \in Seq(Messages) /\ Len(inbox') = Len(inbox)
      /\ \A i \in 1 .. Len(inbox) :
           /\ inbox'[i].msg = inbox[i].msg /\ inbox'[i].arg = inbox[i].arg
           /\ inbox'[i].mine = inbox[i].mine
  BY <1>1, DisownGives
<1>3. DOMAIN inbox' = 1 .. Len(inbox) /\ DOMAIN inbox = 1 .. Len(inbox)
  BY <1>2
<1>4. ASSUME NEW i \in DOMAIN inbox, inbox[i] = Signal("idle")
      PROVE  inbox'[i] = inbox[i]
  <2>1. inbox[i].slot = "none"
    BY <1>4 DEF Signal
  <2> QED
    BY <1>1, <2>1 DEF Disown
<1> QED
  BY <1>2, <1>3, <1>4 DEF SameMessages, Begins, Ends, Resets

LEMMA UnchangedMessages ==
  ASSUME UNCHANGED inbox
  PROVE  SameMessages
BY DEF SameMessages

(* Nobody waits for the calls of a slot any more.                           *)
LEMMA DisownedCalls ==
  ASSUME Types, CallsFit, NEW slot \in {"start", "stop"}, calls' = Disown(calls, slot), UNCHANGED status
  PROVE  /\ CallsFit' /\ StartsKept
         /\ slot = "stop" => (StartWaits => StartWaits')
<1>1. /\ Len(calls) \in Nat /\ DOMAIN calls = 1 .. Len(calls) /\ slot \in Slots
      /\ calls \in Seq(Calls)
  BY DEF Types, Slots
<1>2. /\ calls' \in Seq(Calls) /\ Len(calls') = Len(calls)
      /\ \A i \in 1 .. Len(calls) : /\ calls'[i].method = calls[i].method
                                    /\ calls'[i].slot = IF calls[i].slot = slot THEN "none" ELSE calls[i].slot
  BY <1>1, DisownGives
<1>3. DOMAIN calls' = 1 .. Len(calls)
  BY <1>2
<1>4. calls # <<>> => calls' # <<>> /\ 1 \in 1 .. Len(calls)
  BY <1>1, <1>2
<1>5. CallsFit'
  BY <1>1, <1>2, <1>3, <1>4 DEF CallsFit
<1>6. StartsKept
  BY <1>1, <1>2, <1>3 DEF StartsKept
<1>7. slot = "stop" => (StartWaits => StartWaits')
  BY <1>1, <1>2, <1>3 DEF StartWaits
<1> QED
  BY <1>5, <1>6, <1>7

(* A call is sent.                                                          *)
LEMMA SentCalls ==
  ASSUME Types, CallsFit, NEW slot \in {"start", "stop"}, Send(slot, slot), UNCHANGED status
  PROVE  /\ SameMessages /\ CallsFit'
         /\ slot = "start" => StartWaits'
         /\ slot = "stop" => (StartWaits => StartWaits') /\ StartsKept
<1> DEFINE q == Disown(calls, slot)
           c == Call(slot, slot)
<1>1. /\ Len(calls) \in Nat /\ DOMAIN calls = 1 .. Len(calls) /\ slot \in Slots
      /\ calls \in Seq(Calls) /\ inbox \in Seq(Messages)
  BY DEF Types, Slots
<1>2. /\ q \in Seq(Calls) /\ Len(q) = Len(calls)
      /\ \A i \in 1 .. Len(calls) : /\ q[i].method = calls[i].method
                                    /\ q[i].slot = IF calls[i].slot = slot THEN "none" ELSE calls[i].slot
  BY <1>1, DisownGives
<1>3. c \in Calls /\ c.slot = slot /\ c.method = slot
  BY <1>1, MessageTypes DEF Call
<1>4. calls' = Append(q, c) /\ inbox' = Disown(inbox, slot)
  BY DEF Send
<1> HIDE DEF q, c
<1>5. /\ Len(calls') = Len(calls) + 1 /\ DOMAIN calls' = 1 .. Len(calls) + 1
      /\ \A i \in 1 .. Len(calls) : calls'[i] = q[i]
      /\ calls'[Len(calls) + 1] = c
  BY <1>2, <1>3, <1>4
<1>6. SameMessages
  BY <1>1, <1>4, DisownedMessages
<1>7. \A i \in 1 .. Len(calls) + 1 : i \in 1 .. Len(calls) \/ i = Len(calls) + 1
  BY <1>1
<1>8. CallsFit'
  <2>1. ASSUME status' \in {"inferring", "postprocessing"}
        PROVE  calls' # <<>> /\ calls'[1].method = "stop"
    <3>1. calls # <<>> /\ calls[1].method = "stop"
      BY <2>1 DEF CallsFit
    <3>2. 1 \in 1 .. Len(calls)
      BY <1>1, <3>1
    <3>3. calls'[1].method = "stop" /\ 1 \in DOMAIN calls'
      BY <1>1, <1>2, <1>5, <3>1, <3>2
    <3>4. calls' # <<>>
      BY <3>3
    <3> QED
      BY <3>3, <3>4
  <2>2. \A i \in 1 .. Len(calls) + 1 : calls'[i].slot # "none" => calls'[i].method = calls'[i].slot
    BY <1>1, <1>2, <1>3, <1>5, <1>7 DEF CallsFit
  <2> QED
    BY <1>5, <2>1, <2>2 DEF CallsFit
<1>9. slot = "start" => StartWaits'
  <2>1. Len(calls) + 1 \in DOMAIN calls'
    BY <1>1, <1>5
  <2> QED
    BY <1>3, <1>5, <2>1 DEF StartWaits
<1>10. ASSUME slot = "stop" PROVE (StartWaits => StartWaits') /\ StartsKept
  <2>1. \A i \in 1 .. Len(calls) : i \in DOMAIN calls' /\ calls'[i].method = calls[i].method
    BY <1>1, <1>2, <1>5
  <2>2. StartWaits => StartWaits'
    <3> SUFFICES ASSUME NEW i \in 1 .. Len(calls), calls[i].slot = "start"
                 PROVE  i \in DOMAIN calls' /\ calls'[i].slot = "start"
      BY <1>1 DEF StartWaits
    <3> QED
      BY <1>1, <1>2, <1>5, <1>10
  <2>3. StartsKept
    BY <1>1, <1>2, <1>3, <1>5, <1>7, <1>10 DEF StartsKept
  <2> QED
    BY <2>2, <2>3
<1> QED
  BY <1>6, <1>8, <1>9, <1>10

LEMMA UnchangedCalls ==
  ASSUME CallsFit, UNCHANGED <<calls, status>>
  PROVE  CallsFit' /\ StartsKept /\ (StartWaits => StartWaits')
BY DEF CallsFit, StartsKept, StartWaits

LEMMA StopActiveMoves ==
  ASSUME Types, CallsFit, NEW t, NEW stop,
         StopActiveRecording(t, startTimer, stop), UNCHANGED status
  PROVE  MovesCore /\ StartsKept /\ (startTimer' => startTimer)
<1>1. CASE /\ Send("stop", "stop") /\ startTimer' = startTimer
           /\ UNCHANGED <<recording, remoteStatus, excused>>
  <2>1. SameMessages /\ CallsFit' /\ (StartWaits => StartWaits') /\ StartsKept
    BY <1>1, SentCalls
  <2> QED
    BY <1>1, <2>1 DEF MovesCore, Followed
<1>2. CASE /\ Forget /\ excused' = TRUE /\ ReleaseTrigger(t) /\ UNCHANGED <<calls, sent, inbox>>
  BY <1>2, UnchangedCalls, UnchangedMessages DEF MovesCore, Forget, ReleaseTrigger
<1>3. CASE /\ KeepSession /\ ReleaseTrigger(t)
           /\ UNCHANGED <<cooldown, remoteStatus, excused, calls, sent, inbox>>
  BY <1>3, UnchangedCalls, UnchangedMessages DEF MovesCore, KeepSession, ReleaseTrigger, Followed
<1> QED
  BY <1>1, <1>2, <1>3 DEF StopActiveRecording

LEMMA StartMoves ==
  ASSUME Types, CallsFit, NEW t, NEW k, StartRecording(t, k), UNCHANGED status
  PROVE  MovesCore
<1>1. CASE StartRefused(t, k) \/ NothingSelected(t, k)
  <2>1. recording' = FALSE /\ excused' = TRUE /\ UNCHANGED <<calls, inbox>>
    BY <1>1 DEF StartRefused, NothingSelected, Forget
  <2> QED
    BY <2>1, UnchangedCalls, UnchangedMessages DEF MovesCore
<1>2. CASE KeepFollowing(t, k)
  <2>1. UNCHANGED <<recording, remoteStatus, excused, calls, inbox>>
    BY <1>2 DEF KeepFollowing, KeepSession
  <2> QED
    BY <2>1, UnchangedCalls, UnchangedMessages DEF MovesCore, Followed
<1>3. CASE StartSent(t, k)
  <2>1. /\ Send("start", "start") /\ recording' = TRUE /\ status = "idle"
        /\ excused' = (excused /\ \E i \in DOMAIN inbox : inbox[i].msg = "result")
    BY <1>3 DEF StartSent, Follow
  <2>2. SameMessages /\ CallsFit' /\ StartWaits'
    BY <2>1, SentCalls
  <2> QED
    BY <2>1, <2>2 DEF MovesCore, Followed
<1>4. CASE AdoptAndStop(t, k)
  <2>1. Send("stop", "stop") /\ recording' = TRUE /\ status = "recording" /\ UNCHANGED excused
    BY <1>4 DEF AdoptAndStop, Follow
  <2>2. SameMessages /\ CallsFit'
    BY <2>1, SentCalls
  <2> QED
    BY <2>1, <2>2 DEF MovesCore, Followed, Busy
<1>5. CASE ShowRemote(t, k)
  <2>1. /\ remoteStatus' = (status # "error") /\ UNCHANGED <<recording, excused, calls, inbox>>
    BY <1>5 DEF ShowRemote, KeepSession
  <2> QED
    BY <2>1, UnchangedCalls, UnchangedMessages DEF MovesCore, Followed
<1> QED
  BY <1>1, <1>2, <1>3, <1>4, <1>5 DEF StartRecording

InputMoves ==
  /\ MovesCore /\ UNCHANGED <<own, awaiting>>
  /\ seen => seen'
  /\ StartsAreSeen'

LEMMA SeenStarts ==
  ASSUME seen'
  PROVE  StartsAreSeen'
BY DEF StartsAreSeen

LEMMA KeptStarts ==
  ASSUME StartsAreSeen, StartsKept, startTimer' => startTimer, UNCHANGED <<own, seen>>
  PROVE  StartsAreSeen'
BY DEF StartsAreSeen, StartsKept

LEMMA QuietMoves ==
  ASSUME CallsFit, UNCHANGED <<calls, inbox, status, recording, remoteStatus, excused>>
  PROVE  MovesCore /\ StartsKept
BY UnchangedCalls, UnchangedMessages DEF MovesCore, Followed

LEMMA InputGives ==
  ASSUME Types, CallsFit, StartsAreSeen, Input
  PROVE  InputMoves
<1>1. ASSUME NEW k \in Kinds, KeyPress(k)
      PROVE  InputMoves
  <2> DEFINE t == Press(trigger, k, recording)
  <2>1. seen' = TRUE /\ UNCHANGED <<awaiting, status, own>>
    BY <1>1 DEF KeyPress, daemonVars
  <2>2. CASE KeepSession /\ UNCHANGED <<remoteStatus, excused, calls, inbox>>
    BY <2>1, <2>2, QuietMoves, SeenStarts DEF InputMoves, KeepSession
  <2>3. CASE StartRecording(t, k)
    <3> HIDE DEF t
    <3> QED
      BY <2>1, <2>3, StartMoves, SeenStarts DEF InputMoves
  <2>4. CASE StopActiveRecording(t, startTimer, FALSE)
    <3> HIDE DEF t
    <3> QED
      BY <2>1, <2>4, StopActiveMoves, SeenStarts DEF InputMoves
  <2> QED
    BY <1>1, <2>2, <2>3, <2>4 DEF KeyPress
<1>2. ASSUME NEW k \in Kinds, KeyRelease(k)
      PROVE  InputMoves
  <2>1. seen' = TRUE /\ UNCHANGED <<awaiting, own, calls, inbox, status, recording, remoteStatus, excused>>
    BY <1>2 DEF KeyRelease, daemonVars, busVars
  <2> QED
    BY <2>1, QuietMoves, SeenStarts DEF InputMoves
<1>3. CASE StartTimerFires
  <2>1. seen /\ UNCHANGED <<awaiting, own, status, seen>>
    BY <1>3 DEF StartTimerFires, StartsAreSeen, daemonVars
  <2>2. CASE KeepSession /\ UNCHANGED <<remoteStatus, excused, calls, inbox>>
    BY <2>1, <2>2, QuietMoves, SeenStarts DEF InputMoves, KeepSession
  <2>3. CASE StartRecording(FireStart(trigger), trigger.pending.kind)
    BY <2>1, <2>3, StartMoves, SeenStarts DEF InputMoves
  <2> QED
    BY <1>3, <2>2, <2>3 DEF StartTimerFires
<1>4. CASE StopTimerFires
  <2>1. UNCHANGED <<awaiting, own, status, seen>>
    BY <1>4 DEF StopTimerFires, daemonVars
  <2>2. CASE StopActiveRecording(FireStop(trigger), startTimer, FALSE)
    BY <2>1, <2>2, StopActiveMoves, KeptStarts DEF InputMoves
  <2>3. CASE KeepSession /\ UNCHANGED <<startTimer, remoteStatus, excused, calls, inbox>>
    BY <2>1, <2>3, QuietMoves, KeptStarts DEF InputMoves, KeepSession
  <2> QED
    BY <1>4, <2>2, <2>3 DEF StopTimerFires
<1>5. CASE Elapse
  <2>1. UNCHANGED <<awaiting, own, seen, startTimer, calls, inbox, status, recording, remoteStatus, excused>>
    BY <1>5 DEF Elapse, daemonVars, busVars
  <2> QED
    BY <2>1, QuietMoves, KeptStarts DEF InputMoves
<1>6. ASSUME NEW m \in Modes, ChangeMode(m)
      PROVE  InputMoves
  <2>1. /\ UNCHANGED <<awaiting, own, seen, calls, inbox, status, recording, remoteStatus, excused>>
        /\ startTimer' = FALSE
    BY <1>6 DEF ChangeMode, KeepSession, daemonVars, busVars
  <2> QED
    BY <2>1, QuietMoves, KeptStarts DEF InputMoves
<1>7. ASSUME NEW slot \in {"start", "stop"}, CallTimesOut(slot)
      PROVE  InputMoves
  <2>1. /\ UNCHANGED <<awaiting, own, seen, startTimer, status, inbox>>
        /\ calls' = Disown(calls, slot) /\ CallFails(slot)
    BY <1>7 DEF CallTimesOut, CallFails, daemonVars
  <2>2. CallsFit' /\ StartsKept /\ (slot = "stop" => (StartWaits => StartWaits')) /\ SameMessages
    BY <2>1, DisownedCalls, UnchangedMessages
  <2>3. StartsAreSeen'
    BY <2>1, <2>2, KeptStarts
  <2>4. CASE recording' = FALSE /\ excused' = TRUE
    BY <2>1, <2>2, <2>3, <2>4 DEF InputMoves, MovesCore
  <2>5. CASE slot = "stop" /\ UNCHANGED <<recording, remoteStatus, excused>>
    BY <2>1, <2>2, <2>3, <2>5 DEF InputMoves, MovesCore, Followed
  <2> QED
    BY <2>1, <2>4, <2>5 DEF CallFails, Forget, KeepSession
<1> QED
  BY <1>1, <1>2, <1>3, <1>4, <1>5, <1>6, <1>7 DEF Input

LEMMA InputParts ==
  ASSUME Types, Types', InputMoves, IdleFollows, BeginningsEnd, FollowedEnd, OwnIsShown
  PROVE  IdleFollows' /\ BeginningsEnd' /\ FollowedEnd' /\ OwnIsShown'
<1>1. SameMessages /\ UNCHANGED <<status, own, awaiting>> /\ (seen => seen')
  BY DEF InputMoves, MovesCore
<1>2. /\ Len(inbox) \in Nat /\ DOMAIN inbox = 1 .. Len(inbox)
      /\ DOMAIN inbox' = 1 .. Len(inbox') /\ Len(inbox') = Len(inbox)
      /\ inbox \in Seq(Messages) /\ inbox' \in Seq(Messages)
  BY <1>1 DEF Types, SameMessages
<1>3. IdleFollows'
  <2>1. awaiting' => inbox' # <<>> /\ inbox'[1] = Signal("idle")
    <3> HAVE awaiting'
    <3>1. inbox # <<>> /\ inbox[1] = Signal("idle")
      BY <1>1 DEF IdleFollows
    <3>2. 1 \in DOMAIN inbox
      BY <1>2, <3>1
    <3> QED
      BY <1>1, <1>2, <3>1, <3>2 DEF SameMessages
  <2>2. \A i \in DOMAIN inbox' :
          inbox'[i].msg = "result" => i + 1 \in DOMAIN inbox' /\ inbox'[i + 1] = Signal("idle")
    BY <1>1 DEF SameMessages, IdleFollows
  <2> QED
    BY <2>1, <2>2 DEF IdleFollows
<1>4. BeginningsEnd'
  BY <1>1 DEF SameMessages, BeginningsEnd
<1>5. FollowedEnd'
  <2> SUFFICES ASSUME recording'
               PROVE  \/ status' \in Busy
                      \/ StartWaits'
                      \/ \E j \in DOMAIN inbox' : Resets(inbox'[j]) /\ (awaiting' => j > 1)
    BY DEF FollowedEnd
  <2>1. CASE recording /\ (StartWaits => StartWaits')
    BY <1>1, <2>1 DEF FollowedEnd, SameMessages
  <2> QED
    BY <1>1, <2>1 DEF InputMoves, MovesCore
<1>6. OwnIsShown'
  <2> SUFFICES ASSUME ~excused'
               PROVE  /\ status' # "error"
                      /\ status' \in Busy /\ own' => Shown(Len(inbox) + 1)'
                      /\ \A i \in DOMAIN inbox' :
                           inbox'[i].msg = "result" /\ inbox'[i].mine => seen' /\ Shown(i)'
    BY DEF OwnIsShown
  <2>1. CASE status = "idle" /\ \A i \in DOMAIN inbox : inbox[i].msg # "result"
    BY <1>1, <2>1 DEF SameMessages, Busy
  <2>2. CASE ~excused
    <3>1. /\ status # "error"
          /\ status \in Busy /\ own => Shown(Len(inbox) + 1)
          /\ \A i \in DOMAIN inbox : inbox[i].msg = "result" /\ inbox[i].mine => seen /\ Shown(i)
      BY <2>2 DEF OwnIsShown
    <3>2. Followed => Followed'
      BY <3>1 DEF InputMoves, MovesCore
    <3>3. ASSUME NEW n \in 1 .. Len(inbox) + 1, Shown(n)
          PROVE  Shown(n)'
      <4>1. PICK k \in 0 .. n - 1 : /\ IF k = 0 THEN recording \/ remoteStatus ELSE Begins(inbox[k])
                                    /\ \A j \in k + 1 .. n - 1 : ~Ends(inbox[j])
        BY <3>3 DEF Shown
      <4>2. \A j \in 1 .. n - 1 : j \in DOMAIN inbox
        BY <1>2
      <4>3. IF k = 0 THEN recording' \/ remoteStatus' ELSE Begins(inbox'[k])
        <5>1. CASE k = 0
          BY <3>2, <4>1, <5>1 DEF Followed
        <5>2. CASE k # 0
          <6>1. k \in 1 .. n - 1
            BY <5>2
          <6> QED
            BY <1>1, <4>1, <4>2, <5>2, <6>1 DEF SameMessages
        <5> QED
          BY <5>1, <5>2
      <4>4. \A j \in k + 1 .. n - 1 : ~Ends(inbox'[j])
        <5> TAKE j \in k + 1 .. n - 1
        <5>1. j \in 1 .. n - 1
          OBVIOUS
        <5> QED
          BY <1>1, <4>1, <4>2, <5>1 DEF SameMessages
      <4> QED
        BY <4>1, <4>3, <4>4 DEF Shown
    <3>4. ASSUME status' \in Busy, own'
          PROVE  Shown(Len(inbox) + 1)'
      <4>1. Shown(Len(inbox) + 1)
        BY <1>1, <3>1, <3>4
      <4>2. ASSUME NEW n \in {Len(inbox) + 1}
            PROVE  Shown(n)'
        <5>1. n \in 1 .. Len(inbox) + 1 /\ n = Len(inbox) + 1
          BY <1>2
        <5> QED
          BY <3>3, <4>1, <5>1
      <4> QED
        BY <1>2, <4>2 DEF Shown
    <3>5. ASSUME NEW i \in DOMAIN inbox', inbox'[i].msg = "result", inbox'[i].mine
          PROVE  seen' /\ Shown(i)'
      <4>1. i \in DOMAIN inbox /\ inbox[i].msg = "result" /\ inbox[i].mine
        BY <1>1, <3>5 DEF SameMessages
      <4>2. i \in 1 .. Len(inbox) + 1
        BY <1>2
      <4> QED
        BY <1>1, <3>1, <3>3, <4>1, <4>2
    <3> QED
      BY <1>1, <3>1, <3>4, <3>5
  <2> QED
    BY <2>1, <2>2 DEF InputMoves, MovesCore
<1> QED
  BY <1>3, <1>4, <1>5, <1>6

-----------------------------------------------------------------------------
(* The trigger.                                                             *)

(* A press of a key.                                                        *)
LEMMA PressGives ==
  ASSUME NEW t \in Triggers, PressFits(t), NEW k \in Kinds, NEW r \in BOOLEAN
  PROVE  /\ PressFits(Press(t, k, r))
         /\ StopIsDue(Press(t, k, r)) => StopIsDue(t)
         /\ IF PressEffect(t, r) = "ScheduleStart" THEN Press(t, k, r).pending # NoPress
                                                   ELSE Press(t, k, r).pending = t.pending
         /\ PressEffect(t, r) # "Start" => Press(t, k, r).active = t.active
         /\ PressEffect(t, r) = "Start" => t.pending = NoPress
         /\ PressEffect(t, r) \in {"Start", "StopActive"} => ~Press(t, k, r).stopPending
<1> DEFINE e == PressEffect(t, r)
           u == Press(t, k, r)
           seenT == [t EXCEPT !.debouncing = TRUE, !.stopPending = FALSE]
<1>1. CASE t.debouncing
  <2>1. e = "Consume" /\ u = t
    BY <1>1 DEF PressEffect, Press
  <2> QED
    BY <2>1
<1>2. CASE ~t.debouncing /\ (t.active # NoPress \/ r \/ t.pending # NoPress)
  <2>1. e \in {"Consume", "StopActive"}
    BY <1>2 DEF PressEffect
  <2>2. u = seenT
    BY <1>2, <2>1 DEF Press
  <2>3. /\ seenT.pending = t.pending /\ seenT.active = t.active /\ seenT.mode = t.mode
        /\ seenT.stopPending = FALSE
    BY DEF Triggers
  <2> HIDE DEF seenT, e, u
  <2>4. PressFits(seenT) /\ ~StopIsDue(seenT)
    BY <2>3 DEF PressFits, StopIsDue
  <2>5. /\ PressFits(u) /\ ~StopIsDue(u) /\ u.pending = t.pending /\ u.active = t.active
        /\ ~u.stopPending /\ e # "ScheduleStart" /\ e # "Start"
    BY <2>1, <2>2, <2>3, <2>4
  <2> QED
    BY <2>5 DEF e, u
<1>3. CASE ~t.debouncing /\ t.active = NoPress /\ ~r /\ t.pending = NoPress
  <2>1. e = IF t.mode = "Hold" THEN "ScheduleStart" ELSE "Start"
    BY <1>3 DEF PressEffect
  <2>2. CASE t.mode = "Hold"
    <3>1. u = [seenT EXCEPT !.pending = NewPress(k)] /\ e = "ScheduleStart"
      BY <1>3, <2>1, <2>2 DEF Press
    <3>2. /\ u.pending = NewPress(k) /\ u.active = t.active /\ u.mode = t.mode /\ u.stopPending = FALSE
      BY <3>1 DEF Triggers
    <3>3. NewPress(k) # NoPress /\ NewPress(k).released = FALSE
      BY PressTypes DEF NewPress
    <3> HIDE DEF u, e
    <3>4. PressFits(u) /\ ~StopIsDue(u)
      BY <2>2, <3>2, <3>3 DEF PressFits, StopIsDue
    <3> QED
      BY <3>1, <3>2, <3>3, <3>4 DEF u, e
  <2>3. CASE t.mode # "Hold"
    <3>1. u = [seenT EXCEPT !.active = NewPress(k)] /\ e = "Start"
      BY <1>3, <2>1, <2>3 DEF Press
    <3>2. /\ u.pending = t.pending /\ u.stopPending = FALSE
      BY <3>1 DEF Triggers
    <3> HIDE DEF u, e
    <3>4. PressFits(u) /\ ~StopIsDue(u)
      BY <1>3, <3>2 DEF PressFits, StopIsDue
    <3> QED
      BY <1>3, <3>1, <3>2, <3>4 DEF u, e
  <2> QED
    BY <2>2, <2>3
<1> QED
  BY <1>1, <1>2, <1>3

(* Its release.                                                             *)
LEMMA ReleaseGives ==
  ASSUME NEW t \in Triggers, PressFits(t), NEW k \in Kinds
  PROVE  /\ PressFits(Release(t, k))
         /\ ReleaseEffect(t, k) # "ScheduleStop" => (StopIsDue(Release(t, k)) => StopIsDue(t))
         /\ Release(t, k).pending # NoPress <=>
              t.pending # NoPress /\ ReleaseEffect(t, k) # "CancelPendingStart"
         /\ Release(t, k).active # NoPress => t.active # NoPress
<1> DEFINE e == ReleaseEffect(t, k)
           u == Release(t, k)
<1>1. CASE e = "CancelPendingStart"
  <2>1. u = [t EXCEPT !.pending = NoPress]
    BY <1>1 DEF Release
  <2>2. u.pending = NoPress /\ u.active = t.active /\ u.stopPending = t.stopPending
    BY <2>1 DEF Triggers
  <2> HIDE DEF u, e
  <2>3. PressFits(u) /\ (StopIsDue(u) => StopIsDue(t))
    BY <2>2 DEF PressFits, StopIsDue
  <2> QED
    BY <1>1, <2>2, <2>3 DEF u, e
<1>2. CASE e = "ScheduleStop"
  <2>1. t.pending = NoPress /\ t.active.kind = k
    BY <1>2 DEF ReleaseEffect, PressFits
  <2>2. t.active # NoPress
    BY <2>1 DEF NoPress, Kinds
  <2>3. u = [t EXCEPT !.active.released = TRUE, !.stopPending = TRUE]
    BY <1>2 DEF Release
  <2>4. u.pending = t.pending /\ u.active.released = TRUE
    BY <2>3 DEF Triggers, Presses
  <2> HIDE DEF u, e
  <2>5. PressFits(u)
    BY <2>1, <2>4 DEF PressFits
  <2> QED
    BY <1>2, <2>1, <2>2, <2>4, <2>5 DEF u, e
<1>3. CASE e \notin {"CancelPendingStart", "ScheduleStop"}
  <2>1. u = IF t.active # NoPress /\ (t.mode # "Hold" \/ t.active.kind = k)
            THEN [t EXCEPT !.active.released = TRUE]
            ELSE t
    BY <1>3 DEF Release
  <2>2. CASE u = t
    BY <1>3, <2>2
  <2>3. CASE t.active # NoPress /\ u = [t EXCEPT !.active.released = TRUE]
    <3>1. /\ u.pending = t.pending /\ u.active.released = TRUE /\ u.mode = t.mode
          /\ u.stopPending = t.stopPending
      BY <2>3 DEF Triggers, Presses
    <3> HIDE DEF u, e
    <3>2. PressFits(u) /\ (StopIsDue(u) => StopIsDue(t))
      BY <2>3, <3>1 DEF PressFits, StopIsDue
    <3> QED
      BY <1>3, <2>3, <3>1, <3>2 DEF u, e
  <2> QED
    BY <2>1, <2>2, <2>3
<1> QED
  BY <1>1, <1>2, <1>3

(* The others.                                                              *)
LEMMA TriggerGives ==
  ASSUME NEW t \in Triggers, PressFits(t)
  PROVE  /\ PressFits(RecordingStopped(t)) /\ ~StopIsDue(RecordingStopped(t))
         /\ RecordingStopped(t).pending = NoPress /\ RecordingStopped(t).active = NoPress
         /\ PressFits(ConfirmStart(t, FALSE)) /\ ~StopIsDue(ConfirmStart(t, FALSE))
         /\ ConfirmStart(t, FALSE).pending = NoPress /\ ConfirmStart(t, FALSE).active = NoPress
         /\ ConfirmStart(t, TRUE) = t
         /\ t.pending # NoPress => PressFits(FireStart(t)) /\ ~FireStart(t).stopPending
         /\ FireStart(t).pending = NoPress
         /\ PressFits(FireStop(t)) /\ FireStop(t).pending = t.pending /\ FireStop(t).active = t.active
         /\ StopIsDue(t) => ~FireStop(t).stopPending
         /\ \A m \in Modes : /\ PressFits(SetMode(t, m)) /\ (StopIsDue(SetMode(t, m)) => StopIsDue(t))
                             /\ SetMode(t, m).pending = NoPress /\ SetMode(t, m).active = t.active
         /\ PressFits(DebounceElapses(t)) /\ (StopIsDue(DebounceElapses(t)) => StopIsDue(t))
         /\ DebounceElapses(t).pending = t.pending /\ DebounceElapses(t).active = t.active
         /\ PressFits(HoldElapses(t)) /\ (StopIsDue(HoldElapses(t)) => StopIsDue(t))
         /\ HoldElapses(t).pending # NoPress <=> t.pending # NoPress
         /\ HoldElapses(t).active # NoPress => t.active # NoPress
<1>1. /\ PressFits(RecordingStopped(t)) /\ ~StopIsDue(RecordingStopped(t))
      /\ RecordingStopped(t).pending = NoPress /\ RecordingStopped(t).active = NoPress
  BY DEF RecordingStopped, PressFits, StopIsDue, Triggers
<1>2. /\ PressFits(ConfirmStart(t, FALSE)) /\ ~StopIsDue(ConfirmStart(t, FALSE))
      /\ ConfirmStart(t, FALSE).pending = NoPress /\ ConfirmStart(t, FALSE).active = NoPress
      /\ ConfirmStart(t, TRUE) = t
  BY DEF ConfirmStart, PressFits, StopIsDue, Triggers
<1>3. /\ t.pending # NoPress => PressFits(FireStart(t)) /\ ~FireStart(t).stopPending
      /\ FireStart(t).pending = NoPress
  BY DEF FireStart, PressFits, Triggers
<1>4. /\ PressFits(FireStop(t)) /\ FireStop(t).pending = t.pending /\ FireStop(t).active = t.active
      /\ StopIsDue(t) => ~FireStop(t).stopPending
  <2>1. CASE StopIsDue(t)
    <3> DEFINE u == [t EXCEPT !.stopPending = FALSE]
    <3>1. u.pending = t.pending /\ u.active = t.active /\ u.mode = t.mode /\ u.stopPending = FALSE
      BY DEF Triggers
    <3>2. FireStop(t) = u
      BY <2>1 DEF FireStop
    <3> HIDE DEF u
    <3> QED
      BY <3>1, <3>2 DEF PressFits
  <2>2. CASE ~StopIsDue(t)
    BY <2>2 DEF FireStop
  <2> QED
    BY <2>1, <2>2
<1>5. \A m \in Modes : /\ PressFits(SetMode(t, m)) /\ (StopIsDue(SetMode(t, m)) => StopIsDue(t))
                       /\ SetMode(t, m).pending = NoPress /\ SetMode(t, m).active = t.active
  BY DEF SetMode, PressFits, StopIsDue, Triggers
<1>6. /\ PressFits(DebounceElapses(t)) /\ (StopIsDue(DebounceElapses(t)) => StopIsDue(t))
      /\ DebounceElapses(t).pending = t.pending /\ DebounceElapses(t).active = t.active
  BY DEF DebounceElapses, PressFits, StopIsDue, Triggers
<1>7. /\ PressFits(HoldElapses(t)) /\ (StopIsDue(HoldElapses(t)) => StopIsDue(t))
      /\ HoldElapses(t).pending # NoPress <=> t.pending # NoPress
      /\ HoldElapses(t).active # NoPress => t.active # NoPress
  <2> DEFINE u == HoldElapses(t)
             H(p) == IF p = NoPress THEN NoPress ELSE [p EXCEPT !.held = TRUE]
  <2>1. \A p \in Presses : (H(p) # NoPress <=> p # NoPress) /\ H(p).released = p.released
    BY DEF Presses, NoPress
  <2>2. u = [t EXCEPT !.pending = H(t.pending), !.active = H(t.active)]
    BY DEF HoldElapses
  <2>3. u.pending = H(t.pending) /\ u.active = H(t.active) /\ u.mode = t.mode /\ u.stopPending = t.stopPending
    BY <2>2 DEF Triggers
  <2>4. t.pending \in Presses /\ t.active \in Presses
    BY DEF Triggers
  <2> HIDE DEF u, H
  <2>5. /\ u.pending # NoPress <=> t.pending # NoPress
        /\ u.active # NoPress <=> t.active # NoPress
        /\ u.pending.released = t.pending.released /\ u.active.released = t.active.released
    BY <2>1, <2>3, <2>4
  <2>6. PressFits(u) /\ (StopIsDue(u) => StopIsDue(t))
    BY <2>3, <2>5 DEF PressFits, StopIsDue
  <2> QED
    BY <2>5, <2>6 DEF u
<1> QED
  BY <1>1, <1>2, <1>3, <1>4, <1>5, <1>6, <1>7

TriggerFits == HoldTimerMatchesPress /\ PressesFit /\ StopsFit

(* The trigger is reset and its timers with it.                             *)
LEMMA ResetFits ==
  ASSUME NEW t \in Triggers, PressFits(t), trigger' = RecordingStopped(t), startTimer' = FALSE
  PROVE  TriggerFits'
<1>1. /\ PressFits(RecordingStopped(t)) /\ ~StopIsDue(RecordingStopped(t))
      /\ RecordingStopped(t).pending = NoPress /\ RecordingStopped(t).active = NoPress
  BY TriggerGives
<1> QED
  BY <1>1 DEF TriggerFits, HoldTimerMatchesPress, PressesFit, StopsFit

(* Nothing the trigger knows of changes, but an error may be shown.         *)
LEMMA QuietFits ==
  ASSUME TriggerFits, UNCHANGED <<trigger, startTimer>>,
         excused' \/ (UNCHANGED <<recording, timerStale, excused>>)
  PROVE  TriggerFits'
BY DEF TriggerFits, HoldTimerMatchesPress, PressesFit, StopsFit

LEMMA StartFits ==
  ASSUME NEW t \in Triggers, PressFits(t), t.pending = NoPress, ~t.stopPending,
         NEW k, StartRecording(t, k), startTimer' = FALSE
  PROVE  TriggerFits'
<1>1. /\ PressFits(ConfirmStart(t, FALSE)) /\ ~StopIsDue(ConfirmStart(t, FALSE))
      /\ ConfirmStart(t, FALSE).pending = NoPress /\ ConfirmStart(t, FALSE).active = NoPress
      /\ ConfirmStart(t, TRUE) = t
  BY TriggerGives
<1>2. ~StopIsDue(t)
  BY DEF StopIsDue
<1>3. \/ trigger' = t /\ recording'
      \/ trigger' = ConfirmStart(t, FALSE)
  <2>1. CASE KeepFollowing(t, k)
    BY <1>1, <2>1 DEF KeepFollowing, KeepSession
  <2>2. CASE StartSent(t, k) \/ AdoptAndStop(t, k)
    BY <1>1, <2>2 DEF StartSent, AdoptAndStop, Follow
  <2>3. CASE StartRefused(t, k) \/ NothingSelected(t, k) \/ ShowRemote(t, k)
    BY <2>3 DEF StartRefused, NothingSelected, ShowRemote
  <2> QED
    BY <2>1, <2>2, <2>3 DEF StartRecording
<1>4. CASE trigger' = t /\ recording'
  BY <1>2, <1>4 DEF TriggerFits, HoldTimerMatchesPress, PressesFit, StopsFit
<1>5. CASE trigger' = ConfirmStart(t, FALSE)
  BY <1>1, <1>5 DEF TriggerFits, HoldTimerMatchesPress, PressesFit, StopsFit
<1> QED
  BY <1>3, <1>4, <1>5

LEMMA StopFits ==
  ASSUME NEW t \in Triggers, PressFits(t), ~t.stopPending, t.pending = trigger.pending,
         TriggerFits, StopActiveRecording(t, startTimer, FALSE)
  PROVE  TriggerFits'
<1>1. ~StopIsDue(t)
  BY DEF StopIsDue
<1>2. CASE trigger' = t /\ startTimer' = startTimer /\ recording /\ UNCHANGED recording
  BY <1>1, <1>2 DEF TriggerFits, HoldTimerMatchesPress, PressesFit, StopsFit
<1>3. CASE ReleaseTrigger(t)
  BY <1>3, ResetFits DEF ReleaseTrigger
<1> QED
  BY <1>2, <1>3 DEF StopActiveRecording

LEMMA InputFits ==
  ASSUME Types, TriggerFits, Input
  PROVE  TriggerFits'
<1>0. /\ trigger \in Triggers /\ PressFits(trigger) /\ recording \in BOOLEAN /\ startTimer \in BOOLEAN
      /\ startTimer <=> trigger.pending # NoPress
      /\ trigger.active # NoPress /\ ~recording => excused
      /\ timerStale /\ StopIsDue(trigger) => excused
  BY DEF Types, TriggerFits, PressesFit, HoldTimerMatchesPress, StopsFit
<1>1. ASSUME NEW k \in Kinds, KeyPress(k)
      PROVE  TriggerFits'
  <2> DEFINE t == Press(trigger, k, recording)
             e == PressEffect(trigger, recording)
  <2>1. /\ t \in Triggers /\ PressFits(t) /\ (StopIsDue(t) => StopIsDue(trigger))
        /\ e # "ScheduleStart" => t.pending = trigger.pending
        /\ e = "ScheduleStart" => t.pending # NoPress
        /\ e # "Start" => t.active = trigger.active
        /\ e = "Start" => trigger.pending = NoPress
        /\ e \in {"Start", "StopActive"} => ~t.stopPending
    BY <1>0, TriggerTypes, PressGives
  <2>2. \/ /\ e = "Consume" /\ trigger' = t /\ KeepSession /\ UNCHANGED <<startTimer, excused>>
        \/ /\ e = "ScheduleStart" /\ trigger' = t /\ KeepSession /\ startTimer' = TRUE
           /\ UNCHANGED excused
        \/ e = "Start" /\ StartRecording(t, k) /\ UNCHANGED startTimer
        \/ e = "StopActive" /\ StopActiveRecording(t, startTimer, FALSE)
    BY <1>1 DEF KeyPress
  <2> HIDE DEF t, e
  <2>3. ASSUME e \in {"Consume", "ScheduleStart"}, trigger' = t, KeepSession, UNCHANGED excused,
               startTimer' <=> t.pending # NoPress
        PROVE  TriggerFits'
    BY <1>0, <2>1, <2>3 DEF TriggerFits, HoldTimerMatchesPress, PressesFit, StopsFit, KeepSession
  <2>6. CASE e = "Consume" /\ trigger' = t /\ KeepSession /\ UNCHANGED <<startTimer, excused>>
    BY <1>0, <2>1, <2>3, <2>6
  <2>7. CASE /\ e = "ScheduleStart" /\ trigger' = t /\ KeepSession /\ startTimer' = TRUE
             /\ UNCHANGED excused
    BY <2>1, <2>3, <2>7
  <2>4. CASE e = "Start" /\ StartRecording(t, k) /\ UNCHANGED startTimer
    <3>1. startTimer' = FALSE /\ t.pending = NoPress
      BY <1>0, <2>1, <2>4
    <3> QED
      BY <2>1, <2>4, <3>1, StartFits
  <2>5. CASE e = "StopActive" /\ StopActiveRecording(t, startTimer, FALSE)
    BY <2>1, <2>5, StopFits
  <2> QED
    BY <2>2, <2>4, <2>5, <2>6, <2>7
<1>2. ASSUME NEW k \in Kinds, KeyRelease(k)
      PROVE  TriggerFits'
  <2> DEFINE t == Release(trigger, k)
             e == ReleaseEffect(trigger, k)
  <2>1. /\ PressFits(t)
        /\ e # "ScheduleStop" => (StopIsDue(t) => StopIsDue(trigger))
        /\ t.pending # NoPress <=> trigger.pending # NoPress /\ e # "CancelPendingStart"
        /\ t.active # NoPress => trigger.active # NoPress
    BY <1>0, ReleaseGives
  <2>2. /\ trigger' = t /\ UNCHANGED <<recording, excused>>
        /\ startTimer' = (startTimer /\ e # "CancelPendingStart")
        /\ timerStale' = (timerStale /\ e # "ScheduleStop")
    BY <1>2 DEF KeyRelease
  <2> HIDE DEF t, e
  <2> QED
    BY <1>0, <2>1, <2>2 DEF TriggerFits, HoldTimerMatchesPress, PressesFit, StopsFit
<1>3. CASE StartTimerFires
  <2>1. startTimer /\ startTimer' = FALSE /\ trigger.pending # NoPress
    BY <1>0, <1>3 DEF StartTimerFires
  <2>2. StartRecording(FireStart(trigger), trigger.pending.kind)
    BY <1>3, <2>1 DEF StartTimerFires
  <2>3. /\ FireStart(trigger) \in Triggers /\ PressFits(FireStart(trigger))
        /\ ~FireStart(trigger).stopPending /\ FireStart(trigger).pending = NoPress
    BY <1>0, <2>1, TriggerTypes, TriggerGives
  <2> QED
    BY <2>1, <2>2, <2>3, StartFits
<1>4. CASE StopTimerFires
  <2>1. CASE StopIsDue(trigger)
    <3>1. /\ FireStop(trigger) \in Triggers /\ PressFits(FireStop(trigger))
          /\ ~FireStop(trigger).stopPending /\ FireStop(trigger).pending = trigger.pending
      BY <1>0, <2>1, TriggerTypes, TriggerGives
    <3> QED
      BY <1>4, <2>1, <3>1, StopFits DEF StopTimerFires
  <2>2. CASE ~StopIsDue(trigger)
    BY <1>4, <2>2, QuietFits DEF StopTimerFires, KeepSession
  <2> QED
    BY <2>1, <2>2
<1>5. CASE Elapse
  <2>1. UNCHANGED <<startTimer, recording, excused, timerStale>>
    BY <1>5 DEF Elapse
  <2>2. /\ PressFits(DebounceElapses(trigger))
        /\ StopIsDue(DebounceElapses(trigger)) => StopIsDue(trigger)
        /\ DebounceElapses(trigger).pending = trigger.pending
        /\ DebounceElapses(trigger).active = trigger.active
        /\ PressFits(HoldElapses(trigger)) /\ (StopIsDue(HoldElapses(trigger)) => StopIsDue(trigger))
        /\ HoldElapses(trigger).pending # NoPress <=> trigger.pending # NoPress
        /\ HoldElapses(trigger).active # NoPress => trigger.active # NoPress
    BY <1>0, TriggerGives
  <2>3. \/ trigger' = DebounceElapses(trigger)
        \/ trigger' = HoldElapses(trigger)
        \/ UNCHANGED trigger
    BY <1>5 DEF Elapse
  <2> QED
    BY <1>0, <2>1, <2>2, <2>3 DEF TriggerFits, HoldTimerMatchesPress, PressesFit, StopsFit
<1>6. ASSUME NEW m \in Modes, ChangeMode(m)
      PROVE  TriggerFits'
  <2> DEFINE t == SetMode(trigger, m)
  <2>1. /\ t \in Triggers /\ PressFits(t) /\ (StopIsDue(t) => StopIsDue(trigger))
        /\ t.pending = NoPress /\ t.active = trigger.active
    BY <1>0, TriggerTypes, TriggerGives
  <2>2. startTimer' = FALSE /\ UNCHANGED <<recording, excused, timerStale>>
    BY <1>6 DEF ChangeMode, KeepSession
  <2>3. \/ trigger' = t
        \/ trigger' = RecordingStopped(t)
    BY <1>6 DEF ChangeMode
  <2> HIDE DEF t
  <2>4. CASE trigger' = t
    BY <1>0, <2>1, <2>2, <2>4 DEF TriggerFits, HoldTimerMatchesPress, PressesFit, StopsFit
  <2> QED
    BY <2>1, <2>2, <2>3, <2>4, ResetFits
<1>7. ASSUME NEW slot \in {"start", "stop"}, CallTimesOut(slot)
      PROVE  TriggerFits'
  BY <1>7, QuietFits DEF CallTimesOut, CallFails, KeepSession
<1> QED
  BY <1>1, <1>2, <1>3, <1>4, <1>5, <1>6, <1>7 DEF Input

LEMMA DeliverFits ==
  ASSUME Types, TriggerFits, Deliver
  PROVE  TriggerFits'
<1>0. /\ trigger \in Triggers /\ PressFits(trigger)
      /\ trigger.active # NoPress /\ ~recording => excused
  BY DEF Types, TriggerFits, PressesFit, StopsFit
<1>1. CASE ResetActiveRecording
  BY <1>0, <1>1, ResetFits DEF ResetActiveRecording
<1>2. CASE IgnoreStatus /\ UNCHANGED excused
  BY <1>2, QuietFits DEF IgnoreStatus, KeepSession
<1>3. CASE trigger' = RecordingStopped(trigger) /\ startTimer' = FALSE
  BY <1>0, <1>3, ResetFits
<1>4. CASE KeepSession /\ UNCHANGED <<trigger, startTimer, excused>>
  BY <1>4, QuietFits DEF KeepSession
<1>5. CASE ~recording /\ Follow(FALSE) /\ UNCHANGED <<trigger, startTimer, excused>>
  BY <1>0, <1>5 DEF TriggerFits, HoldTimerMatchesPress, PressesFit, StopsFit, Follow, StopIsDue
<1>6. ASSUME NEW slot, CallFails(slot)
      PROVE  TriggerFits'
  BY <1>6, QuietFits DEF CallFails, KeepSession
<1>7. ASSUME NEW s \in Statuses, HandleDaemonStatus(s)
      PROVE  TriggerFits'
  BY <1>1, <1>2, <1>4, <1>5, <1>7 DEF HandleDaemonStatus, FollowStatus
<1>8. ASSUME NEW mine \in BOOLEAN, HandleRecognitionResult(mine)
      PROVE  TriggerFits'
  BY <1>2, <1>3, <1>8 DEF HandleRecognitionResult
<1>9. CASE HandleDaemonNotification
  BY <1>1, <1>9 DEF HandleDaemonNotification
<1>10. ASSUME NEW a \in {"gone", "back"}, HandleDaemonAvailability(a)
       PROVE  TriggerFits'
  BY <1>1, <1>2, <1>10 DEF HandleDaemonAvailability
<1>11. ASSUME NEW slot, NEW arg, HandleReply(slot, arg)
       PROVE  TriggerFits'
  BY <1>4, <1>6, <1>11 DEF HandleReply
<1>12. ASSUME NEW arg, DropReply(arg)
       PROVE  TriggerFits'
  BY <1>12, QuietFits DEF DropReply, addonVars
<1> QED
  BY <1>7, <1>8, <1>9, <1>10, <1>11, <1>12 DEF Deliver

-----------------------------------------------------------------------------
(* The invariant.                                                           *)
LEMMA InitGives == Init => FrontendInv
<1> SUFFICES ASSUME Init PROVE FrontendInv
  OBVIOUS
<1>1. /\ inbox = <<>> /\ calls = <<>> /\ status = "idle" /\ awaiting = FALSE /\ recording = FALSE
      /\ excused = FALSE /\ startTimer = FALSE /\ own = FALSE /\ timerStale = FALSE
      /\ DOMAIN inbox = {} /\ DOMAIN calls = {}
  BY EmptySeq DEF Init
<1>2. PICK m \in Modes : trigger = NewTrigger(m)
  BY DEF Init
<1>3. trigger \in Triggers /\ trigger.pending = NoPress /\ trigger.active = NoPress
  BY <1>2, PressTypes DEF NewTrigger, Triggers
<1>4. Types
  <2>1. <<>> \in Seq(Calls) /\ <<>> \in Seq(Messages)
    BY EmptySeq
  <2>2. 0 \in 0 .. MaxCalls /\ 0 \in 0 .. MaxEvents
    BY FrontendConstants
  <2> QED
    BY <1>3, <2>1, <2>2, Zenon DEF Init, Types, Statuses
<1>5. CallsFit /\ IdleFollows /\ BeginningsEnd /\ FollowedEnd /\ StartsAreSeen
  BY <1>1 DEF CallsFit, IdleFollows, BeginningsEnd, FollowedEnd, StartsAreSeen
<1>6. OwnIsShown
  BY <1>1 DEF OwnIsShown, Busy
<1>7. HoldTimerMatchesPress /\ PressesFit /\ StopsFit
  BY <1>1, <1>3 DEF HoldTimerMatchesPress, PressesFit, PressFits, StopsFit
<1> QED
  BY <1>4, <1>5, <1>6, <1>7 DEF FrontendInv

LEMMA NextKeeps == FrontendInv /\ [Next]_vars => FrontendInv'
<1> SUFFICES ASSUME FrontendInv, [Next]_vars PROVE FrontendInv'
  OBVIOUS
<1>0. /\ Types /\ CallsFit /\ IdleFollows /\ BeginningsEnd /\ FollowedEnd
      /\ StartsAreSeen /\ OwnIsShown /\ TriggerFits
  BY DEF FrontendInv, TriggerFits
<1>1. CASE Daemon
  <2>1. Types' /\ CallsFit' /\ \E front : DaemonMoves(front)
    BY <1>0, <1>1, DaemonStepKeeps DEF DaemonKeeps
  <2>2. PICK front : DaemonMoves(front)
    BY <2>1
  <2>3. IdleFollows' /\ BeginningsEnd' /\ FollowedEnd' /\ StartsAreSeen' /\ OwnIsShown'
    BY <1>0, <2>1, <2>2, DaemonIdleFollows, DaemonBeginningsEnd, DaemonFollowedEnd,
       DaemonStartsAreSeen, DaemonOwnIsShown
  <2>4. UNCHANGED <<trigger, startTimer, recording, timerStale>> /\ (~excused' => ~excused)
    BY <2>2 DEF DaemonMoves, addonVars
  <2>5. TriggerFits'
    BY <1>0, <2>4 DEF TriggerFits, HoldTimerMatchesPress, PressesFit, StopsFit
  <2> QED
    BY <2>1, <2>3, <2>5 DEF FrontendInv, TriggerFits
<1>2. CASE Deliver
  <2>1. Types' /\ DeliverMoves
    BY <1>0, <1>2, DeliverKeepsTypes, DeliverGives
  <2>2. CallsFit'
    BY <1>0, <2>1 DEF CallsFit, DeliverMoves
  <2>3. IdleFollows' /\ BeginningsEnd' /\ FollowedEnd' /\ StartsAreSeen' /\ OwnIsShown'
    BY <1>0, <2>1, DeliverIdleFollows, DeliverBeginningsEnd, DeliverFollowedEnd,
       DeliverStartsAreSeen, DeliverOwnIsShown
  <2>4. TriggerFits'
    BY <1>0, <1>2, DeliverFits
  <2> QED
    BY <2>1, <2>2, <2>3, <2>4 DEF FrontendInv, TriggerFits
<1>3. CASE Input
  <2>1. Types' /\ InputMoves
    BY <1>0, <1>3, InputKeepsTypes, InputGives
  <2>2. CallsFit' /\ StartsAreSeen'
    BY <2>1 DEF InputMoves, MovesCore
  <2>3. IdleFollows' /\ BeginningsEnd' /\ FollowedEnd' /\ OwnIsShown'
    BY <1>0, <2>1, InputParts
  <2>4. TriggerFits'
    BY <1>0, <1>3, InputFits
  <2> QED
    BY <2>1, <2>2, <2>3, <2>4 DEF FrontendInv, TriggerFits
<1>4. CASE UNCHANGED vars
  BY <1>4 DEF FrontendInv, Types, CallsFit, IdleFollows, BeginningsEnd, FollowedEnd, StartWaits,
              StartsAreSeen, OwnIsShown, Shown, HoldTimerMatchesPress, PressesFit, PressFits, StopsFit,
              vars, addonVars, daemonVars, busVars, boundVars
<1> QED
  BY <1>1, <1>2, <1>3, <1>4 DEF Next, Daemon, Input

(* Every reachable state satisfies the inductive invariant.                 *)
THEOREM FrontendInvariant == Spec => []FrontendInv
BY InitGives, NextKeeps, PTL DEF Spec

-----------------------------------------------------------------------------
(* Once everything said has been heard, the addon follows no dictation of a *)
(* daemon that has none, and shows its own unless it is excused, whatever   *)
(* was reset, refused, timed out or lost before (the signal handlers and    *)
(* the stop path of fcitx_addon.cpp).                                       *)
THEOREM DictationsAreSeen == Spec => []DictationIsSeen
<1>1. FrontendInv => DictationIsSeen
  <2> SUFFICES ASSUME FrontendInv, Settled PROVE
        /\ status \in {"idle", "down"} => ~recording
        /\ status = "recording" /\ own => recording \/ remoteStatus \/ excused
    BY DEF DictationIsSeen, NoPhantomDictation, OwnRecordingIsFollowed
  <2>1. DOMAIN inbox = {} /\ DOMAIN calls = {} /\ Len(inbox) = 0
    BY EmptySeq DEF Settled
  <2>2. status \in {"idle", "down"} => ~recording
    BY <2>1 DEF FrontendInv, FollowedEnd, StartWaits, Busy
  <2>3. status = "recording" /\ own => recording \/ remoteStatus \/ excused
    <3> SUFFICES ASSUME status = "recording", own, ~excused PROVE recording \/ remoteStatus
      OBVIOUS
    <3>1. Shown(Len(inbox) + 1)
      BY DEF FrontendInv, OwnIsShown, Busy
    <3>2. PICK k \in 0 .. Len(inbox) + 1 - 1 : IF k = 0 THEN recording \/ remoteStatus ELSE Begins(inbox[k])
      BY <3>1 DEF Shown
    <3>3. k = 0
      BY <2>1
    <3> QED
      BY <3>2, <3>3
  <2> QED
    BY <2>2, <2>3
<1> QED
  BY <1>1, FrontendInvariant, PTL

(* The state has its types, and the hold timer of the addon is armed        *)
(* exactly while TriggerModeState has a press waiting for it: neither side  *)
(* of the FFI forgets a press the other still counts on.                    *)
THEOREM TimersMatch == Spec => []TimersMatchTrigger
<1>1. FrontendInv => TimersMatchTrigger
  <2> SUFFICES ASSUME FrontendInv PROVE FrontendTypeOK /\ HoldTimerMatchesPress
    BY DEF TimersMatchTrigger
  <2>1. HoldTimerMatchesPress /\ Types
    BY DEF FrontendInv
  <2>2. \A i \in DOMAIN calls : calls[i].slot \in {"none", "start", "stop"}
                                /\ calls[i].method \in {"start", "otherStart", "stop"}
    <3> TAKE i \in DOMAIN calls
    <3>1. calls[i] \in Calls
      BY <2>1 DEF Types
    <3> QED
      BY <3>1 DEF Calls, Slots
  <2> QED
    BY <2>1, <2>2 DEF FrontendTypeOK, Types
<1> QED
  BY <1>1, FrontendInvariant, PTL

(* No step loses the result of the addon's own recording, and no stop timer *)
(* of an earlier dictation stops a later one, unless an error was shown or  *)
(* a live failure announced since the addon's last start                    *)
(* (HandleRecognitionResult, StopTimerFires).                               *)
THEOREM LossesAreExcused == Spec => OnlyExcusedLosses
<1>1. FrontendInv /\ [Next]_vars =>
        [timerStale /\ StopTimerFires => calls' = calls \/ excused]_vars
  <2> SUFFICES ASSUME FrontendInv, timerStale, StopTimerFires, ~excused
               PROVE  calls' = calls
    OBVIOUS
  <2>1. ~StopIsDue(trigger)
    BY DEF FrontendInv, StopsFit
  <2> QED
    BY <2>1 DEF StopTimerFires
<1>2. FrontendInv /\ [Next]_vars =>
        [HandleRecognitionResult(TRUE) => recording \/ remoteStatus \/ excused]_vars
  <2> SUFFICES ASSUME FrontendInv, HandleRecognitionResult(TRUE), ~excused
               PROVE  recording \/ remoteStatus
    OBVIOUS
  <2>1. inbox[1] = Result(TRUE) /\ 1 \in DOMAIN inbox
    <3>1. Types /\ Receive(Result(TRUE))
      BY DEF FrontendInv, HandleRecognitionResult
    <3>2. inbox # <<>> /\ inbox[1] = Result(TRUE) /\ Len(inbox) >= 1
      BY <3>1, ReceiveTypes
    <3> QED
      BY <3>1, <3>2 DEF Types
  <2>2. Result(TRUE).msg = "result" /\ Result(TRUE).mine
    BY DEF Result
  <2>3. Shown(1)
    BY <2>1, <2>2 DEF FrontendInv, OwnIsShown
  <2>4. PICK k \in 0 .. 1 - 1 : IF k = 0 THEN recording \/ remoteStatus ELSE Begins(inbox[k])
    BY <2>3 DEF Shown
  <2>5. k = 0
    OBVIOUS
  <2> QED
    BY <2>4, <2>5
<1> QED
  BY <1>1, <1>2, FrontendInvariant, PTL
  DEF Spec, OnlyExcusedLosses, StaleStopTimerIsHarmless, NoSilentLoss
=============================================================================
