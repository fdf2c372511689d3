-------------------------- MODULE RecordingService --------------------------
(***************************************************************************)
(* The D-Bus service around the recording runtime (dbus_service.rs):       *)
(* StartRecording, StartCommandRecording and StopRecording, serialised by  *)
(* the recording_operation lock, and the live emitter task each start      *)
(* spawns, which polls the runtime every 40 ms without taking that lock.   *)
(* A step is what runs between two points where another task may run: one  *)
(* critical section of the runtime or live_partials mutex, or one signal.  *)
(*                                                                         *)
(* A call that cannot even begin (start while busy, stop while not         *)
(* recording) only returns an error and is not a step.  Waiters of the     *)
(* lock hold nothing, so only its holder, op, is a variable.               *)
(***************************************************************************)
EXTENDS RecordingRuntime, Sequences

CONSTANTS
  Notice,       (* a LiveRecognitionEvent::Error, among the texts of an emitter *)
  LiveFailures, (* whether polling a live session may fail                  *)
  EmitMayFail   (* whether sending a signal may fail                        *)

ASSUME ServiceConstants ==
  /\ Notice \notin Texts \cup {NoText}
  /\ LiveFailures \in BOOLEAN
  /\ EmitMayFail \in BOOLEAN

VARIABLES
  op,          (* the handler holding recording_operation, if any           *)
  generation,  (* LivePartialEmissionState                                  *)
  lastEmitted,
  emitter,     (* the live emitter task of each recording                   *)
  shown,       (* history: the last StatusChanged on the bus                *)
  results,     (* history: RecognitionResult signals of each recording      *)
  notice       (* history: what became of the live Error of each recording  *)

liveVars    == <<generation, lastEmitted>>
busVars     == <<shown, results, notice>>
serviceVars == <<runtimeVars, op, liveVars, emitter, busVars>>

Free == [pc |-> "free", session |-> NoSession, last |-> NoText, partial |-> NoText]

NoTask == [pc |-> "none", gen |-> 0, from |-> NoSession, todo |-> <<>>]

ServiceInit ==
  /\ RuntimeInit
  /\ op = Free
  /\ generation = 0
  /\ lastEmitted = NoText
  /\ emitter = [s \in Recordings |-> NoTask]
  /\ shown = "idle"
  /\ results = [s \in Recordings |-> 0]
  /\ notice = [s \in Recordings |-> "none"]

(* A signal is sent or its emission fails.                                  *)
Emissions == IF EmitMayFail THEN BOOLEAN ELSE {TRUE}

StatusChanged(st, ok) ==
  /\ shown' = IF ok THEN st ELSE shown
  /\ UNCHANGED <<results, notice>>

(* Which partials the bus has shown is not kept.                            *)
RecognitionPartial == UNCHANGED busVars

Goto(pc) == op' = [op EXCEPT !.pc = pc]
Return   == op' = Free

-----------------------------------------------------------------------------
(* StartRecording and StartCommandRecording.                                *)

Start(s, sc, sel) ==
  /\ op.pc = "free"
  /\ StartRecording(s, sc, sel)
  /\ op' = [Free EXCEPT !.pc = "announce", !.session = s]
  /\ UNCHANGED <<liveVars, emitter, busVars>>

(* A failed emission returns an error to the caller, the recording goes on. *)
AnnounceRecording(ok) ==
  /\ op.pc = "announce"
  /\ StatusChanged("recording", ok)
  /\ IF ok THEN Goto("beginLive") ELSE Return
  /\ UNCHANGED <<runtimeVars, liveVars, emitter>>

(* begin_live_partial_emission and spawn_live_partial_emitter.              *)
BeginLive ==
  /\ op.pc = "beginLive"
  /\ generation' = generation + 1
  /\ lastEmitted' = NoText
  /\ emitter' = [emitter EXCEPT ![op.session] = [NoTask EXCEPT !.pc = "tick", !.gen = generation']]
  /\ Return
  /\ UNCHANGED <<runtimeVars, busVars>>

-----------------------------------------------------------------------------
(* StopRecording.                                                           *)

(* ensure_recording_for_stop.                                               *)
Stop ==
  /\ op.pc = "free"
  /\ status = "recording"
  /\ op' = [Free EXCEPT !.pc = "cancelLive", !.session = activeSession]
  /\ UNCHANGED <<runtimeVars, liveVars, emitter, busVars>>

CancelLive ==
  /\ op.pc = "cancelLive"
  /\ generation' = generation + 1
  /\ lastEmitted' = NoText
  /\ op' = [op EXCEPT !.pc = "prepare", !.last = lastEmitted]
  /\ UNCHANGED <<runtimeVars, emitter, busVars>>

Prepare_TooShortReturns ==
  /\ op.pc = "prepare"
  /\ \/ /\ \E sc \in Scenes : PrepareStopReady(sc)
        /\ Goto("showInferring")
     \/ /\ PrepareStopDiscards
        /\ Return
     \/ /\ status # "recording"
        /\ Goto("showIdle")
        /\ UNCHANGED runtimeVars
  /\ UNCHANGED <<liveVars, emitter, busVars>>

(* A live failure may have ended the recording since it was looked at.      *)
Prepare ==
  /\ op.pc = "prepare"
  /\ \/ /\ \E sc \in Scenes : PrepareStopReady(sc)
        /\ Goto("showInferring")
     \/ /\ PrepareStopDiscards
        /\ Goto("showIdle")
     \/ /\ status # "recording"
        /\ Goto("showIdle")
        /\ UNCHANGED runtimeVars
  /\ UNCHANGED <<liveVars, emitter, busVars>>

(* A failed emission returns at once, dropping what prepare handed over.    *)
ShowInferring(ok) ==
  /\ op.pc = "showInferring"
  /\ StatusChanged("inferring", ok)
  /\ IF ok
     THEN Goto("begin") /\ UNCHANGED runtimeVars
     ELSE Return /\ DropPrepared
  /\ UNCHANGED <<liveVars, emitter>>

Begin_FailureReturns ==
  /\ op.pc = "begin"
  /\ \/ \E text \in BOOLEAN, p \in Texts \cup {NoText} :
          /\ BeginStopInference(text, p)
          /\ op' = [op EXCEPT !.pc = IF hand'.post THEN "showPostprocessing" ELSE "finish",
                              !.partial = partialText']
     \/ /\ BeginStopInferenceFails
        /\ Return
  /\ UNCHANGED <<liveVars, emitter, busVars>>

Begin ==
  /\ op.pc = "begin"
  /\ \/ \E text \in BOOLEAN, p \in Texts \cup {NoText} :
          /\ BeginStopInference(text, p)
          /\ op' = [op EXCEPT !.pc = IF hand'.post THEN "showPostprocessing" ELSE "finish",
                              !.partial = partialText']
     \/ /\ BeginStopInferenceFails
        /\ Goto("showIdle")
  /\ UNCHANGED <<liveVars, emitter, busVars>>

ShowPostprocessing(ok) ==
  /\ op.pc = "showPostprocessing"
  /\ StatusChanged("postprocessing", ok)
  /\ Goto(IF ok THEN "finish" ELSE "abort")
  /\ UNCHANGED <<runtimeVars, liveVars, emitter>>

Abort ==
  /\ op.pc = "abort"
  /\ AbortStopRecording
  /\ Goto("showIdle")
  /\ UNCHANGED <<liveVars, emitter, busVars>>

Finish ==
  /\ op.pc = "finish"
  /\ \/ FinishStopRecording /\ Goto("emitPartial")
     \/ FinishStopRecordingFails /\ Goto("showIdle")
  /\ UNCHANGED <<liveVars, emitter, busVars>>

EmitPartial_DuplicateEndsStop(ok) ==
  /\ op.pc = "emitPartial"
  /\ IF op.partial \notin {NoText, op.last}
     THEN /\ RecognitionPartial
          /\ Goto(IF ok THEN "emitResult" ELSE "showIdle")
     ELSE /\ Goto("showIdle")
          /\ UNCHANGED busVars
  /\ UNCHANGED <<runtimeVars, liveVars, emitter>>

(* A partial that was not the last one emitted live is emitted before the   *)
(* result; a failure skips the result, not the final status.                *)
EmitPartial(ok) ==
  /\ op.pc = "emitPartial"
  /\ IF op.partial \notin {NoText, op.last}
     THEN /\ RecognitionPartial
          /\ Goto(IF ok THEN "emitResult" ELSE "showIdle")
     ELSE /\ Goto("emitResult")
          /\ UNCHANGED busVars
  /\ UNCHANGED <<runtimeVars, liveVars, emitter>>

(* A warning of the text processor is notified first; failing to send it    *)
(* skips the result as failing to send the result itself does.              *)
EmitResult(ok) ==
  /\ op.pc = "emitResult"
  /\ results' = IF ok THEN [results EXCEPT ![op.session] = @ + 1] ELSE results
  /\ Goto("showIdle")
  /\ UNCHANGED <<runtimeVars, liveVars, emitter, shown, notice>>

(* Every path of stop but the two above ends by emitting idle.              *)
ShowIdle(ok) ==
  /\ op.pc = "showIdle"
  /\ StatusChanged("idle", ok)
  /\ Return
  /\ UNCHANGED <<runtimeVars, liveVars, emitter>>

-----------------------------------------------------------------------------
(* The task spawned by spawn_live_partial_emitter for recording s.          *)

IsCurrent(s) == generation = emitter[s].gen

TaskGoto(s, pc) == emitter' = [emitter EXCEPT ![s].pc = pc]
TaskEndsAs(s, pc) == emitter' = [emitter EXCEPT ![s] = [NoTask EXCEPT !.pc = pc]]
TaskEnds(s) == TaskEndsAs(s, "done")
NextEvent(s) == emitter' = [emitter EXCEPT ![s].pc = "event", ![s].todo = Tail(@)]

Tick(s) ==
  /\ emitter[s].pc = "tick"
  /\ IF IsCurrent(s) THEN TaskGoto(s, "poll") ELSE TaskEnds(s)
  /\ UNCHANGED <<runtimeVars, op, liveVars, busVars>>

PollEnds(s) ==
  /\ emitter[s].pc = "poll"
  /\ status # "recording"
  /\ TaskEnds(s)
  /\ UNCHANGED <<runtimeVars, op, liveVars, busVars>>

(* What is drained belongs to the recording active now: at most one new     *)
(* partial here, and the Error of the session, once.                        *)
Poll(s, p, error) ==
  /\ emitter[s].pc = "poll"
  /\ TakeLiveEvents(p)
  /\ error => notice[activeSession] = "none"
  /\ LET partials == IF LivePartialIsNew(p) THEN <<p>> ELSE <<>>
         events   == IF error THEN partials \o <<Notice>> ELSE partials
     IN  emitter' = [emitter EXCEPT ![s].pc = IF events = <<>> THEN "tick" ELSE "event",
                                    ![s].from = activeSession,
                                    ![s].todo = events]
  /\ notice' = IF error THEN [notice EXCEPT ![activeSession] = "drained"] ELSE notice
  /\ UNCHANGED <<op, liveVars, shown, results>>

PollFails(s) ==
  /\ LiveFailures
  /\ emitter[s].pc = "poll"
  /\ TakeLiveEventsFails
  /\ TaskGoto(s, "showError")
  /\ UNCHANGED <<op, liveVars, busVars>>

CheckEvent_WithoutGeneration(s) ==
  /\ emitter[s].pc = "event"
  /\ IF emitter[s].todo = <<>> THEN TaskGoto(s, "tick")
     ELSE TaskGoto(s, IF Head(emitter[s].todo) = Notice THEN "notify" ELSE "compare")
  /\ UNCHANGED <<runtimeVars, op, liveVars, busVars>>

(* The generation is checked again before each event.                       *)
CheckEvent(s) ==
  /\ emitter[s].pc = "event"
  /\ IF emitter[s].todo = <<>> THEN TaskGoto(s, "tick")
     ELSE IF ~IsCurrent(s) THEN TaskEnds(s)
     ELSE TaskGoto(s, IF Head(emitter[s].todo) = Notice THEN "notify" ELSE "compare")
  /\ UNCHANGED <<runtimeVars, op, liveVars, busVars>>

ComparePartial(s) ==
  /\ emitter[s].pc = "compare"
  /\ IF lastEmitted = Head(emitter[s].todo) THEN NextEvent(s) ELSE TaskGoto(s, "send")
  /\ UNCHANGED <<runtimeVars, op, liveVars, busVars>>

SendPartial(s, ok) ==
  /\ emitter[s].pc = "send"
  /\ RecognitionPartial
  /\ IF ok THEN TaskGoto(s, "record") ELSE TaskEnds(s)
  /\ UNCHANGED <<runtimeVars, op, liveVars>>

RecordPartial(s) ==
  /\ emitter[s].pc = "record"
  /\ lastEmitted' = IF IsCurrent(s) THEN Head(emitter[s].todo) ELSE lastEmitted
  /\ NextEvent(s)
  /\ UNCHANGED <<runtimeVars, op, generation, busVars>>

NotifyError(s, ok) ==
  /\ emitter[s].pc = "notify"
  /\ notice' = IF ok THEN [notice EXCEPT ![emitter[s].from] = "reported"] ELSE notice
  /\ IF ok THEN NextEvent(s) ELSE TaskEnds(s)
  /\ UNCHANGED <<runtimeVars, op, liveVars, shown, results>>

(* After a live failure: error, recovery, idle, whatever the emissions give. *)
ShowError(s, ok) ==
  /\ emitter[s].pc = "showError"
  /\ StatusChanged("error", ok)
  /\ TaskGoto(s, "recover")
  /\ UNCHANGED <<runtimeVars, op, liveVars>>

Recover_Forgotten(s) ==
  /\ emitter[s].pc = "recover"
  /\ TaskGoto(s, "showRecovered")
  /\ UNCHANGED <<runtimeVars, op, liveVars, busVars>>

Recover(s) ==
  /\ emitter[s].pc = "recover"
  /\ RecoverLiveRecordingError
  /\ TaskGoto(s, "showRecovered")
  /\ UNCHANGED <<op, liveVars, busVars>>

ShowRecovered(s, ok) ==
  /\ emitter[s].pc = "showRecovered"
  /\ StatusChanged("idle", ok)
  /\ TaskEndsAs(s, "recovered")
  /\ UNCHANGED <<runtimeVars, op, liveVars>>

-----------------------------------------------------------------------------
StartCall ==
  \E s \in Recordings :
    \/ \E sc \in Scenes : Start(s, sc, NoText)
    \/ \E sel \in Texts : Start(s, CommandScene, sel)

Handler ==
  \/ BeginLive \/ CancelLive \/ Prepare \/ Begin \/ Abort \/ Finish
  \/ \E ok \in Emissions :
       \/ AnnounceRecording(ok) \/ ShowInferring(ok) \/ ShowPostprocessing(ok)
       \/ EmitPartial(ok) \/ EmitResult(ok) \/ ShowIdle(ok)

Task(s) ==
  \/ Tick(s) \/ PollEnds(s) \/ PollFails(s)
  \/ \E p \in Texts \cup {NoText}, error \in BOOLEAN : Poll(s, p, error)
  \/ CheckEvent(s) \/ ComparePartial(s) \/ RecordPartial(s) \/ Recover(s)
  \/ \E ok \in Emissions :
       SendPartial(s, ok) \/ NotifyError(s, ok) \/ ShowError(s, ok) \/ ShowRecovered(s, ok)

ServiceNext == StartCall \/ Stop \/ Handler \/ \E s \in Recordings : Task(s)

(* Handlers and tasks run on the tokio runtime, which polls every woken     *)
(* task; nobody is obliged to call start or stop.                           *)
ServiceFairness ==
  /\ WF_serviceVars(Handler)
  /\ \A s \in Recordings : WF_serviceVars(Task(s))

ServiceSpec == ServiceInit /\ [][ServiceNext]_serviceVars /\ ServiceFairness
-----------------------------------------------------------------------------
(* Properties.                                                              *)

OpStages == {"free", "announce", "beginLive", "cancelLive", "prepare", "showInferring",
             "begin", "showPostprocessing", "abort", "finish", "emitPartial",
             "emitResult", "showIdle"}
TaskStages == {"none", "tick", "poll", "event", "compare", "send", "record", "notify",
               "showError", "recover", "showRecovered", "done", "recovered"}
Over == {"none", "done", "recovered"}
FailurePath == {"showError", "recover", "showRecovered", "recovered"}

(* The runtime is well typed, and so are the handler, the emitters and what *)
(* the bus has seen.                                                        *)
ServiceTypeOK ==
  /\ RuntimeTypeOK
  /\ op \in [pc : OpStages, session : Recordings \cup {NoSession},
             last : Texts \cup {NoText}, partial : Texts \cup {NoText}]
  /\ generation \in Nat
  /\ lastEmitted \in Texts \cup {NoText}
  /\ \A s \in Recordings :
       /\ emitter[s].pc \in TaskStages
       /\ emitter[s].gen <= generation
       /\ emitter[s].from \in Recordings \cup {NoSession}
       /\ emitter[s].todo \in Seq(Texts \cup {Notice})
  /\ shown \in Statuses
  /\ results \in [Recordings -> 0 .. 1]
  /\ notice \in [Recordings -> {"none", "drained", "reported"}]

(* Once no StopRecording call is running, the runtime is not left inferring *)
(* or post-processing: nobody would ever take it out of there, and every    *)
(* later start would be refused as busy.                                    *)
NoStrandedStop == op.pc = "free" => status \notin {"inferring", "postprocessing"}

(* A recording nobody is starting or stopping is followed by a live emitter *)
(* task of the current generation: otherwise its partials and its failure   *)
(* would never be noticed.                                                  *)
RecordingIsFollowed ==
  op.pc = "free" /\ status = "recording" =>
    /\ emitter[activeSession].pc \notin Over
    /\ IsCurrent(activeSession)

(* Between calls, a RecognitionResult has been signalled once for every     *)
(* session that finished and never for one that was cancelled, whatever     *)
(* failed after inference.                                                  *)
ResultMatchesOutcome ==
  op.pc = "free" =>
    \A s \in Recordings : results[s] = IF phase[s] = "finished" THEN 1 ELSE 0

(* The generation isolates recordings: a task that goes on to signal what   *)
(* it drained drained it from the recording it was spawned for, though a    *)
(* stale task may still poll a newer recording.  The generation says        *)
(* nothing, though, of a recording that ended without a stop, because the   *)
(* poll of another task came upon its failure: its own task stays current   *)
(* until the next start's BeginLive, and may pass off what it drains from   *)
(* that start's recording as its own.                                       *)
PartialsComeFromOwnRecording ==
  \A s \in Recordings :
    emitter[s].pc \in {"compare", "send", "record", "notify"} =>
      \/ emitter[s].from = s
      \/ phase[s] = "cancelled" /\ \E t \in Recordings \ {s} : emitter[t].pc \in FailurePath

(* Two emitter tasks never race for the same recording with the same        *)
(* generation.                                                              *)
OneCurrentEmitter ==
  \A s, t \in Recordings :
    /\ emitter[s].pc \notin Over /\ IsCurrent(s)
    /\ emitter[t].pc \notin Over /\ IsCurrent(t)
    => s = t

(* A recording is followed by one emitter and no other, and nothing another *)
(* drained is signalled as its own, with the exception named above.         *)
FollowedByOne ==
  /\ ServiceTypeOK /\ RecordingIsFollowed /\ OneCurrentEmitter
  /\ PartialsComeFromOwnRecording

(* As long as no live session has failed, the last StatusChanged on the bus *)
(* is the status of the runtime whenever no call is running.  (The emitter  *)
(* that finds a failure announces it outside recording_operation, so from   *)
(* then on its error and idle may come after those of a later recording.)   *)
LiveFailed == \E s \in Recordings : emitter[s].pc \in FailurePath
ShownStatusIsCurrent == op.pc = "free" /\ ~LiveFailed => shown = status

(* Every call returns.                                                      *)
CallsReturn == op.pc # "free" ~> op.pc = "free"

(* The runtime does not stay inferring, post-processing or failed.          *)
BusyEnds == status \in {"inferring", "postprocessing", "error"} ~> status = "idle"

(* The emitter task of a recording that is over ends, even if it is never   *)
(* woken before the next recording has begun.                               *)
EmittersEnd ==
  \A s \in Recordings :
    emitter[s].pc # "none" /\ phase[s] # "live" ~> emitter[s].pc \in Over

(* Neither a caller, nor the runtime, nor a task is kept waiting for good,  *)
(* whichever of the calls, tasks and inferences is slow.                    *)
ServiceProgress == CallsReturn /\ BusyEnds /\ EmittersEnd

(* What the bus sees is what a listening client is promised.                *)
Bus == INSTANCE DictationBus WITH
  announced <- shown,
  excused <- LiveFailed,
  due <- op.pc \in {"begin", "showPostprocessing", "finish", "emitPartial", "emitResult"}
BusPromise == Bus!Spec
=============================================================================
