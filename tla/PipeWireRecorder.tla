--------------------------- MODULE PipeWireRecorder ---------------------------
(***************************************************************************)
(* The live recorder of vinpst-audio, pipewire_backend.rs: the caller of   *)
(* the AudioRecorder methods (RuntimeState, which holds the recorder by    *)
(* &mut), the worker thread that owns the PipeWire loop and stream, and    *)
(* the idle timer thread.  They share three channels and the chunk         *)
(* callback.  A method is a sequence of steps between its blocking waits;  *)
(* one command, one process callback or one timer event is one step of     *)
(* its thread.  Calls refused at the door (begin while recording, stop     *)
(* while not) change nothing and are not steps.                            *)
(*                                                                         *)
(* Outside the repository: PipeWire may fail to create, connect, activate  *)
(* or deactivate a stream; a buffer captured before a deactivation may be  *)
(* processed after it, but not after the next activation.  Threads do not  *)
(* panic, so a send or a join fails nowhere.                               *)
(***************************************************************************)
EXTENDS Naturals, Sequences, SequencesExt

CONSTANTS
  Targets,    (* capture targets; a target stands for the stream config     *)
  NoTarget,   (* no stream, or no request                                   *)
  MaxTakes,   (* bound: calls of begin_recording                            *)
  MaxChunks   (* bound: buffers per recording                               *)

ASSUME RecorderConstants ==
  /\ NoTarget \notin Targets
  /\ MaxTakes \in Nat /\ MaxChunks \in Nat

VARIABLES
  reuse,        (* VINPST_CAPTURE_REUSE                                     *)
  immediate,    (* VINPST_CAPTURE_IDLE_DESTROY_MS is 0                      *)
  pc, call,     (* where the caller is, and in which method                 *)
  target,       (* stream_config                                            *)
  recording,    (* PipeWireAudioRecorder.recording                          *)
  hasWorker,    (* worker is Some                                           *)
  outcome,      (* history: how the last call ended                         *)
  take,         (* history: the number of the last begin_recording          *)
  returned,     (* history: what the last stop_and_get_buffer returned      *)
  callback,     (* the recording whose chunk callback is installed, or 0    *)
  heard,        (* history: chunks given to the installed callback          *)
  workerThread, timerThread, (* "none", "running" or "exited"               *)
  commands,     (* worker command channel                                   *)
  timerQueue,   (* timer command channel                                    *)
  timer,        (* pending: <<>> or one expiry                              *)
  reply,        (* the response channel of the command under way            *)
  stream,       (* the target of state.stream, or NoTarget                  *)
  accepting, samples,  (* its fields                                        *)
  capturing, generation, (* PipeWireWorkerState.recording, idle_generation  *)
  stops,        (* history: captures this worker has finished               *)
  buffer,       (* a PipeWire buffer ready to be processed, or <<>>         *)
  produced      (* buffers captured in this recording                       *)

envVars      == <<reuse, immediate>>
callerVars   == <<pc, call, target, recording, hasWorker, outcome, take, returned>>
callbackVars == <<callback, heard>>
threadVars   == <<workerThread, timerThread>>
timerVars    == <<timerQueue, timer>>
workerVars   == <<stream, accepting, samples, capturing, generation, stops>>
deviceVars   == <<buffer, produced>>
vars == <<envVars, callerVars, callbackVars, threadVars, commands, timerVars, reply,
          workerVars, deviceVars>>

NoReply == [type |-> "none"]
Failed  == [type |-> "failed"]
Begun   == [type |-> "begun"]
Captured(s, g, n) == [type |-> "captured", samples |-> s, generation |-> g, stop |-> n]

(* An idle generation, with the stop it was returned by (history).          *)
Expiry(r) == [generation |-> r.generation, stop |-> r.stop]

BeginCommand    == [type |-> "Begin"]
FinishCommand   == [type |-> "Finish"]
ExpireIdle(e)   == [type |-> "ExpireIdle", expiry |-> e]
ShutdownCommand == [type |-> "Shutdown"]
Schedule(e)     == [type |-> "Schedule", expiry |-> e]

NoWorkerState ==
  /\ stream = NoTarget
  /\ accepting = FALSE
  /\ samples = <<>>
  /\ capturing = FALSE
  /\ generation = 0
  /\ stops = 0

Init ==
  /\ reuse \in BOOLEAN
  /\ immediate \in BOOLEAN
  /\ pc = "rest"
  /\ call = "none"
  /\ target = NoTarget
  /\ recording = FALSE
  /\ hasWorker = FALSE
  /\ outcome = "ok"
  /\ take = 0
  /\ returned = <<>>
  /\ callback = 0
  /\ heard = <<>>
  /\ workerThread = "none"
  /\ timerThread = "none"
  /\ commands = <<>>
  /\ timerQueue = <<>>
  /\ timer = <<>>
  /\ reply = NoReply
  /\ NoWorkerState
  /\ buffer = <<>>
  /\ produced = 0

-----------------------------------------------------------------------------
(* The caller.                                                              *)

AtRest == pc = "rest"
Return(result) == pc' = "rest" /\ outcome' = result

(* set_chunk_callback: Some before begin_recording, None at any time.       *)
InstallCallback ==
  /\ AtRest
  /\ ~recording
  /\ take < MaxTakes
  /\ callback' = take + 1
  /\ heard' = <<>>
  /\ UNCHANGED <<envVars, callerVars, threadVars, commands, timerVars, reply, workerVars,
                 deviceVars>>
ClearCallback ==
  /\ AtRest
  /\ callback # 0
  /\ callback' = 0
  /\ heard' = <<>>
  /\ UNCHANGED <<envVars, callerVars, threadVars, commands, timerVars, reply, workerVars,
                 deviceVars>>

(* shutdown_recording_worker, up to the first join.                         *)
ShutDown ==
  /\ timerQueue' = Append(timerQueue, ShutdownCommand)
  /\ pc' = "joinTimer"

(* begin_recording, up to the spawn or the Begin command.                   *)
BeginRecording(t) ==
  /\ AtRest
  /\ ~recording
  /\ callback = take + 1
  /\ call' = "begin"
  /\ target' = t
  /\ take' = take + 1
  /\ produced' = 0
  /\ IF hasWorker /\ ~reuse
     THEN ShutDown
     ELSE /\ pc' = IF hasWorker THEN "sending" ELSE "spawning"
          /\ UNCHANGED timerQueue
  /\ UNCHANGED <<envVars, recording, hasWorker, outcome, returned, callbackVars, threadVars,
                 commands, timer, reply, workerVars, buffer>>

(* spawn_recording_worker waits for the setup of the worker; when that      *)
(* fails both threads end by themselves.                                    *)
Spawn ==
  /\ pc = "spawning"
  /\ pc' = "sending"
  /\ hasWorker' = TRUE
  /\ workerThread' = "running"
  /\ timerThread' = "running"
  /\ generation' = 0
  /\ stops' = 0
  /\ UNCHANGED <<envVars, call, target, recording, outcome, take, returned, callbackVars,
                 commands, timerVars, reply, stream, accepting, samples, capturing, deviceVars>>
SpawnFails ==
  /\ pc = "spawning"
  /\ Return("error")
  /\ UNCHANGED <<envVars, call, target, recording, hasWorker, take, returned, callbackVars,
                 threadVars, commands, timerVars, reply, workerVars, deviceVars>>

SendBegin ==
  /\ pc = "sending"
  /\ commands' = Append(commands, BeginCommand)
  /\ pc' = "waiting"
  /\ UNCHANGED <<envVars, call, target, recording, hasWorker, outcome, take, returned,
                 callbackVars, threadVars, timerVars, reply, workerVars, deviceVars>>

Answered(c) ==
  /\ pc = "waiting"
  /\ call = c
  /\ reply # NoReply
  /\ reply' = NoReply

BeginReturns ==
  /\ Answered("begin")
  /\ recording' = (reply = Begun)
  /\ Return(IF reply = Begun THEN "ok" ELSE "error")
  /\ UNCHANGED <<envVars, call, target, hasWorker, take, returned, callbackVars, threadVars,
                 commands, timerVars, workerVars, deviceVars>>

(* stop_and_get_buffer and cancel_recording of a recording: the Finish      *)
(* command.                                                                 *)
SendFinish(c) ==
  /\ AtRest
  /\ recording
  /\ call' = c
  /\ commands' = Append(commands, FinishCommand)
  /\ pc' = "waiting"
  /\ UNCHANGED <<envVars, target, recording, hasWorker, outcome, take, returned, callbackVars,
                 threadVars, timerVars, reply, workerVars, deviceVars>>

ScheduleIdleDestroy_OnlyDelayed(e) ==
  /\ timerQueue' = IF immediate THEN timerQueue ELSE Append(timerQueue, Schedule(e))
  /\ UNCHANGED commands

(* schedule_idle_stream_destroy                                             *)
ScheduleIdleDestroy(e) ==
  IF immediate
  THEN /\ commands' = Append(commands, ExpireIdle(e))
       /\ UNCHANGED timerQueue
  ELSE /\ timerQueue' = Append(timerQueue, Schedule(e))
       /\ UNCHANGED commands

StopGetsBuffer ==
  /\ Answered("stop")
  /\ reply # Failed
  /\ recording' = FALSE
  /\ returned' = reply.samples
  /\ IF reuse
     THEN /\ ScheduleIdleDestroy(Expiry(reply))
          /\ Return("ok")
     ELSE /\ ShutDown
          /\ outcome' = "ok"
          /\ UNCHANGED commands
  /\ UNCHANGED <<envVars, call, target, hasWorker, take, callbackVars, threadVars, timer,
                 workerVars, deviceVars>>
StopFails ==
  /\ Answered("stop")
  /\ reply = Failed
  /\ recording' = FALSE
  /\ Return("error")
  /\ UNCHANGED <<envVars, call, target, hasWorker, take, returned, callbackVars, threadVars,
                 commands, timerVars, workerVars, deviceVars>>

(* cancel_recording after Finish, whatever it answered, and of an idle      *)
(* recorder that still has a worker (RuntimeState::drop).                   *)
CancelGoesOn ==
  /\ Answered("cancel")
  /\ recording' = FALSE
  /\ outcome' = IF reply = Failed THEN "error" ELSE "ok"
  /\ ShutDown
  /\ UNCHANGED <<envVars, call, target, hasWorker, take, returned, callbackVars, threadVars,
                 commands, timer, workerVars, deviceVars>>
CancelIdle ==
  /\ AtRest
  /\ ~recording
  /\ hasWorker
  /\ call' = "cancel"
  /\ outcome' = "ok"
  /\ ShutDown
  /\ UNCHANGED <<envVars, target, recording, hasWorker, take, returned, callbackVars,
                 threadVars, commands, timer, reply, workerVars, deviceVars>>

(* shutdown_recording_worker: the joins.                                    *)
JoinTimer ==
  /\ pc = "joinTimer"
  /\ timerThread = "exited"
  /\ timerThread' = "none"
  /\ commands' = Append(commands, ShutdownCommand)
  /\ pc' = "joinWorker"
  /\ UNCHANGED <<envVars, call, target, recording, hasWorker, outcome, take, returned,
                 callbackVars, workerThread, timerVars, reply, workerVars, deviceVars>>
JoinWorker ==
  /\ pc = "joinWorker"
  /\ workerThread = "exited"
  /\ workerThread' = "none"
  /\ hasWorker' = FALSE
  /\ commands' = <<>>
  /\ timerQueue' = <<>>
  /\ pc' = IF call = "begin" THEN "spawning" ELSE "rest"
  /\ UNCHANGED <<envVars, call, target, recording, outcome, take, returned, callbackVars,
                 timerThread, timer, reply, workerVars, deviceVars>>

-----------------------------------------------------------------------------
(* The idle timer thread, run_idle_destroy_timer.  A due timer and a        *)
(* command that has come in are taken in either order.                      *)

TimerReceives ==
  /\ timerThread = "running"
  /\ timerQueue # <<>>
  /\ timerQueue' = Tail(timerQueue)
  /\ IF Head(timerQueue).type = "Schedule"
     THEN /\ timer' = <<Head(timerQueue).expiry>>
          /\ UNCHANGED timerThread
     ELSE /\ timer' = <<>>
          /\ timerThread' = "exited"
  /\ UNCHANGED <<envVars, callerVars, callbackVars, workerThread, commands, reply, workerVars,
                 deviceVars>>

TimerFires ==
  /\ timerThread = "running"
  /\ timer # <<>>
  /\ commands' = Append(commands, ExpireIdle(Head(timer)))
  /\ timer' = <<>>
  /\ UNCHANGED <<envVars, callerVars, callbackVars, threadVars, timerQueue, reply, workerVars,
                 deviceVars>>

-----------------------------------------------------------------------------
(* The worker thread.                                                       *)

Receives(type) ==
  /\ workerThread = "running"
  /\ commands # <<>>
  /\ Head(commands).type = type
  /\ commands' = Tail(commands)

WorkerFrame == UNCHANGED <<envVars, callerVars, callbackVars, threadVars, timerVars, produced>>

(* state.stream = None                                                      *)
DropStream ==
  /\ stream' = NoTarget
  /\ accepting' = FALSE
  /\ samples' = <<>>
  /\ buffer' = <<>>

(* begin_worker_recording.  A Begin the worker would refuse as already      *)
(* recording is answered by no action: the caller would wait forever.       *)
BeginWorker ==
  /\ Receives("Begin")
  /\ ~capturing
  /\ generation' = generation + 1
  /\ UNCHANGED stops
  /\ WorkerFrame

(* create_persistent_stream and activate_worker_stream.                     *)
Activated ==
  /\ accepting' = TRUE
  /\ samples' = <<>>
  /\ buffer' = <<>>
  /\ capturing' = TRUE
  /\ reply' = Begun

(* The stream of the same target is activated again, or a fresh one is      *)
(* connected: for another target, or when the old one does not activate.    *)
BeginReuses ==
  /\ BeginWorker
  /\ stream = target
  /\ UNCHANGED stream
  /\ Activated
BeginCreates ==
  /\ BeginWorker
  /\ stream' = target
  /\ Activated
(* The fresh stream does not connect: one of another target stays.          *)
BeginCannotCreate ==
  /\ BeginWorker
  /\ reply' = Failed
  /\ UNCHANGED capturing
  /\ IF stream = target
     THEN DropStream
     ELSE UNCHANGED <<stream, accepting, samples, buffer>>
(* The fresh stream connects and does not activate: the replacement of an   *)
(* old one stays.                                                           *)
BeginCannotActivate ==
  /\ BeginWorker
  /\ reply' = Failed
  /\ UNCHANGED capturing
  /\ IF stream = target
     THEN /\ accepting' = FALSE
          /\ samples' = <<>>
          /\ buffer' = <<>>
          /\ UNCHANGED stream
     ELSE DropStream

FinishCaptures_KeepsAccepting ==
  /\ Receives("Finish")
  /\ capturing
  /\ capturing' = FALSE
  /\ generation' = generation + 1
  /\ stops' = stops + 1
  /\ reply' = Captured(samples, generation', stops')
  /\ samples' = <<>>
  /\ UNCHANGED <<stream, accepting, buffer>>
  /\ WorkerFrame

FinishCaptures_BumpsAfter ==
  /\ Receives("Finish")
  /\ capturing
  /\ accepting' = FALSE
  /\ capturing' = FALSE
  /\ generation' = generation + 1
  /\ stops' = stops + 1
  /\ reply' = Captured(samples, generation, stops')
  /\ samples' = <<>>
  /\ UNCHANGED <<stream, buffer>>
  /\ WorkerFrame

(* finish_worker_recording                                                  *)
FinishCaptures ==
  /\ Receives("Finish")
  /\ capturing
  /\ accepting' = FALSE
  /\ capturing' = FALSE
  /\ generation' = generation + 1
  /\ stops' = stops + 1
  /\ reply' = Captured(samples, generation', stops')
  /\ samples' = <<>>
  /\ UNCHANGED <<stream, buffer>>
  /\ WorkerFrame
FinishFails ==
  /\ Receives("Finish")
  /\ capturing
  /\ DropStream
  /\ capturing' = FALSE
  /\ reply' = Failed
  /\ UNCHANGED <<generation, stops>>
  /\ WorkerFrame

ShouldExpire_AnyGeneration(e) == ~capturing

(* should_expire_idle_stream                                                *)
ShouldExpire(e) == ~capturing /\ e.generation = generation

Expire ==
  /\ Receives("ExpireIdle")
  /\ IF ShouldExpire(Head(commands).expiry)
     THEN DropStream
     ELSE UNCHANGED <<stream, accepting, samples, buffer>>
  /\ UNCHANGED <<capturing, generation, stops, reply>>
  /\ WorkerFrame

(* WorkerCommand::Shutdown: shutdown_worker_state, and the loop quits.      *)
WorkerQuits ==
  /\ Receives("Shutdown")
  /\ DropStream
  /\ capturing' = FALSE
  /\ generation' = generation + 1
  /\ workerThread' = "exited"
  /\ UNCHANGED <<envVars, callerVars, callbackVars, timerThread, timerVars, reply, stops,
                 produced>>

(* PipeWire fills a buffer of the active stream.                            *)
Capture ==
  /\ capturing
  /\ buffer = <<>>
  /\ produced < MaxChunks
  /\ produced' = produced + 1
  /\ buffer' = <<[take |-> take, number |-> produced + 1]>>
  /\ UNCHANGED <<envVars, callerVars, callbackVars, threadVars, commands, timerVars, reply,
                 workerVars>>

(* capture_stream_buffer                                                    *)
Process ==
  /\ workerThread = "running"
  /\ buffer # <<>>
  /\ buffer' = <<>>
  /\ IF accepting
     THEN /\ samples' = samples \o buffer
          /\ heard' = IF callback = 0 THEN heard ELSE heard \o buffer
     ELSE UNCHANGED <<samples, heard>>
  /\ UNCHANGED <<envVars, callerVars, callback, threadVars, commands, timerVars, reply,
                 stream, accepting, capturing, generation, stops, produced>>

-----------------------------------------------------------------------------
CallerSteps ==
  \/ Spawn \/ SpawnFails \/ SendBegin \/ BeginReturns
  \/ StopGetsBuffer \/ StopFails \/ CancelGoesOn \/ JoinTimer \/ JoinWorker
TimerSteps == TimerReceives \/ TimerFires
WorkerSteps ==
  \/ BeginReuses \/ BeginCreates \/ BeginCannotCreate \/ BeginCannotActivate
  \/ FinishCaptures \/ FinishFails \/ Expire \/ WorkerQuits

(* Method calls and buffers are the environment's to make.                  *)
Next ==
  \/ InstallCallback \/ ClearCallback
  \/ \E t \in Targets : BeginRecording(t)
  \/ \E c \in {"stop", "cancel"} : SendFinish(c)
  \/ CancelIdle
  \/ CallerSteps \/ TimerSteps \/ WorkerSteps
  \/ Capture \/ Process

(* Every thread is scheduled, and a pending timer falls due.                *)
Spec ==
  /\ Init
  /\ [][Next]_vars
  /\ WF_vars(CallerSteps) /\ WF_vars(WorkerSteps)
  /\ WF_vars(TimerReceives) /\ WF_vars(TimerFires)

-----------------------------------------------------------------------------
(* Properties.                                                              *)

Expiries == [generation : Nat, stop : Nat]
Chunks   == [take : 1 .. MaxTakes, number : 1 .. MaxChunks]

(* The type invariant; at most one reply is under way and at most one       *)
(* expiry is pending in the timer.                                          *)
RecorderTypeOK ==
  /\ reuse \in BOOLEAN /\ immediate \in BOOLEAN
  /\ pc \in {"rest", "spawning", "sending", "waiting", "joinTimer", "joinWorker"}
  /\ call \in {"none", "begin", "stop", "cancel"}
  /\ target \in Targets \cup {NoTarget}
  /\ recording \in BOOLEAN /\ hasWorker \in BOOLEAN
  /\ outcome \in {"ok", "error"}
  /\ take \in 0 .. MaxTakes
  /\ returned \in Seq(Chunks)
  /\ callback \in 0 .. MaxTakes
  /\ heard \in Seq(Chunks)
  /\ workerThread \in {"none", "running", "exited"}
  /\ timerThread \in {"none", "running", "exited"}
  /\ commands \in Seq({BeginCommand, FinishCommand, ShutdownCommand}
                        \cup [type : {"ExpireIdle"}, expiry : Expiries])
  /\ timerQueue \in Seq({ShutdownCommand} \cup [type : {"Schedule"}, expiry : Expiries])
  /\ timer \in Seq(Expiries) /\ Len(timer) <= 1
  /\ reply \in {NoReply, Failed, Begun}
                 \cup [type : {"captured"}, samples : Seq(Chunks), generation : Nat, stop : Nat]
  /\ stream \in Targets \cup {NoTarget}
  /\ accepting \in BOOLEAN
  /\ samples \in Seq(Chunks)
  /\ capturing \in BOOLEAN
  /\ generation \in Nat /\ stops \in Nat
  /\ buffer \in Seq(Chunks) /\ Len(buffer) <= 1
  /\ produced \in 0 .. MaxChunks

(* Between calls the caller's recording flag and the worker's agree, a      *)
(* recording has an accepting stream of the requested target, and a worker  *)
(* that has been given up has left neither a thread nor a stream behind.    *)
SidesAgree ==
  AtRest =>
    /\ capturing = recording
    /\ recording => hasWorker /\ stream = target /\ accepting
    /\ hasWorker <=> workerThread = "running"
    /\ hasWorker <=> timerThread = "running"
    /\ ~hasWorker => stream = NoTarget /\ timer = <<>>

(* The first n buffers of recording t.                                      *)
FirstOf(t, n) == [i \in 1 .. n |-> [take |-> t, number |-> i]]

(* What stop returns is audio of its own recording only, from its first     *)
(* buffer and without a gap, although the stream outlives recordings and    *)
(* buffers may still be processed after it was deactivated.                 *)
StopReturnsItsTake ==
  reply.type = "captured" => reply.samples = FirstOf(take, Len(reply.samples))

(* The same of what the chunk callback hears, which is installed before     *)
(* the stream is armed and cleared after it was disarmed: a streaming       *)
(* session gets exactly the audio that stop returns.                        *)
CallbackHearsItsTake ==
  /\ heard = FirstOf(callback, Len(heard))
  /\ reply.type = "captured" /\ callback = take => heard = reply.samples

(* Audio stays in the take it was captured for, on both of its ways out.    *)
AudioStaysInItsTake == StopReturnsItsTake /\ CallbackHearsItsTake

(* Expiries that are on their way to the worker.                            *)
Pending ==
  ToSet(timer)
    \cup {m.expiry : m \in {n \in ToSet(timerQueue) : n.type = "Schedule"}}
    \cup {m.expiry : m \in {n \in ToSet(commands) : n.type = "ExpireIdle"}}

(* A stream kept warm by a stop is going to expire: with a timer replaced   *)
(* at every stop, a generation advanced at every begin and every stop and   *)
(* expiries under way in two channels, the current one is never lost.       *)
(* Only a failed begin may leave a stream without one, although             *)
(* audio-contract.md:45 says that error cleanup retains none.               *)
WarmStreamIsScheduled ==
  AtRest /\ ~recording /\ stream # NoTarget /\ outcome = "ok" =>
    \E e \in Pending : e.generation = generation

(* The three threads of a recorder hold one consistent recorder between     *)
(* calls, with the expiry of a warm stream under way in one of them.        *)
SidesAreConsistent == RecorderTypeOK /\ SidesAgree /\ WarmStreamIsScheduled

(* "A stale timeout cannot destroy a newly armed or more recently stopped   *)
(* stream" (audio-contract.md:47).                                          *)
StaleExpiryIsHarmless ==
  [][Receives("ExpireIdle") /\ stream' # stream =>
       ~capturing /\ Head(commands).expiry.stop = stops]_vars

(* A call that waits for its threads gets its answer, so no command is      *)
(* dropped, refused or left behind a thread that has ended.                 *)
CallsReturn == ~AtRest ~> AtRest

(* The microphone of a recorder that is left alone is closed in the end.    *)
WarmStreamEnds ==
  (AtRest /\ ~recording /\ stream # NoTarget /\ outcome = "ok")
    ~> (stream = NoTarget \/ recording \/ outcome = "error")

(* Neither a caller nor the microphone is kept for good.                    *)
RecorderProgress == CallsReturn /\ WarmStreamEnds
=============================================================================
