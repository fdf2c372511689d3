# Verification of the fcitx-vinpst dictation daemon

TLA+ models, model-checking configurations and machine-checked proofs about
fcitx-vinpst: a voice-input daemon in Rust, its D-Bus service, and the Fcitx5
addon that drives it. Every definition is read off the source under `src/`;
`PROJECT.json` maps each to its lines. The documents under
`src/docs/architecture` are used only for what they promise: the properties.

## 1. The system

| Part | Source | State it keeps | Operations | In this project |
|---|---|---|---|---|
| Recording state machine | `vinpst-daemon/src/runtime.rs`, `runtime/recording.rs`, `capture.rs`, `output_ducker.rs` | status, recorder, chunk callback, active session, scene, selection, last partial, saved sink volume | start, live poll, recover, prepare/begin/finish/abort stop | `RecordingRuntime` |
| Streaming delivery | `runtime/active_session.rs` | start gate, pending samples, drained events, first error | chunk callback, live poll, finish | `StreamingDelivery` |
| D-Bus service, live emitters | `dbus_service.rs` | recording lock, emission generation, last emitted partial | StartRecording, StartCommandRecording, StopRecording; one emitter task per recording | `RecordingService`, abstract `DictationBus` |
| ASR selection and reload | `runtime/reload.rs`, `scene.rs`, `asr_menu.rs`, `config_io.rs` | generation, pending request, worker flags, last error, backend; config in memory and in the file | SetActiveAsrProvider/Target, ReloadAsrBackend, SetActiveScene; the reload worker | `AsrReload` |
| PipeWire recorder | `vinpst-audio/src/pipewire_backend.rs` | worker and timer threads, their channels, stream, idle generation, chunk callback | begin, stop, cancel, idle expiry | `PipeWireRecorder` |
| Text adapters | `runtime/adapter_process.rs`, `vinpst-text/src/adapter_runtime.rs`, `vinpst-process` | supervised children, pid records, adapter definitions | start, stop, poll, reconcile with rollback | `AdapterSupervisor` |
| Remote text | `remote.rs`, `remote/server.rs` | connected clients, the text typed so far, debounce generation, shutdown | connect, update, finalize, commit, debounce, disconnect, stop | `RemoteText` |
| Trigger mode and session controller | `vinpst-fcitx-core`, driven by `cpp/fcitx5-addon` | trigger phase, both timers, followed session, pending call | press, release, timers, replies, signals, adoption, reset | `TriggerMode`, `Frontend` |
| Command ASR | `vinpst-asr/src/command_streaming.rs`, `vinpst-process` | helper process and its pipes, held chunk, events, deadlines | push, poll, finish, cancel, drop | `CommandStreaming` |
| GUI hotword file | `vinpst-gui/src/hotword_persistence.rs`, `hotword_activation_retry.rs` | editor baseline, pending activation, the file with its temporary and recovery links | load, save with exchange and rollback, activate, retry | `HotwordFile` |
| Text processing, config schema, registry, CLI, rest of the GUI, HTTP | other crates | files, views | compute, install, edit, display | not modelled (section 6) |

How they interact. The addon calls the service over D-Bus and follows its
signals. The service runs every call as a task of its own; the three recording
calls are serialised by `recording_operation`, all access to `RuntimeState` by
one runtime mutex. A start spawns an emitter task that wakes every 40 ms, polls
the runtime *without* the recording lock and signals partial texts. The audio
thread delivers chunks straight into the recognition session through the
callback the runtime installed. Reload calls leave a request with the runtime
and, unless one is said to be running, spawn a worker that prepares the backend
outside the mutex and polls every 20 ms for an idle moment. Adapters and
command helpers are process groups of their own, which outlive a daemon that is
killed. The GUI shares only files with the daemon, and asks it to reload them.

What is hard here: an operation is a dozen awaits, and an emitter, a reload
worker, another call or the audio thread can run at each of them; every early
return must release the session, the capture, the volume and the status; a
signal may fail to be sent; a live session may fail at any poll; the config is
read, changed and written in separate steps; the addon and the daemon time out
and restart independently; helpers, adapters, browsers and other writers of a
file do what they like between any two system calls. `PROJECT.json` lists these hazards
at their lines, with the properties that cover them.

## 2. Modules

### RecordingRuntime (proofs in `RecordingServiceProofs`)

One action per method of `recording.rs`; each method takes `&mut self` under
the runtime mutex, so one atomic action is what the code gives. Nothing is
assumed about callers: any method may be called whenever its own guard admits
it. `hand` is the value a caller of stop carries between the calls
(`PreparedStopRecording::Ready`, then `PendingStopRecording`); `phase` records
what became of each session. A recognition is reduced to failed, empty or some
text, a capture to failed, too short or long enough, a scene to whether it
post-processes. `DropPrepared` is the Rust drop of a prepared stop on an early
return of the service. `restoreFailed`, `sinkVolume` belong to the world outside
(wpctl).

### RecordingService (+ `MCRecordingService`, `RecordingServiceProofs`) and DictationBus

The handlers of the three recording calls as a process `op` with a program
counter, and one emitter process per recording. A step is what runs between two
points where another task may run: one critical section or one signal. It
EXTENDS `RecordingRuntime`, so every handler step that touches the runtime is
one of its actions. `shown`, `results` and `notice` are histories of
what the bus has seen. Constants choose whether live sessions and emissions may
fail. Calls refused at the door change nothing and are not steps; the lock's
waiters hold nothing, so only its holder is modelled.

`DictationBus` is the abstract specification of the bus as a listening client
sees it: statuses along the arrows of the state machine, at most one result,
only while it is due, and an end to every dictation. `BusPromise` says
`RecordingService` implements it, with `due` mapped from the handler's
position and `excused` from the first live failure: the emitter that finds one
announces error and idle outside the recording lock, so from then on nothing
can be promised about the order of statuses.

### AsrReload (+ `MCAsrReload`, `AsrReloadProofs`)

The reload fields of the runtime, the config file and its in-memory copy, the
D-Bus calls split at each access to the file, and the worker tasks, named by the
generation that spawned them, since the code can spawn more than one. A config
is its ASR selection and one other field, the active scene; a backend is the
selection it was built from and the generation that installed it. `BecomeBusy`
and `BecomeIdle` stand for the recording state machine, whose `ResetToIdle`
ends in `BecomeIdle`'s call. `EditFile` is the CLI, the GUI or an editor
writing the file.

### StreamingDelivery (+ `StreamingDeliveryProofs`)

One recording into a chunked session, at the grain of the locks of
`active_session.rs`: the audio thread in the chunk callback (`arriving`,
`EnterGate`, `delivery`), the runtime thread under the runtime mutex
(`runtime`: starting, replaying, recording, merging a live poll, stopping). The
gate is locked while it replays, so a chunk waits in `arriving`. Samples and
events are numbered, which is all their order needs; any poll may find a new
event, since a command helper answers in its own process. `Project` contains
the runtime's own filter of repeated partials (`partial_text`). The recorder is
left open: chunks of any of `ChunkSizes`, at any time.

### PipeWireRecorder (+ `PipeWireRecorderProofs`)

The live recorder as three threads: the caller of the `AudioRecorder` methods
(`pc`, `call`), the worker that owns the PipeWire loop, and the idle timer. The
channels are sequences, the response channel of the command under way is
`reply`. A method is cut at its blocking waits (setup, response, two joins); a
command, a process callback and a timer event are each one step of their
thread, since the loop runs them one at a time. `BeginReuses`, `BeginCreates`,
`BeginCannotCreate`, `BeginCannotActivate` are the outcomes of
`begin_worker_recording`: which of its PipeWire calls fail is free. `reuse` and
`immediate` (the two environment variables) are chosen at the start. A target
stands for the whole stream configuration. Of PipeWire itself it is assumed
that a buffer is not delivered across an activation; that threads do not panic
is assumed too, so sends do not fail. It is one implementation of what
`RecordingRuntime` calls `recorder`, and its caller installs and clears the
chunk callback as `recording.rs` does.

### TriggerMode and Frontend (+ `FrontendProofs`)

`TriggerMode` has the Tap/Hold/Both machine of `trigger_mode.rs` as functions
from a state and an event to the next state and the effect asked for; a time
stamp is what it is compared with (80 ms debounce, 300 ms hold). `Frontend`
EXTENDS it with the addon as one process (a key, a timer, a reply or a signal is
one step of the Fcitx event loop) and the daemon as another, joined by the calls
waiting for the recording lock (`calls`) and the signals and replies on their
way (`inbox`, in the order they were sent). `GetStatus` overtakes that queue, a
call may time out wherever it is, other clients start and stop recordings, the
daemon fails live, dies and comes back. The daemon here is what a client sees of
`RecordingService`. `HandleReply`, `Finish`, `ResetActiveRecording` and the
signal handlers are the controller of `frontend.rs` with the C++ code around it.
A call whose slot is overwritten (`Disown`) stays where it is, but nobody waits
for it: its reply is dropped on arrival (`DropReply`).
Input contexts, menus, candidates and wording are left out.

### AdapterSupervisor (+ `MCAdapterSupervisor`; proofs in `TextServicesProofs`)

Every call holds the runtime lock, so at most one `job` is under way; its steps
are the points where a process can be seen to have exited or the daemon can be
killed (`record` written or not, child reaped or not, signal sent or not).
`process` is the system's table: a process and its start time are one identity,
its pid is given away once it is reaped (`reused`), an adapter may leave helpers
in its group. `Reload` plans, stops, starts and publishes or rolls back as
`reconcile_reconfigured_text_adapters` does. A daemon that comes back has only
the records. Runtime directories and the adapter lists are left out.

### RemoteText (proofs in `TextServicesProofs`)

One server from bind to end. `socket` follows each connection from the request
over the upgrade to its handler, `input`, `output`, `text`, `generation` are the
protocol core under the connections mutex, `timers` the debounce tasks that are
asleep. A text is where it came from, whom it was typed for and which timer is
to send it. A step is one critical section, or one thing that happens to a
socket outside it; generations are used again once no timer holds them. The
replacement of a server by the next one, settings and HTTP pages are left out.

### CommandStreaming (+ `CommandStreamingProofs`)

The streaming command session with the helper at the other end of its pipes.
`call` is the session method under way and how far it is; a step is one system
call the helper can be seen by: a read of its output, a wait for its exit, a
write, its termination. The helper writes any of `Lines`, stops reading or
exits between any two. Audio is the number of its push; time is whether the
deadline of the wait under way has passed. `said`, `heard`, `dropped` are
histories.

A pump reads in a loop, as `read_nonblocking` does: `Read` takes what there is
and stays, `ReadEnds` leaves when there is nothing. Lines that matter are bounded
by `MaxLines`; partial texts, which only pass through, are not: `HelperChatters`
lets some wait to be read (`chatter`) as often as the helper likes, and a pump
that has read anything handles its lines (`fed`). `ReapOverflows` is the output
limit, looked at behind that loop; how many bytes were read is not kept, so it
may be reached with anything that was read. A line is written and read whole.
stderr, read by the same loop behind stdout, and errors of a read are left out.

### HotwordFile (+ `MCHotwordFile`, `HotwordFileProofs`)

Several GUI windows saving the same hotword file, each a process with a `stage`,
while other programs write and delete it. A file is an inode, named by the
version it was created with; `data` is what it holds, `path`, `draftAt`,
`recovery` and `kept` are the names it is linked at. A step is one system call
on the directory (hard link, exchange, rename without replacement, unlink) or
one read of a snapshot. Comparisons that leave the ctime out
(`matches_after_claim`) compare file and version; those that include it (between
publication and the end of the reload, and of a pending activation) fail once
any link of the file was changed, which `KnowTouching` says. A window may die at
any stage and be started again. `replaced`, `rejected`, `overtaken` are
histories. One target of the active provider; the path itself is not changed.

## 3. Runs

| Run | Bounds | Shows |
|---|---|---|
| `service_failures` | 2 recordings, 2 scenes, 2 texts, ducking, signals and sessions failing, symmetric | the six runtime properties, whatever fails: capture, session ownership, sink volume, the value in the hand of stop, per-recording state, status arrows |
| `service_safety` | 2 recordings, 1 post-processing scene, 1 text, live failures | each recording has its one current emitter, nothing is stranded, one result per finished session; calls return, busy statuses and emitters end; until a live failure the bus implements `DictationBus` and shows the current status |
| `service_stranded` | violation | a failed `inferring` signal leaves the runtime inferring for good |
| `reload_safety` | 2 concurrent calls, 2 providers and none, 3 reloads, 1 recording, external edits | the newest reload is never lost or orphaned, no stale backend, the effective backend is the selected one; in the end nothing is in flight |
| `stream_safety` | 6 samples in chunks of 1, 2 or 5, batches of 2, 3 events of every kind, any failure | audio in order and complete until a push fails, never a result from a recording with a hole, no event lost or doubled, a failure always ends the recording |
| `stream_stale_text` | violation | an early final kept for stop is shown again over newer text |
| `recorder_safety` | 3 recordings of 2 buffers, 2 targets, reuse on and off, expiry delayed or immediate, PipeWire failing anywhere | audio never crosses recordings, a stale timeout destroys nothing newer, a warm stream always has its expiry and ends, no call hangs |
| `frontend_safety` | 3 recording calls of the addon, 1 event of the outside (other client, failure, timeout, crash, mode change) | a dictation under way is seen by the addon, the timers fit the trigger state, results are lost only where the code says so, a stop ends the dictation |
| `adapters_safety` | 2 adapters, 2 definitions, 2 processes known at a time, symmetric | no adapter runs unknown or twice, what runs is configured, no signal goes astray, a reload keeps what it took |
| `remote_safety` | 2 browsers, 2 Realtime clients, 2 debounce timers | clients agree on who is there, a text reaches its own output by its own timer, a stopped server is left |
| `command_safety` | 2 pushes, 2 lines of the helper | a text of the helper is used, audio is heard in order, no helper stays behind, calls return unless the helper keeps them reading for ever |
| `hotword_safety` | 2 windows, 4 versions, symmetric | no version is lost but by the rollback race of section 6, the path keeps a file, reported outcomes are true |

Why the bounds are enough. Two recordings are what the emitter races of the
runs need: a task of the first that outlives it and meets the second. One race
takes three, a task that stays current after another's poll found the failure of
its recording and then meets the next start (section 6); the invariants of
`service_safety` allow for it, were also checked, without the refinement and the
liveness, on three symmetric recordings (8.7 million states), and are proved for
any number. Its one scene post-processes, for the more signals; the scenes
without are in `service_failures`, and the proofs cover them all. Three
generations of reload let one be prepared while a second waits and a third
replaces it. One text besides none separates "same partial as before" from
"new"; `service_failures` has two. A chunk of 5 with batches of 2 is cut twice
and leaves a rest; three events let two lie in different hands while a third
arrives. Three recordings of the recorder let an expiry of the first meet the
second's end and the third's begin. Three calls of the addon are a start, its
stop and the start of the next dictation, with one disturbance anywhere between
them. Two processes and two definitions are what a replacement and its rollback
hold at once, two adapters what a rollback can leave half done. Two timers let a
stale one fire beside the current. Two pushes are a chunk sent and a chunk held
back; two lines of the helper a text and what must not disturb it. Four versions
are the file, two drafts and one external write that meets both.
`MaxGeneration`, `MaxRecordings`, `MaxSamples`, `MaxEvents`, `MaxTakes`,
`MaxChunks`, `MaxCalls`, `MaxTimers`, `MaxPushes`, `MaxLines` and `MaxVersions`
bound what is unbounded in the code (u64, wrapping never reached).
CHECK_DEADLOCK is off where the bounds make the systems stop: all sessions used
up, everybody idle. `hotword_safety` checks deadlock.

The violation runs check what the named document says against what the code
does; each is quoted in `PROJECT.json` under "findings". `service_safety`
excludes failing signals for the sake of `NoStrandedStop` and `BusyEnds`, which
`service_stranded` shows false with them.

## 4. Fairness

`RecordingService`: weak fairness of the running handler and of each emitter
task. tokio polls every woken task, emitter ticks come every 40 ms, and
emissions and critical sections end; nobody is obliged to call start or stop.
A handler never waits for an emitter, so weak fairness is enough.
`AsrReload`: weak fairness of each worker task (it polls every 20 ms, and a
preparation ends, successfully or not) and of `BecomeIdle` (`BusyEnds` of the
service, and a user who ends the dictation). `BecomeIdle` and the calls are
otherwise free, so reloads may replace each other as often as the bound allows.
`StreamingDelivery`: weak fairness of the audio thread's gate and delivery, of
the start, of the live polls and of a stop once begun; nobody has to capture or
to stop, so `FailureIsNoticed` rests on the 40 ms poll alone.
`PipeWireRecorder`: weak fairness of the caller inside a call, of the worker's
commands and of the timer thread, whose pending timeout falls due; nobody has to
call a method. `DictationBus` has weak fairness of what ends a recognition, as
long as nothing is excused.
`Frontend`: weak fairness of the bus (`Deliver`), of the daemon serving the call
at the head of the lock's queue (`Serve`, by `CallsReturn` of the service), of
the recovery from a live failure, and of both timers of the event loop; nobody
has to press a key.
`RemoteText`: weak fairness of each debounce timer and, once a handler has been
told to stop or its socket is open or closed, of the handler's own next step
(`HandlerStops`, `Claim`, `Leave`), which tokio polls; browsers need not do
anything.
`CommandStreaming`: weak fairness of the session's own step, a loop that sleeps
5 ms at a time, and of its deadline falling due; the helper owes nothing.
`SessionCallsReturn` names the one way out that leaves: a helper that writes as
fast as it is read keeps a call in its read loop (`<>[]At("read")`).
`AdapterSupervisor` and `HotwordFile` state no liveness and assume no fairness.

## 5. Proofs

All are checked by TLAPS for every value of the constants, from the named
assumptions on them: `ConstantsDistinct`, `ServiceConstants` and
`ReloadConstants` only separate "none" values from real ones, as
`SupervisorAssumption` does for adapters, definitions and processes and
`RemoteConstants` for sockets; `RecorderConstants` does so for targets and says
the bounds are numbers, as `StreamConstants` says chunks and batches are not
empty, `FrontendConstants` that the bounds on calls and events are numbers and
`StreamingConstants` that those on pushes and lines are;
and `HotwordConstants` says there is a version.

`RecordingServiceProofs` has three parts. The first is about `RecordingRuntime`
under arbitrary callers. The inductive invariant `RuntimeInv` is the conjunction
of the type invariant and the five state properties: none is inductive alone. `CaptureMatchesStatus` needs `HandMatchesStatus` to know that
an abort or a finish happens with capture off; `SessionHasOneOwner` needs both
to know that a start finds no session owned; `IdleIsClean` needs that only an
empty hand is compatible with idle. One step per action, below it one per
conjunct disturbed. `StatusFollowsStateMachine` follows from the invariant.
`ServiceRuntimeSafe` carries the runtime's invariant over to the service: its
actions are built from the runtime's, so each is a `RuntimeNext` step or leaves
`runtimeVars` unchanged. (That is the shape of the modules and no result; what
the service could get wrong is the order of the calls, and `HandMatchesStatus`
says that no order it takes throws a recognised text away.)

Its second part is about the service's own state, for any number of recordings.
`ServiceInv` says, beside the types, what the handler holds at each stage (`HandlerFits`: its session is
the active one until prepare, then the one in hand, finished once inference is
over), where each emitter may be (`EmitterFits`: no task of the current
generation is at work once `CancelLive` has withdrawn it, and one that is
follows a live recording, or one whose failure another task found), and that
tasks at work have different generations. A step is reduced to what it does to
the sessions (`PhasesMove`) and to the task it moves (`TaskMoves`), so that each
action has one lemma and the other tasks one for all. `EmittersStayApart` needs
no assumption. `RecordingsAreFollowed`, `NoStopIsStranded`,
`ResultsMatchOutcomes` and `ShownStatusStaysCurrent` assume that signals are
sent (`EmitMayFail = FALSE`) and add `ReliableInv`; the violation
`service_stranded` is what happens without the assumption.

Its third part is the refinement. `BusKeepsItsPromise`: under the same assumption
every step of the service is a step of `DictationBus` or shows nothing, for
`StagesShown` fixes what the bus has shown at each stage of a call until a live
session fails. The fairness of `DictationBus` is left to `service_safety`.

`AsrReloadProofs`. The strengthening adds what the code keeps implicitly:
generations are bounded by the newest, a task that is not at rest holds a
request of its own, `workerRunning` is never set without a live task while a
request is pending, and a disabled daemon holds none. From it follow the five
state properties and `BackendsOnlyGetNewer`.

`PipeWireRecorderProofs`, for any number of takes, buffers and targets.
`RecorderInv` says which threads run at each point of a call (`ThreadsFit`,
`TimerIsKept`), that beside expiries the worker has at most the one command the
caller waits for, and which answers fit it (`CallFits`), that a recording not
yet armed has heard nothing and an armed one holds its own buffers in order
(`AudioFits`), that every expiry under way has a generation no newer than the
worker's, and that of the last stop if it is the worker's (`ExpiriesFit`), and
in which of three places the expiry of a warm stream is (`WarmIsDue`). Each part
is one lemma over the actions; the channels are reasoned about index by index
(`CommandSent`, `CommandReceived`). The two run invariants are parts of it, and
`StaleExpiryIsHarmless` follows since `Expire` is the only step that takes an
expiry. `RecorderProgress` is left to the run.

`HotwordFileProofs`, for any number of windows and versions. `HotwordInv` adds
to the types that files hold distinct versions, none newer than the clock; that
the path and the temporary paths hold distinct written files; what a save in
progress holds at each stage (its draft, and before the displaced file is
removed, the recovery link to that same file); and that every version has a link
no cleanup takes away (`Secure`), for a recovery link counts only once no
failure of its save can remove it. `NothingIsEverLost` and `PathIsAlwaysThere`
follow. `OutcomesAreAlwaysTrue` adds `OutcomeInv`: while a claim is still what
the path shows, the path has shown nothing else since the daemon read it,
because a file that comes back to the path loses every claim on it.

`StreamingDeliveryProofs`, for any chunk sizes, batch size, number of events and
place of failure. `StreamInv` adds to the types what each thread holds at each
stage (`StagesFit`: above all, that a chunk waits in front of the gate only
while something is replayed and then no other thread delivers, so that there is
one order in which the queues empty), the order of the audio over all of them
(`AudioStaysInOrder`), and where each event is (`EventsAreAccounted`: the
counts over the four hands are one for what was given away, zero beyond).
Cutting a chunk into batches, flattening, and `Only` recur along a sequence,
and induction schemes over an operator cannot be used. The first half of the
module therefore proves, from the well-foundedness of < on the naturals, an
induction over a *set* of naturals (`SetInduction`, `StepInduction`), that the
function by which `FlattenSeq` recurs exists (`FlattenUnfolds`), and from them
what flattening does to concatenations, types and counts. Every action then
moves audio or events from the end of one queue to the start of the next.

`TextServicesProofs`, its end, for any sockets and any number of timers. It holds
the proofs of both services that change text beside the recognizer, which is why
`RemoteText` names its parts `RemoteInit`, `RemoteNext`, `RemoteSpec`. `RemoteInv` needs
beside the two state properties only that there are fewer pending timers than
generations (`TimersAreBounded`), so that the next generation is no pending
timer's. `BufferedTextIsTimed` is taken apart into three facts, which need each
other and what `ClientsSeeEachOther` says of the output that left.
`TimersSendTheirOwn` follows: a timer sends the text it was set for or nothing.

`TextServicesProofs`, its first part, for any adapters, definitions and processes.
`SupervisorInv` says what a job holds at each of its steps (`JobShape`,
`ReloadShape`), that a process being probed and the fresh ones of a reload are
children that were not reaped (`ProbeIsHeld`, `FreshAreHeld`), what a handle
still says of a process that may be over (`TrackedIsRecorded`), that a running
process is recorded, probed or leaked (`RunningIsRecorded`), and where an adapter
that ran before a reload is on its way (`ReloadLosesNobody`). That no adapter
runs twice is not inductive; it follows, since a record names one process and
the probed one has none. What the environment, a signal or the death of the
daemon does to the processes is summed up as `Drifts` and `Ebbs`: processes end
or are orphaned, none starts, and the system leaves an unreaped child its pid.

`FrontendProofs`, for any number of calls and of disturbances. Neither half of
`DictationIsSeen` says anything while a message is under way, so `FrontendInv`
says what the messages will do. `FollowedEnd`: a dictation the addon follows is
under way, or a start of its own waits for the lock, or a message that ends it
is coming and is not the one swallowed after a result (`IdleFollows`: that one
is the `idle` right behind it). `BeginningsEnd`: a busy status on its way, which
the addon would follow, is still true or has its end behind it. `OwnIsShown`:
read up to any result of its own, or to the end while its recording runs, the
messages leave the addon showing a dictation (`Shown`), unless it is excused;
the daemon has announced what it began and announces a result before `idle`.
Steps are reduced to three kinds: the daemon appends messages (`DaemonMoves`),
the addon takes the first (`DeliverMoves`), and keys, timers and timeouts change
no message (`InputMoves`); each part of the invariant is one lemma per kind.
The trigger's part rests on its functions alone: a waiting press excludes a
waiting stop (`PressesFit`), and a press outlives its dictation only after an
error (`StopsFit`). `OnlyExcusedLosses` follows from `OwnIsShown` at the head of
the queue and from `StopsFit`.

`CommandStreamingProofs`, for any number of pushes and of lines the helper
writes. Both properties speak of the end of a call and are far from inductive;
`IInv` says what holds at each stage on the way there. A call may be pumping or
writing while it heads for its next stage, so a stage is the place a call is
heading for (`Stage`, `Heading`), and `CallIsInPlace` says which stages each
call has, that none pumps on its way to one of its two ends, which line is being
written, and which lifecycle goes with it. `TextIsSomewhere` follows every line
the helper has said: in the pipe, read and about to be handled, held back by a
pump that failed, noted in `flags`, or dropped by one or with the pipe.
`PumpReads` says that only a pump has anything in hand. `WaitHasEnded` and
`NoTextIsOver` then say that a verdict is reached only with the end of the
output seen or the exit noted. The audio is counted: `AudioInOrder` holds
whatever has failed, `AudioIsCounted` says how many pushes the helper has heard
at each stage as long as nothing has, and `HeldChunk` where the last one is.

Two things only came out of looking for this invariant. A pump that stops at a
malformed line or at the output limit has waited already, and drops the exit it
saw (`ExitIsLost`: the process is reaped and the session does not know);
`HelperTextIsUsed` survives only because every later pump of that helper fails
as well, so that no finish reaches its verdict (`LostExitFails`). And whatever a
failed pump left in `stdout_buffer` is handled together with the next bytes that
are read, or never, while the lines behind the failure are gone. What a failed
pump does to the lines is one lemma for its kinds (`PumpFailsLines`). Each
action has a lemma about the call it leaves (`PumpFields`, `WriteFields`, ...),
each part of the invariant one over the actions. `Queued` filters lines with
`FlattenSeq`; that nothing but final texts and errors comes out (`QueuedType`)
takes an induction over a set of naturals, as in `StreamingDeliveryProofs`.

Only model-checked: everything under fairness (`ServiceProgress`,
`ReloadsSettle`, `FailureIsNoticed`, `RecorderProgress`, `StopEndsDictation`,
`RemoteDelivery`, `SessionCallsReturn`, the fairness part of `BusPromise`),
since liveness and ENABLED are outside the prover. Every invariant a passing run
checks is a theorem.

## 6. Not modelled, and what is known

Not modelled, and why:

- Text processing (`vinpst-text/core.rs`, `openai.rs`, `command.rs`,
  `context_cache.rs`) builds one request and reads one answer; to the runtime it
  yields a text or fails, and `RecordingRuntime` has both.
- Recognition itself (sherpa, the HTTP backend, batch commands) is one call per
  chunk or recording; its outcomes are in `RecordingRuntime` and
  `StreamingDelivery`.
- `run_piped_command` with its watchdog and its two output threads: its
  questions are about pipes held open by descendants of a killed group, which
  needs a model of the kernel's pipes more than of this code.
- Configuration schema and validation, model registry and installation, the CLI,
  the other pages of the GUI, HTTP and terminal crates: sequential programs over
  files. Their writes to the config are `EditFile` of `AsrReload`; their size is
  most of the repository, and data, wording and layout most of their size.
- Daemon start, name ownership and systemd control: I/O without shared state.
- Input contexts, menus, candidates, notifications' wording, the byte-level FFI
  and D-Bus marshalling: projections of state the models do have.

Met while modelling, documented here and stated by no run (a run that shows a
violation states one documented promise; the two that matter most have theirs):

Recording service
- The emitter that finds a live failure announces `error` and `idle` outside
  `recording_operation` (`dbus_service.rs:533`, `:540`), possibly after the
  `recording` of the next one; dbus-service.md:66 describes one lock around
  signals. A stale emitter past its generation check may even find the failure
  of the next recording before that is announced, so that the bus shows error,
  idle, then recording while the runtime is idle. `ShownStatusIsCurrent` and
  `BusPromise` are stated until a live session fails.
- When a stale emitter finds the failure that ends a recording (no stop, so no
  new generation), the emitter of that recording stays current until the next
  start has begun its own (`:608`, `:638`). Polling in between it drains the
  next recording's partials and signals them as its own.
  `PartialsComeFromOwnRecording` names this exception and excludes every other.
- A stale emitter also drops the Error event it drained (`:546`, against
  dbus-service.md:72).
- A partial compared with the last one before stop began can be signalled after
  the result of its recording, or be repeated by stop (`:558`).
- A start whose `recording` signal fails leaves a recording without an emitter.
- A failed begin of the recorder keeps the stream it created without an expiry
  (audio-contract.md:45); a worker whose connection broke is kept through
  failed begins.

Reload and configuration
- Unselecting during a preparation makes `reload_in_progress` false and lets a
  second worker run beside the first (`reload.rs:324`; no stale backend results:
  `BackendsOnlyGetNewer`).
- A scene selected while a reload call holds an older config reverts in memory
  (`reload.rs:173`), and SetActiveScene between the persist and the queueing of
  a selection writes the old provider back (`scene.rs:51`).
- Two selections queue under the runtime lock and reconcile the remote server
  under another (`dbus_service.rs:378-397`), possibly in the other order
  (remote-text-contract.md: "stays aligned").

Frontend
- A hold released between the hold timer and 300 ms never schedules a stop
  (`trigger_mode.rs:16`, usage.md:17).
- A failed start or stop reply leaves `has_active_trigger` set.
- A stop that takes longer than its five seconds resets the session, and its
  result, when it comes, has no dictation to belong to (`fcitx_addon.cpp:519`,
  target-architecture.md:99).
- A text-processor warning that arrives before the result ends the wait for it.

Adapters and helpers
- A handle tracked again because its record could not be removed may be of a
  reaped child, whose pid is signalled next (`adapter_process.rs:79`;
  process-contract.md:17); `SignalsStayHome` excuses that case.
- An unreadable `/proc` entry at start leaves an adapter without a record
  (`adapter_runtime.rs:450`); a crash there does too.
- Stopping an untracked adapter whose leader is gone but whose group is not
  returns NotRunning.
- A helper that writes its final text and exits between the read and the wait of
  one pump loses it, and the call says "returned no text" (asr-contract.md:60).
- After a malformed line: an exit that was reaped with it is waited for again,
  and cleanup signals a reaped pid; lines read behind it wait for more output.
  An unterminated last line is never handled.
- `read_nonblocking` has no deadline, and the 1 MiB limit is checked behind it
  (`command_streaming.rs:561`, `:233`): a helper that keeps writing holds a push,
  a poll, a finish or a cancel, and the daemon's session lock with it, against
  the timeout of each pipe write and the final wait and the limit of
  asr-contract.md:62. `SessionCallsReturn` excuses exactly this.
- Later chunks of a pump whose output exceeded the limit, and what it read before
  a failing wait, are lost, a final text with them.
- An early final shortens the finish deadline to the 200 ms grace; a final read
  in the last pump before the deadline is reported as a timeout; a cancel after
  a cleaned-up finish starts a helper again; a finish whose write fails leaves
  the helper to the drop of the session.
- An Error drained by a live poll is not retained, so that finish returns Ok
  with no text (asr-contract.md:50).

Remote text
- A client whose handler subscribes after the shutdown was sent and its sender
  dropped stays on the old server until it leaves by itself
  (remote-text-contract.md: "stops the old listener and all upgraded clients").
- A text typed without an output stays, and can be committed to the output that
  comes; a text of a browser that has gone can be committed by the next finalize.

Hotword file
- A rollback checks that the path still holds its draft and then exchanges
  (`hotword_persistence.rs:757-760`). A version another program writes in between
  is swapped to the temporary name and deleted as if it were the draft, while
  the message says the external version was restored. gui-contract.md:12 and
  :49 promise fail-closed refusal and safe rollback; `NothingIsLost` holds with
  this one exception, `overtaken`.
- A refused save links and unlinks the file, which moves its ctime: a pending
  activation of that version can no longer be retried.
