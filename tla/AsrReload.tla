------------------------------ MODULE AsrReload ------------------------------
(***************************************************************************)
(* Selecting and reloading the ASR backend: the reload state of            *)
(* RuntimeState (runtime/reload.rs), the D-Bus calls that queue a reload   *)
(* (SetActiveAsrProvider, SetActiveAsrTarget, ReloadAsrBackend) and the    *)
(* background worker (run_asr_reload_worker in dbus_service.rs), with the  *)
(* config file and the in-memory config they share with SetActiveScene.    *)
(* A step is one critical section of the runtime mutex, one access to the  *)
(* file, or the end of a backend preparation.                              *)
(*                                                                         *)
(* Abstractions: a config is its ASR selection and one other field, the    *)
(* active scene; the service is idle or busy; a backend is the selection   *)
(* it was built from.  The daemon runs with a config file.                 *)
(***************************************************************************)
EXTENDS Naturals

CONSTANTS
  Callers,     (* concurrent D-Bus calls that queue reloads                 *)
  Providers,   (* configured ASR providers (or provider and model)          *)
  Unselected,  (* the empty active_provider                                 *)
  Scenes,
  ExternalEdits, (* whether the user edits the file behind the daemon       *)
  MaxGeneration, (* bound: reloads queued                                   *)
  MaxRecordings  (* bound: times the service becomes busy                   *)

ASSUME ReloadConstants ==
  /\ Unselected \notin Providers
  /\ Providers # {} /\ Scenes # {}
  /\ ExternalEdits \in BOOLEAN
  /\ MaxGeneration \in Nat
  /\ MaxRecordings \in Nat

VARIABLES
  disabled,    (* asr_disabled_reason is set, by --no-asr                   *)
  busy,        (* status # Idle                                             *)
  recordings,  (* bound: how often busy has begun                           *)
  file,        (* the config file                                           *)
  config,      (* RuntimeState.config                                       *)
  caller,      (* the progress of each D-Bus call                           *)
  generation,  (* asr_reload_generation                                     *)
  pending,     (* pending_asr_reload and pending_asr_reload_config          *)
  workerRunning,
  preparing,
  lastError,   (* asr_reload_last_error: the generation that failed, or 0   *)
               (* (the constant reason --no-asr leaves there is not kept)   *)
  backend,     (* asr_backend, and the generation that installed it         *)
  worker       (* the worker tasks, each named by the generation that       *)
               (* spawned it                                                *)

reloadVars == <<generation, pending, workerRunning, preparing, lastError, backend>>
vars == <<disabled, busy, recordings, file, config, caller, reloadVars, worker>>

Generations == 1 .. MaxGeneration
Configs == [asr : Providers \cup {Unselected}, scene : Scenes]

(* A request is a generation and its config.  Generation 0 is no request.   *)
Request(g, c) == [gen |-> g, asr |-> c.asr, scene |-> c.scene]
ConfigOf(r)   == [asr |-> r.asr, scene |-> r.scene]
NoRequest     == [gen |-> 0, asr |-> Unselected, scene |-> CHOOSE s \in Scenes : TRUE]
Requests      == [gen : 0 .. MaxGeneration, asr : Providers \cup {Unselected}, scene : Scenes]

NoCall == [pc |-> "idle", cfg |-> ConfigOf(NoRequest)]
NoTask == [pc |-> "none", req |-> NoRequest]
Task(pc, r) == [pc |-> pc, req |-> r]

Backend(g, a) == [gen |-> g, asr |-> a]

Init ==
  /\ disabled \in BOOLEAN
  /\ busy = FALSE
  /\ recordings = 0
  /\ config \in Configs
  /\ file = config
  /\ caller = [c \in Callers |-> NoCall]
  /\ generation = 0
  /\ pending = NoRequest
  /\ workerRunning = FALSE
  /\ preparing = FALSE
  /\ lastError = 0
  /\ backend = Backend(0, IF disabled THEN Unselected ELSE config.asr)
  /\ worker = [g \in Generations |-> NoTask]

-----------------------------------------------------------------------------
(* The rest of the service.                                                 *)

BecomeBusy ==
  /\ ~busy
  /\ recordings < MaxRecordings
  /\ busy' = TRUE
  /\ recordings' = recordings + 1
  /\ UNCHANGED <<disabled, file, config, caller, reloadVars, worker>>

(* reset_to_idle ends in apply_pending_asr_backend_reload, which leaves a   *)
(* pending reload to the worker that is running for it.                     *)
BecomeIdle ==
  /\ busy
  /\ busy' = FALSE
  /\ IF pending.gen = 0 \/ workerRunning
     THEN UNCHANGED <<pending, backend>>
     ELSE /\ pending' = NoRequest
          /\ backend' = Backend(backend.gen, config.asr)
  /\ UNCHANGED <<disabled, recordings, file, config, caller, generation, workerRunning,
                 preparing, lastError, worker>>

(* set_active_scene: idle only; what is persisted is the in-memory config.  *)
SetActiveScene(s) ==
  /\ ~busy
  /\ file' = [asr |-> config.asr, scene |-> s]
  /\ config' = [asr |-> config.asr, scene |-> s]
  /\ UNCHANGED <<disabled, busy, recordings, caller, reloadVars, worker>>

(* The CLI, the GUI or an editor changes the ASR selection in the file.     *)
EditFile(a) ==
  /\ ExternalEdits
  /\ file' = [asr |-> a, scene |-> file.scene]
  /\ UNCHANGED <<disabled, busy, recordings, config, caller, reloadVars, worker>>

-----------------------------------------------------------------------------
(* The D-Bus calls, up to the point where they queue their config.          *)

CallReturns(c) == caller' = [caller EXCEPT ![c] = NoCall]

(* SetActiveAsrProvider and SetActiveAsrTarget load the file, select, ...   *)
LoadAndSelect(c, a) ==
  /\ caller[c].pc = "idle"
  /\ caller' = [caller EXCEPT ![c] = [pc |-> "selected", cfg |-> [asr |-> a, scene |-> file.scene]]]
  /\ UNCHANGED <<disabled, busy, recordings, file, config, reloadVars, worker>>

(* ... and persist the result, or give up when that fails.                  *)
Persist(c) ==
  /\ caller[c].pc = "selected"
  /\ \/ /\ file' = caller[c].cfg
        /\ caller' = [caller EXCEPT ![c] = [pc |-> "ready", cfg |-> caller[c].cfg]]
     \/ /\ CallReturns(c)
        /\ UNCHANGED file
  /\ UNCHANGED <<disabled, busy, recordings, config, reloadVars, worker>>

(* ReloadAsrBackend only loads.                                             *)
LoadForReload(c) ==
  /\ caller[c].pc = "idle"
  /\ caller' = [caller EXCEPT ![c] = [pc |-> "ready", cfg |-> file]]
  /\ UNCHANGED <<disabled, busy, recordings, file, config, reloadVars, worker>>

-----------------------------------------------------------------------------
(* queue_configured_asr_reload and queue_asr_reload_config.                 *)

(* Idle takes the whole config, a busy service only its ASR part.           *)
Adopt(cfg) == config' = [asr |-> cfg.asr, scene |-> IF busy THEN config.scene ELSE cfg.scene]

(* Reconciling the text adapters with a config that changes them may fail;  *)
(* only an edit of the file changes them.                                   *)
AdaptersMayFail == ExternalEdits

QueueFails(c) ==
  /\ AdaptersMayFail
  /\ caller[c].pc = "ready"
  /\ ~busy
  /\ CallReturns(c)
  /\ UNCHANGED <<disabled, busy, recordings, file, config, reloadVars, worker>>

QueueDisabled(c) ==
  /\ caller[c].pc = "ready"
  /\ disabled
  /\ Adopt(caller[c].cfg)
  /\ pending' = NoRequest
  /\ workerRunning' = FALSE
  /\ preparing' = FALSE
  /\ CallReturns(c)
  /\ UNCHANGED <<disabled, busy, recordings, file, generation, lastError, backend, worker>>

QueueUnselected_KeepsBackend(c) ==
  /\ caller[c].pc = "ready"
  /\ ~disabled
  /\ caller[c].cfg.asr = Unselected
  /\ generation < MaxGeneration
  /\ Adopt(caller[c].cfg)
  /\ generation' = generation + 1
  /\ pending' = NoRequest
  /\ workerRunning' = FALSE
  /\ preparing' = FALSE
  /\ lastError' = 0
  /\ CallReturns(c)
  /\ UNCHANGED <<disabled, busy, recordings, file, backend, worker>>

(* apply_unselected_asr_state, at once and whatever the status.             *)
QueueUnselected(c) ==
  /\ caller[c].pc = "ready"
  /\ ~disabled
  /\ caller[c].cfg.asr = Unselected
  /\ generation < MaxGeneration
  /\ Adopt(caller[c].cfg)
  /\ generation' = generation + 1
  /\ backend' = Backend(generation + 1, Unselected)
  /\ pending' = NoRequest
  /\ workerRunning' = FALSE
  /\ preparing' = FALSE
  /\ lastError' = 0
  /\ CallReturns(c)
  /\ UNCHANGED <<disabled, busy, recordings, file, worker>>

(* The newest request replaces a pending one; a worker is spawned unless    *)
(* one is said to be running.                                               *)
QueueReload(c) ==
  /\ caller[c].pc = "ready"
  /\ ~disabled
  /\ caller[c].cfg.asr # Unselected
  /\ generation < MaxGeneration
  /\ Adopt(caller[c].cfg)
  /\ generation' = generation + 1
  /\ pending' = Request(generation + 1, caller[c].cfg)
  /\ lastError' = 0
  /\ workerRunning' = TRUE
  /\ worker' = IF workerRunning THEN worker
               ELSE [worker EXCEPT ![generation + 1] = Task("step", NoRequest)]
  /\ CallReturns(c)
  /\ UNCHANGED <<disabled, busy, recordings, file, preparing, backend>>

-----------------------------------------------------------------------------
(* run_asr_reload_worker.                                                   *)

WorkerAt(w, pc, r) == worker' = [worker EXCEPT ![w] = Task(pc, r)]

StepStops_LeavesFlag(w) ==
  /\ worker[w].pc = "step"
  /\ \/ ~workerRunning
     \/ ~busy /\ ~preparing /\ pending.gen = 0
  /\ WorkerAt(w, "none", NoRequest)
  /\ UNCHANGED <<disabled, busy, recordings, file, config, caller, generation, pending,
                 workerRunning, preparing, lastError, backend>>

(* next_asr_reload_worker_step = Stop; otherwise it waits while the service *)
(* is busy or a preparation is said to be running.                          *)
StepStops(w) ==
  /\ worker[w].pc = "step"
  /\ \/ ~workerRunning
     \/ ~busy /\ ~preparing /\ pending.gen = 0
  /\ workerRunning' = FALSE
  /\ WorkerAt(w, "none", NoRequest)
  /\ UNCHANGED <<disabled, busy, recordings, file, config, caller, generation, pending,
                 preparing, lastError, backend>>

(* Prepare, or Failed when the adapters cannot be reconciled.               *)
StepTakes(w) ==
  /\ worker[w].pc = "step"
  /\ workerRunning /\ ~busy /\ ~preparing
  /\ pending.gen # 0
  /\ pending' = NoRequest
  /\ \/ /\ config' = ConfigOf(pending)
        /\ preparing' = TRUE
        /\ WorkerAt(w, "preparing", pending)
        /\ UNCHANGED workerRunning
     \/ /\ AdaptersMayFail
        /\ workerRunning' = FALSE
        /\ WorkerAt(w, "applyFailed", pending)
        /\ UNCHANGED <<config, preparing>>
  /\ UNCHANGED <<disabled, busy, recordings, file, caller, generation, lastError, backend>>

(* Building and warming the backend outside the mutex ends, either way.     *)
PrepareEnds(w) ==
  /\ worker[w].pc = "preparing"
  /\ \E pc \in {"prepared", "prepareFailed"} : WorkerAt(w, pc, worker[w].req)
  /\ UNCHANGED <<disabled, busy, recordings, file, config, caller, reloadVars>>

Complete_Unguarded(w) ==
  /\ worker[w].pc = "prepared"
  /\ ~busy
  /\ preparing' = FALSE
  /\ backend' = Backend(worker[w].req.gen, worker[w].req.asr)
  /\ config' = [asr |-> worker[w].req.asr, scene |-> config.scene]
  /\ lastError' = 0
  /\ WorkerAt(w, "step", NoRequest)
  /\ UNCHANGED <<disabled, busy, recordings, file, caller, generation, pending, workerRunning>>

Complete_LeavesPreparing(w) ==
  /\ worker[w].pc = "prepared"
  /\ ~busy
  /\ IF worker[w].req.gen = generation
     THEN /\ backend' = Backend(generation, worker[w].req.asr)
          /\ config' = [asr |-> worker[w].req.asr, scene |-> config.scene]
          /\ lastError' = 0
     ELSE UNCHANGED <<backend, config, lastError>>
  /\ WorkerAt(w, "step", NoRequest)
  /\ UNCHANGED <<disabled, busy, recordings, file, caller, generation, pending, preparing,
                 workerRunning>>

(* complete_prepared_asr_reload, once the service is idle.                  *)
Complete(w) ==
  /\ worker[w].pc = "prepared"
  /\ ~busy
  /\ preparing' = FALSE
  /\ IF worker[w].req.gen = generation
     THEN /\ backend' = Backend(generation, worker[w].req.asr)
          /\ config' = [asr |-> worker[w].req.asr, scene |-> config.scene]
          /\ lastError' = 0
     ELSE UNCHANGED <<backend, config, lastError>>
  /\ WorkerAt(w, "step", NoRequest)
  /\ UNCHANGED <<disabled, busy, recordings, file, caller, generation, pending, workerRunning>>

(* fail_prepared_asr_reload; after a Failed step the task ends.             *)
RecordFailure(w) ==
  /\ worker[w].pc \in {"prepareFailed", "applyFailed"}
  /\ preparing' = FALSE
  /\ lastError' = IF worker[w].req.gen = generation THEN generation ELSE lastError
  /\ WorkerAt(w, IF worker[w].pc = "applyFailed" THEN "none" ELSE "step", NoRequest)
  /\ UNCHANGED <<disabled, busy, recordings, file, config, caller, generation, pending,
                 workerRunning, backend>>

-----------------------------------------------------------------------------
Call(c) ==
  \/ \E a \in Providers : LoadAndSelect(c, a)
  \/ Persist(c) \/ LoadForReload(c)
  \/ QueueFails(c) \/ QueueDisabled(c) \/ QueueUnselected(c) \/ QueueReload(c)

Work(w) == StepStops(w) \/ StepTakes(w) \/ PrepareEnds(w) \/ Complete(w) \/ RecordFailure(w)

Next ==
  \/ BecomeBusy \/ BecomeIdle
  \/ \E s \in Scenes : SetActiveScene(s)
  \/ \E a \in Providers \cup {Unselected} : EditFile(a)
  \/ \E c \in Callers : Call(c)
  \/ \E w \in Generations : Work(w)

(* A worker task is polled until it exits, a preparation ends, and a busy   *)
(* service becomes idle again (RecordingService: BusyEnds, and the user     *)
(* releases the trigger).  Nobody has to call anything.                     *)
Fairness ==
  /\ WF_vars(BecomeIdle)
  /\ \A w \in Generations : WF_vars(Work(w))

Spec == Init /\ [][Next]_vars /\ Fairness
-----------------------------------------------------------------------------
(* Properties.                                                              *)

TaskStages == {"none", "step", "preparing", "prepared", "prepareFailed", "applyFailed"}

(* Every variable keeps its type.                                           *)
ReloadTypeOK ==
  /\ disabled \in BOOLEAN /\ busy \in BOOLEAN
  /\ recordings \in 0 .. MaxRecordings
  /\ file \in Configs /\ config \in Configs
  /\ caller \in [Callers -> [pc : {"idle", "selected", "ready"}, cfg : Configs]]
  /\ generation \in 0 .. MaxGeneration
  /\ pending \in Requests
  /\ workerRunning \in BOOLEAN /\ preparing \in BOOLEAN
  /\ lastError \in 0 .. MaxGeneration
  /\ backend \in [gen : 0 .. MaxGeneration, asr : Providers \cup {Unselected}]
  /\ worker \in [Generations -> [pc : TaskStages, req : Requests]]

(* The newest request is never lost: it is pending, or a worker holds it,   *)
(* or its backend is installed, or its failure is what last_error reports.  *)
NewestIsAccountedFor ==
  \/ pending.gen = generation
  \/ \E w \in Generations : worker[w].req.gen = generation
  \/ backend.gen = generation
  \/ lastError = generation

Working(w) == worker[w].pc \notin {"none", "applyFailed"}

(* A pending reload has a worker that will come back for it: the worker     *)
(* flag is never left set by a task that has ended.                         *)
PendingHasWorker ==
  pending.gen # 0 =>
    /\ workerRunning
    /\ \E w \in Generations : Working(w)

(* No reload is lost between the caller, the pending slot and the workers.  *)
ReloadIsAccountedFor == ReloadTypeOK /\ NewestIsAccountedFor /\ PendingHasWorker

(* When nothing is in flight and no failure is reported, the backend that   *)
(* recognises is the one the in-memory config selects, so the target and    *)
(* effective ids of GetAsrBackendState agree.                               *)
InFlight == pending.gen # 0 \/ \E w \in Generations : worker[w].pc # "none"
EffectiveMatchesTarget ==
  ~InFlight /\ ~disabled /\ lastError = 0 => backend.asr = config.asr

(* --no-asr cannot be undone by a reload: nothing is ever prepared or       *)
(* installed.                                                               *)
DisabledStaysOff == disabled => backend = Backend(0, Unselected) /\ ~InFlight

(* What recognises is what is selected: the target, or nothing.             *)
EffectiveIsSelected == EffectiveMatchesTarget /\ DisabledStaysOff

(* A backend is replaced only by a newer one, only by the newest request at *)
(* that moment, and, unless it is taken away altogether, only when idle.    *)
BackendsOnlyGetNewer ==
  [][/\ backend'.gen > backend.gen
     /\ backend'.gen = generation'
     /\ busy => backend'.asr = Unselected]_backend

(* Every reload is over in the end, however many replaced each other.       *)
ReloadsSettle == InFlight ~> ~InFlight
=============================================================================
