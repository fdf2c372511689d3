--------------------------- MODULE AsrReloadProofs ---------------------------
(***************************************************************************)
(* The reload protocol loses no request and installs no stale backend, for *)
(* every number of callers, providers, reloads and recordings, although    *)
(* several worker tasks may run at once.  ReloadInv is what makes it work: *)
(* whoever holds the newest generation holds it alone, holds the selection *)
(* of the in-memory config, and comes before the backend installed so far. *)
(***************************************************************************)
EXTENDS AsrReload, TLAPS

Held(w) == worker[w].req.gen

(* Nothing is newer than the newest generation.                             *)
Bounded ==
  /\ pending.gen <= generation
  /\ backend.gen <= generation
  /\ \A w \in Generations : Held(w) <= generation

IdleTasksHoldNothing ==
  \A w \in Generations : worker[w].pc \in {"none", "step"} <=> Held(w) = 0

RunningHasWorker == workerRunning => \E w \in Generations : Working(w)

PendingIsNewest ==
  pending.gen # 0 =>
    /\ workerRunning
    /\ pending.gen = generation
    /\ pending.asr = config.asr
    /\ backend.gen < generation
    /\ \A w \in Generations : Held(w) # generation

HeldIsTarget ==
  \A w \in Generations : Held(w) = generation /\ generation # 0 =>
    /\ worker[w].req.asr = config.asr
    /\ backend.gen < generation
    /\ \A v \in Generations : v # w => Held(v) # generation

BackendIsTarget == ~disabled /\ backend.gen = generation => backend.asr = config.asr

DisabledIsIdle ==
  disabled => /\ generation = 0
              /\ backend = Backend(0, Unselected)
              /\ \A w \in Generations : worker[w].pc = "none"

ReloadInv ==
  /\ ReloadTypeOK
  /\ Bounded
  /\ IdleTasksHoldNothing
  /\ RunningHasWorker
  /\ PendingIsNewest
  /\ HeldIsTarget
  /\ BackendIsTarget
  /\ DisabledIsIdle
  /\ NewestIsAccountedFor

-----------------------------------------------------------------------------
(* The empty request is a request.                                          *)
LEMMA NoRequestIsTyped ==
  NoRequest \in Requests /\ NoRequest.gen = 0 /\ NoRequest.asr = Unselected
<1>1. (CHOOSE s \in Scenes : TRUE) \in Scenes
  BY ReloadConstants DEF ReloadConstants
<1>2. 0 \in 0 .. MaxGeneration
  BY ReloadConstants DEF ReloadConstants
<1> QED
  BY <1>1, <1>2 DEF NoRequest, Requests

(* A worker moves alone.                                                    *)
LEMMA WorkerMoves ==
  ASSUME ReloadTypeOK, NEW w \in Generations, NEW pc \in TaskStages, NEW r \in Requests,
         WorkerAt(w, pc, r)
  PROVE  /\ worker' \in [Generations -> [pc : TaskStages, req : Requests]]
         /\ worker'[w].pc = pc /\ worker'[w].req = r
         /\ \A v \in Generations : v # w => worker'[v] = worker[v]
  BY DEF ReloadTypeOK, WorkerAt, Task

(* The invariant holds at startup, with or without --no-asr.                *)
LEMMA ReloadInitInv == Init => ReloadInv
<1> SUFFICES ASSUME Init PROVE ReloadInv
  OBVIOUS
<1> USE ReloadConstants, NoRequestIsTyped DEF ReloadConstants, Init
<1>1. NoTask = [pc |-> "none", req |-> NoRequest] /\ NoCall.pc = "idle" /\ NoCall.cfg \in Configs
  BY DEF NoTask, NoCall, ConfigOf, Configs, Requests
<1>2. NoCall \in [pc : {"idle", "selected", "ready"}, cfg : Configs]
  BY <1>1 DEF NoCall
<1>3. \A w \in Generations : worker[w].pc = "none" /\ worker[w].req = NoRequest
  BY <1>1
<1>4. backend = [gen |-> 0, asr |-> IF disabled THEN Unselected ELSE config.asr]
  BY DEF Backend
<1>5. ReloadTypeOK
  <2>1. config.asr \in Providers \cup {Unselected} /\ 0 \in 0 .. MaxGeneration
    BY DEF Configs
  <2>2. backend \in [gen : 0 .. MaxGeneration, asr : Providers \cup {Unselected}]
    BY <1>4, <2>1
  <2>3. worker \in [Generations -> [pc : TaskStages, req : Requests]]
    BY <1>1 DEF TaskStages
  <2>4. caller \in [Callers -> [pc : {"idle", "selected", "ready"}, cfg : Configs]]
    BY <1>2
  <2>5. recordings \in 0 .. MaxRecordings /\ generation \in 0 .. MaxGeneration
    OBVIOUS
  <2>6. lastError \in 0 .. MaxGeneration /\ pending \in Requests
    OBVIOUS
  <2>7. file \in Configs /\ config \in Configs
    OBVIOUS
  <2>8. disabled \in BOOLEAN /\ busy \in BOOLEAN /\ workerRunning \in BOOLEAN /\ preparing \in BOOLEAN
    OBVIOUS
  <2> QED
    BY <2>2, <2>3, <2>4, <2>5, <2>6, <2>7, <2>8 DEF ReloadTypeOK
<1>6. Bounded /\ IdleTasksHoldNothing /\ RunningHasWorker /\ PendingIsNewest /\ HeldIsTarget
  BY <1>3, <1>4 DEF Bounded, IdleTasksHoldNothing, RunningHasWorker, PendingIsNewest,
                    HeldIsTarget, Held
<1>7. BackendIsTarget /\ DisabledIsIdle /\ NewestIsAccountedFor
  BY <1>3, <1>4 DEF BackendIsTarget, DisabledIsIdle, NewestIsAccountedFor, Backend
<1> QED
  BY <1>5, <1>6, <1>7 DEF ReloadInv

-----------------------------------------------------------------------------
(* Steps that leave the reload state, the workers and the ASR selection of  *)
(* the in-memory config alone keep the invariant.                           *)
LEMMA OtherStepsKeepInv ==
  ASSUME ReloadInv, ReloadTypeOK', UNCHANGED <<disabled, reloadVars, worker>>,
         config'.asr = config.asr
  PROVE  ReloadInv'
<1>1. UNCHANGED <<disabled, generation, pending, workerRunning, preparing, lastError, backend,
                  worker>>
  BY DEF reloadVars
<1>2. Bounded' /\ IdleTasksHoldNothing' /\ RunningHasWorker'
  BY <1>1 DEF ReloadInv, Bounded, IdleTasksHoldNothing, RunningHasWorker, Held, Working
<1>3. PendingIsNewest' /\ HeldIsTarget' /\ BackendIsTarget'
  BY <1>1 DEF ReloadInv, PendingIsNewest, HeldIsTarget, BackendIsTarget, Held
<1>4. DisabledIsIdle' /\ NewestIsAccountedFor'
  BY <1>1 DEF ReloadInv, DisabledIsIdle, NewestIsAccountedFor
<1> QED
  BY <1>2, <1>3, <1>4 DEF ReloadInv

(* The service around the reload.                                           *)
LEMMA ServiceStepsKeepInv ==
  ASSUME ReloadInv, NEW a \in Providers \cup {Unselected}, NEW s \in Scenes,
         BecomeBusy \/ BecomeIdle \/ SetActiveScene(s) \/ EditFile(a)
  PROVE  ReloadInv'
<1>2. ReloadTypeOK
  BY DEF ReloadInv
<1>3. CASE BecomeBusy
  <2>1. recordings' \in 0 .. MaxRecordings /\ busy' \in BOOLEAN
    BY <1>2, <1>3, ReloadConstants DEF BecomeBusy, ReloadTypeOK, ReloadConstants
  <2>2. UNCHANGED <<disabled, file, config, caller, reloadVars, worker>>
    BY <1>3 DEF BecomeBusy
  <2>3. ReloadTypeOK'
    BY <1>2, <2>1, <2>2 DEF ReloadTypeOK, reloadVars
  <2> QED
    BY <2>2, <2>3, OtherStepsKeepInv
<1>4. CASE BecomeIdle
  <2>1. pending.gen = 0 \/ workerRunning
    BY DEF ReloadInv, PendingIsNewest
  <2>2. busy' = FALSE /\ UNCHANGED <<disabled, recordings, file, config, caller, reloadVars, worker>>
    BY <1>4, <2>1 DEF BecomeIdle, reloadVars
  <2>3. ReloadTypeOK'
    BY <1>2, <2>2 DEF ReloadTypeOK, reloadVars
  <2> QED
    BY <2>2, <2>3, OtherStepsKeepInv
<1>5. CASE SetActiveScene(s)
  <2>1. ReloadTypeOK'
    BY <1>2, <1>5 DEF SetActiveScene, ReloadTypeOK, reloadVars, Configs
  <2> QED
    BY <1>5, <2>1, OtherStepsKeepInv DEF SetActiveScene
<1>6. CASE EditFile(a)
  <2>1. ReloadTypeOK'
    BY <1>2, <1>6 DEF EditFile, ReloadTypeOK, reloadVars, Configs
  <2> QED
    BY <1>6, <2>1, OtherStepsKeepInv DEF EditFile
<1> QED
  BY <1>3, <1>4, <1>5, <1>6

(* The calls until they queue.                                              *)
LEMMA CallsKeepInv ==
  ASSUME ReloadInv, NEW c \in Callers, NEW a \in Providers,
         LoadAndSelect(c, a) \/ Persist(c) \/ LoadForReload(c) \/ QueueFails(c)
  PROVE  ReloadInv'
<1> USE ReloadConstants, NoRequestIsTyped DEF ReloadConstants
<1> DEFINE Calls == [pc : {"idle", "selected", "ready"}, cfg : Configs]
<1>1. NoCall \in Calls
  BY DEF NoCall, ConfigOf, Configs, Requests
<1>2. ReloadTypeOK
  BY DEF ReloadInv
<1>7. CASE LoadAndSelect(c, a)
  <2>1. ReloadTypeOK'
    BY <1>2, <1>7 DEF LoadAndSelect, ReloadTypeOK, reloadVars, Configs
  <2> QED
    BY <1>7, <2>1, OtherStepsKeepInv DEF LoadAndSelect
<1>8. CASE Persist(c)
  <2>1. caller' \in [Callers -> Calls] /\ file' \in Configs
    BY <1>1, <1>2, <1>8 DEF Persist, CallReturns, ReloadTypeOK
  <2>2. ReloadTypeOK'
    BY <1>2, <1>8, <2>1 DEF Persist, ReloadTypeOK, reloadVars
  <2> QED
    BY <1>8, <2>2, OtherStepsKeepInv DEF Persist
<1>9. CASE LoadForReload(c)
  <2>1. ReloadTypeOK'
    BY <1>2, <1>9 DEF LoadForReload, ReloadTypeOK, reloadVars
  <2> QED
    BY <1>9, <2>1, OtherStepsKeepInv DEF LoadForReload
<1>10. CASE QueueFails(c)
  <2>1. caller' \in [Callers -> Calls]
    BY <1>1, <1>2, <1>10 DEF QueueFails, CallReturns, ReloadTypeOK
  <2>2. ReloadTypeOK'
    BY <1>2, <1>10, <2>1 DEF QueueFails, ReloadTypeOK, reloadVars
  <2> QED
    BY <1>10, <2>2, OtherStepsKeepInv DEF QueueFails
<1> QED
  BY <1>7, <1>8, <1>9, <1>10

-----------------------------------------------------------------------------
(* Queueing with --no-asr: there was nothing to clear.                      *)
LEMMA QueueDisabledKeepsInv ==
  ASSUME ReloadInv, NEW c \in Callers, QueueDisabled(c)
  PROVE  ReloadInv'
<1> USE ReloadConstants, NoRequestIsTyped DEF ReloadConstants
<1>1. /\ disabled /\ generation = 0 /\ pending.gen = 0 /\ pending \in Requests
      /\ \A w \in Generations : worker[w].pc = "none"
  BY DEF QueueDisabled, ReloadInv, DisabledIsIdle, Bounded, ReloadTypeOK, Requests
<1>2. ~workerRunning
  BY <1>1 DEF ReloadInv, RunningHasWorker, Working
<1>3. /\ UNCHANGED <<disabled, generation, lastError, backend, worker>>
      /\ pending'.gen = 0 /\ pending' \in Requests
      /\ workerRunning' = FALSE /\ preparing' = FALSE
  BY DEF QueueDisabled
<1>4. ReloadTypeOK'
  <2>1. NoCall \in [pc : {"idle", "selected", "ready"}, cfg : Configs]
    BY DEF NoCall, ConfigOf, Configs, Requests
  <2>2. config' \in Configs
    BY DEF QueueDisabled, Adopt, ReloadInv, ReloadTypeOK, Configs
  <2>3. caller' \in [Callers -> [pc : {"idle", "selected", "ready"}, cfg : Configs]]
    BY <2>1 DEF QueueDisabled, CallReturns, ReloadInv, ReloadTypeOK
  <2> QED
    BY <1>3, <2>2, <2>3 DEF QueueDisabled, ReloadInv, ReloadTypeOK
<1>5. Bounded' /\ IdleTasksHoldNothing' /\ RunningHasWorker' /\ PendingIsNewest'
  BY <1>1, <1>3 DEF ReloadInv, Bounded, IdleTasksHoldNothing, RunningHasWorker,
                    PendingIsNewest, Held
<1>6. HeldIsTarget' /\ BackendIsTarget'
  BY <1>1, <1>3 DEF ReloadInv, HeldIsTarget, BackendIsTarget, Held
<1>7. DisabledIsIdle' /\ NewestIsAccountedFor'
  BY <1>1, <1>3 DEF ReloadInv, DisabledIsIdle, NewestIsAccountedFor
<1> QED
  BY <1>4, <1>5, <1>6, <1>7 DEF ReloadInv

(* Unselecting supersedes whatever is pending or held.                      *)
LEMMA QueueUnselectedKeepsInv ==
  ASSUME ReloadInv, NEW c \in Callers, QueueUnselected(c)
  PROVE  ReloadInv'
<1> USE ReloadConstants, NoRequestIsTyped DEF ReloadConstants
<1>1. /\ UNCHANGED <<disabled, worker>> /\ ~disabled
      /\ generation' = generation + 1 /\ generation \in Nat /\ generation < MaxGeneration
      /\ pending' = NoRequest /\ lastError' = 0
      /\ workerRunning' = FALSE /\ preparing' = FALSE
      /\ backend' = [gen |-> generation + 1, asr |-> Unselected]
      /\ config'.asr = Unselected
  BY DEF QueueUnselected, Backend, Adopt, ReloadInv, ReloadTypeOK
<1>2. \A w \in Generations : Held(w) \in Nat /\ Held(w) <= generation /\ Held(w)' = Held(w)
  BY <1>1 DEF ReloadInv, ReloadTypeOK, Bounded, Held, Requests
<1>3. ReloadTypeOK'
  <2>1. NoCall \in [pc : {"idle", "selected", "ready"}, cfg : Configs]
    BY DEF NoCall, ConfigOf, Configs, Requests
  <2>2. config' \in Configs
    BY DEF QueueUnselected, Adopt, ReloadInv, ReloadTypeOK, Configs
  <2>3. caller' \in [Callers -> [pc : {"idle", "selected", "ready"}, cfg : Configs]]
    BY <2>1 DEF QueueUnselected, CallReturns, ReloadInv, ReloadTypeOK
  <2>4. generation' \in 0 .. MaxGeneration /\ lastError' \in 0 .. MaxGeneration
    BY <1>1
  <2>5. backend' \in [gen : 0 .. MaxGeneration, asr : Providers \cup {Unselected}]
    BY <1>1
  <2>6. pending' \in Requests
    BY <1>1
  <2>7. UNCHANGED <<disabled, busy, recordings, file, worker>>
    BY DEF QueueUnselected
  <2> QED
    BY <1>1, <2>2, <2>3, <2>4, <2>5, <2>6, <2>7 DEF ReloadInv, ReloadTypeOK
<1>4. Bounded'
  BY <1>1, <1>2 DEF Bounded
<1>5. IdleTasksHoldNothing' /\ RunningHasWorker' /\ PendingIsNewest'
  BY <1>1, <1>2 DEF ReloadInv, IdleTasksHoldNothing, RunningHasWorker, PendingIsNewest
<1>6. HeldIsTarget'
  BY <1>1, <1>2 DEF HeldIsTarget
<1>7. BackendIsTarget' /\ DisabledIsIdle' /\ NewestIsAccountedFor'
  BY <1>1 DEF BackendIsTarget, DisabledIsIdle, NewestIsAccountedFor
<1> QED
  BY <1>3, <1>4, <1>5, <1>6, <1>7 DEF ReloadInv

(* A queued reload is newer than everything in flight.                      *)
LEMMA QueueReloadKeepsInv ==
  ASSUME ReloadInv, NEW c \in Callers, QueueReload(c)
  PROVE  ReloadInv'
<1> USE ReloadConstants, NoRequestIsTyped DEF ReloadConstants
<1> DEFINE g == generation + 1
           cfg == caller[c].cfg
<1>1. cfg \in Configs /\ generation \in Nat /\ g \in Generations
  BY DEF QueueReload, ReloadInv, ReloadTypeOK, Generations
<1>2. /\ UNCHANGED <<disabled, backend, preparing>> /\ ~disabled
      /\ generation' = g /\ lastError' = 0 /\ workerRunning' = TRUE
      /\ pending' = [gen |-> g, asr |-> cfg.asr, scene |-> cfg.scene]
      /\ config'.asr = cfg.asr
  BY DEF QueueReload, Adopt, Request
<1>3. /\ worker' \in [Generations -> [pc : TaskStages, req : Requests]]
      /\ \E w \in Generations : Working(w)'
      /\ \A w \in Generations :
           (worker'[w] = worker[w]) \/ (worker'[w].pc = "step" /\ worker'[w].req = NoRequest)
  <2>1. CASE workerRunning
    <3>1. worker' = worker
      BY <2>1 DEF QueueReload
    <3> QED
      BY <2>1, <3>1 DEF ReloadInv, ReloadTypeOK, RunningHasWorker, Working
  <2>2. CASE ~workerRunning
    <3>1. WorkerAt(g, "step", NoRequest)
      BY <2>2 DEF QueueReload, WorkerAt
    <3>2. "step" \in TaskStages
      BY DEF TaskStages
    <3>3. /\ worker' \in [Generations -> [pc : TaskStages, req : Requests]]
          /\ worker'[g].pc = "step" /\ worker'[g].req = NoRequest
          /\ \A v \in Generations : v # g => worker'[v] = worker[v]
      BY <1>1, <3>1, <3>2, WorkerMoves DEF ReloadInv
    <3> QED
      BY <1>1, <3>3 DEF Working
  <2> QED
    BY <2>1, <2>2
<1>4. \A w \in Generations : Held(w)' \in Nat /\ Held(w)' <= generation
  BY <1>1, <1>3 DEF ReloadInv, ReloadTypeOK, Bounded, Held, Requests
<1>5. backend.gen \in Nat /\ backend.gen <= generation
  BY DEF ReloadInv, ReloadTypeOK, Bounded
<1>6. ReloadTypeOK'
  <2>1. NoCall \in [pc : {"idle", "selected", "ready"}, cfg : Configs]
    BY DEF NoCall, ConfigOf, Configs, Requests
  <2>2. config' \in Configs
    BY <1>1 DEF QueueReload, Adopt, ReloadInv, ReloadTypeOK, Configs
  <2>3. caller' \in [Callers -> [pc : {"idle", "selected", "ready"}, cfg : Configs]]
    BY <2>1 DEF QueueReload, CallReturns, ReloadInv, ReloadTypeOK
  <2>4. pending' \in Requests /\ generation' \in 0 .. MaxGeneration
    BY <1>1, <1>2 DEF Requests, Configs, Generations
  <2> QED
    BY <1>2, <1>3, <2>2, <2>3, <2>4 DEF QueueReload, ReloadInv, ReloadTypeOK
<1>7. Bounded' /\ RunningHasWorker'
  BY <1>1, <1>2, <1>3, <1>4, <1>5 DEF Bounded, RunningHasWorker
<1>8. IdleTasksHoldNothing'
  BY <1>3 DEF ReloadInv, IdleTasksHoldNothing, Held
<1>9. PendingIsNewest' /\ HeldIsTarget' /\ BackendIsTarget'
  BY <1>1, <1>2, <1>4, <1>5 DEF PendingIsNewest, HeldIsTarget, BackendIsTarget
<1>10. DisabledIsIdle' /\ NewestIsAccountedFor'
  BY <1>2 DEF DisabledIsIdle, NewestIsAccountedFor
<1> QED
  BY <1>6, <1>7, <1>8, <1>9, <1>10 DEF ReloadInv

-----------------------------------------------------------------------------
(* A worker that acts exists only without --no-asr.                         *)
LEMMA ActiveWorker ==
  ASSUME ReloadInv, NEW w \in Generations, worker[w].pc # "none"
  PROVE  ~disabled
  BY DEF ReloadInv, DisabledIsIdle

(* A worker that stops leaves nothing pending behind.                       *)
LEMMA StepStopsKeepsInv ==
  ASSUME ReloadInv, NEW w \in Generations, StepStops(w)
  PROVE  ReloadInv'
<1> USE NoRequestIsTyped
<1>1. /\ UNCHANGED <<disabled, busy, recordings, file, config, caller, generation, pending,
                     preparing, lastError, backend>>
      /\ workerRunning' = FALSE
      /\ worker[w].pc = "step"
      /\ WorkerAt(w, "none", NoRequest)
  BY DEF StepStops
<1>2. ReloadTypeOK /\ pending.gen = 0 /\ ~disabled /\ Held(w) = 0
  BY <1>1, ActiveWorker DEF StepStops, ReloadInv, PendingIsNewest, IdleTasksHoldNothing
<1>3. /\ worker' \in [Generations -> [pc : TaskStages, req : Requests]]
      /\ worker'[w].pc = "none" /\ worker'[w].req = NoRequest
      /\ \A v \in Generations : v # w => worker'[v] = worker[v]
  BY <1>1, <1>2, WorkerMoves DEF TaskStages
<1>4. \A v \in Generations : Held(v)' = Held(v)
  BY <1>2, <1>3 DEF Held
<1>5. ReloadTypeOK'
  BY <1>1, <1>2, <1>3 DEF ReloadTypeOK
<1>6. Bounded' /\ HeldIsTarget'
  <2>1. Bounded'
    BY <1>1, <1>4 DEF ReloadInv, Bounded
  <2>2. ASSUME NEW v \in Generations, Held(v)' = generation', generation' # 0
        PROVE  worker'[v].req = worker[v].req
    BY <1>1, <1>3, <2>2 DEF Held
  <2> QED
    BY <1>1, <1>4, <2>1, <2>2 DEF ReloadInv, HeldIsTarget
<1>7. IdleTasksHoldNothing' /\ RunningHasWorker' /\ PendingIsNewest'
  BY <1>1, <1>2, <1>3 DEF ReloadInv, IdleTasksHoldNothing, RunningHasWorker, PendingIsNewest, Held
<1>8. BackendIsTarget' /\ DisabledIsIdle'
  BY <1>1, <1>2 DEF ReloadInv, BackendIsTarget, DisabledIsIdle
<1>9. NewestIsAccountedFor'
  BY <1>1, <1>2, <1>4 DEF ReloadInv, NewestIsAccountedFor, Held
<1> QED
  BY <1>5, <1>6, <1>7, <1>8, <1>9 DEF ReloadInv

(* What was pending is now held, by this worker alone.                      *)
LEMMA StepTakesKeepsInv ==
  ASSUME ReloadInv, NEW w \in Generations, StepTakes(w)
  PROVE  ReloadInv'
<1> USE NoRequestIsTyped
<1>1. /\ UNCHANGED <<disabled, busy, recordings, file, caller, generation, lastError, backend>>
      /\ pending' = NoRequest /\ pending.gen # 0
      /\ worker[w].pc = "step" /\ workerRunning
  BY DEF StepTakes
<1>2. PICK pc \in {"preparing", "applyFailed"} :
         /\ WorkerAt(w, pc, pending)
         /\ pc = "preparing" => config' = ConfigOf(pending) /\ preparing' = TRUE
                                /\ UNCHANGED workerRunning
         /\ pc = "applyFailed" => workerRunning' = FALSE /\ UNCHANGED <<config, preparing>>
  BY DEF StepTakes
<1>3. /\ ReloadTypeOK /\ ~disabled /\ pending \in Requests
      /\ pending.gen = generation /\ pending.asr = config.asr /\ backend.gen < generation
      /\ \A v \in Generations : Held(v) # generation
  BY <1>1, ActiveWorker DEF ReloadInv, ReloadTypeOK, PendingIsNewest
<1>4. /\ worker' \in [Generations -> [pc : TaskStages, req : Requests]]
      /\ worker'[w].pc = pc /\ worker'[w].req = pending
      /\ \A v \in Generations : v # w => worker'[v] = worker[v]
  BY <1>2, <1>3, WorkerMoves DEF TaskStages
<1>5. config' \in Configs /\ config'.asr = config.asr
  BY <1>2, <1>3 DEF ConfigOf, Configs, Requests, ReloadTypeOK
<1>6. Held(w)' = generation /\ \A v \in Generations : v # w => Held(v)' = Held(v)
  BY <1>3, <1>4 DEF Held
<1>7. ReloadTypeOK'
  <2>1. workerRunning' \in BOOLEAN /\ preparing' \in BOOLEAN
    BY <1>2, <1>3 DEF ReloadTypeOK
  <2> QED
    BY <1>1, <1>3, <1>4, <1>5, <2>1 DEF ReloadTypeOK
<1>8. Bounded'
  BY <1>1, <1>3, <1>6 DEF ReloadInv, ReloadTypeOK, Bounded
<1>9. HeldIsTarget'
  <2>1. ASSUME NEW v \in Generations, Held(v)' = generation'
        PROVE  v = w
    BY <1>1, <1>3, <1>6, <2>1
  <2> QED
    BY <1>1, <1>3, <1>4, <1>5, <2>1 DEF HeldIsTarget
<1>10. IdleTasksHoldNothing' /\ PendingIsNewest'
  BY <1>1, <1>4 DEF ReloadInv, IdleTasksHoldNothing, PendingIsNewest, Held
<1>11. RunningHasWorker'
  BY <1>1, <1>2, <1>4 DEF RunningHasWorker, Working
<1>12. BackendIsTarget' /\ DisabledIsIdle'
  <2>1. backend.gen # generation
    BY <1>3 DEF ReloadTypeOK
  <2> QED
    BY <1>1, <1>3, <2>1 DEF BackendIsTarget, DisabledIsIdle
<1>13. NewestIsAccountedFor'
  BY <1>1, <1>6 DEF NewestIsAccountedFor, Held
<1> QED
  BY <1>7, <1>8, <1>9, <1>10, <1>11, <1>12, <1>13 DEF ReloadInv

(* The end of a preparation changes what the worker does next, not what it  *)
(* holds.                                                                   *)
LEMMA PrepareEndsKeepsInv ==
  ASSUME ReloadInv, NEW w \in Generations, PrepareEnds(w)
  PROVE  ReloadInv'
<1>1. /\ UNCHANGED <<disabled, busy, recordings, file, config, caller, generation, pending,
                     workerRunning, preparing, lastError, backend>>
      /\ worker[w].pc = "preparing"
  BY DEF PrepareEnds, reloadVars
<1>2. PICK pc \in {"prepared", "prepareFailed"} : WorkerAt(w, pc, worker[w].req)
  BY DEF PrepareEnds
<1>3. ReloadTypeOK /\ ~disabled /\ worker[w].req \in Requests
  BY <1>1, ActiveWorker DEF ReloadInv, ReloadTypeOK
<1>4. /\ worker' \in [Generations -> [pc : TaskStages, req : Requests]]
      /\ worker'[w].pc = pc /\ worker'[w].req = worker[w].req
      /\ \A v \in Generations : v # w => worker'[v] = worker[v]
  BY <1>2, <1>3, WorkerMoves DEF TaskStages
<1>5. \A v \in Generations : worker'[v].req = worker[v].req /\ Held(v)' = Held(v)
  BY <1>4 DEF Held
<1>6. ReloadTypeOK'
  BY <1>1, <1>3, <1>4 DEF ReloadTypeOK
<1>7. Bounded' /\ IdleTasksHoldNothing'
  BY <1>1, <1>4, <1>5 DEF ReloadInv, Bounded, IdleTasksHoldNothing
<1>8. RunningHasWorker'
  <2>1. Working(w)'
    BY <1>4 DEF Working
  <2> QED
    BY <2>1 DEF RunningHasWorker
<1>9. PendingIsNewest' /\ HeldIsTarget'
  BY <1>1, <1>5 DEF ReloadInv, PendingIsNewest, HeldIsTarget
<1>10. BackendIsTarget' /\ DisabledIsIdle' /\ NewestIsAccountedFor'
  BY <1>1, <1>3, <1>5 DEF ReloadInv, BackendIsTarget, DisabledIsIdle, NewestIsAccountedFor
<1> QED
  BY <1>6, <1>7, <1>8, <1>9, <1>10 DEF ReloadInv

(* A worker lets go of its request, with its outcome in the backend, in     *)
(* last_error, or of no interest because something newer was queued.        *)
LEMMA ReleaseKeepsInv ==
  ASSUME ReloadInv, ReloadTypeOK', NEW w \in Generations, worker[w].pc # "none",
         NEW pc \in {"none", "step"},
         WorkerAt(w, pc, NoRequest),
         worker[w].pc = "applyFailed" \/ pc = "step",
         UNCHANGED <<disabled, generation, pending, workerRunning>>,
         config'.asr = config.asr,
         Held(w) = generation => backend'.gen = generation \/ lastError' = generation,
         Held(w) # generation => UNCHANGED <<backend, lastError>>,
         UNCHANGED backend \/ (backend' = Backend(generation, config.asr) /\ Held(w) = generation),
         lastError = generation => lastError' = generation \/ backend'.gen = generation
  PROVE  ReloadInv'
<1> USE NoRequestIsTyped
<1>1. ReloadTypeOK /\ ~disabled /\ pc \in TaskStages /\ generation \in Nat
  BY ActiveWorker DEF ReloadInv, TaskStages, ReloadTypeOK
<1>2. /\ worker' \in [Generations -> [pc : TaskStages, req : Requests]]
      /\ worker'[w].pc = pc /\ worker'[w].req = NoRequest
      /\ \A v \in Generations : v # w => worker'[v] = worker[v]
  BY <1>1, WorkerMoves
<1>3. Held(w)' = 0 /\ \A v \in Generations : v # w => Held(v)' = Held(v)
  BY <1>2 DEF Held
<1>4. backend'.gen \in Nat /\ backend'.gen <= generation
  BY <1>1 DEF ReloadInv, Bounded, ReloadTypeOK, Backend
<1>5. Bounded'
  BY <1>1, <1>3, <1>4 DEF ReloadInv, Bounded
<1>6. IdleTasksHoldNothing'
  BY <1>2 DEF ReloadInv, IdleTasksHoldNothing, Held
<1>7. RunningHasWorker'
  <2>1. CASE pc = "step"
    BY <1>2, <2>1 DEF RunningHasWorker, Working
  <2>2. CASE worker[w].pc = "applyFailed"
    BY <1>2, <2>2 DEF ReloadInv, RunningHasWorker, Working
  <2> QED
    BY <2>1, <2>2
<1>8. PendingIsNewest'
  <2>1. CASE pending.gen = 0
    BY <2>1 DEF PendingIsNewest
  <2>2. CASE pending.gen # 0
    <3>1. /\ workerRunning /\ pending.gen = generation /\ generation # 0
          /\ pending.asr = config.asr /\ backend.gen < generation
          /\ \A v \in Generations : Held(v) # generation
      BY <2>2 DEF ReloadInv, PendingIsNewest
    <3>2. UNCHANGED backend
      BY <3>1
    <3> QED
      BY <1>3, <3>1, <3>2 DEF PendingIsNewest
  <2> QED
    BY <2>1, <2>2
<1>9. HeldIsTarget'
  <2> SUFFICES ASSUME NEW v \in Generations, Held(v)' = generation', generation' # 0
               PROVE  (/\ worker[v].req.asr = config.asr
                       /\ backend.gen < generation
                       /\ \A u \in Generations : u # v => Held(u) # generation)'
    BY DEF HeldIsTarget
  <2>1. v # w /\ Held(v) = generation /\ worker'[v] = worker[v] /\ generation # 0
    BY <1>2, <1>3
  <2>2. /\ worker[v].req.asr = config.asr /\ backend.gen < generation
        /\ \A u \in Generations : u # v => Held(u) # generation
    BY <2>1 DEF ReloadInv, HeldIsTarget
  <2>3. Held(w) # generation /\ UNCHANGED backend
    BY <2>1, <2>2
  <2> QED
    BY <1>3, <2>1, <2>2, <2>3
<1>10. BackendIsTarget' /\ DisabledIsIdle'
  BY <1>1 DEF ReloadInv, BackendIsTarget, DisabledIsIdle, Backend
<1>11. NewestIsAccountedFor'
  <2>1. CASE Held(w) = generation
    BY <2>1 DEF NewestIsAccountedFor
  <2>2. CASE Held(w) # generation
    BY <1>2, <2>2 DEF ReloadInv, NewestIsAccountedFor, Held
  <2> QED
    BY <2>1, <2>2
<1> QED
  BY <1>5, <1>6, <1>7, <1>8, <1>9, <1>10, <1>11 DEF ReloadInv

(* A finished preparation is installed when it is still the newest.         *)
LEMMA CompleteKeepsInv ==
  ASSUME ReloadInv, NEW w \in Generations, Complete(w)
  PROVE  ReloadInv'
<1> USE NoRequestIsTyped
<1>1. /\ UNCHANGED <<disabled, busy, recordings, file, caller, generation, pending, workerRunning>>
      /\ preparing' = FALSE /\ worker[w].pc = "prepared"
      /\ WorkerAt(w, "step", NoRequest)
  BY DEF Complete
<1>2. /\ ReloadTypeOK /\ worker[w].req \in Requests /\ ~disabled
      /\ generation \in 0 .. MaxGeneration /\ config \in Configs
  BY <1>1, ActiveWorker DEF ReloadInv, ReloadTypeOK
<1>3. worker' \in [Generations -> [pc : TaskStages, req : Requests]]
  BY <1>1, <1>2, WorkerMoves DEF TaskStages
<1>4. CASE Held(w) = generation
  <2>1. /\ backend' = Backend(generation, worker[w].req.asr)
        /\ config' = [asr |-> worker[w].req.asr, scene |-> config.scene]
        /\ lastError' = 0
    BY <1>4 DEF Complete, Held
  <2>2. worker[w].req.asr = config.asr
    BY <1>1, <1>4 DEF ReloadInv, IdleTasksHoldNothing, HeldIsTarget
  <2>3. backend' = Backend(generation, config.asr) /\ backend'.gen = generation
    BY <2>1, <2>2 DEF Backend
  <2>4. config' \in Configs /\ config'.asr = config.asr
    BY <1>2, <2>1, <2>2 DEF Configs
  <2>5. backend' \in [gen : 0 .. MaxGeneration, asr : Providers \cup {Unselected}]
    BY <1>2, <2>3 DEF Backend, Configs
  <2>6. lastError' \in 0 .. MaxGeneration
    BY <2>1, ReloadConstants DEF ReloadConstants
  <2>7. ReloadTypeOK'
    BY <1>1, <1>2, <1>3, <2>4, <2>5, <2>6 DEF ReloadTypeOK
  <2> QED
    BY <1>1, <1>4, <2>3, <2>4, <2>7, ReleaseKeepsInv
<1>5. CASE Held(w) # generation
  <2>1. UNCHANGED <<backend, config, lastError>>
    BY <1>5 DEF Complete, Held
  <2>2. ReloadTypeOK'
    BY <1>1, <1>2, <1>3, <2>1 DEF ReloadTypeOK
  <2> QED
    BY <1>1, <1>5, <2>1, <2>2, ReleaseKeepsInv
<1> QED
  BY <1>4, <1>5

(* A failure is reported when it is that of the newest request.             *)
LEMMA RecordFailureKeepsInv ==
  ASSUME ReloadInv, NEW w \in Generations, RecordFailure(w)
  PROVE  ReloadInv'
<1> USE NoRequestIsTyped
<1>1. /\ UNCHANGED <<disabled, busy, recordings, file, config, caller, generation, pending,
                     workerRunning, backend>>
      /\ preparing' = FALSE
      /\ lastError' = IF Held(w) = generation THEN generation ELSE lastError
  BY DEF RecordFailure, Held
<1>2. ReloadTypeOK
  BY DEF ReloadInv
<1>3. PICK pc \in {"none", "step"} : /\ WorkerAt(w, pc, NoRequest)
                                     /\ worker[w].pc = "applyFailed" \/ pc = "step"
                                     /\ worker[w].pc # "none"
  BY DEF RecordFailure
<1>4. worker' \in [Generations -> [pc : TaskStages, req : Requests]]
  BY <1>2, <1>3, WorkerMoves DEF TaskStages
<1>5. ReloadTypeOK'
  BY <1>1, <1>2, <1>4 DEF ReloadTypeOK
<1> QED
  BY <1>1, <1>3, <1>5, ReleaseKeepsInv

-----------------------------------------------------------------------------
(* Every step keeps the invariant.                                          *)
LEMMA ReloadStepInv == ReloadInv /\ [Next]_vars => ReloadInv'
<1> SUFFICES ASSUME ReloadInv, [Next]_vars PROVE ReloadInv'
  OBVIOUS
<1>1. PICK a \in Providers : TRUE
  BY ReloadConstants DEF ReloadConstants
<1>2. PICK s \in Scenes : TRUE
  BY ReloadConstants DEF ReloadConstants
<1>3. CASE BecomeBusy \/ BecomeIdle
  BY <1>1, <1>2, <1>3, ServiceStepsKeepInv
<1>4. CASE \E t \in Scenes : SetActiveScene(t)
  BY <1>1, <1>4, ServiceStepsKeepInv
<1>5. CASE \E b \in Providers \cup {Unselected} : EditFile(b)
  BY <1>2, <1>5, ServiceStepsKeepInv
<1>6. ASSUME NEW c \in Callers, Call(c) PROVE ReloadInv'
  BY <1>1, <1>2, <1>6, CallsKeepInv, QueueDisabledKeepsInv, QueueUnselectedKeepsInv,
     QueueReloadKeepsInv DEF Call
<1>7. ASSUME NEW w \in Generations, Work(w) PROVE ReloadInv'
  BY <1>7, StepStopsKeepsInv, StepTakesKeepsInv, PrepareEndsKeepsInv, CompleteKeepsInv,
     RecordFailureKeepsInv DEF Work
<1>8. CASE UNCHANGED vars
  <2>1. UNCHANGED <<disabled, busy, recordings, file, config, caller, reloadVars, worker>>
    BY <1>8 DEF vars
  <2>2. ReloadTypeOK'
    BY <2>1 DEF ReloadInv, ReloadTypeOK, reloadVars
  <2> QED
    BY <2>1, <2>2, OtherStepsKeepInv
<1> QED
  BY <1>3, <1>4, <1>5, <1>6, <1>7, <1>8 DEF Next

(* The inductive invariant holds in every behaviour.                        *)
LEMMA ReloadInvariant == Spec => []ReloadInv
  BY ReloadInitInv, ReloadStepInv, PTL DEF Spec

(* Every variable keeps its type.                                           *)
THEOREM ReloadTypeCorrect == Spec => []ReloadTypeOK
<1>1. ReloadInv => ReloadTypeOK
  BY DEF ReloadInv
<1> QED
  BY <1>1, ReloadInvariant, PTL

(* The newest request is never lost, whichever worker tasks are running and *)
(* whatever replaced, failed or was unselected before it.                   *)
THEOREM NewestIsNeverLost == Spec => []NewestIsAccountedFor
<1>1. ReloadInv => NewestIsAccountedFor
  BY DEF ReloadInv
<1> QED
  BY <1>1, ReloadInvariant, PTL

(* A pending reload always has a live worker task to take it.               *)
THEOREM PendingIsNeverOrphaned == Spec => []PendingHasWorker
<1>1. ReloadInv => PendingHasWorker
  BY DEF ReloadInv, PendingHasWorker, PendingIsNewest, RunningHasWorker
<1> QED
  BY <1>1, ReloadInvariant, PTL

(* No reload is lost between the caller, the pending slot and the workers.  *)
THEOREM ReloadsAreAccountedFor == Spec => []ReloadIsAccountedFor
<1>1. ReloadTypeOK /\ NewestIsAccountedFor /\ PendingHasWorker => ReloadIsAccountedFor
  BY DEF ReloadIsAccountedFor
<1> QED
  BY <1>1, ReloadTypeCorrect, NewestIsNeverLost, PendingIsNeverOrphaned, PTL

(* With nothing in flight and no failure reported, the installed backend is *)
(* the selected one.                                                        *)
THEOREM EffectiveFollowsTarget == Spec => []EffectiveMatchesTarget
<1>1. ASSUME ReloadInv, ~InFlight, ~disabled, lastError = 0
      PROVE  backend.asr = config.asr
  <2>1. pending.gen = 0 /\ \A w \in Generations : worker[w].pc = "none"
    BY <1>1 DEF InFlight
  <2>2. \A w \in Generations : worker[w].req.gen = 0
    BY <1>1, <2>1 DEF ReloadInv, IdleTasksHoldNothing, Held
  <2>3. backend.gen \in Nat /\ backend.gen <= generation
    BY <1>1 DEF ReloadInv, ReloadTypeOK, Bounded
  <2>4. backend.gen = generation
    BY <1>1, <2>1, <2>2, <2>3 DEF ReloadInv, NewestIsAccountedFor
  <2> QED
    BY <1>1, <2>4 DEF ReloadInv, BackendIsTarget
<1>2. ReloadInv => EffectiveMatchesTarget
  BY <1>1 DEF EffectiveMatchesTarget
<1> QED
  BY <1>2, ReloadInvariant, PTL

(* With --no-asr nothing is ever prepared or installed.                     *)
THEOREM DisabledNeverReloads == Spec => []DisabledStaysOff
<1>1. ReloadInv => DisabledStaysOff
  <2> SUFFICES ASSUME ReloadInv, disabled PROVE backend = Backend(0, Unselected) /\ ~InFlight
    BY DEF DisabledStaysOff
  <2>1. /\ generation = 0 /\ backend = Backend(0, Unselected)
        /\ \A w \in Generations : worker[w].pc = "none"
    BY DEF ReloadInv, DisabledIsIdle
  <2>2. pending.gen = 0
    BY <2>1 DEF ReloadInv, ReloadTypeOK, Requests, Bounded
  <2> QED
    BY <2>1, <2>2 DEF InFlight
<1> QED
  BY <1>1, ReloadInvariant, PTL

(* What recognises is what is selected: the target, or nothing at all.      *)
THEOREM EffectiveIsAlwaysSelected == Spec => []EffectiveIsSelected
<1>1. EffectiveMatchesTarget /\ DisabledStaysOff => EffectiveIsSelected
  BY DEF EffectiveIsSelected
<1> QED
  BY <1>1, EffectiveFollowsTarget, DisabledNeverReloads, PTL

(* A stale preparation never overwrites a newer backend.                    *)
THEOREM NoStaleBackend == Spec => BackendsOnlyGetNewer
<1> DEFINE A == /\ backend'.gen > backend.gen
                /\ backend'.gen = generation'
                /\ busy => backend'.asr = Unselected
<1>1. ASSUME ReloadInv, [Next]_vars, backend' # backend PROVE A
  <2>1. pending.gen = 0 \/ workerRunning
    BY <1>1 DEF ReloadInv, PendingIsNewest
  <2>2. \/ \E c \in Callers : QueueUnselected(c)
        \/ \E w \in Generations : Complete(w)
    BY <1>1, <2>1 DEF Next, vars, reloadVars, BecomeBusy, BecomeIdle, SetActiveScene, EditFile,
       Call, LoadAndSelect, Persist, LoadForReload, QueueFails, QueueDisabled, QueueReload,
       Work, StepStops, StepTakes, PrepareEnds, RecordFailure
  <2>3. backend.gen \in Nat /\ generation \in Nat /\ backend.gen <= generation
    BY <1>1 DEF ReloadInv, ReloadTypeOK, Bounded
  <2>4. CASE \E c \in Callers : QueueUnselected(c)
    BY <2>3, <2>4 DEF QueueUnselected, Backend
  <2>5. ASSUME NEW w \in Generations, Complete(w) PROVE A
    <3>1. /\ worker[w].pc = "prepared" /\ ~busy /\ generation' = generation
          /\ Held(w) = generation /\ backend' = Backend(generation, worker[w].req.asr)
      BY <1>1, <2>5 DEF Complete, Held
    <3>2. backend.gen < generation
      BY <1>1, <3>1 DEF ReloadInv, IdleTasksHoldNothing, HeldIsTarget
    <3> QED
      BY <2>3, <3>1, <3>2 DEF Backend
  <2> QED
    BY <2>2, <2>4, <2>5
<1>2. ReloadInv /\ [Next]_vars => [A]_backend
  BY <1>1
<1> QED
  BY <1>2, ReloadInvariant, PTL DEF Spec, BackendsOnlyGetNewer
=============================================================================
