------------------------- MODULE TextServicesProofs -------------------------
(* Proofs about the two services that change text beside the recognizer:    *)
(* AdapterSupervisor, for any adapters, definitions and processes, and, at  *)
(* the end, RemoteText, for any sockets and any number of timers.           *)
EXTENDS AdapterSupervisor, RemoteText, FiniteSetTheorems, TLAPS

(* A process the daemon has spawned and not reaped, so that its pid cannot  *)
(* be given away.                                                           *)
Alive(p)   == process[p].leader \in {"running", "zombie"}
Held(p)    == Alive(p) /\ process[p].child
Changed    == {a \in Adapters : config[a] # None /\ job.next[a] # config[a]}
Starting   == job.step \in {"slot", "probe"}
Stopping   == job.step \in {"check", "terminated", "killed"}

(* What a call in progress holds at each of its steps: a process only while *)
(* it probes one, fresh ones only while a reload replaces or rolls back, and*)
(* an adapter it has defined to start or has given up to stop.              *)
JobShape ==
  /\ AtRest => job = NoJob
  /\ job.step # "probe" => job.proc = None
  /\ job.step = "reload" => job.call \in {"stopping", "replace", "undo", "restore"}
  /\ job.fresh # {} => job.call \in {"replace", "undo"}
  /\ Starting => /\ job.adapter \in Adapters /\ config[job.adapter] # None
                 /\ job.call \in {"start", "replace", "restore"}
                 /\ job.call # "start" => job.adapter \in job.todo
  /\ Stopping => /\ job.adapter \in Adapters /\ tracked[job.adapter] = None
                 /\ job.call \in {"stop", "stopping"}
                 /\ job.call = "stopping" => job.adapter \in job.plans

(* A reload touches the adapters whose definition changes, and gives up the *)
(* handle of each before it starts another process for it.                  *)
ReloadShape ==
  /\ job.plans \cup job.stopped \cup job.todo \subseteq Changed
  /\ job.call = "replace" => \A a \in job.todo : job.next[a] # None
  /\ job.call \in {"replace", "undo"} => job.plans = {}
  /\ job.call \in {"stopping", "replace", "undo"} =>
       \A a \in Changed \ job.plans : tracked[a] = None

(* The process being probed is an unreaped child of the adapter that is being*)
(* started, runs its definition, and is neither recorded nor tracked yet.   *)
ProbeIsHeld ==
  job.step = "probe" =>
    /\ job.proc \in Procs /\ Held(job.proc)
    /\ process[job.proc].adapter = job.adapter
    /\ process[job.proc].version = Definition(job.adapter)
    /\ record[job.adapter] = None
    /\ \A a \in Adapters : tracked[a] # job.proc

(* The replacements a reload has started are recorded children that run the *)
(* next definition of an adapter the reload is done with.                   *)
FreshOf(p, a) ==
  /\ Held(p) /\ process[p].adapter = a
  /\ process[p].version = job.next[a] /\ job.next[a] # None
  /\ record[a] = p
  /\ a \in Changed \ job.todo

FreshAreHeld == \A p \in job.fresh : \E a \in Adapters : FreshOf(p, a)

(* What a handle in the table still says, reaped or not.                    *)
HandleIsRecorded(a) ==
  tracked[a] # None =>
    /\ config[a] # None
    /\ record[a] \in {tracked[a], None}
    /\ Alive(tracked[a]) => process[tracked[a]].adapter = a
    /\ Running(tracked[a]) => record[a] = tracked[a]

TrackedIsRecorded == \A a \in Adapters : HandleIsRecorded(a)

(* Every running adapter is recorded, being probed, or leaked by a failure  *)
(* nobody could undo.                                                       *)
RunningIsRecorded ==
  \A p \in Procs : Running(p) =>
    /\ process[p].adapter \in Adapters
    /\ p \in leaked \cup {job.proc, record[process[p].adapter]}

(* A tracked adapter runs its definition but after a reported failure.      *)
RunsItsConfig(a) ==
  tracked[a] # None /\ Running(tracked[a]) /\ a \notin reported =>
    process[tracked[a]].version = config[a]

TrackedRunsItsConfig == \A a \in Adapters : RunsItsConfig(a)

(* Where an adapter that was supervised before a reload is on its way.      *)
OnItsWay(a) ==
  \/ job.call \in {"stopping", "undo"} /\ a \in job.stopped
  \/ /\ job.call = "replace" /\ a \in job.stopped
     /\ \/ job.next[a] = None \/ a \in job.todo
        \/ \E p \in job.fresh : process[p].adapter = a
  \/ job.call = "restore" /\ a \in job.todo \cup reported

(* No adapter that ran before a reload is forgotten in the middle of it.    *)
ReloadLosesNobody == \A a \in job.before : tracked[a] # None \/ OnItsWay(a)

(* While records can be removed, every handle is that of an unreaped child. *)
HandlesAreHeld ==
  ~unremoved => \A a \in Adapters : tracked[a] # None => Held(tracked[a])

(* A pid is given away only when its whole group is over.                   *)
ReusedIsAlone == \A p \in Procs : Reused(p) => ~process[p].helpers

(* The inductive invariant.                                                 *)
SupervisorInv ==
  /\ SupervisorTypeOK /\ ReusedIsAlone
  /\ JobShape /\ ReloadShape
  /\ ProbeIsHeld /\ FreshAreHeld
  /\ TrackedIsRecorded /\ RunningIsRecorded
  /\ TrackedRunsItsConfig
  /\ ReloadLosesNobody
  /\ HandlesAreHeld /\ SignalsStayHome

-----------------------------------------------------------------------------
(* Types.                                                                   *)
ProcessTypes ==
  [adapter : Adapters \cup {None}, version : Versions \cup {None},
   leader : {"running", "zombie", "gone", "reused"},
   helpers : BOOLEAN, child : BOOLEAN]

JobTypes ==
  [step : {"none", "slot", "probe", "check", "terminated", "killed", "reload"},
   call : {"none", "start", "stop", "stopping", "replace", "undo", "restore"},
   adapter : Adapters \cup {None}, proc : Procs \cup {None},
   next : [Adapters -> Versions \cup {None}], plans : SUBSET Adapters,
   stopped : SUBSET Adapters, todo : SUBSET Adapters, fresh : SUBSET Procs,
   before : SUBSET Adapters]

TablesOK ==
  /\ record \in [Adapters -> Procs \cup {None}]
  /\ tracked \in [Adapters -> Procs \cup {None}]
  /\ config \in Configs
  /\ leaked \subseteq Procs /\ reported \subseteq Adapters
  /\ unremoved \in BOOLEAN /\ astray \in BOOLEAN

LEMMA TypeOKDef ==
  SupervisorTypeOK <=> process \in [Procs -> ProcessTypes] /\ TablesOK /\ job \in JobTypes
BY DEF SupervisorTypeOK, ProcessTypes, JobTypes, TablesOK

LEMMA GoneIsProcess == Gone \in ProcessTypes
BY DEF Gone, ProcessTypes

LEMMA NoJobIsJob == NoJob \in JobTypes
BY DEF NoJob, JobTypes

LEMMA RollbackIsJob == ASSUME job \in JobTypes PROVE Rollback \in JobTypes
BY DEF Rollback, JobTypes

(* The processes of a step are processes.                                   *)
LEMMA StepKeepsProcesses ==
  ASSUME process \in [Procs -> ProcessTypes], TablesOK, job \in JobTypes, JobShape,
         [Next]_vars
  PROVE  process' \in [Procs -> ProcessTypes]
<1>1. ASSUME NEW p \in Procs, LeaderExits(p) \/ HelpersStart(p) \/ HelpersExit(p) \/ PidIsReused(p)
      PROVE  process' \in [Procs -> ProcessTypes]
  <2>1. Ended(p) \in ProcessTypes
    BY GoneIsProcess DEF Ended, ProcessTypes
  <2>2. CASE LeaderExits(p)
    BY <2>1, <2>2 DEF LeaderExits
  <2>3. CASE HelpersStart(p)
    BY <2>3 DEF HelpersStart, ProcessTypes
  <2>4. CASE HelpersExit(p)
    <3>1. [process[p] EXCEPT !.helpers = FALSE] \in ProcessTypes
      BY DEF ProcessTypes
    <3>2. QED
      BY <2>4, <3>1, GoneIsProcess DEF HelpersExit
  <2>5. CASE PidIsReused(p)
    BY <2>5 DEF PidIsReused, ProcessTypes
  <2>6. QED
    BY <1>1, <2>2, <2>3, <2>4, <2>5
<1>2. ASSUME NEW cleaned, NEW hs, Signalled(hs, cleaned)
      PROVE  process' \in [Procs -> ProcessTypes]
  BY <1>2, GoneIsProcess DEF Signalled
<1>3. CASE \/ \E a \in Adapters : StopTracked(a) \/ StopForReload(a)
           \/ RefreshTextAdapters \/ StopPrestarted
  BY <1>2, <1>3 DEF StopTracked, StopForReload, RefreshTextAdapters, StopPrestarted
<1>4. CASE PrepareSlot
  <2>1. job.adapter \in Adapters /\ Definition(job.adapter) \in Versions \cup {None}
    BY <1>4 DEF PrepareSlot, JobShape, Starting, JobTypes, TablesOK, Configs, Definition
  <2>2. [adapter |-> job.adapter, version |-> Definition(job.adapter), leader |-> "running",
         helpers |-> FALSE, child |-> TRUE] \in ProcessTypes
    BY <2>1 DEF ProcessTypes
  <2>3. QED
    BY <1>4, <2>2 DEF PrepareSlot
<1>5. CASE Probe
  BY <1>5, GoneIsProcess DEF Probe
<1>6. CASE KillRecorded
  <2>1. ASSUME NEW r \in Procs PROVE Killed(r) \in ProcessTypes
    BY GoneIsProcess DEF Killed, ProcessTypes
  <2>2. QED
    BY <1>6, <2>1 DEF KillRecorded
<1>7. ASSUME NEW ps \in [Procs -> ProcessTypes]
      PROVE  Orphaned(ps) \in [Procs -> ProcessTypes]
  <2>1. ASSUME NEW p \in Procs
        PROVE  /\ [ps[p] EXCEPT !.child = FALSE] \in ProcessTypes
               /\ [ps[p] EXCEPT !.child = FALSE, !.leader = "gone"] \in ProcessTypes
    BY DEF ProcessTypes
  <2>2. QED
    BY <2>1, GoneIsProcess DEF Orphaned
<1>8. CASE Crash
  BY <1>7, <1>8 DEF Crash
<1>9. CASE Exit
  <2>1. PICK cleaned : process' = Orphaned([p \in Procs |-> IF p \in cleaned THEN Gone ELSE process[p]])
    BY <1>9 DEF Exit
  <2>2. [p \in Procs |-> IF p \in cleaned THEN Gone ELSE process[p]] \in [Procs -> ProcessTypes]
    BY GoneIsProcess
  <2>3. QED
    BY <1>7, <2>1, <2>2
<1>10. CASE UNCHANGED process
  BY <1>10
<1>11. QED
  BY <1>1, <1>3, <1>4, <1>5, <1>6, <1>8, <1>9, <1>10
     DEF Next, Environment, Calls, Steps, StartTextAdapter, StopUntracked, Reconcile, CheckRecord,
         AwaitRecord, StopUntrackedForReload, StartNext, AllStopped, Publish, GiveUp, vars

(* The jobs of a step are jobs.                                             *)
LEMMA StepKeepsJobs ==
  ASSUME job \in JobTypes, JobShape, ProbeIsHeld, [Next]_vars
  PROVE  job' \in JobTypes
<1> USE NoJobIsJob, RollbackIsJob
<1>1. ASSUME NEW ok \in BOOLEAN, Started(ok), job.adapter \in Adapters,
             job.call = "replace" /\ ok => job.proc \in Procs
      PROVE  job' \in JobTypes
  <2>1. CASE StartReturns(ok)
    BY <2>1 DEF StartReturns
  <2>2. CASE ReplacementReturns(ok)
    <3>1. CASE ok
      BY <1>1, <2>2, <3>1 DEF ReplacementReturns, JobTypes
    <3>2. CASE ~ok
      BY <1>1, <2>2, <3>2 DEF ReplacementReturns, JobTypes
    <3>3. QED
      BY <3>1, <3>2
  <2>3. CASE RestorationReturns(ok)
    BY <1>1, <2>3 DEF RestorationReturns, JobTypes
  <2>4. QED
    BY <1>1, <2>1, <2>2, <2>3 DEF Started
<1>2. ASSUME NEW outcome, UntrackedStopped(outcome), job.adapter \in Adapters
      PROVE  job' \in JobTypes
  <2>1. CASE job.call = "stopping"
    <3> DEFINE next(s) == [job EXCEPT !.step = "reload", !.adapter = None,
                                      !.plans = @ \ {job.adapter}, !.stopped = s]
    <3>1. ASSUME NEW s \in SUBSET Adapters PROVE next(s) \in JobTypes
      BY <1>2 DEF JobTypes
    <3>2. job.stopped \in SUBSET Adapters /\ job.stopped \cup {job.adapter} \in SUBSET Adapters
      BY <1>2 DEF JobTypes
    <3>3. job' \in {Rollback, next(job.stopped), next(job.stopped \cup {job.adapter})}
      BY <1>2, <2>1 DEF UntrackedStopped, JobTypes
    <3> HIDE DEF next
    <3>4. QED
      BY <3>1, <3>2, <3>3
  <2>2. QED
    BY <1>2, <2>1 DEF UntrackedStopped
<1>3. CASE PrepareSlot
  <2>1. job.adapter \in Adapters
    BY <1>3 DEF PrepareSlot, JobShape, Starting
  <2>2. CASE Started(FALSE)
    BY <1>1, <2>1, <2>2
  <2>3. CASE \E p \in Procs : job' = [job EXCEPT !.step = "probe", !.proc = p]
    BY <2>3 DEF JobTypes
  <2>4. QED
    BY <1>3, <2>2, <2>3 DEF PrepareSlot
<1>4. CASE Probe
  BY <1>1, <1>4 DEF Probe, JobShape, Starting, ProbeIsHeld
<1>5. CASE CheckRecord \/ AwaitRecord \/ KillRecorded
  <2>1. job.adapter \in Adapters
    BY <1>5 DEF CheckRecord, AwaitRecord, KillRecorded, JobShape, Stopping
  <2>2. CASE \E outcome \in {"notRunning", "stopped", "error"} : UntrackedStopped(outcome)
    BY <1>2, <2>1, <2>2
  <2>3. CASE \E step \in {"terminated", "killed"} : job' = [job EXCEPT !.step = step]
    BY <2>3 DEF JobTypes
  <2>4. QED
    BY <1>5, <2>2, <2>3 DEF CheckRecord, AwaitRecord, KillRecorded, RemoveRecordThen
<1>6. ASSUME NEW a \in Adapters, \/ StartTextAdapter(a) \/ StopUntracked(a) \/ StopForReload(a)
                                 \/ StopUntrackedForReload(a) \/ StartNext(a)
      PROVE  job' \in JobTypes
  <2>1. CASE StartTextAdapter(a) \/ StopUntracked(a)
    <3>1. PICK step \in {"slot", "check"}, call \in {"start", "stop"} :
            job' = [NoJob EXCEPT !.step = step, !.call = call, !.adapter = a]
      BY <2>1 DEF StartTextAdapter, StopUntracked
    <3>2. QED
      BY <3>1 DEF JobTypes, NoJob
  <2>2. CASE StopForReload(a)
    <3>1. job' \in {Rollback, [job EXCEPT !.plans = @ \ {a}, !.stopped = @ \cup {a}]}
      BY <2>2 DEF StopForReload
    <3>2. [job EXCEPT !.plans = @ \ {a}, !.stopped = @ \cup {a}] \in JobTypes
      BY DEF JobTypes
    <3>3. QED
      BY <3>1, <3>2
  <2>3. CASE StopUntrackedForReload(a) \/ StartNext(a)
    BY <2>3 DEF StopUntrackedForReload, StartNext, JobTypes
  <2>4. QED
    BY <1>6, <2>1, <2>2, <2>3
<1>7. ASSUME NEW next \in Configs, Reconcile(next)
      PROVE  job' \in JobTypes
  BY <1>7 DEF Reconcile, Configs, JobTypes, NoJob
<1>8. CASE AllStopped
  BY <1>8 DEF AllStopped, JobTypes
<1>9. CASE Publish \/ StopPrestarted \/ GiveUp \/ Crash \/ Exit
  BY <1>9 DEF Publish, StopPrestarted, GiveUp, Crash, Exit, Restarted
<1>10. CASE UNCHANGED job
  BY <1>10
<1>11. QED
  BY <1>3, <1>4, <1>5, <1>6, <1>7, <1>8, <1>9, <1>10
     DEF Next, Environment, Calls, Steps, LeaderExits, HelpersStart, HelpersExit, PidIsReused,
         StopTracked, RefreshTextAdapters, vars

(* StopPrestarted, for the replacements it cleaned and those whose record   *)
(* it removed as well.                                                      *)
BelongTo(a, ps) == \E p \in ps : process[p].adapter = a

PrestartedStop(cleaned, removed) ==
  LET kept == job.fresh \ removed IN
  /\ removed \subseteq cleaned
  /\ Signalled(job.fresh, cleaned)
  /\ record' = [a \in Adapters |-> IF BelongTo(a, removed) THEN None ELSE record[a]]
  /\ tracked' = [a \in Adapters |->
       IF BelongTo(a, kept) THEN CHOOSE p \in kept : process[p].adapter = a ELSE tracked[a]]
  /\ reported' = reported \cup {a \in Adapters : BelongTo(a, kept)}
  /\ unremoved' = (unremoved \/ cleaned # removed)

LEMMA PrestartedAreStopped ==
  ASSUME StopPrestarted
  PROVE  \E cleaned, removed \in SUBSET job.fresh : PrestartedStop(cleaned, removed)
<1>1. PICK cleaned \in SUBSET job.fresh : \E removed \in SUBSET cleaned :
        PrestartedStop(cleaned, removed)
  BY DEF StopPrestarted, PrestartedStop, BelongTo
<1>2. PICK removed \in SUBSET cleaned : PrestartedStop(cleaned, removed)
  BY <1>1
<1>3. QED
  BY <1>2

(* The tables of a step are tables.                                         *)
LEMMA StepKeepsTables ==
  ASSUME SupervisorTypeOK, JobShape, ProbeIsHeld, [Next]_vars
  PROVE  TablesOK'
<1> USE DEF history
<1>1. process \in [Procs -> ProcessTypes] /\ TablesOK /\ job \in JobTypes
  BY TypeOKDef
<1>2. ASSUME NEW hs, NEW cleaned, Signalled(hs, cleaned)
      PROVE  astray' \in BOOLEAN
  BY <1>1, <1>2 DEF Signalled, TablesOK
<1>3. ASSUME NEW ok \in BOOLEAN, Started(ok), job.adapter \in Adapters,
             ok => job.proc \in Procs
      PROVE  tracked' \in [Adapters -> Procs \cup {None}] /\ reported' \subseteq Adapters
  BY <1>1, <1>3 DEF Started, StartReturns, ReplacementReturns, RestorationReturns, TablesOK
<1>4. CASE \/ Environment
           \/ \E a \in Adapters : \/ StartTextAdapter(a) \/ StopUntracked(a)
                                  \/ StopUntrackedForReload(a) \/ StartNext(a)
           \/ \E next \in Configs : Reconcile(next)
           \/ KillRecorded \/ AllStopped \/ GiveUp \/ UNCHANGED vars
  <2>1. UNCHANGED <<record, config, tracked, history>>
    BY <1>4 DEF Environment, LeaderExits, HelpersStart, HelpersExit, PidIsReused,
       StartTextAdapter, StopUntracked, StopUntrackedForReload, StartNext, Reconcile,
       KillRecorded, AllStopped, GiveUp, vars
  <2>2. QED
    BY <1>1, <2>1 DEF TablesOK
<1>5. CASE PrepareSlot
  <2>1. job.adapter \in Adapters
    BY <1>5 DEF PrepareSlot, JobShape, Starting
  <2>2. record' \in [Adapters -> Procs \cup {None}]
    BY <1>1, <1>5 DEF PrepareSlot, TablesOK
  <2>3. tracked' \in [Adapters -> Procs \cup {None}] /\ reported' \subseteq Adapters
    <3>1. CASE UNCHANGED <<tracked, reported>>
      BY <1>1, <3>1 DEF TablesOK
    <3>2. CASE Started(FALSE)
      BY <1>3, <2>1, <3>2
    <3>3. QED
      BY <1>5, <3>1, <3>2 DEF PrepareSlot
  <2>4. UNCHANGED <<config, unremoved, astray>> /\ leaked' \subseteq leaked
    BY <1>5 DEF PrepareSlot
  <2>5. QED
    BY <1>1, <2>2, <2>3, <2>4 DEF TablesOK
<1>6. CASE Probe
  <2>1. job.adapter \in Adapters /\ job.proc \in Procs
    BY <1>6 DEF Probe, JobShape, Starting, ProbeIsHeld
  <2>2. record' \in [Adapters -> Procs \cup {None}] /\ leaked' \subseteq Procs
    BY <1>1, <1>6, <2>1 DEF Probe, TablesOK
  <2>3. tracked' \in [Adapters -> Procs \cup {None}] /\ reported' \subseteq Adapters
    BY <1>3, <1>6, <2>1 DEF Probe
  <2>4. UNCHANGED <<config, unremoved, astray>>
    BY <1>6 DEF Probe
  <2>5. QED
    BY <1>1, <2>2, <2>3, <2>4 DEF TablesOK
<1>7. CASE CheckRecord \/ AwaitRecord
  <2>1. UNCHANGED <<config, tracked, history>>
    BY <1>7 DEF CheckRecord, AwaitRecord
  <2>2. record' \in {record, [record EXCEPT ![job.adapter] = None]}
    BY <1>7 DEF CheckRecord, AwaitRecord, RemoveRecordThen
  <2>3. QED
    BY <1>1, <2>1, <2>2 DEF TablesOK
<1>8. ASSUME NEW a \in Adapters, StopTracked(a)
      PROVE  TablesOK'
  BY <1>1, <1>2, <1>8 DEF StopTracked, TablesOK
<1>9. CASE RefreshTextAdapters
  BY <1>1, <1>2, <1>9 DEF RefreshTextAdapters, TablesOK
<1>10. ASSUME NEW a \in Adapters, StopForReload(a)
       PROVE  TablesOK'
  BY <1>1, <1>2, <1>10 DEF StopForReload, TablesOK
<1>11. CASE Publish
  <2>1. config' \in Configs
    BY <1>1, <1>11 DEF Publish, JobTypes, Configs
  <2>2. tracked' \in [Adapters -> Procs \cup {None}]
    BY <1>1, <1>11 DEF Publish, JobTypes, TablesOK
  <2>3. UNCHANGED <<record, leaked, unremoved, astray>> /\ reported' \subseteq reported
    BY <1>11 DEF Publish
  <2>4. QED
    BY <1>1, <2>1, <2>2, <2>3 DEF TablesOK
<1>12. CASE StopPrestarted
  <2>1. PICK cleaned \in SUBSET job.fresh, removed \in SUBSET job.fresh :
          PrestartedStop(cleaned, removed)
    BY <1>12, PrestartedAreStopped
  <2>2. UNCHANGED <<config, leaked>>
    BY <1>12 DEF StopPrestarted
  <2>3. astray' \in BOOLEAN /\ unremoved' \in BOOLEAN /\ reported' \subseteq Adapters
    BY <1>1, <1>2, <2>1 DEF PrestartedStop, TablesOK
  <2>4. tracked' \in [Adapters -> Procs \cup {None}]
    BY <1>1, <2>1 DEF PrestartedStop, BelongTo, TablesOK, JobTypes
  <2>5. record' \in [Adapters -> Procs \cup {None}]
    BY <1>1, <2>1 DEF PrestartedStop, TablesOK
  <2>6. QED
    BY <1>1, <2>2, <2>3, <2>4, <2>5 DEF TablesOK
<1>13. ASSUME Restarted
       PROVE  config' \in Configs /\ tracked' \in [Adapters -> Procs \cup {None}]
  BY <1>1, <1>13 DEF Restarted, TablesOK, JobTypes, Configs
<1>14. CASE Crash
  <2>1. leaked' \subseteq Procs
    BY <1>1, <1>14 DEF Crash, ProbeIsHeld, TablesOK
  <2>2. UNCHANGED <<record, unremoved, astray>> /\ reported' = {}
    BY <1>14 DEF Crash, Restarted
  <2>3. QED
    BY <1>1, <1>13, <1>14, <2>1, <2>2 DEF TablesOK, Crash
<1>15. CASE Exit
  <2>1. record' \in [Adapters -> Procs \cup {None}]
    BY <1>1, <1>15 DEF Exit, TablesOK
  <2>2. UNCHANGED <<leaked, unremoved>> /\ reported' = {} /\ astray' \in BOOLEAN
    BY <1>1, <1>15 DEF Exit, Restarted, TablesOK
  <2>3. QED
    BY <1>1, <1>13, <1>15, <2>1, <2>2 DEF TablesOK, Exit
<1>16. QED
  BY <1>4, <1>5, <1>6, <1>7, <1>8, <1>9, <1>10, <1>11, <1>12, <1>14, <1>15
     DEF Next, Calls, Steps

LEMMA StepKeepsTypes ==
  ASSUME SupervisorTypeOK, JobShape, ProbeIsHeld, [Next]_vars
  PROVE  SupervisorTypeOK'
<1>1. process \in [Procs -> ProcessTypes] /\ TablesOK /\ job \in JobTypes
  BY TypeOKDef
<1>2. process' \in [Procs -> ProcessTypes] /\ TablesOK' /\ job' \in JobTypes
  BY <1>1, StepKeepsProcesses, StepKeepsTables, StepKeepsJobs
<1>3. QED
  BY <1>2 DEF SupervisorTypeOK, ProcessTypes, JobTypes, TablesOK

-----------------------------------------------------------------------------
(* The call under way.  Between calls nothing is under way.                 *)
LEMMA NoJobIsShaped ==
  ASSUME job' = NoJob
  PROVE  JobShape' /\ ReloadShape' /\ ProbeIsHeld' /\ FreshAreHeld' /\ ReloadLosesNobody'
BY DEF NoJob, JobShape, AtRest, Starting, Stopping, ReloadShape, ProbeIsHeld, FreshAreHeld,
       ReloadLosesNobody

LEMMA RollbackIsShaped ==
  ASSUME SupervisorTypeOK, ReloadShape, job.proc = None, job' = Rollback, UNCHANGED config
  PROVE  JobShape' /\ ReloadShape' /\ ProbeIsHeld' /\ FreshAreHeld'
<1>1. job \in JobTypes
  BY TypeOKDef
<1>2. /\ job'.step = "reload" /\ job'.call = "restore" /\ job'.proc = None
      /\ job'.plans = {} /\ job'.fresh = {} /\ job'.todo = job.stopped
      /\ job'.stopped = job.stopped /\ job'.next = job.next
  BY <1>1 DEF Rollback, JobTypes
<1>3. QED
  BY <1>2 DEF JobShape, AtRest, Starting, Stopping, ReloadShape, ProbeIsHeld, FreshAreHeld, Changed

(* What the callers of start_adapter_process make of its result.            *)
LEMMA StartedIsShaped ==
  ASSUME SupervisorTypeOK, JobShape, ReloadShape, Starting, UNCHANGED config,
         NEW ok \in BOOLEAN, Started(ok), ok => job.proc \in Procs
  PROVE  JobShape' /\ ReloadShape' /\ ProbeIsHeld'
<1>1. job \in JobTypes
  BY TypeOKDef
<1>2. CASE StartReturns(ok)
  BY <1>2, NoJobIsShaped DEF StartReturns
<1>3. CASE ReplacementReturns(ok)
  <2>1. /\ job'.step = "reload" /\ job'.call \in {"replace", "undo"} /\ job'.proc = None
        /\ job'.plans = job.plans /\ job'.todo = job.todo \ {job.adapter}
        /\ job'.stopped = job.stopped /\ job'.next = job.next
    BY <1>1, <1>3 DEF ReplacementReturns, JobTypes
  <2>2. job.call = "replace" /\ UNCHANGED tracked
    BY <1>3 DEF ReplacementReturns
  <2>3. QED
    BY <2>1, <2>2
       DEF JobShape, AtRest, Starting, Stopping, ReloadShape, ProbeIsHeld, Changed
<1>4. CASE RestorationReturns(ok)
  <2>1. /\ job'.step = "reload" /\ job'.call = "restore" /\ job'.proc = None
        /\ job'.plans = job.plans /\ job'.todo = job.todo \ {job.adapter}
        /\ job'.stopped = job.stopped /\ job'.next = job.next /\ job'.fresh = job.fresh
    BY <1>1, <1>4 DEF RestorationReturns, JobTypes
  <2>2. job.call = "restore"
    BY <1>4 DEF RestorationReturns
  <2>3. QED
    BY <2>1, <2>2
       DEF JobShape, AtRest, Starting, Stopping, ReloadShape, ProbeIsHeld, Changed
<1>5. QED
  BY <1>2, <1>3, <1>4 DEF Started

LEMMA StoppedIsShaped ==
  ASSUME SupervisorTypeOK, JobShape, ReloadShape, Stopping, UNCHANGED <<config, tracked>>,
         NEW outcome, UntrackedStopped(outcome)
  PROVE  JobShape' /\ ReloadShape' /\ ProbeIsHeld'
<1>1. job \in JobTypes
  BY TypeOKDef
<1>2. job.proc = None /\ job.adapter \in Adapters /\ tracked[job.adapter] = None
  BY DEF Stopping, JobShape
<1>3. CASE job' = NoJob
  BY <1>3, NoJobIsShaped
<1>4. CASE job' = Rollback
  BY <1>2, <1>4, RollbackIsShaped
<1>5. CASE job.call = "stopping" /\ job' # Rollback
  <2>1. /\ job'.step = "reload" /\ job'.call = "stopping" /\ job'.proc = None
        /\ job'.plans = job.plans \ {job.adapter} /\ job'.todo = job.todo
        /\ job'.stopped \subseteq job.stopped \cup {job.adapter} /\ job'.next = job.next
        /\ job'.fresh = job.fresh
    BY <1>1, <1>2, <1>5 DEF UntrackedStopped, JobTypes
  <2>2. QED
    BY <1>2, <1>5, <2>1
       DEF JobShape, AtRest, Starting, Stopping, ReloadShape, ProbeIsHeld, Changed
<1>6. QED
  BY <1>3, <1>4, <1>5 DEF UntrackedStopped

LEMMA StepKeepsShapes ==
  ASSUME SupervisorInv, [Next]_vars
  PROVE  JobShape' /\ ReloadShape'
<1> USE DEF AtRest, Stage
<1>1. /\ SupervisorTypeOK /\ JobShape /\ ReloadShape /\ ProbeIsHeld
      /\ job \in JobTypes /\ TablesOK
  BY TypeOKDef DEF SupervisorInv
<1>2. CASE job' = NoJob
  BY <1>2, NoJobIsShaped
<1>3. ASSUME UNCHANGED <<job, config>>, tracked' = tracked \/ AtRest
      PROVE  JobShape' /\ ReloadShape'
  <2>1. CASE AtRest
    BY <1>1, <1>2, <1>3, <2>1 DEF JobShape
  <2>2. CASE ~AtRest
    BY <1>1, <1>3, <2>2 DEF JobShape, Starting, Stopping, ReloadShape, Changed
  <2>3. QED
    BY <2>1, <2>2
<1>4. ASSUME NEW a \in Adapters, StartTextAdapter(a) \/ StopUntracked(a)
      PROVE  JobShape' /\ ReloadShape'
  <2>1. PICK step \in {"slot", "check"}, call \in {"start", "stop"} :
          /\ job' = [NoJob EXCEPT !.step = step, !.call = call, !.adapter = a]
          /\ step = "slot" <=> call = "start"
    BY <1>4 DEF StartTextAdapter, StopUntracked
  <2>2. /\ job'.step = step /\ job'.call = call /\ job'.adapter = a /\ job'.proc = None
        /\ job'.plans = {} /\ job'.todo = {} /\ job'.stopped = {} /\ job'.fresh = {}
    BY <2>1 DEF NoJob
  <2>3. config[a] # None /\ UNCHANGED <<config, tracked>> /\ (call = "stop" => tracked[a] = None)
    BY <1>4, <2>1 DEF StartTextAdapter, StopUntracked
  <2>4. QED
    BY <2>1, <2>2, <2>3 DEF JobShape, Starting, Stopping, ReloadShape
<1>5. ASSUME NEW next \in Configs, Reconcile(next)
      PROVE  JobShape' /\ ReloadShape'
  <2>1. /\ job'.step = "reload" /\ job'.call = "stopping" /\ job'.proc = None
        /\ job'.plans = {a \in Adapters : config[a] # None /\ next[a] # config[a]}
        /\ job'.todo = {} /\ job'.stopped = {} /\ job'.fresh = {} /\ job'.next = next
    BY <1>5 DEF Reconcile, NoJob
  <2>2. UNCHANGED <<config, tracked>>
    BY <1>5 DEF Reconcile
  <2>3. QED
    BY <2>1, <2>2 DEF JobShape, Starting, Stopping, ReloadShape, Changed
<1>6. ASSUME NEW a \in Adapters, StopUntrackedForReload(a)
      PROVE  JobShape' /\ ReloadShape'
  <2>1. /\ job'.step = "check" /\ job'.call = "stopping" /\ job'.proc = job.proc
        /\ job'.adapter = a /\ job'.plans = job.plans /\ job'.todo = job.todo
        /\ job'.stopped = job.stopped /\ job'.fresh = job.fresh /\ job'.next = job.next
    BY <1>1, <1>6 DEF StopUntrackedForReload, JobTypes
  <2>2. UNCHANGED <<config, tracked>> /\ tracked[a] = None /\ a \in job.plans /\ Stage("stopping")
    BY <1>6 DEF StopUntrackedForReload
  <2>3. QED
    BY <1>1, <2>1, <2>2 DEF JobShape, Starting, Stopping, ReloadShape, Changed
<1>7. ASSUME NEW a \in Adapters, StartNext(a)
      PROVE  JobShape' /\ ReloadShape'
  <2>1. /\ job'.step = "slot" /\ job'.call = job.call /\ job'.proc = job.proc
        /\ job'.adapter = a /\ job'.plans = job.plans /\ job'.todo = job.todo
        /\ job'.stopped = job.stopped /\ job'.fresh = job.fresh /\ job'.next = job.next
    BY <1>1, <1>7 DEF StartNext, JobTypes
  <2>2. /\ UNCHANGED <<config, tracked>> /\ a \in job.todo
        /\ Stage("replace") \/ Stage("restore")
    BY <1>7 DEF StartNext
  <2>3. QED
    BY <1>1, <2>1, <2>2 DEF JobShape, Starting, Stopping, ReloadShape, Changed
<1>8. CASE AllStopped
  <2>1. /\ job'.step = "reload" /\ job'.call = "replace" /\ job'.proc = job.proc
        /\ job'.plans = job.plans /\ job'.todo = {a \in job.stopped : job.next[a] # None}
        /\ job'.stopped = job.stopped /\ job'.fresh = job.fresh /\ job'.next = job.next
    BY <1>1, <1>8 DEF AllStopped, JobTypes
  <2>2. UNCHANGED <<config, tracked>> /\ job.plans = {} /\ Stage("stopping")
    BY <1>8 DEF AllStopped
  <2>3. QED
    BY <1>1, <2>1, <2>2 DEF JobShape, Starting, Stopping, ReloadShape, Changed
<1>9. CASE PrepareSlot
  <2>1. UNCHANGED config /\ Starting
    BY <1>9 DEF PrepareSlot, Starting
  <2>2. CASE Started(FALSE)
    BY <1>1, <2>1, <2>2, StartedIsShaped
  <2>3. CASE UNCHANGED tracked /\ \E p \in Procs : job' = [job EXCEPT !.step = "probe", !.proc = p]
    <3>1. /\ job'.step = "probe" /\ job'.call = job.call /\ job'.adapter = job.adapter
          /\ job'.plans = job.plans /\ job'.todo = job.todo
          /\ job'.stopped = job.stopped /\ job'.fresh = job.fresh /\ job'.next = job.next
      BY <1>1, <2>3 DEF JobTypes
    <3>2. QED
      BY <1>1, <2>1, <2>3, <3>1 DEF JobShape, Starting, Stopping, ReloadShape, Changed
  <2>4. QED
    BY <1>9, <2>2, <2>3 DEF PrepareSlot
<1>10. CASE Probe
  <2>1. UNCHANGED config /\ Starting /\ job.proc \in Procs
    BY <1>1, <1>10 DEF Probe, Starting, ProbeIsHeld
  <2>2. QED
    BY <1>1, <1>10, <2>1, StartedIsShaped DEF Probe
<1>11. CASE CheckRecord \/ AwaitRecord \/ KillRecorded
  <2>1. UNCHANGED <<config, tracked>> /\ Stopping
    BY <1>11 DEF CheckRecord, AwaitRecord, KillRecorded, Stopping
  <2>2. CASE \E outcome \in {"notRunning", "stopped", "error"} : UntrackedStopped(outcome)
    BY <1>1, <2>1, <2>2, StoppedIsShaped
  <2>3. CASE \E step \in {"terminated", "killed"} : job' = [job EXCEPT !.step = step]
    <3>1. PICK step \in {"terminated", "killed"} : job' = [job EXCEPT !.step = step]
      BY <2>3
    <3>2. /\ job'.step = step /\ job'.call = job.call /\ job'.adapter = job.adapter
          /\ job'.proc = job.proc /\ job'.plans = job.plans /\ job'.todo = job.todo
          /\ job'.stopped = job.stopped /\ job'.fresh = job.fresh /\ job'.next = job.next
      BY <1>1, <3>1 DEF JobTypes
    <3>3. QED
      BY <1>1, <2>1, <3>2 DEF JobShape, Starting, Stopping, ReloadShape, Changed
  <2>4. QED
    BY <1>11, <2>2, <2>3 DEF CheckRecord, AwaitRecord, KillRecorded, RemoveRecordThen
<1>12. CASE job' = Rollback /\ UNCHANGED config /\ job.step = "reload"
  BY <1>1, <1>12, RollbackIsShaped DEF JobShape
<1>13. ASSUME NEW a \in Adapters, StopForReload(a), job' # Rollback
       PROVE  JobShape' /\ ReloadShape'
  <2>1. /\ tracked' = [tracked EXCEPT ![a] = None] /\ UNCHANGED config
        /\ job' = [job EXCEPT !.plans = @ \ {a}, !.stopped = @ \cup {a}]
        /\ Stage("stopping") /\ a \in job.plans
    BY <1>13 DEF StopForReload
  <2>2. /\ job'.step = job.step /\ job'.call = job.call /\ job'.adapter = job.adapter
        /\ job'.proc = job.proc /\ job'.plans = job.plans \ {a} /\ job'.todo = job.todo
        /\ job'.stopped = job.stopped \cup {a} /\ job'.fresh = job.fresh
        /\ job'.next = job.next
    BY <1>1, <2>1 DEF JobTypes
  <2>3. QED
    BY <1>1, <2>1, <2>2 DEF JobShape, Starting, Stopping, ReloadShape, Changed, TablesOK
<1>14. CASE (\E a \in Adapters : StopForReload(a)) \/ StopPrestarted
  BY <1>12, <1>13, <1>14 DEF StopForReload, StopPrestarted
<1>15. CASE Environment \/ (\E a \in Adapters : StopTracked(a)) \/ RefreshTextAdapters
            \/ UNCHANGED vars
  BY <1>3, <1>15 DEF Environment, LeaderExits, HelpersStart, HelpersExit, PidIsReused,
                     StopTracked, RefreshTextAdapters, vars
<1>16. CASE Publish \/ GiveUp \/ Crash \/ Exit
  BY <1>2, <1>16 DEF Publish, GiveUp, Crash, Exit, Restarted
<1>17. QED
  BY <1>4, <1>5, <1>6, <1>7, <1>8, <1>9, <1>10, <1>11, <1>14, <1>15, <1>16
     DEF Next, Calls, Steps

-----------------------------------------------------------------------------
(* What the system does to processes: a process the daemon has not reaped   *)
(* stays the same one, and none starts to run.                              *)
Drifts ==
  \A p \in Procs :
    /\ Held(p) => Held(p)'
    /\ Alive(p)' => Alive(p)
    /\ Running(p)' => Running(p)
    /\ Held(p) \/ Alive(p)' => /\ process'[p].adapter = process[p].adapter
                               /\ process'[p].version = process[p].version
    /\ Reused(p)' => ~Held(p)

LEMMA EnvironmentDrifts ==
  ASSUME SupervisorTypeOK, ReusedIsAlone, Environment \/ KillRecorded
  PROVE  Drifts
<1> USE DEF Held, Alive, Running, Reused
<1>1. process \in [Procs -> ProcessTypes]
  BY TypeOKDef
<1>2. CASE Environment
  <2>1. PICK p \in Procs : LeaderExits(p) \/ HelpersStart(p) \/ HelpersExit(p) \/ PidIsReused(p)
    BY <1>2 DEF Environment
  <2>2. CASE LeaderExits(p)
    <3>1. \/ Ended(p) = [process[p] EXCEPT !.leader = "zombie"]
          \/ ~process[p].child /\ Ended(p) = [process[p] EXCEPT !.leader = "gone"]
          \/ ~process[p].child /\ Ended(p) = Gone
      BY <1>1, <2>2 DEF LeaderExits, Ended, ProcessTypes
    <3>2. process' = [process EXCEPT ![p] = Ended(p)] /\ Running(p)
      BY <2>2 DEF LeaderExits
    <3>3. QED
      BY <1>1, <3>1, <3>2 DEF Gone, ProcessTypes, Drifts
  <2>3. CASE HelpersStart(p)
    BY <1>1, <2>3 DEF HelpersStart, ProcessTypes, Drifts
  <2>4. CASE HelpersExit(p)
    BY <1>1, <2>4 DEF HelpersExit, Gone, ProcessTypes, Drifts
  <2>5. CASE PidIsReused(p)
    BY <1>1, <2>5 DEF PidIsReused, Exists, ProcessTypes, Drifts
  <2>6. QED
    BY <2>1, <2>2, <2>3, <2>4, <2>5
<1>3. CASE KillRecorded
  <2> DEFINE r == record[job.adapter]
  <2>1. process' = [process EXCEPT ![r] = Killed(r)] \/ UNCHANGED process
    BY <1>3 DEF KillRecorded
  <2>2. CASE UNCHANGED process
    BY <1>1, <2>2 DEF ProcessTypes, Drifts
  <2>3. CASE r \in Procs /\ process' = [process EXCEPT ![r] = Killed(r)]
    <3>1. Exists(r)
      BY <1>3 DEF KillRecorded
    <3>2. CASE process[r].leader # "gone" /\ process[r].child
      BY <1>1, <2>3, <3>1, <3>2 DEF Killed, Exists, ReusedIsAlone, ProcessTypes, Drifts
    <3>3. CASE ~(process[r].leader # "gone" /\ process[r].child)
      BY <1>1, <2>3, <3>3 DEF Killed, Gone, ProcessTypes, Drifts
    <3>4. QED
      BY <3>2, <3>3
  <2>4. QED
    BY <1>1, <2>1, <2>2, <2>3
<1>4. QED
  BY <1>2, <1>3

LEMMA EnvironmentFrame ==
  ASSUME Environment
  PROVE  UNCHANGED <<record, config, tracked, job, leaked, reported, unremoved, astray>>
BY DEF Environment, LeaderExits, HelpersStart, HelpersExit, PidIsReused, history

(* A process is spawned where there was none, and nothing referred to it.   *)
Spawned(p) ==
  /\ record' = [record EXCEPT ![job.adapter] = None]
  /\ record[job.adapter] = None \/ ~Running(record[job.adapter])
  /\ ~Exists(p) /\ ~Referenced(p)
  /\ process' = [process EXCEPT ![p] =
       [adapter |-> job.adapter, version |-> Definition(job.adapter), leader |-> "running",
        helpers |-> FALSE, child |-> TRUE]]
  /\ job' = [job EXCEPT !.step = "probe", !.proc = p]
  /\ leaked' = leaked \ {p}
  /\ UNCHANGED <<tracked, reported, config, unremoved, astray>>

NotSpawned ==
  /\ Started(FALSE)
  /\ record' = record \/ /\ record' = [record EXCEPT ![job.adapter] = None]
                         /\ record[job.adapter] = None \/ ~Running(record[job.adapter])
  /\ UNCHANGED <<process, leaked, config, unremoved, astray>>

LEMMA SlotIsPrepared ==
  ASSUME PrepareSlot
  PROVE  job.step = "slot" /\ (NotSpawned \/ \E p \in Procs : Spawned(p))
<1>1. CASE \E p \in Procs : Spawned(p)
  BY <1>1 DEF PrepareSlot
<1>2. CASE ~\E p \in Procs : Spawned(p)
  <2> DEFINE r    == record[job.adapter]
             free == IF r = None THEN TRUE ELSE RecordState(r) # "running"
  <2>1. free => r = None \/ ~Running(r)
    BY DEF RecordState, Running, Reused
  <2>2. ASSUME NEW p \in Procs, free, record' = [record EXCEPT ![job.adapter] = None],
               ~Exists(p), ~Referenced(p),
               process' = [process EXCEPT ![p] =
                 [adapter |-> job.adapter, version |-> Definition(job.adapter),
                  leader |-> "running", helpers |-> FALSE, child |-> TRUE]],
               job' = [job EXCEPT !.step = "probe", !.proc = p],
               leaked' = leaked \ {p},
               UNCHANGED <<tracked, reported, config, unremoved, astray>>
        PROVE  FALSE
    BY <1>2, <2>1, <2>2 DEF Spawned
  <2>3. /\ record' \in {record} \cup IF free THEN {[record EXCEPT ![job.adapter] = None]} ELSE {}
        /\ Started(FALSE)
        /\ UNCHANGED <<process, leaked, config, unremoved, astray>>
    BY <2>2 DEF PrepareSlot
  <2>4. QED
    BY <2>1, <2>3 DEF NotSpawned, PrepareSlot
<1>3. QED
  BY <1>1, <1>2

(* The other process of a step is that of the start that is watched.        *)
LEMMA OnlyStartsProbe ==
  ASSUME SupervisorInv, [Next]_vars, job'.step = "probe"
  PROVE  (job.step = "probe" /\ UNCHANGED job /\ (Environment \/ UNCHANGED vars))
         \/ PrepareSlot
<1> USE DEF AtRest, Stage
<1>1. /\ SupervisorTypeOK /\ JobShape /\ ReloadShape /\ ProbeIsHeld
      /\ job \in JobTypes
  BY TypeOKDef DEF SupervisorInv
<1>2. CASE Environment \/ UNCHANGED vars
  BY <1>2, EnvironmentFrame DEF vars
<1>3. NoJob.step = "none" /\ Rollback.step = "reload"
  BY <1>1 DEF NoJob, Rollback, JobTypes
<1>4. ASSUME \E a \in Adapters : \/ StartTextAdapter(a) \/ StopUntracked(a)
                                 \/ StopUntrackedForReload(a) \/ StartNext(a)
      PROVE  FALSE
  BY <1>1, <1>4 DEF StartTextAdapter, StopUntracked, StopUntrackedForReload, StartNext, NoJob,
     JobTypes
<1>5. ASSUME (\E a \in Adapters : StopTracked(a)) \/ RefreshTextAdapters
      PROVE  FALSE
  BY <1>1, <1>5 DEF StopTracked, RefreshTextAdapters
<1>6. ASSUME \E next \in Configs : Reconcile(next)
      PROVE  FALSE
  BY <1>6 DEF Reconcile, NoJob
<1>7. ASSUME Probe
      PROVE  FALSE
  BY <1>1, <1>3, <1>7 DEF Probe, Started, StartReturns, ReplacementReturns, RestorationReturns, JobTypes
<1>8. ASSUME CheckRecord \/ AwaitRecord \/ KillRecorded
      PROVE  FALSE
  BY <1>1, <1>3, <1>8 DEF CheckRecord, AwaitRecord, KillRecorded, RemoveRecordThen,
     UntrackedStopped, JobTypes
<1>9. ASSUME NEW a \in Adapters, StopForReload(a)
      PROVE  FALSE
  BY <1>1, <1>3, <1>9 DEF StopForReload, JobTypes
<1>10. ASSUME AllStopped \/ Publish \/ StopPrestarted \/ GiveUp \/ Crash \/ Exit
       PROVE  FALSE
  BY <1>1, <1>3, <1>10
     DEF AllStopped, Publish, StopPrestarted, GiveUp, Crash, Exit, Restarted, JobTypes
<1>11. QED
  BY <1>2, <1>4, <1>5, <1>6, <1>7, <1>8, <1>9, <1>10 DEF Next, Calls, Steps

LEMMA StepKeepsProbe ==
  ASSUME SupervisorInv, [Next]_vars
  PROVE  ProbeIsHeld'
<1> USE DEF Held, Alive
<1>1. /\ SupervisorTypeOK /\ JobShape /\ ProbeIsHeld /\ job \in JobTypes
      /\ TablesOK /\ process \in [Procs -> ProcessTypes]
  BY TypeOKDef DEF SupervisorInv
<1>2. CASE job'.step # "probe"
  BY <1>2 DEF ProbeIsHeld
<1>3. CASE job.step = "probe" /\ UNCHANGED job /\ Environment
  BY <1>1, <1>3, EnvironmentDrifts, EnvironmentFrame
     DEF ProbeIsHeld, Drifts, Definition, SupervisorInv
<1>4. CASE job.step = "probe" /\ UNCHANGED vars
  BY <1>1, <1>4 DEF ProbeIsHeld, Definition, vars
<1>5. CASE job'.step = "probe" /\ PrepareSlot
  <2>1. job.step = "slot" /\ job.adapter \in Adapters
    BY <1>1, <1>5, SlotIsPrepared DEF JobShape, Starting
  <2>2. CASE NotSpawned
    <3>1. Started(FALSE) /\ Starting /\ UNCHANGED config
      BY <2>1, <2>2 DEF NotSpawned, Starting
    <3>2. QED
      BY <1>1, <3>1, StartedIsShaped DEF SupervisorInv
  <2>3. ASSUME NEW p \in Procs, Spawned(p)
        PROVE  ProbeIsHeld'
    <3>1. /\ job'.proc = p /\ job'.adapter = job.adapter /\ job'.call = job.call
          /\ job'.next = job.next
      BY <1>1, <2>3 DEF Spawned, JobTypes
    <3>2. process'[p] = [adapter |-> job.adapter, version |-> Definition(job.adapter),
                         leader |-> "running", helpers |-> FALSE, child |-> TRUE]
      BY <1>1, <2>3 DEF Spawned
    <3>3. record'[job.adapter] = None /\ UNCHANGED config
      BY <1>1, <2>1, <2>3 DEF Spawned, TablesOK
    <3>4. \A a \in Adapters : tracked'[a] # p
      BY <2>3 DEF Spawned, Referenced
    <3>5. QED
      BY <3>1, <3>2, <3>3, <3>4 DEF ProbeIsHeld, Definition
  <2>4. QED
    BY <1>5, <2>2, <2>3, SlotIsPrepared
<1>6. QED
  BY <1>2, <1>3, <1>4, <1>5, OnlyStartsProbe

LEMMA StepKeepsReused ==
  ASSUME SupervisorInv, [Next]_vars
  PROVE  ReusedIsAlone'
<1> USE DEF ReusedIsAlone, Reused
<1>1. process \in [Procs -> ProcessTypes] /\ ReusedIsAlone
  BY TypeOKDef DEF SupervisorInv
<1>2. ASSUME \A p \in Procs : process'[p] \in {process[p], Gone}
      PROVE  ReusedIsAlone'
  BY <1>1, <1>2 DEF Gone
<1>3. ASSUME NEW p \in Procs, LeaderExits(p) \/ HelpersStart(p) \/ HelpersExit(p) \/ PidIsReused(p)
      PROVE  ReusedIsAlone'
  <2>1. CASE LeaderExits(p)
    BY <1>1, <2>1 DEF LeaderExits, Ended, Running, Gone, ProcessTypes
  <2>2. CASE HelpersStart(p)
    BY <1>1, <2>2 DEF HelpersStart, Running, ProcessTypes
  <2>3. CASE HelpersExit(p)
    BY <1>1, <2>3 DEF HelpersExit, Gone, ProcessTypes
  <2>4. CASE PidIsReused(p)
    BY <1>1, <2>4 DEF PidIsReused, Exists, ProcessTypes
  <2>5. QED
    BY <1>3, <2>1, <2>2, <2>3, <2>4
<1>4. CASE PrepareSlot
  <2>1. CASE NotSpawned
    BY <1>2, <2>1 DEF NotSpawned
  <2>2. ASSUME NEW p \in Procs, Spawned(p) PROVE ReusedIsAlone'
    BY <1>1, <2>2 DEF Spawned
  <2>3. QED
    BY <1>4, <2>1, <2>2, SlotIsPrepared
<1>5. CASE KillRecorded
  <2>1. ASSUME NEW r \in Procs, Exists(r)
        PROVE  Killed(r).leader # "reused"
    BY <1>1, <2>1 DEF Exists, Killed, Gone, ProcessTypes
  <2>2. PICK r : /\ Exists(r)
                 /\ process' = [process EXCEPT ![r] = Killed(r)] \/ UNCHANGED process
    BY <1>5 DEF KillRecorded
  <2>3. QED
    BY <1>1, <2>1, <2>2
<1>6. ASSUME NEW ps, \A p \in Procs : ps[p] \in {process[p], Gone}, process' = Orphaned(ps)
      PROVE  ReusedIsAlone'
  <2>1. ASSUME NEW p \in Procs, process'[p].leader = "reused"
        PROVE  ~process'[p].helpers
    <3>1. ps[p] \in ProcessTypes
      BY <1>1, <1>6, GoneIsProcess
    <3>2. process'[p] = [ps[p] EXCEPT !.child = FALSE] /\ ps[p].leader = "reused"
      BY <1>6, <2>1, <3>1 DEF Orphaned, Gone, ProcessTypes
    <3>3. ps[p] = process[p]
      BY <1>6, <3>2 DEF Gone
    <3>4. QED
      BY <1>1, <3>2, <3>3 DEF ProcessTypes
  <2>2. QED
    BY <2>1
<1>7. CASE Crash
  BY <1>6, <1>7 DEF Crash
<1>8. CASE Exit
  <2>1. PICK cleaned : process' = Orphaned([p \in Procs |-> IF p \in cleaned THEN Gone ELSE process[p]])
    BY <1>8 DEF Exit
  <2>2. QED
    BY <1>6, <2>1
<1>9. CASE \/ \E a \in Adapters : StopTracked(a) \/ StopForReload(a)
           \/ RefreshTextAdapters \/ StopPrestarted
  <2>1. PICK hs, cleaned : Signalled(hs, cleaned)
    BY <1>9 DEF StopTracked, StopForReload, RefreshTextAdapters, StopPrestarted
  <2>2. QED
    BY <1>2, <2>1 DEF Signalled
<1>10. CASE Probe
  BY <1>1, <1>2, <1>10 DEF Probe
<1>11. CASE UNCHANGED process
  BY <1>2, <1>11
<1>12. QED
  BY <1>3, <1>4, <1>5, <1>7, <1>8, <1>9, <1>10, <1>11
     DEF Next, Environment, Calls, Steps, StartTextAdapter, StopUntracked, Reconcile, CheckRecord,
         AwaitRecord, StopUntrackedForReload, StartNext, AllStopped, Publish, GiveUp, vars

-----------------------------------------------------------------------------
(* Handles and replacements.                                                *)
LEMMA TrackedApart ==
  ASSUME SupervisorInv, NEW a \in Adapters, NEW b \in Adapters,
         tracked[a] = tracked[b], tracked[a] # None, Alive(tracked[a])
  PROVE  a = b
BY DEF SupervisorInv, TrackedIsRecorded, HandleIsRecorded

LEMMA FreshIsUntracked ==
  ASSUME SupervisorInv, NEW p \in job.fresh, NEW a \in Adapters
  PROVE  tracked[a] # p
<1>1. PICK b \in Adapters : FreshOf(p, b)
  BY DEF SupervisorInv, FreshAreHeld
<1>2. tracked[b] = None
  BY <1>1 DEF SupervisorInv, FreshOf, JobShape, ReloadShape
<1>3. p \in Procs /\ p # None
  BY SupervisorAssumption DEF SupervisorInv, SupervisorTypeOK
<1>4. QED
  BY <1>1, <1>2, <1>3 DEF SupervisorInv, FreshOf, Held, TrackedIsRecorded, HandleIsRecorded

LEMMA FreshOfOne ==
  ASSUME SupervisorInv, NEW p \in job.fresh, NEW q \in job.fresh,
         process[p].adapter = process[q].adapter
  PROVE  p = q
BY DEF SupervisorInv, FreshAreHeld, FreshOf

LEMMA StepKeepsFresh ==
  ASSUME SupervisorInv, [Next]_vars
  PROVE  FreshAreHeld'
<1> USE DEF AtRest, Stage
<1>1. /\ SupervisorTypeOK /\ JobShape /\ ReloadShape /\ ProbeIsHeld /\ FreshAreHeld
      /\ job \in JobTypes /\ TablesOK /\ process \in [Procs -> ProcessTypes]
  BY TypeOKDef DEF SupervisorInv
<1>2. ASSUME job'.fresh = {} PROVE FreshAreHeld'
  BY <1>2 DEF FreshAreHeld
<1>3. ASSUME job'.fresh = job.fresh, job'.next = job.next, UNCHANGED <<record, config>>,
             job'.todo \subseteq job.todo, Drifts \/ UNCHANGED process
      PROVE  FreshAreHeld'
  <2>1. ASSUME NEW p \in job.fresh, NEW a \in Adapters, FreshOf(p, a)
        PROVE  FreshOf(p, a)'
    <3>1. p \in Procs
      BY <1>1 DEF JobTypes
    <3>2. Held(p)' /\ process'[p].adapter = a /\ process'[p].version = job.next[a]
      BY <1>3, <2>1, <3>1 DEF FreshOf, Drifts, Held, Alive
    <3>3. QED
      BY <1>3, <2>1, <3>2 DEF FreshOf, Changed
  <2>2. QED
    BY <1>1, <1>3, <2>1 DEF FreshAreHeld
<1>4. CASE Environment
  BY <1>1, <1>3, <1>4, EnvironmentDrifts, EnvironmentFrame DEF SupervisorInv
<1>5. CASE UNCHANGED vars
  BY <1>3, <1>5 DEF vars
<1>6. ASSUME NEW p \in job.fresh, NEW a \in Adapters, FreshOf(p, a),
             record'[a] = record[a], UNCHANGED config, job'.next = job.next,
             process'[p] = process[p], job'.todo \subseteq job.todo
      PROVE  FreshOf(p, a)'
  BY <1>6 DEF FreshOf, Held, Alive, Changed
<1>7. CASE PrepareSlot
  <2>1. job.step = "slot" /\ job.adapter \in Adapters
    BY <1>1, <1>7, SlotIsPrepared DEF JobShape, Starting
  <2>2. ASSUME NEW p \in job.fresh, NEW a \in Adapters, FreshOf(p, a)
        PROVE  a # job.adapter /\ record'[a] = record[a] /\ process'[p] = process[p]
    <3>1. job.adapter \in job.todo
      BY <1>1, <2>1, <2>2 DEF JobShape, Starting
    <3>2. a # job.adapter /\ Alive(p) /\ p \in Procs
      BY <1>1, <2>2, <3>1 DEF FreshOf, Held, JobTypes
    <3>3. QED
      BY <1>1, <1>7, <2>1, <3>2, SlotIsPrepared
         DEF NotSpawned, Spawned, Exists, Alive, TablesOK
  <2>3. /\ UNCHANGED config /\ job'.next = job.next /\ job'.todo \subseteq job.todo
        /\ job'.fresh \subseteq job.fresh
       \/ job' = NoJob
    <3>1. CASE NotSpawned
      BY <1>1, <3>1 DEF NotSpawned, Started, StartReturns, ReplacementReturns, RestorationReturns, JobTypes
    <3>2. CASE \E p \in Procs : Spawned(p)
      BY <1>1, <3>2 DEF Spawned, JobTypes
    <3>3. QED
      BY <1>7, <3>1, <3>2, SlotIsPrepared
  <2>4. QED
    BY <1>1, <1>6, <2>2, <2>3, NoJobIsShaped DEF FreshAreHeld
<1>8. CASE Probe
  <2>1. /\ job.step = "probe" /\ Starting /\ job.adapter \in Adapters
        /\ job.proc \in Procs /\ record[job.adapter] = None /\ UNCHANGED config
    BY <1>1, <1>8 DEF Probe, JobShape, Starting, ProbeIsHeld
  <2>2. CASE job' = NoJob
    BY <2>2, NoJobIsShaped
  <2>3. CASE job.call = "restore"
    <3>1. job'.fresh = {}
      BY <1>1, <1>8, <2>3 DEF Probe, Started, StartReturns, ReplacementReturns,
         RestorationReturns, JobTypes, JobShape
    <3>2. QED
      BY <1>2, <3>1
  <2>4. CASE job.call = "replace"
    <3>1. job.adapter \in job.todo
      BY <1>1, <2>1, <2>4 DEF JobShape
    <3>2. ASSUME NEW p \in job.fresh, NEW a \in Adapters, FreshOf(p, a)
          PROVE  /\ p # job.proc /\ record'[a] = record[a]
                 /\ process'[p] = process[p]
      <4>1. p \in Procs /\ p # None /\ a # job.adapter
        BY <1>1, <3>1, <3>2, SupervisorAssumption DEF FreshOf, JobTypes
      <4>2. p # job.proc
        BY <1>1, <2>1, <3>2, <4>1 DEF FreshOf, ProbeIsHeld
      <4>3. QED
        BY <1>1, <1>8, <2>1, <4>1, <4>2 DEF Probe, TablesOK
    <3>3. PICK ok \in BOOLEAN :
            /\ ReplacementReturns(ok)
            /\ ok => record' = [record EXCEPT ![job.adapter] = job.proc] /\ UNCHANGED process
      BY <1>8, <2>4 DEF Probe, Started, StartReturns, RestorationReturns
    <3>4. /\ job'.fresh = IF ok THEN job.fresh \cup {job.proc} ELSE job.fresh
          /\ job'.next = job.next /\ job'.todo = job.todo \ {job.adapter}
      BY <1>1, <3>3 DEF ReplacementReturns, JobTypes
    <3> PICK p0 \in Procs, a0 \in Adapters : p0 = job.proc /\ a0 = job.adapter
      BY <2>1
    <3>5. ASSUME ok
          PROVE  FreshOf(p0, a0)'
      <4>1. record'[job.adapter] = job.proc /\ process' = process
        BY <1>1, <2>1, <3>3, <3>5 DEF TablesOK
      <4>2. /\ Held(job.proc) /\ process[job.proc].adapter = job.adapter
            /\ process[job.proc].version = job.next[job.adapter]
            /\ job.next[job.adapter] # None /\ job.adapter \in Changed
        BY <1>1, <2>1, <2>4, <3>1 DEF ProbeIsHeld, ReloadShape, Definition
      <4>3. QED
        BY <2>1, <3>4, <4>1, <4>2 DEF FreshOf, Held, Alive, Changed
    <3>6. ASSUME NEW p \in job'.fresh PROVE \E a \in Adapters : FreshOf(p, a)'
      <4>1. CASE p \in job.fresh
        <5>1. PICK a \in Adapters : FreshOf(p, a)
          BY <1>1, <4>1 DEF FreshAreHeld
        <5>2. FreshOf(p, a)'
          BY <1>6, <2>1, <3>2, <3>4, <4>1, <5>1
        <5>3. QED
          BY <5>2
      <4>2. CASE p \notin job.fresh
        BY <2>1, <3>4, <3>5, <3>6, <4>2
      <4>3. QED
        BY <4>1, <4>2
    <3>7. QED
      BY <3>6 DEF FreshAreHeld
  <2>5. CASE job.call = "start"
    <3>1. job' = NoJob
      BY <1>8, <2>5 DEF Probe, Started, StartReturns, ReplacementReturns, RestorationReturns
    <3>2. QED
      BY <3>1, NoJobIsShaped
  <2>6. QED
    BY <1>1, <2>1, <2>3, <2>4, <2>5 DEF JobShape
<1>9. ASSUME NEW a \in Adapters, StartNext(a)
      PROVE  FreshAreHeld'
  <2>1. job'.fresh = job.fresh /\ job'.next = job.next /\ job'.todo = job.todo
    BY <1>1, <1>9 DEF StartNext, JobTypes
  <2>2. QED
    BY <1>3, <1>9, <2>1 DEF StartNext
<1>10. ASSUME job.call \notin {"replace", "undo"}, ~PrepareSlot, ~Probe, ~Environment
       PROVE  FreshAreHeld'
  <2>1. job.fresh = {} /\ Rollback.fresh = {} /\ NoJob.fresh = {}
    BY <1>1, <1>10 DEF JobShape, Rollback, NoJob, JobTypes
  <2>2. job'.fresh = {}
    <3>1. CASE \E a \in Adapters : \/ StartTextAdapter(a) \/ StopUntracked(a) \/ StopTracked(a)
                                   \/ StopUntrackedForReload(a) \/ StartNext(a)
      BY <1>1, <2>1, <3>1 DEF StartTextAdapter, StopUntracked, StopUntrackedForReload, StartNext,
         StopTracked, NoJob, JobTypes
    <3>2. CASE \E next \in Configs : Reconcile(next)
      BY <3>2 DEF Reconcile, NoJob
    <3>3. CASE CheckRecord \/ AwaitRecord \/ KillRecorded
      BY <1>1, <2>1, <3>3 DEF CheckRecord, AwaitRecord, KillRecorded, RemoveRecordThen,
         UntrackedStopped, JobTypes
    <3>4. CASE \E a \in Adapters : StopForReload(a)
      BY <1>1, <2>1, <3>4 DEF StopForReload, JobTypes
    <3>5. CASE AllStopped \/ Publish \/ StopPrestarted \/ GiveUp \/ Crash \/ Exit
      BY <1>1, <2>1, <3>5
         DEF AllStopped, Publish, StopPrestarted, GiveUp, Crash, Exit, Restarted, JobTypes
    <3>6. CASE RefreshTextAdapters \/ UNCHANGED vars
      BY <2>1, <3>6 DEF RefreshTextAdapters, vars
    <3>7. QED
      BY <1>10, <3>1, <3>2, <3>3, <3>4, <3>5, <3>6 DEF Next, Calls, Steps
  <2>3. QED
    BY <1>2, <2>2
<1>11. ASSUME job.call \in {"replace", "undo"}, ~PrepareSlot, ~Probe, ~Environment,
              ~UNCHANGED vars, \A a \in Adapters : ~StartNext(a)
       PROVE  FreshAreHeld'
  <2>1. job.step # "none" /\ job.step \notin {"check", "terminated", "killed"}
    BY <1>1, <1>11 DEF JobShape, NoJob, Stopping
  <2>2. Publish \/ StopPrestarted \/ Crash
    BY <1>11, <2>1 DEF Next, Calls, Steps, StartTextAdapter, StopTracked, StopUntracked,
       RefreshTextAdapters, Reconcile, CheckRecord, AwaitRecord, KillRecorded, StopForReload,
       StopUntrackedForReload, AllStopped, GiveUp, Exit
  <2>3. job' \in {NoJob, Rollback}
    BY <2>2 DEF Publish, StopPrestarted, Crash, Restarted
  <2>4. NoJob.fresh = {} /\ Rollback.fresh = {}
    BY <1>1 DEF NoJob, Rollback, JobTypes
  <2>5. QED
    BY <1>2, <2>3, <2>4
<1>12. QED
  BY <1>4, <1>5, <1>7, <1>8, <1>9, <1>10, <1>11

-----------------------------------------------------------------------------
(* The tables.  No process of a step that starts none starts to run.        *)
Ebbs ==
  \A p \in Procs :
    /\ Running(p)' => Running(p)
    /\ Alive(p)' => /\ Alive(p)
                    /\ process'[p].adapter = process[p].adapter
                    /\ process'[p].version = process[p].version

LEMMA DriftIsEbb == ASSUME Drifts PROVE Ebbs
BY DEF Drifts, Ebbs

LEMMA RestIsEbb == ASSUME UNCHANGED process PROVE Ebbs
BY DEF Ebbs, Alive, Running

LEMMA SignalIsEbb ==
  ASSUME SupervisorTypeOK, NEW hs, NEW cleaned, Signalled(hs, cleaned)
  PROVE  Ebbs
BY DEF Signalled, Ebbs, Alive, Running, Gone

(* What a running process is before the daemon exits, it is afterwards.     *)
LEMMA OrphanIsEbb ==
  ASSUME SupervisorTypeOK, NEW ps, \A p \in Procs : ps[p] \in {process[p], Gone},
         process' = Orphaned(ps)
  PROVE  Ebbs
<1>1. process \in [Procs -> ProcessTypes]
  BY TypeOKDef
<1>2. SUFFICES ASSUME NEW p \in Procs, Alive(p)'
               PROVE  /\ process'[p].leader = process[p].leader
                      /\ process'[p].adapter = process[p].adapter
                      /\ process'[p].version = process[p].version
  BY DEF Ebbs, Alive, Running
<1>3. process'[p] = IF ps[p].leader # "zombie" THEN [ps[p] EXCEPT !.child = FALSE]
                    ELSE IF ps[p].helpers
                         THEN [ps[p] EXCEPT !.child = FALSE, !.leader = "gone"] ELSE Gone
  BY DEF Orphaned
<1>4. ps[p] \in ProcessTypes
  BY <1>1, GoneIsProcess
<1>5. ps[p] = process[p]
  BY <1>2, <1>3 DEF Alive, Gone
<1>6. CASE ps[p].leader # "zombie"
  BY <1>3, <1>4, <1>5, <1>6 DEF ProcessTypes
<1>7. CASE ps[p].leader = "zombie"
  BY <1>2, <1>3, <1>4, <1>7 DEF Alive, Gone, ProcessTypes
<1>8. QED
  BY <1>6, <1>7

LEMMA ExitIsEbb ==
  ASSUME SupervisorTypeOK, Exit
  PROVE  Ebbs
<1>1. PICK cleaned : process' = Orphaned([p \in Procs |-> IF p \in cleaned THEN Gone ELSE process[p]])
  BY DEF Exit
<1>2. QED
  BY <1>1, OrphanIsEbb

(* The steps that leave the tables alone.                                   *)
Sparing ==
  \/ Environment \/ KillRecorded \/ AllStopped \/ GiveUp \/ UNCHANGED vars
  \/ \E a \in Adapters : \/ StartTextAdapter(a) \/ StopUntracked(a)
                         \/ StopUntrackedForReload(a) \/ StartNext(a)
  \/ \E next \in Configs : Reconcile(next)

LEMMA SparingSpares ==
  ASSUME SupervisorInv, Sparing
  PROVE  Ebbs /\ UNCHANGED <<record, config, tracked, leaked, reported, unremoved, astray>>
<1>1. CASE Environment \/ KillRecorded
  BY <1>1, EnvironmentDrifts, DriftIsEbb, EnvironmentFrame DEF KillRecorded, history, SupervisorInv
<1>2. CASE ~(Environment \/ KillRecorded)
  <2>1. UNCHANGED <<process, record, config, tracked, leaked, reported, unremoved, astray>>
    BY <1>2 DEF Sparing, AllStopped, GiveUp, StartTextAdapter, StopUntracked,
       StopUntrackedForReload, StartNext, Reconcile, history, vars
  <2>2. QED
    BY <2>1, RestIsEbb
<1>3. QED
  BY <1>1, <1>2

(* The two ways a call by record changes the record.                        *)
LEMMA RecordIsChecked ==
  ASSUME SupervisorInv, CheckRecord \/ AwaitRecord
  PROVE  /\ UNCHANGED <<process, config, tracked, leaked, reported, unremoved, astray>>
         /\ job.adapter \in Adapters /\ tracked[job.adapter] = None /\ Stopping
         /\ \E outcome \in {"notRunning", "stopped", "error"} : UntrackedStopped(outcome)
            \/ job' = [job EXCEPT !.step = "terminated"]
         /\ \/ UNCHANGED record
            \/ /\ record' = [record EXCEPT ![job.adapter] = None]
               /\ record[job.adapter] \in Procs => ~Running(record[job.adapter])
<1>1. Stopping /\ JobShape
  BY DEF CheckRecord, AwaitRecord, Stopping, SupervisorInv
<1>2. CASE CheckRecord
  BY <1>1, <1>2 DEF CheckRecord, JobShape, RemoveRecordThen, RecordState, Running, Reused, history
<1>3. CASE AwaitRecord
  BY <1>1, <1>3 DEF AwaitRecord, JobShape, RemoveRecordThen, RecordState, Running, Reused, history
<1>4. QED
  BY <1>2, <1>3

(* What a start that ends leaves in the tables.                             *)
Adopted == tracked' = [tracked EXCEPT ![job.adapter] = job.proc]

LEMMA StartedTables ==
  ASSUME NEW ok \in BOOLEAN, Started(ok)
  PROVE  \/ /\ ~ok /\ UNCHANGED tracked
            /\ reported' = reported \cup IF job.call = "restore" THEN {job.adapter} ELSE {}
         \/ ok /\ job.call = "replace" /\ UNCHANGED <<tracked, reported>>
         \/ ok /\ job.call # "replace" /\ Adopted /\ reported' = reported \ {job.adapter}
BY DEF Started, StartReturns, ReplacementReturns, RestorationReturns, Adopted

LEMMA ProbeEnds ==
  ASSUME SupervisorInv, Probe
  PROVE  /\ job.proc \in Procs /\ job.adapter \in Adapters /\ record[job.adapter] = None
         /\ Starting /\ UNCHANGED <<config, unremoved, astray>>
         /\ \/ /\ Started(TRUE) /\ UNCHANGED <<process, leaked>>
               /\ record' = [record EXCEPT ![job.adapter] = job.proc]
            \/ /\ Started(FALSE) /\ UNCHANGED <<record, leaked>>
               /\ process' = [process EXCEPT ![job.proc] = Gone]
            \/ /\ Started(FALSE) /\ UNCHANGED <<record, process>>
               /\ leaked' = leaked \cup {job.proc}
<1>1. job.step = "probe" /\ Starting
  BY DEF Probe, Starting
<1>2. /\ job.proc \in Procs /\ job.adapter \in Adapters /\ record[job.adapter] = None
  BY <1>1 DEF SupervisorInv, JobShape, ProbeIsHeld
<1>3. QED
  BY <1>1, <1>2 DEF Probe

LEMMA PublishedTables ==
  ASSUME SupervisorInv, Publish, NEW a \in Adapters
  PROVE  \/ \E p \in job.fresh : tracked'[a] = p /\ FreshOf(p, a)
         \/ /\ ~\E p \in job.fresh : process[p].adapter = a
            /\ tracked'[a] = tracked[a]
            /\ tracked[a] # None => job.next[a] = config[a]
            /\ a \in reported => a \in reported'
<1>1. tracked'[a] = IF \E p \in job.fresh : process[p].adapter = a
                    THEN CHOOSE p \in job.fresh : process[p].adapter = a ELSE tracked[a]
  BY DEF Publish
<1>2. CASE \E p \in job.fresh : process[p].adapter = a
  <2>1. tracked'[a] \in job.fresh /\ process[tracked'[a]].adapter = a
    BY <1>1, <1>2
  <2>2. PICK p \in job.fresh : p = tracked'[a]
    BY <2>1
  <2>3. QED
    BY <2>1, <2>2 DEF SupervisorInv, FreshAreHeld, FreshOf
<1>3. CASE ~\E p \in job.fresh : process[p].adapter = a
  <2>1. job.call = "replace" /\ job.plans = {}
    BY DEF Publish, Stage, SupervisorInv, ReloadShape
  <2>2. tracked[a] # None => job.next[a] = config[a]
    BY <2>1 DEF SupervisorInv, ReloadShape, TrackedIsRecorded, HandleIsRecorded, Changed
  <2>3. a \in reported => a \in reported'
    BY <1>3 DEF Publish
  <2>4. QED
    BY <1>1, <1>3, <2>2, <2>3
<1>4. QED
  BY <1>2, <1>3

LEMMA PrestartedTables ==
  ASSUME SupervisorInv, NEW cleaned \in SUBSET job.fresh, NEW removed \in SUBSET job.fresh,
         PrestartedStop(cleaned, removed), NEW a \in Adapters
  PROVE  \/ /\ \E p \in job.fresh \ removed : tracked'[a] = p /\ FreshOf(p, a)
            /\ record'[a] = record[a] /\ a \in reported'
         \/ /\ tracked'[a] = tracked[a] /\ record'[a] \in {record[a], None}
            /\ record'[a] # record[a] => tracked[a] = None /\ record[a] \in cleaned
            /\ a \in reported' <=> a \in reported
<1> DEFINE kept == job.fresh \ removed
<1>1. /\ record'[a] = IF BelongTo(a, removed) THEN None ELSE record[a]
      /\ tracked'[a] = IF BelongTo(a, kept)
                       THEN CHOOSE p \in kept : process[p].adapter = a ELSE tracked[a]
      /\ a \in reported' <=> a \in reported \/ BelongTo(a, kept)
      /\ removed \subseteq cleaned
  BY DEF PrestartedStop
<1>2. CASE BelongTo(a, kept)
  <2>1. tracked'[a] \in kept /\ process[tracked'[a]].adapter = a
    BY <1>1, <1>2 DEF BelongTo
  <2>2. PICK p \in kept : p = tracked'[a]
    BY <2>1
  <2>3. FreshOf(p, a)
    BY <2>1, <2>2 DEF SupervisorInv, FreshAreHeld, FreshOf
  <2>4. ~BelongTo(a, removed)
    BY <2>1, <2>2, FreshOfOne DEF BelongTo
  <2>5. QED
    BY <1>1, <1>2, <2>2, <2>3, <2>4
<1>3. CASE ~BelongTo(a, kept)
  <2>1. ASSUME BelongTo(a, removed)
        PROVE  tracked[a] = None /\ record[a] \in cleaned
    <3>1. PICK p \in removed : process[p].adapter = a
      BY <2>1 DEF BelongTo
    <3>2. FreshOf(p, a)
      BY <3>1 DEF SupervisorInv, FreshAreHeld, FreshOf
    <3>3. job.call \in {"replace", "undo"} /\ job.plans = {}
      BY <3>1 DEF SupervisorInv, JobShape, ReloadShape
    <3>4. QED
      BY <1>1, <3>1, <3>2, <3>3 DEF SupervisorInv, ReloadShape, FreshOf
  <2>2. QED
    BY <1>1, <1>3, <2>1
<1>4. QED
  BY <1>2, <1>3

LEMMA StepKeepsTracked ==
  ASSUME SupervisorInv, [Next]_vars
  PROVE  TrackedIsRecorded'
<1> USE SupervisorAssumption
<1>1. /\ SupervisorTypeOK /\ JobShape /\ ReloadShape /\ ProbeIsHeld /\ FreshAreHeld
      /\ TrackedIsRecorded /\ job \in JobTypes /\ TablesOK
      /\ process \in [Procs -> ProcessTypes]
  BY TypeOKDef DEF SupervisorInv
<1>2. ASSUME NEW a \in Adapters, tracked'[a] = tracked[a], UNCHANGED config, Ebbs,
             \/ record'[a] = record[a]
             \/ record'[a] = None /\ (tracked[a] # None => ~Running(tracked[a]))
          PROVE  HandleIsRecorded(a)'
  BY <1>1, <1>2 DEF TrackedIsRecorded, HandleIsRecorded, Ebbs, TablesOK

<1>3. CASE Sparing
  BY <1>2, <1>3, SparingSpares DEF TrackedIsRecorded
<1>4. CASE CheckRecord \/ AwaitRecord
  <2>1. ASSUME NEW a \in Adapters
        PROVE  record'[a] = record[a] \/ (record'[a] = None /\ tracked[a] = None)
    <3>1. job.adapter \in Adapters /\ tracked[job.adapter] = None
      BY <1>4, RecordIsChecked
    <3>2. record' = record \/ record' = [record EXCEPT ![job.adapter] = None]
      BY <1>4, RecordIsChecked
    <3>3. QED
      BY <1>1, <3>1, <3>2 DEF TablesOK
  <2>2. UNCHANGED <<tracked, config>> /\ Ebbs
    BY <1>4, RecordIsChecked, RestIsEbb
  <2>3. QED
    BY <1>2, <2>1, <2>2 DEF TrackedIsRecorded
<1>5. CASE PrepareSlot
  <2>1. job.step = "slot" /\ job.adapter \in Adapters
    BY <1>1, <1>5, SlotIsPrepared DEF JobShape, Starting
  <2>2. CASE NotSpawned
    <3>1. UNCHANGED <<tracked, config>> /\ Ebbs
      BY <2>2, StartedTables, RestIsEbb DEF NotSpawned
    <3>2. ASSUME NEW a \in Adapters
          PROVE  \/ record'[a] = record[a]
                 \/ record'[a] = None /\ (tracked[a] # None => ~Running(tracked[a]))
      BY <1>1, <2>1, <2>2 DEF NotSpawned, TrackedIsRecorded, HandleIsRecorded, TablesOK
    <3>3. QED
      BY <1>2, <3>1, <3>2 DEF TrackedIsRecorded
  <2>3. ASSUME NEW p \in Procs, Spawned(p), NEW a \in Adapters
        PROVE  HandleIsRecorded(a)'
    <3>1. UNCHANGED <<tracked, config>> /\ tracked[a] # p
      BY <2>3 DEF Spawned, Referenced
    <3>2. tracked[a] # None => process'[tracked[a]] = process[tracked[a]]
      BY <1>1, <2>3, <3>1 DEF Spawned, TablesOK
    <3>3. \/ record'[a] = record[a]
          \/ record'[a] = None /\ (tracked[a] # None => ~Running(tracked[a]))
      BY <1>1, <2>1, <2>3 DEF Spawned, TrackedIsRecorded, HandleIsRecorded, TablesOK
    <3>4. QED
      BY <1>1, <3>1, <3>2, <3>3 DEF TrackedIsRecorded, HandleIsRecorded, Alive, Running
  <2>4. QED
    BY <1>5, <2>2, <2>3, SlotIsPrepared DEF TrackedIsRecorded
<1>6. CASE Probe
  <2> PICK p \in Procs, b \in Adapters : p = job.proc /\ b = job.adapter
    BY <1>6, ProbeEnds
  <2>1. ASSUME Started(FALSE), UNCHANGED record,
               process' = [process EXCEPT ![p] = Gone] \/ UNCHANGED process
        PROVE  TrackedIsRecorded'
    <3>1. UNCHANGED <<tracked, config>>
      BY <1>6, <2>1, ProbeEnds, StartedTables
    <3>2. Ebbs
      BY <1>1, <2>1 DEF Ebbs, Alive, Running, Gone
    <3>3. QED
      BY <1>2, <2>1, <3>1, <3>2 DEF TrackedIsRecorded
  <2>2. CASE Started(TRUE) /\ record' = [record EXCEPT ![b] = p] /\ UNCHANGED process
    <3>1. ASSUME NEW a \in Adapters, a # b
          PROVE  HandleIsRecorded(a)'
      <4>1. tracked'[a] = tracked[a] /\ record'[a] = record[a]
        BY <1>1, <2>2, <3>1, StartedTables DEF Adopted, TablesOK
      <4>2. QED
        BY <1>2, <1>6, <2>2, <4>1, ProbeEnds, RestIsEbb
    <3>2. HandleIsRecorded(b)'
      <4>1. record'[b] = p /\ config[b] # None /\ UNCHANGED config
        BY <1>1, <1>6, <2>2, ProbeEnds DEF TablesOK, JobShape
      <4>2. tracked'[b] \in {p, None}
        <5>1. CASE job.call = "replace"
          <6>1. tracked[b] = None
            BY <1>1, <1>6, <5>1, ProbeEnds DEF JobShape, ReloadShape
          <6>2. QED
            BY <2>2, <5>1, <6>1, StartedTables
        <5>2. CASE job.call # "replace"
          BY <1>1, <2>2, <5>2, StartedTables DEF Adopted, TablesOK
        <5>3. QED
          BY <5>1, <5>2
      <4>3. process'[p].adapter = b
        BY <1>1, <1>6, <2>2 DEF Probe, ProbeIsHeld
      <4>4. QED
        BY <4>1, <4>2, <4>3 DEF HandleIsRecorded
    <3>3. QED
      BY <3>1, <3>2 DEF TrackedIsRecorded
  <2>3. QED
    BY <1>6, <2>1, <2>2, ProbeEnds
<1>7. ASSUME NEW b \in Adapters, StopTracked(b) \/ StopForReload(b)
      PROVE  TrackedIsRecorded'
  <2>1. Ebbs /\ UNCHANGED config
    BY <1>1, <1>7, SignalIsEbb DEF StopTracked, StopForReload
  <2>2. ASSUME NEW a \in Adapters, a # b
        PROVE  tracked'[a] = tracked[a] /\ record'[a] = record[a]
    BY <1>1, <1>7, <2>2 DEF StopTracked, StopForReload, TablesOK
  <2>3. tracked'[b] = None \/ (tracked'[b] = tracked[b] /\ record'[b] = record[b])
    <3>1. tracked' = [tracked EXCEPT ![b] = None] \/ UNCHANGED <<tracked, record>>
      BY <1>7 DEF StopTracked, StopForReload
    <3>2. QED
      BY <1>1, <3>1 DEF TablesOK
  <2>4. QED
    BY <1>2, <2>1, <2>2, <2>3 DEF TrackedIsRecorded, HandleIsRecorded
<1>8. CASE RefreshTextAdapters
  <2>1. Ebbs /\ UNCHANGED config
    BY <1>1, <1>8, SignalIsEbb DEF RefreshTextAdapters
  <2>2. ASSUME NEW a \in Adapters
        PROVE  tracked'[a] = None \/ (tracked'[a] = tracked[a] /\ record'[a] = record[a])
    <3> DEFINE exited == {p \in {tracked[c] : c \in Adapters} \ {None} : process[p].leader = "zombie"}
    <3>1. tracked'[a] = IF tracked[a] \in exited THEN None ELSE tracked[a]
      BY <1>8 DEF RefreshTextAdapters
    <3>2. PICK removed \in SUBSET {c \in Adapters : tracked[c] \in exited} :
            record' = [c \in Adapters |-> IF c \in removed THEN None ELSE record[c]]
      BY <1>8 DEF RefreshTextAdapters
    <3> HIDE DEF exited
    <3>3. QED
      BY <3>1, <3>2
  <2>3. QED
    BY <1>2, <2>1, <2>2 DEF TrackedIsRecorded, HandleIsRecorded
<1>9. CASE Publish
  <2>1. UNCHANGED <<process, record>> /\ config' = job.next
    BY <1>9 DEF Publish
  <2>2. ASSUME NEW a \in Adapters PROVE HandleIsRecorded(a)'
    <3>1. CASE \E p \in job.fresh : tracked'[a] = p /\ FreshOf(p, a)
      BY <2>1, <3>1 DEF HandleIsRecorded, FreshOf
    <3>2. CASE tracked'[a] = tracked[a] /\ (tracked[a] # None => job.next[a] = config[a])
      BY <1>1, <2>1, <3>2 DEF TrackedIsRecorded, HandleIsRecorded, Alive, Running
    <3>3. QED
      BY <1>9, <3>1, <3>2, PublishedTables
  <2>3. QED
    BY <2>2 DEF TrackedIsRecorded
<1>10. CASE StopPrestarted
  <2>1. PICK cleaned \in SUBSET job.fresh, removed \in SUBSET job.fresh :
          PrestartedStop(cleaned, removed)
    BY <1>10, PrestartedAreStopped
  <2>2. Ebbs /\ UNCHANGED config
    BY <1>1, <1>10, <2>1, SignalIsEbb DEF StopPrestarted, PrestartedStop
  <2>3. ASSUME NEW a \in Adapters PROVE HandleIsRecorded(a)'
    <3>1. ASSUME NEW p \in job.fresh, tracked'[a] = p, FreshOf(p, a), record'[a] = record[a]
          PROVE  HandleIsRecorded(a)'
      <4>1. record'[a] = p /\ config'[a] # None /\ p \in Procs
        BY <1>1, <2>2, <3>1 DEF FreshOf, Changed, JobTypes
      <4>2. Alive(p)' => process'[p].adapter = a
        BY <2>2, <3>1, <4>1 DEF FreshOf, Ebbs
      <4>3. QED
        BY <3>1, <4>1, <4>2 DEF HandleIsRecorded, Alive
    <3>2. ASSUME tracked'[a] = tracked[a],
                 record'[a] = record[a] \/ (record'[a] = None /\ tracked[a] = None)
          PROVE  HandleIsRecorded(a)'
      BY <1>2, <2>2, <3>2
    <3>3. CASE \E p \in job.fresh \ removed : tracked'[a] = p /\ FreshOf(p, a)
      <4>1. PICK p \in job.fresh \ removed : tracked'[a] = p /\ FreshOf(p, a)
        BY <3>3
      <4>2. record'[a] = record[a]
        <5>1. record[a] = p /\ p # None
          BY <1>1, <4>1 DEF FreshOf, JobTypes
        <5>2. QED
          BY <2>1, <4>1, <5>1, PrestartedTables, FreshIsUntracked
      <4>3. QED
        BY <3>1, <4>1, <4>2
    <3>4. QED
      BY <2>1, <3>2, <3>3, PrestartedTables
  <2>4. QED
    BY <2>3 DEF TrackedIsRecorded
<1>11. CASE Crash \/ Exit
  BY <1>11 DEF Crash, Exit, Restarted, TrackedIsRecorded, HandleIsRecorded
<1>12. QED
  BY <1>3, <1>4, <1>5, <1>6, <1>7, <1>8, <1>9, <1>10, <1>11 DEF Next, Calls, Steps, Sparing

(* A record is only removed from an adapter that does not run any more.     *)
KeepsRunning(a) == \A p \in Procs : p = record[a] /\ Running(p)' => record'[a] = p

LEMMA StepKeepsRunning ==
  ASSUME SupervisorInv, [Next]_vars
  PROVE  RunningIsRecorded'
<1> USE SupervisorAssumption DEF AtRest, Stage
<1>1. /\ SupervisorTypeOK /\ JobShape /\ ReloadShape /\ ProbeIsHeld /\ FreshAreHeld
      /\ TrackedIsRecorded /\ RunningIsRecorded /\ job \in JobTypes /\ TablesOK
      /\ process \in [Procs -> ProcessTypes]
  BY TypeOKDef DEF SupervisorInv
<1>2. ASSUME Ebbs, leaked \subseteq leaked', job.proc \in leaked' \cup {None, job'.proc},
             \A a \in Adapters : KeepsRunning(a)
      PROVE  RunningIsRecorded'
  <2>1. SUFFICES ASSUME NEW p \in Procs, Running(p)'
                 PROVE  /\ process'[p].adapter \in Adapters
                        /\ p \in leaked' \cup {job'.proc, record'[process'[p].adapter]}
    BY DEF RunningIsRecorded
  <2>2. Running(p) /\ process'[p].adapter = process[p].adapter
    BY <1>2, <2>1 DEF Ebbs, Alive, Running
  <2>3. process[p].adapter \in Adapters /\ p \in leaked \cup {job.proc, record[process[p].adapter]}
    BY <1>1, <2>2 DEF RunningIsRecorded
  <2>4. QED
    BY <1>2, <2>1, <2>2, <2>3 DEF KeepsRunning
<1>3. CASE Sparing
  <2>1. job.proc \in {None, job'.proc}
    <3>1. CASE Environment \/ UNCHANGED vars
      BY <3>1, EnvironmentFrame DEF vars
    <3>2. CASE ~(Environment \/ UNCHANGED vars)
      <4>1. job.step # "probe"
        BY <1>3, <3>2 DEF Sparing, KillRecorded, AllStopped, GiveUp, StartTextAdapter,
           StopUntracked, StopUntrackedForReload, StartNext, Reconcile
      <4>2. QED
        BY <1>1, <4>1 DEF JobShape
    <3>3. QED
      BY <3>1, <3>2
  <2>2. QED
    BY <1>2, <1>3, <2>1, SparingSpares DEF KeepsRunning
<1>4. CASE CheckRecord \/ AwaitRecord
  <2>1. job.proc = None
    BY <1>1, <1>4, RecordIsChecked DEF JobShape, Stopping
  <2>2. UNCHANGED <<process, leaked>>
    BY <1>4, RecordIsChecked
  <2>3. ASSUME NEW a \in Adapters PROVE KeepsRunning(a)
    <3>1. CASE UNCHANGED record
      BY <3>1 DEF KeepsRunning
    <3>2. CASE /\ record' = [record EXCEPT ![job.adapter] = None]
               /\ record[job.adapter] \in Procs => ~Running(record[job.adapter])
      BY <1>1, <2>2, <3>2 DEF KeepsRunning, Running, TablesOK
    <3>3. QED
      BY <1>4, <3>1, <3>2, RecordIsChecked
  <2>4. QED
    BY <1>2, <2>1, <2>2, <2>3, RestIsEbb
<1>5. CASE PrepareSlot
  <2>1. job.step = "slot" /\ job.adapter \in Adapters /\ job.proc = None
    BY <1>1, <1>5, SlotIsPrepared DEF JobShape, Starting
  <2>2. ASSUME NEW a \in Adapters, NEW p \in Procs, p = record[a], Running(p),
               record' = record \/ /\ record' = [record EXCEPT ![job.adapter] = None]
                                   /\ record[job.adapter] = None \/ ~Running(record[job.adapter])
        PROVE  record'[a] = p
    BY <1>1, <2>1, <2>2 DEF TablesOK
  <2>3. CASE NotSpawned
    <3>1. UNCHANGED <<process, leaked>>
      BY <2>3 DEF NotSpawned
    <3>2. \A a \in Adapters : KeepsRunning(a)
      BY <2>2, <2>3, <3>1 DEF NotSpawned, KeepsRunning, Running
    <3>3. QED
      BY <1>2, <2>1, <3>1, <3>2, RestIsEbb
  <2>4. ASSUME NEW q \in Procs, Spawned(q), NEW p \in Procs, Running(p)'
        PROVE  /\ process'[p].adapter \in Adapters
               /\ p \in leaked' \cup {job'.proc, record'[process'[p].adapter]}
    <3>1. CASE p = q
      BY <1>1, <2>1, <2>4, <3>1 DEF Spawned, JobTypes
    <3>2. CASE p # q
      <4>1. process'[p] = process[p] /\ leaked' = leaked \ {q}
        BY <1>1, <2>4, <3>2 DEF Spawned
      <4>2. Running(p)
        BY <2>4, <4>1 DEF Running
      <4>3. process[p].adapter \in Adapters /\ p \in leaked \cup {record[process[p].adapter]}
        BY <1>1, <2>1, <4>2 DEF RunningIsRecorded
      <4>4. p = record[process[p].adapter] => record'[process[p].adapter] = p
        BY <2>2, <2>4, <4>2, <4>3 DEF Spawned
      <4>5. QED
        BY <3>2, <4>1, <4>3, <4>4
    <3>3. QED
      BY <3>1, <3>2
  <2>5. QED
    BY <1>5, <2>3, <2>4, SlotIsPrepared DEF RunningIsRecorded
<1>6. CASE Probe
  <2>1. SUFFICES ASSUME NEW p \in Procs, Running(p)'
                 PROVE  /\ process'[p].adapter \in Adapters
                        /\ p \in leaked' \cup {job'.proc, record'[process'[p].adapter]}
    BY DEF RunningIsRecorded
  <2>2. process'[p] = process[p] /\ Running(p) /\ leaked \subseteq leaked'
    <3>1. process' = [process EXCEPT ![job.proc] = Gone] \/ UNCHANGED process
      BY <1>6, ProbeEnds
    <3>2. leaked \subseteq leaked'
      BY <1>6, ProbeEnds
    <3>3. process'[p] = process[p]
      BY <1>1, <2>1, <3>1 DEF Running, Gone
    <3>4. QED
      BY <2>1, <3>2, <3>3 DEF Running
  <2>3. process[p].adapter \in Adapters /\ p \in leaked \cup {job.proc, record[process[p].adapter]}
    BY <1>1, <2>2 DEF RunningIsRecorded
  <2>4. CASE p = job.proc
    <3>1. process[p].adapter = job.adapter
      BY <1>1, <1>6, <2>4 DEF Probe, ProbeIsHeld
    <3>2. \/ record' = [record EXCEPT ![job.adapter] = job.proc]
          \/ process' = [process EXCEPT ![job.proc] = Gone]
          \/ leaked' = leaked \cup {job.proc}
      BY <1>6, ProbeEnds
    <3>3. QED
      BY <1>1, <2>1, <2>2, <2>3, <2>4, <3>1, <3>2 DEF Running, Gone, TablesOK
  <2>5. CASE p = record[process[p].adapter]
    <3>1. process[p].adapter # job.adapter
      BY <1>6, <2>5, ProbeEnds
    <3>2. record' = record \/ record' = [record EXCEPT ![job.adapter] = job.proc]
      BY <1>6, ProbeEnds
    <3>3. QED
      BY <1>1, <2>2, <2>3, <2>5, <3>1, <3>2 DEF TablesOK
  <2>6. QED
    BY <2>2, <2>3, <2>4, <2>5
<1>7. ASSUME NEW b \in Adapters, StopTracked(b) \/ StopForReload(b)
      PROVE  RunningIsRecorded'
  <2>1. Ebbs /\ UNCHANGED leaked
    BY <1>1, <1>7, SignalIsEbb DEF StopTracked, StopForReload
  <2>2. job.proc = None
    BY <1>1, <1>7 DEF StopTracked, StopForReload, JobShape
  <2>3. \/ UNCHANGED record
        \/ record' = [record EXCEPT ![b] = None] /\ process'[tracked[b]] = Gone /\ tracked[b] \in Procs
    <3>1. CASE StopTracked(b)
      <4>1. PICK cleaned \in SUBSET Handles({tracked[b]}) :
              /\ Signalled({tracked[b]}, cleaned)
              /\ record' \in {record} \cup
                   IF cleaned # {} THEN {[record EXCEPT ![b] = None]} ELSE {}
        BY <3>1 DEF StopTracked
      <4>2. tracked[b] \in Procs
        BY <1>1, <3>1 DEF StopTracked, TablesOK
      <4>3. QED
        BY <4>1, <4>2 DEF Signalled, Handles
    <3>2. CASE StopForReload(b)
      <4>1. UNCHANGED record \/ (record' = [record EXCEPT ![b] = None] /\ Signalled({tracked[b]}, {tracked[b]}))
        BY <3>2 DEF StopForReload
      <4>2. tracked[b] \in Procs
        BY <1>1, <3>2 DEF StopForReload, TablesOK
      <4>3. QED
        BY <4>1, <4>2 DEF Signalled
    <3>3. QED
      BY <1>7, <3>1, <3>2
  <2>4. ASSUME NEW a \in Adapters PROVE KeepsRunning(a)
    BY <1>1, <2>3 DEF KeepsRunning, TrackedIsRecorded, HandleIsRecorded, Running, Gone, TablesOK
  <2>5. QED
    BY <1>2, <2>1, <2>2, <2>4
<1>8. CASE RefreshTextAdapters
  <2> DEFINE exited == {p \in {tracked[c] : c \in Adapters} \ {None} : process[p].leader = "zombie"}
  <2>1. Ebbs /\ UNCHANGED <<leaked, job>>
    BY <1>1, <1>8, SignalIsEbb DEF RefreshTextAdapters
  <2>2. process' = [p \in Procs |-> IF p \in exited THEN Gone ELSE process[p]]
    BY <1>8 DEF RefreshTextAdapters, Signalled
  <2>3. PICK removed \in SUBSET {c \in Adapters : tracked[c] \in exited} :
          record' = [c \in Adapters |-> IF c \in removed THEN None ELSE record[c]]
    BY <1>8 DEF RefreshTextAdapters
  <2>4. None \notin exited
    OBVIOUS
  <2> HIDE DEF exited
  <2>5. ASSUME NEW a \in Adapters, NEW p \in Procs, p = record[a], Running(p)'
        PROVE  record'[a] = p
    <3>1. p \notin exited
      BY <2>2, <2>5 DEF Running, Gone
    <3>2. tracked[a] # None => record[a] \in {tracked[a], None}
      BY <1>1 DEF TrackedIsRecorded, HandleIsRecorded
    <3>3. a \notin removed
      BY <2>3, <2>4, <2>5, <3>1, <3>2
    <3>4. QED
      BY <2>3, <2>5, <3>3
  <2>6. QED
    BY <1>2, <2>1, <2>5 DEF KeepsRunning
<1>9. CASE Publish
  <2>1. UNCHANGED <<process, record, leaked>> /\ job.proc = None
    BY <1>1, <1>9 DEF Publish, JobShape
  <2>2. QED
    BY <1>2, <2>1, RestIsEbb DEF KeepsRunning
<1>10. CASE StopPrestarted
  <2>1. PICK cleaned \in SUBSET job.fresh, removed \in SUBSET job.fresh :
          PrestartedStop(cleaned, removed)
    BY <1>10, PrestartedAreStopped
  <2>2. Ebbs /\ UNCHANGED leaked /\ job.proc = None
    BY <1>1, <1>10, <2>1, SignalIsEbb DEF StopPrestarted, PrestartedStop, JobShape
  <2>3. ASSUME NEW a \in Adapters, NEW p \in Procs, p = record[a], Running(p)'
        PROVE  record'[a] = p
    <3>1. p \notin cleaned
      BY <2>1, <2>3 DEF PrestartedStop, Signalled, Running, Gone
    <3>2. QED
      BY <2>1, <2>3, <3>1, PrestartedTables
  <2>4. QED
    BY <1>2, <2>2, <2>3 DEF KeepsRunning
<1>11. CASE Crash
  <2>1. Ebbs /\ UNCHANGED record
    BY <1>1, <1>11, OrphanIsEbb DEF Crash
  <2>2. leaked \subseteq leaked' /\ job.proc \in leaked' \cup {None}
    BY <1>1, <1>11 DEF Crash, JobShape
  <2>3. QED
    BY <1>2, <2>1, <2>2 DEF KeepsRunning
<1>12. CASE Exit
  <2>1. Ebbs /\ UNCHANGED leaked /\ job.proc = None
    BY <1>1, <1>12, ExitIsEbb DEF Exit, JobShape
  <2>2. PICK cleaned \in SUBSET Handles({tracked[a] : a \in Adapters} \ {None}) :
          \E removed \in SUBSET cleaned :
            /\ process' = Orphaned([p \in Procs |-> IF p \in cleaned THEN Gone ELSE process[p]])
            /\ record' = [a \in Adapters |-> IF tracked[a] \in removed THEN None ELSE record[a]]
    BY <1>12 DEF Exit
  <2>3. PICK removed \in SUBSET cleaned :
          record' = [a \in Adapters |-> IF tracked[a] \in removed THEN None ELSE record[a]]
    BY <2>2
  <2>4. ASSUME NEW a \in Adapters, NEW p \in Procs, p = record[a], Running(p)'
        PROVE  record'[a] = p
    <3>1. p \notin cleaned
      <4>1. ASSUME p \in cleaned
            PROVE  process'[p] = [Gone EXCEPT !.child = FALSE]
        BY <2>2, <4>1 DEF Orphaned, Gone
      <4>2. QED
        BY <2>4, <4>1 DEF Running, Gone
    <3>2. tracked[a] # None => record[a] \in {tracked[a], None}
      BY <1>1 DEF TrackedIsRecorded, HandleIsRecorded
    <3>3. None \notin cleaned
      BY <2>2 DEF Handles
    <3>4. QED
      BY <2>3, <2>4, <3>1, <3>2, <3>3
  <2>5. QED
    BY <1>2, <2>1, <2>4 DEF KeepsRunning
<1>13. QED
  BY <1>3, <1>4, <1>5, <1>6, <1>7, <1>8, <1>9, <1>10, <1>11, <1>12 DEF Next, Calls, Steps, Sparing

-----------------------------------------------------------------------------
(* Definitions.                                                             *)
LEMMA StepKeepsVersions ==
  ASSUME SupervisorInv, [Next]_vars
  PROVE  TrackedRunsItsConfig'
<1> USE SupervisorAssumption
<1>1. /\ SupervisorTypeOK /\ JobShape /\ ReloadShape /\ ProbeIsHeld /\ FreshAreHeld
      /\ TrackedRunsItsConfig /\ job \in JobTypes /\ TablesOK
      /\ process \in [Procs -> ProcessTypes]
  BY TypeOKDef DEF SupervisorInv
<1>2. ASSUME NEW a \in Adapters, tracked'[a] \in {tracked[a], None}, UNCHANGED config, Ebbs,
             a \in reported => a \in reported'
      PROVE  RunsItsConfig(a)'
  <2>1. tracked[a] \in Procs \cup {None}
    BY <1>1 DEF TablesOK
  <2>2. QED
    BY <1>1, <1>2, <2>1 DEF TrackedRunsItsConfig, RunsItsConfig, Ebbs, Alive, Running
<1>3. CASE Sparing
  BY <1>2, <1>3, SparingSpares DEF TrackedRunsItsConfig
<1>4. CASE CheckRecord \/ AwaitRecord
  BY <1>2, <1>4, RecordIsChecked, RestIsEbb DEF TrackedRunsItsConfig
<1>5. CASE PrepareSlot
  <2>1. CASE NotSpawned
    BY <1>2, <2>1, StartedTables, RestIsEbb DEF NotSpawned, TrackedRunsItsConfig
  <2>2. ASSUME NEW p \in Procs, Spawned(p), NEW a \in Adapters
        PROVE  RunsItsConfig(a)'
    <3>1. UNCHANGED <<tracked, config, reported>> /\ tracked[a] # p
      BY <2>2 DEF Spawned, Referenced
    <3>2. tracked[a] # None => process'[tracked[a]] = process[tracked[a]]
      BY <1>1, <2>2, <3>1 DEF Spawned, TablesOK
    <3>3. QED
      BY <1>1, <3>1, <3>2 DEF TrackedRunsItsConfig, RunsItsConfig, Running
  <2>3. QED
    BY <1>5, <2>1, <2>2, SlotIsPrepared DEF TrackedRunsItsConfig
<1>6. CASE Probe
  <2> PICK p \in Procs, b \in Adapters : p = job.proc /\ b = job.adapter
    BY <1>6, ProbeEnds
  <2>1. ASSUME Started(FALSE), process' = [process EXCEPT ![p] = Gone] \/ UNCHANGED process
        PROVE  TrackedRunsItsConfig'
    <3>1. UNCHANGED <<tracked, config>> /\ reported \subseteq reported'
      BY <1>6, <2>1, ProbeEnds, StartedTables
    <3>2. Ebbs
      BY <1>1, <2>1 DEF Ebbs, Alive, Running, Gone
    <3>3. QED
      BY <1>2, <3>1, <3>2 DEF TrackedRunsItsConfig
  <2>2. CASE Started(TRUE) /\ UNCHANGED process
    <3>1. UNCHANGED config
      BY <1>6, ProbeEnds
    <3>2. CASE job.call = "replace"
      <4>1. UNCHANGED <<tracked, reported>>
        BY <2>2, <3>2, StartedTables
      <4>2. QED
        BY <1>2, <2>2, <3>1, <4>1, RestIsEbb DEF TrackedRunsItsConfig
    <3>3. CASE job.call # "replace"
      <4>1. tracked' = [tracked EXCEPT ![b] = p] /\ reported' = reported \ {b}
        BY <2>2, <3>3, StartedTables DEF Adopted
      <4>2. ASSUME NEW a \in Adapters, a # b PROVE RunsItsConfig(a)'
        BY <1>1, <1>2, <2>2, <3>1, <4>1, <4>2, RestIsEbb DEF TablesOK
      <4>3. process[p].version = config[b]
        BY <1>1, <1>6, <3>3 DEF Probe, ProbeIsHeld, Definition
      <4>4. RunsItsConfig(b)'
        BY <1>1, <2>2, <3>1, <4>1, <4>3 DEF RunsItsConfig, TablesOK
      <4>5. QED
        BY <4>2, <4>4 DEF TrackedRunsItsConfig
    <3>4. QED
      BY <3>2, <3>3
  <2>3. QED
    BY <1>6, <2>1, <2>2, ProbeEnds
<1>7. ASSUME NEW b \in Adapters, StopTracked(b) \/ StopForReload(b)
      PROVE  TrackedRunsItsConfig'
  <2>1. Ebbs /\ UNCHANGED <<config, reported>>
    BY <1>1, <1>7, SignalIsEbb DEF StopTracked, StopForReload
  <2>2. tracked' = [tracked EXCEPT ![b] = None] \/ UNCHANGED tracked
    BY <1>7 DEF StopTracked, StopForReload
  <2>3. ASSUME NEW a \in Adapters PROVE tracked'[a] \in {tracked[a], None}
    BY <1>1, <2>2 DEF TablesOK
  <2>4. QED
    BY <1>2, <2>1, <2>3 DEF TrackedRunsItsConfig
<1>8. CASE RefreshTextAdapters
  <2>1. Ebbs /\ UNCHANGED <<config, reported>>
    BY <1>1, <1>8, SignalIsEbb DEF RefreshTextAdapters
  <2>2. ASSUME NEW a \in Adapters PROVE tracked'[a] \in {tracked[a], None}
    BY <1>8 DEF RefreshTextAdapters
  <2>3. QED
    BY <1>2, <2>1, <2>2 DEF TrackedRunsItsConfig
<1>9. CASE Publish
  <2>1. UNCHANGED process /\ config' = job.next
    BY <1>9 DEF Publish
  <2>2. ASSUME NEW a \in Adapters PROVE RunsItsConfig(a)'
    <3>1. CASE \E p \in job.fresh : tracked'[a] = p /\ FreshOf(p, a)
      BY <2>1, <3>1 DEF RunsItsConfig, FreshOf
    <3>2. CASE /\ tracked'[a] = tracked[a] /\ (tracked[a] # None => job.next[a] = config[a])
               /\ a \in reported => a \in reported'
      BY <1>1, <2>1, <3>2 DEF TrackedRunsItsConfig, RunsItsConfig, Running
    <3>3. QED
      BY <1>9, <3>1, <3>2, PublishedTables
  <2>3. QED
    BY <2>2 DEF TrackedRunsItsConfig
<1>10. CASE StopPrestarted
  <2>1. PICK cleaned \in SUBSET job.fresh, removed \in SUBSET job.fresh :
          PrestartedStop(cleaned, removed)
    BY <1>10, PrestartedAreStopped
  <2>2. Ebbs /\ UNCHANGED config
    BY <1>1, <1>10, <2>1, SignalIsEbb DEF StopPrestarted, PrestartedStop
  <2>3. ASSUME NEW a \in Adapters PROVE RunsItsConfig(a)'
    <3>1. CASE a \in reported'
      BY <3>1 DEF RunsItsConfig
    <3>2. CASE a \notin reported'
      BY <1>2, <2>1, <2>2, <3>2, PrestartedTables
    <3>3. QED
      BY <3>1, <3>2
  <2>4. QED
    BY <2>3 DEF TrackedRunsItsConfig
<1>11. CASE Crash \/ Exit
  BY <1>11 DEF Crash, Exit, Restarted, TrackedRunsItsConfig, RunsItsConfig
<1>12. QED
  BY <1>3, <1>4, <1>5, <1>6, <1>7, <1>8, <1>9, <1>10, <1>11 DEF Next, Calls, Steps, Sparing

-----------------------------------------------------------------------------
(* Signals.  A handle is of a process that has not been reaped, unless a    *)
(* reload has failed to remove the record of one that was.                  *)
HandleIsHeld(a) == ~unremoved /\ tracked[a] # None => Held(tracked[a])

LEMMA HandlesDef == HandlesAreHeld <=> \A a \in Adapters : HandleIsHeld(a)
BY DEF HandlesAreHeld, HandleIsHeld

LEMMA StepKeepsHandles ==
  ASSUME SupervisorInv, [Next]_vars
  PROVE  HandlesAreHeld' /\ SignalsStayHome'
<1> USE SupervisorAssumption
<1>1. /\ SupervisorTypeOK /\ JobShape /\ ProbeIsHeld /\ FreshAreHeld
      /\ \A a \in Adapters : HandleIsHeld(a)
      /\ SignalsStayHome /\ job \in JobTypes /\ TablesOK
      /\ process \in [Procs -> ProcessTypes]
  BY TypeOKDef, HandlesDef DEF SupervisorInv
<1>2. ASSUME NEW a \in Adapters, unremoved => unremoved',
             \/ tracked'[a] = None
             \/ tracked'[a] = tracked[a] /\ (Held(tracked[a]) => \A p \in Procs : p = tracked[a] => Held(p)')
      PROVE  HandleIsHeld(a)'
  <2>1. tracked[a] \in Procs \cup {None}
    BY <1>1 DEF TablesOK
  <2>2. QED
    BY <1>1, <1>2, <2>1 DEF HandleIsHeld, Held, Alive
<1>3. ASSUME UNCHANGED <<unremoved, astray>>, \A a \in Adapters : HandleIsHeld(a)'
      PROVE  HandlesAreHeld' /\ SignalsStayHome'
  BY <1>1, <1>3 DEF HandlesAreHeld, HandleIsHeld, SignalsStayHome
<1>4. ASSUME UNCHANGED process
      PROVE  \A p \in Procs : Held(p) => Held(p)'
  BY <1>4 DEF Held, Alive
<1>5. CASE Sparing
  <2>1. \A p \in Procs : Held(p) => Held(p)'
    <3>1. CASE Environment \/ KillRecorded
      BY <3>1, EnvironmentDrifts DEF Drifts, SupervisorInv
    <3>2. CASE ~(Environment \/ KillRecorded)
      <4>1. UNCHANGED process
        BY <1>5, <3>2 DEF Sparing, AllStopped, GiveUp, StartTextAdapter, StopUntracked,
           StopUntrackedForReload, StartNext, Reconcile, vars
      <4>2. QED
        BY <1>4, <4>1
    <3>3. QED
      BY <3>1, <3>2
  <2>2. UNCHANGED <<tracked, unremoved, astray>>
    BY <1>5, SparingSpares
  <2>3. QED
    BY <1>2, <1>3, <2>1, <2>2
<1>6. CASE CheckRecord \/ AwaitRecord
  BY <1>2, <1>3, <1>4, <1>6, RecordIsChecked
<1>7. CASE PrepareSlot
  <2>1. CASE NotSpawned
    <3>1. UNCHANGED <<process, tracked, unremoved, astray>>
      BY <2>1, StartedTables DEF NotSpawned
    <3>2. QED
      BY <1>2, <1>3, <1>4, <3>1
  <2>2. ASSUME NEW q \in Procs, Spawned(q)
        PROVE  HandlesAreHeld' /\ SignalsStayHome'
    <3>1. UNCHANGED <<tracked, unremoved, astray>> /\ \A a \in Adapters : tracked[a] # q
      BY <2>2 DEF Spawned, Referenced
    <3>2. ASSUME NEW p \in Procs, p # q, Held(p) PROVE Held(p)'
      BY <1>1, <2>2, <3>2 DEF Spawned, Held, Alive
    <3>3. QED
      BY <1>2, <1>3, <3>1, <3>2
  <2>3. QED
    BY <1>7, <2>1, <2>2, SlotIsPrepared
<1>8. CASE Probe
  <2> PICK p \in Procs, b \in Adapters : p = job.proc /\ b = job.adapter
    BY <1>8, ProbeEnds
  <2>1. UNCHANGED <<unremoved, astray>>
    BY <1>8, ProbeEnds
  <2>2. Held(p) /\ \A a \in Adapters : tracked[a] # p
    BY <1>1, <1>8 DEF Probe, ProbeIsHeld
  <2>3. ASSUME Started(FALSE), process' = [process EXCEPT ![p] = Gone] \/ UNCHANGED process
        PROVE  HandlesAreHeld' /\ SignalsStayHome'
    <3>1. UNCHANGED tracked
      BY <2>3, StartedTables
    <3>2. ASSUME NEW q \in Procs, q # p, Held(q) PROVE Held(q)'
      BY <1>1, <2>3, <3>2 DEF Held, Alive
    <3>3. QED
      BY <1>2, <1>3, <2>1, <2>2, <3>1, <3>2
  <2>4. CASE Started(TRUE) /\ UNCHANGED process
    <3>1. ASSUME NEW a \in Adapters PROVE tracked'[a] \in {tracked[a], p}
      BY <1>1, <2>4, StartedTables DEF Adopted, TablesOK
    <3>2. ASSUME NEW a \in Adapters, tracked'[a] = p PROVE HandleIsHeld(a)'
      BY <2>2, <2>4, <3>2 DEF HandleIsHeld, Held, Alive
    <3>3. QED
      BY <1>2, <1>3, <1>4, <2>1, <2>4, <3>1, <3>2
  <2>5. QED
    BY <1>8, <2>3, <2>4, ProbeEnds

<1>9. ASSUME NEW b \in Adapters, StopTracked(b) \/ StopForReload(b)
      PROVE  HandlesAreHeld' /\ SignalsStayHome'
  <2>1. tracked[b] \in Procs /\ (~unremoved => Held(tracked[b]))
    BY <1>1, <1>9 DEF StopTracked, StopForReload, HandleIsHeld, TablesOK
  <2>2. PICK cleaned \in SUBSET Handles({tracked[b]}) :
          /\ Signalled({tracked[b]}, cleaned)
          /\ \/ tracked' = [tracked EXCEPT ![b] = None] /\ UNCHANGED unremoved
             \/ /\ UNCHANGED tracked
                /\ unremoved' = (unremoved \/ cleaned # {})
    <3>1. CASE StopTracked(b)
      BY <3>1 DEF StopTracked
    <3>2. CASE StopForReload(b)
      <4>1. {tracked[b]} \subseteq Handles({tracked[b]}) \/ tracked[b] \notin Handles({tracked[b]})
        OBVIOUS
      <4>2. QED
        BY <3>2, <4>1 DEF StopForReload
    <3>3. QED
      BY <1>9, <3>1, <3>2
  <2>3. unremoved => unremoved'
    BY <2>2
  <2>4. SignalsStayHome'
    <3>1. astray' = (astray \/ Reused(tracked[b]))
      BY <2>2 DEF Signalled
    <3>2. ~unremoved => ~Reused(tracked[b])
      BY <2>1 DEF Held, Alive, Reused
    <3>3. QED
      BY <1>1, <2>3, <3>1, <3>2 DEF SignalsStayHome
  <2>5. ASSUME NEW a \in Adapters PROVE HandleIsHeld(a)'
    <3>1. CASE a # b /\ tracked[a] # None /\ Alive(tracked[a])
      <4>1. tracked[a] \in Procs /\ tracked[a] \notin cleaned /\ tracked'[a] = tracked[a]
        BY <1>1, <2>2, <3>1, TrackedApart DEF Handles, TablesOK
      <4>2. process'[tracked[a]] = process[tracked[a]]
        BY <2>2, <4>1 DEF Signalled
      <4>3. QED
        BY <1>2, <2>3, <4>1, <4>2 DEF Held, Alive
    <3>2. CASE a # b /\ tracked[a] # None /\ ~Alive(tracked[a])
      <4>1. unremoved
        BY <1>1, <3>2 DEF HandleIsHeld, Held
      <4>2. QED
        BY <2>3, <4>1 DEF HandleIsHeld
    <3>3. CASE a # b /\ tracked[a] = None
      BY <1>1, <2>2, <3>3 DEF HandleIsHeld, TablesOK
    <3>4. CASE a = b
      <4>1. CASE tracked' = [tracked EXCEPT ![b] = None]
        BY <1>1, <3>4, <4>1 DEF HandleIsHeld, TablesOK
      <4>2. CASE UNCHANGED tracked /\ unremoved' = (unremoved \/ cleaned # {})
        <5>1. CASE cleaned = {}
          <6>1. process' = process
            BY <1>1, <2>2, <5>1 DEF Signalled
          <6>2. QED
            BY <1>2, <1>4, <2>3, <4>2, <6>1
        <5>2. CASE cleaned # {}
          BY <4>2, <5>2 DEF HandleIsHeld
        <5>3. QED
          BY <5>1, <5>2
      <4>3. QED
        BY <2>2, <4>1, <4>2
    <3>5. QED
      BY <3>1, <3>2, <3>3, <3>4
  <2>6. QED
    BY <2>4, <2>5 DEF HandlesAreHeld, HandleIsHeld
<1>10. CASE RefreshTextAdapters
  <2> DEFINE handles == {tracked[c] : c \in Adapters} \ {None}
             exited  == {p \in handles : process[p].leader = "zombie"}
  <2>1. Signalled(handles, exited) /\ UNCHANGED unremoved
    BY <1>10 DEF RefreshTextAdapters
  <2>2. ASSUME NEW a \in Adapters
        PROVE  \/ tracked'[a] = None
               \/ /\ tracked'[a] = tracked[a]
                  /\ tracked[a] \in Procs => process'[tracked[a]] = process[tracked[a]]
    <3>1. tracked'[a] = IF tracked[a] \in exited THEN None ELSE tracked[a]
      BY <1>10 DEF RefreshTextAdapters
    <3> HIDE DEF exited
    <3>2. QED
      BY <2>1, <3>1 DEF Signalled
  <2>3. ASSUME NEW a \in Adapters PROVE HandleIsHeld(a)'
    BY <1>2, <2>1, <2>2 DEF Held, Alive
  <2>4. astray' => astray \/ unremoved
    BY <1>1, <2>1 DEF Signalled, HandleIsHeld, Held, Alive, Reused
  <2>5. QED
    BY <1>1, <2>1, <2>3, <2>4 DEF HandlesAreHeld, HandleIsHeld, SignalsStayHome
<1>11. ASSUME NEW p \in job.fresh
       PROVE  Held(p) /\ p \in Procs
  BY <1>1, <1>11 DEF FreshAreHeld, FreshOf, JobTypes
<1>12. CASE Publish
  <2>1. UNCHANGED <<process, unremoved, astray>>
    BY <1>12 DEF Publish
  <2>2. ASSUME NEW a \in Adapters PROVE HandleIsHeld(a)'
    <3>1. CASE \E p \in job.fresh : tracked'[a] = p
      BY <1>11, <2>1, <3>1 DEF HandleIsHeld, Held, Alive
    <3>2. CASE tracked'[a] = tracked[a]
      BY <1>2, <1>4, <2>1, <3>2
    <3>3. QED
      BY <1>12, <3>1, <3>2, PublishedTables
  <2>3. QED
    BY <1>3, <2>1, <2>2
<1>13. CASE StopPrestarted
  <2>1. PICK cleaned \in SUBSET job.fresh, removed \in SUBSET job.fresh :
          PrestartedStop(cleaned, removed)
    BY <1>13, PrestartedAreStopped
  <2>2. /\ Signalled(job.fresh, cleaned) /\ removed \subseteq cleaned
        /\ unremoved' = (unremoved \/ cleaned # removed)
    BY <2>1 DEF PrestartedStop
  <2>3. astray' = astray
    BY <1>1, <1>11, <2>2 DEF Signalled, Held, Alive, Reused, TablesOK
  <2>4. ASSUME NEW a \in Adapters PROVE HandleIsHeld(a)'
    <3>1. CASE \E p \in job.fresh \ removed : tracked'[a] = p /\ FreshOf(p, a)
      <4>1. PICK p \in job.fresh \ removed : tracked'[a] = p
        BY <3>1
      <4>2. CASE p \in cleaned
        BY <2>2, <4>1, <4>2 DEF HandleIsHeld
      <4>3. CASE p \notin cleaned
        <5>1. process'[p] = process[p] /\ Held(p)
          BY <1>11, <2>2, <4>1, <4>3 DEF Signalled
        <5>2. QED
          BY <4>1, <5>1 DEF HandleIsHeld, Held, Alive
      <4>4. QED
        BY <4>2, <4>3
    <3>2. CASE tracked'[a] = tracked[a]
      <4>1. tracked[a] \in Procs => process'[tracked[a]] = process[tracked[a]]
        BY <2>2, FreshIsUntracked DEF Signalled
      <4>2. QED
        BY <1>2, <2>2, <3>2, <4>1 DEF Held, Alive
    <3>3. QED
      BY <2>1, <3>1, <3>2, PrestartedTables
  <2>5. QED
    BY <1>1, <2>2, <2>3, <2>4 DEF HandlesAreHeld, HandleIsHeld, SignalsStayHome
<1>14. CASE Crash
  BY <1>1, <1>14 DEF Crash, Restarted, HandlesAreHeld, SignalsStayHome
<1>15. CASE Exit
  <2>1. UNCHANGED unremoved /\ HandlesAreHeld'
    BY <1>15 DEF Exit, Restarted, HandlesAreHeld
  <2>2. astray' => astray \/ unremoved
    <3>1. astray' = (astray \/ \E p \in {tracked[a] : a \in Adapters} \ {None} : Reused(p))
      BY <1>15 DEF Exit
    <3>2. QED
      BY <1>1, <3>1 DEF HandleIsHeld, Held, Alive, Reused
  <2>3. QED
    BY <1>1, <2>1, <2>2 DEF SignalsStayHome
<1>16. QED
  BY <1>5, <1>6, <1>7, <1>8, <1>9, <1>10, <1>12, <1>13, <1>14, <1>15
     DEF Next, Calls, Steps, Sparing

-----------------------------------------------------------------------------
(* Reloads.                                                                 *)
LEMMA StepKeepsSupervised ==
  ASSUME SupervisorInv, [Next]_vars
  PROVE  ReloadLosesNobody'
<1> USE SupervisorAssumption DEF AtRest, Stage
<1>1. /\ SupervisorTypeOK /\ JobShape /\ ReloadShape /\ ProbeIsHeld /\ FreshAreHeld
      /\ ReloadLosesNobody /\ job \in JobTypes /\ TablesOK
      /\ process \in [Procs -> ProcessTypes]
  BY TypeOKDef DEF SupervisorInv
<1>2. CASE job' = NoJob
  BY <1>2, NoJobIsShaped
<1>3. ASSUME UNCHANGED <<tracked, reported>>, job'.before = job.before, job'.call = job.call,
             job'.next = job.next, job'.todo = job.todo, job'.fresh = job.fresh,
             job.stopped \subseteq job'.stopped,
             \A p \in job.fresh : process'[p].adapter = process[p].adapter
      PROVE  ReloadLosesNobody'
  BY <1>1, <1>3 DEF ReloadLosesNobody, OnItsWay
<1>4. ASSUME job' = Rollback, job.call \in {"stopping", "undo"},
             \A a \in Adapters : tracked[a] # None => tracked'[a] # None
      PROVE  ReloadLosesNobody'
  <2>1. job'.before = job.before /\ job'.call = "restore" /\ job'.todo = job.stopped
    BY <1>1, <1>4 DEF Rollback, JobTypes
  <2>2. job.before \subseteq Adapters
    BY <1>1 DEF JobTypes
  <2>3. QED
    BY <1>1, <1>4, <2>1, <2>2 DEF ReloadLosesNobody, OnItsWay
<1>5. CASE Environment
  <2>1. \A p \in job.fresh : process'[p].adapter = process[p].adapter
    BY <1>1, <1>5, EnvironmentDrifts DEF Drifts, FreshAreHeld, FreshOf, JobTypes, SupervisorInv
  <2>2. UNCHANGED <<tracked, reported, job>>
    BY <1>5, EnvironmentFrame
  <2>3. QED
    BY <1>3, <2>1, <2>2
<1>6. CASE UNCHANGED vars
  <2>1. UNCHANGED <<process, tracked, job, reported>>
    BY <1>6 DEF vars, history
  <2>2. QED
    BY <1>3, <2>1
<1>7. ASSUME \E a \in Adapters : StartTextAdapter(a) \/ StopUntracked(a)
      PROVE  ReloadLosesNobody'
  <2>1. job'.before = {}
    BY <1>7 DEF StartTextAdapter, StopUntracked, NoJob
  <2>2. QED
    BY <2>1 DEF ReloadLosesNobody
<1>8. ASSUME NEW next \in Configs, Reconcile(next)
      PROVE  ReloadLosesNobody'
  <2>1. job'.before = {a \in Adapters : tracked[a] # None} /\ UNCHANGED tracked
    BY <1>8 DEF Reconcile, NoJob
  <2>2. QED
    BY <2>1 DEF ReloadLosesNobody
<1>9. ASSUME (\E a \in Adapters : StopTracked(a)) \/ RefreshTextAdapters
      PROVE  ReloadLosesNobody'
  <2>1. job' = NoJob
    BY <1>1, <1>9 DEF StopTracked, RefreshTextAdapters, JobShape
  <2>2. QED
    BY <1>2, <2>1
<1>10. ASSUME NEW a \in Adapters, StopUntrackedForReload(a) \/ StartNext(a)
       PROVE  ReloadLosesNobody'
  <2>1. /\ job'.before = job.before /\ job'.call = job.call /\ job'.next = job.next
        /\ job'.todo = job.todo /\ job'.fresh = job.fresh /\ job'.stopped = job.stopped
    BY <1>1, <1>10 DEF StopUntrackedForReload, StartNext, JobTypes
  <2>2. UNCHANGED <<process, tracked, reported>>
    BY <1>10 DEF StopUntrackedForReload, StartNext, history
  <2>3. QED
    BY <1>3, <2>1, <2>2
<1>11. CASE KillRecorded
  <2>1. job.fresh = {}
    BY <1>1, <1>11 DEF KillRecorded, JobShape, Stopping
  <2>2. /\ job'.before = job.before /\ job'.call = job.call /\ job'.next = job.next
        /\ job'.todo = job.todo /\ job'.fresh = job.fresh /\ job'.stopped = job.stopped
    BY <1>1, <1>11 DEF KillRecorded, JobTypes
  <2>3. UNCHANGED <<tracked, reported>>
    BY <1>11 DEF KillRecorded, history
  <2>4. QED
    BY <1>3, <2>1, <2>2, <2>3
<1>12. CASE AllStopped
  <2>1. /\ job'.before = job.before /\ job'.call = "replace" /\ job'.stopped = job.stopped
        /\ job'.next = job.next /\ job'.todo = {a \in job.stopped : job.next[a] # None}
    BY <1>1, <1>12 DEF AllStopped, JobTypes
  <2>2. UNCHANGED tracked /\ job.call = "stopping"
    BY <1>12 DEF AllStopped
  <2>3. QED
    BY <1>1, <2>1, <2>2 DEF ReloadLosesNobody, OnItsWay
<1>13. ASSUME NEW b \in Adapters, b = job.adapter, NEW ok \in BOOLEAN, Started(ok),
              ok /\ job.call = "replace" => job.proc \in Procs /\ process'[job.proc].adapter = b,
              ok /\ job.call # "replace" => job.proc \in Procs,
              ok => UNCHANGED process
       PROVE  ReloadLosesNobody'
  <2>1. CASE StartReturns(ok)
    BY <1>2, <2>1 DEF StartReturns
  <2>2. CASE ReplacementReturns(ok) /\ ok
    <3>1. /\ job'.before = job.before /\ job'.call = "replace" /\ job'.stopped = job.stopped
          /\ job'.next = job.next /\ job'.todo = job.todo \ {b}
          /\ job'.fresh = job.fresh \cup {job.proc}
      BY <1>1, <1>13, <2>2 DEF ReplacementReturns, JobTypes
    <3>2. UNCHANGED <<tracked, process>> /\ job.call = "replace"
      BY <1>13, <2>2 DEF ReplacementReturns
    <3>3. ASSUME NEW a \in job.before, tracked[a] = None PROVE OnItsWay(a)'
      <4>1. a \in job.stopped /\ \/ job.next[a] = None \/ a \in job.todo
                                 \/ \E p \in job.fresh : process[p].adapter = a
        BY <1>1, <3>2, <3>3 DEF ReloadLosesNobody, OnItsWay
      <4>2. PICK p : p = job.proc
        OBVIOUS
      <4>3. p \in job'.fresh /\ process'[p].adapter = b
        BY <1>13, <2>2, <3>1, <3>2, <4>2
      <4>4. QED
        BY <3>1, <3>2, <4>1, <4>3 DEF OnItsWay
    <3>4. QED
      BY <3>1, <3>2, <3>3 DEF ReloadLosesNobody
  <2>3. CASE ReplacementReturns(ok) /\ ~ok
    <3>1. job'.before = job.before /\ job'.call = "undo" /\ job'.stopped = job.stopped
      BY <1>1, <2>3 DEF ReplacementReturns, JobTypes
    <3>2. UNCHANGED tracked /\ job.call = "replace"
      BY <2>3 DEF ReplacementReturns
    <3>3. QED
      BY <1>1, <3>1, <3>2 DEF ReloadLosesNobody, OnItsWay
  <2>4. CASE RestorationReturns(ok)
    <3>1. /\ job'.before = job.before /\ job'.call = "restore" /\ job'.todo = job.todo \ {b}
          /\ job.call = "restore" /\ job.before \subseteq Adapters
      BY <1>1, <1>13, <2>4 DEF RestorationReturns, JobTypes
    <3>2. CASE ok
      <4>1. /\ tracked' = [tracked EXCEPT ![b] = job.proc] /\ reported' = reported \ {b}
            /\ job.proc # None
        BY <1>13, <2>4, <3>1, <3>2 DEF RestorationReturns
      <4>2. QED
        BY <1>1, <3>1, <4>1 DEF ReloadLosesNobody, OnItsWay, TablesOK
    <3>3. CASE ~ok
      <4>1. UNCHANGED tracked /\ reported' = reported \cup {b}
        BY <1>13, <2>4, <3>3 DEF RestorationReturns
      <4>2. QED
        BY <1>1, <3>1, <4>1 DEF ReloadLosesNobody, OnItsWay
    <3>4. QED
      BY <3>2, <3>3
  <2>5. QED
    BY <1>13, <2>1, <2>2, <2>3, <2>4 DEF Started
<1>14. CASE PrepareSlot
  <2>1. job.step = "slot" /\ job.adapter \in Adapters
    BY <1>1, <1>14, SlotIsPrepared DEF JobShape, Starting
  <2>2. CASE NotSpawned
    BY <1>13, <2>1, <2>2 DEF NotSpawned
  <2>3. ASSUME NEW q \in Procs, Spawned(q)
        PROVE  ReloadLosesNobody'
    <3>1. /\ job'.before = job.before /\ job'.call = job.call /\ job'.next = job.next
          /\ job'.todo = job.todo /\ job'.fresh = job.fresh /\ job'.stopped = job.stopped
      BY <1>1, <2>3 DEF Spawned, JobTypes
    <3>2. UNCHANGED <<tracked, reported>>
      BY <2>3 DEF Spawned
    <3>3. \A p \in job.fresh : process'[p].adapter = process[p].adapter
      BY <1>1, <2>3 DEF Spawned, Referenced, JobTypes
    <3>4. QED
      BY <1>3, <3>1, <3>2, <3>3
  <2>4. QED
    BY <1>14, <2>2, <2>3, SlotIsPrepared
<1>15. CASE Probe
  <2> PICK b \in Adapters : b = job.adapter
    BY <1>15, ProbeEnds
  <2>1. job.proc \in Procs /\ process[job.proc].adapter = b
    BY <1>1, <1>15 DEF Probe, ProbeIsHeld
  <2>2. CASE Started(TRUE) /\ UNCHANGED process
    BY <1>13, <2>1, <2>2
  <2>3. CASE Started(FALSE)
    BY <1>13, <2>3
  <2>4. QED
    BY <1>15, <2>2, <2>3, ProbeEnds
<1>16. CASE CheckRecord \/ AwaitRecord
  <2>1. /\ UNCHANGED <<process, tracked, reported>> /\ job.adapter \in Adapters /\ Stopping
        /\ \E outcome \in {"notRunning", "stopped", "error"} : UntrackedStopped(outcome)
           \/ job' = [job EXCEPT !.step = "terminated"]
    BY <1>16, RecordIsChecked
  <2>2. CASE job' = [job EXCEPT !.step = "terminated"]
    <3>1. /\ job'.before = job.before /\ job'.call = job.call /\ job'.next = job.next
          /\ job'.todo = job.todo /\ job'.fresh = job.fresh /\ job'.stopped = job.stopped
      BY <1>1, <2>2 DEF JobTypes
    <3>2. QED
      BY <1>3, <2>1, <3>1
  <2>3. ASSUME NEW outcome, UntrackedStopped(outcome)
        PROVE  ReloadLosesNobody'
    <3>1. CASE job' = Rollback
      <4>1. job.call = "stopping" \/ job' = NoJob
        BY <2>3 DEF UntrackedStopped
      <4>2. QED
        BY <1>2, <1>4, <2>1, <3>1, <4>1
    <3>2. CASE job.call = "stopping" /\ job' # Rollback
      <4>1. /\ job'.before = job.before /\ job'.call = job.call /\ job'.next = job.next
            /\ job'.todo = job.todo /\ job'.fresh = job.fresh
            /\ job.stopped \subseteq job'.stopped
        <5>1. PICK stopped \in {job.stopped, job.stopped \cup {job.adapter}} :
                job' = [job EXCEPT !.step = "reload", !.adapter = None,
                                   !.plans = @ \ {job.adapter}, !.stopped = stopped]
          BY <2>3, <3>2 DEF UntrackedStopped
        <5>2. QED
          BY <1>1, <5>1 DEF JobTypes
      <4>2. QED
        BY <1>3, <2>1, <4>1
    <3>3. QED
      BY <1>2, <2>3, <3>1, <3>2 DEF UntrackedStopped
  <2>4. QED
    BY <2>1, <2>2, <2>3
<1>17. ASSUME NEW b \in Adapters, StopForReload(b)
       PROVE  ReloadLosesNobody'
  <2>1. \/ job' = Rollback /\ UNCHANGED tracked
        \/ /\ tracked' = [tracked EXCEPT ![b] = None]
           /\ job' = [job EXCEPT !.plans = @ \ {b}, !.stopped = @ \cup {b}]
    BY <1>17 DEF StopForReload
  <2>2. job.call = "stopping"
    BY <1>17 DEF StopForReload
  <2>3. CASE job' = Rollback /\ UNCHANGED tracked
    BY <1>4, <2>2, <2>3
  <2>4. CASE /\ tracked' = [tracked EXCEPT ![b] = None]
             /\ job' = [job EXCEPT !.plans = @ \ {b}, !.stopped = @ \cup {b}]
    <3>1. /\ job'.before = job.before /\ job'.call = job.call
          /\ job'.stopped = job.stopped \cup {b} /\ job.before \subseteq Adapters
      BY <1>1, <2>4 DEF JobTypes
    <3>2. QED
      BY <1>1, <2>2, <2>4, <3>1 DEF ReloadLosesNobody, OnItsWay, TablesOK
  <2>5. QED
    BY <2>1, <2>3, <2>4
<1>18. CASE StopPrestarted
  <2>1. PICK cleaned \in SUBSET job.fresh, removed \in SUBSET job.fresh :
          PrestartedStop(cleaned, removed)
    BY <1>18, PrestartedAreStopped
  <2>2. job' = Rollback /\ job.call = "undo"
    BY <1>18 DEF StopPrestarted
  <2>3. ASSUME NEW a \in Adapters, tracked[a] # None PROVE tracked'[a] # None
    <3>1. None \notin job.fresh
      BY <1>1 DEF JobTypes
    <3>2. QED
      BY <2>1, <2>3, <3>1, PrestartedTables
  <2>4. QED
    BY <1>4, <2>2, <2>3
<1>19. CASE Publish \/ GiveUp \/ Crash \/ Exit
  BY <1>2, <1>19 DEF Publish, GiveUp, Crash, Exit, Restarted
<1>20. QED
  BY <1>5, <1>6, <1>7, <1>8, <1>9, <1>10, <1>11, <1>12, <1>14, <1>15, <1>16, <1>17, <1>18, <1>19
     DEF Next, Calls, Steps
-----------------------------------------------------------------------------
(* The theorems.                                                            *)
LEMMA InitSatisfiesInv == Init => SupervisorInv
<1> SUFFICES ASSUME Init PROVE SupervisorInv
  OBVIOUS
<1> USE SupervisorAssumption
<1>1. SupervisorTypeOK
  <2>1. process \in [Procs -> ProcessTypes] /\ TablesOK /\ job \in JobTypes
    BY GoneIsProcess, NoJobIsJob DEF Init, TablesOK
  <2>2. QED
    BY <2>1, TypeOKDef
<1>2. /\ job.step = "none" /\ job.proc = None /\ job.fresh = {} /\ job.plans = {}
      /\ job.stopped = {} /\ job.todo = {} /\ job.before = {} /\ job.call = "none"
  BY DEF Init, NoJob
<1>3. JobShape /\ ReloadShape /\ ProbeIsHeld /\ FreshAreHeld /\ ReloadLosesNobody
  BY <1>2 DEF Init, JobShape, AtRest, Starting, Stopping, ReloadShape, ProbeIsHeld, FreshAreHeld,
     ReloadLosesNobody
<1>4. TrackedIsRecorded /\ TrackedRunsItsConfig /\ HandlesAreHeld
  BY DEF Init, TrackedIsRecorded, HandleIsRecorded, TrackedRunsItsConfig, RunsItsConfig,
     HandlesAreHeld
<1>5. RunningIsRecorded /\ ReusedIsAlone /\ SignalsStayHome
  BY DEF Init, Gone, RunningIsRecorded, Running, ReusedIsAlone, Reused, SignalsStayHome
<1>6. QED
  BY <1>1, <1>3, <1>4, <1>5 DEF SupervisorInv

LEMMA Invariance == Spec => []SupervisorInv
<1>1. SupervisorInv /\ [Next]_vars => SupervisorInv'
  <2>1. SUFFICES ASSUME SupervisorInv, [Next]_vars
                 PROVE  SupervisorInv'
    OBVIOUS
  <2>2. SupervisorTypeOK'
    BY <2>1, StepKeepsTypes DEF SupervisorInv
  <2>3. JobShape' /\ ReloadShape' /\ ProbeIsHeld' /\ FreshAreHeld' /\ ReloadLosesNobody'
    BY <2>1, StepKeepsShapes, StepKeepsProbe, StepKeepsFresh, StepKeepsSupervised
  <2>4. TrackedIsRecorded' /\ RunningIsRecorded' /\ TrackedRunsItsConfig'
    BY <2>1, StepKeepsTracked, StepKeepsRunning, StepKeepsVersions
  <2>5. HandlesAreHeld' /\ SignalsStayHome' /\ ReusedIsAlone'
    BY <2>1, StepKeepsHandles, StepKeepsReused
  <2>6. QED
    BY <2>2, <2>3, <2>4, <2>5 DEF SupervisorInv
<1>2. QED
  BY <1>1, InitSatisfiesInv, PTL DEF Spec

(* Two processes of one adapter: the record names one of them, and the      *)
(* start under way has emptied it.                                          *)
LEMMA SupervisedOnce == ASSUME SupervisorInv PROVE AdaptersAreSupervised
<1>1. NobodyIsForgotten
  BY DEF SupervisorInv, RunningIsRecorded, NobodyIsForgotten
<1>2. ASSUME NEW p \in Procs \ leaked, NEW q \in Procs \ leaked, Running(p), Running(q),
             process[p].adapter = process[q].adapter
      PROVE  p = q
  <2>1. /\ p \in {job.proc, record[process[p].adapter]}
        /\ q \in {job.proc, record[process[p].adapter]}
    BY <1>2 DEF SupervisorInv, RunningIsRecorded
  <2>2. ASSUME NEW r \in {p, q}, r = job.proc
        PROVE  record[process[p].adapter] = None
    <3>1. job.step = "probe"
      BY <2>2, SupervisorAssumption DEF SupervisorInv, JobShape
    <3>2. QED
      BY <1>2, <2>2, <3>1 DEF SupervisorInv, ProbeIsHeld
  <2>3. QED
    BY <2>1, <2>2, SupervisorAssumption
<1>3. QED
  BY <1>1, <1>2 DEF AdaptersAreSupervised, RunsOnce, SupervisorInv

(* Whatever is interrupted, by a failure or by the death of the daemon, a   *)
(* running adapter is one that somebody can stop, and it runs once.         *)
THEOREM AdaptersStaySupervised == Spec => []AdaptersAreSupervised
BY Invariance, SupervisedOnce, PTL

(* Reloads and their rollbacks leave every supervised adapter running the   *)
(* definition in memory, or named by an error.                              *)
THEOREM DefinitionsAreRun == Spec => []SupervisedRunsItsConfig
<1>1. SupervisorInv => SupervisedRunsItsConfig
  BY DEF SupervisorInv, TrackedRunsItsConfig, RunsItsConfig, SupervisedRunsItsConfig
<1>2. QED
  BY <1>1, Invariance, PTL

(* The pid of an unreaped child cannot be given away: only a handle that    *)
(* was tracked again after its process was reaped can signal a stranger.    *)
THEOREM SignalsAreSafe == Spec => []SignalsStayHome
BY Invariance, PTL DEF SupervisorInv

(* An adapter that was supervised and stays configured comes out of a       *)
(* reload supervised, or named by an error.                                 *)
THEOREM ReloadsKeepAdapters == Spec => ReloadKeepsAdapters
<1> DEFINE Keeps == Publish \/ GiveUp =>
                      \A a \in job.before :
                        config'[a] # None => tracked'[a] # None \/ a \in reported'
<1>1. SupervisorInv => Keeps
  <2>1. SUFFICES ASSUME SupervisorInv, Publish \/ GiveUp, NEW a \in job.before, config'[a] # None
                 PROVE  tracked'[a] # None \/ a \in reported'
    OBVIOUS
  <2>2. a \in Adapters /\ None \notin job.fresh /\ (tracked[a] # None \/ OnItsWay(a))
    BY <2>1, SupervisorAssumption DEF SupervisorInv, SupervisorTypeOK, ReloadLosesNobody
  <2>3. CASE Publish
    <3>1. config'[a] = job.next[a] /\ job.call = "replace" /\ job.todo = {}
      BY <2>3 DEF Publish, Stage
    <3>2. QED
      BY <2>1, <2>2, <2>3, <3>1, PublishedTables DEF OnItsWay
  <2>4. CASE GiveUp
    BY <2>2, <2>4 DEF GiveUp, Stage, OnItsWay, history
  <2>5. QED
    BY <2>1, <2>3, <2>4
<1>2. QED
  BY <1>1, Invariance, PTL DEF Spec, ReloadKeepsAdapters

-----------------------------------------------------------------------------
(* RemoteText.                                                              *)

(* The conjuncts of BufferedTextIsTimed, and the pool the generations come  *)
(* from, which is never exhausted.                                          *)
TextGoesToItsOutput == ~text.empty => text.to \in {output, NoClient}

LiveTimerHasItsText ==
  generation \in timers /\ ~text.empty => text.by # NoClient /\ text.due = generation

WaitingTextHasItsTimer ==
  ~text.empty /\ text.by # NoClient /\ text.to # NoClient /\ ~stopping =>
    text.due = generation /\ generation \in timers

TimersAreBounded == IsFiniteSet(timers) /\ Cardinality(timers) <= MaxTimers

(* The inductive invariant.                                                 *)
RemoteInv ==
  /\ ClientsSeeEachOther
  /\ BufferedTextIsTimed
  /\ TimersAreBounded

-----------------------------------------------------------------------------
(* A generation no pending timer has: there are more of them than timers.   *)
LEMMA FreshIsFree ==
  ASSUME timers \subseteq Generations, TimersAreBounded
  PROVE  Fresh \in Generations /\ Fresh \notin timers
<1>1. IsFiniteSet(Generations) /\ Cardinality(Generations) = MaxTimers + 1
  BY RemoteConstants, FS_Interval DEF Generations
<1>2. \E g \in Generations : g \notin timers
  <2>1. SUFFICES ASSUME Generations \subseteq timers
                 PROVE  FALSE
    OBVIOUS
  <2>2. timers = Generations
    BY <2>1
  <2>3. Cardinality(timers) = MaxTimers + 1
    BY <1>1, <2>2
  <2>4. QED
    BY <2>3, RemoteConstants DEF TimersAreBounded
<1>3. QED
  BY <1>2 DEF Fresh

LEMMA TimersStayBounded ==
  ASSUME RemoteTypeOK, TimersAreBounded, [RemoteNext]_remoteVars
  PROVE  TimersAreBounded'
<1> USE RemoteConstants DEF TimersAreBounded
<1>1. Fresh \in Generations /\ Fresh \notin timers
  BY FreshIsFree DEF RemoteTypeOK
<1>2. ASSUME NEW g, timers' = timers \ {g}
      PROVE  TimersAreBounded'
  <2>1. IsFiniteSet(timers') /\ Cardinality(timers') <= Cardinality(timers)
    BY <1>2, FS_Subset
  <2>2. Cardinality(timers) \in Nat /\ Cardinality(timers') \in Nat
    BY <2>1, FS_CardinalityType
  <2>3. QED
    BY <2>1, <2>2
<1>3. ASSUME Cardinality(timers) < MaxTimers, timers' = timers \cup {Fresh}
      PROVE  TimersAreBounded'
  <2>1. /\ IsFiniteSet(timers')
        /\ Cardinality(timers') = Cardinality(timers) + 1
    BY <1>1, <1>3, FS_AddElement
  <2>2. Cardinality(timers) \in Nat
    BY FS_CardinalityType
  <2>3. QED
    BY <1>3, <2>1, <2>2
<1>4. CASE UNCHANGED timers
  BY <1>4
<1>5. QED
  <2> USE DEF timerVars, remoteVars
  <2>1. ASSUME NEW c \in Clients, Socket(c)
        PROVE  TimersAreBounded'
    <3>1. CASE \E empty \in BOOLEAN : TextUpdate(c, empty)
      BY <1>3, <3>1 DEF TextUpdate, Schedule
    <3>2. CASE ~\E empty \in BOOLEAN : TextUpdate(c, empty)
      <4>1. UNCHANGED timers
        BY <2>1, <3>2 DEF Socket, Connect, Upgrade, Subscribe, Refuse, Claim, ClaimInput,
           ClaimOutput, LeaveLoop, Leave, DisconnectInput, DisconnectOutput, Drained,
           Finalize, Commit
      <4>2. QED
        BY <1>4, <4>1
    <3>3. QED
      BY <3>1, <3>2
  <2>2. ASSUME NEW g \in Generations, Timer(g)
        PROVE  TimersAreBounded'
    BY <1>2, <2>2 DEF Timer, FireDebounce, EndDebounce
  <2>3. CASE Shutdown \/ Join
    BY <1>4, <2>3 DEF Shutdown, Join
  <2>4. QED
    BY <1>4, <2>1, <2>2, <2>3 DEF RemoteNext

-----------------------------------------------------------------------------
(* Types.                                                                   *)
LEMMA NoTextIsText ==
  NoText \in [by : Inputs \cup {NoClient}, to : Outputs \cup {NoClient},
              due : Generations, empty : BOOLEAN]
  BY RemoteConstants DEF NoText, Generations

LEMMA RemoteInitSatisfiesInv == RemoteInit => RemoteInv
<1> SUFFICES ASSUME RemoteInit PROVE RemoteInv
  OBVIOUS
<1> USE RemoteConstants DEF RemoteInit
<1>1. RemoteTypeOK
  <2>1. 0 \in Generations
    BY DEF Generations
  <2>2. QED
    BY <2>1, NoTextIsText DEF RemoteTypeOK
<1>2. ClientsSeeEachOther
  BY <1>1 DEF ClientsSeeEachOther, Clients
<1>3. BufferedTextIsTimed
  BY DEF BufferedTextIsTimed, NoText
<1>4. TimersAreBounded
  BY FS_EmptySet DEF TimersAreBounded
<1>5. QED
  BY <1>2, <1>3, <1>4 DEF RemoteInv

(* The socket of a client that owns the protocol is served, and one that is *)
(* served owns it: what the guards of a client's messages stand for.        *)
LEMMA OwnerIsServed ==
  ASSUME ClientsSeeEachOther, NEW c \in Clients, socket[c] \in {"open", "leaving"}
  PROVE  (c \in Inputs /\ input = c) \/ (c \in Outputs /\ output = c)
BY RemoteConstants DEF ClientsSeeEachOther, RemoteTypeOK, Clients

LEMMA RemoteStepKeepsTypes ==
  ASSUME ClientsSeeEachOther, TimersAreBounded, [RemoteNext]_remoteVars
  PROVE  RemoteTypeOK'
<1> USE RemoteConstants DEF RemoteTypeOK, remoteVars, protocolVars, timerVars
<1>1. RemoteTypeOK
  BY DEF ClientsSeeEachOther
<1>2. Fresh \in Generations
  BY <1>1, FreshIsFree
<1>3. ASSUME NEW c \in Clients, Socket(c)
      PROVE  RemoteTypeOK'
  <2>1. CASE Connect(c) \/ Upgrade(c) \/ Subscribe(c) \/ Refuse(c) \/ Drained(c)
    BY <1>1, <2>1 DEF Connect, Upgrade, Subscribe, Refuse, Drained, SocketIs
  <2>2. CASE Claim(c)
    <3>1. CASE c \in Inputs /\ ClaimInput(c)
      BY <1>1, <3>1 DEF ClaimInput, SocketIs
    <3>2. CASE c \in Outputs /\ ClaimOutput(c)
      BY <1>1, <3>2 DEF ClaimOutput, TellInput, SocketIs
    <3>3. QED
      BY <2>2, <3>1, <3>2 DEF Claim
  <2>3. CASE \E shutdown \in BOOLEAN : LeaveLoop(c, shutdown)
    BY <1>1, <2>3 DEF LeaveLoop, SocketIs
  <2>4. CASE Leave(c)
    BY <1>1, <1>2, <2>4, NoTextIsText
       DEF Leave, DisconnectInput, DisconnectOutput, TellInput, SocketIs, Cancel
  <2>5. CASE \E empty \in BOOLEAN : TextUpdate(c, empty)
    BY <1>1, <1>2, <2>5, NoTextIsText DEF TextUpdate, Schedule
  <2>6. CASE Finalize(c) \/ Commit(c)
    BY <1>1, <1>2, <2>6, NoTextIsText DEF Finalize, Commit, FinalResult, Cancel
  <2>7. QED
    BY <1>3, <2>1, <2>2, <2>3, <2>4, <2>5, <2>6 DEF Socket
<1>4. ASSUME NEW g \in Generations, Timer(g)
      PROVE  RemoteTypeOK'
  BY <1>1, <1>2, <1>4, NoTextIsText
     DEF Timer, FireDebounce, EndDebounce, FinalResult, Cancel
<1>5. CASE Shutdown \/ Join
  BY <1>1, <1>5 DEF Shutdown, Join, SendShutdown
<1>6. CASE UNCHANGED remoteVars
  BY <1>1, <1>6
<1>7. QED
  BY <1>3, <1>4, <1>5, <1>6 DEF RemoteNext

-----------------------------------------------------------------------------
(* The clients and what they know of each other.                            *)
OneOwnerEach == \A c \in Clients : socket[c] \in {"open", "leaving"} <=> c \in {input, output}
BrowserKnows == input # NoClient => told[input] = (output # NoClient)

LEMMA StepKeepsClients ==
  ASSUME RemoteInv, [RemoteNext]_remoteVars
  PROVE  ClientsSeeEachOther'
<1> USE RemoteConstants DEF remoteVars, protocolVars, timerVars
<1>1. RemoteTypeOK /\ OneOwnerEach /\ BrowserKnows
  BY DEF RemoteInv, ClientsSeeEachOther, OneOwnerEach, BrowserKnows
<1>2. RemoteTypeOK'
  BY RemoteStepKeepsTypes DEF RemoteInv
<1>3. ASSUME UNCHANGED <<input, output, told>>,
             \A c \in Clients : socket'[c] \in {"open", "leaving"} <=> socket[c] \in {"open", "leaving"}
      PROVE  OneOwnerEach' /\ BrowserKnows'
  BY <1>1, <1>3 DEF OneOwnerEach, BrowserKnows
<1>4. ASSUME NEW c \in Clients, Socket(c)
      PROVE  OneOwnerEach' /\ BrowserKnows'
  <2> USE DEF RemoteTypeOK, SocketIs
  <2>1. CASE \/ Connect(c) \/ Upgrade(c) \/ Subscribe(c) \/ Refuse(c) \/ Drained(c)
             \/ \E shutdown \in BOOLEAN : LeaveLoop(c, shutdown)
    BY <1>1, <1>3, <2>1 DEF Connect, Upgrade, Subscribe, Refuse, Drained, LeaveLoop
  <2>2. CASE c \in Inputs /\ ClaimInput(c)
    BY <1>1, <2>2 DEF ClaimInput, OneOwnerEach, BrowserKnows, Clients
  <2>3. CASE c \in Outputs /\ ClaimOutput(c)
    BY <1>1, <2>3 DEF ClaimOutput, TellInput, OneOwnerEach, BrowserKnows, Clients
  <2>4. CASE DisconnectInput(c)
    BY <1>1, <2>4 DEF DisconnectInput, OneOwnerEach, BrowserKnows, Clients
  <2>5. CASE DisconnectOutput(c)
    BY <1>1, <2>5 DEF DisconnectOutput, TellInput, OneOwnerEach, BrowserKnows, Clients
  <2>6. CASE (\E empty \in BOOLEAN : TextUpdate(c, empty)) \/ Finalize(c) \/ Commit(c)
    BY <1>3, <2>6 DEF TextUpdate, Finalize, Commit
  <2>7. QED
    BY <1>4, <2>1, <2>2, <2>3, <2>4, <2>5, <2>6 DEF Socket, Claim, Leave
<1>5. ASSUME NEW g \in Generations, Timer(g)
      PROVE  OneOwnerEach' /\ BrowserKnows'
  BY <1>3, <1>5 DEF Timer, FireDebounce, EndDebounce
<1>6. ASSUME Shutdown \/ Join \/ UNCHANGED remoteVars
      PROVE  OneOwnerEach' /\ BrowserKnows'
  <2>1. UNCHANGED <<socket, input, output, told>>
    BY <1>6 DEF Shutdown, Join
  <2>2. QED
    BY <1>3, <2>1
<1>7. OneOwnerEach' /\ BrowserKnows'
  BY <1>4, <1>5, <1>6 DEF RemoteNext
<1>8. QED
  BY <1>2, <1>7 DEF ClientsSeeEachOther, OneOwnerEach, BrowserKnows

-----------------------------------------------------------------------------
(* The text and its timer.  What is sent is sent to the output it was typed *)
(* for, so nothing to send means nothing addressed to anybody.              *)
TextIsTimed == TextGoesToItsOutput /\ LiveTimerHasItsText /\ WaitingTextHasItsTimer

LEMMA TextIsTimedDef == BufferedTextIsTimed <=> TextIsTimed
BY DEF BufferedTextIsTimed, TextIsTimed, TextGoesToItsOutput, LiveTimerHasItsText,
       WaitingTextHasItsTimer

(* FinalResult, once every timer that could act has been cancelled.         *)
LEMMA FinalResultIsTimed ==
  ASSUME TextIsTimed, FinalResult, UNCHANGED <<output, stopping>>,
         generation' \notin timers'
  PROVE  TextIsTimed'
BY DEF TextIsTimed, TextGoesToItsOutput, LiveTimerHasItsText, WaitingTextHasItsTimer,
       FinalResult, NoText

LEMMA StepKeepsTextTimed ==
  ASSUME RemoteInv, [RemoteNext]_remoteVars
  PROVE  BufferedTextIsTimed'
<1> USE RemoteConstants DEF remoteVars, protocolVars, timerVars
<1>1. RemoteTypeOK /\ TextIsTimed
  BY TextIsTimedDef DEF RemoteInv, ClientsSeeEachOther
<1>2. Fresh \in Generations /\ Fresh \notin timers
  BY <1>1, FreshIsFree DEF RemoteInv, RemoteTypeOK
<1> USE DEF TextIsTimed, TextGoesToItsOutput, LiveTimerHasItsText, WaitingTextHasItsTimer
<1>3. ASSUME UNCHANGED <<text, generation, timers, output>>, stopping => stopping'
      PROVE  TextIsTimed'
  BY <1>1, <1>3
<1>4. ASSUME NEW c \in Clients, Socket(c)
      PROVE  TextIsTimed'
  <2>1. CASE \/ Connect(c) \/ Upgrade(c) \/ Subscribe(c) \/ Refuse(c) \/ Drained(c)
             \/ \E shutdown \in BOOLEAN : LeaveLoop(c, shutdown)
    BY <1>3, <2>1 DEF Connect, Upgrade, Subscribe, Refuse, Drained, LeaveLoop
  <2>2. CASE Claim(c)
    BY <1>1, <2>2 DEF Claim, ClaimInput, ClaimOutput
  <2>3. CASE DisconnectInput(c)
    BY <1>1, <1>2, <2>3 DEF DisconnectInput, Cancel, RemoteTypeOK
  <2>4. CASE DisconnectOutput(c)
    BY <2>4 DEF DisconnectOutput, NoText
  <2>5. ASSUME NEW empty \in BOOLEAN, TextUpdate(c, empty)
        PROVE  TextIsTimed'
    BY <2>5 DEF TextUpdate, Schedule, NoText, Clients
  <2>6. CASE Finalize(c) \/ Commit(c)
    <3>1. generation' \notin timers'
      BY <1>2, <2>6 DEF Finalize, Commit, Cancel
    <3>2. FinalResult /\ UNCHANGED <<output, stopping>>
      BY <2>6 DEF Finalize, Commit
    <3>3. QED
      BY <1>1, <3>1, <3>2, FinalResultIsTimed
  <2>7. QED
    BY <1>4, <2>1, <2>2, <2>3, <2>4, <2>5, <2>6 DEF Socket, Leave
<1>5. ASSUME NEW g \in Generations, Timer(g)
      PROVE  TextIsTimed'
  <2>1. CASE FireDebounce(g) /\ generation = g
    <3>1. generation' \notin timers'
      BY <1>2, <2>1 DEF FireDebounce, Cancel
    <3>2. FinalResult /\ UNCHANGED <<output, stopping>>
      BY <2>1 DEF FireDebounce
    <3>3. QED
      BY <1>1, <3>1, <3>2, FinalResultIsTimed
  <2>2. CASE FireDebounce(g) /\ generation # g
    BY <1>1, <2>2 DEF FireDebounce
  <2>3. CASE EndDebounce(g)
    BY <1>1, <2>3 DEF EndDebounce
  <2>4. QED
    BY <1>5, <2>1, <2>2, <2>3 DEF Timer
<1>6. ASSUME Shutdown \/ Join \/ UNCHANGED remoteVars
      PROVE  TextIsTimed'
  <2>1. UNCHANGED <<text, generation, timers, output>>
    BY <1>6 DEF Shutdown, Join
  <2>2. stopping => stopping'
    BY <1>6, Zenon DEF Shutdown, Join, SendShutdown
  <2>3. QED
    BY <1>3, <2>1, <2>2
<1>7. TextIsTimed'
  BY <1>4, <1>5, <1>6 DEF RemoteNext
<1>8. QED
  BY <1>7 DEF BufferedTextIsTimed

-----------------------------------------------------------------------------
(* The theorems.                                                            *)
LEMMA RemoteInvariance == RemoteSpec => []RemoteInv
<1>1. RemoteInv /\ [RemoteNext]_remoteVars => RemoteInv'
  <2>1. SUFFICES ASSUME RemoteInv, [RemoteNext]_remoteVars
                 PROVE  RemoteInv'
    OBVIOUS
  <2>2. RemoteTypeOK
    BY <2>1 DEF RemoteInv, ClientsSeeEachOther
  <2>3. TimersAreBounded'
    BY <2>1, <2>2, TimersStayBounded DEF RemoteInv
  <2>4. QED
    BY <2>1, <2>3, StepKeepsClients, StepKeepsTextTimed DEF RemoteInv
<1>2. QED
  BY <1>1, RemoteInitSatisfiesInv, PTL DEF RemoteSpec

(* The protocol belongs to the sockets that remote/server.rs serves, one of *)
(* each kind however many try, and the browser knows whether there is an    *)
(* output.                                                                  *)
THEOREM ClientsAreSeen == RemoteSpec => []ClientsSeeEachOther
BY RemoteInvariance, PTL DEF RemoteInv

(* No text reaches an output it was not typed for, and a text between two   *)
(* clients has its own timer and nobody else's.                             *)
THEOREM TextIsBuffered == RemoteSpec => []BufferedTextIsTimed
BY RemoteInvariance, PTL DEF RemoteInv

(* remote.rs compares generations when a timer fires: it sends the text it  *)
(* was scheduled for, or nothing.                                           *)
THEOREM TimersSendTheirOwn == RemoteSpec => TimersSendTheirText
<1> DEFINE Own == \A g \in timers \ timers' :
                    ~text.empty /\ text'.empty => text.due = g /\ text.by # NoClient
<1>1. RemoteInv /\ [RemoteNext]_remoteVars => Own
  <2>1. SUFFICES ASSUME RemoteInv, [RemoteNext]_remoteVars, NEW g \in timers \ timers',
                        ~text.empty, text'.empty
                 PROVE  text.due = g /\ text.by # NoClient
    OBVIOUS
  <2>2. TextIsTimed
    BY <2>1, TextIsTimedDef DEF RemoteInv
  <2>3. ASSUME NEW c \in Clients, Socket(c)
        PROVE  FALSE
    <3>1. timers \subseteq timers'
      BY <2>3 DEF Socket, Connect, Upgrade, Subscribe, Refuse, Claim, ClaimInput,
         ClaimOutput, LeaveLoop, Leave, DisconnectInput, DisconnectOutput, Drained,
         TextUpdate, Schedule, Finalize, Commit, timerVars
    <3>2. QED
      BY <2>1, <3>1
  <2>4. PICK h \in Generations : Timer(h)
    BY <2>1, <2>3 DEF RemoteNext, Shutdown, Join, remoteVars, timerVars
  <2>5. g = h /\ FireDebounce(h) /\ generation = h
    BY <2>1, <2>4 DEF Timer, FireDebounce, EndDebounce, protocolVars
  <2>6. QED
    BY <2>1, <2>2, <2>5 DEF TextIsTimed, LiveTimerHasItsText
<1>2. QED
  BY <1>1, RemoteInvariance, PTL DEF RemoteSpec, TimersSendTheirText
=============================================================================
