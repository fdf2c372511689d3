------------------------- MODULE AdapterSupervisor -------------------------
(* The supervisor of long-running text adapters: runtime/adapter_process.rs *)
(* of the daemon on top of vinpst-text/src/adapter_runtime.rs and the       *)
(* process groups of vinpst-process.  Every call holds the runtime lock, so *)
(* calls do not overlap; what interleaves with their steps is the system:   *)
(* adapters that exit, their helpers, pids that are given to other          *)
(* programs, and the daemon itself, killed at any point and started again.  *)
(*                                                                          *)
(* A process and its start time are one identity, a member of Procs; one    *)
(* that nothing refers to any more stands for the next process.  SIGTERM    *)
(* only invites an adapter to exit, which it may do at any time.  SIGKILL   *)
(* ends a group unless its leader is stuck in the kernel.  Waiting for a    *)
(* tracked child, whose pid cannot be given away before it is reaped, is    *)
(* one step with the signals before it.                                     *)
EXTENDS Naturals, FiniteSets

CONSTANTS Adapters, Versions,   \* adapter ids, and the definitions one can have
          Procs,                \* bounds the processes something refers to
          None                  \* no adapter, definition or process

ASSUME SupervisorAssumption == None \notin Adapters \cup Procs \cup Versions

VARIABLES
  process,   \* per process: adapter, version, leader, helpers, child
  record,    \* the pid files: the process an adapter's record describes
  config,    \* the adapter definitions in memory
  tracked,   \* adapter_processes: the Child handles of the daemon
  job,       \* the call that holds the lock, and how far it is
  leaked,    \* history: processes whose start ended before a record existed
  reported,  \* history: adapters a rollback error has named
  unremoved, \* history: a reaped handle was tracked again, see StopForReload
  astray     \* history: a tracked group's signal went to another program

history == <<leaked, reported, unremoved, astray>>
vars    == <<process, record, config, tracked, job, history>>

Configs == [Adapters -> Versions \cup {None}]
NoJob   == [step |-> "none", call |-> "none", adapter |-> None, proc |-> None,
            next |-> [a \in Adapters |-> None], plans |-> {}, stopped |-> {},
            todo |-> {}, fresh |-> {}, before |-> {}]
AtRest  == job.step = "none"

(* Mutant: only adapters that were to be replaced are restored.             *)
Rollback_Replaced ==
  [job EXCEPT !.step = "reload", !.call = "restore", !.adapter = None, !.plans = {},
              !.fresh = {}, !.todo = {a \in job.stopped : job.next[a] # None}]

(* A reload that has failed goes on to restart_old_adapters.                *)
Rollback ==
  [job EXCEPT !.step = "reload", !.call = "restore", !.adapter = None, !.plans = {},
              !.fresh = {}, !.todo = job.stopped]

-----------------------------------------------------------------------------
(* Processes.  A group exists, and keeps its pid, as long as its leader is  *)
(* not reaped or a helper is alive; the leader is "reused" when the pid     *)
(* belongs to another program since.                                        *)
Gone == [adapter |-> None, version |-> None, leader |-> "gone",
         helpers |-> FALSE, child |-> FALSE]

Running(p) == process[p].leader = "running"
Reused(p)  == process[p].leader = "reused"
Exists(p)  == process[p].leader \in {"running", "zombie"} \/ process[p].helpers

Referenced(p) ==
  p \in job.fresh \cup {job.proc} \/ \E a \in Adapters : p \in {record[a], tracked[a]}

(* An unreaped child stays as a zombie, an orphan is reaped by init.        *)
Ended(p) ==
  IF ~Running(p) THEN process[p]
  ELSE IF process[p].child THEN [process[p] EXCEPT !.leader = "zombie"]
  ELSE IF process[p].helpers THEN [process[p] EXCEPT !.leader = "gone"]
  ELSE Gone

LeaderExits(p) ==
  /\ Running(p)
  /\ process' = [process EXCEPT ![p] = Ended(p)]
  /\ UNCHANGED <<record, config, tracked, job, history>>

(* Helpers of a live adapter come and go; what counts is whether some are   *)
(* left behind.                                                             *)
HelpersStart(p) ==
  /\ Running(p) /\ ~process[p].helpers
  /\ process' = [process EXCEPT ![p].helpers = TRUE]
  /\ UNCHANGED <<record, config, tracked, job, history>>

HelpersExit(p) ==
  /\ process[p].helpers /\ ~Running(p)
  /\ process' = [process EXCEPT ![p] = IF @.leader = "gone" THEN Gone
                                       ELSE [@ EXCEPT !.helpers = FALSE]]
  /\ UNCHANGED <<record, config, tracked, job, history>>

PidIsReused(p) ==
  /\ ~Exists(p) /\ ~Reused(p) /\ Referenced(p)
  /\ process' = [process EXCEPT ![p].leader = "reused"]
  /\ UNCHANGED <<record, config, tracked, job, history>>

-----------------------------------------------------------------------------
(* process_record_state                                                     *)
RecordState(p) ==
  CASE Running(p)                     -> "running"
    [] process[p].leader = "zombie"   -> "exited"
    [] Reused(p)                      -> "mismatched"
    [] OTHER                          -> "missing"

(* terminate_child_process_group of a handle in the set hs, or the poll     *)
(* try_wait_child_and_cleanup: those in "cleaned" are reaped, their helpers *)
(* killed first, while the zombie reserves the pid.  Of a handle that was   *)
(* reaped before, waitid fails and kill_process_group signals whoever has   *)
(* the pid now.                                                             *)
Signalled(hs, cleaned) ==
  /\ process' = [p \in Procs |-> IF p \in cleaned THEN Gone ELSE process[p]]
  /\ astray' = (astray \/ \E p \in hs : Reused(p))

Handles(hs) == {p \in hs : process[p].leader \in {"running", "zombie"}}

-----------------------------------------------------------------------------
(* start_adapter_process, in two steps: a daemon that is killed between     *)
(* them leaves a process without a record.                                  *)

(* What its callers do with the result, start_text_adapter first.           *)
StartReturns(ok) ==
  /\ job.call = "start"
  /\ job' = NoJob
  /\ tracked' = IF ok THEN [tracked EXCEPT ![job.adapter] = job.proc] ELSE tracked
  /\ reported' = IF ok THEN reported \ {job.adapter} ELSE reported

ReplacementReturns(ok) ==
  /\ job.call = "replace"
  /\ job' = [job EXCEPT !.step = "reload", !.adapter = None, !.proc = None,
                        !.call = IF ok THEN "replace" ELSE "undo",
                        !.fresh = IF ok THEN @ \cup {job.proc} ELSE @,
                        !.todo = @ \ {job.adapter}]
  /\ UNCHANGED <<tracked, reported>>

RestorationReturns(ok) ==
  /\ job.call = "restore"
  /\ job' = [job EXCEPT !.step = "reload", !.adapter = None, !.proc = None,
                        !.todo = @ \ {job.adapter}]
  /\ tracked' = IF ok THEN [tracked EXCEPT ![job.adapter] = job.proc] ELSE tracked
  /\ reported' = IF ok THEN reported \ {job.adapter} ELSE reported \cup {job.adapter}

Started(ok) == StartReturns(ok) \/ ReplacementReturns(ok) \/ RestorationReturns(ok)

(* Mutant: a rollback starts the definition it should undo.                 *)
Definition_Next(a) == IF job.call = "start" THEN config[a] ELSE job.next[a]

(* A replacement gets the new definition, every other start the current one.*)
Definition(a) == IF job.call = "replace" THEN job.next[a] ELSE config[a]

(* prepare_adapter_pid_slot refuses a live record and removes a stale one,  *)
(* which may fail; then the child is spawned, which may fail as well.       *)
PrepareSlot ==
  LET a == job.adapter
      r == record[a]
      free == IF r = None THEN TRUE ELSE RecordState(r) # "running"
  IN
  /\ job.step = "slot"
  /\ \/ /\ free
        /\ record' = [record EXCEPT ![a] = None]
        /\ \E p \in Procs :
             /\ ~Exists(p) /\ ~Referenced(p)
             /\ process' = [process EXCEPT ![p] =
                  [adapter |-> a, version |-> Definition(a), leader |-> "running",
                   helpers |-> FALSE, child |-> TRUE]]
             /\ job' = [job EXCEPT !.step = "probe", !.proc = p]
             /\ leaked' = leaked \ {p}
        /\ UNCHANGED <<tracked, reported>>
     \/ /\ record' \in {record} \cup IF free THEN {[record EXCEPT ![a] = None]} ELSE {}
        /\ Started(FALSE)
        /\ UNCHANGED <<process, leaked>>
  /\ UNCHANGED <<config, unremoved, astray>>

(* probe_adapter_startup, read_process_identity and write_pid_record.  A    *)
(* process that exits while it is watched, or whose record cannot be        *)
(* written, is killed and reaped.  One whose /proc entry cannot be read is  *)
(* left alone by the `?` of adapter_runtime.rs:450.                         *)
Probe ==
  LET p == job.proc IN
  /\ job.step = "probe"
  /\ \/ /\ record' = [record EXCEPT ![job.adapter] = p]
        /\ Started(TRUE)
        /\ UNCHANGED <<process, leaked>>
     \/ /\ process' = [process EXCEPT ![p] = Gone]
        /\ Started(FALSE)
        /\ UNCHANGED <<record, leaked>>
     \/ /\ leaked' = leaked \cup {p}
        /\ Started(FALSE)
        /\ UNCHANGED <<process, record>>
  /\ UNCHANGED <<config, unremoved, astray>>

-----------------------------------------------------------------------------
(* stop_adapter_process: an adapter of an earlier daemon, or one whose      *)
(* handle was given up, is stopped by its record.  The signals of this path *)
(* rest on the last comparison of start times, and are not followed here.   *)

(* What stop_text_adapter and stop_adapter_for_reload do with the result.   *)
UntrackedStopped(outcome) ==
  \/ /\ job.call = "stop"
     /\ job' = NoJob
  \/ /\ job.call = "stopping"
     /\ job' = IF outcome = "error" THEN Rollback
               ELSE [job EXCEPT !.step = "reload", !.adapter = None,
                                !.plans = @ \ {job.adapter},
                                !.stopped = IF outcome = "stopped"
                                            THEN @ \cup {job.adapter} ELSE @]

RemoveRecordThen(outcome) ==
  \/ /\ record' = [record EXCEPT ![job.adapter] = None]
     /\ UntrackedStopped(outcome)
  \/ UNCHANGED record /\ UntrackedStopped("error")

CheckRecord ==
  LET r == record[job.adapter] IN
  /\ job.step = "check"
  /\ \/ /\ r = None
        /\ UntrackedStopped("notRunning")
        /\ UNCHANGED record
     \/ /\ r # None /\ RecordState(r) # "running"
        /\ RemoveRecordThen("notRunning")
     \/ /\ r # None /\ RecordState(r) = "running"
        /\ job' = [job EXCEPT !.step = "terminated"]
        /\ UNCHANGED record
     \/ UntrackedStopped("error") /\ UNCHANGED record
  /\ UNCHANGED <<process, config, tracked, history>>

(* A killed group: its helpers are dead, its leader not reaped if a child.  *)
Killed(p) == IF process[p].leader # "gone" /\ process[p].child
             THEN [process[p] EXCEPT !.leader = "zombie", !.helpers = FALSE]
             ELSE Gone

(* wait_for_record_cleanup, after either signal: the group is seen to be    *)
(* over, or /proc cannot be read, or the time after the kill is up.         *)
AwaitRecord ==
  LET r == record[job.adapter] IN
  /\ job.step \in {"terminated", "killed"}
  /\ \/ /\ RecordState(r) \in {"missing", "exited"} /\ ~process[r].helpers
        /\ RemoveRecordThen("stopped")
     \/ /\ RecordState(r) = "mismatched"
        /\ RemoveRecordThen("notRunning")
     \/ UntrackedStopped("error") /\ UNCHANGED record
  /\ UNCHANGED <<process, config, tracked, history>>

KillRecorded ==
  LET r == record[job.adapter] IN
  /\ job.step = "terminated" /\ Exists(r)
  /\ job' = [job EXCEPT !.step = "killed"]
  /\ \/ process' = [process EXCEPT ![r] = Killed(r)]
     \/ UNCHANGED process
  /\ UNCHANGED <<record, config, tracked, history>>

-----------------------------------------------------------------------------
(* The calls.                                                               *)

StartTextAdapter(a) ==
  /\ AtRest
  /\ tracked[a] = None /\ config[a] # None
  /\ job' = [NoJob EXCEPT !.step = "slot", !.call = "start", !.adapter = a]
  /\ UNCHANGED <<process, record, config, tracked, history>>

(* Mutant: the record is removed whatever became of the process.            *)
StopTracked_ForgetsSurvivor(a) ==
  LET p == tracked[a] IN
  /\ AtRest
  /\ p # None /\ config[a] # None
  /\ tracked' = [tracked EXCEPT ![a] = None]
  /\ \E cleaned \in SUBSET Handles({p}) : Signalled({p}, cleaned)
  /\ record' = [record EXCEPT ![a] = None]
  /\ UNCHANGED <<config, job, leaked, reported, unremoved>>

(* Whatever terminate_child_process_group and the removal of the record     *)
(* come to, the handle is given up.                                         *)
StopTracked(a) ==
  LET p == tracked[a] IN
  /\ AtRest
  /\ p # None /\ config[a] # None
  /\ tracked' = [tracked EXCEPT ![a] = None]
  /\ \E cleaned \in SUBSET Handles({p}) :
       /\ Signalled({p}, cleaned)
       /\ record' \in {record} \cup
            IF cleaned # {} THEN {[record EXCEPT ![a] = None]} ELSE {}
  /\ UNCHANGED <<config, job, leaked, reported, unremoved>>

StopUntracked(a) ==
  /\ AtRest
  /\ tracked[a] = None /\ config[a] # None
  /\ job' = [NoJob EXCEPT !.step = "check", !.call = "stop", !.adapter = a]
  /\ UNCHANGED <<process, record, config, tracked, history>>

(* Mutant: a child whose record cannot be removed stays in the table.       *)
RefreshTextAdapters_KeepsUnremoved ==
  LET handles == {tracked[a] : a \in Adapters} \ {None}
      exited  == {p \in handles : process[p].leader = "zombie"}
  IN
  /\ AtRest
  /\ Signalled(handles, exited)
  /\ \E removed \in SUBSET {a \in Adapters : tracked[a] \in exited} :
       /\ tracked' = [a \in Adapters |-> IF a \in removed THEN None ELSE tracked[a]]
       /\ record' = [a \in Adapters |-> IF a \in removed THEN None ELSE record[a]]
  /\ UNCHANGED <<config, job, leaked, reported, unremoved>>

(* refresh_text_adapters, ten times a second: exited children are reaped,   *)
(* their records removed if that can be done.                               *)
RefreshTextAdapters ==
  LET handles == {tracked[a] : a \in Adapters} \ {None}
      exited  == {p \in handles : process[p].leader = "zombie"}
  IN
  /\ AtRest
  /\ Signalled(handles, exited)
  /\ tracked' = [a \in Adapters |-> IF tracked[a] \in exited THEN None ELSE tracked[a]]
  /\ \E removed \in SUBSET {a \in Adapters : tracked[a] \in exited} :
       record' = [a \in Adapters |-> IF a \in removed THEN None ELSE record[a]]
  /\ UNCHANGED <<config, job, leaked, reported, unremoved>>

-----------------------------------------------------------------------------
(* reconcile_reconfigured_text_adapters for the configuration next.         *)
Reconcile(next) ==
  /\ AtRest
  /\ job' = [NoJob EXCEPT
       !.step = "reload", !.call = "stopping", !.next = next,
       !.plans = {a \in Adapters : config[a] # None /\ next[a] # config[a]},
       !.before = {a \in Adapters : tracked[a] # None}]
  /\ UNCHANGED <<process, record, config, tracked, history>>

Stage(call) == job.step = "reload" /\ job.call = call

(* stop_adapter_for_reload of a tracked adapter: an error puts the handle   *)
(* back, even when it has been reaped and only the record is still there.   *)
StopForReload(a) ==
  LET p == tracked[a] IN
  /\ Stage("stopping") /\ a \in job.plans
  /\ p # None
  /\ \/ /\ p \in Handles({p})
        /\ Signalled({p}, {p})
        /\ tracked' = [tracked EXCEPT ![a] = None]
        /\ record' = [record EXCEPT ![a] = None]
        /\ job' = [job EXCEPT !.plans = @ \ {a}, !.stopped = @ \cup {a}]
        /\ UNCHANGED unremoved
     \/ /\ \E cleaned \in SUBSET Handles({p}) :
             /\ Signalled({p}, cleaned)
             /\ unremoved' = (unremoved \/ cleaned # {})
        /\ job' = Rollback
        /\ UNCHANGED <<tracked, record>>
  /\ UNCHANGED <<config, leaked, reported>>

StopUntrackedForReload(a) ==
  /\ Stage("stopping") /\ a \in job.plans
  /\ tracked[a] = None
  /\ job' = [job EXCEPT !.step = "check", !.adapter = a]
  /\ UNCHANGED <<process, record, config, tracked, history>>

AllStopped ==
  /\ Stage("stopping") /\ job.plans = {}
  /\ job' = [job EXCEPT !.call = "replace",
                        !.todo = {a \in job.stopped : job.next[a] # None}]
  /\ UNCHANGED <<process, record, config, tracked, history>>

(* The replacement, or in a rollback the old definition, of an adapter.     *)
StartNext(a) ==
  /\ Stage("replace") \/ Stage("restore")
  /\ a \in job.todo
  /\ job' = [job EXCEPT !.step = "slot", !.adapter = a]
  /\ UNCHANGED <<process, record, config, tracked, history>>

Publish ==
  /\ Stage("replace") /\ job.todo = {}
  /\ tracked' = [a \in Adapters |->
       IF \E p \in job.fresh : process[p].adapter = a
       THEN CHOOSE p \in job.fresh : process[p].adapter = a ELSE tracked[a]]
  /\ config' = job.next
  /\ reported' = reported \ {process[p].adapter : p \in job.fresh}
  /\ job' = NoJob
  /\ UNCHANGED <<process, record, leaked, unremoved, astray>>

(* stop_prestarted_adapters: a replacement that cannot be stopped, or whose *)
(* record cannot be removed, becomes a tracked one.                         *)
StopPrestarted ==
  /\ Stage("undo")
  /\ \E cleaned \in SUBSET job.fresh : \E removed \in SUBSET cleaned :
       LET kept == job.fresh \ removed
           of(a, ps) == \E p \in ps : process[p].adapter = a
       IN
       /\ Signalled(job.fresh, cleaned)
       /\ record' = [a \in Adapters |-> IF of(a, removed) THEN None ELSE record[a]]
       /\ tracked' = [a \in Adapters |->
            IF of(a, kept) THEN CHOOSE p \in kept : process[p].adapter = a ELSE tracked[a]]
       /\ reported' = reported \cup {a \in Adapters : of(a, kept)}
       /\ unremoved' = (unremoved \/ cleaned # removed)
  /\ job' = Rollback
  /\ UNCHANGED <<config, leaked>>

GiveUp ==
  /\ Stage("restore") /\ job.todo = {}
  /\ job' = NoJob
  /\ UNCHANGED <<process, record, config, tracked, history>>

-----------------------------------------------------------------------------
(* The daemon is gone: its children are init's, its zombies are reaped; a   *)
(* new one loads the file, which has the configuration in memory or the one *)
(* that was about to be adopted.                                            *)
Orphaned(ps) ==
  [p \in Procs |->
     IF ps[p].leader # "zombie" THEN [ps[p] EXCEPT !.child = FALSE]
     ELSE IF ps[p].helpers THEN [ps[p] EXCEPT !.child = FALSE, !.leader = "gone"]
     ELSE Gone]

Restarted ==
  /\ config' \in {config} \cup IF job.call \in {"none", "start", "stop"} THEN {} ELSE {job.next}
  /\ tracked' = [a \in Adapters |-> None]
  /\ job' = NoJob
  /\ reported' = {}

(* Killed at any point, with a start between its two steps perhaps.         *)
Crash ==
  /\ process' = Orphaned(process)
  /\ leaked' = leaked \cup IF job.step = "probe" THEN {job.proc} ELSE {}
  /\ Restarted
  /\ UNCHANGED <<record, unremoved, astray>>

(* Drop of the runtime at an orderly exit stops what is tracked, and        *)
(* ignores what cannot be stopped.                                          *)
Exit ==
  LET handles == {tracked[a] : a \in Adapters} \ {None} IN
  /\ AtRest
  /\ \E cleaned \in SUBSET Handles(handles) : \E removed \in SUBSET cleaned :
       /\ process' = Orphaned([p \in Procs |->
                       IF p \in cleaned THEN Gone ELSE process[p]])
       /\ record' = [a \in Adapters |-> IF tracked[a] \in removed THEN None ELSE record[a]]
  /\ astray' = (astray \/ \E p \in handles : Reused(p))
  /\ Restarted
  /\ UNCHANGED <<leaked, unremoved>>

-----------------------------------------------------------------------------
Init ==
  /\ process = [p \in Procs |-> Gone]
  /\ record = [a \in Adapters |-> None]
  /\ config \in Configs
  /\ tracked = [a \in Adapters |-> None]
  /\ job = NoJob
  /\ leaked = {} /\ reported = {} /\ unremoved = FALSE /\ astray = FALSE

Environment ==
  \E p \in Procs : LeaderExits(p) \/ HelpersStart(p) \/ HelpersExit(p) \/ PidIsReused(p)

Calls ==
  \/ \E a \in Adapters : StartTextAdapter(a) \/ StopTracked(a) \/ StopUntracked(a)
  \/ RefreshTextAdapters
  \/ \E next \in Configs : Reconcile(next)

Steps ==
  \/ PrepareSlot \/ Probe
  \/ CheckRecord \/ AwaitRecord \/ KillRecorded
  \/ \E a \in Adapters : StopForReload(a) \/ StopUntrackedForReload(a) \/ StartNext(a)
  \/ AllStopped \/ Publish \/ StopPrestarted \/ GiveUp

Next == Environment \/ Calls \/ Steps \/ Crash \/ Exit

Spec == Init /\ [][Next]_vars

-----------------------------------------------------------------------------
(* Properties.                                                              *)

SupervisorTypeOK ==
  /\ process \in [Procs -> [adapter : Adapters \cup {None}, version : Versions \cup {None},
                            leader : {"running", "zombie", "gone", "reused"},
                            helpers : BOOLEAN, child : BOOLEAN]]
  /\ record \in [Adapters -> Procs \cup {None}]
  /\ tracked \in [Adapters -> Procs \cup {None}]
  /\ config \in Configs
  /\ job \in [step : {"none", "slot", "probe", "check", "terminated", "killed", "reload"},
              call : {"none", "start", "stop", "stopping", "replace", "undo", "restore"},
              adapter : Adapters \cup {None}, proc : Procs \cup {None},
              next : [Adapters -> Versions \cup {None}], plans : SUBSET Adapters,
              stopped : SUBSET Adapters, todo : SUBSET Adapters, fresh : SUBSET Procs,
              before : SUBSET Adapters]
  /\ leaked \subseteq Procs /\ reported \subseteq Adapters
  /\ unremoved \in BOOLEAN /\ astray \in BOOLEAN

(* A running adapter can be stopped by somebody: it is tracked or has its   *)
(* record, also after the daemon was killed in the middle of a reload, but  *)
(* for a start that ended, by a crash or by an unreadable /proc entry,      *)
(* between its spawn and its record.                                        *)
NobodyIsForgotten ==
  \A p \in Procs : Running(p) =>
    p \in leaked \cup {job.proc} \/ p \in {tracked[process[p].adapter], record[process[p].adapter]}

(* No adapter runs twice, whichever daemon started it.                      *)
RunsOnce ==
  \A p, q \in Procs \ leaked :
    Running(p) /\ Running(q) /\ process[p].adapter = process[q].adapter => p = q

AdaptersAreSupervised ==
  SupervisorTypeOK /\ NobodyIsForgotten /\ RunsOnce

(* Between calls a supervised adapter runs the definition in memory, after  *)
(* any sequence of reloads that were adopted or rolled back, unless a       *)
(* rollback error has named it.                                             *)
SupervisedRunsItsConfig ==
  AtRest =>
    \A a \in Adapters :
      tracked[a] # None /\ Running(tracked[a]) /\ a \notin reported =>
        process[tracked[a]].version = config[a]

(* A reload, adopted or rolled back, leaves every supervised adapter that   *)
(* stays configured supervised, unless a rollback error names it.           *)
ReloadKeepsAdapters ==
  [][Publish \/ GiveUp =>
       \A a \in job.before :
         config'[a] # None => tracked'[a] # None \/ a \in reported']_vars

(* Stopping, polling and dropping a tracked child never signals the process *)
(* group of another program, unless a reload has tracked a reaped handle    *)
(* again because its record could not be removed.                           *)
SignalsStayHome == astray => unremoved
=============================================================================
