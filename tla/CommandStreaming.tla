-------------------------- MODULE CommandStreaming --------------------------
(* One session of a `.streaming` command provider and its helper process:   *)
(* command_streaming.rs, with the supervision primitives of vinpst-process. *)
(* The daemon calls the session under its mutex, so one call runs at a      *)
(* time; the helper reads, writes and exits at any moment in between.       *)
(*                                                                          *)
(* A step is one system call that the helper can be seen by: a read of its  *)
(* stdout, a wait for its exit, a write to its stdin, its termination.      *)
(* Audio is the number of its push, a line of the helper is its event and   *)
(* is written and read whole; of the partial texts, which only pass         *)
(* through, it is known whether some wait to be read.  stderr, which is     *)
(* read by the same loop behind stdout, is left out.  Time is whether the   *)
(* deadline of the current write or wait has passed.                        *)
EXTENDS Naturals, Sequences, SequencesExt

CONSTANTS MaxPushes, MaxLines     \* bounds: audio pushed, lines of the helper

ASSUME StreamingConstants == MaxPushes \in Nat /\ MaxLines \in Nat

Lines == {"final", "error", "closed", "malformed"}

VARIABLES
  \* the session
  lifecycle, pending, events, flags, call, late,
  \* the helper and its pipes
  child, known, stdin, heard, stdout, buffer,
  chatter,     \* partial texts wait to be read
  fed,         \* the pump under way has read something
  \* history
  pushed, said, dropped, survived, broken, completions

session == <<lifecycle, pending, events, flags>>
helper  == <<child, known, stdin, heard, stdout, buffer, chatter, fed>>
history == <<pushed, said, dropped, survived, broken, completions>>
vars    == <<session, call, late, helper, history>>

(* child: none (never spawned, or given up), running, exited well or badly, *)
(* reaped by a call that did not get to note it; known: exit_status.        *)
Exited   == child \in {"exited", "failed"}
Free     == call.name = "free"
NoCall   == [name |-> "free", pc |-> "free", next |-> "free", line |-> <<>>,
             after |-> "free", got |-> <<>>, result |-> "none"]
At(pc)   == call.pc = pc
Goto(pc) == call' = [call EXCEPT !.pc = pc]

(* A call begins, at pc or with a pump; what a finish came to is kept until *)
(* the next finish or a cancel.                                             *)
Begins(name, pc, next) ==
  call' = [NoCall EXCEPT !.name = name, !.pc = pc, !.next = next,
                         !.result = IF name \in {"finish", "cancel"} THEN "none" ELSE call.result]

(* pump_io, then pc.                                                        *)
PumpThen(pc) == call' = [call EXCEPT !.pc = "read", !.next = pc]

(* The call has come to its end, but for the process; it returns.           *)
Concludes(result) == call' = [call EXCEPT !.pc = "cleanup", !.result = result]

Returns(result) ==
  /\ call' = [NoCall EXCEPT !.result = IF call.name = "finish" THEN result ELSE call.result]
  /\ broken' = (broken \/ result = "broken")

(* An error of a spawn, a line that is written or a pump: cancel goes on.   *)
Breaks ==
  IF call.name = "cancel" THEN call' = [call EXCEPT !.pc = "wipe", !.got = <<>>] /\ UNCHANGED broken
  ELSE Returns("broken")

-----------------------------------------------------------------------------
(* The helper.  Nothing follows its "closed"; it may read or not, exit with *)
(* its lines still in the pipe, and is killed by nobody else.               *)

HelperSays(line) ==
  /\ child = "running" /\ Len(said) < MaxLines
  /\ "closed" \notin Range(said)
  /\ said' = Append(said, line)
  /\ stdout' = Append(stdout, line)
  /\ UNCHANGED <<session, call, late, child, known, stdin, heard, buffer, chatter, fed, pushed,
                 dropped, survived, broken, completions>>

(* Partial texts, as often as the helper likes.  Whoever pumps finds those  *)
(* written before, also those of a helper that has exited.                  *)
HelperChatters ==
  /\ At("read") /\ ~chatter
  /\ child = "running" \/ (Exited /\ ~fed)
  /\ chatter' = TRUE
  /\ UNCHANGED <<session, call, late, child, known, stdin, heard, stdout, buffer, fed, history>>

HelperExits(how) ==
  /\ child = "running"
  /\ child' = how
  /\ UNCHANGED <<session, call, late, known, stdin, heard, stdout, buffer, chatter, fed, history>>

-----------------------------------------------------------------------------
(* pump_io.                                                                 *)

(* read_nonblocking reads for as long as there is something, whatever the   *)
(* time and however much it has read.                                       *)
Read ==
  /\ At("read") /\ (stdout # <<>> \/ chatter)
  /\ call' = [call EXCEPT !.got = @ \o stdout]
  /\ stdout' = <<>> /\ chatter' = FALSE /\ fed' = TRUE
  /\ UNCHANGED <<session, late, child, known, stdin, heard, buffer, history>>

(* There is nothing more for now, or no pipe.                               *)
ReadEnds ==
  /\ At("read") /\ stdout = <<>> /\ ~chatter
  /\ Goto("reap")
  /\ UNCHANGED <<session, late, helper, history>>

(* What was read, behind the lines a malformed one left in stdout_buffer.   *)
ToHandle   == IF fed THEN buffer \o call.got ELSE <<>>
Bad(lines) == SelectInSeq(lines, LAMBDA l : l = "malformed")
Queued(lines) ==
  FlattenSeq([i \in DOMAIN lines |-> IF lines[i] \in {"final", "error"} THEN <<lines[i]>> ELSE <<>>])

(* consume_stdout_bytes fails: some lines were handled, some stay in        *)
(* stdout_buffer and the others are lost, with the exit that was seen after *)
(* the read, which is not noted.                                            *)
ConsumeFails(handled, kept, lost) ==
  /\ At("reap") /\ (child # "reaped" \/ known)
  /\ events' = events \o Queued(handled)
  /\ flags' = flags \cup Range(handled)
  /\ buffer' = kept /\ dropped' = dropped \cup Range(lost)
  /\ child' = IF Exited /\ ~known THEN "reaped" ELSE child
  /\ fed' = FALSE
  /\ Breaks
  /\ UNCHANGED <<lifecycle, pending, late, known, stdin, heard, stdout, chatter,
                 pushed, said, survived, completions>>

(* A line that cannot be parsed: what follows in the same chunk is kept, at *)
(* least what was kept before, later chunks are not looked at.              *)
ReapMalformed ==
  LET bad == Bad(ToHandle) IN
  /\ bad # 0
  /\ \E last \in {i \in bad..Len(ToHandle) : i >= Len(buffer)} :
        ConsumeFails(SubSeq(ToHandle, 1, bad - 1), SubSeq(ToHandle, bad + 1, last),
                     SubSeq(ToHandle, last + 1, Len(ToHandle)))

(* The output limit is reached in the first chunk or a later one; how much  *)
(* was read in the whole session is not counted.                            *)
ReapOverflows ==
  /\ fed
  /\ \/ ConsumeFails(<<>>, buffer, call.got)
     \/ \E last \in 0..Len(call.got) :
          LET handled == buffer \o SubSeq(call.got, 1, last) IN
          /\ Bad(handled) = 0
          /\ ConsumeFails(handled, <<>>, SubSeq(call.got, last + 1, Len(call.got)))

(* The wait fails for a child that was reaped before, and nothing that was  *)
(* read is handled.                                                         *)
ReapFails ==
  /\ At("reap") /\ child = "reaped" /\ ~known
  /\ fed' = FALSE /\ dropped' = dropped \cup Range(call.got)
  /\ Breaks
  /\ UNCHANGED <<session, late, child, known, stdin, heard, stdout, buffer, chatter,
                 pushed, said, survived, completions>>

(* Mutant: an exit that is seen ends the pump before the lines are handled. *)
Reap_ExitFirst ==
  LET exits == Exited /\ ~known
      lines == IF exits THEN <<>> ELSE ToHandle
      seen  == flags \cup Range(lines)
      fails == exits /\ child = "failed" /\ seen \cap {"final", "error"} = {}
  IN
  /\ At("reap") /\ Bad(ToHandle) = 0
  /\ child # "reaped" \/ known
  /\ events' = events \o Queued(lines) \o IF fails THEN <<"error">> ELSE <<>>
  /\ flags' = seen \cup IF fails THEN {"error"} ELSE {}
  /\ child' = IF exits THEN "reaped" ELSE child
  /\ known' = (known \/ exits)
  /\ stdin' = (stdin /\ ~exits)
  /\ stdout' = IF exits THEN <<>> ELSE stdout
  /\ buffer' = IF fed THEN <<>> ELSE buffer
  /\ fed' = FALSE
  /\ dropped' = dropped \cup IF exits THEN Range(stdout) ELSE {}
  /\ call' = [call EXCEPT !.pc = call.next, !.got = <<>>]
  /\ UNCHANGED <<lifecycle, pending, late, heard, chatter, pushed, said, survived, broken, completions>>

(* The lines are handled; an exit closes the pipes, with what the helper    *)
(* wrote to its stdout between the read and its exit.                       *)
Reap ==
  LET exits == Exited /\ ~known
      seen  == flags \cup Range(ToHandle)
      fails == exits /\ child = "failed" /\ seen \cap {"final", "error"} = {}
  IN
  /\ At("reap") /\ Bad(ToHandle) = 0
  /\ child # "reaped" \/ known
  /\ events' = events \o Queued(ToHandle) \o IF fails THEN <<"error">> ELSE <<>>
  /\ flags' = seen \cup IF fails THEN {"error"} ELSE {}
  /\ child' = IF exits THEN "reaped" ELSE child
  /\ known' = (known \/ exits)
  /\ stdin' = (stdin /\ ~exits)
  /\ stdout' = IF exits THEN <<>> ELSE stdout
  /\ buffer' = IF fed THEN <<>> ELSE buffer
  /\ fed' = FALSE
  /\ dropped' = dropped \cup IF exits THEN Range(stdout) ELSE {}
  /\ call' = [call EXCEPT !.pc = call.next, !.got = <<>>]
  /\ UNCHANGED <<lifecycle, pending, late, heard, chatter, pushed, said, survived, broken, completions>>

-----------------------------------------------------------------------------
(* ensure_started, and write_json_line: a pump before every attempt and one *)
(* after the line.                                                          *)

Spawn(pc) ==
  /\ child = "none"
  /\ child' = "running" /\ known' = FALSE /\ stdin' = TRUE
  /\ stdout' = <<>>
  /\ Goto(pc)
  /\ UNCHANGED <<heard, buffer, chatter, fed, broken>>

SpawnFails == child = "none" /\ Breaks /\ UNCHANGED helper

EnsureStarted(pc) ==
  \/ child # "none" /\ Goto(pc) /\ UNCHANGED <<helper, broken>>
  \/ Spawn(pc)
  \/ SpawnFails

WriteThen(line, pc) ==
  /\ call' = [call EXCEPT !.pc = "read", !.next = "write", !.line = line, !.after = pc]
  /\ late' = FALSE

(* The pipe takes the line, for a helper that lives.                        *)
WriteSucceeds ==
  /\ At("write") /\ stdin /\ child = "running"
  /\ heard' = Append(heard, call.line)
  /\ PumpThen(call.after)
  /\ UNCHANGED <<session, late, child, known, stdin, stdout, buffer, chatter, fed, history>>

(* stdin closed by the session or by the helper, or the deadline passed.    *)
WriteFails ==
  /\ At("write")
  /\ Breaks
  /\ UNCHANGED <<session, late, helper, pushed, said, dropped, survived, completions>>

(* The pipe is full.                                                        *)
WriteWouldBlock ==
  /\ At("write") /\ stdin /\ child = "running" /\ ~late
  /\ PumpThen("write")
  /\ UNCHANGED <<session, late, helper, history>>

-----------------------------------------------------------------------------
(* push_audio: the chunk before it is sent, it waits for the next call.     *)

Audio(n, commit) == <<"audio", n, commit>>

PushAudio ==
  /\ call.name = "free" /\ lifecycle = "active" /\ pushed < MaxPushes
  /\ Begins("push", "start", "free")
  /\ pushed' = pushed + 1
  /\ UNCHANGED <<session, late, helper, said, dropped, survived, broken, completions>>

PushStarts ==
  /\ call.name = "push" /\ At("start")
  /\ EnsureStarted("flush")
  /\ UNCHANGED <<session, late, pushed, said, dropped, survived, completions>>

FlushPendingChunk(commit, pc) ==
  /\ pending' = 0
  /\ IF pending = 0 THEN Goto(pc) /\ UNCHANGED late
     ELSE WriteThen(Audio(pending, commit), pc)

PushFlushes ==
  /\ call.name = "push" /\ At("flush")
  /\ FlushPendingChunk(FALSE, "store")
  /\ UNCHANGED <<lifecycle, events, flags, helper, history>>

PushStores ==
  /\ At("store")
  /\ pending' = pushed
  /\ PumpThen("pushed")
  /\ UNCHANGED <<lifecycle, events, flags, late, helper, history>>

PushReturns ==
  /\ At("pushed")
  /\ Returns(call.result)
  /\ UNCHANGED <<session, late, helper, pushed, said, dropped, survived, completions>>

(* poll_events.                                                             *)
PollEvents ==
  /\ call.name = "free" /\ lifecycle # "dropped"
  /\ Begins("poll", "read", "take")
  /\ UNCHANGED <<session, late, helper, history>>

PollTakes ==
  /\ At("take")
  /\ events' = <<>>
  /\ Returns(call.result)
  /\ UNCHANGED <<lifecycle, pending, flags, late, helper, pushed, said, dropped,
                 survived, completions>>

-----------------------------------------------------------------------------
(* finish: a second one returns at once.                                    *)

FinishStep == call.name = "finish"

QueueCompleted(before) ==
  /\ events' = before \o IF completions = 0 THEN <<"completed">> ELSE <<>>
  /\ completions' = IF completions = 0 THEN 1 ELSE completions

Finish ==
  /\ call.name = "free" /\ lifecycle = "active"
  /\ Begins("finish", "start", "free")
  /\ UNCHANGED <<session, late, helper, history>>

FinishStarts ==
  /\ FinishStep /\ At("start")
  /\ EnsureStarted("flush")
  /\ lifecycle' = IF call'.name = "free" THEN lifecycle ELSE "finished"
  /\ UNCHANGED <<pending, events, flags, late, pushed, said, dropped, survived, completions>>

(* Mutant: the held chunk is sent as if another followed.                   *)
FinishFlushes_Uncommitted ==
  /\ FinishStep /\ At("flush")
  /\ FlushPendingChunk(FALSE, "end")
  /\ UNCHANGED <<lifecycle, events, flags, helper, history>>

FinishFlushes ==
  /\ FinishStep /\ At("flush")
  /\ FlushPendingChunk(TRUE, "end")
  /\ UNCHANGED <<lifecycle, events, flags, helper, history>>

FinishEnds ==
  /\ At("end")
  /\ WriteThen(<<"finish">>, "close")
  /\ UNCHANGED <<session, helper, history>>

CloseStdin ==
  /\ At("close")
  /\ stdin' = FALSE /\ late' = FALSE
  /\ Goto("wait")
  /\ UNCHANGED <<session, child, known, heard, stdout, buffer, chatter, fed, history>>

(* wait_for_finish, until a final text, "closed" or an exit is known.       *)
Wait ==
  /\ At("wait")
  /\ IF "final" \in flags THEN Goto("grace") /\ late' = FALSE
     ELSE IF "closed" \in flags \/ known THEN PumpThen("verdict") /\ UNCHANGED late
     ELSE PumpThen("deadline") /\ UNCHANGED late
  /\ UNCHANGED <<session, helper, history>>

(* Mutant: the deadline is not looked at while the helper is alive.         *)
CheckDeadline_Never ==
  /\ At("deadline")
  /\ Goto("wait")
  /\ UNCHANGED <<session, late, helper, history>>

CheckDeadline ==
  /\ At("deadline")
  /\ IF late
     THEN /\ QueueCompleted(Append(events, "error"))
          /\ flags' = flags \cup {"error"}
          /\ Concludes("timeout")
     ELSE Goto("wait") /\ UNCHANGED <<events, flags, completions>>
  /\ UNCHANGED <<lifecycle, pending, late, helper, pushed, said, dropped, survived, broken>>

(* A final text leaves the helper FINAL_GRACE to close.                     *)
Grace ==
  /\ At("grace")
  /\ PumpThen(IF "closed" \in flags \/ known \/ late THEN "used" ELSE "grace")
  /\ UNCHANGED <<session, late, helper, history>>

UseFinal ==
  /\ At("used")
  /\ QueueCompleted(events)
  /\ Concludes("ok")
  /\ UNCHANGED <<lifecycle, pending, flags, late, helper, pushed, said, dropped,
                 survived, broken>>

(* The errors that are left in the queue, not those a poll has taken, make  *)
(* the call fail.                                                           *)
Verdict ==
  LET noText == flags \cap {"final", "error"} = {}
      queued == events \o IF noText THEN <<"error">> ELSE <<>>
  IN
  /\ At("verdict")
  /\ flags' = flags \cup IF noText THEN {"error"} ELSE {}
  /\ QueueCompleted(queued)
  /\ Concludes(IF noText THEN "noText"
               ELSE IF "error" \in Range(queued) THEN "failed" ELSE "ok")
  /\ UNCHANGED <<lifecycle, pending, late, helper, pushed, said, dropped, survived, broken>>

-----------------------------------------------------------------------------
(* cancel, and drop.                                                        *)

Cancel ==
  /\ call.name = "free" /\ lifecycle \in {"active", "finished"}
  /\ lifecycle' = "cancelled"
  /\ Begins("cancel", "start", "free")
  /\ UNCHANGED <<pending, events, flags, late, helper, history>>

CancelStarts ==
  /\ call.name = "cancel" /\ At("start")
  /\ EnsureStarted("tell")
  /\ UNCHANGED <<session, late, pushed, said, dropped, survived, completions>>

CancelTells ==
  /\ At("tell")
  /\ WriteThen(<<"cancel">>, "wipe")
  /\ UNCHANGED <<session, helper, history>>

CancelWipes ==
  /\ At("wipe")
  /\ pending' = 0
  /\ QueueCompleted(<<>>)
  /\ Goto("cleanup")
  /\ UNCHANGED <<lifecycle, flags, late, helper, pushed, said, dropped, survived, broken>>

Drop ==
  /\ call.name = "free" /\ lifecycle # "dropped"
  /\ lifecycle' = "dropped"
  /\ Begins("drop", "cleanup", "free")
  /\ UNCHANGED <<pending, events, flags, late, helper, history>>

(* cleanup_process closes the pipes and terminates a helper whose exit is   *)
(* not known; an error of the termination is ignored.                       *)
CleanupProcess ==
  /\ At("cleanup")
  /\ child' = "none" /\ known' = FALSE /\ stdin' = FALSE /\ stdout' = <<>>
  /\ survived' \in {survived} \cup IF child = "running" THEN {TRUE} ELSE {}
  /\ dropped' = dropped \cup Range(stdout)
  /\ Returns(call.result)
  /\ UNCHANGED <<session, late, heard, buffer, chatter, fed, pushed, said, completions>>

-----------------------------------------------------------------------------
(* The deadline of the write or of the wait passes.                         *)
Expire ==
  /\ call.name # "free" /\ ~late
  /\ late' = TRUE
  /\ UNCHANGED <<session, call, helper, history>>

Init ==
  /\ lifecycle = "active" /\ pending = 0 /\ events = <<>> /\ flags = {}
  /\ call = NoCall /\ late = FALSE
  /\ child = "none" /\ known = FALSE /\ stdin = FALSE /\ heard = <<>>
  /\ stdout = <<>> /\ buffer = <<>> /\ chatter = FALSE /\ fed = FALSE
  /\ pushed = 0 /\ said = <<>> /\ dropped = {} /\ survived = FALSE /\ broken = FALSE
  /\ completions = 0

Helper == \/ \E line \in Lines : HelperSays(line)
          \/ HelperChatters
          \/ \E how \in {"exited", "failed"} : HelperExits(how)

Pump  == Read \/ ReadEnds \/ ReapMalformed \/ ReapOverflows \/ ReapFails \/ Reap
Write == WriteSucceeds \/ WriteFails \/ WriteWouldBlock
Push  == PushStarts \/ PushFlushes \/ PushStores \/ PushReturns \/ PollTakes
Ends  == \/ FinishStarts \/ FinishFlushes \/ FinishEnds \/ CloseStdin
         \/ Wait \/ CheckDeadline \/ Grace \/ UseFinal \/ Verdict
         \/ CancelStarts \/ CancelTells \/ CancelWipes \/ CleanupProcess

Session == Pump \/ Write \/ Push \/ Ends

Next == PushAudio \/ PollEvents \/ Finish \/ Cancel \/ Drop \/ Session \/ Helper \/ Expire

Spec == Init /\ [][Next]_vars /\ WF_vars(Session) /\ WF_vars(Expire)

-----------------------------------------------------------------------------
(* Properties.                                                              *)

TextIn(lines) == "final" \in Range(lines)

(* asr-contract.md:60: "early final text is ... retained for the eventual   *)
(* result".  A finish that reports no text has not been given one, unless   *)
(* the helper wrote it and exited inside one pump (pump_io reads before it  *)
(* waits, and drops the pipe of a helper that has exited) or a pump failed  *)
(* that had read it, at a malformed line, at the output limit or at the     *)
(* wait; a finish that succeeds has a final text, or the error a poll took  *)
(* before it.                                                               *)
HelperTextIsUsed ==
  /\ call.result = "noText" /\ TextIn(said) => "final" \in dropped \/ TextIn(buffer)
  /\ call.result = "ok" => flags \cap {"final", "error"} # {}

(* asr-contract.md:60: a chunk is sent when the next one is pushed, the     *)
(* last with commit=true before the finish line.  As long as no call has    *)
(* failed, the helper has heard every chunk but the held one, in order and  *)
(* before anything else; whatever failed, none twice or late, and only a    *)
(* finish commits, and only the last.                                       *)
IsAudio(line) == line[1] = "audio"

AudioIsHeardInOrder ==
  \A i \in 1..Len(heard) :
    /\ IsAudio(heard[i]) =>
         /\ ~broken => heard[i][2] = i
         /\ \A j \in 1..i - 1 : IsAudio(heard[j]) /\ heard[j][2] < heard[i][2]
         /\ heard[i][3] => lifecycle # "active" /\ heard[i][2] = pushed
    /\ heard[i] = <<"finish">> /\ ~broken =>
         /\ i = pushed + 1
         /\ pushed > 0 => heard[pushed] = Audio(pushed, TRUE)

(* A session says Completed at most once and nothing after it, and a helper *)
(* does not outlive a finish that waited for it, a cancel or the session    *)
(* (but for a termination that fails).                                      *)
SessionEndsCleanly ==
  /\ completions <= 1
  /\ call.name = "free" =>
        /\ \A i \in 1..Len(events) : events[i] = "completed" => i = Len(events)
        /\ call.result \notin {"none", "broken"} => child = "none"
        /\ lifecycle \in {"cancelled", "dropped"} => child = "none"

SessionTypeOK ==
  /\ lifecycle \in {"active", "finished", "cancelled", "dropped"}
  /\ pending \in 0..pushed /\ pushed \in 0..MaxPushes
  /\ flags \subseteq Lines /\ dropped \subseteq Lines
  /\ child \in {"none", "running", "exited", "failed", "reaped"}
  /\ known => child = "reaped"
  /\ child = "none" => ~known /\ ~stdin

SessionIsSound == SessionTypeOK /\ AudioIsHeardInOrder /\ SessionEndsCleanly

(* Whatever the helper does, answer late, not read, exit or hang: every     *)
(* call of the session returns, unless it stays in read_nonblocking for     *)
(* ever, which has neither a deadline nor a limit: only a helper that       *)
(* writes as fast as it is read keeps it there (asr-contract.md:62 speaks   *)
(* of a timeout for each pipe write and the final wait).                    *)
SessionCallsReturn == []<>Free \/ <>[]At("read")

=============================================================================
