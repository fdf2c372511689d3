----------------------- MODULE PipeWireRecorderProofs -----------------------
(***************************************************************************)
(* Proofs about the recorder for any number of takes, buffers and targets: *)
(* between calls caller and worker agree, audio stays in its take, and the *)
(* expiry of a warm stream is neither lost nor taken for a newer one's.    *)
(***************************************************************************)
EXTENDS PipeWireRecorder, SequenceTheorems, TLAPS

Commands == {BeginCommand, FinishCommand, ShutdownCommand}
              \cup [type : {"ExpireIdle"}, expiry : Expiries]
Timings  == {ShutdownCommand} \cup [type : {"Schedule"}, expiry : Expiries]
Captures == [type : {"captured"}, samples : Seq(Chunks), generation : Nat, stop : Nat]

(* Commands the caller has sent, besides the expiries of the timer.         *)
Asked == {i \in DOMAIN commands : commands[i].type # "ExpireIdle"}

AskedOnly(type) ==
  /\ \A i \in Asked : commands[i].type = type
  /\ \A i, j \in Asked : i = j

Joining == {"joinTimer", "joinWorker"}

(* The three threads: which run, and what is left when one is gone.         *)
ThreadsFit ==
  /\ hasWorker <=> workerThread # "none"
  /\ workerThread = "exited" => pc = "joinWorker"
  /\ pc \in Joining \cup {"sending", "waiting"} => hasWorker
  /\ pc = "spawning" => ~hasWorker
  /\ timerThread = "none" <=> ~hasWorker \/ pc = "joinWorker"
  /\ timerThread = "exited" => pc = "joinTimer"
  /\ timerThread # "running" => timer = <<>>
  /\ workerThread # "running" => stream = NoTarget /\ ~capturing /\ buffer = <<>>
  /\ ~hasWorker => commands = <<>> /\ timerQueue = <<>>

(* The timer is told to end only by a caller that joins it.                 *)
TimerIsKept ==
  pc \notin Joining => \A i \in DOMAIN timerQueue : timerQueue[i].type = "Schedule"

(* The caller and the worker: what has been asked and what answered.        *)
CallFits ==
  /\ accepting = capturing
  /\ capturing => stream = target
  /\ pc = "rest" => capturing = recording
  /\ pc \notin {"rest", "waiting"} => ~capturing /\ ~recording
  /\ pc \in {"spawning", "sending"} => call = "begin"
  /\ pc \notin {"waiting", "joinWorker"} => Asked = {}
  /\ pc = "joinWorker" => AskedOnly("Shutdown")
  /\ reply # NoReply => pc = "waiting" /\ Asked = {}
  /\ pc = "waiting" /\ call = "begin" =>
       /\ ~recording /\ AskedOnly("Begin")
       /\ reply \in {NoReply, Failed, Begun}
       /\ capturing <=> reply = Begun
  /\ pc = "waiting" /\ call # "begin" =>
       /\ recording /\ call # "none" /\ AskedOnly("Finish")
       /\ reply \in {NoReply, Failed} \cup Captures
       /\ capturing <=> reply = NoReply

(* A recording is on its way to its first buffer.                           *)
Fresh ==
  \/ pc \in {"spawning", "sending"}
  \/ pc \in Joining \cup {"waiting"} /\ call = "begin" /\ reply = NoReply

(* Where the audio is.                                                      *)
AudioFits ==
  /\ (pc # "rest" /\ call = "begin") \/ recording => take # 0
  /\ Fresh => produced = 0 /\ callback = take /\ heard = <<>>
  /\ capturing => /\ Len(samples) + Len(buffer) = produced
                  /\ samples = FirstOf(take, Len(samples))
                  /\ buffer # <<>> => buffer = <<[take |-> take, number |-> produced]>>
                  /\ callback = take => heard = samples
  /\ callback \in {0, take, take + 1}
  /\ callback = take + 1 => ~recording /\ heard = <<>> /\ (pc = "rest" \/ call # "begin")
  /\ AudioStaysInItsTake

(* What an expiry under way says.                                           *)
Tells(e) == e.generation <= generation /\ (e.generation = generation => e.stop = stops)

TimerTells == \A i \in DOMAIN timer : Tells(timer[i])
QueueTells ==
  \A i \in DOMAIN timerQueue : timerQueue[i].type = "Schedule" => Tells(timerQueue[i].expiry)
CommandsTell ==
  \A i \in DOMAIN commands : commands[i].type = "ExpireIdle" => Tells(commands[i].expiry)
ReplyTells == reply.type = "captured" => reply.generation = generation /\ reply.stop = stops

ExpiriesFit == TimerTells /\ QueueTells /\ CommandsTell /\ ReplyTells

(* The expiry of a warm stream is in one of three places.                   *)
Due ==
  \/ \E i \in DOMAIN commands : /\ commands[i].type = "ExpireIdle"
                                /\ commands[i].expiry.generation = generation
  \/ /\ timerQueue # <<>>
     /\ timerQueue[Len(timerQueue)].expiry.generation = generation
  \/ timerQueue = <<>> /\ timer # <<>> /\ timer[1].generation = generation

Warm == AtRest /\ ~recording /\ stream # NoTarget /\ outcome = "ok"

WarmIsDue == Warm => Due

RecorderInv ==
  /\ RecorderTypeOK /\ ThreadsFit /\ TimerIsKept
  /\ CallFits /\ AudioFits /\ ExpiriesFit /\ WarmIsDue

-----------------------------------------------------------------------------
(* Sequences.                                                               *)

(* What Append adds to a queue, index by index.                             *)
LEMMA AppendedIndices ==
  ASSUME NEW S, NEW q \in Seq(S), NEW e \in S
  PROVE  /\ Append(q, e) \in Seq(S)
         /\ DOMAIN Append(q, e) = 1 .. Len(q) + 1
         /\ Len(Append(q, e)) = Len(q) + 1
         /\ Len(q) \in Nat /\ DOMAIN q = 1 .. Len(q)
         /\ \A i \in 1 .. Len(q) : Append(q, e)[i] = q[i]
         /\ Append(q, e)[Len(q) + 1] = e
<1>1. Append(q, e) \in Seq(S) /\ Len(q) \in Nat
  OBVIOUS
<1>2. Len(Append(q, e)) = Len(q) + 1
  OBVIOUS
<1> QED
  BY <1>1, <1>2, LenProperties

(* What Tail leaves of a queue that is not empty, index by index.           *)
LEMMA RemainingIndices ==
  ASSUME NEW S, NEW q \in Seq(S), q # <<>>
  PROVE  /\ Tail(q) \in Seq(S) /\ Head(q) \in S /\ Head(q) = q[1] /\ 1 \in DOMAIN q
         /\ Len(Tail(q)) = Len(q) - 1 /\ Len(q) \in Nat \ {0}
         /\ DOMAIN q = 1 .. Len(q)
         /\ DOMAIN Tail(q) = 1 .. Len(q) - 1
         /\ \A i \in DOMAIN Tail(q) : i + 1 \in DOMAIN q /\ Tail(q)[i] = q[i + 1]
<1>1. Len(q) \in Nat \ {0}
  BY EmptySeq
<1>2. Tail(q) \in Seq(S) /\ Head(q) \in S /\ Len(Tail(q)) = Len(q) - 1
      /\ \A i \in 1 .. Len(Tail(q)) : Tail(q)[i] = q[i + 1]
  BY HeadTailProperties
<1>3. DOMAIN Tail(q) = 1 .. Len(q) - 1 /\ DOMAIN q = 1 .. Len(q)
  BY <1>2, LenProperties
<1>4. Head(q) = q[1]
  OBVIOUS
<1> QED
  BY <1>1, <1>2, <1>3, <1>4

(* A sequence of one element.                                               *)
LEMMA OneIndex ==
  ASSUME NEW S, NEW e \in S
  PROVE  <<e>> \in Seq(S) /\ Len(<<e>>) = 1 /\ <<e>>[1] = e /\ DOMAIN <<e>> = 1 .. 1
  OBVIOUS

-----------------------------------------------------------------------------
(* Types.                                                                   *)

CallerTyped ==
  /\ reuse \in BOOLEAN /\ immediate \in BOOLEAN
  /\ pc \in {"rest", "spawning", "sending", "waiting", "joinTimer", "joinWorker"}
  /\ call \in {"none", "begin", "stop", "cancel"}
  /\ target \in Targets \cup {NoTarget}
  /\ recording \in BOOLEAN /\ hasWorker \in BOOLEAN
  /\ outcome \in {"ok", "error"}
  /\ take \in 0 .. MaxTakes
  /\ returned \in Seq(Chunks)
  /\ callback \in 0 .. MaxTakes
  /\ workerThread \in {"none", "running", "exited"}
  /\ timerThread \in {"none", "running", "exited"}

ChannelsTyped ==
  /\ commands \in Seq(Commands)
  /\ timerQueue \in Seq(Timings)
  /\ timer \in Seq(Expiries) /\ Len(timer) <= 1
  /\ reply \in {NoReply, Failed, Begun} \cup Captures

WorkerTyped ==
  /\ heard \in Seq(Chunks)
  /\ stream \in Targets \cup {NoTarget}
  /\ accepting \in BOOLEAN
  /\ samples \in Seq(Chunks)
  /\ capturing \in BOOLEAN
  /\ generation \in Nat /\ stops \in Nat
  /\ buffer \in Seq(Chunks) /\ Len(buffer) <= 1
  /\ produced \in 0 .. MaxChunks

(* The type invariant falls into three parts.                               *)
LEMMA TypedInParts == RecorderTypeOK <=> CallerTyped /\ ChannelsTyped /\ WorkerTyped
  BY DEF RecorderTypeOK, CallerTyped, ChannelsTyped, WorkerTyped, Commands, Timings, Captures

(* The part of the caller is preserved.                                     *)
LEMMA CallerStaysTyped ==
  ASSUME RecorderTypeOK, AudioFits, CallFits, Next
  PROVE  CallerTyped'
<1> USE DEF CallerTyped, envVars, callerVars, callbackVars, threadVars, deviceVars, workerVars
<1>0. CallerTyped /\ ChannelsTyped /\ WorkerTyped
  BY TypedInParts
<1>1. CASE InstallCallback \/ ClearCallback
  BY <1>0, <1>1, RecorderConstants DEF RecorderConstants, InstallCallback, ClearCallback
<1>2. ASSUME NEW t \in Targets, BeginRecording(t)
      PROVE  CallerTyped'
  BY <1>0, <1>2, RecorderConstants DEF RecorderConstants, BeginRecording, ShutDown
<1>3. ASSUME NEW c \in {"stop", "cancel"}, SendFinish(c)
      PROVE  CallerTyped'
  BY <1>0, <1>3 DEF SendFinish
<1>4. CASE CancelIdle
  BY <1>0, <1>4 DEF CancelIdle, ShutDown
<1>5. CASE Spawn \/ SpawnFails \/ SendBegin
  BY <1>0, <1>5 DEF Spawn, SpawnFails, SendBegin, Return
<1>6. CASE BeginReturns \/ StopFails \/ CancelGoesOn
  BY <1>0, <1>6 DEF BeginReturns, StopFails, CancelGoesOn, Return, Answered, ShutDown
<1>7. CASE StopGetsBuffer
  <2>1. reply \in Captures
    BY <1>0, <1>7 DEF StopGetsBuffer, Answered, CallFits, Captures
  <2> QED
    BY <1>0, <1>7, <2>1 DEF StopGetsBuffer, Return, ShutDown, Captures
<1>8. CASE JoinTimer \/ JoinWorker
  BY <1>0, <1>8 DEF JoinTimer, JoinWorker
<1>9. CASE TimerSteps
  BY <1>0, <1>9 DEF TimerSteps, TimerReceives, TimerFires
<1>10. CASE WorkerSteps
  BY <1>0, <1>10
  DEF WorkerSteps, BeginReuses, BeginCreates, BeginCannotCreate, BeginCannotActivate,
      BeginWorker, FinishCaptures, FinishFails, Expire, WorkerQuits, WorkerFrame
<1>11. CASE Capture \/ Process
  BY <1>0, <1>11 DEF Capture, Process
<1> QED
  BY <1>1, <1>2, <1>3, <1>4, <1>5, <1>6, <1>7, <1>8, <1>9, <1>10, <1>11
  DEF Next, CallerSteps

(* The messages of the channels have their types.                           *)
LEMMA Messages ==
  /\ BeginCommand \in Commands /\ FinishCommand \in Commands /\ ShutdownCommand \in Commands
  /\ ShutdownCommand \in Timings
  /\ \A e \in Expiries : ExpireIdle(e) \in Commands /\ Schedule(e) \in Timings
  /\ \A r \in Captures : Expiry(r) \in Expiries
BY DEF Commands, Timings, BeginCommand, FinishCommand, ShutdownCommand, ExpireIdle, Schedule,
       Expiry, Expiries, Captures

(* A message of a channel is told by its type.                              *)
LEMMA MessageFields ==
  /\ \A m \in Commands : m.type = "ExpireIdle" => m.expiry \in Expiries
  /\ \A m \in Timings : m.type = "Schedule" => m.expiry \in Expiries
  /\ \A r \in Captures : r # NoReply /\ r # Failed /\ r # Begun /\ r.type = "captured"
  /\ NoReply # Failed /\ NoReply # Begun /\ Failed # Begun
  /\ NoReply.type # "captured" /\ Failed.type # "captured" /\ Begun.type # "captured"
BY DEF Commands, Timings, BeginCommand, FinishCommand, ShutdownCommand, Captures, NoReply,
       Failed, Begun

(* The part of the channels is preserved.                                   *)
LEMMA ChannelsStayTyped ==
  ASSUME RecorderTypeOK, CallFits, Next
  PROVE  ChannelsTyped'
<1> USE DEF ChannelsTyped, envVars, callerVars, callbackVars, threadVars, timerVars,
            deviceVars, workerVars
<1>0. CallerTyped /\ ChannelsTyped /\ WorkerTyped
  BY TypedInParts
<1>a. /\ \A m \in Commands : Append(commands, m) \in Seq(Commands)
      /\ \A m \in Timings : Append(timerQueue, m) \in Seq(Timings)
  BY <1>0, AppendedIndices
<1>b. /\ <<>> \in Seq(Commands) /\ <<>> \in Seq(Timings)
      /\ <<>> \in Seq(Expiries) /\ \A q \in Seq(Expiries) : q = <<>> <=> Len(q) = 0
  BY EmptySeq
<1>1. CASE InstallCallback \/ ClearCallback \/ Capture \/ Process
  BY <1>0, <1>1 DEF InstallCallback, ClearCallback, Capture, Process
<1>2. CASE Spawn \/ SpawnFails \/ SendBegin
  BY <1>0, <1>2, <1>a, <1>b, Messages DEF Spawn, SpawnFails, SendBegin
<1>3. ASSUME NEW t \in Targets, BeginRecording(t)
      PROVE  ChannelsTyped'
  BY <1>0, <1>3, <1>a, <1>b, Messages DEF BeginRecording, ShutDown
<1>4. ASSUME NEW c \in {"stop", "cancel"}, SendFinish(c)
      PROVE  ChannelsTyped'
  BY <1>0, <1>4, <1>a, <1>b, Messages DEF SendFinish
<1>5. CASE CancelIdle \/ BeginReturns \/ StopFails \/ CancelGoesOn
  BY <1>0, <1>5, <1>a, <1>b, Messages
  DEF CancelIdle, BeginReturns, StopFails, CancelGoesOn, Answered, ShutDown
<1>6. CASE StopGetsBuffer
  <2>1. reply \in Captures
    BY <1>0, <1>6 DEF StopGetsBuffer, Answered, CallFits
  <2>2. Expiry(reply) \in Expiries
    BY <2>1, Messages
  <2> QED
    BY <1>0, <1>6, <2>2, <1>a, <1>b, Messages
    DEF StopGetsBuffer, ScheduleIdleDestroy, ShutDown, Answered
<1>7. CASE JoinTimer \/ JoinWorker
  BY <1>0, <1>7, <1>a, <1>b, Messages DEF JoinTimer, JoinWorker
<1>8. CASE TimerReceives
  <2>1. /\ Tail(timerQueue) \in Seq(Timings)
        /\ Head(timerQueue).type = "Schedule" => Head(timerQueue).expiry \in Expiries
    BY <1>0, <1>8, RemainingIndices, MessageFields DEF TimerReceives
  <2>2. timer' = <<>> \/ \E e \in Expiries : timer' = <<e>>
    BY <1>8, <2>1 DEF TimerReceives
  <2>3. timer' \in Seq(Expiries) /\ Len(timer') <= 1
    <3>1. CASE timer' = <<>>
      BY <1>b, <3>1
    <3>2. ASSUME NEW e \in Expiries, timer' = <<e>>
          PROVE  timer' \in Seq(Expiries) /\ Len(timer') <= 1
      BY <3>2, OneIndex
    <3> QED
      BY <2>2, <3>1, <3>2
  <2> QED
    BY <1>0, <1>8, <2>1, <2>3 DEF TimerReceives
<1>9. CASE TimerFires
  <2>1. Head(timer) \in Expiries
    BY <1>0, <1>9, RemainingIndices DEF TimerFires
  <2> QED
    BY <1>0, <1>9, <2>1, <1>a, <1>b, Messages DEF TimerFires
<1>10. CASE WorkerSteps
  <2>1. timerQueue' = timerQueue /\ timer' = timer
    BY <1>10
    DEF WorkerSteps, BeginReuses, BeginCreates, BeginCannotCreate, BeginCannotActivate,
        BeginWorker, FinishCaptures, FinishFails, Expire, WorkerQuits, WorkerFrame
  <2>2. commands # <<>> /\ commands' = Tail(commands)
    BY <1>10
    DEF WorkerSteps, BeginReuses, BeginCreates, BeginCannotCreate, BeginCannotActivate,
        BeginWorker, FinishCaptures, FinishFails, Expire, WorkerQuits, Receives
  <2>3. commands' \in Seq(Commands)
    BY <1>0, <2>2, RemainingIndices
  <2>4. reply' \in {reply, Failed, Begun}
        \/ FinishCaptures
    BY <1>10
    DEF WorkerSteps, BeginReuses, BeginCreates, BeginCannotCreate, BeginCannotActivate,
        BeginWorker, FinishFails, Expire, WorkerQuits, WorkerFrame, Activated
  <2>5. FinishCaptures => reply' \in Captures
    BY <1>0 DEF WorkerTyped, FinishCaptures, Captured, Captures
  <2> QED
    BY <1>0, <2>1, <2>3, <2>4, <2>5
<1> QED
  BY <1>1, <1>2, <1>3, <1>4, <1>5, <1>6, <1>7, <1>8, <1>9, <1>10
  DEF Next, CallerSteps, TimerSteps

(* The part of the worker and its audio is preserved.                       *)
LEMMA WorkerStaysTyped ==
  ASSUME RecorderTypeOK, CallFits, AudioFits, Next
  PROVE  WorkerTyped'
<1> USE DEF WorkerTyped, envVars, callerVars, callbackVars, threadVars, timerVars,
            deviceVars, workerVars
<1>0. CallerTyped /\ ChannelsTyped /\ WorkerTyped
  BY TypedInParts
<1>a. <<>> \in Seq(Chunks) /\ \A q \in Seq(Chunks) : q = <<>> <=> Len(q) = 0
  BY EmptySeq
<1>1. CASE InstallCallback \/ ClearCallback
  BY <1>0, <1>a, <1>1 DEF InstallCallback, ClearCallback
<1>2. ASSUME NEW t \in Targets, BeginRecording(t)
      PROVE  WorkerTyped'
  BY <1>0, <1>2, RecorderConstants DEF BeginRecording, ShutDown, RecorderConstants
<1>3. ASSUME NEW c \in {"stop", "cancel"}, SendFinish(c)
      PROVE  WorkerTyped'
  BY <1>0, <1>3 DEF SendFinish
<1>4. CASE CallerSteps
  BY <1>0, <1>4
  DEF CallerSteps, Spawn, SpawnFails, SendBegin, BeginReturns, StopGetsBuffer, StopFails,
      CancelGoesOn, JoinTimer, JoinWorker
<1>5. CASE CancelIdle \/ TimerSteps
  BY <1>0, <1>5 DEF CancelIdle, TimerSteps, TimerReceives, TimerFires
<1>b. buffer' \in {<<>>, buffer} => buffer' \in Seq(Chunks) /\ Len(buffer') <= 1
  <2>1. CASE buffer' = <<>>
    BY <1>a, <2>1
  <2>2. CASE buffer' = buffer
    BY <1>0, <2>2
  <2> QED
    BY <2>1, <2>2
<1>6. CASE WorkerSteps
  <2> USE <1>6
      DEF WorkerSteps, BeginReuses, BeginCreates, BeginCannotCreate, BeginCannotActivate,
          FinishCaptures, FinishFails, Expire, WorkerQuits, BeginWorker, WorkerFrame, Activated,
          DropStream
  <2>1. heard' = heard /\ produced' = produced
    OBVIOUS
  <2>2. stream' \in {stream, target, NoTarget} /\ accepting' \in {accepting, TRUE, FALSE}
        /\ capturing' \in {capturing, TRUE, FALSE}
    OBVIOUS
  <2>3. samples' \in {samples, <<>>} /\ buffer' \in {<<>>, buffer}
    OBVIOUS
  <2>4. generation' \in {generation, generation + 1} /\ stops' \in {stops, stops + 1}
    OBVIOUS
  <2> HIDE <1>6
  <2>5. generation' \in Nat /\ stops' \in Nat
    BY <1>0, <2>4
  <2> QED
    BY <1>0, <1>a, <1>b, <2>1, <2>2, <2>3, <2>5 DEF CallerTyped
<1>7. CASE Capture
  <2>1. capturing => take # 0
    BY <1>0 DEF AudioFits, CallFits, CallerTyped
  <2>2. [take |-> take, number |-> produced + 1] \in Chunks /\ produced + 1 \in 0 .. MaxChunks
    BY <1>0, <1>7, <2>1, RecorderConstants DEF Chunks, CallerTyped, Capture, RecorderConstants
  <2>3. buffer' \in Seq(Chunks) /\ Len(buffer') = 1
    BY <1>7, <2>2, OneIndex DEF Capture
  <2> QED
    BY <1>0, <1>7, <2>2, <2>3 DEF Capture
<1>8. CASE Process
  <2>1. buffer' = <<>> /\ samples' \in {samples, samples \o buffer}
        /\ heard' \in {heard, heard \o buffer}
    BY <1>8 DEF Process
  <2>2. samples \o buffer \in Seq(Chunks) /\ heard \o buffer \in Seq(Chunks)
    BY <1>0, ConcatProperties
  <2> QED
    BY <1>0, <1>b, <1>8, <2>1, <2>2 DEF Process
<1> QED
  BY <1>1, <1>2, <1>3, <1>4, <1>5, <1>6, <1>7, <1>8 DEF Next

-----------------------------------------------------------------------------
(* The command channel.                                                     *)

(* A command sent is the last; only a caller's counts as asked.             *)
LEMMA CommandSent ==
  ASSUME RecorderTypeOK, NEW m \in Commands, commands' = Append(commands, m)
  PROVE  /\ m.type = "ExpireIdle" =>
              /\ Asked' = Asked
              /\ \A i \in Asked : commands'[i] = commands[i]
         /\ m.type # "ExpireIdle" /\ Asked = {} =>
              /\ Asked' = {Len(commands) + 1}
              /\ commands'[Len(commands) + 1] = m
<1>1. commands \in Seq(Commands)
  BY TypedInParts DEF ChannelsTyped
<1>2. /\ DOMAIN commands' = 1 .. Len(commands) + 1
      /\ Len(commands) \in Nat /\ DOMAIN commands = 1 .. Len(commands)
      /\ \A i \in 1 .. Len(commands) : commands'[i] = commands[i]
      /\ commands'[Len(commands) + 1] = m
  BY <1>1, AppendedIndices
<1> QED
  BY <1>2 DEF Asked

(* A command received shifts the others down by one.                        *)
LEMMA CommandReceived ==
  ASSUME RecorderTypeOK, commands # <<>>, commands' = Tail(commands)
  PROVE  /\ Head(commands).type # "ExpireIdle" => 1 \in Asked
         /\ Head(commands) = commands[1]
         /\ \A i \in Asked' : i + 1 \in Asked /\ commands'[i] = commands[i + 1] /\ i + 1 # 1
<1>1. commands \in Seq(Commands)
  BY TypedInParts DEF ChannelsTyped
<1>2. /\ Head(commands) = commands[1] /\ 1 \in DOMAIN commands
      /\ Len(commands) \in Nat \ {0}
      /\ DOMAIN commands' = 1 .. Len(commands) - 1
      /\ \A i \in DOMAIN commands' : i + 1 \in DOMAIN commands /\ commands'[i] = commands[i + 1]
  BY <1>1, RemainingIndices
<1> QED
  BY <1>2 DEF Asked

(* What the worker receives from the caller is what the caller waits for.   *)
LEMMA ReceivedInCall ==
  ASSUME RecorderTypeOK, CallFits, commands # <<>>, commands' = Tail(commands)
  PROVE  /\ Head(commands).type = "Begin" =>
              pc = "waiting" /\ call = "begin" /\ reply = NoReply /\ Asked' = {}
         /\ Head(commands).type = "Finish" =>
              pc = "waiting" /\ call # "begin" /\ reply = NoReply /\ Asked' = {}
         /\ Head(commands).type = "Shutdown" => pc = "joinWorker" /\ Asked' = {}
<1> DEFINE type == Head(commands).type
<1>1. type # "ExpireIdle" => 1 \in Asked /\ commands[1].type = type
  BY CommandReceived
<1>2. type # "ExpireIdle" => pc \in {"waiting", "joinWorker"} /\ reply = NoReply
  BY <1>1 DEF CallFits
<1>3. /\ pc = "joinWorker" => AskedOnly("Shutdown")
      /\ pc = "waiting" /\ call = "begin" => AskedOnly("Begin")
      /\ pc = "waiting" /\ call # "begin" => AskedOnly("Finish")
  BY DEF CallFits
<1>4. ASSUME NEW t, AskedOnly(t), type # "ExpireIdle"
      PROVE  type = t /\ Asked' = {}
  <2>1. \A i \in Asked' : i + 1 \in Asked /\ i + 1 # 1
    BY CommandReceived
  <2> QED
    BY <1>1, <1>4, <2>1 DEF AskedOnly
<1> HIDE DEF type
<1>5. pc = "joinWorker" /\ type # "ExpireIdle" => type = "Shutdown" /\ Asked' = {}
  BY <1>3, <1>4
<1>6. pc = "waiting" /\ call = "begin" /\ type # "ExpireIdle" => type = "Begin" /\ Asked' = {}
  BY <1>3, <1>4
<1>7. pc = "waiting" /\ call # "begin" /\ type # "ExpireIdle" => type = "Finish" /\ Asked' = {}
  BY <1>3, <1>4
<1>8. /\ type = "Begin" =>
           pc = "waiting" /\ call = "begin" /\ reply = NoReply /\ Asked' = {}
      /\ type = "Finish" =>
           pc = "waiting" /\ call # "begin" /\ reply = NoReply /\ Asked' = {}
      /\ type = "Shutdown" => pc = "joinWorker" /\ Asked' = {}
  BY <1>2, <1>5, <1>6, <1>7
<1> QED
  BY <1>8 DEF type

(* One open question stays one, whatever else is sent or received.          *)
LEMMA AskedOnlyKept ==
  ASSUME NEW t, AskedOnly(t),
         \/ commands' = commands
         \/ /\ Asked' = Asked
            /\ \A i \in Asked : commands'[i] = commands[i]
         \/ \A i \in Asked' : i \in Nat /\ i + 1 \in Asked /\ commands'[i] = commands[i + 1]
  PROVE  /\ \A i \in Asked' : commands'[i].type = t
         /\ \A i, j \in Asked' : i = j
<1>1. CASE commands' = commands
  BY <1>1 DEF AskedOnly, Asked
<1>2. CASE Asked' = Asked /\ \A i \in Asked : commands'[i] = commands[i]
  BY <1>2 DEF AskedOnly
<1>3. CASE \A i \in Asked' : i \in Nat /\ i + 1 \in Asked /\ commands'[i] = commands[i + 1]
  <2>1. \A i, j \in Asked' : i + 1 = j + 1
    BY <1>3 DEF AskedOnly
  <2>2. \A i, j \in Asked' : i = j
    BY <1>3, <2>1
  <2> QED
    BY <1>3, <2>2 DEF AskedOnly
<1> QED
  BY <1>1, <1>2, <1>3

-----------------------------------------------------------------------------
(* The threads.                                                             *)

(* Every step keeps the threads fit.                                        *)
LEMMA ThreadsStayFit ==
  ASSUME RecorderTypeOK, ThreadsFit, TimerIsKept, CallFits, Next
  PROVE  ThreadsFit'
<1> USE DEF ThreadsFit, Joining, envVars, callerVars, callbackVars, threadVars, timerVars,
            deviceVars, workerVars
<1>0. CallerTyped /\ ChannelsTyped /\ WorkerTyped
  BY TypedInParts
<1>1. CASE InstallCallback \/ ClearCallback \/ Capture \/ Process
  BY <1>1 DEF InstallCallback, ClearCallback, Capture, Process
<1>2. CASE Spawn \/ SpawnFails \/ SendBegin
  BY <1>2 DEF Spawn, SpawnFails, SendBegin, Return
<1>3. ASSUME NEW t \in Targets, BeginRecording(t)
      PROVE  ThreadsFit'
  BY <1>3 DEF BeginRecording, ShutDown, AtRest
<1>4. ASSUME NEW c \in {"stop", "cancel"}, SendFinish(c)
      PROVE  ThreadsFit'
  BY <1>4 DEF SendFinish, AtRest, CallFits
<1>5. CASE CancelIdle \/ BeginReturns \/ StopFails \/ CancelGoesOn
  BY <1>5 DEF CancelIdle, BeginReturns, StopFails, CancelGoesOn, Answered, ShutDown, Return, AtRest
<1>6. CASE StopGetsBuffer
  BY <1>6 DEF StopGetsBuffer, Answered, ShutDown, Return, ScheduleIdleDestroy
<1>7. CASE JoinTimer \/ JoinWorker
  BY <1>0, <1>7 DEF JoinTimer, JoinWorker, CallerTyped
<1>8. CASE TimerReceives
  <2>1. Head(timerQueue) = timerQueue[1] /\ 1 \in DOMAIN timerQueue
    BY <1>0, <1>8, RemainingIndices DEF TimerReceives, ChannelsTyped
  <2>2. Head(timerQueue).type # "Schedule" => pc = "joinTimer"
    BY <1>8, <2>1 DEF TimerIsKept, TimerReceives
  <2> QED
    BY <1>8, <2>2 DEF TimerReceives
<1>9. CASE TimerFires
  BY <1>9 DEF TimerFires
<1>10. CASE WorkerSteps
  <2>1. workerThread = "running" /\ commands # <<>> /\ commands' = Tail(commands)
    BY <1>10
    DEF WorkerSteps, BeginReuses, BeginCreates, BeginCannotCreate, BeginCannotActivate,
        BeginWorker, FinishCaptures, FinishFails, Expire, WorkerQuits, Receives
  <2>2. CASE WorkerQuits
    <3>1. pc = "joinWorker"
      BY <2>1, <2>2, ReceivedInCall DEF WorkerQuits, Receives
    <3> QED
      BY <2>1, <2>2, <3>1 DEF WorkerQuits, DropStream
  <2>3. CASE ~WorkerQuits
    BY <1>10, <2>1, <2>3
    DEF WorkerSteps, BeginReuses, BeginCreates, BeginCannotCreate, BeginCannotActivate,
        BeginWorker, FinishCaptures, FinishFails, Expire, WorkerFrame
  <2> QED
    BY <2>2, <2>3
<1> QED
  BY <1>1, <1>2, <1>3, <1>4, <1>5, <1>6, <1>7, <1>8, <1>9, <1>10
  DEF Next, CallerSteps, TimerSteps

(* Every step keeps the timer until a caller joins it.                      *)
LEMMA TimerStaysKept ==
  ASSUME RecorderTypeOK, ThreadsFit, TimerIsKept, CallFits, Next
  PROVE  TimerIsKept'
<1> USE DEF TimerIsKept, Joining, envVars, callerVars, callbackVars, threadVars, timerVars,
            deviceVars, workerVars
<1>0. timerQueue \in Seq(Timings)
  BY TypedInParts DEF ChannelsTyped
<1>1. CASE timerQueue' = timerQueue /\ (pc \in Joining => pc' \in Joining)
  BY <1>1
<1>2. CASE pc' = "joinTimer"
  BY <1>2
<1>3. CASE StopGetsBuffer /\ pc' # "joinTimer"
  <2>1. timerQueue' = timerQueue \/ timerQueue' = Append(timerQueue, Schedule(Expiry(reply)))
    BY <1>3 DEF StopGetsBuffer, ShutDown, ScheduleIdleDestroy
  <2>2. reply \in Captures
    BY <1>0, <1>3, TypedInParts DEF StopGetsBuffer, Answered, CallFits, ChannelsTyped
  <2>3. CASE timerQueue' = timerQueue
    BY <1>3, <2>3 DEF StopGetsBuffer, Answered
  <2>4. CASE timerQueue' = Append(timerQueue, Schedule(Expiry(reply)))
    <3>1. Schedule(Expiry(reply)) \in Timings /\ Schedule(Expiry(reply)).type = "Schedule"
      BY <2>2, Messages DEF Schedule
    <3>2. /\ DOMAIN timerQueue' = 1 .. Len(timerQueue) + 1
          /\ Len(timerQueue) \in Nat /\ DOMAIN timerQueue = 1 .. Len(timerQueue)
          /\ \A i \in 1 .. Len(timerQueue) : timerQueue'[i] = timerQueue[i]
          /\ timerQueue'[Len(timerQueue) + 1] = Schedule(Expiry(reply))
      BY <1>0, <2>4, <3>1, AppendedIndices
    <3>3. \A i \in DOMAIN timerQueue : timerQueue[i].type = "Schedule"
      BY <1>3 DEF StopGetsBuffer, Answered
    <3> QED
      BY <3>1, <3>2, <3>3
  <2> QED
    BY <2>1, <2>3, <2>4
<1>4. CASE TimerReceives
  <2>1. /\ DOMAIN timerQueue' = 1 .. Len(timerQueue) - 1
        /\ \A i \in DOMAIN timerQueue' :
             i + 1 \in DOMAIN timerQueue /\ timerQueue'[i] = timerQueue[i + 1]
    BY <1>0, <1>4, RemainingIndices DEF TimerReceives
  <2> QED
    BY <1>4, <2>1 DEF TimerReceives
<1>5. CASE JoinWorker
  <2>1. DOMAIN timerQueue' = {}
    BY <1>5 DEF JoinWorker
  <2> QED
    BY <2>1
<1>6. CASE InstallCallback \/ ClearCallback \/ Capture \/ Process \/ TimerFires \/ WorkerSteps
  BY <1>1, <1>6
  DEF InstallCallback, ClearCallback, Capture, Process, TimerFires, WorkerSteps, BeginReuses,
      BeginCreates, BeginCannotCreate, BeginCannotActivate, BeginWorker, FinishCaptures,
      FinishFails, Expire, WorkerQuits, WorkerFrame
<1>7. CASE Spawn \/ SpawnFails \/ SendBegin \/ BeginReturns \/ StopFails \/ JoinTimer
  BY <1>1, <1>7 DEF Spawn, SpawnFails, SendBegin, BeginReturns, StopFails, JoinTimer, Answered
<1>8. CASE CancelGoesOn \/ CancelIdle \/ \E t \in Targets : BeginRecording(t)
  BY <1>1, <1>2, <1>8 DEF CancelGoesOn, CancelIdle, BeginRecording, ShutDown, AtRest
<1>9. CASE \E c \in {"stop", "cancel"} : SendFinish(c)
  BY <1>1, <1>9 DEF SendFinish, AtRest
<1> QED
  BY <1>2, <1>3, <1>4, <1>5, <1>6, <1>7, <1>8, <1>9 DEF Next, CallerSteps, TimerSteps

-----------------------------------------------------------------------------
(* The calls.                                                               *)

OnlyNext(t) ==
  /\ \A i \in Asked' : commands'[i].type = t
  /\ \A i, j \in Asked' : i = j

(* A step that leaves what has been asked alone.                            *)
LEMMA AskedKept ==
  ASSUME RecorderTypeOK,
         \/ commands' = commands
         \/ \E e \in Expiries : commands' = Append(commands, ExpireIdle(e))
         \/ commands # <<>> /\ commands' = Tail(commands)
  PROVE  /\ Asked = {} => Asked' = {}
         /\ AskedOnly("Begin") => OnlyNext("Begin")
         /\ AskedOnly("Finish") => OnlyNext("Finish")
         /\ AskedOnly("Shutdown") => OnlyNext("Shutdown")
<1>1. CASE commands' = commands
  BY <1>1 DEF AskedOnly, OnlyNext, Asked
<1>2. ASSUME NEW e \in Expiries, commands' = Append(commands, ExpireIdle(e))
      PROVE  Asked' = Asked /\ \A i \in Asked : commands'[i] = commands[i]
  <2>1. ExpireIdle(e) \in Commands /\ ExpireIdle(e).type = "ExpireIdle"
    BY Messages DEF ExpireIdle
  <2> QED
    BY <1>2, <2>1, CommandSent
<1>3. CASE commands # <<>> /\ commands' = Tail(commands)
  <2>1. \A i \in Asked' : i + 1 \in Asked /\ commands'[i] = commands[i + 1]
    BY <1>3, CommandReceived
  <2>2. \A i \in Asked' : i \in Nat
    BY <1>3, RemainingIndices, TypedInParts DEF ChannelsTyped, Asked
  <2>3. Asked = {} => Asked' = {}
    BY <2>1
  <2>4. ASSUME NEW t, AskedOnly(t)
        PROVE  OnlyNext(t)
    BY <2>1, <2>2, <2>4, AskedOnlyKept DEF OnlyNext
  <2> QED
    BY <2>3, <2>4
<1>4. CASE Asked' = Asked /\ \A i \in Asked : commands'[i] = commands[i]
  BY <1>4 DEF AskedOnly, OnlyNext
<1> QED
  BY <1>1, <1>2, <1>3, <1>4

(* A step of a caller that asks.                                            *)
LEMMA AskedOnce ==
  ASSUME RecorderTypeOK, Asked = {}, NEW m \in Commands, m.type # "ExpireIdle",
         commands' = Append(commands, m)
  PROVE  OnlyNext(m.type)
<1>1. Asked' = {Len(commands) + 1} /\ commands'[Len(commands) + 1] = m
  BY CommandSent
<1> QED
  BY <1>1 DEF OnlyNext

(* Every step keeps caller and worker in the same call.                     *)
LEMMA CallsStayFit ==
  ASSUME RecorderTypeOK, ThreadsFit, TimerIsKept, CallFits, Next
  PROVE  CallFits'
<1> USE DEF CallFits, envVars, callerVars, callbackVars, threadVars, timerVars,
            deviceVars, workerVars
<1>0. CallerTyped /\ ChannelsTyped /\ WorkerTyped
  BY TypedInParts
<1>c. /\ recording \in BOOLEAN /\ hasWorker \in BOOLEAN /\ capturing \in BOOLEAN
      /\ accepting \in BOOLEAN /\ call \in {"none", "begin", "stop", "cancel"}
  BY <1>0 DEF CallerTyped, WorkerTyped
<1>a. /\ AskedOnly("Begin")' <=> OnlyNext("Begin")
      /\ AskedOnly("Finish")' <=> OnlyNext("Finish")
      /\ AskedOnly("Shutdown")' <=> OnlyNext("Shutdown")
  BY DEF AskedOnly, OnlyNext
<1> DEFINE Quiet == /\ Asked = {} => Asked' = {}
                    /\ AskedOnly("Begin") => AskedOnly("Begin")'
                    /\ AskedOnly("Finish") => AskedOnly("Finish")'
                    /\ AskedOnly("Shutdown") => AskedOnly("Shutdown")'
<1>b. commands' = commands => Quiet
  BY <1>a, AskedKept
<1> HIDE DEF Quiet
<1>1. CASE InstallCallback \/ ClearCallback \/ Capture \/ Process
  BY <1>1, <1>b DEF InstallCallback, ClearCallback, Capture, Process, Quiet
<1>2. CASE Spawn \/ SpawnFails
  BY <1>c, <1>2, <1>b DEF Spawn, SpawnFails, Return, Quiet
<1>3. CASE SendBegin
  <2>1. AskedOnly("Begin")'
    BY <1>3, <1>a, AskedOnce, Messages DEF SendBegin, BeginCommand
  <2> QED
    BY <1>c, <1>3, <2>1, MessageFields DEF SendBegin
<1>4. ASSUME NEW t \in Targets, BeginRecording(t)
      PROVE  CallFits'
  BY <1>c, <1>4, <1>b DEF BeginRecording, ShutDown, AtRest, Quiet
<1>5. ASSUME NEW c \in {"stop", "cancel"}, SendFinish(c)
      PROVE  CallFits'
  <2>1. AskedOnly("Finish")'
    BY <1>5, <1>a, AskedOnce, Messages DEF SendFinish, FinishCommand, AtRest
  <2> QED
    BY <1>c, <1>5, <2>1, MessageFields DEF SendFinish, AtRest
<1>6. CASE CancelIdle
  BY <1>6, <1>b DEF CancelIdle, ShutDown, AtRest, Quiet
<1>7. CASE BeginReturns \/ StopFails \/ CancelGoesOn
  <2>1. CASE BeginReturns
    BY <1>c, <1>b, <2>1, MessageFields DEF BeginReturns, Answered, Return, Quiet
  <2>2. CASE StopFails
    BY <1>c, <1>b, <2>2, MessageFields DEF StopFails, Answered, Return, Quiet
  <2>3. CASE CancelGoesOn
    BY <1>c, <1>b, <2>3, MessageFields DEF CancelGoesOn, Answered, ShutDown, Quiet
  <2> QED
    BY <1>7, <2>1, <2>2, <2>3
<1>8. CASE StopGetsBuffer
  <2>1. reply \in Captures /\ Asked = {}
    BY <1>8 DEF StopGetsBuffer, Answered
  <2>2. \/ commands' = commands
        \/ \E e \in Expiries : commands' = Append(commands, ExpireIdle(e))
    BY <1>8, <2>1, Messages DEF StopGetsBuffer, ScheduleIdleDestroy, ShutDown
  <2>3. Asked' = {}
    BY <2>1, <2>2, AskedKept
  <2> QED
    BY <1>c, <1>8, <2>1, <2>3, MessageFields DEF StopGetsBuffer, Answered, ShutDown, Return
<1>9. CASE JoinTimer
  <2>1. AskedOnly("Shutdown")'
    BY <1>9, <1>a, AskedOnce, Messages DEF JoinTimer, ShutdownCommand
  <2> QED
    BY <1>c, <1>9, <2>1 DEF JoinTimer
<1>10. CASE JoinWorker
  <2>1. Asked' = {}
    BY <1>10 DEF JoinWorker, Asked
  <2> QED
    BY <1>c, <1>10, <2>1 DEF JoinWorker
<1>11. CASE TimerReceives
  BY <1>11, <1>b DEF TimerReceives, Quiet
<1>12. CASE TimerFires
  <2>1. Head(timer) \in Expiries
    BY <1>0, <1>12, RemainingIndices DEF TimerFires, ChannelsTyped
  <2>2. Quiet
    BY <1>12, <1>a, <2>1, AskedKept DEF TimerFires, Quiet
  <2> QED
    BY <1>12, <2>2 DEF TimerFires, Quiet
<1>13. CASE WorkerSteps
  <2>1. commands # <<>> /\ commands' = Tail(commands)
    BY <1>13
    DEF WorkerSteps, BeginReuses, BeginCreates, BeginCannotCreate, BeginCannotActivate,
        BeginWorker, FinishCaptures, FinishFails, Expire, WorkerQuits, Receives
  <2>2. Quiet
    BY <1>a, <2>1, AskedKept DEF Quiet
  <2>3. /\ pc' = pc /\ call' = call /\ recording' = recording /\ target' = target
    BY <1>13
    DEF WorkerSteps, BeginReuses, BeginCreates, BeginCannotCreate, BeginCannotActivate,
        BeginWorker, FinishCaptures, FinishFails, Expire, WorkerQuits, WorkerFrame
  <2>4. CASE BeginReuses \/ BeginCreates \/ BeginCannotCreate \/ BeginCannotActivate
    <3>1. pc = "waiting" /\ call = "begin" /\ reply = NoReply /\ Asked' = {}
      BY <2>1, <2>4, ReceivedInCall
      DEF BeginReuses, BeginCreates, BeginCannotCreate, BeginCannotActivate, BeginWorker, Receives
    <3>2. /\ reply' \in {Failed, Begun} /\ (capturing' <=> reply' = Begun)
          /\ accepting' = capturing' /\ (capturing' => stream' = target)
      <4>1. CASE BeginReuses \/ BeginCreates
        BY <4>1, MessageFields DEF BeginReuses, BeginCreates, BeginWorker, Activated
      <4>2. CASE BeginCannotCreate
        BY <1>c, <4>2, MessageFields DEF BeginCannotCreate, BeginWorker, DropStream
      <4>3. CASE BeginCannotActivate
        BY <1>c, <4>3, MessageFields DEF BeginCannotActivate, BeginWorker, DropStream
      <4> QED
        BY <2>4, <4>1, <4>2, <4>3
    <3> QED
      BY <2>2, <2>3, <3>1, <3>2 DEF Quiet
  <2>5. CASE FinishCaptures \/ FinishFails
    <3>1. pc = "waiting" /\ call # "begin" /\ reply = NoReply /\ Asked' = {}
      BY <2>1, <2>5, ReceivedInCall DEF FinishCaptures, FinishFails, Receives
    <3>2. ~capturing' /\ accepting' = capturing'
      BY <2>5 DEF FinishCaptures, FinishFails, DropStream
    <3>3. reply' \in {Failed} \cup Captures
      BY <1>0, <2>5 DEF FinishCaptures, FinishFails, Captured, Captures, WorkerTyped
    <3> QED
      BY <2>2, <2>3, <3>1, <3>2, <3>3, MessageFields DEF Quiet
  <2>6. CASE Expire
    BY <1>c, <2>2, <2>3, <2>6 DEF Expire, ShouldExpire, DropStream, Quiet
  <2>7. CASE WorkerQuits
    <3>1. pc = "joinWorker"
      BY <2>1, <2>7, ReceivedInCall DEF WorkerQuits, Receives
    <3>2. capturing' = FALSE /\ accepting' = FALSE /\ reply' = reply
      BY <2>7 DEF WorkerQuits, DropStream
    <3> QED
      BY <2>2, <2>3, <3>1, <3>2 DEF Quiet
  <2> QED
    BY <1>13, <2>4, <2>5, <2>6, <2>7 DEF WorkerSteps
<1> QED
  BY <1>1, <1>2, <1>3, <1>4, <1>5, <1>6, <1>7, <1>8, <1>9, <1>10, <1>11, <1>12, <1>13
  DEF Next, CallerSteps, TimerSteps

-----------------------------------------------------------------------------
(* The audio.                                                               *)

(* The first no buffers are none.                                           *)
LEMMA FirstOfNone == ASSUME NEW t PROVE FirstOf(t, 0) = <<>>
  BY DEF FirstOf

(* One buffer more of the same take continues the audio.                    *)
LEMMA FirstOfGrows ==
  ASSUME NEW t \in 1 .. MaxTakes, NEW n \in Nat, NEW m \in Nat, m = n + 1, m \in 1 .. MaxChunks
  PROVE  FirstOf(t, n) \o <<[take |-> t, number |-> m]>> = FirstOf(t, m)
<1> DEFINE s == FirstOf(t, n)
           b == <<[take |-> t, number |-> m]>>
           c == s \o b
<1>0. MaxChunks \in Nat
  BY RecorderConstants DEF RecorderConstants
<1>1. s \in Seq(Chunks) /\ Len(s) = n /\ \A i \in 1 .. n : s[i] = [take |-> t, number |-> i]
  BY <1>0 DEF FirstOf, Chunks
<1>2. b \in Seq(Chunks) /\ Len(b) = 1 /\ b[1] = [take |-> t, number |-> m]
  BY DEF Chunks
<1> HIDE DEF s, b
<1>3. /\ c \in Seq(Chunks) /\ Len(c) = m
      /\ \A i \in 1 .. m : c[i] = IF i <= n THEN s[i] ELSE b[i - n]
  <2>1. /\ c \in Seq(Chunks) /\ Len(c) = Len(s) + Len(b)
        /\ \A i \in 1 .. Len(s) + Len(b) : c[i] = IF i <= Len(s) THEN s[i] ELSE b[i - Len(s)]
    BY <1>1, <1>2, ConcatProperties, Zenon
  <2>2. Len(s) = n /\ Len(b) = 1 /\ Len(s) + Len(b) = m
    BY <1>1, <1>2
  <2> HIDE DEF c
  <2> QED
    BY <2>1, <2>2
<1> HIDE DEF c
<1>4. \A i \in 1 .. m : c[i] = [take |-> t, number |-> i]
  <2>1. ASSUME NEW i \in 1 .. m
        PROVE  c[i] = [take |-> t, number |-> i]
    <3>1. CASE i <= n
      BY <1>1, <1>3, <3>1
    <3>2. CASE i = m
      BY <1>2, <1>3, <3>2
    <3> QED
      BY <3>1, <3>2
  <2> QED
    BY <2>1
<1>5. c = FirstOf(t, m)
  BY <1>3, <1>4 DEF FirstOf
<1> QED
  BY <1>5 DEF c, s, b

(* Only begin_recording makes a recording fresh.                            *)
LEMMA FreshIsNew ==
  ASSUME RecorderTypeOK, ThreadsFit, CallFits, Next,
         ~\E t \in Targets : BeginRecording(t)
  PROVE  Fresh' => Fresh
<1> USE DEF Fresh, Joining, envVars, callerVars, callbackVars, threadVars, timerVars, deviceVars,
            workerVars
<1>1. CASE InstallCallback \/ ClearCallback \/ Capture \/ Process \/ TimerSteps
  BY <1>1
  DEF InstallCallback, ClearCallback, Capture, Process, TimerSteps, TimerReceives, TimerFires
<1>2. CASE \E c \in {"stop", "cancel"} : SendFinish(c)
  BY <1>2 DEF SendFinish
<1>3. CASE CancelIdle \/ Spawn \/ SpawnFails \/ SendBegin \/ JoinTimer \/ JoinWorker
  BY <1>3, MessageFields
  DEF CancelIdle, Spawn, SpawnFails, SendBegin, JoinTimer, JoinWorker, ShutDown, Return, CallFits,
      AtRest
<1>4. CASE BeginReturns \/ StopGetsBuffer \/ StopFails \/ CancelGoesOn
  BY <1>4
  DEF BeginReturns, StopGetsBuffer, StopFails, CancelGoesOn, Answered, ShutDown, Return
<1>5. CASE WorkerSteps
  <2>1. pc' = pc /\ call' = call
    BY <1>5
    DEF WorkerSteps, BeginReuses, BeginCreates, BeginCannotCreate, BeginCannotActivate,
        BeginWorker, FinishCaptures, FinishFails, Expire, WorkerQuits, WorkerFrame
  <2>2. reply' = reply \/ reply' \in {Failed, Begun} \/ reply' \in Captures
    BY <1>5, TypedInParts
    DEF WorkerSteps, BeginReuses, BeginCreates, BeginCannotCreate, BeginCannotActivate,
        FinishCaptures, FinishFails, Expire, WorkerQuits, Activated, Captured, Captures,
        WorkerTyped
  <2> QED
    BY <2>1, <2>2, MessageFields
<1> QED
  BY <1>1, <1>2, <1>3, <1>4, <1>5 DEF Next, CallerSteps

(* A step of the caller, the timer or an idle worker leaves the audio.      *)
LEMMA AudioLeft ==
  ASSUME RecorderTypeOK, CallFits, AudioFits, Fresh' => Fresh,
         (pc' # "rest" /\ call' = "begin") \/ recording' =>
           (pc # "rest" /\ call = "begin") \/ recording,
         callback = take + 1 => ~recording' /\ (pc' = "rest" \/ call' # "begin"),
         take' = take, callback' = callback, heard' = heard, produced' = produced,
         capturing' => capturing /\ samples' = samples /\ buffer' = buffer,
         reply' = reply \/ reply'.type # "captured"
  PROVE  AudioFits'
BY DEF AudioFits, AudioStaysInItsTake, StopReturnsItsTake, CallbackHearsItsTake

(* Every step keeps the audio in its take.                                  *)
LEMMA AudioStaysFit ==
  ASSUME RecorderTypeOK, ThreadsFit, TimerIsKept, CallFits, AudioFits, Next
  PROVE  AudioFits'
<1> USE DEF envVars, callerVars, callbackVars, threadVars, timerVars, deviceVars, workerVars
<1>0. CallerTyped /\ ChannelsTyped /\ WorkerTyped
  BY TypedInParts
<1>a. /\ Len(<<>>) = 0 /\ FirstOf(0, 0) = <<>> /\ FirstOf(take, 0) = <<>>
      /\ FirstOf(take + 1, 0) = <<>>
  BY FirstOfNone
<1>b. take \in Nat /\ callback \in Nat /\ recording \in BOOLEAN /\ capturing \in BOOLEAN
      /\ reuse \in BOOLEAN /\ hasWorker \in BOOLEAN
  BY <1>0, RecorderConstants DEF CallerTyped, WorkerTyped, RecorderConstants
<1>1. CASE InstallCallback
  <2>1. /\ pc = "rest" /\ ~recording /\ callback' = take + 1 /\ heard' = <<>>
        /\ reply = NoReply /\ ~capturing
    BY <1>1, <1>b DEF InstallCallback, AtRest, CallFits
  <2>2. /\ UNCHANGED <<pc, call, recording, take, produced, samples, buffer, capturing, reply>>
    BY <1>1 DEF InstallCallback
  <2> QED
    BY <1>a, <1>b, <2>1, <2>2, MessageFields
    DEF AudioFits, AudioStaysInItsTake, StopReturnsItsTake, CallbackHearsItsTake, Fresh, Joining
<1>2. CASE ClearCallback
  <2>1. pc = "rest" /\ callback' = 0 /\ heard' = <<>> /\ reply = NoReply
        /\ capturing = recording
    BY <1>2, <1>b DEF ClearCallback, AtRest, CallFits
  <2>2. /\ UNCHANGED <<pc, call, recording, take, produced, samples, buffer, capturing, reply>>
    BY <1>2 DEF ClearCallback
  <2> QED
    BY <1>a, <1>b, <2>1, <2>2, MessageFields
    DEF AudioFits, AudioStaysInItsTake, StopReturnsItsTake, CallbackHearsItsTake, Fresh, Joining
<1>3. ASSUME NEW t \in Targets, BeginRecording(t)
      PROVE  AudioFits'
  <2>1. /\ pc = "rest" /\ ~recording /\ callback = take + 1 /\ reply = NoReply /\ ~capturing
        /\ take' = take + 1 /\ produced' = 0 /\ pc' # "rest" /\ call' = "begin"
    BY <1>3, <1>b DEF BeginRecording, AtRest, CallFits, ShutDown
  <2>2. heard = <<>>
    BY <2>1 DEF AudioFits
  <2>3. UNCHANGED <<recording, callback, heard, samples, buffer, capturing, reply>>
    BY <1>3 DEF BeginRecording
  <2> QED
    BY <1>a, <1>b, <2>1, <2>2, <2>3, MessageFields
    DEF AudioFits, AudioStaysInItsTake, StopReturnsItsTake, CallbackHearsItsTake, Fresh, Joining
<1>c. ~(\E t \in Targets : BeginRecording(t)) => (Fresh' => Fresh)
  BY FreshIsNew
<1>d. callback = take + 1 => ~recording /\ (pc = "rest" \/ call # "begin")
  BY DEF AudioFits
<1>e. pc \in {"spawning", "sending"} => call = "begin"
  BY DEF CallFits
<1>4. CASE \/ CancelIdle \/ \E c \in {"stop", "cancel"} : SendFinish(c)
  <2>1. ~\E t \in Targets : BeginRecording(t)
    BY <1>4 DEF CancelIdle, SendFinish, BeginRecording

  <2>2. /\ (pc' # "rest" /\ call' = "begin") \/ recording' =>
             (pc # "rest" /\ call = "begin") \/ recording
        /\ callback = take + 1 => ~recording' /\ (pc' = "rest" \/ call' # "begin")
        /\ UNCHANGED <<take, callback, heard, produced, capturing, samples, buffer, reply>>
    BY <1>4, <1>d DEF CancelIdle, SendFinish, AtRest, ShutDown
  <2> QED
    BY <1>c, <2>1, <2>2, AudioLeft
<1>5. CASE CallerSteps
  <2>1. ~\E t \in Targets : BeginRecording(t)
    BY <1>5
    DEF CallerSteps, Spawn, SpawnFails, SendBegin, BeginReturns, StopGetsBuffer, StopFails,
        CancelGoesOn, JoinTimer, JoinWorker, Answered, BeginRecording, AtRest
  <2>2. UNCHANGED <<take, callback, heard, produced, capturing, samples, buffer, call>>
    BY <1>5
    DEF CallerSteps, Spawn, SpawnFails, SendBegin, BeginReturns, StopGetsBuffer, StopFails,
        CancelGoesOn, JoinTimer, JoinWorker
  <2>3. reply' \in {reply, NoReply}
    BY <1>5
    DEF CallerSteps, Spawn, SpawnFails, SendBegin, BeginReturns, StopGetsBuffer, StopFails,
        CancelGoesOn, JoinTimer, JoinWorker, Answered
  <2>4. /\ (pc' # "rest" /\ call' = "begin") \/ recording' =>
             (pc # "rest" /\ call = "begin") \/ recording
        /\ callback = take + 1 => ~recording' /\ (pc' = "rest" \/ call' # "begin")
    <3>1. pc # "rest"
      BY <1>5
      DEF CallerSteps, Spawn, SpawnFails, SendBegin, BeginReturns, StopGetsBuffer, StopFails,
          CancelGoesOn, JoinTimer, JoinWorker, Answered
    <3>2. recording' = recording \/ recording' = FALSE \/ (call = "begin" /\ pc # "rest")
      BY <1>5
      DEF CallerSteps, Spawn, SpawnFails, SendBegin, BeginReturns, StopGetsBuffer, StopFails,
          CancelGoesOn, JoinTimer, JoinWorker, Answered
    <3> QED
      BY <1>d, <2>2, <3>1, <3>2
  <2> QED
    BY <1>c, <2>1, <2>2, <2>3, <2>4, AudioLeft, MessageFields
<1>6. CASE TimerSteps
  <2>1. ~\E t \in Targets : BeginRecording(t)
    BY <1>6, <1>b DEF TimerSteps, TimerReceives, TimerFires, BeginRecording
  <2>2. UNCHANGED <<take, callback, heard, produced, capturing, samples, buffer, call, pc,
                    recording, reply>>
    BY <1>6 DEF TimerSteps, TimerReceives, TimerFires
  <2> QED
    BY <1>c, <1>d, <2>1, <2>2, AudioLeft
<1>7. CASE Expire \/ WorkerQuits \/ FinishFails \/ BeginCannotCreate \/ BeginCannotActivate
  <2>1. UNCHANGED <<take, callback, heard, produced, call, pc, recording>>
    BY <1>7
    DEF Expire, WorkerQuits, FinishFails, BeginCannotCreate, BeginCannotActivate, BeginWorker,
        WorkerFrame
  <2>2. ~\E t \in Targets : BeginRecording(t)
    BY <1>b, <2>1 DEF BeginRecording
  <2>3. reply' = reply \/ reply' = Failed
    BY <1>7
    DEF Expire, WorkerQuits, FinishFails, BeginCannotCreate, BeginCannotActivate, BeginWorker,
        WorkerFrame
  <2>4. capturing' => capturing /\ samples' = samples /\ buffer' = buffer
    BY <1>7
    DEF Expire, WorkerQuits, FinishFails, BeginCannotCreate, BeginCannotActivate, BeginWorker,
        WorkerFrame, ShouldExpire
  <2> QED
    BY <1>c, <1>d, <2>1, <2>2, <2>3, <2>4, AudioLeft, MessageFields
<1>8. CASE BeginReuses \/ BeginCreates
  <2>1. commands # <<>> /\ commands' = Tail(commands) /\ Head(commands).type = "Begin"
    BY <1>8 DEF BeginReuses, BeginCreates, BeginWorker, Receives
  <2>2. pc = "waiting" /\ call = "begin" /\ reply = NoReply
    BY <2>1, ReceivedInCall
  <2>3. produced = 0 /\ callback = take /\ heard = <<>> /\ take # 0
    BY <2>2 DEF AudioFits, Fresh, Joining
  <2>4. UNCHANGED <<take, callback, heard, produced, call, pc, recording>>
    BY <1>8 DEF BeginReuses, BeginCreates, BeginWorker, WorkerFrame
  <2>5. reply' = Begun /\ samples' = <<>> /\ buffer' = <<>>
    BY <1>8 DEF BeginReuses, BeginCreates, Activated
  <2> QED
    BY <1>a, <1>b, <2>2, <2>3, <2>4, <2>5, MessageFields
    DEF AudioFits, AudioStaysInItsTake, StopReturnsItsTake, CallbackHearsItsTake, Fresh, Joining
<1>9. CASE FinishCaptures
  <2>1. capturing /\ ~capturing'
    BY <1>9 DEF FinishCaptures
  <2>2. UNCHANGED <<take, callback, heard, produced, call, pc, recording>>
    BY <1>9 DEF FinishCaptures, WorkerFrame
  <2>3. reply'.type = "captured" /\ reply'.samples = samples /\ reply' # NoReply
    BY <1>9 DEF FinishCaptures, Captured, NoReply
  <2>4. samples = FirstOf(take, Len(samples)) /\ (callback = take => heard = samples)
    BY <2>1 DEF AudioFits
  <2> HIDE <1>9
  <2>5. ~Fresh'
    BY <2>1, <2>2, <2>3 DEF Fresh, CallFits, Joining
  <2> QED
    BY <2>1, <2>2, <2>3, <2>4, <2>5
    DEF AudioFits, AudioStaysInItsTake, StopReturnsItsTake, CallbackHearsItsTake
<1>10. CASE Capture
  <2>1. UNCHANGED <<take, callback, heard, call, pc, recording, reply, samples, capturing>>
    BY <1>10 DEF Capture
  <2>2. /\ capturing /\ buffer = <<>> /\ produced' = produced + 1
        /\ buffer' = <<[take |-> take, number |-> produced']>>
    BY <1>10 DEF Capture
  <2>3. Len(samples) = produced
    BY <1>0, <1>a, <2>2 DEF AudioFits, WorkerTyped
  <2>4. Len(buffer') = 1 /\ Len(samples) + 1 = produced'
    BY <1>0, <2>2, <2>3 DEF WorkerTyped
  <2>5. ~Fresh'
    BY <2>1, <2>2, MessageFields DEF Fresh, CallFits, Joining
  <2> QED
    BY <2>1, <2>2, <2>4, <2>5
    DEF AudioFits, AudioStaysInItsTake, StopReturnsItsTake, CallbackHearsItsTake
<1>11. CASE Process
  <2>1. UNCHANGED <<take, callback, call, pc, recording, reply, capturing, produced>>
    BY <1>11 DEF Process
  <2>2. CASE ~capturing
    <3>1. heard' = heard
      BY <1>0, <1>11, <2>2 DEF Process, CallFits, WorkerTyped
    <3>2. ~\E t \in Targets : BeginRecording(t)
      BY <1>b, <2>1 DEF BeginRecording
    <3> QED
      BY <1>c, <1>d, <2>1, <2>2, <3>1, <3>2, AudioLeft
  <2>3. CASE capturing
    <3>1. /\ buffer # <<>> /\ buffer' = <<>> /\ samples' = samples \o buffer
          /\ heard' = IF callback = 0 THEN heard ELSE heard \o buffer
      BY <1>11, <2>3 DEF Process, CallFits
    <3>2. /\ buffer = <<[take |-> take, number |-> produced]>>
          /\ Len(samples) + Len(buffer) = produced
          /\ samples = FirstOf(take, Len(samples))
          /\ callback = take => heard = samples
      BY <2>3, <3>1 DEF AudioFits
    <3>3. Len(samples) \in Nat /\ produced \in 1 .. MaxChunks /\ produced = Len(samples) + 1
      <4>1. Len(buffer) = 1
        BY <3>2
      <4> QED
        BY <1>0, <3>2, <4>1, RecorderConstants DEF WorkerTyped, RecorderConstants
    <3>4. take \in 1 .. MaxTakes /\ ~Fresh /\ (callback = take + 1 => FALSE)
      <4>1. \/ recording
            \/ pc = "waiting" /\ call = "begin" /\ reply = Begun
        BY <1>b, <2>3 DEF CallFits
      <4>2. pc \in {"rest", "waiting"}
        BY <2>3 DEF CallFits
      <4>3. ~Fresh
        BY <2>3, <4>2, MessageFields DEF Fresh, Joining, CallFits
      <4>4. take # 0
        BY <4>1 DEF AudioFits
      <4> QED
        BY <1>0, <1>b, <1>d, <4>1, <4>3, <4>4 DEF CallerTyped
    <3>5. samples' = FirstOf(take, produced)
      BY <3>1, <3>2, <3>3, <3>4, FirstOfGrows
    <3>6. Len(samples') = produced /\ Len(buffer') = 0
      <4>1. Len(FirstOf(take, produced)) = produced
        BY <3>3, RecorderConstants DEF FirstOf, RecorderConstants
      <4> QED
        BY <3>1, <3>5, <4>1
    <3>7. callback = take => heard' = samples'
      BY <3>1, <3>2, <3>4
    <3>8. heard' = FirstOf(callback, Len(heard'))
      <4>1. CASE callback = take
        BY <3>5, <3>6, <3>7, <4>1
      <4>2. CASE callback = 0
        BY <3>1, <4>2 DEF AudioFits, AudioStaysInItsTake, CallbackHearsItsTake
      <4> QED
        BY <3>4, <4>1, <4>2 DEF AudioFits
    <3>9. reply.type # "captured" /\ Fresh' = Fresh
      BY <1>0, <2>1, <2>3, MessageFields DEF CallFits, Fresh, ChannelsTyped
    <3> QED
      BY <1>d, <2>1, <3>1, <3>4, <3>5, <3>6, <3>7, <3>8, <3>9, <1>b
      DEF AudioFits, AudioStaysInItsTake, StopReturnsItsTake, CallbackHearsItsTake
  <2> QED
    BY <2>2, <2>3
<1> QED
  BY <1>1, <1>2, <1>3, <1>4, <1>5, <1>6, <1>7, <1>8, <1>9, <1>10, <1>11 DEF Next, WorkerSteps

-----------------------------------------------------------------------------
(* The expiries.                                                            *)

(* The generation stays, with its stop, or is advanced.                     *)
GenerationKept ==
  \/ generation' = generation /\ stops' = stops
  \/ generation' = generation + 1

(* What an expiry tells stays true when the generation advances.            *)
LEMMA TellsOn ==
  ASSUME RecorderTypeOK, GenerationKept, NEW e \in Expiries, Tells(e)
  PROVE  Tells(e)'
<1>1. generation \in Nat /\ e.generation \in Nat
  BY TypedInParts DEF WorkerTyped, Expiries
<1> QED
  BY <1>1 DEF Tells, GenerationKept

(* So it does in the pending timer,                                         *)
LEMMA TimerTellsOn ==
  ASSUME RecorderTypeOK, GenerationKept, TimerTells,
         timer' \in {timer, <<>>} \/ \E e \in Expiries : Tells(e) /\ timer' = <<e>>
  PROVE  TimerTells'
<1>1. timer \in Seq(Expiries)
  BY TypedInParts DEF ChannelsTyped
<1>2. CASE timer' = timer
  <2>1. ASSUME NEW i \in DOMAIN timer
        PROVE  Tells(timer[i])'
    <3> DEFINE e == timer[i]
    <3>1. e \in Expiries /\ Tells(e)
      BY <1>1, <2>1 DEF TimerTells
    <3>2. timer'[i] = timer[i]
      BY <1>2
    <3> QED
      BY <3>1, <3>2, TellsOn DEF Tells
  <2> QED
    BY <1>2, <2>1 DEF TimerTells
<1>3. CASE timer' = <<>>
  BY <1>3 DEF TimerTells
<1>4. ASSUME NEW e \in Expiries, Tells(e), timer' = <<e>>
      PROVE  TimerTells'
  <2>1. Tells(e)'
    BY <1>4, TellsOn
  <2>2. DOMAIN timer' = 1 .. 1 /\ timer'[1] = e
    BY <1>4
  <2> QED
    BY <2>1, <2>2 DEF TimerTells, Tells
<1> QED
  BY <1>2, <1>3, <1>4

(* in the timer's queue,                                                    *)
LEMMA QueueTellsOn ==
  ASSUME RecorderTypeOK, GenerationKept, QueueTells,
         \/ timerQueue' \in {timerQueue, <<>>}
         \/ timerQueue' = Append(timerQueue, ShutdownCommand)
         \/ \E e \in Expiries : Tells(e) /\ timerQueue' = Append(timerQueue, Schedule(e))
         \/ timerQueue # <<>> /\ timerQueue' = Tail(timerQueue)
  PROVE  QueueTells'
<1>1. timerQueue \in Seq(Timings)
  BY TypedInParts DEF ChannelsTyped
<1> DEFINE Told(m) == m.type = "Schedule" =>
                        /\ m.expiry.generation <= generation'
                        /\ m.expiry.generation = generation' => m.expiry.stop = stops'
<1>2. ASSUME NEW i \in DOMAIN timerQueue
      PROVE  Told(timerQueue[i])
  <2> DEFINE m == timerQueue[i]
  <2>1. CASE m.type = "Schedule"
    <3>1. m.expiry \in Expiries
      BY <1>1, <2>1, MessageFields
    <3>2. Tells(m.expiry)
      BY <2>1 DEF QueueTells
    <3>3. PICK e \in Expiries : e = m.expiry
      BY <3>1
    <3>4. Tells(e)'
      BY <3>2, <3>3, TellsOn
    <3>5. e.generation <= generation' /\ (e.generation = generation' => e.stop = stops')
      BY <3>4 DEF Tells
    <3> QED
      BY <3>3, <3>5
  <2> QED
    BY <2>1
<1> SUFFICES \A i \in DOMAIN timerQueue' : Told(timerQueue'[i])
  BY DEF QueueTells, Tells
<1> HIDE DEF Told
<1>3. CASE timerQueue' = timerQueue
  BY <1>2, <1>3
<1>4. CASE timerQueue' = <<>>
  BY <1>4
<1>5. ASSUME NEW m \in Timings, timerQueue' = Append(timerQueue, m), Told(m)
      PROVE  \A i \in DOMAIN timerQueue' : Told(timerQueue'[i])
  <2>1. /\ DOMAIN timerQueue' = 1 .. Len(timerQueue) + 1
        /\ Len(timerQueue) \in Nat /\ DOMAIN timerQueue = 1 .. Len(timerQueue)
        /\ \A i \in 1 .. Len(timerQueue) : timerQueue'[i] = timerQueue[i]
        /\ timerQueue'[Len(timerQueue) + 1] = m
    BY <1>1, <1>5, AppendedIndices
  <2>2. ASSUME NEW i \in DOMAIN timerQueue'
        PROVE  Told(timerQueue'[i])
    <3>0. i \in 1 .. Len(timerQueue) + 1 /\ Len(timerQueue) \in Nat
      BY <2>1, Zenon
    <3>1. CASE i \in 1 .. Len(timerQueue)
      BY <1>2, <2>1, <3>1
    <3>2. CASE i = Len(timerQueue) + 1
      BY <1>5, <2>1, <3>2
    <3> QED
      BY <3>0, <3>1, <3>2
  <2> QED
    BY <2>2
<1>6. Told(ShutdownCommand) /\ ShutdownCommand \in Timings
  BY Messages DEF Told, ShutdownCommand
<1>7. ASSUME NEW e \in Expiries, Tells(e)
      PROVE  Told(Schedule(e)) /\ Schedule(e) \in Timings
  <2>1. Tells(e)'
    BY <1>7, TellsOn
  <2> QED
    BY <2>1, Messages DEF Told, Schedule, Tells
<1>8. CASE timerQueue # <<>> /\ timerQueue' = Tail(timerQueue)
  <2>1. \A i \in DOMAIN timerQueue' :
          i + 1 \in DOMAIN timerQueue /\ timerQueue'[i] = timerQueue[i + 1]
    BY <1>1, <1>8, RemainingIndices
  <2> QED
    BY <1>2, <2>1
<1> QED
  BY <1>3, <1>4, <1>5, <1>6, <1>7, <1>8

(* and among the worker's commands.                                         *)
LEMMA CommandsTellOn ==
  ASSUME RecorderTypeOK, GenerationKept, CommandsTell,
         \/ commands' \in {commands, <<>>}
         \/ \E m \in Commands : m.type # "ExpireIdle" /\ commands' = Append(commands, m)
         \/ \E e \in Expiries : Tells(e) /\ commands' = Append(commands, ExpireIdle(e))
         \/ commands # <<>> /\ commands' = Tail(commands)
  PROVE  CommandsTell'
<1>1. commands \in Seq(Commands)
  BY TypedInParts DEF ChannelsTyped
<1> DEFINE Told(m) == m.type = "ExpireIdle" =>
                        /\ m.expiry.generation <= generation'
                        /\ m.expiry.generation = generation' => m.expiry.stop = stops'
<1>2. ASSUME NEW i \in DOMAIN commands
      PROVE  Told(commands[i])
  <2> DEFINE m == commands[i]
  <2>1. CASE m.type = "ExpireIdle"
    <3>1. m.expiry \in Expiries
      BY <1>1, <2>1, MessageFields
    <3>2. Tells(m.expiry)
      BY <2>1 DEF CommandsTell
    <3>3. PICK e \in Expiries : e = m.expiry
      BY <3>1
    <3>4. Tells(e)'
      BY <3>2, <3>3, TellsOn
    <3>5. e.generation <= generation' /\ (e.generation = generation' => e.stop = stops')
      BY <3>4 DEF Tells
    <3> QED
      BY <3>3, <3>5
  <2> QED
    BY <2>1
<1> SUFFICES \A i \in DOMAIN commands' : Told(commands'[i])
  BY DEF CommandsTell, Tells
<1> HIDE DEF Told
<1>3. CASE commands' = commands
  BY <1>2, <1>3
<1>4. CASE commands' = <<>>
  BY <1>4
<1>5. ASSUME NEW m \in Commands, commands' = Append(commands, m), Told(m)
      PROVE  \A i \in DOMAIN commands' : Told(commands'[i])
  <2>1. /\ DOMAIN commands' = 1 .. Len(commands) + 1
        /\ Len(commands) \in Nat /\ DOMAIN commands = 1 .. Len(commands)
        /\ \A i \in 1 .. Len(commands) : commands'[i] = commands[i]
        /\ commands'[Len(commands) + 1] = m
    BY <1>1, <1>5, AppendedIndices
  <2>2. ASSUME NEW i \in DOMAIN commands'
        PROVE  Told(commands'[i])
    <3>0. i \in 1 .. Len(commands) + 1 /\ Len(commands) \in Nat
      BY <2>1, Zenon
    <3>1. CASE i \in 1 .. Len(commands)
      BY <1>2, <2>1, <3>1
    <3>2. CASE i = Len(commands) + 1
      BY <1>5, <2>1, <3>2
    <3> QED
      BY <3>0, <3>1, <3>2
  <2> QED
    BY <2>2
<1>6. \A m \in Commands : m.type # "ExpireIdle" => Told(m)
  BY DEF Told
<1>7. ASSUME NEW e \in Expiries, Tells(e)
      PROVE  Told(ExpireIdle(e)) /\ ExpireIdle(e) \in Commands
  <2>1. Tells(e)'
    BY <1>7, TellsOn
  <2> QED
    BY <2>1, Messages DEF Told, ExpireIdle, Tells
<1>8. CASE commands # <<>> /\ commands' = Tail(commands)
  <2>1. \A i \in DOMAIN commands' :
          i + 1 \in DOMAIN commands /\ commands'[i] = commands[i + 1]
    BY <1>1, <1>8, RemainingIndices
  <2> QED
    BY <1>2, <2>1
<1> QED
  BY <1>3, <1>4, <1>5, <1>6, <1>7, <1>8

(* Every step keeps the expiries truthful.                                  *)
LEMMA ExpiriesStayFit ==
  ASSUME RecorderTypeOK, ThreadsFit, CallFits, ExpiriesFit, Next
  PROVE  ExpiriesFit'
<1> USE DEF ExpiriesFit, envVars, callerVars, callbackVars, threadVars, timerVars, deviceVars,
            workerVars
<1>0. CallerTyped /\ ChannelsTyped /\ WorkerTyped
  BY TypedInParts
<1>a. ASSUME generation' = generation, stops' = stops, reply' = reply \/ reply'.type # "captured"
      PROVE  GenerationKept /\ ReplyTells'
  BY <1>a DEF GenerationKept, ReplyTells
<1>1. CASE \/ InstallCallback \/ ClearCallback \/ Capture \/ Process \/ SpawnFails
           \/ BeginReturns \/ StopFails
  <2>1. UNCHANGED <<timer, timerQueue, commands, generation, stops>>
    BY <1>1
    DEF InstallCallback, ClearCallback, Capture, Process, SpawnFails, BeginReturns, StopFails
  <2>2. reply' \in {reply, NoReply}
    BY <1>1
    DEF InstallCallback, ClearCallback, Capture, Process, SpawnFails, BeginReturns, StopFails,
        Answered
  <2> QED
    BY <1>a, <2>1, <2>2, MessageFields, TimerTellsOn, QueueTellsOn, CommandsTellOn
<1>2. CASE Spawn
  <2>1. timer = <<>> /\ timerQueue = <<>> /\ commands = <<>> /\ reply = NoReply
    BY <1>2 DEF Spawn, ThreadsFit, CallFits
  <2>2. UNCHANGED <<timer, timerQueue, commands, reply>>
    BY <1>2 DEF Spawn
  <2>3. timer' = <<>> /\ timerQueue' = <<>> /\ commands' = <<>> /\ reply' = NoReply
    BY <2>1, <2>2
  <2> QED
    BY <2>3, MessageFields DEF TimerTells, QueueTells, CommandsTell, ReplyTells
<1>3. CASE SendBegin \/ JoinTimer \/ \E c \in {"stop", "cancel"} : SendFinish(c)
  <2>1. UNCHANGED <<timer, timerQueue, reply, generation, stops>>
    BY <1>3 DEF SendBegin, JoinTimer, SendFinish
  <2>2. \E m \in Commands : m.type # "ExpireIdle" /\ commands' = Append(commands, m)
    BY <1>3, Messages
    DEF SendBegin, JoinTimer, SendFinish, BeginCommand, FinishCommand, ShutdownCommand
  <2> QED
    BY <1>a, <2>1, <2>2, TimerTellsOn, QueueTellsOn, CommandsTellOn
<1>4. CASE CancelGoesOn \/ CancelIdle \/ \E t \in Targets : BeginRecording(t)
  <2>1. UNCHANGED <<timer, commands, generation, stops>>
    BY <1>4 DEF CancelGoesOn, CancelIdle, BeginRecording
  <2>2. reply' \in {reply, NoReply}
    BY <1>4 DEF CancelGoesOn, CancelIdle, BeginRecording, Answered
  <2>3. timerQueue' = timerQueue \/ timerQueue' = Append(timerQueue, ShutdownCommand)
    BY <1>4 DEF CancelGoesOn, CancelIdle, BeginRecording, ShutDown
  <2> QED
    BY <1>a, <2>1, <2>2, <2>3, MessageFields, TimerTellsOn, QueueTellsOn, CommandsTellOn
<1>5. CASE StopGetsBuffer
  <2>1. reply \in Captures
    BY <1>5 DEF StopGetsBuffer, Answered, CallFits
  <2>2. PICK e \in Expiries : e = Expiry(reply)
    BY <2>1, Messages
  <2>3. Tells(e)
    BY <1>0, <2>1, <2>2, MessageFields DEF ReplyTells, Tells, Expiry, WorkerTyped
  <2>4. UNCHANGED <<timer, generation, stops>> /\ reply' = NoReply
    BY <1>5 DEF StopGetsBuffer, Answered
  <2>5. /\ \/ timerQueue' = timerQueue
           \/ timerQueue' = Append(timerQueue, ShutdownCommand)
           \/ timerQueue' = Append(timerQueue, Schedule(e))
        /\ commands' = commands \/ commands' = Append(commands, ExpireIdle(e))
    BY <1>5, <2>2 DEF StopGetsBuffer, ShutDown, ScheduleIdleDestroy
  <2> QED
    BY <1>a, <2>3, <2>4, <2>5, MessageFields, TimerTellsOn, QueueTellsOn, CommandsTellOn
<1>6. CASE JoinWorker
  <2>1. UNCHANGED <<timer, reply, generation, stops>> /\ timerQueue' = <<>> /\ commands' = <<>>
    BY <1>6 DEF JoinWorker
  <2> QED
    BY <1>a, <2>1, TimerTellsOn, QueueTellsOn, CommandsTellOn
<1>7. CASE TimerReceives
  <2>1. UNCHANGED <<commands, reply, generation, stops>>
    BY <1>7 DEF TimerReceives
  <2>2. timerQueue # <<>> /\ timerQueue' = Tail(timerQueue)
    BY <1>7 DEF TimerReceives
  <2>3. /\ Head(timerQueue) \in Timings
        /\ Head(timerQueue) = timerQueue[1] /\ 1 \in DOMAIN timerQueue
    BY <1>0, <2>2, RemainingIndices DEF ChannelsTyped
  <2>4. Head(timerQueue).type = "Schedule" =>
          /\ Head(timerQueue).expiry \in Expiries
          /\ Tells(Head(timerQueue).expiry)
    BY <2>3, MessageFields DEF QueueTells
  <2>5. timer' \in {timer, <<>>} \/ \E e \in Expiries : Tells(e) /\ timer' = <<e>>
    BY <1>7, <2>4 DEF TimerReceives
  <2> QED
    BY <1>a, <2>1, <2>2, <2>5, TimerTellsOn, QueueTellsOn, CommandsTellOn
<1>8. CASE TimerFires
  <2>1. UNCHANGED <<timerQueue, reply, generation, stops>> /\ timer' = <<>>
    BY <1>8 DEF TimerFires
  <2>2. Head(timer) \in Expiries /\ Head(timer) = timer[1] /\ 1 \in DOMAIN timer
    BY <1>0, <1>8, RemainingIndices DEF ChannelsTyped, TimerFires
  <2>3. Tells(Head(timer))
    BY <2>2 DEF TimerTells
  <2>4. \E e \in Expiries : Tells(e) /\ commands' = Append(commands, ExpireIdle(e))
    BY <1>8, <2>2, <2>3 DEF TimerFires
  <2> QED
    BY <1>a, <2>1, <2>4, TimerTellsOn, QueueTellsOn, CommandsTellOn
<1>9. CASE WorkerSteps
  <2>1. /\ UNCHANGED <<timer, timerQueue>>
        /\ commands # <<>> /\ commands' = Tail(commands)
    BY <1>9
    DEF WorkerSteps, BeginReuses, BeginCreates, BeginCannotCreate, BeginCannotActivate,
        BeginWorker, FinishCaptures, FinishFails, Expire, WorkerQuits, WorkerFrame, Receives
  <2>2. GenerationKept /\ ReplyTells'
    <3>1. CASE BeginReuses \/ BeginCreates \/ BeginCannotCreate \/ BeginCannotActivate
      <4>1. generation' = generation + 1 /\ reply' \in {Failed, Begun}
        BY <3>1
        DEF BeginReuses, BeginCreates, BeginCannotCreate, BeginCannotActivate, BeginWorker,
            Activated
      <4> QED
        BY <4>1, MessageFields DEF GenerationKept, ReplyTells
    <3>2. CASE FinishCaptures
      <4>1. /\ generation' = generation + 1
            /\ reply'.generation = generation' /\ reply'.stop = stops'
        BY <3>2 DEF FinishCaptures, Captured
      <4> QED
        BY <4>1 DEF GenerationKept, ReplyTells
    <3>3. CASE FinishFails \/ Expire
      <4>1. UNCHANGED <<generation, stops>> /\ reply' \in {reply, Failed}
        BY <3>3 DEF FinishFails, Expire
      <4> QED
        BY <1>a, <4>1, MessageFields
    <3>4. CASE WorkerQuits
      <4>1. generation' = generation + 1 /\ reply' = reply /\ Head(commands).type = "Shutdown"
        BY <3>4 DEF WorkerQuits, Receives
      <4>2. reply = NoReply
        BY <2>1, <4>1, ReceivedInCall DEF CallFits
      <4> QED
        BY <4>1, <4>2, MessageFields DEF GenerationKept, ReplyTells
    <3> QED
      BY <1>9, <3>1, <3>2, <3>3, <3>4 DEF WorkerSteps
  <2> QED
    BY <2>1, <2>2, TimerTellsOn, QueueTellsOn, CommandsTellOn
<1> QED
  BY <1>1, <1>2, <1>3, <1>4, <1>5, <1>6, <1>7, <1>8, <1>9 DEF Next, CallerSteps, TimerSteps

(* Every step keeps the expiry of a warm stream under way.                  *)
LEMMA WarmStaysDue ==
  ASSUME RecorderTypeOK, ThreadsFit, TimerIsKept, CallFits, ExpiriesFit, WarmIsDue, Next
  PROVE  WarmIsDue'
<1> USE DEF envVars, callerVars, callbackVars, threadVars, timerVars, deviceVars, workerVars
<1>0. CallerTyped /\ ChannelsTyped /\ WorkerTyped
  BY TypedInParts
<1> SUFFICES ASSUME Warm'
             PROVE  Due'
  BY DEF WarmIsDue
<1>1. CASE InstallCallback \/ ClearCallback \/ Capture \/ Process
  <2>1. UNCHANGED <<pc, recording, stream, outcome, commands, timerQueue, timer, generation>>
    BY <1>1 DEF InstallCallback, ClearCallback, Capture, Process
  <2> QED
    BY <2>1 DEF WarmIsDue, Warm, Due, AtRest
<1>2. CASE \/ \E t \in Targets : BeginRecording(t)
           \/ \E c \in {"stop", "cancel"} : SendFinish(c)
           \/ CancelIdle
  BY <1>2 DEF BeginRecording, SendFinish, CancelIdle, ShutDown, Warm, AtRest
<1>3. CASE \/ Spawn \/ SpawnFails \/ SendBegin \/ BeginReturns \/ StopFails \/ CancelGoesOn
           \/ JoinTimer \/ JoinWorker
  BY <1>3
  DEF Spawn, SpawnFails, SendBegin, BeginReturns, StopFails, CancelGoesOn, JoinTimer, JoinWorker,
      ShutDown, Return, Warm, AtRest, ThreadsFit
<1>4. CASE StopGetsBuffer
  <2>1. reply \in Captures
    BY <1>4 DEF StopGetsBuffer, Answered, CallFits
  <2>2. PICK e \in Expiries : e = Expiry(reply)
    BY <2>1, Messages
  <2>3. e.generation = generation /\ generation' = generation
    BY <1>4, <2>1, <2>2, MessageFields
    DEF StopGetsBuffer, ExpiriesFit, ReplyTells, Expiry
  <2>4. \/ commands' = Append(commands, ExpireIdle(e))
        \/ timerQueue' = Append(timerQueue, Schedule(e))
    BY <1>4, <2>2 DEF StopGetsBuffer, ScheduleIdleDestroy, ShutDown, Warm, AtRest
  <2>5. CASE commands' = Append(commands, ExpireIdle(e))
    <3>1. ExpireIdle(e) \in Commands /\ ExpireIdle(e).type = "ExpireIdle"
          /\ ExpireIdle(e).expiry = e
      BY Messages DEF ExpireIdle
    <3>2. /\ Len(commands) + 1 \in DOMAIN commands'
          /\ commands'[Len(commands) + 1] = ExpireIdle(e)
      BY <1>0, <2>5, <3>1, AppendedIndices DEF ChannelsTyped
    <3> QED
      BY <2>3, <3>1, <3>2 DEF Due
  <2>6. CASE timerQueue' = Append(timerQueue, Schedule(e))
    <3>1. Schedule(e) \in Timings /\ Schedule(e).expiry = e
      BY Messages DEF Schedule
    <3>2. /\ Len(timerQueue') = Len(timerQueue) + 1 /\ Len(timerQueue) \in Nat
          /\ timerQueue'[Len(timerQueue) + 1] = Schedule(e)
      BY <1>0, <2>6, <3>1, AppendedIndices DEF ChannelsTyped
    <3>3. timerQueue' # <<>>
      BY <3>2
    <3> QED
      BY <2>3, <3>1, <3>2, <3>3 DEF Due
  <2> QED
    BY <2>4, <2>5, <2>6
<1>5. CASE TimerReceives
  <2>1. UNCHANGED <<pc, recording, stream, outcome, commands, generation>>
    BY <1>5 DEF TimerReceives
  <2>2. Due /\ pc = "rest"
    BY <2>1 DEF WarmIsDue, Warm, AtRest
  <2>3. timerQueue # <<>> /\ timerQueue' = Tail(timerQueue)
    BY <1>5 DEF TimerReceives
  <2>4. /\ Head(timerQueue) = timerQueue[1] /\ 1 \in DOMAIN timerQueue
        /\ Len(timerQueue') = Len(timerQueue) - 1 /\ Len(timerQueue) \in Nat \ {0}
        /\ DOMAIN timerQueue' = 1 .. Len(timerQueue) - 1
        /\ \A i \in DOMAIN timerQueue' : timerQueue'[i] = timerQueue[i + 1]
        /\ timerQueue' \in Seq(Timings)
    BY <1>0, <2>3, RemainingIndices DEF ChannelsTyped
  <2>5. timer' = <<timerQueue[1].expiry>>
    BY <1>5, <2>2, <2>4 DEF TimerReceives, TimerIsKept, Joining
  <2>6. CASE \E i \in DOMAIN commands : /\ commands[i].type = "ExpireIdle"
                                        /\ commands[i].expiry.generation = generation
    BY <2>1, <2>6 DEF Due
  <2>7. CASE timerQueue[Len(timerQueue)].expiry.generation = generation
    <3>1. CASE Len(timerQueue) = 1
      <4>1. timerQueue' = <<>>
        BY <2>4, <3>1, EmptySeq
      <4>2. timer' # <<>> /\ timer'[1] = timerQueue[1].expiry
        BY <2>5
      <4> QED
        BY <2>1, <2>7, <3>1, <4>1, <4>2 DEF Due
    <3>2. CASE Len(timerQueue) # 1
      <4>1. Len(timerQueue') \in DOMAIN timerQueue' /\ Len(timerQueue') + 1 = Len(timerQueue)
        BY <2>4, <3>2
      <4>2. timerQueue'[Len(timerQueue')] = timerQueue[Len(timerQueue)]
        BY <2>4, <4>1
      <4>3. timerQueue' # <<>>
        BY <4>1
      <4> QED
        BY <2>1, <2>7, <4>2, <4>3 DEF Due
    <3> QED
      BY <3>1, <3>2
  <2> QED
    BY <2>2, <2>3, <2>6, <2>7 DEF Due
<1>6. CASE TimerFires
  <2>1. UNCHANGED <<pc, recording, stream, outcome, timerQueue, generation>>
    BY <1>6 DEF TimerFires
  <2>2. Due
    BY <2>1 DEF WarmIsDue, Warm, AtRest
  <2>3. Head(timer) \in Expiries /\ Head(timer) = timer[1]
    BY <1>0, <1>6, RemainingIndices DEF ChannelsTyped, TimerFires
  <2>4. PICK e \in Expiries : e = timer[1]
    BY <2>3
  <2>5. ExpireIdle(e) \in Commands /\ ExpireIdle(e).type = "ExpireIdle"
        /\ ExpireIdle(e).expiry = e
    BY Messages DEF ExpireIdle
  <2>6. commands' = Append(commands, ExpireIdle(e))
    BY <1>6, <2>3, <2>4 DEF TimerFires
  <2>7. /\ DOMAIN commands' = 1 .. Len(commands) + 1
        /\ Len(commands) \in Nat /\ DOMAIN commands = 1 .. Len(commands)
        /\ \A i \in 1 .. Len(commands) : commands'[i] = commands[i]
        /\ commands'[Len(commands) + 1] = ExpireIdle(e)
    BY <1>0, <2>5, <2>6, AppendedIndices DEF ChannelsTyped
  <2>8. /\ Len(commands) + 1 \in DOMAIN commands'
        /\ \A i \in DOMAIN commands : i \in DOMAIN commands' /\ commands'[i] = commands[i]
    BY <2>7
  <2> QED
    BY <2>1, <2>2, <2>4, <2>5, <2>7, <2>8 DEF Due
<1>7. CASE Expire
  <2>1. /\ UNCHANGED <<pc, recording, outcome, timerQueue, timer, generation, capturing>>
        /\ commands # <<>> /\ commands' = Tail(commands)
    BY <1>7 DEF Expire, Receives, WorkerFrame
  <2>2. ~ShouldExpire(Head(commands).expiry) /\ stream' = stream
    BY <1>7 DEF Expire, DropStream, Warm
  <2>3. Due /\ ~capturing
    BY <1>0, <2>1, <2>2 DEF WarmIsDue, Warm, AtRest, CallFits, CallerTyped, WorkerTyped
  <2>4. Head(commands).expiry.generation # generation
    BY <2>2, <2>3 DEF ShouldExpire
  <2>5. /\ Head(commands) = commands[1]
        /\ DOMAIN commands = 1 .. Len(commands) /\ Len(commands) \in Nat \ {0}
        /\ DOMAIN commands' = 1 .. Len(commands) - 1
        /\ \A i \in DOMAIN commands' : commands'[i] = commands[i + 1]
    BY <1>0, <2>1, RemainingIndices DEF ChannelsTyped
  <2>6. ASSUME NEW i \in DOMAIN commands, commands[i].type = "ExpireIdle",
               commands[i].expiry.generation = generation
        PROVE  Due'
    <3>1. i # 1
      BY <2>4, <2>5, <2>6
    <3>2. i - 1 \in DOMAIN commands' /\ commands'[i - 1] = commands[i]
      BY <2>5, <2>6, <3>1
    <3> QED
      BY <2>1, <2>6, <3>2 DEF Due
  <2> QED
    BY <2>1, <2>3, <2>6 DEF Due
<1>8. CASE WorkerSteps /\ ~Expire
  <2>1. /\ pc' = pc /\ commands # <<>> /\ commands' = Tail(commands)
        /\ Head(commands).type \in {"Begin", "Finish", "Shutdown"}
    BY <1>8
    DEF WorkerSteps, BeginReuses, BeginCreates, BeginCannotCreate, BeginCannotActivate,
        BeginWorker, FinishCaptures, FinishFails, WorkerQuits, WorkerFrame, Receives
  <2>2. pc # "rest"
    BY <2>1, ReceivedInCall
  <2> QED
    BY <2>1, <2>2 DEF Warm, AtRest
<1> QED
  BY <1>1, <1>2, <1>3, <1>4, <1>5, <1>6, <1>7, <1>8 DEF Next, CallerSteps, TimerSteps

-----------------------------------------------------------------------------
(* The invariant.                                                           *)

(* The invariant holds at first.                                            *)
LEMMA InitFits == Init => RecorderInv
<1> SUFFICES ASSUME Init
             PROVE  RecorderInv
  OBVIOUS
<1> USE DEF Init, NoWorkerState
<1>1. \A S : <<>> \in Seq(S)
  BY EmptySeq
<1>2. Len(<<>>) = 0 /\ DOMAIN <<>> = {} /\ FirstOf(0, 0) = <<>>
  BY FirstOfNone
<1>3. 0 \in 0 .. MaxTakes /\ 0 \in 0 .. MaxChunks /\ 0 \in Nat
  BY RecorderConstants DEF RecorderConstants
<1>4. RecorderTypeOK
  <2>1. CallerTyped
    BY <1>1, <1>3 DEF CallerTyped
  <2>2. ChannelsTyped
    BY <1>1, <1>2 DEF ChannelsTyped
  <2>3. WorkerTyped
    <3>1. Len(buffer) <= 1
      BY <1>2
    <3> QED
      BY <1>1, <1>3, <3>1 DEF WorkerTyped
  <2> QED
    BY <2>1, <2>2, <2>3, TypedInParts
<1>5. Asked = {}
  BY <1>2 DEF Asked
<1>6. ThreadsFit /\ TimerIsKept
  BY <1>2 DEF ThreadsFit, TimerIsKept, Joining
<1>7. CallFits
  BY <1>5 DEF CallFits
<1>8. AudioFits
  BY <1>2, <1>3, MessageFields
  DEF AudioFits, Fresh, Joining, AudioStaysInItsTake, StopReturnsItsTake, CallbackHearsItsTake
<1>9. ExpiriesFit /\ WarmIsDue
  BY <1>2, MessageFields
  DEF ExpiriesFit, TimerTells, QueueTells, CommandsTell, ReplyTells, WarmIsDue, Warm
<1> QED
  BY <1>4, <1>6, <1>7, <1>8, <1>9 DEF RecorderInv

(* A stuttering step preserves the invariant.                               *)
LEMMA StutterFits ==
  ASSUME RecorderInv, UNCHANGED vars
  PROVE  RecorderInv'
<1> USE DEF vars, envVars, callerVars, callbackVars, threadVars, timerVars, workerVars, deviceVars
<1>1. CallerTyped' <=> CallerTyped
  BY DEF CallerTyped
<1>2. ChannelsTyped' <=> ChannelsTyped
  BY DEF ChannelsTyped
<1>3. WorkerTyped' <=> WorkerTyped
  BY DEF WorkerTyped
<1>4. RecorderTypeOK'
  <2>1. RecorderTypeOK' <=> CallerTyped' /\ ChannelsTyped' /\ WorkerTyped'
    BY DEF RecorderTypeOK, CallerTyped, ChannelsTyped, WorkerTyped, Commands, Timings, Captures
  <2> QED
    BY <1>1, <1>2, <1>3, <2>1, TypedInParts DEF RecorderInv
<1>5. ThreadsFit' /\ TimerIsKept'
  BY DEF RecorderInv, ThreadsFit, TimerIsKept, Joining
<1>6. CallFits'
  BY DEF RecorderInv, CallFits, AskedOnly, Asked
<1>7. AudioFits'
  BY DEF RecorderInv, AudioFits, Fresh, Joining, AudioStaysInItsTake, StopReturnsItsTake,
         CallbackHearsItsTake
<1>8. ExpiriesFit'
  BY DEF RecorderInv, ExpiriesFit, TimerTells, QueueTells, CommandsTell, ReplyTells, Tells
<1>9. WarmIsDue'
  BY DEF RecorderInv, WarmIsDue, Warm, AtRest, Due
<1> QED
  BY <1>4, <1>5, <1>6, <1>7, <1>8, <1>9 DEF RecorderInv

(* The inductive invariant holds in every state the recorder reaches.       *)
THEOREM RecorderHolds == Spec => []RecorderInv
<1>1. Init => RecorderInv
  BY InitFits
<1>2. RecorderInv /\ [Next]_vars => RecorderInv'
  <2> SUFFICES ASSUME RecorderInv, [Next]_vars
               PROVE  RecorderInv'
    OBVIOUS
  <2>1. CASE Next
    <3>1. CallerTyped' /\ ChannelsTyped' /\ WorkerTyped'
      BY <2>1, CallerStaysTyped, ChannelsStayTyped, WorkerStaysTyped DEF RecorderInv
    <3>2. RecorderTypeOK'
      BY <3>1
      DEF RecorderTypeOK, CallerTyped, ChannelsTyped, WorkerTyped, Commands, Timings, Captures
    <3>3. ThreadsFit' /\ TimerIsKept' /\ CallFits'
      BY <2>1, ThreadsStayFit, TimerStaysKept, CallsStayFit DEF RecorderInv
    <3>4. AudioFits' /\ ExpiriesFit' /\ WarmIsDue'
      BY <2>1, AudioStaysFit, ExpiriesStayFit, WarmStaysDue DEF RecorderInv
    <3> QED
      BY <3>2, <3>3, <3>4 DEF RecorderInv
  <2>2. CASE UNCHANGED vars
    BY <2>2, StutterFits
  <2> QED
    BY <2>1, <2>2
<1> QED
  BY <1>1, <1>2, PTL DEF Spec

-----------------------------------------------------------------------------
(* The results.                                                             *)

(* Between calls the recorder's threads agree, and a warm stream has its    *)
(* expiry under way, however many takes, buffers and targets there are.     *)
THEOREM SidesStayConsistent == Spec => []SidesAreConsistent
<1>1. RecorderInv => SidesAreConsistent
  <2> SUFFICES ASSUME RecorderInv
               PROVE  SidesAreConsistent
    OBVIOUS
  <2>0. CallerTyped /\ ChannelsTyped /\ WorkerTyped
    BY TypedInParts DEF RecorderInv
  <2>1. SidesAgree
    BY <2>0
    DEF RecorderInv, ThreadsFit, CallFits, SidesAgree, AtRest, Joining, CallerTyped, WorkerTyped
  <2>2. WarmStreamIsScheduled
    <3> SUFFICES ASSUME Warm
                 PROVE  \E e \in Pending : e.generation = generation
      BY DEF WarmStreamIsScheduled, Warm
    <3>1. Due
      BY DEF RecorderInv, WarmIsDue
    <3>2. ASSUME NEW i \in DOMAIN commands, commands[i].type = "ExpireIdle"
          PROVE  commands[i].expiry \in Pending
      BY <3>2 DEF Pending, ToSet
    <3>3. timerQueue # <<>> => timerQueue[Len(timerQueue)].expiry \in Pending
      <4>1. timerQueue # <<>> => Len(timerQueue) \in DOMAIN timerQueue
        BY <2>0, RemainingIndices DEF ChannelsTyped
      <4>2. \A i \in DOMAIN timerQueue : timerQueue[i].type = "Schedule"
        BY DEF RecorderInv, TimerIsKept, Warm, AtRest, Joining
      <4> QED
        BY <4>1, <4>2 DEF Pending, ToSet
    <3>4. timer # <<>> => timer[1] \in Pending
      <4>1. timer # <<>> => 1 \in DOMAIN timer
        BY <2>0, RemainingIndices DEF ChannelsTyped
      <4> QED
        BY <4>1 DEF Pending, ToSet
    <3> QED
      BY <3>1, <3>2, <3>3, <3>4 DEF Due
  <2> QED
    BY <2>1, <2>2 DEF SidesAreConsistent, RecorderInv
<1> QED
  BY <1>1, RecorderHolds, PTL

(* What stop returns, and what the chunk callback hears, are the buffers of *)
(* the take, from the first and without a gap.                              *)
THEOREM AudioStays == Spec => []AudioStaysInItsTake
<1>1. RecorderInv => AudioStaysInItsTake
  BY DEF RecorderInv, AudioFits
<1> QED
  BY <1>1, RecorderHolds, PTL

(* An expiry that destroys a stream belongs to the last stop.               *)
THEOREM StaleExpiriesDoNothing == Spec => StaleExpiryIsHarmless
<1> DEFINE Harmless == Receives("ExpireIdle") /\ stream' # stream =>
                         ~capturing /\ Head(commands).expiry.stop = stops
<1>1. RecorderInv /\ [Next]_vars => Harmless
  <2> SUFFICES ASSUME RecorderInv, [Next]_vars, Receives("ExpireIdle"), stream' # stream
               PROVE  ~capturing /\ Head(commands).expiry.stop = stops
    OBVIOUS
  <2>1. commands # <<>> /\ commands' = Tail(commands) /\ Head(commands).type = "ExpireIdle"
    BY DEF Receives
  <2>2. WorkerSteps
    BY
    DEF vars, Next, CallerSteps, TimerSteps, InstallCallback, ClearCallback, BeginRecording,
        SendFinish, CancelIdle, Spawn, SpawnFails, SendBegin, BeginReturns, StopGetsBuffer,
        StopFails, CancelGoesOn, JoinTimer, JoinWorker, TimerReceives, TimerFires, Capture,
        Process, workerVars
  <2>3. Expire
    BY <2>1, <2>2
    DEF WorkerSteps, BeginReuses, BeginCreates, BeginCannotCreate, BeginCannotActivate,
        BeginWorker, FinishCaptures, FinishFails, WorkerQuits, Receives
  <2>4. ShouldExpire(Head(commands).expiry)
    BY <2>3 DEF Expire
  <2>5. Head(commands) = commands[1] /\ 1 \in DOMAIN commands
    BY <2>1, RemainingIndices, TypedInParts DEF RecorderInv, ChannelsTyped
  <2>6. Tells(Head(commands).expiry)
    BY <2>1, <2>5 DEF RecorderInv, ExpiriesFit, CommandsTell
  <2> QED
    BY <2>4, <2>6 DEF ShouldExpire, Tells
<1> QED
  BY <1>1, RecorderHolds, PTL DEF Spec, StaleExpiryIsHarmless
=============================================================================
