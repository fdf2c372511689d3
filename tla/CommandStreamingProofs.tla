----------------------- MODULE CommandStreamingProofs -----------------------
(* Proofs about CommandStreaming, for any number of chunks and lines.       *)
EXTENDS CommandStreaming, NaturalsInduction, WellFoundedInduction, TLAPS

-----------------------------------------------------------------------------
(* The operators on lines.  FlattenSeq recurs, so what Queued returns takes *)
(* an induction, over a set of naturals.                                    *)

(* Every non-empty set of naturals has a least element.                     *)
LEMMA LeastNatural ==
  ASSUME NEW T \in SUBSET Nat, T # {}
  PROVE  \E n \in T : \A m \in T : n <= m
<1> DEFINE Less == {ss \in Nat \X Nat : ss[1] < ss[2]}
<1>1. IsWellFoundedOn(Less, Nat)
  BY NatLessThanWellFounded DEF OpToRel
<1>2. PICK n \in T : \A m \in T : ~ (<<m, n>> \in Less)
  <2> HIDE DEF Less
  <2> QED
    BY <1>1, WFMin
<1>3. \A m \in T : ~ (m < n)
  BY <1>2
<1> QED
  BY <1>3

(* Induction, for the set of the naturals that have the property.           *)
LEMMA SetInduction ==
  ASSUME NEW T, 0 \in T, \A n \in Nat : n \in T => n + 1 \in T
  PROVE  \A n \in Nat : n \in T
<1> DEFINE Others == {n \in Nat : n \notin T}
<1> SUFFICES ASSUME Others # {} PROVE FALSE
  OBVIOUS
<1>1. PICK n \in Others : \A m \in Others : n <= m
  BY LeastNatural
<1>2. n \in Nat /\ n # 0
  BY <1>1
<1>3. n - 1 \in Nat /\ n - 1 \notin Others
  BY <1>1, <1>2
<1> QED
  BY <1>1, <1>2, <1>3

(* The function by which FlattenSeq recurs exists.                          *)
LEMMA FlattenUnfolds ==
  ASSUME NEW ss, Len(ss) \in Nat \ {0}
  PROVE  \E f : /\ f = [i \in 1 .. Len(ss) |-> IF i = 1 THEN ss[i] ELSE f[i - 1] \o ss[i]]
                /\ FlattenSeq(ss) = f[Len(ss)]
<1> DEFINE Upto(n) == \E f : f = [i \in 1 .. n |-> IF i = 1 THEN ss[i] ELSE f[i - 1] \o ss[i]]
<1>1. Upto(0)
  <2> DEFINE f == [i \in 1 .. 0 |-> ss[i]]
  <2>1. f = [i \in 1 .. 0 |-> IF i = 1 THEN ss[i] ELSE f[i - 1] \o ss[i]]
    OBVIOUS
  <2> QED
    BY <2>1
<1>2. ASSUME NEW n \in Nat, Upto(n)
      PROVE  Upto(n + 1)
  <2>1. PICK f : f = [i \in 1 .. n |-> IF i = 1 THEN ss[i] ELSE f[i - 1] \o ss[i]]
    BY <1>2
  <2> DEFINE g == [i \in 1 .. n + 1 |-> IF i \in 1 .. n THEN f[i]
                                        ELSE IF i = 1 THEN ss[i] ELSE f[i - 1] \o ss[i]]
  <2>2. \A i \in 1 .. n + 1 : i # 1 => g[i - 1] = f[i - 1]
    OBVIOUS
  <2>3. \A i \in 1 .. n + 1 : g[i] = IF i = 1 THEN ss[i] ELSE g[i - 1] \o ss[i]
    BY <2>1, <2>2
  <2>4. g = [i \in 1 .. n + 1 |-> IF i = 1 THEN ss[i] ELSE g[i - 1] \o ss[i]]
    BY <2>3
  <2> QED
    BY <2>4
<1>3. \A n \in Nat : Upto(n)
  <2> DEFINE T == {n \in Nat : Upto(n)}
  <2> HIDE DEF Upto
  <2>1. 0 \in T /\ \A n \in Nat : n \in T => n + 1 \in T
    BY <1>1, <1>2
  <2>2. \A n \in Nat : n \in T
    <3> HIDE DEF T
    <3> QED
      BY <2>1, SetInduction
  <2> QED
    BY <2>2
<1>4. Upto(Len(ss))
  BY <1>3
<1> DEFINE f == CHOOSE f : f = [i \in 1 .. Len(ss) |-> IF i = 1 THEN ss[i] ELSE f[i - 1] \o ss[i]]
<1>5. f = [i \in 1 .. Len(ss) |-> IF i = 1 THEN ss[i] ELSE f[i - 1] \o ss[i]]
  BY <1>4
<1>6. FlattenSeq(ss) = f[Len(ss)]
  BY DEF FlattenSeq
<1> HIDE DEF f
<1> QED
  BY <1>5, <1>6

(* What is queued of some lines are final texts and errors, and nothing of  *)
(* none.                                                                    *)
LEMMA QueuedType ==
  ASSUME NEW lines \in Seq(Lines)
  PROVE  Queued(lines) \in Seq({"final", "error"})
<1> DEFINE S == {"final", "error"}
           ss == [i \in DOMAIN lines |-> IF lines[i] \in S THEN <<lines[i]>> ELSE <<>>]
<1>1. Len(lines) \in Nat /\ DOMAIN lines = 1..Len(lines) /\ DOMAIN ss = 1..Len(ss) /\ Len(ss) = Len(lines)
  OBVIOUS
<1>2. \A i \in 1..Len(ss) : ss[i] \in Seq(S)
  <2> SUFFICES ASSUME NEW i \in 1..Len(ss) PROVE ss[i] \in Seq(S)
    OBVIOUS
  <2>1. CASE lines[i] \in S
    <3> DEFINE e == lines[i]
    <3>1. e \in S /\ ss[i] = <<e>>
      BY <1>1, <2>1
    <3> HIDE DEF e, ss
    <3> QED
      BY <3>1
  <2>2. CASE lines[i] \notin S
    BY <1>1, <2>2
  <2> QED
    BY <2>1, <2>2
<1>3. Queued(lines) = FlattenSeq(ss)
  BY DEF Queued
<1>4. CASE Len(ss) = 0
  BY <1>1, <1>3, <1>4 DEF FlattenSeq
<1>5. CASE Len(ss) # 0
  <2> HIDE DEF ss
  <2>1. PICK f : /\ f = [i \in 1 .. Len(ss) |-> IF i = 1 THEN ss[i] ELSE f[i - 1] \o ss[i]]
                 /\ FlattenSeq(ss) = f[Len(ss)]
    BY <1>1, <1>5, FlattenUnfolds
  <2>2. \A i \in 1..Len(ss) : f[i] = IF i = 1 THEN ss[i] ELSE f[i - 1] \o ss[i]
    BY <2>1
  <2> DEFINE T == {n \in Nat : n + 1 \in 1..Len(ss) => f[n + 1] \in Seq(S)}
  <2>3. 0 \in T
    BY <1>2, <2>2
  <2>4. ASSUME NEW n \in Nat, n \in T
        PROVE  n + 1 \in T
    <3> SUFFICES ASSUME n + 2 \in 1..Len(ss) PROVE f[n + 2] \in Seq(S)
      OBVIOUS
    <3>1. f[n + 1] \in Seq(S) /\ ss[n + 2] \in Seq(S) /\ n + 2 # 1
      BY <1>1, <1>2, <2>4
    <3>2. f[n + 2] = f[n + 1] \o ss[n + 2]
      <4> DEFINE i == n + 2
      <4>1. i \in 1..Len(ss) /\ i # 1 /\ i - 1 = n + 1
        BY <3>1
      <4>2. f[i] = f[i - 1] \o ss[i]
        BY <2>2, <4>1, Zenon
      <4> QED
        BY <4>1, <4>2, Zenon
    <3> HIDE DEF S
    <3> QED
      BY <3>1, <3>2
  <2>5. \A n \in Nat : n \in T
    <3> HIDE DEF T
    <3> QED
      BY <2>3, <2>4, SetInduction
  <2>6. Len(ss) - 1 \in Nat /\ Len(ss) - 1 + 1 = Len(ss) /\ Len(ss) \in 1..Len(ss)
    BY <1>1, <1>5
  <2>7. f[Len(ss)] \in Seq(S)
    BY <2>5, <2>6
  <2> QED
    BY <1>3, <2>1, <2>7
<1> QED
  BY <1>1, <1>4, <1>5

(* No line queues nothing.                                                  *)
LEMMA QueuedNothing == Queued(<<>>) = <<>>
  BY DEF Queued, FlattenSeq

(* What a sequence holds.                                                   *)
LEMMA SeqRange ==
  ASSUME NEW S, NEW s \in Seq(S)
  PROVE  Range(s) = {s[i] : i \in 1..Len(s)}
<1>1. DOMAIN s = 1..Len(s)
  OBVIOUS
<1> QED
  BY <1>1 DEF Range

(* What a longer sequence holds.                                            *)
LEMMA AppendRange ==
  ASSUME NEW S, NEW s \in Seq(S), NEW e \in S
  PROVE  Range(Append(s, e)) = Range(s) \cup {e}
<1> DEFINE t == Append(s, e)
<1>1. /\ t \in Seq(S) /\ Len(t) = Len(s) + 1 /\ Len(s) \in Nat
      /\ t[Len(s) + 1] = e /\ \A i \in 1..Len(s) : t[i] = s[i]
  OBVIOUS
<1> HIDE DEF t
<1>2. Range(s) = {s[i] : i \in 1..Len(s)} /\ Range(t) = {t[i] : i \in 1..Len(t)}
  BY <1>1, SeqRange
<1>3. \A i \in 1..Len(t) : i \in 1..Len(s) \/ i = Len(s) + 1
  BY <1>1
<1>4. 1..Len(s) \subseteq 1..Len(t) /\ Len(s) + 1 \in 1..Len(t)
  BY <1>1
<1>5. Range(t) = Range(s) \cup {e}
  BY <1>1, <1>2, <1>3, <1>4, Zenon
<1> QED
  BY <1>5 DEF t

(* What two sequences hold together.                                        *)
LEMMA ConcatRange ==
  ASSUME NEW S, NEW s \in Seq(S), NEW t \in Seq(S)
  PROVE  /\ s \o t \in Seq(S)
         /\ Range(s \o t) = Range(s) \cup Range(t)
<1> DEFINE u == s \o t
<1>1. /\ u \in Seq(S) /\ Len(u) = Len(s) + Len(t) /\ Len(s) \in Nat /\ Len(t) \in Nat
      /\ \A i \in 1..Len(s) : u[i] = s[i]
      /\ \A i \in 1..Len(u) : i \notin 1..Len(s) => u[i] = t[i - Len(s)]
  OBVIOUS
<1> HIDE DEF u
<1>2. /\ Range(s) = {s[i] : i \in 1..Len(s)} /\ Range(t) = {t[i] : i \in 1..Len(t)}
      /\ Range(u) = {u[i] : i \in 1..Len(u)}
  BY <1>1, SeqRange
<1>3. ASSUME NEW i \in 1..Len(t)
      PROVE  t[i] \in Range(u)
  <2>1. i + Len(s) \in 1..Len(u) /\ i + Len(s) \notin 1..Len(s) /\ i + Len(s) - Len(s) = i
    BY <1>1
  <2>2. u[i + Len(s)] = t[i]
    BY <1>1, <2>1
  <2> QED
    BY <1>2, <2>1, <2>2
<1>4. ASSUME NEW i \in 1..Len(s)
      PROVE  s[i] \in Range(u)
  <2>1. i \in 1..Len(u)
    BY <1>1
  <2> QED
    BY <1>1, <1>2, <2>1
<1>5. ASSUME NEW i \in 1..Len(u)
      PROVE  u[i] \in Range(s) \cup Range(t)
  <2>1. CASE i \in 1..Len(s)
    BY <1>1, <1>2, <2>1
  <2>2. CASE i \notin 1..Len(s)
    <3>1. i - Len(s) \in 1..Len(t)
      BY <1>1, <2>2
    <3> QED
      BY <1>1, <1>2, <2>2, <3>1
  <2> QED
    BY <2>1, <2>2
<1>6. Range(u) = Range(s) \cup Range(t)
  BY <1>2, <1>3, <1>4, <1>5
<1> QED
  BY <1>1, <1>6 DEF u

(* An empty sequence holds nothing.                                         *)
LEMMA EmptyRange == Range(<<>>) = {}
  BY DEF Range

(* What a part of a sequence holds.                                         *)
LEMMA SubSeqRange ==
  ASSUME NEW S, NEW s \in Seq(S), NEW m \in 1..Len(s) + 1, NEW n \in 0..Len(s)
  PROVE  /\ SubSeq(s, m, n) \in Seq(S)
         /\ Range(SubSeq(s, m, n)) = {s[i] : i \in m..n}
<1> DEFINE t == SubSeq(s, m, n)
<1>1. /\ t \in Seq(S) /\ Len(t) = IF m <= n THEN n - m + 1 ELSE 0
      /\ \A i \in 1..Len(t) : t[i] = s[m + i - 1]
  OBVIOUS
<1> HIDE DEF t
<1>2. Range(t) = {t[i] : i \in 1..Len(t)}
  BY <1>1, SeqRange
<1>3. \A i \in m..n : i - m + 1 \in 1..Len(t) /\ t[i - m + 1] = s[i]
  BY <1>1
<1>4. \A i \in 1..Len(t) : m + i - 1 \in m..n
  BY <1>1
<1>5. ASSUME NEW i \in m..n
      PROVE  s[i] \in Range(t)
  BY <1>2, <1>3
<1>6. ASSUME NEW i \in 1..Len(t)
      PROVE  t[i] \in {s[j] : j \in m..n}
  BY <1>1, <1>4
<1>7. Range(t) = {s[i] : i \in m..n}
  BY <1>2, <1>5, <1>6
<1> QED
  BY <1>1, <1>7 DEF t

(* A malformed line is where Bad says.                                      *)
LEMMA BadIsThere ==
  ASSUME NEW lines \in Seq(Lines), Bad(lines) # 0
  PROVE  Bad(lines) \in 1..Len(lines) /\ lines[Bad(lines)] = "malformed"
<1> DEFINE I == {i \in 1..Len(lines) : lines[i] = "malformed"}
<1>1. Bad(lines) = IF I # {} THEN Min(I) ELSE 0
  BY DEF Bad, SelectInSeq
<1>2. I # {} /\ Bad(lines) = Min(I)
  BY <1>1
<1>3. \E i \in I : \A j \in I : i <= j
  <2>1. I \subseteq Nat
    OBVIOUS
  <2> HIDE DEF I
  <2> QED
    BY <1>2, <2>1, LeastNatural
<1>4. Min(I) \in I
  BY <1>3 DEF Min
<1> QED
  BY <1>2, <1>4

(* Lines that are parted at two places, around one of them or not, are all  *)
(* in one of the parts.                                                     *)
LEMMA Parts ==
  ASSUME NEW S, NEW s \in Seq(S), NEW b \in 0..Len(s), NEW c \in b..Len(s)
  PROVE  /\ Range(SubSeq(s, 1, b)) \cup Range(SubSeq(s, b + 1, c)) \cup Range(SubSeq(s, c + 1, Len(s)))
              = Range(s)
         /\ {SubSeq(s, 1, b), SubSeq(s, b + 1, c), SubSeq(s, c + 1, Len(s))} \subseteq Seq(S)
<1>1. /\ 1 \in 1..Len(s) + 1 /\ b + 1 \in 1..Len(s) + 1 /\ c + 1 \in 1..Len(s) + 1
      /\ b \in 0..Len(s) /\ c \in 0..Len(s) /\ Len(s) \in 0..Len(s)
  OBVIOUS
<1>2. /\ Range(SubSeq(s, 1, b)) = {s[i] : i \in 1..b}
      /\ Range(SubSeq(s, b + 1, c)) = {s[i] : i \in b + 1..c}
      /\ Range(SubSeq(s, c + 1, Len(s))) = {s[i] : i \in c + 1..Len(s)}
      /\ {SubSeq(s, 1, b), SubSeq(s, b + 1, c), SubSeq(s, c + 1, Len(s))} \subseteq Seq(S)
  BY <1>1, SubSeqRange
<1>3. \A i : i \in 1..Len(s) <=> i \in 1..b \/ i \in b + 1..c \/ i \in c + 1..Len(s)
  OBVIOUS
<1>4. Range(s) = {s[i] : i \in 1..Len(s)}
  BY SeqRange
<1>5. {s[i] : i \in 1..b} \cup {s[i] : i \in b + 1..c} \cup {s[i] : i \in c + 1..Len(s)}
        = {s[i] : i \in 1..Len(s)}
  BY <1>3, Zenon
<1> QED
  BY <1>2, <1>4, <1>5

-----------------------------------------------------------------------------
(* The inductive invariant.                                                 *)

Events  == {"final", "error", "completed"}
Sent    == ({"audio"} \X Nat \X BOOLEAN) \cup {<<"finish">>, <<"cancel">>}
LineOrNone == Sent \cup {<<>>}
Names   == {"free", "push", "poll", "finish", "cancel", "drop"}
Results == {"none", "broken", "ok", "failed", "noText", "timeout"}
Steps   == {"read", "reap", "write", "start", "flush", "store", "pushed", "take", "end", "close",
            "wait", "deadline", "grace", "used", "verdict", "tell", "wipe", "cleanup", "free"}

(* Where a call goes after its pump, and after the line it writes.          *)
Heading == IF call.pc \in {"read", "reap"} THEN call.next ELSE call.pc
Writing == Heading = "write"
Stage   == IF Writing THEN call.after ELSE Heading

CallType ==
  call \in [name : Names, pc : Steps, next : Steps, line : LineOrNone, after : Steps,
            got : Seq(Lines), result : Results]

ScalarType ==
  /\ lifecycle \in {"active", "finished", "cancelled", "dropped"}
  /\ pushed \in 0..MaxPushes /\ pending \in 0..pushed
  /\ child \in {"none", "running", "exited", "failed", "reaped"}
  /\ completions \in {0, 1}
  /\ chatter \in BOOLEAN /\ fed \in BOOLEAN

DataType ==
  /\ events \in Seq(Events) /\ flags \subseteq Lines /\ dropped \subseteq Lines
  /\ heard \in Seq(Sent)
  /\ stdout \in Seq(Lines) /\ buffer \in Seq(Lines) /\ said \in Seq(Lines)

StateType == ScalarType /\ DataType

(* The stages of each call, and the line it writes at one of them.          *)
StageOfCall ==
  \/ call.name = "free" /\ call.pc = "free"
  \/ call.name = "push" /\ Stage \in {"start", "flush", "store", "pushed"}
  \/ call.name = "poll" /\ Stage = "take"
  \/ call.name = "finish" /\ Stage \in {"start", "flush", "end", "close", "wait", "deadline",
                                        "grace", "used", "verdict", "cleanup"}
  \/ call.name = "cancel" /\ Stage \in {"start", "tell", "wipe", "cleanup"}
  \/ call.name = "drop" /\ At("cleanup")

(* Neither a pump nor a write comes before the stages at both ends.         *)
EndsAreDirect ==
  call.next \notin {"start", "flush", "cleanup"} /\ call.after \notin {"start", "flush", "cleanup"}

LineOfCall ==
  Writing =>
    \/ /\ call.name = "push" /\ call.after = "store"
       /\ \E n \in 1..pushed - 1 : call.line = Audio(n, FALSE)
    \/ call.name = "finish" /\ call.after = "end" /\ pushed > 0 /\ call.line = Audio(pushed, TRUE)
    \/ call.name = "finish" /\ call.after = "close" /\ call.line = <<"finish">>
    \/ call.name = "cancel" /\ call.after = "wipe" /\ call.line = <<"cancel">>

(* What a call makes of the lifecycle, and it of the calls.                 *)
LifecycleOfCall ==
  /\ call.name = "push" => lifecycle = "active"
  /\ call.name = "poll" => lifecycle # "dropped"
  /\ call.name = "finish" => lifecycle = IF Stage = "start" THEN "active" ELSE "finished"
  /\ call.name = "cancel" => lifecycle = "cancelled"
  /\ call.name = "drop" => lifecycle = "dropped"

CallIsInPlace == StageOfCall /\ EndsAreDirect /\ LineOfCall /\ LifecycleOfCall

(* Only a pump has read something, or has something left to read.           *)
PumpReads ==
  /\ chatter => At("read")
  /\ fed => call.pc \in {"read", "reap"}
  /\ call.got # <<>> => fed

(* A helper that is not there has nothing open, one whose exit is known has *)
(* nothing to say.  A session that was given up leaves none behind.         *)
HelperIsKnown ==
  /\ child = "none" => ~known /\ ~stdin /\ stdout = <<>>
  /\ known => child = "reaped" /\ stdout = <<>>
  /\ child = "none" \/ known => ~chatter /\ ~fed
  /\ lifecycle \in {"cancelled", "dropped"} /\ call.name \notin {"cancel", "drop"} => child = "none"

(* A finish that waited for its end is the last call that needed a helper.  *)
FinishIsOver ==
  call.result \notin {"none", "broken"} =>
    /\ lifecycle # "active"
    /\ IF call.name = "finish" THEN At("cleanup")
       ELSE call.name # "cancel" /\ child = "none"

(* A pump that failed at what it read did not note an exit that it saw:     *)
(* every pump fails from there on, and with it a finish, before its wait.   *)
ExitIsLost == child = "reaped" /\ ~known

LostExitFails ==
  ExitIsLost /\ call.name = "finish" =>
    \/ call.pc \in {"start", "flush", "end"}
    \/ call.pc \in {"read", "reap"} /\ Writing

(* Where a line of the helper is: in the pipe, read, held back behind a     *)
(* malformed one, handled, or dropped, with the pipe or by a failed pump.   *)
TextIsSomewhere ==
  /\ Range(stdout) \cup Range(buffer) \cup Range(call.got) \cup (flags \ {"error"}) \subseteq Range(said)
  /\ "final" \in Range(said) =>
       "final" \in Range(stdout) \cup Range(buffer) \cup Range(call.got) \cup flags \cup dropped
  /\ "closed" \in flags \cup Range(buffer) => stdout = <<>> /\ call.got = <<>>
  /\ "closed" \in Range(call.got) => stdout = <<>>

(* What a finish knows at its last stages, and what it says of the text.    *)
WaitHasEnded ==
  /\ Heading = "verdict" => "closed" \in flags \/ known
  /\ Heading \in {"grace", "used"} => "final" \in flags

TextWasUsed == call.result = "ok" => flags \cap {"final", "error"} # {}

NoTextIsOver ==
  call.result = "noText" =>
    /\ "final" \in Range(said) => "final" \in dropped \cup Range(buffer)
    /\ call.name = "finish" => "closed" \in flags \/ known

NothingFollows == \A i \in 1..Len(events) : events[i] = "completed" => i = Len(events)

CompletedIsLast ==
  /\ completions = 0 => "completed" \notin Range(events)
  /\ completions = 1 =>
       /\ lifecycle # "active"
       /\ call.name = "finish" => At("cleanup")
       /\ call.name # "cancel" => child = "none" \/ At("cleanup")
       /\ (call.name = "cancel" => At("cleanup")) => NothingFollows

(* The chunk that is held, and the numbers that are used up.                *)
HeldChunk ==
  /\ call.name = "push" => pushed > 0
  /\ call.name = "push" /\ Stage # "start" => child # "none"
  /\ lifecycle = "active" /\ pending > 0 => child # "none"
  /\ call.name = "push" /\ Stage \in {"start", "flush"} => pending \in {0, pushed - 1}
  /\ call.name = "push" /\ Stage = "store" => pending = 0
  /\ call.name = "push" /\ Stage = "pushed" => pending = pushed
  /\ call.name # "push" /\ lifecycle = "active" => pending \in {0, pushed}
  /\ call.name = "finish" /\ Stage = "flush" => pending \in {0, pushed}
  /\ call.name = "finish" /\ Stage \notin {"start", "flush"} => pending = 0

OnlyAudio == \A i \in 1..Len(heard) : IsAudio(heard[i])

AudioInOrder ==
  /\ AudioIsHeardInOrder
  /\ \A i \in 1..Len(heard) : IsAudio(heard[i]) =>
       /\ heard[i][2] \in 1..pushed
       /\ pending > 0 => heard[i][2] < pending
       /\ Writing /\ IsAudio(call.line) => heard[i][2] < call.line[2]
       /\ call.name = "push" /\ Stage # "pushed" => heard[i][2] < pushed
  /\ lifecycle = "active" \/ (call.name = "finish" /\ Stage \in {"flush", "end"}) => OnlyAudio

(* As long as nothing failed, what the helper has heard is known.           *)
Counted ==
  /\ call.name = "push" /\ Stage \in {"start", "flush"} =>
       pending = pushed - 1 /\ Len(heard) = IF pushed > 1 THEN pushed - 2 ELSE 0
  /\ call.name = "push" /\ Stage = "store" /\ Writing =>
       pushed > 1 /\ call.line = Audio(pushed - 1, FALSE) /\ Len(heard) = pushed - 2
  /\ call.name = "push" /\ (Stage = "pushed" \/ (Stage = "store" /\ ~Writing)) =>
       Len(heard) = pushed - 1
  /\ (call.name \in {"free", "poll"} /\ lifecycle = "active")
       \/ (call.name = "finish" /\ Stage \in {"start", "flush"}) =>
         pending = pushed /\ Len(heard) = IF pushed > 0 THEN pushed - 1 ELSE 0
  /\ call.name = "finish" /\ Stage = "end" /\ Writing => Len(heard) = pushed - 1
  /\ call.name = "finish" /\ ((Stage = "end" /\ ~Writing) \/ (Stage = "close" /\ Writing)) =>
       Len(heard) = pushed /\ (pushed > 0 => heard[pushed] = Audio(pushed, TRUE))

AudioIsCounted == ~broken => Counted

IInv ==
  /\ CallType /\ StateType /\ CallIsInPlace /\ PumpReads /\ HelperIsKnown /\ FinishIsOver
  /\ LostExitFails
  /\ TextIsSomewhere /\ WaitHasEnded /\ TextWasUsed /\ NoTextIsOver /\ CompletedIsLast
  /\ HeldChunk /\ AudioInOrder /\ AudioIsCounted

-----------------------------------------------------------------------------
(* What becomes of a call, field by field.                                  *)
CallBecomes(name, pc, next, line, after, got, result) ==
  /\ call'.name = name /\ call'.pc = pc /\ call'.next = next /\ call'.line = line
  /\ call'.after = after /\ call'.got = got /\ call'.result = result

(* A call that goes on keeps all but its place.                             *)
LEMMA GotoFields ==
  ASSUME CallType, NEW pc, Goto(pc)
  PROVE  CallBecomes(call.name, pc, call.next, call.line, call.after, call.got, call.result)
  BY DEF CallType, Goto, CallBecomes

(* A pump keeps all but the place after it.                                 *)
LEMMA PumpFields ==
  ASSUME CallType, NEW pc, PumpThen(pc)
  PROVE  CallBecomes(call.name, "read", pc, call.line, call.after, call.got, call.result)
  BY DEF CallType, PumpThen, CallBecomes

(* A write notes its line and where to go on, with a new deadline.          *)
LEMMA WriteFields ==
  ASSUME CallType, NEW line, NEW pc, WriteThen(line, pc)
  PROVE  CallBecomes(call.name, "read", "write", line, pc, call.got, call.result) /\ late' = FALSE
  BY DEF CallType, WriteThen, CallBecomes

(* A call that has come to its end notes its result.                        *)
LEMMA ConcludeFields ==
  ASSUME CallType, NEW result, Concludes(result)
  PROVE  CallBecomes(call.name, "cleanup", call.next, call.line, call.after, call.got, result)
  BY DEF CallType, Concludes, CallBecomes

(* A call begins with nothing left of the one before but its result.        *)
LEMMA BeginFields ==
  ASSUME NEW name, NEW pc, NEW next, Begins(name, pc, next)
  PROVE  CallBecomes(name, pc, next, <<>>, "free", <<>>,
                     IF name \in {"finish", "cancel"} THEN "none" ELSE call.result)
  BY DEF Begins, NoCall, CallBecomes

(* Only a finish leaves a new result behind.                                *)
LEMMA ReturnFields ==
  ASSUME NEW result, Returns(result)
  PROVE  /\ CallBecomes("free", "free", "free", <<>>, "free", <<>>,
                        IF call.name = "finish" THEN result ELSE call.result)
         /\ broken' = (broken \/ result = "broken")
  BY DEF Returns, NoCall, CallBecomes

(* A read goes on at its place, with what it read.                          *)
LEMMA ReadFields ==
  ASSUME CallType, Read
  PROVE  CallBecomes(call.name, "read", call.next, call.line, call.after, call.got \o stdout,
                     call.result) /\ call.pc = "read"
  BY DEF CallType, Read, CallBecomes, At

(* A pump that ends goes on behind it, with nothing in hand.                *)
LEMMA ReapFields ==
  ASSUME CallType, Reap
  PROVE  CallBecomes(call.name, call.next, call.next, call.line, call.after, <<>>, call.result)
         /\ call.pc = "reap"
  BY DEF CallType, Reap, CallBecomes, At

(* A cancel goes on after an error, any other call returns.                 *)
LEMMA BreakFields ==
  ASSUME CallType, Breaks
  PROVE  \/ /\ call.name = "cancel" /\ UNCHANGED broken
            /\ CallBecomes(call.name, "wipe", call.next, call.line, call.after, <<>>, call.result)
         \/ /\ call.name # "cancel" /\ broken'
            /\ CallBecomes("free", "free", "free", <<>>, "free", <<>>,
                           IF call.name = "finish" THEN "broken" ELSE call.result)
<1>1. CASE call.name = "cancel"
  BY <1>1 DEF Breaks, CallType, CallBecomes
<1>2. CASE call.name # "cancel"
  BY <1>2, ReturnFields DEF Breaks
<1> QED
  BY <1>1, <1>2

(* A pump that failed breaks the call off, and may have taken an exit that  *)
(* it does not note.                                                        *)
PumpFails == ReapMalformed \/ ReapOverflows \/ ReapFails

LEMMA PumpFailsMoves ==
  ASSUME PumpFails
  PROVE  /\ call.pc = "reap" /\ Breaks /\ fed' = FALSE
         /\ UNCHANGED <<lifecycle, pending, late, known, stdin, heard, stdout, chatter, pushed,
                        said, survived, completions>>
         /\ child' = child \/ (Exited /\ ~known /\ child' = "reaped")
         /\ ExitIsLost => child' = child
         /\ flags \subseteq flags'
<1>1. ASSUME NEW handled, NEW kept, NEW lost, ConsumeFails(handled, kept, lost)
      PROVE  /\ call.pc = "reap" /\ Breaks /\ fed' = FALSE
             /\ UNCHANGED <<lifecycle, pending, late, known, stdin, heard, stdout, chatter,
                            pushed, said, survived, completions>>
             /\ child' = child \/ (Exited /\ ~known /\ child' = "reaped")
             /\ ExitIsLost => child' = child
             /\ flags \subseteq flags'
  BY <1>1 DEF ConsumeFails, At, Exited, ExitIsLost
<1>2. CASE ReapMalformed
  BY <1>1, <1>2, Zenon DEF ReapMalformed
<1>3. CASE ReapOverflows
  BY <1>1, <1>3, Zenon DEF ReapOverflows
<1>4. CASE ReapFails
  BY <1>4 DEF ReapFails, At, session
<1> QED
  BY <1>2, <1>3, <1>4 DEF PumpFails

(* What a pump handles.                                                     *)
LEMMA ToHandleType ==
  ASSUME CallType, StateType
  PROVE  /\ ToHandle \in Seq(Lines)
         /\ fed => Range(ToHandle) = Range(buffer) \cup Range(call.got)
         /\ ~fed => ToHandle = <<>> /\ Range(ToHandle) = {}
<1>1. call.got \in Seq(Lines) /\ buffer \in Seq(Lines) /\ <<>> \in Seq(Lines)
  BY DEF CallType, StateType, DataType
<1>2. buffer \o call.got \in Seq(Lines) /\ Range(buffer \o call.got) = Range(buffer) \cup Range(call.got)
  BY <1>1, ConcatRange
<1> QED
  BY <1>1, <1>2, EmptyRange DEF ToHandle

(* A pump that fails handles, keeps or loses what it had, but for the line  *)
(* it failed at; one that read nothing does nothing of it.                  *)
LinesPart(handled, kept, lost) ==
  /\ events' = events \o Queued(handled) /\ flags' = flags \cup Range(handled)
  /\ buffer' = kept /\ dropped' = dropped \cup Range(lost)
  /\ Range(handled) \cup Range(kept) \cup Range(lost) \subseteq Range(buffer) \cup Range(call.got)
  /\ Range(buffer) \cup Range(call.got)
       \subseteq {"malformed"} \cup Range(handled) \cup Range(kept) \cup Range(lost)
  /\ ~fed => handled = <<>> /\ kept = buffer /\ UNCHANGED events

LEMMA PumpFailsLines ==
  ASSUME CallType, StateType, PumpFails
  PROVE  \E handled, kept, lost \in Seq(Lines) : LinesPart(handled, kept, lost)
<1>1. /\ call.got \in Seq(Lines) /\ buffer \in Seq(Lines) /\ <<>> \in Seq(Lines)
      /\ events \in Seq(Events)
  BY DEF CallType, StateType, DataType
<1>2. ASSUME NEW handled, NEW kept, NEW lost, ConsumeFails(handled, kept, lost)
      PROVE  /\ events' = events \o Queued(handled) /\ flags' = flags \cup Range(handled)
             /\ buffer' = kept /\ dropped' = dropped \cup Range(lost)
  BY <1>2 DEF ConsumeFails
<1>3. CASE ReapMalformed
  <2> DEFINE lines == ToHandle
             bad   == Bad(lines)
  <2>1. bad # 0
    BY <1>3 DEF ReapMalformed
  <2>2. lines \in Seq(Lines)
    BY ToHandleType
  <2>3. bad \in 1..Len(lines) /\ lines[bad] = "malformed"
    BY <2>1, <2>2, BadIsThere
  <2>4. fed /\ Range(lines) = Range(buffer) \cup Range(call.got)
    <3>1. lines # <<>>
      BY <2>3
    <3> QED
      BY <3>1, ToHandleType
  <2>5. PICK last \in bad..Len(lines) :
          ConsumeFails(SubSeq(lines, 1, bad - 1), SubSeq(lines, bad + 1, last),
                       SubSeq(lines, last + 1, Len(lines)))
    BY <1>3 DEF ReapMalformed
  <2> HIDE DEF lines, bad
  <2> DEFINE handled == SubSeq(lines, 1, bad - 1)
             kept    == SubSeq(lines, bad + 1, last)
             lost    == SubSeq(lines, last + 1, Len(lines))
             upto    == SubSeq(lines, 1, bad)
  <2>6. /\ Range(upto) \cup Range(kept) \cup Range(lost) = Range(lines)
        /\ kept \in Seq(Lines) /\ lost \in Seq(Lines)
    <3>1. bad \in 0..Len(lines) /\ last \in bad..Len(lines)
      BY <2>3
    <3> QED
      BY <2>2, <3>1, Parts
  <2>7. /\ handled \in Seq(Lines)
        /\ Range(handled) = {lines[i] : i \in 1..bad - 1} /\ Range(upto) = {lines[i] : i \in 1..bad}
    <3>1. 1 \in 1..Len(lines) + 1 /\ bad - 1 \in 0..Len(lines) /\ bad \in 0..Len(lines)
      BY <2>2, <2>3
    <3> QED
      BY <2>2, <3>1, SubSeqRange
  <2>8. Range(upto) = Range(handled) \cup {"malformed"}
    <3>1. \A i : i \in 1..bad <=> i \in 1..bad - 1 \/ i = bad
      BY <2>3
    <3> QED
      BY <2>3, <2>7, <3>1, Zenon
  <2>9. /\ events' = events \o Queued(handled) /\ flags' = flags \cup Range(handled)
        /\ buffer' = kept /\ dropped' = dropped \cup Range(lost)
    BY <1>2, <2>5, Zenon
  <2> HIDE DEF handled, kept, lost, upto
  <2>10. LinesPart(handled, kept, lost)
    BY <2>4, <2>6, <2>8, <2>9 DEF LinesPart
  <2> QED
    BY <2>6, <2>7, <2>10
<1>4. CASE ReapOverflows
  <2>1. fed
    BY <1>4 DEF ReapOverflows
  <2>2. CASE ConsumeFails(<<>>, buffer, call.got)
    <3>1. /\ events' = events \o Queued(<<>>) /\ flags' = flags \cup Range(<<>>)
          /\ buffer' = buffer /\ dropped' = dropped \cup Range(call.got)
      BY <1>2, <2>2, Zenon
    <3>2. LinesPart(<<>>, buffer, call.got)
      BY <2>1, <3>1, EmptyRange DEF LinesPart
    <3> QED
      BY <1>1, <3>2
  <2>3. ASSUME NEW last \in 0..Len(call.got),
               ConsumeFails(buffer \o SubSeq(call.got, 1, last), <<>>,
                            SubSeq(call.got, last + 1, Len(call.got)))
        PROVE  \E handled, kept, lost \in Seq(Lines) : LinesPart(handled, kept, lost)
    <3> DEFINE first   == SubSeq(call.got, 1, last)
               lost    == SubSeq(call.got, last + 1, Len(call.got))
               handled == buffer \o first
    <3>1. /\ Range(first) \cup Range(lost) = Range(call.got)
          /\ first \in Seq(Lines) /\ lost \in Seq(Lines)
      <4> DEFINE none == SubSeq(call.got, last + 1, last)
      <4>1. last \in last..Len(call.got)
        BY <1>1, <2>3
      <4>2. /\ Range(first) \cup Range(none) \cup Range(lost) = Range(call.got)
            /\ {first, none, lost} \subseteq Seq(Lines)
        BY <1>1, <2>3, <4>1, Parts
      <4>3. none = <<>>
        BY <1>1
      <4> QED
        BY <4>2, <4>3, EmptyRange
    <3>2. /\ events' = events \o Queued(handled) /\ flags' = flags \cup Range(handled)
          /\ buffer' = <<>> /\ dropped' = dropped \cup Range(lost)
      BY <1>2, <2>3, Zenon
    <3> HIDE DEF first, lost
    <3>3. handled \in Seq(Lines) /\ Range(handled) = Range(buffer) \cup Range(first)
      BY <1>1, <3>1, ConcatRange
    <3> HIDE DEF handled
    <3>4. LinesPart(handled, <<>>, lost)
      BY <2>1, <3>1, <3>2, <3>3, EmptyRange DEF LinesPart
    <3> QED
      BY <1>1, <3>1, <3>3, <3>4
  <2> QED
    BY <1>4, <2>2, <2>3 DEF ReapOverflows
<1>5. CASE ReapFails
  <2>1. /\ UNCHANGED <<events, flags, buffer>> /\ dropped' = dropped \cup Range(call.got)
    BY <1>5 DEF ReapFails, session
  <2>2. events \o Queued(<<>>) = events
    <3>1. events \o <<>> = events
      BY <1>1
    <3> QED
      BY <3>1, QueuedNothing
  <2>3. LinesPart(<<>>, buffer, call.got)
    BY <2>1, <2>2, EmptyRange DEF LinesPart
  <2> QED
    BY <1>1, <2>3
<1> QED
  BY <1>3, <1>4, <1>5 DEF PumpFails

(* The helper is there, or is spawned, or the spawn fails.                  *)
LEMMA EnsureFields ==
  ASSUME CallType, NEW pc, EnsureStarted(pc)
  PROVE  \/ /\ child # "none" /\ UNCHANGED <<helper, broken>>
            /\ CallBecomes(call.name, pc, call.next, call.line, call.after, call.got, call.result)
         \/ /\ child = "none" /\ child' = "running" /\ known' = FALSE /\ stdin' = TRUE
            /\ stdout' = <<>> /\ UNCHANGED <<heard, buffer, chatter, fed, broken>>
            /\ CallBecomes(call.name, pc, call.next, call.line, call.after, call.got, call.result)
         \/ child = "none" /\ Breaks /\ UNCHANGED helper
<1>1. CASE child # "none"
  BY <1>1, GotoFields DEF EnsureStarted, Spawn, SpawnFails
<1>2. CASE Spawn(pc)
  BY <1>2, GotoFields DEF Spawn
<1>3. CASE SpawnFails
  BY <1>3 DEF SpawnFails
<1> QED
  BY <1>1, <1>2, <1>3 DEF EnsureStarted

(* The held chunk is written, if there is one, and held no more.            *)
LEMMA FlushFields ==
  ASSUME CallType, NEW commit, NEW pc, FlushPendingChunk(commit, pc)
  PROVE  /\ pending' = 0
         /\ \/ /\ pending = 0
               /\ CallBecomes(call.name, pc, call.next, call.line, call.after, call.got, call.result)
            \/ /\ pending # 0
               /\ CallBecomes(call.name, "read", "write", Audio(pending, commit), pc,
                              call.got, call.result)
<1>1. CASE pending = 0
  BY <1>1, GotoFields DEF FlushPendingChunk
<1>2. CASE pending # 0
  BY <1>2, WriteFields DEF FlushPendingChunk
<1> QED
  BY <1>1, <1>2 DEF FlushPendingChunk

(* And its type.                                                            *)
LEMMA GotoType ==
  ASSUME CallType, NEW pc \in Steps, Goto(pc)
  PROVE  CallType'
  BY DEF CallType, Goto

(* The same for a pump.                                                     *)
LEMMA PumpType ==
  ASSUME CallType, NEW pc \in Steps, PumpThen(pc)
  PROVE  CallType'
<1>1. "read" \in Steps
  BY DEF Steps
<1> QED
  BY <1>1 DEF CallType, PumpThen

(* The same for a write.                                                    *)
LEMMA WriteType ==
  ASSUME CallType, NEW line \in Sent, NEW pc \in Steps, WriteThen(line, pc)
  PROVE  CallType'
<1>1. {"read", "write"} \subseteq Steps /\ line \in LineOrNone
  BY DEF Steps, LineOrNone
<1> QED
  BY <1>1 DEF CallType, WriteThen

(* The same for the end of a call.                                          *)
LEMMA ConcludeType ==
  ASSUME CallType, NEW result \in Results, Concludes(result)
  PROVE  CallType'
<1>1. "cleanup" \in Steps
  BY DEF Steps
<1> QED
  BY <1>1 DEF CallType, Concludes

(* The same for the beginning of a call.                                    *)
LEMMA BeginType ==
  ASSUME CallType, NEW name \in Names, NEW pc \in Steps, NEW next \in Steps, Begins(name, pc, next)
  PROVE  CallType'
<1>1. "free" \in Steps /\ <<>> \in LineOrNone /\ <<>> \in Seq(Lines) /\ "none" \in Results
  BY DEF Steps, LineOrNone, Results
<1>2. (IF name \in {"finish", "cancel"} THEN "none" ELSE call.result) \in Results
  BY <1>1 DEF CallType
<1> QED
  BY <1>1, <1>2 DEF CallType, Begins, NoCall

(* The same for the return of a call.                                       *)
LEMMA ReturnType ==
  ASSUME CallType, NEW result \in Results, Returns(result)
  PROVE  CallType'
<1>1. "free" \in Steps /\ "free" \in Names /\ <<>> \in LineOrNone /\ <<>> \in Seq(Lines)
  BY DEF Steps, LineOrNone, Names
<1>2. (IF call.name = "finish" THEN result ELSE call.result) \in Results
  BY DEF CallType
<1> QED
  BY <1>1, <1>2 DEF CallType, Returns, NoCall

(* The same for an error.                                                   *)
LEMMA BreakType ==
  ASSUME CallType, Breaks
  PROVE  CallType'
<1>1. "wipe" \in Steps /\ <<>> \in Seq(Lines) /\ "broken" \in Results
  BY DEF Steps, Results
<1>2. CASE call.name = "cancel"
  BY <1>1, <1>2 DEF CallType, Breaks
<1>3. CASE call.name # "cancel"
  BY <1>1, <1>3, ReturnType DEF Breaks
<1> QED
  BY <1>2, <1>3

(* The same for a read of the helper's lines.                               *)
LEMMA ReadType ==
  ASSUME CallType, StateType, Read
  PROVE  CallType'
<1>1. call.got \in Seq(Lines) /\ stdout \in Seq(Lines)
  BY DEF CallType, StateType, DataType
<1>2. call.got \o stdout \in Seq(Lines)
  BY <1>1, ConcatRange
<1> QED
  BY <1>2 DEF CallType, Read

(* The same for the end of a pump.                                          *)
LEMMA ReapType ==
  ASSUME CallType, Reap
  PROVE  CallType'
<1>1. <<>> \in Seq(Lines) /\ call.next \in Steps
  BY DEF CallType
<1> QED
  BY <1>1 DEF CallType, Reap

(* The lines that a call writes.                                            *)
LEMMA SentLines ==
  /\ \A n \in Nat, commit \in BOOLEAN : Audio(n, commit) \in Sent
  /\ <<"finish">> \in Sent /\ <<"cancel">> \in Sent
  BY DEF Sent, Audio

(* The call keeps its type: each step is one of the moves above.            *)
LEMMA CallTypeStep ==
  ASSUME CallType, StateType, [Next]_vars
  PROVE  CallType'
<1>1. /\ {"read", "reap", "write", "flush", "store", "pushed", "take", "end", "close", "wait", "deadline",
          "grace", "used", "verdict", "tell", "wipe", "cleanup", "start", "free"} \subseteq Steps
      /\ {"push", "poll", "finish", "cancel", "drop"} \subseteq Names
      /\ {"none", "broken", "ok", "failed", "noText", "timeout"} \subseteq Results
  BY DEF Steps, Names, Results
<1>2. call.next \in Steps /\ call.after \in Steps /\ call.result \in Results
  BY DEF CallType
<1>3. pending \in Nat
  BY DEF StateType, ScalarType
<1>4. ASSUME Breaks PROVE CallType'
  BY <1>4, BreakType
<1>5. ASSUME NEW pc \in Steps, EnsureStarted(pc) PROVE CallType'
  BY <1>4, <1>5, GotoType DEF EnsureStarted, Spawn, SpawnFails
<1>6. ASSUME NEW pc \in Steps, NEW commit \in BOOLEAN, FlushPendingChunk(commit, pc) PROVE CallType'
  BY <1>3, <1>6, GotoType, WriteType, SentLines DEF FlushPendingChunk
<1>7. CASE Pump
  BY <1>1, <1>4, <1>7, ReadType, GotoType, PumpFailsMoves, ReapType
     DEF Pump, PumpFails, ReadEnds
<1>8. CASE Write
  BY <1>1, <1>2, <1>4, <1>8, PumpType DEF Write, WriteSucceeds, WriteFails, WriteWouldBlock
<1>9. CASE Push
  BY <1>1, <1>2, <1>5, <1>6, <1>9, PumpType, ReturnType
     DEF Push, PushStarts, PushFlushes, PushStores, PushReturns, PollTakes
<1>10. CASE FinishStarts \/ FinishFlushes \/ FinishEnds \/ CloseStdin \/ Wait
  BY <1>1, <1>5, <1>6, <1>10, WriteType, SentLines, GotoType, PumpType
     DEF FinishStarts, FinishFlushes, FinishEnds, CloseStdin, Wait
<1>11. CASE CheckDeadline \/ Grace \/ UseFinal
  BY <1>1, <1>11, GotoType, PumpType, ConcludeType DEF CheckDeadline, Grace, UseFinal
<1>16. CASE Verdict
  BY <1>1, <1>16, ConcludeType DEF Verdict
<1>12. CASE CancelStarts \/ CancelTells \/ CancelWipes \/ CleanupProcess
  BY <1>1, <1>2, <1>5, <1>12, WriteType, SentLines, GotoType, ReturnType
     DEF CancelStarts, CancelTells, CancelWipes, CleanupProcess
<1>13. CASE PushAudio \/ PollEvents \/ Finish \/ Cancel \/ Drop
  BY <1>1, <1>13, BeginType DEF PushAudio, PollEvents, Finish, Cancel, Drop
<1>14. CASE Helper \/ Expire \/ UNCHANGED vars
  <2>1. UNCHANGED call
    BY <1>14 DEF Helper, HelperSays, HelperChatters, HelperExits, Expire, vars
  <2> QED
    BY <2>1 DEF CallType
<1> QED
  BY <1>7, <1>8, <1>9, <1>10, <1>11, <1>12, <1>13, <1>14, <1>16, Zenon DEF Next, Session, Ends

(* The state keeps its type but for the queues and pipes.                   *)
LEMMA ScalarTypeStep ==
  ASSUME ScalarType, [Next]_vars
  PROVE  ScalarType'
<1> USE StreamingConstants DEF ScalarType, session, helper, history
<1>2. CASE Pump
  BY <1>2, PumpFailsMoves DEF Pump, PumpFails, Read, ReadEnds, Reap, Exited
<1>3. CASE Write
  BY <1>3 DEF Write, WriteSucceeds, WriteFails, WriteWouldBlock
<1>4. CASE PushStarts \/ PushFlushes
  BY <1>4 DEF PushStarts, PushFlushes, EnsureStarted, Spawn, SpawnFails, FlushPendingChunk,
                    WriteThen
<1>5. CASE PushStores \/ PushReturns \/ PollTakes
  BY <1>5 DEF PushStores, PushReturns, PollTakes, Returns
<1>6. CASE FinishStarts
  BY <1>6 DEF FinishStarts, EnsureStarted, Spawn, SpawnFails
<1>7. CASE FinishFlushes \/ FinishEnds \/ CloseStdin \/ Wait \/ Grace
  BY <1>7 DEF FinishFlushes, FinishEnds, CloseStdin, Wait, Grace, FlushPendingChunk, WriteThen
<1>8. CASE CheckDeadline \/ UseFinal \/ Verdict
  BY <1>8 DEF CheckDeadline, UseFinal, Verdict, QueueCompleted
<1>9. CASE CancelStarts \/ CancelTells \/ CancelWipes
  BY <1>9 DEF CancelStarts, CancelTells, CancelWipes, EnsureStarted, Spawn, SpawnFails,
                    WriteThen, QueueCompleted
<1>10. CASE CleanupProcess
  BY <1>10 DEF CleanupProcess, Returns
<1>11. CASE PushAudio \/ PollEvents \/ Finish \/ Cancel \/ Drop
  BY <1>11 DEF PushAudio, PollEvents, Finish, Cancel, Drop
<1>12. CASE Helper \/ Expire \/ UNCHANGED vars
  BY <1>12 DEF Helper, HelperSays, HelperChatters, HelperExits, Expire, vars
<1> QED
  BY <1>2, <1>3, <1>4, <1>5, <1>6, <1>7, <1>8, <1>9, <1>10, <1>11, <1>12, Zenon
     DEF Next, Session, Push, Ends

(* A sequence over a set holds members of it.                               *)
LEMMA TypedRange ==
  ASSUME NEW S, NEW s \in Seq(S)
  PROVE  Range(s) \subseteq S
  BY SeqRange

(* Events that are added to the queue.                                      *)
LEMMA EventsType ==
  ASSUME NEW old \in Seq(Events), NEW lines \in Seq(Lines),
         NEW more \in {<<>>, <<"error">>, <<"completed">>}
  PROVE  /\ old \o Queued(lines) \in Seq(Events)
         /\ old \o more \in Seq(Events)
         /\ (old \o Queued(lines)) \o more \in Seq(Events)
<1>1. more \in Seq(Events)
  <2>1. <<>> \in Seq(Events) /\ <<"error">> \in Seq(Events) /\ <<"completed">> \in Seq(Events)
    BY DEF Events
  <2> QED
    BY <2>1
<1>2. Queued(lines) \in Seq(Events)
  <2> DEFINE s == Queued(lines)
             S == {"final", "error"}
  <2>1. s \in Seq(S) /\ S \subseteq Events
    BY QueuedType DEF Events
  <2> HIDE DEF s, S
  <2>2. s \in Seq(Events)
    BY <2>1
  <2> QED
    BY <2>2 DEF s
<1>3. old \o Queued(lines) \in Seq(Events)
  BY <1>2, ConcatRange
<1> QED
  BY <1>1, <1>2, <1>3, ConcatRange

(* The queues and the pipes keep their types.                               *)
LEMMA DataTypeStep ==
  ASSUME CallType, DataType, LineOfCall, ScalarType, [Next]_vars
  PROVE  DataType'
<1> USE DEF session, helper, history
<1>1. call.got \in Seq(Lines)
  BY DEF CallType
<1>2. ASSUME NEW before \in Seq(Events), QueueCompleted(before)
      PROVE  events' \in Seq(Events)
  <2>1. CASE completions = 0
    BY <1>1, <1>2, <2>1, EventsType DEF QueueCompleted
  <2>2. CASE completions # 0
    BY <1>2, <2>2, EventsType DEF QueueCompleted
  <2> QED
    BY <2>1, <2>2
<1>3. CASE Read \/ ReadEnds
  <2>1. /\ UNCHANGED <<events, flags, dropped, heard, buffer, said>>
        /\ stdout' = stdout \/ stdout' = <<>>
    BY <1>3 DEF Read, ReadEnds
  <2>2. stdout \in Seq(Lines) /\ <<>> \in Seq(Lines)
    BY DEF DataType
  <2>3. stdout' \in Seq(Lines)
    BY <2>1, <2>2
  <2> QED
    BY <2>1, <2>3 DEF DataType
<1>4. CASE PumpFails
  <2>1. PICK handled, kept, lost \in Seq(Lines) : LinesPart(handled, kept, lost)
    BY <1>4, PumpFailsLines DEF StateType
  <2>2. Range(handled) \subseteq Lines /\ Range(lost) \subseteq Lines
    BY <2>1, TypedRange
  <2>3. events' \in Seq(Events)
    BY <2>1, EventsType DEF LinesPart, DataType
  <2>4. UNCHANGED <<heard, stdout, said>>
    BY <1>4, PumpFailsMoves
  <2> QED
    BY <2>1, <2>2, <2>3, <2>4 DEF LinesPart, DataType
<1>5. CASE Reap
  <2>1. ToHandle \in Seq(Lines)
    BY ToHandleType DEF StateType
  <2>2. Range(ToHandle) \subseteq Lines /\ Range(stdout) \subseteq Lines
    BY <2>1, TypedRange DEF DataType
  <2>3. events' \in Seq(Events)
    BY <1>5, <2>1, EventsType DEF Reap, DataType
  <2>4. flags' \subseteq Lines /\ dropped' \subseteq Lines
    BY <1>5, <2>2 DEF Reap, DataType, Lines
  <2>5. stdout' \in Seq(Lines) /\ buffer' \in Seq(Lines) /\ UNCHANGED <<heard, said>>
    BY <1>5 DEF Reap, DataType
  <2> QED
    BY <2>3, <2>4, <2>5 DEF DataType
<1>6. CASE WriteSucceeds
  <2>1. Writing
    BY <1>6 DEF WriteSucceeds, At, Writing, Heading
  <2>2. call.line \in Sent
    <3>1. \A n \in 1..pushed - 1 : n \in Nat
      BY StreamingConstants DEF ScalarType
    <3>2. pushed \in Nat
      BY StreamingConstants DEF ScalarType
    <3> QED
      BY <2>1, <3>1, <3>2, SentLines DEF LineOfCall
  <2> QED
    BY <1>6, <2>2 DEF WriteSucceeds, DataType
<1>7. CASE WriteFails \/ WriteWouldBlock
  <2>1. UNCHANGED <<events, flags, dropped, heard, stdout, buffer, said>>
    BY <1>7 DEF WriteFails, WriteWouldBlock
  <2> QED
    BY <2>1 DEF DataType
<1>8. CASE PushStarts \/ FinishStarts \/ CancelStarts
  <2>1. /\ UNCHANGED <<events, flags, dropped, heard, buffer, said>>
        /\ stdout' = stdout \/ stdout' = <<>>
    BY <1>8 DEF PushStarts, FinishStarts, CancelStarts, EnsureStarted, Spawn, SpawnFails
  <2>2. <<>> \in Seq(Lines)
    OBVIOUS
  <2>3. stdout' \in Seq(Lines)
    BY <2>1, <2>2, Zenon DEF DataType
  <2> QED
    BY <2>1, <2>3 DEF DataType
<1>9. CASE PushFlushes \/ PushStores \/ PushReturns \/ PollTakes
  <2>1. /\ UNCHANGED <<flags, dropped, heard, stdout, buffer, said>>
        /\ events' = events \/ events' = <<>>
    BY <1>9 DEF PushFlushes, PushStores, PushReturns, PollTakes
  <2>2. <<>> \in Seq(Events)
    OBVIOUS
  <2>3. events' \in Seq(Events)
    BY <2>1, <2>2, Zenon DEF DataType
  <2> QED
    BY <2>1, <2>3 DEF DataType
<1>10. CASE FinishFlushes \/ FinishEnds \/ CloseStdin \/ Wait \/ Grace \/ CancelTells
  BY <1>10 DEF FinishFlushes, FinishEnds, CloseStdin, Wait, Grace, CancelTells, DataType
<1>11. CASE CheckDeadline
  <2>1. Append(events, "error") \in Seq(Events)
    BY DEF DataType, Events
  <2>2. events' \in Seq(Events)
    BY <1>2, <1>11, <2>1 DEF CheckDeadline, DataType
  <2> QED
    BY <1>11, <2>2 DEF CheckDeadline, DataType, Lines
<1>12. CASE UseFinal
  BY <1>2, <1>12 DEF UseFinal, DataType
<1>13. CASE Verdict
  <2> DEFINE queued == events \o IF flags \cap {"final", "error"} = {} THEN <<"error">> ELSE <<>>
  <2>1. queued \in Seq(Events) /\ QueueCompleted(queued)
    BY <1>1, <1>13, EventsType DEF Verdict, DataType
  <2> HIDE DEF queued
  <2>2. events' \in Seq(Events)
    BY <1>2, <2>1
  <2> QED
    BY <1>13, <2>2 DEF Verdict, DataType, Lines
<1>14. CASE CancelWipes
  <2>1. <<>> \in Seq(Events)
    OBVIOUS
  <2> QED
    BY <1>2, <1>14, <2>1 DEF CancelWipes, DataType
<1>15. CASE CleanupProcess
  <2>1. Range(stdout) \subseteq Lines
    BY TypedRange DEF DataType
  <2> QED
    BY <1>15, <2>1 DEF CleanupProcess, DataType
<1>16. CASE PushAudio \/ PollEvents \/ Finish \/ Cancel \/ Drop
  BY <1>16 DEF PushAudio, PollEvents, Finish, Cancel, Drop, DataType
<1>17. CASE Helper \/ Expire \/ UNCHANGED vars
  <2>1. CASE \E line \in Lines : HelperSays(line)
    BY <2>1 DEF HelperSays, DataType
  <2>2. CASE ~\E line \in Lines : HelperSays(line)
    <3>1. UNCHANGED <<events, flags, dropped, heard, stdout, buffer, said>>
      BY <1>17, <2>2 DEF Helper, HelperChatters, HelperExits, Expire, vars
    <3> QED
      BY <3>1 DEF DataType
  <2> QED
    BY <2>1, <2>2
<1> QED
  BY <1>3, <1>4, <1>5, <1>6, <1>7, <1>8, <1>9, <1>10, <1>11, <1>12, <1>13, <1>14, <1>15,
     <1>16, <1>17, Zenon DEF Next, Session, Pump, PumpFails, Write, Push, Ends

(* Every call goes through its own stages.                                  *)
LEMMA StageStep ==
  ASSUME CallType, StageOfCall, [Next]_vars
  PROVE  StageOfCall'
<1> USE DEF CallBecomes, StageOfCall, Stage, Writing, Heading, At
<1>1. CASE Read \/ ReadEnds
  BY <1>1, ReadFields, GotoFields DEF Read, ReadEnds
<1>2. CASE PumpFails \/ WriteFails
  BY <1>2, PumpFailsMoves, BreakFields DEF WriteFails
<1>4. CASE Reap
  BY <1>4, ReapFields DEF Reap
<1>5. CASE WriteSucceeds \/ WriteWouldBlock
  BY <1>5, PumpFields DEF WriteSucceeds, WriteWouldBlock
<1>8. CASE PushStarts
  BY <1>8, EnsureFields, BreakFields DEF PushStarts
<1>9. CASE PushFlushes
  BY <1>9, FlushFields DEF PushFlushes
<1>10. CASE PushStores \/ PushReturns \/ PollTakes
  BY <1>10, PumpFields, ReturnFields DEF PushStores, PushReturns, PollTakes
<1>11. CASE FinishStarts
  BY <1>11, EnsureFields, BreakFields DEF FinishStarts, FinishStep
<1>12. CASE FinishFlushes
  BY <1>12, FlushFields DEF FinishFlushes, FinishStep
<1>13. CASE FinishEnds
  BY <1>13, WriteFields DEF FinishEnds
<1>22. CASE CloseStdin
  BY <1>22, GotoFields DEF CloseStdin
<1>14. CASE Wait
  BY <1>14, GotoFields, PumpFields DEF Wait
<1>15. CASE CheckDeadline
  BY <1>15, ConcludeFields, GotoFields DEF CheckDeadline
<1>16. CASE Grace
  BY <1>16, PumpFields DEF Grace
<1>17. CASE UseFinal \/ Verdict
  BY <1>17, ConcludeFields DEF UseFinal, Verdict
<1>18. CASE CancelStarts
  BY <1>18, EnsureFields, BreakFields DEF CancelStarts
<1>19. CASE CancelTells \/ CancelWipes \/ CleanupProcess
  BY <1>19, WriteFields, GotoFields, ReturnFields DEF CancelTells, CancelWipes, CleanupProcess
<1>20. CASE PushAudio \/ PollEvents \/ Finish \/ Cancel \/ Drop
  BY <1>20, BeginFields DEF PushAudio, PollEvents, Finish, Cancel, Drop
<1>21. CASE Helper \/ Expire \/ UNCHANGED vars
  <2>1. UNCHANGED call
    BY <1>21 DEF Helper, HelperSays, HelperChatters, HelperExits, Expire, vars
  <2> QED
    BY <2>1
<1> QED
  BY <1>1, <1>2, <1>4, <1>5, <1>8, <1>9, <1>10, <1>11, <1>12, <1>13, <1>14,
     <1>15, <1>16, <1>17, <1>18, <1>19, <1>20, <1>21, <1>22
     DEF Next, Session, Pump, PumpFails, Write, Push, Ends

(* A call and the lifecycle agree.                                          *)
LEMMA LifecycleStep ==
  ASSUME CallType, StageOfCall, LifecycleOfCall, [Next]_vars
  PROVE  LifecycleOfCall'
<1> USE DEF session,  CallBecomes, StageOfCall, LifecycleOfCall, Stage, Writing, Heading, At
<1>1. CASE Read \/ ReadEnds
  BY <1>1, ReadFields, GotoFields DEF Read, ReadEnds
<1>2. CASE PumpFails \/ WriteFails
  BY <1>2, PumpFailsMoves, BreakFields DEF WriteFails
<1>4. CASE Reap
  BY <1>4, ReapFields DEF Reap
<1>5. CASE WriteSucceeds \/ WriteWouldBlock
  BY <1>5, PumpFields DEF WriteSucceeds, WriteWouldBlock
<1>8. CASE PushStarts
  BY <1>8, EnsureFields, BreakFields DEF PushStarts
<1>9. CASE PushFlushes
  BY <1>9, FlushFields DEF PushFlushes
<1>10. CASE PushStores \/ PushReturns \/ PollTakes
  BY <1>10, PumpFields, ReturnFields DEF PushStores, PushReturns, PollTakes
<1>11. CASE FinishStarts
  <2>1. CASE call'.name = "finish"
    BY <1>11, <2>1, EnsureFields, BreakFields DEF FinishStarts, FinishStep
  <2>2. CASE call'.name = "free"
    BY <2>2
  <2> QED
    BY <1>11, <2>1, <2>2, EnsureFields, BreakFields DEF FinishStarts, FinishStep
<1>12. CASE FinishFlushes
  <2>1. /\ call'.name = "finish" /\ lifecycle' = lifecycle /\ lifecycle = "finished"
        /\ Stage' = "end"
    BY <1>12, FlushFields DEF FinishFlushes, FinishStep
  <2> QED
    BY <2>1
<1>13. CASE FinishEnds
  <2>1. /\ call'.name = "finish" /\ lifecycle' = lifecycle /\ lifecycle = "finished"
        /\ Stage' = "close"
    BY <1>13, WriteFields DEF FinishEnds
  <2> QED
    BY <2>1
<1>22. CASE CloseStdin
  BY <1>22, GotoFields DEF CloseStdin
<1>14. CASE Wait
  BY <1>14, GotoFields, PumpFields DEF Wait
<1>15. CASE CheckDeadline
  BY <1>15, ConcludeFields, GotoFields DEF CheckDeadline
<1>16. CASE Grace
  BY <1>16, PumpFields DEF Grace
<1>17. CASE UseFinal \/ Verdict
  BY <1>17, ConcludeFields DEF UseFinal, Verdict
<1>18. CASE CancelStarts
  BY <1>18, EnsureFields, BreakFields DEF CancelStarts
<1>19. CASE CancelTells \/ CancelWipes \/ CleanupProcess
  BY <1>19, WriteFields, GotoFields, ReturnFields DEF CancelTells, CancelWipes, CleanupProcess
<1>20. CASE PushAudio \/ PollEvents \/ Finish \/ Cancel \/ Drop
  BY <1>20, BeginFields DEF PushAudio, PollEvents, Finish, Cancel, Drop
<1>21. CASE Helper \/ Expire \/ UNCHANGED vars
  <2>1. UNCHANGED <<call, lifecycle>>
    BY <1>21 DEF Helper, HelperSays, HelperChatters, HelperExits, Expire, vars
  <2> QED
    BY <2>1
<1> QED
  BY <1>1, <1>2, <1>4, <1>5, <1>8, <1>9, <1>10, <1>11, <1>12, <1>13, <1>14,
     <1>15, <1>16, <1>17, <1>18, <1>19, <1>20, <1>21, <1>22
     DEF Next, Session, Pump, PumpFails, Write, Push, Ends

(* A call that is not about to write has no line to account for.            *)
LEMMA LineStep ==
  ASSUME CallType, ScalarType, StageOfCall, LineOfCall, LifecycleOfCall, HeldChunk, [Next]_vars
  PROVE  LineOfCall'
<1> USE DEF CallBecomes, Stage, Writing, Heading, At
<1>1. ASSUME ~Writing' PROVE LineOfCall'
  BY <1>1 DEF LineOfCall
<1>2. CASE Read \/ ReadEnds
  BY <1>2, ReadFields, GotoFields DEF Read, ReadEnds, LineOfCall, history
<1>3. CASE Reap
  BY <1>3, ReapFields DEF Reap, LineOfCall
<1>4. CASE WriteWouldBlock
  BY <1>4, PumpFields DEF WriteWouldBlock, LineOfCall, history
<1>5. CASE PushFlushes
  <2>1. pending # 0 => pending = pushed - 1 /\ pending \in 1..pushed - 1
    BY <1>5, StreamingConstants DEF PushFlushes, HeldChunk, ScalarType
  <2>2. /\ call'.name = "push" /\ UNCHANGED pushed
        /\ \/ call'.pc = "store"
           \/ pending # 0 /\ call'.after = "store" /\ call'.line = Audio(pending, FALSE)
    <3>1. call.name = "push" /\ UNCHANGED pushed /\ FlushPendingChunk(FALSE, "store")
      BY <1>5 DEF PushFlushes, history
    <3> QED
      BY <3>1, FlushFields
  <2> QED
    BY <1>1, <2>1, <2>2 DEF LineOfCall
<1>6. CASE FinishFlushes
  <2>1. pending # 0 => pending = pushed /\ pushed > 0
    BY <1>6, StreamingConstants DEF FinishFlushes, FinishStep, HeldChunk, ScalarType
  <2>2. /\ call'.name = "finish" /\ UNCHANGED pushed
        /\ \/ call'.pc = "end"
           \/ pending # 0 /\ call'.after = "end" /\ call'.line = Audio(pending, TRUE)
    <3>1. call.name = "finish" /\ UNCHANGED pushed /\ FlushPendingChunk(TRUE, "end")
      BY <1>6 DEF FinishFlushes, FinishStep, history
    <3> QED
      BY <3>1, FlushFields
  <2> QED
    BY <1>1, <2>1, <2>2 DEF LineOfCall
<1>7. CASE FinishEnds
  BY <1>7, WriteFields DEF FinishEnds, LineOfCall, StageOfCall
<1>8. CASE CancelTells
  BY <1>8, WriteFields DEF CancelTells, LineOfCall, StageOfCall
<1>9. CASE PumpFails \/ WriteFails
  BY <1>1, <1>9, PumpFailsMoves, BreakFields DEF WriteFails
<1>10. CASE WriteSucceeds
  BY <1>1, <1>10, PumpFields DEF WriteSucceeds, StageOfCall
<1>11. CASE PushStarts \/ FinishStarts \/ CancelStarts
  <2>1. ~Writing'
    BY <1>11, EnsureFields, BreakFields DEF PushStarts, FinishStarts, CancelStarts
  <2> QED
    BY <1>1, <2>1
<1>12. CASE PushStores \/ PushReturns \/ PollTakes
  BY <1>1, <1>12, PumpFields, ReturnFields DEF PushStores, PushReturns, PollTakes
<1>13. CASE CloseStdin \/ Wait \/ CheckDeadline
  BY <1>1, <1>13, GotoFields, PumpFields, ConcludeFields DEF CloseStdin, Wait, CheckDeadline
<1>14. CASE Grace \/ UseFinal
  BY <1>1, <1>14, PumpFields, ConcludeFields DEF Grace, UseFinal
<1>18. CASE Verdict
  <2>1. \E result : Concludes(result)
    BY <1>18 DEF Verdict
  <2> QED
    BY <1>1, <2>1, ConcludeFields
<1>15. CASE CancelWipes
  BY <1>1, <1>15, GotoFields DEF CancelWipes
<1>19. CASE CleanupProcess
  BY <1>1, <1>19, ReturnFields DEF CleanupProcess
<1>16. CASE PushAudio \/ PollEvents \/ Finish \/ Cancel \/ Drop
  BY <1>1, <1>16, BeginFields DEF PushAudio, PollEvents, Finish, Cancel, Drop
<1>17. CASE Helper \/ Expire \/ UNCHANGED vars
  <2>1. UNCHANGED <<call, pushed>>
    BY <1>17 DEF Helper, HelperSays, HelperChatters, HelperExits, Expire, vars, history
  <2> QED
    BY <2>1 DEF LineOfCall
<1> QED
  BY <1>2, <1>3, <1>4, <1>5, <1>6, <1>7, <1>8, <1>9, <1>10, <1>11, <1>12, <1>13, <1>14,
     <1>15, <1>16, <1>17, <1>18, <1>19 DEF Next, Session, Pump, PumpFails, Write, Push, Ends

(* It writes the held chunk, or goes on at once.                            *)
LEMMA FlushMoves ==
  ASSUME CallType, NEW commit, NEW pc, FlushPendingChunk(commit, pc)
  PROVE  /\ call'.name = call.name /\ call'.got = call.got /\ call'.result = call.result
         /\ \/ call'.pc = pc
            \/ call'.pc = "read" /\ call'.next = "write" /\ call'.after = pc
<1>1. CASE pending = 0
  BY <1>1, FlushFields DEF CallBecomes
<1>2. CASE pending # 0
  BY <1>2, FlushFields DEF CallBecomes
<1> QED
  BY <1>1, <1>2

(* A call that is not in its pump has nothing read and nothing to read.     *)
LEMMA PumpReadsStays ==
  ASSUME PumpReads, UNCHANGED <<chatter, fed>>,
         \/ UNCHANGED call
         \/ call.pc \notin {"read", "reap"} /\ call'.got \in {call.got, <<>>}
  PROVE  PumpReads'
  BY DEF PumpReads, At

(* Reads begin and end with the pump.                                       *)
LEMMA PumpReadsStep ==
  ASSUME CallType, StageOfCall, PumpReads, [Next]_vars
  PROVE  PumpReads'
<1> USE DEF session, helper, history, CallBecomes, At
<1>1. CASE Read
  BY <1>1, ReadFields DEF Read, PumpReads
<1>2. CASE ReadEnds
  BY <1>2, GotoFields DEF ReadEnds, PumpReads
<1>3. CASE PumpFails
  <2>1. call.pc = "reap" /\ fed' = FALSE /\ chatter' = chatter /\ call'.got = <<>>
    BY <1>3, PumpFailsMoves, BreakFields
  <2> QED
    BY <2>1 DEF PumpReads
<1>4. CASE Reap
  <2>1. call.pc = "reap" /\ fed' = FALSE /\ chatter' = chatter /\ call'.got = <<>>
    BY <1>4, ReapFields DEF Reap
  <2> QED
    BY <2>1 DEF PumpReads
<1>5. CASE WriteSucceeds \/ WriteFails \/ WriteWouldBlock
  BY <1>5, PumpReadsStays, PumpFields, BreakFields DEF WriteSucceeds, WriteFails, WriteWouldBlock
<1>6. CASE PushStarts
  BY <1>6, PumpReadsStays, EnsureFields, BreakFields DEF PushStarts
<1>7. CASE FinishStarts
  BY <1>7, PumpReadsStays, EnsureFields, BreakFields DEF FinishStarts
<1>8. CASE CancelStarts
  BY <1>8, PumpReadsStays, EnsureFields, BreakFields DEF CancelStarts
<1>9. CASE PushFlushes
  <2>1. FlushPendingChunk(FALSE, "store") /\ UNCHANGED <<chatter, fed>> /\ call.pc = "flush"
    BY <1>9 DEF PushFlushes
  <2> QED
    BY <2>1, FlushMoves, PumpReadsStays
<1>10. CASE FinishFlushes
  <2>1. FlushPendingChunk(TRUE, "end") /\ UNCHANGED <<chatter, fed>> /\ call.pc = "flush"
    BY <1>10 DEF FinishFlushes
  <2> QED
    BY <2>1, FlushMoves, PumpReadsStays
<1>11. CASE PushStores \/ PushReturns \/ PollTakes \/ CleanupProcess
  BY <1>11, PumpReadsStays, PumpFields, ReturnFields
     DEF PushStores, PushReturns, PollTakes, CleanupProcess
<1>12. CASE FinishEnds
  BY <1>12, PumpReadsStays, WriteFields DEF FinishEnds
<1>13. CASE CancelTells
  BY <1>13, PumpReadsStays, WriteFields DEF CancelTells
<1>14. CASE CloseStdin \/ Wait \/ Grace \/ CancelWipes
  BY <1>14, PumpReadsStays, GotoFields, PumpFields DEF CloseStdin, Wait, Grace, CancelWipes
<1>15. CASE CheckDeadline \/ UseFinal
  BY <1>15, PumpReadsStays, GotoFields, ConcludeFields DEF CheckDeadline, UseFinal
<1>16. CASE Verdict
  <2>1. call.pc = "verdict" /\ UNCHANGED <<chatter, fed>> /\ \E result : Concludes(result)
    BY <1>16 DEF Verdict
  <2> QED
    BY <2>1, PumpReadsStays, ConcludeFields
<1>17. CASE PushAudio \/ PollEvents \/ Finish \/ Cancel \/ Drop
  <2>1. call.pc = "free"
    BY <1>17 DEF PushAudio, PollEvents, Finish, Cancel, Drop, StageOfCall
  <2> QED
    BY <1>17, <2>1, PumpReadsStays, BeginFields DEF PushAudio, PollEvents, Finish, Cancel, Drop
<1>18. CASE HelperChatters
  BY <1>18 DEF HelperChatters, PumpReads
<1>19. CASE (\E line \in Lines : HelperSays(line)) \/ (\E how \in {"exited", "failed"} : HelperExits(how))
  BY <1>19, PumpReadsStays DEF HelperSays, HelperExits
<1>20. CASE Expire \/ UNCHANGED vars
  BY <1>20, PumpReadsStays DEF Expire, vars
<1> QED
  BY <1>1, <1>2, <1>3, <1>4, <1>5, <1>6, <1>7, <1>8, <1>9, <1>10, <1>11, <1>12, <1>13,
     <1>14, <1>15, <1>16, <1>17, <1>18, <1>19, <1>20, Zenon
     DEF Next, Session, Pump, PumpFails, Write, Push, Ends, Helper

(* A helper is spawned by a call that is not over, and given up with all of *)
(* its pipes.                                                               *)
LEMMA HelperStep ==
  ASSUME CallType, StateType, CallIsInPlace, PumpReads, HelperIsKnown, [Next]_vars
  PROVE  HelperIsKnown'
<1> USE DEF session, helper, history, CallBecomes, HelperIsKnown, At
<1>1. CASE Read
  <2>1. child # "none" /\ ~known /\ UNCHANGED <<child, known, lifecycle>>
    BY <1>1 DEF Read
  <2>2. call'.name = call.name
    BY <1>1, ReadFields
  <2> QED
    BY <2>1, <2>2
<1>20. CASE ReadEnds
  BY <1>20, GotoFields DEF ReadEnds
<1>2. CASE WriteFails
  BY <1>2, BreakFields
     DEF WriteFails, CallIsInPlace, StageOfCall, LifecycleOfCall, Stage, Heading, Writing, Exited
<1>21. CASE PumpFails
  <2>1. /\ call.pc = "reap" /\ Breaks /\ fed' = FALSE
        /\ UNCHANGED <<lifecycle, known, stdin, stdout, chatter>>
        /\ child = "none" <=> child' = "none"
        /\ child = "reaped" => child' = "reaped"
    BY <1>21, PumpFailsMoves DEF Exited
  <2>2. call'.name = call.name \/ (call.name # "cancel" /\ call'.name = "free")
    BY <2>1, BreakFields
  <2>3. call.name = "drop" => lifecycle = "dropped" /\ FALSE
    BY <2>1 DEF CallIsInPlace, StageOfCall, Stage, Heading, Writing
  <2> QED
    BY <2>1, <2>2, <2>3
<1>3. CASE Reap
  <2>1. /\ call.pc = "reap" /\ fed' = FALSE /\ chatter' = FALSE /\ call'.name = call.name
        /\ UNCHANGED lifecycle
    BY <1>3, ReapFields DEF Reap, PumpReads
  <2>2. child = "none" <=> child' = "none"
    BY <1>3 DEF Reap, Exited
  <2>3. child' = "none" => ~known' /\ ~stdin' /\ stdout' = <<>>
    BY <1>3, <2>2 DEF Reap, Exited
  <2>4. known' => child' = "reaped" /\ stdout' = <<>>
    BY <1>3 DEF Reap, Exited
  <2> QED
    BY <2>1, <2>2, <2>3, <2>4
<1>4. CASE WriteSucceeds \/ WriteWouldBlock
  BY <1>4, PumpFields DEF WriteSucceeds, WriteWouldBlock
<1>5. CASE PushStarts
  BY <1>5, EnsureFields, BreakFields
     DEF PushStarts, CallIsInPlace, StageOfCall, LifecycleOfCall, Stage, Heading, Writing
<1>6. CASE FinishStarts
  BY <1>6, EnsureFields, BreakFields DEF FinishStarts, FinishStep
<1>7. CASE CancelStarts
  BY <1>7, EnsureFields, BreakFields DEF CancelStarts
<1>8. CASE PushFlushes
  <2>1. /\ FlushPendingChunk(FALSE, "store")
        /\ UNCHANGED <<lifecycle, child, known, stdin, stdout, chatter, fed>>
    BY <1>8 DEF PushFlushes
  <2>2. call'.name = call.name /\ call'.pc \in {"read", "store"}
    BY <2>1, FlushFields
  <2> QED
    BY <2>1, <2>2
<1>9. CASE FinishFlushes
  <2>1. /\ FlushPendingChunk(TRUE, "end")
        /\ UNCHANGED <<lifecycle, child, known, stdin, stdout, chatter, fed>>
    BY <1>9 DEF FinishFlushes
  <2>2. call'.name = call.name /\ call'.pc \in {"read", "end"}
    BY <2>1, FlushFields
  <2> QED
    BY <2>1, <2>2
<1>10. CASE PushStores
  BY <1>10, PumpFields DEF PushStores
<1>11. CASE PushReturns \/ PollTakes
  BY <1>11, ReturnFields
     DEF PushReturns, PollTakes, CallIsInPlace, StageOfCall, LifecycleOfCall, Stage, Heading,
         Writing
<1>12. CASE CleanupProcess
  BY <1>12, ReturnFields DEF CleanupProcess, PumpReads
<1>13. CASE FinishEnds
  BY <1>13, WriteFields DEF FinishEnds
<1>14. CASE CancelTells
  BY <1>14, WriteFields DEF CancelTells
<1>15. CASE CloseStdin \/ Wait \/ Grace \/ CancelWipes
  BY <1>15, GotoFields, PumpFields DEF CloseStdin, Wait, Grace, CancelWipes
<1>16. CASE CheckDeadline \/ UseFinal \/ Verdict
  BY <1>16, GotoFields, ConcludeFields DEF CheckDeadline, UseFinal, Verdict
<1>17. CASE PushAudio \/ PollEvents \/ Finish \/ Cancel \/ Drop
  BY <1>17, BeginFields DEF PushAudio, PollEvents, Finish, Cancel, Drop
<1>18. CASE HelperChatters \/ (\E line \in Lines : HelperSays(line)) \/ (\E how \in {"exited", "failed"} : HelperExits(how))
  BY <1>18 DEF HelperSays, HelperChatters, HelperExits, Exited
<1>19. CASE Expire \/ UNCHANGED vars
  BY <1>19 DEF Expire, vars
<1> QED
  BY <1>1, <1>2, <1>3, <1>4, <1>5, <1>6, <1>7, <1>8, <1>9, <1>10, <1>11, <1>12, <1>13,
     <1>14, <1>15, <1>16, <1>17, <1>18, <1>19, <1>20, <1>21, Zenon
     DEF Next, Session, Pump, PumpFails, Write, Push, Ends, Helper

(* A call that came to a result does not start anything again.              *)
LEMMA FinishStaysOver ==
  ASSUME CallType, StateType, CallIsInPlace, HelperIsKnown, FinishIsOver, [Next]_vars
  PROVE  FinishIsOver'
<1> USE DEF session, helper, history, CallBecomes, FinishIsOver, At
<1>1. CASE Read \/ ReadEnds
  BY <1>1, ReadFields, GotoFields DEF Read, ReadEnds
<1>2. CASE PumpFails \/ WriteFails
  BY <1>2, PumpFailsMoves, BreakFields
     DEF WriteFails, CallIsInPlace, StageOfCall, LifecycleOfCall,
         Stage, Heading, Writing, Exited
<1>3. CASE Reap
  BY <1>3, ReapFields
     DEF Reap, CallIsInPlace, StageOfCall, LifecycleOfCall, Stage, Heading, Writing, Exited
<1>4. CASE WriteSucceeds \/ WriteWouldBlock
  BY <1>4, PumpFields
     DEF WriteSucceeds, WriteWouldBlock, CallIsInPlace, StageOfCall, LifecycleOfCall, Stage,
         Heading, Writing
<1>5. CASE PushStarts
  BY <1>5, EnsureFields, BreakFields
     DEF PushStarts, CallIsInPlace, StageOfCall, LifecycleOfCall, Stage, Heading, Writing
<1>6. CASE FinishStarts
  BY <1>6, EnsureFields, BreakFields
     DEF FinishStarts, FinishStep, CallIsInPlace, StageOfCall, LifecycleOfCall, Stage, Heading,
         Writing
<1>7. CASE CancelStarts
  BY <1>7, EnsureFields, BreakFields
     DEF CancelStarts, CallIsInPlace, StageOfCall, LifecycleOfCall, Stage, Heading, Writing
<1>8. CASE PushFlushes
  <2>1. FlushPendingChunk(FALSE, "store") /\ UNCHANGED <<lifecycle, child>>
    BY <1>8 DEF PushFlushes, CallIsInPlace, LifecycleOfCall
  <2>2. call'.name = call.name /\ call'.result = call.result
    BY <2>1, FlushFields
  <2> QED
    BY <1>8, <2>1, <2>2 DEF PushFlushes, CallIsInPlace, LifecycleOfCall
<1>9. CASE FinishFlushes
  <2>1. FlushPendingChunk(TRUE, "end") /\ UNCHANGED <<lifecycle, child>>
    BY <1>9 DEF FinishFlushes, FinishStep
  <2>2. call'.name = call.name /\ call'.result = call.result
    BY <2>1, FlushFields
  <2> QED
    BY <1>9, <2>1, <2>2 DEF FinishFlushes, FinishStep
<1>10. CASE PushStores
  BY <1>10, PumpFields
     DEF PushStores, CallIsInPlace, StageOfCall, LifecycleOfCall, Stage, Heading, Writing
<1>11. CASE PushReturns \/ PollTakes \/ CleanupProcess
  BY <1>11, ReturnFields
     DEF PushReturns, PollTakes, CleanupProcess, CallIsInPlace, StageOfCall, LifecycleOfCall,
         Stage, Heading, Writing
<1>12. CASE FinishEnds
  BY <1>12, WriteFields DEF FinishEnds
<1>13. CASE CancelTells
  BY <1>13, WriteFields
     DEF CancelTells, CallIsInPlace, StageOfCall, LifecycleOfCall, Stage, Heading, Writing
<1>14. CASE CloseStdin \/ Wait \/ Grace \/ CancelWipes
  BY <1>14, GotoFields, PumpFields
     DEF CloseStdin, Wait, Grace, CancelWipes, CallIsInPlace, StageOfCall, LifecycleOfCall,
         Stage, Heading, Writing
<1>15. CASE CheckDeadline \/ UseFinal \/ Verdict
  BY <1>15, GotoFields, ConcludeFields
     DEF CheckDeadline, UseFinal, Verdict, CallIsInPlace, StageOfCall, LifecycleOfCall, Stage,
         Heading, Writing
<1>16. CASE PushAudio \/ PollEvents \/ Finish \/ Cancel \/ Drop
  BY <1>16, BeginFields DEF PushAudio, PollEvents, Finish, Cancel, Drop
<1>17. CASE HelperChatters \/ (\E line \in Lines : HelperSays(line)) \/ (\E how \in {"exited", "failed"} : HelperExits(how))
  BY <1>17 DEF HelperSays, HelperChatters, HelperExits
<1>18. CASE Expire \/ UNCHANGED vars
  BY <1>18 DEF Expire, vars
<1> QED
  BY <1>1, <1>2, <1>3, <1>4, <1>5, <1>6, <1>7, <1>8, <1>9, <1>10, <1>11, <1>12, <1>13,
     <1>14, <1>15, <1>16, <1>17, <1>18, Zenon
     DEF Next, Session, Pump, PumpFails, Write, Push, Ends, Helper

(* An exit that was lost fails the pump that would note it again.           *)
LEMMA LostExitStep ==
  ASSUME CallType, StateType, CallIsInPlace, HelperIsKnown, LostExitFails, [Next]_vars
  PROVE  LostExitFails'
<1> USE DEF session, helper, history, CallBecomes, LostExitFails, ExitIsLost, Heading, Writing, At
<1>1. CASE Read \/ ReadEnds
  BY <1>1, ReadFields, GotoFields DEF Read, ReadEnds
<1>2. CASE PumpFails \/ WriteFails
  BY <1>2, PumpFailsMoves, BreakFields
     DEF WriteFails, CallIsInPlace, StageOfCall, Stage, Exited
<1>3. CASE Reap
  BY <1>3, ReapFields DEF Reap, CallIsInPlace, StageOfCall, Stage, Exited
<1>4. CASE WriteSucceeds \/ WriteWouldBlock
  BY <1>4, PumpFields DEF WriteSucceeds, WriteWouldBlock, CallIsInPlace, StageOfCall, Stage
<1>5. CASE PushStarts
  BY <1>5, EnsureFields, BreakFields DEF PushStarts, CallIsInPlace, StageOfCall, Stage
<1>6. CASE FinishStarts
  BY <1>6, EnsureFields, BreakFields
     DEF FinishStarts, FinishStep, CallIsInPlace, StageOfCall, Stage
<1>7. CASE CancelStarts
  BY <1>7, EnsureFields, BreakFields DEF CancelStarts, CallIsInPlace, StageOfCall, Stage
<1>8. CASE PushFlushes
  <2>1. FlushPendingChunk(FALSE, "store") /\ UNCHANGED <<child, known>>
    BY <1>8 DEF PushFlushes, CallIsInPlace, LifecycleOfCall
  <2>2. call'.name = call.name /\ (call'.pc = "store" \/ (call'.pc = "read" /\ call'.next = "write"))
    BY <2>1, FlushMoves
  <2> QED
    BY <1>8, <2>1, <2>2 DEF PushFlushes, CallIsInPlace, LifecycleOfCall
<1>9. CASE FinishFlushes
  <2>1. FlushPendingChunk(TRUE, "end") /\ UNCHANGED <<child, known>>
    BY <1>9 DEF FinishFlushes, FinishStep
  <2>2. call'.name = call.name /\ (call'.pc = "end" \/ (call'.pc = "read" /\ call'.next = "write"))
    BY <2>1, FlushMoves
  <2> QED
    BY <1>9, <2>1, <2>2 DEF FinishFlushes, FinishStep
<1>10. CASE PushStores
  BY <1>10, PumpFields DEF PushStores, CallIsInPlace, StageOfCall, Stage
<1>11. CASE PushReturns \/ PollTakes \/ CleanupProcess
  BY <1>11, ReturnFields
     DEF PushReturns, PollTakes, CleanupProcess, CallIsInPlace, StageOfCall, Stage
<1>12. CASE FinishEnds
  BY <1>12, WriteFields DEF FinishEnds
<1>13. CASE CancelTells
  BY <1>13, WriteFields DEF CancelTells, CallIsInPlace, StageOfCall, Stage
<1>14. CASE CloseStdin \/ Wait \/ Grace \/ CancelWipes
  BY <1>14, GotoFields, PumpFields
     DEF CloseStdin, Wait, Grace, CancelWipes, CallIsInPlace, StageOfCall, Stage
<1>15. CASE CheckDeadline \/ UseFinal \/ Verdict
  BY <1>15, GotoFields, ConcludeFields
     DEF CheckDeadline, UseFinal, Verdict, CallIsInPlace, StageOfCall, Stage
<1>16. CASE PushAudio \/ PollEvents \/ Finish \/ Cancel \/ Drop
  BY <1>16, BeginFields DEF PushAudio, PollEvents, Finish, Cancel, Drop
<1>17. CASE HelperChatters \/ (\E line \in Lines : HelperSays(line)) \/ (\E how \in {"exited", "failed"} : HelperExits(how))
  BY <1>17 DEF HelperSays, HelperChatters, HelperExits
<1>18. CASE Expire \/ UNCHANGED vars
  BY <1>18 DEF Expire, vars
<1> QED
  BY <1>1, <1>2, <1>3, <1>4, <1>5, <1>6, <1>7, <1>8, <1>9, <1>10, <1>11, <1>12, <1>13,
     <1>14, <1>15, <1>16, <1>17, <1>18, Zenon
     DEF Next, Session, Pump, PumpFails, Write, Push, Ends, Helper

(* A step that neither reads nor handles lines leaves them where they are.  *)
LEMMA TextStays ==
  ASSUME TextIsSomewhere, PumpReads,
         call'.got = call.got \/ (call.pc \notin {"read", "reap"} /\ call'.got = <<>>),
         UNCHANGED <<stdout, buffer, said, dropped>>,
         flags' \in {flags, flags \cup {"error"}}
  PROVE  TextIsSomewhere'
<1>1. call'.got = call.got
  BY DEF PumpReads
<1>2. flags \subseteq flags' /\ flags' \ {"error"} = flags \ {"error"}
      /\ ("closed" \in flags' => "closed" \in flags)
  OBVIOUS
<1> QED
  BY <1>1, <1>2 DEF TextIsSomewhere

(* No line of the helper gets lost, unless with the pipe it is in or by a   *)
(* pump that fails.                                                         *)
LEMMA TextStep ==
  ASSUME CallType, StateType, CallIsInPlace, PumpReads, HelperIsKnown,
         TextIsSomewhere, [Next]_vars
  PROVE  TextIsSomewhere'
<1>1. CASE Read
  <2>1. /\ stdout' = <<>> /\ call'.got = call.got \o stdout
        /\ UNCHANGED <<flags, buffer, said, dropped>>
    BY <1>1, ReadFields DEF Read, CallBecomes, session, history
  <2>2. Range(call'.got) = Range(call.got) \cup Range(stdout)
    BY <2>1, ConcatRange DEF StateType, DataType, CallType
  <2>3. Range(stdout') = {}
    BY <2>1, EmptyRange
  <2>4. "closed" \in flags \cup Range(buffer) => call'.got = <<>>
    <3> SUFFICES ASSUME "closed" \in flags \cup Range(buffer) PROVE call'.got = <<>>
      OBVIOUS
    <3>1. stdout = <<>> /\ call.got = <<>>
      BY DEF TextIsSomewhere
    <3> QED
      BY <2>1, <3>1
  <2> QED
    BY <2>1, <2>2, <2>3, <2>4 DEF TextIsSomewhere
<1>23. CASE ReadEnds
  BY <1>23, GotoFields, TextStays DEF ReadEnds, CallBecomes, session, helper, history
<1>2. CASE PumpFails
  <2>1. PICK handled, kept, lost \in Seq(Lines) : LinesPart(handled, kept, lost)
    BY <1>2, PumpFailsLines
  <2>2. call'.got = <<>> /\ Range(call'.got) = {} /\ UNCHANGED <<stdout, said>>
    BY <1>2, PumpFailsMoves, BreakFields, EmptyRange DEF CallBecomes
  <2>3. Range(buffer') = Range(kept)
    BY <2>1 DEF LinesPart
  <2>4. "closed" \in flags' \cup Range(buffer') => stdout' = <<>>
    BY <2>1, <2>2, <2>3 DEF LinesPart, TextIsSomewhere
  <2> QED
    BY <2>1, <2>2, <2>3, <2>4 DEF LinesPart, TextIsSomewhere
<1>4. CASE Reap
  <2>1. /\ flags' \in {flags \cup Range(ToHandle), flags \cup Range(ToHandle) \cup {"error"}}
        /\ \/ stdout' = stdout /\ dropped' = dropped
           \/ stdout' = <<>> /\ dropped' = dropped \cup Range(stdout)
        /\ buffer' = IF fed THEN <<>> ELSE buffer
        /\ UNCHANGED said
    BY <1>4 DEF Reap
  <2>2. call'.got = <<>> /\ Range(call'.got) = {}
    BY <1>4, ReapFields, EmptyRange DEF CallBecomes
  <2>3. /\ fed => Range(ToHandle) = Range(buffer) \cup Range(call.got) /\ Range(buffer') = {}
        /\ ~fed => Range(ToHandle) = {} /\ buffer' = buffer /\ Range(call.got) = {}
    BY <2>1, ToHandleType, EmptyRange DEF PumpReads
  <2>4. stdout' = <<>> => Range(stdout') = {}
    BY EmptyRange
  <2>5. "closed" \in flags' \cup Range(buffer') => stdout = <<>>
    BY <2>1, <2>3 DEF TextIsSomewhere
  <2> QED
    BY <2>1, <2>2, <2>3, <2>4, <2>5 DEF TextIsSomewhere
<1>5. CASE WriteFails
  BY <1>5, BreakFields, TextStays
     DEF WriteFails, CallBecomes,
         At, session, helper, history
<1>6. CASE WriteSucceeds \/ WriteWouldBlock
  BY <1>6, PumpFields, TextStays
     DEF WriteSucceeds, WriteWouldBlock, CallBecomes,
         At, session, helper, history
<1>7. CASE PushStarts
  BY <1>7, EnsureFields, BreakFields, TextStays
     DEF PushStarts, CallBecomes, HelperIsKnown,
         At, session, helper, history
<1>8. CASE FinishStarts
  BY <1>8, EnsureFields, BreakFields, TextStays
     DEF FinishStarts, FinishStep, CallBecomes, HelperIsKnown,
         At, session, helper, history
<1>9. CASE CancelStarts
  BY <1>9, EnsureFields, BreakFields, TextStays
     DEF CancelStarts, CallBecomes, HelperIsKnown,
         At, session, helper, history
<1>10. CASE PushFlushes
  <2>1. FlushPendingChunk(FALSE, "store") /\ UNCHANGED <<stdout, buffer, said, dropped, flags>>
    BY <1>10 DEF PushFlushes, helper, history
  <2> QED
    BY <2>1, FlushMoves, TextStays
<1>11. CASE FinishFlushes
  <2>1. FlushPendingChunk(TRUE, "end") /\ UNCHANGED <<stdout, buffer, said, dropped, flags>>
    BY <1>11 DEF FinishFlushes, helper, history
  <2> QED
    BY <2>1, FlushMoves, TextStays
<1>12. CASE PushStores
  BY <1>12, PumpFields, TextStays
     DEF PushStores, CallBecomes,
         At, session, helper, history
<1>13. CASE PushReturns \/ PollTakes
  BY <1>13, ReturnFields, TextStays
     DEF PushReturns, PollTakes, CallBecomes,
         At, session, helper, history
<1>14. CASE CleanupProcess
  <2>1. /\ call.pc = "cleanup" /\ call'.got = <<>> /\ stdout' = <<>>
        /\ dropped' = dropped \cup Range(stdout) /\ UNCHANGED <<buffer, said, flags>>
    BY <1>14, ReturnFields DEF CleanupProcess, CallBecomes, At, session
  <2>2. Range(stdout') = {} /\ call'.got = call.got
    BY <2>1, EmptyRange DEF PumpReads
  <2> QED
    BY <2>1, <2>2 DEF TextIsSomewhere
<1>15. CASE FinishEnds
  <2>1. call'.got = call.got /\ UNCHANGED <<stdout, buffer, said, dropped, flags>>
    BY <1>15, WriteFields DEF FinishEnds, CallBecomes, session, helper, history
  <2> QED
    BY <2>1, TextStays
<1>16. CASE CancelTells
  <2>1. call'.got = call.got /\ UNCHANGED <<stdout, buffer, said, dropped, flags>>
    BY <1>16, WriteFields DEF CancelTells, CallBecomes, session, helper, history
  <2> QED
    BY <2>1, TextStays
<1>17. CASE CloseStdin \/ Wait \/ Grace \/ CancelWipes
  BY <1>17, GotoFields, PumpFields, TextStays
     DEF CloseStdin, Wait, Grace, CancelWipes, CallBecomes,
         At, session, helper, history
<1>18. CASE CheckDeadline \/ UseFinal \/ Verdict
  BY <1>18, GotoFields, ConcludeFields, TextStays
     DEF CheckDeadline, UseFinal, Verdict, CallBecomes,
         At, session, helper, history
<1>19. CASE PushAudio \/ PollEvents \/ Finish \/ Cancel \/ Drop
  BY <1>19, BeginFields, TextStays
     DEF PushAudio, PollEvents, Finish, Cancel, Drop, CallIsInPlace, StageOfCall, CallBecomes,
         At, session, helper, history
<1>20. CASE \E line \in Lines : HelperSays(line)
  <2>1. PICK line \in Lines : HelperSays(line)
    BY <1>20
  <2>2. /\ stdout' = Append(stdout, line) /\ said' = Append(said, line)
        /\ child = "running" /\ "closed" \notin Range(said)
        /\ UNCHANGED <<call, buffer, flags, dropped>>
    BY <2>1 DEF HelperSays, session
  <2>3. Range(stdout') = Range(stdout) \cup {line} /\ Range(said') = Range(said) \cup {line}
    BY <2>2, AppendRange DEF StateType, DataType
  <2>4. "closed" \notin flags \cup Range(buffer) \cup Range(call.got)
    BY <2>2 DEF TextIsSomewhere
  <2> QED
    BY <2>2, <2>3, <2>4 DEF TextIsSomewhere
<1>21. CASE HelperChatters \/ \E how \in {"exited", "failed"} : HelperExits(how)
  BY <1>21, TextStays
     DEF HelperChatters, HelperExits, CallBecomes,
         At, session, helper, history
<1>22. CASE Expire \/ UNCHANGED vars
  BY <1>22, TextStays
     DEF Expire, vars, CallBecomes,
         At, session, helper, history
<1> QED
  BY <1>1, <1>2, <1>4, <1>5, <1>6, <1>7, <1>8, <1>9, <1>10, <1>11, <1>12, <1>13,
     <1>14, <1>15, <1>16, <1>17, <1>18, <1>19, <1>20, <1>21, <1>22, <1>23, Zenon
     DEF Next, Session, Pump, PumpFails, Write, Push, Ends, Helper

(* A wait ends with what it waited for, which is not taken back.            *)
LEMMA WaitStep ==
  ASSUME CallType, StateType, CallIsInPlace, HelperIsKnown, WaitHasEnded, [Next]_vars
  PROVE  WaitHasEnded'
<1> USE DEF session, helper, history, CallBecomes, WaitHasEnded, Heading, Writing, At
<1>1. CASE Read \/ ReadEnds
  BY <1>1, ReadFields, GotoFields DEF Read, ReadEnds, CallIsInPlace, StageOfCall, Stage
<1>2. CASE PumpFails \/ WriteFails
  BY <1>2, PumpFailsMoves, BreakFields
     DEF WriteFails, CallIsInPlace, StageOfCall, Stage
<1>3. CASE Reap
  BY <1>3, ReapFields DEF Reap, CallIsInPlace, StageOfCall, Stage
<1>4. CASE WriteSucceeds \/ WriteWouldBlock
  BY <1>4, PumpFields
     DEF WriteSucceeds, WriteWouldBlock, CallIsInPlace, StageOfCall, Stage, LineOfCall
<1>5. CASE PushStarts
  BY <1>5, EnsureFields, BreakFields DEF PushStarts, CallIsInPlace, StageOfCall, Stage
<1>6. CASE FinishStarts
  BY <1>6, EnsureFields, BreakFields
     DEF FinishStarts, FinishStep, CallIsInPlace, StageOfCall, Stage
<1>7. CASE CancelStarts
  BY <1>7, EnsureFields, BreakFields DEF CancelStarts, CallIsInPlace, StageOfCall, Stage
<1>8. CASE PushFlushes
  <2>1. FlushPendingChunk(FALSE, "store") /\ UNCHANGED <<flags, known>>
    BY <1>8 DEF PushFlushes, helper
  <2>2. call'.result = call.result /\ (call'.pc = "store" \/ (call'.pc = "read" /\ call'.next = "write"))
    BY <2>1, FlushMoves
  <2> QED
    BY <2>1, <2>2
<1>9. CASE FinishFlushes
  <2>1. FlushPendingChunk(TRUE, "end") /\ UNCHANGED <<flags, known>>
    BY <1>9 DEF FinishFlushes, helper
  <2>2. call'.result = call.result /\ (call'.pc = "end" \/ (call'.pc = "read" /\ call'.next = "write"))
    BY <2>1, FlushMoves
  <2> QED
    BY <2>1, <2>2
<1>10. CASE PushStores
  BY <1>10, PumpFields DEF PushStores, CallIsInPlace, StageOfCall, Stage
<1>11. CASE PushReturns \/ PollTakes \/ CleanupProcess
  BY <1>11, ReturnFields
     DEF PushReturns, PollTakes, CleanupProcess, CallIsInPlace, StageOfCall, Stage
<1>12. CASE FinishEnds
  BY <1>12, WriteFields DEF FinishEnds, CallIsInPlace, StageOfCall, Stage
<1>13. CASE CancelTells
  BY <1>13, WriteFields DEF CancelTells, CallIsInPlace, StageOfCall, Stage
<1>14. CASE CloseStdin \/ Wait \/ Grace \/ CancelWipes
  BY <1>14, GotoFields, PumpFields
     DEF CloseStdin, Wait, Grace, CancelWipes, CallIsInPlace, StageOfCall, Stage
<1>15. CASE CheckDeadline \/ UseFinal \/ Verdict
  BY <1>15, GotoFields, ConcludeFields
     DEF CheckDeadline, UseFinal, Verdict, CallIsInPlace, StageOfCall, Stage
<1>16. CASE PushAudio \/ PollEvents \/ Finish \/ Cancel \/ Drop
  BY <1>16, BeginFields
     DEF PushAudio, PollEvents, Finish, Cancel, Drop, CallIsInPlace, StageOfCall, Stage
<1>17. CASE HelperChatters \/ (\E line \in Lines : HelperSays(line)) \/ (\E how \in {"exited", "failed"} : HelperExits(how))
  BY <1>17 DEF HelperSays, HelperChatters, HelperExits, CallIsInPlace, StageOfCall, Stage
<1>18. CASE Expire \/ UNCHANGED vars
  BY <1>18 DEF Expire, vars, CallIsInPlace, StageOfCall, Stage
<1> QED
  BY <1>1, <1>2, <1>3, <1>4, <1>5, <1>6, <1>7, <1>8, <1>9, <1>10, <1>11, <1>12, <1>13,
     <1>14, <1>15, <1>16, <1>17, <1>18, Zenon
     DEF Next, Session, Pump, PumpFails, Write, Push, Ends, Helper

(* A finish that says it went well has a text or an error to show for it.   *)
LEMMA UsedStep ==
  ASSUME CallType, StateType, CallIsInPlace, WaitHasEnded, TextWasUsed, [Next]_vars
  PROVE  TextWasUsed'
<1> USE DEF session, helper, history, CallBecomes, TextWasUsed, At
<1>1. CASE Read \/ ReadEnds
  BY <1>1, ReadFields, GotoFields DEF Read, ReadEnds
<1>2. CASE PumpFails \/ WriteFails
  BY <1>2, PumpFailsMoves, BreakFields DEF WriteFails
<1>3. CASE Reap
  BY <1>3, ReapFields DEF Reap
<1>4. CASE WriteSucceeds \/ WriteWouldBlock
  BY <1>4, PumpFields DEF WriteSucceeds, WriteWouldBlock
<1>5. CASE PushStarts
  BY <1>5, EnsureFields, BreakFields DEF PushStarts
<1>6. CASE FinishStarts
  BY <1>6, EnsureFields, BreakFields DEF FinishStarts, FinishStep
<1>7. CASE CancelStarts
  BY <1>7, EnsureFields, BreakFields DEF CancelStarts
<1>8. CASE PushFlushes
  <2>1. FlushPendingChunk(FALSE, "store") /\ UNCHANGED <<flags, known>>
    BY <1>8 DEF PushFlushes, helper
  <2>2. call'.result = call.result /\ (call'.pc = "store" \/ (call'.pc = "read" /\ call'.next = "write"))
    BY <2>1, FlushMoves
  <2> QED
    BY <2>1, <2>2
<1>9. CASE FinishFlushes
  <2>1. FlushPendingChunk(TRUE, "end") /\ UNCHANGED <<flags, known>>
    BY <1>9 DEF FinishFlushes, helper
  <2>2. call'.result = call.result /\ (call'.pc = "end" \/ (call'.pc = "read" /\ call'.next = "write"))
    BY <2>1, FlushMoves
  <2> QED
    BY <2>1, <2>2
<1>10. CASE PushStores
  BY <1>10, PumpFields DEF PushStores
<1>11. CASE PushReturns \/ PollTakes \/ CleanupProcess
  BY <1>11, ReturnFields DEF PushReturns, PollTakes, CleanupProcess
<1>12. CASE FinishEnds
  BY <1>12, WriteFields DEF FinishEnds
<1>13. CASE CancelTells
  BY <1>13, WriteFields DEF CancelTells
<1>14. CASE CloseStdin \/ Wait \/ Grace \/ CancelWipes
  BY <1>14, GotoFields, PumpFields DEF CloseStdin, Wait, Grace, CancelWipes
<1>15. CASE CheckDeadline \/ UseFinal \/ Verdict
  BY <1>15, GotoFields, ConcludeFields
     DEF CheckDeadline, UseFinal, Verdict, WaitHasEnded, Heading, CallType
<1>16. CASE PushAudio \/ PollEvents \/ Finish \/ Cancel \/ Drop
  BY <1>16, BeginFields DEF PushAudio, PollEvents, Finish, Cancel, Drop
<1>17. CASE HelperChatters \/ (\E line \in Lines : HelperSays(line)) \/ (\E how \in {"exited", "failed"} : HelperExits(how))
  BY <1>17 DEF HelperSays, HelperChatters, HelperExits
<1>18. CASE Expire \/ UNCHANGED vars
  BY <1>18 DEF Expire, vars
<1> QED
  BY <1>1, <1>2, <1>3, <1>4, <1>5, <1>6, <1>7, <1>8, <1>9, <1>10, <1>11, <1>12, <1>13,
     <1>14, <1>15, <1>16, <1>17, <1>18, Zenon
     DEF Next, Session, Pump, PumpFails, Write, Push, Ends, Helper

(* A finish that has no text to show was given none that could be used.     *)
LEMMA NoTextStep ==
  ASSUME CallType, StateType, CallIsInPlace, PumpReads, HelperIsKnown, FinishIsOver,
         TextIsSomewhere, WaitHasEnded, NoTextIsOver, [Next]_vars
  PROVE  NoTextIsOver'
<1> USE DEF session, helper, history, CallBecomes, NoTextIsOver, At
<1>1. CASE Read \/ ReadEnds
  BY <1>1, ReadFields, GotoFields DEF Read, ReadEnds, FinishIsOver, HelperIsKnown
<1>2. CASE PumpFails
  <2>1. PICK handled, kept, lost \in Seq(Lines) : LinesPart(handled, kept, lost)
    BY <1>2, PumpFailsLines
  <2>2. call.pc = "reap" /\ Breaks /\ UNCHANGED <<said, known>>
    BY <1>2, PumpFailsMoves
  <2>3. call'.result = "noText" => call.result = "noText" /\ call.name # "finish"
    BY <2>2, BreakFields DEF FinishIsOver
  <2>4. call.result = "noText" => ~fed
    BY <2>2 DEF FinishIsOver, HelperIsKnown
  <2>5. call'.name # "finish"
    BY <2>2, BreakFields
  <2> QED
    BY <2>1, <2>2, <2>3, <2>4, <2>5 DEF LinesPart
<1>3. CASE WriteFails
  BY <1>3, BreakFields
     DEF WriteFails, FinishIsOver, CallIsInPlace, StageOfCall, Stage, Heading, Writing
<1>4. CASE Reap
  BY <1>4, ReapFields
     DEF Reap, FinishIsOver, HelperIsKnown, CallIsInPlace, StageOfCall, Stage, Heading, Writing
<1>5. CASE WriteSucceeds \/ WriteWouldBlock
  BY <1>5, PumpFields
     DEF WriteSucceeds, WriteWouldBlock, FinishIsOver, CallIsInPlace, StageOfCall, Stage,
         Heading, Writing
<1>6. CASE PushStarts
  BY <1>6, EnsureFields, BreakFields DEF PushStarts, FinishIsOver
<1>7. CASE FinishStarts
  BY <1>7, EnsureFields, BreakFields DEF FinishStarts, FinishStep, FinishIsOver
<1>8. CASE CancelStarts
  BY <1>8, EnsureFields, BreakFields DEF CancelStarts, FinishIsOver
<1>9. CASE PushFlushes
  <2>1. FlushPendingChunk(FALSE, "store") /\ UNCHANGED <<said, dropped, buffer, flags, known>>
    BY <1>9 DEF PushFlushes, helper, history
  <2>2. call'.name = call.name /\ call'.result = call.result
    BY <2>1, FlushMoves
  <2> QED
    BY <2>1, <2>2
<1>10. CASE FinishFlushes
  <2>1. FlushPendingChunk(TRUE, "end") /\ UNCHANGED <<said, dropped, buffer, flags, known>>
    BY <1>10 DEF FinishFlushes, helper, history
  <2>2. call'.name = call.name /\ call'.result = call.result
    BY <2>1, FlushMoves
  <2> QED
    BY <2>1, <2>2
<1>11. CASE PushStores
  BY <1>11, PumpFields DEF PushStores, FinishIsOver
<1>12. CASE PushReturns \/ PollTakes \/ CleanupProcess
  BY <1>12, ReturnFields
     DEF PushReturns, PollTakes, CleanupProcess, FinishIsOver, CallIsInPlace, StageOfCall,
         Stage, Heading, Writing
<1>13. CASE FinishEnds
  BY <1>13, WriteFields DEF FinishEnds, FinishIsOver
<1>14. CASE CancelTells
  BY <1>14, WriteFields DEF CancelTells, FinishIsOver
<1>15. CASE CloseStdin \/ Wait \/ Grace \/ CancelWipes
  BY <1>15, GotoFields, PumpFields DEF CloseStdin, Wait, Grace, CancelWipes, FinishIsOver
<1>16. CASE Verdict
  <2>1. call.pc = "verdict" /\ UNCHANGED <<said, dropped, buffer, known>> /\ flags \subseteq flags'
    BY <1>16 DEF Verdict, helper
  <2>2. call'.result = "noText" => flags \cap {"final", "error"} = {}
    BY <1>16, ConcludeFields DEF Verdict
  <2>3. call.name = "finish" /\ lifecycle = "finished" /\ ("closed" \in flags \/ known)
    BY <2>1 DEF WaitHasEnded, CallIsInPlace, StageOfCall, LifecycleOfCall, Stage, Heading, Writing
  <2>4. stdout = <<>> /\ Range(stdout) = {}
    BY <2>3, EmptyRange DEF TextIsSomewhere, HelperIsKnown
  <2>5. call.got = <<>> /\ Range(call.got) = {}
    BY <2>1, EmptyRange DEF PumpReads
  <2>6. "final" \in Range(said) => "final" \in dropped \cup Range(buffer) \cup flags
    BY <2>1, <2>3, <2>4, <2>5 DEF TextIsSomewhere
  <2> QED
    BY <2>1, <2>2, <2>3, <2>6
<1>17. CASE CheckDeadline \/ UseFinal
  BY <1>17, GotoFields, ConcludeFields DEF CheckDeadline, UseFinal, FinishIsOver
<1>18. CASE PushAudio \/ PollEvents \/ Finish \/ Cancel \/ Drop
  BY <1>18, BeginFields DEF PushAudio, PollEvents, Finish, Cancel, Drop, FinishIsOver
<1>19. CASE \E line \in Lines : HelperSays(line)
  <2>1. PICK line \in Lines : HelperSays(line)
    BY <1>19
  <2>2. child = "running" /\ "closed" \notin Range(said) /\ UNCHANGED call
    BY <2>1 DEF HelperSays
  <2>3. "closed" \notin flags /\ ~known
    BY <2>2 DEF TextIsSomewhere, HelperIsKnown
  <2>4. call.result # "noText"
    BY <2>2, <2>3 DEF FinishIsOver
  <2> QED
    BY <2>2, <2>4
<1>20. CASE HelperChatters \/ \E how \in {"exited", "failed"} : HelperExits(how)
  BY <1>20 DEF HelperChatters, HelperExits, FinishIsOver
<1>21. CASE Expire \/ UNCHANGED vars
  BY <1>21 DEF Expire, vars, FinishIsOver
<1> QED
  BY <1>1, <1>2, <1>3, <1>4, <1>5, <1>6, <1>7, <1>8, <1>9, <1>10, <1>11, <1>12, <1>13,
     <1>14, <1>15, <1>16, <1>17, <1>18, <1>19, <1>20, <1>21, Zenon
     DEF Next, Session, Pump, PumpFails, Write, Push, Ends, Helper

(* What a pump queues is never Completed.                                   *)
LEMMA PumpQueuesNoEnd ==
  ASSUME NEW old \in Seq(Events), "completed" \notin Range(old), NEW lines \in Seq(Lines),
         NEW more \in {<<>>, <<"error">>}
  PROVE  /\ "completed" \notin Range(old \o Queued(lines))
         /\ "completed" \notin Range(old \o more)
         /\ "completed" \notin Range((old \o Queued(lines)) \o more)
<1> DEFINE q == Queued(lines)
<1>1. q \in Seq(Events) /\ "completed" \notin Range(q)
  <2> DEFINE S == {"final", "error"}
  <2>1. q \in Seq(S) /\ S \subseteq Events /\ "completed" \notin S
    BY QueuedType DEF Events
  <2> HIDE DEF q, S
  <2>2. q \in Seq(Events) /\ Range(q) \subseteq S
    BY <2>1, TypedRange
  <2> QED
    BY <2>1, <2>2
<1>2. more \in Seq(Events) /\ "completed" \notin Range(more)
  <2>1. CASE more = <<>>
    BY <2>1, EmptyRange
  <2>2. CASE more = <<"error">>
    <3>1. <<"error">> \in Seq({"error"}) /\ "error" \in Events
      BY DEF Events
    <3>2. Range(<<"error">>) \subseteq {"error"}
      BY <3>1, TypedRange
    <3> QED
      BY <2>2, <3>1, <3>2
  <2> QED
    BY <2>1, <2>2
<1> HIDE DEF q
<1>3. old \o q \in Seq(Events) /\ Range(old \o q) = Range(old) \cup Range(q)
  BY <1>1, ConcatRange
<1>4. Range(old \o more) = Range(old) \cup Range(more)
  BY <1>2, ConcatRange
<1>5. Range((old \o q) \o more) = Range(old \o q) \cup Range(more)
  <2> DEFINE u == old \o q
  <2>1. u \in Seq(Events)
    BY <1>3
  <2> HIDE DEF u
  <2>2. Range(u \o more) = Range(u) \cup Range(more)
    BY <1>2, <2>1, ConcatRange
  <2> QED
    BY <2>2 DEF u
<1>6. /\ "completed" \notin Range(old \o q) /\ "completed" \notin Range(old \o more)
      /\ "completed" \notin Range((old \o q) \o more)
  BY <1>1, <1>2, <1>3, <1>4, <1>5
<1> QED
  BY <1>6 DEF q

(* The first Completed is queued behind everything else.                    *)
LEMMA CompletedGoesLast ==
  ASSUME NEW before \in Seq(Events), "completed" \notin Range(before), completions = 0,
         QueueCompleted(before)
  PROVE  completions' = 1 /\ NothingFollows'
<1>1. completions' = 1 /\ events' = before \o <<"completed">>
  BY DEF QueueCompleted
<1>2. events' = Append(before, "completed")
  BY <1>1
<1>3. Range(before) = {before[i] : i \in 1..Len(before)}
  BY SeqRange
<1>4. /\ Len(events') = Len(before) + 1 /\ Len(before) \in Nat
      /\ \A i \in 1..Len(before) : events'[i] = before[i]
  BY <1>2
<1> QED
  BY <1>1, <1>3, <1>4 DEF NothingFollows

(* Completed is queued once, when nothing is left that could queue more.    *)
LEMMA CompletedStep ==
  ASSUME CallType, StateType, CallIsInPlace, HelperIsKnown, CompletedIsLast, [Next]_vars
  PROVE  CompletedIsLast'
<1> USE DEF session, helper, history, CallBecomes, At
<1>1. CASE Read
  <2>1. /\ call'.name = call.name /\ call'.pc = "read" /\ call.pc = "read"
        /\ UNCHANGED <<events, completions, child, lifecycle>>
    BY <1>1, ReadFields DEF Read
  <2> QED
    BY <2>1 DEF CompletedIsLast, NothingFollows
<1>3. CASE ReadEnds
  <2>1. /\ call'.name = call.name /\ call'.pc = "reap" /\ call.pc = "read"
        /\ UNCHANGED <<events, completions, child, lifecycle>>
    BY <1>3, GotoFields DEF ReadEnds
  <2> QED
    BY <2>1 DEF CompletedIsLast, NothingFollows
<1>2. CASE PumpFails
  <2>1. PICK handled, kept, lost \in Seq(Lines) : LinesPart(handled, kept, lost)
    BY <1>2, PumpFailsLines
  <2>2. /\ call.pc = "reap" /\ Breaks /\ UNCHANGED <<completions, lifecycle>>
        /\ child = "none" => child' = "none"
    BY <1>2, PumpFailsMoves DEF Exited
  <2>3. completions = 0 => "completed" \notin Range(events')
    BY <2>1, PumpQueuesNoEnd DEF LinesPart, StateType, DataType, CompletedIsLast
  <2>4. completions = 1 /\ call.name # "cancel" => child = "none" /\ events' = events
    BY <2>1, <2>2 DEF LinesPart, CompletedIsLast, HelperIsKnown
  <2>5. call'.name = IF call.name = "cancel" THEN "cancel" ELSE "free"
    BY <2>2, BreakFields
  <2>6. call'.pc # "cleanup"
    BY <2>2, BreakFields
  <2>7. CASE completions = 0
    BY <2>2, <2>3, <2>7 DEF CompletedIsLast
  <2>8. CASE completions = 1
    BY <2>2, <2>4, <2>5, <2>6, <2>8 DEF CompletedIsLast, NothingFollows
  <2> QED
    BY <2>7, <2>8 DEF StateType, ScalarType
<1>4. CASE Reap
  <2>1. /\ call.pc = "reap" /\ UNCHANGED <<completions, lifecycle>> /\ (child = "none" => child' = "none")
    BY <1>4 DEF Reap, Exited
  <2>6. PICK more \in {<<>>, <<"error">>} : /\ events' = (events \o Queued(ToHandle)) \o more
                                            /\ ~Exited => more = <<>>
    BY <1>4 DEF Reap
  <2>2. call'.name = call.name
    BY <1>4, ReapFields
  <2>3. completions = 0 => "completed" \notin Range(events')
    <3> SUFFICES ASSUME completions = 0 PROVE "completed" \notin Range(events')
      OBVIOUS
    <3>1. events \in Seq(Events) /\ "completed" \notin Range(events)
      BY DEF StateType, DataType, CompletedIsLast
    <3>2. ToHandle \in Seq(Lines)
      BY ToHandleType
    <3>3. "completed" \notin Range((events \o Queued(ToHandle)) \o more)
      BY <3>1, <3>2, PumpQueuesNoEnd
    <3> QED
      BY <2>6, <3>3, Zenon
  <2>4. CASE completions = 1 /\ call.name # "cancel"
    <3>1. child = "none" /\ ToHandle = <<>> /\ ~Exited
      BY <2>1, <2>4, ToHandleType DEF CompletedIsLast, HelperIsKnown, Exited
    <3>4. Queued(ToHandle) = <<>> /\ more = <<>>
      BY <2>6, <3>1, QueuedNothing, Zenon
    <3>2. events' = (events \o <<>>) \o <<>>
      BY <2>6, <3>4, Zenon
    <3>3. events' = events
      BY <3>2 DEF StateType, DataType
    <3> QED
      BY <2>1, <2>2, <2>4, <3>1, <3>3 DEF CompletedIsLast, NothingFollows
  <2>5. CASE completions = 1 /\ call.name = "cancel"
    <3>1. call'.pc # "cleanup"
      BY <1>4, <2>1, ReapFields
         DEF CallIsInPlace, StageOfCall, EndsAreDirect, Stage, Heading, Writing
    <3> QED
      BY <2>1, <2>2, <2>5, <3>1 DEF CompletedIsLast
  <2> QED
    BY <2>1, <2>3, <2>4, <2>5 DEF CompletedIsLast, StateType, ScalarType
<1>5. CASE WriteSucceeds
  BY <1>5, PumpFields
     DEF WriteSucceeds, CompletedIsLast, NothingFollows, CallIsInPlace, StageOfCall,
         LifecycleOfCall, Stage, Heading, Writing
<1>6. CASE WriteFails
  BY <1>6, BreakFields
     DEF WriteFails, CompletedIsLast, NothingFollows, CallIsInPlace, StageOfCall,
         LifecycleOfCall, Stage, Heading, Writing
<1>7. CASE WriteWouldBlock
  BY <1>7, PumpFields
     DEF WriteWouldBlock, CompletedIsLast, NothingFollows, CallIsInPlace, StageOfCall,
         LifecycleOfCall, Stage, Heading, Writing
<1>8. CASE PushStarts
  BY <1>8, EnsureFields, BreakFields
     DEF PushStarts, CompletedIsLast, NothingFollows, CallIsInPlace, StageOfCall,
         LifecycleOfCall, Stage, Heading, Writing
<1>9. CASE PushFlushes
  <2>1. FlushPendingChunk(FALSE, "store") /\ UNCHANGED <<events, completions, child, lifecycle>> /\ call.pc = "flush"
    BY <1>9 DEF PushFlushes, helper, history, At
  <2>2. UNCHANGED call.name
    BY <2>1, FlushMoves
  <2> QED
    BY <1>9, <2>1, <2>2 DEF CompletedIsLast, NothingFollows, FinishStep, PushFlushes
<1>10. CASE PushStores
  BY <1>10, PumpFields
     DEF PushStores, CompletedIsLast, NothingFollows, CallIsInPlace, StageOfCall,
         LifecycleOfCall, Stage, Heading, Writing
<1>11. CASE PushReturns
  BY <1>11, ReturnFields
     DEF PushReturns, CompletedIsLast, NothingFollows, CallIsInPlace, StageOfCall,
         LifecycleOfCall, Stage, Heading, Writing
<1>12. CASE PollTakes
  <2>1. /\ events' = <<>> /\ call.pc = "take" /\ call.name = "poll" /\ call'.name = "free"
        /\ UNCHANGED <<completions, lifecycle, child>>
    BY <1>12, ReturnFields
       DEF PollTakes, helper, CallIsInPlace, StageOfCall, Stage, Heading, Writing
  <2>2. Range(events') = {} /\ Len(events') = 0
    BY <2>1, EmptyRange
  <2> QED
    BY <2>1, <2>2 DEF CompletedIsLast, NothingFollows
<1>13. CASE FinishStarts
  BY <1>13, EnsureFields, BreakFields
     DEF FinishStarts, FinishStep, CompletedIsLast, NothingFollows, CallIsInPlace, StageOfCall,
         LifecycleOfCall, Stage, Heading, Writing
<1>14. CASE FinishFlushes
  <2>1. FlushPendingChunk(TRUE, "end") /\ UNCHANGED <<events, completions, child, lifecycle>> /\ call.pc = "flush"
    BY <1>14 DEF FinishFlushes, helper, history, At
  <2>2. UNCHANGED call.name
    BY <2>1, FlushMoves
  <2> QED
    BY <1>14, <2>1, <2>2 DEF CompletedIsLast, NothingFollows, FinishStep, FinishFlushes
<1>15. CASE FinishEnds
  BY <1>15, WriteFields
     DEF FinishEnds, CompletedIsLast, NothingFollows, CallIsInPlace, StageOfCall,
         LifecycleOfCall, Stage, Heading, Writing
<1>16. CASE CloseStdin
  BY <1>16, GotoFields
     DEF CloseStdin, CompletedIsLast, NothingFollows, CallIsInPlace, StageOfCall,
         LifecycleOfCall, Stage, Heading, Writing
<1>17. CASE Wait
  BY <1>17, GotoFields, PumpFields
     DEF Wait, CompletedIsLast, NothingFollows, CallIsInPlace, StageOfCall, LifecycleOfCall,
         Stage, Heading, Writing
<1>18. CASE CheckDeadline
  <2>1. /\ call.pc = "deadline" /\ UNCHANGED <<lifecycle, child>>
        /\ call.name = "finish" /\ lifecycle = "finished"
    BY <1>18
       DEF CheckDeadline, helper, CallIsInPlace, StageOfCall, LifecycleOfCall, Stage, Heading,
           Writing
  <2>2. completions = 0 /\ "completed" \notin Range(events)
    BY <2>1 DEF CompletedIsLast, StateType, ScalarType
  <2>3. CASE late
    <3>1. QueueCompleted(Append(events, "error")) /\ call'.name = "finish" /\ call'.pc = "cleanup"
      BY <1>18, <2>1, <2>3, ConcludeFields DEF CheckDeadline
    <3>2. Append(events, "error") \in Seq(Events) /\ "completed" \notin Range(Append(events, "error"))
      <4>1. events \in Seq(Events) /\ "error" \in Events
        BY DEF StateType, DataType, Events
      <4> QED
        BY <2>2, <4>1, AppendRange
    <3>3. completions' = 1 /\ NothingFollows'
      BY <2>2, <3>1, <3>2, CompletedGoesLast
    <3> QED
      BY <2>1, <3>1, <3>3 DEF CompletedIsLast
  <2>4. CASE ~late
    BY <1>18, <2>1, <2>2, <2>4 DEF CheckDeadline, CompletedIsLast
  <2> QED
    BY <2>3, <2>4
<1>19. CASE Grace
  BY <1>19, PumpFields
     DEF Grace, CompletedIsLast, NothingFollows, CallIsInPlace, StageOfCall, LifecycleOfCall,
         Stage, Heading, Writing
<1>20. CASE UseFinal
  <2>1. /\ call.pc = "used" /\ UNCHANGED <<lifecycle, child>>
        /\ call.name = "finish" /\ lifecycle = "finished"
    BY <1>20
       DEF UseFinal, helper, CallIsInPlace, StageOfCall, LifecycleOfCall, Stage, Heading, Writing
  <2>2. completions = 0 /\ "completed" \notin Range(events)
    BY <2>1 DEF CompletedIsLast, StateType, ScalarType
  <2>3. QueueCompleted(events) /\ call'.name = "finish" /\ call'.pc = "cleanup"
    BY <1>20, <2>1, ConcludeFields DEF UseFinal
  <2>4. completions' = 1 /\ NothingFollows'
    BY <2>2, <2>3, CompletedGoesLast DEF StateType, DataType
  <2> QED
    BY <2>1, <2>3, <2>4 DEF CompletedIsLast
<1>21. CASE Verdict
  <2>1. /\ call.pc = "verdict" /\ UNCHANGED <<lifecycle, child>>
        /\ call.name = "finish" /\ lifecycle = "finished"
    BY <1>21
       DEF Verdict, helper, CallIsInPlace, StageOfCall, LifecycleOfCall, Stage, Heading, Writing
  <2>2. completions = 0 /\ "completed" \notin Range(events)
    BY <2>1 DEF CompletedIsLast, StateType, ScalarType
  <2> DEFINE more == IF flags \cap {"final", "error"} = {} THEN <<"error">> ELSE <<>>
             queued == events \o more
  <2>3. QueueCompleted(queued) /\ call'.name = "finish" /\ call'.pc = "cleanup"
    <3>1. QueueCompleted(queued) /\ \E result : Concludes(result)
      BY <1>21 DEF Verdict
    <3> QED
      BY <2>1, <3>1, ConcludeFields
  <2>4. more \in {<<>>, <<"error">>} /\ <<>> \in Seq(Lines) /\ events \in Seq(Events)
    BY DEF StateType, DataType
  <2> HIDE DEF more
  <2>5. "completed" \notin Range(queued) /\ queued \in Seq(Events)
    BY <2>2, <2>4, PumpQueuesNoEnd, EventsType
  <2> HIDE DEF queued
  <2>6. completions' = 1 /\ NothingFollows'
    BY <2>2, <2>3, <2>5, CompletedGoesLast
  <2> QED
    BY <2>1, <2>3, <2>6 DEF CompletedIsLast
<1>22. CASE CancelStarts
  BY <1>22, EnsureFields, BreakFields
     DEF CancelStarts, CompletedIsLast, NothingFollows, CallIsInPlace, StageOfCall,
         LifecycleOfCall, Stage, Heading, Writing
<1>23. CASE CancelTells
  BY <1>23, WriteFields
     DEF CancelTells, CompletedIsLast, NothingFollows, CallIsInPlace, StageOfCall,
         LifecycleOfCall, Stage, Heading, Writing
<1>24. CASE CancelWipes
  <2>1. /\ QueueCompleted(<<>>) /\ call.pc = "wipe" /\ call.name = "cancel" /\ lifecycle' = "cancelled"
        /\ call'.name = "cancel" /\ call'.pc = "cleanup"
    BY <1>24, GotoFields
       DEF CancelWipes, CallIsInPlace, StageOfCall, LifecycleOfCall, Stage, Heading, Writing
  <2>2. CASE completions = 0
    <3>1. <<>> \in Seq(Events) /\ "completed" \notin Range(<<>>)
      BY EmptyRange
    <3>2. completions' = 1 /\ NothingFollows'
      BY <2>1, <2>2, <3>1, CompletedGoesLast
    <3> QED
      BY <2>1, <3>2 DEF CompletedIsLast
  <2>3. CASE completions = 1
    <3>1. completions' = 1 /\ events' = <<>> \o <<>>
      BY <2>1, <2>3 DEF QueueCompleted
    <3>2. Len(events') = 0
      BY <3>1
    <3> QED
      BY <2>1, <3>1, <3>2 DEF CompletedIsLast, NothingFollows
  <2> QED
    BY <2>2, <2>3 DEF StateType, ScalarType
<1>25. CASE CleanupProcess
  BY <1>25, ReturnFields
     DEF CleanupProcess, CompletedIsLast, NothingFollows, CallIsInPlace, StageOfCall,
         LifecycleOfCall, Stage, Heading, Writing
<1>26. CASE PushAudio
  BY <1>26, BeginFields
     DEF PushAudio, CompletedIsLast, NothingFollows, CallIsInPlace, StageOfCall, LifecycleOfCall,
         Stage, Heading, Writing
<1>27. CASE PollEvents
  BY <1>27, BeginFields
     DEF PollEvents, CompletedIsLast, NothingFollows, CallIsInPlace, StageOfCall,
         LifecycleOfCall, Stage, Heading, Writing
<1>28. CASE Finish
  BY <1>28, BeginFields
     DEF Finish, CompletedIsLast, NothingFollows, CallIsInPlace, StageOfCall, LifecycleOfCall,
         Stage, Heading, Writing
<1>29. CASE Cancel
  BY <1>29, BeginFields
     DEF Cancel, CompletedIsLast, NothingFollows, CallIsInPlace, StageOfCall, LifecycleOfCall,
         Stage, Heading, Writing
<1>30. CASE Drop
  BY <1>30, BeginFields
     DEF Drop, CompletedIsLast, NothingFollows, CallIsInPlace, StageOfCall, LifecycleOfCall,
         Stage, Heading, Writing
<1>31. CASE \E line \in Lines : HelperSays(line)
  BY <1>31
     DEF HelperSays, CompletedIsLast, NothingFollows, CallIsInPlace, StageOfCall,
         LifecycleOfCall, Stage, Heading, Writing
<1>32. CASE HelperChatters \/ \E how \in {"exited", "failed"} : HelperExits(how)
  BY <1>32
     DEF HelperChatters, HelperExits, CompletedIsLast, NothingFollows, CallIsInPlace, StageOfCall,
         LifecycleOfCall, Stage, Heading, Writing
<1>33. CASE Expire
  BY <1>33
     DEF Expire, CompletedIsLast, NothingFollows, CallIsInPlace, StageOfCall, LifecycleOfCall,
         Stage, Heading, Writing
<1>34. CASE UNCHANGED vars
  BY <1>34
     DEF vars, CompletedIsLast, NothingFollows, CallIsInPlace, StageOfCall, LifecycleOfCall,
         Stage, Heading, Writing
<1> QED
  BY <1>1, <1>2, <1>3, <1>4, <1>5, <1>6, <1>7, <1>8, <1>9, <1>10,
     <1>11, <1>12, <1>13, <1>14, <1>15, <1>16, <1>17, <1>18, <1>19, <1>20,
     <1>21, <1>22, <1>23, <1>24, <1>25, <1>26, <1>27, <1>28, <1>29, <1>30,
     <1>31, <1>32, <1>33, <1>34, Zenon
     DEF Next, Session, Pump, PumpFails, Write, Push, Ends, Helper

(* The stages at both ends are gone to directly.                            *)
LEMMA EndsStep ==
  ASSUME CallType, EndsAreDirect, [Next]_vars
  PROVE  EndsAreDirect'
<1> USE DEF CallBecomes, EndsAreDirect
<1>1. CASE Read \/ ReadEnds
  BY <1>1, ReadFields, GotoFields DEF Read, ReadEnds
<1>2. CASE PumpFails \/ WriteFails
  BY <1>2, PumpFailsMoves, BreakFields DEF WriteFails
<1>3. CASE Reap
  BY <1>3, ReapFields DEF Reap
<1>4. CASE WriteSucceeds \/ WriteWouldBlock
  BY <1>4, PumpFields DEF WriteSucceeds, WriteWouldBlock
<1>5. CASE PushStarts
  BY <1>5, EnsureFields, BreakFields DEF PushStarts
<1>6. CASE FinishStarts
  BY <1>6, EnsureFields, BreakFields DEF FinishStarts, FinishStep
<1>7. CASE CancelStarts
  <2>1. EnsureStarted("tell")
    BY <1>7 DEF CancelStarts
  <2>2. \/ CallBecomes(call.name, "tell", call.next, call.line, call.after, call.got, call.result)
        \/ Breaks
    <3> HIDE DEF CallBecomes
    <3> QED
      BY <2>1, EnsureFields
  <2>3. CASE Breaks
    BY <2>3, BreakFields
  <2>4. CASE ~Breaks
    BY <2>2, <2>4
  <2> QED
    BY <2>3, <2>4
<1>8. CASE PushFlushes
  <2>1. FlushPendingChunk(FALSE, "store")
    BY <1>8 DEF PushFlushes
  <2>2. \/ CallBecomes(call.name, "store", call.next, call.line, call.after, call.got, call.result)
        \/ CallBecomes(call.name, "read", "write", Audio(pending, FALSE), "store", call.got, call.result)
    <3> HIDE DEF CallBecomes
    <3> QED
      BY <2>1, FlushFields
  <2> QED
    BY <2>2
<1>9. CASE FinishFlushes
  <2>1. FlushPendingChunk(TRUE, "end")
    BY <1>9 DEF FinishFlushes
  <2>2. \/ CallBecomes(call.name, "end", call.next, call.line, call.after, call.got, call.result)
        \/ CallBecomes(call.name, "read", "write", Audio(pending, TRUE), "end", call.got, call.result)
    <3> HIDE DEF CallBecomes
    <3> QED
      BY <2>1, FlushFields
  <2> QED
    BY <2>2
<1>10. CASE PushStores
  BY <1>10, PumpFields DEF PushStores
<1>11. CASE PushReturns \/ PollTakes \/ CleanupProcess
  BY <1>11, ReturnFields DEF PushReturns, PollTakes, CleanupProcess
<1>12. CASE FinishEnds
  <2>1. CallBecomes(call.name, "read", "write", <<"finish">>, "close", call.got, call.result)
    <3> HIDE DEF CallBecomes
    <3> QED
      BY <1>12, WriteFields DEF FinishEnds
  <2> QED
    BY <2>1
<1>13. CASE CancelTells
  <2>1. CallBecomes(call.name, "read", "write", <<"cancel">>, "wipe", call.got, call.result)
    <3> HIDE DEF CallBecomes
    <3> QED
      BY <1>13, WriteFields DEF CancelTells
  <2> QED
    BY <2>1
<1>14. CASE CloseStdin \/ Wait \/ Grace \/ CancelWipes
  BY <1>14, GotoFields, PumpFields DEF CloseStdin, Wait, Grace, CancelWipes
<1>15. CASE Verdict
  <2>1. \E result : Concludes(result)
    BY <1>15 DEF Verdict
  <2> QED
    BY <2>1, ConcludeFields
<1>16. CASE CheckDeadline \/ UseFinal
  BY <1>16, GotoFields, ConcludeFields DEF CheckDeadline, UseFinal
<1>17. CASE PushAudio \/ PollEvents \/ Finish \/ Cancel \/ Drop
  BY <1>17, BeginFields DEF PushAudio, PollEvents, Finish, Cancel, Drop
<1>18. CASE \E line \in Lines : HelperSays(line)
BY <1>18 DEF HelperSays
<1>19. CASE HelperChatters \/ \E how \in {"exited", "failed"} : HelperExits(how)
  BY <1>19 DEF HelperChatters, HelperExits
<1>20. CASE Expire \/ UNCHANGED vars
  BY <1>20 DEF Expire, vars
<1> QED
  BY <1>1, <1>2, <1>3, <1>4, <1>5, <1>6, <1>7, <1>8, <1>9, <1>10, <1>11, <1>12, <1>13,
     <1>14, <1>15, <1>16, <1>17, <1>18, <1>19, <1>20, Zenon
     DEF Next, Session, Pump, PumpFails, Write, Push, Ends, Helper

(* Which chunk is held at which stage of which call.                        *)
LEMMA HeldStep ==
  ASSUME CallType, ScalarType, CallIsInPlace, HelperIsKnown, HeldChunk, [Next]_vars
  PROVE  HeldChunk'
<1> USE DEF session, helper, history, CallBecomes, HeldChunk, Stage, Writing, Heading, At, ScalarType
<1> USE StreamingConstants
<1>1. CASE Read \/ ReadEnds
  BY <1>1, ReadFields, GotoFields
     DEF Read, ReadEnds, CallIsInPlace, StageOfCall, LifecycleOfCall, LineOfCall, EndsAreDirect
<1>2. CASE PumpFails \/ WriteFails
  BY <1>2, PumpFailsMoves, BreakFields
     DEF WriteFails, CallIsInPlace, StageOfCall, LifecycleOfCall,
         LineOfCall, EndsAreDirect
<1>3. CASE Reap
  BY <1>3, ReapFields
     DEF Reap, CallIsInPlace, StageOfCall, LifecycleOfCall, LineOfCall, EndsAreDirect
<1>4. CASE WriteSucceeds \/ WriteWouldBlock
  BY <1>4, PumpFields
     DEF WriteSucceeds, WriteWouldBlock, CallIsInPlace, StageOfCall, LifecycleOfCall,
         LineOfCall, EndsAreDirect
<1>5. CASE PushStarts
  <2>1. /\ EnsureStarted("flush") /\ call.name = "push" /\ call.pc = "start"
        /\ UNCHANGED <<pushed, pending, lifecycle>>
    BY <1>5 DEF PushStarts
  <2>2. CASE child = "none"
    <3>1. pending' = 0 /\ pushed' = pushed /\ pushed > 0 /\ pending' \in {0, pushed - 1}
      BY <2>1, <2>2 DEF CallIsInPlace, LifecycleOfCall
    <3>2. \/ call'.name = "push" /\ call'.pc = "flush" /\ child' = "running"
          \/ call'.name = "free" /\ call'.pc = "free"
      BY <2>1, <2>2, EnsureFields, BreakFields
    <3> QED
      BY <3>1, <3>2
  <2>3. CASE child # "none"
    BY <2>1, <2>3, EnsureFields
  <2> QED
    BY <2>2, <2>3
<1>6. CASE FinishStarts
  BY <1>6, EnsureFields, BreakFields
     DEF FinishStarts, FinishStep, CallIsInPlace, StageOfCall, LifecycleOfCall, LineOfCall,
         EndsAreDirect
<1>7. CASE CancelStarts
  BY <1>7, EnsureFields, BreakFields
     DEF CancelStarts, CallIsInPlace, StageOfCall, LifecycleOfCall, LineOfCall, EndsAreDirect
<1>8. CASE PushFlushes
  <2>1. FlushPendingChunk(FALSE, "store") /\ call.name = "push" /\ call.pc = "flush"
        /\ UNCHANGED <<pushed, child, lifecycle>>
    BY <1>8 DEF PushFlushes
  <2>2. call'.name = "push" /\ Stage' = "store" /\ pending' = 0
    BY <2>1, FlushMoves, FlushFields
  <2> QED
    BY <2>1, <2>2
<1>9. CASE FinishFlushes
  BY <1>9, FlushFields
     DEF FinishFlushes, FinishStep, CallIsInPlace, StageOfCall, LifecycleOfCall, LineOfCall,
         EndsAreDirect
<1>10. CASE PushStores
  BY <1>10, PumpFields
     DEF PushStores, CallIsInPlace, StageOfCall, LifecycleOfCall, LineOfCall, EndsAreDirect
<1>11. CASE PushReturns \/ PollTakes \/ CleanupProcess
  BY <1>11, ReturnFields
     DEF PushReturns, PollTakes, CleanupProcess, CallIsInPlace, StageOfCall, LifecycleOfCall,
         LineOfCall, EndsAreDirect
<1>12. CASE FinishEnds
  BY <1>12, WriteFields
     DEF FinishEnds, CallIsInPlace, StageOfCall, LifecycleOfCall, LineOfCall, EndsAreDirect
<1>13. CASE CancelTells
  BY <1>13, WriteFields
     DEF CancelTells, CallIsInPlace, StageOfCall, LifecycleOfCall, LineOfCall, EndsAreDirect
<1>14. CASE CloseStdin \/ Wait \/ Grace \/ CancelWipes
  BY <1>14, GotoFields, PumpFields
     DEF CloseStdin, Wait, Grace, CancelWipes, CallIsInPlace, StageOfCall, LifecycleOfCall,
         LineOfCall, EndsAreDirect
<1>15. CASE CheckDeadline \/ UseFinal \/ Verdict
  BY <1>15, GotoFields, ConcludeFields
     DEF CheckDeadline, UseFinal, Verdict, CallIsInPlace, StageOfCall, LifecycleOfCall,
         LineOfCall, EndsAreDirect
<1>16. CASE PushAudio \/ PollEvents \/ Finish \/ Cancel \/ Drop
  BY <1>16, BeginFields
     DEF PushAudio, PollEvents, Finish, Cancel, Drop, CallIsInPlace, StageOfCall,
         LifecycleOfCall, LineOfCall, EndsAreDirect
<1>17. CASE HelperChatters \/ (\E line \in Lines : HelperSays(line)) \/ (\E how \in {"exited", "failed"} : HelperExits(how))
  BY <1>17
     DEF HelperSays, HelperChatters, HelperExits, CallIsInPlace, StageOfCall, LifecycleOfCall, LineOfCall,
         EndsAreDirect
<1>18. CASE Expire \/ UNCHANGED vars
  BY <1>18
     DEF Expire, vars, CallIsInPlace, StageOfCall, LifecycleOfCall, LineOfCall, EndsAreDirect
<1> QED
  BY <1>1, <1>2, <1>3, <1>4, <1>5, <1>6, <1>7, <1>8, <1>9, <1>10, <1>11, <1>12, <1>13,
     <1>14, <1>15, <1>16, <1>17, <1>18, Zenon
     DEF Next, Session, Pump, PumpFails, Write, Push, Ends, Helper

(* A step within a stage does not change the count.                         *)
LEMMA CountStays ==
  ASSUME Counted, UNCHANGED <<heard, pushed, pending, lifecycle>>,
         call'.name = call.name, call'.line = call.line, Stage' = Stage, Writing' = Writing
  PROVE  Counted'
  BY DEF Counted

(* Nothing is counted past the last line of a finish.                       *)
LEMMA CountIsOver ==
  ASSUME \/ call'.name \in {"cancel", "drop"}
         \/ call'.name \in {"free", "poll"} /\ lifecycle' # "active"
         \/ call'.name = "finish" /\ Stage' \notin {"start", "flush", "end"} /\ ~Writing'
  PROVE  Counted'
  BY DEF Counted

(* As long as no call fails, every call does its part of the count.         *)
LEMMA CountStep ==
  ASSUME CallType, ScalarType, heard \in Seq(Sent), CallIsInPlace, HeldChunk, Counted, ~broken, ~broken', [Next]_vars
  PROVE  Counted'
<1> USE DEF session, helper, history, CallBecomes, Counted, Stage, Writing, Heading, At, ScalarType
<1> USE StreamingConstants
<1>1. CASE Read
  <2>1. /\ UNCHANGED <<heard, pushed, pending, lifecycle>> /\ call.pc = "read"
        /\ call'.name = call.name /\ call'.line = call.line /\ call'.after = call.after
        /\ call'.next = call.next /\ call'.pc = "read"
    BY <1>1, ReadFields DEF Read
  <2>2. Stage' = Stage /\ Writing' = Writing
    BY <2>1
  <2> QED
    BY <2>1, <2>2, CountStays
<1>3. CASE ReadEnds
  <2>1. /\ UNCHANGED <<heard, pushed, pending, lifecycle>> /\ call.pc = "read"
        /\ call'.name = call.name /\ call'.line = call.line /\ call'.after = call.after
        /\ call'.next = call.next /\ call'.pc = "reap"
    BY <1>3, GotoFields DEF ReadEnds
  <2>2. Stage' = Stage /\ Writing' = Writing
    BY <2>1
  <2> QED
    BY <2>1, <2>2, CountStays
<1>2. CASE PumpFails
  BY <1>2, PumpFailsMoves, BreakFields
     DEF CallIsInPlace, StageOfCall, LifecycleOfCall, LineOfCall, EndsAreDirect, HeldChunk
<1>4. CASE Reap
  <2>1. /\ UNCHANGED <<heard, pushed, pending, lifecycle>> /\ call.pc = "reap"
        /\ call'.name = call.name /\ call'.line = call.line /\ call'.after = call.after
        /\ call'.next = call.next /\ call'.pc = call.next
    BY <1>4, ReapFields DEF Reap
  <2>2. Stage' = Stage /\ Writing' = Writing
    BY <2>1 DEF CallIsInPlace, StageOfCall
  <2> QED
    BY <2>1, <2>2, CountStays
<1>5. CASE WriteSucceeds
  <2>1. /\ Writing /\ heard' = Append(heard, call.line) /\ UNCHANGED <<pushed, pending, lifecycle>>
        /\ call'.name = call.name /\ call'.pc = "read" /\ call'.next = call.after
    BY <1>5, PumpFields DEF WriteSucceeds
  <2>2. Len(heard') = Len(heard) + 1 /\ Len(heard) \in Nat /\ heard'[Len(heard) + 1] = call.line
    BY <2>1
  <2>3. CASE call.name = "push"
    <3>1. /\ Stage = "store" /\ Len(heard) = pushed - 2 /\ pushed \in Nat /\ pushed > 1
          /\ call.after = "store"
      <4>1. call.after = "store"
        BY <2>1, <2>3 DEF CallIsInPlace, LineOfCall
      <4>2. Stage = "store"
        BY <2>1, <4>1
      <4> HIDE DEF Stage, Writing, Heading
      <4> QED
        BY <2>1, <2>3, <4>1, <4>2
    <3>2. Stage' = "store" /\ ~Writing' /\ call'.name = "push"
      BY <2>1, <2>3, <3>1
    <3>3. Len(heard') = pushed' - 1
      BY <2>1, <2>2, <3>1
    <3> HIDE DEF Stage, Writing, Heading
    <3> QED
      BY <3>2, <3>3
  <2>4. CASE call.name = "finish" /\ call.after = "end"
    <3>1. call.line = Audio(pushed, TRUE) /\ pushed > 0 /\ Len(heard) = pushed - 1
      BY <2>1, <2>4 DEF CallIsInPlace, LineOfCall
    <3>2. Stage' = "end" /\ ~Writing' /\ call'.name = "finish"
      BY <2>1, <2>4
    <3>3. Len(heard') = pushed' /\ heard'[pushed'] = Audio(pushed', TRUE)
      <4>1. pushed' = pushed /\ pushed = Len(heard) + 1
        BY <2>1, <2>2, <3>1
      <4> QED
        BY <2>2, <3>1, <4>1, Zenon
    <3> HIDE DEF Stage, Writing, Heading
    <3> QED
      BY <3>2, <3>3
  <2>5. CASE call.name # "push" /\ call.after # "end"
    <3>1. call.name \in {"finish", "cancel"} /\ call.after \in {"close", "wipe"}
      BY <2>1, <2>5 DEF CallIsInPlace, LineOfCall
    <3> QED
      BY <2>1, <3>1, CountIsOver
  <2> QED
    BY <2>1, <2>3, <2>4, <2>5 DEF CallIsInPlace, LineOfCall
<1>6. CASE WriteFails
  BY <1>6, BreakFields
     DEF WriteFails, CallIsInPlace, StageOfCall, LifecycleOfCall, LineOfCall, EndsAreDirect,
         HeldChunk
<1>7. CASE WriteWouldBlock
  BY <1>7, PumpFields
     DEF WriteWouldBlock, CallIsInPlace, StageOfCall, LifecycleOfCall, LineOfCall, EndsAreDirect,
         HeldChunk
<1>8. CASE PushStarts
  <2>1. /\ EnsureStarted("flush") /\ call.name = "push" /\ call.pc = "start"
        /\ UNCHANGED <<pushed, pending>>
    BY <1>8 DEF PushStarts
  <2>2. call'.name = "push" /\ call'.pc = "flush" /\ heard' = heard
    BY <2>1, EnsureFields, BreakFields
  <2> QED
    BY <2>1, <2>2
<1>9. CASE PushFlushes
  <2>1. /\ FlushPendingChunk(FALSE, "store") /\ call.name = "push" /\ call.pc = "flush"
        /\ UNCHANGED <<pushed, heard>>
    BY <1>9 DEF PushFlushes
  <2>2. \/ pending = 0 /\ call'.pc = "store" /\ call'.name = "push"
        \/ /\ pending # 0 /\ call'.pc = "read" /\ call'.next = "write" /\ call'.after = "store"
           /\ call'.line = Audio(pending, FALSE) /\ call'.name = "push"
    BY <2>1, FlushFields
  <2>3. /\ pending = pushed - 1 /\ pushed \in Nat
        /\ pushed > 0 /\ Len(heard) = IF pushed > 1 THEN pushed - 2 ELSE 0
    BY <2>1 DEF HeldChunk
  <2>4. CASE pending = 0
    <3>1. call'.name = "push" /\ Stage' = "store" /\ ~Writing'
      BY <2>2, <2>4
    <3>2. pushed = 1 /\ Len(heard) = 0
      BY <2>3, <2>4
    <3> HIDE DEF Stage, Writing, Heading
    <3> QED
      BY <3>1, <3>2, <2>1
  <2>5. CASE pending # 0
    <3>1. call'.name = "push" /\ Stage' = "store" /\ Writing' /\ call'.line = Audio(pending, FALSE)
      BY <2>2, <2>5
    <3> HIDE DEF Stage, Writing, Heading
    <3> QED
      BY <3>1, <2>1, <2>3, <2>5
  <2> QED
    BY <2>4, <2>5
<1>10. CASE PushStores
  <2>1. /\ call.name = "push" /\ call.pc = "store" /\ UNCHANGED <<heard, pushed>>
    BY <1>10 DEF PushStores, CallIsInPlace, StageOfCall
  <2>2. call'.name = "push" /\ Stage' = "pushed" /\ ~Writing'
    BY <1>10, <2>1, PumpFields DEF PushStores
  <2> QED
    BY <2>1, <2>2
<1>11. CASE PushReturns
  BY <1>11, ReturnFields
     DEF PushReturns, CallIsInPlace, StageOfCall, LifecycleOfCall, LineOfCall, EndsAreDirect,
         HeldChunk
<1>12. CASE PollTakes
  BY <1>12, ReturnFields
     DEF PollTakes, CallIsInPlace, StageOfCall, LifecycleOfCall, LineOfCall, EndsAreDirect,
         HeldChunk
<1>13. CASE FinishStarts
  <2>1. /\ EnsureStarted("flush") /\ call.name = "finish" /\ call.pc = "start"
        /\ UNCHANGED <<pushed, pending>>
    BY <1>13 DEF FinishStarts, FinishStep
  <2>2. call'.name = "finish" /\ call'.pc = "flush" /\ heard' = heard
    BY <2>1, EnsureFields, BreakFields
  <2> QED
    BY <2>1, <2>2
<1>14. CASE FinishFlushes
  <2>1. /\ FlushPendingChunk(TRUE, "end") /\ call.name = "finish" /\ call.pc = "flush"
        /\ UNCHANGED <<pushed, heard>>
    BY <1>14 DEF FinishFlushes, FinishStep
  <2>2. \/ pending = 0 /\ call'.pc = "end" /\ call'.name = "finish"
        \/ /\ pending # 0 /\ call'.pc = "read" /\ call'.next = "write" /\ call'.after = "end"
           /\ call'.line = Audio(pending, TRUE) /\ call'.name = "finish"
    BY <2>1, FlushFields
  <2>3. /\ pending = pushed - 0 /\ pushed \in Nat
        /\ Len(heard) = IF pushed > 0 THEN pushed - 1 ELSE 0
    BY <2>1 DEF HeldChunk
  <2>4. CASE pending = 0
    <3>1. call'.name = "finish" /\ Stage' = "end" /\ ~Writing'
      BY <2>2, <2>4
    <3>2. pushed = 0 /\ Len(heard) = 0
      BY <2>3, <2>4
    <3> HIDE DEF Stage, Writing, Heading
    <3> QED
      BY <3>1, <3>2, <2>1
  <2>5. CASE pending # 0
    <3>1. call'.name = "finish" /\ Stage' = "end" /\ Writing' /\ call'.line = Audio(pending, TRUE)
      BY <2>2, <2>5
    <3> HIDE DEF Stage, Writing, Heading
    <3> QED
      BY <3>1, <2>1, <2>3, <2>5
  <2> QED
    BY <2>4, <2>5
<1>15. CASE FinishEnds
  <2>1. WriteThen(<<"finish">>, "close") /\ UNCHANGED <<pushed, heard>> /\ call.pc = "end"
    BY <1>15 DEF FinishEnds
  <2>2. /\ call'.pc = "read" /\ call'.next = "write" /\ call'.after = "close"
        /\ call'.name = call.name
    BY <2>1, WriteFields
  <2>3. call.name = "finish"
    BY <2>1 DEF CallIsInPlace, StageOfCall
  <2> QED
    BY <2>1, <2>2, <2>3
<1>16. CASE CloseStdin
  <2>1. call'.name = "finish" /\ Stage' \notin {"start", "flush", "end"} /\ ~Writing'
    BY <1>16, GotoFields DEF CloseStdin, CallIsInPlace, StageOfCall, LifecycleOfCall
  <2> QED
    BY <2>1, CountIsOver
<1>17. CASE Wait
  <2>1. call'.name = "finish" /\ Stage' \notin {"start", "flush", "end"} /\ ~Writing'
    BY <1>17, GotoFields, PumpFields DEF Wait, CallIsInPlace, StageOfCall, LifecycleOfCall
  <2> QED
    BY <2>1, CountIsOver
<1>18. CASE CheckDeadline
  <2>1. call'.name = "finish" /\ Stage' \notin {"start", "flush", "end"} /\ ~Writing'
    BY <1>18, GotoFields, ConcludeFields
       DEF CheckDeadline, CallIsInPlace, StageOfCall, LifecycleOfCall
  <2> QED
    BY <2>1, CountIsOver
<1>19. CASE Grace
  <2>1. call'.name = "finish" /\ Stage' \notin {"start", "flush", "end"} /\ ~Writing'
    BY <1>19, PumpFields DEF Grace, CallIsInPlace, StageOfCall, LifecycleOfCall
  <2> QED
    BY <2>1, CountIsOver
<1>20. CASE UseFinal
  BY <1>20, ConcludeFields
     DEF UseFinal, CallIsInPlace, StageOfCall, LifecycleOfCall, LineOfCall, EndsAreDirect, HeldChunk
<1>21. CASE Verdict
  BY <1>21, ConcludeFields
     DEF Verdict, CallIsInPlace, StageOfCall, LifecycleOfCall, LineOfCall, EndsAreDirect, HeldChunk
<1>22. CASE CancelStarts
  BY <1>22, EnsureFields, BreakFields
     DEF CancelStarts, CallIsInPlace, StageOfCall, LifecycleOfCall, LineOfCall, EndsAreDirect,
         HeldChunk
<1>23. CASE CancelTells
  BY <1>23, WriteFields
     DEF CancelTells, CallIsInPlace, StageOfCall, LifecycleOfCall, LineOfCall, EndsAreDirect,
         HeldChunk
<1>24. CASE CancelWipes
  BY <1>24, GotoFields
     DEF CancelWipes, CallIsInPlace, StageOfCall, LifecycleOfCall, LineOfCall, EndsAreDirect,
         HeldChunk
<1>25. CASE CleanupProcess
  <2>1. call'.name \in {"free", "poll"} /\ lifecycle' # "active"
    BY <1>25, ReturnFields DEF CleanupProcess, CallIsInPlace, StageOfCall, LifecycleOfCall
  <2> QED
    BY <2>1, CountIsOver
<1>26. CASE PushAudio
  <2>1. /\ call.name = "free" /\ lifecycle = "active" /\ pushed' = pushed + 1
        /\ UNCHANGED <<heard, pending, lifecycle>>
    BY <1>26 DEF PushAudio
  <2>2. call'.name = "push" /\ Stage' = "start" /\ ~Writing'
    BY <1>26, BeginFields DEF PushAudio
  <2>3. pushed \in Nat /\ pending = pushed /\ Len(heard) = IF pushed > 0 THEN pushed - 1 ELSE 0
    BY <2>1
  <2> HIDE DEF Stage, Writing, Heading
  <2> QED
    BY <2>1, <2>2, <2>3
<1>27. CASE PollEvents
  BY <1>27, BeginFields
     DEF PollEvents, CallIsInPlace, StageOfCall, LifecycleOfCall, LineOfCall, EndsAreDirect,
         HeldChunk
<1>28. CASE Finish
  BY <1>28, BeginFields
     DEF Finish, CallIsInPlace, StageOfCall, LifecycleOfCall, LineOfCall, EndsAreDirect, HeldChunk
<1>29. CASE Cancel
  BY <1>29, BeginFields
     DEF Cancel, CallIsInPlace, StageOfCall, LifecycleOfCall, LineOfCall, EndsAreDirect, HeldChunk
<1>30. CASE Drop
  BY <1>30, BeginFields
     DEF Drop, CallIsInPlace, StageOfCall, LifecycleOfCall, LineOfCall, EndsAreDirect, HeldChunk
<1>31. CASE \E line \in Lines : HelperSays(line)
  BY <1>31
     DEF HelperSays, CallIsInPlace, StageOfCall, LifecycleOfCall, LineOfCall, EndsAreDirect,
         HeldChunk
<1>32. CASE HelperChatters \/ \E how \in {"exited", "failed"} : HelperExits(how)
  <2>1. UNCHANGED <<lifecycle, pending, call, heard, pushed>>
    BY <1>32 DEF HelperChatters, HelperExits
  <2> QED
    BY <2>1
       DEF CallIsInPlace, StageOfCall, LifecycleOfCall, LineOfCall, EndsAreDirect, HeldChunk
<1>33. CASE Expire
  BY <1>33
     DEF Expire, CallIsInPlace, StageOfCall, LifecycleOfCall, LineOfCall, EndsAreDirect, HeldChunk
<1>34. CASE UNCHANGED vars
  BY <1>34
     DEF vars, CallIsInPlace, StageOfCall, LifecycleOfCall, LineOfCall, EndsAreDirect, HeldChunk
<1> QED
  BY <1>1, <1>2, <1>3, <1>4, <1>5, <1>6, <1>7, <1>8, <1>9, <1>10,
     <1>11, <1>12, <1>13, <1>14, <1>15, <1>16, <1>17, <1>18, <1>19, <1>20,
     <1>21, <1>22, <1>23, <1>24, <1>25, <1>26, <1>27, <1>28, <1>29, <1>30,
     <1>31, <1>32, <1>33, <1>34, Zenon
     DEF Next, Session, Pump, PumpFails, Write, Push, Ends, Helper

(* What the helper heard stays in order while it hears nothing more.        *)
LEMMA OrderStays ==
  ASSUME ScalarType, AudioInOrder, heard' = heard, broken => broken',
         \/ pushed' = pushed
         \/ pushed' = pushed + 1 /\ lifecycle = "active",
         lifecycle' = "active" => lifecycle = "active",
         \/ pending' \in {0, pending}
         \/ pending' = pushed /\ pushed' = pushed /\ call.name = "push" /\ Stage # "pushed",
         Writing' /\ IsAudio(call'.line) =>
           \/ Writing /\ call'.line = call.line
           \/ pending > 0 /\ call'.line[2] = pending,
         call'.name = "push" /\ Stage' # "pushed" =>
           \/ pushed' = pushed + 1
           \/ call.name = "push" /\ Stage # "pushed",
         call'.name = "finish" /\ Stage' \in {"flush", "end"} =>
           \/ lifecycle = "active"
           \/ call.name = "finish" /\ Stage \in {"flush", "end"}
  PROVE  AudioInOrder'
<1> USE StreamingConstants
<1>1. pushed \in Nat /\ pending \in Nat
  BY DEF ScalarType
<1>2. lifecycle = "active" => OnlyAudio
  BY DEF AudioInOrder
<1>3. ASSUME NEW i \in 1..Len(heard), IsAudio(heard[i])
      PROVE  /\ heard[i][2] \in 1..pushed'
             /\ pending' > 0 => heard[i][2] < pending'
             /\ Writing' /\ IsAudio(call'.line) => heard[i][2] < call'.line[2]
             /\ call'.name = "push" /\ Stage' # "pushed" => heard[i][2] < pushed'
  <2>1. /\ heard[i][2] \in 1..pushed
        /\ pending > 0 => heard[i][2] < pending
        /\ Writing /\ IsAudio(call.line) => heard[i][2] < call.line[2]
        /\ call.name = "push" /\ Stage # "pushed" => heard[i][2] < pushed
    BY <1>3 DEF AudioInOrder
  <2> DEFINE k == heard[i][2]
  <2> HIDE DEF k
  <2>2. /\ k \in 1..pushed
        /\ pending > 0 => k < pending
        /\ Writing /\ IsAudio(call.line) => k < call.line[2]
        /\ call.name = "push" /\ Stage # "pushed" => k < pushed
    BY <2>1 DEF k
  <2>3. k \in 1..pushed' /\ (pending' > 0 => k < pending')
    BY <1>1, <2>2
  <2>4. Writing' /\ IsAudio(call'.line) => k < call'.line[2]
    BY <1>1, <2>2
  <2>5. call'.name = "push" /\ Stage' # "pushed" => k < pushed'
    BY <1>1, <2>2
  <2> QED
    BY <2>3, <2>4, <2>5 DEF k
<1>4. ASSUME NEW i \in 1..Len(heard)
      PROVE  /\ IsAudio(heard[i]) =>
                  /\ ~broken' => heard[i][2] = i
                  /\ \A j \in 1..i - 1 : IsAudio(heard[j]) /\ heard[j][2] < heard[i][2]
                  /\ heard[i][3] => lifecycle' # "active" /\ heard[i][2] = pushed'
             /\ heard[i] = <<"finish">> /\ ~broken' =>
                  /\ i = pushed' + 1
                  /\ pushed' > 0 => heard[pushed'] = Audio(pushed', TRUE)
  <2>1. /\ IsAudio(heard[i]) =>
             /\ ~broken => heard[i][2] = i
             /\ \A j \in 1..i - 1 : IsAudio(heard[j]) /\ heard[j][2] < heard[i][2]
             /\ heard[i][3] => lifecycle # "active" /\ heard[i][2] = pushed
        /\ heard[i] = <<"finish">> /\ ~broken =>
             /\ i = pushed + 1
             /\ pushed > 0 => heard[pushed] = Audio(pushed, TRUE)
    BY DEF AudioInOrder, AudioIsHeardInOrder
  <2>2. heard[i] = <<"finish">> => ~IsAudio(heard[i])
    BY DEF IsAudio
  <2>3. CASE pushed' = pushed
    BY <2>1, <2>3, Zenon
  <2>4. CASE lifecycle = "active"
    <3>1. IsAudio(heard[i])
      BY <1>2, <2>4 DEF OnlyAudio
    <3>2. ~heard[i][3]
      BY <2>1, <2>4, <3>1, Zenon
    <3>3. heard[i] # <<"finish">>
      BY <2>2, <3>1
    <3> QED
      BY <2>1, <3>2, <3>3, Zenon
  <2> QED
    BY <2>3, <2>4
<1>5. AudioIsHeardInOrder'
  BY <1>4, Zenon DEF AudioIsHeardInOrder
<1>6. lifecycle' = "active" \/ (call'.name = "finish" /\ Stage' \in {"flush", "end"}) => OnlyAudio'
  BY DEF AudioInOrder, OnlyAudio
<1> QED
  BY <1>3, <1>5, <1>6 DEF AudioInOrder

(* A line that the pipe takes is the next that the helper was to hear.      *)
LEMMA WriteKeepsOrder ==
  ASSUME CallType, ScalarType, heard \in Seq(Sent), CallIsInPlace, HeldChunk, AudioInOrder,
         AudioIsCounted, WriteSucceeds
  PROVE  AudioInOrder'
<1> USE StreamingConstants
<1> DEFINE n == Len(heard)
<1>1. /\ heard' = Append(heard, call.line) /\ Writing /\ call.pc = "write"
      /\ call'.name = call.name /\ call'.pc = "read" /\ call'.next = call.after
      /\ UNCHANGED <<lifecycle, pending, broken, pushed>>
  BY PumpFields DEF WriteSucceeds, CallBecomes, At, Writing, Heading, session, history
<1>2. /\ n \in Nat /\ Len(heard') = n + 1 /\ heard'[n + 1] = call.line
      /\ \A i \in 1..n : heard'[i] = heard[i]
  BY <1>1
<1>3. pushed \in Nat /\ pending \in Nat
  BY DEF ScalarType
<1>4. Stage = call.after /\ Stage' = call.after
  <2>1. call.after # "write"
    BY <1>1 DEF CallIsInPlace, LineOfCall
  <2> QED
    BY <1>1, <2>1 DEF Stage, Writing, Heading
<1>5. ~Writing'
  BY <1>1 DEF CallIsInPlace, LineOfCall, Writing, Heading
<1>10. n \in Nat /\ \A i \in 1..n + 1 : i \in 1..n \/ i = n + 1
  <2>1. n \in Nat
    OBVIOUS
  <2> HIDE DEF n
  <2> QED
    BY <2>1
<1> HIDE DEF n
(* What was heard before stays.                                             *)
<1>6. ASSUME NEW i \in 1..n
      PROVE  /\ IsAudio(heard'[i]) =>
                  /\ ~broken' => heard'[i][2] = i
                  /\ \A j \in 1..i - 1 : IsAudio(heard'[j]) /\ heard'[j][2] < heard'[i][2]
                  /\ heard'[i][3] => lifecycle' # "active" /\ heard'[i][2] = pushed'
             /\ heard'[i] = <<"finish">> /\ ~broken' =>
                  /\ i = pushed' + 1
                  /\ pushed' > 0 => heard'[pushed'] = Audio(pushed', TRUE)
  <2>1. /\ IsAudio(heard[i]) =>
             /\ ~broken => heard[i][2] = i
             /\ \A j \in 1..i - 1 : IsAudio(heard[j]) /\ heard[j][2] < heard[i][2]
             /\ heard[i][3] => lifecycle # "active" /\ heard[i][2] = pushed
        /\ heard[i] = <<"finish">> /\ ~broken =>
             /\ i = pushed + 1
             /\ pushed > 0 => heard[pushed] = Audio(pushed, TRUE)
    BY DEF AudioInOrder, AudioIsHeardInOrder, n
  <2>2. heard'[i] = heard[i] /\ \A j \in 1..i - 1 : heard'[j] = heard[j]
    BY <1>2
  <2>3. i = pushed + 1 /\ pushed > 0 => heard'[pushed] = heard[pushed]
    BY <1>2, <1>3
  <2> QED
    BY <1>1, <2>1, <2>2, <2>3, Zenon
<1>7. ASSUME NEW i \in 1..n, IsAudio(heard'[i])
      PROVE  /\ heard'[i][2] \in 1..pushed'
             /\ pending' > 0 => heard'[i][2] < pending'
             /\ call'.name = "push" /\ Stage' # "pushed" => heard'[i][2] < pushed'
             /\ IsAudio(call.line) => heard'[i][2] < call.line[2]
  <2>1. heard'[i] = heard[i]
    BY <1>2
  <2>2. /\ heard[i][2] \in 1..pushed
        /\ pending > 0 => heard[i][2] < pending
        /\ Writing /\ IsAudio(call.line) => heard[i][2] < call.line[2]
        /\ call.name = "push" /\ Stage # "pushed" => heard[i][2] < pushed
    BY <1>7, <2>1 DEF AudioInOrder, n
  <2> QED
    BY <1>1, <1>4, <2>1, <2>2, Zenon
<1>8. CASE IsAudio(call.line)
  <2>1. /\ \/ call.name = "push" /\ call.after = "store"
           \/ call.name = "finish" /\ call.after = "end"
        /\ \E m \in 1..pushed, commit \in BOOLEAN :
             /\ call.line = <<"audio", m, commit>>
             /\ call.name = "push" => m < pushed /\ commit = FALSE
             /\ call.name = "finish" => m = pushed /\ lifecycle # "active"
    <3>1. CASE call.name = "push"
      <4>1. PICK m \in 1..pushed - 1 : call.line = Audio(m, FALSE)
        BY <1>1, <3>1 DEF CallIsInPlace, LineOfCall
      <4>2. m \in 1..pushed /\ m < pushed /\ FALSE \in BOOLEAN
        BY <1>3
      <4> QED
        BY <1>1, <3>1, <4>1, <4>2 DEF Audio, CallIsInPlace, LineOfCall
    <3>2. CASE call.name = "finish"
      <4>1. call.line = <<"finish">> => ~IsAudio(call.line)
        BY DEF IsAudio
      <4>2. call.after = "end" /\ pushed > 0 /\ call.line = Audio(pushed, TRUE)
        BY <1>1, <1>8, <3>2, <4>1 DEF CallIsInPlace, LineOfCall
      <4>3. pushed \in 1..pushed /\ lifecycle # "active"
        BY <1>3, <1>4, <3>2, <4>2 DEF CallIsInPlace, LifecycleOfCall
      <4> QED
        BY <3>2, <4>2, <4>3 DEF Audio
    <3>3. CASE call.name \notin {"push", "finish"}
      <4>1. call.line = <<"cancel">>
        BY <1>1, <3>3 DEF CallIsInPlace, LineOfCall
      <4> QED
        BY <1>8, <4>1 DEF IsAudio
    <3> QED
      BY <3>1, <3>2, <3>3
  <2>2. PICK m \in 1..pushed, commit \in BOOLEAN :
             /\ call.line = <<"audio", m, commit>>
             /\ call.name = "push" => m < pushed /\ commit = FALSE
             /\ call.name = "finish" => m = pushed /\ lifecycle # "active"
    BY <2>1
  <2>3. call.line[2] = m /\ call.line[3] = commit
    BY <2>2
  <2>4. \A i \in 1..n : IsAudio(heard[i])
    BY <1>4, <2>1 DEF AudioInOrder, OnlyAudio, CallIsInPlace, LifecycleOfCall, n
  <2>5. \A i \in 1..n : IsAudio(heard'[i]) /\ heard'[i][2] < m
    BY <1>2, <1>7, <1>8, <2>3, <2>4
  <2>6. ~broken => m = n + 1
    <3> SUFFICES ASSUME ~broken PROVE m = n + 1
      OBVIOUS
    <3>1. Counted
      BY DEF AudioIsCounted
    <3>2. CASE call.name = "push"
      <4>1. call.line = Audio(pushed - 1, FALSE) /\ n = pushed - 2
        BY <1>1, <1>4, <2>1, <3>1, <3>2 DEF Counted, n
      <4> QED
        BY <1>3, <2>3, <4>1 DEF Audio
    <3>3. CASE call.name = "finish"
      <4>1. n = pushed - 1 /\ m = pushed
        BY <1>1, <1>4, <2>1, <2>2, <3>1, <3>3 DEF Counted, n
      <4> QED
        BY <1>3, <4>1
    <3> QED
      BY <2>1, <3>2, <3>3
  <2>7. pending = 0 /\ (call.name = "push" => m < pushed)
    BY <1>4, <2>1, <2>2 DEF HeldChunk
  <2>8. commit => lifecycle # "active" /\ m = pushed
    BY <2>1, <2>2
  <2>9. AudioIsHeardInOrder'
    <3> SUFFICES ASSUME NEW i \in 1..n + 1
                 PROVE  /\ IsAudio(heard'[i]) =>
                             /\ ~broken' => heard'[i][2] = i
                             /\ \A j \in 1..i - 1 : IsAudio(heard'[j]) /\ heard'[j][2] < heard'[i][2]
                             /\ heard'[i][3] => lifecycle' # "active" /\ heard'[i][2] = pushed'
                        /\ heard'[i] = <<"finish">> /\ ~broken' =>
                             /\ i = pushed' + 1
                             /\ pushed' > 0 => heard'[pushed'] = Audio(pushed', TRUE)
      BY <1>2 DEF AudioIsHeardInOrder
    <3>1. CASE i \in 1..n
      BY <1>6, <3>1
    <3>2. CASE i = n + 1
      <4>1. heard'[i] = call.line /\ heard'[i][2] = m /\ heard'[i][3] = commit /\ i - 1 = n
        BY <1>2, <2>3, <3>2
      <4>2. heard'[i] # <<"finish">>
        BY <1>8, <4>1 DEF IsAudio
      <4>3. \A j \in 1..i - 1 : IsAudio(heard'[j]) /\ heard'[j][2] < heard'[i][2]
        BY <2>5, <4>1
      <4> QED
        BY <1>1, <2>6, <2>8, <3>2, <4>1, <4>2, <4>3, Zenon
    <3> QED
      BY <1>10, <3>1, <3>2, Zenon
  <2>10. OnlyAudio'
    BY <1>2, <1>8, <2>5 DEF OnlyAudio
  <2>11. ASSUME NEW i \in 1..n + 1, IsAudio(heard'[i])
         PROVE  heard'[i][2] \in 1..pushed /\ (call.name = "push" => heard'[i][2] < pushed)
    <3>1. CASE i \in 1..n
      BY <1>1, <1>4, <1>7, <2>1, <2>11, <3>1
    <3>2. CASE i = n + 1
      BY <1>2, <2>2, <2>3, <2>7, <3>2
    <3> QED
      BY <1>2, <3>1, <3>2
  <2> QED
    BY <1>1, <1>2, <1>5, <2>7, <2>9, <2>10, <2>11 DEF AudioInOrder
<1>9. CASE ~IsAudio(call.line)
  <2>1. \/ call.name = "finish" /\ call.after = "close" /\ call.line = <<"finish">>
        \/ call.name = "cancel" /\ call.after = "wipe" /\ call.line = <<"cancel">>
    <3>1. \A m, commit : IsAudio(Audio(m, commit))
      BY DEF Audio, IsAudio
    <3> QED
      BY <1>1, <1>9, <3>1, Zenon DEF CallIsInPlace, LineOfCall
  <2>2. lifecycle # "active"
    BY <1>4, <2>1 DEF CallIsInPlace, LifecycleOfCall
  <2>3. call.line = <<"finish">> /\ ~broken =>
             /\ n = pushed
             /\ pushed > 0 => heard'[pushed] = Audio(pushed, TRUE)
    <3> SUFFICES ASSUME call.line = <<"finish">>, ~broken
                 PROVE  n = pushed /\ (pushed > 0 => heard'[pushed] = Audio(pushed, TRUE))
      OBVIOUS
    <3>1. call.name = "finish" /\ call.after = "close"
      BY <2>1
    <3>2. n = pushed /\ (pushed > 0 => heard[pushed] = Audio(pushed, TRUE))
      BY <1>1, <1>4, <3>1 DEF Counted, AudioIsCounted, n
    <3>3. pushed > 0 => pushed \in 1..n
      BY <1>3, <3>2
    <3> QED
      BY <1>2, <3>2, <3>3, Zenon
  <2>4. AudioIsHeardInOrder'
    <3> SUFFICES ASSUME NEW i \in 1..n + 1
                 PROVE  /\ IsAudio(heard'[i]) =>
                             /\ ~broken' => heard'[i][2] = i
                             /\ \A j \in 1..i - 1 : IsAudio(heard'[j]) /\ heard'[j][2] < heard'[i][2]
                             /\ heard'[i][3] => lifecycle' # "active" /\ heard'[i][2] = pushed'
                        /\ heard'[i] = <<"finish">> /\ ~broken' =>
                             /\ i = pushed' + 1
                             /\ pushed' > 0 => heard'[pushed'] = Audio(pushed', TRUE)
      BY <1>2 DEF AudioIsHeardInOrder
    <3>1. CASE i \in 1..n
      BY <1>6, <3>1
    <3>2. CASE i = n + 1
      <4>1. heard'[i] = call.line
        BY <1>2, <3>2
      <4> QED
        BY <1>1, <1>9, <2>3, <3>2, <4>1, Zenon
    <3> QED
      BY <1>10, <3>1, <3>2, Zenon
  <2>5. ASSUME NEW i \in 1..n + 1, IsAudio(heard'[i])
        PROVE  heard'[i][2] \in 1..pushed /\ (pending > 0 => heard'[i][2] < pending)
    <3>1. i \in 1..n
      BY <1>2, <1>9, <2>5
    <3> QED
      BY <1>1, <1>7, <2>5, <3>1
  <2> QED
    BY <1>1, <1>2, <1>4, <1>5, <2>1, <2>2, <2>4, <2>5 DEF AudioInOrder
<1> QED
  BY <1>8, <1>9

(* Whatever the helper hears, it hears in order.                            *)
LEMMA OrderStep ==
  ASSUME CallType, ScalarType, heard \in Seq(Sent), CallIsInPlace, HeldChunk, AudioInOrder,
         AudioIsCounted, [Next]_vars
  PROVE  AudioInOrder'
<1>1. CASE Read
  <2>1. /\ UNCHANGED <<heard, pushed, pending, lifecycle, broken>> /\ call.pc = "read"
        /\ call'.name = call.name /\ call'.line = call.line /\ call'.after = call.after
        /\ call'.next = call.next /\ call'.pc = "read"
    BY <1>1, ReadFields DEF Read, session, history, CallBecomes
  <2>2. Stage' = Stage /\ Writing' = Writing
    BY <2>1 DEF Stage, Writing, Heading
  <2> QED
    BY <2>1, <2>2, OrderStays DEF CallIsInPlace, LifecycleOfCall
<1>21. CASE ReadEnds
  BY <1>21, GotoFields, OrderStays
     DEF ReadEnds, session, helper, history,
         CallIsInPlace, StageOfCall, LifecycleOfCall, LineOfCall, EndsAreDirect, Stage, Writing, Heading, At, CallBecomes
<1>2. CASE WriteFails
  BY <1>2, BreakFields, OrderStays
     DEF WriteFails, session, helper, history,
         CallIsInPlace, StageOfCall, LifecycleOfCall, LineOfCall, EndsAreDirect, Stage, Writing, Heading, At, CallBecomes
<1>22. CASE PumpFails
  <2>1. Breaks /\ UNCHANGED <<heard, pushed, pending, lifecycle>>
    BY <1>22, PumpFailsMoves
  <2>2. /\ broken => broken'
        /\ call'.pc \in {"wipe", "free"} /\ call'.name \notin {"push", "finish"}
    BY <2>1, BreakFields DEF CallBecomes
  <2>3. ~Writing'
    BY <2>2 DEF Writing, Heading
  <2> QED
    BY <2>1, <2>2, <2>3, OrderStays
<1>3. CASE Reap
  BY <1>3, ReapFields, OrderStays
     DEF Reap, session, helper, history,
         CallIsInPlace, StageOfCall, LifecycleOfCall, LineOfCall, EndsAreDirect, Stage, Writing, Heading, At, CallBecomes
<1>4. CASE WriteSucceeds
  BY <1>4, WriteKeepsOrder
<1>5. CASE WriteWouldBlock
  BY <1>5, PumpFields, OrderStays
     DEF WriteWouldBlock, session, helper, history,
         CallIsInPlace, StageOfCall, LifecycleOfCall, LineOfCall, EndsAreDirect, Stage, Writing, Heading, At, CallBecomes
<1>6. CASE PushStarts
  <2>1. /\ heard' = heard /\ UNCHANGED pushed /\ pending' \in {0, pending}
        /\ broken => broken'
        /\ lifecycle' = "active" => lifecycle = "active"
    BY <1>6, EnsureFields, BreakFields
       DEF PushStarts, session, helper, history, FlushPendingChunk, EnsureStarted, Spawn, SpawnFails, CallBecomes
  <2>2. /\ Writing' /\ IsAudio(call'.line) => Writing /\ call'.line = call.line
        /\ call'.name = "push" /\ Stage' # "pushed" => call.name = "push" /\ Stage # "pushed"
        /\ call'.name = "finish" /\ Stage' \in {"flush", "end"} =>
             \/ lifecycle = "active"
             \/ call.name = "finish" /\ Stage \in {"flush", "end"}
    BY <1>6, EnsureFields, BreakFields
       DEF PushStarts, CallIsInPlace, StageOfCall, LifecycleOfCall, LineOfCall, EndsAreDirect, Stage, Writing, Heading, At, CallBecomes
  <2> QED
    BY <2>1, <2>2, OrderStays
<1>7. CASE FinishStarts
  <2>1. /\ heard' = heard /\ UNCHANGED pushed /\ pending' \in {0, pending}
        /\ broken => broken'
        /\ lifecycle' = "active" => lifecycle = "active"
    BY <1>7, EnsureFields, BreakFields
       DEF FinishStarts, FinishStep, session, helper, history, FlushPendingChunk, EnsureStarted, Spawn, SpawnFails, CallBecomes
  <2>2. /\ Writing' /\ IsAudio(call'.line) => Writing /\ call'.line = call.line
        /\ call'.name = "push" /\ Stage' # "pushed" => call.name = "push" /\ Stage # "pushed"
        /\ call'.name = "finish" /\ Stage' \in {"flush", "end"} =>
             \/ lifecycle = "active"
             \/ call.name = "finish" /\ Stage \in {"flush", "end"}
    BY <1>7, EnsureFields, BreakFields
       DEF FinishStarts, FinishStep, CallIsInPlace, StageOfCall, LifecycleOfCall, LineOfCall, EndsAreDirect, Stage, Writing, Heading, At, CallBecomes
  <2> QED
    BY <2>1, <2>2, OrderStays
<1>8. CASE CancelStarts
  <2>1. /\ heard' = heard /\ UNCHANGED pushed /\ pending' \in {0, pending}
        /\ broken => broken'
        /\ lifecycle' = "active" => lifecycle = "active"
    BY <1>8, EnsureFields, BreakFields
       DEF CancelStarts, session, helper, history, FlushPendingChunk, EnsureStarted, Spawn, SpawnFails, CallBecomes
  <2>2. /\ Writing' /\ IsAudio(call'.line) => Writing /\ call'.line = call.line
        /\ call'.name = "push" /\ Stage' # "pushed" => call.name = "push" /\ Stage # "pushed"
        /\ call'.name = "finish" /\ Stage' \in {"flush", "end"} =>
             \/ lifecycle = "active"
             \/ call.name = "finish" /\ Stage \in {"flush", "end"}
    BY <1>8, EnsureFields, BreakFields
       DEF CancelStarts, CallIsInPlace, StageOfCall, LifecycleOfCall, LineOfCall, EndsAreDirect, Stage, Writing, Heading, At, CallBecomes
  <2> QED
    BY <2>1, <2>2, OrderStays
<1>9. CASE PushFlushes
  <2>1. /\ heard' = heard /\ UNCHANGED pushed /\ pending' \in {0, pending}
        /\ broken => broken'
        /\ lifecycle' = "active" => lifecycle = "active"
    BY <1>9 DEF PushFlushes, session, helper, history, FlushPendingChunk, EnsureStarted, Spawn, SpawnFails, CallBecomes
  <2>2. FlushPendingChunk(FALSE, "store") /\ call.name = "push" /\ call.pc = "flush"
    BY <1>9 DEF PushFlushes, At
  <2>3. /\ call'.name = "push"
        /\ \/ call'.pc = "store"
           \/ pending # 0 /\ call'.pc = "read" /\ call'.next = "write" /\ call'.after = "store" /\ call'.line = Audio(pending, FALSE)
    BY <2>2, FlushFields DEF CallBecomes
  <2>4. Writing' => pending > 0 /\ call'.line[2] = pending
    <3>1. (pending # 0 => pending > 0) /\ Audio(pending, FALSE)[2] = pending
      BY StreamingConstants DEF ScalarType, Audio
    <3>2. Writing' => pending # 0 /\ call'.line = Audio(pending, FALSE)
      BY <2>3 DEF Writing, Heading
    <3> QED
      BY <3>1, <3>2, Zenon
  <2>5. /\ call'.name = "push" /\ Stage' # "pushed" => call.name = "push" /\ Stage # "pushed"
        /\ call'.name = "finish" /\ Stage' \in {"flush", "end"} =>
             \/ lifecycle = "active"
             \/ call.name = "finish" /\ Stage \in {"flush", "end"}
    BY <2>2, <2>3 DEF Stage, Writing, Heading
  <2> QED
    BY <2>1, <2>4, <2>5, OrderStays
<1>10. CASE FinishFlushes
  <2>1. /\ heard' = heard /\ UNCHANGED pushed /\ pending' \in {0, pending}
        /\ broken => broken'
        /\ lifecycle' = "active" => lifecycle = "active"
    BY <1>10 DEF FinishFlushes, session, helper, history, FlushPendingChunk, EnsureStarted, Spawn, SpawnFails, CallBecomes
  <2>2. FlushPendingChunk(TRUE, "end") /\ call.name = "finish" /\ call.pc = "flush"
    BY <1>10 DEF FinishFlushes, At, FinishStep
  <2>3. /\ call'.name = "finish"
        /\ \/ call'.pc = "end"
           \/ pending # 0 /\ call'.pc = "read" /\ call'.next = "write" /\ call'.after = "end" /\ call'.line = Audio(pending, TRUE)
    BY <2>2, FlushFields DEF CallBecomes
  <2>4. Writing' => pending > 0 /\ call'.line[2] = pending
    <3>1. (pending # 0 => pending > 0) /\ Audio(pending, TRUE)[2] = pending
      BY StreamingConstants DEF ScalarType, Audio
    <3>2. Writing' => pending # 0 /\ call'.line = Audio(pending, TRUE)
      BY <2>3 DEF Writing, Heading
    <3> QED
      BY <3>1, <3>2, Zenon
  <2>5. /\ call'.name = "push" /\ Stage' # "pushed" => call.name = "push" /\ Stage # "pushed"
        /\ call'.name = "finish" /\ Stage' \in {"flush", "end"} =>
             \/ lifecycle = "active"
             \/ call.name = "finish" /\ Stage \in {"flush", "end"}
    BY <2>2, <2>3 DEF Stage, Writing, Heading
  <2> QED
    BY <2>1, <2>4, <2>5, OrderStays
<1>11. CASE PushStores
  <2>1. /\ heard' = heard /\ UNCHANGED <<pushed, lifecycle, broken>> /\ pending' = pushed /\ call.pc = "store"
    BY <1>11 DEF PushStores, At, helper, history
  <2>2. call.name = "push" /\ Stage = "store"
    BY <2>1 DEF CallIsInPlace, StageOfCall, Stage, Writing, Heading, At
  <2>3. ~Writing' /\ Stage' = "pushed" /\ call'.name = "push"
    BY <1>11, <2>2, PumpFields DEF PushStores, CallBecomes, Stage, Writing, Heading
  <2> QED
    BY <2>1, <2>2, <2>3, OrderStays
<1>12. CASE PushReturns \/ PollTakes \/ CleanupProcess
  BY <1>12, ReturnFields, OrderStays
     DEF PushReturns, PollTakes, CleanupProcess, session, helper, history,
         CallIsInPlace, StageOfCall, LifecycleOfCall, LineOfCall, EndsAreDirect, Stage, Writing, Heading, At, CallBecomes
<1>13. CASE FinishEnds
  <2>1. /\ heard' = heard /\ UNCHANGED pushed /\ pending' \in {0, pending}
        /\ broken => broken'
        /\ lifecycle' = "active" => lifecycle = "active"
    BY <1>13 DEF FinishEnds, session, helper, history, FlushPendingChunk, EnsureStarted, Spawn, SpawnFails, CallBecomes
  <2>2. WriteThen(<<"finish">>, "close")
    BY <1>13 DEF FinishEnds
  <2>3. call'.line = <<"finish">> /\ Stage' = "close" /\ call'.name # "push"
    <3>1. call.name # "push"
      BY <1>13 DEF FinishEnds, At, CallIsInPlace, StageOfCall, Stage, Writing, Heading
    <3> QED
      BY <2>2, <3>1, WriteFields DEF CallBecomes, Stage, Writing, Heading
  <2>4. ~IsAudio(call'.line)
    BY <2>3 DEF IsAudio
  <2> QED
    BY <2>1, <2>3, <2>4, OrderStays
<1>14. CASE CancelTells
  <2>1. /\ heard' = heard /\ UNCHANGED pushed /\ pending' \in {0, pending}
        /\ broken => broken'
        /\ lifecycle' = "active" => lifecycle = "active"
    BY <1>14 DEF CancelTells, session, helper, history, FlushPendingChunk, EnsureStarted, Spawn, SpawnFails, CallBecomes
  <2>2. WriteThen(<<"cancel">>, "wipe")
    BY <1>14 DEF CancelTells
  <2>3. call'.line = <<"cancel">> /\ Stage' = "wipe" /\ call'.name # "push"
    <3>1. call.name # "push"
      BY <1>14 DEF CancelTells, At, CallIsInPlace, StageOfCall, Stage, Writing, Heading
    <3> QED
      BY <2>2, <3>1, WriteFields DEF CallBecomes, Stage, Writing, Heading
  <2>4. ~IsAudio(call'.line)
    BY <2>3 DEF IsAudio
  <2> QED
    BY <2>1, <2>3, <2>4, OrderStays
<1>15. CASE CloseStdin \/ Wait \/ Grace \/ CancelWipes
  BY <1>15, GotoFields, PumpFields, OrderStays
     DEF CloseStdin, Wait, Grace, CancelWipes, session, helper, history,
         CallIsInPlace, StageOfCall, LifecycleOfCall, LineOfCall, EndsAreDirect, Stage, Writing, Heading, At, CallBecomes
<1>16. CASE CheckDeadline \/ UseFinal \/ Verdict
  BY <1>16, GotoFields, ConcludeFields, OrderStays
     DEF CheckDeadline, UseFinal, Verdict, session, helper, history,
         CallIsInPlace, StageOfCall, LifecycleOfCall, LineOfCall, EndsAreDirect, Stage, Writing, Heading, At, CallBecomes
<1>17. CASE PushAudio
  <2>1. /\ heard' = heard /\ UNCHANGED <<pending, lifecycle, broken>>
        /\ pushed' = pushed + 1 /\ lifecycle = "active"
    BY <1>17 DEF PushAudio, session, helper
  <2>2. ~Writing' /\ call'.name = "push"
    BY <1>17, BeginFields DEF PushAudio, CallBecomes, Writing, Heading
  <2> QED
    BY <2>1, <2>2, OrderStays
<1>18. CASE PollEvents \/ Finish \/ Cancel \/ Drop
  BY <1>18, BeginFields, OrderStays
     DEF PollEvents, Finish, Cancel, Drop, session, helper, history,
         CallIsInPlace, StageOfCall, LifecycleOfCall, LineOfCall, EndsAreDirect, Stage, Writing, Heading, At, CallBecomes
<1>19. CASE HelperChatters \/ (\E line \in Lines : HelperSays(line)) \/ (\E how \in {"exited", "failed"} : HelperExits(how))
  BY <1>19, OrderStays
     DEF HelperSays, HelperChatters, HelperExits, session, helper, history,
         CallIsInPlace, StageOfCall, LifecycleOfCall, LineOfCall, EndsAreDirect, Stage, Writing, Heading, At, CallBecomes
<1>20. CASE Expire \/ UNCHANGED vars
  BY <1>20, OrderStays
     DEF Expire, vars, session, helper, history,
         CallIsInPlace, StageOfCall, LifecycleOfCall, LineOfCall, EndsAreDirect, Stage, Writing, Heading, At, CallBecomes
<1> QED
  BY <1>1, <1>2, <1>3, <1>4, <1>5, <1>6, <1>7, <1>8, <1>9, <1>10, <1>11, <1>12, <1>13,
     <1>14, <1>15, <1>16, <1>17, <1>18, <1>19, <1>20, <1>21, <1>22, Zenon
     DEF Next, Session, Pump, PumpFails, Write, Push, Ends, Helper

(* A failure is not forgotten.                                              *)
LEMMA BrokenStays ==
  ASSUME CallType, [Next]_vars
  PROVE  broken => broken'
<1>1. CASE Read \/ ReadEnds \/ Reap \/ WriteSucceeds \/ WriteWouldBlock
  BY <1>1
     DEF Read, ReadEnds, Reap, WriteSucceeds, WriteWouldBlock, history
<1>2. CASE PumpFails \/ WriteFails
  BY <1>2, PumpFailsMoves, BreakFields
     DEF WriteFails, history
<1>3. CASE PushStarts \/ FinishStarts \/ CancelStarts
  BY <1>3, EnsureFields, BreakFields
     DEF PushStarts, FinishStarts, FinishStep, CancelStarts, history
<1>4. CASE PushReturns \/ PollTakes \/ CleanupProcess
  BY <1>4, ReturnFields
     DEF PushReturns, PollTakes, CleanupProcess, history
<1>5. CASE PushFlushes \/ PushStores \/ FinishFlushes \/ FinishEnds \/ CancelTells
  BY <1>5
     DEF PushFlushes, PushStores, FinishFlushes, FinishStep, FinishEnds, CancelTells, history
<1>6. CASE CloseStdin \/ Wait \/ Grace \/ CancelWipes \/ CheckDeadline \/ UseFinal \/ Verdict
  BY <1>6
     DEF CloseStdin, Wait, Grace, CancelWipes, CheckDeadline, UseFinal, Verdict, history
<1>7. CASE PushAudio \/ PollEvents \/ Finish \/ Cancel \/ Drop
  BY <1>7
     DEF PushAudio, PollEvents, Finish, Cancel, Drop, history
<1>8. CASE HelperChatters \/ (\E line \in Lines : HelperSays(line)) \/ (\E how \in {"exited", "failed"} : HelperExits(how)) \/ Expire \/ UNCHANGED vars
  BY <1>8
     DEF HelperSays, HelperChatters, HelperExits, Expire, vars, history
<1> QED
  BY <1>1, <1>2, <1>3, <1>4, <1>5, <1>6, <1>7, <1>8, Zenon
     DEF Next, Session, Pump, PumpFails, Write, Push, Ends, Helper

-----------------------------------------------------------------------------
(* The theorems.                                                            *)

(* A session that was made has no helper, no call and nothing queued.       *)
LEMMA InitSatisfiesIInv == Init => IInv
<1> SUFFICES ASSUME Init PROVE IInv
  OBVIOUS
<1> USE DEF Init
<1>1. /\ "free" \in Names /\ "free" \in Steps /\ <<>> \in LineOrNone /\ <<>> \in Seq(Lines)
      /\ "none" \in Results /\ <<>> \in Seq(Events) /\ <<>> \in Seq(Sent)
  BY DEF Names, Steps, LineOrNone, Results
<1>2. CallType
  BY <1>1 DEF CallType, NoCall
<1>16. chatter \in BOOLEAN /\ fed \in BOOLEAN
  BY Zenon
<1>14. ScalarType
  <2>1. pushed \in 0..MaxPushes /\ pending \in 0..pushed
    BY StreamingConstants
  <2>2. /\ lifecycle \in {"active", "finished", "cancelled", "dropped"}
        /\ child \in {"none", "running", "exited", "failed", "reaped"}
        /\ completions \in {0, 1}
    OBVIOUS
  <2> QED
    BY <1>16, <2>1, <2>2 DEF ScalarType
<1>15. DataType
  BY <1>1 DEF DataType
<1>3. StateType
  BY <1>14, <1>15 DEF StateType
<1>4. /\ call.name = "free" /\ call.pc = "free" /\ call.next = "free" /\ call.after = "free"
      /\ call.got = <<>> /\ call.result = "none"
  BY DEF NoCall
<1>5. CallIsInPlace
  BY <1>4 DEF CallIsInPlace, StageOfCall, EndsAreDirect, LineOfCall, LifecycleOfCall, Writing,
              Heading
<1>6. PumpReads /\ HelperIsKnown /\ FinishIsOver /\ LostExitFails
  BY <1>4 DEF PumpReads, HelperIsKnown, FinishIsOver, LostExitFails, At
<1>7. Range(<<>>) = {} /\ Len(heard) = 0 /\ Len(events) = 0
  BY EmptyRange
<1>8. TextIsSomewhere
  BY <1>4, <1>7 DEF TextIsSomewhere, At
<1>9. WaitHasEnded /\ TextWasUsed /\ NoTextIsOver
  BY <1>4 DEF WaitHasEnded, TextWasUsed, NoTextIsOver, Heading
<1>10. CompletedIsLast
  BY <1>4, <1>7 DEF CompletedIsLast
<1>11. HeldChunk
  BY <1>4 DEF HeldChunk
<1>12. AudioInOrder
  BY <1>7 DEF AudioInOrder, AudioIsHeardInOrder, OnlyAudio
<1>13. AudioIsCounted
  BY <1>4, <1>7 DEF AudioIsCounted, Counted
<1> QED
  BY <1>2, <1>3, <1>5, <1>6, <1>8, <1>9, <1>10, <1>11, <1>12, <1>13 DEF IInv

(* Every step of the session, of its helper and of the clock keeps the      *)
(* invariant.                                                               *)
LEMMA StepKeepsIInv == IInv /\ [Next]_vars => IInv'
<1> SUFFICES ASSUME IInv, [Next]_vars PROVE IInv'
  OBVIOUS
<1>1. /\ CallType /\ StateType /\ CallIsInPlace /\ PumpReads /\ HelperIsKnown /\ FinishIsOver
      /\ LostExitFails
      /\ TextIsSomewhere /\ WaitHasEnded /\ TextWasUsed /\ NoTextIsOver /\ CompletedIsLast
      /\ HeldChunk /\ AudioInOrder /\ AudioIsCounted
  BY DEF IInv
<1>2. /\ ScalarType /\ DataType /\ heard \in Seq(Sent)
      /\ StageOfCall /\ EndsAreDirect /\ LineOfCall /\ LifecycleOfCall
  BY <1>1 DEF StateType, DataType, CallIsInPlace
<1>3. CallType' /\ ScalarType' /\ DataType'
  BY <1>1, <1>2, CallTypeStep, ScalarTypeStep, DataTypeStep
<1>4. StageOfCall' /\ EndsAreDirect' /\ LineOfCall' /\ LifecycleOfCall'
  BY <1>1, <1>2, StageStep, EndsStep, LineStep, LifecycleStep
<1>5. PumpReads' /\ HelperIsKnown' /\ FinishIsOver' /\ LostExitFails'
  BY <1>1, <1>2, PumpReadsStep, HelperStep, FinishStaysOver, LostExitStep
<1>6. TextIsSomewhere' /\ WaitHasEnded' /\ TextWasUsed' /\ NoTextIsOver' /\ CompletedIsLast'
  BY <1>1, TextStep, WaitStep, UsedStep, NoTextStep, CompletedStep
<1>7. HeldChunk' /\ AudioInOrder'
  BY <1>1, <1>2, HeldStep, OrderStep
<1>8. AudioIsCounted'
  <2>1. broken => broken'
    BY <1>1, BrokenStays
  <2>2. ~broken' => Counted'
    BY <1>1, <1>2, <2>1, CountStep DEF AudioIsCounted
  <2> QED
    BY <2>2 DEF AudioIsCounted
<1> QED
  BY <1>3, <1>4, <1>5, <1>6, <1>7, <1>8 DEF IInv, StateType, CallIsInPlace

(* The inductive invariant holds throughout a session.                      *)
THEOREM SessionInvariant == Spec => []IInv
  BY InitSatisfiesIInv, StepKeepsIInv, PTL DEF Spec

(* asr-contract.md:60, for any number of chunks and lines: a finish that    *)
(* says there was no text was given none, but for what was dropped with the *)
(* pipe of a helper that had exited, and lost or held back by a pump that   *)
(* failed.                                                                  *)
THEOREM TextUsed == Spec => []HelperTextIsUsed
<1>1. IInv => HelperTextIsUsed
  BY DEF IInv, TextWasUsed, NoTextIsOver, HelperTextIsUsed, TextIn
<1> QED
  BY <1>1, SessionInvariant, PTL

(* The chunks arrive in order, once, and the last one committed; Completed  *)
(* is said once and last; a session that is over leaves no helper.          *)
THEOREM SessionSound == Spec => []SessionIsSound
<1>1. IInv => SessionIsSound
  <2> SUFFICES ASSUME IInv PROVE SessionIsSound
    OBVIOUS
  <2>1. SessionTypeOK
    BY DEF IInv, StateType, ScalarType, DataType, HelperIsKnown, SessionTypeOK
  <2>2. AudioIsHeardInOrder
    BY DEF IInv, AudioInOrder
  <2>3. completions \in {0, 1}
    BY DEF IInv, StateType, ScalarType
  <2>4. call.name = "free" => NothingFollows
    <3>1. CASE completions = 0
      <4>1. "completed" \notin Range(events) /\ Range(events) = {events[i] : i \in 1..Len(events)}
        BY <3>1, SeqRange DEF IInv, StateType, DataType, CompletedIsLast
      <4> QED
        BY <4>1 DEF NothingFollows
    <3>2. CASE completions = 1
      BY <3>2 DEF IInv, CompletedIsLast
    <3> QED
      BY <2>3, <3>1, <3>2
  <2>5. call.name = "free" =>
          /\ call.result \notin {"none", "broken"} => child = "none"
          /\ lifecycle \in {"cancelled", "dropped"} => child = "none"
    BY DEF IInv, FinishIsOver, HelperIsKnown
  <2> QED
    BY <2>1, <2>2, <2>3, <2>4, <2>5 DEF SessionIsSound, SessionEndsCleanly, NothingFollows
<1> QED
  BY <1>1, SessionInvariant, PTL
=============================================================================
