--------------------------- MODULE StreamingDelivery ---------------------------
(***************************************************************************)
(* One recording into a streaming (Chunked) recognition session, from      *)
(* opening the microphone to the result: the capture start gate and the    *)
(* two locks of runtime/active_session.rs.  The audio thread of the        *)
(* recorder calls the chunk callback; the runtime, under its mutex, arms   *)
(* the gate, polls live and finishes.  They share the session (session     *)
(* lock) and the delivery state (state lock), never both at once, so a     *)
(* step is one critical section of either.  Any poll of the session may    *)
(* find a new event: a command helper answers in a process of its own.     *)
(* The failures of starting are StartRecordingFails of RecordingRuntime.   *)
(*                                                                         *)
(* Abstractions: samples are numbered as they are captured; gain leaves    *)
(* the number alone; the layout of one capture does not change (the        *)
(* PipeWire stream fixes it); an event is its number and its kind.         *)
(***************************************************************************)
EXTENDS Naturals, Sequences, FiniteSets, SequencesExt

CONSTANTS
  ChunkSizes,  (* sizes of capture chunks                                   *)
  BatchSize,   (* STREAMING_CHUNK_FRAMES                                    *)
  MaxSamples,  (* bound: samples captured                                   *)
  MaxEvents,   (* bound: events produced                                    *)
  Kinds,       (* the kinds of event the backend produces                   *)
  MayFail      (* whether pushing to or polling the session may fail        *)

ASSUME StreamConstants ==
  /\ ChunkSizes \subseteq Nat \ {0}
  /\ BatchSize \in Nat \ {0}
  /\ MaxSamples \in Nat /\ MaxEvents \in Nat
  /\ Kinds \subseteq {"partial", "final", "error"}
  /\ MayFail \in BOOLEAN

VARIABLES
  captured,   (* samples the recorder has captured                          *)
  arriving,   (* the chunk the audio thread holds in front of the gate      *)
  armed, buffered, (* CaptureStartGateState                                 *)
  pending, events, failed, (* StreamingDeliveryState; failed: error is Some *)
  delivery,   (* progress of deliver_streaming_chunk, on either thread      *)
  runtime,    (* what the runtime thread is doing                           *)
  polled,     (* events a live poll holds between its two locks             *)
  delivered,  (* samples pushed into the session, in order                  *)
  produced,   (* events the session has given away, numbered in order       *)
  partialText, (* RuntimeState.partial_text: the event last projected as text *)
  shown       (* history: partials and errors projected live                *)

gateVars    == <<arriving, armed, buffered>>
stateVars   == <<pending, events, failed>>
sessionVars == <<delivered, produced>>
liveVars    == <<partialText, shown>>
vars == <<captured, gateVars, stateVars, delivery, runtime, polled, sessionVars, liveVars>>

Rest == [pc |-> "rest", batches |-> <<>>, polled |-> <<>>]

Init ==
  /\ captured = 0
  /\ arriving = <<>>
  /\ armed = FALSE
  /\ buffered = <<>>
  /\ pending = <<>>
  /\ events = <<>>
  /\ failed = FALSE
  /\ delivery = Rest
  /\ runtime = "starting"
  /\ polled = <<>>
  /\ delivered = <<>>
  /\ produced = 0
  /\ partialText = 0
  /\ shown = <<>>

Outcomes == {"finished", "cancelled"}
Capturing == runtime \in {"starting", "replaying", "recording", "merging", "failing"}

-----------------------------------------------------------------------------
(* The session.                                                             *)

(* What poll_events may return: nothing new, or the next event.             *)
NewEvents ==
  {<<>>} \cup {<<[id |-> produced + 1, kind |-> kind]>> :
                 kind \in {k \in Kinds : produced < MaxEvents}}
Polls(found) == produced' = produced + Len(found)

-----------------------------------------------------------------------------
(* The audio thread and the gate.                                           *)

(* The audio thread takes a chunk when it is not delivering the last one.   *)
Capture(n) ==
  /\ Capturing
  /\ arriving = <<>>
  /\ delivery = Rest \/ runtime = "replaying"
  /\ captured + n <= MaxSamples
  /\ captured' = captured + n
  /\ arriving' = [i \in 1 .. n |-> captured + i]
  /\ UNCHANGED <<armed, buffered, stateVars, delivery, runtime, polled, sessionVars, liveVars>>

(* push_chunk, under the state lock: a chunk after an error is dropped.     *)
Pushed(chunk) ==
  LET all   == pending \o chunk
      whole == Len(all) \div BatchSize
  IN  IF failed THEN [pending |-> pending, batches |-> <<>>]
      ELSE [pending |-> SubSeq(all, whole * BatchSize + 1, Len(all)),
            batches |-> [i \in 1 .. whole |->
                           SubSeq(all, (i - 1) * BatchSize + 1, i * BatchSize)]]
PushChunk(chunk) ==
  /\ pending' = Pushed(chunk).pending
  /\ delivery' = IF Pushed(chunk).batches = <<>> THEN Rest
                 ELSE [Rest EXCEPT !.pc = "send", !.batches = Pushed(chunk).batches]
  /\ UNCHANGED <<events, failed>>

(* The gate is locked for as long as it replays.                            *)
EnterGate ==
  /\ arriving # <<>>
  /\ runtime # "replaying"
  /\ arriving' = <<>>
  /\ IF armed
     THEN /\ PushChunk(arriving)
          /\ UNCHANGED buffered
     ELSE /\ buffered' = Append(buffered, arriving)
          /\ UNCHANGED <<stateVars, delivery>>
  /\ UNCHANGED <<captured, armed, runtime, polled, sessionVars, liveVars>>

(* CaptureStartGate::arm, once the session exists.                          *)
Arm ==
  /\ runtime = "starting"
  /\ armed' = TRUE
  /\ runtime' = "replaying"
  /\ UNCHANGED <<captured, arriving, buffered, stateVars, delivery, polled, sessionVars, liveVars>>

Replay ==
  /\ runtime = "replaying"
  /\ delivery = Rest
  /\ IF buffered = <<>>
     THEN /\ runtime' = "recording"
          /\ UNCHANGED <<buffered, stateVars, delivery>>
     ELSE /\ PushChunk(Head(buffered))
          /\ buffered' = Tail(buffered)
          /\ UNCHANGED runtime
  /\ UNCHANGED <<captured, arriving, armed, polled, sessionVars, liveVars>>

-----------------------------------------------------------------------------
(* deliver_batch for each batch of a chunk.                                 *)

(* push_pcm and poll_events under one session lock.                         *)
SendBatch ==
  /\ delivery.pc = "send"
  /\ delivered' = delivered \o Head(delivery.batches)
  /\ \E found \in NewEvents :
       /\ Polls(found)
       /\ delivery' = [pc |-> "append", batches |-> Tail(delivery.batches), polled |-> found]
  /\ UNCHANGED <<captured, gateVars, stateVars, runtime, polled, liveVars>>

(* Pushing fails; what is left of the chunk is not pushed.                  *)
SendFails ==
  /\ MayFail
  /\ delivery.pc = "send"
  /\ delivery' = [Rest EXCEPT !.pc = "record"]
  /\ UNCHANGED <<captured, gateVars, stateVars, runtime, polled, sessionVars, liveVars>>

NextBatch == IF delivery.batches = <<>> THEN Rest
             ELSE [Rest EXCEPT !.pc = "send", !.batches = delivery.batches]

AppendEvents ==
  /\ delivery.pc = "append"
  /\ events' = events \o delivery.polled
  /\ delivery' = NextBatch
  /\ UNCHANGED <<captured, gateVars, pending, failed, runtime, polled, sessionVars, liveVars>>

(* record_streaming_error.                                                  *)
RecordError ==
  /\ delivery.pc = "record"
  /\ failed' = TRUE
  /\ delivery' = Rest
  /\ UNCHANGED <<captured, gateVars, pending, events, runtime, polled, sessionVars, liveVars>>

-----------------------------------------------------------------------------
(* take_live_recognition_events: poll under the session lock, then merge    *)
(* under the state lock.                                                    *)

LivePoll ==
  /\ runtime = "recording"
  /\ \E found \in NewEvents : Polls(found) /\ polled' = found
  /\ runtime' = "merging"
  /\ UNCHANGED <<captured, gateVars, stateVars, delivery, delivered, liveVars>>

LivePollFails ==
  /\ MayFail
  /\ runtime = "recording"
  /\ runtime' = "failing"
  /\ UNCHANGED <<captured, gateVars, stateVars, delivery, polled, sessionVars, liveVars>>

(* The events of seq of these kinds, in their order.                        *)
Only(kinds, seq) ==
  FlattenSeq([i \in DOMAIN seq |-> IF seq[i].kind \in kinds THEN <<seq[i]>> ELSE <<>>])

(* What a merge without a recorded error does to seq, all events drained:   *)
(* texts are projected in turn, a final one like a partial one, unless they *)
(* repeat the text before; errors are projected; finals are kept for stop.  *)
Project(seq) ==
  /\ LET texts == Only({"partial", "final"}, seq)
     IN  partialText' = IF texts = <<>> THEN partialText ELSE Last(texts).id
  /\ shown' = shown \o Only({"partial", "error"}, seq)
  /\ events' = Only({"final"}, seq)

LiveMerge_IgnoresError ==
  /\ runtime = "merging"
  /\ polled' = <<>>
  /\ runtime' = "recording"
  /\ Project(events \o polled)
  /\ UNCHANGED <<captured, gateVars, pending, failed, delivery, sessionVars>>

LiveMerge_DropsError ==
  /\ runtime = "merging"
  /\ polled' = <<>>
  /\ failed' = FALSE
  /\ runtime' = "recording"
  /\ Project(events \o polled)
  /\ UNCHANGED <<captured, gateVars, pending, delivery, sessionVars>>

(* A recorded error is taken and ends the recording.                        *)
LiveMerge ==
  /\ runtime = "merging"
  /\ polled' = <<>>
  /\ failed' = FALSE
  /\ IF failed
     THEN /\ runtime' = "failing"
          /\ UNCHANGED <<events, liveVars>>
     ELSE /\ runtime' = "recording"
          /\ Project(events \o polled)
  /\ UNCHANGED <<captured, gateVars, pending, delivery, sessionVars>>

(* enter_live_recording_error: clearing the callback waits for the audio    *)
(* thread to leave it, then the session is cancelled.                       *)
EnterLiveError ==
  /\ runtime = "failing"
  /\ arriving = <<>> /\ delivery = Rest
  /\ runtime' = "cancelled"
  /\ UNCHANGED <<captured, gateVars, stateVars, delivery, polled, sessionVars, liveVars>>

-----------------------------------------------------------------------------
(* Stopping.                                                                *)

(* The recorder stops between two callbacks; a short capture is cancelled.  *)
StopCapture ==
  /\ runtime = "recording"
  /\ arriving = <<>> /\ delivery = Rest
  /\ runtime' \in {"stopping", "cancelled"}
  /\ UNCHANGED <<captured, gateVars, stateVars, delivery, polled, sessionVars, liveVars>>

(* finish_streaming_delivery: the short last batch is pushed and polled.    *)
FinishDelivery ==
  /\ runtime = "stopping"
  /\ ~failed
  /\ IF pending = <<>>
     THEN UNCHANGED <<events, sessionVars>>
     ELSE /\ delivered' = delivered \o pending
          /\ \E found \in NewEvents : Polls(found) /\ events' = events \o found
  /\ pending' = <<>>
  /\ runtime' = "finishing"
  /\ UNCHANGED <<captured, gateVars, failed, delivery, polled, liveVars>>

(* An error recorded earlier, or one now.                                   *)
FinishDeliveryFails ==
  /\ runtime = "stopping"
  /\ failed \/ MayFail
  /\ runtime' = "cancelled"
  /\ UNCHANGED <<captured, gateVars, stateVars, delivery, polled, sessionVars, liveVars>>

(* The rest of begin_stop_inference: drain, finish, drain.  An Error event  *)
(* among what is returned fails it, a backend may fail by itself.           *)
FinishSession ==
  /\ runtime = "finishing"
  /\ \E found \in NewEvents : Polls(found) /\ events' = events \o found
  /\ LET error == \E i \in DOMAIN events' : events'[i].kind = "error"
     IN  runtime' \in (IF error THEN {} ELSE {"finished"}) \cup
                      (IF error \/ MayFail THEN {"cancelled"} ELSE {})
  /\ UNCHANGED <<captured, gateVars, pending, failed, delivery, polled, delivered, liveVars>>

-----------------------------------------------------------------------------
Deliver == SendBatch \/ SendFails \/ AppendEvents \/ RecordError
Starting == Arm \/ Replay
Live == LivePoll \/ LivePollFails \/ LiveMerge \/ EnterLiveError
Finish == FinishDelivery \/ FinishDeliveryFails \/ FinishSession

Next ==
  \/ \E n \in ChunkSizes : Capture(n)
  \/ EnterGate \/ Deliver \/ Starting \/ Live \/ StopCapture \/ Finish

(* Both threads run on; the emitter task polls every 40 ms.  Nobody is      *)
(* obliged to capture or to begin to stop.                                  *)
Fairness ==
  /\ WF_vars(EnterGate) /\ WF_vars(Deliver) /\ WF_vars(Starting)
  /\ WF_vars(Live) /\ WF_vars(Finish)

Spec == Init /\ [][Next]_vars /\ Fairness
-----------------------------------------------------------------------------
(* Properties.                                                              *)

Samples == 1 .. MaxSamples
Event == [id : 1 .. MaxEvents, kind : Kinds]

(* Every variable keeps its type.                                           *)
StreamTypeOK ==
  /\ captured \in 0 .. MaxSamples
  /\ arriving \in Seq(Samples) /\ pending \in Seq(Samples) /\ delivered \in Seq(Samples)
  /\ armed \in BOOLEAN /\ failed \in BOOLEAN
  /\ buffered \in Seq(Seq(Samples))
  /\ events \in Seq(Event) /\ polled \in Seq(Event) /\ shown \in Seq(Event)
  /\ delivery \in [pc : {"rest", "send", "append", "record"}, batches : Seq(Seq(Samples)),
                   polled : Seq(Event)]
  /\ runtime \in Outcomes \cup {"starting", "replaying", "recording", "merging", "failing",
                                "stopping", "finishing"}
  /\ produced \in 0 .. MaxEvents /\ partialText \in 0 .. MaxEvents
  /\ Len(pending) < BatchSize

(* What the session has been given and what still waits for it, in the      *)
(* order of the code's queues, is the capture without gap, repetition or    *)
(* inversion until a push fails: chunks that arrive while the session is    *)
(* being created or the gate replays do not overtake each other.            *)
OnTheWay == delivered \o FlattenSeq(delivery.batches) \o pending \o FlattenSeq(buffered) \o arriving
Broken == failed \/ delivery.pc = "record" \/ runtime \in {"failing", "cancelled"}
AudioStaysInOrder == ~Broken => OnTheWay = [i \in 1 .. captured |-> i]

(* A recognition that stop takes for good has heard the whole recording: a  *)
(* batch that could not be pushed is never passed over in silence.          *)
FinishedHeardEverything ==
  runtime = "finished" => delivered = [i \in 1 .. captured |-> i]

Keeps(seq, id) == Cardinality({i \in DOMAIN seq : seq[i].id = id})
Holders(id) ==
  Keeps(delivery.polled, id) + Keeps(polled, id) + Keeps(events, id)
    + Keeps(shown, id)

(* No event is lost or doubled between the two pollers, the shared list and *)
(* the emitter; only a recording that fails may forget some.  A final text  *)
(* that was shown live is still there for stop.                             *)
EventsAreHeldOnce ==
  runtime \notin {"failing", "cancelled"} => \A id \in 1 .. produced : Holders(id) = 1

(* Nothing that goes into the session or comes out of it is lost, doubled   *)
(* or, for audio, reordered.                                                *)
NothingLostOrDoubled ==
  StreamTypeOK /\ AudioStaysInOrder /\ FinishedHeardEverything /\ EventsAreHeldOnce

(* A failed delivery ends the recording, even if the user never stops it.   *)
FailureIsNoticed == failed ~> runtime = "cancelled"

(* The text a client sees never goes back: once a newer text has been       *)
(* projected, an older one is not signalled again.                          *)
TextsMoveForward == [][partialText' >= partialText]_partialText
=============================================================================
