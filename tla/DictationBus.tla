---------------------------- MODULE DictationBus ----------------------------
(***************************************************************************)
(* What a client that only listens to the signals of the daemon is         *)
(* promised, as docs/architecture/target-architecture.md draws it and the  *)
(* Fcitx addon relies on it: announced statuses move along the arrows of   *)
(* the state machine, a result is announced at most once per dictation and *)
(* only while it is being recognised or post-processed, and every          *)
(* dictation is announced over in the end.  The promise ends with the      *)
(* first live session that fails, for its emitter announces error and idle *)
(* outside the recording lock.  RecordingService implements it.            *)
(***************************************************************************)
EXTENDS Naturals

CONSTANT Recordings

VARIABLES
  announced, (* the last StatusChanged                                      *)
  due,       (* a result may still be announced                             *)
  results,   (* RecognitionResult signals of each recording                 *)
  excused    (* a live session has failed: nothing is promised any more     *)

busSpecVars == <<announced, due, results, excused>>

Init ==
  /\ announced = "idle"
  /\ due = FALSE
  /\ results = [s \in Recordings |-> 0]
  /\ excused = FALSE

Announce(from, to) ==
  /\ announced = from
  /\ announced' = to
  /\ due' = (to = "inferring" \/ (to = "postprocessing" /\ due))
  /\ UNCHANGED results

Record == Announce("idle", "recording")

(* Too short, or capture or delivery failed.                                *)
Discard == Announce("recording", "idle")

Infer == Announce("recording", "inferring")

Postprocess == due /\ Announce("inferring", "postprocessing")

Deliver(s) ==
  /\ due
  /\ results[s] = 0
  /\ results' = [results EXCEPT ![s] = 1]
  /\ due' = FALSE
  /\ UNCHANGED announced

(* Recognition or text processing failed.                                   *)
GiveUp ==
  /\ due
  /\ due' = FALSE
  /\ UNCHANGED <<announced, results>>

Over == ~due /\ (Announce("inferring", "idle") \/ Announce("postprocessing", "idle"))

Ending == Over \/ GiveUp \/ \E s \in Recordings : Deliver(s)

Next ==
  /\ Record \/ Discard \/ Infer \/ Postprocess \/ Ending
  /\ UNCHANGED excused

(* A live session fails.                                                    *)
Fail == excused' = TRUE

Safe == Init /\ [][Next \/ Fail]_busSpecVars

Spec ==
  /\ Safe
  /\ WF_busSpecVars(~excused /\ Ending /\ UNCHANGED excused)
=============================================================================
