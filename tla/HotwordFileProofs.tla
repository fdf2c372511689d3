-------------------------- MODULE HotwordFileProofs --------------------------
(* Proofs about HotwordFile, for any number of windows and versions.        *)
EXTENDS HotwordFile, TLAPS

(* From here to its removal the temporary path of a window holds a file.    *)
Drafting == {"publishNew", "preserve", "readRecovery", "readCurrent", "exchange",
             "checkPublished", "checkDisplaced", "finish", "checkRollback", "rollback",
             "removeRecovery", "removeDraft"}
Unpublished == {"publishNew", "preserve", "readRecovery", "readCurrent", "exchange"}
Refusing    == {"removeRecovery", "removeDraft"}

(* A recovery link may still be taken back, unless its window is one of     *)
(* these.                                                                   *)
Settled == {"ready", "finish", "removeDraft", "verify", "reload", "confirm",
            "retryReload", "retryConfirm"}

FilesAreWritten ==
  /\ data[NoFile] = 0
  /\ \A f \in Files : data[f] <= clock /\ (f > clock => data[f] = 0)
  /\ \A f, g \in Files : data[f] = data[g] /\ data[f] # 0 => f = g

PlacesAreApart ==
  /\ path <= clock
  /\ path # NoFile => data[path] # 0
  /\ \A w \in Windows :
       /\ draftAt[w] <= clock
       /\ draftAt[w] # NoFile => data[draftAt[w]] # 0 /\ draftAt[w] # path
       /\ \A u \in Windows : draftAt[u] = draftAt[w] /\ draftAt[w] # NoFile => u = w

HoldsDraft(w) ==
  /\ stage[w] \in Drafting => draftAt[w] # NoFile /\ window[w].draft \in 1 .. clock
  /\ stage[w] \in Unpublished => data[draftAt[w]] = window[w].draft
  /\ stage[w] \in Refusing => data[draftAt[w]] \in {window[w].draft} \cup overtaken

HoldsRecovery(w) ==
  /\ stage[w] = "readCurrent" /\ window[w].good => recovery[w] = window[w].baseline.file
  /\ stage[w] \in {"exchange", "checkPublished", "checkDisplaced"} =>
       recovery[w] = window[w].baseline.file
  /\ stage[w] = "finish" => recovery[w] = draftAt[w]

(* The links no cleanup takes away, and the versions accounted for.          *)
Secure ==
  kept \cup {path} \cup {draftAt[w] : w \in Windows}
    \cup {recovery[w] : w \in {u \in Windows : stage[u] \in Settled}}

Accounted == {data[f] : f \in Secure \cap Files} \cup replaced \cup rejected \cup overtaken

(* The versions the path shows, or may come to show by an exchange.         *)
Shown == {data[path]} \cup {data[draftAt[w]] : w \in Windows}

RejectedIsGone ==
  /\ \A v \in rejected : v <= clock
  /\ overtaken = {} => Shown \cap rejected = {}

HotwordInv ==
  /\ HotwordTypeOK
  /\ FilesAreWritten
  /\ PlacesAreApart
  /\ \A w \in Windows : HoldsDraft(w) /\ HoldsRecovery(w)
  /\ 1 .. clock \subseteq Accounted
  /\ RejectedIsGone

-----------------------------------------------------------------------------
(* What a step does to the file at the path, the drafts and the versions.   *)
Placing ==
  \/ UNCHANGED <<path, draftAt, data, clock>>
  \/ /\ UNCHANGED <<data, clock>>
     /\ \E w \in Windows : Exchange(w)
  \/ /\ path = NoFile /\ UNCHANGED <<data, clock>>
     /\ \E w \in Windows : path' = draftAt[w] /\ Unlink(draftAt, w)
  \/ /\ UNCHANGED <<path, data, clock>>
     /\ \E w \in Windows : Unlink(draftAt, w)
  \/ /\ clock < MaxVersions /\ clock' = clock + 1
     /\ data' = [data EXCEPT ![clock + 1] = clock + 1]
     /\ UNCHANGED path
     /\ \E w \in Windows : draftAt' = [draftAt EXCEPT ![w] = clock + 1]
  \/ ExternalWrite
  \/ ExternalDelete

LEMMA StepsPlace == Next => Placing
<1>1. ASSUME NEW w \in Windows, Step(w) PROVE Placing
  <2>1. CASE BeginSave(w)
    BY <2>1 DEF BeginSave, Placing
  <2>2. CASE PublishNew(w)
    BY <2>2 DEF PublishNew, Placing
  <2>3. CASE Publish(w) \/ Rollback(w)
    BY <2>3 DEF Publish, Rollback, Placing
  <2>4. CASE FinishPublish(w) \/ RemoveDraft(w)
    BY <2>4 DEF FinishPublish, RemoveDraft, Placing
  <2>5. CASE \/ LoadContent(w) \/ BeginRetry(w) \/ PublishNewFails(w) \/ Preserve(w)
             \/ PreserveFails(w) \/ PublishFails(w) \/ RollbackFails(w) \/ RemoveRecovery(w)
             \/ ConfirmApplied(w) \/ RetryApplied(w) \/ RetryFails(w)
    BY <2>5 DEF LoadContent, BeginRetry, PublishNewFails, Preserve, PreserveFails, PublishFails,
                RollbackFails, RemoveRecovery, ConfirmApplied, RetryApplied, RetryFails, Placing,
                directory
  <2>6. ASSUME NEW ok \in BOOLEAN,
               \/ RefreshConfig(w, ok) \/ ReadRecovery(w, ok) \/ ReadCurrent(w, ok)
               \/ CheckPublished(w, ok) \/ CheckDisplaced(w, ok) \/ CheckRollback(w, ok)
               \/ Verify(w, ok) \/ Reload(w, ok) \/ ConfirmSaved(w, ok) \/ RetryReload(w, ok)
        PROVE  Placing
    BY <2>6 DEF RefreshConfig, ReadRecovery, ReadCurrent, CheckPublished, CheckDisplaced,
                CheckRollback, Verify, Reload, ConfirmSaved, RetryReload, Placing, directory
  <2> QED
    BY <1>1, <2>1, <2>2, <2>3, <2>4, <2>5, <2>6 DEF Step
<1>2. ASSUME NEW w \in Windows, Crash(w) PROVE Placing
  BY <1>2 DEF Crash, Placing
<1> QED
  BY <1>1, <1>2 DEF Next, Placing

LEMMA KeepsFilesWritten ==
  ASSUME HotwordTypeOK, FilesAreWritten, PlacesAreApart, Placing
  PROVE  FilesAreWritten'
<1> USE HotwordConstants DEF HotwordTypeOK, Versions, Files, NoFile
<1>1. CASE UNCHANGED <<data, clock>>
  BY <1>1 DEF FilesAreWritten
<1>2. ASSUME clock < MaxVersions, clock' = clock + 1, NEW f \in Files, f = clock + 1 \/ f = path,
             data' = [data EXCEPT ![f] = clock + 1]
      PROVE  FilesAreWritten'
  <2>1. \A g \in Files : data'[g] = IF g = f THEN clock + 1 ELSE data[g]
    BY <1>2
  <2>2. data'[NoFile] = 0
    BY <1>2 DEF FilesAreWritten
  <2>3. f <= clock + 1
    BY <1>2 DEF PlacesAreApart
  <2>4. \A g \in Files : data'[g] <= clock' /\ (g > clock' => data'[g] = 0)
    BY <1>2, <2>1, <2>3 DEF FilesAreWritten
  <2>5. ASSUME NEW g \in Files, NEW h \in Files, data'[g] = data'[h], data'[g] # 0
        PROVE  g = h
    BY <1>2, <2>1, <2>5 DEF FilesAreWritten
  <2> QED
    BY <2>2, <2>4, <2>5 DEF FilesAreWritten
<1>3. ASSUME clock < MaxVersions, clock' = clock + 1,
             data' = [data EXCEPT ![clock + 1] = clock + 1]
      PROVE  FilesAreWritten'
  <2>1. clock + 1 \in Files
    BY <1>3
  <2> QED
    BY <1>2, <1>3, <2>1
<1>4. ASSUME clock < MaxVersions, clock' = clock + 1, path # NoFile,
             data' = [data EXCEPT ![path] = clock + 1]
      PROVE  FilesAreWritten'
  <2>1. path \in Files
    BY <1>4
  <2> QED
    BY <1>2, <1>4, <2>1
<1>5. CASE ExternalWrite
  BY <1>3, <1>4, <1>5 DEF ExternalWrite
<1>6. CASE ExternalDelete
  BY <1>1, <1>6 DEF ExternalDelete
<1> QED
  BY <1>1, <1>3, <1>5, <1>6 DEF Placing

LEMMA KeepsPlacesApart ==
  ASSUME HotwordTypeOK, FilesAreWritten, PlacesAreApart, Placing
  PROVE  PlacesAreApart'
<1> USE HotwordConstants DEF HotwordTypeOK, Versions, Files, NoFile
<1>1. CASE UNCHANGED <<path, draftAt, data, clock>>
  BY <1>1 DEF PlacesAreApart
<1>2. ASSUME NEW w \in Windows, Exchange(w), UNCHANGED <<data, clock>>
      PROVE  PlacesAreApart'
  BY <1>2 DEF PlacesAreApart, Exchange
<1>3. ASSUME NEW w \in Windows, path = NoFile, path' = draftAt[w], Unlink(draftAt, w),
             UNCHANGED <<data, clock>>
      PROVE  PlacesAreApart'
  BY <1>3 DEF PlacesAreApart, Unlink
<1>4. ASSUME NEW w \in Windows, Unlink(draftAt, w), UNCHANGED <<path, data, clock>>
      PROVE  PlacesAreApart'
  BY <1>4 DEF PlacesAreApart, Unlink
<1>5. ASSUME NEW w \in Windows, clock < MaxVersions, clock' = clock + 1, UNCHANGED path,
             data' = [data EXCEPT ![clock + 1] = clock + 1],
             draftAt' = [draftAt EXCEPT ![w] = clock + 1]
      PROVE  PlacesAreApart'
  BY <1>5 DEF PlacesAreApart
<1>6. CASE ExternalWrite
  <2>1. CASE path' = clock + 1 /\ data' = [data EXCEPT ![clock + 1] = clock + 1]
    BY <1>6, <2>1 DEF PlacesAreApart, ExternalWrite
  <2>2. CASE path # NoFile /\ data' = [data EXCEPT ![path] = clock + 1] /\ UNCHANGED path
    BY <1>6, <2>2 DEF PlacesAreApart, ExternalWrite
  <2> QED
    BY <1>6, <2>1, <2>2 DEF ExternalWrite
<1>7. CASE ExternalDelete
  BY <1>7 DEF PlacesAreApart, ExternalDelete
<1> QED
  BY <1>1, <1>2, <1>3, <1>4, <1>5, <1>6, <1>7 DEF Placing

-----------------------------------------------------------------------------
(* What a step does to the knowledge of the windows.                        *)
Unmoved(v) ==
  /\ window'[v].baseline = window[v].baseline
  /\ window'[v].draft = window[v].draft
  /\ window'[v].good = window[v].good

Learns(w, r) ==
  /\ window' \in [Windows -> Knowledge]
  /\ \A v \in Windows \ {w} : Unmoved(v)
  /\ window'[w].baseline = r.baseline
  /\ window'[w].draft = r.draft
  /\ window'[w].good = r.good

LEMMA NoSnapshotIsSnapshot == NoSnapshot \in Snapshots
BY HotwordConstants DEF NoSnapshot, Snapshots, Files, Versions, NoFile

LEMMA ForgettingIsKnowledge ==
  ASSUME NEW r \in Knowledge
  PROVE  /\ [r EXCEPT !.claim = NoSnapshot] \in Knowledge
         /\ [r EXCEPT !.claim = NoSnapshot].baseline = r.baseline
         /\ [r EXCEPT !.claim = NoSnapshot].draft = r.draft
         /\ [r EXCEPT !.claim = NoSnapshot].good = r.good
BY NoSnapshotIsSnapshot DEF Knowledge

LEMMA KnowLearns ==
  ASSUME NEW w \in Windows, NEW r \in Knowledge, window \in [Windows -> Knowledge], Know(w, r)
  PROVE  Learns(w, r)
BY DEF Know, Learns, Unmoved

LEMMA TouchingLearns ==
  ASSUME NEW w \in Windows, NEW r \in Knowledge, NEW files, window \in [Windows -> Knowledge],
         KnowTouching(w, r, files)
  PROVE  Learns(w, r)
<1> DEFINE now(v) == IF v = w THEN r ELSE window[v]
           later(v) == IF now(v).claim.file \in files
                       THEN [now(v) EXCEPT !.claim = NoSnapshot] ELSE now(v)
<1>1. window' = [v \in Windows |-> later(v)]
  BY DEF KnowTouching
<1>2. \A v \in Windows : now(v) \in Knowledge
  OBVIOUS
<1>3. ASSUME NEW v \in Windows
      PROVE  /\ later(v) \in Knowledge
             /\ later(v).baseline = now(v).baseline
             /\ later(v).draft = now(v).draft
             /\ later(v).good = now(v).good
  <2>1. CASE now(v).claim.file \in files
    BY <1>2, <2>1, ForgettingIsKnowledge
  <2>2. CASE now(v).claim.file \notin files
    BY <1>2, <2>2
  <2> QED
    BY <2>1, <2>2
<1> HIDE DEF later
<1>4. window' \in [Windows -> Knowledge]
  BY <1>1, <1>3
<1>5. \A v \in Windows : window'[v] = later(v)
  BY <1>1
<1> QED
  BY <1>3, <1>4, <1>5 DEF Learns, Unmoved

LEMMA SnapshotsAreTyped ==
  ASSUME HotwordTypeOK, NEW f \in Files \cup {NoFile}
  PROVE  Snapshot(f) \in Snapshots
BY HotwordConstants DEF HotwordTypeOK, Snapshot, Snapshots, Files, Versions, NoFile

LEMMA EditingIsKnowledge ==
  ASSUME NEW b \in Snapshots, NEW c \in Snapshots
  PROVE  /\ Editing(b, c) \in Knowledge
         /\ Editing(b, c).baseline = b
BY DEF Editing, Knowledge

LEMMA FailedIsKnowledge ==
  ASSUME HotwordTypeOK, NEW w \in Windows
  PROVE  Failed(w) \in Knowledge
<1>1. window[w] \in Knowledge
  BY DEF HotwordTypeOK
<1>2. window[w].baseline \in Snapshots /\ window[w].claim \in Snapshots
  BY <1>1 DEF Knowledge
<1> QED
  BY <1>2, EditingIsKnowledge DEF Failed

(* The knowledge a step changes by one field.                               *)
LEMMA FieldsAreKnowledge ==
  ASSUME NEW r \in Knowledge
  PROVE  /\ \A g \in BOOLEAN :
              LET n == [r EXCEPT !.good = g]
              IN  n \in Knowledge /\ n.baseline = r.baseline /\ n.draft = r.draft /\ n.good = g
         /\ \A d \in Files :
              LET n == [r EXCEPT !.draft = d]
              IN  n \in Knowledge /\ n.baseline = r.baseline /\ n.draft = d /\ n.good = r.good
         /\ \A c \in Snapshots :
              LET n == [r EXCEPT !.claim = c]
              IN  n \in Knowledge /\ n.baseline = r.baseline /\ n.draft = r.draft /\ n.good = r.good
         /\ \A h \in Versions \cup {0, Unheard} :
              LET n == [r EXCEPT !.heard = h]
              IN  n \in Knowledge /\ n.baseline = r.baseline /\ n.draft = r.draft /\ n.good = r.good
<1>1. ASSUME NEW g \in BOOLEAN
      PROVE  LET n == [r EXCEPT !.good = g]
             IN  n \in Knowledge /\ n.baseline = r.baseline /\ n.draft = r.draft /\ n.good = g
  BY DEF Knowledge
<1>2. ASSUME NEW d \in Files
      PROVE  LET n == [r EXCEPT !.draft = d]
             IN  n \in Knowledge /\ n.baseline = r.baseline /\ n.draft = d /\ n.good = r.good
  BY DEF Knowledge
<1>3. ASSUME NEW c \in Snapshots
      PROVE  LET n == [r EXCEPT !.claim = c]
             IN  n \in Knowledge /\ n.baseline = r.baseline /\ n.draft = r.draft /\ n.good = r.good
  BY DEF Knowledge
<1>4. ASSUME NEW h \in Versions \cup {0, Unheard}
      PROVE  LET n == [r EXCEPT !.heard = h]
             IN  n \in Knowledge /\ n.baseline = r.baseline /\ n.draft = r.draft /\ n.good = r.good
  BY DEF Knowledge
<1> QED
  BY <1>1, <1>2, <1>3, <1>4

Others(w) == \A v \in Windows \ {w} : Unmoved(v)

LEMMA StepLearns ==
  ASSUME HotwordTypeOK, NEW w \in Windows, Step(w) \/ Crash(w)
  PROVE  window' \in [Windows -> Knowledge] /\ Others(w)
<1> DEFINE Goal == window' \in [Windows -> Knowledge] /\ Others(w)
<1>1. /\ window \in [Windows -> Knowledge]
      /\ window[w] \in Knowledge
      /\ window[w].baseline \in Snapshots
      /\ window[w].claim \in Snapshots
      /\ path \in Files \cup {NoFile}
  BY DEF HotwordTypeOK, Knowledge
<1>2. ASSUME UNCHANGED window PROVE Goal
  BY <1>1, <1>2 DEF Others, Unmoved
<1>3. ASSUME NEW r \in Knowledge, Know(w, r) PROVE Goal
  BY <1>1, <1>3, KnowLearns DEF Learns, Others
<1>4. ASSUME NEW r \in Knowledge, NEW files, KnowTouching(w, r, files) PROVE Goal
  BY <1>1, <1>4, TouchingLearns DEF Learns, Others
<1>5. ASSUME NEW files, Touch(w, files) PROVE Goal
  BY <1>1, <1>4, <1>5 DEF Touch
<1>6. ASSUME NEW b \in Snapshots, NEW c \in Snapshots, Know(w, Editing(b, c)) PROVE Goal
  BY <1>3, <1>6, EditingIsKnowledge
<1>7. /\ Snapshot(path) \in Snapshots
      /\ \A ok \in BOOLEAN : Read(ok) \in Snapshots
  BY <1>1, SnapshotsAreTyped, NoSnapshotIsSnapshot DEF Read
<1>8. ASSUME NEW g \in BOOLEAN, Know(w, [window[w] EXCEPT !.good = g]) PROVE Goal
  BY <1>1, <1>3, <1>8, FieldsAreKnowledge
<1>9. ASSUME NEW h \in Versions \cup {0, Unheard}, Know(w, [window[w] EXCEPT !.heard = h])
      PROVE  Goal
  BY <1>1, <1>3, <1>9, FieldsAreKnowledge
<1>10. ASSUME NEW g \in BOOLEAN, NEW files,
              KnowTouching(w, [window[w] EXCEPT !.good = g], files)
       PROVE  Goal
  BY <1>1, <1>4, <1>10, FieldsAreKnowledge
<1>11. ASSUME Know(w, Failed(w)) PROVE Goal
  BY <1>3, <1>11, FailedIsKnowledge
<1>12. data[path] \in Versions \cup {0, Unheard} /\ Unheard \in Versions \cup {0, Unheard}
  BY <1>1 DEF HotwordTypeOK
<1> SUFFICES Goal
  OBVIOUS
<1> HIDE DEF Goal
<1>13. CASE LoadContent(w)
  <2> DEFINE c == IF window[w].claim = Snapshot(path) THEN window[w].claim ELSE NoSnapshot
  <2>1. c \in Snapshots
    BY <1>1, NoSnapshotIsSnapshot
  <2>2. Know(w, Editing(Snapshot(path), c))
    BY <1>13 DEF LoadContent
  <2> QED
    BY <1>6, <1>7, <2>1, <2>2
<1>14. CASE BeginSave(w)
  <2>1. clock + 1 \in Files
    BY <1>14, HotwordConstants DEF BeginSave, HotwordTypeOK, Files, Versions
  <2>2. [window[w] EXCEPT !.draft = clock + 1] \in Knowledge
    BY <1>1, <2>1, FieldsAreKnowledge
  <2> QED
    BY <1>3, <1>14, <2>2 DEF BeginSave
<1>15. CASE PublishNew(w) \/ FinishPublish(w)
  BY <1>10, <1>15 DEF PublishNew, FinishPublish
<1>16. CASE Preserve(w) \/ Publish(w) \/ RemoveRecovery(w)
  BY <1>5, <1>16 DEF Preserve, Publish, RemoveRecovery
<1>17. CASE Rollback(w)
  BY <1>4, <1>5, <1>17, FailedIsKnowledge DEF Rollback
<1>18. CASE RemoveDraft(w)
  BY <1>4, <1>18, FailedIsKnowledge DEF RemoveDraft
<1>19. CASE RollbackFails(w) \/ RetryFails(w)
  BY <1>11, <1>19 DEF RollbackFails, RetryFails, Fails
<1>20. CASE ConfirmApplied(w) \/ RetryApplied(w)
  BY <1>1, <1>6, <1>20, NoSnapshotIsSnapshot DEF ConfirmApplied, RetryApplied
<1>21. CASE BeginRetry(w) \/ PublishNewFails(w) \/ PreserveFails(w) \/ PublishFails(w)
  BY <1>2, <1>21 DEF BeginRetry, PublishNewFails, PreserveFails, PublishFails
<1>22. CASE Crash(w)
  BY <1>6, <1>22, NoSnapshotIsSnapshot DEF Crash, Closed
<1>23. ASSUME NEW ok \in BOOLEAN, RefreshConfig(w, ok) PROVE Goal
  <2> DEFINE c == IF window[w].claim = Read(ok) THEN window[w].claim ELSE NoSnapshot
  <2>1. c \in Snapshots
    BY <1>1, NoSnapshotIsSnapshot
  <2>2. Know(w, Editing(NoSnapshot, c))
    BY <1>23 DEF RefreshConfig
  <2> QED
    BY <1>6, <2>1, <2>2, NoSnapshotIsSnapshot
<1>24. ASSUME NEW ok \in BOOLEAN, ReadRecovery(w, ok) PROVE Goal
  <2> DEFINE g == Snapshot(recovery[w]) = window[w].baseline
  <2>1. g \in BOOLEAN
    OBVIOUS
  <2> QED
    BY <1>8, <1>24, <2>1 DEF ReadRecovery
<1>25. ASSUME NEW ok \in BOOLEAN, CheckPublished(w, ok) PROVE Goal
  <2> DEFINE g == Read(ok) = Draft(w)
  <2>1. g \in BOOLEAN
    OBVIOUS
  <2> QED
    BY <1>8, <1>25, <2>1 DEF CheckPublished
<1>26. ASSUME NEW ok \in BOOLEAN, ReadCurrent(w, ok) \/ CheckDisplaced(w, ok) PROVE Goal
  BY <1>2, <1>26 DEF ReadCurrent, CheckDisplaced
<1>27. ASSUME NEW ok \in BOOLEAN, CheckRollback(w, ok) \/ RetryReload(w, ok) PROVE Goal
  BY <1>2, <1>9, <1>11, <1>12, <1>27 DEF CheckRollback, RetryReload, Fails
<1>28. ASSUME NEW ok \in BOOLEAN, Verify(w, ok) PROVE Goal
  BY <1>1, <1>3, <1>7, <1>28, FieldsAreKnowledge DEF Verify
<1>29. ASSUME NEW ok \in BOOLEAN, Reload(w, ok) PROVE Goal
  <2>1. (IF ok THEN data[path] ELSE Unheard) \in Versions \cup {0, Unheard}
    BY <1>12
  <2> QED
    BY <1>9, <1>29, <2>1 DEF Reload
<1>30. ASSUME NEW ok \in BOOLEAN, ConfirmSaved(w, ok) PROVE Goal
  <2> DEFINE b == IF ok /\ StillPublished(w) THEN window[w].claim ELSE NoSnapshot
             c == IF window[w].heard # Unheard THEN NoSnapshot ELSE b
  <2>1. b \in Snapshots /\ c \in Snapshots
    BY <1>1, NoSnapshotIsSnapshot
  <2>2. Know(w, Editing(b, c))
    BY <1>30 DEF ConfirmSaved
  <2> QED
    BY <1>6, <2>1, <2>2
<1> QED
  BY <1>13, <1>14, <1>15, <1>16, <1>17, <1>18, <1>19, <1>20, <1>21, <1>22, <1>23, <1>24,
     <1>25, <1>26, <1>27, <1>28, <1>29, <1>30 DEF Step

(* What a step does to the progress and the links of the windows.           *)
Moves(w) ==
  /\ \E pc \in Stages : stage' = [stage EXCEPT ![w] = pc]
  /\ \E f \in {NoFile, path, recovery[w]} : recovery' = [recovery EXCEPT ![w] = f]
  /\ \E f \in Files \cup {NoFile} : draftAt' = [draftAt EXCEPT ![w] = f]

LEMMA StepMoves ==
  ASSUME HotwordTypeOK, NEW w \in Windows, Step(w) \/ Crash(w)
  PROVE  Moves(w)
<1> DEFINE St == \E pc \in Stages : stage' = [stage EXCEPT ![w] = pc]
           Re == \E f \in {NoFile, path, recovery[w]} : recovery' = [recovery EXCEPT ![w] = f]
           Dr == \E f \in Files \cup {NoFile} : draftAt' = [draftAt EXCEPT ![w] = f]
<1>1. ASSUME NEW pc \in Stages, Goto(w, pc) PROVE St
  BY <1>1 DEF Goto
<1>2. UNCHANGED stage => St
  <2>1. ASSUME UNCHANGED stage PROVE stage' = [stage EXCEPT ![w] = stage[w]] /\ stage[w] \in Stages
    BY <2>1 DEF HotwordTypeOK
  <2> QED
    BY <2>1
<1>3. UNCHANGED recovery => Re
  <2>1. ASSUME UNCHANGED recovery PROVE recovery' = [recovery EXCEPT ![w] = recovery[w]]
    BY <2>1 DEF HotwordTypeOK
  <2> QED
    BY <2>1
<1>4. UNCHANGED draftAt => Dr
  <2>1. ASSUME UNCHANGED draftAt
        PROVE  draftAt' = [draftAt EXCEPT ![w] = draftAt[w]] /\ draftAt[w] \in Files \cup {NoFile}
    BY <2>1 DEF HotwordTypeOK
  <2> QED
    BY <2>1
<1>5. path \in Files \cup {NoFile} /\ NoFile \in Files \cup {NoFile}
  BY DEF HotwordTypeOK
<1>6. ASSUME Fails(w) PROVE St
  BY <1>1, <1>6 DEF Fails, Stages
<1> SUFFICES St /\ Re /\ Dr
  BY DEF Moves
<1> HIDE DEF St, Re, Dr
<1>7. CASE LoadContent(w)
  BY <1>2, <1>3, <1>4, <1>7 DEF LoadContent, directory
<1>8. CASE BeginSave(w)
  <2>1. clock + 1 \in Files
    BY <1>8, HotwordConstants DEF BeginSave, HotwordTypeOK, Files, Versions
  <2>2. St
    BY <1>1, <1>8 DEF BeginSave, Stages
  <2>3. Re /\ Dr
    BY <1>8, <2>1 DEF BeginSave, Re, Dr
  <2> QED
    BY <2>2, <2>3
<1>9. CASE PublishNew(w) \/ FinishPublish(w) \/ RemoveDraft(w)
  <2>1. St /\ Re
    BY <1>1, <1>3, <1>9 DEF PublishNew, FinishPublish, RemoveDraft, Stages
  <2>2. Dr
    BY <1>5, <1>9 DEF PublishNew, FinishPublish, RemoveDraft, Unlink, Dr
  <2> QED
    BY <2>1, <2>2
<1>10. CASE Preserve(w) \/ RemoveRecovery(w)
  <2>1. St /\ Dr
    BY <1>1, <1>4, <1>10 DEF Preserve, RemoveRecovery, Stages
  <2>2. Re
    BY <1>10 DEF Preserve, RemoveRecovery, Unlink, Re
  <2> QED
    BY <2>1, <2>2
<1>11. CASE Publish(w) \/ Rollback(w)
  <2>1. St /\ Re
    BY <1>1, <1>3, <1>11 DEF Publish, Rollback, Exchange, Stages
  <2>2. Dr
    BY <1>5, <1>11 DEF Publish, Rollback, Exchange, Dr
  <2> QED
    BY <2>1, <2>2
<1>12. CASE \/ BeginRetry(w) \/ PublishNewFails(w) \/ PreserveFails(w) \/ PublishFails(w)
            \/ RollbackFails(w) \/ ConfirmApplied(w) \/ RetryApplied(w) \/ RetryFails(w)
  <2>1. St
    BY <1>1, <1>6, <1>12 DEF BeginRetry, PublishNewFails, PreserveFails, PublishFails,
       RollbackFails, ConfirmApplied, RetryApplied, RetryFails, Stages
  <2>2. Re /\ Dr
    BY <1>3, <1>4, <1>12 DEF BeginRetry, PublishNewFails, PreserveFails, PublishFails,
       RollbackFails, ConfirmApplied, RetryApplied, RetryFails, directory
  <2> QED
    BY <2>1, <2>2
<1>13. CASE Crash(w)
  <2>1. St
    BY <1>1, <1>13 DEF Crash, Stages
  <2>2. Re /\ Dr
    BY <1>5, <1>13 DEF Crash, Unlink, Re, Dr
  <2> QED
    BY <2>1, <2>2
<1>14. ASSUME NEW ok \in BOOLEAN,
              \/ RefreshConfig(w, ok) \/ ReadRecovery(w, ok) \/ ReadCurrent(w, ok)
              \/ CheckPublished(w, ok) \/ CheckDisplaced(w, ok) \/ CheckRollback(w, ok)
              \/ Verify(w, ok) \/ Reload(w, ok) \/ ConfirmSaved(w, ok) \/ RetryReload(w, ok)
       PROVE  St /\ Re /\ Dr
  <2>1. St
    BY <1>1, <1>2, <1>6, <1>14 DEF RefreshConfig, ReadRecovery, ReadCurrent, CheckPublished,
       CheckDisplaced, CheckRollback, Verify, Reload, ConfirmSaved, RetryReload, Stages
  <2>2. Re /\ Dr
    BY <1>3, <1>4, <1>14 DEF RefreshConfig, ReadRecovery, ReadCurrent, CheckPublished,
       CheckDisplaced, CheckRollback, Verify, Reload, ConfirmSaved, RetryReload, directory
  <2> QED
    BY <2>1, <2>2
<1> QED
  BY <1>7, <1>8, <1>9, <1>10, <1>11, <1>12, <1>13, <1>14 DEF Step

LEMMA PlacingKeepsType ==
  ASSUME HotwordTypeOK, Placing
  PROVE  /\ path' \in Files \cup {NoFile}
         /\ data' \in [Files \cup {NoFile} -> Versions \cup {0}]
         /\ clock' \in Versions
         /\ clock' >= clock
BY HotwordConstants DEF HotwordTypeOK, Placing, Exchange, Unlink, ExternalWrite, ExternalDelete,
   Files, Versions, NoFile

LEMMA StepKeepsType ==
  ASSUME HotwordInv, NEW w \in Windows, Step(w) \/ Crash(w)
  PROVE  HotwordTypeOK'
<1>1. HotwordTypeOK
  BY DEF HotwordInv
<1>2. Placing
  BY StepsPlace DEF Next
<1>3. /\ path' \in Files \cup {NoFile}
      /\ data' \in [Files \cup {NoFile} -> Versions \cup {0}]
      /\ clock' \in Versions
  BY <1>1, <1>2, PlacingKeepsType
<1>4. window' \in [Windows -> Knowledge]
  BY <1>1, StepLearns
<1>5. Moves(w)
  BY <1>1, StepMoves
<1>6. /\ stage' \in [Windows -> Stages]
      /\ draftAt' \in [Windows -> Files \cup {NoFile}]
      /\ recovery' \in [Windows -> Files \cup {NoFile}]
  BY <1>1, <1>5 DEF HotwordTypeOK, Moves
<1>7. kept' \in SUBSET Files
  <2>1. CASE UNCHANGED kept
    BY <1>1, <2>1 DEF HotwordTypeOK
  <2>2. CASE kept' = (kept \cup {draftAt[w], recovery[w]}) \ {NoFile}
    BY <1>1, <2>2 DEF HotwordTypeOK
  <2> QED
    BY <2>1, <2>2 DEF Step, Crash, LoadContent, BeginSave, BeginRetry, PublishNew, PublishNewFails,
       Preserve, PreserveFails, Publish, PublishFails, FinishPublish, Rollback, RollbackFails,
       RemoveRecovery, RemoveDraft, ConfirmApplied, RetryApplied, RetryFails, RefreshConfig,
       ReadRecovery, ReadCurrent, CheckPublished, CheckDisplaced, CheckRollback, Verify, Reload,
       ConfirmSaved, RetryReload, Exchange, directory
<1>8. replaced' = replaced
  BY DEF Step, Crash, LoadContent, BeginSave, BeginRetry, PublishNew, PublishNewFails,
     Preserve, PreserveFails, Publish, PublishFails, FinishPublish, Rollback, RollbackFails,
     RemoveRecovery, RemoveDraft, ConfirmApplied, RetryApplied, RetryFails, RefreshConfig,
     ReadRecovery, ReadCurrent, CheckPublished, CheckDisplaced, CheckRollback, Verify, Reload,
     ConfirmSaved, RetryReload, history
<1>9. rejected' \subseteq Versions
  <2>1. CASE UNCHANGED rejected
    BY <1>1, <2>1 DEF HotwordTypeOK
  <2>2. CASE RemoveDraft(w)
    <3>1. window[w].draft \in 1 .. clock
      BY <2>2 DEF HotwordInv, HoldsDraft, RemoveDraft, At, Drafting
    <3>2. window[w].draft \in Versions
      BY <1>1, <3>1, HotwordConstants DEF HotwordTypeOK, Versions
    <3>3. rejected' = rejected \cup {window[w].draft} /\ rejected \subseteq Versions
      BY <1>1, <2>2 DEF RemoveDraft, HotwordTypeOK
    <3> QED
      BY <3>2, <3>3
  <2> QED
    BY <2>1, <2>2 DEF Step, Crash, LoadContent, BeginSave, BeginRetry, PublishNew, PublishNewFails,
       Preserve, PreserveFails, Publish, PublishFails, FinishPublish, Rollback, RollbackFails,
       RemoveRecovery, ConfirmApplied, RetryApplied, RetryFails, RefreshConfig,
       ReadRecovery, ReadCurrent, CheckPublished, CheckDisplaced, CheckRollback, Verify, Reload,
       ConfirmSaved, RetryReload, history
<1>10. overtaken' \subseteq Versions
  <2>1. CASE UNCHANGED overtaken
    BY <1>1, <2>1 DEF HotwordTypeOK
  <2>2. CASE Rollback(w)
    <3>1. path # NoFile
      BY <2>2 DEF Rollback, Exchange
    <3>2. data[path] \in Versions
      BY <1>1, <3>1 DEF HotwordInv, PlacesAreApart, HotwordTypeOK
    <3> QED
      BY <1>1, <2>2, <3>2 DEF Rollback, HotwordTypeOK
  <2> QED
    BY <2>1, <2>2 DEF Step, Crash, LoadContent, BeginSave, BeginRetry, PublishNew, PublishNewFails,
       Preserve, PreserveFails, Publish, PublishFails, FinishPublish, RollbackFails,
       RemoveRecovery, RemoveDraft, ConfirmApplied, RetryApplied, RetryFails, RefreshConfig,
       ReadRecovery, ReadCurrent, CheckPublished, CheckDisplaced, CheckRollback, Verify, Reload,
       ConfirmSaved, RetryReload, history
<1> QED
  BY <1>1, <1>3, <1>4, <1>6, <1>7, <1>8, <1>9, <1>10 DEF HotwordTypeOK

LEMMA KeepsType ==
  ASSUME HotwordInv, Next
  PROVE  HotwordTypeOK'
<1>1. CASE ExternalWrite \/ ExternalDelete
  <2>1. HotwordTypeOK /\ (path # NoFile => data[path] # 0) /\ Placing
    BY <1>1 DEF HotwordInv, PlacesAreApart, Placing
  <2>2. replaced' \subseteq Versions
    BY <1>1, <2>1 DEF ExternalWrite, ExternalDelete, HotwordTypeOK
  <2> QED
    BY <1>1, <2>1, <2>2, PlacingKeepsType DEF HotwordTypeOK, ExternalWrite, ExternalDelete
<1> QED
  BY <1>1, StepKeepsType DEF Next

-----------------------------------------------------------------------------
(* The windows that do not move keep what they hold.                        *)
Still(v) ==
  /\ Unmoved(v)
  /\ stage'[v] = stage[v]
  /\ draftAt'[v] = draftAt[v]
  /\ recovery'[v] = recovery[v]

LEMMA OthersStayStill ==
  ASSUME HotwordTypeOK, NEW w \in Windows, Step(w) \/ Crash(w), NEW v \in Windows, v # w
  PROVE  Still(v)
<1>1. Moves(w) /\ Others(w)
  BY StepMoves, StepLearns
<1> QED
  BY <1>1 DEF Moves, Others, Still, HotwordTypeOK

LEMMA ExternalsMoveNobody ==
  ASSUME ExternalWrite \/ ExternalDelete, NEW v \in Windows
  PROVE  Still(v)
BY DEF ExternalWrite, ExternalDelete, Still, Unmoved

LEMMA DraftsKeepTheirData ==
  ASSUME HotwordTypeOK, PlacesAreApart, Placing, NEW v \in Windows, draftAt[v] # NoFile
  PROVE  data'[draftAt[v]] = data[draftAt[v]]
<1>1. draftAt[v] \in Files /\ draftAt[v] <= clock /\ draftAt[v] # path
  BY DEF PlacesAreApart, HotwordTypeOK
<1> QED
  BY <1>1, HotwordConstants
     DEF HotwordTypeOK, Placing, Exchange, ExternalWrite, ExternalDelete, Files, Versions, NoFile

LEMMA HistoryGrows ==
  ASSUME Next
  PROVE  /\ replaced \subseteq replaced'
         /\ rejected \subseteq rejected'
         /\ overtaken \subseteq overtaken'
<1>1. ASSUME NEW w \in Windows, Rollback(w)
      PROVE  UNCHANGED <<replaced, rejected>> /\ overtaken \subseteq overtaken'
  BY <1>1 DEF Rollback
<1>2. ASSUME NEW w \in Windows, RemoveDraft(w)
      PROVE  UNCHANGED <<replaced, overtaken>> /\ rejected \subseteq rejected'
  BY <1>2 DEF RemoveDraft
<1>3. ASSUME ExternalWrite \/ ExternalDelete
      PROVE  UNCHANGED <<rejected, overtaken>> /\ replaced \subseteq replaced'
  BY <1>3 DEF ExternalWrite, ExternalDelete
<1>4. ASSUME NEW w \in Windows, Step(w) \/ Crash(w)
      PROVE  Rollback(w) \/ RemoveDraft(w) \/ UNCHANGED history
  BY <1>4 DEF Step, Crash, LoadContent, BeginSave, BeginRetry, PublishNew, PublishNewFails,
     Preserve, PreserveFails, Publish, PublishFails, FinishPublish, RollbackFails,
     RemoveRecovery, ConfirmApplied, RetryApplied, RetryFails, RefreshConfig,
     ReadRecovery, ReadCurrent, CheckPublished, CheckDisplaced, CheckRollback, Verify, Reload,
     ConfirmSaved, RetryReload
<1> QED
  BY <1>1, <1>2, <1>3, <1>4 DEF Next, history

LEMMA StillWindowsHold ==
  ASSUME HotwordInv, Next, NEW v \in Windows, Still(v)
  PROVE  HoldsDraft(v)' /\ HoldsRecovery(v)'
<1>1. HotwordTypeOK /\ PlacesAreApart /\ Placing /\ HoldsDraft(v) /\ HoldsRecovery(v)
  BY StepsPlace DEF HotwordInv
<1>2. clock' >= clock /\ overtaken \subseteq overtaken'
  BY <1>1, PlacingKeepsType, HistoryGrows
<1>3. stage[v] \in Drafting => data'[draftAt'[v]] = data[draftAt[v]]
  BY <1>1, DraftsKeepTheirData DEF Still, HoldsDraft
<1>4. window'[v].draft \in 1 .. clock => window'[v].draft \in 1 .. clock'
  BY <1>1, <1>2, KeepsType DEF HotwordTypeOK, Versions
<1>5. HoldsDraft(v)'
  BY <1>1, <1>2, <1>3, <1>4 DEF HoldsDraft, Still, Unmoved, Drafting, Unpublished, Refusing
<1>6. HoldsRecovery(v)'
  BY <1>1 DEF HoldsRecovery, Still, Unmoved
<1> QED
  BY <1>5, <1>6

(* The window that moves holds what its new stage asks for.                 *)
LEMMA MoverHolds ==
  ASSUME HotwordInv, NEW w \in Windows, Step(w) \/ Crash(w)
  PROVE  HoldsDraft(w)' /\ HoldsRecovery(w)'
<1> DEFINE Goal == HoldsDraft(w)' /\ HoldsRecovery(w)'
<1>1. /\ HotwordTypeOK /\ PlacesAreApart /\ HoldsDraft(w) /\ HoldsRecovery(w)
      /\ stage \in [Windows -> Stages]
      /\ window \in [Windows -> Knowledge]
      /\ window[w] \in Knowledge
  BY DEF HotwordInv, HotwordTypeOK
<1>2. ASSUME stage'[w] \notin Drafting PROVE Goal
  BY <1>2 DEF HoldsDraft, HoldsRecovery, Drafting, Unpublished, Refusing
<1>3. ASSUME NEW pc, Goto(w, pc) PROVE stage'[w] = pc
  BY <1>1, <1>3 DEF Goto
<1>4. ASSUME NEW pc, Goto(w, pc), pc \notin Drafting PROVE Goal
  BY <1>2, <1>3, <1>4
<1>5. ASSUME Fails(w) PROVE Goal
  BY <1>4, <1>5 DEF Fails, Drafting
<1>6. ASSUME NEW files, Touch(w, files) PROVE Unmoved(w)
  BY <1>1, <1>6, TouchingLearns DEF Touch, Learns, Unmoved
<1>7. UNCHANGED window => Unmoved(w)
  BY DEF Unmoved
<1>8. ASSUME NEW g \in BOOLEAN, Know(w, [window[w] EXCEPT !.good = g])
      PROVE  /\ window'[w].baseline = window[w].baseline
             /\ window'[w].draft = window[w].draft
             /\ window'[w].good = g
  BY <1>1, <1>8, FieldsAreKnowledge DEF Know
<1> SUFFICES Goal
  OBVIOUS
<1> HIDE DEF Goal
<1>10. CASE BeginSave(w)
  <2>1. clock + 1 \in Files /\ clock + 1 \in 1 .. clock' /\ clock + 1 # NoFile
    BY <1>1, <1>10, HotwordConstants DEF BeginSave, HotwordTypeOK, Files, Versions, NoFile
  <2>2. window'[w].draft = clock + 1
    BY <1>1, <1>10, <2>1, FieldsAreKnowledge DEF BeginSave, Know
  <2>3. draftAt'[w] = clock + 1 /\ data'[clock + 1] = clock + 1
    BY <1>1, <1>10, <2>1 DEF BeginSave, HotwordTypeOK
  <2>4. stage'[w] \in {"publishNew", "preserve"}
    BY <1>3, <1>10 DEF BeginSave
  <2> QED
    BY <2>1, <2>2, <2>3, <2>4 DEF Goal, HoldsDraft, HoldsRecovery, Unpublished, Refusing
<1>11. CASE PublishNewFails(w) \/ PreserveFails(w) \/ PublishFails(w)
  <2>1. /\ stage'[w] \in Refusing /\ stage[w] \in Unpublished
        /\ Unmoved(w) /\ UNCHANGED <<draftAt, data, clock>>
    BY <1>3, <1>7, <1>11 DEF PublishNewFails, PreserveFails, PublishFails, At, Refusing,
       Unpublished, directory
  <2> QED
    BY <1>1, <2>1 DEF Goal, HoldsDraft, HoldsRecovery, Unmoved, Refusing, Unpublished, Drafting
<1>12. CASE Preserve(w)
  <2>1. /\ stage'[w] \in {"readRecovery", "removeRecovery"} /\ stage[w] = "preserve"
        /\ Unmoved(w) /\ UNCHANGED <<draftAt, data, clock>>
    BY <1>3, <1>6, <1>12 DEF Preserve, At
  <2> QED
    BY <1>1, <2>1 DEF Goal, HoldsDraft, HoldsRecovery, Unmoved, Refusing, Unpublished, Drafting
<1>13. ASSUME NEW ok \in BOOLEAN, ReadRecovery(w, ok) PROVE Goal
  <2> DEFINE g == Snapshot(recovery[w]) = window[w].baseline
  <2>1. g \in BOOLEAN
    OBVIOUS
  <2>2. /\ window'[w].baseline = window[w].baseline
        /\ window'[w].draft = window[w].draft
        /\ window'[w].good = g
    BY <1>8, <1>13, <2>1 DEF ReadRecovery
  <2>3. g => recovery[w] = window[w].baseline.file
    BY DEF Snapshot
  <2>4. /\ stage'[w] \in {"readCurrent", "removeRecovery"} /\ stage[w] = "readRecovery"
        /\ UNCHANGED <<draftAt, recovery, data, clock>>
    BY <1>3, <1>13 DEF ReadRecovery, At, directory
  <2> HIDE DEF g
  <2> QED
    BY <1>1, <2>2, <2>3, <2>4 DEF Goal, HoldsDraft, HoldsRecovery, Refusing, Unpublished, Drafting
<1>14. ASSUME NEW ok \in BOOLEAN, ReadCurrent(w, ok) PROVE Goal
  <2>1. /\ stage'[w] \in {"removeDraft", "exchange", "removeRecovery"}
        /\ stage'[w] = "exchange" => window[w].good
        /\ stage[w] = "readCurrent"
        /\ Unmoved(w) /\ UNCHANGED <<draftAt, recovery, data, clock>>
    BY <1>3, <1>7, <1>14 DEF ReadCurrent, At, directory
  <2> QED
    BY <1>1, <2>1 DEF Goal, HoldsDraft, HoldsRecovery, Unmoved, Refusing, Unpublished, Drafting
<1>15. CASE Publish(w)
  <2>1. /\ stage'[w] = "checkPublished" /\ stage[w] = "exchange"
        /\ Unmoved(w) /\ UNCHANGED <<recovery, clock>>
        /\ draftAt'[w] = path /\ path # NoFile
    BY <1>1, <1>3, <1>6, <1>15 DEF Publish, Exchange, At, HotwordTypeOK
  <2> QED
    BY <1>1, <2>1 DEF Goal, HoldsDraft, HoldsRecovery, Unmoved, Refusing, Unpublished, Drafting
<1>16. ASSUME NEW ok \in BOOLEAN, CheckPublished(w, ok) PROVE Goal
  <2> DEFINE g == Read(ok) = Draft(w)
  <2>1. g \in BOOLEAN
    OBVIOUS
  <2>2. /\ window'[w].baseline = window[w].baseline
        /\ window'[w].draft = window[w].draft
    BY <1>8, <1>16, <2>1 DEF CheckPublished
  <2>3. /\ stage'[w] = "checkDisplaced" /\ stage[w] = "checkPublished"
        /\ UNCHANGED <<draftAt, recovery, clock>>
    BY <1>3, <1>16 DEF CheckPublished, At, directory
  <2> QED
    BY <1>1, <2>2, <2>3 DEF Goal, HoldsDraft, HoldsRecovery, Refusing, Unpublished, Drafting
<1>17. ASSUME NEW ok \in BOOLEAN, CheckDisplaced(w, ok) PROVE Goal
  <2>1. /\ stage'[w] \in {"finish", "checkRollback"}
        /\ stage'[w] = "finish" => draftAt[w] = window[w].baseline.file
        /\ stage[w] = "checkDisplaced"
        /\ Unmoved(w) /\ UNCHANGED <<draftAt, recovery, clock>>
    BY <1>3, <1>7, <1>17 DEF CheckDisplaced, At, Snapshot, directory
  <2> QED
    BY <1>1, <2>1 DEF Goal, HoldsDraft, HoldsRecovery, Unmoved, Refusing, Unpublished, Drafting
<1>18. ASSUME NEW ok \in BOOLEAN, CheckRollback(w, ok) PROVE Goal
  <2>1. CASE Fails(w)
    BY <1>5, <2>1 DEF Goal
  <2>2. CASE Goto(w, "rollback") /\ UNCHANGED window
    <3>1. /\ stage'[w] = "rollback" /\ stage[w] = "checkRollback"
          /\ Unmoved(w) /\ UNCHANGED <<draftAt, recovery, clock>>
      BY <1>3, <1>7, <1>18, <2>2 DEF CheckRollback, At, directory
    <3> QED
      BY <1>1, <3>1 DEF Goal, HoldsDraft, HoldsRecovery, Unmoved, Refusing, Unpublished, Drafting
  <2> QED
    BY <1>18, <2>1, <2>2 DEF CheckRollback
<1>19. CASE Rollback(w)
  <2>1. CASE Goto(w, "ready")
    BY <1>4, <2>1 DEF Goal, Drafting
  <2>2. CASE Goto(w, "removeRecovery") /\ Touch(w, {path, draftAt[w]})
    <3>1. /\ stage'[w] = "removeRecovery" /\ stage[w] = "rollback"
          /\ Unmoved(w) /\ UNCHANGED <<data, clock>>
          /\ draftAt'[w] = path /\ path # NoFile
      BY <1>1, <1>3, <1>6, <1>19, <2>2 DEF Rollback, Exchange, At, HotwordTypeOK
    <3>2. data[path] = window[w].draft \/ data[path] \in overtaken'
      BY <1>19 DEF Rollback, Snapshot, Draft
    <3> QED
      BY <1>1, <3>1, <3>2 DEF Goal, HoldsDraft, HoldsRecovery, Unmoved, Refusing, Unpublished,
         Drafting
  <2> QED
    BY <1>19, <2>1, <2>2 DEF Rollback
<1>20. CASE RemoveRecovery(w)
  <2>1. /\ stage'[w] = "removeDraft" /\ stage[w] = "removeRecovery"
        /\ Unmoved(w) /\ UNCHANGED <<draftAt, data, clock, overtaken>>
    BY <1>3, <1>6, <1>20 DEF RemoveRecovery, At, history
  <2> QED
    BY <1>1, <2>1 DEF Goal, HoldsDraft, HoldsRecovery, Unmoved, Refusing, Unpublished, Drafting
<1>21. CASE LoadContent(w)
  BY <1>2, <1>21 DEF LoadContent, At, Drafting, Goal
<1>22. CASE \/ BeginRetry(w) \/ PublishNew(w) \/ FinishPublish(w) \/ RemoveDraft(w)
            \/ ConfirmApplied(w) \/ RetryApplied(w) \/ Crash(w)
  BY <1>4, <1>22 DEF BeginRetry, PublishNew, FinishPublish, RemoveDraft, ConfirmApplied,
     RetryApplied, Crash, Drafting, Goal
<1>23. CASE RollbackFails(w) \/ RetryFails(w)
  BY <1>5, <1>23 DEF RollbackFails, RetryFails, Goal
<1>24. ASSUME NEW ok \in BOOLEAN, RefreshConfig(w, ok) PROVE Goal
  BY <1>2, <1>24 DEF RefreshConfig, At, Drafting, Goal
<1>25. ASSUME NEW ok \in BOOLEAN,
              Verify(w, ok) \/ Reload(w, ok) \/ ConfirmSaved(w, ok) \/ RetryReload(w, ok)
       PROVE  Goal
  BY <1>4, <1>5, <1>25 DEF Verify, Reload, ConfirmSaved, RetryReload, Drafting, Goal
<1> QED
  BY <1>10, <1>11, <1>12, <1>13, <1>14, <1>15, <1>16, <1>17, <1>18, <1>19, <1>20, <1>21,
     <1>22, <1>23, <1>24, <1>25 DEF Step

-----------------------------------------------------------------------------
(* Every version stays accounted for.                                       *)

(* A step that leaves the directory alone takes no recovery link back.      *)
LEMMA KeepsSecured ==
  ASSUME HotwordTypeOK, NEW w \in Windows, UNCHANGED directory,
         NEW pc, Goto(w, pc) \/ (UNCHANGED stage),
         stage[w] \in Settled /\ Goto(w, pc) => pc \in Settled,
         NEW f \in Files, f \in Secure
  PROVE  f \in Secure'
<1>1. \A u \in Windows : stage[u] \in Settled => stage'[u] \in Settled
  <2>1. CASE UNCHANGED stage
    BY <2>1
  <2>2. CASE Goto(w, pc)
    BY <2>2 DEF Goto, HotwordTypeOK
  <2> QED
    BY <2>1, <2>2
<1> QED
  BY <1>1 DEF Secure, directory

LEMMA ReadersKeepSecured ==
  ASSUME HotwordTypeOK, NEW w \in Windows, NEW f \in Files, f \in Secure,
         \/ LoadContent(w) \/ BeginRetry(w) \/ PublishNewFails(w) \/ PreserveFails(w)
         \/ PublishFails(w) \/ RollbackFails(w) \/ ConfirmApplied(w) \/ RetryApplied(w)
         \/ RetryFails(w)
         \/ \E ok \in BOOLEAN :
              \/ RefreshConfig(w, ok) \/ ReadRecovery(w, ok) \/ ReadCurrent(w, ok)
              \/ CheckPublished(w, ok) \/ CheckDisplaced(w, ok) \/ CheckRollback(w, ok)
              \/ Verify(w, ok) \/ Reload(w, ok) \/ ConfirmSaved(w, ok) \/ RetryReload(w, ok)
  PROVE  f \in Secure' /\ data'[f] = data[f]
<1>1. UNCHANGED directory /\ UNCHANGED data
  BY DEF LoadContent, BeginRetry, PublishNewFails, PreserveFails, PublishFails, RollbackFails,
     ConfirmApplied, RetryApplied, RetryFails, RefreshConfig, ReadRecovery, ReadCurrent,
     CheckPublished, CheckDisplaced, CheckRollback, Verify, Reload, ConfirmSaved, RetryReload
<1>2. \/ UNCHANGED stage
      \/ \E pc \in Settled : Goto(w, pc)
      \/ stage[w] \notin Settled /\ \E pc \in Stages : Goto(w, pc)
  BY DEF LoadContent, BeginRetry, PublishNewFails, PreserveFails, PublishFails, RollbackFails,
     ConfirmApplied, RetryApplied, RetryFails, RefreshConfig, ReadRecovery, ReadCurrent,
     CheckPublished, CheckDisplaced, CheckRollback, Verify, Reload, ConfirmSaved, RetryReload,
     Fails, At, Settled, Stages
<1> QED
  BY <1>1, <1>2, KeepsSecured

LEMMA StepKeepsAccounted ==
  ASSUME HotwordInv, NEW w \in Windows, Step(w) \/ Crash(w), NEW v \in 1 .. clock
  PROVE  v \in Accounted'
<1>1. /\ HotwordTypeOK /\ FilesAreWritten /\ PlacesAreApart /\ HoldsDraft(w) /\ HoldsRecovery(w)
      /\ v \in Accounted /\ v # 0
  BY HotwordConstants DEF HotwordInv, HotwordTypeOK, Versions
<1>2. CASE v \in replaced \cup rejected \cup overtaken
  BY <1>2, HistoryGrows DEF Accounted, Next
<1>3. ASSUME NEW f \in Files, data[f] = v, f \in Secure PROVE v \in Accounted'
  <2>1. ASSUME f \in Secure', data'[f] = data[f] PROVE v \in Accounted'
    BY <1>3, <2>1 DEF Accounted
  <2>2. f # NoFile /\ f <= clock
    BY <1>1, <1>3, HotwordConstants DEF FilesAreWritten, Files, Versions, NoFile, HotwordTypeOK
  <2>3. \A u \in Windows \ {w} :
          /\ draftAt'[u] = draftAt[u] /\ recovery'[u] = recovery[u] /\ stage'[u] = stage[u]
    BY <1>1, OthersStayStill DEF Still
  <2>4. ASSUME data'[f] = data[f], kept \subseteq kept',
               f = path \/ f = draftAt[w] => f \in kept' \cup {path', draftAt'[w]},
               stage[w] \in Settled /\ f = recovery[w] =>
                 f \in kept' \/ (stage'[w] \in Settled /\ f = recovery'[w])
        PROVE  v \in Accounted'
    <3>1. f \in Secure'
      BY <1>3, <2>3, <2>4 DEF Secure
    <3> QED
      BY <2>1, <2>4, <3>1
  <2>5. CASE BeginSave(w)
    <3>1. /\ data'[f] = data[f]
          /\ path' = path
          /\ kept' = (kept \cup {draftAt[w], recovery[w]}) \ {NoFile}
      BY <1>1, <2>2, <2>5 DEF BeginSave, HotwordTypeOK, Versions
    <3>2. kept \subseteq kept' /\ (f \in {draftAt[w], recovery[w]} => f \in kept')
      BY <1>1, <2>2, <3>1, HotwordConstants DEF HotwordTypeOK, Files, Versions, NoFile
    <3> QED
      BY <2>4, <3>1, <3>2
  <2>6. CASE PublishNew(w)
    BY <1>1, <2>2, <2>4, <2>6 DEF PublishNew, HotwordTypeOK, At, Goto, Unlink, Settled
  <2>7. CASE Preserve(w)
    BY <1>1, <2>4, <2>7 DEF Preserve, HotwordTypeOK, At, Settled
  <2>8. CASE Publish(w) \/ Rollback(w)
    BY <1>1, <2>4, <2>8 DEF Publish, Rollback, Exchange, HotwordTypeOK, At, Settled
  <2>9. CASE FinishPublish(w)
    <3>1. /\ stage[w] = "finish" /\ stage'[w] = "verify"
          /\ UNCHANGED <<path, recovery, kept, data>>
      BY <1>1, <2>9 DEF FinishPublish, At, Goto, HotwordTypeOK
    <3>2. recovery[w] = draftAt[w]
      BY <1>1, <3>1 DEF HoldsRecovery
    <3>3. f \in Secure'
      BY <1>3, <2>3, <3>1, <3>2 DEF Secure, Settled
    <3> QED
      BY <2>1, <3>1, <3>3
  <2>10. CASE RemoveRecovery(w)
    BY <1>1, <2>4, <2>10 DEF RemoveRecovery, HotwordTypeOK, At, Settled
  <2>11. CASE RemoveDraft(w)
    <3>1. /\ stage[w] = "removeDraft" /\ stage'[w] = "ready"
          /\ UNCHANGED <<path, recovery, kept, data, overtaken>>
          /\ rejected' = rejected \cup {window[w].draft}
      BY <1>1, <2>11 DEF RemoveDraft, At, Goto, HotwordTypeOK
    <3>2. CASE f = draftAt[w]
      <4>1. v \in {window[w].draft} \cup overtaken
        BY <1>1, <1>3, <3>1, <3>2 DEF HoldsDraft, Refusing
      <4> QED
        BY <3>1, <4>1 DEF Accounted
    <3>3. CASE f # draftAt[w]
      BY <2>4, <3>1, <3>3 DEF Settled
    <3> QED
      BY <3>2, <3>3
  <2>12. CASE Crash(w)
    <3>1. /\ data'[f] = data[f]
          /\ path' = path
          /\ kept' = (kept \cup {draftAt[w], recovery[w]}) \ {NoFile}
      BY <2>12 DEF Crash
    <3>2. kept \subseteq kept' /\ (f \in {draftAt[w], recovery[w]} => f \in kept')
      BY <1>1, <2>2, <3>1, HotwordConstants DEF HotwordTypeOK, Files, Versions, NoFile
    <3> QED
      BY <2>4, <3>1, <3>2
  <2> QED
    BY <1>1, <1>3, <2>1, <2>5, <2>6, <2>7, <2>8, <2>9, <2>10, <2>11, <2>12, ReadersKeepSecured
       DEF Step
<1> QED
  BY <1>1, <1>2, <1>3 DEF Accounted

LEMMA KeepsAccounted ==
  ASSUME HotwordInv, Next
  PROVE  1 .. clock' \subseteq Accounted'
<1>1. HotwordTypeOK /\ FilesAreWritten /\ PlacesAreApart
  BY DEF HotwordInv
<1>2. ASSUME NEW w \in Windows, BeginSave(w)
      PROVE  /\ clock' = clock + 1
             /\ clock + 1 \in Accounted'
  <2>1. clock + 1 \in Files
    BY <1>1, <1>2, HotwordConstants DEF BeginSave, HotwordTypeOK, Files, Versions
  <2>2. data'[clock + 1] = clock + 1 /\ draftAt'[w] = clock + 1
    BY <1>1, <1>2, <2>1 DEF BeginSave, HotwordTypeOK
  <2> QED
    BY <1>2, <2>1, <2>2 DEF BeginSave, Accounted, Secure
<1>3. ASSUME NEW w \in Windows, Step(w) \/ Crash(w)
      PROVE  BeginSave(w) \/ UNCHANGED clock
  BY <1>3 DEF Step, Crash, LoadContent, BeginRetry, PublishNew, PublishNewFails, Preserve,
     PreserveFails, Publish, PublishFails, FinishPublish, Rollback, RollbackFails,
     RemoveRecovery, RemoveDraft, ConfirmApplied, RetryApplied, RetryFails, RefreshConfig,
     ReadRecovery, ReadCurrent, CheckPublished, CheckDisplaced, CheckRollback, Verify, Reload,
     ConfirmSaved, RetryReload
<1>4. clock \in Nat
  BY <1>1, HotwordConstants DEF HotwordTypeOK, Versions
<1>5. ASSUME NEW w \in Windows, Step(w) \/ Crash(w), NEW v \in 1 .. clock'
      PROVE  v \in Accounted'
  <2>1. v \in 1 .. clock \/ (v = clock + 1 /\ BeginSave(w))
    BY <1>2, <1>3, <1>4, <1>5
  <2> QED
    BY <1>2, <1>5, <2>1, StepKeepsAccounted
<1>6. ASSUME ExternalWrite \/ ExternalDelete, NEW v \in 1 .. clock, v # data[path]
      PROVE  v \in Accounted'
  <2>1. v \in Accounted /\ v # 0
    BY <1>4 DEF HotwordInv
  <2>2. CASE v \in replaced \cup rejected \cup overtaken
    BY <1>6, <2>2, HistoryGrows DEF Accounted, Next
  <2>3. ASSUME NEW f \in Files, data[f] = v, f \in Secure PROVE v \in Accounted'
    <3>1. f # path /\ f <= clock
      BY <1>1, <1>4, <1>6, <2>1, <2>3, HotwordConstants DEF FilesAreWritten, Files, Versions
    <3>2. data'[f] = v
      BY <1>1, <1>4, <1>6, <2>3, <3>1 DEF ExternalWrite, ExternalDelete, HotwordTypeOK
    <3>3. f \in Secure'
      BY <1>6, <2>3, <3>1 DEF ExternalWrite, ExternalDelete, Secure
    <3> QED
      BY <3>2, <3>3 DEF Accounted
  <2> QED
    BY <2>1, <2>2, <2>3 DEF Accounted
<1>7. ASSUME ExternalWrite \/ ExternalDelete, NEW v \in 1 .. clock, v = data[path]
      PROVE  v \in Accounted'
  BY <1>4, <1>7 DEF ExternalWrite, ExternalDelete, Accounted
<1>8. ASSUME ExternalWrite PROVE clock + 1 \in Accounted'
  <2>1. clock + 1 \in Files
    BY <1>1, <1>8, HotwordConstants DEF ExternalWrite, HotwordTypeOK, Files, Versions
  <2>2. path' \in Files /\ data'[path'] = clock + 1
    BY <1>1, <1>8, <2>1 DEF ExternalWrite, HotwordTypeOK
  <2> QED
    BY <2>2 DEF Accounted, Secure
<1>9. ASSUME ExternalWrite \/ ExternalDelete, NEW v \in 1 .. clock'
      PROVE  v \in Accounted'
  <2>1. v \in 1 .. clock \/ (v = clock + 1 /\ ExternalWrite)
    BY <1>4, <1>9 DEF ExternalWrite, ExternalDelete
  <2> QED
    BY <1>6, <1>7, <1>8, <1>9, <2>1
<1> QED
  BY <1>5, <1>9 DEF Next

-----------------------------------------------------------------------------
(* A refused draft is nowhere it could be shown from.                       *)

LEMMA NothingNewIsShown ==
  ASSUME HotwordTypeOK, FilesAreWritten, PlacesAreApart, Placing
  PROVE  Shown' \subseteq Shown \cup {0, clock + 1}
<1> USE HotwordConstants DEF HotwordTypeOK, Versions, Files, NoFile
<1>1. data[NoFile] = 0
  BY DEF FilesAreWritten
<1>2. CASE UNCHANGED <<path, draftAt, data, clock>>
  BY <1>2 DEF Shown
<1>3. ASSUME NEW w \in Windows, Exchange(w), UNCHANGED <<data, clock>>
      PROVE  Shown' \subseteq Shown
  BY <1>3 DEF Shown, Exchange
<1>4. ASSUME NEW w \in Windows, Unlink(draftAt, w), UNCHANGED <<data, clock>>,
             path' = path \/ path' = draftAt[w]
      PROVE  Shown' \subseteq Shown \cup {0}
  BY <1>1, <1>4 DEF Shown, Unlink
<1>5. ASSUME NEW w \in Windows, clock < MaxVersions, UNCHANGED path,
             data' = [data EXCEPT ![clock + 1] = clock + 1],
             draftAt' = [draftAt EXCEPT ![w] = clock + 1]
      PROVE  Shown' \subseteq Shown \cup {clock + 1}
  <2>1. data'[path'] = data[path]
    BY <1>5 DEF PlacesAreApart
  <2>2. \A u \in Windows : data'[draftAt'[u]] \in {clock + 1, data[draftAt[u]]}
    BY <1>5 DEF PlacesAreApart
  <2> QED
    BY <2>1, <2>2 DEF Shown
<1>6. CASE ExternalWrite
  <2>1. draftAt' = draftAt /\ data'[path'] = clock + 1
    BY <1>6 DEF ExternalWrite
  <2>2. \A u \in Windows : data'[draftAt[u]] = data[draftAt[u]]
    BY <1>6 DEF ExternalWrite, PlacesAreApart
  <2> QED
    BY <2>1, <2>2 DEF Shown
<1>7. CASE ExternalDelete
  BY <1>1, <1>7 DEF ExternalDelete, Shown
<1> QED
  BY <1>2, <1>3, <1>4, <1>5, <1>6, <1>7 DEF Placing

LEMMA KeepsRejectedGone ==
  ASSUME HotwordInv, Next
  PROVE  RejectedIsGone'
<1>1. /\ HotwordTypeOK /\ FilesAreWritten /\ PlacesAreApart /\ RejectedIsGone /\ Placing
      /\ clock' \in Versions /\ clock' >= clock
      /\ overtaken \subseteq overtaken'
  BY StepsPlace, PlacingKeepsType, HistoryGrows DEF HotwordInv
<1>2. Shown' \subseteq Shown \cup {0, clock + 1}
  BY <1>1, NothingNewIsShown
<1>3. 0 \notin rejected /\ clock + 1 \notin rejected
  BY <1>1, HotwordConstants DEF HotwordTypeOK, RejectedIsGone, Versions
<1>4. CASE UNCHANGED rejected
  <2>1. \A v \in rejected' : v <= clock'
    BY <1>1, <1>4, HotwordConstants DEF RejectedIsGone, HotwordTypeOK, Versions
  <2>2. overtaken' = {} => Shown' \cap rejected' = {}
    BY <1>1, <1>2, <1>3, <1>4 DEF RejectedIsGone
  <2> QED
    BY <2>1, <2>2 DEF RejectedIsGone
<1>5. ASSUME NEW w \in Windows, RemoveDraft(w) PROVE RejectedIsGone'
  <2>1. /\ stage[w] = "removeDraft"
        /\ UNCHANGED <<path, data, clock>>
        /\ draftAt' = [draftAt EXCEPT ![w] = NoFile]
        /\ rejected' = rejected \cup {window[w].draft}
    BY <1>5 DEF RemoveDraft, At, Unlink
  <2>2. /\ window[w].draft \in 1 .. clock /\ draftAt[w] # NoFile
        /\ data[draftAt[w]] \in {window[w].draft} \cup overtaken
    BY <2>1 DEF HotwordInv, HoldsDraft, Drafting, Refusing
  <2>3. \A v \in rejected' : v <= clock'
    BY <1>1, <2>1, <2>2, HotwordConstants DEF RejectedIsGone, HotwordTypeOK, Versions
  <2>4. ASSUME overtaken' = {} PROVE Shown' \cap rejected' = {}
    <3>1. overtaken = {} /\ data[draftAt[w]] = window[w].draft
      BY <1>1, <2>2, <2>4
    <3>2. Shown' \cap rejected = {}
      BY <1>1, <1>2, <1>3, <3>1 DEF RejectedIsGone
    <3>3. draftAt[w] \in Files /\ data[draftAt[w]] # 0 /\ data[NoFile] = 0
      BY <1>1, <2>2 DEF HotwordTypeOK, PlacesAreApart, FilesAreWritten
    <3>4. ASSUME NEW f \in Files \cup {NoFile}, f # draftAt[w]
          PROVE  data[f] # data[draftAt[w]]
      BY <1>1, <3>3, <3>4 DEF FilesAreWritten
    <3>5. data'[path'] # data[draftAt[w]]
      BY <1>1, <2>1, <2>2, <3>4 DEF HotwordTypeOK, PlacesAreApart
    <3>6. \A u \in Windows : data'[draftAt'[u]] # data[draftAt[w]]
      <4>1. ASSUME NEW u \in Windows
            PROVE  draftAt'[u] \in Files \cup {NoFile} /\ draftAt'[u] # draftAt[w]
        BY <1>1, <2>1, <2>2 DEF HotwordTypeOK, PlacesAreApart
      <4> QED
        BY <2>1, <3>4, <4>1
    <3>7. data[draftAt[w]] \notin Shown'
      BY <3>5, <3>6 DEF Shown
    <3> QED
      BY <2>1, <3>1, <3>2, <3>7
  <2> QED
    BY <2>3, <2>4 DEF RejectedIsGone
<1>6. UNCHANGED rejected \/ \E w \in Windows : RemoveDraft(w)
  <2>1. ASSUME NEW w \in Windows, Step(w) \/ Crash(w)
        PROVE  RemoveDraft(w) \/ UNCHANGED rejected
    BY <2>1 DEF Step, Crash, LoadContent, BeginSave, BeginRetry, PublishNew, PublishNewFails,
       Preserve, PreserveFails, Publish, PublishFails, FinishPublish, Rollback, RollbackFails,
       RemoveRecovery, ConfirmApplied, RetryApplied, RetryFails, RefreshConfig, ReadRecovery,
       ReadCurrent, CheckPublished, CheckDisplaced, CheckRollback, Verify, Reload, ConfirmSaved,
       RetryReload, history
  <2> QED
    BY <2>1 DEF Next, ExternalWrite, ExternalDelete
<1> QED
  BY <1>4, <1>5, <1>6

-----------------------------------------------------------------------------
(* The theorems.                                                            *)

LEMMA InitHotwordInv == Init => HotwordInv
<1> SUFFICES ASSUME Init PROVE HotwordInv
  OBVIOUS
<1> USE HotwordConstants DEF Init, Files, Versions, NoFile
<1>1. Closed \in Knowledge
  BY NoSnapshotIsSnapshot, EditingIsKnowledge DEF Closed
<1>2. HotwordTypeOK
  BY <1>1 DEF HotwordTypeOK, Stages
<1>3. FilesAreWritten
  BY DEF FilesAreWritten
<1>4. PlacesAreApart
  BY DEF PlacesAreApart
<1>5. ASSUME NEW w \in Windows PROVE HoldsDraft(w) /\ HoldsRecovery(w)
  BY DEF HoldsDraft, HoldsRecovery, Drafting, Unpublished, Refusing
<1>6. 1 .. clock \subseteq Accounted
  <2>1. 1 \in Accounted
    <3>1. CASE path = NoFile
      BY <3>1 DEF Accounted
    <3>2. CASE path = 1
      BY <3>2 DEF Accounted, Secure
    <3> QED
      BY <3>1, <3>2
  <2> QED
    BY <2>1
<1>7. RejectedIsGone
  BY DEF RejectedIsGone
<1> QED
  BY <1>2, <1>3, <1>4, <1>5, <1>6, <1>7 DEF HotwordInv

LEMMA NextHotwordInv == HotwordInv /\ [Next]_vars => HotwordInv'
<1> SUFFICES ASSUME HotwordInv, [Next]_vars PROVE HotwordInv'
  OBVIOUS
<1>1. CASE UNCHANGED vars
  <2>1. UNCHANGED <<path, draftAt, recovery, kept, data, clock, stage, window, replaced,
                    rejected, overtaken>>
    BY <1>1 DEF vars, directory, history
  <2>2. /\ HotwordTypeOK' /\ FilesAreWritten' /\ PlacesAreApart'
    BY <2>1 DEF HotwordInv, HotwordTypeOK, FilesAreWritten, PlacesAreApart
  <2>3. \A w \in Windows : HoldsDraft(w)' /\ HoldsRecovery(w)'
    BY <2>1 DEF HotwordInv, HoldsDraft, HoldsRecovery
  <2>4. (1 .. clock \subseteq Accounted)'
    BY <2>1 DEF HotwordInv, Accounted, Secure
  <2>5. RejectedIsGone'
    BY <2>1 DEF HotwordInv, RejectedIsGone, Shown
  <2> QED
    BY <2>2, <2>3, <2>4, <2>5 DEF HotwordInv
<1>2. CASE Next
  <2>1. HotwordTypeOK' /\ FilesAreWritten' /\ PlacesAreApart'
    BY <1>2, StepsPlace, KeepsType, KeepsFilesWritten, KeepsPlacesApart DEF HotwordInv
  <2>2. ASSUME NEW v \in Windows PROVE HoldsDraft(v)' /\ HoldsRecovery(v)'
    <3>1. CASE ExternalWrite \/ ExternalDelete
      BY <1>2, <3>1, ExternalsMoveNobody, StillWindowsHold
    <3>2. ASSUME NEW w \in Windows, Step(w) \/ Crash(w), v # w
          PROVE  HoldsDraft(v)' /\ HoldsRecovery(v)'
      BY <1>2, <3>2, OthersStayStill, StillWindowsHold DEF HotwordInv
    <3> QED
      BY <1>2, <3>1, <3>2, MoverHolds DEF Next
  <2>3. (1 .. clock \subseteq Accounted)'
    BY <1>2, KeepsAccounted
  <2>4. RejectedIsGone'
    BY <1>2, KeepsRejectedGone
  <2> QED
    BY <2>1, <2>2, <2>3, <2>4 DEF HotwordInv
<1> QED
  BY <1>1, <1>2

(* The inductive invariant, of every behaviour.                             *)
THEOREM HotwordInvariant == HotwordSpec => []HotwordInv
BY InitHotwordInv, NextHotwordInv, PTL DEF HotwordSpec

LEMMA AccountedVersionsAreThere == HotwordInv => NothingIsLost
<1> SUFFICES ASSUME HotwordInv PROVE NothingIsLost
  OBVIOUS
<1>1. HotwordTypeOK /\ 1 .. clock \subseteq Accounted /\ RejectedIsGone
  BY DEF HotwordInv
<1>2. \A f \in Secure : Linked(f)
  BY DEF Secure, Linked
<1>3. ASSUME NEW v \in 1 .. clock
      PROVE  \/ \E f \in Files : data[f] = v /\ Linked(f)
             \/ v \in replaced \cup rejected \cup overtaken
  BY <1>1, <1>2 DEF Accounted
<1>4. data[path] \in rejected => overtaken # {}
  BY <1>1 DEF RejectedIsGone, Shown
<1> QED
  BY <1>1, <1>3, <1>4 DEF NothingIsLost

(* No version is lost, however many windows save, fail, roll back and die   *)
(* while other programs write the file.                                     *)
THEOREM NothingIsEverLost == HotwordSpec => []NothingIsLost
BY HotwordInvariant, AccountedVersionsAreThere, PTL

LEMMA StepsKeepThePath ==
  ASSUME HotwordInv, Next, path # NoFile, path' = NoFile
  PROVE  ExternalDelete
<1>1. ASSUME NEW w \in Windows, Publish(w) \/ Rollback(w) PROVE FALSE
  <2>1. stage[w] \in Drafting /\ path' = draftAt[w]
    BY <1>1 DEF Publish, Rollback, Exchange, At, Drafting
  <2> QED
    BY <2>1 DEF HotwordInv, HoldsDraft
<1>2. ASSUME NEW w \in Windows, Step(w) \/ Crash(w) PROVE Publish(w) \/ Rollback(w)
  BY <1>2 DEF Step, Crash, LoadContent, BeginSave, BeginRetry, PublishNew, PublishNewFails,
     Preserve, PreserveFails, PublishFails, FinishPublish, RollbackFails, RemoveRecovery,
     RemoveDraft, ConfirmApplied, RetryApplied, RetryFails, RefreshConfig, ReadRecovery,
     ReadCurrent, CheckPublished, CheckDisplaced, CheckRollback, Verify, Reload, ConfirmSaved,
     RetryReload, directory
<1>3. ~ExternalWrite
  BY HotwordConstants DEF ExternalWrite, HotwordInv, HotwordTypeOK, Versions, NoFile
<1> QED
  BY <1>1, <1>2, <1>3 DEF Next

(* No step of a window, whole or interrupted, leaves the path without a     *)
(* file: only another program deletes it.                                   *)
THEOREM PathIsAlwaysThere == HotwordSpec => PathStaysAvailable
<1>1. HotwordInv /\ [Next]_vars => [path # NoFile /\ path' = NoFile => ExternalDelete]_vars
  BY StepsKeepThePath
<1> QED
  BY <1>1, HotwordInvariant, PTL DEF HotwordSpec, PathStaysAvailable

-----------------------------------------------------------------------------
(* What is reported of a save or a retry.                                   *)

(* From its draft to its end a save knows which draft it is about.          *)
Saving == Drafting \cup {"verify", "reload", "confirm"}

(* The daemon has answered, and the window has not reported it yet.         *)
Heard(w) == stage[w] = "retryConfirm" \/ (stage[w] = "confirm" /\ window[w].heard # Unheard)

(* A claim is on a version that has been written: it is not on one to come. *)
ClaimIsOld(w)     == window[w].claim = NoSnapshot \/ window[w].claim.version <= clock
ClaimIsThere(w)   == stage[w] \notin {"reload", "confirm"} => window[w].claim.version # 0
SaveHasDraft(w)   == stage[w] \in Saving => window[w].draft # NoFile
DraftIsOwn(w)     ==
  /\ stage[w] \in Unpublished => draftAt[w] = window[w].draft
  /\ stage[w] \in Refusing /\ overtaken = {} => draftAt[w] = window[w].draft

(* While the claim is still what the path shows, no other version has been  *)
(* there since the daemon read it.                                          *)
HeardIsClaimed(w) ==
  Heard(w) /\ path # NoFile /\ window[w].claim = Snapshot(path) =>
    window[w].heard = data[path]

OutcomeInv ==
  \A w \in Windows :
    ClaimIsOld(w) /\ ClaimIsThere(w) /\ SaveHasDraft(w) /\ DraftIsOwn(w) /\ HeardIsClaimed(w)

(* The claims and the answers a step of w leaves the other windows.         *)
Claims(w) ==
  \A v \in Windows \ {w} :
    /\ window'[v].claim \in {window[v].claim, NoSnapshot}
    /\ window'[v].heard = window[v].heard

(* A claim on a file whose links have moved is dropped.                     *)
LEMMA TouchingClaims ==
  ASSUME NEW w \in Windows, NEW r \in Knowledge, NEW files, window \in [Windows -> Knowledge],
         KnowTouching(w, r, files)
  PROVE  /\ Claims(w)
         /\ window'[w].claim \in {r.claim, NoSnapshot}
         /\ window'[w].draft = r.draft
         /\ \A v \in Windows : window'[v].claim.file \in files => window'[v].claim = NoSnapshot
<1> DEFINE now(v) == IF v = w THEN r ELSE window[v]
           later(v) == IF now(v).claim.file \in files
                       THEN [now(v) EXCEPT !.claim = NoSnapshot] ELSE now(v)
<1>1. window' = [v \in Windows |-> later(v)]
  BY DEF KnowTouching
<1>2. \A v \in Windows : now(v) \in Knowledge
  OBVIOUS
<1>3. ASSUME NEW v \in Windows
      PROVE  /\ later(v).claim \in {now(v).claim, NoSnapshot}
             /\ later(v).heard = now(v).heard
             /\ later(v).draft = now(v).draft
             /\ later(v).claim.file \in files => later(v).claim = NoSnapshot
  <2>1. CASE now(v).claim.file \in files
    BY <1>2, <2>1 DEF Knowledge
  <2>2. CASE now(v).claim.file \notin files
    BY <2>2
  <2> QED
    BY <2>1, <2>2
<1> HIDE DEF later
<1>4. \A v \in Windows : window'[v] = later(v)
  BY <1>1
<1> QED
  BY <1>3, <1>4 DEF Claims

LEMMA KnowClaims ==
  ASSUME NEW w \in Windows, NEW r, window \in [Windows -> Knowledge], Know(w, r)
  PROVE  Claims(w) /\ window'[w] = r
BY DEF Know, Claims

LEMMA FieldsKeepClaims ==
  ASSUME NEW r \in Knowledge, NEW x
  PROVE  /\ [r EXCEPT !.good = x].claim = r.claim
         /\ [r EXCEPT !.draft = x].claim = r.claim
         /\ [r EXCEPT !.heard = x].claim = r.claim
         /\ [r EXCEPT !.claim = x].claim = x
         /\ [r EXCEPT !.good = x].draft = r.draft
         /\ [r EXCEPT !.heard = x].draft = r.draft
         /\ [r EXCEPT !.claim = x].draft = r.draft
         /\ [r EXCEPT !.draft = x].draft = x
         /\ [r EXCEPT !.heard = x].heard = x
BY DEF Knowledge

(* Only the verification of a save makes a claim.                           *)
LEMMA StepClaims ==
  ASSUME HotwordTypeOK, NEW w \in Windows, Step(w) \/ Crash(w)
  PROVE  /\ Claims(w)
         /\ \/ window'[w].claim \in {window[w].claim, NoSnapshot}
            \/ \E ok \in BOOLEAN : Verify(w, ok)
<1> DEFINE Goal == Claims(w) /\ window'[w].claim \in {window[w].claim, NoSnapshot}
<1>1. /\ window \in [Windows -> Knowledge]
      /\ window[w] \in Knowledge
  BY DEF HotwordTypeOK
<1>2. ASSUME UNCHANGED window PROVE Goal
  BY <1>2 DEF Claims
<1>3. ASSUME NEW r, r.claim \in {window[w].claim, NoSnapshot}, Know(w, r) PROVE Goal
  BY <1>1, <1>3, KnowClaims
<1>4. ASSUME NEW r \in Knowledge, r.claim \in {window[w].claim, NoSnapshot}, NEW files,
             KnowTouching(w, r, files)
      PROVE  Goal
  BY <1>1, <1>4, TouchingClaims
<1>5. ASSUME NEW files, Touch(w, files) PROVE Goal
  BY <1>1, <1>4, <1>5 DEF Touch
<1>6. ASSUME NEW b, NEW c \in {window[w].claim, NoSnapshot}, Know(w, Editing(b, c)) PROVE Goal
  <2>1. Editing(b, c).claim = c
    BY DEF Editing
  <2> QED
    BY <1>3, <1>6, <2>1
<1>7. /\ \A x : /\ [window[w] EXCEPT !.good = x].claim = window[w].claim
                /\ [window[w] EXCEPT !.draft = x].claim = window[w].claim
                /\ [window[w] EXCEPT !.heard = x].claim = window[w].claim
      /\ Failed(w).claim = window[w].claim /\ Failed(w) \in Knowledge
      /\ \A g \in BOOLEAN : [window[w] EXCEPT !.good = g] \in Knowledge
  BY <1>1, FieldsKeepClaims, FieldsAreKnowledge, FailedIsKnowledge DEF Failed, Editing
<1>8. ASSUME Know(w, Failed(w)) PROVE Goal
  BY <1>3, <1>7, <1>8
<1>9. ASSUME NEW x, \/ Know(w, [window[w] EXCEPT !.good = x])
                      \/ Know(w, [window[w] EXCEPT !.draft = x])
                      \/ Know(w, [window[w] EXCEPT !.heard = x])
       PROVE  Goal
  <2>1. CASE Know(w, [window[w] EXCEPT !.good = x])
    <3> DEFINE r == [window[w] EXCEPT !.good = x]
    <3>1. r.claim = window[w].claim
      BY <1>1, FieldsKeepClaims
    <3>2. Know(w, r)
      BY <2>1
    <3> HIDE DEF r
    <3> QED
      BY <1>3, <3>1, <3>2
  <2>2. CASE Know(w, [window[w] EXCEPT !.draft = x])
    <3> DEFINE r == [window[w] EXCEPT !.draft = x]
    <3>1. r.claim = window[w].claim
      BY <1>1, FieldsKeepClaims
    <3>2. Know(w, r)
      BY <2>2
    <3> HIDE DEF r
    <3> QED
      BY <1>3, <3>1, <3>2
  <2>3. CASE Know(w, [window[w] EXCEPT !.heard = x])
    <3> DEFINE r == [window[w] EXCEPT !.heard = x]
    <3>1. r.claim = window[w].claim
      BY <1>1, FieldsKeepClaims
    <3>2. Know(w, r)
      BY <2>3
    <3> HIDE DEF r
    <3> QED
      BY <1>3, <3>1, <3>2
  <2> QED
    BY <1>9, <2>1, <2>2, <2>3
<1> SUFFICES Goal \/ (Claims(w) /\ \E ok \in BOOLEAN : Verify(w, ok))
  OBVIOUS
<1> HIDE DEF Goal
<1>10. CASE LoadContent(w)
  BY <1>6, <1>10 DEF LoadContent
<1>11. CASE BeginSave(w)
  BY <1>11, <1>9 DEF BeginSave
<1>12. CASE PublishNew(w) \/ FinishPublish(w)
  BY <1>4, <1>7, <1>12 DEF PublishNew, FinishPublish
<1>13. CASE Preserve(w) \/ Publish(w) \/ RemoveRecovery(w)
  BY <1>5, <1>13 DEF Preserve, Publish, RemoveRecovery
<1>14. CASE Rollback(w) \/ RemoveDraft(w)
  BY <1>4, <1>5, <1>7, <1>14 DEF Rollback, RemoveDraft
<1>15. CASE RollbackFails(w) \/ RetryFails(w)
  BY <1>8, <1>15 DEF RollbackFails, RetryFails, Fails
<1>16. CASE ConfirmApplied(w) \/ RetryApplied(w)
  BY <1>6, <1>16 DEF ConfirmApplied, RetryApplied
<1>17. CASE BeginRetry(w) \/ PublishNewFails(w) \/ PreserveFails(w) \/ PublishFails(w)
  BY <1>2, <1>17 DEF BeginRetry, PublishNewFails, PreserveFails, PublishFails
<1>18. CASE Crash(w)
  BY <1>6, <1>18 DEF Crash, Closed
<1>19. ASSUME NEW ok \in BOOLEAN, RefreshConfig(w, ok) PROVE Goal
  BY <1>6, <1>19 DEF RefreshConfig
<1>20. ASSUME NEW ok \in BOOLEAN, ConfirmSaved(w, ok) PROVE Goal
  <2> DEFINE b == IF ok /\ StillPublished(w) THEN window[w].claim ELSE NoSnapshot
             c == IF window[w].heard # Unheard THEN NoSnapshot ELSE b
  <2>1. c \in {window[w].claim, NoSnapshot}
    OBVIOUS
  <2>2. Know(w, Editing(b, c))
    BY <1>20 DEF ConfirmSaved
  <2> QED
    BY <1>6, <2>1, <2>2
<1>21. ASSUME NEW ok \in BOOLEAN, ReadRecovery(w, ok) \/ CheckPublished(w, ok) \/ Reload(w, ok)
       PROVE  Goal
  <2>1. CASE ReadRecovery(w, ok)
    BY <1>9, <2>1 DEF ReadRecovery
  <2>2. CASE CheckPublished(w, ok)
    BY <1>9, <2>2 DEF CheckPublished
  <2>3. CASE Reload(w, ok)
    BY <1>9, <2>3 DEF Reload
  <2> QED
    BY <1>21, <2>1, <2>2, <2>3
<1>22. ASSUME NEW ok \in BOOLEAN,
              \/ ReadCurrent(w, ok) \/ CheckDisplaced(w, ok) \/ CheckRollback(w, ok)
       PROVE  Goal
  BY <1>2, <1>8, <1>22 DEF ReadCurrent, CheckDisplaced, CheckRollback, Fails
<1>23. ASSUME NEW ok \in BOOLEAN, RetryReload(w, ok) PROVE Goal
  <2>1. Know(w, Failed(w)) \/ Know(w, [window[w] EXCEPT !.heard = data[path]])
    BY <1>23 DEF RetryReload, Fails
  <2> QED
    BY <1>8, <1>9, <2>1
<1>24. ASSUME NEW ok \in BOOLEAN, Verify(w, ok) PROVE Claims(w)
  BY <1>1, <1>24, KnowClaims DEF Verify
<1> QED
  BY <1>10, <1>11, <1>12, <1>13, <1>14, <1>15, <1>16, <1>17, <1>18, <1>19, <1>21, <1>22, <1>24,
     <1>20, <1>23 DEF Step

(* How a window comes to a stage of its save.                               *)
Drafts(w) ==
  \/ stage'[w] \notin Saving
  \/ BeginSave(w)
  \/ /\ stage[w] \in Saving /\ window'[w].draft = window[w].draft
     /\ \/ stage'[w] \notin Unpublished \cup Refusing
        \/ Rollback(w) /\ stage'[w] = "removeRecovery" /\ draftAt'[w] = path
        \/ /\ UNCHANGED <<draftAt, overtaken>>
           /\ stage[w] \in Unpublished \cup Refusing
           /\ stage'[w] \in Unpublished => stage[w] \in Unpublished

LEMMA StepDrafts ==
  ASSUME HotwordTypeOK, NEW w \in Windows, Step(w) \/ Crash(w)
  PROVE  Drafts(w)
<1> DEFINE Same == window'[w].draft = window[w].draft
<1> USE DEF Saving, Drafting, Unpublished, Refusing
<1>1. /\ stage \in [Windows -> Stages]
      /\ window \in [Windows -> Knowledge]
      /\ window[w] \in Knowledge
  BY DEF HotwordTypeOK
<1>2. ASSUME NEW pc, Goto(w, pc) PROVE stage'[w] = pc
  BY <1>1, <1>2 DEF Goto
<1>3. ASSUME NEW r \in Knowledge, NEW files, KnowTouching(w, r, files)
      PROVE  window'[w].draft = r.draft
  BY <1>1, <1>3, TouchingClaims
<1>4. ASSUME NEW files, Touch(w, files) PROVE Same
  BY <1>1, <1>3, <1>4 DEF Touch
<1>5. UNCHANGED window => Same
  OBVIOUS
<1>6. ASSUME NEW x, \/ Know(w, [window[w] EXCEPT !.good = x])
                    \/ Know(w, [window[w] EXCEPT !.claim = x])
                    \/ Know(w, [window[w] EXCEPT !.heard = x])
      PROVE  Same
  <2>1. CASE Know(w, [window[w] EXCEPT !.good = x])
    <3>1. window'[w] = [window[w] EXCEPT !.good = x]
      BY <1>1, <2>1 DEF Know
    <3> QED
      BY <1>1, <3>1, FieldsKeepClaims
  <2>2. CASE Know(w, [window[w] EXCEPT !.claim = x])
    <3>1. window'[w] = [window[w] EXCEPT !.claim = x]
      BY <1>1, <2>2 DEF Know
    <3> QED
      BY <1>1, <3>1, FieldsKeepClaims
  <2>3. CASE Know(w, [window[w] EXCEPT !.heard = x])
    <3>1. window'[w] = [window[w] EXCEPT !.heard = x]
      BY <1>1, <2>3 DEF Know
    <3> QED
      BY <1>1, <3>1, FieldsKeepClaims
  <2> QED
    BY <1>6, <2>1, <2>2, <2>3
<1>7. ASSUME NEW g \in BOOLEAN, NEW files, KnowTouching(w, [window[w] EXCEPT !.good = g], files)
      PROVE  Same
  <2> DEFINE r == [window[w] EXCEPT !.good = g]
  <2>1. r \in Knowledge /\ r.draft = window[w].draft
    BY <1>1, FieldsAreKnowledge
  <2>2. KnowTouching(w, r, files)
    BY <1>7
  <2> HIDE DEF r
  <2> QED
    BY <1>3, <2>1, <2>2
<1>8. ASSUME Fails(w) PROVE stage'[w] = "ready"
  BY <1>2, <1>8 DEF Fails
<1> HIDE DEF Same
<1>9. CASE BeginSave(w)
  BY <1>9 DEF Drafts
<1>10. CASE PublishNewFails(w) \/ PreserveFails(w) \/ PublishFails(w)
  <2>1. /\ stage[w] \in Unpublished /\ stage'[w] \in Refusing /\ Same
        /\ UNCHANGED <<draftAt, overtaken>>
    BY <1>2, <1>5, <1>10 DEF PublishNewFails, PreserveFails, PublishFails, At, directory, history
  <2> QED
    BY <2>1 DEF Drafts, Same
<1>11. CASE Preserve(w)
  <2>1. /\ stage[w] = "preserve" /\ stage'[w] \in {"readRecovery", "removeRecovery"} /\ Same
        /\ UNCHANGED <<draftAt, overtaken>>
    BY <1>2, <1>4, <1>11 DEF Preserve, At, history
  <2> QED
    BY <2>1 DEF Drafts, Same
<1>12. ASSUME NEW ok \in BOOLEAN, ReadRecovery(w, ok) PROVE Drafts(w)
  <2>1. /\ stage[w] = "readRecovery" /\ stage'[w] \in {"readCurrent", "removeRecovery"} /\ Same
        /\ UNCHANGED <<draftAt, overtaken>>
    BY <1>2, <1>6, <1>12 DEF ReadRecovery, At, directory, history
  <2> QED
    BY <2>1 DEF Drafts, Same
<1>13. ASSUME NEW ok \in BOOLEAN, ReadCurrent(w, ok) PROVE Drafts(w)
  <2>1. /\ stage[w] = "readCurrent"
        /\ stage'[w] \in {"removeDraft", "exchange", "removeRecovery"} /\ Same
        /\ UNCHANGED <<draftAt, overtaken>>
    BY <1>2, <1>5, <1>13 DEF ReadCurrent, At, directory, history
  <2> QED
    BY <2>1 DEF Drafts, Same
<1>14. CASE Publish(w)
  <2>1. stage[w] = "exchange" /\ stage'[w] = "checkPublished" /\ Same
    BY <1>2, <1>4, <1>14 DEF Publish, At
  <2> QED
    BY <2>1 DEF Drafts, Same
<1>15. ASSUME NEW ok \in BOOLEAN, CheckPublished(w, ok) PROVE Drafts(w)
  <2>1. stage[w] = "checkPublished" /\ stage'[w] = "checkDisplaced" /\ Same
    BY <1>2, <1>6, <1>15 DEF CheckPublished, At
  <2> QED
    BY <2>1 DEF Drafts, Same
<1>16. ASSUME NEW ok \in BOOLEAN, CheckDisplaced(w, ok) PROVE Drafts(w)
  <2>1. stage[w] = "checkDisplaced" /\ stage'[w] \in {"finish", "checkRollback"} /\ Same
    BY <1>2, <1>5, <1>16 DEF CheckDisplaced, At
  <2> QED
    BY <2>1 DEF Drafts, Same
<1>17. CASE PublishNew(w) \/ FinishPublish(w)
  <2>1. stage[w] \in {"publishNew", "finish"} /\ stage'[w] = "verify" /\ Same
    BY <1>2, <1>7, <1>17 DEF PublishNew, FinishPublish, At
  <2> QED
    BY <2>1 DEF Drafts, Same
<1>18. ASSUME NEW ok \in BOOLEAN, CheckRollback(w, ok) PROVE Drafts(w)
  <2>1. CASE Fails(w)
    BY <1>8, <2>1 DEF Drafts
  <2>2. CASE Goto(w, "rollback") /\ UNCHANGED window
    <3>1. stage[w] = "checkRollback" /\ stage'[w] = "rollback" /\ Same
      BY <1>2, <1>5, <1>18, <2>2 DEF CheckRollback, At
    <3> QED
      BY <3>1 DEF Drafts, Same
  <2> QED
    BY <1>18, <2>1, <2>2 DEF CheckRollback
<1>19. CASE Rollback(w)
  <2>1. CASE Goto(w, "ready")
    BY <1>2, <2>1 DEF Drafts
  <2>2. CASE Goto(w, "removeRecovery") /\ Touch(w, {path, draftAt[w]})
    <3>1. stage[w] = "rollback" /\ stage'[w] = "removeRecovery" /\ Same /\ draftAt'[w] = path
      BY <1>2, <1>4, <1>19, <2>2 DEF Rollback, Exchange, At, HotwordTypeOK
    <3> QED
      BY <1>19, <3>1 DEF Drafts, Same
  <2> QED
    BY <1>19, <2>1, <2>2 DEF Rollback
<1>20. CASE RemoveRecovery(w)
  <2>1. /\ stage[w] = "removeRecovery" /\ stage'[w] = "removeDraft" /\ Same
        /\ UNCHANGED <<draftAt, overtaken>>
    BY <1>2, <1>4, <1>20 DEF RemoveRecovery, At, history
  <2> QED
    BY <2>1 DEF Drafts, Same
<1>21. ASSUME NEW ok \in BOOLEAN, Verify(w, ok) \/ Reload(w, ok) PROVE Drafts(w)
  <2>1. CASE Verify(w, ok)
    <3>1. stage[w] = "verify" /\ stage'[w] = "reload" /\ Same
      BY <1>2, <1>6, <2>1 DEF Verify, At
    <3> QED
      BY <3>1 DEF Drafts, Same
  <2>2. CASE Reload(w, ok)
    <3> DEFINE x == IF ok THEN data[path] ELSE Unheard
    <3>1. stage[w] = "reload" /\ stage'[w] = "confirm" /\ Know(w, [window[w] EXCEPT !.heard = x])
      BY <1>2, <2>2 DEF Reload, At
    <3> HIDE DEF x
    <3>2. Same
      BY <1>6, <3>1
    <3> QED
      BY <3>1, <3>2 DEF Drafts, Same
  <2> QED
    BY <1>21, <2>1, <2>2
<1>22. ASSUME NEW ok \in BOOLEAN, RefreshConfig(w, ok) PROVE Drafts(w)
  BY <1>22 DEF RefreshConfig, At, Drafts
<1>23. CASE LoadContent(w)
  BY <1>23 DEF LoadContent, At, Drafts
<1>24. CASE BeginRetry(w) \/ RemoveDraft(w) \/ ConfirmApplied(w) \/ RetryApplied(w) \/ Crash(w)
  BY <1>2, <1>24 DEF BeginRetry, RemoveDraft, ConfirmApplied, RetryApplied, Crash, Drafts
<1>25. CASE RollbackFails(w) \/ RetryFails(w)
  BY <1>8, <1>25 DEF RollbackFails, RetryFails, Drafts
<1>26. ASSUME NEW ok \in BOOLEAN, ConfirmSaved(w, ok) \/ RetryReload(w, ok) PROVE Drafts(w)
  BY <1>2, <1>8, <1>26 DEF ConfirmSaved, RetryReload, Drafts
<1> QED
  BY <1>9, <1>10, <1>11, <1>12, <1>13, <1>14, <1>15, <1>16, <1>17, <1>18, <1>19, <1>20, <1>21,
     <1>22, <1>23, <1>24, <1>25, <1>26 DEF Step

LEMMA KeepsDraftIsOwn ==
  ASSUME HotwordInv, OutcomeInv, NEW w \in Windows, Step(w) \/ Crash(w)
  PROVE  SaveHasDraft(w)' /\ DraftIsOwn(w)'
<1>1. /\ HotwordTypeOK /\ SaveHasDraft(w) /\ DraftIsOwn(w) /\ Drafts(w)
      /\ overtaken \subseteq overtaken'
  BY StepDrafts, HistoryGrows DEF HotwordInv, OutcomeInv, Next
<1>2. CASE stage'[w] \notin Saving
  BY <1>2 DEF SaveHasDraft, DraftIsOwn, Saving, Drafting, Unpublished, Refusing
<1>3. CASE BeginSave(w)
  <2>1. clock + 1 \in Files /\ clock + 1 # NoFile
    BY <1>1, <1>3, HotwordConstants DEF BeginSave, HotwordTypeOK, Files, Versions, NoFile
  <2>2. window'[w].draft = clock + 1
    <3>1. window'[w] = [window[w] EXCEPT !.draft = clock + 1]
      BY <1>1, <1>3 DEF BeginSave, Know, HotwordTypeOK
    <3> QED
      BY <1>1, <3>1, FieldsKeepClaims DEF HotwordTypeOK
  <2>3. draftAt'[w] = clock + 1
    BY <1>1, <1>3, <2>1 DEF BeginSave, HotwordTypeOK
  <2> QED
    BY <2>1, <2>2, <2>3 DEF SaveHasDraft, DraftIsOwn
<1>4. CASE stage[w] \in Saving /\ window'[w].draft = window[w].draft
  <2>1. SaveHasDraft(w)'
    BY <1>1, <1>4 DEF SaveHasDraft
  <2>2. CASE stage'[w] \notin Unpublished \cup Refusing
    BY <2>1, <2>2 DEF DraftIsOwn
  <2>3. CASE Rollback(w) /\ stage'[w] = "removeRecovery" /\ draftAt'[w] = path
    <3>1. overtaken' = {} => path = window[w].draft
      BY <2>3 DEF Rollback, Snapshot, Draft
    <3> QED
      BY <1>4, <2>1, <2>3, <3>1 DEF DraftIsOwn, Unpublished
  <2>4. CASE /\ UNCHANGED <<draftAt, overtaken>>
             /\ stage[w] \in Unpublished \cup Refusing
             /\ stage'[w] \in Unpublished => stage[w] \in Unpublished
    BY <1>1, <1>4, <2>1, <2>4 DEF DraftIsOwn
  <2> QED
    BY <1>1, <2>2, <2>3, <2>4, <1>2, <1>3, <1>4 DEF Drafts, Saving, Drafting
<1> QED
  BY <1>1, <1>2, <1>3, <1>4 DEF Drafts

LEMMA VerifyClaims ==
  ASSUME HotwordTypeOK, NEW w \in Windows, NEW ok \in BOOLEAN, Verify(w, ok)
  PROVE  window'[w].claim = Read(ok) /\ stage'[w] = "reload" /\ UNCHANGED <<data, clock>>
<1>1. window[w] \in Knowledge /\ window'[w] = [window[w] EXCEPT !.claim = Read(ok)]
  BY KnowClaims DEF HotwordTypeOK, Verify
<1> QED
  BY <1>1, FieldsKeepClaims DEF Verify, Goto, HotwordTypeOK

LEMMA ReadIsOld ==
  ASSUME HotwordInv, NEW ok \in BOOLEAN
  PROVE  Read(ok) = NoSnapshot \/ Read(ok).version <= clock
<1>1. data[path] <= clock
  BY HotwordConstants
     DEF HotwordInv, HotwordTypeOK, FilesAreWritten, Files, Versions, NoFile
<1> QED
  BY <1>1 DEF Read, Snapshot

LEMMA KeepsClaims ==
  ASSUME HotwordInv, OutcomeInv, Next, NEW v \in Windows
  PROVE  ClaimIsOld(v)'
<1>1. HotwordTypeOK /\ ClaimIsOld(v) /\ clock' >= clock /\ clock' \in Versions
  BY StepsPlace, PlacingKeepsType DEF HotwordInv, OutcomeInv
<1>2. ASSUME window'[v].claim \in {window[v].claim, NoSnapshot} PROVE ClaimIsOld(v)'
  <2>1. window[v].claim \in Snapshots
    BY <1>1 DEF HotwordTypeOK, Knowledge
  <2>2. window[v].claim.version \in Nat
    BY <2>1, HotwordConstants DEF Snapshots
  <2> QED
    BY <1>1, <1>2, <2>2, HotwordConstants DEF ClaimIsOld, HotwordTypeOK, Versions
<1>3. ASSUME NEW ok \in BOOLEAN, Verify(v, ok) PROVE ClaimIsOld(v)'
  BY <1>1, <1>3, VerifyClaims, ReadIsOld DEF ClaimIsOld
<1>4. CASE ExternalWrite \/ ExternalDelete
  BY <1>2, <1>4 DEF ExternalWrite, ExternalDelete
<1>5. ASSUME NEW w \in Windows, Step(w) \/ Crash(w) PROVE ClaimIsOld(v)'
  BY <1>1, <1>2, <1>3, <1>5, StepClaims DEF Claims
<1> QED
  BY <1>4, <1>5 DEF Next

(* A file that comes to the path takes the claims on it away.               *)
LEMMA ClaimedFilesStay ==
  ASSUME HotwordInv, OutcomeInv, Next, NEW v \in Windows,
         path' # NoFile, window[v].claim = Snapshot(path)', window'[v].claim = window[v].claim
  PROVE  path' = path /\ data'[path] = data[path]
<1>1. HotwordTypeOK /\ PlacesAreApart /\ ClaimIsOld(v)
  BY DEF HotwordInv, OutcomeInv
<1>2. /\ window'[v].claim.file = path' /\ window'[v].claim.version = data'[path']
      /\ window'[v].claim # NoSnapshot
  BY DEF Snapshot, NoSnapshot
<1>3. ASSUME NEW w \in Windows, NEW r \in Knowledge, NEW files, KnowTouching(w, r, files)
      PROVE  path' \notin files
  BY <1>1, <1>2, <1>3, TouchingClaims DEF HotwordTypeOK
<1>4. ASSUME NEW w \in Windows, PublishNew(w) PROVE FALSE
  <2>1. PICK ok \in BOOLEAN : KnowTouching(w, [window[w] EXCEPT !.good = ok], {draftAt[w]})
    BY <1>4 DEF PublishNew
  <2> DEFINE r == [window[w] EXCEPT !.good = ok]
  <2>2. r \in Knowledge
    BY <1>1, FieldsAreKnowledge DEF HotwordTypeOK
  <2>3. KnowTouching(w, r, {draftAt[w]})
    BY <2>1
  <2> HIDE DEF r
  <2>4. path' \notin {draftAt[w]}
    BY <1>3, <2>2, <2>3
  <2> QED
    BY <1>4, <2>4 DEF PublishNew
<1>5. ASSUME NEW w \in Windows, Publish(w) \/ Rollback(w) PROVE FALSE
  <2>1. path' = draftAt[w]
    BY <1>5 DEF Publish, Rollback, Exchange
  <2>2. \E r \in Knowledge : KnowTouching(w, r, {path, draftAt[w]})
    BY <1>1, <1>5, FailedIsKnowledge DEF Publish, Rollback, Touch, HotwordTypeOK
  <2>3. path' \notin {path, draftAt[w]}
    BY <1>3, <2>2
  <2> QED
    BY <2>1, <2>3
<1>6. CASE ExternalWrite
  <2>1. data'[path'] = clock + 1
    BY <1>1, <1>6, HotwordConstants DEF ExternalWrite, HotwordTypeOK, Files, Versions
  <2>2. clock \in Nat
    BY <1>1, HotwordConstants DEF HotwordTypeOK, Versions
  <2> QED
    BY <1>1, <1>2, <2>1, <2>2 DEF ClaimIsOld
<1>7. CASE ExternalDelete
  BY <1>7 DEF ExternalDelete
<1>8. ASSUME NEW w \in Windows, BeginSave(w) PROVE path' = path /\ data'[path] = data[path]
  BY <1>1, <1>8, HotwordConstants DEF BeginSave, HotwordTypeOK, PlacesAreApart, Versions
<1>9. ASSUME NEW w \in Windows, Step(w) \/ Crash(w)
      PROVE  \/ PublishNew(w) \/ Publish(w) \/ Rollback(w) \/ BeginSave(w)
             \/ UNCHANGED <<path, data>>
  BY <1>9 DEF Step, Crash, LoadContent, BeginRetry, PublishNewFails, Preserve, PreserveFails,
     PublishFails, FinishPublish, RollbackFails, RemoveRecovery, RemoveDraft, ConfirmApplied,
     RetryApplied, RetryFails, RefreshConfig, ReadRecovery, ReadCurrent, CheckPublished,
     CheckDisplaced, CheckRollback, Verify, Reload, ConfirmSaved, RetryReload, directory
<1> QED
  BY <1>4, <1>5, <1>6, <1>7, <1>8, <1>9 DEF Next

LEMMA WaitersHear ==
  ASSUME HotwordInv, OutcomeInv, Next, NEW v \in Windows, stage'[v] = stage[v],
         window'[v].heard = window[v].heard, window'[v].claim \in {window[v].claim, NoSnapshot}
  PROVE  HeardIsClaimed(v)'
<1>1. SUFFICES ASSUME Heard(v)', path' # NoFile,
                      window'[v].claim = Snapshot(path)'
               PROVE  window'[v].heard = data'[path']
  BY DEF HeardIsClaimed
<1>2. window'[v].claim # NoSnapshot
  BY <1>1 DEF Snapshot, NoSnapshot
<1>3. window'[v].claim = window[v].claim
  BY <1>2
<1>4. path' = path /\ data'[path] = data[path]
  BY <1>1, <1>3, ClaimedFilesStay
<1>5. window[v].claim = Snapshot(path)
  BY <1>1, <1>3, <1>4 DEF Snapshot
<1>6. HeardIsClaimed(v)
  BY DEF OutcomeInv
<1> QED
  BY <1>1, <1>4, <1>5, <1>6 DEF HeardIsClaimed, Heard

LEMMA MoverHears ==
  ASSUME HotwordInv, OutcomeInv, NEW w \in Windows, Step(w) \/ Crash(w)
  PROVE  HeardIsClaimed(w)' /\ ClaimIsThere(w)'
<1> DEFINE Goal == HeardIsClaimed(w)' /\ ClaimIsThere(w)'
<1>1. /\ HotwordTypeOK /\ ClaimIsThere(w)
      /\ stage \in [Windows -> Stages]
      /\ window \in [Windows -> Knowledge] /\ window[w] \in Knowledge
  BY DEF HotwordInv, OutcomeInv, HotwordTypeOK
<1>2. NoSnapshot.version # 0
  BY HotwordConstants DEF NoSnapshot
<1>3. ASSUME NEW pc, Goto(w, pc) PROVE stage'[w] = pc
  BY <1>1, <1>3 DEF Goto
<1>4. ASSUME stage'[w] \notin {"reload", "confirm", "retryConfirm"},
             stage[w] \notin {"reload", "confirm"},
             window'[w].claim \in {window[w].claim, NoSnapshot}
      PROVE  Goal
  BY <1>1, <1>2, <1>4 DEF ClaimIsThere, HeardIsClaimed, Heard
<1>5. CASE \E ok \in BOOLEAN : Verify(w, ok)
  BY <1>1, <1>5, VerifyClaims DEF HeardIsClaimed, ClaimIsThere, Heard
<1>6. ASSUME NEW ok \in BOOLEAN, Reload(w, ok) PROVE Goal
  <2> DEFINE x == IF ok THEN data[path] ELSE Unheard
  <2>1. /\ stage'[w] = "confirm" /\ UNCHANGED <<path, data>>
        /\ window'[w] = [window[w] EXCEPT !.heard = x]
    BY <1>1, <1>3, <1>6, KnowClaims DEF Reload, directory
  <2>2. window'[w].heard = x
    BY <1>1, <2>1, FieldsKeepClaims
  <2> QED
    BY <2>1, <2>2 DEF HeardIsClaimed, Heard, ClaimIsThere
<1>7. ASSUME NEW ok \in BOOLEAN, RetryReload(w, ok) PROVE Goal
  <2>1. CASE Fails(w)
    <3>1. stage'[w] = "ready" /\ window'[w].claim = window[w].claim /\ stage[w] = "retryReload"
      BY <1>1, <1>3, <1>7, <2>1, KnowClaims DEF Fails, Failed, Editing, RetryReload, At
    <3> QED
      BY <1>4, <3>1
  <2>2. CASE Know(w, [window[w] EXCEPT !.heard = data[path]]) /\ Goto(w, "retryConfirm")
    <3>1. /\ stage'[w] = "retryConfirm" /\ stage[w] = "retryReload" /\ UNCHANGED <<path, data>>
          /\ window'[w] = [window[w] EXCEPT !.heard = data[path]]
      BY <1>1, <1>3, <1>7, <2>2, KnowClaims DEF RetryReload, At, directory
    <3>2. window'[w].heard = data[path] /\ window'[w].claim = window[w].claim
      BY <1>1, <3>1, FieldsKeepClaims
    <3> QED
      BY <1>1, <3>1, <3>2 DEF HeardIsClaimed, ClaimIsThere
  <2> QED
    BY <1>7, <2>1, <2>2 DEF RetryReload
<1>8. ASSUME NEW ok \in BOOLEAN, ConfirmSaved(w, ok) PROVE Goal
  <2> DEFINE b == IF ok /\ StillPublished(w) THEN window[w].claim ELSE NoSnapshot
             c == IF window[w].heard # Unheard THEN NoSnapshot ELSE b
  <2>1. stage'[w] = "ready" /\ window'[w] = Editing(b, c) /\ stage[w] = "confirm"
    BY <1>1, <1>3, <1>8, KnowClaims DEF ConfirmSaved, At
  <2>2. window[w].draft # 0
    BY <2>1 DEF OutcomeInv, SaveHasDraft, Saving, NoFile
  <2>3. c.version # 0
    BY <1>2, <2>2 DEF StillPublished
  <2>4. window'[w].claim = c
    BY <2>1 DEF Editing
  <2> QED
    BY <2>1, <2>3, <2>4 DEF HeardIsClaimed, ClaimIsThere, Heard
<1>9. CASE ConfirmApplied(w) \/ RetryApplied(w) \/ Crash(w)
  <2>1. stage'[w] = "ready" /\ window'[w].claim = NoSnapshot
    BY <1>1, <1>3, <1>9, KnowClaims DEF ConfirmApplied, RetryApplied, Crash, Closed, Editing
  <2> QED
    BY <1>2, <2>1 DEF HeardIsClaimed, ClaimIsThere, Heard
<1>10. CASE RetryFails(w) \/ RollbackFails(w)
  <2>1. /\ stage'[w] = "ready" /\ window'[w].claim = window[w].claim
        /\ stage[w] \in {"retryConfirm", "rollback"}
    BY <1>1, <1>3, <1>10, KnowClaims DEF RetryFails, RollbackFails, Fails, Failed, Editing, At
  <2> QED
    BY <1>4, <2>1
<1>11. \/ \E ok \in BOOLEAN : Verify(w, ok)
       \/ window'[w].claim \in {window[w].claim, NoSnapshot}
  BY <1>1, StepClaims
<1>12. ASSUME \/ LoadContent(w) \/ BeginSave(w) \/ BeginRetry(w) \/ PublishNew(w)
              \/ PublishNewFails(w) \/ Preserve(w) \/ PreserveFails(w) \/ Publish(w)
              \/ PublishFails(w) \/ FinishPublish(w) \/ Rollback(w) \/ RemoveRecovery(w)
              \/ RemoveDraft(w)
       PROVE  Goal
  <2>1. /\ stage[w] \notin {"reload", "confirm"}
        /\ stage'[w] \notin {"reload", "confirm", "retryConfirm"}
    BY <1>1, <1>3, <1>12 DEF LoadContent, BeginSave, BeginRetry, PublishNew, PublishNewFails,
       Preserve, PreserveFails, Publish, PublishFails, FinishPublish, Rollback, RemoveRecovery,
       RemoveDraft, At
  <2> QED
    BY <1>4, <1>5, <1>11, <2>1
<1>13. ASSUME NEW ok \in BOOLEAN,
              \/ RefreshConfig(w, ok) \/ ReadRecovery(w, ok) \/ ReadCurrent(w, ok)
              \/ CheckPublished(w, ok) \/ CheckDisplaced(w, ok) \/ CheckRollback(w, ok)
       PROVE  Goal
  <2>1. /\ stage[w] \notin {"reload", "confirm"}
        /\ stage'[w] \notin {"reload", "confirm", "retryConfirm"}
    BY <1>1, <1>3, <1>13 DEF RefreshConfig, ReadRecovery, ReadCurrent, CheckPublished,
       CheckDisplaced, CheckRollback, Fails, At
  <2> QED
    BY <1>4, <1>5, <1>11, <2>1
<1> QED
  BY <1>5, <1>6, <1>7, <1>8, <1>9, <1>10, <1>12, <1>13 DEF Step

LEMMA OthersKeepOutcome ==
  ASSUME HotwordInv, OutcomeInv, Next, NEW v \in Windows, Still(v),
         window'[v].heard = window[v].heard, window'[v].claim \in {window[v].claim, NoSnapshot}
  PROVE  ClaimIsThere(v)' /\ SaveHasDraft(v)' /\ DraftIsOwn(v)' /\ HeardIsClaimed(v)'
<1>1. ClaimIsThere(v) /\ SaveHasDraft(v) /\ DraftIsOwn(v) /\ overtaken \subseteq overtaken'
  BY HistoryGrows DEF OutcomeInv
<1>2. ClaimIsThere(v)'
  BY <1>1, HotwordConstants DEF ClaimIsThere, Still, NoSnapshot
<1>3. SaveHasDraft(v)' /\ DraftIsOwn(v)'
  BY <1>1 DEF SaveHasDraft, DraftIsOwn, Still, Unmoved
<1>4. HeardIsClaimed(v)'
  BY WaitersHear DEF Still
<1> QED
  BY <1>2, <1>3, <1>4

LEMMA InitOutcomeInv == Init => OutcomeInv
<1> SUFFICES ASSUME Init, NEW w \in Windows
             PROVE  /\ ClaimIsOld(w) /\ ClaimIsThere(w) /\ SaveHasDraft(w) /\ DraftIsOwn(w)
                    /\ HeardIsClaimed(w)
  BY DEF OutcomeInv
<1>1. stage[w] = "ready" /\ window[w].claim = NoSnapshot
  BY DEF Init, Closed, Editing
<1> QED
  BY <1>1, HotwordConstants DEF ClaimIsOld, ClaimIsThere, SaveHasDraft, DraftIsOwn,
     HeardIsClaimed, NoSnapshot, Saving, Drafting, Unpublished, Refusing, Heard

LEMMA NextOutcomeInv == HotwordInv /\ OutcomeInv /\ [Next]_vars => OutcomeInv'
<1> SUFFICES ASSUME HotwordInv, OutcomeInv, [Next]_vars, NEW v \in Windows
             PROVE  /\ ClaimIsOld(v)' /\ ClaimIsThere(v)' /\ SaveHasDraft(v)' /\ DraftIsOwn(v)'
                    /\ HeardIsClaimed(v)'
  BY DEF OutcomeInv
<1>1. CASE UNCHANGED vars
  <2>1. /\ ClaimIsOld(v) /\ ClaimIsThere(v) /\ SaveHasDraft(v) /\ DraftIsOwn(v)
        /\ HeardIsClaimed(v)
    BY DEF OutcomeInv
  <2>2. UNCHANGED <<path, draftAt, data, clock, stage, window, overtaken>>
    BY <1>1 DEF vars, directory, history
  <2> QED
    BY <2>1, <2>2 DEF ClaimIsOld, ClaimIsThere, SaveHasDraft, DraftIsOwn, HeardIsClaimed, Heard,
       Snapshot
<1>2. ASSUME Next
      PROVE  /\ ClaimIsThere(v)' /\ SaveHasDraft(v)' /\ DraftIsOwn(v)'
             /\ HeardIsClaimed(v)'
  <2>1. HotwordTypeOK
    BY DEF HotwordInv
  <2>2. ASSUME NEW w \in Windows, Step(w) \/ Crash(w), v # w
        PROVE  /\ ClaimIsThere(v)' /\ SaveHasDraft(v)' /\ DraftIsOwn(v)' /\ HeardIsClaimed(v)'
    <3>1. Still(v) /\ Claims(w)
      BY <2>1, <2>2, OthersStayStill, StepClaims
    <3> QED
      BY <1>2, <2>2, <3>1, OthersKeepOutcome DEF Claims
  <2>3. CASE Step(v) \/ Crash(v)
    BY <2>3, MoverHears, KeepsDraftIsOwn
  <2>4. CASE ExternalWrite \/ ExternalDelete
    <3>1. Still(v) /\ UNCHANGED window
      BY <2>4, ExternalsMoveNobody DEF ExternalWrite, ExternalDelete
    <3> QED
      BY <1>2, <3>1, OthersKeepOutcome
  <2> QED
    BY <1>2, <2>2, <2>3, <2>4 DEF Next
<1> QED
  BY <1>1, <1>2, KeepsClaims

LEMMA ReportsAreTrue ==
  ASSUME HotwordInv, OutcomeInv, NEW w \in Windows
  PROVE  /\ ConfirmApplied(w) =>
              window[w].heard = window[w].draft /\ data[path] = window[w].draft
         /\ RetryApplied(w) => window[w].heard = data[path]
         /\ RemoveDraft(w) => path # window[w].draft \/ overtaken # {}
<1>1. /\ ClaimIsThere(w) /\ SaveHasDraft(w) /\ DraftIsOwn(w) /\ HeardIsClaimed(w)
      /\ data[NoFile] = 0
  BY DEF HotwordInv, OutcomeInv, FilesAreWritten
<1>2. ASSUME ConfirmApplied(w)
      PROVE  window[w].heard = window[w].draft /\ data[path] = window[w].draft
  <2>1. /\ stage[w] = "confirm" /\ window[w].heard # Unheard
        /\ window[w].claim = Snapshot(path) /\ window[w].claim.version = window[w].draft
    BY <1>2 DEF ConfirmApplied, At, StillPublished
  <2>2. data[path] = window[w].draft /\ window[w].draft # 0
    BY <1>1, <2>1 DEF Snapshot, SaveHasDraft, Saving, NoFile
  <2> QED
    BY <1>1, <2>1, <2>2 DEF HeardIsClaimed, Heard
<1>3. ASSUME RetryApplied(w) PROVE window[w].heard = data[path]
  <2>1. stage[w] = "retryConfirm" /\ window[w].claim = Snapshot(path)
    BY <1>3 DEF RetryApplied, At
  <2>2. path # NoFile
    BY <1>1, <2>1 DEF ClaimIsThere, Snapshot
  <2> QED
    BY <1>1, <1>3, <2>1, <2>2 DEF HeardIsClaimed, Heard
<1>4. ASSUME RemoveDraft(w) PROVE path # window[w].draft \/ overtaken # {}
  <2>1. stage[w] = "removeDraft"
    BY <1>4 DEF RemoveDraft, At
  <2>2. draftAt[w] # path
    BY <2>1 DEF HotwordInv, HoldsDraft, PlacesAreApart, Drafting
  <2> QED
    BY <1>1, <2>1, <2>2 DEF DraftIsOwn, Refusing
<1> QED
  BY <1>2, <1>3, <1>4

(* What a window is told of its save and its retry is so: what is reported  *)
(* as applied is what the daemon has read and the path holds, and a refused *)
(* draft is not left at the path.                                           *)
THEOREM OutcomesAreAlwaysTrue == HotwordSpec => OutcomesAreTrue
<1>1. HotwordSpec => []OutcomeInv
  BY HotwordInvariant, InitOutcomeInv, NextOutcomeInv, PTL DEF HotwordSpec
<1>2. HotwordInv /\ OutcomeInv /\ [Next]_vars =>
        [\A w \in Windows :
           /\ ConfirmApplied(w) =>
                window[w].heard = window[w].draft /\ data[path] = window[w].draft
           /\ RetryApplied(w) => window[w].heard = data[path]
           /\ RemoveDraft(w) => path # window[w].draft \/ overtaken # {}]_vars
  BY ReportsAreTrue
<1> QED
  BY <1>1, <1>2, HotwordInvariant, PTL DEF HotwordSpec, OutcomesAreTrue
=============================================================================
