----------------------------- MODULE HotwordFile -----------------------------
(***************************************************************************)
(* Saving a hotword file from the GUI (hotword_persistence.rs): the        *)
(* transaction that publishes the edited content with a recovery hard link *)
(* and an atomic exchange, its rollback, and the activation and its retry  *)
(* (hotword_activation_retry.rs), while other programs and other windows   *)
(* write the same path and a window may die at any step.                   *)
(*                                                                         *)
(* A step is one system call on the directory, or one read of a snapshot,  *)
(* which reads a version as a whole or fails (on any error, and when the   *)
(* file changes under it).                                                 *)
(* Abstractions: a file is an inode, named by the version it is created    *)
(* with; two versions differ in content and in mtime; preparing a draft is *)
(* one step, for nobody else knows its name; removing a file succeeds (a   *)
(* failure only leaves it); other programs write the path itself, and keep *)
(* no file open.  The configured target stays the same, and its provider   *)
(* is the active one.                                                      *)
(***************************************************************************)
EXTENDS Naturals

CONSTANTS
  Windows,     (* GUI processes editing the file                            *)
  MaxVersions  (* bound: versions ever written                              *)

ASSUME HotwordConstants == MaxVersions \in Nat \ {0}

VARIABLES
  path,       (* the file linked at the configured path                     *)
  draftAt,    (* the file linked at the temporary path of each window       *)
  recovery,   (* ... and at its recovery path                               *)
  kept,       (* files linked at adjacent paths no window will touch again  *)
  data,       (* the version each file holds                                *)
  clock,      (* the latest version                                         *)
  stage,      (* the progress of each window in its save or retry           *)
  window,     (* what each window knows                                     *)
  replaced,   (* history: versions another program replaced or deleted      *)
  rejected,   (* history: drafts whose save was refused                     *)
  overtaken   (* history: versions a rollback took from the path unseen     *)

directory == <<path, draftAt, recovery, kept>>
history   == <<replaced, rejected, overtaken>>
vars      == <<directory, data, clock, stage, window, history>>

Versions == 1 .. MaxVersions
Files    == Versions
NoFile   == 0

(* HotwordContentSnapshot, and the baseline of an editor that has none.     *)
Snapshot(f) == [file |-> f, version |-> data[f]]
Missing     == [file |-> NoFile, version |-> 0]
NoSnapshot  == [file |-> NoFile, version |-> MaxVersions + 1]
Snapshots   == [file : Files \cup {NoFile}, version : 0 .. MaxVersions + 1]

Unheard     == MaxVersions + 1

Knowledge ==
  [baseline : Snapshots, claim : Snapshots, draft : Files \cup {NoFile}, good : BOOLEAN,
   heard : Versions \cup {0, Unheard}]

(* What an idle editor knows.  Its claim is its pending activation; once a  *)
(* save has published, the version it activates takes that place.           *)
Editing(baseline, claim) ==
  [baseline |-> baseline, claim |-> claim, draft |-> NoFile, good |-> TRUE, heard |-> Unheard]
Closed == Editing(NoSnapshot, NoSnapshot)

Init ==
  /\ path \in {NoFile, 1}
  /\ draftAt = [w \in Windows |-> NoFile]
  /\ recovery = [w \in Windows |-> NoFile]
  /\ kept = {}
  /\ data = [f \in Files \cup {NoFile} |-> IF f = path THEN f ELSE 0]
  /\ clock = 1
  /\ stage = [w \in Windows |-> "ready"]
  /\ window = [w \in Windows |-> Closed]
  /\ replaced = IF path = NoFile THEN {1} ELSE {}
  /\ rejected = {}
  /\ overtaken = {}

-----------------------------------------------------------------------------
At(w, pc)   == stage[w] = pc
Goto(w, pc) == stage' = [stage EXCEPT ![w] = pc]
Know(w, r)  == window' = [window EXCEPT ![w] = r]

(* Linking, unlinking and renaming a file moves its ctime.  A claim is only *)
(* good while that stays too; the other comparisons leave it out            *)
(* (matches_after_claim).                                                   *)
KnowTouching_ComparesMtime(w, r, files) == Know(w, r)
KnowTouching(w, r, files) ==
  window' = [v \in Windows |->
    LET now == IF v = w THEN r ELSE window[v]
    IN  IF now.claim.file \in files THEN [now EXCEPT !.claim = NoSnapshot] ELSE now]
Touch(w, files) == KnowTouching(w, window[w], files)

(* read_hotword_snapshot gives what is at the path, or an error.            *)
Read(ok) == IF ok THEN Snapshot(path) ELSE NoSnapshot

(* renameat2 with RENAME_EXCHANGE.                                          *)
Exchange(w) ==
  /\ path # NoFile
  /\ path' = draftAt[w]
  /\ draftAt' = [draftAt EXCEPT ![w] = path]
  /\ UNCHANGED <<recovery, kept>>

Unlink(links, w) == links' = [links EXCEPT ![w] = NoFile]

(* A failure leaves the editor its baseline and its pending activation.     *)
Failed(w) == Editing(window[w].baseline, window[w].claim)
Fails(w)  == Goto(w, "ready") /\ Know(w, Failed(w))

-----------------------------------------------------------------------------
(* The editor.                                                              *)

(* apply_loaded: a pending activation of another version is forgotten.      *)
LoadContent(w) ==
  /\ At(w, "ready")
  /\ Know(w, Editing(Snapshot(path),
                     IF window[w].claim = Snapshot(path) THEN window[w].claim ELSE NoSnapshot))
  /\ UNCHANGED <<directory, data, clock, stage, history>>

(* refresh_hotword_editor.                                                  *)
RefreshConfig(w, ok) ==
  /\ At(w, "ready")
  /\ Know(w, Editing(NoSnapshot,
                     IF window[w].claim = Read(ok) THEN window[w].claim ELSE NoSnapshot))
  /\ UNCHANGED <<directory, data, clock, stage, history>>

(* save_hotword_content_with_daemon, up to the prepared temporary file; the *)
(* leftovers of an earlier save have names of their own.                    *)
BeginSave(w) ==
  /\ At(w, "ready")
  /\ window[w].baseline # NoSnapshot
  /\ clock < MaxVersions
  /\ clock' = clock + 1
  /\ data' = [data EXCEPT ![clock + 1] = clock + 1]
  /\ draftAt' = [draftAt EXCEPT ![w] = clock + 1]
  /\ recovery' = [recovery EXCEPT ![w] = NoFile]
  /\ kept' = (kept \cup {draftAt[w], recovery[w]}) \ {NoFile}
  /\ Know(w, [window[w] EXCEPT !.draft = clock + 1])
  /\ Goto(w, IF window[w].baseline = Missing THEN "publishNew" ELSE "preserve")
  /\ UNCHANGED <<path, history>>

-----------------------------------------------------------------------------
(* compare_and_swap_hotword_file.                                           *)

(* publish_noreplace, for a file that did not exist; what is synchronised   *)
(* after it may leave the save unconfirmed.                                 *)
PublishNew(w) ==
  /\ At(w, "publishNew")
  /\ path = NoFile
  /\ path' = draftAt[w]
  /\ Unlink(draftAt, w)
  /\ \E ok \in BOOLEAN : KnowTouching(w, [window[w] EXCEPT !.good = ok], {draftAt[w]})
  /\ Goto(w, "verify")
  /\ UNCHANGED <<recovery, kept, data, clock, history>>

PublishNewFails(w) ==
  /\ At(w, "publishNew")
  /\ Goto(w, "removeDraft")
  /\ UNCHANGED <<directory, data, clock, window, history>>

(* preserve_current_hotword_file and synchronize_recovery_or_remove.        *)
Preserve_ByRename(w) ==
  /\ At(w, "preserve")
  /\ path # NoFile
  /\ recovery' = [recovery EXCEPT ![w] = path]
  /\ path' = NoFile
  /\ Touch(w, {path})
  /\ Goto(w, "readRecovery")
  /\ UNCHANGED <<draftAt, kept, data, clock, history>>

Preserve(w) ==
  /\ At(w, "preserve")
  /\ path # NoFile
  /\ recovery' = [recovery EXCEPT ![w] = path]
  /\ Touch(w, {path})
  /\ \E ok \in BOOLEAN : Goto(w, IF ok THEN "readRecovery" ELSE "removeRecovery")
  /\ UNCHANGED <<path, draftAt, kept, data, clock, history>>

PreserveFails(w) ==
  /\ At(w, "preserve")
  /\ Goto(w, "removeDraft")
  /\ UNCHANGED <<directory, data, clock, window, history>>

(* read_preserved_hotword_or_remove.                                        *)
ReadRecovery(w, ok) ==
  /\ At(w, "readRecovery")
  /\ Know(w, [window[w] EXCEPT !.good = Snapshot(recovery[w]) = window[w].baseline])
  /\ Goto(w, IF ok THEN "readCurrent" ELSE "removeRecovery")
  /\ UNCHANGED <<directory, data, clock, history>>

(* read_current_hotword_or_preserve_recovery; both reads must have found    *)
(* the version the editor had loaded.                                       *)
ReadCurrent(w, ok) ==
  /\ At(w, "readCurrent")
  /\ Goto(w, IF ~ok \/ path = NoFile THEN "removeDraft"
             ELSE IF window[w].good /\ Snapshot(path) = window[w].baseline THEN "exchange"
             ELSE "removeRecovery")
  /\ UNCHANGED <<directory, data, clock, window, history>>

Publish(w) ==
  /\ At(w, "exchange")
  /\ Exchange(w)
  /\ Touch(w, {path, draftAt[w]})
  /\ Goto(w, "checkPublished")
  /\ UNCHANGED <<data, clock, history>>

PublishFails(w) ==
  /\ At(w, "exchange")
  /\ Goto(w, "removeRecovery")
  /\ UNCHANGED <<directory, data, clock, window, history>>

Draft(w) == [file |-> window[w].draft, version |-> window[w].draft]

CheckPublished(w, ok) ==
  /\ At(w, "checkPublished")
  /\ Know(w, [window[w] EXCEPT !.good = Read(ok) = Draft(w)])
  /\ Goto(w, "checkDisplaced")
  /\ UNCHANGED <<directory, data, clock, history>>

CheckDisplaced_Unchecked(w, ok) ==
  /\ At(w, "checkDisplaced")
  /\ Goto(w, IF window[w].good /\ ok THEN "finish" ELSE "checkRollback")
  /\ UNCHANGED <<directory, data, clock, window, history>>

CheckDisplaced(w, ok) ==
  /\ At(w, "checkDisplaced")
  /\ Goto(w, IF window[w].good /\ ok /\ Snapshot(draftAt[w]) = window[w].baseline
             THEN "finish" ELSE "checkRollback")
  /\ UNCHANGED <<directory, data, clock, window, history>>

(* The displaced file goes, its recovery link stays; finish_published.      *)
FinishPublish(w) ==
  /\ At(w, "finish")
  /\ Unlink(draftAt, w)
  /\ \E ok \in BOOLEAN : KnowTouching(w, [window[w] EXCEPT !.good = ok], {draftAt[w]})
  /\ Goto(w, "verify")
  /\ UNCHANGED <<path, recovery, kept, data, clock, history>>

(* handle_invalid_exchange and rollback_exchanged_hotword: what is not the  *)
(* draft any more is left alone, and so are the displaced file and the      *)
(* recovery.                                                                *)
CheckRollback(w, ok) ==
  /\ At(w, "checkRollback")
  /\ IF Read(ok) = Draft(w)
     THEN Goto(w, "rollback") /\ UNCHANGED window
     ELSE Fails(w)
  /\ UNCHANGED <<directory, data, clock, history>>

Rollback(w) ==
  /\ At(w, "rollback")
  /\ Exchange(w)
  /\ overtaken' = IF Snapshot(path) = Draft(w) THEN overtaken ELSE overtaken \cup {data[path]}
  /\ \/ Goto(w, "removeRecovery") /\ Touch(w, {path, draftAt[w]})
     \/ Goto(w, "ready") /\ KnowTouching(w, Failed(w), {path, draftAt[w]})
  /\ UNCHANGED <<data, clock, replaced, rejected>>

RollbackFails(w) ==
  /\ At(w, "rollback")
  /\ Fails(w)
  /\ UNCHANGED <<directory, data, clock, history>>

RemoveRecovery(w) ==
  /\ At(w, "removeRecovery")
  /\ Unlink(recovery, w)
  /\ Touch(w, {recovery[w]})
  /\ Goto(w, "removeDraft")
  /\ UNCHANGED <<path, draftAt, kept, data, clock, history>>

(* The temporary file goes, whatever is linked there by now.                *)
RemoveDraft(w) ==
  /\ At(w, "removeDraft")
  /\ Unlink(draftAt, w)
  /\ rejected' = rejected \cup {window[w].draft}
  /\ KnowTouching(w, Failed(w), {draftAt[w]})
  /\ Goto(w, "ready")
  /\ UNCHANGED <<path, recovery, kept, data, clock, replaced, overtaken>>

-----------------------------------------------------------------------------
(* save_hotword_content_with_reload, after publication.                     *)

Verify(w, ok) ==
  /\ At(w, "verify")
  /\ Know(w, [window[w] EXCEPT !.claim = Read(ok)])
  /\ Goto(w, "reload")
  /\ UNCHANGED <<directory, data, clock, history>>

(* The daemon rebuilds its backend, reading the file, or fails to.          *)
Reload(w, ok) ==
  /\ At(w, "reload")
  /\ Know(w, [window[w] EXCEPT !.heard = IF ok THEN data[path] ELSE Unheard])
  /\ Goto(w, "confirm")
  /\ UNCHANGED <<directory, data, clock, history>>

(* The published version is still there: it is the new baseline, and was    *)
(* applied, or may be activated by a retry (apply_saved_content_baseline).  *)
StillPublished(w) == Snapshot(path) = window[w].claim /\ window[w].claim.version = window[w].draft

ConfirmApplied(w) ==
  /\ At(w, "confirm")
  /\ StillPublished(w)
  /\ window[w].good /\ window[w].heard # Unheard
  /\ Know(w, Editing(window[w].claim, NoSnapshot))
  /\ Goto(w, "ready")
  /\ UNCHANGED <<directory, data, clock, history>>

ConfirmSaved(w, ok) ==
  /\ At(w, "confirm")
  /\ LET baseline == IF ok /\ StillPublished(w) THEN window[w].claim ELSE NoSnapshot
         reloaded == window[w].heard # Unheard
     IN  /\ ~(window[w].good /\ reloaded /\ baseline # NoSnapshot)
         /\ Know(w, Editing(baseline, IF reloaded THEN NoSnapshot ELSE baseline))
  /\ Goto(w, "ready")
  /\ UNCHANGED <<directory, data, clock, history>>

(* retry_hotword_activation validates the version, reloads and validates.   *)
BeginRetry(w) ==
  /\ At(w, "ready")
  /\ window[w].claim # NoSnapshot
  /\ Snapshot(path) = window[w].claim
  /\ Goto(w, "retryReload")
  /\ UNCHANGED <<directory, data, clock, window, history>>

RetryReload(w, ok) ==
  /\ At(w, "retryReload")
  /\ IF ok
     THEN /\ Know(w, [window[w] EXCEPT !.heard = data[path]])
          /\ Goto(w, "retryConfirm")
     ELSE Fails(w)
  /\ UNCHANGED <<directory, data, clock, history>>

RetryApplied(w) ==
  /\ At(w, "retryConfirm")
  /\ Snapshot(path) = window[w].claim
  /\ Know(w, Editing(window[w].baseline, NoSnapshot))
  /\ Goto(w, "ready")
  /\ UNCHANGED <<directory, data, clock, history>>

RetryFails(w) ==
  /\ At(w, "retryConfirm")
  /\ Fails(w)
  /\ UNCHANGED <<directory, data, clock, history>>

-----------------------------------------------------------------------------
(* The rest of the system.                                                  *)

(* Another program rewrites the file, in place or by a rename over it ...   *)
ExternalWrite ==
  /\ clock < MaxVersions
  /\ clock' = clock + 1
  /\ \/ /\ path' = clock + 1
        /\ data' = [data EXCEPT ![clock + 1] = clock + 1]
     \/ /\ path # NoFile
        /\ data' = [data EXCEPT ![path] = clock + 1]
        /\ UNCHANGED path
  /\ replaced' = replaced \cup ({data[path]} \ {0})
  /\ UNCHANGED <<draftAt, recovery, kept, stage, window, rejected, overtaken>>

(* ... or deletes it.                                                       *)
ExternalDelete ==
  /\ path # NoFile
  /\ path' = NoFile
  /\ replaced' = replaced \cup {data[path]}
  /\ UNCHANGED <<draftAt, recovery, kept, data, clock, stage, window, rejected, overtaken>>

(* A window dies, and its program is started again.                         *)
Crash(w) ==
  /\ ~At(w, "ready")
  /\ Know(w, Closed)
  /\ Goto(w, "ready")
  /\ kept' = (kept \cup {draftAt[w], recovery[w]}) \ {NoFile}
  /\ Unlink(draftAt, w)
  /\ Unlink(recovery, w)
  /\ UNCHANGED <<path, data, clock, history>>

Step(w) ==
  \/ LoadContent(w) \/ BeginSave(w) \/ BeginRetry(w)
  \/ PublishNew(w) \/ PublishNewFails(w) \/ Preserve(w) \/ PreserveFails(w)
  \/ Publish(w) \/ PublishFails(w) \/ FinishPublish(w) \/ Rollback(w) \/ RollbackFails(w)
  \/ RemoveRecovery(w) \/ RemoveDraft(w)
  \/ ConfirmApplied(w) \/ RetryApplied(w) \/ RetryFails(w)
  \/ \E ok \in BOOLEAN :
       \/ RefreshConfig(w, ok) \/ ReadRecovery(w, ok) \/ ReadCurrent(w, ok)
       \/ CheckPublished(w, ok) \/ CheckDisplaced(w, ok) \/ CheckRollback(w, ok)
       \/ Verify(w, ok) \/ Reload(w, ok) \/ ConfirmSaved(w, ok)
       \/ RetryReload(w, ok)

Next ==
  \/ \E w \in Windows : Step(w) \/ Crash(w)
  \/ ExternalWrite \/ ExternalDelete

HotwordSpec == Init /\ [][Next]_vars
-----------------------------------------------------------------------------
(* Properties.                                                              *)

Stages == {"ready", "publishNew", "preserve", "readRecovery", "readCurrent", "exchange",
           "checkPublished", "checkDisplaced", "finish", "checkRollback", "rollback",
           "removeRecovery", "removeDraft", "verify", "reload", "confirm",
           "retryReload", "retryConfirm"}

(* Links are files written so far, and windows are well typed.              *)
HotwordTypeOK ==
  /\ path \in Files \cup {NoFile}
  /\ draftAt \in [Windows -> Files \cup {NoFile}]
  /\ recovery \in [Windows -> Files \cup {NoFile}]
  /\ kept \in SUBSET Files
  /\ data \in [Files \cup {NoFile} -> Versions \cup {0}]
  /\ clock \in Versions
  /\ stage \in [Windows -> Stages]
  /\ window \in [Windows -> Knowledge]
  /\ replaced \subseteq Versions
  /\ rejected \subseteq Versions
  /\ overtaken \subseteq Versions

Linked(f) ==
  f \in kept \cup {path} \cup {draftAt[w] : w \in Windows} \cup {recovery[w] : w \in Windows}

(* Whatever windows and other programs write, and wherever a window dies,   *)
(* every version is still at the configured path or at an adjacent one,     *)
(* unless another program replaced it or its own save was refused; and a    *)
(* refused draft is not what the path shows.  The exception is real: between*)
(* the check of a rollback and its exchange the path may be replaced, and   *)
(* the version swapped out then is removed as if it were the draft.         *)
NothingIsLost ==
  /\ HotwordTypeOK
  /\ \A v \in 1 .. clock :
       \/ \E f \in Files : data[f] = v /\ Linked(f)
       \/ v \in replaced \cup rejected \cup overtaken
  /\ data[path] \in rejected => overtaken # {}

(* Only another program ever leaves the configured path without a file,     *)
(* though several windows link, exchange, roll back, clean up and die.      *)
PathStaysAvailable ==
  [][path # NoFile /\ path' = NoFile => ExternalDelete]_vars

(* A save or a retry is only reported as applied when the daemon has read   *)
(* the very version that was saved, and that the path holds as it is        *)
(* reported, though other windows publish and roll back around the reload;  *)
(* and a window told its save was refused does not leave its draft there.   *)
OutcomesAreTrue ==
  [][\A w \in Windows :
       /\ ConfirmApplied(w) => window[w].heard = window[w].draft /\ data[path] = window[w].draft
       /\ RetryApplied(w) => window[w].heard = data[path]
       /\ RemoveDraft(w) => path # window[w].draft \/ overtaken # {}]_vars
=============================================================================
