---------------------------- MODULE ReportArtifact ----------------------------
(***************************************************************************)
(* The Markdown file of a detail=full report: write_full_analysis_artifact  *)
(* decides whether the file it finds is its own, records the hash it is     *)
(* about to write, replaces the file and publishes its metadata.  The       *)
(* worker may die between any two of these, the analysis may be repeated    *)
(* with another result, and the user may edit or delete the file.           *)
(*                                                                         *)
(* A hash is the version of the report it was rendered from.  The worker is *)
(* alone (AnalysisJobs) and only it and the user touch the file.            *)
(***************************************************************************)
EXTENDS Naturals

CONSTANTS
  MaxVersion,     \* bound: results the analysis computes
  EditsInWindow   \* the user may edit the file between its last check and its replacement

ASSUME ArtifactAssumption ==
  MaxVersion \in Nat \ {0} /\ EditsInWindow \in BOOLEAN

VARIABLES
  version,         \* the saved result
  ready,           \* full_hash, 0 while full_path is NULL
  known, previous, \* checkpoint.artifact: content_hash, previous_hash
  restore,         \* checkpoint.artifact.restore_missing
  file,            \* what the path holds
  at,              \* the worker's next step
  seen             \* previous_hash of the running call, 0 unless replace_owned

vars == <<version, ready, known, previous, restore, file, at, seen>>
metaVars == <<ready, known, previous, restore>>

Missing == 0
Version == 1 .. MaxVersion
User    == MaxVersion + 1
Hash    == 0 .. MaxVersion   \* of a rendering, 0 for none

TypeOK ==
  /\ version \in Version
  /\ ready \in Hash /\ known \in Hash /\ previous \in Hash /\ seen \in Hash
  /\ restore \in BOOLEAN
  /\ file \in 0 .. User
  /\ at \in {"none", "inspect", "intent", "write", "replace", "readback", "publish", "verify"}

Init ==
  /\ version = 1 /\ ready = 0 /\ known = 0 /\ previous = 0 /\ restore = FALSE
  /\ file = Missing /\ at = "none" /\ seen = 0

-----------------------------------------------------------------------------
(* Runs of the job                                                         *)

\* A run reaches the writer.  /resume has looked at a published file before:
\* a missing one is to be restored, an edited one rejects the command.
StartRun ==
  /\ at = "none"
  /\ ready # 0 => file \in {ready, Missing}
  /\ restore' = (restore \/ (ready # 0 /\ file = Missing))
  /\ at' = "inspect"
  /\ UNCHANGED <<version, ready, known, previous, file, seen>>

\* Mutant: the metadata of the old report stays published.
Reanalyse_KeepsReady ==
  /\ at = "none" /\ version < MaxVersion
  /\ version' = version + 1
  /\ UNCHANGED <<ready, known, previous, restore, file, at, seen>>

\* Edited sources: the result is dropped with the published metadata and
\* computed anew; the checkpoint still knows the hashes of the file.
Reanalyse ==
  /\ at = "none" /\ version < MaxVersion
  /\ version' = version + 1 /\ ready' = 0
  /\ UNCHANGED <<known, previous, restore, file, at, seen>>

\* The worker dies or the call raises; the row keeps what was committed.
Stop ==
  /\ at # "none"
  /\ at' = "none" /\ seen' = 0
  /\ UNCHANGED <<version, metaVars, file>>

-----------------------------------------------------------------------------
(* write_full_analysis_artifact                                            *)

\* A published file that is still there is used as it is.  After a run that had
\* failed here the metadata is saved once more, without the request to restore.
Reuse ==
  /\ at = "inspect" /\ ready # 0 /\ file = ready
  /\ at' = "none"
  /\ \/ UNCHANGED metaVars
     \/ known' = ready /\ previous' = 0 /\ restore' = FALSE /\ UNCHANGED ready
  /\ UNCHANGED <<version, file, seen>>

\* Mutant: any file at the path counts as the job's own.
Recognised_Any(h) == h # Missing

\* A file of the job that is not the present report.
Recognised(h) == h # Missing /\ h \in {known, previous}

\* Neither branch applies to a foreign file, nor to a published file that is
\* missing without a request to restore it: the call raises (Stop).
Inspect ==
  /\ at = "inspect"
  /\ ready = 0 \/ (file = Missing /\ restore)
  /\ \/ file \in {Missing, version} /\ seen' = 0
     \/ file # version /\ Recognised(file) /\ seen' = file
  /\ at' = "intent"
  /\ UNCHANGED <<version, metaVars, file>>

\* Mutant: the hash about to be replaced is forgotten.
SaveIntent_ForgetsPrevious ==
  /\ at = "intent"
  /\ known' = version /\ previous' = 0 /\ restore' = FALSE
  /\ at' = "write"
  /\ UNCHANGED <<version, ready, file, seen>>

\* save_full_artifact(ready=False)
SaveIntent ==
  /\ at = "intent"
  /\ known' = version /\ previous' = seen /\ restore' = FALSE
  /\ at' = "write"
  /\ UNCHANGED <<version, ready, file, seen>>

\* A file that needs no replacement, or has appeared since, is adopted and left
\* to the read-back; anything else is to be replaced.
CheckExists ==
  /\ at = "write"
  /\ at' = IF file # Missing /\ seen = 0 THEN "readback" ELSE "replace"
  /\ UNCHANGED <<version, metaVars, file, seen>>

\* write_text_atomic: the rename takes the place of whatever is there by now.
Replace ==
  /\ at = "replace"
  /\ file' = version
  /\ at' = "readback"
  /\ UNCHANGED <<version, metaVars, seen>>

ReadBack ==
  /\ at = "readback" /\ file = version
  /\ at' = "publish"
  /\ UNCHANGED <<version, metaVars, file, seen>>

\* save_full_artifact(ready=True)
Publish ==
  /\ at = "publish"
  /\ ready' = version /\ known' = version /\ previous' = 0 /\ restore' = FALSE
  /\ at' = "verify"
  /\ UNCHANGED <<version, file, seen>>

VerifyPublished ==
  /\ at = "verify" /\ file = ready
  /\ at' = "none" /\ seen' = 0
  /\ UNCHANGED <<version, metaVars, file>>

-----------------------------------------------------------------------------
(* The user                                                                *)

\* What the user writes in here is not looked at again before the rename: an own
\* file that has passed its check, and any file once the worker is to replace it.
InWindow == (seen # 0 /\ at \in {"intent", "write"}) \/ at = "replace"

UserEdits ==
  /\ file # User
  /\ InWindow => EditsInWindow
  /\ file' = User
  /\ UNCHANGED <<version, metaVars, at, seen>>

UserDeletes ==
  /\ file # Missing
  /\ file' = Missing
  /\ UNCHANGED <<version, metaVars, at, seen>>

Next ==
  \/ StartRun \/ Reanalyse \/ Stop
  \/ Reuse \/ Inspect \/ SaveIntent \/ CheckExists \/ Replace \/ ReadBack \/ Publish \/ VerifyPublished
  \/ UserEdits \/ UserDeletes

Spec == Init /\ [][Next]_vars

-----------------------------------------------------------------------------
(* Properties                                                              *)

\* A file the job has written is known to it whatever crashed in between, so
\* that a later result can take its place: no conflict without a user's edit.
OwnFileRecognised == file \in Version => Recognised(file)

\* Published metadata belongs to the saved result, and the path holds that
\* report unless the user has touched it.
ReadyNamesReport ==
  ready # 0 => ready = version /\ known = version /\ file \in {version, Missing, User}

\* README.md:223: "user-edited files are preserved".  A step that moves the
\* worker never takes the place of the user's file, unless it was written between
\* its last check and the rename (InWindow).
UserFileKept == [][file = User /\ at' # at => file' = User]_vars
=============================================================================
