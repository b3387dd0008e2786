------------------------- MODULE ReportArtifactProofs -------------------------
(***************************************************************************)
(* ReportArtifact for every number of results: the job always recognises    *)
(* its own file, published metadata names the saved report, and a user's    *)
(* file is kept unless it was edited inside the window.                     *)
(***************************************************************************)
EXTENDS ReportArtifact, TLAPS

\* What is true of the call between its steps: the hash that was on the path when
\* it was inspected is the one the intent saves before the file is replaced.
CallInv ==
  /\ at = "intent" =>
       /\ seen # 0 => Recognised(seen)
       /\ file \in Version => file = version \/ file = seen
  /\ at \in {"write", "replace"} =>
       /\ known = version /\ previous = seen
       /\ file \in Version => file = version \/ file = seen
  /\ at \in {"readback", "publish", "verify"} =>
       known = version /\ file \in {version, Missing, User}

\* Without edits in the window a file about to be replaced is not the user's.
WindowInv == ~EditsInWindow => (InWindow => file # User)

IInv == TypeOK /\ OwnFileRecognised /\ ReadyNamesReport /\ CallInv /\ WindowInv

USE DEF Version, User, Missing, Hash, metaVars

LEMMA ConstantTypes == MaxVersion \in Nat \ {0} /\ EditsInWindow \in BOOLEAN
BY ArtifactAssumption DEF ArtifactAssumption

LEMMA InitInv == Init => IInv
<1> SUFFICES ASSUME Init PROVE IInv
  OBVIOUS
<1>1. TypeOK
  <2>1. restore \in BOOLEAN
    BY DEF Init
  <2> QED
    BY <2>1, ConstantTypes DEF Init, TypeOK
<1>2. OwnFileRecognised /\ ReadyNamesReport
  BY DEF Init, OwnFileRecognised, ReadyNamesReport
<1>3. CallInv
  BY DEF Init, CallInv
<1>4. WindowInv
  BY DEF Init, WindowInv, InWindow
<1> QED
  BY <1>1, <1>2, <1>3, <1>4 DEF IInv

LEMMA StepInv == IInv /\ [Next]_vars => IInv'
<1> SUFFICES ASSUME IInv, [Next]_vars PROVE IInv'
  OBVIOUS
<1> USE ConstantTypes DEF IInv, TypeOK, OwnFileRecognised, ReadyNamesReport, CallInv, WindowInv, InWindow, Recognised
<1>1. CASE StartRun
  <2>1. restore' \in BOOLEAN
    BY <1>1 DEF StartRun
  <2> QED
    BY <2>1, <1>1 DEF StartRun
<1>2. CASE Reanalyse
  BY <1>2 DEF Reanalyse
<1>3. CASE Stop
  BY <1>3 DEF Stop
<1>4. CASE Reuse
  <2>1. restore' \in BOOLEAN
    BY <1>4 DEF Reuse
  <2> QED
    BY <2>1, <1>4 DEF Reuse
<1>5. CASE Inspect
  BY <1>5 DEF Inspect
<1>6. CASE SaveIntent
  <2>1. restore' \in BOOLEAN
    BY <1>6 DEF SaveIntent
  <2> QED
    BY <2>1, <1>6 DEF SaveIntent
<1>7. CASE CheckExists
  BY <1>7 DEF CheckExists
<1>7a. CASE Replace
  BY <1>7a DEF Replace
<1>8. CASE ReadBack
  BY <1>8 DEF ReadBack
<1>9. CASE Publish
  <2>1. restore' \in BOOLEAN
    BY <1>9 DEF Publish
  <2> QED
    BY <2>1, <1>9 DEF Publish
<1>10. CASE VerifyPublished
  BY <1>10 DEF VerifyPublished
<1>11. CASE UserEdits
  BY <1>11 DEF UserEdits
<1>12. CASE UserDeletes
  BY <1>12 DEF UserDeletes
<1>13. CASE UNCHANGED vars
  BY <1>13 DEF vars
<1> QED
  BY <1>1, <1>2, <1>3, <1>4, <1>5, <1>6, <1>7, <1>7a, <1>8, <1>9, <1>10, <1>11, <1>12, <1>13
  DEF Next

\* The strengthening of the three invariants is one.
THEOREM Inductive == Spec => []IInv
BY InitInv, StepInv, PTL DEF Spec

\* A file the job has written never becomes a conflict: whatever crashed, the
\* checkpoint knows its hash.
THEOREM OwnFileAlwaysRecognised == Spec => []OwnFileRecognised
<1>1. IInv => OwnFileRecognised
  BY DEF IInv
<1> QED
  BY Inductive, <1>1, PTL

\* What is published names the saved result, which is on the path unless the user
\* has touched it.
THEOREM ReadyAlwaysNamesReport == Spec => []ReadyNamesReport
<1>1. IInv => ReadyNamesReport
  BY DEF IInv
<1> QED
  BY Inductive, <1>1, PTL

\* README.md:223 holds whenever the user stays out of the window between the last check
\* of the path, whatever was on it, and its replacement.
THEOREM UserFileSafe == ASSUME ~EditsInWindow PROVE Spec => UserFileKept
<1>1. IInv /\ [Next]_vars => [file = User /\ at' # at => file' = User]_vars
  <2> SUFFICES ASSUME IInv, Next, file = User, at' # at
               PROVE  file' = User
    BY DEF vars
  <2>1. CASE Replace
    BY <2>1 DEF Replace, IInv, WindowInv, InWindow
  <2>2. CASE StartRun \/ Reanalyse \/ Stop
    BY <2>2 DEF StartRun, Reanalyse, Stop
  <2>3. CASE Reuse \/ Inspect \/ SaveIntent \/ CheckExists \/ ReadBack \/ Publish \/ VerifyPublished
    BY <2>3 DEF Reuse, Inspect, SaveIntent, CheckExists, ReadBack, Publish, VerifyPublished
  <2>4. CASE UserEdits \/ UserDeletes
    BY <2>4 DEF UserEdits, UserDeletes
  <2> QED
    BY <2>1, <2>2, <2>3, <2>4 DEF Next
<1> QED
  BY <1>1, Inductive, PTL DEF Spec, UserFileKept

\* Every hash the checkpoint or the file holds is of a version the job has reached, or the
\* user's, however often the job was reanalysed.
THEOREM TypesHold == Spec => []TypeOK
<1>1. IInv => TypeOK
  BY DEF IInv
<1> QED
  BY Inductive, <1>1, PTL
=============================================================================
