---------------------------- MODULE ArtifactStore ----------------------------
(***************************************************************************)
(* Artifacts of one candidate in the job-search system: a row in the       *)
(* database and a file it names.  Commands run in two processes; each      *)
(* looks for a row it can reuse, writes files outside of any transaction,  *)
(* then stores the rows in one transaction, and takes the files it created *)
(* away again when that transaction fails.  A maintenance tool moves files *)
(* to a new naming scheme inside its transaction.                          *)
(***************************************************************************)
EXTENDS Clients, Naturals

CONSTANTS
  Id,        \* artifact ids
  First,     \* an artifact stored before the naming scheme changed
  Content,   \* what a file holds; its hash identifies it
  Good,      \* contents that the quality gate lets be finalised
  Empty,     \* what a file holds that was opened for writing
  None       \* no row, no file, nothing asked

Addressed == {"resume", "message"}    \* created once per content, then reused
Rewritten == {"vacancy", "vfinal"}    \* one per vacancy or source, overwritten
Kind == Addressed \cup Rewritten \cup {"final"}
Name == {"old", "new"}                \* the two file names an artifact may have

VARIABLES
  rows,       \* the artifacts table
  files,      \* what lies under each name of each artifact
  request,    \* the command each process is in the middle of
  renaming,   \* the rename tool: the artifact it moves and how far it is
  littered    \* history: ids of files left by a death or a failed write

vars == <<rows, files, request, renaming, littered>>

Row == [kind : Kind, hash : Content, from : Id \cup {None}, name : Name]
Item == [id : Id, row : Row]
Request ==
  [phase : {"gated"}, from : Id, name : Name]
  \cup [phase : {"writing"}, create : BOOLEAN, items : SUBSET Item, written : SUBSET Id]
Renaming == [id : Id, moved : BOOLEAN]

ASSUME ContentAssumption ==
  /\ First \in Id /\ Good \subseteq Content /\ Empty \in Content \ Good
  /\ None \notin Id \cup Content \cup Row \cup Request \cup Renaming

(* Rows, files and the commands under way are well formed.                 *)
TypeOK ==
  /\ rows \in [Id -> Row \cup {None}]
  /\ files \in [Id -> [Name -> Content \cup {None}]]
  /\ request \in [Client -> Request \cup {None}]
  /\ renaming \in Renaming \cup {None}
  /\ littered \subseteq Id

Init ==
  /\ \E kind \in {"resume", "vacancy"}, x \in Content :
       /\ rows = [i \in Id |-> IF i /= First THEN None
                  ELSE [kind |-> kind, hash |-> x, from |-> None, name |-> "old"]]
       /\ files = [i \in Id |-> [n \in Name |->
                     IF i = First /\ n = "old" THEN x ELSE None]]
  /\ request = [c \in Client |-> None]
  /\ renaming = None
  /\ littered = {}

Has(i) == rows[i] /= None
FileOf(i) == files[i][rows[i].name]
InUse(i) ==
  \E c \in Client : request[c] /= None /\ request[c].phase = "writing"
                      /\ \E item \in request[c].items : item.id = i
(* A fresh uuid: nothing was ever stored or is being written under it.     *)
Fresh(i) == ~Has(i) /\ ~InUse(i) /\ \A n \in Name : files[i][n] = None

Ask(c, r) == request' = [request EXCEPT ![c] = r]
Writing(create, items) ==
  [phase |-> "writing", create |-> create, items |-> items, written |-> {}]
NewRow(kind, x, from) == [kind |-> kind, hash |-> x, from |-> from, name |-> "new"]

Create(c, kind, x, from) ==
  \E i \in Id : Fresh(i) /\ Ask(c, Writing(TRUE, {[id |-> i, row |-> NewRow(kind, x, from)]}))
(* Overwriting keeps the path that was read and renews the rest.           *)
Overwrite(c, i, x, from) ==
  Ask(c, Writing(FALSE, {[id |-> i, row |->
        [rows[i] EXCEPT !.hash = x, !.from = IF from = None THEN @ ELSE from]]}))

(***************************************************************************)
(* A resume, a message, or both for an application payload: what exists    *)
(* with the same content is reused and only the rest is written.           *)
(***************************************************************************)
Reusable(kind, x) == \E i \in Id : Has(i) /\ rows[i].kind = kind /\ rows[i].hash = x
Generate(c, kinds, x) ==
  LET missing == {k \in kinds : ~Reusable(k, x)}
  IN  /\ request[c] = None
      /\ missing /= {}
      /\ \E at \in [missing -> {i \in Id : Fresh(i)}] :
           /\ \A j, k \in missing : at[j] = at[k] => j = k
           /\ Ask(c, Writing(TRUE, {[id |-> at[k], row |-> NewRow(k, x, None)] : k \in missing}))
      /\ UNCHANGED <<rows, files, renaming, littered>>

\* Mutant: the lookup does not ask for the kind of the resume it overwrites.
GenerateVacancy_AnyResume(c, source, x) ==
  /\ request[c] = None
  /\ Has(source) /\ rows[source].kind \in {"resume", "final"} /\ FileOf(source) /= None
  /\ LET existing == {i \in Id : Has(i) /\ rows[i].kind \in {"vacancy", "resume"}}
     IN  IF existing = {} THEN Create(c, "vacancy", x, source)
         ELSE \E i \in existing : Overwrite(c, i, x, source)
  /\ UNCHANGED <<rows, files, renaming, littered>>
(* A resume for a vacancy is built from a draft or a final resume and      *)
(* overwrites the one the vacancy already has.  (Of two left by concurrent *)
(* commands the newer is taken: here either.)                              *)
GenerateVacancy(c, source, x) ==
  /\ request[c] = None
  /\ Has(source) /\ rows[source].kind \in {"resume", "final"} /\ FileOf(source) /= None
  /\ LET existing == {i \in Id : Has(i) /\ rows[i].kind = "vacancy"}
     IN  IF existing = {} THEN Create(c, "vacancy", x, source)
         ELSE \E i \in existing : Overwrite(c, i, x, source)
  /\ UNCHANGED <<rows, files, renaming, littered>>

(* Finalising: the quality gate reads the file ...                         *)
AskFinalize(c, source) ==
  /\ request[c] = None
  /\ Has(source) /\ rows[source].kind \in {"resume", "vacancy"}
  /\ FileOf(source) \in Good
  /\ Ask(c, [phase |-> "gated", from |-> source, name |-> rows[source].name])
  /\ UNCHANGED <<rows, files, renaming, littered>>
(* ... and the command reads it again for the final.  The final of a draft *)
(* is found by source and content, that of a vacancy by its source alone.  *)
Finals(source, kind) ==
  {i \in Id : Has(i) /\ rows[i].kind = kind /\ rows[i].from = source}
FinaliseDraft(c, source, x) ==
  IF \E i \in Finals(source, "final") : rows[i].hash = x THEN Ask(c, None)
  ELSE Create(c, "final", x, source)
FinaliseVacancy(c, source, x) ==
  LET existing == Finals(source, "vfinal")
  IN  IF existing = {} THEN Create(c, "vfinal", x, source)
      ELSE \E i \in existing : Overwrite(c, i, x, source)
ReadSource(c) ==
  /\ request[c] /= None /\ request[c].phase = "gated"
  /\ LET source == request[c].from
         x == files[source][request[c].name]
     IN  IF x = None THEN Ask(c, None)
         ELSE IF rows[source].kind = "vacancy" THEN FinaliseVacancy(c, source, x)
         ELSE FinaliseDraft(c, source, x)
  /\ UNCHANGED <<rows, files, renaming, littered>>

Unwritten(c) == {item \in request[c].items : item.id \notin request[c].written}
IsWriting(c) == request[c] /= None /\ request[c].phase = "writing"

(* A write empties the file first; the command may end, or another one     *)
(* read the file, before the text is there.                                *)
Truncate(c) ==
  /\ IsWriting(c)
  /\ \E item \in Unwritten(c) :
       files' = [files EXCEPT ![item.id][item.row.name] = Empty]
  /\ UNCHANGED <<rows, request, renaming, littered>>
WriteFile(c) ==
  /\ IsWriting(c)
  /\ \E item \in Unwritten(c) :
       /\ files' = [files EXCEPT ![item.id][item.row.name] = item.row.hash]
       /\ request' = [request EXCEPT ![c].written = @ \cup {item.id}]
  /\ UNCHANGED <<rows, renaming, littered>>

(* The rename tool holds the write lock once it has moved a file.          *)
Locked == renaming /= None /\ renaming.moved
ItemOf(c, i) == CHOOSE item \in request[c].items : item.id = i
Commit(c) ==
  /\ IsWriting(c) /\ Unwritten(c) = {} /\ ~Locked
  /\ rows' = [i \in Id |-> IF i \in request[c].written THEN ItemOf(c, i).row ELSE rows[i]]
  /\ Ask(c, None)
  /\ UNCHANGED <<files, renaming, littered>>

\* Mutant: a failed transaction cleans nothing up.
RemoveCreated_Nothing(c) == files
\* Mutant: it removes what it overwrote, too.
RemoveCreated_Everything(c) ==
  [i \in Id |-> IF i \in request[c].written
               THEN [files[i] EXCEPT ![ItemOf(c, i).row.name] = None] ELSE files[i]]
(* The transaction fails: files the command created are removed, a file it *)
(* overwrote stays as it is now.                                           *)
RemoveCreated(c) ==
  IF request[c].create
  THEN [i \in Id |-> IF i \in request[c].written
                     THEN [files[i] EXCEPT ![ItemOf(c, i).row.name] = None] ELSE files[i]]
  ELSE files
FailCommit(c) ==
  /\ IsWriting(c) /\ Unwritten(c) = {}
  /\ files' = RemoveCreated(c)
  /\ Ask(c, None)
  /\ UNCHANGED <<rows, renaming, littered>>

(* A process dies, or a write fails (which no handler cleans up after):    *)
(* what it created so far stays.                                           *)
Created(c) ==
  {i \in Id : \E item \in request[c].items : item.id = i /\ files[i][item.row.name] /= None}
Die(c) ==
  /\ request[c] /= None
  /\ littered' = IF IsWriting(c) /\ request[c].create THEN littered \cup Created(c) ELSE littered
  /\ Ask(c, None)
  /\ UNCHANGED <<rows, files, renaming>>

PlanRename(i) ==
  /\ renaming = None
  /\ Has(i) /\ rows[i].name = "old"
  /\ renaming' = [id |-> i, moved |-> FALSE]
  /\ UNCHANGED <<rows, files, request, littered>>
(* An existing file under the new name stops the tool; a missing old file  *)
(* does not.                                                               *)
MoveFile ==
  /\ renaming /= None /\ ~renaming.moved
  /\ LET f == files[renaming.id]
     IN  IF f["new"] /= None THEN renaming' = None /\ UNCHANGED files
         ELSE /\ renaming' = [renaming EXCEPT !.moved = TRUE]
              /\ files' = IF f["old"] = None THEN files
                          ELSE [files EXCEPT ![renaming.id] =
                                  [n \in Name |-> IF n = "new" THEN f["old"] ELSE None]]
  /\ UNCHANGED <<rows, request, littered>>
CommitRename ==
  /\ Locked
  /\ rows' = [rows EXCEPT ![renaming.id].name = "new"]
  /\ renaming' = None
  /\ UNCHANGED <<files, request, littered>>
(* The tool dies or fails: its rows roll back, the moved file does not.    *)
AbandonRename ==
  /\ renaming /= None
  /\ renaming' = None
  /\ UNCHANGED <<rows, files, request, littered>>

Next ==
  \/ \E c \in Client :
       \/ \E x \in Content :
            \/ \E kinds \in (SUBSET Addressed) \ {{}} : Generate(c, kinds, x)
            \/ \E source \in Id : GenerateVacancy(c, source, x)
       \/ \E source \in Id : AskFinalize(c, source)
       \/ ReadSource(c) \/ Truncate(c) \/ WriteFile(c) \/ Commit(c) \/ FailCommit(c) \/ Die(c)
  \/ \E i \in Id : PlanRename(i)
  \/ MoveFile \/ CommitRename \/ AbandonRename

Spec == Init /\ [][Next]_vars
-----------------------------------------------------------------------------
(* What is reused by its content hash, and what was finalised, is what it *)
(* claims to be: the file of an artifact that is created once never holds  *)
(* anything else, and a final resume holds what passed the gate, although  *)
(* it is read once for the gate and once more for the final, and whatever  *)
(* other commands overwrite or move meanwhile.                             *)
ContentAsPromised ==
  \A i \in Id : Has(i) /\ rows[i].kind \notin Rewritten =>
    /\ FileOf(i) \in {rows[i].hash, None}
    /\ rows[i].kind = "final" => rows[i].hash \in Good

(* A failed transaction leaves no file without a row: what is not in the   *)
(* table and not being written was left by a death or a failed write.      *)
NoLitter ==
  \A i \in Id : (\E n \in Name : files[i][n] /= None) /\ ~Has(i) /\ ~InUse(i) =>
    i \in littered

(* No failed command and no interrupted rename costs an artifact its file: *)
(* it lies under the name in its row or under the other one.               *)
FileSurvives == \A i \in Id : Has(i) => \E n \in Name : files[i][n] /= None
=============================================================================
