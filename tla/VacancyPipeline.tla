--------------------------- MODULE VacancyPipeline ---------------------------
(***************************************************************************)
(* Vacancies of one candidate in the job-search system: URL seeds, their   *)
(* previews and imports, batches, the processed mark and the workflow      *)
(* stage.  The handlers run in two processes at once (the CLI and the HTTP *)
(* server, itself single-threaded).  A handler reads and validates outside *)
(* of any transaction and writes in one BEGIN IMMEDIATE transaction, so it *)
(* is two actions here, and a process may die between them.                *)
(***************************************************************************)
EXTENDS Clients, Naturals, Sequences

CONSTANTS
  Seed,        \* normalised URLs that may be saved as seeds
  Vacancy,     \* dedupe keys (normalised title, company, location)
  Posting,     \* content hashes of normalised items
  KeyOf,       \* the dedupe key of each content
  Batch,       \* batches an operator may import, each a sequence of contents
  NoContent,   \* no occurrence, no preview
  Unusable     \* a preview of no item or of several: not importable

\* Folds over sequences.
Seqs == INSTANCE SequencesExt

ASSUME KeysAssumption == KeyOf \in [Posting -> Vacancy] /\ Batch \subseteq Seq(Posting)

Stage == {"new", "shortlisted", "rejected", "closed"}
BatchSource == "batch"           \* items of a batch, without a source URL
Source == Seed \cup {BatchSource}
Preview == Posting \cup {Unusable}
NoHandler == [op |-> "idle"]     \* nothing runs in the process

VARIABLES
  seeds,       \* rows of vacancy_url_enrichment_seeds, one per URL
  vacancies,   \* rows of canonical_vacancies, one per dedupe key
  latest,      \* content of the newest occurrence per vacancy and source
  handling,    \* what the handler in each process has read and will write
  reviewed     \* history: the occurrences when the vacancy was last marked

pipelineVars == <<seeds, vacancies, latest, handling, reviewed>>

SeedRow == [status : {"absent", "pending", "previewed", "imported", "rejected"},
            preview : Preview \cup {NoContent}]
VacancyRow == [known : BOOLEAN, stage : Stage, processed : BOOLEAN, changed : BOOLEAN]
Handling == {NoHandler}
  \cup [op : {"preview"}, seed : Seed, content : Preview, seen : SeedRow]
  \cup [op : {"confirm"}, seed : Seed, content : Posting, seen : SeedRow]
  \cup [op : {"reject"}, seed : Seed, seen : SeedRow]
  \cup [op : {"mark"}, vacancy : Vacancy]
  \cup [op : {"stage"}, vacancy : Vacancy, to : Stage]

(* Rows, occurrences and requests have the shapes of the schema.           *)
PipelineTypeOK ==
  /\ seeds \in [Seed -> SeedRow]
  /\ vacancies \in [Vacancy -> VacancyRow]
  /\ latest \in [Vacancy -> [Source -> Posting \cup {NoContent}]]
  /\ handling \in [Client -> Handling]
  /\ reviewed \in [Vacancy -> [Source -> Posting \cup {NoContent}]]

NoOccurrence == [s \in Source |-> NoContent]
PipelineInit ==
  /\ seeds = [s \in Seed |-> [status |-> "absent", preview |-> NoContent]]
  /\ vacancies = [v \in Vacancy |->
       [known |-> FALSE, stage |-> "new", processed |-> FALSE, changed |-> FALSE]]
  /\ latest = [v \in Vacancy |-> NoOccurrence]
  /\ handling = [c \in Client |-> NoHandler]
  /\ reviewed = [v \in Vacancy |-> NoOccurrence]

Begin(c, r) == handling[c] = NoHandler /\ handling' = [handling EXCEPT ![c] = r]
Finish(c) == handling' = [handling EXCEPT ![c] = NoHandler]

(***************************************************************************)
(* Importing one item: the vacancy is found by its dedupe key or created;  *)
(* an occurrence is new unless the newest one of that source has the same  *)
(* content hash; a new one flags a vacancy that was already processed.     *)
(***************************************************************************)
Db == [vacancies |-> vacancies, latest |-> latest]
\* Mutant: an import that brings nothing new takes the flag back.
Imported_TakesBack(db, source, content) ==
  LET v == KeyOf[content]
  IN  [vacancies |-> [db.vacancies EXCEPT
         ![v].known = TRUE,
         ![v].changed = db.latest[v][source] /= content /\ db.vacancies[v].processed],
       latest |-> [db.latest EXCEPT ![v][source] = content]]
Imported(db, source, content) ==
  LET v == KeyOf[content]
      isNew == db.latest[v][source] /= content
  IN  [vacancies |-> [db.vacancies EXCEPT
         ![v].known = TRUE,
         ![v].changed = @ \/ (isNew /\ db.vacancies[v].processed)],
       latest |-> [db.latest EXCEPT ![v][source] = content]]
Store(db) == vacancies' = db.vacancies /\ latest' = db.latest

(* A batch is one transaction; an item that fails validation rolls all of  *)
(* it back, which leaves no trace.                                         *)
ImportBatch(c, items) ==
  /\ handling[c] = NoHandler
  /\ Store(Seqs!FoldLeft(LAMBDA db, x : Imported(db, BatchSource, x), Db, items))
  /\ UNCHANGED <<seeds, handling, reviewed>>

(* A seed of a URL that is already saved is reused, whatever its status.   *)
CreateSeed(c, s) ==
  /\ handling[c] = NoHandler
  /\ seeds[s].status = "absent"
  /\ seeds' = [seeds EXCEPT ![s].status = "pending"]
  /\ UNCHANGED <<vacancies, latest, handling, reviewed>>

AskPreview(c, s, content) ==
  /\ seeds[s].status \in {"pending", "previewed"}
  /\ Begin(c, [op |-> "preview", seed |-> s, content |-> content, seen |-> seeds[s]])
  /\ UNCHANGED <<seeds, vacancies, latest, reviewed>>
SavePreview(c) ==
  /\ handling[c].op = "preview"
  /\ seeds' = [seeds EXCEPT ![handling[c].seed] =
                 [status |-> "previewed", preview |-> handling[c].content]]
  /\ Finish(c)
  /\ UNCHANGED <<vacancies, latest, reviewed>>

\* Mutant: a rejected seed with a preview can be imported.
AskConfirm_Rejected(c, s) ==
  /\ seeds[s].preview \in Posting
  /\ Begin(c, [op |-> "confirm", seed |-> s, content |-> seeds[s].preview,
             seen |-> seeds[s]])
  /\ UNCHANGED <<seeds, vacancies, latest, reviewed>>
(* Confirming an imported seed only answers; a rejected one is refused.    *)
AskConfirm(c, s) ==
  /\ seeds[s].status \in {"pending", "previewed"}
  /\ seeds[s].preview \in Posting
  /\ Begin(c, [op |-> "confirm", seed |-> s, content |-> seeds[s].preview,
             seen |-> seeds[s]])
  /\ UNCHANGED <<seeds, vacancies, latest, reviewed>>
SaveConfirm(c) ==
  /\ handling[c].op = "confirm"
  /\ Store(Imported(Db, handling[c].seed, handling[c].content))
  /\ seeds' = [seeds EXCEPT ![handling[c].seed].status = "imported"]
  /\ Finish(c)
  /\ UNCHANGED reviewed

(* Rejecting asks for no status: an imported seed can be rejected.         *)
AskReject(c, s) ==
  /\ seeds[s].status /= "absent"
  /\ Begin(c, [op |-> "reject", seed |-> s, seen |-> seeds[s]])
  /\ UNCHANGED <<seeds, vacancies, latest, reviewed>>
SaveReject(c) ==
  /\ handling[c].op = "reject"
  /\ seeds' = [seeds EXCEPT ![handling[c].seed].status = "rejected"]
  /\ Finish(c)
  /\ UNCHANGED <<vacancies, latest, reviewed>>

AskMark(c, v) ==
  /\ vacancies[v].known
  /\ Begin(c, [op |-> "mark", vacancy |-> v])
  /\ UNCHANGED <<seeds, vacancies, latest, reviewed>>
MarkProcessed(c) ==
  /\ handling[c].op = "mark"
  /\ LET v == handling[c].vacancy
     IN  /\ vacancies' = [vacancies EXCEPT ![v].processed = TRUE, ![v].changed = FALSE]
         /\ reviewed' = [reviewed EXCEPT ![v] = latest[v]]
  /\ Finish(c)
  /\ UNCHANGED <<seeds, latest>>

AskStage(c, v, stage) ==
  /\ vacancies[v].known
  /\ Begin(c, [op |-> "stage", vacancy |-> v, to |-> stage])
  /\ UNCHANGED <<seeds, vacancies, latest, reviewed>>
(* Inside the transaction a processed vacancy is not moved back to new.    *)
StageAllowed(row, stage) == ~(row.processed /\ stage = "new")
UpdateStage(c) ==
  /\ handling[c].op = "stage"
  /\ LET v == handling[c].vacancy
     IN  vacancies' = IF StageAllowed(vacancies[v], handling[c].to)
                      THEN [vacancies EXCEPT ![v].stage = handling[c].to]
                      ELSE vacancies
  /\ Finish(c)
  /\ UNCHANGED <<seeds, latest, reviewed>>

(* The process dies, or its transaction fails, before anything is written. *)
AbandonHandler(c) ==
  /\ handling[c] /= NoHandler
  /\ Finish(c)
  /\ UNCHANGED <<seeds, vacancies, latest, reviewed>>

SeedStep(c) ==
  \/ \E s \in Seed :
       \/ CreateSeed(c, s) \/ AskConfirm(c, s) \/ AskReject(c, s)
       \/ \E content \in Preview : AskPreview(c, s, content)
  \/ SavePreview(c) \/ SaveConfirm(c) \/ SaveReject(c)
VacancyStep(c) ==
  \/ \E items \in Batch : ImportBatch(c, items)
  \/ \E v \in Vacancy : AskMark(c, v) \/ \E stage \in Stage : AskStage(c, v, stage)
  \/ MarkProcessed(c) \/ UpdateStage(c)

PipelineNext == \E c \in Client : SeedStep(c) \/ VacancyStep(c) \/ AbandonHandler(c)
PipelineSpec == PipelineInit /\ [][PipelineNext]_pipelineVars
-----------------------------------------------------------------------------
(* A processed vacancy whose stored content is no longer what it was when  *)
(* it was marked is on the list of material changes, whichever source      *)
(* brought the new content and however import and mark interleave.         *)
ChangeNoticed ==
  \A v \in Vacancy :
    vacancies[v].processed /\ latest[v] /= reviewed[v] => vacancies[v].changed

(* A rejected seed is reopened, and an imported one previewed again, only  *)
(* by a handler that read the seed before it was settled: no check runs    *)
(* again in the transaction, but handlers that follow each other respect   *)
(* the decision.                                                           *)
Settled(row) == row.status \in {"imported", "rejected"}
SettledUnlessStale ==
  [][\A s \in Seed :
       Settled(seeds[s]) /\ seeds'[s] /= seeds[s] /\ seeds'[s].status /= "rejected" =>
         \E c \in Client :
           /\ handling[c].op \in {"preview", "confirm"}
           /\ handling[c].seed = s
           /\ handling'[c] = NoHandler
           /\ ~Settled(handling[c].seen)]_pipelineVars
=============================================================================
