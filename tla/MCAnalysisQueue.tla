-------------------------- MODULE MCAnalysisQueue --------------------------
(***************************************************************************)
(* AnalysisJobs seen from the queue: two analytic jobs of two listeners and *)
(* the index job share one worker slot and two places in the queue.         *)
(***************************************************************************)
EXTENDS AnalysisJobs

CONSTANTS
  Home,   \* the listener that holds the scheduler, when anyone does
  Guest   \* the job of the other listener

ASSUME QueueAssumption == Home \in Bridge /\ Guest \in Job \ IndexJob

\* The other jobs belong to Home.
Settled ==
  /\ \A j \in Job \ IndexJob :
       origin[j] \in {NoJob} \cup (IF j = Guest THEN Bridge \ {Home} ELSE {Home})
  /\ \A b \in Bridge : mode[b] = "supervising" => b = Home

\* Only the foreign job may be cancelled, no run gets as far as its first checkpoint
\* and no attempt is told from another by the name of its end: what fills the queue
\* and the pool, and for how long, stays as it is.
OneRun ==
  /\ \A j \in Job \ {Guest} : ~cancel[j]
  /\ \A j \in Job \ IndexJob : ~checkpoint[j]
  /\ \A b \in Bridge : ctl[b].at = "idle"
  /\ \A j \in Job, g \in Generation :
       outerNote[j][g] # "interrupted" /\ innerNote[j][g] # "failed"

\* iter_jobs visits the jobs in the order of their identities: here the foreign one
\* comes first, then the index job.
InOrder ==
  /\ Guest \in sup.todo => sup.todo = Job
  /\ IndexJob \cap sup.todo # {} => Job \ {Guest} \subseteq sup.todo

QueueBound == Settled /\ OneRun /\ InOrder

\* The one fault is the death of a listener between a claim and its launch: if it was
\* the claim's own, a run without a process is left in the only slot.
DiesAtLaunch == faults' # faults => sup.at = "launch" /\ mode' # mode
=============================================================================
