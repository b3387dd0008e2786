---------------------------- MODULE JobLifecycle ----------------------------
(***************************************************************************)
(* What an analytic job promises, whatever processes carry it out: a row    *)
(* goes queued -> running -> terminal once per generation, at most one       *)
(* worker acts for a job, only that worker may report success, everyone      *)
(* else may only write off a run that no worker is carrying, and a cancelled *)
(* job is over.                                                             *)
(***************************************************************************)
EXTENDS Naturals

CONSTANTS Job,      \* job identities
          Service   \* jobs an operator may requeue at any time (the FTS index)

VARIABLES status,      \* as AnalysisJobs
          generation,
          cancel,
          worker       \* the generation being carried out, 0 when none is

vars == <<status, generation, cancel, worker>>

Success == {"completed", "partial"}
Stopped == {"failed", "timed_out", "cancelled", "interrupted"}
Terminal == Success \cup Stopped

Init ==
  /\ status = [j \in Job |-> "absent"]
  /\ generation = [j \in Job |-> 0]
  /\ cancel = [j \in Job |-> FALSE]
  /\ worker = [j \in Job |-> 0]

Submit(j) ==
  /\ status[j] = "absent"
  /\ status' = [status EXCEPT ![j] = "queued"]
  /\ UNCHANGED <<generation, cancel, worker>>

Claim(j) ==
  /\ status[j] = "queued" /\ ~cancel[j] /\ worker[j] = 0
  /\ status' = [status EXCEPT ![j] = "running"]
  /\ generation' = [generation EXCEPT ![j] = @ + 1]
  /\ UNCHANGED <<cancel, worker>>

Begin(j) ==
  /\ status[j] = "running" /\ worker[j] = 0
  /\ worker' = [worker EXCEPT ![j] = generation[j]]
  /\ UNCHANGED <<status, generation, cancel>>

\* The worker dies or gives up without an outcome.
Abandon(j) ==
  /\ worker[j] # 0
  /\ worker' = [worker EXCEPT ![j] = 0]
  /\ UNCHANGED <<status, generation, cancel>>

Finish(j, v) ==
  /\ status[j] = "running"
  /\ v \in {"failed", "timed_out", "interrupted"} => ~cancel[j]
  /\ v \in Success => worker[j] = generation[j]
  /\ status' = [status EXCEPT ![j] = v]
  /\ worker' = [worker EXCEPT ![j] = 0]
  /\ UNCHANGED <<generation, cancel>>

\* The worker's own outcome.
Report(j) == worker[j] # 0 /\ \E v \in Terminal : Finish(j, v)
\* Anyone else's, and only when nobody works.
WriteOff(j) == worker[j] = 0 /\ \E v \in Stopped : Finish(j, v)

Cancel(j) ==
  /\ status[j] \in {"queued", "running"}
  /\ cancel' = [cancel EXCEPT ![j] = TRUE]
  /\ status' = [status EXCEPT ![j] = IF @ = "queued" THEN "cancelled" ELSE @]
  /\ UNCHANGED <<generation, worker>>

Requeue(j) ==
  /\ \/ status[j] \in Terminal \ {"cancelled"} /\ worker[j] = 0
     \/ j \in Service /\ status[j] # "absent"
  /\ status' = [status EXCEPT ![j] = "queued"]
  /\ generation' = [generation EXCEPT ![j] = @ + 1]
  /\ cancel' = [cancel EXCEPT ![j] = FALSE]
  /\ worker' = [worker EXCEPT ![j] = 0]

Prune(j) ==
  /\ j \notin Service /\ status[j] \in Terminal
  /\ status' = [status EXCEPT ![j] = "pruned"]
  /\ UNCHANGED <<generation, cancel, worker>>

Next == \E j \in Job :
  \/ Submit(j) \/ Claim(j) \/ Begin(j) \/ Abandon(j) \/ Report(j) \/ WriteOff(j)
  \/ Cancel(j) \/ Requeue(j) \/ Prune(j)

Spec == Init /\ [][Next]_vars
=============================================================================
