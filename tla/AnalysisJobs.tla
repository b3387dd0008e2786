---------------------------- MODULE AnalysisJobs ----------------------------
(***************************************************************************)
(* The analytic jobs of telegram_connector: durable rows in SQLite, one     *)
(* ownership flock per job, a supervisor thread inside one listener         *)
(* process, an outer worker per launch that imposes the TTL, and the inner  *)
(* worker that executes the job.  All of them commit to the same row, none  *)
(* shares memory with another, and each may die between two of its steps.   *)
(*                                                                         *)
(* One SQLite transaction, one read, one flock call is one action.  A       *)
(* worker is identified by the job and the generation it was launched for. *)
(***************************************************************************)
EXTENDS Naturals, FiniteSets

CONSTANTS
  Job,            \* job identities
  IndexJob,       \* the subset that is the FTS index service job
  Bridge,         \* listener processes (`telegram_bridge.py listen`)
  NoJob,          \* "no job", not in Job
  MaxRunning,     \* analysis.max_running_jobs
  MaxQueued,      \* analysis.max_queued_jobs
  MaxGeneration,  \* bound: generations a job may go through
  MaxFaults       \* bound: process crashes and kills in a behaviour

ASSUME ConstantsAssumption ==
  /\ IndexJob \subseteq Job
  /\ IsFiniteSet(Job)
  /\ NoJob \notin Job
  /\ MaxRunning \in Nat \ {0}
  /\ MaxQueued \in Nat \ {0}
  /\ MaxGeneration \in Nat \ {0}
  /\ MaxFaults \in Nat

VARIABLES
  \* the durable row
  status, generation, cancel, checkpoint, result, delivery, origin,
  \* kernel locks and the listener processes
  lock, mode, active, sup, ctl,
  \* the processes launched for <<job, generation>>
  outerAt, outerNote, innerAt, innerNote,
  faults

rowVars   == <<status, generation, cancel, checkpoint, result, delivery, origin>>
dataVars  == <<checkpoint, result, delivery, origin>>
outerVars == <<outerAt, outerNote>>
innerVars == <<innerAt, innerNote>>
bridgeVars == <<mode, active, sup, ctl>>
vars == <<rowVars, lock, bridgeVars, outerVars, innerVars, faults>>

-----------------------------------------------------------------------------
Generation == 1 .. MaxGeneration
\* "completed" stands for the code's completed and partial: every guard here
\* treats a complete and a partial result alike.
Terminal   == {"completed", "failed", "timed_out", "cancelled", "interrupted"}
Status     == {"absent", "queued", "running", "pruned"} \cup Terminal
Note       == {"none"} \cup Terminal
\* "none" as long as nothing of the plan can have reached Telegram, refused
\* attempts included; "partial" once a part is confirmed and others are not.
Delivery   == {"none", "partial", "unknown", "confirmed"}

\* Terminal states /resume accepts; a cancelled job stays cancelled.
ResumableStatus == {"interrupted", "timed_out", "completed", "failed"}

Free == <<"free", 0>>
Supervisor == <<"supervisor", 0>>
Control(b) == <<"control", b>>
Outer(g)   == <<"outer", g>>
Inner(g)   == <<"inner", g>>
Holder == {Free, Supervisor} \cup {Control(b) : b \in Bridge}
            \cup {Outer(g) : g \in Generation} \cup {Inner(g) : g \in Generation}

SupAt == {"off", "reap", "reapLock", "reapFinish", "recover", "recoverLock",
          "recoverFinish", "claim", "claimTx", "launch"}
Sup == [at : SupAt, todo : SUBSET Job, job : Job \cup {NoJob},
        gen : 0 .. MaxGeneration, note : Note]
Ctl == [at : {"idle", "resume", "holding"}, job : Job \cup {NoJob}, gen : 0 .. MaxGeneration]

OuterAt == {"none", "starting", "watching", "stopping", "settling", "locked",
            "noting", "finishing", "gone"}
InnerAt == {"none", "starting", "locked", "executing", "sending", "sendingNext",
            "closing", "noting", "finishing", "leaving", "gone"}
OuterAlive == OuterAt \ {"none", "gone"}
InnerAlive == InnerAt \ {"none", "gone"}
OuterHolds == {"locked", "noting", "finishing"}
InnerHolds == InnerAlive \ {"starting"}
SupHolds   == {"reapFinish", "recoverFinish", "claimTx"}
\* Steps of an inner worker that may still act for its job.
Sending    == {"sending", "sendingNext"}
Working    == {"executing", "closing", "noting", "finishing"} \cup Sending

SupOn(p, todo, j, g, v) == [at |-> p, todo |-> todo, job |-> j, gen |-> g, note |-> v]
Scan(p, todo) == SupOn(p, todo, NoJob, 0, "none")
SupOff  == Scan("off", {})
CtlIdle == [at |-> "idle", job |-> NoJob, gen |-> 0]

TypeOK ==
  /\ status \in [Job -> Status]
  /\ generation \in [Job -> 0 .. MaxGeneration]
  /\ cancel \in [Job -> BOOLEAN]
  /\ checkpoint \in [Job -> BOOLEAN]
  /\ result \in [Job -> BOOLEAN]
  /\ delivery \in [Job -> Delivery]
  /\ origin \in [Job -> Bridge \cup {NoJob}]
  /\ lock \in [Job -> Holder]
  /\ mode \in [Bridge -> {"down", "plain", "supervising", "failed"}]
  /\ active \in [Job -> 0 .. MaxGeneration]
  /\ sup \in Sup
  /\ ctl \in [Bridge -> Ctl]
  /\ outerAt \in [Job -> [Generation -> OuterAt]]
  /\ outerNote \in [Job -> [Generation -> Note]]
  /\ innerAt \in [Job -> [Generation -> InnerAt]]
  /\ innerNote \in [Job -> [Generation -> Note]]
  /\ faults \in 0 .. MaxFaults

Init ==
  /\ status = [j \in Job |-> "absent"]
  /\ generation = [j \in Job |-> 0]
  /\ cancel = [j \in Job |-> FALSE]
  /\ checkpoint = [j \in Job |-> FALSE]
  /\ result = [j \in Job |-> FALSE]
  /\ delivery = [j \in Job |-> "none"]
  /\ origin = [j \in Job |-> NoJob]
  /\ lock = [j \in Job |-> Free]
  /\ mode = [b \in Bridge |-> "down"]
  /\ active = [j \in Job |-> 0]
  /\ sup = SupOff
  /\ ctl = [b \in Bridge |-> CtlIdle]
  /\ outerAt = [j \in Job |-> [g \in Generation |-> "none"]]
  /\ outerNote = [j \in Job |-> [g \in Generation |-> "none"]]
  /\ innerAt = [j \in Job |-> [g \in Generation |-> "none"]]
  /\ innerNote = [j \in Job |-> [g \in Generation |-> "none"]]
  /\ faults = 0

-----------------------------------------------------------------------------
(* The store: guards and updates every caller shares.                      *)

InStatus(s) == {j \in Job : status[j] = s}

\* Mutant: a writer of an older generation still counts as the owner.
Owns_AnyGeneration(j, g) == status[j] = "running"

\* generation and running state are still the caller's
Owns(j, g) == status[j] = "running" /\ generation[j] = g

\* AnalysisStore.require_running
Fenced(j, g) == Owns(j, g) /\ ~cancel[j]

HasQueueRoom == Cardinality(InStatus("queued")) < MaxQueued

\* Mutant: the status asked for is written whatever was requested meanwhile.
FinalStatus_IgnoresCancel(j, v) == v

\* The CASE of finish_job: an accepted cancellation overrides a stop.
FinalStatus(j, v) ==
  IF cancel[j] /\ v \in {"interrupted", "failed", "timed_out"} THEN "cancelled" ELSE v

\* AnalysisStore.finish_job, in its success case; callers handle ~Owns (stale).
FinishJob(j, g, v) ==
  /\ Owns(j, g)
  /\ status' = [status EXCEPT ![j] = FinalStatus(j, v)]
  /\ UNCHANGED <<generation, cancel, dataVars>>

\* Mutant: the requeued job keeps its generation.
Requeue_SameGeneration(j) ==
  /\ generation[j] + 1 < MaxGeneration
  /\ status' = [status EXCEPT ![j] = "queued"]
  /\ cancel' = [cancel EXCEPT ![j] = FALSE]
  /\ UNCHANGED generation

\* What resume_job and queue_index_job write.
Requeue(j) ==
  /\ generation[j] + 1 < MaxGeneration
  /\ status' = [status EXCEPT ![j] = "queued"]
  /\ generation' = [generation EXCEPT ![j] = @ + 1]
  /\ cancel' = [cancel EXCEPT ![j] = FALSE]

Lock(j, h) == lock[j] = Free /\ lock' = [lock EXCEPT ![j] = h]
Unlock(j)  == lock' = [lock EXCEPT ![j] = Free]
Released(hs) == [j \in Job |-> IF lock[j] \in hs THEN Free ELSE lock[j]]

-----------------------------------------------------------------------------
(* Listener processes, admission and control commands.                     *)

\* BridgeSupervisor._run takes the supervisor lock once; a listener that does
\* not get it keeps serving commands without a scheduler.
BridgeStart(b) ==
  /\ mode[b] = "down"
  /\ IF \A c \in Bridge : mode[c] # "supervising"
     THEN mode' = [mode EXCEPT ![b] = "supervising"] /\ sup' = Scan("reap", Job)
     ELSE mode' = [mode EXCEPT ![b] = "plain"] /\ UNCHANGED sup
  /\ UNCHANGED <<rowVars, lock, active, ctl, outerVars, innerVars, faults>>

\* The process is gone: the kernel releases its locks, its Popen table is
\* lost, and the workers, which lead sessions of their own, go on.
Down(b) ==
  /\ mode' = [mode EXCEPT ![b] = "down"]
  /\ ctl' = [ctl EXCEPT ![b] = CtlIdle]
  /\ IF mode[b] = "supervising"
     THEN /\ sup' = SupOff
          /\ active' = [j \in Job |-> 0]
          /\ lock' = Released({Supervisor, Control(b)})
     ELSE /\ UNCHANGED <<sup, active>>
          /\ lock' = Released({Control(b)})

BridgeStop(b) ==
  /\ mode[b] # "down"
  /\ faults < MaxFaults
  /\ faults' = faults + 1
  /\ Down(b)
  /\ UNCHANGED <<rowVars, outerVars, innerVars>>

\* cmd_listen returns 1 once it sees supervisor.error.
BridgeExit(b) ==
  /\ mode[b] = "failed"
  /\ Down(b)
  /\ UNCHANGED <<rowVars, outerVars, innerVars, faults>>

AdmitJob(b, j) ==
  /\ mode[b] # "down" /\ j \notin IndexJob
  /\ status[j] = "absent" /\ HasQueueRoom
  /\ status' = [status EXCEPT ![j] = "queued"]
  /\ origin' = [origin EXCEPT ![j] = b]
  /\ UNCHANGED <<generation, cancel, checkpoint, result, delivery, lock, bridgeVars,
                 outerVars, innerVars, faults>>

\* index-history: a CLI process of its own, no listener and no lock involved.
QueueIndexJob(j, rebuild) ==
  /\ j \in IndexJob
  /\ rebuild \/ status[j] \notin {"queued", "running", "completed"}
  /\ HasQueueRoom \/ status[j] = "queued"
  /\ IF status[j] = "absent"
     THEN status' = [status EXCEPT ![j] = "queued"] /\ UNCHANGED <<generation, cancel>>
     ELSE Requeue(j)
  /\ checkpoint' = [checkpoint EXCEPT ![j] = TRUE]
  /\ UNCHANGED <<result, delivery, origin, lock, bridgeVars, outerVars, innerVars, faults>>

RequestCancel(b, j) ==
  /\ mode[b] # "down" /\ j \notin IndexJob
  /\ status[j] \in {"queued", "running"}
  /\ cancel' = [cancel EXCEPT ![j] = TRUE]
  /\ status' = [status EXCEPT ![j] = IF @ = "queued" THEN "cancelled" ELSE @]
  /\ UNCHANGED <<generation, dataVars, lock, bridgeVars, outerVars, innerVars, faults>>

\* control_analysis_job checks a snapshot of the row before it takes the lock.
\* `missing`: the full report of a confirmed job has to be restored.
ResumeAccepted(j, missing) ==
  /\ j \notin IndexJob
  /\ status[j] \in ResumableStatus
  /\ delivery[j] # "unknown"
  /\ result[j] /\ delivery[j] = "confirmed" => missing
  /\ status[j] = "failed" => checkpoint[j]
  /\ status[j] = "completed" => result[j]

ResumeRead(b, j) ==
  /\ mode[b] # "down" /\ ctl[b].at = "idle"
  /\ \E missing \in BOOLEAN : ResumeAccepted(j, missing)
  /\ ctl' = [ctl EXCEPT ![b] = [at |-> "resume", job |-> j, gen |-> generation[j]]]
  /\ UNCHANGED <<rowVars, lock, mode, active, sup, outerVars, innerVars, faults>>

ResumeLock(b) ==
  /\ ctl[b].at = "resume"
  /\ \/ /\ Lock(ctl[b].job, Control(b))
        /\ ctl' = [ctl EXCEPT ![b] = [at |-> "holding", job |-> @.job, gen |-> @.gen]]
     \/ /\ lock[ctl[b].job] # Free                     \* still_running
        /\ ctl' = [ctl EXCEPT ![b] = CtlIdle]
        /\ UNCHANGED lock
  /\ UNCHANGED <<rowVars, mode, active, sup, outerVars, innerVars, faults>>

\* resume_job: its own guards, on the row as it is now.
StillResumable(j, g) ==
  /\ generation[j] = g /\ g + 1 < MaxGeneration
  /\ status[j] \in ResumableStatus
  /\ status[j] = "failed" => checkpoint[j]
  /\ HasQueueRoom

ResumeJob(b) ==
  LET j == ctl[b].job IN
  /\ ctl[b].at = "holding"
  /\ \/ StillResumable(j, ctl[b].gen) /\ Requeue(j)
     \/ /\ ~StillResumable(j, ctl[b].gen)      \* queued, state_changed, queue_full
        /\ UNCHANGED <<status, generation, cancel>>
  /\ Unlock(j)
  /\ ctl' = [ctl EXCEPT ![b] = CtlIdle]
  /\ UNCHANGED <<dataVars, mode, active, sup, outerVars, innerVars, faults>>

-----------------------------------------------------------------------------
(* The supervisor thread: _tick reaps, recovers, then claims, visiting      *)
(* every job once in each part.                                            *)

Exited(j) == active[j] # 0 /\ outerAt[j][active[j]] = "gone"
\* Mutant: nobody looks for runs without a process.
Orphaned_Never(j) == FALSE

Orphaned(j) == status[j] = "running" /\ active[j] = 0
\* Mutant: the service job is not recognised as internal.
Candidate_OwnNamespaceOnly(j) ==
  status[j] = "queued" /\ origin[j] \in Bridge /\ mode[origin[j]] = "supervising"

Candidate(j) ==
  /\ status[j] = "queued"
  /\ j \in IndexJob \/ (origin[j] \in Bridge /\ mode[origin[j]] = "supervising")

Due(j) == \/ sup.at = "reap" /\ Exited(j)
          \/ sup.at = "recover" /\ Orphaned(j)
          \/ sup.at = "claim" /\ Candidate(j)

SupKeeps == UNCHANGED <<mode, ctl, outerVars, innerVars, faults>>

\* On to the other jobs of a part of the tick, or to the next part.
PartAfter(p) ==
  IF p = "reap" THEN "recover" ELSE IF p = "recover" THEN "claim" ELSE "reap"

Onward(p, todo) == IF todo # {} THEN Scan(p, todo) ELSE Scan(PartAfter(p), Job)

\* Mutant: a queued job that is not the listener's ends the tick.
SupSkip_EndsTick(j) ==
  /\ sup.at \in {"reap", "recover", "claim"} /\ j \in sup.todo
  /\ ~Due(j)
  /\ sup' = Onward(sup.at, IF sup.at = "claim" /\ status[j] = "queued" THEN {} ELSE sup.todo \ {j})
  /\ UNCHANGED <<rowVars, lock, active>> /\ SupKeeps

SupSkip(j) ==
  /\ sup.at \in {"reap", "recover", "claim"} /\ j \in sup.todo
  /\ ~Due(j)
  /\ sup' = Onward(sup.at, sup.todo \ {j})
  /\ UNCHANGED <<rowVars, lock, active>> /\ SupKeeps

\* The exited process is dropped from the table, then its row is read.  The
\* exit code decides between failed and interrupted: both are allowed here.
ReapRead(j) ==
  /\ sup.at = "reap" /\ j \in sup.todo /\ Exited(j)
  /\ active' = [active EXCEPT ![j] = 0]
  /\ \/ /\ Owns(j, active[j])
        /\ \E v \in (IF cancel[j] THEN {"cancelled"} ELSE {"failed", "interrupted"}) :
             sup' = SupOn("reapLock", sup.todo \ {j}, j, active[j], v)
     \/ /\ ~Owns(j, active[j])
        /\ sup' = Onward("reap", sup.todo \ {j})
  /\ UNCHANGED <<rowVars, lock>> /\ SupKeeps

\* recover_analysis_jobs: every running row without a live handle.
RecoverRead(j) ==
  /\ sup.at = "recover" /\ j \in sup.todo /\ Orphaned(j)
  /\ sup' = SupOn("recoverLock", sup.todo \ {j}, j, generation[j],
                  IF cancel[j] THEN "cancelled" ELSE "interrupted")
  /\ UNCHANGED <<rowVars, lock, active>> /\ SupKeeps

SupTryLock(from, to, back) ==
  /\ sup.at = from
  /\ \/ Lock(sup.job, Supervisor) /\ sup' = SupOn(to, sup.todo, sup.job, sup.gen, sup.note)
     \/ lock[sup.job] # Free /\ sup' = Onward(back, sup.todo) /\ UNCHANGED lock
  /\ UNCHANGED <<rowVars, active>> /\ SupKeeps

\* Mutant: a run is written off without taking its ownership lock.
ReapLock_Unowned ==
  /\ sup.at = "reapLock"
  /\ sup' = SupOn("reapFinish", sup.todo, sup.job, sup.gen, sup.note)
  /\ UNCHANGED <<rowVars, lock, active>> /\ SupKeeps

ReapLock    == SupTryLock("reapLock", "reapFinish", "reap")
RecoverLock == SupTryLock("recoverLock", "recoverFinish", "recover")

SupFinish(from, back) ==
  /\ sup.at = from
  /\ FinishJob(sup.job, sup.gen, sup.note)
  /\ Unlock(sup.job)
  /\ sup' = Onward(back, sup.todo)
  /\ UNCHANGED active /\ SupKeeps

ReapFinish    == SupFinish("reapFinish", "reap")
RecoverFinish == SupFinish("recoverFinish", "recover")

\* recover_analysis_jobs catches StaleGenerationError ...
RecoverStale ==
  /\ sup.at = "recoverFinish" /\ ~Owns(sup.job, sup.gen)
  /\ Unlock(sup.job)
  /\ sup' = Onward("recover", sup.todo)
  /\ UNCHANGED <<rowVars, active>> /\ SupKeeps

\* ... the reaping part and the failed launch do not: _run ends with an error.
SupervisorFails ==
  /\ sup.at \in {"reapFinish", "launch"} /\ ~Owns(sup.job, sup.gen)
  /\ mode' = [b \in Bridge |-> IF mode[b] = "supervising" THEN "failed" ELSE mode[b]]
  /\ sup' = SupOff
  /\ active' = [j \in Job |-> 0]
  /\ lock' = Released({Supervisor})
  /\ UNCHANGED <<rowVars, ctl, outerVars, innerVars, faults>>

ClaimRead(j) ==
  /\ sup.at = "claim" /\ j \in sup.todo /\ Candidate(j)
  /\ \/ Lock(j, Supervisor)
        /\ sup' = SupOn("claimTx", sup.todo \ {j}, j, 0, "none")
     \/ lock[j] # Free /\ sup' = Onward("claim", sup.todo \ {j}) /\ UNCHANGED lock
  /\ UNCHANGED <<rowVars, active>> /\ SupKeeps

\* Mutant: the limit is compared with <=.
Claimable_OffByOne(j) ==
  /\ Cardinality(InStatus("running")) <= MaxRunning
  /\ status[j] = "queued" /\ ~cancel[j]

Claimable(j) ==
  /\ Cardinality(InStatus("running")) < MaxRunning
  /\ status[j] = "queued" /\ ~cancel[j]

\* claim_job, then the lock is released before the launch.
ClaimJob ==
  LET j == sup.job IN
  /\ sup.at = "claimTx"
  /\ Unlock(j)
  /\ \/ /\ Claimable(j)
        /\ status' = [status EXCEPT ![j] = "running"]
        /\ generation' = [generation EXCEPT ![j] = @ + 1]
        /\ sup' = SupOn("launch", sup.todo, j, generation[j] + 1, "none")
     \/ /\ ~Claimable(j)
        /\ sup' = Onward("claim", sup.todo)
        /\ UNCHANGED <<status, generation>>
  /\ UNCHANGED <<cancel, dataVars, active>> /\ SupKeeps

Launch ==
  LET j == sup.job IN
  /\ sup.at = "launch"
  /\ outerAt' = [outerAt EXCEPT ![j][sup.gen] = "starting"]
  /\ active' = [active EXCEPT ![j] = sup.gen]
  /\ sup' = Onward("claim", sup.todo)
  /\ UNCHANGED <<rowVars, lock, mode, ctl, outerNote, innerVars, faults>>

\* Access revoked, incompatible version or spawn error: committed without the lock.
LaunchFails ==
  /\ sup.at = "launch"
  /\ FinishJob(sup.job, sup.gen, "failed")
  /\ sup' = Onward("claim", sup.todo)
  /\ UNCHANGED <<lock, active>> /\ SupKeeps

\* The last part of a tick: a progress message is recorded in checkpoint_json,
\* fenced by the generation alone.  The listener reports on the jobs it has
\* claimed; here on every job of its namespace that was ever claimed.
SaveProgress(j) ==
  /\ sup.at = "reap" /\ sup.todo = Job
  /\ j \notin IndexJob /\ generation[j] # 0 /\ status[j] # "pruned"
  /\ origin[j] \in Bridge /\ mode[origin[j]] = "supervising"
  /\ checkpoint' = [checkpoint EXCEPT ![j] = TRUE]
  /\ UNCHANGED <<status, generation, cancel, result, delivery, origin, lock, active, sup>>
  /\ SupKeeps

SupervisorStep ==
  \/ \E j \in Job : SupSkip(j) \/ ReapRead(j) \/ RecoverRead(j) \/ ClaimRead(j)
  \/ ReapLock \/ ReapFinish \/ RecoverLock \/ RecoverFinish
  \/ RecoverStale \/ SupervisorFails \/ ClaimJob \/ Launch \/ LaunchFails

-----------------------------------------------------------------------------
(* The outer worker: run_analysis_with_ttl.                                *)

OuterGo(j, g, at, v) ==
  /\ outerAt' = [outerAt EXCEPT ![j][g] = at]
  /\ outerNote' = [outerNote EXCEPT ![j][g] = v]
OuterGone(j, g) == OuterGo(j, g, "gone", "none")
OuterKeeps == UNCHANGED <<bridgeVars, faults>>

OuterStart(j, g) ==
  /\ outerAt[j][g] = "starting"
  /\ \/ /\ Owns(j, g)
        /\ OuterGo(j, g, "watching", "none")
        /\ innerAt' = [innerAt EXCEPT ![j][g] = "starting"]
     \/ ~Owns(j, g) /\ OuterGone(j, g) /\ UNCHANGED innerAt
  /\ UNCHANGED <<rowVars, lock, innerNote>> /\ OuterKeeps

\* The exit code decides between failed and interrupted: both are allowed here.
OuterSeesExit(j, g) ==
  /\ outerAt[j][g] = "watching" /\ innerAt[j][g] = "gone"
  /\ \E v \in {"interrupted", "failed"} : OuterGo(j, g, "settling", v)
  /\ UNCHANGED <<rowVars, lock, innerVars>> /\ OuterKeeps

\* The poll loop of run_with_ttl gives up: deadline, host sleep or a signal to
\* the outer worker, a supervision error.
OuterGivesUp(j, g, v) ==
  /\ outerAt[j][g] = "watching"
  /\ v \in {"timed_out", "interrupted", "failed"}
  /\ OuterGo(j, g, "stopping", v)
  /\ UNCHANGED <<rowVars, lock, innerVars>> /\ OuterKeeps

\* worker_stop_requested
OuterSeesStop(j, g) ==
  /\ outerAt[j][g] = "watching"
  /\ status[j] = "pruned" \/ generation[j] # g \/ cancel[j]
  /\ OuterGo(j, g, "stopping", "failed")
  /\ UNCHANGED <<rowVars, lock, innerVars>> /\ OuterKeeps

\* stop_process_group: the inner worker goes on until the signal lands.
OuterKills(j, g) ==
  /\ outerAt[j][g] = "stopping"
  /\ innerAt' = [innerAt EXCEPT ![j][g] = "gone"]
  /\ innerNote' = [innerNote EXCEPT ![j][g] = "none"]
  /\ lock' = [lock EXCEPT ![j] = IF @ = Inner(g) THEN Free ELSE @]
  /\ OuterGo(j, g, "settling", outerNote[j][g])
  /\ UNCHANGED rowVars /\ OuterKeeps

OuterLock(j, g) ==
  /\ outerAt[j][g] = "settling"
  /\ \/ Lock(j, Outer(g)) /\ OuterGo(j, g, "locked", outerNote[j][g])
     \/ lock[j] # Free /\ OuterGone(j, g) /\ UNCHANGED lock
  /\ UNCHANGED <<rowVars, innerVars>> /\ OuterKeeps

OuterRead(j, g) ==
  /\ outerAt[j][g] = "locked"
  /\ \/ /\ Owns(j, g)
        /\ OuterGo(j, g, "noting", IF cancel[j] THEN "cancelled" ELSE outerNote[j][g])
        /\ UNCHANGED lock
     \/ ~Owns(j, g) /\ OuterGone(j, g) /\ Unlock(j)
  /\ UNCHANGED <<rowVars, innerVars>> /\ OuterKeeps

\* save_checkpoint, in its success case: the row may have been requeued.
NoteStop(j, g) ==
  /\ generation[j] = g /\ status[j] \in {"queued", "running"}
  /\ checkpoint' = [checkpoint EXCEPT ![j] = TRUE]
  /\ UNCHANGED <<status, generation, cancel, result, delivery, origin>>

\* save_checkpoint(last_stop): written, too large for the byte cap, or stale.
OuterSavesStop(j, g) ==
  /\ outerAt[j][g] = "noting"
  /\ \/ /\ NoteStop(j, g) \/ UNCHANGED rowVars
        /\ OuterGo(j, g, "finishing", outerNote[j][g])
        /\ UNCHANGED lock
     \/ /\ ~(generation[j] = g /\ status[j] \in {"queued", "running"})
        /\ OuterGone(j, g) /\ Unlock(j)
        /\ UNCHANGED rowVars
  /\ UNCHANGED innerVars /\ OuterKeeps

OuterFinish(j, g) ==
  /\ outerAt[j][g] = "finishing"
  /\ \/ FinishJob(j, g, outerNote[j][g])
     \/ ~Owns(j, g) /\ UNCHANGED rowVars
  /\ OuterGone(j, g) /\ Unlock(j)
  /\ UNCHANGED innerVars /\ OuterKeeps

OuterStep(j, g) ==
  \/ OuterStart(j, g) \/ OuterSeesExit(j, g) \/ OuterSeesStop(j, g)
  \/ OuterGivesUp(j, g, "timed_out")
  \/ OuterKills(j, g) \/ OuterLock(j, g) \/ OuterRead(j, g)
  \/ OuterSavesStop(j, g) \/ OuterFinish(j, g)

-----------------------------------------------------------------------------
(* The inner worker: run_analysis around execute_analysis_job or            *)
(* run_fts_backfill.                                                       *)

InnerGo(j, g, at, v) ==
  /\ innerAt' = [innerAt EXCEPT ![j][g] = at]
  /\ innerNote' = [innerNote EXCEPT ![j][g] = v]
InnerKeeps == UNCHANGED <<bridgeVars, outerVars, faults>>

InnerLock(j, g) ==
  /\ innerAt[j][g] = "starting"
  /\ \/ Lock(j, Inner(g)) /\ InnerGo(j, g, "locked", "none")
     \/ lock[j] # Free /\ InnerGo(j, g, "gone", "none") /\ UNCHANGED lock   \* EX_TEMPFAIL
  /\ UNCHANGED rowVars /\ InnerKeeps

InnerRead(j, g) ==
  /\ innerAt[j][g] = "locked"
  /\ \/ Fenced(j, g) /\ InnerGo(j, g, "executing", "none") /\ UNCHANGED lock
     \/ Owns(j, g) /\ cancel[j] /\ InnerGo(j, g, "finishing", "cancelled") /\ UNCHANGED lock
     \/ ~Owns(j, g) /\ InnerGo(j, g, "gone", "none") /\ Unlock(j)           \* EX_DATAERR
  /\ UNCHANGED rowVars /\ InnerKeeps

\* A write of the executor: fenced by require_running in its own transaction.
ExecWrite(j, g) ==
  /\ innerAt[j][g] = "executing" /\ Fenced(j, g)
  /\ UNCHANGED <<status, generation, cancel, origin, lock>> /\ InnerKeeps

SaveCheckpoint(j, g) ==
  /\ ExecWrite(j, g)
  /\ checkpoint' = [checkpoint EXCEPT ![j] = TRUE]
  /\ UNCHANGED <<result, delivery, innerVars>>

SaveResult(j, g) ==
  /\ j \notin IndexJob /\ ExecWrite(j, g)
  /\ ~result[j] /\ checkpoint[j]
  /\ result' = [result EXCEPT ![j] = TRUE]
  /\ UNCHANGED <<checkpoint, delivery, innerVars>>

\* Mutant: invalidation does not look at what was already sent.
Invalidate_Sent(j, g) ==
  /\ ExecWrite(j, g)
  /\ result[j]
  /\ result' = [result EXCEPT ![j] = FALSE]
  /\ UNCHANGED <<checkpoint, delivery, innerVars>>

\* _invalidate_dependencies_no_tx: changed sources drop the result and its
\* unsent delivery plan, never one that reached or may have reached Telegram.
Invalidate(j, g) ==
  /\ ExecWrite(j, g)
  /\ result[j] /\ delivery[j] = "none"
  /\ result' = [result EXCEPT ![j] = FALSE]
  /\ UNCHANGED <<checkpoint, delivery, innerVars>>

\* begin_delivery_attempt: the intent is durable before the request leaves.
BeginDelivery(j, g) ==
  /\ ExecWrite(j, g)
  /\ result[j] /\ delivery[j] \in {"none", "partial"}
  /\ delivery' = [delivery EXCEPT ![j] = "unknown"]
  /\ InnerGo(j, g, IF delivery[j] = "none" THEN "sending" ELSE "sendingNext", "none")
  /\ UNCHANGED <<checkpoint, result>>

\* settle_delivery_attempt is not fenced by the cancel flag: a receipt counts.
\* A refusal leaves the plan unsent only when no earlier part was confirmed.
SettleDelivery(j, g, outcome) ==
  /\ innerAt[j][g] \in Sending
  /\ outcome = "none" => innerAt[j][g] = "sending"
  /\ \/ /\ Owns(j, g)
        /\ delivery' = [delivery EXCEPT ![j] = outcome]
        /\ InnerGo(j, g, "executing", "none")
     \/ ~Owns(j, g) /\ InnerGo(j, g, "leaving", "none") /\ UNCHANGED delivery
  /\ UNCHANGED <<status, generation, cancel, checkpoint, result, origin, lock>> /\ InnerKeeps

\* interrupt_changed_input commits the terminal state inside the executor.
InputChanged(j, g) ==
  /\ j \notin IndexJob /\ innerAt[j][g] = "executing" /\ Fenced(j, g)
  /\ checkpoint' = [checkpoint EXCEPT ![j] = TRUE]
  /\ status' = [status EXCEPT ![j] = "interrupted"]
  /\ InnerGo(j, g, "closing", "failed")
  /\ UNCHANGED <<generation, cancel, result, delivery, origin, lock>> /\ InnerKeeps

ExecReturns(j, g) ==
  /\ innerAt[j][g] = "executing" /\ Fenced(j, g)
  /\ j \notin IndexJob => result[j]
  /\ InnerGo(j, g, "closing", "completed")
  /\ UNCHANGED <<rowVars, lock>> /\ InnerKeeps

\* InterruptedError from require_running; TimeoutError of the run's own
\* deadline; any other exception.
ExecRaises(j, g, v) ==
  /\ innerAt[j][g] = "executing"
  /\ \/ v = "interrupted" /\ Owns(j, g) /\ cancel[j]
     \/ v \in {"timed_out", "failed"}
  /\ InnerGo(j, g, "closing", v)
  /\ UNCHANGED <<rowVars, lock>> /\ InnerKeeps

\* StaleGenerationError: whoever owns the row now decides.
ExecStale(j, g) ==
  /\ innerAt[j][g] = "executing" /\ ~Owns(j, g)
  /\ InnerGo(j, g, "leaving", "none")
  /\ UNCHANGED <<rowVars, lock>> /\ InnerKeeps

\* The row is read again before the terminal commit: a failure of a job that
\* has its result still completes it, and a cancellation wins over any raise.
InnerReread(j, g) ==
  LET v == innerNote[j][g] IN
  /\ innerAt[j][g] = "closing"
  /\ \/ Owns(j, g) /\ v = "completed" /\ InnerGo(j, g, "finishing", v)
     \/ Owns(j, g) /\ v \in {"timed_out", "interrupted"}
        /\ InnerGo(j, g, "finishing", IF cancel[j] THEN "cancelled" ELSE v)
     \/ Owns(j, g) /\ v = "failed"
        /\ InnerGo(j, g, "noting", IF cancel[j] THEN "cancelled"
                                   ELSE IF result[j] THEN "completed" ELSE "failed")
     \/ ~Owns(j, g) /\ InnerGo(j, g, "leaving", "none")
  /\ UNCHANGED <<rowVars, lock>> /\ InnerKeeps

\* save_checkpoint: written, or too large for the byte cap, which is ignored
\* for last_failure and ends the process for last_stop, or stale.
InnerSavesFailure(j, g) ==
  /\ innerAt[j][g] = "noting"
  /\ \/ /\ NoteStop(j, g) \/ UNCHANGED rowVars
        /\ InnerGo(j, g, "finishing", innerNote[j][g])
     \/ /\ InnerGo(j, g, "leaving", "none")
        /\ UNCHANGED rowVars
  /\ UNCHANGED lock /\ InnerKeeps

InnerFinish(j, g) ==
  /\ innerAt[j][g] = "finishing"
  /\ \/ FinishJob(j, g, innerNote[j][g])
     \/ ~Owns(j, g) /\ UNCHANGED rowVars
  /\ InnerGo(j, g, "leaving", "none")
  /\ UNCHANGED lock /\ InnerKeeps

\* The process ends; the lock goes with it.
InnerLeaves(j, g) ==
  /\ innerAt[j][g] = "leaving"
  /\ InnerGo(j, g, "gone", "none") /\ Unlock(j)
  /\ UNCHANGED rowVars /\ InnerKeeps

\* maintain_analysis_storage, run by another job's worker at its start and end,
\* deletes terminal rows past retention.  It takes no job lock.
PruneJob(j, k, g) ==
  /\ j # k /\ j \notin IndexJob /\ k \notin IndexJob
  /\ innerAt[k][g] \in {"executing", "leaving"}
  /\ status[j] \in Terminal
  /\ status' = [status EXCEPT ![j] = "pruned"]
  /\ UNCHANGED <<generation, cancel, dataVars, lock, innerVars>> /\ InnerKeeps

InnerStep(j, g) ==
  \/ InnerLock(j, g) \/ InnerRead(j, g)
  \/ SaveCheckpoint(j, g) \/ SaveResult(j, g) \/ Invalidate(j, g)
  \/ BeginDelivery(j, g) \/ \E o \in Delivery : SettleDelivery(j, g, o)
  \/ InputChanged(j, g) \/ ExecReturns(j, g)
  \/ \E v \in {"interrupted", "timed_out", "failed"} : ExecRaises(j, g, v)
  \/ ExecStale(j, g) \/ InnerReread(j, g) \/ InnerSavesFailure(j, g)
  \/ InnerFinish(j, g) \/ InnerLeaves(j, g)

-----------------------------------------------------------------------------
(* Kills from outside: out-of-memory, an operator, a reboot of one process. *)

KillOuter(j, g) ==
  /\ outerAt[j][g] \in OuterAlive
  /\ faults < MaxFaults /\ faults' = faults + 1
  /\ OuterGone(j, g)
  /\ lock' = [lock EXCEPT ![j] = IF @ = Outer(g) THEN Free ELSE @]
  /\ UNCHANGED <<rowVars, bridgeVars, innerVars>>

KillInner(j, g) ==
  /\ innerAt[j][g] \in InnerAlive
  /\ faults < MaxFaults /\ faults' = faults + 1
  /\ InnerGo(j, g, "gone", "none")
  /\ lock' = [lock EXCEPT ![j] = IF @ = Inner(g) THEN Free ELSE @]
  /\ UNCHANGED <<rowVars, bridgeVars, outerVars>>

-----------------------------------------------------------------------------
Next ==
  \/ \E b \in Bridge : BridgeStart(b) \/ BridgeStop(b) \/ BridgeExit(b)
                       \/ ResumeLock(b) \/ ResumeJob(b)
  \/ \E b \in Bridge, j \in Job : AdmitJob(b, j) \/ RequestCancel(b, j) \/ ResumeRead(b, j)
  \/ \E j \in Job, rebuild \in BOOLEAN : QueueIndexJob(j, rebuild)
  \/ SupervisorStep \/ \E j \in Job : SaveProgress(j)
  \/ \E j \in Job, g \in Generation :
       \/ OuterStep(j, g) \/ OuterGivesUp(j, g, "interrupted") \/ OuterGivesUp(j, g, "failed")
       \/ InnerStep(j, g) \/ KillOuter(j, g) \/ KillInner(j, g)
  \/ \E j, k \in Job, g \in Generation : PruneJob(j, k, g)

Spec == Init /\ [][Next]_vars

\* The launch agent keeps listeners alive; a running process keeps taking
\* steps; the TTL of the outer worker and the deadline of the inner one pass.
\* Nothing is assumed of users, faults, or how far the executor gets.
Fairness ==
  /\ WF_vars(SupervisorStep)
  /\ \A b \in Bridge : WF_vars(BridgeStart(b)) /\ WF_vars(BridgeExit(b))
                       /\ WF_vars(ResumeLock(b) \/ ResumeJob(b))
  /\ \A j \in Job, g \in Generation :
       /\ WF_vars(OuterStep(j, g))
       /\ WF_vars(InnerStep(j, g))
       /\ SF_vars(ExecRaises(j, g, "timed_out"))

FairSpec == Spec /\ Fairness
-----------------------------------------------------------------------------
(* What has to hold.                                                       *)

\* A process is past its flock exactly when the kernel records it as holder:
\* no step acts without the lock it took, and none leaves a lock behind
\* (analysis_ownership_lock).
LockOwnership ==
  \A j \in Job :
    /\ lock[j] = Supervisor <=> sup.at \in SupHolds /\ sup.job = j
    /\ \A b \in Bridge : lock[j] = Control(b) <=> ctl[b].at = "holding" /\ ctl[b].job = j
    /\ \A g \in Generation :
         /\ lock[j] = Outer(g) <=> outerAt[j][g] \in OuterHolds
         /\ lock[j] = Inner(g) <=> innerAt[j][g] \in InnerHolds

\* The fencing of generations: while an inner worker acts for an analysis
\* job, the row is running at that worker's generation, so no recovery, reap
\* or resume has declared the run over, and there is no second worker.  The
\* one exception is the worker that ended its own run (changed input).
ExecutorOwnsGeneration ==
  \A j \in Job \ IndexJob, g \in Generation :
    innerAt[j][g] \in Working =>
      generation[j] = g /\ (status[j] = "running" \/ innerAt[j][g] = "closing")

\* The index job may be requeued under its worker, which then works for an
\* older generation: it can no longer be mistaken for the current one.
IndexWorkerSuperseded ==
  \A j \in IndexJob, g \in Generation :
    innerAt[j][g] \in Working => generation[j] > g \/ Owns(j, g)

\* A cancellation accepted before the run ended is never lost under another
\* stop reason: only a success that was already being committed may win.
CancelNotLost ==
  \A j \in Job : status[j] \in {"failed", "timed_out", "interrupted"} => ~cancel[j]

\* Queue and worker limits hold across resumes, restarts and orphans: no more
\* jobs execute at once than max_running_jobs, not counting a superseded index
\* worker.
WithinCapacity ==
  /\ Cardinality(InStatus("queued")) <= MaxQueued
  /\ Cardinality({j \in Job : \E g \in Generation :
        /\ innerAt[j][g] \in {"executing"} \cup Sending
        /\ j \in IndexJob => Owns(j, g)}) <= MaxRunning

\* A job that reports success, or whose send was at least attempted, still
\* has the result it reported.
OutcomeHasResult ==
  \A j \in Job \ IndexJob :
    \/ status[j] = "completed"
    \/ delivery[j] \in {"unknown", "confirmed", "partial"}
    => result[j]

\* "Cancelled jobs remain terminal" (README), any other terminal state is
\* left only for a new generation or by pruning.
TerminalIsFinal ==
  [][\A j \in Job \ IndexJob :
       status[j] \in Terminal /\ status'[j] # status[j] =>
         \/ status'[j] = "pruned"
         \/ /\ status'[j] = "queued" /\ status[j] # "cancelled"
            /\ generation'[j] = generation[j] + 1]_vars

\* The worker that acts for the row's generation, whatever the row says by
\* now: a run must not be written off under it.  The worker that ended its own
\* run (changed input) only closes it.
Acts(j, g) == innerAt[j][g] \in Working /\ (status[j] = "running" \/ innerAt[j][g] # "closing")

CurrentWorker(j) ==
  IF generation[j] \in Generation /\ Acts(j, generation[j]) THEN generation[j] ELSE 0

Lifecycle == INSTANCE JobLifecycle
  WITH Service <- IndexJob, worker <- [j \in Job |-> CurrentWorker(j)]

\* The promise of JobLifecycle, kept by processes that share only the row and
\* the locks (telegram_bridge.py, telegram_analysis.py).
LifecycleSpec == Lifecycle!Spec

\* Every claimed run is brought to an end, by its worker, its supervisor or
\* the next listener, whoever was killed on the way.
EveryRunEnds ==
  \A j \in Job, g \in Generation : Owns(j, g) ~> ~Owns(j, g)

\* A queued job leaves the queue, whatever fills the pool and whatever else is
\* queued, as long as a listener of its own namespace holds the scheduler; the
\* index job leaves it under any listener.
QueueDrains ==
  \A j \in Job :
    status[j] = "queued" ~>
      status[j] # "queued" \/ (j \notin IndexJob /\ mode[origin[j]] # "supervising")

=============================================================================
