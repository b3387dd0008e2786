------------------------- MODULE AnalysisJobsProofs -------------------------
(***************************************************************************)
(* Proofs about AnalysisJobs for every set of jobs and listeners and every  *)
(* bound, in four parts.  Typing.  Then who may act for a job: each launch  *)
(* is fresh, the processes past their flock are exactly the ones the kernel *)
(* records, and an inner worker that acts still owns its generation.  Then  *)
(* the refinement of JobLifecycle: every step of every process is one step  *)
(* of the promised life of a job, or none.  Then what the row says of its   *)
(* result, and the limits on queue and workers.  Each invariant is          *)
(* inductive relative to the earlier ones.                                  *)
(***************************************************************************)
EXTENDS AnalysisJobs, FiniteSetTheorems, TLAPS

-----------------------------------------------------------------------------
(***************************************************************************)
(* Typing                                                                  *)
(***************************************************************************)

\* What anyone but the inner worker may report.
Stopped == Terminal \ {"completed"}

\* Typing, part by part: what the state of each component contains, and what
\* each process holds in its local variables where it uses them.
RowTyped ==
  /\ status \in [Job -> Status]
  /\ generation \in [Job -> 0 .. MaxGeneration]
  /\ cancel \in [Job -> BOOLEAN]
  /\ checkpoint \in [Job -> BOOLEAN]
  /\ result \in [Job -> BOOLEAN]
  /\ delivery \in [Job -> Delivery]
  /\ origin \in [Job -> Bridge \cup {NoJob}]
  /\ \A j \in Job :
       /\ status[j] \in {"absent", "queued"} => generation[j] < MaxGeneration
       /\ status[j] = "running" => generation[j] \in Generation
LockTyped == lock \in [Job -> Holder]
ModeTyped == mode \in [Bridge -> {"down", "plain", "supervising", "failed"}]
ActiveTyped == active \in [Job -> 0 .. MaxGeneration]
FaultsTyped == faults \in 0 .. MaxFaults
SupTyped ==
  /\ sup \in Sup
  /\ sup.at \notin {"off", "reap", "recover", "claim"} => sup.job \in Job
  /\ sup.at \in {"reapLock", "reapFinish", "recoverLock", "recoverFinish"} =>
       sup.gen \in Generation /\ sup.note \in Stopped
  /\ sup.at = "launch" => sup.gen \in Generation
CtlTyped ==
  /\ ctl \in [Bridge -> Ctl]
  /\ \A b \in Bridge : ctl[b].at # "idle" => ctl[b].job \in Job
OuterTyped ==
  /\ outerAt \in [Job -> [Generation -> OuterAt]]
  /\ outerNote \in [Job -> [Generation -> Note]]
  /\ \A j \in Job, g \in Generation :
       outerAt[j][g] \in {"stopping", "settling", "locked", "noting", "finishing"} =>
         outerNote[j][g] \in Stopped
InnerTyped ==
  /\ innerAt \in [Job -> [Generation -> InnerAt]]
  /\ innerNote \in [Job -> [Generation -> Note]]
  /\ \A j \in Job, g \in Generation :
       innerAt[j][g] \in {"closing", "noting", "finishing"} => innerNote[j][g] \in Terminal

Typing == /\ RowTyped /\ LockTyped /\ ModeTyped /\ ActiveTyped /\ FaultsTyped
          /\ SupTyped /\ CtlTyped /\ OuterTyped /\ InnerTyped

-----------------------------------------------------------------------------
(* Shapes of update.                                                       *)

\* A part is still typed when its variables did not change.
LEMMA Kept ==
  ASSUME Typing
  PROVE  /\ UNCHANGED rowVars => RowTyped'
         /\ UNCHANGED lock => LockTyped'
         /\ UNCHANGED mode => ModeTyped'
         /\ UNCHANGED active => ActiveTyped'
         /\ UNCHANGED faults => FaultsTyped'
         /\ UNCHANGED sup => SupTyped'
         /\ UNCHANGED ctl => CtlTyped'
         /\ UNCHANGED outerVars => OuterTyped'
         /\ UNCHANGED innerVars => InnerTyped'
BY DEF Typing, RowTyped, LockTyped, ModeTyped, ActiveTyped, FaultsTyped, SupTyped, CtlTyped,
       OuterTyped, InnerTyped, rowVars, outerVars, innerVars

LEMMA LockMoves ==
  ASSUME Typing, NEW j \in Job
  PROVE  /\ \A h \in Holder : Lock(j, h) => LockTyped'
         /\ Unlock(j) => LockTyped'
         /\ \A hs : lock' = Released(hs) => LockTyped'
         /\ \A h : lock' = [lock EXCEPT ![j] = IF @ = h THEN Free ELSE @] => LockTyped'
<1>1. Free \in Holder
  BY DEF Holder
<1> QED BY <1>1 DEF Typing, LockTyped, Lock, Unlock, Released

LEMMA Holders ==
  /\ Supervisor \in Holder
  /\ \A b \in Bridge : Control(b) \in Holder
  /\ \A g \in Generation : Outer(g) \in Holder /\ Inner(g) \in Holder
BY DEF Holder

LEMMA OnwardTyped ==
  ASSUME NEW p \in {"reap", "recover", "claim"}, NEW todo \in SUBSET Job, sup' = Onward(p, todo)
  PROVE  SupTyped'
<1>1. PartAfter(p) \in {"reap", "recover", "claim"}
  BY DEF PartAfter
<1> QED BY <1>1, ConstantsAssumption
        DEF SupTyped, Onward, Scan, SupOn, Sup, SupAt, Note, Terminal

\* finish_job moves one running job to a terminal state and nothing else.
LEMMA FinishTyped ==
  ASSUME Typing, NEW j \in Job, NEW g \in Generation, NEW v \in Terminal, FinishJob(j, g, v)
  PROVE  RowTyped'
<1>1. PICK w \in Terminal : status' = [status EXCEPT ![j] = w]
  BY DEF FinishJob, FinalStatus, Terminal
<1>2. w \in Status /\ w \notin {"absent", "queued", "running"}
  BY DEF Terminal, Status
<1>3. UNCHANGED <<generation, cancel, checkpoint, result, delivery, origin>>
  BY DEF FinishJob, dataVars
<1> QED BY <1>1, <1>2, <1>3 DEF Typing, RowTyped

LEMMA RequeueTyped ==
  ASSUME Typing, NEW j \in Job, Requeue(j), UNCHANGED <<result, delivery, origin>>,
         checkpoint' \in [Job -> BOOLEAN]
  PROVE  RowTyped'
<1>1. generation' \in [Job -> 0 .. MaxGeneration] /\ generation'[j] < MaxGeneration
  BY ConstantsAssumption DEF Requeue, Typing, RowTyped
<1>2. status' \in [Job -> Status] /\ status'[j] = "queued" /\ cancel' \in [Job -> BOOLEAN]
  BY DEF Requeue, Status, Typing, RowTyped
<1>3. \A k \in Job \ {j} : generation'[k] = generation[k] /\ status'[k] = status[k]
  BY DEF Requeue, Typing, RowTyped
<1> QED BY <1>1, <1>2, <1>3 DEF Typing, RowTyped

LEMMA OuterGoTyped ==
  ASSUME Typing, NEW j \in Job, NEW g \in Generation, NEW at \in OuterAt, NEW v \in Note,
         OuterGo(j, g, at, v),
         at \in {"stopping", "settling", "locked", "noting", "finishing"} => v \in Stopped
  PROVE  OuterTyped'
BY DEF OuterGo, Typing, OuterTyped

LEMMA InnerGoTyped ==
  ASSUME Typing, NEW j \in Job, NEW g \in Generation, NEW at \in InnerAt, NEW v \in Note,
         InnerGo(j, g, at, v),
         at \in {"closing", "noting", "finishing"} => v \in Terminal
  PROVE  InnerTyped'
BY DEF InnerGo, Typing, InnerTyped

-----------------------------------------------------------------------------
LEMMA SupervisorTyping ==
  ASSUME Typing, SupervisorStep
  PROVE  Typing'
<1> USE DEF SupKeeps, rowVars, dataVars, outerVars, innerVars
<1>0. /\ sup \in Sup /\ sup.todo \in SUBSET Job /\ sup.job \in Job \cup {NoJob}
      /\ sup.gen \in 0 .. MaxGeneration /\ sup.note \in Note
      /\ \A j \in Job : active[j] \in 0 .. MaxGeneration
  BY DEF Typing, SupTyped, Sup, ActiveTyped
<1>1. ASSUME NEW j \in Job, SupSkip(j) PROVE Typing'
  <2>1. SupTyped' BY <1>0, <1>1, OnwardTyped DEF SupSkip
  <2> QED BY <1>1, <2>1, Kept DEF SupSkip, Typing
<1>2. ASSUME NEW j \in Job, ReapRead(j) PROVE Typing'
  <2>1. ASSUME Owns(j, active[j]) PROVE SupTyped'
    <3>1. active[j] \in Generation BY <1>2, <1>0 DEF ReapRead, Exited, Generation
    <3>2. PICK v \in {"cancelled", "failed", "interrupted"} :
            sup' = SupOn("reapLock", sup.todo \ {j}, j, active[j], v)
      BY <1>2, <2>1 DEF ReapRead
    <3> QED BY <1>0, <3>1, <3>2 DEF SupTyped, SupOn, Sup, SupAt, Note, Terminal, Stopped
  <2>2. ASSUME ~Owns(j, active[j]) PROVE SupTyped'
    BY <1>0, <1>2, <2>2, OnwardTyped DEF ReapRead
  <2>3. ActiveTyped' BY <1>2, ConstantsAssumption DEF ReapRead, Typing, ActiveTyped
  <2> QED BY <1>2, <2>1, <2>2, <2>3, Kept DEF ReapRead, Typing
<1>3. ASSUME NEW j \in Job, RecoverRead(j) PROVE Typing'
  <2>1. generation[j] \in Generation
    BY <1>3 DEF RecoverRead, Orphaned, Typing, RowTyped
  <2>2. PICK v \in {"cancelled", "interrupted"} :
          sup' = SupOn("recoverLock", sup.todo \ {j}, j, generation[j], v)
    BY <1>3 DEF RecoverRead
  <2>3. SupTyped'
    BY <1>0, <2>1, <2>2 DEF SupTyped, SupOn, Sup, SupAt, Note, Terminal, Stopped, Generation
  <2> QED BY <1>3, <2>3, Kept DEF RecoverRead, Typing
<1>4. ASSUME NEW j \in Job, ClaimRead(j) PROVE Typing'
  <2>1. SupTyped'
    <3>1. CASE sup' = SupOn("claimTx", sup.todo \ {j}, j, 0, "none")
      BY <1>0, <3>1, ConstantsAssumption DEF SupTyped, SupOn, Sup, SupAt, Note
    <3>2. CASE sup' = Onward("claim", sup.todo \ {j})
      BY <1>0, <3>2, OnwardTyped
    <3> QED BY <1>4, <3>1, <3>2 DEF ClaimRead
  <2>2. LockTyped'
    BY <1>4, LockMoves, Holders, Kept DEF ClaimRead
  <2> QED BY <1>4, <2>1, <2>2, Kept DEF ClaimRead, Typing
<1>5. ASSUME NEW from \in {"reapLock", "recoverLock"}, NEW to \in {"reapFinish", "recoverFinish"},
             NEW back \in {"reap", "recover"}, SupTryLock(from, to, back)
      PROVE  Typing'
  <2>1. sup.job \in Job /\ sup.gen \in Generation /\ sup.note \in Stopped
    BY <1>5 DEF SupTryLock, Typing, SupTyped
  <2>2. SupTyped'
    <3>1. CASE sup' = SupOn(to, sup.todo, sup.job, sup.gen, sup.note)
      BY <1>0, <2>1, <3>1 DEF SupTyped, SupOn, Sup, SupAt
    <3>2. CASE sup' = Onward(back, sup.todo)
      BY <1>0, <3>2, OnwardTyped
    <3> QED BY <1>5, <3>1, <3>2 DEF SupTryLock
  <2>3. LockTyped'
    BY <1>5, <2>1, LockMoves, Holders, Kept DEF SupTryLock
  <2> QED BY <1>5, <2>2, <2>3, Kept DEF SupTryLock, Typing
<1>6. ASSUME NEW from \in {"reapFinish", "recoverFinish"}, NEW back \in {"reap", "recover"},
             SupFinish(from, back)
      PROVE  Typing'
  <2>1. sup.job \in Job /\ sup.gen \in Generation /\ sup.note \in Stopped
    BY <1>6 DEF SupFinish, Typing, SupTyped
  <2>2. RowTyped' /\ LockTyped'
    BY <1>6, <2>1, FinishTyped, LockMoves DEF SupFinish, Stopped
  <2>3. SupTyped'
    BY <1>0, <1>6, OnwardTyped DEF SupFinish
  <2> QED BY <1>6, <2>2, <2>3, Kept DEF SupFinish, Typing
<1>7. ASSUME RecoverStale PROVE Typing'
  <2>1. SupTyped' /\ LockTyped'
    BY <1>0, <1>7, OnwardTyped, LockMoves DEF RecoverStale, Typing, SupTyped
  <2> QED BY <1>7, <2>1, Kept DEF RecoverStale, Typing
<1>8. ASSUME SupervisorFails PROVE Typing'
  <2>1. SupTyped'
    BY <1>8, ConstantsAssumption DEF SupervisorFails, SupOff, Scan, SupOn, SupTyped, Sup, SupAt, Note
  <2>2. ModeTyped' /\ ActiveTyped'
    BY <1>8, ConstantsAssumption DEF SupervisorFails, Typing, ModeTyped, ActiveTyped
  <2>3. LockTyped'
    BY <1>8, LockMoves DEF SupervisorFails, Typing, SupTyped
  <2> QED BY <1>8, <2>1, <2>2, <2>3, Kept DEF SupervisorFails, Typing
<1>9. ASSUME ClaimJob PROVE Typing'
  <2>1. sup.job \in Job /\ LockTyped'
    BY <1>9, LockMoves DEF ClaimJob, Typing, SupTyped
  <2>2. CASE Claimable(sup.job)
    <3>1. generation[sup.job] \in Nat /\ generation[sup.job] < MaxGeneration
      BY <2>1, <2>2 DEF Claimable, Typing, RowTyped
    <3>2. generation' = [generation EXCEPT ![sup.job] = @ + 1]
          /\ status' = [status EXCEPT ![sup.job] = "running"]
          /\ sup' = SupOn("launch", sup.todo, sup.job, generation[sup.job] + 1, "none")
          /\ UNCHANGED <<cancel, checkpoint, result, delivery, origin>>
      BY <1>9, <2>2 DEF ClaimJob
    <3>3. RowTyped'
      BY <2>1, <3>1, <3>2, ConstantsAssumption DEF Typing, RowTyped, Status, Generation
    <3>4. SupTyped'
      BY <1>0, <2>1, <3>1, <3>2, ConstantsAssumption DEF SupTyped, SupOn, Sup, SupAt, Note, Generation
    <3> QED BY <1>9, <2>1, <3>3, <3>4, Kept DEF ClaimJob, Typing
  <2>3. CASE ~Claimable(sup.job)
    <3>1. SupTyped' /\ UNCHANGED rowVars
      BY <1>0, <1>9, <2>3, OnwardTyped DEF ClaimJob
    <3> QED BY <1>9, <2>1, <3>1, Kept DEF ClaimJob, Typing
  <2> QED BY <2>2, <2>3
<1>10. ASSUME Launch PROVE Typing'
  <2>1. sup.job \in Job /\ sup.gen \in Generation
    BY <1>10 DEF Launch, Typing, SupTyped
  <2>2. SupTyped' /\ OuterTyped' /\ ActiveTyped'
    <3>1. SupTyped' BY <1>0, <1>10, OnwardTyped DEF Launch
    <3>2. OuterTyped' BY <1>10, <2>1 DEF Launch, Typing, OuterTyped, OuterAt
    <3>3. ActiveTyped' BY <1>10, <2>1 DEF Launch, Typing, ActiveTyped, Generation
    <3> QED BY <3>1, <3>2, <3>3
  <2> QED BY <1>10, <2>2, Kept DEF Launch, Typing
<1>11. ASSUME LaunchFails PROVE Typing'
  <2>1. sup.job \in Job /\ sup.gen \in Generation
    BY <1>11 DEF LaunchFails, Typing, SupTyped
  <2>2. RowTyped'
    BY <1>11, <2>1, FinishTyped DEF LaunchFails, Terminal
  <2>3. SupTyped'
    BY <1>0, <1>11, OnwardTyped DEF LaunchFails
  <2> QED BY <1>11, <2>2, <2>3, Kept DEF LaunchFails, Typing
<1> QED BY <1>1, <1>2, <1>3, <1>4, <1>5, <1>6, <1>7, <1>8, <1>9, <1>10, <1>11
        DEF SupervisorStep, ReapLock, RecoverLock, ReapFinish, RecoverFinish

-----------------------------------------------------------------------------
\* The end of a listener process, stopped or failed.
LEMMA DownTyped ==
  ASSUME Typing, NEW b \in Bridge, Down(b)
  PROVE  LockTyped' /\ ModeTyped' /\ ActiveTyped' /\ SupTyped' /\ CtlTyped'
<1>1. ModeTyped'
  BY DEF Down, Typing, ModeTyped
<1>2. CtlTyped'
  BY ConstantsAssumption DEF Down, Typing, CtlTyped, Ctl, CtlIdle
<1>3. Free \in Holder
  BY DEF Holder
<1>4. LockTyped'
  BY <1>3 DEF Down, Released, Typing, LockTyped
<1>5. ActiveTyped'
  BY ConstantsAssumption DEF Down, Typing, ActiveTyped
<1>6. SupTyped'
  <2>1. CASE sup' = SupOff
    BY <2>1, ConstantsAssumption DEF SupOff, Scan, SupOn, SupTyped, Sup, SupAt, Note
  <2>2. CASE UNCHANGED sup
    BY <2>2, Kept
  <2> QED BY <2>1, <2>2 DEF Down
<1> QED BY <1>1, <1>2, <1>4, <1>5, <1>6

LEMMA ListenerTyping ==
  ASSUME Typing, NEW b \in Bridge,
         BridgeStart(b) \/ BridgeStop(b) \/ BridgeExit(b) \/ ResumeLock(b) \/ ResumeJob(b)
  PROVE  Typing'
<1> USE DEF rowVars, dataVars, outerVars, innerVars
<1>1. ASSUME BridgeStart(b) PROVE Typing'
  <2>1. ModeTyped'
    BY <1>1 DEF BridgeStart, Typing, ModeTyped
  <2>2. SupTyped'
    <3>1. CASE sup' = Scan("reap", Job)
      BY <3>1, ConstantsAssumption DEF Scan, SupOn, SupTyped, Sup, SupAt, Note
    <3>2. CASE UNCHANGED sup
      BY <3>2, Kept
    <3> QED BY <1>1, <3>1, <3>2 DEF BridgeStart
  <2> QED BY <1>1, <2>1, <2>2, Kept DEF BridgeStart, Typing
<1>2. ASSUME BridgeStop(b) PROVE Typing'
  <2>1. FaultsTyped'
    BY <1>2, ConstantsAssumption DEF BridgeStop, Typing, FaultsTyped
  <2> QED BY <1>2, <2>1, DownTyped, Kept DEF BridgeStop, Typing
<1>3. ASSUME BridgeExit(b) PROVE Typing'
  BY <1>3, DownTyped, Kept DEF BridgeExit, Typing
<1>4. ASSUME ctl[b].at # "idle" PROVE ctl[b].job \in Job /\ ctl[b] \in Ctl
  BY <1>4 DEF Typing, CtlTyped
<1>5. ASSUME ResumeLock(b) PROVE Typing'
  <2>1. ctl[b].job \in Job /\ ctl[b] \in Ctl
    BY <1>4, <1>5 DEF ResumeLock
  <2>2. CtlTyped'
    <3>1. CASE ctl' = [ctl EXCEPT ![b] = [at |-> "holding", job |-> @.job, gen |-> @.gen]]
      BY <2>1, <3>1 DEF Typing, CtlTyped, Ctl
    <3>2. CASE ctl' = [ctl EXCEPT ![b] = CtlIdle]
      BY <3>2, ConstantsAssumption DEF Typing, CtlTyped, Ctl, CtlIdle
    <3> QED BY <1>5, <3>1, <3>2 DEF ResumeLock
  <2>3. LockTyped'
    BY <1>5, <2>1, LockMoves, Holders, Kept DEF ResumeLock
  <2> QED BY <1>5, <2>2, <2>3, Kept DEF ResumeLock, Typing
<1>6. ASSUME ResumeJob(b) PROVE Typing'
  <2>1. ctl[b].job \in Job
    BY <1>4, <1>6 DEF ResumeJob
  <2>2. CtlTyped'
    BY <1>6, ConstantsAssumption DEF ResumeJob, Typing, CtlTyped, Ctl, CtlIdle
  <2>3. LockTyped'
    BY <1>6, <2>1, LockMoves DEF ResumeJob
  <2>4. RowTyped'
    <3>1. CASE Requeue(ctl[b].job)
      <4>1. checkpoint' \in [Job -> BOOLEAN]
        BY <1>6 DEF ResumeJob, Typing, RowTyped
      <4> QED BY <1>6, <2>1, <3>1, <4>1, RequeueTyped DEF ResumeJob
    <3>2. CASE UNCHANGED <<status, generation, cancel>>
      BY <1>6, <3>2, Kept DEF ResumeJob
    <3> QED BY <1>6, <3>1, <3>2 DEF ResumeJob
  <2> QED BY <1>6, <2>2, <2>3, <2>4, Kept DEF ResumeJob, Typing
<1> QED BY <1>1, <1>2, <1>3, <1>5, <1>6

LEMMA CommandTyping ==
  ASSUME Typing, NEW b \in Bridge, NEW j \in Job,
         AdmitJob(b, j) \/ RequestCancel(b, j) \/ ResumeRead(b, j)
  PROVE  Typing'
<1> USE DEF rowVars, dataVars, bridgeVars, outerVars, innerVars
<1>1. ASSUME AdmitJob(b, j) PROVE Typing'
  <2>1. RowTyped'
    BY <1>1, ConstantsAssumption DEF AdmitJob, Typing, RowTyped, Status
  <2> QED BY <1>1, <2>1, Kept DEF AdmitJob, Typing
<1>2. ASSUME RequestCancel(b, j) PROVE Typing'
  <2>1. RowTyped'
    BY <1>2 DEF RequestCancel, Typing, RowTyped, Status, Terminal
  <2> QED BY <1>2, <2>1, Kept DEF RequestCancel, Typing
<1>3. ASSUME ResumeRead(b, j) PROVE Typing'
  <2>1. CtlTyped'
    BY <1>3 DEF ResumeRead, Typing, CtlTyped, Ctl, RowTyped
  <2> QED BY <1>3, <2>1, Kept DEF ResumeRead, Typing
<1> QED BY <1>1, <1>2, <1>3

LEMMA IndexTyping ==
  ASSUME Typing, NEW j \in Job, NEW rebuild \in BOOLEAN, QueueIndexJob(j, rebuild)
  PROVE  Typing'
<1> USE DEF rowVars, dataVars, bridgeVars, outerVars, innerVars
<1>1. checkpoint' \in [Job -> BOOLEAN]
  BY DEF QueueIndexJob, Typing, RowTyped
<1>2. RowTyped'
  <2>1. CASE status[j] = "absent"
    BY <1>1, <2>1 DEF QueueIndexJob, Typing, RowTyped, Status
  <2>2. CASE status[j] # "absent"
    BY <1>1, <2>2, RequeueTyped DEF QueueIndexJob
  <2> QED BY <2>1, <2>2
<1> QED BY <1>2, Kept DEF QueueIndexJob, Typing

-----------------------------------------------------------------------------
\* Optional stop metadata: at most the checkpoint flag moves.
LEMMA NoteTyped ==
  ASSUME Typing, NEW j \in Job, NEW g \in Generation, NoteStop(j, g) \/ UNCHANGED rowVars
  PROVE  RowTyped'
<1>1. ASSUME NoteStop(j, g) PROVE RowTyped'
  BY <1>1 DEF NoteStop, Typing, RowTyped
<1> QED BY <1>1, Kept

LEMMA OuterTyping ==
  ASSUME Typing, NEW j \in Job, NEW g \in Generation,
         \/ OuterStep(j, g) \/ KillOuter(j, g)
         \/ OuterGivesUp(j, g, "interrupted") \/ OuterGivesUp(j, g, "failed")
  PROVE  Typing'
<1> USE DEF rowVars, dataVars, bridgeVars, outerVars, innerVars, OuterKeeps, OuterGone
<1>0. outerNote[j][g] \in Note /\ innerNote[j][g] \in Note
  BY DEF Typing, OuterTyped, InnerTyped
<1>1. ASSUME OuterStart(j, g) PROVE Typing'
  <2>1. OuterTyped'
    <3>1. \/ OuterGo(j, g, "watching", "none") \/ OuterGo(j, g, "gone", "none")
      BY <1>1 DEF OuterStart
    <3> QED BY <3>1, OuterGoTyped DEF OuterAt, Note
  <2>2. InnerTyped'
    <3>1. CASE innerAt' = [innerAt EXCEPT ![j][g] = "starting"]
      <4>1. innerAt' \in [Job -> [Generation -> InnerAt]]
        BY <3>1 DEF Typing, InnerTyped, InnerAt
      <4> QED BY <1>1, <3>1, <4>1 DEF OuterStart, Typing, InnerTyped
    <3>2. CASE UNCHANGED innerAt
      BY <1>1, <3>2, Kept DEF OuterStart
    <3> QED BY <1>1, <3>1, <3>2 DEF OuterStart
  <2> QED BY <1>1, <2>1, <2>2, Kept DEF OuterStart, Typing
<1>2. ASSUME OuterSeesExit(j, g) PROVE Typing'
  <2>1. PICK v \in {"interrupted", "failed"} : OuterGo(j, g, "settling", v)
    BY <1>2 DEF OuterSeesExit
  <2>2. OuterTyped'
    BY <2>1, OuterGoTyped DEF OuterAt, Note, Terminal, Stopped
  <2> QED BY <1>2, <2>2, Kept DEF OuterSeesExit, Typing
<1>3. ASSUME NEW v \in {"timed_out", "interrupted", "failed"}, OuterGivesUp(j, g, v)
      PROVE  Typing'
  <2>1. OuterTyped'
    BY <1>3, OuterGoTyped DEF OuterGivesUp, OuterAt, Note, Terminal, Stopped
  <2> QED BY <1>3, <2>1, Kept DEF OuterGivesUp, Typing
<1>4. ASSUME OuterSeesStop(j, g) PROVE Typing'
  <2>1. OuterTyped'
    BY <1>4, OuterGoTyped DEF OuterSeesStop, OuterAt, Note, Terminal, Stopped
  <2> QED BY <1>4, <2>1, Kept DEF OuterSeesStop, Typing
<1>5. ASSUME OuterKills(j, g) PROVE Typing'
  <2>1. outerNote[j][g] \in Stopped
    BY <1>5 DEF OuterKills, Typing, OuterTyped
  <2>2. OuterTyped'
    BY <1>0, <1>5, <2>1, OuterGoTyped DEF OuterKills, OuterAt
  <2>3. InnerTyped'
    BY <1>5 DEF OuterKills, Typing, InnerTyped, InnerAt, Note
  <2>4. LockTyped'
    BY <1>5, LockMoves DEF OuterKills
  <2> QED BY <1>5, <2>2, <2>3, <2>4, Kept DEF OuterKills, Typing
<1>6. ASSUME OuterLock(j, g) PROVE Typing'
  <2>1. outerNote[j][g] \in Stopped
    BY <1>6 DEF OuterLock, Typing, OuterTyped
  <2>2. OuterTyped'
    <3>1. \/ OuterGo(j, g, "locked", outerNote[j][g]) \/ OuterGo(j, g, "gone", "none")
      BY <1>6 DEF OuterLock
    <3> QED BY <1>0, <2>1, <3>1, OuterGoTyped DEF OuterAt, Note
  <2>3. LockTyped'
    BY <1>6, LockMoves, Holders, Kept DEF OuterLock
  <2> QED BY <1>6, <2>2, <2>3, Kept DEF OuterLock, Typing
<1>7. ASSUME OuterRead(j, g) PROVE Typing'
  <2>1. outerNote[j][g] \in Stopped
    BY <1>7 DEF OuterRead, Typing, OuterTyped
  <2>2. PICK v \in Stopped : OuterGo(j, g, "noting", v) \/ OuterGo(j, g, "gone", "none")
    BY <1>7, <2>1 DEF OuterRead, Terminal, Stopped
  <2>3. OuterTyped'
    BY <2>2, OuterGoTyped DEF OuterAt, Note, Stopped
  <2>4. LockTyped'
    BY <1>7, LockMoves, Kept DEF OuterRead
  <2> QED BY <1>7, <2>3, <2>4, Kept DEF OuterRead, Typing
<1>8. ASSUME OuterSavesStop(j, g) PROVE Typing'
  <2>1. outerNote[j][g] \in Stopped
    BY <1>8 DEF OuterSavesStop, Typing, OuterTyped
  <2>2. OuterTyped'
    <3>1. \/ OuterGo(j, g, "finishing", outerNote[j][g]) \/ OuterGo(j, g, "gone", "none")
      BY <1>8 DEF OuterSavesStop
    <3> QED BY <1>0, <2>1, <3>1, OuterGoTyped DEF OuterAt, Note
  <2>3. LockTyped' /\ RowTyped'
    <3>1. LockTyped'
      BY <1>8, LockMoves, Kept DEF OuterSavesStop
    <3>2. NoteStop(j, g) \/ UNCHANGED rowVars
      BY <1>8 DEF OuterSavesStop
    <3> QED BY <3>1, <3>2, NoteTyped
  <2> QED BY <1>8, <2>2, <2>3, Kept DEF OuterSavesStop, Typing
<1>9. ASSUME OuterFinish(j, g) PROVE Typing'
  <2>1. outerNote[j][g] \in Stopped
    BY <1>9 DEF OuterFinish, Typing, OuterTyped
  <2>2. OuterTyped' /\ LockTyped'
    BY <1>9, OuterGoTyped, LockMoves DEF OuterFinish, OuterAt, Note
  <2>3. RowTyped'
    BY <1>9, <2>1, FinishTyped, Kept DEF OuterFinish, Stopped
  <2> QED BY <1>9, <2>2, <2>3, Kept DEF OuterFinish, Typing
<1>10. ASSUME KillOuter(j, g) PROVE Typing'
  <2>1. OuterTyped' /\ LockTyped'
    BY <1>10, OuterGoTyped, LockMoves DEF KillOuter, OuterAt, Note
  <2>2. FaultsTyped'
    BY <1>10, ConstantsAssumption DEF KillOuter, Typing, FaultsTyped
  <2> QED BY <1>10, <2>1, <2>2, Kept DEF KillOuter, Typing
<1> QED BY <1>1, <1>2, <1>3, <1>4, <1>5, <1>6, <1>7, <1>8, <1>9, <1>10 DEF OuterStep

-----------------------------------------------------------------------------
\* Writes of the executor touch three flags of the row.
LEMMA DataTyped ==
  ASSUME Typing, UNCHANGED <<status, generation, cancel, origin>>,
         checkpoint' \in [Job -> BOOLEAN], result' \in [Job -> BOOLEAN],
         delivery' \in [Job -> Delivery]
  PROVE  RowTyped'
BY DEF Typing, RowTyped

LEMMA ExecutorTyping ==
  ASSUME Typing, NEW j \in Job, NEW g \in Generation,
         \/ SaveCheckpoint(j, g) \/ SaveResult(j, g) \/ Invalidate(j, g) \/ BeginDelivery(j, g)
         \/ \E o \in Delivery : SettleDelivery(j, g, o)
  PROVE  Typing'
<1> USE DEF rowVars, dataVars, bridgeVars, outerVars, innerVars, InnerKeeps
<1>0. /\ checkpoint \in [Job -> BOOLEAN] /\ result \in [Job -> BOOLEAN]
      /\ delivery \in [Job -> Delivery]
  BY DEF Typing, RowTyped
<1>1. ASSUME SaveCheckpoint(j, g) PROVE Typing'
  <2>1. RowTyped' BY <1>0, <1>1, DataTyped DEF SaveCheckpoint, ExecWrite
  <2> QED BY <1>1, <2>1, Kept DEF SaveCheckpoint, ExecWrite, Typing
<1>2. ASSUME SaveResult(j, g) PROVE Typing'
  <2>1. RowTyped' BY <1>0, <1>2, DataTyped DEF SaveResult, ExecWrite
  <2> QED BY <1>2, <2>1, Kept DEF SaveResult, ExecWrite, Typing
<1>3. ASSUME Invalidate(j, g) PROVE Typing'
  <2>1. RowTyped' BY <1>0, <1>3, DataTyped DEF Invalidate, ExecWrite
  <2> QED BY <1>3, <2>1, Kept DEF Invalidate, ExecWrite, Typing
<1>4. ASSUME BeginDelivery(j, g) PROVE Typing'
  <2>1. delivery' \in [Job -> Delivery]
    BY <1>0, <1>4 DEF BeginDelivery, Delivery
  <2>2. RowTyped' BY <1>0, <1>4, <2>1, DataTyped DEF BeginDelivery, ExecWrite
  <2>3. PICK at \in Sending : InnerGo(j, g, at, "none")
    BY <1>4 DEF BeginDelivery, Sending
  <2>4. InnerTyped' BY <2>3, InnerGoTyped DEF Sending, InnerAt, Note
  <2> QED BY <1>4, <2>2, <2>4, Kept DEF BeginDelivery, ExecWrite, Typing
<1>5. ASSUME NEW o \in Delivery, SettleDelivery(j, g, o) PROVE Typing'
  <2>1. delivery' \in [Job -> Delivery]
    BY <1>0, <1>5 DEF SettleDelivery
  <2>2. RowTyped' BY <1>0, <1>5, <2>1, DataTyped DEF SettleDelivery
  <2>3. PICK at \in {"executing", "leaving"} : InnerGo(j, g, at, "none")
    BY <1>5 DEF SettleDelivery
  <2>4. InnerTyped' BY <2>3, InnerGoTyped DEF InnerAt, Note
  <2> QED BY <1>5, <2>2, <2>4, Kept DEF SettleDelivery, Typing
<1> QED BY <1>1, <1>2, <1>3, <1>4, <1>5

LEMMA InnerTyping ==
  ASSUME Typing, NEW j \in Job, NEW g \in Generation, InnerStep(j, g) \/ KillInner(j, g)
  PROVE  Typing'
<1> USE DEF rowVars, dataVars, bridgeVars, outerVars, innerVars, InnerKeeps
<1>0. innerNote[j][g] \in Note
  BY DEF Typing, InnerTyped
<1>1. ASSUME InnerLock(j, g) PROVE Typing'
  <2>1. LockTyped' BY <1>1, LockMoves, Holders, Kept DEF InnerLock
  <2>2. InnerTyped' BY <1>1, InnerGoTyped DEF InnerLock, InnerAt, Note
  <2> QED BY <1>1, <2>1, <2>2, Kept DEF InnerLock, Typing
<1>2. ASSUME InnerRead(j, g) PROVE Typing'
  <2>1. LockTyped' BY <1>2, LockMoves, Kept DEF InnerRead
  <2>2. InnerTyped' BY <1>2, InnerGoTyped DEF InnerRead, InnerAt, Note, Terminal
  <2> QED BY <1>2, <2>1, <2>2, Kept DEF InnerRead, Typing
<1>3. ASSUME InputChanged(j, g) PROVE Typing'
  <2>1. RowTyped'
    BY <1>3 DEF InputChanged, Typing, RowTyped, Status, Terminal
  <2>2. InnerTyped' BY <1>3, InnerGoTyped DEF InputChanged, InnerAt, Note, Terminal
  <2> QED BY <1>3, <2>1, <2>2, Kept DEF InputChanged, Typing
<1>4. ASSUME ExecReturns(j, g) PROVE Typing'
  <2>1. InnerTyped' BY <1>4, InnerGoTyped DEF ExecReturns, InnerAt, Note, Terminal
  <2> QED BY <1>4, <2>1, Kept DEF ExecReturns, Typing
<1>5. ASSUME NEW v \in {"interrupted", "timed_out", "failed"}, ExecRaises(j, g, v) PROVE Typing'
  <2>1. InnerTyped' BY <1>5, InnerGoTyped DEF ExecRaises, InnerAt, Note, Terminal
  <2> QED BY <1>5, <2>1, Kept DEF ExecRaises, Typing
<1>6. ASSUME ExecStale(j, g) PROVE Typing'
  <2>1. InnerTyped' BY <1>6, InnerGoTyped DEF ExecStale, InnerAt, Note
  <2> QED BY <1>6, <2>1, Kept DEF ExecStale, Typing
<1>7. ASSUME InnerReread(j, g) PROVE Typing'
  <2>1. innerNote[j][g] \in Terminal
    BY <1>7 DEF InnerReread, Typing, InnerTyped
  <2>2. PICK v \in Terminal : \/ InnerGo(j, g, "finishing", v) \/ InnerGo(j, g, "noting", v)
                              \/ InnerGo(j, g, "leaving", "none")
    BY <1>7, <2>1 DEF InnerReread, Terminal
  <2>3. InnerTyped' BY <2>2, InnerGoTyped DEF InnerAt, Note
  <2> QED BY <1>7, <2>3, Kept DEF InnerReread, Typing
<1>8. ASSUME InnerSavesFailure(j, g) PROVE Typing'
  <2>1. innerNote[j][g] \in Terminal
    BY <1>8 DEF InnerSavesFailure, Typing, InnerTyped
  <2>2. InnerGo(j, g, "finishing", innerNote[j][g]) \/ InnerGo(j, g, "leaving", "none")
    BY <1>8 DEF InnerSavesFailure
  <2>3. InnerTyped' BY <1>0, <2>1, <2>2, InnerGoTyped DEF InnerAt, Note
  <2>4. RowTyped' BY <1>8, NoteTyped DEF InnerSavesFailure
  <2> QED BY <1>8, <2>3, <2>4, Kept DEF InnerSavesFailure, Typing
<1>9. ASSUME InnerFinish(j, g) PROVE Typing'
  <2>1. innerNote[j][g] \in Terminal
    BY <1>9 DEF InnerFinish, Typing, InnerTyped
  <2>2. RowTyped' BY <1>9, <2>1, FinishTyped, Kept DEF InnerFinish
  <2>3. InnerTyped' BY <1>9, InnerGoTyped DEF InnerFinish, InnerAt, Note
  <2> QED BY <1>9, <2>2, <2>3, Kept DEF InnerFinish, Typing
<1>10. ASSUME InnerLeaves(j, g) PROVE Typing'
  <2>1. InnerTyped' /\ LockTyped'
    BY <1>10, InnerGoTyped, LockMoves DEF InnerLeaves, InnerAt, Note
  <2> QED BY <1>10, <2>1, Kept DEF InnerLeaves, Typing
<1>11. ASSUME KillInner(j, g) PROVE Typing'
  <2>1. InnerTyped' /\ LockTyped'
    BY <1>11, InnerGoTyped, LockMoves DEF KillInner, InnerAt, Note
  <2>2. FaultsTyped'
    BY <1>11, ConstantsAssumption DEF KillInner, Typing, FaultsTyped
  <2> QED BY <1>11, <2>1, <2>2, Kept DEF KillInner, Typing
<1> QED BY <1>1, <1>2, <1>3, <1>4, <1>5, <1>6, <1>7, <1>8, <1>9, <1>10, <1>11, ExecutorTyping
        DEF InnerStep

LEMMA PruneTyping ==
  ASSUME Typing, NEW j \in Job, NEW k \in Job, NEW g \in Generation, PruneJob(j, k, g)
  PROVE  Typing'
<1> USE DEF rowVars, dataVars, bridgeVars, outerVars, innerVars, InnerKeeps
<1>1. RowTyped'
  BY DEF PruneJob, Typing, RowTyped, Status
<1> QED BY <1>1, Kept DEF PruneJob, Typing

\* A progress message moves the checkpoint flag and nothing else.
LEMMA ProgressMoves ==
  ASSUME NEW j \in Job, SaveProgress(j)
  PROVE  UNCHANGED <<status, generation, cancel, result, delivery, origin, lock, bridgeVars,
                     outerVars, innerVars, faults>>
BY DEF SaveProgress, SupKeeps, bridgeVars, outerVars, innerVars

LEMMA ProgressTyping ==
  ASSUME Typing, NEW j \in Job, SaveProgress(j) PROVE Typing'
<1>1. RowTyped'
  BY ProgressMoves DEF SaveProgress, Typing, RowTyped
<1> QED BY <1>1, ProgressMoves, Kept DEF Typing, bridgeVars

LEMMA InitTyping == Init => Typing
<1> SUFFICES ASSUME Init PROVE Typing
  OBVIOUS
<1>1. RowTyped
  BY ConstantsAssumption DEF Init, RowTyped, Status, Delivery
<1>2. LockTyped /\ ModeTyped /\ ActiveTyped /\ FaultsTyped
  BY ConstantsAssumption DEF Init, LockTyped, Holder, ModeTyped, ActiveTyped, FaultsTyped
<1>3. SupTyped
  BY ConstantsAssumption DEF Init, SupTyped, Sup, SupAt, SupOff, Scan, SupOn, Note
<1>4. CtlTyped
  BY ConstantsAssumption DEF Init, CtlTyped, Ctl, CtlIdle
<1>5. OuterTyped /\ InnerTyped
  BY DEF Init, OuterTyped, InnerTyped, OuterAt, InnerAt, Note
<1> QED BY <1>1, <1>2, <1>3, <1>4, <1>5 DEF Typing

LEMMA NextTyping == Typing /\ [Next]_vars => Typing'
<1> SUFFICES ASSUME Typing, [Next]_vars PROVE Typing'
  OBVIOUS
<1>1. CASE Next
  <2>1. ASSUME NEW j \in Job, NEW rebuild \in BOOLEAN, QueueIndexJob(j, rebuild)
        PROVE  Typing'
    BY <2>1, IndexTyping
  <2> QED BY <1>1, <2>1, ListenerTyping, CommandTyping, SupervisorTyping, OuterTyping,
             InnerTyping, PruneTyping, ProgressTyping DEF Next
<1>2. CASE UNCHANGED vars
  BY <1>2, Kept DEF vars, bridgeVars, Typing
<1> QED BY <1>1, <1>2

\* Every reachable state is well typed: rows hold known statuses and flags,
\* generations stay within the bound, and each process is at a known step.
THEOREM TypeCorrect == Spec => []TypeOK
<1>1. Typing => TypeOK
  BY DEF Typing, RowTyped, LockTyped, ModeTyped, ActiveTyped, FaultsTyped, SupTyped, CtlTyped,
         OuterTyped, InnerTyped, TypeOK
<1> QED BY <1>1, InitTyping, NextTyping, PTL DEF Spec

-----------------------------------------------------------------------------
(***************************************************************************)
(* Locks and generations                                                   *)
(***************************************************************************)

\* No process was ever started for a generation that was not claimed yet, no
\* inner worker before its outer one, and none yet for the claim being launched.
Fresh ==
  /\ \A j \in Job, g \in Generation :
       /\ g > generation[j] => outerAt[j][g] = "none"
       /\ outerAt[j][g] \in {"none", "starting"} => innerAt[j][g] = "none"
  /\ sup.at = "launch" => sup.gen <= generation[sup.job] /\ outerAt[sup.job][sup.gen] = "none"

\* The supervisor's locals are those of a listener that runs it.
SupervisorRuns == sup.at # "off" => \E b \in Bridge : mode[b] = "supervising"

freshVars == <<generation, outerAt, innerAt, sup>>

-----------------------------------------------------------------------------
LEMMA FreshKept == Fresh /\ UNCHANGED freshVars => Fresh'
BY DEF Fresh, freshVars

\* Generations only grow.
LEMMA FreshGrows ==
  ASSUME Typing, Fresh, UNCHANGED <<outerAt, innerAt, sup>>,
         NEW j \in Job, generation' = [generation EXCEPT ![j] = @ + 1]
  PROVE  Fresh'
<1>1. generation \in [Job -> Nat] /\ sup.gen \in Nat
  BY ConstantsAssumption DEF Typing, RowTyped, SupTyped, Sup
<1>2. \A k \in Job : generation'[k] \in Nat /\ generation'[k] >= generation[k]
  BY <1>1
<1>3. sup.at = "launch" => sup.job \in Job
  BY DEF Typing, SupTyped
<1> QED BY <1>1, <1>2, <1>3 DEF Fresh, Generation

\* The supervisor moves on without a claim to launch.
LEMMA FreshSup ==
  ASSUME Typing, Fresh, UNCHANGED <<generation, outerAt, innerAt>>, sup'.at # "launch"
  PROVE  Fresh'
BY DEF Fresh

LEMMA OnwardAt ==
  ASSUME NEW p \in {"reap", "recover", "claim"}, NEW todo, sup' = Onward(p, todo)
  PROVE  sup'.at \in {"reap", "recover", "claim"}
BY DEF Onward, Scan, SupOn, PartAfter

LEMMA FreshOuter ==
  ASSUME Typing, Fresh, UNCHANGED <<generation, sup>>,
         NEW j \in Job, NEW g \in Generation, NEW at \in OuterAt \ {"none", "starting"}, NEW v,
         OuterGo(j, g, at, v), outerAt[j][g] # "none",
         \A k \in Job, h \in Generation : innerAt'[k][h] = innerAt[k][h] \/ <<k, h>> = <<j, g>>
  PROVE  Fresh'
<1>1. \A k \in Job, h \in Generation :
        outerAt'[k][h] = IF k = j /\ h = g THEN at ELSE outerAt[k][h]
  BY DEF OuterGo, Typing, OuterTyped
<1>2. sup.at = "launch" => sup.job \in Job /\ sup.gen \in Generation
  BY DEF Typing, SupTyped
<1> QED BY <1>1, <1>2 DEF Fresh

LEMMA FreshInner ==
  ASSUME Typing, Fresh, UNCHANGED <<generation, outerAt, sup>>,
         NEW j \in Job, NEW g \in Generation, NEW at, NEW v,
         InnerGo(j, g, at, v), innerAt[j][g] # "none"
  PROVE  Fresh'
<1>1. \A k \in Job, h \in Generation :
        innerAt'[k][h] = IF k = j /\ h = g THEN at ELSE innerAt[k][h]
  BY DEF InnerGo, Typing, InnerTyped
<1> QED BY <1>1 DEF Fresh

-----------------------------------------------------------------------------
LEMMA FreshSupervisor ==
  ASSUME Typing, Fresh, SupervisorStep
  PROVE  Fresh'
<1> USE DEF SupKeeps, rowVars, dataVars, outerVars, innerVars
<1>1. ASSUME NEW j \in Job, SupSkip(j) \/ ReapRead(j) \/ RecoverRead(j) \/ ClaimRead(j)
      PROVE  Fresh'
  <2>1. sup'.at # "launch"
    BY <1>1, OnwardAt DEF SupSkip, ReapRead, RecoverRead, ClaimRead, SupOn
  <2> QED BY <1>1, <2>1, FreshSup DEF SupSkip, ReapRead, RecoverRead, ClaimRead
<1>2. ASSUME ReapLock \/ RecoverLock PROVE Fresh'
  <2>1. sup'.at # "launch"
    BY <1>2, OnwardAt DEF ReapLock, RecoverLock, SupTryLock, SupOn
  <2> QED BY <1>2, <2>1, FreshSup DEF ReapLock, RecoverLock, SupTryLock
<1>3. ASSUME ReapFinish \/ RecoverFinish PROVE Fresh'
  <2>1. sup'.at # "launch"
    BY <1>3, OnwardAt DEF ReapFinish, RecoverFinish, SupFinish
  <2> QED BY <1>3, <2>1, FreshSup DEF ReapFinish, RecoverFinish, SupFinish, FinishJob
<1>4. ASSUME RecoverStale \/ SupervisorFails PROVE Fresh'
  <2>1. sup'.at # "launch"
    BY <1>4, OnwardAt DEF RecoverStale, SupervisorFails, SupOff, Scan, SupOn
  <2> QED BY <1>4, <2>1, FreshSup DEF RecoverStale, SupervisorFails
<1>5. ASSUME ClaimJob PROVE Fresh'
  <2>1. CASE Claimable(sup.job)
    <3>1. /\ generation' = [generation EXCEPT ![sup.job] = @ + 1]
          /\ sup' = SupOn("launch", sup.todo, sup.job, generation[sup.job] + 1, "none")
      BY <1>5, <2>1 DEF ClaimJob
    <3>2. sup.job \in Job /\ generation \in [Job -> Nat]
      BY <1>5, ConstantsAssumption DEF ClaimJob, Typing, SupTyped, RowTyped
    <3>3. generation[sup.job] + 1 \in Generation
      BY <2>1, <3>2, ConstantsAssumption DEF Claimable, Typing, RowTyped, Generation
    <3>4. \A k \in Job : generation'[k] \in Nat /\ generation'[k] >= generation[k]
      BY <3>1, <3>2
    <3>5. sup'.at = "launch" /\ sup'.job = sup.job /\ sup'.gen = generation[sup.job] + 1
      BY <3>1 DEF SupOn
    <3> QED BY <1>5, <3>1, <3>2, <3>3, <3>4, <3>5 DEF Fresh, ClaimJob, Generation
  <2>2. CASE ~Claimable(sup.job)
    BY <1>5, <2>2, FreshSup, OnwardAt DEF ClaimJob
  <2> QED BY <2>1, <2>2
<1>6. ASSUME Launch PROVE Fresh'
  <2>1. sup.job \in Job /\ sup.gen \in Generation /\ generation \in [Job -> Nat]
        /\ innerAt[sup.job][sup.gen] = "none"
    BY <1>6, ConstantsAssumption DEF Launch, Typing, SupTyped, RowTyped, Fresh
  <2>2. \A k \in Job, h \in Generation :
          outerAt'[k][h] = IF k = sup.job /\ h = sup.gen THEN "starting" ELSE outerAt[k][h]
    BY <1>6, <2>1 DEF Launch, Typing, OuterTyped
  <2>3. sup'.at # "launch"
    BY <1>6, OnwardAt DEF Launch
  <2> QED BY <1>6, <2>1, <2>2, <2>3 DEF Launch, Fresh, Generation
<1>7. ASSUME LaunchFails PROVE Fresh'
  BY <1>7, FreshSup, OnwardAt DEF LaunchFails, FinishJob
<1> QED BY <1>1, <1>2, <1>3, <1>4, <1>5, <1>6, <1>7 DEF SupervisorStep

LEMMA FreshListener ==
  ASSUME Typing, Fresh, NEW b \in Bridge,
         BridgeStart(b) \/ BridgeStop(b) \/ BridgeExit(b) \/ ResumeLock(b) \/ ResumeJob(b)
  PROVE  Fresh'
<1> USE DEF rowVars, dataVars, outerVars, innerVars, freshVars
<1>1. ASSUME BridgeStart(b) \/ BridgeStop(b) \/ BridgeExit(b) PROVE Fresh'
  <2>1. UNCHANGED sup \/ sup'.at # "launch"
    BY <1>1 DEF BridgeStart, BridgeStop, BridgeExit, Down, SupOff, Scan, SupOn
  <2> QED BY <1>1, <2>1, FreshSup, FreshKept DEF BridgeStart, BridgeStop, BridgeExit
<1>2. ASSUME ResumeLock(b) PROVE Fresh'
  BY <1>2, FreshKept DEF ResumeLock
<1>3. ASSUME ResumeJob(b) PROVE Fresh'
  <2>1. ctl[b].job \in Job
    BY <1>3 DEF ResumeJob, Typing, CtlTyped
  <2>2. CASE Requeue(ctl[b].job)
    BY <1>3, <2>1, <2>2, FreshGrows DEF ResumeJob, Requeue
  <2>3. CASE UNCHANGED <<status, generation, cancel>>
    BY <1>3, <2>3, FreshKept DEF ResumeJob
  <2> QED BY <1>3, <2>2, <2>3 DEF ResumeJob
<1> QED BY <1>1, <1>2, <1>3

LEMMA FreshCommand ==
  ASSUME Typing, Fresh, NEW j \in Job,
         \/ \E b \in Bridge : AdmitJob(b, j) \/ RequestCancel(b, j) \/ ResumeRead(b, j)
         \/ \E rebuild \in BOOLEAN : QueueIndexJob(j, rebuild)
  PROVE  Fresh'
<1> USE DEF rowVars, dataVars, bridgeVars, outerVars, innerVars, freshVars
<1>1. ASSUME NEW b \in Bridge, AdmitJob(b, j) \/ RequestCancel(b, j) \/ ResumeRead(b, j)
      PROVE  Fresh'
  BY <1>1, FreshKept DEF AdmitJob, RequestCancel, ResumeRead
<1>2. ASSUME NEW rebuild \in BOOLEAN, QueueIndexJob(j, rebuild) PROVE Fresh'
  <2>1. CASE Requeue(j)
    BY <1>2, <2>1, FreshGrows DEF QueueIndexJob, Requeue
  <2>2. CASE UNCHANGED generation
    BY <1>2, <2>2, FreshKept DEF QueueIndexJob
  <2> QED BY <1>2, <2>1, <2>2 DEF QueueIndexJob
<1> QED BY <1>1, <1>2

LEMMA FreshOuterStep ==
  ASSUME Typing, Fresh, NEW j \in Job, NEW g \in Generation,
         \/ OuterStep(j, g) \/ KillOuter(j, g)
         \/ OuterGivesUp(j, g, "interrupted") \/ OuterGivesUp(j, g, "failed")
  PROVE  Fresh'
<1> USE DEF rowVars, dataVars, bridgeVars, innerVars, OuterKeeps, OuterGone
<1>1. PICK at \in OuterAt \ {"none", "starting"}, v \in Note : OuterGo(j, g, at, v)
  <2>1. outerNote[j][g] \in Note
    BY DEF Typing, OuterTyped
  <2> QED BY <2>1 DEF OuterStep, OuterStart, OuterSeesExit, OuterSeesStop, OuterGivesUp, OuterKills,
        OuterLock, OuterRead, OuterSavesStop, OuterFinish, KillOuter, OuterAt, Note, Terminal
<1>2. outerAt[j][g] # "none"
  BY DEF OuterStep, OuterStart, OuterSeesExit, OuterSeesStop, OuterGivesUp, OuterKills,
         OuterLock, OuterRead, OuterSavesStop, OuterFinish, KillOuter, OuterAlive
<1>3. UNCHANGED <<generation, sup>>
  BY DEF OuterStep, OuterStart, OuterSeesExit, OuterSeesStop, OuterGivesUp, OuterKills, OuterLock,
         OuterRead, OuterSavesStop, OuterFinish, KillOuter, FinishJob, NoteStop
<1>4. \A k \in Job, h \in Generation : innerAt'[k][h] = innerAt[k][h] \/ <<k, h>> = <<j, g>>
  <2>1. \/ UNCHANGED innerAt
        \/ \E at2 : innerAt' = [innerAt EXCEPT ![j][g] = at2]
    BY DEF OuterStep, OuterStart, OuterSeesExit, OuterSeesStop, OuterGivesUp, OuterKills,
         OuterLock, OuterRead, OuterSavesStop, OuterFinish, KillOuter
  <2> QED BY <2>1 DEF Typing, InnerTyped
<1> QED BY <1>1, <1>2, <1>3, <1>4, FreshOuter

LEMMA FreshInnerStep ==
  ASSUME Typing, Fresh, NEW j \in Job, NEW g \in Generation, InnerStep(j, g) \/ KillInner(j, g)
  PROVE  Fresh'
<1> USE DEF rowVars, dataVars, bridgeVars, outerVars, innerVars, InnerKeeps
<1>1. UNCHANGED <<generation, outerAt, sup>>
  BY DEF InnerStep, InnerLock, InnerRead, ExecWrite, SaveCheckpoint, SaveResult, Invalidate,
         BeginDelivery, SettleDelivery, InputChanged, ExecReturns, ExecRaises, ExecStale,
         InnerReread, InnerSavesFailure, InnerFinish, InnerLeaves, KillInner, FinishJob, NoteStop
<1>2. innerAt[j][g] # "none"
  BY DEF InnerStep, InnerLock, InnerRead, ExecWrite, SaveCheckpoint, SaveResult, Invalidate,
         BeginDelivery, SettleDelivery, InputChanged, ExecReturns, ExecRaises, ExecStale, Sending,
         InnerReread, InnerSavesFailure, InnerFinish, InnerLeaves, KillInner, InnerAlive
<1>3. UNCHANGED innerAt \/ \E at, v : InnerGo(j, g, at, v)
  BY DEF InnerStep, InnerLock, InnerRead, ExecWrite, SaveCheckpoint, SaveResult, Invalidate,
         BeginDelivery, SettleDelivery, InputChanged, ExecReturns, ExecRaises, ExecStale,
         InnerReread, InnerSavesFailure, InnerFinish, InnerLeaves, KillInner
<1> QED BY <1>1, <1>2, <1>3, FreshInner, FreshKept DEF freshVars

LEMMA FreshNext == Typing /\ Fresh /\ [Next]_vars => Fresh'
<1> SUFFICES ASSUME Typing, Fresh, [Next]_vars PROVE Fresh'
  OBVIOUS
<1>1. CASE Next
  <2>1. ASSUME NEW j \in Job, NEW k \in Job, NEW g \in Generation, PruneJob(j, k, g)
        PROVE  Fresh'
    BY <2>1, FreshKept DEF PruneJob, InnerKeeps, innerVars, outerVars, bridgeVars, freshVars
  <2>2. ASSUME NEW j \in Job, SaveProgress(j) PROVE Fresh'
    BY <2>2, ProgressMoves, FreshKept DEF bridgeVars, outerVars, innerVars, freshVars
  <2> QED BY <1>1, <2>1, <2>2, FreshListener, FreshCommand, FreshSupervisor, FreshOuterStep,
             FreshInnerStep DEF Next
<1>2. CASE UNCHANGED vars
  BY <1>2, FreshKept DEF vars, rowVars, bridgeVars, outerVars, innerVars, freshVars
<1> QED BY <1>1, <1>2

-----------------------------------------------------------------------------
(* A tick needs a listener that supervises.                                *)

LEMMA SupervisorRunsNext == Typing /\ SupervisorRuns /\ [Next]_vars => SupervisorRuns'
<1> SUFFICES ASSUME Typing, SupervisorRuns, [Next]_vars PROVE SupervisorRuns'
  OBVIOUS
<1> USE DEF rowVars, dataVars, bridgeVars, outerVars, innerVars
<1>1. ASSUME NEW b \in Bridge, BridgeStart(b) PROVE SupervisorRuns'
  BY <1>1 DEF BridgeStart, SupervisorRuns, Typing, ModeTyped
<1>2. ASSUME NEW b \in Bridge, BridgeStop(b) \/ BridgeExit(b) PROVE SupervisorRuns'
  BY <1>2 DEF BridgeStop, BridgeExit, Down, SupervisorRuns, Typing, ModeTyped, SupOff, Scan, SupOn
<1>3. ASSUME SupervisorFails PROVE SupervisorRuns'
  BY <1>3 DEF SupervisorFails, SupervisorRuns, SupOff, Scan, SupOn
<1>4. ASSUME UNCHANGED mode, sup.at = "off" => sup'.at = "off" PROVE SupervisorRuns'
  BY <1>4 DEF SupervisorRuns
<1>5. ASSUME SupervisorStep, ~SupervisorFails PROVE SupervisorRuns'
  BY <1>4, <1>5 DEF SupervisorStep, SupSkip, ReapRead, RecoverRead, ClaimRead, ReapLock,
     RecoverLock, SupTryLock, ReapFinish, RecoverFinish, SupFinish, RecoverStale, ClaimJob,
     Launch, LaunchFails, SupKeeps
<1>6. ASSUME NEW b \in Bridge, ResumeLock(b) \/ ResumeJob(b) PROVE SupervisorRuns'
  BY <1>4, <1>6 DEF ResumeLock, ResumeJob
<1>7. ASSUME NEW b \in Bridge, NEW j \in Job, AdmitJob(b, j) \/ RequestCancel(b, j) \/ ResumeRead(b, j)
      PROVE SupervisorRuns'
  BY <1>4, <1>7 DEF AdmitJob, RequestCancel, ResumeRead
<1>8. ASSUME NEW j \in Job, NEW rebuild \in BOOLEAN, QueueIndexJob(j, rebuild) PROVE SupervisorRuns'
  BY <1>4, <1>8 DEF QueueIndexJob
<1>9. ASSUME NEW j \in Job, NEW g \in Generation,
             \/ OuterStep(j, g) \/ KillOuter(j, g)
             \/ OuterGivesUp(j, g, "interrupted") \/ OuterGivesUp(j, g, "failed")
      PROVE SupervisorRuns'
  BY <1>4, <1>9 DEF OuterStep, OuterStart, OuterSeesExit, OuterSeesStop, OuterGivesUp, OuterKills,
         OuterLock, OuterRead, OuterSavesStop, OuterFinish, KillOuter, OuterKeeps
<1>10. ASSUME NEW j \in Job, NEW g \in Generation, InnerStep(j, g) \/ KillInner(j, g)
       PROVE SupervisorRuns'
  BY <1>4, <1>10 DEF InnerStep, InnerLock, InnerRead, ExecWrite, SaveCheckpoint, SaveResult,
         Invalidate, BeginDelivery, SettleDelivery, InputChanged, ExecReturns, ExecRaises, ExecStale,
         InnerReread, InnerSavesFailure, InnerFinish, InnerLeaves, KillInner, InnerKeeps
<1>11. ASSUME NEW j \in Job, NEW k \in Job, NEW g \in Generation, PruneJob(j, k, g)
       PROVE SupervisorRuns'
  BY <1>4, <1>11 DEF PruneJob, InnerKeeps
<1>12. ASSUME UNCHANGED vars PROVE SupervisorRuns'
  BY <1>4, <1>12 DEF vars
<1>13. ASSUME NEW j \in Job, SaveProgress(j) PROVE SupervisorRuns'
  BY <1>4, <1>13, ProgressMoves
<1> QED BY <1>1, <1>2, <1>3, <1>5, <1>6, <1>7, <1>8, <1>9, <1>10, <1>11, <1>12, <1>13 DEF Next

-----------------------------------------------------------------------------
(* Locks.                                                                  *)

SupervisorOwns == \A j \in Job : lock[j] = Supervisor <=> sup.at \in SupHolds /\ sup.job = j
ControlOwns == \A j \in Job, b \in Bridge :
  lock[j] = Control(b) <=> ctl[b].at = "holding" /\ ctl[b].job = j
OuterOwns == \A j \in Job, g \in Generation : lock[j] = Outer(g) <=> outerAt[j][g] \in OuterHolds
InnerOwns == \A j \in Job, g \in Generation : lock[j] = Inner(g) <=> innerAt[j][g] \in InnerHolds

LEMMA Parts ==
  /\ LockOwnership <=> SupervisorOwns /\ ControlOwns /\ OuterOwns /\ InnerOwns
  /\ LockOwnership' <=> SupervisorOwns' /\ ControlOwns' /\ OuterOwns' /\ InnerOwns'
BY DEF LockOwnership, SupervisorOwns, ControlOwns, OuterOwns, InnerOwns

\* The holders are told apart.
LEMMA HoldersDiffer ==
  /\ Supervisor # Free
  /\ \A b \in Bridge : Control(b) # Free /\ Control(b) # Supervisor
  /\ \A b, c \in Bridge : Control(b) = Control(c) => b = c
  /\ \A g \in Generation :
       /\ Outer(g) \notin {Free, Supervisor} /\ Inner(g) \notin {Free, Supervisor}
       /\ \A b \in Bridge : Outer(g) # Control(b) /\ Inner(g) # Control(b)
       /\ \A h \in Generation : /\ Outer(g) # Inner(h)
                                /\ Outer(g) = Outer(h) => g = h
                                /\ Inner(g) = Inner(h) => g = h
BY DEF Free, Supervisor, Control, Outer, Inner

\* Holder h gains or loses a lock; the locks of everyone else are as before.
OthersKeep(h) == \A k \in Job, o \in Holder \ {Free, h} : lock'[k] = o <=> lock[k] = o

LEMMA Moves ==
  ASSUME Typing, NEW j \in Job, NEW h,
         \/ UNCHANGED lock
         \/ Lock(j, h)
         \/ lock[j] = h /\ Unlock(j)
         \/ lock' = [lock EXCEPT ![j] = IF @ = h THEN Free ELSE @]
         \/ lock' = Released({h})
  PROVE  OthersKeep(h)
BY DEF OthersKeep, Lock, Unlock, Released, Typing, LockTyped

\* What a step of one process leaves alone in the others.
LEMMA Bystanders ==
  ASSUME LockOwnership, NEW h, OthersKeep(h)
  PROVE  /\ h # Supervisor /\ (UNCHANGED sup \/ (sup.at \notin SupHolds /\ sup'.at \notin SupHolds))
              => SupervisorOwns'
         /\ (\A b \in Bridge : h # Control(b)) /\ UNCHANGED ctl => ControlOwns'
         /\ (\A g \in Generation : h # Outer(g)) /\ UNCHANGED outerAt => OuterOwns'
         /\ (\A g \in Generation : h # Inner(g)) /\ UNCHANGED innerAt => InnerOwns'
<1>1. ASSUME h # Supervisor, UNCHANGED sup \/ (sup.at \notin SupHolds /\ sup'.at \notin SupHolds)
      PROVE  SupervisorOwns'
  BY <1>1, Holders, HoldersDiffer, Parts DEF OthersKeep, SupervisorOwns
<1>2. ASSUME \A b \in Bridge : h # Control(b), UNCHANGED ctl PROVE ControlOwns'
  BY <1>2, Holders, HoldersDiffer, Parts DEF OthersKeep, ControlOwns
<1>3. ASSUME \A g \in Generation : h # Outer(g), UNCHANGED outerAt PROVE OuterOwns'
  BY <1>3, Holders, HoldersDiffer, Parts DEF OthersKeep, OuterOwns
<1>4. ASSUME \A g \in Generation : h # Inner(g), UNCHANGED innerAt PROVE InnerOwns'
  BY <1>4, Holders, HoldersDiffer, Parts DEF OthersKeep, InnerOwns
<1> QED BY <1>1, <1>2, <1>3, <1>4

\* The supervisor takes, keeps without, or drops the one lock it can hold.
LEMMA SupervisorMoves ==
  ASSUME Typing, SupervisorOwns,
         \/ sup.at \notin SupHolds /\ sup'.at \notin SupHolds /\ UNCHANGED lock
         \/ /\ sup.at \notin SupHolds /\ sup'.at \in SupHolds
            /\ sup'.job \in Job /\ Lock(sup'.job, Supervisor)
         \/ sup.at \in SupHolds /\ sup'.at \notin SupHolds /\ sup.job \in Job /\ Unlock(sup.job)
         \/ sup'.at \notin SupHolds /\ lock' = Released({Supervisor})
  PROVE  SupervisorOwns' /\ OthersKeep(Supervisor)
<1>1. SupervisorOwns'
  BY HoldersDiffer DEF SupervisorOwns, Lock, Unlock, Released, Typing, LockTyped
<1>2. OthersKeep(Supervisor)
  BY HoldersDiffer DEF SupervisorOwns, OthersKeep, Lock, Unlock, Released, Typing, LockTyped
<1> QED BY <1>1, <1>2

LEMMA LocksSupervisor ==
  ASSUME Typing, Fresh, LockOwnership, SupervisorStep
  PROVE  LockOwnership'
<1> USE DEF SupKeeps, rowVars, dataVars, outerVars, innerVars
<1>0. SupervisorOwns /\ OuterOwns
  BY Parts
<1>1. SupervisorOwns' /\ OthersKeep(Supervisor)
  <2>1. ASSUME NEW j \in Job, SupSkip(j) \/ ReapRead(j) \/ RecoverRead(j)
        PROVE  SupervisorOwns' /\ OthersKeep(Supervisor)
    <3>1. sup.at \notin SupHolds /\ UNCHANGED lock
      BY <2>1 DEF SupSkip, ReapRead, RecoverRead, SupHolds
    <3>2. sup'.at \notin SupHolds
      BY <2>1, OnwardAt DEF SupSkip, ReapRead, RecoverRead, SupOn, SupHolds
    <3> QED BY <1>0, <3>1, <3>2, SupervisorMoves
  <2>2. ASSUME NEW j \in Job, ClaimRead(j) PROVE SupervisorOwns' /\ OthersKeep(Supervisor)
    <3>1. CASE Lock(j, Supervisor) /\ sup' = SupOn("claimTx", sup.todo \ {j}, j, 0, "none")
      BY <1>0, <2>2, <3>1, SupervisorMoves DEF ClaimRead, SupOn, SupHolds
    <3>2. CASE UNCHANGED lock /\ sup' = Onward("claim", sup.todo \ {j})
      BY <1>0, <2>2, <3>2, OnwardAt, SupervisorMoves DEF ClaimRead, SupHolds
    <3> QED BY <2>2, <3>1, <3>2 DEF ClaimRead
  <2>3. ASSUME NEW from \in {"reapLock", "recoverLock"}, NEW to \in {"reapFinish", "recoverFinish"},
               NEW back \in {"reap", "recover"}, SupTryLock(from, to, back)
        PROVE  SupervisorOwns' /\ OthersKeep(Supervisor)
    <3>0. sup.job \in Job /\ sup.at \notin SupHolds
      BY <2>3 DEF SupTryLock, SupHolds, Typing, SupTyped
    <3>1. CASE Lock(sup.job, Supervisor) /\ sup' = SupOn(to, sup.todo, sup.job, sup.gen, sup.note)
      BY <1>0, <3>0, <3>1, SupervisorMoves DEF SupOn, SupHolds
    <3>2. CASE UNCHANGED lock /\ sup' = Onward(back, sup.todo)
      BY <1>0, <3>0, <3>2, OnwardAt, SupervisorMoves DEF SupHolds
    <3> QED BY <2>3, <3>1, <3>2 DEF SupTryLock
  <2>4. ASSUME NEW from \in {"reapFinish", "recoverFinish"}, NEW back \in {"reap", "recover"},
               SupFinish(from, back)
        PROVE  SupervisorOwns' /\ OthersKeep(Supervisor)
    BY <1>0, <2>4, OnwardAt, SupervisorMoves DEF SupFinish, SupHolds, Typing, SupTyped
  <2>5. ASSUME RecoverStale PROVE SupervisorOwns' /\ OthersKeep(Supervisor)
    BY <1>0, <2>5, OnwardAt, SupervisorMoves DEF RecoverStale, SupHolds, Typing, SupTyped
  <2>6. ASSUME SupervisorFails PROVE SupervisorOwns' /\ OthersKeep(Supervisor)
    BY <1>0, <2>6, SupervisorMoves DEF SupervisorFails, SupHolds, SupOff, Scan, SupOn
  <2>7. ASSUME ClaimJob PROVE SupervisorOwns' /\ OthersKeep(Supervisor)
    <3>1. sup.at \in SupHolds /\ sup.job \in Job /\ Unlock(sup.job)
      BY <2>7 DEF ClaimJob, SupHolds, Typing, SupTyped
    <3>2. sup'.at \notin SupHolds
      BY <2>7, OnwardAt DEF ClaimJob, SupOn, SupHolds
    <3> QED BY <1>0, <3>1, <3>2, SupervisorMoves
  <2>8. ASSUME Launch \/ LaunchFails PROVE SupervisorOwns' /\ OthersKeep(Supervisor)
    <3>1. sup.at \notin SupHolds /\ UNCHANGED lock
      BY <2>8 DEF Launch, LaunchFails, SupHolds
    <3>2. sup'.at \notin SupHolds
      BY <2>8, OnwardAt DEF Launch, LaunchFails, SupHolds
    <3> QED BY <1>0, <3>1, <3>2, SupervisorMoves
  <2> QED BY <2>1, <2>2, <2>3, <2>4, <2>5, <2>6, <2>7, <2>8
          DEF SupervisorStep, ReapLock, RecoverLock, ReapFinish, RecoverFinish
<1>2. UNCHANGED <<ctl, innerAt>>
  BY DEF SupervisorStep, SupSkip, ReapRead, RecoverRead, ClaimRead, ReapLock, RecoverLock,
         SupTryLock, ReapFinish, RecoverFinish, SupFinish, RecoverStale, SupervisorFails, ClaimJob,
         Launch, LaunchFails
<1>3. ControlOwns' /\ InnerOwns'
  BY <1>1, <1>2, Bystanders, HoldersDiffer
<1>4. OuterOwns'
  <2>1. CASE Launch
    <3>1. sup.job \in Job /\ sup.gen \in Generation /\ outerAt[sup.job][sup.gen] = "none"
      BY <2>1 DEF Launch, Typing, SupTyped, Fresh
    <3>2. \A k \in Job, h \in Generation :
            outerAt'[k][h] = IF k = sup.job /\ h = sup.gen THEN "starting" ELSE outerAt[k][h]
      BY <2>1, <3>1 DEF Launch, Typing, OuterTyped
    <3>3. UNCHANGED lock
      BY <2>1 DEF Launch
    <3> QED BY <1>0, <3>1, <3>2, <3>3 DEF OuterOwns, OuterHolds
  <2>2. CASE ~Launch
    <3>1. UNCHANGED outerAt
      BY <2>2 DEF SupervisorStep, SupSkip, ReapRead, RecoverRead, ClaimRead, ReapLock, RecoverLock,
         SupTryLock, ReapFinish, RecoverFinish, SupFinish, RecoverStale, SupervisorFails, ClaimJob,
         LaunchFails
    <3> QED BY <1>1, <3>1, Bystanders, HoldersDiffer
  <2> QED BY <2>1, <2>2
<1> QED BY <1>1, <1>3, <1>4, Parts

LEMMA LocksListener ==
  ASSUME Typing, SupervisorRuns, LockOwnership, NEW b \in Bridge,
         BridgeStart(b) \/ BridgeStop(b) \/ BridgeExit(b) \/ ResumeLock(b) \/ ResumeJob(b)
  PROVE  LockOwnership'
<1> USE DEF rowVars, dataVars, outerVars, innerVars
<1>0. SupervisorOwns /\ ControlOwns /\ OuterOwns /\ InnerOwns
  BY Parts
<1>1. ASSUME BridgeStart(b) PROVE LockOwnership'
  <2>1. UNCHANGED <<lock, ctl, outerAt, innerAt>>
    BY <1>1 DEF BridgeStart
  <2>2. SupervisorOwns'
    <3>1. CASE sup' = Scan("reap", Job) /\ \A c \in Bridge : mode[c] # "supervising"
      <4>1. sup.at = "off"
        BY <3>1 DEF SupervisorRuns
      <4> QED BY <1>0, <2>1, <3>1, <4>1, SupervisorMoves DEF Scan, SupOn, SupHolds
    <3>2. CASE UNCHANGED sup
      BY <1>0, <2>1, <3>2 DEF SupervisorOwns
    <3> QED BY <1>1, <3>1, <3>2 DEF BridgeStart
  <2>3. ControlOwns' /\ OuterOwns' /\ InnerOwns'
    BY <1>0, <2>1 DEF ControlOwns, OuterOwns, InnerOwns
  <2> QED BY <2>2, <2>3, Parts
<1>2. ASSUME Down(b), UNCHANGED <<outerAt, innerAt>> PROVE LockOwnership'
  <2>1. ctl' = [ctl EXCEPT ![b] = CtlIdle] /\ ctl \in [Bridge -> Ctl]
    BY <1>2 DEF Down, Typing, CtlTyped
  <2>2. \A c \in Bridge : ctl'[c] = IF c = b THEN CtlIdle ELSE ctl[c]
    BY <2>1
  <2>3. CtlIdle.at # "holding"
    BY DEF CtlIdle
  <2>4. \/ lock' = Released({Supervisor, Control(b)}) /\ sup' = SupOff
        \/ lock' = Released({Control(b)}) /\ UNCHANGED sup
    BY <1>2 DEF Down
  <2>5. SupervisorOwns'
    BY <1>0, <2>4, HoldersDiffer
       DEF SupervisorOwns, Released, Typing, LockTyped, SupOff, Scan, SupOn, SupHolds
  <2>6. ControlOwns'
    BY <1>0, <2>2, <2>3, <2>4, HoldersDiffer DEF ControlOwns, Released, Typing, LockTyped
  <2>7. OuterOwns' /\ InnerOwns'
    BY <1>0, <1>2, <2>4, HoldersDiffer DEF OuterOwns, InnerOwns, Released, Typing, LockTyped
  <2> QED BY <2>5, <2>6, <2>7, Parts
<1>3. ASSUME BridgeStop(b) \/ BridgeExit(b) PROVE LockOwnership'
  BY <1>2, <1>3 DEF BridgeStop, BridgeExit
<1>4. ASSUME ResumeLock(b) PROVE LockOwnership'
  <2>1. ctl[b].job \in Job /\ ctl[b].at # "holding" /\ UNCHANGED <<sup, outerAt, innerAt>>
    BY <1>4 DEF ResumeLock, Typing, CtlTyped
  <2>2. OthersKeep(Control(b))
    BY <1>4, <2>1, Moves DEF ResumeLock
  <2>3. SupervisorOwns' /\ OuterOwns' /\ InnerOwns'
    BY <2>1, <2>2, Bystanders, HoldersDiffer
  <2>4. ControlOwns'
    <3>1. CASE /\ Lock(ctl[b].job, Control(b))
               /\ ctl' = [ctl EXCEPT ![b] = [at |-> "holding", job |-> @.job, gen |-> @.gen]]
      <4>1. \A c \in Bridge : ctl'[c] = IF c = b
              THEN [at |-> "holding", job |-> ctl[b].job, gen |-> ctl[b].gen] ELSE ctl[c]
        BY <3>1 DEF Typing, CtlTyped
      <4> QED BY <1>0, <2>1, <3>1, <4>1, HoldersDiffer DEF ControlOwns, Lock, Typing, LockTyped
    <3>2. CASE ctl' = [ctl EXCEPT ![b] = CtlIdle] /\ UNCHANGED lock
      <4>1. \A c \in Bridge : ctl'[c] = IF c = b THEN CtlIdle ELSE ctl[c]
        BY <3>2 DEF Typing, CtlTyped
      <4> QED BY <1>0, <2>1, <3>2, <4>1 DEF ControlOwns, CtlIdle
    <3> QED BY <1>4, <3>1, <3>2 DEF ResumeLock
  <2> QED BY <2>3, <2>4, Parts
<1>5. ASSUME ResumeJob(b) PROVE LockOwnership'
  <2>1. ctl[b].job \in Job /\ ctl[b].at = "holding" /\ UNCHANGED <<sup, outerAt, innerAt>>
    BY <1>5 DEF ResumeJob, Typing, CtlTyped
  <2>2. Unlock(ctl[b].job) /\ lock[ctl[b].job] = Control(b)
    BY <1>0, <1>5, <2>1 DEF ResumeJob, ControlOwns
  <2>3. OthersKeep(Control(b))
    BY <2>1, <2>2, Moves
  <2>4. SupervisorOwns' /\ OuterOwns' /\ InnerOwns'
    BY <2>1, <2>3, Bystanders, HoldersDiffer
  <2>5. \A c \in Bridge : ctl'[c] = IF c = b THEN CtlIdle ELSE ctl[c]
    BY <1>5 DEF ResumeJob, Typing, CtlTyped
  <2>6. ControlOwns'
    BY <1>0, <2>1, <2>2, <2>5, HoldersDiffer DEF ControlOwns, Unlock, Typing, LockTyped, CtlIdle
  <2> QED BY <2>4, <2>6, Parts
<1> QED BY <1>1, <1>3, <1>4, <1>5

LEMMA OuterMoves ==
  ASSUME Typing, OuterOwns, NEW j \in Job, NEW g \in Generation, NEW at, NEW v,
         OuterGo(j, g, at, v),
         \/ UNCHANGED lock /\ (at \in OuterHolds <=> outerAt[j][g] \in OuterHolds)
         \/ outerAt[j][g] \notin OuterHolds /\ at \in OuterHolds /\ Lock(j, Outer(g))
         \/ outerAt[j][g] \in OuterHolds /\ at \notin OuterHolds /\ Unlock(j)
         \/ at \notin OuterHolds /\ lock' = [lock EXCEPT ![j] = IF @ = Outer(g) THEN Free ELSE @]
  PROVE  OuterOwns' /\ OthersKeep(Outer(g))
<1>1. \A k \in Job, h \in Generation :
        outerAt'[k][h] = IF k = j /\ h = g THEN at ELSE outerAt[k][h]
  BY DEF OuterGo, Typing, OuterTyped
<1>2. OuterOwns'
  BY <1>1, HoldersDiffer DEF OuterOwns, Lock, Unlock, Typing, LockTyped
<1>3. OthersKeep(Outer(g))
  BY HoldersDiffer DEF OuterOwns, OthersKeep, Lock, Unlock, Typing, LockTyped
<1> QED BY <1>2, <1>3

LEMMA InnerMoves ==
  ASSUME Typing, InnerOwns, NEW j \in Job, NEW g \in Generation, NEW at, NEW v,
         InnerGo(j, g, at, v),
         \/ UNCHANGED lock /\ (at \in InnerHolds <=> innerAt[j][g] \in InnerHolds)
         \/ innerAt[j][g] \notin InnerHolds /\ at \in InnerHolds /\ Lock(j, Inner(g))
         \/ innerAt[j][g] \in InnerHolds /\ at \notin InnerHolds /\ Unlock(j)
         \/ at \notin InnerHolds /\ lock' = [lock EXCEPT ![j] = IF @ = Inner(g) THEN Free ELSE @]
  PROVE  InnerOwns' /\ OthersKeep(Inner(g))
<1>1. \A k \in Job, h \in Generation :
        innerAt'[k][h] = IF k = j /\ h = g THEN at ELSE innerAt[k][h]
  BY DEF InnerGo, Typing, InnerTyped
<1>2. InnerOwns'
  BY <1>1, HoldersDiffer DEF InnerOwns, Lock, Unlock, Typing, LockTyped
<1>3. OthersKeep(Inner(g))
  BY HoldersDiffer DEF InnerOwns, OthersKeep, Lock, Unlock, Typing, LockTyped
<1> QED BY <1>2, <1>3

\* An outer step that touches no inner worker keeps every lock with its holder.
LEMMA OuterAlone ==
  ASSUME LockOwnership, NEW g \in Generation, OuterOwns', OthersKeep(Outer(g)),
         UNCHANGED <<sup, ctl, innerAt>>
  PROVE  LockOwnership'
BY Bystanders, HoldersDiffer, Parts

LEMMA InnerAlone ==
  ASSUME LockOwnership, NEW g \in Generation, InnerOwns', OthersKeep(Inner(g)),
         UNCHANGED <<sup, ctl, outerAt>>
  PROVE  LockOwnership'
BY Bystanders, HoldersDiffer, Parts

LEMMA LocksOuter ==
  ASSUME Typing, Fresh, LockOwnership, NEW j \in Job, NEW g \in Generation,
         \/ OuterStep(j, g) \/ KillOuter(j, g)
         \/ OuterGivesUp(j, g, "interrupted") \/ OuterGivesUp(j, g, "failed")
  PROVE  LockOwnership'
<1> USE DEF rowVars, dataVars, bridgeVars, innerVars, OuterKeeps, OuterGone
<1>0. OuterOwns /\ InnerOwns
  BY Parts
<1>1. ASSUME OuterStart(j, g) PROVE LockOwnership'
  <2>1. OuterOwns' /\ OthersKeep(Outer(g))
    BY <1>0, <1>1, OuterMoves DEF OuterStart, OuterHolds
  <2>2. InnerOwns'
    <3>1. innerAt[j][g] = "none"
      BY <1>1 DEF OuterStart, Fresh
    <3>2. \A k \in Job, h \in Generation : innerAt'[k][h] = innerAt[k][h]
            \/ (k = j /\ h = g /\ innerAt'[k][h] \in {"none", "starting"})
      BY <1>1, <3>1 DEF OuterStart, Typing, InnerTyped
    <3>3. UNCHANGED lock
      BY <1>1 DEF OuterStart
    <3> QED BY <1>0, <3>1, <3>2, <3>3 DEF InnerOwns, InnerHolds, InnerAlive, InnerAt
  <2>3. UNCHANGED <<sup, ctl>>
    BY <1>1 DEF OuterStart
  <2> QED BY <2>1, <2>2, <2>3, Bystanders, HoldersDiffer, Parts
<1>2. ASSUME OuterSeesExit(j, g) PROVE LockOwnership'
  <2>1. PICK v \in {"interrupted", "failed"} : OuterGo(j, g, "settling", v)
    BY <1>2 DEF OuterSeesExit
  <2>2. OuterOwns' /\ OthersKeep(Outer(g))
    BY <1>0, <1>2, <2>1, OuterMoves DEF OuterSeesExit, OuterHolds
  <2> QED BY <1>2, <2>2, OuterAlone DEF OuterSeesExit
<1>3. ASSUME NEW v \in {"timed_out", "interrupted", "failed"}, OuterGivesUp(j, g, v)
      PROVE  LockOwnership'
  <2>1. OuterOwns' /\ OthersKeep(Outer(g))
    BY <1>0, <1>3, OuterMoves DEF OuterGivesUp, OuterHolds
  <2> QED BY <1>3, <2>1, OuterAlone DEF OuterGivesUp
<1>4. ASSUME OuterSeesStop(j, g) PROVE LockOwnership'
  <2>1. OuterOwns' /\ OthersKeep(Outer(g))
    BY <1>0, <1>4, OuterMoves DEF OuterSeesStop, OuterHolds
  <2> QED BY <1>4, <2>1, OuterAlone DEF OuterSeesStop
<1>5. ASSUME OuterKills(j, g) PROVE LockOwnership'
  <2>1. \A k \in Job, h \in Generation :
          outerAt'[k][h] = IF k = j /\ h = g THEN "settling" ELSE outerAt[k][h]
    BY <1>5 DEF OuterKills, OuterGo, Typing, OuterTyped
  <2>2. outerAt[j][g] = "stopping"
        /\ lock' = [lock EXCEPT ![j] = IF @ = Inner(g) THEN Free ELSE @]
        /\ UNCHANGED <<sup, ctl>>
    BY <1>5 DEF OuterKills
  <2>3. \A k \in Job, h \in Generation :
          innerAt'[k][h] = IF k = j /\ h = g THEN "gone" ELSE innerAt[k][h]
    BY <1>5 DEF OuterKills, Typing, InnerTyped
  <2>4. OthersKeep(Inner(g))
    BY <2>2, Moves
  <2>5. SupervisorOwns' /\ ControlOwns'
    BY <2>2, <2>4, Bystanders, HoldersDiffer
  <2>6. OuterOwns'
    BY <1>0, <2>1, <2>2, HoldersDiffer DEF OuterOwns, OuterHolds, Typing, LockTyped
  <2>7. InnerOwns'
    BY <1>0, <2>2, <2>3, HoldersDiffer DEF InnerOwns, InnerHolds, InnerAlive, Typing, LockTyped
  <2> QED BY <2>5, <2>6, <2>7, Parts
<1>6. ASSUME OuterLock(j, g) PROVE LockOwnership'
  <2>1. OuterOwns' /\ OthersKeep(Outer(g))
    BY <1>0, <1>6, OuterMoves DEF OuterLock, OuterHolds
  <2> QED BY <1>6, <2>1, OuterAlone DEF OuterLock
<1>7. ASSUME OuterRead(j, g) PROVE LockOwnership'
  <2>1. OuterOwns' /\ OthersKeep(Outer(g))
    BY <1>0, <1>7, OuterMoves DEF OuterRead, OuterHolds
  <2> QED BY <1>7, <2>1, OuterAlone DEF OuterRead
<1>8. ASSUME OuterSavesStop(j, g) PROVE LockOwnership'
  <2>1. OuterOwns' /\ OthersKeep(Outer(g))
    BY <1>0, <1>8, OuterMoves DEF OuterSavesStop, OuterHolds
  <2> QED BY <1>8, <2>1, OuterAlone DEF OuterSavesStop
<1>9. ASSUME OuterFinish(j, g) PROVE LockOwnership'
  <2>1. OuterOwns' /\ OthersKeep(Outer(g))
    BY <1>0, <1>9, OuterMoves DEF OuterFinish, OuterHolds
  <2> QED BY <1>9, <2>1, OuterAlone DEF OuterFinish
<1>10. ASSUME KillOuter(j, g) PROVE LockOwnership'
  <2>1. OuterOwns' /\ OthersKeep(Outer(g))
    BY <1>0, <1>10, OuterMoves DEF KillOuter, OuterHolds
  <2> QED BY <1>10, <2>1, OuterAlone DEF KillOuter
<1> QED BY <1>1, <1>2, <1>3, <1>4, <1>5, <1>6, <1>7, <1>8, <1>9, <1>10 DEF OuterStep

\* Steps of an inner worker that leave every lock where it is.
LEMMA InnerQuiet ==
  ASSUME Typing, LockOwnership, NEW j \in Job, NEW g \in Generation,
         UNCHANGED <<lock, sup, ctl, outerAt>>,
         \/ UNCHANGED innerAt
         \/ /\ innerAt[j][g] \in InnerHolds
            /\ \E at \in InnerHolds, v \in Note : InnerGo(j, g, at, v)
  PROVE  LockOwnership'
<1>1. ASSUME UNCHANGED innerAt PROVE InnerOwns' /\ OthersKeep(Inner(g))
  <2>1. OthersKeep(Inner(g))
    BY Moves
  <2> QED BY <1>1, <2>1, Parts DEF InnerOwns
<1>2. ASSUME innerAt[j][g] \in InnerHolds, NEW at \in InnerHolds, NEW v \in Note, InnerGo(j, g, at, v)
      PROVE  InnerOwns' /\ OthersKeep(Inner(g))
  BY <1>2, InnerMoves, Parts
<1> QED BY <1>1, <1>2, InnerAlone

LEMMA LocksInner ==
  ASSUME Typing, LockOwnership, NEW j \in Job, NEW g \in Generation,
         InnerStep(j, g) \/ KillInner(j, g)
  PROVE  LockOwnership'
<1> USE DEF rowVars, dataVars, bridgeVars, outerVars, innerVars, InnerKeeps
<1>0. InnerOwns
  BY Parts
<1>1. ASSUME InnerLock(j, g) \/ InnerRead(j, g) \/ InnerLeaves(j, g) \/ KillInner(j, g)
      PROVE  LockOwnership'
  <2>1. InnerOwns' /\ OthersKeep(Inner(g))
    BY <1>0, <1>1, InnerMoves
       DEF InnerLock, InnerRead, InnerLeaves, KillInner, InnerHolds, InnerAlive, InnerAt
  <2> QED BY <1>1, <2>1, InnerAlone DEF InnerLock, InnerRead, InnerLeaves, KillInner
<1>2. ASSUME SaveCheckpoint(j, g) \/ SaveResult(j, g) \/ Invalidate(j, g) PROVE LockOwnership'
  BY <1>2, InnerQuiet DEF SaveCheckpoint, SaveResult, Invalidate, ExecWrite
<1>3. ASSUME \/ BeginDelivery(j, g) \/ \E o \in Delivery : SettleDelivery(j, g, o)
             \/ InputChanged(j, g) \/ ExecReturns(j, g) \/ ExecStale(j, g)
             \/ \E v \in {"interrupted", "timed_out", "failed"} : ExecRaises(j, g, v)
      PROVE LockOwnership'
  <2>1. innerAt[j][g] \in InnerHolds /\ UNCHANGED <<lock, sup, ctl, outerAt>>
    BY <1>3 DEF BeginDelivery, ExecWrite, SettleDelivery, InputChanged, ExecReturns, ExecStale,
       ExecRaises, InnerHolds, InnerAlive, InnerAt, Sending
  <2>2. \E at \in InnerHolds, v \in Note : InnerGo(j, g, at, v)
    BY <1>3 DEF BeginDelivery, ExecWrite, SettleDelivery, InputChanged, ExecReturns, ExecStale,
       ExecRaises, InnerHolds, InnerAlive, InnerAt, Note, Terminal
  <2> QED BY <2>1, <2>2, InnerQuiet
<1>4. ASSUME InnerReread(j, g) \/ InnerSavesFailure(j, g) \/ InnerFinish(j, g) PROVE LockOwnership'
  <2>1. innerAt[j][g] \in InnerHolds /\ UNCHANGED <<lock, sup, ctl, outerAt>>
    BY <1>4 DEF InnerReread, InnerSavesFailure, InnerFinish, InnerHolds, InnerAlive, InnerAt
  <2>2. innerNote[j][g] \in Note
    BY DEF Typing, InnerTyped
  <2>3. \E at \in InnerHolds, v \in Note : InnerGo(j, g, at, v)
    BY <1>4, <2>2 DEF InnerReread, InnerSavesFailure, InnerFinish, InnerHolds, InnerAlive, InnerAt,
       Note, Terminal
  <2> QED BY <2>1, <2>3, InnerQuiet
<1> QED BY <1>1, <1>2, <1>3, <1>4 DEF InnerStep

LEMMA LocksNext ==
  Typing /\ Fresh /\ SupervisorRuns /\ LockOwnership /\ [Next]_vars => LockOwnership'
<1> SUFFICES ASSUME Typing, Fresh, SupervisorRuns, LockOwnership, [Next]_vars PROVE LockOwnership'
  OBVIOUS
<1> USE DEF rowVars, dataVars, bridgeVars, outerVars, innerVars
<1>1. ASSUME UNCHANGED <<lock, sup, ctl, outerAt, innerAt>> PROVE LockOwnership'
  BY <1>1 DEF LockOwnership
<1>2. ASSUME NEW b \in Bridge, NEW j \in Job, AdmitJob(b, j) \/ RequestCancel(b, j) PROVE LockOwnership'
  BY <1>1, <1>2 DEF AdmitJob, RequestCancel
<1>3. ASSUME NEW b \in Bridge, NEW j \in Job, ResumeRead(b, j) PROVE LockOwnership'
  <2>1. \A c \in Bridge : /\ ctl'[c].at = "holding" <=> ctl[c].at = "holding"
                          /\ ctl[c].at = "holding" => ctl'[c] = ctl[c]
    BY <1>3 DEF ResumeRead, Typing, CtlTyped
  <2> QED BY <1>3, <2>1 DEF ResumeRead, LockOwnership
<1>4. ASSUME NEW j \in Job, NEW rebuild \in BOOLEAN, QueueIndexJob(j, rebuild) PROVE LockOwnership'
  BY <1>1, <1>4 DEF QueueIndexJob
<1>5. ASSUME NEW j \in Job, NEW k \in Job, NEW g \in Generation, PruneJob(j, k, g)
      PROVE  LockOwnership'
  BY <1>1, <1>5 DEF PruneJob, InnerKeeps
<1>6. ASSUME UNCHANGED vars PROVE LockOwnership'
  BY <1>1, <1>6 DEF vars
<1>7. ASSUME NEW j \in Job, SaveProgress(j) PROVE LockOwnership'
  BY <1>1, <1>7, ProgressMoves
<1> QED BY <1>2, <1>3, <1>4, <1>5, <1>6, <1>7, LocksListener, LocksSupervisor, LocksOuter, LocksInner
        DEF Next

LEMMA InitLocks == Init => Fresh /\ SupervisorRuns /\ LockOwnership
<1> SUFFICES ASSUME Init PROVE Fresh /\ SupervisorRuns /\ LockOwnership
  OBVIOUS
<1>1. Fresh /\ SupervisorRuns
  BY DEF Init, Fresh, SupervisorRuns, SupOff, Scan, SupOn
<1>2. LockOwnership
  BY HoldersDiffer DEF Init, LockOwnership, SupOff, Scan, SupOn, SupHolds, CtlIdle, OuterHolds,
     InnerHolds, InnerAlive, InnerAt
<1> QED BY <1>1, <1>2

-----------------------------------------------------------------------------
(* Fencing: what a worker that acts may assume of the row.                 *)

\* A worker that acts is of the row's generation, and the row runs unless the
\* worker itself ended the run; only the index job may have moved past it.
Fencing == \A j \in Job, g \in Generation :
  innerAt[j][g] \in Working =>
    \/ Owns(j, g)
    \/ j \notin IndexJob /\ generation[j] = g /\ innerAt[j][g] = "closing"
    \/ j \in IndexJob /\ generation[j] > g

LEMMA FencingShows == Fencing => ExecutorOwnsGeneration /\ IndexWorkerSuperseded
BY ConstantsAssumption DEF Fencing, ExecutorOwnsGeneration, IndexWorkerSuperseded, Owns

\* No inner worker acts for j.
Idle(j) == \A g \in Generation : innerAt[j][g] \notin Working

LEMMA WorkingHolds == Working \subseteq InnerHolds
BY DEF Working, Sending, InnerHolds, InnerAlive, InnerAt

\* The lock keeps every other process out.
LEMMA LockExcludes ==
  ASSUME Typing, LockOwnership, NEW j \in Job
  PROVE  /\ sup.at \in SupHolds /\ sup.job = j => Idle(j)
         /\ \A b \in Bridge : ctl[b].at = "holding" /\ ctl[b].job = j => Idle(j)
         /\ \A g \in Generation : outerAt[j][g] \in OuterHolds => Idle(j)
         /\ \A g, h \in Generation :
              innerAt[j][g] \in InnerHolds /\ innerAt[j][h] \in Working => g = h
BY WorkingHolds, HoldersDiffer DEF LockOwnership, Idle

\* A row changes while nobody acts for its job.
LEMMA FencedIdle ==
  ASSUME Fencing, UNCHANGED innerAt, NEW j \in Job, Idle(j),
         \A k \in Job \ {j} : status'[k] = status[k] /\ generation'[k] = generation[k]
  PROVE  Fencing'
BY DEF Fencing, Idle, Owns

\* A row that is not running changes its status.
LEMMA FencedStopped ==
  ASSUME Fencing, UNCHANGED <<innerAt, generation>>, NEW j \in Job, status[j] # "running",
         \A k \in Job \ {j} : status'[k] = status[k]
  PROVE  Fencing'
BY DEF Fencing, Owns

\* No row changes, and no worker begins to act or returns from its closing read.
LEMMA FencedQuiet ==
  ASSUME Fencing, UNCHANGED <<status, generation>>,
         \A k \in Job, h \in Generation : innerAt'[k][h] \in Working =>
           innerAt[k][h] \in Working /\ (innerAt[k][h] = "closing" => innerAt'[k][h] = "closing")
  PROVE  Fencing'
BY DEF Fencing, Owns

LEMMA FencedMove ==
  ASSUME Typing, Fencing, UNCHANGED <<status, generation>>,
         NEW j \in Job, NEW g \in Generation, NEW at, NEW v, InnerGo(j, g, at, v),
         \/ Owns(j, g)
         \/ at \notin Working
         \/ innerAt[j][g] \in Working \ {"closing"}
  PROVE  Fencing'
<1>1. \A k \in Job, h \in Generation :
        innerAt'[k][h] = IF k = j /\ h = g THEN at ELSE innerAt[k][h]
  BY DEF InnerGo, Typing, InnerTyped
<1> QED BY <1>1 DEF Fencing, Owns

\* finish_job touches one row.
LEMMA FinishAlone ==
  ASSUME Typing, NEW j \in Job, NEW g, NEW v, FinishJob(j, g, v)
  PROVE  \A k \in Job \ {j} : status'[k] = status[k] /\ generation'[k] = generation[k]
BY DEF FinishJob, Typing, RowTyped

LEMMA FencingSupervisor ==
  ASSUME Typing, Fresh, LockOwnership, Fencing, SupervisorStep
  PROVE  Fencing'
<1> USE DEF SupKeeps, rowVars, dataVars, outerVars, innerVars
<1>0. UNCHANGED innerAt
  BY DEF SupervisorStep, SupSkip, ReapRead, RecoverRead, ClaimRead, ReapLock, RecoverLock,
         SupTryLock, ReapFinish, RecoverFinish, SupFinish, RecoverStale, SupervisorFails, ClaimJob,
         Launch, LaunchFails
<1>1. ASSUME UNCHANGED rowVars PROVE Fencing'
  BY <1>0, <1>1, FencedQuiet
<1>2. ASSUME ReapFinish \/ RecoverFinish PROVE Fencing'
  <2>1. sup.job \in Job /\ sup.at \in SupHolds /\ FinishJob(sup.job, sup.gen, sup.note)
    BY <1>2 DEF ReapFinish, RecoverFinish, SupFinish, SupHolds, Typing, SupTyped
  <2> QED BY <1>0, <2>1, LockExcludes, FinishAlone, FencedIdle
<1>3. ASSUME ClaimJob PROVE Fencing'
  <2>1. sup.job \in Job /\ sup.at \in SupHolds
    BY <1>3 DEF ClaimJob, SupHolds, Typing, SupTyped
  <2>2. \A k \in Job \ {sup.job} : status'[k] = status[k] /\ generation'[k] = generation[k]
    BY <1>3 DEF ClaimJob, Typing, RowTyped
  <2> QED BY <1>0, <2>1, <2>2, LockExcludes, FencedIdle
<1>4. ASSUME LaunchFails PROVE Fencing'
  <2>1. /\ sup.job \in Job /\ sup.gen \in Generation /\ Owns(sup.job, sup.gen)
        /\ innerAt[sup.job][sup.gen] = "none"
    BY <1>4 DEF LaunchFails, FinishJob, Typing, SupTyped, Fresh
  <2>2. innerAt[sup.job][sup.gen] \notin Working
    BY <2>1 DEF Working, Sending
  <2>3. \A k \in Job \ {sup.job} : status'[k] = status[k]
    BY <1>4, <2>1, FinishAlone DEF LaunchFails
  <2>4. UNCHANGED generation
    BY <1>4 DEF LaunchFails, FinishJob
  <2> QED BY <1>0, <2>1, <2>2, <2>3, <2>4
          DEF Fencing, Owns
<1> QED BY <1>1, <1>2, <1>3, <1>4 DEF SupervisorStep, SupSkip, ReapRead, RecoverRead, ClaimRead,
      ReapLock, RecoverLock, SupTryLock, RecoverStale, SupervisorFails, Launch

LEMMA FencingCommand ==
  ASSUME Typing, LockOwnership, Fencing, NEW j \in Job,
         \/ \E b \in Bridge : \/ AdmitJob(b, j) \/ RequestCancel(b, j) \/ ResumeRead(b, j)
                              \/ BridgeStart(b) \/ BridgeStop(b) \/ BridgeExit(b)
                              \/ ResumeLock(b) \/ ResumeJob(b)
         \/ \E rebuild \in BOOLEAN : QueueIndexJob(j, rebuild)
         \/ \E k \in Job, g \in Generation : PruneJob(j, k, g)
  PROVE  Fencing'
<1> USE DEF rowVars, dataVars, bridgeVars, outerVars, innerVars
<1>1. ASSUME NEW b \in Bridge, AdmitJob(b, j) PROVE Fencing'
  BY <1>1, FencedStopped DEF AdmitJob, Typing, RowTyped
<1>2. ASSUME NEW b \in Bridge, RequestCancel(b, j) PROVE Fencing'
  <2>1. CASE status[j] = "queued"
    BY <1>2, <2>1, FencedStopped DEF RequestCancel, Typing, RowTyped
  <2>2. CASE status[j] = "running"
    <3>1. status' = status
      BY <1>2, <2>2 DEF RequestCancel, Typing, RowTyped
    <3> QED BY <1>2, <3>1, FencedQuiet DEF RequestCancel
  <2> QED BY <1>2, <2>1, <2>2 DEF RequestCancel
<1>3. ASSUME NEW b \in Bridge, \/ ResumeRead(b, j) \/ BridgeStart(b) \/ BridgeStop(b)
                               \/ BridgeExit(b) \/ ResumeLock(b)
      PROVE Fencing'
  BY <1>3, FencedQuiet DEF ResumeRead, BridgeStart, BridgeStop, BridgeExit, ResumeLock
<1>4. ASSUME NEW b \in Bridge, ResumeJob(b) PROVE Fencing'
  <2>1. ctl[b].job \in Job /\ ctl[b].at = "holding"
    BY <1>4 DEF ResumeJob, Typing, CtlTyped
  <2>2. \A k \in Job \ {ctl[b].job} : status'[k] = status[k] /\ generation'[k] = generation[k]
    BY <1>4 DEF ResumeJob, Requeue, Typing, RowTyped
  <2> QED BY <1>4, <2>1, <2>2, LockExcludes, FencedIdle DEF ResumeJob
<1>5. ASSUME NEW rebuild \in BOOLEAN, QueueIndexJob(j, rebuild) PROVE Fencing'
  <2>1. CASE status[j] = "absent"
    BY <1>5, <2>1, FencedStopped DEF QueueIndexJob, Typing, RowTyped
  <2>2. CASE status[j] # "absent"
    <3>1. Requeue(j) /\ j \in IndexJob /\ UNCHANGED innerAt
      BY <1>5, <2>2 DEF QueueIndexJob
    <3>2. \A k \in Job \ {j} : status'[k] = status[k] /\ generation'[k] = generation[k]
      BY <3>1 DEF Requeue, Typing, RowTyped
    <3>3. generation[j] \in Nat /\ generation'[j] = generation[j] + 1
      BY <3>1, ConstantsAssumption DEF Requeue, Typing, RowTyped
    <3>4. \A g \in Generation : innerAt[j][g] \in Working => generation'[j] > g
      BY <3>1, <3>3 DEF Fencing, Owns, Generation
    <3> QED BY <3>1, <3>2, <3>4 DEF Fencing, Owns
  <2> QED BY <2>1, <2>2
<1>6. ASSUME NEW k \in Job, NEW g \in Generation, PruneJob(j, k, g) PROVE Fencing'
  <2>1. status[j] # "running" /\ UNCHANGED <<innerAt, generation>>
    BY <1>6 DEF PruneJob, Terminal
  <2>2. \A i \in Job \ {j} : status'[i] = status[i]
    BY <1>6 DEF PruneJob, Typing, RowTyped
  <2> QED BY <2>1, <2>2, FencedStopped
<1> QED BY <1>1, <1>2, <1>3, <1>4, <1>5, <1>6

LEMMA FencingOuter ==
  ASSUME Typing, LockOwnership, Fencing, NEW j \in Job, NEW g \in Generation,
         \/ OuterStep(j, g) \/ KillOuter(j, g)
         \/ OuterGivesUp(j, g, "interrupted") \/ OuterGivesUp(j, g, "failed")
  PROVE  Fencing'
<1> USE DEF rowVars, dataVars, bridgeVars, innerVars, OuterKeeps
<1>1. ASSUME OuterStart(j, g) PROVE Fencing'
  <2>1. \A k \in Job, h \in Generation :
          innerAt'[k][h] = innerAt[k][h] \/ innerAt'[k][h] = "starting"
    BY <1>1 DEF OuterStart, Typing, InnerTyped
  <2> QED BY <1>1, <2>1, FencedQuiet DEF OuterStart, Working, Sending
<1>2. ASSUME OuterKills(j, g) PROVE Fencing'
  <2>1. \A k \in Job, h \in Generation :
          innerAt'[k][h] = innerAt[k][h] \/ innerAt'[k][h] = "gone"
    BY <1>2 DEF OuterKills, Typing, InnerTyped
  <2> QED BY <1>2, <2>1, FencedQuiet DEF OuterKills, Working, Sending
<1>3. ASSUME OuterFinish(j, g) PROVE Fencing'
  <2>1. UNCHANGED innerAt /\ outerAt[j][g] \in OuterHolds
    BY <1>3 DEF OuterFinish, OuterHolds
  <2>2. \A k \in Job \ {j} : status'[k] = status[k] /\ generation'[k] = generation[k]
    BY <1>3, FinishAlone DEF OuterFinish
  <2> QED BY <2>1, <2>2, LockExcludes, FencedIdle
<1>4. ASSUME UNCHANGED <<status, generation, innerAt>> PROVE Fencing'
  BY <1>4, FencedQuiet
<1> QED BY <1>1, <1>2, <1>3, <1>4 DEF OuterStep, OuterSeesExit, OuterSeesStop, OuterGivesUp,
      OuterLock, OuterRead, OuterSavesStop, KillOuter, NoteStop

LEMMA FencingInner ==
  ASSUME Typing, LockOwnership, Fencing, NEW j \in Job, NEW g \in Generation,
         InnerStep(j, g) \/ KillInner(j, g)
  PROVE  Fencing'
<1> USE DEF rowVars, dataVars, bridgeVars, outerVars, innerVars, InnerKeeps
<1>1. ASSUME SaveCheckpoint(j, g) \/ SaveResult(j, g) \/ Invalidate(j, g) PROVE Fencing'
  BY <1>1, FencedQuiet DEF SaveCheckpoint, SaveResult, Invalidate, ExecWrite
<1>2. ASSUME \/ InnerLock(j, g) \/ InnerRead(j, g) \/ InnerLeaves(j, g) \/ KillInner(j, g)
             \/ BeginDelivery(j, g) \/ \E o \in Delivery : SettleDelivery(j, g, o)
             \/ ExecReturns(j, g) \/ ExecStale(j, g)
             \/ \E v \in {"interrupted", "timed_out", "failed"} : ExecRaises(j, g, v)
             \/ InnerReread(j, g) \/ InnerSavesFailure(j, g)
      PROVE  Fencing'
  <2>1. UNCHANGED <<status, generation>>
    BY <1>2 DEF InnerLock, InnerRead, InnerLeaves, KillInner, BeginDelivery, ExecWrite,
       SettleDelivery, ExecReturns, ExecStale, ExecRaises, InnerReread, InnerSavesFailure, NoteStop
  <2>2. \E at, v : /\ InnerGo(j, g, at, v)
                   /\ \/ Owns(j, g) \/ at \notin Working \/ innerAt[j][g] \in Working \ {"closing"}
    BY <1>2 DEF InnerLock, InnerRead, InnerLeaves, KillInner, BeginDelivery, ExecWrite, Fenced,
       SettleDelivery, ExecReturns, ExecStale, ExecRaises, InnerReread, InnerSavesFailure,
       Working, Sending
  <2> QED BY <2>1, <2>2, FencedMove
<1>3. ASSUME InputChanged(j, g) \/ InnerFinish(j, g) PROVE Fencing'
  <2>1. innerAt[j][g] \in InnerHolds
    BY <1>3 DEF InputChanged, InnerFinish, InnerHolds, InnerAlive, InnerAt
  <2>2. \A h \in Generation : innerAt[j][h] \in Working => h = g
    BY <2>1, LockExcludes
  <2>3. \A k \in Job \ {j} : status'[k] = status[k] /\ generation'[k] = generation[k]
    BY <1>3, FinishAlone DEF InputChanged, InnerFinish, Typing, RowTyped
  <2>4. CASE InputChanged(j, g)
    <3>1. \A k \in Job, h \in Generation :
            innerAt'[k][h] = IF k = j /\ h = g THEN "closing" ELSE innerAt[k][h]
      BY <2>4 DEF InputChanged, InnerGo, Typing, InnerTyped
    <3>2. generation[j] = g /\ UNCHANGED generation /\ j \notin IndexJob
      BY <2>4 DEF InputChanged, Fenced, Owns
    <3> QED BY <2>2, <2>3, <3>1, <3>2
            DEF Fencing, Owns
  <2>5. CASE InnerFinish(j, g)
    <3>1. \A k \in Job, h \in Generation :
            innerAt'[k][h] = IF k = j /\ h = g THEN "leaving" ELSE innerAt[k][h]
      BY <2>5 DEF InnerFinish, InnerGo, Typing, InnerTyped
    <3>2. "leaving" \notin Working
      BY DEF Working, Sending
    <3> QED BY <2>2, <2>3, <3>1, <3>2
            DEF Fencing, Owns
  <2> QED BY <1>3, <2>4, <2>5
<1> QED BY <1>1, <1>2, <1>3 DEF InnerStep

LEMMA FencingNext ==
  Typing /\ Fresh /\ LockOwnership /\ Fencing /\ [Next]_vars => Fencing'
<1> SUFFICES ASSUME Typing, Fresh, LockOwnership, Fencing, [Next]_vars PROVE Fencing'
  OBVIOUS
<1>1. ASSUME NEW b \in Bridge, \/ BridgeStart(b) \/ BridgeStop(b) \/ BridgeExit(b)
                               \/ ResumeLock(b) \/ ResumeJob(b)
      PROVE Fencing'
  <2>1. CASE Job = {}
    BY <2>1 DEF Fencing
  <2>2. CASE Job # {}
    BY <1>1, <2>2, FencingCommand
  <2> QED BY <2>1, <2>2
<1>2. ASSUME UNCHANGED vars PROVE Fencing'
  BY <1>2, FencedQuiet DEF vars, rowVars, innerVars
<1>3. ASSUME NEW j \in Job, SaveProgress(j) PROVE Fencing'
  BY <1>3, ProgressMoves, FencedQuiet DEF innerVars
<1> QED BY <1>1, <1>2, <1>3, FencingCommand, FencingSupervisor, FencingOuter, FencingInner DEF Next

\* The inductive invariant behind this module's theorems.
IInv == Typing /\ Fresh /\ SupervisorRuns /\ LockOwnership /\ Fencing

LEMMA IInvHolds == Spec => []IInv
<1>1. Init => Fencing
  BY DEF Init, Fencing, Working, Sending
<1>2. Init => IInv
  BY <1>1, InitTyping, InitLocks DEF IInv
<1>3. IInv /\ [Next]_vars => IInv'
  BY NextTyping, FreshNext, SupervisorRunsNext, LocksNext, FencingNext DEF IInv
<1> QED BY <1>2, <1>3, PTL DEF Spec

\* A process is past its flock exactly while the kernel records it as the
\* holder, for every number of jobs, listeners, restarts and kills
\* (analysis_ownership_lock).
THEOREM LocksOwned == Spec => []LockOwnership
<1>1. IInv => LockOwnership
  BY DEF IInv
<1> QED BY <1>1, IInvHolds, PTL

\* While an inner worker acts for an analysis job, its row is running at that
\* worker's generation: recovery, reaping and resume cannot overtake it
\* (run_analysis, recover_analysis_jobs, resume_job).
THEOREM ExecutorFenced == Spec => []ExecutorOwnsGeneration
<1>1. IInv => ExecutorOwnsGeneration
  BY FencingShows DEF IInv
<1> QED BY <1>1, IInvHolds, PTL

\* The worker of the index job either owns the running row or was superseded
\* by a rebuild: nothing else ends its run under it (queue_index_job).
THEOREM IndexWorkerFenced == Spec => []IndexWorkerSuperseded
<1>1. IInv => IndexWorkerSuperseded
  BY FencingShows DEF IInv
<1> QED BY <1>1, IInvHolds, PTL

-----------------------------------------------------------------------------
(***************************************************************************)
(* AnalysisJobs implements JobLifecycle                                    *)
(***************************************************************************)

\* The worker of a running row.  While IInv holds it is the worker of
\* LifecycleSpec (SameWorker); it is simpler to reason about, because a row
\* that is not running has none.
RunWorker(j) ==
  IF /\ status[j] = "running" /\ generation[j] \in Generation
     /\ innerAt[j][generation[j]] \in Working
  THEN generation[j] ELSE 0

Run == INSTANCE JobLifecycle
  WITH Service <- IndexJob, worker <- [j \in Job |-> RunWorker(j)]

Workers == [j \in Job |-> RunWorker(j)]

Maps == Run!Next \/ UNCHANGED <<status, generation, cancel, Workers>>

-----------------------------------------------------------------------------
(* What a step does to the worker of a job.                                *)

LEMMA NotRunningNoWorker ==
  ASSUME NEW j \in Job
  PROVE  /\ status[j] # "running" => RunWorker(j) = 0
         /\ status'[j] # "running" => RunWorker(j)' = 0
BY DEF RunWorker

LEMMA IdleNoWorker ==
  ASSUME NEW j \in Job
  PROVE  Idle(j) => RunWorker(j) = 0
BY DEF Idle, RunWorker

\* A job whose row and inner workers are as before has the same worker.
LEMMA WorkerKept ==
  ASSUME NEW j \in Job, status'[j] = status[j], generation'[j] = generation[j],
         \A g \in Generation : innerAt'[j][g] \in Working <=> innerAt[j][g] \in Working
  PROVE  RunWorker(j)' = RunWorker(j)
BY DEF RunWorker

\* A step that moves no row and no inner worker across Working is a stutter.
LEMMA Stutters ==
  ASSUME UNCHANGED <<status, generation, cancel>>,
         \A j \in Job : RunWorker(j)' = RunWorker(j)
  PROVE  Maps
BY DEF Maps, Workers

LEMMA WorkerEnds ==
  ASSUME NEW j \in Job, RunWorker(j)' = 0,
         \A k \in Job \ {j} : RunWorker(k)' = RunWorker(k)
  PROVE  Workers' = [Workers EXCEPT ![j] = 0]
BY DEF Workers

LEMMA Quiet ==
  ASSUME UNCHANGED <<status, generation, cancel>>,
         \A j \in Job, g \in Generation : innerAt'[j][g] \in Working <=> innerAt[j][g] \in Working
  PROVE  Maps
BY WorkerKept, Stutters

LEMMA MapsSubmit ==
  ASSUME Typing, UNCHANGED <<generation, cancel, innerAt>>,
         NEW j \in Job, status[j] = "absent", status' = [status EXCEPT ![j] = "queued"]
  PROVE  Maps
<1>1. \A k \in Job : RunWorker(k)' = RunWorker(k)
  BY NotRunningNoWorker, WorkerKept DEF Typing, RowTyped
<1>2. Run!Submit(j)
  BY <1>1 DEF Run!Submit
<1> QED BY <1>2 DEF Maps, Run!Next

LEMMA MapsWriteOff ==
  ASSUME Typing, NEW j \in Job, NEW g \in Generation, NEW v \in Stopped, FinishJob(j, g, v),
         UNCHANGED innerAt, RunWorker(j) = 0
  PROVE  Maps
<1> DEFINE w == FinalStatus(j, v)
<1>1. /\ w \in Stopped /\ status' = [status EXCEPT ![j] = w]
      /\ w \in {"failed", "timed_out", "interrupted"} => ~cancel[j]
  <2>1. w \in Stopped
    BY DEF FinalStatus, Stopped, Terminal
  <2>2. w \in {"failed", "timed_out", "interrupted"} => ~cancel[j]
    BY DEF FinalStatus, Stopped, Terminal
  <2> QED BY <2>1, <2>2 DEF FinishJob
<1> HIDE DEF w
<1>2. w # "running" /\ status[j] = "running" /\ UNCHANGED <<generation, cancel>>
  BY <1>1 DEF FinishJob, Owns, Stopped, Terminal
<1>3. status'[j] # "running" /\ \A k \in Job \ {j} : status'[k] = status[k]
  BY <1>1, <1>2 DEF Typing, RowTyped
<1>4. \A k \in Job : RunWorker(k)' = RunWorker(k)
  BY <1>2, <1>3, NotRunningNoWorker, WorkerKept
<1>5. Run!Finish(j, w)
  BY <1>1, <1>2, <1>4 DEF Run!Finish, Run!Success, Stopped, Terminal
<1>6. Run!WriteOff(j)
  BY <1>1, <1>5 DEF Run!WriteOff, Run!Stopped, Stopped, Terminal
<1> QED BY <1>6 DEF Maps, Run!Next

LEMMA MapsRequeue ==
  ASSUME Typing, NEW j \in Job, Requeue(j), UNCHANGED innerAt,
         \/ status[j] \in Terminal \ {"cancelled"}
         \/ j \in IndexJob /\ status[j] # "absent"
  PROVE  Maps
<1>1. /\ status' = [status EXCEPT ![j] = "queued"]
      /\ generation' = [generation EXCEPT ![j] = @ + 1]
      /\ cancel' = [cancel EXCEPT ![j] = FALSE]
  BY DEF Requeue
<1>2. status'[j] # "running"
      /\ \A k \in Job \ {j} : status'[k] = status[k] /\ generation'[k] = generation[k]
  BY <1>1 DEF Typing, RowTyped
<1>3. RunWorker(j)' = 0 /\ \A k \in Job \ {j} : RunWorker(k)' = RunWorker(k)
  BY <1>2, NotRunningNoWorker, WorkerKept
<1>4. status[j] \in Terminal => RunWorker(j) = 0
  BY NotRunningNoWorker DEF Terminal
<1>5. Run!Requeue(j)
  BY <1>1, <1>3, <1>4 DEF Run!Requeue, Run!Terminal, Run!Success,
     Run!Stopped, Terminal
<1> QED BY <1>5 DEF Maps, Run!Next

LEMMA MapsClaim ==
  ASSUME Typing, UNCHANGED <<cancel, innerAt>>, NEW j \in Job, Idle(j),
         status[j] = "queued", ~cancel[j],
         status' = [status EXCEPT ![j] = "running"],
         generation' = [generation EXCEPT ![j] = @ + 1]
  PROVE  Maps
<1>1. RunWorker(j) = 0
  BY IdleNoWorker
<1>2. RunWorker(j)' = 0
  BY DEF Idle, RunWorker
<1>3. \A k \in Job \ {j} : RunWorker(k)' = RunWorker(k)
  <2>1. \A k \in Job \ {j} : status'[k] = status[k] /\ generation'[k] = generation[k]
    BY DEF Typing, RowTyped
  <2> QED BY <2>1, WorkerKept
<1>4. \A k \in Job : RunWorker(k)' = RunWorker(k)
  BY <1>1, <1>2, <1>3
<1>5. Run!Claim(j)
  BY <1>1, <1>4 DEF Run!Claim
<1> QED BY <1>5 DEF Maps, Run!Next

LEMMA RefineSupervisor ==
  ASSUME IInv, SupervisorStep
  PROVE  Maps
<1> USE DEF SupKeeps, rowVars, dataVars, outerVars, innerVars
<1>0. Typing /\ Fresh /\ LockOwnership /\ UNCHANGED innerAt
  BY DEF IInv, SupervisorStep, SupSkip, ReapRead, RecoverRead, ClaimRead, ReapLock, RecoverLock,
         SupTryLock, ReapFinish, RecoverFinish, SupFinish, RecoverStale, SupervisorFails, ClaimJob,
         Launch, LaunchFails
<1>1. ASSUME UNCHANGED rowVars PROVE Maps
  BY <1>0, <1>1, Quiet
<1>2. ASSUME ReapFinish \/ RecoverFinish PROVE Maps
  <2>1. /\ sup.job \in Job /\ sup.at \in SupHolds /\ sup.gen \in Generation /\ sup.note \in Stopped
        /\ FinishJob(sup.job, sup.gen, sup.note)
    BY <1>0, <1>2 DEF ReapFinish, RecoverFinish, SupFinish, SupHolds, Typing, SupTyped
  <2>2. RunWorker(sup.job) = 0
    BY <1>0, <2>1, LockExcludes, IdleNoWorker
  <2> QED BY <1>0, <2>1, <2>2, MapsWriteOff
<1>3. ASSUME ClaimJob, Claimable(sup.job) PROVE Maps
  <2>1. sup.job \in Job /\ sup.at = "claimTx"
    BY <1>0, <1>3 DEF ClaimJob, Typing, SupTyped
  <2>2. /\ status[sup.job] = "queued" /\ ~cancel[sup.job] /\ UNCHANGED cancel
        /\ status' = [status EXCEPT ![sup.job] = "running"]
        /\ generation' = [generation EXCEPT ![sup.job] = @ + 1]
    BY <1>3 DEF ClaimJob, Claimable
  <2>3. Idle(sup.job)
    BY <1>0, <2>1, LockExcludes DEF SupHolds
  <2> QED BY <1>0, <2>1, <2>2, <2>3, MapsClaim
<1>4. ASSUME ClaimJob, ~Claimable(sup.job) PROVE Maps
  BY <1>1, <1>4 DEF ClaimJob
<1>5. ASSUME LaunchFails PROVE Maps
  <2>1. /\ sup.job \in Job /\ sup.gen \in Generation
        /\ FinishJob(sup.job, sup.gen, "failed") /\ innerAt[sup.job][sup.gen] = "none"
    BY <1>0, <1>5 DEF LaunchFails, Typing, SupTyped, Fresh
  <2>2. RunWorker(sup.job) = 0
    BY <2>1 DEF RunWorker, FinishJob, Owns, Working, Sending
  <2>3. "failed" \in Stopped
    BY DEF Stopped, Terminal
  <2> QED BY <1>0, <2>1, <2>2, <2>3, MapsWriteOff
<1> QED BY <1>1, <1>2, <1>3, <1>4, <1>5 DEF SupervisorStep, SupSkip, ReapRead, RecoverRead,
      ClaimRead, ReapLock, RecoverLock, SupTryLock, RecoverStale, SupervisorFails, Launch

LEMMA RefineListener ==
  ASSUME IInv, NEW b \in Bridge,
         BridgeStart(b) \/ BridgeStop(b) \/ BridgeExit(b) \/ ResumeLock(b) \/ ResumeJob(b)
  PROVE  Maps
<1> USE DEF rowVars, dataVars, outerVars, innerVars
<1>1. ASSUME BridgeStart(b) \/ BridgeStop(b) \/ BridgeExit(b) \/ ResumeLock(b) PROVE Maps
  BY <1>1, Quiet DEF BridgeStart, BridgeStop, BridgeExit, ResumeLock
<1>2. ASSUME ResumeJob(b) PROVE Maps
  <2>1. Typing /\ ctl[b].job \in Job /\ UNCHANGED innerAt
    BY <1>2 DEF IInv, ResumeJob, Typing, CtlTyped
  <2>2. CASE StillResumable(ctl[b].job, ctl[b].gen) /\ Requeue(ctl[b].job)
    BY <2>1, <2>2, MapsRequeue DEF StillResumable, ResumableStatus, Terminal
  <2>3. CASE UNCHANGED <<status, generation, cancel>>
    BY <2>1, <2>3, Quiet
  <2> QED BY <1>2, <2>2, <2>3 DEF ResumeJob
<1> QED BY <1>1, <1>2

LEMMA RefineCommand ==
  ASSUME IInv, NEW j \in Job,
         \/ \E b \in Bridge : AdmitJob(b, j) \/ RequestCancel(b, j) \/ ResumeRead(b, j)
         \/ \E rebuild \in BOOLEAN : QueueIndexJob(j, rebuild)
         \/ \E k \in Job, g \in Generation : PruneJob(j, k, g)
  PROVE  Maps
<1> USE DEF rowVars, dataVars, bridgeVars, outerVars, innerVars
<1>0. Typing
  BY DEF IInv
<1>1. ASSUME NEW b \in Bridge, AdmitJob(b, j) PROVE Maps
  BY <1>0, <1>1, MapsSubmit DEF AdmitJob
<1>2. ASSUME NEW b \in Bridge, RequestCancel(b, j) PROVE Maps
  <2>1. /\ status[j] \in {"queued", "running"} /\ UNCHANGED <<generation, innerAt>>
        /\ cancel' = [cancel EXCEPT ![j] = TRUE]
        /\ status' = [status EXCEPT ![j] = IF @ = "queued" THEN "cancelled" ELSE @]
    BY <1>2 DEF RequestCancel
  <2>2. \A k \in Job : status'[k] = status[k]
                       \/ (status[k] # "running" /\ status'[k] # "running")
    BY <1>0, <2>1 DEF Typing, RowTyped
  <2>3. \A k \in Job : RunWorker(k)' = RunWorker(k)
    BY <2>1, <2>2, NotRunningNoWorker, WorkerKept
  <2>4. Run!Cancel(j)
    BY <2>1, <2>3 DEF Run!Cancel
  <2> QED BY <2>4 DEF Maps, Run!Next
<1>3. ASSUME NEW b \in Bridge, ResumeRead(b, j) PROVE Maps
  BY <1>3, Quiet DEF ResumeRead
<1>4. ASSUME NEW rebuild \in BOOLEAN, QueueIndexJob(j, rebuild) PROVE Maps
  <2>1. CASE status[j] = "absent"
    BY <1>0, <1>4, <2>1, MapsSubmit DEF QueueIndexJob
  <2>2. CASE status[j] # "absent"
    BY <1>0, <1>4, <2>2, MapsRequeue DEF QueueIndexJob
  <2> QED BY <2>1, <2>2
<1>5. ASSUME NEW k \in Job, NEW g \in Generation, PruneJob(j, k, g) PROVE Maps
  <2>1. /\ j \notin IndexJob /\ status[j] \in Terminal /\ UNCHANGED <<generation, cancel, innerAt>>
        /\ status' = [status EXCEPT ![j] = "pruned"]
    BY <1>5 DEF PruneJob
  <2>2. \A i \in Job : status'[i] = status[i]
                       \/ (status[i] # "running" /\ status'[i] # "running")
    BY <1>0, <2>1 DEF Typing, RowTyped, Terminal
  <2>3. \A i \in Job : RunWorker(i)' = RunWorker(i)
    BY <2>1, <2>2, NotRunningNoWorker, WorkerKept
  <2>4. Run!Prune(j)
    BY <2>1, <2>3 DEF Run!Prune, Run!Terminal, Run!Success, Run!Stopped, Terminal
  <2> QED BY <2>4 DEF Maps, Run!Next
<1> QED BY <1>1, <1>2, <1>3, <1>4, <1>5

\* A worker that begins, goes on, or ends without an outcome.
LEMMA MapsInnerMove ==
  ASSUME Typing, LockOwnership, UNCHANGED <<status, generation, cancel>>,
         NEW j \in Job, NEW g \in Generation, NEW at,
         \A k \in Job, h \in Generation :
           innerAt'[k][h] = IF k = j /\ h = g THEN at ELSE innerAt[k][h]
  PROVE  Maps
<1>1. \A k \in Job \ {j} : RunWorker(k)' = RunWorker(k)
  BY WorkerKept
<1>2. CASE ~Owns(j, g)
  <2>1. RunWorker(j)' = RunWorker(j)
    BY <1>2 DEF RunWorker, Owns
  <2> QED BY <1>1, <2>1, Stutters
<1>3. CASE Owns(j, g) /\ (at \in Working <=> innerAt[j][g] \in Working)
  BY <1>3, Quiet
<1>4. CASE Owns(j, g) /\ at \in Working /\ innerAt[j][g] \notin Working
  <2>1. RunWorker(j) = 0 /\ RunWorker(j)' = g /\ generation[j] = g /\ status[j] = "running"
    BY <1>4 DEF RunWorker, Owns
  <2>2. Run!Begin(j)
    BY <1>1, <2>1 DEF Run!Begin
  <2> QED BY <2>2 DEF Maps, Run!Next
<1>5. CASE Owns(j, g) /\ at \notin Working /\ innerAt[j][g] \in Working
  <2>1. RunWorker(j) = g /\ RunWorker(j)' = 0 /\ g # 0
    BY <1>5 DEF RunWorker, Owns, Generation
  <2>2. Workers' = [Workers EXCEPT ![j] = 0] /\ Workers[j] # 0
    <3>1. Workers[j] # 0
      BY <2>1 DEF Workers
    <3> QED BY <1>1, <2>1, <3>1, WorkerEnds
  <2>3. Run!Abandon(j)
    BY <2>2 DEF Run!Abandon, Workers
  <2> QED BY <2>3 DEF Maps, Run!Next
<1> QED BY <1>2, <1>3, <1>4, <1>5

LEMMA RefineOuter ==
  ASSUME IInv, NEW j \in Job, NEW g \in Generation,
         \/ OuterStep(j, g) \/ KillOuter(j, g)
         \/ OuterGivesUp(j, g, "interrupted") \/ OuterGivesUp(j, g, "failed")
  PROVE  Maps
<1> USE DEF rowVars, dataVars, bridgeVars, innerVars, OuterKeeps
<1>0. Typing /\ Fresh /\ LockOwnership
  BY DEF IInv
<1>1. ASSUME OuterStart(j, g) PROVE Maps
  <2>1. \A k \in Job, h \in Generation : innerAt'[k][h] = innerAt[k][h]
          \/ (innerAt'[k][h] = "starting" /\ innerAt[k][h] = "none")
    BY <1>0, <1>1 DEF OuterStart, Typing, InnerTyped, Fresh
  <2> QED BY <1>1, <2>1, Quiet DEF OuterStart, Working, Sending
<1>2. ASSUME OuterKills(j, g) PROVE Maps
  <2>1. \A k \in Job, h \in Generation :
          innerAt'[k][h] = IF k = j /\ h = g THEN "gone" ELSE innerAt[k][h]
    BY <1>0, <1>2 DEF OuterKills, Typing, InnerTyped
  <2> QED BY <1>0, <1>2, <2>1, MapsInnerMove DEF OuterKills
<1>3. ASSUME OuterFinish(j, g) PROVE Maps
  <2>1. UNCHANGED innerAt /\ outerAt[j][g] \in OuterHolds /\ outerNote[j][g] \in Stopped
    BY <1>0, <1>3 DEF OuterFinish, OuterHolds, Typing, OuterTyped
  <2>2. CASE FinishJob(j, g, outerNote[j][g])
    BY <1>0, <2>1, <2>2, LockExcludes, IdleNoWorker, MapsWriteOff
  <2>3. CASE UNCHANGED rowVars
    BY <2>1, <2>3, Quiet
  <2> QED BY <1>3, <2>2, <2>3 DEF OuterFinish
<1>4. ASSUME UNCHANGED <<status, generation, cancel, innerAt>> PROVE Maps
  BY <1>4, Quiet
<1> QED BY <1>1, <1>2, <1>3, <1>4 DEF OuterStep, OuterSeesExit, OuterSeesStop, OuterGivesUp,
      OuterLock, OuterRead, OuterSavesStop, KillOuter, NoteStop

\* The worker's own outcome: it owns the row and ceases to be its worker.
LEMMA MapsReport ==
  ASSUME Typing, LockOwnership, NEW j \in Job, NEW g \in Generation, NEW w \in Terminal,
         innerAt[j][g] \in Working, Owns(j, g), UNCHANGED <<generation, cancel>>,
         status' = [status EXCEPT ![j] = w],
         w \in {"failed", "timed_out", "interrupted"} => ~cancel[j],
         \A k \in Job \ {j}, h \in Generation : innerAt'[k][h] = innerAt[k][h]
  PROVE  Maps
<1>1. status'[j] # "running" /\ \A k \in Job \ {j} : status'[k] = status[k]
  BY DEF Typing, RowTyped, Terminal
<1>2. RunWorker(j)' = 0 /\ \A k \in Job \ {j} : RunWorker(k)' = RunWorker(k)
  BY <1>1, NotRunningNoWorker, WorkerKept
<1>3. RunWorker(j) = g /\ generation[j] = g /\ status[j] = "running" /\ g # 0
  BY DEF RunWorker, Owns, Generation
<1>4. Run!Finish(j, w)
  <2>1. Workers' = [Workers EXCEPT ![j] = 0] /\ Workers[j] = generation[j]
    <3>1. Workers[j] = generation[j]
      BY <1>3 DEF Workers
    <3> QED BY <1>2, <3>1, WorkerEnds
  <2> QED BY <1>3, <2>1 DEF Run!Finish, Workers
<1>5. Run!Report(j)
  BY <1>3, <1>4 DEF Run!Report, Run!Terminal, Run!Success, Run!Stopped, Terminal
<1> QED BY <1>5 DEF Maps, Run!Next

LEMMA RefineInner ==
  ASSUME IInv, NEW j \in Job, NEW g \in Generation, InnerStep(j, g) \/ KillInner(j, g)
  PROVE  Maps
<1> USE DEF rowVars, dataVars, bridgeVars, outerVars, innerVars, InnerKeeps
<1>0. Typing /\ LockOwnership
  BY DEF IInv
<1>1. ASSUME SaveCheckpoint(j, g) \/ SaveResult(j, g) \/ Invalidate(j, g) PROVE Maps
  BY <1>1, Quiet DEF SaveCheckpoint, SaveResult, Invalidate, ExecWrite
<1>2. ASSUME NEW at, NEW v, InnerGo(j, g, at, v), UNCHANGED <<status, generation, cancel>> PROVE Maps
  <2>1. \A k \in Job, h \in Generation :
          innerAt'[k][h] = IF k = j /\ h = g THEN at ELSE innerAt[k][h]
    BY <1>0, <1>2 DEF InnerGo, Typing, InnerTyped
  <2> QED BY <1>0, <1>2, <2>1, MapsInnerMove
<1>3. ASSUME \/ InnerLock(j, g) \/ InnerRead(j, g) \/ InnerLeaves(j, g) \/ KillInner(j, g)
             \/ BeginDelivery(j, g) \/ \E o \in Delivery : SettleDelivery(j, g, o)
             \/ ExecReturns(j, g) \/ ExecStale(j, g)
             \/ \E v \in {"interrupted", "timed_out", "failed"} : ExecRaises(j, g, v)
             \/ InnerReread(j, g) \/ InnerSavesFailure(j, g)
      PROVE  Maps
  <2>1. UNCHANGED <<status, generation, cancel>>
    BY <1>3 DEF InnerLock, InnerRead, InnerLeaves, KillInner, BeginDelivery, ExecWrite,
       SettleDelivery, ExecReturns, ExecStale, ExecRaises, InnerReread, InnerSavesFailure, NoteStop
  <2>2. \E at, v : InnerGo(j, g, at, v)
    BY <1>3 DEF InnerLock, InnerRead, InnerLeaves, KillInner, BeginDelivery, ExecWrite,
       SettleDelivery, ExecReturns, ExecStale, ExecRaises, InnerReread, InnerSavesFailure
  <2> QED BY <1>2, <2>1, <2>2
<1>4. ASSUME InputChanged(j, g) PROVE Maps
  <2>1. /\ innerAt[j][g] \in Working /\ Owns(j, g) /\ ~cancel[j] /\ "interrupted" \in Terminal
        /\ UNCHANGED <<generation, cancel>> /\ status' = [status EXCEPT ![j] = "interrupted"]
    BY <1>4 DEF InputChanged, Fenced, Working, Terminal
  <2>2. \A k \in Job \ {j}, h \in Generation : innerAt'[k][h] = innerAt[k][h]
    BY <1>0, <1>4 DEF InputChanged, InnerGo, Typing, InnerTyped
  <2> QED BY <1>0, <2>1, <2>2, MapsReport
<1>5. ASSUME InnerFinish(j, g) PROVE Maps
  <2>1. innerAt[j][g] \in Working /\ innerNote[j][g] \in Terminal
    BY <1>0, <1>5 DEF InnerFinish, Working, Typing, InnerTyped
  <2>2. CASE FinishJob(j, g, innerNote[j][g])
    <3> DEFINE w == FinalStatus(j, innerNote[j][g])
    <3>1. w \in Terminal /\ (w \in {"failed", "timed_out", "interrupted"} => ~cancel[j])
      BY <2>1 DEF FinalStatus, Terminal
    <3>2. status' = [status EXCEPT ![j] = w] /\ Owns(j, g) /\ UNCHANGED <<generation, cancel>>
      BY <2>2 DEF FinishJob
    <3>3. \A k \in Job \ {j}, h \in Generation : innerAt'[k][h] = innerAt[k][h]
      BY <1>0, <1>5 DEF InnerFinish, InnerGo, Typing, InnerTyped
    <3> HIDE DEF w
    <3> QED BY <1>0, <2>1, <3>1, <3>2, <3>3, MapsReport
  <2>3. CASE UNCHANGED rowVars
    BY <1>2, <1>5, <2>3 DEF InnerFinish
  <2> QED BY <1>5, <2>2, <2>3 DEF InnerFinish
<1> QED BY <1>1, <1>3, <1>4, <1>5 DEF InnerStep

LEMMA StepMaps == IInv /\ [Next]_vars => Maps
<1> SUFFICES ASSUME IInv, [Next]_vars PROVE Maps
  OBVIOUS
<1>1. ASSUME UNCHANGED vars PROVE Maps
  BY <1>1, Quiet DEF vars, rowVars, innerVars
<1>2. ASSUME NEW j \in Job, SaveProgress(j) PROVE Maps
  BY <1>2, ProgressMoves, Quiet DEF innerVars
<1> QED BY <1>1, <1>2, RefineListener, RefineCommand, RefineSupervisor, RefineOuter, RefineInner DEF Next

LEMMA StepRefines == IInv /\ [Next]_vars => [Run!Next]_Run!vars
BY StepMaps DEF Maps, Run!vars, Workers

LEMMA InitRefines == Init => Run!Init
BY NotRunningNoWorker DEF Init, Run!Init

\* Nobody acts for a run that is over (ExecutorOwnsGeneration and
\* IndexWorkerSuperseded), so the two readings of "worker" agree.
LEMMA SameWorker ==
  ASSUME IInv, NEW j \in Job
  PROVE  CurrentWorker(j) = RunWorker(j)
<1>1. CASE generation[j] \in Generation /\ Acts(j, generation[j])
  <2>1. status[j] = "running"
    BY <1>1 DEF Acts, IInv, Fencing, ExecutorOwnsGeneration, IndexWorkerSuperseded, Owns, Generation
  <2> QED BY <1>1, <2>1 DEF Acts, CurrentWorker, RunWorker
<1>2. CASE ~(generation[j] \in Generation /\ Acts(j, generation[j]))
  BY <1>2 DEF Acts, CurrentWorker, RunWorker
<1> QED BY <1>1, <1>2

LEMMA SameWorkers ==
  IInv => [j \in Job |-> CurrentWorker(j)] = [j \in Job |-> RunWorker(j)]
BY SameWorker

\* The processes together keep the promise of JobLifecycle: one worker at a
\* time per job, success reported only by that worker, a run written off only
\* when nobody carries it, cancelled jobs over (run_analysis,
\* run_analysis_with_ttl, BridgeSupervisor._tick, AnalysisStore).
THEOREM ImplementsLifecycle == Spec => LifecycleSpec
<1>1. Init => Lifecycle!Init
  BY DEF Init, Lifecycle!Init, CurrentWorker, Acts, Working, Sending
<1>2. IInv /\ IInv' /\ [Next]_vars => [Lifecycle!Next]_(Lifecycle!vars)
  <2> SUFFICES ASSUME IInv, IInv', [Next]_vars PROVE [Lifecycle!Next]_(Lifecycle!vars)
    OBVIOUS
  <2>1. [j \in Job |-> CurrentWorker(j)] = [j \in Job |-> RunWorker(j)]
    BY SameWorkers
  <2>2. ([j \in Job |-> CurrentWorker(j)] = [j \in Job |-> RunWorker(j)])'
    BY SameWorkers, PTL
  <2>3. [Run!Next]_(Run!vars)
    BY StepRefines
  <2>4. ASSUME NEW j \in Job, Run!Submit(j) PROVE Lifecycle!Submit(j)
    BY <2>4, <2>1, <2>2 DEF Run!Submit, Lifecycle!Submit
  <2>5. ASSUME NEW j \in Job, Run!Claim(j) PROVE Lifecycle!Claim(j)
    BY <2>5, <2>1, <2>2 DEF Run!Claim, Lifecycle!Claim
  <2>6. ASSUME NEW j \in Job, Run!Begin(j) PROVE Lifecycle!Begin(j)
    BY <2>6, <2>1, <2>2 DEF Run!Begin, Lifecycle!Begin
  <2>7. ASSUME NEW j \in Job, Run!Abandon(j) PROVE Lifecycle!Abandon(j)
    BY <2>7, <2>1, <2>2 DEF Run!Abandon, Lifecycle!Abandon
  <2>8. ASSUME NEW j \in Job, Run!Cancel(j) PROVE Lifecycle!Cancel(j)
    BY <2>8, <2>1, <2>2 DEF Run!Cancel, Lifecycle!Cancel
  <2>9. ASSUME NEW j \in Job, Run!Requeue(j) PROVE Lifecycle!Requeue(j)
    BY <2>9, <2>1, <2>2 DEF Run!Requeue, Lifecycle!Requeue, Run!Terminal, Run!Success, Run!Stopped, Lifecycle!Terminal, Lifecycle!Success, Lifecycle!Stopped
  <2>10. ASSUME NEW j \in Job, Run!Prune(j) PROVE Lifecycle!Prune(j)
    BY <2>10, <2>1, <2>2 DEF Run!Prune, Lifecycle!Prune, Run!Terminal, Run!Success, Run!Stopped, Lifecycle!Terminal, Lifecycle!Success, Lifecycle!Stopped
  <2>11. ASSUME NEW j \in Job, NEW v, Run!Finish(j, v) PROVE Lifecycle!Finish(j, v)
    BY <2>11, <2>1, <2>2 DEF Run!Finish, Lifecycle!Finish, Run!Success, Lifecycle!Success
  <2>12. ASSUME NEW j \in Job, Run!Report(j) PROVE Lifecycle!Report(j)
    BY <2>12, <2>11, <2>1 DEF Run!Report, Lifecycle!Report, Run!Terminal, Run!Success, Run!Stopped,
       Lifecycle!Terminal, Lifecycle!Success, Lifecycle!Stopped
  <2>13. ASSUME NEW j \in Job, Run!WriteOff(j) PROVE Lifecycle!WriteOff(j)
    BY <2>13, <2>11, <2>1 DEF Run!WriteOff, Lifecycle!WriteOff, Run!Stopped, Lifecycle!Stopped
  <2>14. Run!Next => Lifecycle!Next
    BY <2>4, <2>5, <2>6, <2>7, <2>8, <2>9, <2>10, <2>12, <2>13 DEF Run!Next, Lifecycle!Next
  <2>15. UNCHANGED Run!vars => UNCHANGED Lifecycle!vars
    BY <2>1, <2>2 DEF Run!vars, Lifecycle!vars
  <2> QED BY <2>3, <2>14, <2>15
<1> QED BY <1>1, <1>2, IInvHolds, PTL DEF Spec, LifecycleSpec, Lifecycle!Spec

-----------------------------------------------------------------------------
(* Consequences: what the abstract life of a job already excludes.         *)

\* A step of the lifecycle moves the row of one job.
LEMMA RowMoves ==
  ASSUME Typing, Maps
  PROVE  \/ UNCHANGED <<status, generation, cancel>>
         \/ \E j \in Job :
              /\ \A k \in Job \ {j} : status'[k] = status[k] /\ cancel'[k] = cancel[k]
              /\ \/ status[j] = "absent" /\ status'[j] = "queued"
                 \/ status[j] = "queued" /\ status'[j] = "running"
                 \/ /\ status[j] = "running" /\ cancel'[j] = cancel[j]
                    /\ status'[j] \in {"failed", "timed_out", "interrupted"} => ~cancel[j]
                 \/ status[j] = "queued" /\ status'[j] = "cancelled"
                 \/ status[j] = "running" /\ status'[j] = "running"
                 \/ /\ status'[j] = "queued"
                    /\ j \in IndexJob \/ status[j] # "cancelled"
                    /\ generation'[j] = generation[j] + 1
                 \/ j \notin IndexJob /\ status'[j] = "pruned"
<1>1. /\ status \in [Job -> Status] /\ cancel \in [Job -> BOOLEAN]
      /\ generation \in [Job -> 0 .. MaxGeneration]
  BY DEF Typing, RowTyped
<1>2. ASSUME NEW j \in Job, Run!Submit(j)
      PROVE  /\ \A k \in Job \ {j} : status'[k] = status[k] /\ cancel'[k] = cancel[k]
             /\ status[j] = "absent" /\ status'[j] = "queued"
  BY <1>1, <1>2 DEF Run!Submit
<1>3. ASSUME NEW j \in Job, Run!Claim(j)
      PROVE  /\ \A k \in Job \ {j} : status'[k] = status[k] /\ cancel'[k] = cancel[k]
             /\ status[j] = "queued" /\ status'[j] = "running"
  BY <1>1, <1>3 DEF Run!Claim
<1>4. ASSUME NEW j \in Job, Run!Begin(j) \/ Run!Abandon(j)
      PROVE  UNCHANGED <<status, generation, cancel>>
  BY <1>4 DEF Run!Begin, Run!Abandon
<1>5. ASSUME NEW j \in Job, NEW v, Run!Finish(j, v)
      PROVE  /\ \A k \in Job \ {j} : status'[k] = status[k] /\ cancel'[k] = cancel[k]
             /\ status[j] = "running" /\ cancel'[j] = cancel[j]
             /\ status'[j] \in {"failed", "timed_out", "interrupted"} => ~cancel[j]
  BY <1>1, <1>5 DEF Run!Finish
<1>6. ASSUME NEW j \in Job, Run!Cancel(j)
      PROVE  /\ \A k \in Job \ {j} : status'[k] = status[k] /\ cancel'[k] = cancel[k]
             /\ \/ status[j] = "queued" /\ status'[j] = "cancelled"
                \/ status[j] = "running" /\ status'[j] = "running"
  BY <1>1, <1>6 DEF Run!Cancel
<1>7. ASSUME NEW j \in Job, Run!Requeue(j)
      PROVE  /\ \A k \in Job \ {j} : status'[k] = status[k] /\ cancel'[k] = cancel[k]
             /\ status'[j] = "queued" /\ (j \in IndexJob \/ status[j] # "cancelled")
             /\ generation'[j] = generation[j] + 1
  BY <1>1, <1>7 DEF Run!Requeue
<1>8. ASSUME NEW j \in Job, Run!Prune(j)
      PROVE  /\ \A k \in Job \ {j} : status'[k] = status[k] /\ cancel'[k] = cancel[k]
             /\ j \notin IndexJob /\ status'[j] = "pruned"
  BY <1>1, <1>8 DEF Run!Prune
<1> QED BY <1>2, <1>3, <1>4, <1>5, <1>6, <1>7, <1>8
        DEF Maps, Run!Next, Run!Report, Run!WriteOff

\* "Cancelled jobs remain terminal": any other ended run is left only for a
\* new generation or by pruning (finish_job, resume_job, prune_expired).
THEOREM TerminalFinal == Spec => TerminalIsFinal
<1> DEFINE Final == \A j \in Job \ IndexJob :
       status[j] \in Terminal /\ status'[j] # status[j] =>
         \/ status'[j] = "pruned"
         \/ /\ status'[j] = "queued" /\ status[j] # "cancelled"
            /\ generation'[j] = generation[j] + 1
<1>1. IInv /\ [Next]_vars => Final
  <2> SUFFICES ASSUME IInv, [Next]_vars PROVE Final
    OBVIOUS
  <2> QED BY RowMoves, StepMaps DEF IInv, Terminal
<1> HIDE DEF Final
<1>2. Spec => [][Final]_vars
  BY <1>1, IInvHolds, PTL DEF Spec
<1> QED BY <1>2 DEF TerminalIsFinal, Final

\* An accepted cancellation is never recorded as another way of stopping
\* (finish_job's CASE, request_cancel, interrupt_changed_input).
THEOREM CancelKept == Spec => []CancelNotLost
<1>1. Init => CancelNotLost
  BY DEF Init, CancelNotLost
<1>2. IInv /\ CancelNotLost /\ [Next]_vars => CancelNotLost'
  <2> SUFFICES ASSUME IInv, CancelNotLost, [Next]_vars PROVE CancelNotLost'
    OBVIOUS
  <2> QED BY RowMoves, StepMaps DEF IInv, CancelNotLost
<1> QED BY <1>1, <1>2, IInvHolds, PTL DEF Spec

-----------------------------------------------------------------------------
(***************************************************************************)
(* Results and limits                                                      *)
(***************************************************************************)

\* The worker has an answer of Telegram to enter, or a success to report.
Reporting(j, g) ==
  \/ innerAt[j][g] \in Sending
  \/ innerAt[j][g] \in {"closing", "noting", "finishing"} /\ innerNote[j][g] = "completed"

\* A result that was reported, sent, or is about to be, is saved.
Results ==
  \A j \in Job \ IndexJob :
    /\ status[j] = "completed" \/ delivery[j] # "none" => result[j]
    /\ \A g \in Generation : Reporting(j, g) => result[j]

\* Steps that neither complete a job nor touch a result or an inner worker.
LEMMA ResultsQuiet ==
  ASSUME Results, UNCHANGED <<result, delivery, innerAt, innerNote>>,
         \A k \in Job : status'[k] = "completed" => status[k] = "completed"
  PROVE  Results'
BY DEF Results, Reporting

\* finish_job with a stop reason completes nothing.
LEMMA StopCompletesNothing ==
  ASSUME Typing, NEW j \in Job, NEW g, NEW v \in Stopped, FinishJob(j, g, v)
  PROVE  \A k \in Job : status'[k] = "completed" => status[k] = "completed"
<1>1. FinalStatus(j, v) # "completed"
  BY DEF FinalStatus, Stopped
<1> QED
  BY <1>1 DEF FinishJob, Typing, RowTyped

LEMMA RequeueCompletesNothing ==
  ASSUME Typing, NEW j \in Job, Requeue(j)
  PROVE  \A k \in Job : status'[k] = "completed" => status[k] = "completed"
BY DEF Requeue, Typing, RowTyped

LEMMA ResultsSupervisor ==
  ASSUME Typing, Results, SupervisorStep PROVE Results'
<1> USE DEF SupKeeps, rowVars, dataVars, outerVars, innerVars
<1>1. ASSUME UNCHANGED <<rowVars, innerVars>> PROVE Results'
  BY <1>1, ResultsQuiet
<1>2. ASSUME ReapFinish \/ RecoverFinish PROVE Results'
  <2>1. sup.job \in Job /\ sup.note \in Stopped /\ FinishJob(sup.job, sup.gen, sup.note)
    BY <1>2 DEF ReapFinish, RecoverFinish, SupFinish, Typing, SupTyped
  <2>2. UNCHANGED <<result, delivery, innerAt, innerNote>>
    BY <1>2 DEF ReapFinish, RecoverFinish, SupFinish, FinishJob
  <2> QED
    BY <2>1, <2>2, StopCompletesNothing, ResultsQuiet
<1>3. ASSUME ClaimJob PROVE Results'
  <2>1. UNCHANGED <<result, delivery, innerAt, innerNote>>
    BY <1>3 DEF ClaimJob
  <2>2. \A k \in Job : status'[k] = "completed" => status[k] = "completed"
    BY <1>3 DEF ClaimJob, Typing, RowTyped, SupTyped
  <2> QED
    BY <2>1, <2>2, ResultsQuiet
<1>4. ASSUME LaunchFails PROVE Results'
  <2>1. sup.job \in Job /\ "failed" \in Stopped /\ FinishJob(sup.job, sup.gen, "failed")
    BY <1>4 DEF LaunchFails, Typing, SupTyped, Stopped, Terminal
  <2>2. UNCHANGED <<result, delivery, innerAt, innerNote>>
    BY <1>4 DEF LaunchFails, FinishJob
  <2> QED
    BY <2>1, <2>2, StopCompletesNothing, ResultsQuiet
<1> QED
  BY <1>1, <1>2, <1>3, <1>4 DEF SupervisorStep, SupSkip, ReapRead, RecoverRead, ClaimRead,
     ReapLock, RecoverLock, SupTryLock, RecoverStale, SupervisorFails, Launch

LEMMA ResultsCommand ==
  ASSUME Typing, Results,
         \/ \E b \in Bridge : \/ BridgeStart(b) \/ BridgeStop(b) \/ BridgeExit(b)
                              \/ ResumeLock(b) \/ ResumeJob(b)
         \/ \E b \in Bridge, j \in Job : AdmitJob(b, j) \/ RequestCancel(b, j) \/ ResumeRead(b, j)
         \/ \E j \in Job, rebuild \in BOOLEAN : QueueIndexJob(j, rebuild)
         \/ \E j, k \in Job, g \in Generation : PruneJob(j, k, g)
  PROVE  Results'
<1> USE DEF rowVars, dataVars, bridgeVars, outerVars, innerVars
<1>1. UNCHANGED <<result, delivery, innerAt, innerNote>>
  BY DEF BridgeStart, BridgeStop, BridgeExit, ResumeLock, ResumeJob, AdmitJob, RequestCancel,
     ResumeRead, QueueIndexJob, PruneJob
<1>2. ASSUME NEW b \in Bridge, \/ BridgeStart(b) \/ BridgeStop(b) \/ BridgeExit(b) \/ ResumeLock(b)
      PROVE  UNCHANGED status
  BY <1>2 DEF BridgeStart, BridgeStop, BridgeExit, ResumeLock
<1>3. ASSUME NEW b \in Bridge, ResumeJob(b)
      PROVE  \A k \in Job : status'[k] = "completed" => status[k] = "completed"
  <2>1. ctl[b].job \in Job
    BY <1>3 DEF ResumeJob, Typing, CtlTyped
  <2> QED
    BY <1>3, <2>1, RequeueCompletesNothing DEF ResumeJob
<1>4. ASSUME NEW b \in Bridge, NEW j \in Job,
             AdmitJob(b, j) \/ RequestCancel(b, j) \/ ResumeRead(b, j)
      PROVE  \A k \in Job : status'[k] = "completed" => status[k] = "completed"
  BY <1>4 DEF AdmitJob, RequestCancel, ResumeRead, Typing, RowTyped
<1>5. ASSUME NEW j \in Job, NEW rebuild \in BOOLEAN, QueueIndexJob(j, rebuild)
      PROVE  \A k \in Job : status'[k] = "completed" => status[k] = "completed"
  <2>1. ASSUME status[j] = "absent" PROVE status' = [status EXCEPT ![j] = "queued"]
    BY <1>5, <2>1 DEF QueueIndexJob
  <2>2. ASSUME status[j] # "absent" PROVE Requeue(j)
    BY <1>5, <2>2 DEF QueueIndexJob
  <2> QED
    BY <2>1, <2>2, RequeueCompletesNothing DEF Typing, RowTyped
<1>6. ASSUME NEW j \in Job, NEW k \in Job, NEW g \in Generation, PruneJob(j, k, g)
      PROVE  \A i \in Job : status'[i] = "completed" => status[i] = "completed"
  BY <1>6 DEF PruneJob, Typing, RowTyped
<1> QED
  BY <1>1, <1>2, <1>3, <1>4, <1>5, <1>6, ResultsQuiet

\* One inner worker moves on, and its job at most becomes completed or sent.
LEMMA ResultsMove ==
  ASSUME Typing, Results, NEW j \in Job, NEW g \in Generation, NEW at, NEW v, InnerGo(j, g, at, v),
         UNCHANGED result,
         \A k \in Job \ {j} : delivery'[k] = delivery[k] /\ status'[k] = status[k],
         j \notin IndexJob =>
           /\ status'[j] = "completed" => status[j] = "completed" \/ result[j]
           /\ delivery'[j] # "none" => delivery[j] # "none" \/ result[j]
           /\ at \in Sending => result[j]
           /\ at \in {"closing", "noting", "finishing"} /\ v = "completed" => result[j]
  PROVE  Results'
<1>1. \A k \in Job, h \in Generation :
        /\ innerAt'[k][h] = IF k = j /\ h = g THEN at ELSE innerAt[k][h]
        /\ innerNote'[k][h] = IF k = j /\ h = g THEN v ELSE innerNote[k][h]
  BY DEF InnerGo, Typing, InnerTyped
<1>2. SUFFICES ASSUME NEW k \in Job \ IndexJob
               PROVE  /\ status'[k] = "completed" \/ delivery'[k] # "none" => result[k]
                      /\ \A h \in Generation : Reporting(k, h)' => result[k]
  BY DEF Results
<1>3. status'[k] = "completed" \/ delivery'[k] # "none" => result[k]
  BY DEF Results
<1>4. ASSUME NEW h \in Generation, Reporting(k, h)' PROVE result[k]
  <2>1. CASE k = j /\ h = g
    BY <1>1, <1>4, <2>1 DEF Reporting
  <2>2. CASE ~(k = j /\ h = g)
    BY <1>1, <1>4, <2>2 DEF Reporting, Results
  <2> QED
    BY <2>1, <2>2
<1> QED
  BY <1>3, <1>4

LEMMA ResultsOuter ==
  ASSUME Typing, Results, NEW j \in Job, NEW g \in Generation,
         \/ OuterStep(j, g) \/ KillOuter(j, g)
         \/ OuterGivesUp(j, g, "interrupted") \/ OuterGivesUp(j, g, "failed")
  PROVE  Results'
<1> USE DEF rowVars, dataVars, bridgeVars, innerVars, OuterKeeps
<1>1. ASSUME OuterStart(j, g) PROVE Results'
  <2>1. /\ UNCHANGED <<status, result, delivery, innerNote>>
        /\ \A k \in Job, h \in Generation :
             innerAt'[k][h] = innerAt[k][h] \/ innerAt'[k][h] = "starting"
    BY <1>1 DEF OuterStart, Typing, InnerTyped
  <2> QED
    BY <2>1 DEF Results, Reporting, Sending
<1>2. ASSUME OuterKills(j, g) PROVE Results'
  <2>1. InnerGo(j, g, "gone", "none") /\ UNCHANGED <<status, result, delivery>>
    BY <1>2 DEF OuterKills, InnerGo
  <2> QED
    BY <2>1, ResultsMove DEF Sending
<1>3. ASSUME OuterFinish(j, g) PROVE Results'
  <2>1. UNCHANGED <<result, delivery, innerAt, innerNote>>
    BY <1>3 DEF OuterFinish, FinishJob
  <2>2. outerNote[j][g] \in Stopped
    BY <1>3 DEF OuterFinish, Typing, OuterTyped
  <2> QED
    BY <1>3, <2>1, <2>2, StopCompletesNothing, ResultsQuiet DEF OuterFinish
<1>4. ASSUME UNCHANGED <<status, result, delivery, innerAt, innerNote>> PROVE Results'
  BY <1>4, ResultsQuiet
<1> QED
  BY <1>1, <1>2, <1>3, <1>4 DEF OuterStep, OuterSeesExit, OuterSeesStop, OuterGivesUp,
     OuterLock, OuterRead, OuterSavesStop, KillOuter, NoteStop

LEMMA ResultsInner ==
  ASSUME Typing, LockOwnership, Results, NEW j \in Job, NEW g \in Generation,
         InnerStep(j, g) \/ KillInner(j, g)
  PROVE  Results'
<1> USE DEF rowVars, dataVars, bridgeVars, outerVars, innerVars, InnerKeeps
<1>0. ASSUME UNCHANGED <<status, result, delivery>>, NEW at, NEW v, InnerGo(j, g, at, v),
             at \notin Sending, at \in {"closing", "noting", "finishing"} => v # "completed"
      PROVE  Results'
  BY <1>0, ResultsMove
<1>1. ASSUME \/ InnerLock(j, g) \/ InnerRead(j, g) \/ ExecStale(j, g) \/ InnerLeaves(j, g)
             \/ KillInner(j, g) \/ \E v \in {"interrupted", "timed_out", "failed"} : ExecRaises(j, g, v)
      PROVE  Results'
  <2>1. UNCHANGED <<status, result, delivery>>
    BY <1>1 DEF InnerLock, InnerRead, ExecStale, InnerLeaves, KillInner, ExecRaises
  <2>2. \E at, v : /\ InnerGo(j, g, at, v) /\ at \notin Sending
                   /\ at \in {"closing", "noting", "finishing"} => v # "completed"
    BY <1>1 DEF InnerLock, InnerRead, ExecStale, InnerLeaves, KillInner, ExecRaises, Sending
  <2> QED
    BY <1>0, <2>1, <2>2
<1>2. ASSUME SaveCheckpoint(j, g) PROVE Results'
  BY <1>2, ResultsQuiet DEF SaveCheckpoint, ExecWrite
<1>3. ASSUME SaveResult(j, g) PROVE Results'
  <2>1. UNCHANGED <<status, delivery, innerAt, innerNote>>
        /\ \A k \in Job : result[k] => result'[k]
    BY <1>3 DEF SaveResult, ExecWrite, Typing, RowTyped
  <2> QED
    BY <2>1 DEF Results, Reporting
<1>4. ASSUME Invalidate(j, g) PROVE Results'
  <2>1. /\ UNCHANGED <<status, delivery, innerAt, innerNote>>
        /\ status[j] = "running" /\ delivery[j] = "none" /\ innerAt[j][g] = "executing"
        /\ \A k \in Job \ {j} : result'[k] = result[k]
    BY <1>4 DEF Invalidate, ExecWrite, Fenced, Owns, Typing, RowTyped
  <2>2. innerAt[j][g] \in InnerHolds
    BY <2>1 DEF InnerHolds, InnerAlive, InnerAt
  <2>3. ASSUME NEW h \in Generation, Reporting(j, h) PROVE FALSE
    <3>1. innerAt[j][h] \in Working
      BY <2>3 DEF Reporting, Working
    <3>2. h = g
      BY <2>2, <3>1, LockExcludes
    <3> QED
      BY <2>1, <2>3, <3>2 DEF Reporting, Sending
  <2>4. ASSUME NEW k \in Job \ IndexJob
        PROVE  /\ status'[k] = "completed" \/ delivery'[k] # "none" => result'[k]
               /\ \A h \in Generation : Reporting(k, h)' => result'[k]
    <3>1. CASE k = j
      BY <2>1, <2>3, <3>1 DEF Reporting
    <3>2. CASE k # j
      BY <2>1, <3>2 DEF Results, Reporting
    <3> QED
      BY <3>1, <3>2
  <2> QED
    BY <2>4 DEF Results
<1>5. ASSUME BeginDelivery(j, g) PROVE Results'
  <2>1. PICK at : InnerGo(j, g, at, "none")
    BY <1>5 DEF BeginDelivery
  <2>2. UNCHANGED <<status, result>> /\ result[j]
        /\ \A k \in Job \ {j} : delivery'[k] = delivery[k]
    BY <1>5 DEF BeginDelivery, ExecWrite, Typing, RowTyped
  <2> QED
    BY <2>1, <2>2, ResultsMove
<1>6. ASSUME NEW o \in Delivery, SettleDelivery(j, g, o) PROVE Results'
  <2>1. j \notin IndexJob => result[j]
    BY <1>6 DEF SettleDelivery, Results, Reporting
  <2>2. UNCHANGED <<status, result>> /\ \A k \in Job \ {j} : delivery'[k] = delivery[k]
    BY <1>6 DEF SettleDelivery, Typing, RowTyped
  <2>3. \E at, v : InnerGo(j, g, at, v)
    BY <1>6 DEF SettleDelivery
  <2> QED
    BY <2>1, <2>2, <2>3, ResultsMove
<1>7. ASSUME InputChanged(j, g) PROVE Results'
  <2>1. /\ InnerGo(j, g, "closing", "failed") /\ UNCHANGED <<result, delivery>>
        /\ status' = [status EXCEPT ![j] = "interrupted"]
    BY <1>7 DEF InputChanged
  <2>2. status'[j] # "completed" /\ \A k \in Job \ {j} : status'[k] = status[k]
    BY <2>1 DEF Typing, RowTyped
  <2> QED
    BY <2>1, <2>2, ResultsMove DEF Sending
<1>8. ASSUME ExecReturns(j, g) PROVE Results'
  <2>1. /\ InnerGo(j, g, "closing", "completed") /\ UNCHANGED <<status, result, delivery>>
        /\ j \notin IndexJob => result[j]
    BY <1>8 DEF ExecReturns
  <2> QED
    BY <2>1, ResultsMove
<1>9. ASSUME InnerReread(j, g) \/ InnerSavesFailure(j, g) PROVE Results'
  <2>1. UNCHANGED <<status, result, delivery>>
    BY <1>9 DEF InnerReread, InnerSavesFailure, NoteStop
  <2>2. j \notin IndexJob /\ innerNote[j][g] = "completed" => result[j]
    BY <1>9 DEF InnerReread, InnerSavesFailure, Results, Reporting
  <2>3. \E at, v : /\ InnerGo(j, g, at, v) /\ at \notin Sending
                   /\ v = "completed" => result[j] \/ innerNote[j][g] = "completed"
    BY <1>9 DEF InnerReread, InnerSavesFailure, Sending
  <2> QED
    BY <2>1, <2>2, <2>3, ResultsMove
<1>10. ASSUME InnerFinish(j, g) PROVE Results'
  <2>1. InnerGo(j, g, "leaving", "none") /\ UNCHANGED <<result, delivery>>
    BY <1>10 DEF InnerFinish, FinishJob
  <2>2. /\ \A k \in Job \ {j} : status'[k] = status[k]
        /\ status'[j] = "completed" => status[j] = "completed" \/ innerNote[j][g] = "completed"
    BY <1>10 DEF InnerFinish, FinishJob, FinalStatus, Typing, RowTyped
  <2>3. j \notin IndexJob /\ innerNote[j][g] = "completed" => result[j]
    BY <1>10 DEF InnerFinish, Results, Reporting
  <2> QED
    BY <2>1, <2>2, <2>3, ResultsMove DEF Sending
<1> QED
  BY <1>1, <1>2, <1>3, <1>4, <1>5, <1>6, <1>7, <1>8, <1>9, <1>10 DEF InnerStep

\* A job that reports success, or whose send was at least attempted, has its result in the
\* row: invalidation never takes away what was sent or is about to be reported
\* (_invalidate_dependencies_no_tx, settle_delivery_attempt, finish_job).
THEOREM ResultsAreSaved == Spec => []OutcomeHasResult
<1>1. Init => Results
  BY DEF Init, Results, Reporting, Sending
<1>2. IInv /\ Results /\ [Next]_vars => Results'
  <2> SUFFICES ASSUME IInv, Results, [Next]_vars PROVE Results'
    OBVIOUS
  <2>1. Typing /\ LockOwnership
    BY DEF IInv
  <2>2. ASSUME UNCHANGED vars PROVE Results'
    BY <2>2, ResultsQuiet DEF vars, rowVars, innerVars
  <2>3. ASSUME NEW j \in Job, SaveProgress(j) PROVE Results'
    BY <2>3, ProgressMoves, ResultsQuiet DEF innerVars
  <2> QED
    BY <2>1, <2>2, <2>3, ResultsSupervisor, ResultsCommand, ResultsOuter, ResultsInner DEF Next
<1>3. Results => OutcomeHasResult
  BY DEF Results, OutcomeHasResult
<1> QED
  BY <1>1, <1>2, <1>3, IInvHolds, PTL DEF Spec

-----------------------------------------------------------------------------
(* The limits on rows and processes.                                       *)

Limits ==
  /\ Cardinality(InStatus("queued")) <= MaxQueued
  /\ Cardinality(InStatus("running")) <= MaxRunning

\* The row of one job changes, and enters a limited status only where there was room.
OneRow(j) ==
  /\ \A k \in Job \ {j} : status'[k] = status[k]
  /\ status'[j] = "queued" => status[j] = "queued" \/ HasQueueRoom
  /\ status'[j] = "running" =>
       status[j] = "running" \/ Cardinality(InStatus("running")) < MaxRunning

LEMMA AddedWithRoom ==
  ASSUME NEW S, IsFiniteSet(S), NEW T, NEW x, T \subseteq S \cup {x}, NEW n \in Nat,
         Cardinality(S) <= n, T \subseteq S \/ Cardinality(S) < n
  PROVE  Cardinality(T) <= n
<1>1. Cardinality(S) \in Nat
  BY FS_CardinalityType
<1>2. CASE T \subseteq S
  <2>1. IsFiniteSet(T) /\ Cardinality(T) <= Cardinality(S)
    BY <1>2, FS_Subset
  <2>2. Cardinality(T) \in Nat
    BY <2>1, FS_CardinalityType
  <2> QED
    BY <1>1, <2>1, <2>2
<1>3. CASE Cardinality(S) < n
  <2>1. IsFiniteSet(S \cup {x}) /\ Cardinality(S \cup {x}) <= Cardinality(S) + 1
    BY <1>1, FS_AddElement
  <2>2. IsFiniteSet(T) /\ Cardinality(T) <= Cardinality(S \cup {x})
    BY <2>1, FS_Subset
  <2>3. Cardinality(T) \in Nat /\ Cardinality(S \cup {x}) \in Nat
    BY <2>1, <2>2, FS_CardinalityType
  <2> QED
    BY <1>1, <1>3, <2>1, <2>2, <2>3
<1> QED
  BY <1>2, <1>3

LEMMA FiniteRows == ASSUME NEW s PROVE IsFiniteSet(InStatus(s))
BY ConstantsAssumption, FS_Subset DEF InStatus

LEMMA LimitsKept ==
  ASSUME Limits, NEW j \in Job, OneRow(j) PROVE Limits'
<1>1. Cardinality(InStatus("queued")') <= MaxQueued
  <2>1. InStatus("queued")' \subseteq InStatus("queued") \cup {j}
    BY DEF OneRow, InStatus
  <2>2. InStatus("queued")' \subseteq InStatus("queued") \/ HasQueueRoom
    BY DEF OneRow, InStatus
  <2> QED
    BY <2>1, <2>2, FiniteRows, AddedWithRoom, ConstantsAssumption DEF Limits, HasQueueRoom
<1>2. Cardinality(InStatus("running")') <= MaxRunning
  <2>1. InStatus("running")' \subseteq InStatus("running") \cup {j}
    BY DEF OneRow, InStatus
  <2>2. \/ InStatus("running")' \subseteq InStatus("running")
        \/ Cardinality(InStatus("running")) < MaxRunning
    BY DEF OneRow, InStatus
  <2> QED
    BY <2>1, <2>2, FiniteRows, AddedWithRoom, ConstantsAssumption DEF Limits
<1> QED
  BY <1>1, <1>2 DEF Limits

\* finish_job and prune_expired take a row out of both statuses.
LEMMA FinishLeaves ==
  ASSUME Typing, NEW j \in Job, NEW g, NEW v \in Terminal, FinishJob(j, g, v) PROVE OneRow(j)
<1>1. FinalStatus(j, v) \notin {"queued", "running"}
  BY DEF FinalStatus, Terminal
<1> QED
  BY <1>1 DEF FinishJob, OneRow, Typing, RowTyped

LEMMA RequeueEnters ==
  ASSUME Typing, NEW j \in Job, Requeue(j), HasQueueRoom \/ status[j] = "queued" PROVE OneRow(j)
BY DEF Requeue, OneRow, Typing, RowTyped

LEMMA SupervisorRow ==
  ASSUME Typing, SupervisorStep PROVE UNCHANGED status \/ \E j \in Job : OneRow(j)
<1> USE DEF rowVars, dataVars
<1>1. ASSUME ReapFinish \/ RecoverFinish PROVE \E j \in Job : OneRow(j)
  <2>1. sup.job \in Job /\ sup.note \in Terminal /\ FinishJob(sup.job, sup.gen, sup.note)
    BY <1>1 DEF ReapFinish, RecoverFinish, SupFinish, Typing, SupTyped, Stopped
  <2> QED
    BY <2>1, FinishLeaves
<1>2. ASSUME ClaimJob PROVE UNCHANGED status \/ \E j \in Job : OneRow(j)
  <2>1. sup.job \in Job
    BY <1>2 DEF ClaimJob, Typing, SupTyped
  <2>2. CASE Claimable(sup.job)
    BY <1>2, <2>1, <2>2 DEF ClaimJob, Claimable, OneRow, Typing, RowTyped
  <2> QED
    BY <1>2, <2>2 DEF ClaimJob
<1>3. ASSUME LaunchFails PROVE \E j \in Job : OneRow(j)
  <2>1. sup.job \in Job /\ "failed" \in Terminal /\ FinishJob(sup.job, sup.gen, "failed")
    BY <1>3 DEF LaunchFails, Typing, SupTyped, Terminal
  <2> QED
    BY <2>1, FinishLeaves
<1> QED
  BY <1>1, <1>2, <1>3 DEF SupervisorStep, SupSkip, ReapRead, RecoverRead, ClaimRead,
     ReapLock, RecoverLock, SupTryLock, RecoverStale, SupervisorFails, Launch

LEMMA CommandRow ==
  ASSUME Typing,
         \/ \E b \in Bridge : \/ BridgeStart(b) \/ BridgeStop(b) \/ BridgeExit(b)
                              \/ ResumeLock(b) \/ ResumeJob(b)
         \/ \E b \in Bridge, j \in Job : AdmitJob(b, j) \/ RequestCancel(b, j) \/ ResumeRead(b, j)
         \/ \E j \in Job, rebuild \in BOOLEAN : QueueIndexJob(j, rebuild)
         \/ \E j, k \in Job, g \in Generation : PruneJob(j, k, g)
  PROVE  UNCHANGED status \/ \E j \in Job : OneRow(j)
<1> USE DEF rowVars, dataVars
<1>1. ASSUME NEW b \in Bridge, BridgeStart(b) \/ BridgeStop(b) \/ BridgeExit(b) \/ ResumeLock(b)
      PROVE  UNCHANGED status
  BY <1>1 DEF BridgeStart, BridgeStop, BridgeExit, ResumeLock
<1>2. ASSUME NEW b \in Bridge, ResumeJob(b) PROVE UNCHANGED status \/ \E j \in Job : OneRow(j)
  <2>1. ctl[b].job \in Job
    BY <1>2 DEF ResumeJob, Typing, CtlTyped
  <2> QED
    BY <1>2, <2>1, RequeueEnters DEF ResumeJob, StillResumable
<1>3. ASSUME NEW b \in Bridge, NEW j \in Job,
             AdmitJob(b, j) \/ RequestCancel(b, j) \/ ResumeRead(b, j)
      PROVE  UNCHANGED status \/ \E k \in Job : OneRow(k)
  BY <1>3 DEF AdmitJob, RequestCancel, ResumeRead, OneRow, Typing, RowTyped
<1>4. ASSUME NEW j \in Job, NEW rebuild \in BOOLEAN, QueueIndexJob(j, rebuild)
      PROVE  OneRow(j)
  <2>1. HasQueueRoom \/ status[j] = "queued"
    BY <1>4 DEF QueueIndexJob
  <2>2. ASSUME status[j] = "absent" PROVE status' = [status EXCEPT ![j] = "queued"]
    BY <1>4, <2>2 DEF QueueIndexJob
  <2>3. ASSUME status[j] # "absent" PROVE Requeue(j)
    BY <1>4, <2>3 DEF QueueIndexJob
  <2> QED
    BY <2>1, <2>2, <2>3, RequeueEnters DEF OneRow, Typing, RowTyped
<1>5. ASSUME NEW j \in Job, NEW k \in Job, NEW g \in Generation, PruneJob(j, k, g)
      PROVE  OneRow(j)
  BY <1>5 DEF PruneJob, OneRow, Typing, RowTyped
<1> QED
  BY <1>1, <1>2, <1>3, <1>4, <1>5

LEMMA WorkerRow ==
  ASSUME Typing, NEW j \in Job, NEW g \in Generation,
         \/ OuterStep(j, g) \/ KillOuter(j, g) \/ InnerStep(j, g) \/ KillInner(j, g)
         \/ OuterGivesUp(j, g, "interrupted") \/ OuterGivesUp(j, g, "failed")
  PROVE  UNCHANGED status \/ OneRow(j)
<1> USE DEF rowVars, dataVars
<1>1. ASSUME OuterFinish(j, g) PROVE UNCHANGED status \/ OneRow(j)
  <2>1. outerNote[j][g] \in Terminal
    BY <1>1 DEF OuterFinish, Typing, OuterTyped, Stopped
  <2> QED
    BY <1>1, <2>1, FinishLeaves DEF OuterFinish
<1>2. ASSUME InnerFinish(j, g) PROVE UNCHANGED status \/ OneRow(j)
  <2>1. innerNote[j][g] \in Terminal
    BY <1>2 DEF InnerFinish, Typing, InnerTyped
  <2> QED
    BY <1>2, <2>1, FinishLeaves DEF InnerFinish
<1>3. ASSUME InputChanged(j, g) PROVE OneRow(j)
  BY <1>3 DEF InputChanged, OneRow, Typing, RowTyped
<1>4. ASSUME \/ OuterStart(j, g) \/ OuterSeesExit(j, g) \/ OuterSeesStop(j, g)
             \/ \E v \in {"timed_out", "interrupted", "failed"} : OuterGivesUp(j, g, v)
             \/ OuterKills(j, g) \/ OuterLock(j, g) \/ OuterRead(j, g) \/ OuterSavesStop(j, g)
             \/ KillOuter(j, g)
      PROVE  UNCHANGED status
  BY <1>4 DEF OuterStart, OuterSeesExit, OuterSeesStop, OuterGivesUp, OuterKills, OuterLock,
     OuterRead, OuterSavesStop, NoteStop, KillOuter
<1>5. ASSUME \/ InnerLock(j, g) \/ InnerRead(j, g) \/ SaveCheckpoint(j, g) \/ SaveResult(j, g)
             \/ Invalidate(j, g) \/ BeginDelivery(j, g) \/ \E o \in Delivery : SettleDelivery(j, g, o)
             \/ ExecReturns(j, g) \/ ExecStale(j, g) \/ InnerReread(j, g) \/ InnerSavesFailure(j, g)
             \/ \E v \in {"interrupted", "timed_out", "failed"} : ExecRaises(j, g, v)
             \/ InnerLeaves(j, g) \/ KillInner(j, g)
      PROVE  UNCHANGED status
  BY <1>5 DEF InnerLock, InnerRead, SaveCheckpoint, SaveResult, Invalidate, BeginDelivery,
     SettleDelivery, ExecWrite, ExecReturns, ExecStale, InnerReread, InnerSavesFailure, NoteStop,
     ExecRaises, InnerLeaves, KillInner
<1> QED
  BY <1>1, <1>2, <1>3, <1>4, <1>5 DEF OuterStep, InnerStep

\* max_queued_jobs and max_running_jobs hold through restarts, resumes and orphans: of rows,
\* because every way into a limited status looks first in the transaction that takes it; of
\* processes, because a worker that executes owns a running row (claim_job, submit, resume_job).
THEOREM LimitsHold == Spec => []WithinCapacity
<1>1. Init => Limits
  <2> SUFFICES ASSUME Init PROVE Limits
    OBVIOUS
  <2>1. InStatus("queued") = {} /\ InStatus("running") = {}
    BY DEF Init, InStatus
  <2> QED
    BY <2>1, FS_EmptySet, ConstantsAssumption DEF Limits
<1>2. IInv /\ Limits /\ [Next]_vars => Limits'
  <2> SUFFICES ASSUME IInv, Limits, [Next]_vars PROVE Limits'
    OBVIOUS
  <2>1. Typing
    BY DEF IInv
  <2>2. UNCHANGED status \/ \E j \in Job : OneRow(j)
    <3>1. ASSUME UNCHANGED vars PROVE UNCHANGED status
      BY <3>1 DEF vars, rowVars
    <3>2. ASSUME NEW j \in Job, SaveProgress(j) PROVE UNCHANGED status
      BY <3>2, ProgressMoves
    <3> QED
      BY <2>1, <3>1, <3>2, SupervisorRow, CommandRow, WorkerRow DEF Next
  <2>3. ASSUME UNCHANGED status PROVE Limits'
    BY <2>3 DEF Limits, InStatus
  <2> QED
    BY <2>2, <2>3, LimitsKept
<1>3. IInv /\ Limits => WithinCapacity
  <2> SUFFICES ASSUME IInv, Limits PROVE WithinCapacity
    OBVIOUS
  <2> DEFINE Busy == {j \in Job : \E g \in Generation :
                        /\ innerAt[j][g] \in {"executing"} \cup Sending
                        /\ j \in IndexJob => Owns(j, g)}
  <2>1. Busy \subseteq InStatus("running")
    BY FencingShows DEF IInv, ExecutorOwnsGeneration, InStatus, Owns, Working, Sending
  <2>2. Cardinality(Busy) <= MaxRunning
    BY <2>1, FiniteRows, AddedWithRoom, ConstantsAssumption DEF Limits
  <2> QED
    BY <2>2 DEF Limits, WithinCapacity
<1> QED
  BY <1>1, <1>2, <1>3, IInvHolds, PTL DEF Spec
=============================================================================
