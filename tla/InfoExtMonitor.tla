---------------------------- MODULE InfoExtMonitor ----------------------------
(***************************************************************************)
(* The InfoExt monitor: supervised workers check a portal and keep one     *)
(* state file with the last status, the failure counter and the queue of   *)
(* notifications.  A worker holds an exclusive lock from before it reads   *)
(* the file until it ends, and writes the file after each change, so the   *)
(* file stands here for the worker's copy, too.  Its supervisor may kill   *)
(* it between any two steps, and may be killed itself.                     *)
(***************************************************************************)
EXTENDS TtlRunner, Sequences, SequencesExt

CONSTANTS
  Identity,    \* requests the monitor may be configured for
  Status,      \* what the portal may answer
  Threshold,   \* failure_alert_threshold
  MaxChecks,   \* bound: checks that reach the portal
  None

ASSUME MonitorAssumption ==
  Threshold \in Nat \ {0} /\ MaxChecks \in Nat /\ None \notin Identity \cup Status

VARIABLES
  worker,   \* the root process of each supervisor
  disk,     \* data/state.json
  recent,   \* the last portal visit is younger than the minimum interval
  queued,   \* history: every notification that was ever queued
  sent,     \* history: what reached the chat, repetitions left out
  base,     \* history: the first status after the tracked request changed
  checks

monitorVars == <<worker, disk, recent, queued, sent, base, checks>>
vars == <<runnerVars, monitorVars>>

Kind == {"change", "current", "failure", "recovery", "query"}
Event == [no : Nat, kind : Kind, id : Identity \cup {None}, status : Status \cup {None}]
WorkerAt == {"none", "start", "first", "firstSent", "visiting", "last", "lastSent"}

(* Processes, the state file and the histories are well formed.            *)
TypeOK ==
  /\ RunnerTypeOK
  /\ worker \in [Runner -> WorkerAt]
  /\ disk.tracked \in Identity \cup {None} /\ disk.failing \in Identity \cup {None}
  /\ disk.status \in Status \cup {None}
  /\ disk.failures \in 0 .. Threshold /\ disk.alerted \in BOOLEAN
  /\ disk.pending \in Seq(Event) /\ queued \in Seq(Event) /\ sent \in Seq(Event)
  /\ base \in [status : Status \cup {None}, from : Nat]
  /\ recent \in BOOLEAN /\ checks \in 0 .. MaxChecks

Init ==
  /\ RunnerInit
  /\ worker = [r \in Runner |-> "none"]
  /\ disk = [tracked |-> None, status |-> None, failing |-> None,
             failures |-> 0, alerted |-> FALSE, pending |-> <<>>]
  /\ recent = FALSE /\ queued = <<>> /\ sent = <<>> /\ base = [status |-> None, from |-> 0] /\ checks = 0

(* The worker is the root of the group: it starts with it and dies with it.*)
WorkerOf(r) ==
  IF "root" \notin group'[r] THEN "none"
  ELSE IF "root" \notin group[r] THEN "start"
  ELSE worker[r]
Supervise(r) ==
  /\ RunnerStep(r)
  /\ worker' = [worker EXCEPT ![r] = WorkerOf(r)]
  /\ UNCHANGED <<disk, recent, queued, sent, base, checks>>

Move(r, at) == worker' = [worker EXCEPT ![r] = at]
Ends(r) ==
  /\ Move(r, "none")
  /\ group' = [group EXCEPT ![r] = @ \ {"root"}]
  /\ UNCHANGED <<phase, cancelled, faults>>

Tick == recent' = FALSE /\ recent /\ UNCHANGED <<runnerVars, worker, disk, queued, sent, base, checks>>
-----------------------------------------------------------------------------
Holds(r) == worker[r] \notin {"none", "start"}
(* Without the lock the worker has nothing to do.                          *)
AcquireLock(r) ==
  /\ worker[r] = "start"
  /\ IF \E q \in Runner : Holds(q) THEN Ends(r)
     ELSE Move(r, "first") /\ UNCHANGED runnerVars
  /\ UNCHANGED <<disk, recent, queued, sent, base, checks>>

(* The next visit to the portal is reserved before it is made; within the  *)
(* minimum interval there is none.                                         *)
ReservePortalCheck(r) ==
  IF recent THEN Ends(r) /\ UNCHANGED recent
  ELSE Move(r, "visiting") /\ recent' = TRUE /\ UNCHANGED runnerVars

(* deliver_pending sends the queue in order and stops at the first message *)
(* that is not confirmed; what is confirmed is removed in a second step.   *)
Delivering(r) == worker[r] \in {"first", "last"}
Delivered(r) ==
  IF worker[r] = "first" THEN ReservePortalCheck(r) ELSE Ends(r) /\ UNCHANGED recent
Reached(event) ==
  sent' = IF sent /= <<>> /\ Last(sent) = event THEN sent ELSE Append(sent, event)
SendConfirmed(r) ==
  /\ Delivering(r) /\ disk.pending /= <<>>
  /\ Reached(Head(disk.pending))
  /\ Move(r, IF worker[r] = "first" THEN "firstSent" ELSE "lastSent")
  /\ UNCHANGED <<runnerVars, disk, recent, queued, base, checks>>
RemoveSent(r) ==
  /\ worker[r] \in {"firstSent", "lastSent"}
  /\ disk' = [disk EXCEPT !.pending = Tail(@)]
  /\ Move(r, IF worker[r] = "firstSent" THEN "first" ELSE "last")
  /\ UNCHANGED <<runnerVars, recent, queued, sent, base, checks>>
\* Mutant: a message Telegram refused is dropped.
SendUnconfirmed_Drops(r) ==
  /\ Delivering(r) /\ disk.pending /= <<>>
  /\ disk' = [disk EXCEPT !.pending = Tail(@)]
  /\ UNCHANGED <<sent, runnerVars, worker, recent, queued, base, checks>>
SendUnconfirmed(r) ==
  /\ Delivering(r) /\ disk.pending /= <<>>
  /\ UNCHANGED sent \/ Reached(Head(disk.pending))
  /\ Delivered(r)
  /\ UNCHANGED <<disk, queued, base, checks>>
QueueEmpty(r) ==
  /\ Delivering(r) /\ disk.pending = <<>>
  /\ Delivered(r)
  /\ UNCHANGED <<disk, queued, sent, base, checks>>

(* OCR and other helpers are descendants of the worker.                    *)
Spawn(r) ==
  /\ worker[r] = "visiting"
  /\ group' = [group EXCEPT ![r] = @ \cup {"descendant"}]
  /\ UNCHANGED <<phase, cancelled, faults, monitorVars>>
DescendantExits(r) ==
  /\ "descendant" \in group[r]
  /\ group' = [group EXCEPT ![r] = @ \ {"descendant"}]
  /\ UNCHANGED <<phase, cancelled, faults, monitorVars>>

(* How the check ends.  The request id comes from the settings that were   *)
(* read at the start, or from a one-time query.                            *)
CheckEnds(r) ==
  /\ worker[r] = "visiting" /\ checks < MaxChecks
  /\ checks' = checks + 1
  /\ Move(r, "last")
  /\ UNCHANGED <<runnerVars, recent, sent>>
New(kind, id, status) ==
  [no |-> Len(queued) + 1, kind |-> kind, id |-> id, status |-> status]
(* The new state and its notification are one write.                       *)
Save(state, events) ==
  /\ disk' = [state EXCEPT !.pending = @ \o events]
  /\ queued' = queued \o events

FailingId == IF disk.failing /= None THEN disk.failing ELSE disk.tracked
News(id, status, notify) ==
  LET previous == IF disk.tracked = id THEN disk.status ELSE None
      changed == previous \notin {None, status}
  IN  CASE FailingId = id /\ disk.alerted -> <<New("recovery", id, status)>>
        [] ~(FailingId = id /\ disk.alerted) /\ changed -> <<New("change", id, status)>>
        [] OTHER -> IF notify THEN <<New("current", id, status)>> ELSE <<>>
\* Mutant: the alert stays out after its recovery was reported.
RecordSuccess_KeepsAlert(r, id, status, notify) ==
  /\ CheckEnds(r)
  /\ Save([tracked |-> id, status |-> status, failing |-> id, failures |-> 0,
           alerted |-> disk.alerted, pending |-> disk.pending], News(id, status, notify))
  /\ base' = IF disk.tracked = id THEN base ELSE [status |-> status, from |-> Len(queued)]
RecordSuccess(r, id, status, notify) ==
  /\ CheckEnds(r)
  /\ Save([tracked |-> id, status |-> status, failing |-> id, failures |-> 0,
           alerted |-> FALSE, pending |-> disk.pending], News(id, status, notify))
  /\ base' = IF disk.tracked = id THEN base ELSE [status |-> status, from |-> Len(queued)]

\* Mutant: a failed check forgets the status.
RecordFailure_DropsStatus(r, id) ==
  LET same == FailingId = id
      failures == (IF same THEN disk.failures ELSE 0) + 1
      alerted == same /\ disk.alerted
      alert == failures >= Threshold /\ ~alerted
  IN  /\ CheckEnds(r)
      /\ Save([disk EXCEPT !.failing = id, !.alerted = alerted \/ alert, !.status = None,
                 !.failures = IF failures > Threshold THEN Threshold ELSE failures],
              IF alert THEN <<New("failure", id, None)>> ELSE <<>>)
      /\ UNCHANGED base
RecordFailure(r, id) ==
  LET same == FailingId = id
      failures == (IF same THEN disk.failures ELSE 0) + 1
      alerted == same /\ disk.alerted
      alert == failures >= Threshold /\ ~alerted
  IN  /\ CheckEnds(r)
      /\ Save([disk EXCEPT !.failing = id, !.alerted = alerted \/ alert,
                 !.failures = IF failures > Threshold THEN Threshold ELSE failures],
              IF alert THEN <<New("failure", id, None)>> ELSE <<>>)
      /\ UNCHANGED base

(* A one-time query, for the tracked request or another, reports its      *)
(* answer and leaves the tracked state alone.                              *)
AnswerQuery(r, id, status) ==
  /\ CheckEnds(r)
  /\ Save(disk, <<New("query", id, status)>>)
  /\ UNCHANGED base

(* Done; or host sleep, a failed query, an unwritable state file.          *)
WorkerExits(r) ==
  /\ worker[r] /= "none"
  /\ Ends(r)
  /\ UNCHANGED <<disk, recent, queued, sent, base, checks>>

WorkerStep(r) ==
  \/ AcquireLock(r)
  \/ SendConfirmed(r) \/ SendUnconfirmed(r) \/ RemoveSent(r) \/ QueueEmpty(r)
  \/ Spawn(r)
  \/ \E id \in Identity :
       \/ \E status \in Status, notify \in BOOLEAN : RecordSuccess(r, id, status, notify)
       \/ \E status \in Status : AnswerQuery(r, id, status)
       \/ RecordFailure(r, id)
  \/ WorkerExits(r)
Next ==
  \/ \E r \in Runner : Supervise(r) \/ WorkerStep(r) \/ DescendantExits(r)
  \/ Tick

(* Runs are started again and again, supervisors act, and Telegram does    *)
(* not refuse forever.  The portal may hang as long as the supervisor      *)
(* lives; the timeouts of its requests end an orphan.                      *)
Fairness ==
  /\ \A r \in Runner :
       /\ WF_vars(RunnerWork(r) /\ Supervise(r))
  /\ WF_vars(\E r \in Runner : Launch(r) /\ Supervise(r))
  /\ WF_vars(\E r \in Runner : phase[r] = "off" /\ WorkerExits(r))
  /\ WF_vars(\E r \in Runner : phase[r] = "off" /\ worker[r] = "none" /\ DescendantExits(r))
  /\ SF_vars(\E r \in Runner : AcquireLock(r))
  /\ SF_vars(\E r \in Runner : SendConfirmed(r))
  /\ SF_vars(\E r \in Runner : RemoveSent(r))
Spec == Init /\ [][Next]_vars
FairSpec == Spec /\ Fairness
-----------------------------------------------------------------------------
(* Notifications reach the chat in the order in which they were queued,    *)
(* and none is left out, although workers are killed between a send and    *)
(* its removal and Telegram's answers get lost.                            *)
DeliveredInOrder == \A n \in DOMAIN sent : sent[n] = queued[n]

(* What was announced last about the tracked request, answers to one-time  *)
(* queries aside, is the status on disk: no kill, failed check, query or   *)
(* recovery message hides a change of the status.                          *)
NewsIsCurrent ==
  LET news == {n \in DOMAIN queued :
                 /\ n > base.from /\ queued[n].id = disk.tracked
                 /\ queued[n].kind \in {"change", "current", "recovery"}}
  IN  disk.status /= None =>
        /\ news = {} => disk.status = base.status
        /\ \A n \in news : (\A m \in news : m <= n) => disk.status = queued[n].status

(* A recovery is reported only after a failure of the same request was,    *)
(* and once for it, also when the configuration goes back and forth        *)
(* between requests.                                                       *)
RecoveryAnswersAlert ==
  \A n \in DOMAIN queued : queued[n].kind = "recovery" =>
    \E m \in 1 .. n - 1 :
      /\ queued[m].kind = "failure" /\ queued[m].id = queued[n].id
      /\ \A k \in m + 1 .. n - 1 : ~(queued[k].kind = "recovery" /\ queued[k].id = queued[n].id)

(* Again and again everything that was queued has reached the chat: no    *)
(* kill and no lost answer leaves a message behind for good.               *)
EveryEventDelivered == []<>(Len(sent) = Len(queued))
=============================================================================
