----------------------------- MODULE UpdateIntake -----------------------------
(***************************************************************************)
(* How the listener (cmd_listen) takes commands from Telegram.  Analytic    *)
(* commands are committed to the job store before the offset that confirms  *)
(* them is saved, and found again by their admission key on replay; other   *)
(* ("legacy") commands are confirmed first and then wait in memory for the   *)
(* legacy thread.  The listener may crash between any two steps, also       *)
(* between the truncation and the write of the offset file.                 *)
(*                                                                         *)
(* Updates are numbered in the order of arrival.  Control commands go the   *)
(* way of an analytic request; what they do to a job is in AnalysisJobs.    *)
(***************************************************************************)
EXTENDS Naturals, Sequences, FiniteSets

CONSTANTS
  Analytic,     \* numbers of the updates that carry analytic commands
  MaxUpdate,    \* bound: updates that arrive
  MaxQueued,    \* analysis.max_queued_jobs, for the job queue and the lane
  MaxFaults     \* bound: crashes and storage errors

ASSUME IntakeAssumption ==
  /\ MaxUpdate \in Nat \ {0} /\ MaxQueued \in Nat \ {0} /\ MaxFaults \in Nat
  /\ Analytic \subseteq 1 .. MaxUpdate

VARIABLES
  arrived,      \* updates Telegram has
  confirmed,    \* the first update Telegram still returns
  file,         \* bot_offset.json, 0 when missing or not JSON
  offset,       \* of the running listener, 0 for None
  at,           \* the listener's next step
  next, last,   \* the rest of the fetched batch
  verdict,      \* of the analytic command in hand
  rows,         \* job rows per update
  queued,       \* the jobs among them that wait for the supervisor
  decided,      \* analytic commands the store has accepted or refused
  told,         \* the last acknowledgement that reached the chat, per update
  lane,         \* legacy_queue
  runs,         \* executions per legacy command
  torn,         \* ghost: the offset file was left truncated
  faults

telegramVars == <<arrived, confirmed>>
fileVars == <<file, torn>>
listenerVars == <<offset, at, next, last, verdict>>
storeVars == <<rows, queued, decided>>
laneVars == <<lane, runs>>
vars == <<telegramVars, fileVars, listenerVars, storeVars, told, laneVars, faults>>

Update == 1 .. MaxUpdate
At == {"down", "fetch", "handle", "save", "saving", "ack", "hand", "stopping"}
Verdict == {"none", "accepted", "refused"}

TypeOK ==
  /\ arrived \in 0 .. MaxUpdate
  /\ {confirmed, next} \subseteq 1 .. (MaxUpdate + 1)
  /\ {file, offset} \subseteq 0 .. (MaxUpdate + 1) /\ last \in 0 .. MaxUpdate
  /\ at \in At /\ verdict \in Verdict
  /\ rows \in [Update -> 0 .. 2] /\ runs \in [Update -> 0 .. MaxFaults + 1]
  /\ queued \subseteq Update /\ decided \subseteq Update /\ torn \in BOOLEAN
  /\ told \in [Update -> Verdict]
  /\ lane \in Seq(Update) /\ Len(lane) <= MaxQueued
  /\ faults \in 0 .. MaxFaults

Init ==
  /\ arrived = 0 /\ confirmed = 1 /\ file = 0
  /\ offset = 0 /\ at = "down" /\ next = 1 /\ last = 0 /\ verdict = "none"
  /\ rows = [u \in Update |-> 0] /\ queued = {} /\ decided = {}
  /\ told = [u \in Update |-> "none"]
  /\ lane = <<>> /\ runs = [u \in Update |-> 0]
  /\ torn = FALSE /\ faults = 0

-----------------------------------------------------------------------------
(* Telegram and the rest of the system                                     *)

Arrive ==
  /\ arrived < MaxUpdate /\ arrived' = arrived + 1
  /\ UNCHANGED <<confirmed, fileVars, listenerVars, storeVars, told, laneVars, faults>>

\* The supervisor claims a job, or its owner cancels it.
JobLeavesQueue(u) ==
  /\ u \in queued /\ queued' = queued \ {u}
  /\ UNCHANGED <<telegramVars, fileVars, listenerVars, rows, decided, told, laneVars, faults>>

-----------------------------------------------------------------------------
(* The listener                                                            *)

\* Mutant: every start is --from-scratch.
Start_FromScratch ==
  /\ at = "down"
  /\ at' = "fetch" /\ offset' = 0
  /\ UNCHANGED <<telegramVars, fileVars, next, last, verdict, storeVars, told, laneVars, faults>>

\* The launch agent keeps the listener alive.
Start ==
  /\ at = "down"
  /\ at' = "fetch" /\ offset' = file
  /\ UNCHANGED <<telegramVars, fileVars, next, last, verdict, storeVars, told, laneVars, faults>>

\* The loop ends when the supervisor has failed.
SupervisorFailed ==
  /\ at = "fetch"
  /\ faults < MaxFaults /\ faults' = faults + 1
  /\ at' = "stopping"
  /\ UNCHANGED <<telegramVars, fileVars, offset, next, last, verdict, storeVars, told, laneVars>>

\* getUpdates(offset) confirms what is below the offset and returns the rest;
\* the answer may be lost, and an empty one is asked for again.
Fetch ==
  /\ at = "fetch"
  /\ confirmed' = IF offset > confirmed THEN offset ELSE confirmed
  /\ \/ UNCHANGED <<at, next, last>>
     \/ confirmed' <= arrived /\ at' = "handle" /\ next' = confirmed' /\ last' = arrived
  /\ UNCHANGED <<arrived, fileVars, offset, verdict, storeVars, told, laneVars, faults>>

Goto(p) == at' = p /\ UNCHANGED <<offset, next, last>>
Continue ==
  /\ at' = IF next < last THEN "handle" ELSE "fetch"
  /\ next' = next + 1 /\ verdict' = "none"
  /\ UNCHANGED <<offset, last>>

\* Mutant: the admission key is not looked up.
Admit_EveryTime ==
  /\ at = "handle" /\ next \in Analytic
  /\ \/ /\ Cardinality(queued) < MaxQueued
        /\ rows' = [rows EXCEPT ![next] = @ + 1] /\ queued' = queued \cup {next}
        /\ verdict' = "accepted"
     \/ UNCHANGED <<rows, queued>> /\ verdict' = "refused"
  /\ decided' = decided \cup {next}
  /\ Goto("save")
  /\ UNCHANGED <<telegramVars, fileVars, told, laneVars, faults>>

\* admit_analysis_job: the row of a replayed update is found again; otherwise a
\* row is inserted, or the command is refused for any of the reasons the user
\* is told (access, syntax, settings, a full queue).  Access is looked at first,
\* also on a replay after a restart with another configuration.
Admit ==
  /\ at = "handle" /\ next \in Analytic
  /\ \/ rows[next] > 0 /\ UNCHANGED <<rows, queued>> /\ verdict' = "accepted"
     \/ /\ rows[next] = 0 /\ Cardinality(queued) < MaxQueued
        /\ rows' = [rows EXCEPT ![next] = @ + 1] /\ queued' = queued \cup {next}
        /\ verdict' = "accepted"
     \/ UNCHANGED <<rows, queued>> /\ verdict' = "refused"
  /\ decided' = decided \cup {next}
  /\ Goto("save")
  /\ UNCHANGED <<telegramVars, fileVars, told, laneVars, faults>>

\* Mutant: a failure of the store does not stop the listener.
StoreFails_Continues ==
  /\ at = "handle" /\ next \in Analytic
  /\ faults < MaxFaults /\ faults' = faults + 1
  /\ Goto("save")
  /\ UNCHANGED <<telegramVars, fileVars, verdict, storeVars, told, laneVars>>

\* "Fail closed": without a commit the listener stops before the offset.
StoreFails ==
  /\ at = "handle" /\ next \in Analytic
  /\ faults < MaxFaults /\ faults' = faults + 1
  /\ Goto("stopping")
  /\ UNCHANGED <<telegramVars, fileVars, verdict, storeVars, told, laneVars>>

\* Mutant: the offset of an analytic command is saved before its admission.
Confirms_First(u) == TRUE

\* Legacy commands are confirmed before they are handed over.
Confirms(u) == u \notin Analytic

\* save_offset truncates the file and writes it; what an interruption of the two
\* leaves is up to CutShort.
SaveOffset ==
  /\ \/ at = "save"
     \/ at = "handle" /\ Confirms(next)
  /\ Goto("saving")
  /\ UNCHANGED <<telegramVars, fileVars, verdict, storeVars, told, laneVars, faults>>

OffsetSaved ==
  /\ at = "saving"
  /\ file' = next + 1 /\ offset' = next + 1
  /\ at' = IF next \in Analytic THEN "ack" ELSE "hand"
  /\ UNCHANGED <<telegramVars, torn, next, last, verdict, storeVars, told, laneVars, faults>>

\* An interrupted save leaves the old file or a truncated one.
CutShort ==
  \/ UNCHANGED fileVars
  \/ at = "saving" /\ file' = 0 /\ torn' = TRUE

\* The write fails: the listener stops, unacknowledged.
OffsetFails ==
  /\ at = "saving"
  /\ faults < MaxFaults /\ faults' = faults + 1
  /\ CutShort /\ Goto("stopping")
  /\ UNCHANGED <<telegramVars, verdict, storeVars, told, laneVars>>

\* Mutant: a refusal is acknowledged like an admission.
Acknowledge_Accepted ==
  /\ at = "ack"
  /\ told' \in {told, [told EXCEPT ![next] = "accepted"]}
  /\ Continue
  /\ UNCHANGED <<telegramVars, fileVars, storeVars, laneVars, faults>>

\* The acknowledgement may not reach the chat; the listener goes on.
Acknowledge ==
  /\ at = "ack"
  /\ told' \in {told, [told EXCEPT ![next] = verdict]}
  /\ Continue
  /\ UNCHANGED <<telegramVars, fileVars, storeVars, laneVars, faults>>

\* submit_legacy, or the reply that the lane is full.  A denied command is
\* answered in place.
HandOver ==
  /\ at = "hand"
  /\ lane' = IF Len(lane) < MaxQueued THEN Append(lane, next) ELSE lane
  /\ Continue
  /\ UNCHANGED <<telegramVars, fileVars, storeVars, told, runs, faults>>

\* _run_legacy, one command at a time, in the order accepted.
RunLegacy ==
  /\ at # "down" /\ lane # <<>>
  /\ runs' = [runs EXCEPT ![Head(lane)] = @ + 1]
  /\ lane' = Tail(lane)
  /\ UNCHANGED <<telegramVars, fileVars, listenerVars, storeVars, told, faults>>

\* BridgeSupervisor.__exit__ waits for the lane.
Exit ==
  /\ at = "stopping" /\ lane = <<>>
  /\ Goto("down") /\ verdict' = "none"
  /\ UNCHANGED <<telegramVars, fileVars, storeVars, told, laneVars, faults>>

Crash ==
  /\ at # "down"
  /\ faults < MaxFaults /\ faults' = faults + 1
  /\ CutShort /\ Goto("down") /\ verdict' = "none"
  /\ lane' = <<>>
  /\ UNCHANGED <<telegramVars, storeVars, told, runs>>

Listener ==
  \/ Start \/ Fetch \/ Admit \/ SaveOffset \/ OffsetSaved \/ Acknowledge \/ HandOver \/ Exit

Next ==
  \/ Arrive \/ \E u \in Update : JobLeavesQueue(u)
  \/ Listener \/ RunLegacy
  \/ StoreFails \/ OffsetFails \/ SupervisorFailed \/ Crash

Spec == Init /\ [][Next]_vars

\* Threads that are alive take steps, the launch agent restarts the listener,
\* and a poll that is repeated is some day answered.
Fairness ==
  /\ WF_vars(Listener) /\ WF_vars(RunLegacy)
  /\ SF_vars(Fetch /\ at' = "handle")

FairSpec == Spec /\ Fairness

-----------------------------------------------------------------------------
(* Properties                                                              *)

\* An update creates one job at most, however often it is fetched again.
AdmittedOnce == \A u \in Update : rows[u] <= 1

\* No offset hides an analytic command that the store has not decided: neither
\* the saved one nor the one Telegram has been given.
NothingHidden ==
  \A u \in Analytic : u < file \/ u < offset \/ u < confirmed => u \in decided

\* Who is told that a job was accepted has one.
AcceptedExists == \A u \in Update : told[u] = "accepted" => rows[u] > 0

\* Unless the offset file was left truncated, a legacy command runs at most once:
\* it is confirmed before it is handed over, and lost rather than repeated.
LegacyAtMostOnce == torn \/ \A u \in Update : runs[u] <= 1

\* Every analytic command is decided in the end, through crashes and restarts.
CommandsDecided == \A u \in Analytic : arrived >= u ~> u \in decided
=============================================================================
