------------------------- MODULE InfoExtMonitorProofs -------------------------
(***************************************************************************)
(* InfoExtMonitor and the TTL runner that supervises it, for every set of   *)
(* supervisors, requests and statuses, every threshold and any number of    *)
(* checks and faults.                                                       *)
(*                                                                         *)
(* The argument: one worker at a time is past the lock; the queue on disk   *)
(* is what is left of all notifications ever queued, and the chat is behind *)
(* it by at most the message in hand; an alert on disk stands for a failure *)
(* that was reported and not yet answered.                                 *)
(***************************************************************************)
EXTENDS InfoExtMonitor, TLAPS

Events == Seq(Event)
Disk == [tracked : Identity \cup {None}, status : Status \cup {None}, failing : Identity \cup {None},
         failures : 0 .. Threshold, alerted : BOOLEAN, pending : Events]
Base == [status : Status \cup {None}, from : Nat]
RunnersTyped ==
  /\ phase \in [Runner -> Phase] /\ group \in [Runner -> SUBSET Process]
  /\ worker \in [Runner -> WorkerAt] /\ faults \in 0 .. MaxFaults
Flags == cancelled \in [Runner -> BOOLEAN] /\ recent \in BOOLEAN
StateTyped ==
  disk \in Disk /\ queued \in Events /\ sent \in Events /\ base \in Base /\ checks \in 0 .. MaxChecks
Types == RunnersTyped /\ Flags /\ StateTyped

\* The worker is the root of its group, and a supervisor that is not watching has no group.
GroupInv ==
  \A r \in Runner :
    /\ worker[r] # "none" <=> "root" \in group[r]
    /\ phase[r] \in {"starting", "popen"} => group[r] = {}

LockInv == \A q, r \in Runner : Holds(q) /\ Holds(r) => q = r

\* How many notifications have left the queue.
Removed == Len(queued) - Len(disk.pending)
QueueInv ==
  /\ Len(disk.pending) <= Len(queued)
  /\ \A k \in 1 .. Len(disk.pending) : disk.pending[k] = queued[Removed + k]
  /\ \A n \in 1 .. Len(queued) : queued[n].no = n
SentInv ==
  /\ Len(sent) \in {Removed, Removed + 1} /\ Len(sent) <= Len(queued)
  /\ \A n \in 1 .. Len(sent) : sent[n] = queued[n]
  /\ \A r \in Runner : worker[r] \in {"firstSent", "lastSent"} => Len(sent) = Removed + 1

\* An alert on disk is a failure that was reported and has no recovery yet.
AlertInv ==
  disk.alerted =>
    /\ disk.failing # None
    /\ \E m \in 1 .. Len(queued) :
         /\ queued[m].kind = "failure" /\ queued[m].id = disk.failing
         /\ \A k \in m + 1 .. Len(queued) :
              ~(queued[k].kind = "recovery" /\ queued[k].id = disk.failing)
TrackInv ==
  /\ base.from <= Len(queued)
  /\ disk.tracked = None <=> disk.status = None

IInv ==
  /\ Types /\ GroupInv /\ LockInv /\ QueueInv /\ SentInv /\ AlertInv /\ TrackInv
  /\ NothingLeftBehind /\ NewsIsCurrent /\ RecoveryAnswersAlert
-----------------------------------------------------------------------------
LEMMA Constants ==
  /\ MaxFaults \in Nat /\ Threshold \in Nat \ {0} /\ MaxChecks \in Nat
  /\ None \notin Identity /\ None \notin Status
BY RunnerAssumption, MonitorAssumption DEF RunnerAssumption, MonitorAssumption

LEMMA TypesCorrect == Types => TypeOK
BY DEF Types, RunnersTyped, Flags, StateTyped, Disk, Events, Base, TypeOK, RunnerTypeOK

\* What the supervisor and the operating system keep, and what the state file is about.
RunnerPart == RunnersTyped /\ Flags /\ GroupInv /\ LockInv /\ NothingLeftBehind
StatePart ==
  /\ StateTyped /\ QueueInv /\ SentInv /\ AlertInv /\ TrackInv
  /\ NewsIsCurrent /\ RecoveryAnswersAlert
LEMMA TwoParts == (IInv <=> RunnerPart /\ StatePart) /\ (IInv' <=> RunnerPart' /\ StatePart')
BY DEF IInv, Types, RunnerPart, StatePart

\* A step after which every worker is where it was, or has started or ended.
Parked == \A q \in Runner : worker'[q] \in {worker[q], "none", "start"}
LEMMA ParkedKeepsLock == LockInv /\ Parked => LockInv'
BY DEF LockInv, Parked, Holds

LEMMA StateKept ==
  ASSUME StatePart, UNCHANGED <<disk, queued, sent, base, checks>>,
         \A q \in Runner : worker'[q] \in {"firstSent", "lastSent"} => worker[q] \in {"firstSent", "lastSent"}
  PROVE  StatePart'
<1>1. StateTyped' /\ QueueInv' /\ AlertInv' /\ TrackInv'
  BY DEF StatePart, StateTyped, QueueInv, Removed, AlertInv, TrackInv
<1>2. NewsIsCurrent' /\ RecoveryAnswersAlert'
  BY DEF StatePart, NewsIsCurrent, RecoveryAnswersAlert
<1>3. SentInv'
  BY DEF StatePart, SentInv, Removed
<1> QED
  BY <1>1, <1>2, <1>3 DEF StatePart
LEMMA FileKept ==
  ASSUME StatePart, Parked, UNCHANGED <<disk, queued, sent, base, checks>>
  PROVE  StatePart'
BY StateKept DEF Parked

LEMMA InitInv == Init => IInv
<1> SUFFICES ASSUME Init PROVE IInv
  OBVIOUS
<1>1. RunnersTyped
  BY Constants DEF Init, RunnerInit, RunnersTyped, Phase, WorkerAt, Process
<1>2. Flags
  BY Zenon DEF Init, RunnerInit, Flags
<1>3. disk \in Disk
  BY Constants DEF Init, Disk, Events
<1>4. StateTyped
  BY <1>3, Constants DEF Init, StateTyped, Events, Base
<1>5. GroupInv /\ LockInv /\ NothingLeftBehind
  BY DEF Init, RunnerInit, GroupInv, LockInv, Holds, NothingLeftBehind
<1>6. QueueInv /\ SentInv /\ TrackInv
  BY DEF Init, QueueInv, SentInv, TrackInv, Removed
<1>7. AlertInv /\ NewsIsCurrent /\ RecoveryAnswersAlert
  BY DEF Init, AlertInv, NewsIsCurrent, RecoveryAnswersAlert
<1> QED
  BY <1>1, <1>2, <1>4, <1>5, <1>6, <1>7 DEF IInv, Types
-----------------------------------------------------------------------------
\* A supervisor's step.

LEMMA SupervisedParks ==
  ASSUME RunnersTyped, NEW r \in Runner, worker' = [worker EXCEPT ![r] = WorkerOf(r)]
  PROVE  Parked /\ worker' \in [Runner -> WorkerAt]
BY DEF RunnersTyped, Parked, WorkerOf, WorkerAt

\* What is asked of a step of one supervisor: only its own row changes, the
\* group does not grow except when Popen starts the root, and a supervisor
\* that returns or was cancelled has none.
GroupStep(r, p, processes) ==
  /\ phase' = [phase EXCEPT ![r] = p] /\ p \in Phase
  /\ group' = [group EXCEPT ![r] = processes] /\ processes \in SUBSET Process
  /\ p \in {"starting", "popen"} => processes = {}
  /\ p = "returned" \/ (cancelled'[r] /\ p \notin {"starting", "popen"}) => processes = {}
  /\ \A q \in Runner \ {r} : cancelled'[q] = cancelled[q]
LEMMA GroupStepKeeps ==
  ASSUME RunnerPart, Flags', faults' \in 0 .. MaxFaults, NEW r \in Runner, NEW p, NEW processes,
         GroupStep(r, p, processes), worker' = [worker EXCEPT ![r] = WorkerOf(r)]
  PROVE  RunnerPart'
<1>1. RunnersTyped' /\ Parked
  BY SupervisedParks DEF RunnerPart, RunnersTyped, GroupStep
<1>2. LockInv'
  BY <1>1, ParkedKeepsLock DEF RunnerPart
<1>3. GroupInv'
  BY DEF RunnerPart, RunnersTyped, GroupInv, GroupStep, WorkerOf
<1>4. NothingLeftBehind'
  BY DEF RunnerPart, RunnersTyped, NothingLeftBehind, GroupStep
<1> QED
  BY <1>1, <1>2, <1>3, <1>4 DEF RunnerPart

LEMMA SupervisedFlags ==
  ASSUME Flags, NEW r \in Runner, RunnerStep(r), UNCHANGED recent
  PROVE  Flags'
<1>1. cancelled' \in [Runner -> BOOLEAN]
  <2>1. cancelled \in [Runner -> BOOLEAN]
    BY Zenon DEF Flags
  <2>2. \/ cancelled' = cancelled
        \/ cancelled' = [cancelled EXCEPT ![r] = TRUE] \/ cancelled' = [cancelled EXCEPT ![r] = FALSE]
    BY Zenon DEF RunnerStep, RunnerWork, Launch, CheckCancelled, Popen, Signal, ObserveExit, GiveUp,
      KillAfterGrace, Leave, Raise, Die, Forget
  <2> QED
    BY <2>1, <2>2, Zenon
<1> QED
  BY <1>1, Zenon DEF Flags

LEMMA SuperviseStep ==
  ASSUME IInv, NEW r \in Runner, Supervise(r)
  PROVE  IInv'
<1>1. Parked
  BY SupervisedParks DEF Supervise, IInv, Types
<1>2. StatePart'
  BY <1>1, FileKept, TwoParts DEF Supervise
<1>3. Flags'
  BY SupervisedFlags DEF Supervise, IInv, Types
<1>4. worker' = [worker EXCEPT ![r] = WorkerOf(r)] /\ RunnerPart /\ RunnersTyped
  BY TwoParts DEF Supervise, RunnerPart
<1>5. faults' \in 0 .. MaxFaults
  BY Constants DEF IInv, Types, RunnersTyped, Supervise, RunnerStep, RunnerWork, Launch, CheckCancelled, Popen,
    Signal, ObserveExit, GiveUp, KillAfterGrace, Leave, Raise, Die
<1>6. \A q \in Runner \ {r} : cancelled'[q] = cancelled[q]
  BY Zenon DEF IInv, Types, Flags, Supervise, RunnerStep, RunnerWork, Launch, CheckCancelled, Popen,
    Signal, ObserveExit, GiveUp, KillAfterGrace, Leave, Raise, Die, Forget

<1> USE DEF Phase, Process
<1>15. SUFFICES \E p, processes : GroupStep(r, p, processes)
  <2>1. PICK p, processes : GroupStep(r, p, processes)
    BY <1>15
  <2>2. RunnerPart'
    BY <2>1, <1>3, <1>4, <1>5, GroupStepKeeps
  <2> QED
    BY <2>2, <1>2 DEF IInv, Types, RunnerPart, StatePart
<1>7. CASE Launch(r)
  <2>1. GroupStep(r, "starting", {})
    BY <1>4, <1>6, <1>7 DEF RunnersTyped, GroupStep, Launch, Goto
  <2> QED
    BY <2>1
<1>8. CASE CheckCancelled(r)
  <2>1. group[r] = {}
    BY <1>4, <1>8 DEF RunnerPart, GroupInv, CheckCancelled
  <2>2. GroupStep(r, "returned", {}) \/ GroupStep(r, "popen", {})
    BY <2>1, <1>4, <1>6, <1>8 DEF RunnersTyped, GroupStep, CheckCancelled, Goto
  <2> QED
    BY <2>2
<1>9. CASE Popen(r)
  <2>1. GroupStep(r, "watching", IF cancelled[r] THEN {} ELSE {"root"})
    BY <1>4, <1>6, <1>9 DEF RunnersTyped, GroupStep, Popen, Goto, Keep
  <2> QED
    BY <2>1
<1>10. CASE Signal(r)
  <2>1. phase[r] \in Phase /\ group[r] \in SUBSET Process /\ phase' = [phase EXCEPT ![r] = phase[r]]
    BY <1>4, <1>10 DEF RunnersTyped, Signal
  <2>2. CASE phase[r] \in {"starting", "popen"}
    <3>1. group[r] = {} /\ group' = [group EXCEPT ![r] = {}]
      BY <2>2, <1>4, <1>10 DEF RunnerPart, RunnersTyped, GroupInv, Signal
    <3>2. GroupStep(r, phase[r], {})
      BY <2>1, <3>1, <1>6 DEF GroupStep
    <3> QED
      BY <3>2
  <2>3. CASE phase[r] \notin {"starting", "popen"}
    <3>1. GroupStep(r, phase[r], {})
      BY <2>1, <2>3, <1>6, <1>10 DEF GroupStep, Signal, Keep
    <3> QED
      BY <3>1
  <2> QED
    BY <2>2, <2>3
<1>11. CASE ObserveExit(r) \/ GiveUp(r)
  <2>1. phase[r] = "watching" /\ cancelled' = cancelled
    BY <1>11 DEF ObserveExit, GiveUp
  <2>2. cancelled'[r] => group[r] = {}
    BY <2>1, <1>4 DEF RunnerPart, NothingLeftBehind
  <2>3. PICK p \in {"leaving", "grace"}, rest \in SUBSET group[r] :
          phase' = [phase EXCEPT ![r] = p] /\ group' = [group EXCEPT ![r] = rest]
    BY <1>4, <1>11 DEF RunnersTyped, ObserveExit, GiveUp, Goto, Keep
  <2>4. GroupStep(r, p, rest)
    BY <2>2, <2>3, <1>4, <1>6 DEF RunnersTyped, GroupStep
  <2> QED
    BY <2>4
<1>12. CASE KillAfterGrace(r) \/ Leave(r) \/ Raise(r)
  <2>1. GroupStep(r, "leaving", {}) \/ GroupStep(r, "returned", {})
    BY <1>6, <1>12 DEF GroupStep, KillAfterGrace, Leave, Raise, Goto, Keep
  <2> QED
    BY <2>1
<1>13. CASE Die(r)
  <2>1. ~cancelled'[r]
    BY <1>13, Zenon DEF Die, Forget, IInv, Types, Flags
  <2>2. GroupStep(r, "off", group[r])
    BY <2>1, <1>4, <1>6, <1>13 DEF RunnersTyped, GroupStep, Die, Goto
  <2> QED
    BY <2>2
<1> QED
  BY <1>7, <1>8, <1>9, <1>10, <1>11, <1>12, <1>13 DEF Supervise, RunnerStep, RunnerWork
-----------------------------------------------------------------------------
\* A worker's step.

LEMMA WorkerTypes ==
  ASSUME IInv
  PROVE  /\ RunnersTyped /\ GroupInv /\ LockInv /\ NothingLeftBehind
         /\ disk \in Disk /\ queued \in Events /\ sent \in Events /\ base \in Base
         /\ checks \in 0 .. MaxChecks /\ disk.pending \in Events
         /\ Len(queued) \in Nat /\ Len(sent) \in Nat /\ Len(disk.pending) \in Nat
BY DEF IInv, Types, StateTyped, Disk, Events

\* A worker that goes on changes nothing else of the group.
LEMMA MoveKeeps ==
  ASSUME RunnerPart, Flags', UNCHANGED runnerVars, NEW r \in Runner, NEW to \in WorkerAt \ {"none"},
         worker[r] # "none", Move(r, to), to # "start",
         Holds(r) \/ (\A q \in Runner : ~Holds(q))
  PROVE  RunnerPart'
<1>1. RunnersTyped'
  BY DEF RunnerPart, RunnersTyped, Move, runnerVars
<1>2. GroupInv'
  BY DEF RunnerPart, RunnersTyped, GroupInv, Move, runnerVars
<1>3. LockInv'
  BY DEF RunnerPart, RunnersTyped, LockInv, Holds, Move
<1>4. NothingLeftBehind'
  BY DEF RunnerPart, NothingLeftBehind, runnerVars
<1> QED
  BY <1>1, <1>2, <1>3, <1>4 DEF RunnerPart
LEMMA EndKeeps ==
  ASSUME RunnerPart, Flags', NEW r \in Runner, Ends(r)
  PROVE  RunnerPart' /\ Parked
<1>1. RunnersTyped' /\ Parked
  BY DEF RunnerPart, RunnersTyped, Ends, Move, WorkerAt, Parked
<1>2. LockInv'
  BY <1>1, ParkedKeepsLock DEF RunnerPart
<1>3. GroupInv'
  BY DEF RunnerPart, RunnersTyped, GroupInv, Ends, Move
<1>4. NothingLeftBehind'
  BY DEF RunnerPart, RunnersTyped, NothingLeftBehind, Ends
<1> QED
  BY <1>1, <1>2, <1>3, <1>4 DEF RunnerPart

LEMMA WorkerFlags ==
  ASSUME IInv, UNCHANGED cancelled, recent' = recent \/ recent' = TRUE \/ recent' = FALSE
  PROVE  Flags'
BY Zenon DEF IInv, Types, Flags

LEMMA AcquireStep ==
  ASSUME IInv, NEW r \in Runner, AcquireLock(r)
  PROVE  IInv'
<1>1. RunnerPart /\ StatePart
  BY TwoParts
<1>2. Flags'
  BY WorkerFlags DEF AcquireLock, Ends, runnerVars
<1>3. CASE Ends(r)
  BY <1>1, <1>2, <1>3, EndKeeps, FileKept, TwoParts DEF AcquireLock
<1>4. CASE ~Ends(r)
  <2>1. Move(r, "first") /\ UNCHANGED runnerVars /\ (\A q \in Runner : ~Holds(q)) /\ worker[r] = "start"
    BY <1>4 DEF AcquireLock
  <2>2. RunnerPart'
    BY <1>1, <1>2, <2>1, MoveKeeps DEF WorkerAt
  <2>3. StatePart'
    <3>1. \A q \in Runner : worker'[q] \in {"firstSent", "lastSent"} => worker[q] \in {"firstSent", "lastSent"}
      BY <2>1, WorkerTypes DEF RunnersTyped, Move
    <3>2. UNCHANGED <<disk, queued, sent, base, checks>>
      BY DEF AcquireLock
    <3> QED
      BY <3>1, <3>2, <1>1, StateKept
  <2> QED
    BY <2>2, <2>3, TwoParts
<1> QED
  BY <1>3, <1>4

LEMMA QuietStep ==
  ASSUME IInv, NEW r \in Runner, Spawn(r) \/ DescendantExits(r) \/ WorkerExits(r)
  PROVE  IInv'
<1>1. RunnerPart /\ StatePart
  BY TwoParts
<1>2. Flags'
  BY WorkerFlags DEF Spawn, DescendantExits, WorkerExits, Ends, monitorVars
<1>3. CASE WorkerExits(r)
  BY <1>1, <1>2, <1>3, EndKeeps, FileKept, TwoParts DEF WorkerExits
<1>4. CASE Spawn(r) \/ DescendantExits(r)
  <2>1. Parked /\ UNCHANGED <<phase, cancelled, worker, faults, disk, queued, sent, base, checks>>
    BY <1>4 DEF Parked, Spawn, DescendantExits, monitorVars
  <2>2. StatePart'
    BY <1>1, <2>1, FileKept
  <2>3. PICK processes \in SUBSET Process :
          /\ group' = [group EXCEPT ![r] = processes] /\ ("root" \in processes <=> "root" \in group[r])
          /\ group[r] = {} => processes = {}
    <3>1. group[r] \in SUBSET Process /\ (Spawn(r) => "root" \in group[r])
      BY WorkerTypes DEF RunnersTyped, GroupInv, Spawn
    <3> QED
      BY <1>4, <3>1 DEF Spawn, DescendantExits, Process
  <2>4. RunnersTyped' /\ GroupInv' /\ LockInv' /\ NothingLeftBehind'
    <3> USE DEF Phase, Process
    <3>1. RunnersTyped'
      BY <2>1, <2>3, WorkerTypes DEF RunnersTyped
    <3>2. \A q \in Runner : group[q] = {} => group'[q] = {}
      BY <2>3, WorkerTypes DEF RunnersTyped
    <3>3. \A q \in Runner : "root" \in group'[q] <=> "root" \in group[q]
      BY <2>3, WorkerTypes DEF RunnersTyped
    <3>4. GroupInv' /\ LockInv'
      BY <2>1, <3>2, <3>3, WorkerTypes DEF GroupInv, LockInv, Holds
    <3>5. NothingLeftBehind'
      BY <2>1, <3>2, WorkerTypes DEF NothingLeftBehind
    <3> QED
      BY <3>1, <3>4, <3>5
  <2> QED
    BY <1>2, <2>2, <2>4, TwoParts DEF RunnerPart
<1> QED
  BY <1>3, <1>4

LEMMA TickStep ==
  ASSUME IInv, Tick
  PROVE  IInv'
<1>1. RunnerPart /\ StatePart
  BY TwoParts
<1>2. Flags'
  BY WorkerFlags DEF Tick, runnerVars
<1>3. Parked /\ StatePart'
  BY <1>1, FileKept DEF Parked, Tick
<1>4. RunnersTyped' /\ GroupInv' /\ LockInv' /\ NothingLeftBehind'
  BY WorkerTypes DEF Tick, runnerVars, RunnersTyped, GroupInv, LockInv, Holds, NothingLeftBehind
<1> QED
  BY <1>2, <1>3, <1>4, TwoParts DEF RunnerPart
-----------------------------------------------------------------------------
\* The queue and the chat.

LEMMA InHand ==
  ASSUME IInv, disk.pending # <<>>
  PROVE  /\ Head(disk.pending) = queued[Removed + 1] /\ Removed + 1 <= Len(queued) /\ Removed \in Nat
         /\ Tail(disk.pending) \in Events /\ Len(Tail(disk.pending)) = Len(disk.pending) - 1
         /\ \A k \in 1 .. Len(disk.pending) - 1 : Tail(disk.pending)[k] = disk.pending[k + 1]
<1> DEFINE pending == disk.pending
<1>1. pending \in Seq(Event) /\ pending # <<>> /\ Len(pending) \in Nat
  BY WorkerTypes DEF Events
<1>2. Len(pending) >= 1 /\ Head(pending) = pending[1]
  BY <1>1
<1>3. /\ Tail(pending) \in Seq(Event) /\ Len(Tail(pending)) = Len(pending) - 1
      /\ \A k \in 1 .. Len(pending) - 1 : Tail(pending)[k] = pending[k + 1]
  BY <1>1
<1>4. Removed \in Nat /\ Removed + 1 <= Len(queued)
  BY <1>1, <1>2, WorkerTypes DEF IInv, QueueInv, Removed
<1>5. pending[1] = queued[Removed + 1]
  BY <1>1, <1>2 DEF IInv, QueueInv
<1> QED
  BY <1>2, <1>3, <1>4, <1>5 DEF Events

\* The message in hand arrives once, however often it is sent.
LEMMA ReachedOnce ==
  ASSUME IInv, disk.pending # <<>>, Reached(Head(disk.pending))
  PROVE  /\ sent' \in Events /\ Len(sent') = Removed + 1
         /\ \A n \in 1 .. Len(sent') : sent'[n] = queued[n]
<1>1. Removed + 1 \in 1 .. Len(queued) /\ Head(disk.pending) = queued[Removed + 1]
      /\ queued[Removed + 1] \in Event
  BY InHand, WorkerTypes DEF Events
<1>2. CASE Len(sent) = Removed + 1
  <2>1. sent # <<>> /\ Last(sent) = queued[Removed + 1]
    BY <1>1, <1>2, WorkerTypes DEF IInv, SentInv, Last, Events
  <2>2. sent' = sent
    BY <1>1, <2>1 DEF Reached
  <2> QED
    BY <1>2, <2>2, WorkerTypes DEF IInv, SentInv
<1>3. CASE Len(sent) = Removed
  <2>1. ~(sent # <<>> /\ Last(sent) = queued[Removed + 1])
    <3> SUFFICES ASSUME sent # <<>>, Last(sent) = queued[Removed + 1] PROVE FALSE
      OBVIOUS
    <3>1. Removed \in 1 .. Len(queued) /\ Last(sent) = queued[Removed]
      BY <1>1, <1>3, InHand, WorkerTypes DEF IInv, SentInv, Last, Events
    <3>2. queued[Removed].no = Removed /\ queued[Removed + 1].no = Removed + 1
      BY <1>1, <3>1 DEF IInv, QueueInv
    <3> QED
      BY <3>1, <3>2, InHand
  <2>2. sent' = Append(sent, queued[Removed + 1])
    BY <1>1, <2>1 DEF Reached
  <2>3. sent' \in Events /\ Len(sent') = Removed + 1
    BY <1>1, <1>3, <2>2, WorkerTypes, InHand DEF Events
  <2>4. \A n \in 1 .. Removed : sent'[n] = sent[n]
    BY <1>1, <1>3, <2>2, WorkerTypes, InHand DEF Events
  <2>5. sent'[Removed + 1] = queued[Removed + 1]
    BY <1>1, <1>3, <2>2, WorkerTypes, InHand DEF Events
  <2>6. \A n \in 1 .. Removed : sent[n] = queued[n]
    BY <1>3 DEF IInv, SentInv
  <2> QED
    BY <2>3, <2>4, <2>5, <2>6, InHand
<1> QED
  BY <1>2, <1>3 DEF IInv, SentInv

LEMMA SentChanges ==
  ASSUME StatePart, UNCHANGED <<disk, queued, base, checks>>,
         sent' \in Events, Len(sent') \in {Removed, Removed + 1}, Len(sent') <= Len(queued),
         \A n \in 1 .. Len(sent') : sent'[n] = queued[n],
         \A q \in Runner : worker'[q] \in {"firstSent", "lastSent"} => Len(sent') = Removed + 1
  PROVE  StatePart'
<1>1. StateTyped' /\ QueueInv' /\ AlertInv' /\ TrackInv'
  BY DEF StatePart, StateTyped, QueueInv, Removed, AlertInv, TrackInv
<1>2. NewsIsCurrent' /\ RecoveryAnswersAlert'
  BY DEF StatePart, NewsIsCurrent, RecoveryAnswersAlert
<1>3. SentInv'
  BY DEF SentInv, Removed
<1> QED
  BY <1>1, <1>2, <1>3 DEF StatePart

\* A worker that delivers ends or goes on to the portal; it holds no message.
LEMMA DeliveredKeeps ==
  ASSUME IInv, NEW r \in Runner, Delivering(r), Delivered(r)
  PROVE  /\ RunnerPart'
         /\ \A q \in Runner : worker'[q] \in {"firstSent", "lastSent"} =>
                                 worker[q] \in {"firstSent", "lastSent"}
<1>1. RunnerPart /\ Holds(r) /\ worker[r] # "none"
  BY TwoParts DEF Delivering, Holds
<1>2. Flags'
  BY WorkerFlags DEF Delivered, ReservePortalCheck, Ends, runnerVars
<1>3. CASE Ends(r)
  BY <1>1, <1>2, <1>3, EndKeeps DEF Parked
<1>4. CASE Move(r, "visiting") /\ UNCHANGED runnerVars
  <2>1. RunnerPart'
    BY <1>1, <1>2, <1>4, MoveKeeps DEF WorkerAt
  <2> QED
    BY <2>1, <1>4, WorkerTypes DEF Move, RunnersTyped
<1> QED
  BY <1>3, <1>4 DEF Delivered, ReservePortalCheck

LEMMA SendConfirmedStep ==
  ASSUME IInv, NEW r \in Runner, SendConfirmed(r)
  PROVE  IInv'
<1>1. RunnerPart /\ StatePart /\ Holds(r) /\ worker[r] # "none"
  BY TwoParts DEF SendConfirmed, Delivering, Holds
<1>2. Flags'
  BY WorkerFlags DEF SendConfirmed, runnerVars
<1>3. PICK at \in {"firstSent", "lastSent"} : Move(r, at)
  BY DEF SendConfirmed
<1>4. RunnerPart'
  BY <1>1, <1>2, <1>3, MoveKeeps DEF SendConfirmed, WorkerAt
<1>5. disk.pending # <<>> /\ Reached(Head(disk.pending))
  BY DEF SendConfirmed
<1>6. /\ sent' \in Events /\ Len(sent') = Removed + 1
      /\ \A n \in 1 .. Len(sent') : sent'[n] = queued[n]
  BY <1>5, ReachedOnce
<1>7. Len(sent') <= Len(queued)
  BY <1>5, <1>6, InHand
<1>8. UNCHANGED <<disk, queued, base, checks>>
  BY DEF SendConfirmed
<1>9. StatePart'
  BY <1>1, <1>6, <1>7, <1>8, SentChanges
<1> QED
  BY <1>4, <1>9, TwoParts

LEMMA SendUnconfirmedStep ==
  ASSUME IInv, NEW r \in Runner, SendUnconfirmed(r) \/ QueueEmpty(r)
  PROVE  IInv'
<1>1. Delivering(r) /\ Delivered(r) /\ UNCHANGED <<disk, queued, base, checks>>
  BY DEF SendUnconfirmed, QueueEmpty
<1>2. /\ RunnerPart'
      /\ \A q \in Runner : worker'[q] \in {"firstSent", "lastSent"} =>
                              worker[q] \in {"firstSent", "lastSent"}
  BY <1>1, DeliveredKeeps
<1>3. StatePart
  BY TwoParts
<1>4. CASE sent' = sent
  <2>1. StatePart'
    BY <1>1, <1>2, <1>3, <1>4, StateKept
  <2> QED
    BY <1>2, <2>1, TwoParts
<1>5. CASE disk.pending # <<>> /\ Reached(Head(disk.pending))
  <2>1. /\ sent' \in Events /\ Len(sent') = Removed + 1
        /\ \A n \in 1 .. Len(sent') : sent'[n] = queued[n]
    BY <1>5, ReachedOnce
  <2>2. Len(sent') <= Len(queued)
    BY <1>5, <2>1, InHand
  <2>3. StatePart'
    BY <1>1, <1>3, <2>1, <2>2, SentChanges
  <2> QED
    BY <1>2, <2>3, TwoParts
<1> QED
  BY <1>4, <1>5 DEF SendUnconfirmed, QueueEmpty

LEMMA RemoveSentStep ==
  ASSUME IInv, NEW r \in Runner, RemoveSent(r)
  PROVE  IInv'
<1>1. RunnerPart /\ StatePart /\ Holds(r) /\ worker[r] # "none" /\ worker[r] \in {"firstSent", "lastSent"}
  BY TwoParts DEF RemoveSent, Holds
<1>2. Flags'
  BY WorkerFlags DEF RemoveSent, runnerVars
<1>3. PICK at \in {"first", "last"} : Move(r, at)
  BY DEF RemoveSent
<1>4. RunnerPart'
  BY <1>1, <1>2, <1>3, MoveKeeps DEF RemoveSent, WorkerAt
<1>5. Len(sent) = Removed + 1 /\ Len(sent) <= Len(queued)
  BY <1>1 DEF StatePart, SentInv
<1>6. disk.pending # <<>>
  BY <1>5, WorkerTypes DEF Removed
<1>7. /\ Tail(disk.pending) \in Events /\ Len(Tail(disk.pending)) = Len(disk.pending) - 1
      /\ \A k \in 1 .. Len(disk.pending) - 1 : Tail(disk.pending)[k] = disk.pending[k + 1]
  BY <1>6, InHand
<1>8. UNCHANGED <<queued, sent, base, checks>> /\ disk' = [disk EXCEPT !.pending = Tail(disk.pending)]
  BY DEF RemoveSent
<1>9. /\ disk' \in Disk /\ disk'.pending = Tail(disk.pending) /\ disk'.tracked = disk.tracked
      /\ disk'.status = disk.status /\ disk'.failing = disk.failing /\ disk'.alerted = disk.alerted
  BY <1>7, <1>8, WorkerTypes DEF Disk
<1>10. Removed' = Removed + 1 /\ Removed \in Nat
  <2>1. Removed \in Nat
    BY <1>6, InHand
  <2>2. Len(disk'.pending) = Len(disk.pending) - 1 /\ Len(queued') = Len(queued)
    BY <1>7, <1>8, <1>9
  <2> QED
    BY <2>1, <2>2, WorkerTypes DEF Removed
<1>11. StateTyped' /\ AlertInv' /\ TrackInv' /\ NewsIsCurrent' /\ RecoveryAnswersAlert'
  BY <1>1, <1>8, <1>9 DEF StatePart, StateTyped, AlertInv, TrackInv, NewsIsCurrent, RecoveryAnswersAlert
<1>12. QueueInv'
  <2>1. Len(disk'.pending) <= Len(queued')
    BY <1>1, <1>7, <1>8, <1>9, WorkerTypes DEF StatePart, QueueInv
  <2>2. ASSUME NEW k \in 1 .. Len(disk'.pending) PROVE disk'.pending[k] = queued'[Removed' + k]
    <3>1. disk.pending[k + 1] = queued[Removed + (k + 1)] /\ disk'.pending[k] = disk.pending[k + 1]
      BY <1>1, <1>7, <1>9, WorkerTypes DEF StatePart, QueueInv
    <3> QED
      BY <3>1, <1>8, <1>10
  <2> QED
    BY <2>1, <2>2, <1>1, <1>8 DEF StatePart, QueueInv
<1>13. SentInv'
  <2>1. \A q \in Runner : worker'[q] \notin {"firstSent", "lastSent"}
    BY <1>1, <1>3, WorkerTypes DEF LockInv, Holds, RunnersTyped, Move
  <2> QED
    BY <2>1, <1>1, <1>5, <1>8, <1>10 DEF StatePart, SentInv
<1> QED
  BY <1>4, <1>11, <1>12, <1>13, TwoParts DEF StatePart
-----------------------------------------------------------------------------
\* The end of a check.

LEMMA CheckEndsKeeps ==
  ASSUME IInv, NEW r \in Runner, CheckEnds(r)
  PROVE  /\ RunnerPart' /\ checks' \in 0 .. MaxChecks /\ sent' = sent
         /\ \A q \in Runner : worker'[q] \in {"firstSent", "lastSent"} =>
                                 worker[q] \in {"firstSent", "lastSent"}
<1>1. RunnerPart /\ Holds(r) /\ worker[r] # "none"
  BY TwoParts DEF CheckEnds, Holds
<1>2. Flags'
  BY WorkerFlags DEF CheckEnds, runnerVars
<1>3. RunnerPart'
  BY <1>1, <1>2, MoveKeeps DEF CheckEnds, WorkerAt
<1>4. checks' \in 0 .. MaxChecks
  BY Constants, WorkerTypes DEF CheckEnds
<1> QED
  BY <1>3, <1>4, WorkerTypes DEF CheckEnds, Move, RunnersTyped

LEMMA NewIsEvent ==
  ASSUME IInv, NEW kind \in Kind, NEW id \in Identity \cup {None}, NEW status \in Status \cup {None}
  PROVE  /\ New(kind, id, status) \in Event /\ New(kind, id, status).no = Len(queued) + 1
         /\ New(kind, id, status).kind = kind /\ New(kind, id, status).id = id
         /\ New(kind, id, status).status = status
BY WorkerTypes DEF New, Event

\* The state file and the history after a write, with one notification or none.
Saved(events) ==
  /\ disk'.pending = disk.pending \o events /\ queued' = queued \o events
  /\ events = <<>> \/ \E e \in Event : events = <<e>> /\ e.no = Len(queued) + 1
LEMMA SavedQueue ==
  ASSUME IInv, NEW events, Saved(events), sent' = sent,
         \A q \in Runner : worker'[q] \in {"firstSent", "lastSent"} => worker[q] \in {"firstSent", "lastSent"}
  PROVE  /\ QueueInv' /\ SentInv' /\ disk'.pending \in Events /\ queued' \in Events
         /\ Len(queued') \in {Len(queued), Len(queued) + 1}
         /\ \A n \in 1 .. Len(queued) : queued'[n] = queued[n]
         /\ \A e : events = <<e>> => Len(queued') = Len(queued) + 1 /\ queued'[Len(queued) + 1] = e
         /\ events = <<>> => queued' = queued
<1> DEFINE pending == disk.pending
<1>1. /\ pending \in Seq(Event) /\ queued \in Seq(Event)
      /\ Len(pending) \in Nat /\ Len(queued) \in Nat /\ Len(pending) <= Len(queued)
      /\ \A k \in 1 .. Len(pending) : pending[k] = queued[Removed + k]
      /\ \A n \in 1 .. Len(queued) : queued[n].no = n
  BY WorkerTypes DEF IInv, QueueInv, Events
<1>2. Removed = Len(queued) - Len(pending)
  BY DEF Removed
<1>3. CASE events = <<>>
  <2>1. disk'.pending = pending /\ queued' = queued
    BY <1>1, <1>3 DEF Saved
  <2>2. Removed' = Removed
    BY <2>1 DEF Removed
  <2>3. QueueInv' /\ SentInv'
    BY <2>1, <2>2 DEF IInv, QueueInv, SentInv
  <2>4. \A e : events # <<e>>
    BY <1>3
  <2> QED
    BY <2>1, <2>3, <2>4, <1>1 DEF Events
<1>4. CASE events # <<>>
  <2>1. PICK e \in Event : events = <<e>> /\ e.no = Len(queued) + 1
    BY <1>4 DEF Saved
  <2>2. /\ disk'.pending \in Seq(Event) /\ Len(disk'.pending) = Len(pending) + 1
        /\ \A k \in 1 .. Len(pending) : disk'.pending[k] = pending[k]
        /\ disk'.pending[Len(pending) + 1] = e
    BY <1>1, <2>1 DEF Saved
  <2>3. /\ queued' \in Seq(Event) /\ Len(queued') = Len(queued) + 1
        /\ \A k \in 1 .. Len(queued) : queued'[k] = queued[k]
        /\ queued'[Len(queued) + 1] = e
    BY <1>1, <2>1 DEF Saved
  <2>4. Removed' = Removed /\ Removed \in Nat
    BY <1>1, <1>2, <2>2, <2>3 DEF Removed
  <2>5. QueueInv'
    <3>1. Len(disk'.pending) <= Len(queued')
      BY <1>1, <2>2, <2>3
    <3>2. ASSUME NEW k \in 1 .. Len(disk'.pending) PROVE disk'.pending[k] = queued'[Removed' + k]
      <4>1. CASE k = Len(pending) + 1
        <5>2. Len(pending) \in Nat /\ Len(queued) \in Nat
          BY <1>1
        <5>1. Removed + k = Len(queued) + 1
          <6>1. Removed + (Len(pending) + 1) = Len(queued) + 1
            <7>1. \A a, b \in Nat : (a - b) + (b + 1) = a + 1
              OBVIOUS
            <7>2. (Len(queued) - Len(pending)) + (Len(pending) + 1) = Len(queued) + 1
              BY <5>2, <7>1
            <7> QED
              BY <7>2, <1>2
          <6> QED
            BY <6>1, <4>1
        <5> QED
          BY <5>1, <4>1, <2>2, <2>3, <2>4
      <4>2. CASE k \in 1 .. Len(pending)
        <5>1. Removed + k \in 1 .. Len(queued)
          BY <4>2, <1>1, <1>2, <2>4
        <5>2. queued'[Removed + k] = queued[Removed + k] /\ pending[k] = queued[Removed + k]
          BY <5>1, <4>2, <1>1, <2>3
        <5>3. disk'.pending[k] = pending[k]
          BY <4>2, <2>2
        <5> QED
          BY <5>2, <5>3, <2>4
      <4> QED
        BY <4>1, <4>2, <1>1, <2>2
    <3>3. \A n \in 1 .. Len(queued') : queued'[n].no = n
      BY <1>1, <2>1, <2>3
    <3> QED
      BY <3>1, <3>2, <3>3 DEF QueueInv
  <2>6. SentInv'
    BY <1>1, <2>3, <2>4, WorkerTypes DEF IInv, SentInv
  <2>7. \A f : events = <<f>> => f = e
    BY <2>1
  <2> QED
    BY <2>1, <2>2, <2>3, <2>5, <2>6, <2>7, <1>4 DEF Events
<1> QED
  BY <1>3, <1>4

LEMMA NewsCases ==
  ASSUME IInv, NEW id \in Identity, NEW status \in Status, NEW notify \in BOOLEAN
  PROVE  \/ /\ disk.alerted /\ disk.failing = id
            /\ News(id, status, notify) = <<New("recovery", id, status)>>
         \/ \E kind \in {"change", "current"} : News(id, status, notify) = <<New(kind, id, status)>>
         \/ News(id, status, notify) = <<>> /\ (disk.tracked = id => disk.status = status)
<1> DEFINE previous == IF disk.tracked = id THEN disk.status ELSE None
<1>1. CASE FailingId = id /\ disk.alerted
  <2>1. disk.failing = id
    BY <1>1 DEF IInv, AlertInv, FailingId
  <2>2. News(id, status, notify) = <<New("recovery", id, status)>>
    BY <1>1 DEF News
  <2> QED
    BY <1>1, <2>1, <2>2
<1>2. CASE ~(FailingId = id /\ disk.alerted) /\ previous \notin {None, status}
  <2>1. News(id, status, notify) = <<New("change", id, status)>>
    BY <1>2 DEF News
  <2> QED
    BY <2>1
<1>3. CASE ~(FailingId = id /\ disk.alerted) /\ previous \in {None, status}
  <2>1. News(id, status, notify) = IF notify THEN <<New("current", id, status)>> ELSE <<>>
    BY <1>3 DEF News
  <2>2. disk.tracked = id => disk.status = status
    BY <1>3, Constants DEF IInv, TrackInv
  <2> QED
    BY <2>1, <2>2
<1> QED
  BY <1>1, <1>2, <1>3

\* A recovery that is appended must answer the alert on disk.
LEMMA RecoveryAppended ==
  ASSUME IInv, queued' \in Events, Len(queued') \in {Len(queued), Len(queued) + 1},
         \A n \in 1 .. Len(queued) : queued'[n] = queued[n],
         Len(queued') = Len(queued) + 1 /\ queued'[Len(queued) + 1].kind = "recovery" =>
           disk.alerted /\ queued'[Len(queued) + 1].id = disk.failing
  PROVE  RecoveryAnswersAlert'
<1>1. PICK L \in Nat : L = Len(queued) /\ DOMAIN queued = 1 .. L
  BY WorkerTypes DEF Events
<1>2. DOMAIN queued' \subseteq 1 .. L + 1 /\ \A n \in 1 .. L : queued'[n] = queued[n]
  BY <1>1 DEF Events
<1>3. L + 1 \in DOMAIN queued' /\ queued'[L + 1].kind = "recovery" =>
        disk.alerted /\ queued'[L + 1].id = disk.failing
  BY <1>1 DEF Events
<1> SUFFICES ASSUME NEW n \in 1 .. L + 1, n \in DOMAIN queued', queued'[n].kind = "recovery"
             PROVE  \E m \in 1 .. n - 1 :
                      /\ queued'[m].kind = "failure" /\ queued'[m].id = queued'[n].id
                      /\ \A k \in m + 1 .. n - 1 :
                           ~(queued'[k].kind = "recovery" /\ queued'[k].id = queued'[n].id)
  BY <1>2 DEF RecoveryAnswersAlert
<1>4. CASE n \in 1 .. L
  <2>1. PICK m \in 1 .. n - 1 :
          /\ queued[m].kind = "failure" /\ queued[m].id = queued[n].id
          /\ \A k \in m + 1 .. n - 1 : ~(queued[k].kind = "recovery" /\ queued[k].id = queued[n].id)
    BY <1>1, <1>2, <1>4 DEF IInv, RecoveryAnswersAlert
  <2>2. queued'[m] = queued[m] /\ \A k \in m + 1 .. n - 1 : queued'[k] = queued[k]
    BY <1>2, <1>4
  <2> QED
    BY <2>1, <2>2, <1>2, <1>4
<1>5. CASE n = L + 1
  <2>1. disk.alerted /\ queued'[n].id = disk.failing
    BY <1>3, <1>5
  <2>2. PICK m \in 1 .. L :
          /\ queued[m].kind = "failure" /\ queued[m].id = disk.failing
          /\ \A k \in m + 1 .. L : ~(queued[k].kind = "recovery" /\ queued[k].id = disk.failing)
    BY <2>1, <1>1 DEF IInv, AlertInv
  <2>3. queued'[m] = queued[m] /\ \A k \in m + 1 .. L : queued'[k] = queued[k]
    BY <1>2
  <2>4. n - 1 = L /\ m \in 1 .. n - 1
    BY <1>5
  <2> QED
    BY <2>1, <2>2, <2>3, <2>4
<1> QED
  BY <1>4, <1>5

LEMMA RecordSuccessStep ==
  ASSUME IInv, NEW r \in Runner, NEW id \in Identity, NEW status \in Status, NEW notify \in BOOLEAN,
         RecordSuccess(r, id, status, notify)
  PROVE  IInv'
<1> DEFINE events == News(id, status, notify)
           after == [tracked |-> id, status |-> status, failing |-> id, failures |-> 0,
                     alerted |-> FALSE, pending |-> disk.pending \o events]
<1>1. /\ RunnerPart' /\ checks' \in 0 .. MaxChecks /\ sent' = sent
      /\ \A q \in Runner : worker'[q] \in {"firstSent", "lastSent"} => worker[q] \in {"firstSent", "lastSent"}
  BY CheckEndsKeeps DEF RecordSuccess
<1>2. disk' = after /\ queued' = queued \o events
  BY DEF RecordSuccess, Save
<1>3. /\ disk'.tracked = id /\ disk'.status = status /\ disk'.failing = id /\ disk'.alerted = FALSE
      /\ disk'.failures = 0 /\ disk'.pending = disk.pending \o events
  BY <1>2
<1>4. \/ events = <<>> /\ (disk.tracked = id => disk.status = status)
      \/ \E kind \in {"recovery", "change", "current"} :
           /\ events = <<New(kind, id, status)>>
           /\ kind = "recovery" => disk.alerted /\ disk.failing = id
  BY NewsCases
<1>5. Saved(events)
  <2>1. \A kind \in Kind : New(kind, id, status) \in Event /\ New(kind, id, status).no = Len(queued) + 1
    BY NewIsEvent
  <2> QED
    BY <2>1, <1>2, <1>3, <1>4 DEF Saved, Kind
<1> HIDE DEF events, after
<1>6. /\ QueueInv' /\ SentInv' /\ disk'.pending \in Events /\ queued' \in Events
      /\ Len(queued') \in {Len(queued), Len(queued) + 1}
      /\ \A n \in 1 .. Len(queued) : queued'[n] = queued[n]
      /\ \A e : events = <<e>> => Len(queued') = Len(queued) + 1 /\ queued'[Len(queued) + 1] = e
      /\ events = <<>> => queued' = queued
  BY <1>1, <1>5, SavedQueue
<1>7. Len(queued) \in Nat /\ DOMAIN queued = 1 .. Len(queued) /\ DOMAIN queued' = 1 .. Len(queued')
  BY <1>6, WorkerTypes DEF Events
<1>8. \/ queued' = queued /\ (disk.tracked = id => disk.status = status)
      \/ \E kind \in {"recovery", "change", "current"} :
           /\ Len(queued') = Len(queued) + 1 /\ queued'[Len(queued) + 1] = New(kind, id, status)
           /\ kind = "recovery" => disk.alerted /\ disk.failing = id
  BY <1>4, <1>6
<1>9. \A kind \in Kind : /\ New(kind, id, status).kind = kind /\ New(kind, id, status).id = id
                        /\ New(kind, id, status).status = status
  BY NewIsEvent
<1>10. base' = IF disk.tracked = id THEN base ELSE [status |-> status, from |-> Len(queued)]
  BY DEF RecordSuccess
<1>11. StateTyped'
  <2>1. base' \in Base
    BY <1>7, <1>10, WorkerTypes DEF Base
  <2>2. disk' \in Disk
    BY <1>2, <1>3, <1>6, Constants DEF after, Disk
  <2> QED
    BY <1>1, <1>6, <2>1, <2>2, WorkerTypes DEF StateTyped
<1>12. AlertInv' /\ TrackInv'
  <2>1. base'.from <= Len(queued')
    <3>1. base'.from <= Len(queued) /\ base'.from \in Nat
      BY <1>7, <1>10, WorkerTypes DEF IInv, TrackInv, Base
    <3>2. PICK L \in Nat : L = Len(queued)
      BY <1>7
    <3>3. Len(queued') \in {L, L + 1} /\ base'.from <= L
      BY <3>1, <3>2, <1>6
    <3> QED
      BY <3>1, <3>3
  <2> QED
    BY <2>1, <1>3, Constants DEF AlertInv, TrackInv
<1>13. RecoveryAnswersAlert'
  <2>1. Len(queued') = Len(queued) + 1 /\ queued'[Len(queued) + 1].kind = "recovery" =>
           disk.alerted /\ queued'[Len(queued) + 1].id = disk.failing
    BY <1>7, <1>8, <1>9 DEF Kind
  <2> QED
    BY <1>6, <2>1, RecoveryAppended
<1>14. NewsIsCurrent'
  <2> DEFINE new == {n \in DOMAIN queued' : /\ n > base'.from /\ queued'[n].id = id
                                           /\ queued'[n].kind \in {"change", "current", "recovery"}}
             old == {n \in DOMAIN queued : /\ n > base.from /\ queued[n].id = id
                                          /\ queued[n].kind \in {"change", "current", "recovery"}}
  <2> SUFFICES /\ new = {} => status = base'.status
               /\ \A n \in new : (\A m \in new : m <= n) => status = queued'[n].status
    BY <1>3 DEF NewsIsCurrent
  <2>1. base'.from <= Len(queued) /\ base'.from \in Nat
    BY <1>7, <1>10, WorkerTypes DEF IInv, TrackInv, Base
  <2>2. CASE Len(queued') = Len(queued) + 1
    <3>1. Len(queued) + 1 \in new /\ queued'[Len(queued) + 1].status = status
      BY <1>7, <1>8, <1>9, <2>1, <2>2 DEF Kind
    <3>2. \A n \in new : n <= Len(queued) + 1 /\ n \in Nat
      BY <1>7, <2>2
    <3>3. \A n \in new : (\A m \in new : m <= n) => n = Len(queued) + 1
      BY <3>1, <3>2, <1>7
    <3> QED
      BY <3>1, <3>3
  <2>3. CASE queued' = queued /\ disk.tracked = id
    <3>1. disk.status = status /\ disk.status # None /\ base' = base
      <4>1. Len(queued') # Len(queued) + 1
        <5>1. PICK L \in Nat : L = Len(queued)
          BY <1>7
        <5>2. Len(queued') = L /\ L # L + 1
          BY <5>1, <2>3
        <5> QED
          BY <5>1, <5>2
      <4> QED
        BY <4>1, <1>8, <1>10, <2>3, Constants
    <3>2. new = old
      BY <2>3, <3>1
    <3>3. /\ old = {} => disk.status = base.status
          /\ \A n \in old : (\A m \in old : m <= n) => disk.status = queued[n].status
      BY <2>3, <3>1 DEF IInv, NewsIsCurrent
    <3> QED
      BY <2>3, <3>1, <3>2, <3>3
  <2>4. CASE queued' = queued /\ disk.tracked # id
    <3>1. base'.status = status /\ base'.from = Len(queued)
      BY <1>10, <2>4
    <3>2. new = {}
      BY <1>7, <2>4, <3>1
    <3> QED
      BY <3>1, <3>2
  <2> QED
    BY <1>8, <2>2, <2>3, <2>4
<1> QED
  BY <1>1, <1>6, <1>11, <1>12, <1>13, <1>14, TwoParts DEF StatePart

\* An alert that stays on disk is not answered by what is appended.
LEMMA AlertKept ==
  ASSUME IInv, disk.alerted => disk'.failing = disk.failing, disk'.alerted => disk.alerted,
         queued' \in Events, Len(queued') \in {Len(queued), Len(queued) + 1},
         \A n \in 1 .. Len(queued) : queued'[n] = queued[n],
         Len(queued') = Len(queued) + 1 => queued'[Len(queued) + 1].kind \in {"failure", "query"}
  PROVE  AlertInv'
<1> SUFFICES ASSUME disk'.alerted PROVE AlertInv'
  BY DEF AlertInv
<1>1. PICK L \in Nat : L = Len(queued)
  BY WorkerTypes
<1>2. Len(queued') \in {L, L + 1} /\ \A n \in 1 .. L : queued'[n] = queued[n]
  BY <1>1
<1>3. disk'.failing = disk.failing /\ disk.failing # None
  BY DEF IInv, AlertInv
<1>4. PICK m \in 1 .. L :
        /\ queued[m].kind = "failure" /\ queued[m].id = disk.failing
        /\ \A k \in m + 1 .. L : ~(queued[k].kind = "recovery" /\ queued[k].id = disk.failing)
  BY <1>1 DEF IInv, AlertInv
<1>5. m \in 1 .. Len(queued') /\ queued'[m] = queued[m]
  BY <1>2
<1>6. ASSUME NEW k \in m + 1 .. Len(queued')
      PROVE  ~(queued'[k].kind = "recovery" /\ queued'[k].id = disk.failing)
  <2>1. CASE k \in 1 .. L
    BY <2>1, <1>2, <1>4
  <2>2. CASE k = L + 1
    <3>1. Len(queued') = L + 1
      BY <2>2, <1>2
    <3> QED
      BY <3>1, <2>2, <1>1
  <2> QED
    BY <2>1, <2>2, <1>2
<1> QED
  BY <1>3, <1>4, <1>5, <1>6 DEF AlertInv

\* A write that leaves the tracked state alone and queues nothing about a status.
LEMMA OtherNews ==
  ASSUME IInv, disk'.tracked = disk.tracked, disk'.status = disk.status, base' = base,
         queued' \in Events, Len(queued') \in {Len(queued), Len(queued) + 1},
         \A n \in 1 .. Len(queued) : queued'[n] = queued[n],
         Len(queued') = Len(queued) + 1 => queued'[Len(queued) + 1].kind \in {"failure", "query"}
  PROVE  NewsIsCurrent' /\ TrackInv' /\ RecoveryAnswersAlert'
<1>1. PICK L \in Nat : L = Len(queued) /\ DOMAIN queued = 1 .. L
  BY WorkerTypes DEF Events
<1>2. /\ DOMAIN queued' \subseteq 1 .. L + 1 /\ 1 .. L \subseteq DOMAIN queued'
      /\ \A n \in 1 .. L : queued'[n] = queued[n]
  BY <1>1 DEF Events
<1>3. L + 1 \in DOMAIN queued' => queued'[L + 1].kind \in {"failure", "query"}
  BY <1>1 DEF Events
<1>4. NewsIsCurrent'
  <2> DEFINE new == {n \in DOMAIN queued' : /\ n > base.from /\ queued'[n].id = disk.tracked
                                           /\ queued'[n].kind \in {"change", "current", "recovery"}}
             old == {n \in DOMAIN queued : /\ n > base.from /\ queued[n].id = disk.tracked
                                          /\ queued[n].kind \in {"change", "current", "recovery"}}
  <2>1. L + 1 \notin new
    BY <1>3
  <2>2. new = old
    BY <1>1, <1>2, <2>1
  <2>3. \A n \in old : queued'[n] = queued[n]
    BY <1>1, <1>2
  <2> HIDE DEF new
  <2> SUFFICES disk.status # None =>
                 /\ new = {} => disk.status = base.status
                 /\ \A n \in new : (\A m \in new : m <= n) => disk.status = queued'[n].status
    BY DEF NewsIsCurrent, new
  <2> QED
    BY <2>2, <2>3 DEF IInv, NewsIsCurrent
<1>5. TrackInv'
  <2>1. Len(queued') \in {L, L + 1} /\ base.from <= L /\ base.from \in Nat
    BY <1>1, WorkerTypes DEF IInv, TrackInv, Base
  <2>2. base'.from <= Len(queued')
    BY <2>1
  <2> QED
    BY <2>2 DEF IInv, TrackInv
<1>6. RecoveryAnswersAlert'
  BY RecoveryAppended
<1> QED
  BY <1>4, <1>5, <1>6

LEMMA AnswerQueryStep ==
  ASSUME IInv, NEW r \in Runner, NEW id \in Identity, NEW status \in Status,
         AnswerQuery(r, id, status)
  PROVE  IInv'
<1> DEFINE event == New("query", id, status)
<1>1. /\ RunnerPart' /\ checks' \in 0 .. MaxChecks /\ sent' = sent
      /\ \A q \in Runner : worker'[q] \in {"firstSent", "lastSent"} => worker[q] \in {"firstSent", "lastSent"}
  BY CheckEndsKeeps DEF AnswerQuery
<1>2. event \in Event /\ event.no = Len(queued) + 1 /\ event.kind = "query"
  BY NewIsEvent DEF Kind
<1>3. disk' = [disk EXCEPT !.pending = @ \o <<event>>] /\ queued' = queued \o <<event>> /\ base' = base
  BY DEF AnswerQuery, Save
<1> HIDE DEF event
<1>4. /\ disk'.pending = disk.pending \o <<event>> /\ disk'.tracked = disk.tracked
      /\ disk'.status = disk.status /\ disk'.failing = disk.failing /\ disk'.alerted = disk.alerted
  BY <1>3, WorkerTypes DEF Disk
<1>5. /\ QueueInv' /\ SentInv' /\ disk'.pending \in Events /\ queued' \in Events
      /\ Len(queued') = Len(queued) + 1 /\ queued'[Len(queued) + 1] = event
      /\ \A n \in 1 .. Len(queued) : queued'[n] = queued[n]
  <2>1. Saved(<<event>>)
    BY <1>2, <1>3, <1>4 DEF Saved
  <2> QED
    BY <2>1, <1>1, SavedQueue
<1>6. NewsIsCurrent' /\ TrackInv' /\ RecoveryAnswersAlert'
  BY <1>2, <1>3, <1>4, <1>5, OtherNews
<1>7. StateTyped'
  <2>1. disk' \in Disk
    BY <1>3, <1>4, <1>5, WorkerTypes DEF Disk
  <2> QED
    BY <2>1, <1>1, <1>3, <1>5, WorkerTypes DEF StateTyped
<1>8. AlertInv'
  BY <1>2, <1>4, <1>5, AlertKept
<1> QED
  BY <1>1, <1>5, <1>6, <1>7, <1>8, TwoParts DEF StatePart

LEMMA RecordFailureStep ==
  ASSUME IInv, NEW r \in Runner, NEW id \in Identity, RecordFailure(r, id)
  PROVE  IInv'
<1> DEFINE same == FailingId = id
           failures == (IF same THEN disk.failures ELSE 0) + 1
           alerted == same /\ disk.alerted
           alert == failures >= Threshold /\ ~alerted
           event == New("failure", id, None)
           events == IF alert THEN <<event>> ELSE <<>>
           count == IF failures > Threshold THEN Threshold ELSE failures
<1>1. /\ RunnerPart' /\ checks' \in 0 .. MaxChecks /\ sent' = sent
      /\ \A q \in Runner : worker'[q] \in {"firstSent", "lastSent"} => worker[q] \in {"firstSent", "lastSent"}
  BY CheckEndsKeeps DEF RecordFailure
<1>2. event \in Event /\ event.no = Len(queued) + 1 /\ event.kind = "failure" /\ event.id = id
  BY NewIsEvent DEF Kind
<1>3. /\ disk' = [[disk EXCEPT !.failing = id, !.alerted = alerted \/ alert, !.failures = count]
                    EXCEPT !.pending = @ \o events]
      /\ queued' = queued \o events /\ base' = base
  BY DEF RecordFailure, Save
<1>4. count \in 0 .. Threshold
  BY Constants, WorkerTypes DEF Disk
<1>5. alerted => disk.failing = id
  BY DEF IInv, AlertInv, FailingId
<1>6. alert \in BOOLEAN /\ alerted \in BOOLEAN /\ (alert => ~alerted)
  BY WorkerTypes DEF Disk
<1>7. alerted => disk.alerted
  OBVIOUS
<1>8. events = (IF alert THEN <<event>> ELSE <<>>)
  OBVIOUS
<1> HIDE DEF event, events, count, alerted, alert
<1>9. /\ disk'.pending = disk.pending \o events /\ disk'.tracked = disk.tracked
      /\ disk'.status = disk.status /\ disk'.failing = id /\ disk'.failures = count
      /\ disk'.alerted = (alerted \/ alert)
  BY <1>3, WorkerTypes DEF Disk
<1>10. /\ QueueInv' /\ SentInv' /\ disk'.pending \in Events /\ queued' \in Events
       /\ Len(queued') \in {Len(queued), Len(queued) + 1}
       /\ \A n \in 1 .. Len(queued) : queued'[n] = queued[n]
       /\ \A e : events = <<e>> => Len(queued') = Len(queued) + 1 /\ queued'[Len(queued) + 1] = e
       /\ events = <<>> => queued' = queued
  <2>1. Saved(events)
    BY <1>2, <1>3, <1>8, <1>9 DEF Saved
  <2> QED
    BY <2>1, <1>1, SavedQueue
<1>11. Len(queued') = Len(queued) + 1 => queued'[Len(queued) + 1] = event
  <2>1. PICK L \in Nat : L = Len(queued)
    BY WorkerTypes
  <2>2. queued' = queued => Len(queued') # L + 1
    BY <2>1
  <2> QED
    BY <1>8, <1>10, <2>1, <2>2
<1>12. NewsIsCurrent' /\ TrackInv' /\ RecoveryAnswersAlert'
  BY <1>2, <1>3, <1>9, <1>10, <1>11, OtherNews
<1>13. StateTyped'
  <2>1. disk' \in Disk
    BY <1>4, <1>6, <1>9, <1>10, <1>3, WorkerTypes DEF Disk
  <2> QED
    BY <2>1, <1>1, <1>3, <1>10, WorkerTypes DEF StateTyped
<1>14. AlertInv'
  <2>1. CASE alerted
    BY <2>1, <1>2, <1>5, <1>7, <1>9, <1>10, <1>11, AlertKept
  <2>2. CASE alert
    <3>1. PICK L \in Nat : L = Len(queued) /\ Len(queued') = L + 1 /\ queued'[L + 1] = event
      BY <2>2, <1>8, <1>10, WorkerTypes
    <3>2. L + 1 \in 1 .. Len(queued') /\ \A k \in (L + 1) + 1 .. Len(queued') : FALSE
      BY <3>1
    <3> QED
      BY <3>1, <3>2, <1>2, <1>9, Constants DEF AlertInv
  <2>3. CASE ~alerted /\ ~alert
    BY <2>3, <1>9 DEF AlertInv
  <2> QED
    BY <2>1, <2>2, <2>3
<1> QED
  BY <1>1, <1>10, <1>12, <1>13, <1>14, TwoParts DEF StatePart
-----------------------------------------------------------------------------
LEMMA StepInv == IInv /\ [Next]_vars => IInv'
<1> SUFFICES ASSUME IInv, [Next]_vars PROVE IInv'
  OBVIOUS
<1>1. CASE UNCHANGED vars
  <2>1. UNCHANGED recent /\ UNCHANGED cancelled
    BY <1>1 DEF vars, runnerVars, monitorVars
  <2>2. Flags'
    BY <2>1, WorkerFlags
  <2>3. RunnersTyped' /\ GroupInv' /\ LockInv' /\ NothingLeftBehind'
    BY <1>1, WorkerTypes
    DEF vars, runnerVars, monitorVars, RunnersTyped, GroupInv, LockInv, Holds, NothingLeftBehind
  <2>4. StatePart'
    BY <1>1, StateKept, TwoParts DEF vars, monitorVars
  <2> QED
    BY <2>2, <2>3, <2>4, TwoParts DEF RunnerPart
<1>2. CASE Tick
  BY <1>2, TickStep
<1>3. ASSUME NEW r \in Runner, Supervise(r) \/ WorkerStep(r) \/ DescendantExits(r) PROVE IInv'
  <2>1. CASE Supervise(r)
    BY <2>1, SuperviseStep
  <2>2. CASE AcquireLock(r)
    BY <2>2, AcquireStep
  <2>3. CASE Spawn(r) \/ DescendantExits(r) \/ WorkerExits(r)
    BY <2>3, QuietStep
  <2>4. CASE SendConfirmed(r)
    BY <2>4, SendConfirmedStep
  <2>5. CASE SendUnconfirmed(r) \/ QueueEmpty(r)
    BY <2>5, SendUnconfirmedStep
  <2>6. CASE RemoveSent(r)
    BY <2>6, RemoveSentStep
  <2>7. ASSUME NEW id \in Identity, NEW status \in Status, AnswerQuery(r, id, status) PROVE IInv'
    BY <2>7, AnswerQueryStep
  <2>8. ASSUME NEW id \in Identity, RecordFailure(r, id) PROVE IInv'
    BY <2>8, RecordFailureStep
  <2>9. ASSUME NEW id \in Identity, NEW status \in Status, NEW notify \in BOOLEAN,
               RecordSuccess(r, id, status, notify)
        PROVE  IInv'
    BY <2>9, RecordSuccessStep
  <2> QED
    BY <1>3, <2>1, <2>2, <2>3, <2>4, <2>5, <2>6, <2>7, <2>8, <2>9 DEF WorkerStep
<1> QED
  BY <1>1, <1>2, <1>3 DEF Next

\* Types, groups, the lock, the queue on disk and the alert fit together at every step.
THEOREM Inductive == Spec => []IInv
<1>1. Init => IInv
  BY InitInv
<1>2. IInv /\ [Next]_vars => IInv'
  BY StepInv
<1> QED
  BY <1>1, <1>2, PTL DEF Spec

\* Processes, the state file and the histories are well formed.
THEOREM TypesHold == Spec => []TypeOK
<1>1. IInv => TypeOK
  BY TypesCorrect DEF IInv
<1> QED
  BY <1>1, Inductive, PTL

\* A supervisor that returns, or was cancelled, leaves no process behind.
THEOREM NothingStaysBehind == Spec => []NothingLeftBehind
<1>1. IInv => NothingLeftBehind
  BY DEF IInv
<1> QED
  BY <1>1, Inductive, PTL

\* The chat gets the notifications in the order in which they were queued, none left out.
THEOREM ChatInOrder == Spec => []DeliveredInOrder
<1>1. IInv => DeliveredInOrder
  BY DEF IInv, Types, StateTyped, Events, SentInv, DeliveredInOrder
<1> QED
  BY <1>1, Inductive, PTL

\* The last news about the tracked request is the status on disk.
THEOREM LastNewsIsStatus == Spec => []NewsIsCurrent
<1>1. IInv => NewsIsCurrent
  BY DEF IInv
<1> QED
  BY <1>1, Inductive, PTL

\* A recovery answers a failure of the same request, once.
THEOREM RecoveriesAnswer == Spec => []RecoveryAnswersAlert
<1>1. IInv => RecoveryAnswersAlert
  BY DEF IInv
<1> QED
  BY <1>1, Inductive, PTL
=============================================================================
