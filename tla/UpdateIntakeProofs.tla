-------------------------- MODULE UpdateIntakeProofs --------------------------
(***************************************************************************)
(* UpdateIntake for every number of updates, every limit and any number of   *)
(* faults: no offset hides a command, replay admits once, nobody is told of  *)
(* a job that does not exist, and a command of the legacy lane runs at most  *)
(* once unless the offset file was left torn.                               *)
(***************************************************************************)
EXTENDS UpdateIntake, TLAPS

\* The part of TypeOK the argument needs.
Types ==
  /\ arrived \in Nat /\ confirmed \in Nat \ {0} /\ file \in Nat
  /\ offset \in Nat /\ next \in Nat /\ last \in Nat
  /\ at \in At /\ verdict \in Verdict
  /\ rows \in [Update -> Nat] /\ told \in [Update -> Verdict]

InBatch == at \in {"handle", "save", "saving", "ack", "hand"}

\* The batch is walked in order, and what is behind the listener is decided.
BatchInv ==
  /\ arrived <= MaxUpdate
  /\ InBatch =>
       /\ 1 <= next /\ next <= last /\ last <= arrived
       /\ \A u \in Analytic : u < next => u \in decided
  /\ at \in {"save", "ack"} => next \in Analytic
  /\ at \in {"save", "saving", "ack"} => (next \in Analytic => next \in decided)
  /\ at = "hand" => next \notin Analytic

\* The verdict in hand is about the update in hand.
VerdictInv ==
  /\ verdict = "accepted" => next \in Update /\ rows[next] > 0
  /\ at \in {"down", "fetch", "handle"} => verdict = "none"

IInv == Types /\ BatchInv /\ VerdictInv /\ AdmittedOnce /\ NothingHidden /\ AcceptedExists

LEMMA Constants ==
  /\ MaxUpdate \in Nat /\ MaxUpdate # 0 /\ MaxQueued \in Nat
  /\ Analytic \subseteq Update /\ Update \subseteq Nat
  /\ \A u \in Nat : u \in Update <=> 1 <= u /\ u <= MaxUpdate
BY IntakeAssumption DEF IntakeAssumption, Update

LEMMA InitInv == Init => IInv
<1> SUFFICES ASSUME Init PROVE IInv
  OBVIOUS
<1> USE Constants DEF Init
<1>1. Types
  BY DEF Types, At, Verdict
<1>2. BatchInv /\ VerdictInv
  BY DEF BatchInv, InBatch, VerdictInv
<1>3. AdmittedOnce /\ AcceptedExists
  BY DEF AdmittedOnce, AcceptedExists
<1>4. NothingHidden
  BY DEF NothingHidden
<1> QED
  BY <1>1, <1>2, <1>3, <1>4 DEF IInv

LEMMA StepInv == IInv /\ [Next]_vars => IInv'
<1> SUFFICES ASSUME IInv, [Next]_vars PROVE IInv'
  OBVIOUS
<1> USE Constants DEF IInv, Types, BatchInv, InBatch, VerdictInv, AdmittedOnce, NothingHidden,
        AcceptedExists, At, Verdict, telegramVars, fileVars, listenerVars, storeVars, laneVars, Goto
<1>1. CASE Arrive
  BY <1>1 DEF Arrive
<1>2. CASE \E u \in Update : JobLeavesQueue(u)
  BY <1>2 DEF JobLeavesQueue
<1>3. CASE Start
  BY <1>3 DEF Start
<1>4. CASE Fetch
  <2>1. confirmed' \in Nat \ {0} /\ NothingHidden'
    BY <1>4 DEF Fetch
  <2>2. CASE UNCHANGED <<at, next, last>>
    BY <1>4, <2>1, <2>2 DEF Fetch
  <2>3. CASE confirmed' <= arrived /\ at' = "handle" /\ next' = confirmed' /\ last' = arrived
    <3>1. \A u \in Analytic : u < next' => u \in decided'
      BY <1>4, <2>1, <2>3 DEF Fetch
    <3> QED
      BY <1>4, <2>1, <2>3, <3>1 DEF Fetch
  <2> QED
    BY <1>4, <2>2, <2>3 DEF Fetch
<1>5. CASE Admit
  BY <1>5 DEF Admit
<1>6. CASE SaveOffset
  BY <1>6 DEF SaveOffset, Confirms
<1>7. CASE OffsetSaved
  BY <1>7 DEF OffsetSaved
<1>8. CASE Acknowledge
  BY <1>8 DEF Acknowledge, Continue
<1>9. CASE HandOver
  BY <1>9 DEF HandOver, Continue
<1>10. CASE Exit
  BY <1>10 DEF Exit
<1>11. CASE RunLegacy
  BY <1>11 DEF RunLegacy
<1>12. CASE StoreFails
  BY <1>12 DEF StoreFails
<1>13. CASE OffsetFails
  BY <1>13 DEF OffsetFails, CutShort
<1>14. CASE SupervisorFailed
  BY <1>14 DEF SupervisorFailed
<1>15. CASE Crash
  BY <1>15 DEF Crash, CutShort
<1>16. CASE UNCHANGED vars
  BY <1>16 DEF vars
<1> QED
  BY <1>1, <1>2, <1>3, <1>4, <1>5, <1>6, <1>7, <1>8, <1>9, <1>10, <1>11, <1>12, <1>13,
     <1>14, <1>15, <1>16
  DEF Next, Listener

THEOREM Inductive == Spec => []IInv
BY InitInv, StepInv, PTL DEF Spec

\* Whatever crashes, and with an offset file that may be left truncated, neither the saved
\* offset nor the one Telegram was given passes an analytic command that the store
\* has not decided.
THEOREM NothingEverHidden == Spec => []NothingHidden
<1>1. IInv => NothingHidden
  BY DEF IInv
<1> QED
  BY Inductive, <1>1, PTL

\* A replayed update finds the job of its first admission.
THEOREM ReplayAdmitsOnce == Spec => []AdmittedOnce
<1>1. IInv => AdmittedOnce
  BY DEF IInv
<1> QED
  BY Inductive, <1>1, PTL

\* An acknowledgement of acceptance that reached the chat is backed by a row.
THEOREM AcceptanceBacked == Spec => []AcceptedExists
<1>1. IInv => AcceptedExists
  BY DEF IInv
<1> QED
  BY Inductive, <1>1, PTL
-----------------------------------------------------------------------------
\* Legacy commands: within one life of the listener each is handed over once.

InLane(u) == \E i \in 1 .. Len(lane) : lane[i] = u
Bounds ==
  /\ confirmed <= MaxUpdate + 1 /\ file <= MaxUpdate + 1 /\ offset <= MaxUpdate + 1
  /\ next \in 1 .. MaxUpdate + 1 /\ last <= MaxUpdate /\ faults \in 0 .. MaxFaults
  /\ queued \subseteq Update /\ decided \subseteq Update
  /\ runs \in [Update -> Nat] /\ lane \in Seq(Update) /\ Len(lane) <= MaxQueued
Torn == torn \in BOOLEAN
LaneInv ==
  /\ \A i, j \in 1 .. Len(lane) : i < j => lane[i] < lane[j]
  /\ at = "down" => lane = <<>>
  /\ at # "down" => \A i \in 1 .. Len(lane) : lane[i] < offset
  /\ at \in {"handle", "save", "saving"} => offset <= next
  /\ at \in {"ack", "hand"} => offset = next + 1
  /\ at = "hand" => \A i \in 1 .. Len(lane) : lane[i] < next

\* As long as the file was not left truncated, what ran is behind the offset in it.
RunInv ==
  ~torn =>
    /\ at # "down" => offset = file
    /\ \A u \in Update : runs[u] <= 1
    /\ \A u \in Update : runs[u] > 0 =>
         /\ u < file /\ (at = "hand" => u < next)
         /\ \A i \in 1 .. Len(lane) : u < lane[i]

\* Otherwise it runs once per life of the listener, and each end of one is a fault.
Taken(u) == runs[u] + IF InLane(u) \/ (at = "hand" /\ next = u) THEN 1 ELSE 0
CountInv ==
  \A u \in Update :
    Taken(u) <= IF u < offset /\ at \notin {"down", "stopping"} THEN faults + 1 ELSE faults

LegacyInv == Bounds /\ Torn /\ LaneInv /\ RunInv /\ CountInv

LEMMA LegacyConstants == MaxFaults \in Nat /\ Update \subseteq Nat /\ MaxUpdate \in Nat /\ MaxQueued \in Nat \ {0}
BY IntakeAssumption DEF IntakeAssumption, Update

LEMMA LegacyInit == Init => LegacyInv
<1> SUFFICES ASSUME Init PROVE LegacyInv
  OBVIOUS
<1>1. Bounds
  BY LegacyConstants DEF Init, Bounds
<1>2. Torn
  BY Zenon DEF Init, Torn
<1>3. LaneInv
  BY DEF Init, LaneInv
<1>4. RunInv
  BY DEF Init, RunInv
<1>5. CountInv
  BY DEF Init, CountInv, Taken, InLane
<1> QED
  BY <1>1, <1>2, <1>3, <1>4, <1>5 DEF LegacyInv

\* What a step does to the lane.
LEMMA LaneAppend ==
  ASSUME Bounds, NEW u \in Update, lane' = Append(lane, u)
  PROVE  /\ Len(lane') = Len(lane) + 1 /\ Len(lane) \in Nat /\ lane' \in Seq(Update) /\ lane'[Len(lane) + 1] = u
         /\ \A i \in 1 .. Len(lane) : lane'[i] = lane[i]
         /\ \A v : InLane(v)' <=> InLane(v) \/ v = u
<1>1. /\ Len(lane') = Len(lane) + 1 /\ Len(lane) \in Nat /\ lane' \in Seq(Update) /\ lane'[Len(lane) + 1] = u
      /\ \A i \in 1 .. Len(lane) : lane'[i] = lane[i]
  BY DEF Bounds
<1>2. ASSUME NEW v PROVE InLane(v)' <=> InLane(v) \/ v = u
  <2>1. InLane(v)' => InLane(v) \/ v = u
    <3> SUFFICES ASSUME NEW i \in 1 .. Len(lane'), lane'[i] = v PROVE InLane(v) \/ v = u
      BY DEF InLane
    <3>1. CASE i = Len(lane) + 1
      BY <1>1, <3>1
    <3>2. CASE i \in 1 .. Len(lane)
      BY <1>1, <3>2 DEF InLane
    <3> QED
      BY <1>1, <3>1, <3>2
  <2>2. InLane(v) => InLane(v)'
    BY <1>1 DEF InLane
  <2>3. v = u => InLane(v)'
    <3>1. Len(lane) + 1 \in 1 .. Len(lane')
      BY <1>1
    <3> QED
      BY <1>1, <3>1 DEF InLane
  <2> QED
    BY <2>1, <2>2, <2>3
<1> QED
  BY <1>1, <1>2

LEMMA LaneTail ==
  ASSUME Bounds, LaneInv, lane # <<>>, lane' = Tail(lane)
  PROVE  /\ Len(lane') = Len(lane) - 1 /\ Len(lane) \in Nat \ {0} /\ lane' \in Seq(Update)
         /\ lane[1] \in Update /\ Head(lane) = lane[1]
         /\ \A i \in 1 .. Len(lane') : lane'[i] = lane[i + 1] /\ lane[1] < lane'[i]
         /\ \A v : InLane(v)' <=> InLane(v) /\ v # lane[1]
<1>1. /\ Len(lane') = Len(lane) - 1 /\ Len(lane) \in Nat \ {0} /\ lane' \in Seq(Update)
      /\ lane[1] \in Update /\ Head(lane) = lane[1]
      /\ \A i \in 1 .. Len(lane') : lane'[i] = lane[i + 1] /\ i + 1 \in 1 .. Len(lane) /\ i \in Nat
  BY DEF Bounds
<1>2. \A i \in 1 .. Len(lane') : lane[1] < lane'[i]
  BY <1>1 DEF LaneInv
<1>3. ASSUME NEW v PROVE InLane(v)' <=> InLane(v) /\ v # lane[1]
  <2>1. InLane(v)' => InLane(v) /\ v # lane[1]
    <3> SUFFICES ASSUME NEW i \in 1 .. Len(lane'), lane'[i] = v PROVE InLane(v) /\ v # lane[1]
      BY DEF InLane
    <3>1. lane[i + 1] = v /\ i + 1 \in 1 .. Len(lane) /\ lane[1] < v /\ lane[1] \in Nat
      BY <1>1, <1>2, LegacyConstants
    <3> QED
      BY <3>1 DEF InLane
  <2>2. InLane(v) /\ v # lane[1] => InLane(v)'
    <3> SUFFICES ASSUME NEW j \in 1 .. Len(lane), lane[j] = v, v # lane[1] PROVE InLane(v)'
      BY DEF InLane
    <3>1. j - 1 \in 1 .. Len(lane') /\ (j - 1) + 1 = j
      BY <1>1
    <3>2. lane'[j - 1] = v
      BY <1>1, <3>1
    <3> QED
      BY <3>1, <3>2 DEF InLane
  <2> QED
    BY <2>1, <2>2
<1> QED
  BY <1>1, <1>2, <1>3

LEMMA LegacyStep == IInv /\ LegacyInv /\ [Next]_vars => LegacyInv'
<1> SUFFICES ASSUME IInv, LegacyInv, [Next]_vars PROVE LegacyInv'
  OBVIOUS
<1>1. Torn'
  <2>1. torn' = torn \/ torn' = TRUE
    BY Zenon DEF Next, Listener, Arrive, JobLeavesQueue, Start, Fetch, Admit, SaveOffset, OffsetSaved, Acknowledge,
      HandOver, Exit, RunLegacy, StoreFails, OffsetFails, SupervisorFailed, Crash, CutShort, vars, fileVars
  <2> QED
    BY <2>1, Zenon DEF LegacyInv, Torn
<1>2. /\ arrived \in Nat /\ arrived <= MaxUpdate /\ confirmed \in Nat \ {0} /\ file \in Nat /\ offset \in Nat
      /\ next \in Nat /\ last \in Nat /\ at \in At /\ faults \in Nat
      /\ InBatch => 1 <= next /\ next <= last /\ last <= arrived
  BY DEF IInv, Types, BatchInv, LegacyInv, Bounds
<1>3. Bounds /\ LaneInv /\ RunInv /\ CountInv /\ runs \in [Update -> Nat] /\ lane \in Seq(Update)
      /\ Len(lane) \in Nat
  BY DEF LegacyInv, Bounds
<1>4. next' \in 1 .. MaxUpdate + 1 /\ last' <= MaxUpdate /\ confirmed' <= MaxUpdate + 1
  BY <1>2, <1>3, LegacyConstants
  DEF InBatch, Bounds, Next, Listener, Arrive, JobLeavesQueue, Start, Fetch, Admit, SaveOffset, OffsetSaved,
      Acknowledge, HandOver, Exit, RunLegacy, StoreFails, OffsetFails, SupervisorFailed, Crash, vars, listenerVars,
      telegramVars, Goto, Continue
<1>5. file' <= MaxUpdate + 1 /\ offset' <= MaxUpdate + 1
  BY <1>2, <1>3, LegacyConstants
  DEF InBatch, Bounds, Next, Listener, Arrive, JobLeavesQueue, Start, Fetch, Admit, SaveOffset, OffsetSaved,
      Acknowledge, HandOver, Exit, RunLegacy, StoreFails, OffsetFails, SupervisorFailed, Crash, vars, listenerVars,
      fileVars, Goto, Continue, CutShort
<1>6. queued' \subseteq Update /\ decided' \subseteq Update
  BY <1>2, <1>3, LegacyConstants, Constants
  DEF InBatch, Bounds, Next, Listener, Arrive, JobLeavesQueue, Start, Fetch, Admit, SaveOffset, OffsetSaved,
      Acknowledge, HandOver, Exit, RunLegacy, StoreFails, OffsetFails, SupervisorFailed, Crash, vars, storeVars
<1>7. faults' \in 0 .. MaxFaults /\ faults <= faults' /\ faults' <= faults + 1
  BY <1>2, <1>3, LegacyConstants
  DEF Bounds, Next, Listener, Arrive, JobLeavesQueue, Start, Fetch, Admit, SaveOffset, OffsetSaved,
      Acknowledge, HandOver, Exit, RunLegacy, StoreFails, OffsetFails, SupervisorFailed, Crash, vars
<1>8. SUFFICES lane' \in Seq(Update) /\ Len(lane') <= MaxQueued /\ runs' \in [Update -> Nat]
               /\ LaneInv' /\ RunInv' /\ CountInv'
  BY <1>1, <1>4, <1>5, <1>6, <1>7 DEF LegacyInv, Bounds
<1>9. /\ \A i \in 1 .. Len(lane) : lane[i] \in Nat /\ lane[i] \in Update
      /\ \A u \in Update : u \in Nat /\ runs[u] \in Nat
      /\ Len(lane) <= MaxQueued
  <2>1. \A i \in 1 .. Len(lane) : lane[i] \in Update
    BY <1>3
  <2>2. \A u \in Update : u \in Nat /\ runs[u] \in Nat
    BY <1>3, LegacyConstants
  <2> QED
    BY <1>3, <2>1, <2>2 DEF Bounds
<1>10. UNCHANGED lane => \A u : InLane(u)' <=> InLane(u)
  BY DEF InLane
<1> USE DEF At
<1>11. CASE Arrive \/ (\E u \in Update : JobLeavesQueue(u)) \/ (UNCHANGED vars)
  <2>1. UNCHANGED <<lane, runs, offset, at, next, torn, file, faults>>
    BY <1>11 DEF Arrive, JobLeavesQueue, vars, fileVars, listenerVars, laneVars
  <2> QED
    BY <2>1, <1>3, <1>9, <1>10 DEF LaneInv, RunInv, CountInv, Taken
<1>12. CASE Start
  <2>1. UNCHANGED <<lane, runs, next, torn, file, faults>> /\ offset' = file /\ at = "down" /\ at' = "fetch"
    BY <1>12 DEF Start, fileVars, laneVars
  <2>2. lane = <<>> /\ \A u \in Update : ~InLane(u)
    BY <2>1, <1>3 DEF LaneInv, InLane
  <2> QED
    BY <2>1, <2>2, <1>2, <1>3, <1>9, <1>10 DEF LaneInv, RunInv, CountInv, Taken
<1>13. CASE Fetch
  <2>1. UNCHANGED <<lane, runs, offset, torn, file, faults>> /\ at = "fetch"
    BY <1>13 DEF Fetch, fileVars, laneVars
  <2>2. (UNCHANGED <<at, next>>) \/ (at' = "handle" /\ offset <= next')
    BY <1>13, <1>2 DEF Fetch
  <2> QED
    BY <2>1, <2>2, <1>2, <1>3, <1>9, <1>10 DEF LaneInv, RunInv, CountInv, Taken
<1>14. CASE Admit \/ SaveOffset
  <2>1. /\ UNCHANGED <<lane, runs, offset, next, torn, file, faults>>
        /\ at \in {"handle", "save"} /\ at' \in {"save", "saving"}
    BY <1>14 DEF Admit, SaveOffset, Goto, fileVars, laneVars
  <2> QED
    BY <2>1, <1>2, <1>3, <1>9, <1>10 DEF LaneInv, RunInv, CountInv, Taken
<1>15. CASE OffsetSaved
  <2>1. /\ UNCHANGED <<lane, runs, next, torn, faults>> /\ file' = next + 1 /\ offset' = next + 1
        /\ at = "saving" /\ at' \in {"ack", "hand"} /\ offset <= next
    BY <1>15, <1>3 DEF OffsetSaved, laneVars, LaneInv
  <2>2. \A i \in 1 .. Len(lane) : lane[i] < next
    BY <2>1, <1>2, <1>3, <1>9 DEF LaneInv
  <2>3. LaneInv' /\ RunInv'
    BY <2>1, <2>2, <1>2, <1>3, <1>9 DEF LaneInv, RunInv
  <2>4. ASSUME NEW u \in Update
        PROVE  Taken(u)' <= IF u < offset' THEN faults + 1 ELSE faults
    <3>1. CASE u = next
      <4>1. ~InLane(u)
        BY <2>2, <3>1, <1>9, <1>2 DEF InLane
      <4>2. runs[u] <= faults
        BY <4>1, <2>1, <3>1, <1>2, <1>3, <1>9 DEF CountInv, Taken
      <4> QED
        BY <4>1, <4>2, <2>1, <3>1, <1>2, <1>9, <1>10 DEF Taken
    <3>2. CASE u # next
      BY <2>1, <3>2, <1>2, <1>3, <1>9, <1>10 DEF CountInv, Taken
    <3> QED
      BY <3>1, <3>2
  <2> QED
    BY <2>1, <2>3, <2>4, <1>3, <1>9 DEF CountInv
<1>16. CASE Acknowledge
  <2>1. /\ UNCHANGED <<lane, runs, offset, torn, file, faults>>
        /\ at = "ack" /\ at' \in {"handle", "fetch"} /\ next' = next + 1 /\ offset = next + 1
    BY <1>16, <1>3 DEF Acknowledge, Continue, fileVars, laneVars, LaneInv
  <2> QED
    BY <2>1, <1>2, <1>3, <1>9, <1>10 DEF LaneInv, RunInv, CountInv, Taken
<1>17. CASE HandOver
  <2>1. /\ UNCHANGED <<runs, offset, torn, file, faults>>
        /\ at = "hand" /\ at' \in {"handle", "fetch"} /\ next' = next + 1 /\ offset = next + 1
        /\ next \in Update
    BY <1>17, <1>2, <1>3, Constants DEF HandOver, Continue, fileVars, LaneInv, InBatch
  <2>2. CASE UNCHANGED lane
    BY <2>1, <2>2, <1>2, <1>3, <1>9, <1>10 DEF LaneInv, RunInv, CountInv, Taken
  <2>3. CASE Len(lane) < MaxQueued /\ lane' = Append(lane, next)
    <3>1. /\ Len(lane') = Len(lane) + 1 /\ lane' \in Seq(Update) /\ lane'[Len(lane) + 1] = next
          /\ \A i \in 1 .. Len(lane) : lane'[i] = lane[i]
          /\ \A v : InLane(v)' <=> InLane(v) \/ v = next
      BY <2>1, <2>3, <1>3, LaneAppend
    <3>2. \A i \in 1 .. Len(lane) : lane[i] < next
      BY <2>1, <1>3 DEF LaneInv
    <3>3. ASSUME NEW i \in 1 .. Len(lane') PROVE lane'[i] <= next
      <4>1. CASE i = Len(lane) + 1
        BY <4>1, <3>1, <1>2
      <4>2. CASE i \in 1 .. Len(lane)
        BY <4>2, <3>1, <3>2, <1>9, <1>2
      <4> QED
        BY <4>1, <4>2, <3>1, <1>3
    <3>4. \A i, j \in 1 .. Len(lane') : i < j => lane'[i] < lane'[j]
      <4> SUFFICES ASSUME NEW i \in 1 .. Len(lane'), NEW j \in 1 .. Len(lane'), i < j PROVE lane'[i] < lane'[j]
        OBVIOUS
      <4>1. i \in 1 .. Len(lane) /\ lane'[i] = lane[i]
        <5>1. i \in 1 .. Len(lane)
          BY <3>1, <1>3
        <5> QED
          BY <5>1, <3>1
      <4>2. CASE j = Len(lane) + 1
        BY <4>1, <4>2, <3>1, <3>2
      <4>3. CASE j \in 1 .. Len(lane)
        <5>1. lane'[j] = lane[j] /\ lane[i] < lane[j]
          BY <4>1, <4>3, <3>1, <1>3 DEF LaneInv
        <5> QED
          BY <4>1, <5>1
      <4>4. j = Len(lane) + 1 \/ j \in 1 .. Len(lane)
        <5>1. PICK L \in Nat : L = Len(lane)
          BY <1>3
        <5>2. Len(lane') = L + 1
          BY <3>1, <5>1
        <5>3. j \in 1 .. L + 1
          BY <5>2
        <5>4. j = L + 1 \/ j \in 1 .. L
          BY <5>3
        <5> QED
          BY <5>1, <5>4
      <4> QED
        BY <4>2, <4>3, <4>4
    <3>5. LaneInv'
      BY <2>1, <3>3, <3>4, <1>2, <3>1, <1>9, LegacyConstants DEF LaneInv
    <3>6. RunInv'
      <4> SUFFICES ASSUME ~torn, NEW u \in Update, runs[u] > 0, NEW i \in 1 .. Len(lane') PROVE u < lane'[i]
        BY <2>1, <1>3 DEF RunInv
      <4>1. CASE i = Len(lane) + 1
        BY <4>1, <2>1, <3>1, <1>3 DEF RunInv
      <4>2. CASE i \in 1 .. Len(lane)
        BY <4>2, <2>1, <3>1, <1>3 DEF RunInv
      <4> QED
        BY <4>1, <4>2, <3>1, <1>3
    <3>7. CountInv'
      BY <2>1, <3>1, <1>2, <1>3, <1>9 DEF CountInv, Taken
    <3>8. Len(lane') <= MaxQueued
      BY <2>3, <3>1, <1>3, LegacyConstants
    <3> QED
      BY <2>1, <3>1, <3>5, <3>6, <3>7, <3>8, <1>3
  <2> QED
    BY <1>17, <2>2, <2>3 DEF HandOver
<1>18. CASE RunLegacy
  <2>1. /\ UNCHANGED <<offset, at, next, torn, file, faults>> /\ at # "down" /\ lane # <<>>
        /\ runs' = [runs EXCEPT ![Head(lane)] = @ + 1] /\ lane' = Tail(lane)
    BY <1>18 DEF RunLegacy, fileVars, listenerVars
  <2>2. /\ Len(lane') = Len(lane) - 1 /\ Len(lane) \in Nat \ {0} /\ lane' \in Seq(Update)
        /\ lane[1] \in Update /\ Head(lane) = lane[1]
        /\ \A i \in 1 .. Len(lane') : lane'[i] = lane[i + 1] /\ lane[1] < lane'[i]
        /\ \A v : InLane(v)' <=> InLane(v) /\ v # lane[1]
    BY <2>1, <1>3, LaneTail
  <2>3. /\ runs' \in [Update -> Nat] /\ runs'[lane[1]] = runs[lane[1]] + 1
        /\ \A u \in Update : u # lane[1] => runs'[u] = runs[u]
    BY <2>1, <2>2, <1>3
  <2>4. \A i \in 1 .. Len(lane') : i + 1 \in 1 .. Len(lane)
    BY <2>2
  <2>5. LaneInv'
    <3>1. ASSUME NEW i \in 1 .. Len(lane'), NEW j \in 1 .. Len(lane'), i < j PROVE lane'[i] < lane'[j]
      <4>1. i + 1 \in 1 .. Len(lane) /\ j + 1 \in 1 .. Len(lane) /\ i + 1 < j + 1
        BY <2>4, <3>1
      <4>2. lane[i + 1] < lane[j + 1]
        BY <4>1, <1>3 DEF LaneInv
      <4> QED
        BY <4>2, <2>2
    <3> QED
      BY <2>1, <2>2, <2>4, <3>1, <1>3 DEF LaneInv
  <2>6. RunInv'
    <3> SUFFICES ASSUME ~torn
                 PROVE  \A u \in Update : runs'[u] <= 1 /\ (runs'[u] > 0 =>
                          /\ u < file /\ (at = "hand" => u < next)
                          /\ \A i \in 1 .. Len(lane') : u < lane'[i])
      BY <2>1, <1>3 DEF RunInv
    <3> SUFFICES ASSUME NEW u \in Update
                 PROVE  runs'[u] <= 1 /\ (runs'[u] > 0 =>
                          /\ u < file /\ (at = "hand" => u < next)
                          /\ \A i \in 1 .. Len(lane') : u < lane'[i])
      OBVIOUS
    <3>1. CASE u = lane[1]
      <4>1. 1 \in 1 .. Len(lane) /\ ~(u < lane[1])
        BY <2>2, <3>1, <1>9
      <4>2. runs[u] = 0
        BY <4>1, <1>3, <1>9 DEF RunInv
      <4>3. u < file /\ (at = "hand" => u < next)
        BY <4>1, <2>1, <3>1, <1>3 DEF LaneInv, RunInv
      <4> QED
        BY <4>2, <4>3, <2>2, <2>3, <3>1
    <3>2. CASE u # lane[1]
      BY <3>2, <2>2, <2>3, <2>4, <1>3 DEF RunInv
    <3> QED
      BY <3>1, <3>2
  <2>7. CountInv'
    <3> SUFFICES ASSUME NEW u \in Update PROVE Taken(u)' <= Taken(u) /\ Taken(u) \in Nat /\ Taken(u)' \in Nat
      BY <2>1, <1>2, <1>3 DEF CountInv
    <3>1. CASE u = lane[1]
      <4>1. InLane(u) /\ ~InLane(u)' /\ 1 \in 1 .. Len(lane)
        <5>1. 1 \in 1 .. Len(lane)
          BY <2>2
        <5>2. InLane(u)
          BY <5>1, <3>1 DEF InLane
        <5> QED
          BY <5>1, <5>2, <2>2, <3>1
      <4>2. ~(at = "hand" /\ next = u)
        BY <4>1, <3>1, <1>2, <1>3, <1>9 DEF LaneInv
      <4> QED
        BY <4>1, <4>2, <2>1, <2>3, <3>1, <1>9 DEF Taken
    <3>2. CASE u # lane[1]
      BY <3>2, <2>1, <2>2, <2>3, <1>9 DEF Taken
    <3> QED
      BY <3>1, <3>2
  <2>8. Len(lane') <= MaxQueued
    BY <2>2, <1>9, LegacyConstants
  <2> QED
    BY <2>2, <2>3, <2>5, <2>6, <2>7, <2>8
<1>19. CASE StoreFails \/ OffsetFails \/ SupervisorFailed
  <2>1. /\ UNCHANGED <<lane, runs, offset, next>> /\ faults' = faults + 1
        /\ at' = "stopping" /\ at \notin {"down", "hand", "ack"} /\ ((torn' = torn /\ file' = file) \/ torn' = TRUE)
    BY <1>19, Zenon DEF StoreFails, OffsetFails, SupervisorFailed, Goto, CutShort, fileVars, laneVars
  <2> QED
    BY <2>1, <1>2, <1>3, <1>9, <1>10 DEF LaneInv, RunInv, CountInv, Taken
<1>20. CASE Exit
  <2>1. UNCHANGED <<lane, runs, offset, next, torn, file, faults>> /\ at = "stopping" /\ at' = "down" /\ lane = <<>>
    BY <1>20 DEF Exit, Goto, fileVars, laneVars
  <2> QED
    BY <2>1, <1>2, <1>3, <1>9, <1>10 DEF LaneInv, RunInv, CountInv, Taken
<1>21. CASE Crash
  <2>1. /\ UNCHANGED <<runs, offset, next>> /\ faults' = faults + 1 /\ lane' = <<>>
        /\ at' = "down" /\ ((torn' = torn /\ file' = file) \/ torn' = TRUE)
    BY <1>21, Zenon DEF Crash, Goto, CutShort, fileVars
  <2>2. /\ Len(lane') = 0 /\ lane' \in Seq(Update) /\ (1 .. Len(lane')) = {}
        /\ \A u \in Update : ~InLane(u)'
    BY <2>1 DEF InLane
  <2>3. LaneInv'
    BY <2>1, <2>2 DEF LaneInv
  <2>4. RunInv'
    BY <2>1, <2>2, <1>3 DEF RunInv
  <2>5. CountInv'
    BY <2>1, <2>2, <1>2, <1>3, <1>9 DEF CountInv, Taken
  <2> QED
    BY <2>1, <2>2, <2>3, <2>4, <2>5, <1>3, LegacyConstants
<1> QED
  BY <1>11, <1>12, <1>13, <1>14, <1>15, <1>16, <1>17, <1>18, <1>19, <1>20, <1>21 DEF Next, Listener

THEOREM LegacyInductive == Spec => [](IInv /\ LegacyInv)
<1>1. Init => IInv /\ LegacyInv
  BY InitInv, LegacyInit
<1>2. (IInv /\ LegacyInv) /\ [Next]_vars => (IInv /\ LegacyInv)'
  BY StepInv, LegacyStep
<1> QED
  BY <1>1, <1>2, PTL DEF Spec

\* The listener's variables, the job rows and the lane are well formed, and no legacy
\* command runs more often than the listener was started.
THEOREM TypesHold == Spec => []TypeOK
<1>1. IInv /\ LegacyInv => TypeOK
  <2> SUFFICES ASSUME IInv, LegacyInv PROVE TypeOK
    OBVIOUS
  <2>1. torn \in BOOLEAN
    BY Zenon DEF LegacyInv, Torn
  <2>2. \A u \in Update : runs[u] \in 0 .. MaxFaults + 1
    BY LegacyConstants DEF LegacyInv, Bounds, CountInv, Taken
  <2>3. runs \in [Update -> 0 .. MaxFaults + 1]
    BY <2>2 DEF LegacyInv, Bounds
  <2>4. rows \in [Update -> 0 .. 2]
    BY DEF IInv, Types, AdmittedOnce
  <2> QED
    BY <2>1, <2>3, <2>4, LegacyConstants DEF TypeOK, IInv, Types, BatchInv, LegacyInv, Bounds
<1> QED
  BY <1>1, LegacyInductive, PTL

\* Unless the offset file was left truncated, a legacy command runs at most once.
THEOREM LegacyRunsOnce == Spec => []LegacyAtMostOnce
<1>1. LegacyInv => LegacyAtMostOnce
  BY DEF LegacyInv, RunInv, LegacyAtMostOnce
<1> QED
  BY <1>1, LegacyInductive, PTL
=============================================================================
