---------------------------- MODULE DeliveryProofs ----------------------------
(***************************************************************************)
(* Delivery for every number of parts, tries, runs and versions: what the   *)
(* row says of the report is what the chat shows, the chat refines the      *)
(* outbox, and the record moves only through the steps AnalysisJobs counts  *)
(* on.                                                                      *)
(*                                                                         *)
(* The argument: parts are worked off in order, so at most one of them is   *)
(* open at any time, and it is the first that the chat does not surely      *)
(* show.  All that is on the wire is its one request.                       *)
(***************************************************************************)
EXTENDS Delivery, WellFoundedInduction, TLAPS

N == Len(parts)
Is(p, outcomes) == parts[p].outcome \in outcomes
Open(p) == Is(p, {"intent", "unknown"})

\* TypeOK, one variable at a time.
RowTypes ==
  /\ status \in {"queued", "running", "stopped", "cancelled"} /\ generation \in 1 .. MaxGeneration
  /\ version \in 0 .. MaxVersion /\ made \in 0 .. MaxVersion
Flags == full \in BOOLEAN /\ cancel \in BOOLEAN /\ changed \in BOOLEAN /\ ready \in BOOLEAN
WorkTypes == at \in At /\ index \in 0 .. MaxParts /\ reply \in Reply
PlanTypes ==
  /\ outcome \in {"absent", "prepared", "unknown", "confirmed", "partial", "failed"}
  /\ N \in 0 .. MaxParts /\ parts \in [1 .. N -> Part] /\ planOf \in 0 .. MaxVersion
TelegramTypes ==
  wire \subseteq Version \X PartNo \X (1 .. MaxTries) /\ chat \in Seq(Version \X PartNo)
Types == RowTypes /\ Flags /\ WorkTypes /\ PlanTypes /\ TelegramTypes

\* A worker is there only for a running row, and past the analysis a result is.
WorkInv ==
  /\ at \notin {"none", "leaving"} => status = "running"
  /\ status = "queued" => at = "none"
  /\ at \in {"verify", "artifact", "prepare", "loop", "check", "sending", "waiting"} => version # 0
  /\ parts # <<>> => planOf = version /\ version # 0

\* Parts are taken in order: what was touched has confirmed parts before it.
InOrder == \A p \in 1 .. N : ~Is(p, {"pending"}) => \A q \in 1 .. (p - 1) : Is(q, {"confirmed"})

\* The outcome of the record sums up its parts.
OutcomeInv ==
  /\ parts = <<>> => outcome \in {"absent", "failed"}
  /\ outcome = "absent" => parts = <<>>
  /\ outcome = "unknown" <=> \E p \in 1 .. N : Open(p)
  /\ outcome = "confirmed" <=> parts # <<>> /\ \A p \in 1 .. N : Is(p, {"confirmed"})
  /\ outcome \in {"prepared", "failed"} => \A p \in 1 .. N : ~Is(p, {"confirmed"})
  /\ outcome = "partial" => \E p \in 1 .. N : Is(p, {"confirmed"})

\* The chat shows the first parts of the plan, and each part on the right side of its end.
ChatInv ==
  /\ Len(chat) <= N
  /\ \A k \in 1 .. Len(chat) : chat[k] = <<planOf, k>>
  /\ \A p \in 1 .. N :
       /\ Is(p, {"confirmed"}) => p <= Len(chat)
       /\ Is(p, {"pending", "refused"}) => p > Len(chat)

\* Only the next part may be on the wire, and only while it is open.
WireInv ==
  \A r \in wire :
    /\ Len(chat) < N /\ Open(Len(chat) + 1)
    /\ r = <<planOf, Len(chat) + 1, parts[Len(chat) + 1].tries>>

\* What the worker knows of its attempt.
AttemptInv ==
  /\ at \in {"check", "sending", "waiting"} => index \in 1 .. N
  /\ at = "check" => ~Is(index, {"confirmed"})
  /\ at \in {"sending", "waiting"} => Is(index, {"intent"}) /\ parts[index].tries > 0
  /\ at = "sending" => wire = {} /\ Len(chat) = index - 1
  /\ at = "waiting" =>
       /\ reply = "receipt" => Len(chat) = index
       /\ reply \in {"flood", "refusal"} => wire = {} /\ Len(chat) = index - 1

IInv == Types /\ WorkInv /\ InOrder /\ OutcomeInv /\ ChatInv /\ WireInv /\ AttemptInv

LEMMA Constants ==
  /\ MaxParts \in Nat \ {0} /\ MaxTries \in Nat \ {0}
  /\ MaxGeneration \in Nat \ {0} /\ MaxVersion \in Nat \ {0}
BY DeliveryAssumption DEF DeliveryAssumption

LEMMA Typed ==
  ASSUME Types
  PROVE  /\ DOMAIN parts = 1 .. N /\ (parts = <<>> <=> N = 0)
         /\ Len(chat) \in Nat
BY Constants DEF Types, PlanTypes, TelegramTypes

LEMMA TypesCorrect == Types => TypeOK
<1> SUFFICES ASSUME Types PROVE TypeOK
  OBVIOUS
<1>1. \E n \in 0 .. MaxParts : parts \in [1 .. n -> Part]
  BY DEF Types, PlanTypes
<1> QED
  BY <1>1 DEF Types, RowTypes, Flags, WorkTypes, PlanTypes, TelegramTypes, TypeOK

LEMMA InitInv == Init => IInv
<1> SUFFICES ASSUME Init PROVE IInv
  OBVIOUS
<1> USE Constants DEF Init
<1>1. parts \in [1 .. 0 -> Part] /\ N = 0 /\ Len(chat) = 0 /\ chat \in Seq(Version \X PartNo)
  BY DEF N
<1>2. Types
  <2>1. RowTypes
    BY DEF RowTypes
  <2>4. Flags
    BY Zenon DEF Flags
  <2>2. WorkTypes /\ PlanTypes
    BY <1>1 DEF WorkTypes, PlanTypes, At, Reply
  <2>3. TelegramTypes
    BY <1>1 DEF TelegramTypes
  <2> QED
    BY <2>1, <2>2, <2>3, <2>4 DEF Types
<1>3. WorkInv
  BY <1>1 DEF WorkInv
<1>4. InOrder /\ OutcomeInv
  BY <1>1 DEF InOrder, OutcomeInv
<1>5. ChatInv /\ WireInv /\ AttemptInv
  BY <1>1 DEF ChatInv, WireInv, AttemptInv
<1> QED
  BY <1>2, <1>3, <1>4, <1>5 DEF IInv

\* Steps that leave the plan and Telegram alone keep what relates the two.
LEMMA PlanKept ==
  ASSUME IInv, UNCHANGED planVars, UNCHANGED <<wire, chat>>
  PROVE  InOrder' /\ OutcomeInv' /\ ChatInv' /\ WireInv'
BY DEF IInv, InOrder, OutcomeInv, ChatInv, WireInv, N, Is, Open, planVars

\* Steps of the row and of the worker between requests.
LEMMA QuietStep ==
  ASSUME IInv, UNCHANGED planVars, UNCHANGED <<wire, chat>>,
         RowTypes', Flags', WorkTypes', WorkInv', AttemptInv'
  PROVE  IInv'
<1>1. PlanTypes' /\ TelegramTypes'
  BY DEF IInv, Types, PlanTypes, TelegramTypes, N, planVars
<1> QED
  BY <1>1, PlanKept DEF IInv, Types

LEMMA RowSteps ==
  ASSUME IInv, Claim \/ RequestCancel \/ Finish \/ Crash \/ Recover \/ Resume
  PROVE  IInv'
<1> USE Constants DEF IInv, rowVars, planVars, workVars, KeepsWork, KeepsTelegram, Go, At, Reply
<1>1. UNCHANGED planVars /\ UNCHANGED <<full, wire, chat>>
  BY DEF Claim, RequestCancel, Finish, Crash, Recover, Resume
<1>2. RowTypes'
  BY <1>1 DEF Types, RowTypes, Claim, RequestCancel, Finish, Crash, Recover, Resume
<1>6. Flags'
  <2>1. CASE Claim
    BY <2>1, Zenon DEF Types, Flags, Claim
  <2>2. CASE RequestCancel
    BY <2>2, Zenon DEF Types, Flags, RequestCancel
  <2>3. CASE Finish
    BY <2>3, Zenon DEF Types, Flags, Finish
  <2>4. CASE Crash
    BY <2>4, Zenon DEF Types, Flags, Crash
  <2>5. CASE Recover
    BY <2>5, Zenon DEF Types, Flags, Recover
  <2>6. CASE Resume
    BY <2>6, Zenon DEF Types, Flags, Resume
  <2> QED
    BY <2>1, <2>2, <2>3, <2>4, <2>5, <2>6
<1>5. WorkTypes'
  BY <1>1 DEF Types, WorkTypes, Claim, RequestCancel, Finish, Crash, Recover, Resume
<1>3. WorkInv'
  BY <1>1 DEF WorkInv, Types, RowTypes, Claim, RequestCancel, Finish, Crash, Recover, Resume
<1>4. AttemptInv'
  BY <1>1 DEF AttemptInv, N, Is, Claim, RequestCancel, Finish, Crash, Recover, Resume
<1> QED
  BY <1>1, <1>2, <1>3, <1>4, <1>5, <1>6, QuietStep

LEMMA QuietWork ==
  ASSUME IInv, Raise \/ RepairDone \/ Synthesize \/ SourcesChanged \/ SourcesVerified \/ SettleFails
  PROVE  IInv'
<1> USE Constants DEF IInv, rowVars, planVars, workVars, KeepsWork, KeepsTelegram, Go, At, Reply, Fenced
<1>1. UNCHANGED planVars /\ UNCHANGED <<full, wire, chat>>
  BY DEF Raise, RepairDone, Synthesize, SourcesChanged, SourcesVerified, SettleFails
<1>2. RowTypes'
  BY <1>1 DEF Types, RowTypes, Raise, RepairDone, Synthesize, SourcesChanged, SourcesVerified, SettleFails
<1>6. Flags'
  <2>1. CASE Raise
    BY <2>1, Zenon DEF Types, Flags, Raise
  <2>2. CASE RepairDone
    BY <2>2, Zenon DEF Types, Flags, RepairDone
  <2>3. CASE Synthesize
    BY <2>3, Zenon DEF Types, Flags, Synthesize
  <2>4. CASE SourcesChanged
    BY <2>4, Zenon DEF Types, Flags, SourcesChanged
  <2>5. CASE SourcesVerified
    BY <2>5, Zenon DEF Types, Flags, SourcesVerified
  <2>6. CASE SettleFails
    BY <2>6, Zenon DEF Types, Flags, SettleFails
  <2> QED
    BY <2>1, <2>2, <2>3, <2>4, <2>5, <2>6
<1>5. WorkTypes'
  BY <1>1 DEF Types, WorkTypes, Raise, RepairDone, Synthesize, SourcesChanged, SourcesVerified, SettleFails
<1>3. WorkInv'
  BY <1>1 DEF WorkInv, Types, RowTypes, Raise, RepairDone, Synthesize, SourcesChanged, SourcesVerified, SettleFails
<1>4. AttemptInv'
  BY <1>1 DEF AttemptInv, N, Is, Raise, RepairDone, Synthesize, SourcesChanged, SourcesVerified, SettleFails
<1> QED
  BY <1>1, <1>2, <1>3, <1>4, <1>5, <1>6, QuietStep

\* Every set of naturals that is not empty has a least member.
LessThan == {pair \in Nat \X Nat : pair[1] < pair[2]}
LEMMA LeastMember ==
  ASSUME NEW S, S \subseteq Nat, S # {}
  PROVE  \E x \in S : \A y \in S : x <= y
<1>1. OpToRel(<, Nat) = LessThan
  BY DEF OpToRel, LessThan
<1>2. IsWellFoundedOn(LessThan, Nat)
  BY NatLessThanWellFounded, <1>1
<1>3. PICK x \in S : \A y \in S : <<y, x>> \notin LessThan
  BY <1>2, WFMin, Zenon
<1>4. ASSUME NEW y \in S PROVE x <= y
  <2>1. <<y, x>> \in Nat \X Nat /\ <<y, x>>[1] = y /\ <<y, x>>[2] = x
    OBVIOUS
  <2>2. ~(y < x)
    BY <1>3, <2>1 DEF LessThan
  <2> QED
    BY <2>2
<1> QED
  BY <1>3, <1>4

\* The part that is tried next: the first that is not confirmed.
LEMMA NextPart ==
  ASSUME Types, \E p \in 1 .. N : ~Is(p, {"confirmed"})
  PROVE  FirstUnconfirmed \in 1 .. N /\ ~Is(FirstUnconfirmed, {"confirmed"})
<1>1. Unconfirmed \subseteq 1 .. N /\ Unconfirmed # {} /\ Unconfirmed \subseteq Nat
  BY Typed DEF Unconfirmed, Is
<1>2. \E p \in Unconfirmed : \A q \in Unconfirmed : p <= q
  BY <1>1, LeastMember
<1>3. FirstUnconfirmed \in Unconfirmed
  BY <1>2 DEF FirstUnconfirmed
<1> QED
  BY <1>1, <1>3 DEF Unconfirmed, Is

LEMMA LoopNextStep == ASSUME IInv, LoopNext PROVE IInv'
<1> USE Constants DEF IInv, Types, rowVars, planVars, KeepsTelegram, Go
<1>1. UNCHANGED planVars /\ UNCHANGED <<wire, chat>>
  BY DEF LoopNext
<1>2. CASE at' = "leaving" /\ index' = 0 /\ reply' = "none"
  <2>1. RowTypes' /\ WorkTypes' /\ WorkInv' /\ AttemptInv'
    BY <1>2 DEF LoopNext, RowTypes, WorkTypes, WorkInv, AttemptInv, At, Reply
  <2>2. Flags'
    BY Zenon DEF LoopNext, Flags
  <2> QED
    BY <1>1, <2>1, <2>2, QuietStep
<1>3. CASE outcome \notin {"confirmed", "unknown"}
           /\ at' = "check" /\ index' = FirstUnconfirmed /\ reply' = "none"
  <2>1. \E p \in 1 .. N : ~Is(p, {"confirmed"})
    BY <1>3 DEF LoopNext, OutcomeInv
  <2>2. FirstUnconfirmed \in 1 .. N /\ ~Is(FirstUnconfirmed, {"confirmed"})
    BY <2>1, NextPart
  <2>3. RowTypes' /\ WorkTypes' /\ WorkInv'
    BY <1>3, <2>2 DEF LoopNext, RowTypes, WorkTypes, WorkInv, PlanTypes, At, Reply, Fenced
  <2>4. AttemptInv'
    BY <1>3, <1>1, <2>2 DEF AttemptInv, Is, N
  <2>5. Flags'
    BY Zenon DEF LoopNext, Flags
  <2> QED
    BY <1>1, <2>3, <2>4, <2>5, QuietStep
<1> QED
  BY <1>2, <1>3 DEF LoopNext

\* The outcomes of the parts, as a set and as the invariants see them.
LEMMA OutcomesOf ==
  ASSUME Types, NEW o
  PROVE  o \in Outcomes(parts) <=> \E p \in 1 .. N : Is(p, {o})
BY Typed DEF Outcomes, Is

LEMMA InvalidateStep == ASSUME IInv, Invalidate PROVE IInv'
<1> USE Constants DEF IInv, Types, rowVars, KeepsWork, KeepsTelegram, workVars
<1>1. N' = 0 /\ parts' = <<>> /\ parts' \in [1 .. 0 -> Part]
  BY DEF Invalidate, N
<1>2. \A p \in 1 .. N : ~Is(p, {"confirmed"}) /\ ~Open(p)
  BY OutcomesOf DEF Invalidate, MaybeSent, OutcomeInv, Open, Is
<1>3. Len(chat) = 0 /\ wire = {}
  BY <1>2, Typed DEF ChatInv, WireInv, PlanTypes, Is, Open, Part
<1>4. RowTypes' /\ WorkTypes' /\ PlanTypes' /\ TelegramTypes'
  BY <1>1 DEF Invalidate, RowTypes, WorkTypes, PlanTypes, TelegramTypes
<1>5. Flags'
  BY Zenon DEF Invalidate, Flags
<1>6. WorkInv' /\ InOrder' /\ OutcomeInv'
  BY <1>1 DEF Invalidate, WorkInv, InOrder, OutcomeInv
<1>7. ChatInv' /\ WireInv' /\ AttemptInv'
  BY <1>1, <1>3 DEF Invalidate, ChatInv, WireInv, AttemptInv
<1> QED
  BY <1>4, <1>5, <1>6, <1>7

\* A record that is closed sums up its parts as before.
LEMMA Stopped ==
  ASSUME IInv, StopDelivery, UNCHANGED <<wire, chat>>
  PROVE  PlanTypes' /\ TelegramTypes' /\ InOrder' /\ OutcomeInv' /\ ChatInv' /\ WireInv'
<1> USE Constants DEF IInv, Types
<1>1. UNCHANGED <<parts, planOf, N>>
  BY DEF StopDelivery, N
<1>2. PlanTypes' /\ TelegramTypes'
  BY <1>1 DEF StopDelivery, PlanTypes, TelegramTypes
<1>3. InOrder' /\ ChatInv' /\ WireInv'
  BY <1>1 DEF InOrder, ChatInv, WireInv, Is, Open
<1>4. (\E p \in 1 .. N : Is(p, {"confirmed"})) <=> "confirmed" \in Outcomes(parts)
  BY OutcomesOf
<1>5. OutcomeInv'
  BY <1>1, <1>4, Typed DEF StopDelivery, OutcomeInv, PlanTypes, Is, Open
<1> QED
  BY <1>2, <1>3, <1>5

LEMMA StopSteps == ASSUME IInv, ArtifactFails \/ GiveUp PROVE IInv'
<1> USE Constants DEF IInv, Types, rowVars, KeepsTelegram, Go, StopDelivery
<1>1. StopDelivery /\ UNCHANGED <<wire, chat, parts, planOf, N>>
  BY DEF ArtifactFails, GiveUp, N
<1>2. RowTypes' /\ WorkTypes' /\ WorkInv' /\ AttemptInv'
  BY <1>1 DEF ArtifactFails, GiveUp, RowTypes, WorkTypes, WorkInv, AttemptInv, At, Reply
<1>3. Flags'
  <2>1. CASE ArtifactFails
    BY <2>1, Zenon DEF ArtifactFails, Flags
  <2>2. CASE GiveUp
    BY <2>2, Zenon DEF GiveUp, Flags
  <2> QED
    BY <2>1, <2>2
<1> QED
  BY <1>1, <1>2, <1>3, Stopped

LEMMA ArtifactReadyStep == ASSUME IInv, ArtifactReady PROVE IInv'
<1> USE Constants DEF IInv, Types, rowVars, KeepsTelegram, Go
<1>1. UNCHANGED <<wire, chat, parts, planOf, N>>
  BY DEF ArtifactReady, N
<1>2. RowTypes' /\ WorkTypes' /\ PlanTypes' /\ TelegramTypes'
  BY <1>1 DEF ArtifactReady, RowTypes, WorkTypes, PlanTypes, TelegramTypes, At, Reply
<1>3. Flags'
  BY Zenon DEF ArtifactReady, Flags
<1>4. WorkInv' /\ AttemptInv' /\ InOrder' /\ ChatInv' /\ WireInv'
  BY <1>1 DEF ArtifactReady, WorkInv, AttemptInv, InOrder, ChatInv, WireInv, Is, Open
<1>5. OutcomeInv'
  BY <1>1, Typed DEF ArtifactReady, OutcomeInv, Is, Open
<1> QED
  BY <1>2, <1>3, <1>4, <1>5

LEMMA PrepareStep == ASSUME IInv, Prepare PROVE IInv'
<1> USE Constants DEF IInv, Types, rowVars, planVars, KeepsTelegram, Go
<1>1. UNCHANGED <<wire, chat>> /\ RowTypes' /\ WorkTypes' /\ TelegramTypes'
  BY DEF Prepare, RowTypes, WorkTypes, TelegramTypes, At, Reply
<1>2. Flags'
  BY Zenon DEF Prepare, Flags
<1>3. CASE UNCHANGED planVars
  <2>1. WorkInv' /\ AttemptInv'
    BY <1>3 DEF Prepare, WorkInv, AttemptInv
  <2> QED
    BY <1>1, <1>2, <1>3, <2>1, QuietStep
<1>4. CASE outcome = "absent"
  <2>1. PICK n \in 1 .. MaxParts : parts' = [p \in 1 .. n |-> NewPart]
    BY <1>4 DEF Prepare
  <2>2. N' = n /\ parts' \in [1 .. n -> Part] /\ parts' # <<>>
        /\ \A p \in 1 .. n : Is(p, {"pending"})'
    <3>1. NewPart \in Part /\ NewPart.outcome = "pending"
      BY DEF NewPart, Part
    <3>2. parts' \in [1 .. n -> Part] /\ DOMAIN parts' = 1 .. n
          /\ \A p \in 1 .. n : parts'[p] = NewPart
      BY <2>1, <3>1
    <3>3. parts' \in Seq(Part) /\ Len(parts') = n
      BY <3>2
    <3> QED
      BY <3>1, <3>2, <3>3 DEF N, Is
  <2>3. N = 0 /\ Len(chat) = 0 /\ wire = {}
    BY <1>4, Typed DEF OutcomeInv, ChatInv, WireInv
  <2>4. PlanTypes'
    BY <1>4, <2>2 DEF Prepare, PlanTypes, RowTypes
  <2>5. WorkInv' /\ AttemptInv'
    BY <1>4 DEF Prepare, WorkInv, AttemptInv
  <2>6. InOrder' /\ OutcomeInv'
    BY <1>4, <2>2 DEF Prepare, InOrder, OutcomeInv, Is, Open
  <2>7. ChatInv' /\ WireInv'
    BY <1>1, <2>2, <2>3 DEF ChatInv, WireInv, Is
  <2> QED
    BY <1>1, <1>2, <2>4, <2>5, <2>6, <2>7
<1> QED
  BY <1>3, <1>4 DEF Prepare

\* What an attempt, its settlement or an answer does to the part at p.
LEMMA OnePart ==
  ASSUME Types, NEW p \in 1 .. N, NEW part \in Part, parts' = [parts EXCEPT ![p] = part]
  PROVE  /\ N' = N /\ parts' \in [1 .. N -> Part] /\ (parts' = <<>> <=> parts = <<>>)
         /\ parts'[p] = part
         /\ \A q \in 1 .. N : q # p => parts'[q] = parts[q]
<1>1. parts' \in [1 .. N -> Part] /\ DOMAIN parts' = 1 .. N
  BY DEF Types, PlanTypes
<1>2. N' = N
  BY <1>1, Constants DEF N, Types, PlanTypes
<1>3. parts'[p] = part /\ \A q \in 1 .. N : q # p => parts'[q] = parts[q]
  BY DEF Types, PlanTypes
<1> QED
  BY <1>1, <1>2, <1>3, Typed

LEMMA BeginStep == ASSUME IInv, BeginAttempt PROVE IInv'
<1> USE Constants DEF IInv, Types, rowVars, KeepsTelegram
<1> DEFINE part == Tried(parts[index])
<1>1. index \in 1 .. N /\ index' = index /\ Is(index, {"pending", "refused"}) /\ parts[index] \in Part
  BY DEF BeginAttempt, BeginGuard, AttemptInv, Is, PlanTypes
<1>2. part \in Part /\ part.outcome = "intent" /\ part.tries > 0
  BY <1>1 DEF BeginAttempt, BeginGuard, Tried, Part, RowTypes
<1>3. parts' = [parts EXCEPT ![index] = part] /\ UNCHANGED <<wire, chat, planOf>>
  BY DEF BeginAttempt
<1> HIDE DEF part
<1>4. /\ N' = N /\ parts' \in [1 .. N -> Part] /\ (parts' = <<>> <=> parts = <<>>)
      /\ parts'[index] = part
      /\ \A q \in 1 .. N : q # index => parts'[q] = parts[q]
  BY <1>1, <1>2, <1>3, OnePart
<1>5. wire = {} /\ Len(chat) = index - 1
  <2>1. wire = {}
    <3>1. \A p \in 1 .. N : ~Open(p)
      BY DEF BeginAttempt, BeginGuard, OutcomeInv
    <3> QED
      BY <3>1, Typed DEF WireInv, PlanTypes
  <2>2. index > Len(chat)
    BY <1>1 DEF ChatInv, Is
  <2>3. index - 1 > 0 => index - 1 <= Len(chat)
    BY <1>1 DEF BeginAttempt, BeginGuard, ChatInv, Is, PlanTypes
  <2> QED
    BY <1>1, <2>1, <2>2, <2>3, Typed DEF PlanTypes
<1>6. RowTypes' /\ WorkTypes' /\ PlanTypes' /\ TelegramTypes'
  BY <1>4 DEF BeginAttempt, RowTypes, WorkTypes, PlanTypes, TelegramTypes, At
<1>7. Flags'
  BY Zenon DEF BeginAttempt, Flags
<1>8. WorkInv' /\ AttemptInv'
  BY <1>1, <1>2, <1>4, <1>5 DEF BeginAttempt, WorkInv, AttemptInv, Is
<1>9. InOrder'
  <2> SUFFICES ASSUME NEW p \in 1 .. N, ~Is(p, {"pending"})', NEW q \in 1 .. (p - 1)
               PROVE  Is(q, {"confirmed"})'
    BY <1>4 DEF InOrder
  <2>1. q \in 1 .. N /\ q < p
    BY DEF PlanTypes
  <2>2. CASE p = index
    BY <1>3, <1>4, <2>1, <2>2 DEF BeginAttempt, BeginGuard, Is
  <2>3. CASE p # index
    <3>1. ~Is(p, {"pending"})
      BY <1>4, <2>3 DEF Is
    <3>2. Is(q, {"confirmed"})
      BY <3>1 DEF InOrder
    <3>3. q # index
      BY <1>1, <3>2 DEF Is
    <3> QED
      BY <1>4, <2>1, <3>2, <3>3 DEF Is
  <2> QED
    BY <2>2, <2>3
<1>10. OutcomeInv'
  BY <1>1, <1>2, <1>4 DEF BeginAttempt, OutcomeInv, Is, Open
<1>11. ChatInv' /\ WireInv'
  BY <1>1, <1>2, <1>3, <1>4, <1>5 DEF ChatInv, WireInv, Is
<1> QED
  BY <1>6, <1>7, <1>8, <1>9, <1>10, <1>11

LEMMA SendStep == ASSUME IInv, Send PROVE IInv'
<1> USE Constants DEF IInv, Types, rowVars, planVars
<1>1. UNCHANGED <<parts, planOf, outcome, chat, index, N>> /\ wire' = {Request}
  BY DEF Send, AttemptInv, N
<1>2. Request \in Version \X PartNo \X (1 .. MaxTries)
  BY Typed DEF Send, Request, Version, PartNo, AttemptInv, PlanTypes, WorkInv, RowTypes, Part
<1>3. RowTypes' /\ WorkTypes' /\ PlanTypes' /\ TelegramTypes'
  BY <1>1, <1>2 DEF Send, RowTypes, WorkTypes, PlanTypes, TelegramTypes, At, Reply
<1>4. Flags'
  BY Zenon DEF Send, Flags
<1>5. InOrder' /\ OutcomeInv' /\ ChatInv'
  BY <1>1 DEF InOrder, OutcomeInv, ChatInv, Is, Open
<1>6. WorkInv' /\ AttemptInv'
  BY <1>1 DEF Send, WorkInv, AttemptInv, Is
<1>7. WireInv'
  BY <1>1, Typed DEF Send, AttemptInv, WireInv, Request, Is, Open, PlanTypes
<1> QED
  BY <1>3, <1>4, <1>5, <1>6, <1>7

LEMMA SettleStep == ASSUME IInv, NEW o \in {"confirmed", "refused", "unknown"}, Settle(o) PROVE IInv'
<1> USE Constants DEF IInv, Types, rowVars, KeepsTelegram, Go
<1> DEFINE part == [parts[index] EXCEPT !.outcome = o, !.flood = (reply = "flood")]
<1>1. index \in 1 .. N /\ Is(index, {"intent"}) /\ parts[index] \in Part
  BY DEF Settle, AttemptInv, PlanTypes
<1>2. part \in Part /\ part.outcome = o
  BY <1>1 DEF Part
<1>3. parts' = [parts EXCEPT ![index] = part] /\ UNCHANGED <<wire, chat, planOf>>
  BY DEF Settle
<1>4. part.tries = parts[index].tries
  BY <1>1 DEF Part
<1> HIDE DEF part
<1>5. /\ N' = N /\ parts' \in [1 .. N -> Part] /\ (parts' = <<>> <=> parts = <<>>)
      /\ parts'[index] = part
      /\ \A q \in 1 .. N : q # index => parts'[q] = parts[q]
  BY <1>1, <1>2, <1>3, OnePart
<1>6. \A q \in 1 .. N : (q < index => Is(q, {"confirmed"})) /\ (q > index => Is(q, {"pending"}))
  <2> SUFFICES ASSUME NEW q \in 1 .. N
               PROVE  (q < index => Is(q, {"confirmed"})) /\ (q > index => Is(q, {"pending"}))
    OBVIOUS
  <2>1. CASE q < index
    BY <1>1, <2>1 DEF InOrder, Is
  <2>2. CASE q > index
    <3>1. index \in 1 .. (q - 1)
      BY <1>1, <2>2
    <3> QED
      BY <1>1, <2>2, <3>1 DEF InOrder, Is
  <2> QED
    BY <2>1, <2>2, <1>1
\* What each outcome says of the chat and the wire.
<1>7. /\ o = "confirmed" => Len(chat) = index
      /\ o = "refused" => wire = {} /\ Len(chat) = index - 1
  BY DEF Settle, Receipt, AttemptInv
<1>8. RowTypes' /\ WorkTypes' /\ TelegramTypes'
  BY DEF Settle, RowTypes, WorkTypes, TelegramTypes, At, Reply
<1>9. Flags'
  BY Zenon DEF Settle, Flags
<1>10. Outcomes(parts') = {parts'[p].outcome : p \in 1 .. N}
  BY <1>5 DEF Outcomes
<1>11. PlanTypes'
  BY <1>3, <1>5 DEF Settle, PlanTypes, PlanOutcome
<1>12. WorkInv' /\ AttemptInv'
  BY <1>3, <1>5 DEF Settle, WorkInv, AttemptInv
<1>13. InOrder'
  <2> SUFFICES ASSUME NEW p \in 1 .. N, ~Is(p, {"pending"})', NEW q \in 1 .. (p - 1)
               PROVE  Is(q, {"confirmed"})'
    BY <1>5 DEF InOrder
  <2>1. p <= index /\ q < index /\ q \in 1 .. N
    BY <1>1, <1>5, <1>6 DEF Is, PlanTypes
  <2> QED
    BY <1>1, <1>5, <1>6, <2>1 DEF Is
<1>14. OutcomeInv'
  <2>1. \A q \in 1 .. N : q # index => Is(q, {"confirmed"})' \/ Is(q, {"pending"})'
    BY <1>1, <1>5, <1>6 DEF Is
  <2>2. outcome' = PlanOutcome(parts')
    BY DEF Settle
  <2>3. (\E p \in 1 .. N : Open(p)') <=> o = "unknown"
    BY <1>1, <1>2, <1>5, <2>1 DEF Open, Is
  <2>4. Outcomes(parts') \cap {"intent", "unknown"} # {} <=> o = "unknown"
    BY <1>10, <2>3 DEF Open, Is
  <2>5. Outcomes(parts') = {"confirmed"} <=> \A p \in 1 .. N : Is(p, {"confirmed"})'
    BY <1>1, <1>10 DEF Is
  <2>6. "confirmed" \in Outcomes(parts') <=> \E p \in 1 .. N : Is(p, {"confirmed"})'
    BY <1>10 DEF Is
  <2>7. parts' # <<>>
    BY <1>1, <1>5, Typed
  <2>8. outcome' = "unknown" <=> o = "unknown"
    BY <2>2, <2>4 DEF PlanOutcome
  <2>9. outcome' = "confirmed" <=> o # "unknown" /\ \A p \in 1 .. N : Is(p, {"confirmed"})'
    BY <2>2, <2>4, <2>5 DEF PlanOutcome
  <2>10. outcome' = "partial" => \E p \in 1 .. N : Is(p, {"confirmed"})'
    BY <2>2, <2>6 DEF PlanOutcome
  <2>11. outcome' \notin {"absent", "prepared"} /\ (outcome' = "failed" => \A p \in 1 .. N : ~Is(p, {"confirmed"})')
    BY <2>2, <2>6 DEF PlanOutcome
  <2>12. o = "unknown" => \E p \in 1 .. N : ~Is(p, {"confirmed"})'
    BY <1>1, <1>2, <1>5 DEF Is
  <2> QED
    BY <1>1, <1>5, <2>3, <2>7, <2>8, <2>9, <2>10, <2>11, <2>12 DEF OutcomeInv
<1>15. ChatInv'
  BY <1>1, <1>2, <1>3, <1>5, <1>6, <1>7, Typed DEF ChatInv, Is
<1>16. WireInv'
  <2> SUFFICES ASSUME NEW r \in wire
               PROVE  /\ Len(chat) < N /\ Open(Len(chat) + 1)'
                      /\ r = <<planOf, Len(chat) + 1, parts'[Len(chat) + 1].tries>>
    BY <1>3, <1>5 DEF WireInv
  <2>1. Len(chat) < N /\ Open(Len(chat) + 1) /\ Len(chat) + 1 \in 1 .. N
        /\ r = <<planOf, Len(chat) + 1, parts[Len(chat) + 1].tries>>
    BY Typed DEF WireInv, PlanTypes
  <2>2. Len(chat) + 1 = index
    BY <1>1, <1>6, <2>1 DEF Open, Is
  <2>3. o = "unknown"
    BY <1>7, <2>2, Typed
  <2> QED
    BY <1>2, <1>3, <1>4, <1>5, <2>1, <2>2, <2>3 DEF Open, Is
<1> QED
  BY <1>8, <1>9, <1>11, <1>12, <1>13, <1>14, <1>15, <1>16

\* The only request that can be decided is that of the open part.
LEMMA OnWire ==
  ASSUME IInv, NEW r \in wire
  PROVE  /\ wire = {r} /\ Len(chat) \in Nat /\ Len(chat) < N /\ Len(chat) + 1 \in 1 .. N
         /\ Open(Len(chat) + 1)
         /\ r = <<planOf, Len(chat) + 1, parts[Len(chat) + 1].tries>>
         /\ r[1] = planOf /\ r[2] = Len(chat) + 1
         /\ planOf \in Version /\ Len(chat) + 1 \in PartNo
<1>1. /\ Len(chat) < N /\ Open(Len(chat) + 1)
      /\ r = <<planOf, Len(chat) + 1, parts[Len(chat) + 1].tries>>
  BY DEF IInv, WireInv
<1>2. \A s \in wire : s = r
  BY <1>1 DEF IInv, WireInv
<1>3. r \in Version \X PartNo \X (1 .. MaxTries)
  BY DEF IInv, Types, TelegramTypes
<1>4. Len(chat) \in Nat
  BY Typed DEF IInv
<1> QED
  BY <1>1, <1>2, <1>3, <1>4 DEF IInv, Types, PlanTypes

LEMMA AcceptStep == ASSUME IInv, NEW r \in wire, Accept(r) PROVE IInv'
<1> USE Constants DEF IInv, Types, rowVars, planVars
<1>1. /\ wire = {r} /\ Len(chat) \in Nat /\ Len(chat) < N /\ Len(chat) + 1 \in 1 .. N
      /\ Open(Len(chat) + 1) /\ r[1] = planOf /\ r[2] = Len(chat) + 1
      /\ planOf \in Version /\ Len(chat) + 1 \in PartNo
  BY OnWire
<1>2. UNCHANGED <<parts, planOf, outcome, at, index, N>> /\ wire' = {}
  BY <1>1 DEF Accept, N
<1>3. /\ chat' = Append(chat, <<planOf, Len(chat) + 1>>) /\ chat' \in Seq(Version \X PartNo)
      /\ Len(chat') = Len(chat) + 1 /\ chat'[Len(chat) + 1] = <<planOf, Len(chat) + 1>>
      /\ \A k \in 1 .. Len(chat) : chat'[k] = chat[k]
  <2>1. <<planOf, Len(chat) + 1>> \in Version \X PartNo /\ chat \in Seq(Version \X PartNo)
    BY <1>1 DEF TelegramTypes
  <2>2. chat' = Append(chat, <<planOf, Len(chat) + 1>>)
    BY <1>1 DEF Accept
  <2> QED
    BY <2>1, <2>2
<1>4. reply' \in {reply, "receipt"}
  BY DEF Accept, Answer
<1>5. RowTypes' /\ WorkTypes' /\ PlanTypes' /\ TelegramTypes'
  BY <1>2, <1>3, <1>4 DEF Accept, RowTypes, WorkTypes, PlanTypes, TelegramTypes, Reply
<1>6. Flags'
  BY Zenon DEF Accept, Flags
<1>7. WorkInv' /\ InOrder' /\ OutcomeInv' /\ WireInv'
  BY <1>2 DEF Accept, WorkInv, InOrder, OutcomeInv, WireInv, Is, Open
<1>8. ChatInv'
  BY <1>1, <1>2, <1>3 DEF ChatInv, Is, Open
<1>9. AttemptInv'
  <2>1. at = "waiting" => Len(chat) + 1 = index
    BY <1>1, Typed DEF AttemptInv, InOrder, Open, Is, PlanTypes
  <2>2. at # "sending"
    BY <1>1 DEF AttemptInv
  <2>3. at = "waiting" => reply' \in {"receipt", "none"}
    BY <1>1, <1>4 DEF AttemptInv, WorkTypes, Reply
  <2> QED
    BY <1>2, <1>3, <2>1, <2>2, <2>3 DEF AttemptInv, Is
<1> QED
  BY <1>5, <1>6, <1>7, <1>8, <1>9

LEMMA RefuseStep ==
  ASSUME IInv, NEW r \in wire, NEW a \in {"flood", "refusal", "none"}, Refuse(r, a)
  PROVE  IInv'
<1> USE Constants DEF IInv, Types, rowVars, planVars
<1>1. /\ wire = {r} /\ Len(chat) \in Nat /\ Len(chat) + 1 \in 1 .. N /\ Open(Len(chat) + 1)
  BY OnWire
<1>2. UNCHANGED <<parts, planOf, outcome, at, index, chat, N>> /\ wire' = {}
  BY <1>1 DEF Refuse, N
<1>3. RowTypes' /\ WorkTypes' /\ PlanTypes' /\ TelegramTypes'
  BY <1>2 DEF Refuse, Answer, RowTypes, WorkTypes, PlanTypes, TelegramTypes, Reply
<1>4. Flags'
  BY Zenon DEF Refuse, Flags
<1>5. WorkInv' /\ InOrder' /\ OutcomeInv' /\ WireInv' /\ ChatInv'
  BY <1>2 DEF Refuse, WorkInv, InOrder, OutcomeInv, WireInv, ChatInv, Is, Open
<1>6. AttemptInv'
  <2>1. at = "waiting" => Len(chat) = index - 1
    BY <1>1, Typed DEF AttemptInv, InOrder, Open, Is, PlanTypes
  <2>2. reply' = "receipt" => reply = "receipt"
    BY DEF Refuse, Answer
  <2> QED
    BY <1>2, <2>1, <2>2 DEF AttemptInv, Is
<1> QED
  BY <1>3, <1>4, <1>5, <1>6

LEMMA StepInv == IInv /\ [Next]_vars => IInv'
<1> SUFFICES ASSUME IInv, [Next]_vars PROVE IInv'
  OBVIOUS
<1>1. CASE Claim \/ RequestCancel \/ Crash \/ Recover \/ Resume \/ Finish
  BY <1>1, RowSteps
<1>2. CASE Raise \/ RepairDone \/ Synthesize \/ SourcesChanged \/ SourcesVerified \/ SettleFails
  BY <1>2, QuietWork
<1>3. CASE LoopNext
  BY <1>3, LoopNextStep
<1>4. CASE Invalidate
  BY <1>4, InvalidateStep
<1>5. CASE ArtifactFails \/ GiveUp
  BY <1>5, StopSteps
<1>6. CASE ArtifactReady
  BY <1>6, ArtifactReadyStep
<1>7. CASE Prepare
  BY <1>7, PrepareStep
<1>8. CASE BeginAttempt
  BY <1>8, BeginStep
<1>9. CASE Send
  BY <1>9, SendStep
<1>10. CASE \E o \in {"confirmed", "refused", "unknown"} : Settle(o)
  BY <1>10, SettleStep
<1>11. CASE Telegram
  BY <1>11, AcceptStep, RefuseStep DEF Telegram
<1>12. CASE UNCHANGED vars
  <2>1. RowTypes' /\ WorkTypes' /\ WorkInv' /\ AttemptInv'
    BY <1>12 DEF vars, rowVars, planVars, workVars, IInv, Types, RowTypes, WorkTypes, WorkInv, AttemptInv, N, Is
  <2>2. Flags'
    BY <1>12, Zenon DEF vars, rowVars, IInv, Types, Flags
  <2> QED
    BY <1>12, <2>1, <2>2, QuietStep DEF vars
<1> QED
  BY <1>1, <1>2, <1>3, <1>4, <1>5, <1>6, <1>7, <1>8, <1>9, <1>10, <1>11, <1>12 DEF Next, Worker

THEOREM Inductive == Spec => []IInv
BY InitInv, StepInv, PTL DEF Spec

\* Every variable keeps its type.
THEOREM TypesHold == Spec => []TypeOK
<1>1. IInv => TypeOK
  BY TypesCorrect DEF IInv
<1> QED
  BY Inductive, <1>1, PTL

LEMMA ChatShows ==
  ASSUME IInv
  PROVE  /\ \A p \in 1 .. Len(chat) : Shown(p)
         /\ \A k \in 1 .. Len(chat) : chat[k][1] = planOf /\ chat[k][2] = k
<1>1. DOMAIN chat = 1 .. Len(chat)
  BY DEF IInv, Types, TelegramTypes
<1> QED
  BY <1>1 DEF IInv, ChatInv, Shown

\* What the row says of the report is what the chat shows.
THEOREM OutcomeIsTruthful == Spec => []OutcomeTruthful
<1>1. IInv => OutcomeTruthful
  <2> SUFFICES ASSUME IInv PROVE OutcomeTruthful
    OBVIOUS
  <2> USE DEF IInv, Types
  <2>1. N \in Nat /\ Len(chat) \in Nat /\ DOMAIN parts = 1 .. N /\ (parts = <<>> <=> N = 0)
    BY Typed DEF PlanTypes
  <2>2. outcome = "confirmed" => Len(chat) = N
    BY <2>1 DEF OutcomeInv, ChatInv, Is
  <2>3. outcome # "unknown" /\ Len(chat) = N /\ N > 0 => outcome = "confirmed"
    BY <2>1 DEF OutcomeInv, ChatInv, PlanTypes, Is, Open, Part
  <2>4. outcome = "partial" => Len(chat) \in 1 .. (N - 1)
    <3>1. outcome = "partial" => Len(chat) >= 1 /\ N > 0
      BY <2>1 DEF OutcomeInv, ChatInv, Is
    <3> QED
      BY <2>1, <2>3, <3>1 DEF ChatInv
  <2>5. outcome \in {"absent", "prepared", "failed"} => chat = <<>>
    <3>1. outcome \in {"absent", "prepared", "failed"} => Len(chat) = 0
      BY <2>1 DEF OutcomeInv, ChatInv, PlanTypes, Is, Open, Part
    <3> QED
      BY <3>1 DEF TelegramTypes
  <2>6. chat # <<>> => version # 0 /\ chat[1][1] = version
    <3>1. chat # <<>> => Len(chat) > 0
      BY <2>1 DEF TelegramTypes
    <3> QED
      BY <2>1, <3>1, ChatShows DEF ChatInv, WorkInv
  <2>7. ASSUME NEW p \in 1 .. N
        PROVE  /\ Is(p, {"confirmed"}) => Shown(p)
               /\ Is(p, {"pending", "refused"}) => ~Shown(p) /\ ~Underway(p)
    <3>1. Is(p, {"confirmed"}) => Shown(p)
      BY <2>1, ChatShows DEF ChatInv
    <3>2. Is(p, {"pending", "refused"}) => ~Shown(p)
      BY <2>1, ChatShows DEF ChatInv, Shown, TelegramTypes
    <3>3. Is(p, {"pending", "refused"}) => ~Underway(p)
      BY <2>1, OnWire DEF Underway, Open, Is
    <3> QED
      BY <3>1, <3>2, <3>3
  <2> QED
    BY <2>1, <2>2, <2>4, <2>5, <2>6, <2>7 DEF OutcomeTruthful, Is, N
<1> QED
  BY Inductive, <1>1, PTL

\* The delivery implements the outbox: an accepted request appends the next part of the
\* version the chat shows already, and no other step changes the chat.
THEOREM DeliveryRefinesOutbox == Spec => OutboxSpec
<1>1. Init => Outbox!Init
  BY DEF Init, Outbox!Init
<1>2. IInv /\ [Next]_vars => [Outbox!Next]_chat
  <2> SUFFICES ASSUME IInv, [Next]_vars, chat' # chat PROVE Outbox!Next
    OBVIOUS
  <2>1. PICK r \in wire : Accept(r)
    BY DEF Next, Worker, Telegram, Refuse, vars, KeepsTelegram, Claim, RequestCancel, Crash, Recover, Resume,
           Raise, Invalidate, RepairDone, Synthesize, SourcesChanged, SourcesVerified, ArtifactReady,
           ArtifactFails, Prepare, LoopNext, GiveUp, BeginAttempt, Send, Settle, SettleFails, Finish
  <2>2. r[1] = planOf /\ r[2] = Len(chat) + 1 /\ planOf \in Version
    BY OnWire
  <2>3. chat' = Append(chat, <<planOf, Len(chat) + 1>>)
    BY <2>1, <2>2 DEF Accept
  <2>4. chat # <<>> => chat[1][1] = planOf
    <3>1. chat # <<>> => Len(chat) > 0 /\ Len(chat) \in Nat
      BY DEF IInv, Types, TelegramTypes
    <3> QED
      BY <3>1, ChatShows
  <2>5. Outbox!Post(planOf)
    BY <2>3, <2>4 DEF Outbox!Post
  <2> QED
    BY <2>2, <2>5 DEF Outbox!Next
<1> QED
  BY <1>1, <1>2, Inductive, PTL DEF Spec, OutboxSpec, Outbox!Spec

\* AnalysisJobs may take the delivery for its four values: only the worker of the running
\* row moves them, through "unknown", and no other run gets hold of an unknown outcome.
THEOREM CoarseStepsAllowed == Spec => CoarseDelivery
<1> DEFINE
  Moves == Coarse' # Coarse =>
             /\ status = "running" /\ at # "none"
             /\ \/ Coarse \in {"none", "partial"} /\ Coarse' = "unknown"
                \/ Coarse = "unknown" /\ at \in {"sending", "waiting"}
  Stays == Coarse = "unknown" => generation' = generation
<1>1. ASSUME IInv, [Next]_vars PROVE Moves /\ Stays
  <2> USE <1>1 DEF IInv
  <2>1. CASE UNCHANGED planVars
    <3>1. UNCHANGED Coarse
      BY <2>1 DEF planVars, Coarse
    <3>2. Stays
      BY <1>1 DEF Coarse, Next, Worker, Telegram, Accept, Refuse, vars, rowVars, Claim, RequestCancel, Crash,
           Recover, Resume, Resumable, Raise, Invalidate, RepairDone, Synthesize, SourcesChanged,
           SourcesVerified, ArtifactReady, ArtifactFails, Prepare, LoopNext, GiveUp, BeginAttempt, Send,
           Settle, SettleFails, Finish
    <3> QED
      BY <3>1, <3>2
  <2>2. CASE Invalidate
    BY <2>2 DEF Invalidate, MaybeSent, Coarse, OutcomeInv, Is, Outcomes, Types, PlanTypes
  <2>3. CASE ArtifactFails \/ GiveUp
    <3>1. StopDelivery /\ generation' = generation
      BY <2>3 DEF ArtifactFails, GiveUp, rowVars
    <3>2. (\E p \in 1 .. N : Is(p, {"confirmed"})) <=> "confirmed" \in Outcomes(parts)
      BY OutcomesOf
    <3>3. Coarse' = Coarse
      BY <3>1, <3>2 DEF StopDelivery, Coarse, OutcomeInv, Types, PlanTypes
    <3> QED
      BY <3>1, <3>3
  <2>4. CASE ArtifactReady \/ Prepare
    BY <2>4 DEF ArtifactReady, Prepare, Coarse, rowVars, planVars
  <2>5. CASE BeginAttempt
    <3>1. outcome \notin {"unknown", "confirmed"} /\ outcome' = "unknown" /\ UNCHANGED <<status, generation>>
      BY <2>5 DEF BeginAttempt, BeginGuard, AttemptInv, OutcomeInv, rowVars
    <3>2. status = "running" /\ at # "none"
      BY <2>5 DEF BeginAttempt, WorkInv
    <3> QED
      BY <3>1, <3>2 DEF Coarse, Types, PlanTypes
  <2>6. CASE \E o \in {"confirmed", "refused", "unknown"} : Settle(o)
    <3>1. outcome = "unknown" /\ at \in {"sending", "waiting"} /\ status = "running" /\ generation' = generation
      BY <2>6 DEF Settle, AttemptInv, OutcomeInv, Open, Is, rowVars
    <3> QED
      BY <3>1 DEF Coarse
  <2>7. UNCHANGED planVars \/ Invalidate \/ ArtifactFails \/ GiveUp \/ ArtifactReady \/ Prepare
        \/ BeginAttempt \/ \E o \in {"confirmed", "refused", "unknown"} : Settle(o)
    BY <1>1 DEF Next, Worker, Telegram, Accept, Refuse, vars, Claim, RequestCancel, Crash, Recover, Resume,
           Raise, RepairDone, Synthesize, SourcesChanged, SourcesVerified, LoopNext, Send, SettleFails, Finish
  <2> QED
    BY <2>1, <2>2, <2>3, <2>4, <2>5, <2>6, <2>7
<1>2. IInv /\ [Next]_vars => [Moves /\ Stays]_vars
  BY <1>1
<1> QED
  BY <1>2, Inductive, PTL DEF Spec, CoarseDelivery
=============================================================================
