------------------------------- MODULE Delivery -------------------------------
(***************************************************************************)
(* Delivery of one analytic report to Telegram.  The plan, one durable      *)
(* intent per physical request and its receipt live in the job's row; the   *)
(* worker may die at any step, a request may be accepted long after it was  *)
(* given up, and the job may be resumed, or analysed again when its sources *)
(* were edited.                                                             *)
(*                                                                         *)
(* From AnalysisJobs this module takes that at most one worker acts for a   *)
(* running row and that nobody else moves the row meanwhile: recovery by    *)
(* the supervisor and the kill by the TTL are one step each (Recover,       *)
(* Crash).  One transaction is one action.                                  *)
(***************************************************************************)
EXTENDS Naturals, Sequences

CONSTANTS
  MaxParts,       \* analysis.output.max_messages
  MaxTries,       \* bridge.send_message_retry_attempts
  MaxGeneration,  \* bound: runs of the job
  MaxVersion      \* bound: results the job computes

ASSUME DeliveryAssumption ==
  {MaxParts, MaxTries, MaxGeneration, MaxVersion} \subseteq Nat \ {0}

VARIABLES
  full,           \* detail=full: one part, which names the saved artifact
  \* the row
  status, generation, cancel,
  version,        \* the saved result, 0 for none
  made,           \* results computed so far
  changed,        \* manifest.input_changed: a source was edited
  ready,          \* full_path: metadata of the artifact is saved
  outcome, parts, \* the delivery record; a record without parts has <<>>
  planOf,         \* the version the parts were rendered from
  \* the worker of the running generation
  at, index, reply,
  \* Telegram
  wire,           \* requests that have left and are not decided
  chat            \* what the destination shows

rowVars == <<status, generation, cancel, version, made, changed, ready>>
planVars == <<outcome, parts, planOf>>
workVars == <<at, index, reply>>
vars == <<full, rowVars, planVars, workVars, wire, chat>>

Version == 1 .. MaxVersion
PartNo  == 1 .. MaxParts
Reply   == {"none", "receipt", "flood", "refusal"}
At      == {"none", "analyse", "verify", "artifact", "prepare", "loop", "check",
            "sending", "waiting", "leaving"}
\* tries and the generation and kind of the last one; flood is a refusal 429
Part == [outcome : {"pending", "intent", "confirmed", "refused", "unknown"},
         tries : 0 .. MaxTries, by : 0 .. MaxGeneration, flood : BOOLEAN]
NewPart == [outcome |-> "pending", tries |-> 0, by |-> 0, flood |-> FALSE]

TypeOK ==
  /\ status \in {"queued", "running", "stopped", "cancelled"}
  /\ generation \in 1 .. MaxGeneration
  /\ {full, cancel, changed, ready} \subseteq BOOLEAN
  /\ {version, made, planOf} \subseteq 0 .. MaxVersion
  /\ outcome \in {"absent", "prepared", "unknown", "confirmed", "partial", "failed"}
  /\ \E n \in 0 .. MaxParts : parts \in [1 .. n -> Part]
  /\ at \in At /\ index \in 0 .. MaxParts /\ reply \in Reply
  /\ wire \subseteq Version \X PartNo \X (1 .. MaxTries)
  /\ chat \in Seq(Version \X PartNo)

Init ==
  /\ full \in BOOLEAN
  /\ status = "queued" /\ generation = 1 /\ cancel = FALSE
  /\ version = 0 /\ made = 0 /\ changed = FALSE /\ ready = FALSE
  /\ outcome = "absent" /\ parts = <<>> /\ planOf = 0
  /\ at = "none" /\ index = 0 /\ reply = "none"
  /\ wire = {} /\ chat = <<>>

-----------------------------------------------------------------------------
(* Helpers of the store                                                    *)

\* require_running
Fenced == status = "running" /\ ~cancel

Go(p) == at' = p /\ index' = 0 /\ reply' = "none"
KeepsWork == UNCHANGED workVars
KeepsTelegram == UNCHANGED <<full, wire, chat>>

Outcomes(ps) == {ps[p].outcome : p \in DOMAIN ps}

\* Mutant: a plan of one part takes over the name of the part's outcome.
PlanOutcome_OfPart(ps) ==
  IF Outcomes(ps) \cap {"intent", "unknown"} # {} THEN "unknown"
  ELSE IF Outcomes(ps) = {ps[1].outcome} THEN ps[1].outcome
  ELSE IF "confirmed" \in Outcomes(ps) THEN "partial" ELSE "failed"

\* The worst outcome of a part is the outcome of the plan.
PlanOutcome(ps) ==
  IF Outcomes(ps) \cap {"intent", "unknown"} # {} THEN "unknown"
  ELSE IF Outcomes(ps) = {"confirmed"} THEN "confirmed"
  ELSE IF "confirmed" \in Outcomes(ps) THEN "partial" ELSE "failed"

\* Mutant: the receipts of single parts are not looked at.
MaybeSent_ByOutcome == outcome \in {"confirmed", "unknown"}

\* Something of the plan may have reached Telegram.
MaybeSent ==
  \/ outcome \in {"confirmed", "unknown"}
  \/ Outcomes(parts) \cap {"confirmed", "unknown"} # {}

\* stop_delivery: a record whose fate is known is closed; without a plan only
\* an unavailable artifact is recorded, and then without parts.
StopDelivery ==
  /\ outcome' = IF outcome \in {"unknown", "confirmed"} THEN outcome
                ELSE IF "confirmed" \in Outcomes(parts) THEN "partial" ELSE "failed"
  /\ UNCHANGED <<parts, planOf>>

-----------------------------------------------------------------------------
(* The row's life around the worker                                        *)

Claim ==
  /\ status = "queued"
  /\ status' = "running"
  /\ Go(IF version = 0 \/ changed THEN "analyse" ELSE "verify")
  /\ UNCHANGED <<generation, cancel, version, made, changed, ready, planVars>>
  /\ KeepsTelegram

RequestCancel ==
  /\ status \in {"queued", "running"} /\ ~cancel
  /\ cancel' = TRUE
  /\ status' = IF status = "queued" THEN "cancelled" ELSE status
  /\ UNCHANGED <<generation, version, made, changed, ready, planVars, workVars>>
  /\ KeepsTelegram

\* finish_job, or the exit of a worker whose row is already terminal.  A cancellation
\* comes too late for a run that has its result and has decided how it ends.
Finish ==
  /\ at = "leaving"
  /\ status' \in IF status # "running" THEN {status}
                 ELSE IF ~cancel THEN {"stopped"}
                 ELSE IF version = 0 THEN {"cancelled"} ELSE {"cancelled", "stopped"}
  /\ Go("none")
  /\ UNCHANGED <<generation, cancel, version, made, changed, ready, planVars>>
  /\ KeepsTelegram

Crash ==
  /\ at # "none"
  /\ Go("none")
  /\ UNCHANGED <<rowVars, planVars>> /\ KeepsTelegram

Recover ==
  /\ status = "running" /\ at = "none"
  /\ status' = IF cancel THEN "cancelled" ELSE "stopped"
  /\ UNCHANGED <<generation, cancel, version, made, changed, ready, planVars>>
  /\ KeepsWork /\ KeepsTelegram

\* Mutant: any stopped job may be resumed until its report is confirmed.
Resumable_Unknown == version # 0 => outcome # "confirmed"

\* /resume looks at the outcome: an unknown one is for inspection, a confirmed
\* one only for a missing artifact.
Resumable == outcome # "unknown" /\ (version # 0 /\ outcome = "confirmed" => full /\ ready)

Resume ==
  /\ status = "stopped" /\ at = "none" /\ generation < MaxGeneration
  /\ Resumable
  /\ status' = "queued" /\ generation' = generation + 1 /\ cancel' = FALSE
  /\ UNCHANGED <<version, made, changed, ready, planVars>>
  /\ KeepsWork /\ KeepsTelegram

-----------------------------------------------------------------------------
(* The worker up to the delivery loop                                      *)

\* Any read, check or write of the worker may raise; during a request the
\* exception is a receipt of its own, see Settle.
Raise ==
  /\ at \notin {"none", "sending", "waiting", "leaving"}
  /\ Go("leaving")
  /\ UNCHANGED <<rowVars, planVars>> /\ KeepsTelegram

\* repair_manifest_batch on an edited source the result depends on; when the
\* plan may have been sent the transaction fails and the run with it (Raise).
Invalidate ==
  /\ at = "analyse" /\ Fenced /\ changed /\ version # 0
  /\ ~MaybeSent
  /\ version' = 0 /\ ready' = FALSE
  /\ outcome' = "absent" /\ parts' = <<>> /\ planOf' = 0
  /\ UNCHANGED <<status, generation, cancel, made, changed>>
  /\ KeepsWork /\ KeepsTelegram

\* The repair has passed every page; pages without dependants changed nothing.
RepairDone ==
  /\ at = "analyse" /\ Fenced /\ changed
  /\ changed' = FALSE
  /\ UNCHANGED <<status, generation, cancel, version, made, ready, planVars>>
  /\ KeepsWork /\ KeepsTelegram

\* synthesize_analysis_result keeps a saved result and saves a missing one.
Synthesize ==
  /\ at = "analyse" /\ Fenced /\ ~changed
  /\ \/ version # 0 /\ UNCHANGED <<version, made>>
     \/ version = 0 /\ made < MaxVersion /\ made' = made + 1 /\ version' = made + 1
  /\ Go("verify")
  /\ UNCHANGED <<status, generation, cancel, changed, ready, planVars>>
  /\ KeepsTelegram

\* interrupt_changed_input, from any of the source checks before a send.
SourcesChanged ==
  /\ at \in {"verify", "artifact", "check"} /\ Fenced
  /\ changed' = TRUE /\ status' = "stopped"
  /\ Go("leaving")
  /\ UNCHANGED <<generation, cancel, version, made, ready, planVars>>
  /\ KeepsTelegram

SourcesVerified ==
  /\ at = "verify" /\ Fenced
  /\ Go(IF full THEN "artifact" ELSE "prepare")
  /\ UNCHANGED <<rowVars, planVars>> /\ KeepsTelegram

\* save_full_artifact(ready): the file is in place; a record that only noted
\* its absence is dropped.
ArtifactReady ==
  /\ at = "artifact" /\ Fenced
  /\ ready' = TRUE
  /\ outcome' = IF outcome = "failed" /\ parts = <<>> THEN "absent" ELSE outcome
  /\ Go("prepare")
  /\ UNCHANGED <<status, generation, cancel, version, made, changed, parts, planOf>>
  /\ KeepsTelegram

ArtifactFails ==
  /\ at = "artifact" /\ Fenced
  /\ StopDelivery
  /\ Go("leaving")
  /\ UNCHANGED rowVars /\ KeepsTelegram

\* prepare_delivery, the smaller plan of the byte cap's fallback included.
Prepare ==
  /\ at = "prepare" /\ Fenced
  /\ IF outcome # "absent" THEN UNCHANGED planVars
     ELSE /\ outcome' = "prepared" /\ planOf' = version
          /\ \E n \in 1 .. (IF full THEN 1 ELSE MaxParts) : parts' = [p \in 1 .. n |-> NewPart]
  /\ Go("loop")
  /\ UNCHANGED rowVars /\ KeepsTelegram

-----------------------------------------------------------------------------
(* The delivery loop                                                       *)

Unconfirmed == {p \in DOMAIN parts : parts[p].outcome # "confirmed"}
FirstUnconfirmed == CHOOSE p \in Unconfirmed : \A q \in Unconfirmed : p <= q

\* A part is tried again after a flood refusal, or by a later run.
MayTry(part) ==
  /\ part.tries < MaxTries
  /\ part.tries > 0 => part.flood \/ part.by # generation

LoopNext ==
  /\ at = "loop" /\ Fenced /\ parts # <<>>
  /\ IF outcome \in {"confirmed", "unknown"} \/ ~MayTry(parts[FirstUnconfirmed])
     THEN Go("leaving")
     ELSE at' = "check" /\ index' = FirstUnconfirmed /\ reply' = "none"
  /\ UNCHANGED <<rowVars, planVars>> /\ KeepsTelegram

\* The deadline is too near for the back-off or over, the requester has lost
\* access, or the artifact is not the one that was saved.
GiveUp ==
  /\ at = "check" /\ Fenced
  /\ StopDelivery
  /\ Go("leaving")
  /\ UNCHANGED rowVars /\ KeepsTelegram

BeginGuard ==
  /\ Fenced /\ outcome # "unknown"
  /\ \A p \in 1 .. (index - 1) : parts[p].outcome = "confirmed"
  /\ parts[index].outcome \in {"pending", "refused"}
  /\ parts[index].tries < MaxTries

Tried(part) == [outcome |-> "intent", tries |-> part.tries + 1,
                by |-> generation, flood |-> FALSE]

\* begin_delivery_attempt commits the intent before the request leaves.
BeginAttempt ==
  /\ at = "check" /\ BeginGuard
  /\ parts' = [parts EXCEPT ![index] = Tried(parts[index])]
  /\ outcome' = "unknown"
  /\ at' = "sending"
  /\ UNCHANGED <<rowVars, planOf, index, reply>> /\ KeepsTelegram

Request == <<planOf, index, parts[index].tries>>

Send ==
  /\ at = "sending"
  /\ wire' = wire \cup {Request}
  /\ at' = "waiting" /\ reply' = "none"
  /\ UNCHANGED <<full, rowVars, planVars, index, chat>>

\* Mutant: a timeout counts as a refusal.
Receipt_TimeoutRefuses ==
  IF reply = "receipt" THEN {"confirmed", "unknown"} ELSE {"refused"}

\* What the sender may report: the receipt or the refusal that came, or
\* "unknown" for a timeout, a broken answer or a foreign receipt.
Receipt ==
  {"unknown"} \cup (IF reply = "receipt" THEN {"confirmed"} ELSE {})
              \cup (IF reply \in {"flood", "refusal"} THEN {"refused"} ELSE {})

\* settle_delivery_attempt: fenced by the generation, not by the cancel flag.
Settle(o) ==
  /\ at = "waiting" \/ (at = "sending" /\ o = "unknown")
  /\ status = "running"
  /\ o \in Receipt
  /\ parts' = [parts EXCEPT ![index] = [@ EXCEPT !.outcome = o, !.flood = (reply = "flood")]]
  /\ outcome' = PlanOutcome(parts')
  /\ Go("loop")
  /\ UNCHANGED <<rowVars, planOf>> /\ KeepsTelegram

\* The transaction of the receipt fails: the durable intent remains.
SettleFails ==
  /\ at \in {"sending", "waiting"}
  /\ Go("leaving")
  /\ UNCHANGED <<rowVars, planVars>> /\ KeepsTelegram

-----------------------------------------------------------------------------
(* Telegram: decides a request some time after it left, answered or not.    *)

Answer(r, a) == reply' = IF at = "waiting" /\ r = Request THEN a ELSE reply

Accept(r) ==
  /\ r \in wire
  /\ wire' = wire \ {r} /\ chat' = Append(chat, <<r[1], r[2]>>)
  /\ Answer(r, "receipt")
  /\ UNCHANGED <<full, rowVars, planVars, at, index>>

Refuse(r, a) ==
  /\ r \in wire
  /\ wire' = wire \ {r}
  /\ Answer(r, a)
  /\ UNCHANGED <<full, rowVars, planVars, at, index, chat>>

Telegram == \E r \in wire : Accept(r) \/ \E a \in {"flood", "refusal", "none"} : Refuse(r, a)

Worker ==
  \/ Raise \/ Invalidate \/ RepairDone \/ Synthesize
  \/ SourcesChanged \/ SourcesVerified \/ ArtifactReady \/ ArtifactFails \/ Prepare
  \/ LoopNext \/ GiveUp \/ BeginAttempt \/ Send
  \/ \E o \in {"confirmed", "refused", "unknown"} : Settle(o)
  \/ SettleFails \/ Finish

Next == Claim \/ RequestCancel \/ Crash \/ Recover \/ Resume \/ Worker \/ Telegram

Spec == Init /\ [][Next]_vars

-----------------------------------------------------------------------------
(* Properties                                                              *)

\* The chat shows the parts of one version of the report, in order, each once,
\* whatever was lost, answered late, resumed or analysed again.
Outbox == INSTANCE ReportOutbox WITH posted <- chat
OutboxSpec == Outbox!Spec

Shown(p) == \E k \in DOMAIN chat : chat[k] = <<planOf, p>>
Underway(p) == \E r \in wire : r[1] = planOf /\ r[2] = p

\* What the row says of the report is what the chat shows: /status, /resume and
\* the invalidation of edited sources decide on nothing else.
OutcomeTruthful ==
  /\ outcome = "confirmed" => Len(chat) = Len(parts)
  /\ outcome = "partial" => Len(chat) \in 1 .. (Len(parts) - 1)
  /\ outcome \in {"absent", "prepared", "failed"} => chat = <<>>
  /\ chat # <<>> => version # 0 /\ chat[1][1] = version
  /\ \A p \in DOMAIN parts :
       /\ parts[p].outcome = "confirmed" => Shown(p)
       /\ parts[p].outcome \in {"pending", "refused"} => ~Shown(p) /\ ~Underway(p)

\* The four values AnalysisJobs keeps of the record.
Coarse == IF outcome \in {"absent", "prepared", "failed"} THEN "none" ELSE outcome

\* The steps AnalysisJobs allows it: the worker of a running row goes through
\* "unknown", nobody else touches it, and "unknown" is for the same run only.
CoarseDelivery ==
  [][/\ Coarse' # Coarse =>
          /\ status = "running" /\ at # "none"
          /\ \/ Coarse \in {"none", "partial"} /\ Coarse' = "unknown"
             \/ Coarse = "unknown" /\ at \in {"sending", "waiting"}
     /\ Coarse = "unknown" => generation' = generation]_vars
=============================================================================
