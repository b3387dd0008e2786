---------------------------- MODULE ProviderBudget ----------------------------
(***************************************************************************)
(* What one analytic job spends on the provider.  Every physical request is  *)
(* reserved in a transaction before it leaves and settled when it is over;  *)
(* requests before the merge must leave enough for the merge tree and the   *)
(* synthesis.  A run may end at any step and the job be resumed with what it *)
(* has spent, or with edited sources.                                       *)
(*                                                                         *)
(* From AnalysisJobs this module takes that one worker acts for the row:     *)
(* the death of a run and its recovery are one step.  Evidence is a number   *)
(* of records, the merge frontier a number of nodes.  The bounds on retries  *)
(* and repairs are left out: only the budget limits them here.              *)
(***************************************************************************)
EXTENDS Integers, FiniteSetsExt, MergeTree

CONSTANTS
  MaxCalls, MaxRequests, MaxTokens,  \* max_llm_calls, max_provider_requests, max_total_tokens
  MaxRecords,     \* max_evidence_records
  MaxDepth,       \* max_merge_depth
  FanIn,          \* merge_fan_in
  MergeCost,      \* max_input_tokens + max_output_tokens of a stage
  FinalCost,      \* max_input_tokens + max_output_tokens of the profile
  NoUsage,        \* a receipt without usage
  MaxBatches,     \* bound: extraction batches not yet finished
  MaxUsage,       \* bound: tokens on a receipt
  MaxRuns         \* bound: runs of the job

\* Bags of requests.
B == INSTANCE BagsExt

Roots == 0 .. MaxRecords + 1

ASSUME BudgetAssumption ==
  /\ MaxCalls \in Nat /\ MaxRequests \in Nat /\ MaxTokens \in Nat
  /\ MaxRecords \in Nat /\ MaxDepth \in Nat /\ MaxUsage \in Nat
  /\ FanIn \in Nat \ {0, 1} /\ MaxBatches \in Nat \ {0} /\ MaxRuns \in Nat \ {0}
  /\ MergeCost \in Nat \ {0} /\ FinalCost \in Nat \ {0}
  /\ NoUsage \notin Nat

\* Merge requests and levels per fan-in and number of roots.
TreeCalls == [f \in 2 .. FanIn |-> CallsFor(f, MaxRecords + 1)]
TreeDepth == [f \in 2 .. FanIn |-> LevelsFor(f, MaxRecords + 1)]

VARIABLES
  \* the row
  status, cancel, runs,
  calls, requests, used, reserved,   \* its counters
  stop,           \* checkpoint.budget_stop: none, usage_overrun, or limit for any other
  result,         \* none, fallback (of record_budget_stop) or final
  records,        \* analysis_evidence of the job
  open,           \* extraction batches neither succeeded nor failed
  links,          \* a link batch is neither succeeded nor failed
  tree,           \* checkpoint.merge
  \* attempts_json: a bag of inferences, and the number of token counts; their state is
  \* read by nobody but the request itself
  journal, counts,
  \* the worker
  at, stage, left, inputs, mine,
  strained        \* ghost: more was spent or produced than the last reserve is for

rowVars == <<status, cancel, runs>>
counterVars == <<calls, requests, used, reserved>>
journalVars == <<journal, counts>>
dataVars == <<records, open, links, tree>>
workVars == <<at, stage, left, inputs, mine>>
vars == <<rowVars, counterVars, stop, result, dataVars, journalVars, workVars, strained>>

Usage == 0 .. MaxUsage
Attempt == [tokens : 1 .. MaxTokens, usage : Usage \cup {NoUsage}, over : BOOLEAN]
NoAttempt == [tokens |-> 0, usage |-> NoUsage, over |-> FALSE]

\* The frontier: nodes of the level, those of it not yet taken, those of the next.
Tree == [state : {"none", "running", "ready", "partial"}, width : 0 .. MaxRecords,
         front : 0 .. MaxRecords, next : 0 .. MaxRecords, depth : 0 .. MaxDepth,
         fan : 2 .. FanIn]
Frontier(s, w, f, n, d, k) ==
  [state |-> s, width |-> w, front |-> f, next |-> n, depth |-> d, fan |-> k]
NoTree == Frontier("none", 0, 0, 0, 0, FanIn)

\* Types of the variables and the ranges of the counters that have a cap of their own.
TypeOK ==
  /\ status \in {"queued", "running", "stopped", "over"} /\ cancel \in BOOLEAN
  /\ runs \in 1 .. MaxRuns
  /\ calls \in Nat /\ requests \in Nat /\ used \in Nat /\ reserved \in Nat
  /\ stop \in {"none", "limit", "usage_overrun"}
  /\ result \in {"none", "fallback", "final"}
  /\ records \in 0 .. MaxRecords /\ open \in 0 .. MaxBatches /\ links \in BOOLEAN
  /\ tree \in Tree
  /\ DOMAIN journal \subseteq Attempt /\ counts \in Nat
  /\ \A a \in DOMAIN journal : journal[a] \in Nat \ {0}
  /\ at \in {"none", "select", "step", "count", "counting", "infer", "inferring",
             "overran", "output", "end"}
  /\ stage \in {"extract", "link", "merge", "synthesize"}
  /\ left \in 0 .. MaxBatches + 1 /\ inputs \in 0 .. FanIn
  /\ mine \in Attempt \cup {NoAttempt}
  /\ strained \in BOOLEAN

Init ==
  /\ status = "queued" /\ cancel = FALSE /\ runs = 1
  /\ calls = 0 /\ requests = 0 /\ used = 0 /\ reserved = 0
  /\ stop = "none" /\ result = "none"
  /\ records = 0 /\ open \in 1 .. MaxBatches /\ links = TRUE /\ tree = NoTree
  /\ journal = [a \in {} |-> 0] /\ counts = 0
  /\ at = "none" /\ stage = "extract" /\ left = 0 /\ inputs = 0 /\ mine = NoAttempt
  /\ strained = FALSE

-----------------------------------------------------------------------------
(* The reserve                                                             *)

\* require_running
Fenced == status = "running" /\ ~cancel

Completing == stage \in {"merge", "synthesize"}

\* The roots a merge request leaves: 1 after the global rank.
RootsAfterMerge == IF inputs = tree.width THEN 1 ELSE tree.front - inputs + tree.next + 1

\* Mutant: the record the request itself is about to add is not counted.
TreeRoots_WithoutOwn ==
  IF stage \in {"extract", "link"} THEN records
  ELSE IF stage = "merge" THEN RootsAfterMerge ELSE 0

\* _completion_reserve_no_tx: the roots of the tree still to be merged when the
\* request in hand has succeeded.
TreeRoots ==
  IF stage = "extract" THEN records + 1
  ELSE IF stage = "link" THEN records
  ELSE IF stage = "merge" THEN RootsAfterMerge ELSE 0

Fan == IF stage = "merge" THEN tree.fan ELSE FanIn
Merges == TreeCalls[Fan][TreeRoots]
Final == IF TreeRoots > 0 THEN 1 ELSE 0

\* Mutant: reservations whose usage is unknown are not counted.
Committed_Used == used

Committed == used + reserved

\* The caps of reserve_provider_attempt with the reserve on top; a token count also
\* leaves one inference.
Affordable(c, t, extra) ==
  /\ TreeDepth[Fan][TreeRoots] <= MaxDepth
  /\ calls + c + Merges + Final + extra <= MaxCalls
  /\ requests + 1 + 2 * (Merges + Final) + extra <= MaxRequests
  /\ Committed + t + Merges * MergeCost + Final * FinalCost <= MaxTokens

\* Mutant: only an overrun is looked at.
Stopped_Overrun == stop = "usage_overrun"

\* A recorded stop leaves only the merge and the synthesis, an overrun nothing.
Stopped == stop # "none" /\ (~Completing \/ stop = "usage_overrun")

MayCount == ~Stopped /\ Committed < MaxTokens /\ Affordable(0, 0, 1)
MayInfer(t) == ~Stopped /\ Affordable(1, t, 0)

\* Sizes of a request: counted input plus output limit, at most the stage's cost.
Sizes == 1 .. (IF stage = "synthesize" THEN FinalCost ELSE MergeCost)

-----------------------------------------------------------------------------
(* Where the worker goes                                                   *)

Go(p, s, l, n) == at' = p /\ stage' = s /\ left' = l /\ inputs' = n /\ mine' = NoAttempt
Keep(p) == at' = p /\ UNCHANGED <<stage, left, inputs, mine>>
Again == Go("count", stage, left, inputs)
Leave(s) == Go("step", s, left, 0)
Stay == Leave(stage)

\* The batch in hand is finished, one way or another.
NextBatch == Go("step", stage, IF stage = "extract" THEN left - 1 ELSE left, 0)

StopTree == tree' = [tree EXCEPT !.state = "partial"]
MayStopTree == tree.state = "running" /\ StopTree
Strains(b) == strained' = (strained \/ b)

\* record_budget_stop and where the stage goes on it.  Extraction continues with the
\* next batch, or ends if the iterator itself was stopped.  The merge saves the partial
\* frontier, unless it could not be saved: merge_analysis_records then only returns it.
BudgetStop(reason) ==
  /\ stop' = reason
  /\ result' = IF result = "none" THEN "fallback" ELSE result
  /\ \/ stage = "extract" /\ left > 0 /\ NextBatch /\ UNCHANGED tree
     \/ stage = "extract" /\ at \in {"step", "count", "counting"} /\ Leave("link") /\ UNCHANGED tree
     \/ stage = "link" /\ Leave("merge") /\ UNCHANGED tree
     \/ stage = "merge" /\ Leave("synthesize") /\ (UNCHANGED tree \/ MayStopTree)
     \/ stage = "synthesize" /\ Go("end", stage, left, 0) /\ UNCHANGED tree
  /\ UNCHANGED <<records, open, links>>

-----------------------------------------------------------------------------
(* Runs                                                                    *)

Claim ==
  /\ status = "queued" /\ status' = "running"
  /\ Go("select", "extract", 0, 0)
  /\ UNCHANGED <<cancel, runs, counterVars, stop, result, dataVars, journalVars, strained>>

RequestCancel ==
  /\ status = "running" /\ ~cancel /\ cancel' = TRUE
  /\ UNCHANGED <<status, runs, counterVars, stop, result, dataVars, journalVars, workVars, strained>>

\* A crash, an error, the deadline, a cancellation noticed, or the end of the work;
\* with the recovery of the job.  A request under way stays reserved.
RunEnds ==
  /\ status = "running"
  /\ status' \in IF cancel THEN {"over"} ELSE {"stopped", "over"}
  /\ Go("none", "extract", 0, 0)
  /\ Strains(Completing)
  /\ UNCHANGED <<cancel, runs, counterVars, stop, result, dataVars, journalVars>>

Resume ==
  /\ status = "stopped" /\ runs < MaxRuns
  /\ status' = "queued" /\ runs' = runs + 1
  /\ UNCHANGED <<cancel, counterVars, stop, result, dataVars, journalVars, workVars, strained>>

\* The manifest stands: the stages are passed through unless a result is saved.  The
\* first extraction batch is the preflight, which is counted and never sent.
SourcesStand ==
  /\ Fenced /\ at = "select"
  /\ IF result = "none" THEN Go("step", "extract", open + 1, 0) ELSE Go("end", "extract", 0, 0)
  /\ UNCHANGED <<rowVars, counterVars, stop, result, dataVars, journalVars, strained>>

\* _invalidate_dependencies_no_tx: an edited source takes its batch, its records and
\* all that was made of them out of the job; the counters and the stop remain.
SourcesEdited ==
  /\ Fenced /\ at = "select" /\ runs > 1 /\ open < MaxBatches
  /\ records' \in 0 .. records
  /\ open' = open + 1 /\ links' = TRUE /\ tree' = NoTree /\ result' = "none"
  /\ Go("step", "extract", open + 2, 0)
  /\ Strains(tree.state # "none")
  /\ UNCHANGED <<rowVars, counterVars, stop, journalVars>>

-----------------------------------------------------------------------------
(* Steps without a request                                                 *)

Preflight == stage = "extract" /\ left = open + 1

ExtractStep ==
  /\ Fenced /\ at = "step" /\ stage = "extract"
  /\ IF left > 0 THEN Again ELSE Leave("link")
  /\ UNCHANGED <<rowVars, counterVars, stop, result, dataVars, journalVars, strained>>

SkipPreflight ==
  /\ Fenced /\ at = "infer" /\ Preflight /\ NextBatch
  /\ UNCHANGED <<rowVars, counterVars, stop, result, dataVars, journalVars, strained>>

\* complete_batch with k new records: refused as a whole above the cap.
AddRecords(k) ==
  IF records + k <= MaxRecords
  THEN /\ records' = records + k /\ open' = open - 1 /\ NextBatch
       /\ UNCHANGED <<links, tree, stop, result>>
  ELSE BudgetStop("limit")

\* try_reuse_extraction: records of an earlier job, which no request has reserved for.
ReuseExtraction ==
  /\ Fenced /\ at = "infer" /\ stage = "extract" /\ ~Preflight /\ mine = NoAttempt
  /\ \E k \in 0 .. MaxRecords + 1 : AddRecords(k) /\ Strains(k > 0)
  /\ UNCHANGED <<rowVars, counterVars, journalVars>>

\* Pairs that were decided before, or that need no request, or are left for a batch.
LinkStep ==
  /\ Fenced /\ at = "step" /\ stage = "link"
  /\ \/ links /\ Again /\ UNCHANGED links
     \/ Leave("merge") /\ links' = FALSE
  /\ UNCHANGED <<rowVars, counterVars, stop, result, records, open, tree, journalVars, strained>>

\* _advance_merge_frontier: n nodes of the level have become p of the next.
Advanced(n, p, terminal) ==
  LET all == tree.next + p
  IN  IF tree.front > n
      THEN Frontier(tree.state, tree.width, tree.front - n, all, tree.depth, tree.fan)
      ELSE Frontier(IF terminal \/ all = 0 THEN "ready"
                    ELSE IF all >= tree.width THEN "partial" ELSE tree.state,
                    all, all, 0, tree.depth + 1, tree.fan)

StartTree ==
  tree' = Frontier(IF records = 0 THEN "ready" ELSE "running", records, records, 0, 0, FanIn)

\* The loop of _merge_analysis_records up to the next request.
MergeStep ==
  /\ Fenced /\ at = "step" /\ stage = "merge"
  /\ \/ tree.state = "none" /\ Stay /\ StartTree
     \/ tree.state = "running" /\ tree.width = 1 /\ Stay /\ tree' = [tree EXCEPT !.state = "ready"]
     \/ tree.state = "running" /\ tree.width > 1 /\ tree.depth >= MaxDepth /\ Stay /\ StopTree
     \/ /\ tree.state = "running" /\ tree.width > 1 /\ tree.depth < MaxDepth
        /\ IF tree.front = 1
           THEN Stay /\ tree' = Advanced(1, 1, FALSE)
           ELSE Go("count", stage, left, Min({tree.front, tree.fan})) /\ UNCHANGED tree
     \/ tree.state \in {"ready", "partial"} /\ Leave("synthesize") /\ UNCHANGED tree
  /\ UNCHANGED <<rowVars, counterVars, stop, result, records, open, links, journalVars, strained>>

\* No evidence was left, or it is summed up.  Without a finished tree
\* _synthesis_evidence raises an error.
SynthesizeStep ==
  /\ Fenced /\ at = "step" /\ stage = "synthesize" /\ tree.state \in {"ready", "partial"}
  /\ \/ Go("end", stage, left, 0) /\ result' = "final"
     \/ records > 0 /\ Again /\ UNCHANGED result
  /\ UNCHANGED <<rowVars, counterVars, stop, dataVars, journalVars, strained>>

\* The byte cap or the split depth: the reason recorded last is the one that stays.
OtherStop ==
  /\ Fenced /\ at \in {"step", "counting", "infer", "output"}
  /\ BudgetStop("limit")
  /\ UNCHANGED <<rowVars, counterVars, journalVars, strained>>

-----------------------------------------------------------------------------
(* Requests                                                                *)

\* reserve_provider_attempt refuses; a recorded stop is recorded again.
Refuse ==
  /\ BudgetStop(IF Stopped THEN stop ELSE "limit")
  /\ UNCHANGED <<rowVars, counterVars, journalVars, strained>>

\* A saved count of the same payload is used again.
CountCached ==
  /\ Fenced /\ at = "count" /\ counts > 0 /\ Keep("infer")
  /\ UNCHANGED <<rowVars, counterVars, stop, result, dataVars, journalVars, strained>>

ReserveCount ==
  /\ Fenced /\ at = "count" /\ MayCount
  /\ requests' = requests + 1 /\ counts' = counts + 1
  /\ Keep("counting")
  /\ UNCHANGED <<rowVars, calls, used, reserved, stop, result, dataVars, journal, strained>>

RefuseCount == Fenced /\ at = "count" /\ ~MayCount /\ Refuse

\* The count is saved, or the request is made again.
CountAnswer ==
  /\ at = "counting"
  /\ \/ Fenced /\ Keep("infer") /\ UNCHANGED strained
     \/ Keep("count") /\ Strains(Completing)
  /\ UNCHANGED <<rowVars, counterVars, stop, result, dataVars, journalVars>>

\* The counted input does not fit: split, go on with less, or give up the batch.
InputTooLarge ==
  /\ Fenced /\ at = "infer" /\ ~Preflight
  /\ \/ /\ stage = "extract" /\ UNCHANGED <<links, tree, result, strained>>
        /\ \/ open < MaxBatches /\ open' = open + 1 /\ Go("step", stage, left + 1, 0)
           \/ open' = open - 1 /\ NextBatch
     \/ /\ stage = "link" /\ NextBatch /\ links' \in BOOLEAN
        /\ UNCHANGED <<open, tree, result, strained>>
     \/ /\ stage = "merge" /\ inputs > 2 /\ mine = NoAttempt
        /\ tree' = [tree EXCEPT !.fan = Max({2, inputs \div 2})]
        /\ NextBatch /\ Strains(TRUE)
        /\ UNCHANGED <<open, links, result>>
     \/ /\ stage = "merge" /\ StopTree /\ Leave("synthesize")
        /\ UNCHANGED <<open, links, result, strained>>
     \/ /\ stage = "synthesize" /\ mine = NoAttempt /\ NextBatch /\ Strains(TRUE)
        /\ UNCHANGED <<open, links, tree, result>>
     \/ /\ stage = "synthesize" /\ Go("end", stage, left, 0) /\ result' = "final"
        /\ UNCHANGED <<open, links, tree, strained>>
  /\ UNCHANGED <<rowVars, counterVars, stop, records, journalVars>>

\* What is set aside is for the tree of the records, or for the one being merged; a tree
\* that an earlier run has left may take more.
ReserveInference(t) ==
  /\ Fenced /\ at = "infer" /\ ~Preflight /\ MayInfer(t)
  /\ at' = "inferring"
  /\ mine' = [tokens |-> t, usage |-> NoUsage, over |-> FALSE]
  /\ journal' = B!BagAdd(journal, mine')
  /\ calls' = calls + 1 /\ requests' = requests + 1 /\ reserved' = reserved + t
  /\ strained' = (~Completing /\ tree.state # "none")
  /\ UNCHANGED <<rowVars, used, stop, result, dataVars, counts, stage, left, inputs>>

RefuseInference(t) == Fenced /\ at = "infer" /\ ~Preflight /\ ~MayInfer(t) /\ Refuse

Tokens(u) == IF u = NoUsage THEN 0 ELSE u

Settled(u, o) == [mine EXCEPT !.usage = u, !.over = o]

\* Mutant: a receipt that is there already is entered again.
Settle_Twice(u, o) ==
  /\ journal' = B!BagAdd(B!BagRemove(journal, mine), Settled(u, o))
  /\ used' = used + Tokens(u)
  /\ reserved' = IF u = NoUsage THEN reserved ELSE reserved - mine.tokens
  /\ UNCHANGED <<calls, requests, counts>>

\* _settle_provider_attempt_no_tx: a known usage replaces the reservation, an unknown
\* one leaves it standing, and the same receipt changes nothing.
Settle(u, o) ==
  IF mine.usage = u THEN UNCHANGED <<counterVars, journalVars>>
  ELSE /\ mine.usage = NoUsage
       /\ journal' = B!BagAdd(B!BagRemove(journal, mine), Settled(u, o))
       /\ used' = used + u
       /\ reserved' = reserved - mine.tokens
       /\ UNCHANGED <<calls, requests, counts>>

Resettled == Settle(mine.usage, mine.over) /\ UNCHANGED rowVars

\* An answer.  Its usage may be more than was reserved, in sum or in one of its parts.
Answer(u, o) ==
  /\ at = "inferring"
  /\ u = NoUsage => ~o
  /\ Tokens(u) > mine.tokens => o
  /\ Settle(u, o) /\ mine' = Settled(u, o)
  /\ stop' = IF o THEN "usage_overrun" ELSE stop
  /\ at' = IF o THEN "overran" ELSE "output"
  /\ UNCHANGED <<rowVars, result, dataVars, stage, left, inputs, strained>>

RecordOverrun ==
  /\ Fenced /\ at = "overran" /\ BudgetStop("usage_overrun")
  /\ UNCHANGED <<rowVars, counterVars, journalVars, strained>>

\* No answer, or not one of ours: the request may be made again, and what this one has
\* cost is never known.
AnswerFails ==
  /\ at = "inferring" /\ Settle(NoUsage, FALSE)
  /\ at' = "infer" /\ Strains(Completing)
  /\ UNCHANGED <<rowVars, stop, result, dataVars, stage, left, inputs, mine>>

-----------------------------------------------------------------------------
(* Outputs                                                                 *)

\* The receipt is entered again with the output, in one transaction; above the cap on
\* records, without it.
CompleteExtraction ==
  /\ Fenced /\ at = "output" /\ stage = "extract"
  /\ \E k \in 0 .. MaxRecords + 1 : AddRecords(k) /\ Strains(k > 1)
  /\ Resettled

CompleteLink ==
  /\ Fenced /\ at = "output" /\ stage = "link"
  /\ links' \in BOOLEAN /\ NextBatch
  /\ UNCHANGED <<stop, result, records, open, tree, strained>>
  /\ Resettled

\* Groups of the inputs; bound: no more of them than inputs.
CompleteMerge ==
  /\ Fenced /\ at = "output" /\ stage = "merge"
  /\ \E p \in 0 .. inputs :
       /\ tree' = Advanced(inputs, p, inputs = tree.width)
       /\ Strains(p > 1 /\ inputs < tree.width)
  /\ NextBatch
  /\ UNCHANGED <<stop, result, records, open, links>>
  /\ Resettled

CompleteSynthesis ==
  /\ Fenced /\ at = "output" /\ stage = "synthesize"
  /\ result' = "final" /\ Go("end", stage, left, 0)
  /\ UNCHANGED <<stop, dataVars, strained>>
  /\ Resettled

\* claim_repair: the invalid output is sent back to be counted and repaired.
Repair ==
  /\ Fenced /\ at = "output" /\ at' = "count" /\ Strains(Completing)
  /\ UNCHANGED <<rowVars, counterVars, stop, result, dataVars, journalVars,
                 stage, left, inputs, mine>>

\* set_batch_outcome: refused, incomplete, saturated or invalid for good.  Extraction and
\* linking may split the batch instead.
OutputRejected ==
  /\ Fenced /\ at = "output"
  /\ \/ /\ stage = "extract" /\ UNCHANGED <<links, tree, result>>
        /\ \/ open < MaxBatches /\ open' = open + 1 /\ Go("step", stage, left + 1, 0)
           \/ open' = open - 1 /\ NextBatch
     \/ stage = "link" /\ NextBatch /\ links' \in BOOLEAN /\ UNCHANGED <<open, tree, result>>
     \/ stage = "merge" /\ StopTree /\ Leave("synthesize") /\ UNCHANGED <<open, links, result>>
     \/ stage = "synthesize" /\ result' = "final" /\ Go("end", stage, left, 0)
        /\ UNCHANGED <<open, links, tree>>
  /\ UNCHANGED <<rowVars, counterVars, stop, records, journalVars, strained>>

Next ==
  \/ Claim \/ RequestCancel \/ RunEnds \/ Resume \/ SourcesStand \/ SourcesEdited
  \/ ExtractStep \/ SkipPreflight \/ ReuseExtraction \/ LinkStep \/ MergeStep
  \/ SynthesizeStep \/ OtherStop
  \/ CountCached \/ ReserveCount \/ RefuseCount \/ CountAnswer \/ InputTooLarge
  \/ \E t \in Sizes : ReserveInference(t) \/ RefuseInference(t)
  \/ \E u \in Usage \cup {NoUsage}, o \in BOOLEAN : Answer(u, o)
  \/ RecordOverrun \/ AnswerFails
  \/ CompleteExtraction \/ CompleteLink \/ CompleteMerge \/ CompleteSynthesis
  \/ Repair \/ OutputRejected

Spec == Init /\ [][Next]_vars

-----------------------------------------------------------------------------
(* Properties                                                              *)

Unsettled == {a \in DOMAIN journal : a.usage = NoUsage}
Overrun == \E a \in DOMAIN journal : a.over

\* The counters of the row are what its receipts add up to, however often a receipt was
\* entered, whichever requests were never answered, over all runs of the job.
CountersMatch ==
  /\ calls = SumFunction(journal)
  /\ requests = calls + counts
  /\ used = SumFunction([a \in DOMAIN journal |-> journal[a] * Tokens(a.usage)])
  /\ reserved = SumFunction([a \in Unsettled |-> journal[a] * a.tokens])

\* The limits of the job hold over all of its runs; tokens only as long as the provider
\* keeps to what it was asked for.
WithinBudget ==
  /\ calls <= MaxCalls /\ requests <= MaxRequests
  /\ Overrun \/ used + reserved <= MaxTokens

\* The request in hand and the tree it leaves take less than the tree before it.  The tree
\* it leaves is reckoned from the first level, so that in a level of more than twice the
\* fan-in they may take more.
WithinReserve ==
  stage = "merge" => 1 + Merges <= TreeCalls[tree.fan][tree.front + tree.next]

\* What the reserve is for: as long as no request since the last reservation has taken
\* more than one attempt or produced more than it is reckoned with, a merge or synthesis
\* can afford its next request, of any size, if that is within the reserve.
CompletionAffordable ==
  Completing /\ ~strained /\ ~Overrun /\ WithinReserve =>
    /\ at = "count" => MayCount
    /\ at = "infer" => \A t \in Sizes : MayInfer(t)

\* Once a limit has been reported or an overrun recorded, over all further runs and also
\* after edits, extraction and linking send nothing.
StopStands == [][stop # "none" => ~(requests' > requests /\ ~Completing)]_vars

=============================================================================
