------------------------------ MODULE TtlRunner ------------------------------
(***************************************************************************)
(* run_with_ttl: a supervisor starts a command in a process group of its   *)
(* own, watches it against a deadline and against host sleep, forwards a   *)
(* cancellation as a kill, and returns only when the group is gone.  Time  *)
(* is abstract: the deadline may fall between any two steps.  What the     *)
(* root process does is up to the module that extends this one.            *)
(***************************************************************************)
EXTENDS Naturals, FiniteSets

CONSTANTS
  Runner,     \* supervisors
  AtOnce,     \* bound: how many of them are alive at the same time
  MaxFaults   \* bound: supervisors cancelled or killed

ASSUME RunnerAssumption == AtOnce \in Nat /\ MaxFaults \in Nat

VARIABLES
  phase,      \* where each supervisor is
  cancelled,  \* it has received SIGTERM or SIGINT
  group,      \* live processes of its group: the root and a descendant
  faults

runnerVars == <<phase, cancelled, group, faults>>

Phase == {"off", "starting", "popen", "watching", "grace", "leaving", "returned"}
Process == {"root", "descendant"}

RunnerTypeOK ==
  /\ phase \in [Runner -> Phase]
  /\ cancelled \in [Runner -> BOOLEAN]
  /\ group \in [Runner -> SUBSET Process]
  /\ faults \in 0 .. MaxFaults

RunnerInit ==
  /\ phase = [r \in Runner |-> "returned"]
  /\ cancelled = [r \in Runner |-> FALSE]
  /\ group = [r \in Runner |-> {}]
  /\ faults = 0

Goto(r, p) == phase' = [phase EXCEPT ![r] = p]
Keep(r, processes) == group' = [group EXCEPT ![r] = processes]

Idle(r) == phase[r] \in {"returned", "off"}   \* off: it was killed
Forget(r) == cancelled' = [cancelled EXCEPT ![r] = FALSE]

(* The handlers for SIGTERM and SIGINT are installed.                      *)
Launch(r) ==
  /\ Idle(r) /\ group[r] = {}
  /\ Cardinality({q \in Runner : ~Idle(q)}) < AtOnce
  /\ Goto(r, "starting")
  /\ UNCHANGED <<cancelled, group, faults>>

(* A supervisor that is already cancelled starts nothing.                  *)
CheckCancelled(r) ==
  /\ phase[r] = "starting"
  /\ IF cancelled[r] THEN Goto(r, "returned") /\ Forget(r)
     ELSE Goto(r, "popen") /\ UNCHANGED cancelled
  /\ UNCHANGED <<group, faults>>

(* A cancellation during Popen is forwarded once the group is known.       *)
Popen(r) ==
  /\ phase[r] = "popen"
  /\ Goto(r, "watching")
  /\ Keep(r, IF cancelled[r] THEN {} ELSE {"root"})
  /\ UNCHANGED <<cancelled, faults>>

(* The handler kills the group at once: who sent the signal may kill the   *)
(* supervisor before its own grace period is over.                         *)
Signal(r) ==
  /\ ~Idle(r) /\ ~cancelled[r] /\ faults < MaxFaults
  /\ faults' = faults + 1
  /\ cancelled' = [cancelled EXCEPT ![r] = TRUE]
  /\ IF phase[r] \in {"starting", "popen"} THEN UNCHANGED group ELSE Keep(r, {})
  /\ UNCHANGED phase

ObserveExit(r) ==
  /\ phase[r] = "watching" /\ "root" \notin group[r]
  /\ Goto(r, "leaving")
  /\ UNCHANGED <<cancelled, group, faults>>

(* The deadline, or a host sleep: stop_process_group signals the group and *)
(* waits, and any process may ignore the first signal.  The root may have  *)
(* exited since the poll that saw it alive.                                *)
GiveUp(r) ==
  /\ phase[r] = "watching"
  /\ Goto(r, "grace") /\ \E rest \in SUBSET group[r] : Keep(r, rest)
  /\ UNCHANGED <<cancelled, faults>>
\* Mutant: whoever ignores the first signal is waited for.
KillAfterGrace_Patient(r) ==
  /\ phase[r] = "grace" /\ "root" \notin group[r]
  /\ Goto(r, "leaving") /\ Keep(r, {})
  /\ UNCHANGED <<cancelled, faults>>
KillAfterGrace(r) ==
  /\ phase[r] = "grace"
  /\ Goto(r, "leaving") /\ Keep(r, {})
  /\ UNCHANGED <<cancelled, faults>>

\* Mutant: the exit of the root ends the run.
Leave_KeepsDescendants(r) ==
  /\ phase[r] = "leaving"
  /\ Goto(r, "returned") /\ Forget(r) /\ UNCHANGED <<group, faults>>
(* The exit of the root does not prove that its descendants stopped.       *)
Leave(r) ==
  /\ phase[r] = "leaving"
  /\ Goto(r, "returned") /\ Forget(r) /\ Keep(r, {})
  /\ UNCHANGED faults

(* A failure of the audit file or the clock kills the group, too.          *)
Raise(r) ==
  /\ phase[r] = "watching"
  /\ Goto(r, "leaving") /\ Keep(r, {})
  /\ UNCHANGED <<cancelled, faults>>

(* The supervisor itself is killed: the group runs on.                     *)
Die(r) ==
  /\ ~Idle(r) /\ faults < MaxFaults
  /\ faults' = faults + 1 /\ Goto(r, "off") /\ Forget(r)
  /\ UNCHANGED group

RunnerWork(r) ==
  \/ CheckCancelled(r) \/ Popen(r)
  \/ ObserveExit(r) \/ GiveUp(r) \/ KillAfterGrace(r) \/ Leave(r)
RunnerStep(r) == Launch(r) \/ RunnerWork(r) \/ Signal(r) \/ Raise(r) \/ Die(r)
-----------------------------------------------------------------------------
(* A supervisor that returns leaves no process behind, whichever way the   *)
(* run ended and whatever ignored the first signal; one that was cancelled *)
(* has no process even before it returns.                                  *)
NothingLeftBehind ==
  \A r \in Runner :
    \/ phase[r] = "returned"
    \/ cancelled[r] /\ phase[r] \notin {"starting", "popen"}
    => group[r] = {}
=============================================================================
