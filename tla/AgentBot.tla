------------------------------- MODULE AgentBot -------------------------------
(***************************************************************************)
(* The Telegram agent bot: a listener takes updates one at a time, saves   *)
(* its offset and runs each command in a worker process.  A worker         *)
(* continues the conversation of its chat with the provider and keeps the  *)
(* id of the last response in a JSON file that is read, changed and        *)
(* written without a lock.  A worker survives the death of its listener.   *)
(***************************************************************************)
EXTENDS Naturals, Sequences, SequencesExt

CONSTANTS
  Chat,
  MaxUpdate,   \* bound: updates that arrive
  MaxRounds,   \* agent.max_tool_rounds
  MaxFaults,   \* bound: deaths of the listener
  None         \* no conversation

ASSUME BoundsAssumption ==
  MaxUpdate \in Nat \ {0} /\ MaxRounds \in Nat \ {0} /\ MaxFaults \in Nat

Update == 1 .. MaxUpdate
Command == [chat : Chat, kind : {"agent", "reset"}]
(* A response of the provider: the worker that asked, and whether it calls *)
(* functions whose outputs nobody has sent yet.                            *)
Response == [worker : Nat, open : BOOLEAN]
Sessions == [Chat -> Response \cup {None}]

VARIABLES
  inbox,      \* updates Telegram has received
  confirmed,  \* the first update Telegram still keeps
  file,       \* offset.local.json, 0 when absent or unreadable
  offset,     \* the listener's offset, 0 for none
  at,         \* where the listener is
  next, last, \* the update in hand and the last one of the batch
  workers,    \* worker processes in the order of their start
  sessions,   \* agent_sessions.local.json
  cut,        \* the sessions file reads as empty: a write was begun or mixed up
  thread,     \* history: per chat, the last response saved since its last reset
  taken,      \* history: updates the offset has passed
  torn,       \* history: a death left the offset file unreadable
  disturbed,  \* history: a worker outlived its listener or died in its write
  faults

telegram == <<inbox, confirmed>>
listener == <<file, offset, at, next, last, taken, torn>>
store == <<sessions, cut, thread>>
vars == <<telegram, listener, workers, store, disturbed, faults>>

WorkerAt == {"read", "ask", "load", "truncate", "write", "ended"}
TypeOK ==
  /\ inbox \in Seq(Command) /\ Len(inbox) <= MaxUpdate
  /\ confirmed \in 1 .. MaxUpdate + 1 /\ file \in 0 .. MaxUpdate + 1
  /\ offset \in 0 .. MaxUpdate + 1 /\ next \in 1 .. MaxUpdate + 1 /\ last \in 0 .. MaxUpdate
  /\ at \in {"down", "poll", "save", "handle", "wait"}
  /\ workers \in Seq([update : Update, at : WorkerAt, tip : Response \cup {None},
                      round : 1 .. MaxRounds, copy : Sessions])
  /\ sessions \in Sessions /\ cut \in BOOLEAN /\ thread \in Sessions
  /\ taken \subseteq Update /\ torn \in BOOLEAN /\ disturbed \in BOOLEAN
  /\ faults \in 0 .. MaxFaults

NoSessions == [c \in Chat |-> None]
Init ==
  /\ inbox = <<>> /\ confirmed = 1 /\ file = 0 /\ offset = 0
  /\ at = "down" /\ next = 1 /\ last = 0
  /\ workers = <<>>
  /\ sessions = NoSessions /\ cut = FALSE /\ thread = NoSessions
  /\ taken = {} /\ torn = FALSE /\ disturbed = FALSE /\ faults = 0

Arrive(command) ==
  /\ Len(inbox) < MaxUpdate
  /\ inbox' = Append(inbox, command)
  /\ UNCHANGED <<confirmed, listener, workers, store, disturbed, faults>>
-----------------------------------------------------------------------------
(* The listener                                                            *)

Start ==
  /\ at = "down"
  /\ at' = "poll" /\ offset' = file
  /\ UNCHANGED <<telegram, file, next, last, taken, torn, workers, store, disturbed, faults>>

(* Asking with an offset confirms everything before it; without one,       *)
(* Telegram answers what was never confirmed.                              *)
Fetch ==
  LET from == IF offset > confirmed THEN offset ELSE confirmed
  IN  /\ at = "poll"
      /\ confirmed' = from
      /\ IF from > Len(inbox) THEN UNCHANGED <<at, next, last>>
         ELSE at' = "save" /\ next' = from /\ last' = Len(inbox)
      /\ UNCHANGED <<inbox, file, offset, taken, torn, workers, store, disturbed, faults>>

\* Mutant: the offset moves in memory only.
SaveOffset_InMemory ==
  /\ at = "save"
  /\ offset' = next + 1 /\ at' = "handle"
  /\ taken' = taken \cup {next}
  /\ UNCHANGED <<telegram, file, next, last, torn, workers, store, disturbed, faults>>
(* The offset passes an update before its command is run.                  *)
SaveOffset ==
  /\ at = "save"
  /\ file' = next + 1 /\ offset' = next + 1 /\ at' = "handle"
  /\ taken' = taken \cup {next}
  /\ UNCHANGED <<telegram, next, last, torn, workers, store, disturbed, faults>>

Worker(u) ==
  [update |-> u, tip |-> None, round |-> 1, copy |-> NoSessions,
   at |-> IF inbox[u].kind = "agent" THEN "read" ELSE "load"]
HandleAgentCommand ==
  /\ at = "handle"
  /\ workers' = Append(workers, Worker(next)) /\ at' = "wait"
  /\ UNCHANGED <<telegram, file, offset, next, last, taken, torn, store, disturbed, faults>>

ToNextUpdate ==
  /\ IF next < last THEN at' = "save" /\ next' = next + 1
     ELSE at' = "poll" /\ UNCHANGED next
  /\ UNCHANGED <<file, offset, last, taken, torn>>

(* The worker has ended; its reply, or what it failed with, goes to the    *)
(* chat, and a reply that cannot be sent is logged.                        *)
Reply ==
  /\ at = "wait" /\ Last(workers).at = "ended"
  /\ ToNextUpdate
  /\ UNCHANGED <<telegram, workers, store, disturbed, faults>>

Ended(w) ==
  [workers EXCEPT ![w] = [update |-> @.update, at |-> "ended", tip |-> None,
                          round |-> 1, copy |-> NoSessions]]
(* A worker that dies between truncating and writing leaves an empty file. *)
Stopped(w) == disturbed' = (disturbed \/ workers[w].at = "write")
\* Mutant: the listener goes on while the worker still runs.
WorkerTimesOut_Detached ==
  /\ at = "wait" /\ Last(workers).at /= "ended"
  /\ ToNextUpdate
  /\ UNCHANGED <<telegram, workers, store, disturbed, faults>>
\* Mutant: no timeout.
WorkerTimesOut_Never == FALSE
WorkerTimesOut ==
  /\ at = "wait" /\ Last(workers).at /= "ended"
  /\ workers' = Ended(Len(workers)) /\ Stopped(Len(workers))
  /\ ToNextUpdate
  /\ UNCHANGED <<telegram, store, faults>>

(* The listener dies; in the middle of a save the offset file may be left  *)
(* empty.  Its worker runs on, unless the service manager ends it too.     *)
Crash ==
  /\ at /= "down" /\ faults < MaxFaults
  /\ faults' = faults + 1 /\ at' = "down"
  /\ \/ UNCHANGED <<file, torn>>
     \/ at = "save" /\ file' = 0 /\ torn' = TRUE
  /\ IF at = "wait" /\ Last(workers).at /= "ended"
     THEN \/ UNCHANGED workers /\ disturbed' = TRUE
          \/ workers' = Ended(Len(workers)) /\ Stopped(Len(workers))
     ELSE UNCHANGED <<workers, disturbed>>
  /\ UNCHANGED <<telegram, offset, next, last, taken, store>>
-----------------------------------------------------------------------------
(* A worker process                                                        *)

ChatOf(w) == inbox[workers[w].update].chat
IsReset(w) == inbox[workers[w].update].kind = "reset"
LoadState == IF cut THEN NoSessions ELSE sessions

GetPreviousResponseId(w) ==
  /\ workers[w].at = "read"
  /\ workers' = [workers EXCEPT ![w].at = "ask", ![w].tip = LoadState[ChatOf(w)]]
  /\ UNCHANGED <<telegram, listener, store, disturbed, faults>>

(* One round with the provider: a final answer is saved; function calls    *)
(* are executed and answered in the next round, if there is one.           *)
FinalAnswer(w) ==
  workers' = [workers EXCEPT ![w].at = "load", ![w].round = 1,
                             ![w].tip = [worker |-> w, open |-> FALSE]]
\* Mutant: the id of a response is saved although its calls are not answered.
FunctionCalls_Saved(w) ==
  workers' = [workers EXCEPT ![w].at = "load", ![w].tip = [worker |-> w, open |-> TRUE]]
FunctionCalls(w) ==
  IF workers[w].round = MaxRounds THEN workers' = Ended(w)
  ELSE workers' = [workers EXCEPT ![w].round = @ + 1, ![w].tip = [worker |-> w, open |-> TRUE]]
RunRound(w) ==
  /\ workers[w].at = "ask"
  /\ FinalAnswer(w) \/ FunctionCalls(w)
  /\ UNCHANGED <<telegram, listener, store, disturbed, faults>>

(* The file is read once more, and a reset of an unknown chat ends here.   *)
ReadState(w) ==
  /\ workers[w].at = "load"
  /\ workers' = IF IsReset(w) /\ LoadState[ChatOf(w)] = None THEN Ended(w)
                ELSE [workers EXCEPT ![w].at = "truncate", ![w].copy = LoadState]
  /\ UNCHANGED <<telegram, listener, store, disturbed, faults>>
OpenForWriting(w) ==
  /\ workers[w].at = "truncate"
  /\ workers' = [workers EXCEPT ![w].at = "write"] /\ cut' = TRUE
  /\ UNCHANGED <<telegram, listener, sessions, thread, disturbed, faults>>
(* When another worker has written since the file was opened, the texts may *)
(* leave a mixture that does not parse and reads as an empty file.          *)
SaveState(w) ==
  LET entry == IF IsReset(w) THEN None ELSE workers[w].tip
  IN  /\ workers[w].at = "write"
      /\ sessions' = [workers[w].copy EXCEPT ![ChatOf(w)] = entry]
      /\ thread' = [thread EXCEPT ![ChatOf(w)] = entry]
      /\ cut' \in IF cut THEN {FALSE} ELSE BOOLEAN
      /\ workers' = Ended(w)
      /\ UNCHANGED <<telegram, listener, disturbed, faults>>

(* A request that fails, an empty answer, a write error or a kill.         *)
WorkerFails(w) ==
  /\ workers[w].at /= "ended"
  /\ workers' = Ended(w) /\ Stopped(w)
  /\ UNCHANGED <<telegram, listener, store, faults>>

Listener ==
  Start \/ Fetch \/ SaveOffset \/ HandleAgentCommand \/ Reply \/ WorkerTimesOut
WorkerStep(w) ==
  \/ GetPreviousResponseId(w) \/ RunRound(w)
  \/ ReadState(w) \/ OpenForWriting(w) \/ SaveState(w) \/ WorkerFails(w)
Next ==
  \/ \E command \in Command : Arrive(command)
  \/ Listener \/ Crash
  \/ \E w \in DOMAIN workers : WorkerStep(w)

(* The listener is a loop that its service manager keeps running; a worker *)
(* need not make progress.                                                 *)
Spec == Init /\ [][Next]_vars /\ WF_vars(Listener)
-----------------------------------------------------------------------------
(* Whatever workers overlap or die, a conversation that can be continued   *)
(* is one of the same chat in which no function call waits for its output: *)
(* the provider refuses to continue any other.                             *)
SavedContinues ==
  \A c \in Chat : sessions[c] /= None =>
    ~sessions[c].open /\ ChatOf(sessions[c].worker) = c

(* One conversation per chat until its reset: a command continues exactly  *)
(* where the previous command of its chat left off, after commands that    *)
(* timed out or failed and after resets of other chats, unless a worker    *)
(* outlived its listener or died while it wrote the file.                  *)
ContinuesThread ==
  [][\A w \in DOMAIN workers :
       workers[w].at = "read" /\ workers'[w].at = "ask" /\ ~disturbed =>
         workers'[w].tip = thread[ChatOf(w)]]_vars

(* A command is run at most once, although Telegram repeats updates after  *)
(* a death, unless that death left the offset file unreadable.             *)
RunAtMostOnce ==
  torn \/ \A v, w \in DOMAIN workers : workers[v].update = workers[w].update => v = w

(* No command blocks the ones behind it: every update is taken, although   *)
(* workers may hang.                                                       *)
EveryUpdateTaken == \A u \in Update : u <= Len(inbox) ~> u \in taken
=============================================================================
