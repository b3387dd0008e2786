---------------------------- MODULE AgentBotProofs ----------------------------
(***************************************************************************)
(* AgentBot for every set of chats, any number of updates, rounds and       *)
(* faults: a command runs once, a saved conversation can be continued, and  *)
(* a command continues where the previous one of its chat left off.         *)
(*                                                                         *)
(* The argument: the offset file is ahead of every worker; a saved response *)
(* is the last one of a worker of that chat, in the file as in every copy   *)
(* of it; and until something is disturbed one worker at a time, the one    *)
(* the listener waits for, goes from the read to the write.                 *)
(***************************************************************************)
EXTENDS AgentBot, TLAPS

Workers == DOMAIN workers
At(w, places) == workers[w].at \in places
Final(w) == [worker |-> w, open |-> FALSE]

\* TypeOK, one component at a time.
WorkerRow == [update : Update, at : WorkerAt, tip : Response \cup {None},
              round : 1 .. MaxRounds, copy : Sessions]
Numbers ==
  /\ confirmed \in 1 .. MaxUpdate + 1 /\ file \in 0 .. MaxUpdate + 1 /\ offset \in 0 .. MaxUpdate + 1
  /\ next \in 1 .. MaxUpdate + 1 /\ last \in 0 .. MaxUpdate /\ faults \in 0 .. MaxFaults
  /\ at \in {"down", "poll", "save", "handle", "wait"} /\ taken \subseteq Update
Flags == cut \in BOOLEAN /\ torn \in BOOLEAN /\ disturbed \in BOOLEAN
Inbox == inbox \in Seq(Command) /\ Len(inbox) <= MaxUpdate
WorkersTyped == workers \in Seq(WorkerRow)
Files == sessions \in Sessions /\ thread \in Sessions
Types == Numbers /\ Flags /\ Inbox /\ WorkersTyped /\ Files

\* Only updates that arrived are worked on.
ArrivedInv ==
  /\ \A w \in Workers : workers[w].update <= Len(inbox)
  /\ at \in {"save", "handle", "wait"} => next <= last /\ last <= Len(inbox)
  /\ at = "wait" => Len(workers) > 0

\* The offset file is ahead of every command that was started.
OffsetInv ==
  ~torn =>
    /\ at # "down" => offset = file
    /\ at = "save" => next >= file
    /\ at \in {"handle", "wait"} => file = next + 1
    /\ \A w \in Workers : workers[w].update < IF at = "handle" THEN next ELSE file
OnceInv == ~torn => \A v, w \in Workers : workers[v].update = workers[w].update => v = w

\* What a sessions file may hold.
Continues(s) ==
  \A c \in Chat : s[c] # None =>
    s[c].worker \in Workers /\ s[c].open = FALSE /\ ChatOf(s[c].worker) = c
SavedInv ==
  /\ Continues(sessions)
  /\ \A w \in Workers :
       /\ Continues(workers[w].copy)
       /\ At(w, {"load", "truncate", "write"}) /\ ~IsReset(w) => workers[w].tip = Final(w)

\* The worker the listener waits for is alone, from the read to the write.
AloneInv ==
  ~disturbed =>
    /\ \A w \in Workers : ~At(w, {"ended"}) => w = Len(workers) /\ at = "wait"
    /\ cut <=> \E w \in Workers : At(w, {"write"})
    /\ sessions = thread
    /\ \A w \in Workers : At(w, {"truncate", "write"}) => workers[w].copy = sessions

IInv == Types /\ ArrivedInv /\ OffsetInv /\ OnceInv /\ SavedInv /\ AloneInv

LEMMA Constants ==
  /\ MaxUpdate \in Nat \ {0} /\ MaxRounds \in Nat \ {0} /\ MaxFaults \in Nat
  /\ Update \subseteq Nat /\ \A u \in Nat : u \in Update <=> 1 <= u /\ u <= MaxUpdate
BY BoundsAssumption DEF BoundsAssumption, Update

LEMMA TypesCorrect == Types => TypeOK
BY DEF Types, Numbers, Flags, Inbox, WorkersTyped, Files, TypeOK, WorkerRow

LEMMA WorkerTyped ==
  ASSUME Types
  PROVE  /\ Workers = 1 .. Len(workers) /\ Len(workers) \in Nat
         /\ \A w \in Workers :
              /\ workers[w] \in WorkerRow /\ workers[w].update \in Update /\ workers[w].at \in WorkerAt
              /\ workers[w].tip \in Response \cup {None} /\ workers[w].round \in 1 .. MaxRounds
              /\ workers[w].copy \in Sessions
<1>1. Workers = 1 .. Len(workers) /\ Len(workers) \in Nat
  BY DEF Types, WorkersTyped, Workers
<1>2. \A w \in Workers : workers[w] \in WorkerRow
  BY <1>1 DEF Types, WorkersTyped
<1> QED
  BY <1>1, <1>2 DEF WorkerRow

LEMMA Empty == NoSessions \in Sessions /\ Continues(NoSessions)
BY DEF NoSessions, Sessions, Continues

\* A step of one worker replaces its row; whose command it runs never changes.
Replaced(w, row) ==
  /\ row \in WorkerRow /\ row.update = workers[w].update
  /\ workers' = [workers EXCEPT ![w] = row]
LEMMA OneWorker ==
  ASSUME Types, NEW w \in Workers, NEW row, Replaced(w, row)
  PROVE  /\ WorkersTyped' /\ Len(workers') = Len(workers) /\ Workers' = Workers
         /\ workers'[w] = row
         /\ \A v \in Workers : v # w => workers'[v] = workers[v]
         /\ \A v \in Workers : workers'[v].update = workers[v].update
BY WorkerTyped DEF Replaced, Types, WorkersTyped, Workers

\* The command of every worker is in the inbox.
LEMMA StillArrived ==
  ASSUME Types, ArrivedInv
  PROVE  \A v \in Workers : workers[v].update \in 1 .. Len(inbox)
<1>1. Len(inbox) \in Nat
  BY DEF Types, Inbox
<1>2. ASSUME NEW v \in Workers PROVE workers[v].update \in 1 .. Len(inbox)
  <2>1. workers[v].update \in Update
    BY WorkerTyped
  <2>2. workers[v].update \in Nat /\ 1 <= workers[v].update
    BY <2>1, Constants
  <2>3. workers[v].update <= Len(inbox)
    BY DEF ArrivedInv
  <2> QED
    BY <1>1, <2>2, <2>3
<1> QED
  BY <1>2

\* A conversation that can be continued stays so while workers keep their commands.
LEMMA StillContinues ==
  ASSUME Types, ArrivedInv, Workers \subseteq Workers',
         \A v \in Workers : workers'[v].update = workers[v].update,
         \A u \in 1 .. Len(inbox) : inbox'[u] = inbox[u]
  PROVE  /\ \A v \in Workers : ChatOf(v)' = ChatOf(v) /\ IsReset(v)' = IsReset(v)
         /\ \A s \in Sessions : Continues(s) => Continues(s)'
<1>1. \A v \in Workers : workers[v].update \in 1 .. Len(inbox)
  BY StillArrived
<1>2. \A v \in Workers : inbox'[workers'[v].update] = inbox[workers[v].update]
  BY <1>1
<1>3. \A v \in Workers : ChatOf(v)' = ChatOf(v)
  BY <1>2 DEF ChatOf
<1>4. \A v \in Workers : IsReset(v)' = IsReset(v)
  BY <1>2 DEF IsReset
<1>5. \A s \in Sessions : Continues(s) => Continues(s)'
  BY <1>3 DEF Continues
<1> QED
  BY <1>3, <1>4, <1>5

\* What a worker loses when it ends.
EndedRow(w) ==
  [update |-> workers[w].update, at |-> "ended", tip |-> None, round |-> 1, copy |-> NoSessions]
LEMMA EndReplaces ==
  ASSUME Types, NEW w \in Workers
  PROVE  workers' = Ended(w) => Replaced(w, EndedRow(w))
BY WorkerTyped, Empty, Constants DEF Replaced, EndedRow, Ended, WorkerRow, WorkerAt, Workers

LEMMA InitInv == Init => IInv
<1> SUFFICES ASSUME Init PROVE IInv
  OBVIOUS
<1> USE Constants DEF Init
<1>1. Workers = {} /\ Len(inbox) = 0
  BY DEF Workers
<1>2. Numbers /\ Flags /\ Inbox /\ WorkersTyped /\ Files
  <2>1. Numbers
    BY DEF Numbers
  <2>2. Flags
    BY Zenon DEF Flags
  <2>3. Inbox /\ WorkersTyped
    BY <1>1 DEF Inbox, WorkersTyped
  <2>4. Files
    BY Empty DEF Files
  <2> QED
    BY <2>1, <2>2, <2>3, <2>4
<1>3. ArrivedInv /\ OffsetInv /\ OnceInv /\ AloneInv
  BY <1>1 DEF ArrivedInv, OffsetInv, OnceInv, AloneInv
<1>4. SavedInv
  BY <1>1, Empty DEF SavedInv
<1> QED
  BY <1>2, <1>3, <1>4 DEF IInv, Types

-----------------------------------------------------------------------------
(* What the steps of listener and workers keep of saved conversations.      *)

LEMMA SavedKept ==
  ASSUME Types, ArrivedInv, SavedInv, UNCHANGED <<workers, sessions>>,
         \A u \in 1 .. Len(inbox) : inbox'[u] = inbox[u]
  PROVE  SavedInv'
<1>1. Workers' = Workers /\ \A v \in Workers : workers'[v] = workers[v]
  BY DEF Workers
<1>2. /\ \A v \in Workers : IsReset(v)' = IsReset(v)
      /\ \A s \in Sessions : Continues(s) => Continues(s)'
  BY <1>1, StillContinues
<1>3. sessions \in Sessions /\ \A w \in Workers : workers[w].copy \in Sessions
  BY WorkerTyped DEF Types, Files
<1>4. Continues(sessions)'
  BY <1>2, <1>3 DEF SavedInv
<1>5. \A w \in Workers : Continues(workers[w].copy)'
  BY <1>2, <1>3 DEF SavedInv
<1> QED
  BY <1>1, <1>2, <1>4, <1>5 DEF SavedInv, At, Final

LEMMA SavedStep ==
  ASSUME Types, ArrivedInv, SavedInv, NEW w \in Workers, NEW row, Replaced(w, row), UNCHANGED inbox,
         sessions' \in Sessions, Continues(sessions'), Continues(row.copy),
         row.at \in {"load", "truncate", "write"} /\ ~IsReset(w) => row.tip = Final(w)
  PROVE  SavedInv'
<1>1. /\ Workers' = Workers /\ workers'[w] = row
      /\ \A v \in Workers : v # w => workers'[v] = workers[v]
      /\ \A v \in Workers : workers'[v].update = workers[v].update
  BY OneWorker
<1>2. /\ \A v \in Workers : IsReset(v)' = IsReset(v)
      /\ \A s \in Sessions : Continues(s) => Continues(s)'
  BY <1>1, StillContinues
<1>3. row.copy \in Sessions /\ \A v \in Workers : workers[v].copy \in Sessions
  BY WorkerTyped DEF Replaced, WorkerRow
<1>4. Continues(sessions)'
  BY <1>2
<1>5. \A v \in Workers : Continues(workers[v].copy)'
  <2>1. \A v \in Workers : Continues(workers'[v].copy)
    BY <1>1 DEF SavedInv
  <2>2. \A v \in Workers : workers'[v].copy \in Sessions
    BY <1>1, <1>3
  <2> QED
    BY <2>1, <2>2, <1>2
<1>6. \A v \in Workers : At(v, {"load", "truncate", "write"})' /\ ~IsReset(v)' => workers'[v].tip = Final(v)
  BY <1>1, <1>2 DEF SavedInv, At
<1> QED
  BY <1>1, <1>4, <1>5, <1>6 DEF SavedInv, Final

LEMMA OffsetKept ==
  ASSUME Types, UNCHANGED <<file, offset, at, next, torn>>, Workers' = Workers,
         \A v \in Workers : workers'[v].update = workers[v].update
  PROVE  (OffsetInv => OffsetInv') /\ (OnceInv => OnceInv')
BY DEF OffsetInv, OnceInv

\* The one worker ends, or its step failed: nobody is left in a write, or it was noted.
LEMMA AloneEnds ==
  ASSUME Types, AloneInv, NEW w \in Workers, workers' = Ended(w), Stopped(w), UNCHANGED <<sessions, thread, cut>>,
         at' = at \/ w = Len(workers)
  PROVE  AloneInv'
<1>1. Replaced(w, EndedRow(w))
  BY EndReplaces
<1>2. /\ Len(workers') = Len(workers) /\ Workers' = Workers /\ workers'[w] = EndedRow(w)
      /\ \A v \in Workers : v # w => workers'[v] = workers[v]
  BY <1>1, OneWorker
<1> SUFFICES ASSUME ~disturbed'
             PROVE  /\ \A v \in Workers : ~At(v, {"ended"})' => v = Len(workers) /\ at' = "wait"
                    /\ cut <=> \E v \in Workers : At(v, {"write"})'
                    /\ sessions = thread
                    /\ \A v \in Workers : At(v, {"truncate", "write"})' => workers'[v].copy = sessions
  BY <1>2 DEF AloneInv
<1>3. ~disturbed /\ ~At(w, {"write"})
  BY DEF Stopped, At
<1>4. \A v \in Workers : ~At(v, {"ended"})' => v # w /\ ~At(v, {"ended"})
  BY <1>2 DEF At, EndedRow
<1>5. \A v \in Workers : ~At(v, {"ended"})' => v = Len(workers) /\ at' = "wait"
  BY <1>3, <1>4 DEF AloneInv
<1>6. cut <=> \E v \in Workers : At(v, {"write"})'
  <2>1. \A v \in Workers : At(v, {"write"}) <=> At(v, {"write"})'
    BY <1>2, <1>3 DEF At, EndedRow
  <2>2. cut <=> \E v \in Workers : At(v, {"write"})
    BY <1>3 DEF AloneInv
  <2> QED
    BY <1>2, <2>1, <2>2
<1>7. \A v \in Workers : At(v, {"truncate", "write"})' => workers'[v].copy = sessions
  BY <1>2, <1>3 DEF AloneInv, At, EndedRow
<1> QED
  BY <1>3, <1>5, <1>6, <1>7 DEF AloneInv

-----------------------------------------------------------------------------
(* The listener                                                            *)

LEMMA ArriveStep == ASSUME IInv, NEW command \in Command, Arrive(command) PROVE IInv'
<1> USE Constants DEF IInv, Types, telegram, listener, store
<1>1. /\ inbox' \in Seq(Command) /\ Len(inbox') = Len(inbox) + 1 /\ Len(inbox) \in Nat
      /\ \A u \in 1 .. Len(inbox) : inbox'[u] = inbox[u]
  BY DEF Arrive, Inbox
<1>2. UNCHANGED <<workers, Workers>>
  BY DEF Arrive, Workers
<1>3. Numbers' /\ Inbox' /\ WorkersTyped' /\ Files'
  BY <1>1 DEF Arrive, Numbers, Inbox, WorkersTyped, Files
<1>4. Flags'
  BY Zenon DEF Arrive, Flags
<1>5. ArrivedInv'
  <2>1. \A w \in Workers : workers[w].update \in Nat
    BY WorkerTyped
  <2> QED
    BY <1>1, <1>2, <2>1 DEF Arrive, ArrivedInv, Numbers
<1>6. OffsetInv' /\ OnceInv'
  BY <1>2, OffsetKept DEF Arrive
<1>7. SavedInv'
  BY <1>1, SavedKept DEF Arrive
<1>8. AloneInv'
  BY <1>2 DEF Arrive, AloneInv, At
<1> QED
  BY <1>3, <1>4, <1>5, <1>6, <1>7, <1>8

\* Steps of the listener that start and end no worker.
ListenerOnly == Start \/ Fetch \/ SaveOffset \/ Reply
LEMMA ListenerOnlyStep == ASSUME IInv, ListenerOnly PROVE IInv'
<1> USE Constants DEF IInv, Types, ListenerOnly, telegram, listener, store
<1>1. UNCHANGED <<inbox, workers, Workers, store, disturbed>> /\ Len(inbox) \in Nat
  BY DEF Start, Fetch, SaveOffset, Reply, ToNextUpdate, Workers, Inbox
<1>2. Numbers'
  <2>1. CASE Start
    BY <2>1 DEF Start, Numbers
  <2>2. CASE Fetch
    BY <2>2, <1>1 DEF Fetch, Numbers, Inbox
  <2>3. CASE SaveOffset
    <3>1. next \in Update /\ next + 1 \in 1 .. MaxUpdate + 1
      BY <2>3, <1>1 DEF SaveOffset, Numbers, ArrivedInv, Inbox
    <3> QED
      BY <2>3, <3>1 DEF SaveOffset, Numbers
  <2>4. CASE Reply
    <3>1. next' \in 1 .. MaxUpdate + 1 /\ at' \in {"save", "poll"}
      BY <2>4, <1>1 DEF Reply, ToNextUpdate, Numbers, ArrivedInv, Inbox
    <3> QED
      BY <2>4, <3>1 DEF Reply, ToNextUpdate, Numbers
  <2> QED
    BY <2>1, <2>2, <2>3, <2>4
<1>3. Flags'
  <2>1. CASE Start
    BY <2>1, Zenon DEF Start, Flags
  <2>2. CASE Fetch
    BY <2>2, Zenon DEF Fetch, Flags
  <2>3. CASE SaveOffset
    BY <2>3, Zenon DEF SaveOffset, Flags
  <2>4. CASE Reply
    BY <2>4, Zenon DEF Reply, ToNextUpdate, Flags
  <2> QED
    BY <2>1, <2>2, <2>3, <2>4
<1>4. Inbox' /\ WorkersTyped' /\ Files'
  BY <1>1 DEF Inbox, WorkersTyped, Files
<1>5. ArrivedInv'
  BY <1>1 DEF Start, Fetch, SaveOffset, Reply, ToNextUpdate, ArrivedInv, Numbers
<1>6. OffsetInv'
  <2>1. \A w \in Workers : workers[w].update \in Nat
    BY WorkerTyped
  <2>2. CASE Start
    BY <1>1, <2>2 DEF Start, OffsetInv
  <2>3. CASE Fetch
    BY <1>1, <2>3 DEF Fetch, OffsetInv, Numbers
  <2>4. CASE SaveOffset
    BY <1>1, <2>1, <2>4 DEF SaveOffset, OffsetInv, Numbers
  <2>5. CASE Reply
    BY <1>1, <2>5 DEF Reply, ToNextUpdate, OffsetInv, Numbers
  <2> QED
    BY <2>2, <2>3, <2>4, <2>5
<1>7. OnceInv'
  BY <1>1 DEF OnceInv, Start, Fetch, SaveOffset, Reply, ToNextUpdate
<1>8. SavedInv'
  BY <1>1, SavedKept
<1>9. AloneInv'
  <2>1. at = "wait" /\ at' # "wait" => At(Len(workers), {"ended"})
    BY DEF Start, Fetch, SaveOffset, Reply, Last, At
  <2> QED
    BY <1>1, <2>1 DEF AloneInv, At
<1> QED
  BY <1>2, <1>3, <1>4, <1>5, <1>6, <1>7, <1>8, <1>9

\* A started command brings a new update, and nobody else is at work.
LEMMA HandleStep == ASSUME IInv, HandleAgentCommand PROVE IInv'
<1> USE Constants DEF IInv, Types, telegram, listener, store
<1> DEFINE row == Worker(next)
<1>a. PICK n \in Nat : n = Len(workers) + 1
  BY WorkerTyped
<1>1. n \in Nat /\ Workers = 1 .. (n - 1) /\ Len(workers) = n - 1
  BY <1>a, WorkerTyped
<1>2. next \in Update /\ next <= Len(inbox) /\ Len(inbox) \in Nat
  BY DEF HandleAgentCommand, ArrivedInv, Numbers, Inbox
<1>3. /\ row \in WorkerRow /\ row.update = next /\ row.copy = NoSessions
      /\ row.at \in {"read", "load"} /\ (row.at = "load" => inbox[next].kind # "agent")
  BY <1>2, Empty DEF Worker, WorkerRow, WorkerAt
<1> HIDE DEF row
<1>4. workers' = Append(workers, row) /\ workers \in Seq(WorkerRow)
  BY DEF HandleAgentCommand, row, WorkersTyped
<1>5. /\ WorkersTyped' /\ Len(workers') = n /\ Workers' = 1 .. n /\ n \in Workers' /\ Workers \subseteq Workers'
      /\ workers'[n] = row /\ \A v \in Workers : workers'[v] = workers[v]
      /\ \A v \in Workers' : v \in Workers \/ v = n
  <2>1. WorkersTyped' /\ Len(workers') = n
    BY <1>1, <1>3, <1>4 DEF WorkersTyped
  <2>2. Workers' = 1 .. n
    BY <2>1 DEF WorkersTyped, Workers
  <2> QED
    BY <1>1, <1>3, <1>4, <2>1, <2>2
<1>6. Numbers' /\ Inbox' /\ Files'
  BY DEF HandleAgentCommand, Numbers, Inbox, Files
<1>7. Flags'
  BY Zenon DEF HandleAgentCommand, Flags
<1>8. ArrivedInv'
  BY <1>1, <1>2, <1>3, <1>5 DEF HandleAgentCommand, ArrivedInv
<1>9. OffsetInv' /\ OnceInv'
  <2>1. \A w \in Workers : workers[w].update \in Nat
    BY WorkerTyped
  <2>2. ~torn => /\ file = next + 1 /\ offset = file
                 /\ \A w \in Workers : workers[w].update < next
    BY DEF HandleAgentCommand, OffsetInv
  <2>3. OffsetInv'
    BY <1>3, <1>5, <2>1, <2>2 DEF HandleAgentCommand, OffsetInv, Numbers
  <2>4. OnceInv'
    BY <1>3, <1>5, <2>1, <2>2 DEF HandleAgentCommand, OnceInv, Numbers
  <2> QED
    BY <2>3, <2>4
<1>10. SavedInv'
  <2>1. \A u \in 1 .. Len(inbox) : inbox'[u] = inbox[u]
    BY DEF HandleAgentCommand
  <2>2. /\ \A v \in Workers : IsReset(v)' = IsReset(v)
        /\ \A s \in Sessions : Continues(s) => Continues(s)'
    BY <1>5, <2>1, StillContinues
  <2>3. sessions \in Sessions /\ NoSessions \in Sessions /\ \A w \in Workers : workers[w].copy \in Sessions
    BY WorkerTyped, Empty DEF Files
  <2>4. Continues(sessions)'
    BY <2>2, <2>3 DEF SavedInv, HandleAgentCommand
  <2>5. \A w \in Workers' : Continues(workers[w].copy)'
    <3>1. \A w \in Workers : Continues(workers[w].copy)'
      BY <1>5, <2>2, <2>3 DEF SavedInv
    <3> QED
      BY <1>3, <1>5, <2>2, <2>3, <3>1, Empty
  <2>6. row.at = "load" => IsReset(n)'
    <3>1. inbox[next] \in Command
      BY <1>2 DEF Inbox
    <3> QED
      BY <1>3, <1>5, <3>1 DEF HandleAgentCommand, IsReset, Command
  <2>7. \A w \in Workers' : At(w, {"load", "truncate", "write"})' /\ ~IsReset(w)' => workers'[w].tip = Final(w)
    BY <1>3, <1>5, <2>2, <2>6 DEF SavedInv, At
  <2> QED
    BY <2>4, <2>5, <2>7 DEF SavedInv, Final
<1>11. AloneInv'
  BY <1>3, <1>5 DEF HandleAgentCommand, AloneInv, At
<1> QED
  BY <1>5, <1>6, <1>7, <1>8, <1>9, <1>10, <1>11

-----------------------------------------------------------------------------
(* Workers                                                                 *)

\* How the listener goes on after a worker, in the terms of the offset.
LEMMA Onward ==
  ASSUME IInv, at = "wait", ToNextUpdate, inbox' = inbox, Workers' = Workers, Len(workers') = Len(workers),
         UNCHANGED <<confirmed, faults>>, \A v \in Workers : workers'[v].update = workers[v].update
  PROVE  Numbers' /\ ArrivedInv' /\ OffsetInv' /\ OnceInv'
<1> USE Constants DEF IInv, Types
<1>1. next \in 1 .. MaxUpdate /\ (at' = "save" => next' = next + 1 /\ next < last)
      /\ (at' = "poll" => next' = next) /\ at' \in {"save", "poll"} /\ Len(inbox) \in Nat
      /\ UNCHANGED <<file, offset, last, taken, torn>>
  BY DEF ToNextUpdate, ArrivedInv, Numbers, Inbox
<1>2. Numbers'
  BY <1>1 DEF Numbers
<1>3. ArrivedInv'
  BY <1>1 DEF ArrivedInv, Numbers
<1>4. \A v \in Workers : workers[v].update \in Nat
  BY WorkerTyped
<1>5. OffsetInv' /\ OnceInv'
  BY <1>1, <1>4 DEF OffsetInv, OnceInv, Numbers
<1> QED
  BY <1>2, <1>3, <1>5

LEMMA EndedSaves ==
  ASSUME IInv, NEW w \in Workers, workers' = Ended(w), UNCHANGED <<inbox, sessions>>
  PROVE  SavedInv'
<1>1. Replaced(w, EndedRow(w))
  BY EndReplaces DEF IInv
<1> QED
  BY <1>1, SavedStep, Empty DEF IInv, Types, Files, SavedInv, EndedRow

LEMMA TimeoutStep == ASSUME IInv, WorkerTimesOut PROVE IInv'
<1> USE Constants DEF IInv, Types, telegram, store
<1>1. PICK w \in Workers : w = Len(workers)
  BY WorkerTyped DEF WorkerTimesOut, ArrivedInv
<1>2. workers' = Ended(w) /\ Stopped(w) /\ ToNextUpdate /\ at = "wait"
      /\ UNCHANGED <<inbox, confirmed, sessions, cut, thread, faults>>
  BY <1>1 DEF WorkerTimesOut
<1>3. Replaced(w, EndedRow(w))
  BY <1>2, EndReplaces
<1>4. /\ WorkersTyped' /\ Len(workers') = Len(workers) /\ Workers' = Workers
      /\ \A v \in Workers : workers'[v].update = workers[v].update
  BY <1>3, OneWorker
<1>5. Inbox' /\ Files'
  BY <1>2 DEF Inbox, Files
<1>6. Flags'
  BY <1>2, Zenon DEF ToNextUpdate, Stopped, Flags
<1>7. Numbers' /\ ArrivedInv' /\ OffsetInv' /\ OnceInv'
  BY <1>2, <1>4, Onward
<1>8. SavedInv'
  BY <1>2, EndedSaves
<1>9. AloneInv'
  BY <1>1, <1>2, AloneEnds
<1> QED
  BY <1>4, <1>5, <1>6, <1>7, <1>8, <1>9

LEMMA CrashStep == ASSUME IInv, Crash PROVE IInv'
<1> USE Constants DEF IInv, Types, telegram, store
<1>1. /\ at' = "down" /\ UNCHANGED <<inbox, confirmed, offset, next, last, taken, sessions, cut, thread>>
      /\ (UNCHANGED <<file, torn>> \/ (file' = 0 /\ torn' = TRUE))
  BY DEF Crash
<1>2. Numbers' /\ Inbox' /\ Files'
  <2>1. file' \in 0 .. MaxUpdate + 1 /\ faults' \in 0 .. MaxFaults
    BY <1>1 DEF Crash, Numbers
  <2> QED
    BY <1>1, <2>1 DEF Numbers, Inbox, Files
<1>3. Flags'
  BY Zenon DEF Crash, Stopped, Flags
<1>4. CASE /\ UNCHANGED workers
           /\ \/ disturbed' = TRUE
              \/ UNCHANGED disturbed /\ (at = "wait" => At(Len(workers), {"ended"}))
  <2>1. Workers' = Workers
    BY <1>4 DEF Workers
  <2>2. WorkersTyped' /\ ArrivedInv'
    BY <1>1, <1>4, <2>1 DEF WorkersTyped, ArrivedInv
  <2>3. OffsetInv' /\ OnceInv'
    <3>1. \A v \in Workers : workers[v].update \in Nat
      BY WorkerTyped
    <3> QED
      BY <1>1, <1>4, <2>1, <3>1 DEF OffsetInv, OnceInv, Numbers
  <2>4. SavedInv'
    BY <1>1, <1>4, SavedKept
  <2>5. AloneInv'
    BY <1>1, <1>4, <2>1 DEF AloneInv, At
  <2> QED
    BY <1>2, <1>3, <2>2, <2>3, <2>4, <2>5
<1>5. CASE at = "wait" /\ workers' = Ended(Len(workers)) /\ Stopped(Len(workers))
  <2>1. PICK w \in Workers : w = Len(workers)
    BY <1>5, WorkerTyped DEF ArrivedInv
  <2>2. Replaced(w, EndedRow(w))
    BY <1>5, <2>1, EndReplaces
  <2>3. /\ WorkersTyped' /\ Len(workers') = Len(workers) /\ Workers' = Workers
        /\ \A v \in Workers : workers'[v].update = workers[v].update
    BY <2>2, OneWorker
  <2>4. ArrivedInv'
    BY <1>1, <2>3 DEF ArrivedInv
  <2>5. OffsetInv' /\ OnceInv'
    <3>1. \A v \in Workers : workers[v].update \in Nat
      BY WorkerTyped
    <3> QED
      BY <1>1, <1>5, <2>3, <3>1 DEF OffsetInv, OnceInv, Numbers
  <2>6. SavedInv'
    BY <1>1, <1>5, <2>1, EndedSaves
  <2>7. AloneInv'
    BY <1>1, <1>5, <2>1, AloneEnds
  <2> QED
    BY <1>2, <1>3, <2>3, <2>4, <2>5, <2>6, <2>7
<1> QED
  BY <1>4, <1>5 DEF Crash, Last, At

LEMMA FailStep == ASSUME IInv, NEW w \in Workers, WorkerFails(w) PROVE IInv'
<1> USE Constants DEF IInv, Types, telegram, listener, store
<1>1. workers' = Ended(w) /\ Stopped(w) /\ UNCHANGED <<telegram, listener, store, faults>>
  BY DEF WorkerFails
<1>2. Replaced(w, EndedRow(w))
  BY <1>1, EndReplaces
<1>3. /\ WorkersTyped' /\ Len(workers') = Len(workers) /\ Workers' = Workers
      /\ \A v \in Workers : workers'[v].update = workers[v].update
  BY <1>2, OneWorker
<1>4. Numbers' /\ Inbox' /\ Files' /\ ArrivedInv'
  BY <1>1, <1>3 DEF Numbers, Inbox, Files, ArrivedInv
<1>5. Flags'
  BY <1>1, Zenon DEF Stopped, Flags
<1>6. OffsetInv' /\ OnceInv'
  BY <1>1, <1>3, OffsetKept
<1>7. SavedInv'
  BY <1>1, EndedSaves
<1>8. AloneInv'
  BY <1>1, AloneEnds
<1> QED
  BY <1>3, <1>4, <1>5, <1>6, <1>7, <1>8

\* A step of a live worker that leaves the listener and Telegram alone.
LEMMA WorkerStepKeeps ==
  ASSUME IInv, NEW w \in Workers, NEW row, Replaced(w, row),
         UNCHANGED <<telegram, listener, faults>>, Files', Flags', SavedInv', AloneInv'
  PROVE  IInv'
<1> USE DEF IInv, Types, telegram, listener
<1>1. /\ WorkersTyped' /\ Len(workers') = Len(workers) /\ Workers' = Workers
      /\ \A v \in Workers : workers'[v].update = workers[v].update
  BY OneWorker
<1>2. Numbers' /\ Inbox' /\ ArrivedInv'
  BY <1>1 DEF Numbers, Inbox, ArrivedInv
<1>3. OffsetInv' /\ OnceInv'
  BY <1>1, OffsetKept
<1> QED
  BY <1>1, <1>2, <1>3

\* The only live worker moves on.
LEMMA AloneStep ==
  ASSUME Types, AloneInv, NEW w \in Workers, NEW row, Replaced(w, row), UNCHANGED <<at, disturbed>>,
         ~At(w, {"ended"}),
         ~disturbed => /\ cut' <=> row.at = "write"
                       /\ sessions' = thread'
                       /\ row.at \in {"truncate", "write"} => row.copy = sessions'
  PROVE  AloneInv'
<1>1. /\ Len(workers') = Len(workers) /\ Workers' = Workers /\ workers'[w] = row
      /\ \A v \in Workers : v # w => workers'[v] = workers[v]
  BY OneWorker
<1> SUFFICES ASSUME ~disturbed
             PROVE  /\ \A v \in Workers : ~At(v, {"ended"})' => v = Len(workers) /\ at = "wait"
                    /\ cut' <=> \E v \in Workers : At(v, {"write"})'
                    /\ sessions' = thread'
                    /\ \A v \in Workers : At(v, {"truncate", "write"})' => workers'[v].copy = sessions'
  BY <1>1 DEF AloneInv
<1>2. w = Len(workers) /\ at = "wait" /\ \A v \in Workers : v # w => At(v, {"ended"})
  BY DEF AloneInv
<1>3. \A v \in Workers : v # w => At(v, {"ended"})'
  BY <1>1, <1>2 DEF At
<1> QED
  BY <1>1, <1>2, <1>3 DEF At

\* While nothing is disturbed the file is cut only in the write of the live worker.
LEMMA NotCut ==
  ASSUME AloneInv, ~disturbed, NEW w \in Workers, ~At(w, {"ended", "write"})
  PROVE  ~cut
BY DEF AloneInv, At

LEMMA Reads ==
  ASSUME IInv, NEW w \in Workers
  PROVE  /\ LoadState \in Sessions /\ Continues(LoadState) /\ ChatOf(w) \in Chat
         /\ LoadState[ChatOf(w)] \in Response \cup {None}
<1> USE DEF IInv, Types
<1>1. LoadState \in Sessions /\ Continues(LoadState)
  BY Empty DEF LoadState, Files, SavedInv
<1>2. ChatOf(w) \in Chat
  <2>1. workers[w].update \in 1 .. Len(inbox)
    BY StillArrived DEF Inbox
  <2>2. inbox[workers[w].update] \in Command
    BY <2>1 DEF Inbox
  <2> QED
    BY <2>2 DEF ChatOf, Command
<1> QED
  BY <1>1, <1>2 DEF Sessions

LEMMA GetStep == ASSUME IInv, NEW w \in Workers, GetPreviousResponseId(w) PROVE IInv'
<1> USE DEF IInv, Types, store
<1> DEFINE row == [workers[w] EXCEPT !.at = "ask", !.tip = LoadState[ChatOf(w)]]
<1>1. Replaced(w, row) /\ row.at = "ask" /\ row.copy = workers[w].copy
  BY WorkerTyped, Reads DEF GetPreviousResponseId, Replaced, WorkerRow, WorkerAt
<1>2. UNCHANGED <<telegram, listener, store, disturbed, faults>> /\ At(w, {"read"})
  BY DEF GetPreviousResponseId, At
<1> HIDE DEF row
<1>3. Files'
  BY <1>2 DEF Files
<1>4. Flags'
  BY <1>2, Zenon DEF Flags, listener
<1>5. SavedInv'
  BY <1>1, <1>2, SavedStep DEF SavedInv, Files, telegram
<1>6. AloneInv'
  BY <1>1, <1>2, AloneStep, NotCut DEF AloneInv, At, listener
<1> QED
  BY <1>1, <1>2, <1>3, <1>4, <1>5, <1>6, WorkerStepKeeps

LEMMA RoundStep == ASSUME IInv, NEW w \in Workers, RunRound(w) PROVE IInv'
<1> USE Constants DEF IInv, Types, store
<1>1. PICK row : /\ Replaced(w, row) /\ (row.copy = workers[w].copy \/ row.copy = NoSessions)
                 /\ row.at \in {"ask", "load", "ended"} /\ (row.at = "load" => row.tip = Final(w))
  <2>1. workers[w].round \in 1 .. MaxRounds /\ w \in Nat
    BY WorkerTyped
  <2>2. [worker |-> w, open |-> FALSE] \in Response /\ [worker |-> w, open |-> TRUE] \in Response
    BY <2>1 DEF Response
  <2>3. CASE FinalAnswer(w)
    <3> DEFINE row == [workers[w] EXCEPT !.at = "load", !.round = 1, !.tip = [worker |-> w, open |-> FALSE]]
    <3>1. row \in WorkerRow /\ row.update = workers[w].update /\ row.copy = workers[w].copy
          /\ row.at = "load" /\ row.tip = Final(w)
      <4>1. workers[w] \in WorkerRow /\ "load" \in WorkerAt /\ 1 \in 1 .. MaxRounds
        BY WorkerTyped DEF WorkerAt
      <4>2. row \in WorkerRow
        BY <2>2, <4>1 DEF WorkerRow
      <4>3. /\ row.update = workers[w].update /\ row.copy = workers[w].copy /\ row.at = "load"
            /\ row.tip = [worker |-> w, open |-> FALSE]
        BY <4>1 DEF WorkerRow
      <4> QED
        BY <4>2, <4>3 DEF Final
    <3>2. workers' = [workers EXCEPT ![w] = row]
      BY <2>3, WorkerTyped DEF FinalAnswer, WorkerRow
    <3> HIDE DEF row
    <3> QED
      BY <3>1, <3>2 DEF Replaced
  <2>4. CASE workers[w].round = MaxRounds /\ workers' = Ended(w)
    <3>1. Replaced(w, EndedRow(w))
      BY <2>4, EndReplaces
    <3>2. EndedRow(w).copy = NoSessions /\ EndedRow(w).at = "ended"
      BY DEF EndedRow
    <3> QED
      BY <3>1, <3>2
  <2>5. CASE workers[w].round # MaxRounds /\ FunctionCalls(w)
    <3> DEFINE row == [workers[w] EXCEPT !.round = @ + 1, !.tip = [worker |-> w, open |-> TRUE]]
    <3>1. row \in WorkerRow /\ row.update = workers[w].update /\ row.copy = workers[w].copy
          /\ row.at = workers[w].at
      <4>1. workers[w] \in WorkerRow
        BY WorkerTyped
      <4>2. workers[w].round + 1 \in 1 .. MaxRounds
        BY <2>1, <2>5
      <4>3. row \in WorkerRow
        BY <2>2, <4>1, <4>2 DEF WorkerRow
      <4>4. row.update = workers[w].update /\ row.copy = workers[w].copy /\ row.at = workers[w].at
        BY <4>1 DEF WorkerRow
      <4> QED
        BY <4>3, <4>4
    <3>2. workers' = [workers EXCEPT ![w] = row]
      BY <2>5, WorkerTyped DEF FunctionCalls, WorkerRow
    <3> HIDE DEF row
    <3> QED
      BY <3>1, <3>2 DEF Replaced, RunRound
  <2> QED
    BY <2>3, <2>4, <2>5 DEF RunRound, FunctionCalls
<1>2. UNCHANGED <<telegram, listener, store, disturbed, faults>> /\ At(w, {"ask"})
  BY DEF RunRound, At
<1>3. Files'
  BY <1>2 DEF Files
<1>4. Flags'
  BY <1>2, Zenon DEF Flags, listener
<1>5. SavedInv'
  BY <1>1, <1>2, SavedStep, Empty DEF SavedInv, Files, telegram
<1>6. AloneInv'
  BY <1>1, <1>2, AloneStep, NotCut DEF AloneInv, At, listener
<1> QED
  BY <1>1, <1>2, <1>3, <1>4, <1>5, <1>6, WorkerStepKeeps

LEMMA ReadStep == ASSUME IInv, NEW w \in Workers, ReadState(w) PROVE IInv'
<1> USE DEF IInv, Types, store
<1>1. UNCHANGED <<telegram, listener, store, disturbed, faults>> /\ At(w, {"load"})
  BY DEF ReadState, At
<1>2. Files'
  BY <1>1 DEF Files
<1>3. Flags'
  BY <1>1, Zenon DEF Flags, listener
<1>4. CASE workers' = Ended(w)
  <2>1. Replaced(w, EndedRow(w)) /\ EndedRow(w).copy = NoSessions /\ EndedRow(w).at = "ended"
    BY <1>4, EndReplaces DEF EndedRow
  <2>2. SavedInv'
    BY <1>1, <1>4, EndedSaves DEF telegram
  <2>3. AloneInv'
    BY <1>1, <2>1, AloneStep, NotCut DEF AloneInv, At, listener
  <2> QED
    BY <1>1, <1>2, <1>3, <2>1, <2>2, <2>3, WorkerStepKeeps
<1>5. CASE workers' = [workers EXCEPT ![w].at = "truncate", ![w].copy = LoadState]
  <2> DEFINE row == [workers[w] EXCEPT !.at = "truncate", !.copy = LoadState]
  <2>1. workers[w] \in WorkerRow /\ LoadState \in Sessions /\ Continues(LoadState) /\ "truncate" \in WorkerAt
    BY WorkerTyped, Reads DEF WorkerAt
  <2>2. row \in WorkerRow
    BY <2>1 DEF WorkerRow
  <2>3. row.update = workers[w].update /\ row.copy = LoadState /\ row.at = "truncate" /\ row.tip = workers[w].tip
    BY <2>1 DEF WorkerRow
  <2>4. workers' = [workers EXCEPT ![w] = row]
    BY <1>5, <2>1 DEF WorkerRow
  <2> HIDE DEF row
  <2>5. Replaced(w, row)
    BY <2>2, <2>3, <2>4 DEF Replaced
  <2>6. SavedInv'
    BY <1>1, <2>1, <2>3, <2>5, SavedStep DEF SavedInv, Files, telegram, At
  <2>7. ~disturbed => ~cut /\ LoadState = sessions
    BY <1>1, NotCut DEF LoadState, At
  <2>8. AloneInv'
    BY <1>1, <2>3, <2>5, <2>7, AloneStep DEF AloneInv, At, listener
  <2> QED
    BY <1>1, <1>2, <1>3, <2>5, <2>6, <2>8, WorkerStepKeeps
<1> QED
  BY <1>4, <1>5 DEF ReadState

LEMMA OpenStep == ASSUME IInv, NEW w \in Workers, OpenForWriting(w) PROVE IInv'
<1> USE DEF IInv, Types
<1> DEFINE row == [workers[w] EXCEPT !.at = "write"]
<1>1. UNCHANGED <<telegram, listener, sessions, thread, disturbed, faults>> /\ At(w, {"truncate"})
  BY DEF OpenForWriting, At
<1>2. workers[w] \in WorkerRow /\ "write" \in WorkerAt
  BY WorkerTyped DEF WorkerAt
<1>3. row \in WorkerRow /\ row.update = workers[w].update /\ row.copy = workers[w].copy
      /\ row.at = "write" /\ row.tip = workers[w].tip
  BY <1>2 DEF WorkerRow
<1>4. workers' = [workers EXCEPT ![w] = row]
  BY <1>2 DEF OpenForWriting, WorkerRow
<1> HIDE DEF row
<1>5. Replaced(w, row)
  BY <1>3, <1>4 DEF Replaced
<1>6. Files'
  BY <1>1 DEF Files
<1>7. Flags'
  BY Zenon DEF OpenForWriting, Flags, listener
<1>8. SavedInv'
  BY <1>1, <1>3, <1>5, SavedStep DEF SavedInv, Files, telegram, At
<1>9. AloneInv'
  <2>1. cut'
    BY DEF OpenForWriting
  <2>2. cut' <=> row.at = "write"
    BY <1>3, <2>1
  <2>3. ~disturbed => sessions' = thread' /\ row.copy = sessions'
    BY <1>1, <1>3 DEF AloneInv, At
  <2> QED
    BY <1>1, <1>5, <2>2, <2>3, AloneStep DEF At, listener
<1> QED
  BY <1>1, <1>5, <1>6, <1>7, <1>8, <1>9, WorkerStepKeeps

LEMMA SaveStep == ASSUME IInv, NEW w \in Workers, SaveState(w) PROVE IInv'
<1> USE DEF IInv, Types
<1> DEFINE entry == IF IsReset(w) THEN None ELSE workers[w].tip
<1>1. /\ UNCHANGED <<telegram, listener, disturbed, faults>> /\ At(w, {"write"})
      /\ workers' = Ended(w)
      /\ sessions' = [workers[w].copy EXCEPT ![ChatOf(w)] = entry]
      /\ thread' = [thread EXCEPT ![ChatOf(w)] = entry]
  BY DEF SaveState, At
<1>2. Replaced(w, EndedRow(w)) /\ EndedRow(w).copy = NoSessions /\ EndedRow(w).at = "ended"
  BY <1>1, EndReplaces DEF EndedRow
<1>3. ChatOf(w) \in Chat /\ workers[w].copy \in Sessions /\ Continues(workers[w].copy)
      /\ workers[w].tip \in Response \cup {None}
  BY Reads, WorkerTyped DEF SavedInv
<1>4. /\ entry \in Response \cup {None}
      /\ entry # None => entry = Final(w)
  BY <1>1, <1>3 DEF SavedInv, At
<1> HIDE DEF entry
<1>5. sessions' \in Sessions /\ thread' \in Sessions
  BY <1>1, <1>3, <1>4 DEF Sessions, Files
<1>6. Continues(sessions')
  <2> SUFFICES ASSUME NEW c \in Chat, sessions'[c] # None
               PROVE  /\ sessions'[c].worker \in Workers /\ sessions'[c].open = FALSE
                      /\ ChatOf(sessions'[c].worker) = c
    BY DEF Continues
  <2>1. CASE c = ChatOf(w)
    <3>1. sessions'[c] = Final(w)
      BY <1>1, <1>3, <1>4, <2>1 DEF Sessions
    <3>2. Final(w).worker = w /\ Final(w).open = FALSE
      BY DEF Final
    <3> QED
      BY <2>1, <3>1, <3>2
  <2>2. CASE c # ChatOf(w)
    <3>1. sessions'[c] = workers[w].copy[c]
      BY <1>1, <1>3, <2>2 DEF Sessions
    <3> QED
      BY <1>3, <3>1 DEF Continues
  <2> QED
    BY <2>1, <2>2
<1>7. Flags'
  <2>1. cut' \in BOOLEAN
    BY DEF SaveState
  <2> QED
    BY <1>1, <2>1, Zenon DEF Flags, listener
<1>8. SavedInv'
  BY <1>1, <1>2, <1>5, <1>6, SavedStep, Empty DEF telegram
<1>9. AloneInv'
  <2>1. ~disturbed => workers[w].copy = thread /\ ~cut'
    BY <1>1 DEF AloneInv, SaveState, At
  <2> QED
    BY <1>1, <1>2, <2>1, AloneStep DEF At, listener
<1> QED
  BY <1>1, <1>2, <1>5, <1>7, <1>8, <1>9, WorkerStepKeeps DEF Files

LEMMA StepInv == IInv /\ [Next]_vars => IInv'
<1> SUFFICES ASSUME IInv, [Next]_vars PROVE IInv'
  OBVIOUS
<1>1. CASE \E command \in Command : Arrive(command)
  BY <1>1, ArriveStep
<1>2. CASE Start \/ Fetch \/ SaveOffset \/ Reply
  BY <1>2, ListenerOnlyStep DEF ListenerOnly
<1>3. CASE HandleAgentCommand
  BY <1>3, HandleStep
<1>4. CASE WorkerTimesOut
  BY <1>4, TimeoutStep
<1>5. CASE Crash
  BY <1>5, CrashStep
<1>6. CASE \E w \in DOMAIN workers : WorkerStep(w)
  <2>1. PICK w \in Workers : WorkerStep(w)
    BY <1>6 DEF Workers
  <2> QED
    BY <2>1, GetStep, RoundStep, ReadStep, OpenStep, SaveStep, FailStep DEF WorkerStep
<1>7. CASE UNCHANGED vars
  <2> USE <1>7 DEF vars, telegram, listener, store, IInv, Types
  <2>1. Workers' = Workers
    BY DEF Workers
  <2>2. Numbers' /\ Inbox' /\ WorkersTyped' /\ Files' /\ ArrivedInv'
    BY <2>1 DEF Numbers, Inbox, WorkersTyped, Files, ArrivedInv
  <2>3. Flags'
    BY Zenon DEF Flags
  <2>4. OffsetInv' /\ OnceInv' /\ SavedInv'
    BY <2>1, OffsetKept, SavedKept
  <2>5. AloneInv'
    BY <2>1 DEF AloneInv, At
  <2> QED
    BY <2>2, <2>3, <2>4, <2>5
<1> QED
  BY <1>1, <1>2, <1>3, <1>4, <1>5, <1>6, <1>7 DEF Next, Listener

THEOREM Inductive == Spec => []IInv
BY InitInv, StepInv, PTL DEF Spec

\* Every variable keeps its type.
THEOREM TypesHold == Spec => []TypeOK
<1>1. IInv => TypeOK
  BY TypesCorrect DEF IInv
<1> QED
  BY Inductive, <1>1, PTL

\* Whatever overlaps or dies, a conversation that can be continued belongs to its chat and
\* waits for no function output.
THEOREM ConversationsContinue == Spec => []SavedContinues
<1>1. IInv => SavedContinues
  BY DEF IInv, SavedInv, Continues, SavedContinues
<1> QED
  BY Inductive, <1>1, PTL

\* Although Telegram repeats updates after a death, no command is started twice, unless
\* the offset file was left unreadable.
THEOREM CommandsRunOnce == Spec => []RunAtMostOnce
<1>1. IInv => RunAtMostOnce
  BY DEF IInv, OnceInv, RunAtMostOnce, Workers
<1> QED
  BY Inductive, <1>1, PTL

\* A command continues exactly where the previous one of its chat left off.
THEOREM ThreadsContinue == Spec => ContinuesThread
<1> DEFINE Continued ==
      \A w \in DOMAIN workers :
        workers[w].at = "read" /\ workers'[w].at = "ask" /\ ~disturbed => workers'[w].tip = thread[ChatOf(w)]
<1>1. ASSUME IInv, [Next]_vars PROVE Continued
  <2> SUFFICES ASSUME NEW w \in Workers, workers[w].at = "read", workers'[w].at = "ask", ~disturbed
               PROVE  workers'[w].tip = thread[ChatOf(w)]
    BY DEF Workers
  <2> USE <1>1 DEF IInv
  <2>1. \A v \in Workers : v # w => At(v, {"ended"})
    BY DEF AloneInv, At
  <2>2. GetPreviousResponseId(w)
    <3>1. ASSUME NEW v \in Workers PROVE workers' # Ended(v)
      <4>1. workers' = Ended(v) => Replaced(v, EndedRow(v))
        BY EndReplaces
      <4> QED
        BY <4>1, OneWorker DEF EndedRow
    <3>2. workers' # workers
      OBVIOUS
    <3>3. ~HandleAgentCommand
      <4>1. workers \in Seq(WorkerRow) /\ w \in 1 .. Len(workers)
        BY WorkerTyped DEF Types, WorkersTyped
      <4>2. Append(workers, Worker(next))[w] = workers[w]
        BY <4>1
      <4> QED
        BY <4>2 DEF HandleAgentCommand
    <3>4. PICK v \in Workers : WorkerStep(v)
      <4>1. ~WorkerTimesOut /\ ~Crash
        BY <3>1, <3>2, WorkerTyped DEF WorkerTimesOut, Crash, ArrivedInv
      <4> QED
        BY <1>1, <3>2, <3>3, <4>1 DEF Next, Listener, Arrive, Start, Fetch, SaveOffset, Reply, vars, Workers
    <3>5. v = w
      BY <2>1, <3>4 DEF At, WorkerStep, GetPreviousResponseId, RunRound, ReadState, OpenForWriting,
                      SaveState, WorkerFails
    <3> QED
      BY <3>1, <3>4, <3>5 DEF WorkerStep, RunRound, ReadState, OpenForWriting, SaveState, WorkerFails
  <2>3. workers'[w].tip = LoadState[ChatOf(w)]
    BY <2>2, WorkerTyped DEF GetPreviousResponseId, WorkerRow
  <2>4. LoadState = thread
    BY NotCut DEF LoadState, AloneInv, At
  <2> QED
    BY <2>3, <2>4
<1>2. IInv /\ [Next]_vars => [Continued]_vars
  BY <1>1
<1> QED
  BY <1>2, Inductive, PTL DEF Spec, ContinuesThread
=============================================================================
