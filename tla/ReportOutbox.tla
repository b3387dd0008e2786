----------------------------- MODULE ReportOutbox -----------------------------
(***************************************************************************)
(* What the delivery of an analytic report promises to the reader of the    *)
(* chat: the parts of one version of the report, in order, each once.       *)
(***************************************************************************)
EXTENDS Naturals, Sequences

CONSTANT Version  \* versions of the report an analysis may produce

VARIABLE posted   \* what the chat shows: <<version, number of the part>>

Init == posted = <<>>

Post(v) ==
  /\ posted # <<>> => posted[1][1] = v
  /\ posted' = Append(posted, <<v, Len(posted) + 1>>)

Next == \E v \in Version : Post(v)

Spec == Init /\ [][Next]_posted
=============================================================================
