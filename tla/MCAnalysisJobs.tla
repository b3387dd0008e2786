--------------------------- MODULE MCAnalysisJobs ---------------------------
(* Symmetry for TLC on AnalysisJobs.                                       *)
EXTENDS AnalysisJobs, TLC

\* No listener is preferred to another.
ListenerSymmetry == Permutations(Bridge)

\* Bound: what the outer worker interrupts it might as well have timed out: no
\* guard tells the two apart.
OuterTimesOut == \A j \in Job, g \in Generation : outerNote[j][g] # "interrupted"
=============================================================================
