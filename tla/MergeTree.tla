------------------------------ MODULE MergeTree ------------------------------
(* Size of the merge tree completion_budget reserves for: per fan-in and    *)
(* number of roots, the requests of all levels and the number of levels.    *)
EXTENDS Naturals

\* Groups of f consecutive nodes; a single node left over is carried without a request.
Groups(f, n) == n \div f + IF n % f > 1 THEN 1 ELSE 0
NextLevel(f, n) == n \div f + IF n % f > 0 THEN 1 ELSE 0

CallsFor(f, top) ==
  LET calls[n \in 0 .. top] ==
        IF n <= 1 THEN 0 ELSE Groups(f, n) + calls[NextLevel(f, n)]
  IN  calls

LevelsFor(f, top) ==
  LET levels[n \in 0 .. top] == IF n <= 1 THEN 0 ELSE 1 + levels[NextLevel(f, n)]
  IN  levels
=============================================================================
