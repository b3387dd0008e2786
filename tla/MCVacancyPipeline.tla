------------------------- MODULE MCVacancyPipeline -------------------------
EXTENDS VacancyPipeline, TLC

CONSTANTS va, x, y

(* Two versions of one vacancy.                                             *)
MCKeyOf == x :> va @@ y :> va
MCBatch == {<<x>>, <<y>>, <<y, x>>}
ClientSymmetry == Permutations(Client)
=============================================================================
