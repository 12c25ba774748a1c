-------------------------- MODULE MCUsecaseDispatch --------------------------
(* Instantiates UsecaseDispatch for TLC: a software node s and a no-action *)
(* node a, two clusters and four handler calls, enough for a dispatch, a  *)
(* retry after an error and two commands, or a dispatch and three commands.*)
EXTENDS UsecaseDispatch

CONSTANTS s, a

MCKind == [n \in {s, a} |-> IF n = s THEN "Software" ELSE "NoAction"]

=============================================================================
