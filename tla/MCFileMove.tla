----------------------------- MODULE MCFileMove -----------------------------
(* Instantiates FileMove for TLC: model values for ids, small sets.        *)
EXTENDS FileMove, TLC

\* The registration user may be absent (Option::None).
MCRegUsersAny == Users \cup {NoUser}

\* Move ids and callers are interchangeable names.
MCSymmetry == Permutations(Moves) \cup Permutations(Callers)
=============================================================================
