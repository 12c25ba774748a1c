----------------------------- MODULE MCExpander -----------------------------
(* Instantiates Expander for TLC: two nodes, one input slot.               *)
EXTENDS Expander

CONSTANTS n1, n2

MCNodeOrder == <<n1, n2>>
=============================================================================
