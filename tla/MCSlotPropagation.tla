-------------------------- MODULE MCSlotPropagation --------------------------
(* Instantiates SlotPropagation for TLC.  Three nodes: u and v are batch   *)
(* parents, x a plain node.  u has a text input s1 and outputs o1 (text,  *)
(* id 1) and o2 (file, id 2); v has inputs s1 (text, file or unknown) and  *)
(* s2 (file) and output o1 (id 3); x has the file output o2 (id 4).  The  *)
(* slot relations u -> v and x -> v vary, with at most one feeder per      *)
(* input slot.  Text key 0 is u's own input.                               *)
EXTENDS SlotPropagation

CONSTANTS u, v, x

In(d, k, c) == [desc |-> d, kind |-> k, contents |-> c]
Out(d, k, ids) == [desc |-> d, kind |-> k, ids |-> ids]
SR(o, s) == [fromSlot |-> o, toSlot |-> s]

NodeU == [id |-> u, inputs |-> <<In("s1", "Text", <<0>>)>>,
          outputs |-> <<Out("o1", "Text", <<1>>), Out("o2", "File", <<2>>)>>]
NodeV(kind) == [id |-> v, inputs |-> <<In("s1", kind, None), In("s2", "File", None)>>,
                outputs |-> <<Out("o1", "Text", <<3>>)>>]
NodeX == [id |-> x, inputs |-> <<>>, outputs |-> <<Out("o2", "File", <<4>>)>>]

\* Every input slot of v is the to_slot of at most one slot relation.
OneFeeder(rels) ==
    \A s \in {"s1", "s2"} :
        Cardinality(UNION {{<<r, j>> : j \in {j \in DOMAIN rels[r].slotRels : rels[r].slotRels[j].toSlot = s}} : r \in DOMAIN rels}) <= 1

MCWorkflows ==
    {w \in {[nodes |-> <<NodeU, NodeV(kind), NodeX>>,
             relations |-> <<[from |-> u, to |-> v, slotRels |-> fromU], [from |-> x, to |-> v, slotRels |-> fromX]>>] :
              kind \in {"Text", "File", "Unknown"},
              fromU \in {<<SR("o1", "s1")>>, <<SR("o2", "s1")>>, <<SR("o1", "s1"), SR("o2", "s2")>>},
              fromX \in {<<>>, <<SR("o2", "s2")>>}}
       : OneFeeder(w.relations)}

TextIn(t) == [t |-> "Text", val |-> t]
FileIn(m) == [t |-> "File", val |-> [meta |-> m, name |-> "f"]]

\* The bindings a sub-task may carry: none, a text, or a file on s1.
Bindings == {<<>>, <<[desc |-> "s1", input |-> TextIn(5)]>>, <<[desc |-> "s1", input |-> FileIn(6)]>>}

\* One or two sub-tasks, their ids <<n, k>> in either order.
MCTasksInputs(n) ==
    {<<[id |-> <<n, 1>>, inputs |-> b]>> : b \in Bindings}
    \cup {<<[id |-> <<n, i>>, inputs |-> b1], [id |-> <<n, 3 - i>>, inputs |-> b2]>> :
            i \in {1, 2}, b1 \in Bindings, b2 \in Bindings}

=============================================================================
