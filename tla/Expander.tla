------------------------------ MODULE Expander ------------------------------
(***************************************************************************)
(* Workflow expansion: WorkflowInstance::parse_node_instances and          *)
(* sub_node_count (kernel/src/models/impls/workflow_instance.rs), with the *)
(* lookups it uses (node_dependency_relations, WorkflowInstanceSpec::node, *)
(* NodeSpec::input_slot).                                                  *)
(*                                                                         *)
(* A workflow spec is chosen in Init from all small specs; one Expand step *)
(* runs parse_node_instances on it.  sub_node_count is a RECURSIVE         *)
(* operator; the code's recursion follows FromBatchOutputs strategies      *)
(* upstream and is deterministic, so once its depth exceeds the number of  *)
(* nodes it has revisited a node and recurses forever: the operator        *)
(* returns "Overflow" there (the thread's stack overflows).  An unwrap on  *)
(* a missing relation returns "Panic".  Fresh sub-instance ids             *)
(* (Uuid::new_v4) are the pair (parent, i), and the name                   *)
(* "{name}_sub_task_{i}" is the index i.                                   *)
(***************************************************************************)
EXTENDS Naturals, Sequences, FiniteSets, SequencesExt

CONSTANTS
    Nodes,          \* node ids
    NodeOrder,      \* the order of spec.node_specs
    Slots,          \* input slot descriptors of every node
    MaxInputs,      \* bound on the inputs bound to one slot
    FillCounts,     \* MatchRegex fill_count values
    MaxStrategies,  \* bound on batch_strategies per node
    None,
    OnlyValidSpecs  \* restrict Init to specs meeting the spec's WorkflowSpec invariant

ASSUME NodeOrder \in SetToSeqs(Nodes)
ASSUME OnlyValidSpecs \in BOOLEAN

BatchStrategy ==
    [kind: {"OriginalBatch", "FromBatchOutputs"}, slot: Slots]
        \cup [kind: {"MatchRegex"}, slot: Slots, fill: FillCounts]

\* A NodeRelation; toSlots is the set of to_slot of its slot_relations.
Relation == [from: Nodes, to: Nodes, toSlots: SUBSET Slots]

\* The parts of a WorkflowSpec that expansion reads.  inputs[n][s] is the
\* number of inputs bound on slot s of node n (NodeInputSlot::inputs_count).
WorkflowSpec ==
    [strategies: [Nodes -> BoundedSeq(BatchStrategy, MaxStrategies)],
     inputs: [Nodes -> [Slots -> 0..MaxInputs]],
     relations: UNION {SetToSeqs(R) : R \in SUBSET {r \in Relation : r.toSlots # {}}}]

Failures == {"Panic", "Overflow", "WorkflowCyclic", "NoSuchSlot"}

\* An outcome: a value, or the failure that ended the computation.
Ok(v) == [ok |-> TRUE, val |-> v]
Err(e) == [ok |-> FALSE, val |-> e]
IsFailure(x) == ~x.ok

\* A NodeInstance: node, batch_parent_id (None for a root), the sub-task
\* index (None for a root) and is_parent.
Instance == [node: Nodes, parent: Nodes \cup {None}, index: Nat \cup {None}, isParent: BOOLEAN]

VARIABLES
    wf,       \* the workflow instance's spec
    result    \* None before expansion, then a Seq(Instance) or a failure

vars == <<wf, result>>

(***************************************************************************)
(* Relation graph and the spec's invariant on it.                          *)
(***************************************************************************)
Edges(w) == {<<w.relations[i].from, w.relations[i].to>> : i \in DOMAIN w.relations}

\* Some node reaches itself through relations.
RECURSIVE Reach(_, _)
Reach(w, S) == LET T == S \cup {e[2] : e \in {e \in Edges(w) : e[1] \in S}}
               IN IF T = S THEN S ELSE Reach(w, T)
IsCyclic(w) == \E n \in Nodes : n \in Reach(w, {e[2] : e \in {e \in Edges(w) : e[1] = n}})

\* WorkflowSpec invariant (spec section 3): no self-loops, acyclic.
ValidSpec(w) == ~IsCyclic(w)

(***************************************************************************)
(* The code.                                                               *)
(***************************************************************************)

\* node_dependency_relations(node_id): the relations into the node, in order.
NodeDependencyRelations(w, n) == SelectSeq(w.relations, LAMBDA r : r.to = n)

\* .iter().find(|el| el.slot_relations.iter().any(|el2| el2.to_slot == slot))
\* .unwrap().from_id
UpstreamOf(w, n, slot) ==
    LET rs == NodeDependencyRelations(w, n)
        i  == SelectInSeq(rs, LAMBDA r : slot \in r.toSlots)
    IN IF i = 0 THEN Err("Panic") ELSE Ok(rs[i].from)

\* sub_node_count(node_id): fold(1, |acc, s| acc * count(s)) over
\* batch_strategies; a FromBatchOutputs strategy recurses on the upstream node.
RECURSIVE SubNodeCount(_, _, _)
SubNodeCount(w, n, depth) ==
    IF depth > Cardinality(Nodes) THEN Err("Overflow") ELSE
    LET StrategyCount(s) ==
            CASE s.kind = "OriginalBatch"    -> Ok(w.inputs[n][s.slot])
              [] s.kind = "MatchRegex"       -> Ok(s.fill)
              [] s.kind = "FromBatchOutputs" ->
                    LET up == UpstreamOf(w, n, s.slot)
                    IN IF IsFailure(up) THEN up ELSE SubNodeCount(w, up.val, depth + 1)
        Step(acc, s) == IF IsFailure(acc) THEN acc
                        ELSE LET k == StrategyCount(s)
                             IN IF IsFailure(k) THEN k ELSE Ok(acc.val * k.val)
    IN FoldLeft(Step, Ok(1), w.strategies[n])

\* Mutant: the sub-instance loop runs 0..=count.
NodeInstancesInclusive(w, n) ==
    LET isParent == w.strategies[n] # <<>>
        root == [node |-> n, parent |-> None, index |-> None, isParent |-> isParent]
        count == IF isParent THEN SubNodeCount(w, n, 0) ELSE Ok(0)
    IN IF IsFailure(count) THEN count
       ELSE Ok(<<root>> \o [i \in 1..(count.val + 1) |-> [node |-> n, parent |-> n, index |-> i - 1, isParent |-> FALSE]])

\* The instances of one node spec: the root, then its count sub-instances.
NodeInstances(w, n) ==
    LET isParent == w.strategies[n] # <<>>
        root == [node |-> n, parent |-> None, index |-> None, isParent |-> isParent]
        count == IF isParent THEN SubNodeCount(w, n, 0) ELSE Ok(0)
    IN IF IsFailure(count) THEN count
       ELSE Ok(<<root>> \o [i \in 1..count.val |-> [node |-> n, parent |-> n, index |-> i - 1, isParent |-> FALSE]])

\* parse_node_instances: map over node_specs in order, then flatten; the
\* first node whose count panics or overflows aborts the whole call.
ParseNodeInstances(w) ==
    LET per == [k \in 1..Len(NodeOrder) |-> NodeInstances(w, NodeOrder[k])]
        bad == {k \in 1..Len(NodeOrder) : IsFailure(per[k])}
    IN IF bad # {} THEN per[CHOOSE k \in bad : \A j \in bad : k <= j]
       ELSE Ok(FlattenSeq([k \in 1..Len(NodeOrder) |-> per[k].val]))

(***************************************************************************)
(* Specification.                                                          *)
(***************************************************************************)
Init ==
    /\ wf \in {w \in WorkflowSpec : OnlyValidSpecs => ValidSpec(w)}
    /\ result = None

Expand ==
    /\ result = None
    /\ result' = ParseNodeInstances(wf)
    /\ UNCHANGED wf

Next == Expand

Spec == Init /\ [][Next]_vars

(***************************************************************************)
(* The reference: expansion as the spec (section 4.2) defines it.          *)
(***************************************************************************)

\* sub_node_count of the spec: the product over the strategies, the
\* FromBatchOutputs factor taken from the node providing the slot; a slot no
\* relation provides is NoSuchSlot.  Terminates on acyclic specs.
RECURSIVE SpecSubCount(_, _)
SpecSubCount(w, n) ==
    LET Providers(s) == {w.relations[i] : i \in {i \in DOMAIN w.relations :
                            w.relations[i].to = n /\ s.slot \in w.relations[i].toSlots}}
        Factor(s) ==
            CASE s.kind = "OriginalBatch" -> Ok(w.inputs[n][s.slot])
              [] s.kind = "MatchRegex"    -> Ok(s.fill)
              [] OTHER ->
                   IF Providers(s) = {} THEN Err("NoSuchSlot")
                   ELSE SpecSubCount(w, (CHOOSE r \in Providers(s) : TRUE).from)
        factors == [k \in DOMAIN w.strategies[n] |-> Factor(w.strategies[n][k])]
    IN IF \E k \in DOMAIN factors : IsFailure(factors[k])
       THEN Err("NoSuchSlot")
       ELSE Ok(FoldSeq(LAMBDA f, x : f.val * x, 1, factors))

\* On a spec meeting the WorkflowSpec invariant, expansion succeeds exactly
\* when the spec's expansion does, and then lists one root per node spec (in
\* node_specs order, is_parent iff it has batch strategies), each parent
\* followed by sub-instances 0..N-1 pointing at it, where N is the spec's
\* sub_node_count, so the length is |node_specs| + the sum of the counts.
ExpansionMatchesSpec ==
    result # None =>
      LET parents == {n \in Nodes : wf.strategies[n] # <<>>}
          specFails == \E n \in parents : IsFailure(SpecSubCount(wf, n))
          list == result.val
      IN /\ IsFailure(result) <=> specFails
         /\ ~IsFailure(result) =>
              /\ SelectSeq(list, LAMBDA x : x.parent = None)
                    = [k \in 1..Len(NodeOrder) |-> [node |-> NodeOrder[k], parent |-> None, index |-> None,
                                                    isParent |-> wf.strategies[NodeOrder[k]] # <<>>]]
              /\ \A n \in parents :
                    LET subs == SelectSeq(list, LAMBDA x : x.parent = n)
                    IN /\ Len(subs) = SpecSubCount(wf, n).val
                       /\ \A i \in 1..Len(subs) : subs[i].index = i - 1 /\ ~subs[i].isParent
              /\ \A i \in DOMAIN list :
                    list[i].parent # None =>
                        \E j \in 1..(i - 1) : list[j].node = list[i].parent /\ list[j].parent = None

\* Spec section 4.2: a cyclic workflow is rejected with WorkflowCyclic
\* instead of being expanded or recursed on forever (scenario 5).
CyclicWorkflowRejected ==
    (result # None /\ IsCyclic(wf)) => result = Err("WorkflowCyclic")

=============================================================================
