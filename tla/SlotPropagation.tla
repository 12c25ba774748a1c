--------------------------- MODULE SlotPropagation ---------------------------
(***************************************************************************)
(* Slot propagation (kernel/src/models/impls/workflow_instance.rs):        *)
(* WorkflowInstance::produce_node_spec_by_complete_node_inputs, which      *)
(* fills a node's input slots from the nth pre-allocated id of the         *)
(* upstream output slots, and NodeSpec::parse_sub_nodes with               *)
(* update_with_inputs and update_output_slots, which clone a batch parent  *)
(* into its sub-node specs and give every output slot of a clone one      *)
(* fresh id.                                                               *)
(*                                                                         *)
(* The driver that calls them is outside the repository and is modelled   *)
(* from spec sections 4.3 and 3: it parses the sub-nodes of a batch       *)
(* parent once, then publishes their pre-allocated ids, in sub-node       *)
(* order, as the parent's all_tasks_prepared_* arrays; a node is produced  *)
(* for an index nth once its batch predecessors have published.            *)
(*                                                                         *)
(* Ids are naturals: Uuid::new_v4 is the next unused one.  A sub-node id   *)
(* is the pair <<parent, k>> the expander gives it.                        *)
(***************************************************************************)
EXTENDS Naturals, Sequences, FiniteSets, SequencesExt

CONSTANTS
    Nodes,          \* node ids of the workflow spec
    Batch,          \* the batch parents among them
    Workflows,      \* the workflow specs Init may start from
    TasksInputs(_), \* the tasks_inputs the driver may pass for a parent
    MaxSubs,        \* bound on the sub-nodes of a parent
    None

\* An outcome: a value, or the failure that ended it.
Ok(v) == [ok |-> TRUE, val |-> v]
Err(e) == [ok |-> FALSE, val |-> e]

\* The content an upstream id becomes in an input slot: a text key, or a
\* FileInput { file_metadata_id, ..Default::default() } (empty name).
Content(kind, id) == IF kind = "Text" THEN id ELSE [meta |-> id, name |-> ""]

(***************************************************************************)
(* Lookups.                                                                *)
(***************************************************************************)

\* node_dependency_relations: the relations into node id, in order.
NodeDependencyRelations(w, id) == SelectSeq(w.relations, LAMBDA r : r.to = id)

\* WorkflowInstanceSpec::node: the first node spec with the id (unwrap).
NodeOf(w, id) == w.nodes[SelectInSeq(w.nodes, LAMBDA ns : ns.id = id)]

\* NodeSpec::output_slot: the first output slot with the descriptor.
OutputSlotOf(ns, d) == ns.outputs[SelectInSeq(ns.outputs, LAMBDA os : os.desc = d)]

\* all_tasks_text_outputs / all_tasks_file_outputs: the ids of an output
\* slot of the asked kind, or an error.
AllTasksOutputs(os, kind) == IF os.kind = kind THEN Ok(os.ids) ELSE Err("SlotKindMismatch")

(***************************************************************************)
(* produce_node_spec_by_complete_node_inputs(node, nth).                   *)
(***************************************************************************)

\* The code's loop nest, flattened: for every input slot i, every relation
\* into the node, every slot relation of it, in that order.
ProduceSteps(w, node) ==
    LET rels == NodeDependencyRelations(w, node.id)
    IN FlattenSeq([i \in DOMAIN node.inputs |->
         FlattenSeq([r \in DOMAIN rels |->
           [j \in DOMAIN rels[r].slotRels |-> [slot |-> i, from |-> rels[r].from, sr |-> rels[r].slotRels[j]]]])])

\* One (input slot, slot relation) pair: a matching pair overwrites the
\* slot's contents with the nth upstream id; errors end the loop.
ProduceStep(w, nth, acc, st) ==
    LET slot == acc.val.inputs[st.slot]
        ids == AllTasksOutputs(OutputSlotOf(NodeOf(w, st.from), st.sr.fromSlot), slot.kind)
    IN CASE ~acc.ok \/ st.sr.toSlot # slot.desc -> acc
         [] slot.kind = "Unknown" -> Err("UnknownSlotKind")
         [] ~ids.ok -> ids
         [] nth + 1 > Len(ids.val) -> Err("MissingOutput")
         [] OTHER -> Ok([acc.val EXCEPT !.inputs[st.slot].contents = <<Content(slot.kind, ids.val[nth + 1])>>])

\* Mutant: the nth argument is dropped and the first id always taken.
ProduceNodeSpecFirstOnly(w, node, nthOpt) ==
    FoldLeft(LAMBDA acc, st : ProduceStep(w, 0, acc, st), Ok(node), ProduceSteps(w, node))

ProduceNodeSpec(w, node, nthOpt) ==
    LET nth == IF nthOpt = None THEN 0 ELSE nthOpt
    IN FoldLeft(LAMBDA acc, st : ProduceStep(w, nth, acc, st), Ok(node), ProduceSteps(w, node))

(***************************************************************************)
(* parse_sub_nodes(tasks_inputs), update_with_inputs, update_output_slots. *)
(***************************************************************************)

\* One binding (descriptor, Input) applied to input slot i.
BindStep(acc, b, i) ==
    LET slot == acc.val.inputs[i]
    IN CASE ~acc.ok \/ slot.desc # b.desc -> acc
         [] slot.kind = "Unknown" -> Err("UnknownSlotKind")
         [] slot.kind # b.input.t -> Err("SlotKindMismatch")
         [] OTHER -> Ok([acc.val EXCEPT !.inputs[i].contents = <<b.input.val>>])

\* update_with_inputs: for every binding, every input slot with its
\* descriptor; a binding no slot has is skipped.
UpdateWithInputs(ns, inputs) ==
    FoldLeft(LAMBDA acc, b : FoldLeft(LAMBDA a, i : BindStep(a, b, i), acc, [i \in DOMAIN ns.inputs |-> i]),
             Ok(ns), inputs)

\* update_output_slots: every output slot gets vec![Uuid::new_v4(); 1];
\* next is the first unused id.
\* Mutant: one Uuid::new_v4() shared by every output slot of the clone.
UpdateOutputSlotsSharedId(ns, next) ==
    [ns EXCEPT !.outputs = [j \in DOMAIN ns.outputs |-> [ns.outputs[j] EXCEPT !.ids = <<next>>]]]

UpdateOutputSlots(ns, next) ==
    [ns EXCEPT !.outputs = [j \in DOMAIN ns.outputs |-> [ns.outputs[j] EXCEPT !.ids = <<next + j - 1>>]]]

\* parse_sub_nodes: clone k takes tasks_inputs[k]'s id, its bindings and
\* fresh output ids; the first error is returned.
\* Mutant: vec![self.clone(); 1], so the zip stops after the first task.
ParseSubNodesFirstOnly(ns, ti, next) ==
    LET u == UpdateWithInputs([ns EXCEPT !.id = ti[1].id], ti[1].inputs)
    IN IF u.ok THEN Ok(<<UpdateOutputSlots(u.val, next)>>) ELSE u

ParseSubNodes(ns, ti, next) ==
    LET width == Len(ns.outputs)
        Step(acc, k) ==
            LET u == UpdateWithInputs([ns EXCEPT !.id = ti[k].id], ti[k].inputs)
            IN CASE ~acc.ok -> acc
                 [] ~u.ok -> u
                 [] OTHER -> Ok(Append(acc.val, UpdateOutputSlots(u.val, next + (k - 1) * width)))
    IN FoldLeft(Step, Ok(<<>>), [k \in DOMAIN ti |-> k])

(***************************************************************************)
(* The driver's calls.                                                     *)
(***************************************************************************)

VARIABLES
    wf,         \* the workflow instance's spec
    subs,       \* parent -> None, or the outcome of parse_sub_nodes
    bound,      \* parent -> the tasks_inputs it was parsed with
    nextId,     \* the first id Uuid::new_v4 has not returned yet
    adopted,    \* parents whose sub-nodes' ids the driver has published
    last        \* None, or the latest call of produce_node_spec_by_complete_node_inputs

vars == <<wf, subs, bound, nextId, adopted, last>>

\* The ids held by the output slots of the workflow's node specs.
OutputIds(w) == UNION {UNION {Range(os.ids) : os \in Range(ns.outputs)} : ns \in Range(w.nodes)}

Init ==
    /\ wf \in Workflows
    /\ subs = [n \in Batch |-> None]
    /\ bound = [n \in Batch |-> None]
    /\ nextId = Max(OutputIds(wf)) + 1
    /\ adopted = {}
    /\ last = None

\* The parents whose parse_sub_nodes returned Ok, and their sub-nodes.
Parsed == {n \in Batch : subs[n] # None /\ subs[n].ok}
Subs(n) == subs[n].val

\* The driver parses the sub-nodes of batch parent n once.
SubNodes(n) ==
    /\ subs[n] = None
    /\ \E ti \in TasksInputs(n) :
          LET ns == NodeOf(wf, n)
              r == ParseSubNodes(ns, ti, nextId)
          IN /\ subs' = [subs EXCEPT ![n] = r]
             /\ bound' = [bound EXCEPT ![n] = ti]
             /\ nextId' = nextId + Len(ti) * Len(ns.outputs)
    /\ UNCHANGED <<wf, adopted, last>>

\* The driver publishes the pre-allocated ids of n's sub-nodes, in order,
\* as n's all_tasks_prepared_* arrays (spec section 3: one id per
\* sub-task).
Adopt(n) ==
    /\ n \in Parsed
    /\ n \notin adopted
    /\ LET i == SelectInSeq(wf.nodes, LAMBDA ns : ns.id = n)
       IN wf' = [wf EXCEPT !.nodes[i].outputs =
                   [j \in DOMAIN @ |-> [@[j] EXCEPT !.ids = [k \in DOMAIN Subs(n) |-> Subs(n)[k].outputs[j].ids[1]]]]]
    /\ adopted' = adopted \cup {n}
    /\ UNCHANGED <<subs, bound, nextId, last>>

\* The driver produces node n for index nth once every batch parent it
\* depends on has published its ids (the node waits in Standby before).
Produce(n, nth) ==
    /\ \A r \in Range(NodeDependencyRelations(wf, n)) : r.from \in Batch => r.from \in adopted
    /\ last' = [node |-> n, nth |-> nth, out |-> ProduceNodeSpec(wf, NodeOf(wf, n), nth)]
    /\ UNCHANGED <<wf, subs, bound, nextId, adopted>>

Next ==
    \/ \E n \in Batch : SubNodes(n) \/ Adopt(n)
    \/ \E n \in Nodes, nth \in {None} \cup 0..(MaxSubs - 1) : Produce(n, nth)

Spec == Init /\ [][Next]_vars

(***************************************************************************)
(* Properties.                                                             *)
(***************************************************************************)


TypeOK ==
    /\ nextId \in Nat
    /\ adopted \subseteq Parsed
    /\ \A n \in Parsed : Len(Subs(n)) = Len(bound[n])
    /\ last = None \/ (last.node \in Nodes /\ last.nth \in {None} \cup Nat /\ last.out.ok \in BOOLEAN)

\* The output slots of the sub-node specs: <<parent, k, j>> is output slot
\* j of parent's k-th sub-node.
SubOutputs == UNION {UNION {{<<n, k, j>> : j \in DOMAIN Subs(n)[k].outputs} : k \in DOMAIN Subs(n)} : n \in Parsed}
SubOutputId(x) == Subs(x[1])[x[2]].outputs[x[3]].ids[1]

\* update_output_slots pre-allocates ids downstream nodes bind to before
\* the sub-tasks run, so no two output slots of sub-nodes, of the same or
\* of different parents, share an id, and none is an id a node of the
\* workflow still holds.
OutputIdsFresh ==
    /\ \A x, y \in SubOutputs : x # y => SubOutputId(x) # SubOutputId(y)
    /\ \A x \in SubOutputs : \A n \in Nodes \ adopted :
          SubOutputId(x) \notin UNION {Range(os.ids) : os \in Range(NodeOf(wf, n).outputs)}

\* Spec sections 3 and 4.3: position nth of a batch parent's output slot o
\* is the id pre-allocated for its nth sub-task (the sub-node with the nth
\* id of tasks_inputs); a plain node holds its own ids.
SpecAvailable(u, o, nth) ==
    IF u \in Batch THEN nth < Len(bound[u]) ELSE nth < Len(OutputSlotOf(NodeOf(wf, u), o).ids)
SpecId(u, o, nth) ==
    IF u \in Batch
    THEN LET sub == Subs(u)[SelectInSeq(Subs(u), LAMBDA x : x.id = bound[u][nth + 1].id)]
         IN OutputSlotOf(sub, o).ids[1]
    ELSE OutputSlotOf(NodeOf(wf, u), o).ids[nth + 1]

\* Spec section 4.3, with the driver's order: producing node n for index
\* nth succeeds exactly when every slot relation into n joins slots of
\* the same (known) kind and its upstream slot has an nth id, and then
\* every fed input slot holds exactly the id pre-allocated for the nth
\* upstream sub-task, every other slot what the node spec had.
ProduceMatchesSpec ==
    last # None =>
    LET p == last IN
        LET node == NodeOf(wf, p.node)
            nth == IF p.nth = None THEN 0 ELSE p.nth
            rels == Range(NodeDependencyRelations(wf, p.node))
            Feeds(i) == UNION {{[from |-> r.from, o |-> sr.fromSlot] : sr \in {sr \in Range(r.slotRels) : sr.toSlot = node.inputs[i].desc}} : r \in rels}
            Fine(i) == \A f \in Feeds(i) : /\ node.inputs[i].kind = OutputSlotOf(NodeOf(wf, f.from), f.o).kind
                                          /\ SpecAvailable(f.from, f.o, nth)
        IN /\ p.out.ok = \A i \in DOMAIN node.inputs : Fine(i)
           /\ p.out.ok => \A i \in DOMAIN node.inputs :
                 p.out.val.inputs[i].contents =
                    IF Feeds(i) = {} THEN node.inputs[i].contents
                    ELSE LET f == CHOOSE f \in Feeds(i) : TRUE
                         IN <<Content(node.inputs[i].kind, SpecId(f.from, f.o, nth))>>

=============================================================================
