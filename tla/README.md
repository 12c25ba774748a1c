# TLA+ models of the kuintessence kernel

This directory holds TLA+ models of parts of the kuintessence workflow
engine (`src/`), the TLC configurations that check them, and
`PROJECT.json`. That file lists every component, run, mutant, finding and
hazard, and maps each TLA+ definition to the source lines it models.

## The system and its parts

| Part | Source | What it does | Model |
|---|---|---|---|
| File-move coordinator | `kernel/src/services/file/mover.rs` | Keeps `MoveRegistration`s in a leased key/value repository under `movereg_{move}_{meta}`. When an upload completes, it moves the file to a snapshot record or to a storage server. It also deduplicates uploads by content hash ("flash upload"). | `FileMove`, `FlashUpload` |
| Workflow expander | `kernel/src/models/impls/workflow_instance.rs` (`parse_node_instances`, `sub_node_count`) | Turns a workflow spec into node instances. Each node gets one root, and a batch node also gets N sub-instances, where N is the product over its batch strategies. A `FromBatchOutputs` strategy takes the count of the upstream node. | `Expander` |
| Slot propagation | same file (`produce_node_spec_by_complete_node_inputs`, `update_with_inputs`, `update_output_slots`, `parse_sub_nodes`) | Copies upstream output ids into downstream input slots, and builds the sub-node specs of a batch node. | `SlotPropagation` |
| Task compiler | `kernel/src/services/use_cases/software_computing.rs` | Compiles a node into a task: arguments, environment, std_in, template files, outputs, and the deployment step; `handle_usecase` sends it to a random cluster recorded as the node's `cluster_id`, and `operate_task` sends commands there. | `UsecaseManifest`, `TaskCompiler` (`parse_task`), `UsecaseDispatch` (`handle_usecase`, `operate_task`) |
| No-action use case | `kernel/src/services/use_cases/no_action.rs` | Reports success immediately and maps task commands to statuses, on the `node_status` topic. | `UsecaseDispatch` |
| Package validator | `lib-co-repo/src/services/package_validate.rs` | Validates a package description, including that argument and environment `sort` values start at 0 with no gaps. | `PackageValidate` |
| Domain model | `kernel/src/models/workflow_engine/{common,node_instance}.rs` | Data types only; no method changes state. | records in `Expander`, `SlotPropagation`, `UsecaseDispatch` (`NodeKind` as `Kind`) |
| DB migration | `database/migration/.../m20230217_1522_add_user_webhook.rs` | Schema DDL. | not modelled (pure I/O) |

How the parts interact:
- The expander produces node instances.
- The propagator fills their slots from upstream outputs.
- The package validator accepts or rejects a use-case package before it is stored; the task compiler only ever sees accepted packages.
- The task compiler turns each ready node into a task, and the dispatcher sends it to a cluster; commands for the node follow it to the recorded cluster. A no-action node is answered at once on `node_status`.
- When a task's output file is uploaded, the file-move coordinator moves it to its destination. For a storage server, it publishes a `FileUploadCommand`; the uploader later calls back with `get_move_info` / `get_user_id`.

## Modules

### `FileMove`: the coordinator's registrations
State:
- `repo`: move id → registration or `None`.
- `snapshots`: the snapshot records created.
- `multipart`: metas whose multipart parts still exist.
- `uploadQueue`: the published `FileUploadCommand`s.
- `proc[c]`: for each concurrent handler invocation `c`, its program counter and locals.
- History variables used only by properties and environment guards: `issued`, `completing`, `callerRemoved`.

Each handler is async, and every `.await` is a point where other handlers run. So a handler is a sequence of actions, one per awaited call:

- `register_move` → `RegisterMove` (one call, atomic).
- `do_registered_moves` → `DoRead` (the key-regex scan, in any order), then for each entry:
  - Snapshot branch: `DoSnapshotCreate` / `DoSnapshotNoUser` → `DoMultipartRemove` → `DoRemoveAll`.
  - StorageServer branch: `DoGetUserId` / `DoNoSuchMove` → `DoSendUpload`.
- `set_all_moves_with_same_meta_id_as_failed` → `SafRead`, then `SafUpdate` per entry.
- `set_move_as_failed` → `SmfRead`, `SmfUpdate`.
- `remove_all_with_meta_id` → `RemoveAllWithMetaId`.
- Any awaited call may return `Err`, which the `?` propagates: `CollaboratorFails` (when `CollaboratorsFail`).

`update_with_lease` writes the handler's whole local copy back, so it can re-create a registration that was removed meanwhile. The model keeps that.

Three constants switch environment assumptions, so that each run states what it assumes:
- `SingleDestinationPerMeta`: all registrations of a meta share a destination kind.
- `RegisterBeforeCompletion`: no `register_move` for a meta after `do_registered_moves` for it has started.
- `CollaboratorsFail`: awaited calls may return `Err`.

`StorageMoveKeptUntilCalledBack` (a storage registration whose upload command is out is deleted only by an explicit `remove_all_with_meta_id`) is checked only where the first two assumptions are off: the move_mixed_destinations run. Under them, the property only restates those two guards of `RegisterMove`.

### `FlashUpload`: `if_possible_do_flash_upload`
- `FlashQuery` is the `satisfy_flash_upload` call. The answer is a nondeterministic stored meta or a miss.
- `FlashCreateRecord` and `FlashCreateFile` are the recording calls.
- `FlashCallFails` is their failure.
- `signals` holds the `FlashUpload` errors returned to callers, which the caller treats as success.

This handler never touches the registration repository, so it is a separate module. That keeps the `FileMove` state space small.

### `Expander`: `parse_node_instances`
- `Init` picks a workflow spec from every small spec (two nodes, one input slot, up to two batch strategies per node, relations as any ordered list).
- One `Expand` step runs `ParseNodeInstances`.
- `SubNodeCount` is RECURSIVE and follows the code's fold and `.find(..).unwrap()` on the ordered relations.
- The code's recursion is deterministic. Once its depth exceeds the number of nodes it has revisited a node and would recurse forever, so the operator returns `Err("Overflow")` there.
- An unwrap on a missing relation is `Err("Panic")`.
- `SpecSubCount` and the `ExpansionMatchesSpec` property are the reference: the expansion as the spec (section 4.2) defines it.

### `UsecaseManifest`, `PackageValidate`, `TaskCompiler`: `parse_task`
`UsecaseManifest` holds the shared data: the manifest (materials, input
slots with their refs, templates, collectors, output slots) as records of
model values, and the string conversions. A string is a sequence of
tokens: `PH` is `{{}}`, `eq` a character Handlebars escapes (`=`), `esc`
its escaped form, `sp` a space. `Replacen` is `str::replacen(.., 1)`,
`Render` is Handlebars with its default HTML escape, `JoinSp` is
`join(" ")`.

`PackageValidate` models `package_validate` as a pure operator
`Verdict(u)` returning `"Ok"`, `"Err"` or `"Panic"` (an `unwrap`). It keeps
the order of the checks: input refs, templates, then the output slots in
manifest order, then the sort contiguity check.

`TaskCompiler` models `parse_task` as a process per element of `Runs`,
with its locals in `c[r]`. The constant `Runs` gives several copies of the
same compilation, so determinism is a state property (self-composition).
Each loop of the code is one action:
- `PassA`: flag arguments and environments (`or_insert`).
- `PassB` per input slot (`get_content`, then every ref of the slot), then `PassBEnd`.
- `PassC(r, t)` per template, any template first, for the HashMap order; then `PassCEnd`.
- `OutputStep` per output slot (appointed paths, collectors, ids).
- `Finalize`: renders the argument and environment formats and prepends the execution step.
- `CheckBlocked`, `CheckSatisfied`: the two awaited software checks, with their answers as the initial `blocked` and `satisfied`; `ExternalFails` is an awaited read returning `Err`.
A panic or `Err` is a terminal `pc`. `Init` takes the manifest from the
sets in `MCTaskCompiler`; with `ValidatedOnly` it keeps those the
validator accepts.

### `SlotPropagation`: the slot helpers of `workflow_instance.rs`
- `ProduceNodeSpec(w, node, nth)` is `produce_node_spec_by_complete_node_inputs`: a fold (`ProduceStep`) over the loop nest of input slots, dependency relations and slot relations, failing on an unknown kind, a kind mismatch or an `nth` past the upstream outputs.
- `UpdateWithInputs`, `UpdateOutputSlots` and `ParseSubNodes` are `update_with_inputs`, `update_output_slots` (fresh ids from `nextId`, standing for `Uuid::new_v4`) and `parse_sub_nodes`.
- The driver (outside `src/`, from spec sections 3 and 4.3) parses the batch parents (`SubNodes`), publishes the sub-nodes' output ids (`Adopt`) and produces downstream specs (`Produce`), recording the latest call in `last`.
- `MCSlotPropagation` builds three-node workflows: two batch parents `u`, `v` and a plain node `x`, with text, file and unknown slot kinds and one or two sub-tasks per parent.

### `UsecaseDispatch`: `handle_usecase` and `operate_task`
- Each handler invocation is a process of `Calls`; each `.await` of the code is one step (`Parse`, `GetRandomCluster`, `GetNodeInstance`, `UpdateNodeInstance`, `SaveChanged`, `SendTask`; `OperateGetCluster`, `OperateSend`; `Publish` for the no-action service), and `Answer` is the send's result arriving.
- `clusterId` is the node instance repository reduced to `cluster_id`, `inbox` the tasks and commands each cluster has received in order, `nodeStatus` the `node_status` topic. `answered` is a history variable: the request (`"handle"` or the command) that each `node_status` entry answers. Only the refinement mapping reads it.
- `CallFails` is an await returning `Err` before it takes effect; with `LateErr` in `Faults`, also after the send was delivered (a timeout racing the answer).
- The driver (spec sections 2 and 7) dispatches a node again only after an error, and with `OperateAfterDispatch` sends commands only for nodes whose `handle_usecase` returned `Ok`.

### `TaskDispatch`: what the dispatchers promise
The abstract specification of the dispatchers, with each handler one atomic step: `Dispatch(n, cl)` places a software node once and delivers its task to `cl`; `Command(n, cmd)` sends a command to the cluster the node is placed on; `Report(n, req)` answers a no-action node's request: each `node_status` entry carries the request, with status `Success` for `handle` and the command's status (`StatusOf`) for a command. `UsecaseDispatch` instantiates it as `Abstract == INSTANCE TaskDispatch WITH placed <- Placed, nodeStatus <- AnsweredStatus`. `Placed` maps a node to the cluster its task was delivered to. `AnsweredStatus` adds to each published entry the request from `answered`. `inbox` maps to itself. So `DispatchRefines` checks the no-action `operate_task`'s match arm by arm: a wrong arm, such as `Continue` answered with `Paused`, is a `Report` step the abstract specification does not allow. Every detailed step other than a delivering send or a publish is a stuttering step of the abstract specification. The property `DispatchRefines == Abstract!Spec` is checked by the dispatch run.

## Runs

| Run | cfg | Result | What it shows |
|---|---|---|---|
| move_safety | `FileMoveSafety.cfg` | pass (about 1.3M states, about 40 s) | 3 moves, 1 meta, 2 concurrent handlers, failing collaborators, registrations with or without user. **SnapshotRemovalAfterCreate**: `do_registered_moves` deletes a registration only after the snapshot record and the multipart removal. |
| move_progress | `FileMoveProgress.cfg` | pass | 2 moves, 2 metas, 2 handlers, no failures. **MoveNotLost**: every registered move is still registered, still being handled, removed on purpose, or performed. **ReadMoveEventuallyPerformed**: a move that `do_registered_moves` has read is eventually performed. |
| move_mixed_destinations | `FileMoveMixedDest.cfg` | violation | One meta with a Snapshot and a StorageServer registration: the Snapshot branch's `remove_all` deletes the storage registration after its upload command is sent. |
| move_retry_after_failure | `FileMoveRetry.cfg` | violation | A failure after `remove_all` ends the loop: the remaining registrations of the meta are gone, and a retry performs nothing. |
| flash_upload | `FlashUpload.cfg` | pass | **FlashSignalBacked**: every `FlashUpload` signal is backed by the snapshot or net-disk record of the already stored meta, and nothing is recorded under the new meta. |
| expansion | `Expander.cfg` | pass | On every valid (acyclic) two-node workflow, **ExpansionMatchesSpec** holds: the instances are exactly the spec's expansion. That means one root per node in `node_specs` order, with `is_parent` iff it has batch strategies. Each parent is followed by sub-instances `0..N-1` pointing at it, with N the spec's count. Failures happen exactly when the spec's do. |
| compile_validated | `TaskCompiler.cfg` | pass (about 880K states, 15 s) | Over every accepted manifest of `PassUsecases` and its node specs (required text slots): **TaskBodyShape** (one execution step, first or after the deployment), **ArgumentsRenderedBySpec** (each placeholder receives its own fill, when no fill contains `{{}}`), **TemplateRenderedBySpec** (each key of a template is the value of the last slot that fills it). |
| compile_placeholder_injection | `TaskCompilerInjection.cfg` | violation | **ArgumentsRenderedBySpec**: a fill `{{}}` receives the next fill; `{{}} {{}}` with fills `{{}}`, `a` renders `a {{}}`. |
| compile_template_order | `TaskCompilerTemplateOrder.cfg` | violation | **CompileDeterministic**: two compilations of the same input bind different templates to std_in. |
| slot_propagation | `SlotPropagation.cfg` | pass | **OutputIdsFresh**: every output id `update_output_slots` pre-allocates is used by no other slot. **ProduceMatchesSpec**: every produce call binds each fed input slot to the output id of the nth upstream sub-task, and fails exactly on a kind mismatch or a missing nth output. |
| dispatch | `UsecaseDispatch.cfg` | pass (about 490K states, 30 s) | 4 calls, a software and a no-action node, 2 clusters, failing awaits and retries. **CommandsReachTask**: every command reaches the one cluster that holds the node's task, after the task. **RecordedClusterHoldsTask**: once `handle_usecase` returned `Ok`, the saved `cluster_id` names a cluster holding the task. **DispatchRefines**: the handlers implement `TaskDispatch`. |
| dispatch_command_race | `UsecaseDispatchRace.cfg` | violation | **CommandsReachTask** fails when the driver may command a node being dispatched: `save_changed` has recorded the cluster, `operate_task` sends its command, and the task arrives after it. |

Each property of a passing run has a mutant in `PROJECT.json`. A mutant is a plausible bug in the mapped definition, and TLC finds the property violated under it. Examples: the loop stops after the first registration, `multipart_service.remove` is dropped, the sub-instance loop runs `0..=count`.

## Bounds
- **FileMove.** Three moves on one meta are enough for a Snapshot entry to be followed, in the scan, by others that its `remove_all` deletes. Two handlers are enough for every pairwise interleaving of the handlers. Symmetry over moves and callers is used only in safety runs. The liveness run has no symmetry and uses two metas, so that handlers of different metas interleave.
- **Expander.** Two nodes with two strategies each reach every strategy kind and the following cases:
  - products of two factors;
  - zero factors;
  - a `FromBatchOutputs` chain;
  - a `FromBatchOutputs` with no provider.
  
  Relation lists of every order reach self-loops and two-node cycles. Three nodes would reach two relations feeding the same slot, but the enumeration is then too large.
- **TaskCompiler.** One manifest shape with two input slots (text, file), two argument materials (one and two placeholders), an environment material, two templates, a filesome input and output, two collectors and two output slots. The sets in `MCTaskCompiler` vary every ref kind in every slot, both templates' `as_content` / `as_file_name`, flags, the material kind, the collector source and three output slot lists. That reaches every branch of `parse_task`'s loops, two slots filling one key, and a template bound twice. Node specs give one or two texts and an expected file name or none. The pass run keeps manifests whose placeholder indices have no gap (`NthContiguous`). A gap shifts every later fill one placeholder to the left. The injection finding is about a fill that contains `{{}}`, not about gaps, so the gap case stays open as a hazard (`software_computing.rs:756`) that no run checks.

- **SlotPropagation.** Three nodes give a parent feeding a parent (sub-node ids by `nth`) and two relations into one node; one or two sub-tasks in either id order reach `nth` past the end and reordered bindings.
- **UsecaseDispatch.** Four calls reach a failed dispatch, its retry and two commands, or a dispatch racing commands for both nodes; two clusters let a retry pick a different cluster. With `LateErr` in `Faults` (a send that delivers and still fails), TLC finds `CommandsReachTask` and `DispatchRefines` violated by the retry that places the task on a second cluster; the dispatch run keeps to errors before the effect, and the case is a hazard in `PROJECT.json`.

## Fairness of the compiler runs
The compiler, slot-propagation and dispatch runs check only invariants: a compilation, a propagation and a bounded set of handler calls are finite, so there is nothing to wait for, and they set `CHECK_DEADLOCK FALSE` because the system stops once they are done.

## Fairness
Weak fairness is assumed only on `Progress(c)`: the completion of an awaited call of a handler that has started. Tokio polls a task again once its future is ready, which justifies it. Request arrival (`Start`, `RegisterMove`, `RemoveAllWithMetaId`) is not fair, because nothing obliges a client to call.

## Not modelled
- Lease expiry in the registration repository.
- The repository's own atomicity: each call is one atomic step.
- The uploader and the callers of the coordinator, which are outside `src/`.
- The DB migration: DDL statements with no state the modelled code reads.
- The `NodeInstanceStatus` machine (spec section 4.6): only the driver changes a node's status, and no transition code is under `src/`.
- The data of the domain model that no modelled operation reads: scheduling, requirements, `Filler`, script and milestone nodes, `TextInputSlotRule`.
- Two stale-state hazards of the coordinator have no property, because the spec gives no rule for them to check. `update_with_lease` may re-create a registration that a concurrent `remove_all` deleted; the model treats the update as an upsert, and the spec only says that set-failed "re-persists". `get_meta_id_failed_info` reports the flag of whichever registration the scan returns first.
- The `usize` overflow of `sub_node_count`'s product: it needs counts far beyond any state space TLC can explore.
- `get_cmd` (it only reads: it compiles the task again and formats its command line for display) and, in `handle_usecase`, the rest of the node instance record, whose whole-record write-back could overwrite a concurrent status change (a hazard in `PROJECT.json`).
- `text_keys` and `mut_input_slot`, which have no caller under `src/`.
- In the task compiler: the contents of the task's file and output records beyond what the properties compare, and the software-status repository (its answers are the initial `blocked` / `satisfied`).
- In the validator: the `CommandPreview` it builds and which error message wins.
- Four disagreements are recorded as hazards in `PROJECT.json`, not as runs: the deployment polarity (an open question in the spec), flag arguments outside the validator's sort check, Handlebars' HTML escape of substituted values, and the validator's `unwrap` on a collector reading a missing file output slot.
- Three findings of earlier versions are kept as hazards, not runs: the register race of `FileMove` (it needs a registration after completion), the cyclic workflow that `parse_node_instances` expands (`CyclicWorkflowRejected`), and the empty optional std_in slot that panics. The compiler's panics on accepted manifests (`software_computing.rs:229`, `:701`, `:164`) are open defects. `TaskCompiler` models them, with pc `Panic`. No run checks them: a no-panic invariant fails at once on those manifests, and on the pass run's manifests it says nothing.
