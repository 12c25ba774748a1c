--------------------------- MODULE UsecaseDispatch ---------------------------
(***************************************************************************)
(* The use-case dispatchers: IUsecaseService::handle_usecase and           *)
(* operate_task of SoftwareComputingUsecaseService (kernel/src/services/   *)
(* use_cases/software_computing.rs) and of NoActionUsecaseService          *)
(* (no_action.rs).                                                         *)
(*                                                                         *)
(* Every handler call is a process c of Calls; each .await is one step,    *)
(* and other calls run between steps.  The software service compiles the  *)
(* task (parse_task, modelled in TaskCompiler, here one step that yields  *)
(* the task or an error), picks a cluster, records it as the node          *)
(* instance's cluster_id (get_by_id, update, save_changed) and sends the  *)
(* task there; operate_task reads the recorded cluster_id and sends a      *)
(* command-only task to it.  The no-action service publishes a TaskResult *)
(* on node_status.                                                         *)
(*                                                                         *)
(* The driver that calls the handlers is outside the repository and is    *)
(* modelled from spec sections 2 and 7: it dispatches a runnable node     *)
(* once, calls again after an error (the caller retries), and sends       *)
(* commands.  Faults: every await may return Err before it takes effect;  *)
(* with LateErr a send may deliver and still return Err (a timeout racing *)
(* the answer).                                                            *)
(***************************************************************************)
EXTENDS Naturals, Sequences, FiniteSets, SequencesExt

CONSTANTS
    Nodes,              \* node instance ids
    Kind,               \* Nodes -> {"Software", "NoAction"}
    Clusters,           \* cluster ids get_random_cluster may return
    Calls,              \* handler invocations
    Commands,           \* TaskCommand values the driver may send
    Faults,             \* subset of {"Err", "LateErr"}
    OperateAfterDispatch, \* the driver sends commands only for dispatched nodes
    None

ASSUME Faults \subseteq {"Err", "LateErr"}
ASSUME OperateAfterDispatch \in BOOLEAN

\* Mutant: the Continue arm answers Paused, as the Pause arm does.
CommandStatusContinuePaused(cmd) ==
    CASE cmd = "Start" -> "Success"
      [] cmd = "Pause" -> "Paused"
      [] cmd = "Continue" -> "Paused"
      [] cmd = "Delete" -> "Deleted"

\* operate_task of the no-action service: TaskCommand -> TaskResultStatus.
CommandStatus(cmd) ==
    CASE cmd = "Start" -> "Success"
      [] cmd = "Pause" -> "Paused"
      [] cmd = "Continue" -> "Success"
      [] cmd = "Delete" -> "Deleted"

VARIABLES
    clusterId,  \* node instance repository: node -> cluster_id (None before)
    inbox,      \* cluster -> the tasks and commands send_task delivered, in order
    nodeStatus, \* the node_status topic: the TaskResults published, in order
    call,       \* Calls -> the handler invocation and its locals
    answered    \* history: the request (op "handle" or the command) each
                \* node_status entry answers; read only by the refinement

vars == <<clusterId, inbox, nodeStatus, call, answered>>

Idle == [pc |-> "Idle", op |-> None, node |-> None, cmd |-> None, cluster |-> None]

Init ==
    /\ clusterId = [n \in Nodes |-> None]
    /\ inbox = [cl \in Clusters |-> <<>>]
    /\ nodeStatus = <<>>
    /\ call = [c \in Calls |-> Idle]
    /\ answered = <<>>

\* The first pc of each handler.
FirstPc(op, n) ==
    CASE op = "handle" /\ Kind[n] = "Software" -> "Parse"
      [] op = "operate" /\ Kind[n] = "Software" -> "OGet"
      [] OTHER -> "Publish"

HandleReturned(n, pc) == \E c \in Calls : call[c].op = "handle" /\ call[c].node = n /\ call[c].pc = pc
HandleRunning(n) == \E c \in Calls : call[c].op = "handle" /\ call[c].node = n /\ call[c].pc \notin {"Idle", "Ok", "Err"}

\* The driver dispatches node n, the first time or after an error.
CallHandle(c, n) ==
    /\ call[c].pc = "Idle"
    /\ ~HandleRunning(n) /\ ~HandleReturned(n, "Ok")
    /\ call' = [call EXCEPT ![c] = [Idle EXCEPT !.pc = FirstPc("handle", n), !.op = "handle", !.node = n]]
    /\ UNCHANGED <<clusterId, inbox, nodeStatus>>

\* The driver sends command cmd for node n.
CallOperate(c, n, cmd) ==
    /\ call[c].pc = "Idle"
    /\ OperateAfterDispatch => HandleReturned(n, "Ok")
    /\ call' = [call EXCEPT ![c] = [Idle EXCEPT !.pc = FirstPc("operate", n), !.op = "operate", !.node = n, !.cmd = cmd]]
    /\ UNCHANGED <<clusterId, inbox, nodeStatus>>

Goto(c, pc) == call' = [call EXCEPT ![c].pc = pc]

(***************************************************************************)
(* SoftwareComputingUsecaseService::handle_usecase.                        *)
(***************************************************************************)

\* self.parse_task(node_spec).await? (its Err is CallFails).
Parse(c) == /\ call[c].pc = "Parse" /\ Goto(c, "Cluster") /\ UNCHANGED <<clusterId, inbox, nodeStatus>>

\* self.cluster_repository.get_random_cluster().await?
GetRandomCluster(c) ==
    /\ call[c].pc = "Cluster"
    /\ \E cl \in Clusters : call' = [call EXCEPT ![c].pc = "Get", ![c].cluster = cl]
    /\ UNCHANGED <<clusterId, inbox, nodeStatus>>

\* node_instance_repository.get_by_id(..).await?, then update(..).await?
\* of the copy with cluster_id set: the change is staged.
GetNodeInstance(c) == /\ call[c].pc = "Get" /\ Goto(c, "Update") /\ UNCHANGED <<clusterId, inbox, nodeStatus>>
UpdateNodeInstance(c) == /\ call[c].pc = "Update" /\ Goto(c, "Save") /\ UNCHANGED <<clusterId, inbox, nodeStatus>>

\* Mutant: the update is staged but save_changed commits nothing.
SaveChangedNoCommit(c) ==
    /\ call[c].pc = "Save"
    /\ Goto(c, "Send")
    /\ UNCHANGED <<clusterId, inbox, nodeStatus>>

\* node_instance_repository.save_changed().await?: cluster_id is stored.
SaveChanged(c) ==
    /\ call[c].pc = "Save"
    /\ clusterId' = [clusterId EXCEPT ![call[c].node] = call[c].cluster]
    /\ Goto(c, "Send")
    /\ UNCHANGED <<inbox, nodeStatus>>

\* task_distribution_service.send_task(&task, cluster_id).await, whose
\* result is the handler's.
SendTask(c) ==
    /\ call[c].pc = "Send"
    /\ inbox' = [inbox EXCEPT ![call[c].cluster] = Append(@, [t |-> "Task", node |-> call[c].node])]
    /\ Goto(c, "Sent")
    /\ UNCHANGED <<clusterId, nodeStatus>>

(***************************************************************************)
(* SoftwareComputingUsecaseService::operate_task.                          *)
(***************************************************************************)

\* Mutant: the command goes to a cluster of get_random_cluster, not to
\* the recorded cluster_id.
OperateGetClusterRandom(c) ==
    /\ call[c].pc = "OGet"
    /\ \E cl \in Clusters : call' = [call EXCEPT ![c].pc = "OSend", ![c].cluster = cl]
    /\ UNCHANGED <<clusterId, inbox, nodeStatus>>

\* get_by_id(..).await?.cluster_id.ok_or(..)?
OperateGetCluster(c) ==
    /\ call[c].pc = "OGet"
    /\ LET cl == clusterId[call[c].node]
       IN IF cl = None THEN Goto(c, "Err")
          ELSE call' = [call EXCEPT ![c].pc = "OSend", ![c].cluster = cl]
    /\ UNCHANGED <<clusterId, inbox, nodeStatus>>

\* send_task(&Task { id, body: vec![], command }, cluster_id).await
OperateSend(c) ==
    /\ call[c].pc = "OSend"
    /\ inbox' = [inbox EXCEPT ![call[c].cluster] = Append(@, [t |-> "Cmd", node |-> call[c].node, cmd |-> call[c].cmd])]
    /\ Goto(c, "Sent")
    /\ UNCHANGED <<clusterId, nodeStatus>>

(***************************************************************************)
(* NoActionUsecaseService: handle_usecase and operate_task publish one      *)
(* TaskResult on node_status (send_object(.., Some("node_status")).await?).  *)
(***************************************************************************)

Publish(c) ==
    /\ call[c].pc = "Publish"
    /\ LET status == IF call[c].op = "handle" THEN "Success" ELSE CommandStatus(call[c].cmd)
       IN nodeStatus' = Append(nodeStatus, [id |-> call[c].node, status |-> status])
    /\ answered' = Append(answered, IF call[c].op = "handle" THEN "handle" ELSE call[c].cmd)
    /\ Goto(c, "Sent")
    /\ UNCHANGED <<clusterId, inbox>>

\* The answer of a send arrives: the handler returns Ok.
Answer(c) == /\ call[c].pc = "Sent" /\ Goto(c, "Ok") /\ UNCHANGED <<clusterId, inbox, nodeStatus>>

\* An awaited call returns Err, before taking effect or (LateErr) after
\* the send was delivered; the ? returns it.
FailingPcs ==
    (IF "Err" \in Faults THEN {"Parse", "Cluster", "Get", "Update", "Save", "Send", "OGet", "OSend", "Publish"} ELSE {})
    \cup (IF "LateErr" \in Faults THEN {"Sent"} ELSE {})

CallFails(c) ==
    /\ call[c].pc \in FailingPcs
    /\ Goto(c, "Err")
    /\ UNCHANGED <<clusterId, inbox, nodeStatus>>

\* Only Publish extends the history of answered requests.
Next ==
    \E c \in Calls :
        \/ Publish(c)
        \/ /\ UNCHANGED answered
           /\ \/ \E n \in Nodes : CallHandle(c, n) \/ \E cmd \in Commands : CallOperate(c, n, cmd)
              \/ Parse(c) \/ GetRandomCluster(c) \/ GetNodeInstance(c) \/ UpdateNodeInstance(c)
              \/ SaveChanged(c) \/ SendTask(c)
              \/ OperateGetCluster(c) \/ OperateSend(c)
              \/ Answer(c)
              \/ CallFails(c)

Spec == Init /\ [][Next]_vars

-----------------------------------------------------------------------------

IsTask(e, n) == e.t = "Task" /\ e.node = n
IsCmd(e, n) == e.t = "Cmd" /\ e.node = n

\* The clusters send_task delivered n's task to.
TaskHolders(n) == {cl \in Clusters : \E i \in DOMAIN inbox[cl] : IsTask(inbox[cl][i], n)}

\* Every command operate_task sends for a node reaches the one cluster
\* that holds the node's task, after the task: the cluster_id that
\* handle_usecase saves before send_task is where the task is and stays
\* the only place it is, so a Pause or Delete is never lost on a cluster
\* that does not run the task while another runs it.
CommandsReachTask ==
    \A cl \in Clusters, n \in Nodes :
        \A i \in DOMAIN inbox[cl] :
            IsCmd(inbox[cl][i], n) =>
                /\ TaskHolders(n) = {cl}
                /\ \E j \in 1..(i - 1) : IsTask(inbox[cl][j], n)

\* Once handle_usecase has returned Ok for a software node, the node
\* instance's stored cluster_id names a cluster that holds the node's task:
\* the saved record and the delivered task agree, whatever failed and was
\* retried before, so operate_task and anything else reading cluster_id
\* find the task there.
RecordedClusterHoldsTask ==
    \A n \in Nodes :
        Kind[n] = "Software" /\ HandleReturned(n, "Ok") => clusterId[n] \in TaskHolders(n)

\* The cluster a node's task was delivered to, None before.
Placed == [n \in Nodes |-> IF TaskHolders(n) = {} THEN None ELSE CHOOSE cl \in TaskHolders(n) : TRUE]

\* node_status with each entry's request, from the history.
AnsweredStatus == [i \in DOMAIN nodeStatus |-> [id |-> nodeStatus[i].id, req |-> answered[i], status |-> nodeStatus[i].status]]

Abstract == INSTANCE TaskDispatch WITH placed <- Placed, nodeStatus <- AnsweredStatus

\* The handlers implement TaskDispatch: every step either changes no
\* abstract state or is one abstract step.  A software node's task is
\* delivered once, to one cluster, and only send_task of handle_usecase
\* delivers it; every command goes to that cluster after the task; a
\* no-action node gets Success when handled and the command's status when
\* commanded, on node_status only.
DispatchRefines == Abstract!Spec

=============================================================================
