---------------------------- MODULE TaskDispatch ----------------------------
(***************************************************************************)
(* What the use-case dispatchers promise (spec sections 2, 6 and 8), with  *)
(* each handler one atomic step.  A software node is placed once on a     *)
(* cluster the placement collaborator chose, and its task is delivered    *)
(* there; every command for it goes to the cluster it is placed on.  A    *)
(* no-action node runs nothing and is answered on node_status: Success    *)
(* when handled, and the status of the command when commanded.            *)
(*                                                                         *)
(* UsecaseDispatch implements this specification under the refinement    *)
(* mapping it states (DispatchRefines).                                   *)
(***************************************************************************)
EXTENDS Sequences

CONSTANTS Nodes, Kind, Clusters, Commands, None

VARIABLES
    placed,     \* node -> the cluster holding its task, None before dispatch
    inbox,      \* cluster -> the tasks and commands it received, in order
    nodeStatus  \* the node_status topic, each entry with the request it answers

vars == <<placed, inbox, nodeStatus>>

\* The status a no-action node reports for a command.
StatusOf(cmd) ==
    CASE cmd \in {"Start", "Continue"} -> "Success"
      [] cmd = "Pause" -> "Paused"
      [] cmd = "Delete" -> "Deleted"

Init ==
    /\ placed = [n \in Nodes |-> None]
    /\ inbox = [cl \in Clusters |-> <<>>]
    /\ nodeStatus = <<>>

\* A software node is placed on cl and its task delivered there, once.
Dispatch(n, cl) ==
    /\ Kind[n] = "Software"
    /\ placed[n] = None
    /\ placed' = [placed EXCEPT ![n] = cl]
    /\ inbox' = [inbox EXCEPT ![cl] = Append(@, [t |-> "Task", node |-> n])]
    /\ UNCHANGED nodeStatus

\* A command follows a placed node's task to its cluster.
Command(n, cmd) ==
    /\ Kind[n] = "Software"
    /\ placed[n] # None
    /\ inbox' = [inbox EXCEPT ![placed[n]] = Append(@, [t |-> "Cmd", node |-> n, cmd |-> cmd])]
    /\ UNCHANGED <<placed, nodeStatus>>

\* The status that answers a request: Success for "handle", else the
\* command's.
ResultOf(req) == IF req = "handle" THEN "Success" ELSE StatusOf(req)

\* A no-action node is answered at once, with the status of the request.
Report(n, req) ==
    /\ Kind[n] = "NoAction"
    /\ nodeStatus' = Append(nodeStatus, [id |-> n, req |-> req, status |-> ResultOf(req)])
    /\ UNCHANGED <<placed, inbox>>

Next ==
    \/ \E n \in Nodes, cl \in Clusters : Dispatch(n, cl)
    \/ \E n \in Nodes, cmd \in Commands : Command(n, cmd)
    \/ \E n \in Nodes, req \in {"handle"} \cup Commands : Report(n, req)

Spec == Init /\ [][Next]_vars

=============================================================================
