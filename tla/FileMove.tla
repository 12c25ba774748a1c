------------------------------ MODULE FileMove ------------------------------
(***************************************************************************)
(* The file-move coordinator FileMoveService (kernel/src/services/file/    *)
(* mover.rs).  It keeps MoveRegistrations in a key-leased repository under *)
(* the key "movereg_{move_id}_{meta_id}" and coordinates what happens to   *)
(* an uploaded file (meta_id) once its upload is complete.                 *)
(*                                                                         *)
(* Every awaited collaborator call is a suspension point, so a handler is  *)
(* modelled as a caller process with a program counter: one action per    *)
(* awaited call, the handler's local variables kept in proc[c].  Handlers  *)
(* that make a single call (register_move, remove_all_with_meta_id) are    *)
(* one atomic action.  if_possible_do_flash_upload touches no             *)
(* registration and is modelled in FlashUpload.  Pure reads (get_move_info,*)
(* get_user_id) change nothing and appear as operators.                    *)
(*                                                                         *)
(* Keys: a registration is identified by its move id (a model value); the  *)
(* meta id is a field.  A key-regex scan "movereg_*_{meta}" returns the    *)
(* registrations of that meta in an unspecified order, modelled as any     *)
(* ordering.                                                               *)
(***************************************************************************)
EXTENDS Naturals, Sequences, FiniteSets, SequencesExt

CONSTANTS
    Moves,          \* move ids (registration ids)
    Metas,          \* meta ids of uploaded files
    Users,          \* user ids
    NoUser,         \* the absent user_id (Option::None)
    RegUsers,       \* user values a registration may carry (Users, or Users \cup {NoUser})
    Callers,        \* concurrent handler invocations (tasks)
    None,           \* an absent registry entry / unset local
    \* Environment assumptions, each checked on and off by some run:
    SingleDestinationPerMeta,  \* all registrations of one meta share a destination kind
    RegisterBeforeCompletion,  \* register_move(meta) never follows do_registered_moves(meta)
    CollaboratorsFail          \* an awaited collaborator call may return Err

ASSUME RegUsers \subseteq Users \cup {NoUser}
ASSUME NoUser \notin Users /\ None \notin Moves \cup Metas \cup Users
ASSUME {SingleDestinationPerMeta, RegisterBeforeCompletion, CollaboratorsFail} \subseteq BOOLEAN

Dests == {"Snapshot", "StorageServer"}

\* MoveRegistration, with the fields the coordinator's control depends on.
\* file_name, hash, hash_algorithm, size and failed_reason are data the
\* handlers only copy; they are abstracted away.
Registration == [meta: Metas, dest: Dests, user: Users \cup {NoUser}, failed: BOOLEAN]

\* A registration as read into a handler's local list.
Entry == [move: Moves, reg: Registration]

VARIABLES
    repo,          \* the registration repository: move id -> Registration or None
    snapshots,     \* snapshot records created through the snapshot service
    multipart,     \* metas whose multipart artifacts still exist
    uploadQueue,   \* FileUploadCommands published on the upload topic
    proc,          \* per caller: the handler it is running and its locals
    \* history variables, read only by properties and environment guards
    issued,        \* move id -> the Registration it was registered with, or None
    completing,    \* metas for which do_registered_moves has begun
    callerRemoved  \* moves removed by remove_all_with_meta_id

vars == <<repo, snapshots, multipart, uploadQueue, proc,
          issued, completing, callerRemoved>>

Idle == [op |-> "Idle", pc |-> "Idle", meta |-> None, list |-> <<>>,
         user |-> None]

Init ==
    /\ repo = [m \in Moves |-> None]
    /\ snapshots = {}
    /\ multipart = Metas
    /\ uploadQueue = {}
    /\ proc = [c \in Callers |-> Idle]
    /\ issued = [m \in Moves |-> None]
    /\ completing = {}
    /\ callerRemoved = {}

(***************************************************************************)
(* Repository helpers.                                                     *)
(***************************************************************************)

\* get_all_by_key_regex(meta_id_key_regex(meta)): the registrations of a
\* meta, in any order.
RegsOf(meta) == {m \in Moves : repo[m] # None /\ repo[m].meta = meta}
ScanByMeta(meta) == SetToSeqs({[move |-> m, reg |-> repo[m]] : m \in RegsOf(meta)})

\* remove_all_by_key_regex(meta_id_key_regex(meta))
RemovedByMeta(meta) == [m \in Moves |-> IF m \in RegsOf(meta) THEN None ELSE repo[m]]

\* inner_get_user_id: get_user_by_key_regex(move_id_key_regex(move))
UserOfMove(m) == IF repo[m] = None THEN NoUser ELSE repo[m].user

\* inner_get_move_info: get_one_by_key_regex(move_id_key_regex(move))
MoveInfo(m) == repo[m]

(***************************************************************************)
(* register_move: insert_with_lease(key(id, meta), info).  The guards on   *)
(* the environment flags restrict which registrations callers make.        *)
(***************************************************************************)
RegisterMove(m, r) ==
    /\ issued[m] = None
    /\ SingleDestinationPerMeta =>
          \A o \in Moves : issued[o] # None /\ issued[o].meta = r.meta => issued[o].dest = r.dest
    /\ RegisterBeforeCompletion => r.meta \notin completing
    /\ ~r.failed
    /\ repo' = [repo EXCEPT ![m] = r]
    /\ issued' = [issued EXCEPT ![m] = r]
    /\ UNCHANGED <<snapshots, multipart, uploadQueue, proc,
                   completing, callerRemoved>>

(***************************************************************************)
(* do_registered_moves(meta).                                              *)
(***************************************************************************)

\* Mutant: the Snapshot branch skips snapshot_service.create.
DoPcSkipCreate(l) == IF Head(l).reg.dest = "Snapshot" THEN "DoMultipartRemove" ELSE "DoGetUserId"

\* Where the loop over the read registrations goes next.
DoPc(l) == IF Head(l).reg.dest = "Snapshot" THEN "DoSnapshotCreate" ELSE "DoGetUserId"

\* Mutant: the loop returns after the first registration.
DoContinueFirstOnly(c, l) == proc' = [proc EXCEPT ![c] = Idle]

\* Advance the loop to the rest l of the list, or return Ok(()) when empty.
DoContinue(c, l) ==
    proc' = [proc EXCEPT ![c] = IF l = <<>> THEN Idle
                                ELSE [@ EXCEPT !.pc = DoPc(l), !.list = l, !.user = None]]

\* An early return by `?`: the handler ends with Err.
Abort(c) == proc' = [proc EXCEPT ![c] = Idle]

DoRead(c, meta) ==
    /\ proc[c].pc = "Idle"
    /\ \E l \in ScanByMeta(meta) :
          proc' = [proc EXCEPT ![c] = IF l = <<>> THEN Idle
                                      ELSE [Idle EXCEPT !.op = "Do", !.meta = meta,
                                                        !.pc = DoPc(l), !.list = l]]
    /\ completing' = completing \cup {meta}
    /\ UNCHANGED <<repo, snapshots, multipart, uploadQueue,
                   issued, callerRemoved>>

\* Snapshot branch: snapshot_service.create(...) with the user of the local copy.
DoSnapshotCreate(c) ==
    LET e == Head(proc[c].list) IN
    /\ proc[c].pc = "DoSnapshotCreate"
    /\ e.reg.user # NoUser
    /\ snapshots' = snapshots \cup {[move |-> e.move, meta |-> e.reg.meta, user |-> e.reg.user]}
    /\ proc' = [proc EXCEPT ![c].pc = "DoMultipartRemove"]
    /\ UNCHANGED <<repo, multipart, uploadQueue, issued, completing, callerRemoved>>

\* user_id.ok_or("No user_id when insert snapshot")?
DoSnapshotNoUser(c) ==
    /\ proc[c].pc = "DoSnapshotCreate"
    /\ Head(proc[c].list).reg.user = NoUser
    /\ Abort(c)
    /\ UNCHANGED <<repo, snapshots, multipart, uploadQueue, issued, completing, callerRemoved>>

\* Mutant: the multipart_service.remove call is dropped.
DoMultipartRemoveSkipped(c) ==
    /\ proc[c].pc = "DoMultipartRemove"
    /\ proc' = [proc EXCEPT ![c].pc = "DoRemoveAll"]
    /\ UNCHANGED <<repo, snapshots, multipart, uploadQueue, issued, completing, callerRemoved>>

\* multipart_service.remove(meta_id)
DoMultipartRemove(c) ==
    /\ proc[c].pc = "DoMultipartRemove"
    /\ multipart' = multipart \ {Head(proc[c].list).reg.meta}
    /\ proc' = [proc EXCEPT ![c].pc = "DoRemoveAll"]
    /\ UNCHANGED <<repo, snapshots, uploadQueue, issued, completing, callerRemoved>>

\* move_registration_repo.remove_all_by_key_regex(meta_id_key_regex(meta_id)),
\* then the next registration of the local list.
DoRemoveAll(c) ==
    /\ proc[c].pc = "DoRemoveAll"
    /\ repo' = RemovedByMeta(Head(proc[c].list).reg.meta)
    /\ DoContinue(c, Tail(proc[c].list))
    /\ UNCHANGED <<snapshots, multipart, uploadQueue, issued, completing, callerRemoved>>

\* Mutant: the ok_or on the user read back is dropped.
DoGetUserIdUnchecked(c) ==
    /\ proc[c].pc = "DoGetUserId"
    /\ proc' = [proc EXCEPT ![c].pc = "DoSendUpload",
                            ![c].user = UserOfMove(Head(proc[c].list).move)]
    /\ UNCHANGED <<repo, snapshots, multipart, uploadQueue, issued, completing, callerRemoved>>

\* StorageServer branch: self.get_user_id(move_id) reads the repository again.
DoGetUserId(c) ==
    /\ proc[c].pc = "DoGetUserId"
    /\ UserOfMove(Head(proc[c].list).move) # NoUser
    /\ proc' = [proc EXCEPT ![c].pc = "DoSendUpload",
                            ![c].user = UserOfMove(Head(proc[c].list).move)]
    /\ UNCHANGED <<repo, snapshots, multipart, uploadQueue, issued, completing, callerRemoved>>

\* .ok_or(anyhow!("No such move_id:{move_id}"))?
DoNoSuchMove(c) ==
    /\ proc[c].pc = "DoGetUserId"
    /\ UserOfMove(Head(proc[c].list).move) = NoUser
    /\ Abort(c)
    /\ UNCHANGED <<repo, snapshots, multipart, uploadQueue, issued, completing, callerRemoved>>

\* Mutant: the StorageServer branch also cleans up the meta's registrations.
DoSendUploadThenRemove(c) ==
    /\ proc[c].pc = "DoSendUpload"
    /\ uploadQueue' = uploadQueue \cup {[move |-> Head(proc[c].list).move, user |-> proc[c].user]}
    /\ repo' = RemovedByMeta(Head(proc[c].list).reg.meta)
    /\ DoContinue(c, Tail(proc[c].list))
    /\ UNCHANGED <<snapshots, multipart, issued, completing, callerRemoved>>

\* send_object(&FileUploadCommand { move_id, user_id }, upload topic); the
\* registration is left in place for the uploader's call back.
DoSendUpload(c) ==
    /\ proc[c].pc = "DoSendUpload"
    /\ uploadQueue' = uploadQueue \cup {[move |-> Head(proc[c].list).move, user |-> proc[c].user]}
    /\ DoContinue(c, Tail(proc[c].list))
    /\ UNCHANGED <<repo, snapshots, multipart, issued, completing, callerRemoved>>

(***************************************************************************)
(* set_all_moves_with_same_meta_id_as_failed(meta): read all, mark the     *)
(* local copies, then update_with_lease each one.  The update writes the   *)
(* whole local copy back ("re-persist"), whether or not the key is still   *)
(* there.                                                                  *)
(***************************************************************************)
SafRead(c, meta) ==
    /\ proc[c].pc = "Idle"
    /\ \E l \in ScanByMeta(meta) :
          proc' = [proc EXCEPT ![c] = IF l = <<>> THEN Idle
                                      ELSE [Idle EXCEPT !.op = "SetAllFailed", !.meta = meta,
                                                        !.pc = "SafUpdate", !.list = l]]
    /\ UNCHANGED <<repo, snapshots, multipart, uploadQueue, issued, completing, callerRemoved>>

SafUpdate(c) ==
    LET e == Head(proc[c].list)
        rest == Tail(proc[c].list)
    IN
    /\ proc[c].pc = "SafUpdate"
    /\ repo' = [repo EXCEPT ![e.move] = [e.reg EXCEPT !.failed = TRUE]]
    /\ proc' = [proc EXCEPT ![c] = IF rest = <<>> THEN Idle ELSE [@ EXCEPT !.list = rest]]
    /\ UNCHANGED <<snapshots, multipart, uploadQueue, issued, completing, callerRemoved>>

(***************************************************************************)
(* set_move_as_failed(move): read one, mark, update_with_lease.  A missing *)
(* move returns Err before any change, which is a stuttering step.         *)
(***************************************************************************)
SmfRead(c, m) ==
    /\ proc[c].pc = "Idle"
    /\ MoveInfo(m) # None
    /\ proc' = [proc EXCEPT ![c] = [Idle EXCEPT !.op = "SetMoveFailed", !.pc = "SmfUpdate",
                                                !.list = <<[move |-> m, reg |-> MoveInfo(m)]>>]]
    /\ UNCHANGED <<repo, snapshots, multipart, uploadQueue, issued, completing, callerRemoved>>

SmfUpdate(c) ==
    LET e == Head(proc[c].list) IN
    /\ proc[c].pc = "SmfUpdate"
    /\ repo' = [repo EXCEPT ![e.move] = [e.reg EXCEPT !.failed = TRUE]]
    /\ proc' = [proc EXCEPT ![c] = Idle]
    /\ UNCHANGED <<snapshots, multipart, uploadQueue, issued, completing, callerRemoved>>

(***************************************************************************)
(* remove_all_with_meta_id(meta): one call, atomic.                        *)
(***************************************************************************)
RemoveAllWithMetaId(meta) ==
    /\ RegsOf(meta) # {}
    /\ repo' = RemovedByMeta(meta)
    /\ callerRemoved' = callerRemoved \cup RegsOf(meta)
    /\ UNCHANGED <<snapshots, multipart, uploadQueue, proc, issued, completing>>

(***************************************************************************)
(* An awaited collaborator call returns Err: the `?` ends the handler.     *)
(***************************************************************************)
CallPcs == {"DoSnapshotCreate", "DoMultipartRemove", "DoRemoveAll", "DoGetUserId",
            "DoSendUpload", "SafUpdate", "SmfUpdate"}

CollaboratorFails(c) ==
    /\ CollaboratorsFail
    /\ proc[c].pc \in CallPcs
    /\ Abort(c)
    /\ UNCHANGED <<repo, snapshots, multipart, uploadQueue, issued, completing, callerRemoved>>

(***************************************************************************)
(* Next state and specification.                                          *)
(***************************************************************************)

\* The steps of a handler already running: the awaited calls complete.
Progress(c) ==
    \/ DoSnapshotCreate(c) \/ DoSnapshotNoUser(c) \/ DoMultipartRemove(c)
    \/ DoRemoveAll(c) \/ DoGetUserId(c) \/ DoNoSuchMove(c) \/ DoSendUpload(c)
    \/ SafUpdate(c) \/ SmfUpdate(c)

\* The callers start handlers when requests and events arrive.
Start(c) ==
    \/ \E meta \in Metas : DoRead(c, meta) \/ SafRead(c, meta)
    \/ \E m \in Moves : SmfRead(c, m)

Next ==
    \/ \E m \in Moves, r \in [meta: Metas, dest: Dests, user: RegUsers, failed: {FALSE}] :
          RegisterMove(m, r)
    \/ \E meta \in Metas : RemoveAllWithMetaId(meta)
    \/ \E c \in Callers : Start(c) \/ Progress(c) \/ CollaboratorFails(c)

\* Handlers are tokio tasks: once started, a task whose awaited call has
\* returned is polled again.  Nothing obliges a request to arrive.
Fairness == \A c \in Callers : WF_vars(Progress(c))

Spec == Init /\ [][Next]_vars /\ Fairness

(***************************************************************************)
(* Properties.                                                             *)
(***************************************************************************)

TypeOK ==
    /\ repo \in [Moves -> Registration \cup {None}]
    /\ issued \in [Moves -> Registration \cup {None}]
    /\ snapshots \subseteq [move: Moves, meta: Metas, user: Users]
    /\ multipart \subseteq Metas
    /\ uploadQueue \subseteq [move: Moves, user: Users]
    /\ \A c \in Callers : proc[c].list \in Seq(Entry)
    /\ completing \subseteq Metas
    /\ callerRemoved \subseteq Moves

\* do_registered_moves publishes a FileUploadCommand and leaves the
\* registration for the uploader, which calls back with get_move_info(move_id)
\* and get_user_id(move_id).  So while the command is outstanding the
\* registration must still be there, unless a caller removed it on purpose
\* with remove_all_with_meta_id.
StorageMoveKeptUntilCalledBack ==
    \A cmd \in uploadQueue : repo[cmd.move] # None \/ cmd.move \in callerRemoved

\* The Snapshot branch deletes every registration of the meta only after the
\* snapshot record exists: a registration that do_registered_moves removed
\* has a snapshot record for its meta and the multipart artifacts are gone.
SnapshotRemovalAfterCreate ==
    \A m \in Moves :
        (issued[m] # None /\ repo[m] = None /\ m \notin callerRemoved) =>
            /\ \E s \in snapshots : s.meta = issued[m].meta
            /\ issued[m].meta \notin multipart

\* A move still on the local list of a running do_registered_moves.
InFlight(m) ==
    \E c \in Callers : proc[c].op = "Do" /\ \E i \in DOMAIN proc[c].list : proc[c].list[i].move = m

\* Every registered move is performed or still pending: its registration is
\* still there, a running do_registered_moves still holds it, a caller removed
\* it, or (Snapshot) its snapshot exists.  A retry of do_registered_moves can
\* only redo what the repository still holds.
MoveNotLost ==
    \A m \in Moves :
        issued[m] # None =>
            \/ repo[m] # None
            \/ InFlight(m)
            \/ m \in callerRemoved
            \/ issued[m].dest = "Snapshot" /\ \E s \in snapshots : s.move = m

\* A registration that do_registered_moves has read is eventually performed
\* (its snapshot created, or its upload command published), unless a caller
\* removed it with remove_all_with_meta_id.
Performed(m) ==
    \/ \E s \in snapshots : s.move = m
    \/ \E cmd \in uploadQueue : cmd.move = m
ReadMoveEventuallyPerformed ==
    \A c \in Callers, m \in Moves :
        (proc[c].op = "Do" /\ \E i \in DOMAIN proc[c].list : proc[c].list[i].move = m)
            ~> (Performed(m) \/ m \in callerRemoved)

=============================================================================
