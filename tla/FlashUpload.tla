----------------------------- MODULE FlashUpload -----------------------------
(***************************************************************************)
(* FileMoveService::if_possible_do_flash_upload (kernel/src/services/file/ *)
(* mover.rs): content-hash deduplication at upload time.  The handler asks *)
(* the destination's collaborator whether a file with the hash is already  *)
(* stored; on a hit it records the existing meta (already_id) for the new  *)
(* logical file and then ends with the FlashUpload signal, which the       *)
(* caller turns into success-by-dedup.  It never touches the registration  *)
(* repository.                                                             *)
(*                                                                         *)
(* The collaborators' stores are external: which stored meta a query      *)
(* returns is a nondeterministic choice among StoredMetas, a miss among    *)
(* None.  Each awaited call is one step of a caller process.               *)
(***************************************************************************)
EXTENDS Naturals, FiniteSets

CONSTANTS
    Metas,          \* meta ids of files being uploaded (info.meta_id)
    StoredMetas,    \* meta ids already stored, answers of satisfy_flash_upload
    Users,
    NoUser,         \* info.user_id = None
    Callers,        \* concurrent invocations
    None,
    CollaboratorsFail

ASSUME Metas \cap StoredMetas = {} /\ NoUser \notin Users
ASSUME CollaboratorsFail \in BOOLEAN

Dests == {"Snapshot", "StorageServer"}

\* The MoveRegistration argument; netDisk is record_net_disk.is_some().
FlashInfo == [meta: Metas, dest: Dests, user: Users \cup {NoUser}, netDisk: BOOLEAN]

VARIABLES
    snapshots,   \* snapshot records made by snapshot_service.create_record
    netDisk,     \* net-disk files made by net_disk_service.create_file
    signals,     \* FlashUpload signals returned to callers
    proc         \* per caller: pc, the info and the already_id found

vars == <<snapshots, netDisk, signals, proc>>

Idle == [pc |-> "Idle", info |-> None, already |-> None]

\* The FlashUpload error value: destination, meta_id, already_id (the hash
\* is the info's and is abstracted away).
Signal(i, already) == [dest |-> i.dest, meta |-> i.meta, netDisk |-> i.netDisk,
                       user |-> i.user, already |-> already]

Init ==
    /\ snapshots = {}
    /\ netDisk = {}
    /\ signals = {}
    /\ proc = [c \in Callers |-> Idle]

\* Mutant: the user_id.ok_or(..)? of the Snapshot branch is dropped.
FlashQueryNoUserCheck(c, i, already) ==
    /\ proc[c].pc = "Idle"
    /\ IF i.dest = "StorageServer" /\ ~i.netDisk
       THEN /\ signals' = signals \cup {Signal(i, already)}
            /\ UNCHANGED proc
       ELSE /\ proc' = [proc EXCEPT ![c] = [info |-> i, already |-> already,
                          pc |-> IF i.dest = "Snapshot" THEN "CreateRecord" ELSE "CreateFile"]]
            /\ UNCHANGED signals
    /\ UNCHANGED <<snapshots, netDisk>>

\* satisfy_flash_upload(hash, algorithm) on the destination's collaborator.
\* A miss returns Ok(()) and changes nothing.  On a Snapshot hit the record
\* is built with user_id.ok_or(..)? before create_record: no user ends the
\* handler with Err and changes nothing.  A StorageServer hit without
\* record_net_disk goes straight to bail!(FlashUpload).
FlashQuery(c, i, already) ==
    /\ proc[c].pc = "Idle"
    /\ i.dest = "Snapshot" => i.user # NoUser
    /\ IF i.dest = "StorageServer" /\ ~i.netDisk
       THEN /\ signals' = signals \cup {Signal(i, already)}
            /\ UNCHANGED proc
       ELSE /\ proc' = [proc EXCEPT ![c] = [info |-> i, already |-> already,
                          pc |-> IF i.dest = "Snapshot" THEN "CreateRecord" ELSE "CreateFile"]]
            /\ UNCHANGED signals
    /\ UNCHANGED <<snapshots, netDisk>>

\* Mutant: the signal is returned without awaiting create_record.
FlashCreateRecordSkipped(c) ==
    /\ proc[c].pc = "CreateRecord"
    /\ signals' = signals \cup {Signal(proc[c].info, proc[c].already)}
    /\ proc' = [proc EXCEPT ![c] = Idle]
    /\ UNCHANGED <<snapshots, netDisk>>

\* snapshot_service.create_record(Snapshot { meta_id: already_id, user_id, .. }), then bail!
FlashCreateRecord(c) ==
    /\ proc[c].pc = "CreateRecord"
    /\ snapshots' = snapshots \cup {[meta |-> proc[c].already, user |-> proc[c].info.user]}
    /\ signals' = signals \cup {Signal(proc[c].info, proc[c].already)}
    /\ proc' = [proc EXCEPT ![c] = Idle]
    /\ UNCHANGED netDisk

\* net_disk_service.create_file(CreateNetDiskFileCommand { meta_id: already_id, .. }), then bail!
FlashCreateFile(c) ==
    /\ proc[c].pc = "CreateFile"
    /\ netDisk' = netDisk \cup {proc[c].already}
    /\ signals' = signals \cup {Signal(proc[c].info, proc[c].already)}
    /\ proc' = [proc EXCEPT ![c] = Idle]
    /\ UNCHANGED snapshots

\* create_record or create_file returns Err: the handler ends with that error.
FlashCallFails(c) ==
    /\ CollaboratorsFail
    /\ proc[c].pc \in {"CreateRecord", "CreateFile"}
    /\ proc' = [proc EXCEPT ![c] = Idle]
    /\ UNCHANGED <<snapshots, netDisk, signals>>

Next ==
    \E c \in Callers :
        \/ \E i \in FlashInfo, already \in StoredMetas : FlashQuery(c, i, already)
        \/ FlashCreateRecord(c)
        \/ FlashCreateFile(c)
        \/ FlashCallFails(c)

Spec == Init /\ [][Next]_vars

TypeOK ==
    /\ snapshots \subseteq [meta: StoredMetas \cup Metas, user: Users]
    /\ netDisk \subseteq StoredMetas \cup Metas
    /\ signals \subseteq [dest: Dests, meta: Metas, netDisk: BOOLEAN,
                          user: Users \cup {NoUser}, already: StoredMetas]
    /\ \A c \in Callers : proc[c].pc \in {"Idle", "CreateRecord", "CreateFile"}

\* The caller takes a FlashUpload signal as success: the file is then
\* reachable only through what the handler recorded.  So every signal is
\* backed by its record: a Snapshot signal by a snapshot of already_id for
\* the signalled user, a StorageServer signal with record_net_disk by a
\* net-disk file of already_id; and nothing is ever recorded under the new
\* meta_id, whose content is never stored (spec scenario 4).
FlashSignalBacked ==
    /\ \A sg \in signals :
          /\ sg.dest = "Snapshot" => [meta |-> sg.already, user |-> sg.user] \in snapshots
          /\ sg.dest = "StorageServer" /\ sg.netDisk => sg.already \in netDisk
    /\ \A s \in snapshots : s.meta \in StoredMetas
    /\ netDisk \subseteq StoredMetas

=============================================================================
