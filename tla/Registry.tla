------------------------------ MODULE Registry ------------------------------
(* The operation registry of the Kernel (journal/registry_ops.rs,           *)
(* harness_ops.rs, harness_activation_ops.rs, activation_core.rs): which    *)
(* operations a Run may call and which harness manifest each one is bound   *)
(* to.  A snapshot is immutable and its identifier is a digest of the       *)
(* content it is created with, so here an identifier IS that content:       *)
(*   ops      the external operations, each bound to a manifest at a risk;  *)
(*   hooks    whether it carries the bootstrap hook bindings;               *)
(*   time     whether it still holds the retired builtin time.now;          *)
(*   control  whether it holds the coding control operation.                *)
(* The rows stored under an identifier may be fewer: a snapshot that is not *)
(* created by an activation is written row by row, each one committed, and  *)
(* an identifier that is there is taken as it is.  Loading a snapshot reads *)
(* the rows and compares them with nothing.                                 *)
(* registry_state holds the active snapshot in the database; the process    *)
(* keeps a copy of that identifier in memory, which new Runs read.          *)
EXTENDS Naturals, FiniteSets

CONSTANTS
    Manifests,      \* the harness manifests, identified by their digest
    Ops,            \* external operation names
    OperationName,  \* the operation a manifest is for
    NameOrder,      \* the place of an operation's name in the sort order
    Defect,         \* what is wrong with a manifest, or "none"
    Interruptions,  \* after how many of its operations a snapshot may be cut short
    NoBinding,      \* an operation that is not in a snapshot
    NoSnapshot,     \* no registry_state row; an empty in-memory cache
    LegacySnapshots \* what an older release may have left active

ASSUME ManifestsName ==
    /\ OperationName \in [Manifests -> Ops]
    /\ Defect \in [Manifests -> {"none", "endpoint", "schema", "digest"}]

(* The builtin operations that a snapshot may lack have names too. *)
Names == Ops \cup {"time.now", "external.coding_task_submit"}

ASSUME NamesAreOrdered ==
    /\ NameOrder \in [Names -> 1..Cardinality(Names)]
    /\ Interruptions \subseteq 0..Cardinality(Names)

VARIABLES
    snaps,          \* rows of registry_snapshots: what is stored, by identifier
    active,         \* registry_state.active_snapshot_id
    cache,          \* JournalStore.current_snapshot_id, lost with the process
    manifests       \* rows of harness_manifests

registryVars == <<snaps, active, cache, manifests>>

Bindings == [manifest : Manifests, risk : {"ReadOnly", "Write"}]

Snapshots == [ops : [Ops -> Bindings \cup {NoBinding}],
              hooks : BOOLEAN, time : BOOLEAN, control : BOOLEAN]

ASSUME LegacySnapshotsAre == LegacySnapshots \subseteq Snapshots

Bare == [op \in Ops |-> NoBinding]

(* The snapshot a first boot creates. *)
builtin_specs == [ops |-> Bare, hooks |-> TRUE, time |-> FALSE, control |-> TRUE]

(* The content a snapshot has in the database. *)
load_registry_snapshot(id) == snaps[id]

Whole(id) == load_registry_snapshot(id) = id

lookup(s, op) == s.ops[op] # NoBinding

With(s, m, risk) ==
    [s EXCEPT !.ops[OperationName[m]] = [manifest |-> m, risk |-> risk]]

(***************************************************************************)
(* Boot.  A database is new, or was left by an older release: without the  *)
(* hook bindings, with the retired clock, without the control operation.   *)
(***************************************************************************)
RegistryInit ==
    /\ active \in LegacySnapshots \cup {NoSnapshot}
    /\ snaps = [s \in {active} \ {NoSnapshot} |-> s]
    /\ cache = NoSnapshot
    /\ manifests = {}

retire_legacy_builtin_time(s) ==
    [s EXCEPT !.time = FALSE, !.control = TRUE, !.hooks = TRUE]

ensure_required_hook_bindings(s) == [s EXCEPT !.hooks = TRUE]

ensure_coding_control_operations(s) == [s EXCEPT !.control = TRUE]

(* The snapshot boot activates first, when the active one is old.  One that *)
(* lost its hook bindings and leads back to itself is left as it is.        *)
upgrade(id) ==
    LET s == load_registry_snapshot(id) IN
    IF s.time THEN {retire_legacy_builtin_time(s)}
    ELSE IF ~s.hooks THEN {ensure_required_hook_bindings(s)} \ {id}
    ELSE {}

(* The snapshot boot activates after that, or when there is none. *)
seed(id) ==
    LET s == load_registry_snapshot(id) IN
    IF s.control THEN {} ELSE {ensure_coding_control_operations(s)}

Stored(s, content) ==
    [t \in DOMAIN snaps \cup {s} |-> IF t = s THEN content ELSE snaps[t]]

(* Snapshots are content addressed: creating one that exists returns it. *)
create_registry_snapshot(s) ==
    snaps' = IF s \in DOMAIN snaps THEN snaps ELSE Stored(s, s)

(* What is there when only the first n operations, by name, were inserted;  *)
(* the hook bindings come after the operations.                             *)
Rows(s, n) ==
    [ops     |-> [op \in Ops |-> IF NameOrder[op] <= n THEN s.ops[op] ELSE NoBinding],
     hooks   |-> FALSE,
     time    |-> s.time /\ NameOrder["time.now"] <= n,
     control |-> s.control /\ NameOrder["external.coding_task_submit"] <= n]

(* The process stopped, or an insert failed, after the header row. *)
create_is_interrupted(s) ==
    /\ s \notin DOMAIN snaps
    /\ \E n \in Interruptions : snaps' = Stored(s, Rows(s, n))

(* Compare and set on registry_state, for boot and for enable/disable.  The *)
(* in-memory copy is written after the commit, by set_cache below.          *)
activate_snapshot(expected, s) ==
    /\ active = expected
    /\ s \in DOMAIN snaps
    /\ active' = s
    /\ UNCHANGED <<snaps, cache, manifests>>

(* Faulty variant: the in-memory copy is left as it was. *)
keep_cache(id) == UNCHANGED registryVars

(* The in-memory copy becomes the snapshot that was activated. *)
set_cache(id) ==
    /\ cache' = id
    /\ UNCHANGED <<snaps, active, manifests>>

(***************************************************************************)
(* Harness manifests, and the snapshot an enable or a disable leads to     *)
(* (none when the manifest is unknown or there is nothing to change).      *)
(***************************************************************************)
validate_endpoint(m) == Defect[m] # "endpoint"

validate_schema_structure(m) == Defect[m] # "schema"

validate_all(m) == validate_endpoint(m) /\ validate_schema_structure(m) /\ Defect[m] # "digest"

(* Operators register one manifest per operation; the activations below add *)
(* further ones for it. *)
OperationIsFree(m) ==
    m \in manifests \/ \A other \in manifests : OperationName[other] # OperationName[m]

register_harness_manifest(m) ==
    /\ manifests' = IF validate_all(m) /\ OperationIsFree(m) THEN manifests \cup {m} ELSE manifests
    /\ UNCHANGED <<snaps, active, cache>>

enable_harness(m) ==
    LET current == load_registry_snapshot(cache) IN
    IF m \in manifests /\ ~lookup(current, OperationName[m])
    THEN {With(current, m, "Write")} ELSE {}

disable_harness(m) ==
    LET current == load_registry_snapshot(cache) IN
    IF m \in manifests /\ lookup(current, OperationName[m])
    THEN {[current EXCEPT !.ops[OperationName[m]] = NoBinding]} ELSE {}

(***************************************************************************)
(* The core of every approved capability change: insert the manifest and   *)
(* the new snapshot, then compare and set.  The snapshot row is INSERTed,  *)
(* never reused: a change that leads back to a snapshot that already       *)
(* exists is refused, and the whole transaction with it.  The lists of     *)
(* operations below are made from snapshots as they were loaded.           *)
(***************************************************************************)
register_harness_manifest_in_tx(m) == manifests' = manifests \cup {m}

inherit_hook_bindings(s) == [s EXCEPT !.hooks = TRUE]

activate_registry_tx(expected, s) ==
    /\ active = expected
    /\ s \notin DOMAIN snaps
    /\ snaps' = Stored(s, s)
    /\ active' = s
    /\ UNCHANGED cache

(* Faulty variant: the new list starts from the builtin operations only. *)
capability_specs_from_builtins(source, m) ==
    IF lookup(source, OperationName[m]) THEN {}
    ELSE {inherit_hook_bindings(With(builtin_specs, m, "ReadOnly"))}

(* The snapshot a trusted capability is to become part of: none when its    *)
(* operation is taken.                                                      *)
capability_specs(source, m) ==
    IF lookup(source, OperationName[m]) THEN {}
    ELSE {inherit_hook_bindings(With(source, m, "ReadOnly"))}

(* A proposal from the administrative route: a new operation needs an       *)
(* approval for each call. *)
proposal_specs(source, m) == {inherit_hook_bindings(With(source, m, "Write"))}

(* A replacement keeps the operation's risk; the operation must still be    *)
(* bound as the proposal saw it. *)
schema_upgrade_specs(expected, m) ==
    LET op == OperationName[m]
        current == load_registry_snapshot(active) IN
    IF lookup(current, op) /\ expected.ops[op] = current.ops[op]
        /\ current.ops[op].manifest \in manifests
    THEN {inherit_hook_bindings(With(current, m, current.ops[op].risk))}
    ELSE {}
=============================================================================
