------------------------- MODULE CapabilityDecision -------------------------
(* The Kernel's one HTTP thread taking registry and capability requests     *)
(* (server/capability_routes.rs, capability_decision.rs, harness_routes.rs),*)
(* the capability host it deploys to, and a Run that uses the result.  The  *)
(* thread serves one request at a time; what interleaves with it are the    *)
(* host's threads, the Run, the passing of time, and crashes of either      *)
(* process between any two steps.                                           *)
EXTENDS Approvals, CapabilityHost

CONSTANTS
    NoRun,          \* there is no Run; nothing pinned
    NoThread,       \* the Kernel is waiting for nobody
    NoAnswer,       \* no decision has been answered since the last request
    OperatorManifests, \* the manifests operators register themselves
    MaxCrashes,     \* how often either process stops or an insert fails
    MaxChanges      \* how many enable and disable requests there are

VARIABLES
    kpc,            \* where the HTTP thread is
    request,        \* the decision or the snapshot being worked on
    waiting,        \* the host thread whose answer is awaited
    answer,         \* the last answer to a decision: [decision, status]
    run,            \* the snapshot a Run is pinned to
    served,         \* ghost: what the host has executed
    crashes, changes

serverVars == <<kpc, request, waiting, answer>>

vars == <<registryVars, approvalVars, hostVars, serverVars, run, served, crashes, changes>>

NoRequest == [decision |-> NoDecision, target |-> NoSnapshot]

Init ==
    /\ RegistryInit /\ ApprovalInit /\ HostInit
    /\ kpc = "boot" /\ request = NoRequest /\ waiting = NoThread
    /\ answer = NoAnswer /\ run = NoRun /\ served = {} /\ crashes = 0 /\ changes = 0

Idle(a) == kpc' = "idle" /\ request' = NoRequest /\ waiting' = NoThread /\ answer' = a

Goto(pc, d, target) ==
    kpc' = pc /\ request' = [decision |-> d, target |-> target] /\ UNCHANGED <<waiting, answer>>

Answer(d, status) == [decision |-> d, status |-> status]

(***************************************************************************)
(* Boot: initialize_registry, one write at a time, before serving.  The    *)
(* copy in memory is what serving starts from, so it is written last.      *)
(***************************************************************************)
(* The snapshots the thread may create where it is now. *)
Creating ==
    CASE kpc = "boot" /\ active = NoSnapshot -> {builtin_specs}
      [] kpc = "boot" /\ active # NoSnapshot ->
            IF upgrade(active) # {} THEN upgrade(active) ELSE seed(active)
      [] kpc = "seed" -> seed(active)
      [] kpc = "idle" /\ changes < MaxChanges ->
            UNION {enable_harness(m) \cup disable_harness(m) : m \in Manifests}
      [] OTHER -> {}

initialize_registry ==
    /\ kpc \in {"boot", "seed"}
    /\ \/ \E target \in Creating :
            /\ create_registry_snapshot(target)
            /\ UNCHANGED <<active, cache, manifests>>
            /\ Goto(IF active = NoSnapshot THEN "init"
                    ELSE IF kpc = "boot" /\ upgrade(active) # {} THEN "upgrade" ELSE "seeding",
                    NoDecision, target)
       \/ Creating = {} /\ set_cache(active) /\ Idle(NoAnswer)
    /\ UNCHANGED <<approvalVars, hostVars, run, served, crashes, changes>>

init_registry_state ==
    /\ kpc = "init"
    /\ activate_snapshot(NoSnapshot, request.target)
    /\ Goto("cache", NoDecision, request.target)
    /\ UNCHANGED <<approvalVars, hostVars, run, served, crashes, changes>>

(* The control operations are seeded after the other upgrades, and last. *)
ActivateUpgrade ==
    /\ kpc \in {"upgrade", "seeding"}
    /\ activate_snapshot(active, request.target)
    /\ IF kpc = "upgrade" THEN Goto("seed", NoDecision, NoSnapshot)
       ELSE Goto("cache", NoDecision, request.target)
    /\ UNCHANGED <<approvalVars, hostVars, run, served, crashes, changes>>

(***************************************************************************)
(* Harness routes.                                                         *)
(***************************************************************************)
handle_register(m) ==
    /\ kpc = "idle"
    /\ m \in OperatorManifests
    /\ register_harness_manifest(m)
    /\ Idle(NoAnswer)
    /\ UNCHANGED <<approvalVars, hostVars, run, served, crashes, changes>>

(* The snapshot is created, then activated against the expected one, which  *)
(* the route has compared with the one in memory.                           *)
handle_change(targets) ==
    /\ kpc = "idle"
    /\ changes < MaxChanges
    /\ changes' = changes + 1
    /\ \E target \in targets :
        /\ create_registry_snapshot(target)
        /\ Goto("change", NoDecision, target)
    /\ UNCHANGED <<active, cache, manifests, approvalVars, hostVars, run, served, crashes>>

handle_enable(m) == handle_change(enable_harness(m))

handle_disable(m) == handle_change(disable_harness(m))

(* An insert failed while the snapshot was created: the request is answered *)
(* with the error, and what was inserted stays.                             *)
ChangeFails ==
    /\ kpc = "idle"
    /\ crashes < MaxCrashes /\ crashes' = crashes + 1
    /\ \E target \in Creating : create_is_interrupted(target)
    /\ Idle(NoAnswer)
    /\ UNCHANGED <<active, cache, manifests, approvalVars, hostVars, run, served, changes>>

activate_registry_snapshot_atomic ==
    /\ kpc = "change"
    /\ activate_snapshot(cache, request.target)
    /\ Goto("cache", NoDecision, request.target)
    /\ UNCHANGED <<approvalVars, hostVars, run, served, crashes, changes>>

(* Every activation ends by writing the in-memory copy, after its commit:   *)
(* the snapshot it committed, whatever registry_state holds by now.         *)
WriteCache ==
    /\ kpc = "cache"
    /\ set_cache(request.target)
    /\ Idle(IF request.decision = NoDecision THEN NoAnswer
            ELSE Answer(request.decision, "Approved"))
    /\ UNCHANGED <<approvalVars, hostVars, run, served, crashes, changes>>

(***************************************************************************)
(* The administrative proposal.                                            *)
(***************************************************************************)
handle_submit_proposal(p) ==
    /\ kpc = "idle"
    /\ create_proposal(p)
    /\ Idle(NoAnswer)
    /\ UNCHANGED <<registryVars, hostVars, run, served, crashes, changes>>

(* The content the proposal names is in the store and the manifest is valid *)
(* and for the operation proposed; otherwise the proposal stays pending.    *)
verify_proposed_content(p) == validate_all(ManifestOf[p])

handle_admin_decision(p, verb) ==
    /\ kpc = "idle"
    /\ p \notin Trusted
    /\ proposal[p].status = "PendingApproval"
    /\ \/ p \in expired /\ expire_proposal(p) /\ UNCHANGED registryVars /\ Idle(NoAnswer)
       \/ p \notin expired /\ verb = "rejected" /\ reject_proposal(p)
            /\ UNCHANGED registryVars /\ Idle(NoAnswer)
       \/ /\ p \notin expired /\ verb = "approved"
          /\ proposal[p].source = cache
          /\ verify_proposed_content(p)
          /\ IF lookup(load_registry_snapshot(cache), OperationName[ManifestOf[p]])
             THEN activate_schema_upgrade(p)
             ELSE activate_proposal(p)
          /\ Goto("cache", NoDecision, active')
    /\ UNCHANGED <<hostVars, run, served, crashes, changes>>

(***************************************************************************)
(* The trusted decision.                                                   *)
(***************************************************************************)
validate_capability_manifest(m) == validate_all(m)

verify_candidate(p) == validate_capability_manifest(ManifestOf[p])

(* The snapshot an approval would activate now, if it still may. *)
prospective_snapshot(p) ==
    IF validate_pending(p)
    THEN capability_specs(load_registry_snapshot(proposal[p].source), ManifestOf[p])
    ELSE {}

DeployRequest(d, target) ==
    [decision |-> d, manifest |-> ManifestOf[d.proposal], target |-> target]

ASSUME NoRecordIsNone == \A d \in Decisions, s \in Snapshots : DeployRequest(d, s) # NoRecord

(* Up to the call to the host: expiry, replay, rejection, or a deployment   *)
(* of the snapshot the approval would activate.                             *)
handle_decision(d) ==
    LET p == d.proposal IN
    /\ kpc = "idle"
    /\ p \in Trusted
    /\ approval[p].status # "None"
    /\ parse_input(d) /\ decision_identity(d)
    /\ \/ /\ expire_trusted_approval(p)
          /\ Idle(NoAnswer)
          /\ UNCHANGED hostVars
       \/ /\ approval[p].status # "Pending"
          /\ load_validated_binding(d) /\ replay_result(d)
          /\ Idle(Answer(d, approval[p].status))
          /\ UNCHANGED <<approvalVars, hostVars>>
       \/ /\ d.verb = "rejected"
          /\ reject_trusted_capability(d)
          /\ Idle(Answer(d, "Rejected"))
          /\ UNCHANGED hostVars
       \/ /\ d.verb = "approved"
          /\ load_validated_binding(d) /\ verify_candidate(p)
          /\ \E target \in prospective_snapshot(p), h \in HostThreads :
                /\ Accept(h, DeployRequest(d, target))
                /\ kpc' = "deploying" /\ waiting' = h /\ answer' = NoAnswer
                /\ request' = [decision |-> d, target |-> target]
          /\ UNCHANGED approvalVars
    /\ UNCHANGED <<registryVars, run, served, crashes, changes>>

(* What an answer of the host means: only its own 400 is a rejection;       *)
(* everything else may have been deployed, and leaves the approval pending  *)
(* for a retry.                                                             *)
deploy(result) ==
    CASE result = "ok"  -> "deployed"
      [] result = "400" -> "rejected"
      [] OTHER          -> "uncertain"

deployment_matches(h) ==
    thread[h].request = DeployRequest(request.decision, request.target)

(* The host answered: activate, close the approval, or ask for a retry. *)
handle_deployment ==
    LET h == waiting
        outcome == deploy(thread[h].answer) IN
    /\ kpc = "deploying"
    /\ thread[h].pc = "answered"
    /\ Hangup(h)
    /\ \/ /\ outcome = "deployed" /\ deployment_matches(h)
          /\ Goto("activating", request.decision, request.target)
       \/ /\ outcome = "rejected"
          /\ Goto("failing", request.decision, NoSnapshot)
       \/ /\ outcome = "uncertain"
          /\ Idle(NoAnswer)
    /\ UNCHANGED <<registryVars, approvalVars, run, served, crashes, changes>>

(* The client gave up: a timeout, a broken connection, a host that died.    *)
DeployUncertain ==
    /\ kpc = "deploying"
    /\ Idle(NoAnswer)
    /\ UNCHANGED <<registryVars, approvalVars, hostVars, run, served, crashes, changes>>

activation_failed ==
    LET d == request.decision IN
    /\ kpc = "failing"
    /\ \/ fail_trusted_activation(d) /\ Idle(Answer(d, "ActivationFailed"))
       \/ ~validate_decidable(d.proposal) /\ UNCHANGED approvalVars /\ Idle(NoAnswer)
    /\ UNCHANGED <<registryVars, hostVars, run, served, crashes, changes>>

(* The snapshot row may exist already (it is inserted, not reused): then    *)
(* the transaction fails and the approval stays as it was.                  *)
ActivateTrusted ==
    LET d == request.decision IN
    /\ kpc = "activating"
    /\ \/ activate_trusted_capability(d, request.target) /\ Goto("cache", d, request.target)
       \/ /\ ~validate_decidable(d.proposal) \/ request.target \in DOMAIN snaps
          /\ UNCHANGED <<registryVars, approvalVars>>
          /\ Idle(NoAnswer)
    /\ UNCHANGED <<hostVars, run, served, crashes, changes>>

(***************************************************************************)
(* A Run: pinned when it is created, to the snapshot in memory; it may ask  *)
(* for a capability, and use one it is granted.                             *)
(***************************************************************************)
create_run ==
    /\ cache # NoSnapshot
    /\ run' = cache
    /\ run # cache
    /\ UNCHANGED <<registryVars, approvalVars, hostVars, serverVars, served, crashes, changes>>

RequestCapability(p) ==
    /\ run # NoRun
    /\ create_proposal_with_receipt(p, run)
    /\ UNCHANGED <<registryVars, hostVars, serverVars, run, served, crashes, changes>>

dispatch_builtin_binding(op) ==
    /\ run # NoRun
    /\ lookup(load_registry_snapshot(run), op)
    /\ [op |-> op, snapshot |-> run] \in grants
    /\ handle_execute(load_registry_snapshot(run).ops[op].manifest, run)
    /\ served' = served \cup {[record |-> record, snapshot |-> run]}
    /\ UNCHANGED <<registryVars, approvalVars, hostVars, serverVars, run, crashes, changes>>

(***************************************************************************)
(* Time and crashes.                                                       *)
(***************************************************************************)
Expire(p) ==
    /\ PassExpiry(p)
    /\ UNCHANGED <<registryVars, hostVars, serverVars, run, served, crashes, changes>>

(* Also in the middle of creating a snapshot; at boot an insert that fails  *)
(* ends the process as well.                                                *)
KernelCrash ==
    /\ crashes < MaxCrashes /\ crashes' = crashes + 1
    /\ UNCHANGED snaps \/ \E target \in Creating : create_is_interrupted(target)
    /\ kpc' = "boot" /\ request' = NoRequest /\ waiting' = NoThread
    /\ answer' = NoAnswer /\ run' = NoRun /\ cache' = NoSnapshot
    /\ UNCHANGED <<active, manifests, approvalVars, hostVars, served, changes>>

HostStops ==
    /\ crashes < MaxCrashes /\ crashes' = crashes + 1
    /\ HostCrash
    /\ UNCHANGED <<registryVars, approvalVars, serverVars, run, served, changes>>

HostStep ==
    /\ \E h \in HostThreads : prepare(h) \/ (h # waiting /\ Hangup(h))
    /\ UNCHANGED <<registryVars, approvalVars, serverVars, run, served, crashes, changes>>

try_handle_capability_request ==
    \/ \E p \in Proposals : handle_submit_proposal(p)
    \/ \E p \in Proposals, verb \in {"approved", "rejected"} : handle_admin_decision(p, verb)
    \/ \E d \in Decisions : handle_decision(d)

(* One request at a time, then the steps that finish it. *)
handle_connection ==
    \/ \E m \in Manifests : handle_register(m) \/ handle_enable(m) \/ handle_disable(m)
    \/ ChangeFails
    \/ try_handle_capability_request
    \/ activate_registry_snapshot_atomic \/ WriteCache
    \/ handle_deployment \/ DeployUncertain \/ activation_failed \/ ActivateTrusted

Next ==
    \/ initialize_registry \/ init_registry_state \/ ActivateUpgrade
    \/ handle_connection
    \/ create_run
    \/ \E p \in Proposals : RequestCapability(p) \/ Expire(p)
    \/ \E op \in Ops : dispatch_builtin_binding(op)
    \/ KernelCrash \/ HostStops \/ HostStep

Spec == Init /\ [][Next]_vars
-----------------------------------------------------------------------------
(* When the HTTP thread is between requests, the snapshot in memory is the  *)
(* one in registry_state: whatever way the last activation, crash or boot   *)
(* went, new Runs are pinned to the registry that was decided.              *)
CacheCoherent == kpc = "idle" => cache = active

OneOperationChanges ==
    active # NoSnapshot =>
        LET before == load_registry_snapshot(active)
            after  == load_registry_snapshot(active)' IN
        Cardinality({op \in Ops : /\ after.ops[op] # before.ops[op]
                                  /\ Whole(active)' \/ lookup(after, op)}) <= 1

(* A change to the registry changes one of the operations that are served:  *)
(* approvals, proposals and enable or disable requests decided in any order *)
(* never undo each other.  A snapshot that a crash or a failing insert left *)
(* incomplete, and that is reused, may lack operations beside that one, but *)
(* it brings none.                                                          *)
OneOperationAtATime == [][OneOperationChanges]_active

(* A decision is final and whole: a closed approval never changes, and the  *)
(* proposal is closed with it in the same step, with the same outcome.      *)
DecidedOnceTogether ==
    /\ [][\A p \in Proposals :
            approval[p].status \in Terminal => approval'[p] = approval[p]]_approval
    /\ [](\A p \in Trusted : approval[p].status \in Terminal =>
            proposal[p].status =
                IF approval[p].status = "Approved" THEN "Activated" ELSE approval[p].status)

(* What a client is told of its decision is what the journal holds for that *)
(* very decision, also when it was repeated, raced by another, or answered  *)
(* after a restart; and only a decision with nothing wrong is acted on.     *)
AnswerIsRecorded ==
    answer # NoAnswer =>
        /\ approval[answer.decision.proposal].decision = answer.decision
        /\ approval[answer.decision.proposal].status = answer.status
        /\ answer.decision.flaw = "none"

(* An approved capability is whole: the host holds the deployment made for  *)
(* that decision, every row of the snapshot it was prepared for is stored,  *)
(* and the owner holds the grant on it.                                     *)
ApprovedIsWhole ==
    \A p \in Trusted : approval[p].status = "Approved" =>
        /\ record = DeployRequest(approval[p].decision, approval[p].snapshot)
        /\ approval[p].snapshot \in DOMAIN snaps /\ Whole(approval[p].snapshot)
        /\ [op |-> OperationName[ManifestOf[p]], snapshot |-> approval[p].snapshot] \in grants

(* The host runs an artifact only for a Run on exactly the snapshot the     *)
(* owner's approval activated: a deployment that was prepared and then      *)
(* rejected, failed or left pending is never executed.                      *)
ServedIsApproved ==
    \A e \in served :
        LET a == approval[e.record.decision.proposal] IN
        a.status = "Approved" /\ a.decision = e.record.decision /\ a.snapshot = e.snapshot
=============================================================================
