----------------------------- MODULE Approvals ------------------------------
(* Capability change proposals and the owner's approval of a trusted one    *)
(* (journal/capability_proposals.rs, capability_proposal_receipt.rs,        *)
(* trusted_capability_activation.rs, trusted_capability_validation.rs).     *)
(* A proposal and its approval are two rows; every decision is one          *)
(* transaction over both.  A decision is [proposal, verb, id, flaw]: the    *)
(* owner's verb under a client-chosen decision id, and what is wrong with   *)
(* the request, if anything.                                                *)
EXTENDS Registry

CONSTANTS
    Proposals,      \* proposals that may be made
    Trusted,        \* those that come from an accepted coding task
    ManifestOf,     \* the manifest a proposal asks to activate
    DecisionIds,    \* decision identifiers a client may choose
    NoDecision      \* nobody has decided

ASSUME ProposalsAsk ==
    /\ Trusted \subseteq Proposals
    /\ ManifestOf \in [Proposals -> Manifests]

(* What can be wrong with a decision: the body or a digest does not parse,  *)
(* its digests, nonce or owner are not the approval's, or the acceptance receipt or the  *)
(* origin the proposal was linked to do not bear it out.                    *)
Flaws == {"malformed", "digest", "identity", "receipt", "origin"}

Decisions == [proposal : Proposals, verb : {"approved", "rejected"},
              id : DecisionIds, flaw : Flaws \cup {"none"}]

VARIABLES
    proposal,       \* rows of capability_change_proposals
    approval,       \* rows of capability_governance_approvals
    expired,        \* proposals whose expires_at has passed
    grants          \* rows of external_operation_grants: [op, snapshot]

approvalVars == <<proposal, approval, expired, grants>>

Terminal == {"Approved", "Rejected", "Expired", "ActivationFailed"}

NoProposal == [status |-> "None", source |-> NoSnapshot, snapshot |-> NoSnapshot]

NoApproval == [status |-> "None", decision |-> NoDecision, snapshot |-> NoSnapshot]

ApprovalInit ==
    /\ proposal = [p \in Proposals |-> NoProposal]
    /\ approval = [p \in Proposals |-> NoApproval]
    /\ expired = {}
    /\ grants = {}

(***************************************************************************)
(* Making a proposal.                                                      *)
(***************************************************************************)
insert_proposal(p, source) ==
    /\ proposal[p] = NoProposal
    /\ proposal' = [proposal EXCEPT ![p].status = "PendingApproval", ![p].source = source]

(* From an accepted coding task, for the Run that asked for it: the         *)
(* registry must still be the one that Run was pinned to. *)
create_proposal_with_receipt(p, origin) ==
    /\ p \in Trusted
    /\ active = origin
    /\ insert_proposal(p, origin)
    /\ approval' = [approval EXCEPT ![p].status = "Pending"]
    /\ UNCHANGED <<expired, grants>>

(* From the administrative route: against the snapshot in memory. *)
create_proposal(p) ==
    /\ p \notin Trusted
    /\ insert_proposal(p, cache)
    /\ UNCHANGED <<approval, expired, grants>>

PassExpiry(p) ==
    /\ proposal[p].status = "PendingApproval"
    /\ expired' = expired \cup {p}
    /\ UNCHANGED <<proposal, approval, grants>>

(***************************************************************************)
(* Is the decision the approval's own?                                     *)
(***************************************************************************)
parse_input(d) == d.flaw # "malformed"

decision_identity(d) == d.flaw # "digest"

validate_identity(d) == d.flaw # "identity"

validate_authoritative_receipt(d) == d.flaw # "receipt"

validate_origin(d) == d.flaw # "origin"

load_validated_binding(d) ==
    /\ validate_identity(d)
    /\ validate_authoritative_receipt(d)
    /\ validate_origin(d)

validate_decidable(p) ==
    /\ approval[p].status = "Pending"
    /\ proposal[p].status = "PendingApproval"
    /\ p \notin expired

validate_pending(p) == validate_decidable(p) /\ active = proposal[p].source

(***************************************************************************)
(* Deciding: one transaction over both rows.                               *)
(***************************************************************************)
persist_terminal(d, status, pstatus, snapshot) ==
    LET p == d.proposal IN
    /\ approval[p].status = "Pending"
    /\ proposal[p].status = "PendingApproval"
    /\ approval' = [approval EXCEPT ![p] =
                        [status |-> status, decision |-> d, snapshot |-> snapshot]]
    /\ proposal' = [proposal EXCEPT ![p].status = pstatus, ![p].snapshot = snapshot]

finish_without_activation(d, status) ==
    /\ load_validated_binding(d)
    /\ validate_decidable(d.proposal)
    /\ persist_terminal(d, status, status, NoSnapshot)
    /\ UNCHANGED <<expired, grants>>

reject_trusted_capability(d) == finish_without_activation(d, "Rejected")

fail_trusted_activation(d) == finish_without_activation(d, "ActivationFailed")

(* Faulty variant: only the approval row is closed. *)
expire_approval_alone(p) ==
    /\ approval[p].status = "Pending"
    /\ proposal[p].status = "PendingApproval"
    /\ p \in expired
    /\ approval' = [approval EXCEPT ![p].status = "Expired"]
    /\ UNCHANGED <<proposal, expired, grants>>

expire_trusted_approval(p) ==
    /\ approval[p].status = "Pending"
    /\ proposal[p].status = "PendingApproval"
    /\ p \in expired
    /\ approval' = [approval EXCEPT ![p].status = "Expired"]
    /\ proposal' = [proposal EXCEPT ![p].status = "Expired"]
    /\ UNCHANGED <<expired, grants>>

expire_proposal(p) ==
    /\ proposal[p].status = "PendingApproval"
    /\ proposal' = [proposal EXCEPT ![p].status = "Expired"]
    /\ UNCHANGED <<approval, expired, grants>>

reject_proposal(p) ==
    /\ proposal[p].status = "PendingApproval"
    /\ proposal' = [proposal EXCEPT ![p].status = "Rejected"]
    /\ UNCHANGED <<approval, expired, grants>>

(* Faulty variant: any decision is told how the approval ended. *)
replay_any(d) ==
    approval[d.proposal].status \in Terminal

(* A repeated decision is told the recorded result only when it is the      *)
(* decision that was recorded. *)
replay_result(d) ==
    LET a == approval[d.proposal] IN
    /\ a.decision = d
    /\ a.status \in IF d.verb = "rejected" THEN {"Rejected"}
                    ELSE {"Approved", "ActivationFailed"}

(***************************************************************************)
(* Activation.                                                             *)
(***************************************************************************)
create_external_operation_grant_tx(m, s) ==
    grants' = grants \cup {[op |-> OperationName[m], snapshot |-> s]}

(* Faulty variant: the owner is not granted the new operation. *)
activate_without_grant(d, target) ==
    LET p == d.proposal IN
    /\ load_validated_binding(d)
    /\ validate_decidable(p)
    /\ target \in capability_specs(load_registry_snapshot(proposal[p].source), ManifestOf[p])
    /\ register_harness_manifest_in_tx(ManifestOf[p])
    /\ activate_registry_tx(proposal[p].source, target)
    /\ persist_terminal(d, "Approved", "Activated", target)
    /\ UNCHANGED <<expired, grants>>

activate_trusted_capability(d, target) ==
    LET p == d.proposal IN
    /\ load_validated_binding(d)
    /\ validate_decidable(p)
    /\ target \in capability_specs(load_registry_snapshot(proposal[p].source), ManifestOf[p])
    /\ register_harness_manifest_in_tx(ManifestOf[p])
    /\ activate_registry_tx(proposal[p].source, target)
    /\ create_external_operation_grant_tx(ManifestOf[p], target)
    /\ persist_terminal(d, "Approved", "Activated", target)
    /\ UNCHANGED expired

(* What both administrative activations do in their transaction. *)
ActivateProposal(p, target) ==
    /\ proposal[p].status = "PendingApproval"
    /\ p \notin expired
    /\ register_harness_manifest_in_tx(ManifestOf[p])
    /\ proposal' = [proposal EXCEPT ![p].status = "Activated", ![p].snapshot = target]
    /\ UNCHANGED <<approval, expired, grants>>

activate_proposal(p) ==
    \E target \in proposal_specs(load_registry_snapshot(proposal[p].source), ManifestOf[p]) :
        /\ activate_registry_tx(proposal[p].source, target)
        /\ ActivateProposal(p, target)

activate_schema_upgrade(p) ==
    \E target \in schema_upgrade_specs(load_registry_snapshot(proposal[p].source), ManifestOf[p]) :
        /\ activate_registry_tx(active, target)
        /\ ActivateProposal(p, target)
=============================================================================
