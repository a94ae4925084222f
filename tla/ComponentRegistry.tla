-------------------------- MODULE ComponentRegistry -------------------------
(* The Kernel's side of a deployment: the component registry, deployment    *)
(* intents and receipts, and the owner's approval of each candidate         *)
(* (journal/component_registry.rs, trusted_service_activation.rs).  A       *)
(* snapshot is its content: which deployment each component is at, with     *)
(* status and port.  Every operation here is one transaction.               *)
EXTENDS DeploymentHarness

VARIABLES
    components,     \* the active component snapshot
    intents,        \* candidates with a row in component_deployment_intents
    receipts,       \* rows of component_deployment_receipts
    approval,       \* status of each candidate's approval
    lapsed,         \* candidates whose approval is past expires_at
    moved           \* candidates whose source registry snapshot is not active any more

registryVars == <<components, intents, receipts, approval, lapsed, moved>>

RegistryInit ==
    /\ components = [c \in Components |-> Nothing]
    /\ intents = {}
    /\ receipts = [p \in Deployments |-> Nothing]
    /\ approval = [p \in Deployments |-> "Pending"]
    /\ lapsed = {}
    /\ moved = {}

persist_snapshot(c, entry) == components' = [components EXCEPT ![c] = entry]

(* Time passes, and other capabilities are activated. *)
PassExpiry(p) ==
    /\ approval[p] = "Pending"
    /\ lapsed' = lapsed \cup {p}
    /\ UNCHANGED <<components, intents, receipts, approval, moved>>

RegistryMoves ==
    /\ moved' = Deployments
    /\ UNCHANGED <<components, intents, receipts, approval, lapsed>>

validate_decidable(p) == approval[p] = "Pending" /\ p \notin lapsed

validate_pending(p) == validate_decidable(p) /\ p \notin moved

Decide(p, status) ==
    /\ approval' = [approval EXCEPT ![p] = status]
    /\ UNCHANGED <<components, intents, receipts, lapsed, moved>>

expire_trusted_approval(p) ==
    approval[p] = "Pending" /\ p \in lapsed /\ Decide(p, "Expired")

reject_trusted(p) == validate_decidable(p) /\ Decide(p, "Rejected")

(* A failed deployment that can no longer be recorded is only logged. *)
fail_trusted_activation(p) ==
    IF validate_decidable(p) THEN Decide(p, "ActivationFailed") ELSE UNCHANGED registryVars

(* A version goes up from the one registered. *)
version_is_newer(p) ==
    LET e == components[ComponentOf[p]] IN
    e # Nothing => compare_version(p, e.dep)

intent_exists_without_receipt(p) == p \in intents /\ receipts[p] = Nothing

(* A deployment that still holds its component against control. *)
pending_deployment(c) ==
    \E p \in intents : ComponentOf[p] = c /\ approval[p] = "Pending"

(* The owner approved: the intent is stored before anything is sent.  The   *)
(* query for other deployments in flight joins proposals in status          *)
(* "Approved", which none ever has, so it finds none. *)
record_trusted_service_deployment_intent(p, controlled) ==
    /\ validate_pending(p)
    /\ version_is_newer(p)
    /\ ~controlled
    /\ intents' = intents \cup {p}
    /\ UNCHANGED <<components, receipts, approval, lapsed, moved>>

Registered(p, port) == [dep |-> p, status |-> "Healthy", port |-> port]

activation_checks(p, receipt) ==
    LET e == components[ComponentOf[p]] IN
    /\ validate_pending(p)
    /\ p \in intents
    /\ version_is_newer(p)
    /\ receipt.prev = IF e = Nothing THEN Nothing ELSE e.dep

(* Faulty variant: the approval is not read again. *)
activate_unread(p, receipt) ==
    /\ receipts' = [receipts EXCEPT ![p] = receipt]
    /\ persist_snapshot(ComponentOf[p], Registered(p, receipt.port))
    /\ approval' = [approval EXCEPT ![p] = IF @ = "Pending" THEN "Approved" ELSE @]
    /\ UNCHANGED <<intents, lapsed, moved>>

(* A receipt that cannot be bound leaves everything as it was. *)
activate_trusted_service(p, receipt) ==
    IF activation_checks(p, receipt)
    THEN /\ receipts' = [receipts EXCEPT ![p] = receipt]
         /\ persist_snapshot(ComponentOf[p], Registered(p, receipt.port))
         /\ approval' = [approval EXCEPT ![p] = "Approved"]
         /\ UNCHANGED <<intents, lapsed, moved>>
    ELSE UNCHANGED registryVars
=============================================================================
