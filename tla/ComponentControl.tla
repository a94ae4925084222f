-------------------------- MODULE ComponentControl --------------------------
(* Disabling a component and rolling it back                                *)
(* (journal/component_control.rs, server/component_control.rs): an intent   *)
(* is stored under the owner's decision, the harness carries it out, and    *)
(* its receipt settles the intent.  A decision whose effect is uncertain    *)
(* stays pending and is made again.                                         *)
EXTENDS ComponentRegistry

CONSTANTS
    Controls        \* control decisions the owner may make

ASSUME ControlAssumption == Nothing \notin Controls

(* What active.json and deployments/<id>.json hold, with the receipt of the *)
(* control decision that was carried out last. *)
DeploymentRecord ==
    [dep : Deployments, status : {"healthy", "disabled", "rolled_back"}, port : Nat,
     inst : Nat, prev : Deployments \cup {Nothing},
     last : {Nothing} \cup [kind : {"control"}, id : Controls,
                            action : {"disable", "rollback"}, dep : Deployments, port : Nat]]

ASSUME NothingIsNoRecord == Nothing \notin DeploymentRecord

VARIABLES
    control         \* rows of component_control_intents

NoControl == [status |-> "None", component |-> Nothing, action |-> "none",
              expected |-> Nothing]

ControlInit == control = [d \in Controls |-> NoControl]

pending_control(c) ==
    \E d \in Controls : control[d].status = "pending" /\ control[d].component = c

(* The intent names the snapshot and deployment it is about; they must      *)
(* still be the active ones. *)
active_component(d) == components = control[d].expected

ControlAllowed(c, action) ==
    /\ components[c] # Nothing
    /\ components[c].status \in IF action = "rollback" THEN {"Healthy"}
                                ELSE {"Healthy", "RolledBack"}

(* Faulty variant: a deployment under way does not count. *)
record_control_beside_deployment(d, c, action) ==
    /\ control[d].status = "None"
    /\ ~pending_control(c)
    /\ ControlAllowed(c, action)
    /\ control' = [control EXCEPT ![d] = [status |-> "pending", component |-> c,
                                          action |-> action, expected |-> components]]

record_component_control_intent(d, c, action) ==
    /\ control[d].status = "None"
    /\ ~pending_control(c)
    /\ ~pending_deployment(c)
    /\ ControlAllowed(c, action)
    /\ control' = [control EXCEPT ![d] = [status |-> "pending", component |-> c,
                                          action |-> action, expected |-> components]]

(* A settled decision is answered from the Journal. *)
replay_component_control(d) == control[d].status = "succeeded"

fail_component_control_intent(d) ==
    control' = [control EXCEPT ![d].status = IF @ = "pending" THEN "failed" ELSE @]

(* Faulty variant: any earlier deployment is a rollback target. *)
validate_any_target(e, receipt) == TRUE

(* The rollback must have gone to what the active deployment replaced. *)
validate_rollback_target(e, receipt) ==
    /\ receipts[e.dep] # Nothing
    /\ receipts[e.dep].prev = receipt.dep
    /\ receipt.dep # e.dep

historical_component(receipt) ==
    receipt.dep \in Deployments /\ receipts[receipt.dep] # Nothing

settle_checks(d, receipt) ==
    LET e == components[control[d].component] IN
    /\ active_component(d)
    /\ IF control[d].action = "disable"
       THEN receipt.dep = e.dep
       ELSE validate_rollback_target(e, receipt) /\ historical_component(receipt)

settle_component_control(d, receipt) ==
    IF settle_checks(d, receipt)
    THEN /\ persist_snapshot(control[d].component,
              [dep |-> receipt.dep, port |-> receipt.port,
               status |-> IF control[d].action = "disable" THEN "Disabled" ELSE "RolledBack"])
         /\ control' = [control EXCEPT ![d].status = "succeeded"]
    ELSE UNCHANGED <<components, control>>
=============================================================================
