--------------------------- MODULE ServiceDecision --------------------------
(* Managed services end to end (server/service_decision.rs,                 *)
(* server/component_control.rs, server/deployment_harness_client.rs): the   *)
(* accept thread takes decisions one at a time; an approval is carried out  *)
(* by a background thread of its own, which waits for the harness while     *)
(* the accept thread goes on deciding.                                      *)
EXTENDS ComponentControl

CONSTANTS
    MaxCrashes,     \* crashes of Kernel and harness
    MaxTimeouts,    \* calls given up on while the harness still works
    MaxExits        \* services that exit by themselves

VARIABLES
    worker,         \* the background thread of each candidate
    kpc,            \* control decision the accept thread waits for, or Nothing
    crashes, timeouts, exits

serviceVars == <<worker, kpc, crashes, timeouts, exits>>

vars == <<harnessVars, registryVars, control, serviceVars>>

Init ==
    /\ HarnessInit /\ RegistryInit /\ ControlInit
    /\ worker = [p \in Deployments |-> "none"]
    /\ kpc = Nothing
    /\ crashes = 0 /\ timeouts = 0 /\ exits = 0

faults == <<crashes, timeouts, exits>>

(***************************************************************************)
(* Decisions on a candidate.                                               *)
(***************************************************************************)
Expire(p) ==
    /\ kpc = Nothing
    /\ expire_trusted_approval(p)
    /\ UNCHANGED <<harnessVars, control, serviceVars>>

Reject(p) ==
    /\ kpc = Nothing
    /\ reject_trusted(p)
    /\ UNCHANGED <<harnessVars, control, serviceVars>>

(* A decision made again is told what was decided, or that the deployment   *)
(* is pending. *)
replay_response(p) ==
    /\ kpc = Nothing
    /\ approval[p] # "Pending" \/ (p \notin lapsed /\ intent_exists_without_receipt(p))
    /\ UNCHANGED vars

(* The first approval stores the intent and starts the thread; a repeated   *)
(* one finds the intent and answers "deployment_pending". *)
Approve(p) ==
    /\ kpc = Nothing
    /\ approval[p] = "Pending" /\ p \notin lapsed
    /\ ~intent_exists_without_receipt(p)
    /\ record_trusted_service_deployment_intent(p, pending_control(ComponentOf[p]))
    /\ worker[p] = "none"
    /\ worker' = [worker EXCEPT ![p] = "started"]
    /\ UNCHANGED <<harnessVars, control, kpc, faults>>

(***************************************************************************)
(* The background thread.                                                  *)
(***************************************************************************)
DeployRequest(p) == [kind |-> "deploy", id |-> p]

Finish(p) == worker' = [worker EXCEPT ![p] = "ended"]

(* No client can be made, or nobody listens. *)
deploy_not_sent(p) ==
    /\ worker[p] = "started"
    /\ fail_trusted_activation(p)
    /\ Finish(p)
    /\ UNCHANGED <<harnessVars, control, kpc, faults>>

deploy_sent(p) ==
    /\ worker[p] = "started"
    /\ \E h \in Threads : serve_listener(h, DeployRequest(p))
    /\ worker' = [worker EXCEPT ![p] = "waiting"]
    /\ UNCHANGED <<running, starts, records, current, boot, leaks, registryVars, control, kpc, faults>>

Waits(h, q) ==
    /\ thread[h].pc # "free" /\ thread[h].waited /\ thread[h].req = q

(* The call ends: with an answer, or without one because the wait is over   *)
(* or the harness is gone. *)
deployer_deploy_and_record(p) ==
    /\ worker[p] = "waiting"
    /\ \E h \in Threads :
          /\ Waits(h, DeployRequest(p)) /\ thread[h].pc = "done"
          /\ IF thread[h].answer.kind = "receipt"
             THEN activate_trusted_service(p, thread[h].answer)
             ELSE fail_trusted_activation(p)
          /\ Hear(h)
    /\ Finish(p)
    /\ UNCHANGED <<running, starts, records, current, boot, leaks, control, kpc, faults>>

deploy_unanswered(p) ==
    /\ worker[p] = "waiting"
    /\ \/ /\ timeouts < MaxTimeouts
          /\ timeouts' = timeouts + 1
          /\ \E h \in Threads : Waits(h, DeployRequest(p)) /\ GiveUp(h)
       \/ /\ \A h \in Threads : ~Waits(h, DeployRequest(p))
          /\ UNCHANGED <<thread, timeouts>>
    /\ fail_trusted_activation(p)
    /\ Finish(p)
    /\ UNCHANGED <<running, starts, records, current, boot, leaks, control, kpc, crashes, exits>>

(***************************************************************************)
(* Control decisions: the accept thread waits for the harness itself.      *)
(***************************************************************************)
ControlRequest(d) ==
    [kind |-> control[d].action, id |-> d, component |-> control[d].component]

ControlDecision(d) ==
    /\ kpc = Nothing
    /\ \E c \in Components, action \in {"disable", "rollback"} :
           record_component_control_intent(d, c, action)
    /\ kpc' = d
    /\ UNCHANGED <<harnessVars, registryVars, worker, faults>>

(* The same decision again: its intent is pending. *)
ControlAgain(d) ==
    /\ kpc = Nothing
    /\ control[d].status \notin {"None", "failed"}
    /\ ~replay_component_control(d)
    /\ kpc' = d
    /\ UNCHANGED <<harnessVars, registryVars, control, worker, faults>>

Sent(d) == \E h \in Threads : Waits(h, ControlRequest(d))

control_sent(d) ==
    /\ kpc = d /\ ~Sent(d)
    /\ \E h \in Threads : serve_listener(h, ControlRequest(d))
    /\ UNCHANGED <<running, starts, records, current, boot, leaks, registryVars, control, serviceVars>>

control_answer(d) ==
    /\ kpc = d
    /\ \E h \in Threads :
          /\ Waits(h, ControlRequest(d)) /\ thread[h].pc = "done"
          /\ Hear(h)
          /\ \/ /\ thread[h].answer.kind = "control"
                /\ settle_component_control(d, thread[h].answer)
             \/ /\ thread[h].answer.kind = "definitive"
                /\ fail_component_control_intent(d)
                /\ UNCHANGED components
             \/ /\ thread[h].answer.kind = "uncertain"
                /\ UNCHANGED <<components, control>>
    /\ kpc' = Nothing
    /\ UNCHANGED <<running, starts, records, current, boot, leaks, intents, receipts, approval,
                   lapsed, moved, worker, faults>>

(* Refused connection, time-out or lost connection: the intent stays. *)
control_uncertain(d) ==
    /\ kpc = d
    /\ \/ /\ timeouts < MaxTimeouts
          /\ timeouts' = timeouts + 1
          /\ \E h \in Threads : Waits(h, ControlRequest(d)) /\ GiveUp(h)
       \/ ~Sent(d) /\ UNCHANGED <<thread, timeouts>>
    /\ kpc' = Nothing
    /\ UNCHANGED <<running, starts, records, current, boot, leaks, registryVars, control,
                   worker, crashes, exits>>

(***************************************************************************)
(* Faults.                                                                 *)
(***************************************************************************)
(* Threads of the Kernel are gone, and with them who waited. *)
KernelCrash ==
    /\ crashes < MaxCrashes
    /\ crashes' = crashes + 1
    /\ worker' = [p \in Deployments |-> IF worker[p] = "none" THEN "none" ELSE "ended"]
    /\ kpc' = Nothing
    /\ thread' = [h \in Threads |->
           IF thread[h].pc = "done" THEN Idle ELSE [thread[h] EXCEPT !.waited = FALSE]]
    /\ UNCHANGED <<running, starts, records, current, boot, leaks, registryVars, control, timeouts, exits>>

HarnessCrash ==
    /\ crashes < MaxCrashes
    /\ crashes' = crashes + 1
    /\ \/ boot = {} /\ HarnessDown
       \/ \E c \in Components : reconcile_interrupted(c)
    /\ UNCHANGED <<registryVars, control, worker, kpc, timeouts, exits>>

Exit ==
    /\ exits < MaxExits
    /\ exits' = exits + 1
    /\ ServiceExit
    /\ UNCHANGED <<registryVars, control, worker, kpc, crashes, timeouts>>

Environment ==
    /\ \/ \E p \in Deployments : PassExpiry(p)
       \/ RegistryMoves
    /\ UNCHANGED <<harnessVars, control, serviceVars>>

Harness ==
    /\ HarnessBoot \/ \E h \in Threads : HarnessStep(h)
    /\ UNCHANGED <<registryVars, control, serviceVars>>

Next ==
    \/ \E p \in Deployments :
          \/ Expire(p) \/ Reject(p) \/ Approve(p) \/ replay_response(p)
          \/ deploy_not_sent(p) \/ deploy_sent(p)
          \/ deployer_deploy_and_record(p) \/ deploy_unanswered(p)
    \/ \E d \in Controls :
          \/ ControlDecision(d) \/ ControlAgain(d) \/ control_sent(d)
          \/ control_answer(d) \/ control_uncertain(d)
    \/ Harness \/ KernelCrash \/ HarnessCrash \/ Exit \/ Environment

Spec == Init /\ [][Next]_vars

(***************************************************************************)
(* Properties.                                                             *)
(***************************************************************************)
(* A candidate the owner rejected, or whose approval expired, while its     *)
(* thread was waiting for the harness is never registered: the activation   *)
(* reads the approval again in its own transaction. *)
RegisteredIsApproved ==
    \A c \in Components : components[c] # Nothing => approval[components[c].dep] = "Approved"

Busy(c) ==
    \E h \in Threads :
        thread[h].pc \notin {"free", "lock", "done"} /\ Target(thread[h].req) = c

(* A component has one service process, a second while a request replaces   *)
(* it, one more for each crash that fell between starting a process and     *)
(* stopping the one it replaces, and one more for each failing write or     *)
(* stop after which the harness itself leaves a process behind. *)
ProcessesBounded ==
    \A c \in Components :
        Cardinality({s \in running : ComponentOf[s.dep] = c})
            <= 1 + crashes + leaks + (IF Busy(c) THEN 1 ELSE 0)

(* A registered component moves up to a newer version, or stays where it is *)
(* when disabled, or goes back to the very deployment its receipt says it   *)
(* replaced, whatever the harness did in answers nobody heard. *)
LineageKept ==
    [][\A c \in Components :
          components[c] # Nothing /\ components'[c] # components[c] =>
              LET e == components[c]
                  f == components'[c] IN
              \/ f.status = "Healthy" /\ Version[f.dep] > Version[e.dep]
              \/ f.status = "Disabled" /\ f.dep = e.dep
              \/ f.status = "RolledBack" /\ receipts[e.dep].prev = f.dep]_vars

(* While a control decision is pending nothing else changes its component:  *)
(* not a deployment approved before it, nor one approved since. *)
OwnedUntilSettled ==
    \A d \in Controls :
        control[d].status = "pending" =>
            components[control[d].component] = control[d].expected[control[d].component]

(* As long as Kernel and harness agree that a component is healthy at a     *)
(* deployment, the port the Kernel published is the one the harness serves  *)
(* it on, through every restart of the service. *)
EndpointStaysValid ==
    \A c \in Components :
        /\ components[c] # Nothing /\ current[c] # Nothing
        /\ components[c].dep = current[c].dep
        /\ components[c].status = "Healthy" /\ current[c].status = "healthy"
        => components[c].port = current[c].port

(* "A pending deployment or control effect owns the component until its     *)
(* replay settles" (docs/architecture/managed-service-lifecycle-v0.md): no  *)
(* component has two effects pending. *)
EffectOwnsComponent ==
    \A c \in Components :
        Cardinality({p \in intents : ComponentOf[p] = c /\ approval[p] = "Pending"})
          + Cardinality({d \in Controls : control[d].status = "pending"
                                         /\ control[d].component = c}) <= 1

(* A pending control decision can be settled by making it again: the        *)
(* snapshot its settlement compares with is still the active one. *)
ReplayCanSettle ==
    \A d \in Controls : control[d].status = "pending" => active_component(d)
=============================================================================
