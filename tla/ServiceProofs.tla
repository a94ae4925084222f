--------------------------- MODULE ServiceProofs ----------------------------
(* What the registry of managed services promises, for any number of        *)
(* components, candidates, control decisions and harness threads.  The      *)
(* first three theorems never look at the harness: whatever it answers, and *)
(* whenever, the Kernel's own checks keep them.  The last two, about service*)
(* processes and ports, rest on an invariant of the harness.                *)
EXTENDS ServiceDecision, FiniteSetTheorems, TLAPS

\* The leaves are for Zenon; a leaf that needs arithmetic, or that Zenon does not
\* find in time, cites SMT.
USE Zenon

IsControl(r) ==
    r = [status |-> r.status, component |-> r.component, action |-> r.action,
         expected |-> r.expected]

Shapes ==
    /\ components = [c \in Components |-> components[c]]
    /\ receipts = [p \in Deployments |-> receipts[p]]
    /\ approval = [p \in Deployments |-> approval[p]]
    /\ intents \subseteq Deployments
    /\ control = [d \in Controls |-> control[d]]
    /\ \A d \in Controls :
          /\ IsControl(control[d])
          /\ control[d].status \in {"None", "pending", "succeeded", "failed"}

Pends(d) == control[d].status = "pending"

(* Only an approved candidate is registered or has a receipt. *)
ApprovedBehind ==
    /\ \A c \in Components :
          components[c] # Nothing =>
              components[c].dep \in Deployments /\ approval[components[c].dep] = "Approved"
    /\ \A p \in Deployments : receipts[p] # Nothing => approval[p] = "Approved"

(* A pending decision names a component that was registered when it was     *)
(* made and has not changed since. *)
PendingKnown ==
    \A d \in Controls : Pends(d) =>
        LET c == control[d].component IN
        /\ c \in Components
        /\ components[c] # Nothing
        /\ components[c] = control[d].expected[c]

(* It is the only decision about its component, and no candidate of the     *)
(* component with an intent can still be activated. *)
PendingAlone ==
    \A d \in Controls : Pends(d) =>
        /\ \A e \in Controls : Pends(e) /\ control[e].component = control[d].component => e = d
        /\ \A p \in intents : ComponentOf[p] = control[d].component => approval[p] # "Pending"

(* The accept thread waits only for a pending decision. *)
AwaitsPending == kpc \in Controls => Pends(kpc)

ServiceInv == Shapes /\ ApprovedBehind /\ PendingKnown /\ PendingAlone /\ AwaitsPending

\* Initially nothing is registered and nothing pends.
LEMMA ServiceInvInit == Init => ServiceInv
<1> SUFFICES ASSUME Init PROVE ServiceInv
  OBVIOUS
<1>1. IsControl(NoControl) /\ NoControl.status = "None"
  BY DEF IsControl, NoControl
<1>2. Shapes
  BY <1>1 DEF Init, RegistryInit, ControlInit, Shapes
<1>3. \A d \in Controls : ~Pends(d)
  BY <1>1 DEF Init, ControlInit, Pends
<1>4. ApprovedBehind
  BY DEF Init, RegistryInit, ApprovedBehind
<1>5. AwaitsPending
  BY ControlAssumption DEF Init, AwaitsPending
<1> QED BY <1>2, <1>3, <1>4, <1>5 DEF ServiceInv, PendingKnown, PendingAlone

\* A step that leaves the registry and the decisions alone.
LEMMA Untouched ==
    ASSUME ServiceInv, UNCHANGED <<components, intents, receipts, approval, control>>,
           kpc' \in Controls => Pends(kpc')
    PROVE  ServiceInv'
BY DEF ServiceInv, Shapes, ApprovedBehind, PendingKnown, PendingAlone, AwaitsPending, Pends

\* A candidate that is decided, against or for, without touching the registry.
LEMMA DecideKeeps ==
    ASSUME ServiceInv, NEW p \in Deployments, NEW status, status # "Pending",
           approval[p] = "Pending", Decide(p, status), UNCHANGED <<control, kpc>>
    PROVE  ServiceInv'
<1>1. /\ UNCHANGED <<components, intents, receipts, control, kpc>>
      /\ approval' = [approval EXCEPT ![p] = status]
  BY DEF Decide
<1>2. Shapes'
  BY <1>1 DEF ServiceInv, Shapes
<1>3. /\ approval'[p] = status
      /\ \A q \in Deployments \ {p} : approval'[q] = approval[q]
  BY <1>1 DEF ServiceInv, Shapes
<1>4. ApprovedBehind'
  BY <1>1, <1>3 DEF ServiceInv, ApprovedBehind
<1>5. PendingKnown' /\ AwaitsPending'
  BY <1>1 DEF ServiceInv, PendingKnown, AwaitsPending, Pends
<1>6. \A q \in intents : approval[q] # "Pending" => approval'[q] # "Pending"
  BY <1>3 DEF ServiceInv, Shapes
<1>7. PendingAlone'
  BY <1>1, <1>6 DEF ServiceInv, PendingAlone, Pends
<1> QED BY <1>2, <1>4, <1>5, <1>7 DEF ServiceInv

\* A failed deployment.
LEMMA FailKeeps ==
    ASSUME ServiceInv, NEW p \in Deployments, fail_trusted_activation(p),
           UNCHANGED <<control, kpc>>
    PROVE  ServiceInv'
<1>1. CASE validate_decidable(p)
  BY <1>1, DecideKeeps DEF fail_trusted_activation, validate_decidable
<1>2. CASE ~validate_decidable(p)
  <2>1. UNCHANGED <<components, intents, receipts, approval, control, kpc>>
    BY <1>2 DEF fail_trusted_activation, registryVars
  <2> QED BY <2>1, Untouched DEF ServiceInv, AwaitsPending
<1> QED BY <1>1, <1>2

\* An approval stores its intent only while no decision about the component pends.
LEMMA ApproveKeeps ==
    ASSUME ServiceInv, NEW p \in Deployments, Approve(p) PROVE ServiceInv'
<1>1. /\ UNCHANGED <<components, receipts, approval, control, kpc>>
      /\ intents' = intents \cup {p}
      /\ ~pending_control(ComponentOf[p])
  BY DEF Approve, record_trusted_service_deployment_intent
<1>2. Shapes' /\ ApprovedBehind' /\ PendingKnown' /\ AwaitsPending'
  BY <1>1 DEF ServiceInv, Shapes, ApprovedBehind, PendingKnown, AwaitsPending, Pends
<1>3. PendingAlone'
  BY <1>1 DEF ServiceInv, PendingAlone, Pends, pending_control
<1> QED BY <1>2, <1>3 DEF ServiceInv

\* A bound receipt registers a candidate of a component no decision pends for.
LEMMA ActivateKeeps ==
    ASSUME ServiceInv, NEW p \in Deployments, NEW receipt,
           activate_trusted_service(p, receipt), UNCHANGED <<control, kpc>>
    PROVE  ServiceInv'
<1>1. CASE activation_checks(p, receipt)
  <2> DEFINE c == ComponentOf[p]
  <2>1. c \in Components
    BY CandidatesAre
  <2>2. approval[p] = "Pending" /\ p \in intents
    BY <1>1 DEF activation_checks, validate_pending, validate_decidable
  <2>3. \A d \in Controls : Pends(d) => control[d].component # c
    BY <2>2 DEF ServiceInv, PendingAlone
  <2>4. PICK entry : entry = Registered(p, receipt.port)
    OBVIOUS
  <2>5. entry.dep = p
    BY <2>4 DEF Registered
  <2>6. /\ UNCHANGED <<intents, control, kpc>>
        /\ components' = [components EXCEPT ![c] = entry]
        /\ receipts' = [receipts EXCEPT ![p] = receipt]
        /\ approval' = [approval EXCEPT ![p] = "Approved"]
    BY <1>1, <2>4 DEF activate_trusted_service, persist_snapshot
  <2> HIDE DEF c
  <2>7. Shapes'
    BY <2>6 DEF ServiceInv, Shapes
  <2>8. /\ approval'[p] = "Approved"
        /\ \A q \in Deployments \ {p} : approval'[q] = approval[q] /\ receipts'[q] = receipts[q]
        /\ components'[c] = entry
        /\ \A x \in Components \ {c} : components'[x] = components[x]
    BY <2>1, <2>6 DEF ServiceInv, Shapes
  <2>9. ApprovedBehind'
    BY SMT, <2>5, <2>8 DEF ServiceInv, ApprovedBehind
  <2>10. PendingKnown'
    BY SMT, <2>3, <2>6, <2>8 DEF ServiceInv, PendingKnown, Pends
  <2>11. \A q \in intents : approval[q] # "Pending" => approval'[q] # "Pending"
    BY <2>8 DEF ServiceInv, Shapes
  <2>12. PendingAlone' /\ AwaitsPending'
    BY <2>6, <2>11 DEF ServiceInv, PendingAlone, AwaitsPending, Pends
  <2> QED BY <2>7, <2>9, <2>10, <2>12 DEF ServiceInv
<1>2. CASE ~activation_checks(p, receipt)
  <2>1. UNCHANGED <<components, intents, receipts, approval, control, kpc>>
    BY <1>2 DEF activate_trusted_service, registryVars
  <2> QED BY <2>1, Untouched DEF ServiceInv, AwaitsPending
<1> QED BY <1>1, <1>2

-----------------------------------------------------------------------------
(* Control decisions. *)

\* Setting the status of a decision leaves the rest of it.
LEMMA StatusShape ==
    ASSUME NEW r, IsControl(r), NEW status
    PROVE  LET h == [r EXCEPT !.status = status] IN IsControl(h) /\ h.status = status
<1>1. PICK s, c, a, e : r = [status |-> s, component |-> c, action |-> a, expected |-> e]
  BY DEF IsControl
<1>2. PICK h : h = [r EXCEPT !.status = status]
  OBVIOUS
<1>3. h = [status |-> status, component |-> c, action |-> a, expected |-> e]
  BY <1>1, <1>2
<1>4. IsControl(h) /\ h.status = status
  BY <1>3 DEF IsControl
<1> QED BY <1>2, <1>4

\* A new decision finds its component registered and free of other effects.
LEMMA RecordKeeps ==
    ASSUME ServiceInv, NEW d \in Controls, ControlDecision(d) PROVE ServiceInv'
<1>1. PICK c \in Components, action \in {"disable", "rollback"} :
          record_component_control_intent(d, c, action)
  BY DEF ControlDecision
<1>2. PICK r : r = [status |-> "pending", component |-> c, action |-> action,
                    expected |-> components]
  OBVIOUS
<1>3. IsControl(r) /\ r.status = "pending" /\ r.component = c /\ r.expected = components
  BY <1>2 DEF IsControl
<1>4. control' = [control EXCEPT ![d] = r]
  BY <1>1, <1>2 DEF record_component_control_intent
<1>5. ~pending_control(c) /\ ~pending_deployment(c) /\ components[c] # Nothing
  BY <1>1 DEF record_component_control_intent, ControlAllowed
<1>6. UNCHANGED <<components, intents, receipts, approval>> /\ kpc' = d
  BY DEF ControlDecision, registryVars
<1>7. control'[d] = r /\ \A e \in Controls \ {d} : control'[e] = control[e]
  BY <1>4 DEF ServiceInv, Shapes
<1>8. Shapes'
  BY <1>3, <1>4, <1>6, <1>7 DEF ServiceInv, Shapes
<1>9. ApprovedBehind'
  BY <1>6 DEF ServiceInv, ApprovedBehind
<1>10. PendingKnown'
  BY <1>3, <1>5, <1>6, <1>7 DEF ServiceInv, PendingKnown, Pends
<1>11. PendingAlone'
  BY SMT, <1>3, <1>5, <1>6, <1>7 DEF ServiceInv, PendingAlone, Pends, pending_control,
                               pending_deployment
<1>12. AwaitsPending'
  BY <1>3, <1>6, <1>7 DEF AwaitsPending, Pends
<1> QED BY <1>8, <1>9, <1>10, <1>11, <1>12 DEF ServiceInv

\* A decision that ends no longer pends, and no other is touched.
LEMMA EndKeeps ==
    ASSUME ServiceInv, NEW d \in Controls, NEW status, status \in {"succeeded", "failed"},
           control' = [control EXCEPT ![d] = [control[d] EXCEPT !.status = status]],
           UNCHANGED <<intents, receipts, approval>>, kpc' = Nothing,
           components' = [c \in Components |-> components'[c]], ApprovedBehind',
           \A c \in Components : c # control[d].component => components'[c] = components[c],
           components' = components \/ Pends(d)
    PROVE  ServiceInv'
<1>1. PICK h : h = [control[d] EXCEPT !.status = status]
  OBVIOUS
<1>2. IsControl(h) /\ h.status = status
  BY <1>1, StatusShape DEF ServiceInv, Shapes
<1>3. control'[d] = h /\ \A e \in Controls \ {d} : control'[e] = control[e]
  BY <1>1 DEF ServiceInv, Shapes
<1>4. control' = [e \in Controls |-> control'[e]]
  BY DEF ServiceInv, Shapes
<1>5. Shapes'
  BY <1>2, <1>3, <1>4 DEF ServiceInv, Shapes
<1>6. \A e \in Controls : Pends(e)' => Pends(e) /\ e # d /\ control'[e] = control[e]
  BY <1>2, <1>3 DEF Pends
<1>7. PendingKnown'
  <2> SUFFICES ASSUME NEW e \in Controls, Pends(e)'
               PROVE  /\ control'[e].component \in Components
                      /\ components'[control'[e].component] # Nothing
                      /\ components'[control'[e].component]
                           = control'[e].expected[control'[e].component]
    BY DEF PendingKnown
  <2> DEFINE c == control[e].component
  <2>1. Pends(e) /\ e # d /\ control'[e] = control[e]
    BY <1>6
  <2>2. c \in Components /\ components[c] # Nothing /\ components[c] = control[e].expected[c]
    BY <2>1 DEF ServiceInv, PendingKnown
  <2>3. components'[c] = components[c]
    BY <2>1, <2>2 DEF ServiceInv, PendingAlone
  <2> QED BY <2>1, <2>2, <2>3
<1>8. PendingAlone'
  BY SMT, <1>6 DEF ServiceInv, PendingAlone
<1>9. AwaitsPending'
  BY ControlAssumption DEF AwaitsPending
<1> QED BY <1>5, <1>7, <1>8, <1>9 DEF ServiceInv

\* What a settlement registers was approved: it is the deployment the
\* component is at, or the one that deployment replaced.
LEMMA SettledIsApproved ==
    ASSUME ServiceInv, NEW d \in Controls, Pends(d), NEW receipt, settle_checks(d, receipt)
    PROVE  receipt.dep \in Deployments /\ approval[receipt.dep] = "Approved"
<1> DEFINE e == components[control[d].component]
<1>1. e # Nothing /\ control[d].component \in Components
  BY DEF ServiceInv, PendingKnown
<1>2. CASE control[d].action = "disable"
  <2>1. receipt.dep = e.dep
    BY <1>2 DEF settle_checks
  <2> QED BY <1>1, <2>1 DEF ServiceInv, ApprovedBehind
<1>3. CASE control[d].action # "disable"
  <2>1. receipt.dep \in Deployments /\ receipts[receipt.dep] # Nothing
    BY <1>3 DEF settle_checks, historical_component
  <2> QED BY <2>1 DEF ServiceInv, ApprovedBehind
<1> QED BY <1>2, <1>3

\* The harness's receipt settles the decision, or changes nothing.
LEMMA SettleKeeps ==
    ASSUME ServiceInv, NEW d \in Controls, Pends(d), NEW receipt,
           settle_component_control(d, receipt),
           UNCHANGED <<intents, receipts, approval>>, kpc' = Nothing
    PROVE  ServiceInv'
<1>1. CASE settle_checks(d, receipt)
  <2> DEFINE c == control[d].component
  <2>1. PICK entry : entry = [dep |-> receipt.dep, port |-> receipt.port,
              status |-> IF control[d].action = "disable" THEN "Disabled" ELSE "RolledBack"]
    OBVIOUS
  <2>2. entry.dep = receipt.dep
    BY <2>1
  <2>3. /\ components' = [components EXCEPT ![c] = entry]
        /\ control' = [control EXCEPT ![d] = [control[d] EXCEPT !.status = "succeeded"]]
    BY <1>1, <2>1 DEF settle_component_control, persist_snapshot
  <2>4. receipt.dep \in Deployments /\ approval[receipt.dep] = "Approved"
    BY <1>1, SettledIsApproved
  <2>5. c \in Components
    BY DEF ServiceInv, PendingKnown
  <2> HIDE DEF c
  <2>6. /\ components' = [x \in Components |-> components'[x]]
        /\ components'[c] = entry
        /\ \A x \in Components \ {c} : components'[x] = components[x]
    BY <2>3, <2>5 DEF ServiceInv, Shapes
  <2>7. ApprovedBehind'
    BY <2>2, <2>4, <2>6 DEF ServiceInv, ApprovedBehind
  <2> USE DEF c
  <2> QED BY <2>3, <2>6, <2>7, EndKeeps
<1>2. CASE ~settle_checks(d, receipt)
  <2>1. UNCHANGED <<components, control>>
    BY <1>2 DEF settle_component_control
  <2> QED BY <2>1, Untouched, ControlAssumption
<1> QED BY <1>1, <1>2

\* The harness refused for good.
LEMMA RefusedKeeps ==
    ASSUME ServiceInv, NEW d \in Controls, Pends(d), fail_component_control_intent(d),
           UNCHANGED <<components, intents, receipts, approval>>, kpc' = Nothing
    PROVE  ServiceInv'
<1>1. control' = [control EXCEPT ![d] = [control[d] EXCEPT !.status = "failed"]]
  <2>1. control' = [control EXCEPT ![d] = [control[d] EXCEPT !.status =
                      IF control[d].status = "pending" THEN "failed" ELSE control[d].status]]
    BY DEF fail_component_control_intent
  <2> QED BY <2>1 DEF Pends
<1>2. components' = [c \in Components |-> components'[c]] /\ ApprovedBehind'
  BY DEF ServiceInv, Shapes, ApprovedBehind
<1> QED BY <1>1, <1>2, EndKeeps

\* Whatever the answer to a control decision is.
LEMMA AnswerKeeps ==
    ASSUME ServiceInv, NEW d \in Controls, control_answer(d) PROVE ServiceInv'
<1>1. Pends(d) /\ kpc' = Nothing /\ UNCHANGED <<intents, receipts, approval>>
  BY DEF control_answer, ServiceInv, AwaitsPending
<1>2. PICK receipt :
        \/ settle_component_control(d, receipt)
        \/ fail_component_control_intent(d) /\ UNCHANGED components
        \/ UNCHANGED <<components, control>>
  BY DEF control_answer
<1>3. CASE UNCHANGED <<components, control>>
  BY <1>1, <1>3, Untouched, ControlAssumption
<1> QED BY <1>1, <1>2, <1>3, SettleKeeps, RefusedKeeps

-----------------------------------------------------------------------------
\* Every step keeps the invariant.
LEMMA ServiceInvStep == ServiceInv /\ [Next]_vars => ServiceInv'
<1> SUFFICES ASSUME ServiceInv, [Next]_vars PROVE ServiceInv'
  OBVIOUS
<1>1. ASSUME NEW p \in Deployments, Expire(p) \/ Reject(p) PROVE ServiceInv'
  BY <1>1, DecideKeeps DEF Expire, Reject, expire_trusted_approval, reject_trusted,
                           validate_decidable, serviceVars
<1>2. ASSUME NEW p \in Deployments, deploy_not_sent(p) \/ deploy_unanswered(p)
      PROVE  ServiceInv'
  BY <1>2, FailKeeps DEF deploy_not_sent, deploy_unanswered
<1>3. ASSUME NEW p \in Deployments, deployer_deploy_and_record(p) PROVE ServiceInv'
  BY <1>3, FailKeeps, ActivateKeeps DEF deployer_deploy_and_record
<1>4. ASSUME UNCHANGED <<components, intents, receipts, approval, control>>,
             kpc' = kpc \/ kpc' = Nothing
      PROVE  ServiceInv'
  BY <1>4, Untouched, ControlAssumption DEF ServiceInv, AwaitsPending
<1>5. ASSUME NEW p \in Deployments, replay_response(p) \/ deploy_sent(p) PROVE ServiceInv'
  BY <1>4, <1>5 DEF replay_response, deploy_sent, vars, registryVars, serviceVars
<1>6. ASSUME NEW d \in Controls, control_sent(d) \/ control_uncertain(d) PROVE ServiceInv'
  BY <1>4, <1>6 DEF control_sent, control_uncertain, registryVars, serviceVars
<1>7. ASSUME NEW d \in Controls, ControlAgain(d) PROVE ServiceInv'
  <2>1. UNCHANGED <<components, intents, receipts, approval, control>> /\ kpc' = d
    BY <1>7 DEF ControlAgain, registryVars
  <2>2. Pends(d)
    BY <1>7 DEF ControlAgain, replay_component_control, ServiceInv, Shapes, Pends
  <2> QED BY <2>1, <2>2, Untouched
<1>8. ASSUME Harness \/ KernelCrash \/ HarnessCrash \/ Exit PROVE ServiceInv'
  BY <1>4, <1>8 DEF Harness, KernelCrash, HarnessCrash, Exit, registryVars, serviceVars
<1>9. ASSUME Environment PROVE ServiceInv'
  BY <1>4, <1>9 DEF Environment, PassExpiry, RegistryMoves, serviceVars
<1>10. CASE UNCHANGED vars
  BY <1>4, <1>10 DEF vars, registryVars, serviceVars
<1> QED BY <1>1, <1>2, <1>3, <1>5, <1>6, <1>7, <1>8, <1>9, <1>10, ApproveKeeps,
           RecordKeeps, AnswerKeeps DEF Next

\* A step changes the entry of a component only as its lineage allows.
LEMMA LineageStep ==
    ASSUME ServiceInv, Next, NEW c \in Components, components[c] # Nothing,
           components'[c] # components[c]
    PROVE  \/ /\ components'[c].status = "Healthy"
              /\ Version[components'[c].dep] > Version[components[c].dep]
           \/ /\ components'[c].status = "Disabled"
              /\ components'[c].dep = components[c].dep
           \/ /\ components'[c].status = "RolledBack"
              /\ receipts[components[c].dep].prev = components'[c].dep
<1>1. \/ \E p \in Deployments : deployer_deploy_and_record(p)
      \/ \E d \in Controls : control_answer(d)
  <2>1. ASSUME NEW p \in Deployments,
               \/ Expire(p) \/ Reject(p) \/ Approve(p) \/ replay_response(p)
               \/ deploy_not_sent(p) \/ deploy_sent(p) \/ deploy_unanswered(p)
        PROVE  UNCHANGED components
    BY <2>1 DEF Expire, Reject, Approve, replay_response, deploy_not_sent, deploy_sent,
                deploy_unanswered, expire_trusted_approval, reject_trusted, Decide,
                record_trusted_service_deployment_intent, fail_trusted_activation,
                registryVars, vars
  <2>2. ASSUME NEW d \in Controls,
               ControlDecision(d) \/ ControlAgain(d) \/ control_sent(d) \/ control_uncertain(d)
        PROVE  UNCHANGED components
    BY <2>2 DEF ControlDecision, ControlAgain, control_sent, control_uncertain, registryVars
  <2>3. ASSUME Harness \/ KernelCrash \/ HarnessCrash \/ Exit \/ Environment
        PROVE  UNCHANGED components
    BY <2>3 DEF Harness, KernelCrash, HarnessCrash, Exit, Environment, PassExpiry,
                RegistryMoves, registryVars
  <2> QED BY <2>1, <2>2, <2>3 DEF Next
<1>2. ASSUME NEW p \in Deployments, deployer_deploy_and_record(p)
      PROVE  /\ components'[c].status = "Healthy"
             /\ Version[components'[c].dep] > Version[components[c].dep]
  <2>1. PICK receipt : activate_trusted_service(p, receipt)
    BY <1>2 DEF deployer_deploy_and_record, fail_trusted_activation, Decide, registryVars
  <2>2. /\ activation_checks(p, receipt)
        /\ components' = [components EXCEPT ![ComponentOf[p]] = Registered(p, receipt.port)]
    BY <2>1 DEF activate_trusted_service, persist_snapshot, registryVars
  <2>3. c = ComponentOf[p] /\ components'[c] = Registered(p, receipt.port)
    BY <2>2, CandidatesAre DEF ServiceInv, Shapes
  <2>4. Version[p] > Version[components[c].dep]
    BY <2>2, <2>3 DEF activation_checks, version_is_newer, compare_version
  <2> QED BY SMT, <2>3, <2>4 DEF Registered
<1>3. ASSUME NEW d \in Controls, control_answer(d)
      PROVE  \/ /\ components'[c].status = "Disabled"
                /\ components'[c].dep = components[c].dep
             \/ /\ components'[c].status = "RolledBack"
                /\ receipts[components[c].dep].prev = components'[c].dep
  <2>1. PICK receipt : settle_component_control(d, receipt)
    BY <1>3 DEF control_answer
  <2> DEFINE entry == [dep |-> receipt.dep, port |-> receipt.port,
              status |-> IF control[d].action = "disable" THEN "Disabled" ELSE "RolledBack"]
  <2>2. /\ settle_checks(d, receipt)
        /\ components' = [components EXCEPT ![control[d].component] = entry]
    BY <2>1 DEF settle_component_control, persist_snapshot
  <2>3. /\ entry.dep = receipt.dep
        /\ entry.status = IF control[d].action = "disable" THEN "Disabled" ELSE "RolledBack"
    OBVIOUS
  <2> HIDE DEF entry
  <2>4. c = control[d].component /\ components'[c] = entry
    BY <2>2 DEF ServiceInv, Shapes
  <2> QED BY <2>2, <2>3, <2>4 DEF settle_checks, validate_rollback_target
<1> QED BY <1>1, <1>2, <1>3

-----------------------------------------------------------------------------
\* The invariant holds in every behaviour of the service lifecycle.
THEOREM ServiceInvariant == Spec => []ServiceInv
BY ServiceInvInit, ServiceInvStep, PTL DEF Spec

\* While a control decision is pending no deployment, approved before or after
\* it, and no other decision changes its component's registry entry.
THEOREM PendingControlOwns == Spec => []OwnedUntilSettled
<1>1. ServiceInv => OwnedUntilSettled
  BY DEF ServiceInv, PendingKnown, OwnedUntilSettled, Pends
<1> QED BY <1>1, ServiceInvariant, PTL

\* A registered component is always at a candidate whose approval was granted,
\* whatever was rejected or expired while the harness worked.
THEOREM RegisteredWasApproved == Spec => []RegisteredIsApproved
<1>1. ServiceInv => RegisteredIsApproved
  BY DEF ServiceInv, ApprovedBehind, RegisteredIsApproved
<1> QED BY <1>1, ServiceInvariant, PTL

\* A registry entry changes only to a newer version, to its own disabling, or
\* back to the deployment its receipt says it replaced.
THEOREM LineageIsKept == Spec => LineageKept
<1> DEFINE Step ==
      \A c \in Components :
          components[c] # Nothing /\ components'[c] # components[c] =>
              LET e == components[c]
                  f == components'[c] IN
              \/ f.status = "Healthy" /\ Version[f.dep] > Version[e.dep]
              \/ f.status = "Disabled" /\ f.dep = e.dep
              \/ f.status = "RolledBack" /\ receipts[e.dep].prev = f.dep
<1>1. ServiceInv /\ [Next]_vars => [Step]_vars
  BY LineageStep
<1> QED BY <1>1, ServiceInvariant, PTL DEF Spec, LineageKept

-----------------------------------------------------------------------------
(* The deployment harness.  A process that runs is on record, as what its   *)
(* component is at or as what a thread replaces or is replacing it with;    *)
(* every other one was left behind by a crash, or by a write or a stop that *)
(* failed.                                                                  *)

Works(h) == thread[h].pc \notin {"free", "lock", "done"}

On(h, c) == Works(h) /\ Target(thread[h].req) = c

IsThread(t) ==
    t = [pc |-> t.pc, req |-> t.req, old |-> t.old, new |-> t.new,
         waited |-> t.waited, answer |-> t.answer]

Request(q) ==
    \/ q.kind = "deploy" /\ q.id \in Deployments
    \/ q.kind \in {"disable", "rollback"} /\ q.id \in Controls /\ q.component \in Components

(* A record of component c can be rolled back to what it names. *)
RecordOf(r, c) ==
    /\ r \in DeploymentRecord
    /\ ComponentOf[r.dep] = c
    /\ r.prev # Nothing => ComponentOf[r.prev] = c /\ records[r.prev] # Nothing

(* And so can whatever will name it. *)
Filed(r, c) == RecordOf(r, c) /\ records[r.dep] # Nothing

Slot(r) == [dep |-> r.dep, port |-> r.port, inst |-> r.inst]

Slots(r) == IF r = Nothing THEN {} ELSE {Slot(r)}

HarnessTypes ==
    /\ thread = [h \in Threads |-> thread[h]]
    /\ \A h \in Threads :
          IsThread(thread[h]) /\ (thread[h].pc # "free" => Request(thread[h].req))
    /\ current = [c \in Components |-> current[c]]
    /\ records = [p \in Deployments |-> records[p]]
    /\ IsFiniteSet(running)
    /\ starts \in Nat
    /\ crashes \in Nat /\ leaks \in Nat
    /\ \A d \in Controls : Pends(d) => control[d].action \in {"disable", "rollback"}

(* While the harness is down or restoring, no request is under way. *)
BootAlone == boot # {} => \A h \in Threads : thread[h].pc = "free"

(* The file lock. *)
OneAtATime == \A c \in Components : \A g, h \in Threads : On(g, c) /\ On(h, c) => g = h

RecordsHold ==
    /\ \A p \in Deployments :
          records[p] # Nothing => RecordOf(records[p], ComponentOf[p]) /\ records[p].dep = p
    /\ \A c \in Components : current[c] # Nothing => Filed(current[c], c)

(* What a thread has in hand while it replaces or disables a service. *)
InHand(h, c) ==
    LET t == thread[h] IN
    /\ t.pc \in {"started", "recorded", "active", "stopped"}
    /\ RecordOf(t.new, c)
    /\ records[t.new.dep] # Nothing \/ (t.pc = "started" /\ t.req.kind = "deploy")
    /\ t.old # Nothing => Filed(t.old, c)
    /\ t.pc \in {"started", "recorded"} => current[c] = t.old
    /\ t.pc = "active" => current[c] = t.new
    /\ t.pc = "stopped" =>
           t.req.kind = "disable" /\ t.old # Nothing /\ current[c] = t.old
           /\ Slot(t.new) = Slot(t.old)

WorkHolds == \A c \in Components : \A h \in Threads : On(h, c) => InHand(h, c)

Known(c, s) ==
    \/ s \in Slots(current[c])
    \/ \E h \in Threads : On(h, c) /\ s \in Slots(thread[h].old) \cup Slots(thread[h].new)

Orphans(c) == {s \in running : ComponentOf[s.dep] = c /\ ~Known(c, s)}

(* Each of the others was left behind by a crash, or by a write or a stop   *)
(* that failed. *)
OrphansCounted == \A c \in Components : Cardinality(Orphans(c)) <= crashes + leaks

(* What went wrong is not forgotten. *)
NotForgotten ==
    /\ crashes' \in Nat /\ crashes <= crashes'
    /\ leaks' \in Nat /\ leaks <= leaks'

ProcessInv ==
    HarnessTypes /\ BootAlone /\ OneAtATime /\ RecordsHold /\ WorkHolds /\ OrphansCounted

\* The facts about threads that have no request.
LEMMA IdleThread == IsThread(Idle) /\ Idle.pc = "free"
BY DEF Idle, IsThread

\* The component of a request.
LEMMA TargetIsComponent == ASSUME NEW q, Request(q) PROVE Target(q) \in Components
BY CandidatesAre DEF Request, Target

(* What a step does to the thread that takes it: it answers, or moves on. *)
ThreadOnly(h) ==
    /\ \A g \in Threads \ {h} : thread'[g] = thread[g]
    /\ thread' = [g \in Threads |-> thread'[g]]
    /\ IsThread(thread'[h])

Answered(h, a) ==
    /\ ThreadOnly(h)
    /\ thread'[h].pc \in {"free", "done"}
    /\ thread'[h].pc = "done" => thread'[h].req = thread[h].req /\ thread'[h].answer = a

Moves(h, pc, old, new) ==
    /\ ThreadOnly(h)
    /\ thread'[h].pc = pc /\ thread'[h].req = thread[h].req
    /\ thread'[h].old = old /\ thread'[h].new = new

\* One thread's record replaced.
LEMMA Touch ==
    ASSUME HarnessTypes, NEW h \in Threads, NEW t, thread' = [thread EXCEPT ![h] = t],
           IsThread(t)
    PROVE  ThreadOnly(h) /\ thread'[h] = t
BY DEF HarnessTypes, ThreadOnly

\* An answer, whether or not somebody waits for it.
LEMMA WriteJson ==
    ASSUME HarnessTypes, NEW h \in Threads, NEW a, write_json(h, a)
    PROVE  Answered(h, a)
<1> DEFINE t == [Idle EXCEPT !.pc = "done", !.req = thread[h].req,
                             !.waited = TRUE, !.answer = a]
<1>1. IsThread(t) /\ t.pc = "done" /\ t.req = thread[h].req /\ t.answer = a
  <2>1. PICK u : u = [Idle EXCEPT !.pc = "done"]
    OBVIOUS
  <2>2. IsThread(u) /\ u.pc = "done"
    BY SMT, <2>1, IdleThread DEF IsThread
  <2>3. PICK v : v = [u EXCEPT !.req = thread[h].req]
    OBVIOUS
  <2>4. IsThread(v) /\ v.pc = "done" /\ v.req = thread[h].req
    BY SMT, <2>2, <2>3 DEF IsThread
  <2>5. PICK b : b = TRUE
    OBVIOUS
  <2>6. PICK w : w = [v EXCEPT !.waited = b]
    OBVIOUS
  <2>7. IsThread(w) /\ w.pc = "done" /\ w.req = thread[h].req
    BY SMT, <2>4, <2>6 DEF IsThread
  <2>8. t = [w EXCEPT !.answer = a]
    BY <2>1, <2>3, <2>5, <2>6
  <2> HIDE DEF t
  <2> QED BY SMT, <2>7, <2>8 DEF IsThread
<1>2. thread' = [thread EXCEPT ![h] = IF thread[h].waited THEN t ELSE Idle]
  BY DEF write_json
<1> HIDE DEF t
<1>3. CASE thread[h].waited
  <2>1. thread' = [thread EXCEPT ![h] = t]
    BY <1>2, <1>3
  <2>2. ThreadOnly(h) /\ thread'[h] = t
    BY <1>1, <2>1, Touch
  <2> QED BY <1>1, <2>2 DEF Answered
<1>4. CASE ~thread[h].waited
  <2>1. thread' = [thread EXCEPT ![h] = Idle]
    BY <1>2, <1>4
  <2>2. ThreadOnly(h) /\ thread'[h] = Idle
    BY <2>1, IdleThread, Touch
  <2> QED BY <2>2, IdleThread DEF Answered
<1> QED BY <1>3, <1>4

\* A thread that goes on with its request.
LEMMA MoveOn ==
    ASSUME HarnessTypes, NEW h \in Threads, NEW pc, NEW old, NEW new,
           thread' = [thread EXCEPT ![h].pc = pc, ![h].old = old, ![h].new = new]
    PROVE  Moves(h, pc, old, new)
<1> DEFINE u == [thread[h] EXCEPT !.pc = pc]
           v == [u EXCEPT !.old = old]
           t == [v EXCEPT !.new = new]
<1>1. IsThread(u) /\ u.pc = pc /\ u.req = thread[h].req
  BY SMT DEF HarnessTypes, IsThread
<1>2. thread' = [thread EXCEPT ![h] = t]
  BY DEF HarnessTypes
<1> HIDE DEF u
<1>3. IsThread(v) /\ v.pc = pc /\ v.req = thread[h].req /\ v.old = old
  BY SMT, <1>1 DEF IsThread
<1> HIDE DEF v
<1>4. IsThread(t) /\ t.pc = pc /\ t.req = thread[h].req /\ t.old = old /\ t.new = new
  BY SMT, <1>3 DEF IsThread
<1> HIDE DEF t
<1>5. ThreadOnly(h) /\ thread'[h] = t
  BY <1>2, <1>4, Touch
<1> QED BY <1>4, <1>5 DEF Moves

\* A thread that goes on with what it has in hand.
LEMMA MoveOnSame ==
    ASSUME HarnessTypes, NEW h \in Threads, NEW pc, thread' = [thread EXCEPT ![h].pc = pc]
    PROVE  Moves(h, pc, thread[h].old, thread[h].new)
<1> DEFINE t == [thread[h] EXCEPT !.pc = pc]
<1>1. /\ IsThread(t) /\ t.pc = pc /\ t.req = thread[h].req
      /\ t.old = thread[h].old /\ t.new = thread[h].new
  BY SMT DEF HarnessTypes, IsThread
<1>2. thread' = [thread EXCEPT ![h] = t]
  BY DEF HarnessTypes
<1> HIDE DEF t
<1>3. ThreadOnly(h) /\ thread'[h] = t
  BY <1>1, <1>2, Touch
<1> QED BY <1>1, <1>3 DEF Moves

(* A step of thread h that concerns only its component. *)
Alone(h, c) == \A g \in Threads \ {h} : ~On(g, c)

Effect(h, c) ==
    /\ thread[h].pc # "free" /\ Target(thread[h].req) = c
    /\ Alone(h, c)
    /\ ThreadOnly(h)
    /\ thread'[h].pc # "free" => thread'[h].req = thread[h].req
    /\ current' = [d \in Components |-> current'[d]]
    /\ \A d \in Components \ {c} : current'[d] = current[d]
    /\ records' = [p \in Deployments |-> records'[p]]
    /\ \A p \in Deployments : records[p] # Nothing => records'[p] # Nothing
    /\ IsFiniteSet(running')
    /\ starts' \in Nat
    /\ \A s \in running' \ running : ComponentOf[s.dep] = c
    /\ NotForgotten
    /\ UNCHANGED <<boot, crashes, control>>

\* Records that are good stay so while none is taken away.
LEMMA RecordsStay ==
    ASSUME \A p \in Deployments : records[p] # Nothing => records'[p] # Nothing, NEW r, NEW c
    PROVE  (RecordOf(r, c) => RecordOf(r, c)') /\ (Filed(r, c) => Filed(r, c)')
<1>1. r \in DeploymentRecord =>
          r.dep \in Deployments /\ (r.prev # Nothing => r.prev \in Deployments)
  BY SMT DEF DeploymentRecord
<1> QED BY <1>1 DEF RecordOf, Filed

\* Fewer processes that nothing is known of, and no fewer faults to blame.
LEMMA OrphansStay ==
    ASSUME ProcessInv, IsFiniteSet(running'), NotForgotten,
           \A c \in Components : Orphans(c)' \subseteq Orphans(c)
    PROVE  OrphansCounted'
<1> SUFFICES ASSUME NEW c \in Components
             PROVE  (Cardinality(Orphans(c)) <= crashes + leaks)'
  BY DEF OrphansCounted
<1>1. IsFiniteSet(Orphans(c))
  BY FS_Subset DEF Orphans, ProcessInv, HarnessTypes
<1>2. /\ IsFiniteSet(Orphans(c)')
      /\ Cardinality(Orphans(c)') <= Cardinality(Orphans(c))
  BY <1>1, FS_Subset
<1>3. Cardinality(Orphans(c)') \in Nat /\ Cardinality(Orphans(c)) \in Nat
  BY <1>1, <1>2, FS_CardinalityType
<1>4. Cardinality(Orphans(c)) <= crashes + leaks /\ crashes \in Nat /\ leaks \in Nat
  BY DEF ProcessInv, OrphansCounted, HarnessTypes
<1>5. Cardinality(Orphans(c)') <= crashes' + leaks'
  BY SMT, <1>2, <1>3, <1>4 DEF NotForgotten
<1> QED BY <1>5

\* A fault may leave one process more behind at each component.
LEMMA OrphansGrow ==
    ASSUME ProcessInv, IsFiniteSet(running'), NotForgotten,
           crashes' = crashes + 1 \/ leaks' = leaks + 1,
           \A c \in Components : \E x : Orphans(c)' \subseteq Orphans(c) \cup {x}
    PROVE  OrphansCounted'
<1> SUFFICES ASSUME NEW c \in Components
             PROVE  (Cardinality(Orphans(c)) <= crashes + leaks)'
  BY DEF OrphansCounted
<1>1. PICK x : Orphans(c)' \subseteq Orphans(c) \cup {x}
  OBVIOUS
<1>2. IsFiniteSet(Orphans(c))
  BY FS_Subset DEF Orphans, ProcessInv, HarnessTypes
<1>3. /\ IsFiniteSet(Orphans(c) \cup {x})
      /\ \/ Cardinality(Orphans(c) \cup {x}) = Cardinality(Orphans(c))
         \/ Cardinality(Orphans(c) \cup {x}) = Cardinality(Orphans(c)) + 1
  BY <1>2, FS_AddElement
<1>4. /\ IsFiniteSet(Orphans(c)')
      /\ Cardinality(Orphans(c)') <= Cardinality(Orphans(c) \cup {x})
  BY <1>1, <1>3, FS_Subset
<1>5. Cardinality(Orphans(c)') \in Nat /\ Cardinality(Orphans(c)) \in Nat
  BY <1>2, <1>4, FS_CardinalityType
<1>6. Cardinality(Orphans(c)) <= crashes + leaks /\ crashes \in Nat /\ leaks \in Nat
  BY DEF ProcessInv, OrphansCounted, HarnessTypes
<1>7. Cardinality(Orphans(c)') <= crashes' + leaks'
  BY SMT, <1>3, <1>4, <1>5, <1>6 DEF NotForgotten
<1> QED BY <1>7

\* Such a step keeps the invariant when it does so for its own component; at the
\* others it leaves no process behind.
LEMMA FrameRest ==
    ASSUME ProcessInv, NEW c \in Components, NEW h \in Threads, Effect(h, c),
           \A p \in Deployments : records'[p] # Nothing =>
               (RecordOf(records[p], ComponentOf[p]) /\ records[p].dep = p)',
           current'[c] # Nothing => Filed(current[c], c)',
           On(h, c)' => InHand(h, c)'
    PROVE  /\ HarnessTypes' /\ BootAlone' /\ OneAtATime' /\ RecordsHold' /\ WorkHolds'
           /\ \A d \in Components \ {c} : Orphans(d)' \subseteq Orphans(d)
<1>1. HarnessTypes'
  BY DEF ProcessInv, HarnessTypes, Effect, ThreadOnly, Pends, NotForgotten
<1>2. BootAlone'
  BY DEF ProcessInv, BootAlone, Effect
<1>3. /\ \A d : \A g \in Threads \ {h} : On(g, d)' <=> On(g, d)
      /\ \A d : On(h, d)' => d = c
      /\ \A d : On(h, d) => d = c
  <2>1. ASSUME NEW d, NEW g \in Threads \ {h} PROVE On(g, d)' <=> On(g, d)
    BY DEF On, Works, Effect, ThreadOnly
  <2>2. ASSUME NEW d PROVE (On(h, d)' => d = c) /\ (On(h, d) => d = c)
    BY DEF On, Works, Effect
  <2> QED BY <2>1, <2>2
<1>4. OneAtATime'
  <2> SUFFICES ASSUME NEW d \in Components, NEW g \in Threads, NEW k \in Threads,
                      On(g, d)', On(k, d)'
               PROVE  g = k
    BY DEF OneAtATime
  <2>1. CASE g = h \/ k = h
    <3>1. d = c
      BY <1>3, <2>1
    <3>2. \A f \in Threads \ {h} : ~On(f, c)'
      BY <1>3 DEF Effect, Alone
    <3> QED BY <2>1, <3>1, <3>2
  <2>2. CASE g # h /\ k # h
    BY <1>3, <2>2 DEF ProcessInv, OneAtATime
  <2> QED BY <2>1, <2>2
<1>5. \A r, d : (RecordOf(r, d) => RecordOf(r, d)') /\ (Filed(r, d) => Filed(r, d)')
  <2>1. \A p \in Deployments : records[p] # Nothing => records'[p] # Nothing
    BY DEF Effect
  <2> QED BY <2>1, RecordsStay
<1>6. RecordsHold'
  BY <1>5 DEF ProcessInv, RecordsHold, Effect
<1>7. WorkHolds'
  <2> SUFFICES ASSUME NEW d \in Components, NEW g \in Threads, On(g, d)'
               PROVE  InHand(g, d)'
    BY DEF WorkHolds
  <2>1. CASE g = h
    BY <1>3, <2>1
  <2>2. CASE g # h
    <3>1. On(g, d) /\ d # c /\ thread'[g] = thread[g] /\ current'[d] = current[d]
      <4>1. On(g, d) /\ thread'[g] = thread[g]
        BY <1>3, <2>2 DEF Effect, ThreadOnly
      <4>2. d # c
        BY <2>2, <4>1 DEF Effect, Alone
      <4> QED BY <4>1, <4>2 DEF Effect
    <3>2. InHand(g, d)
      BY <3>1 DEF ProcessInv, WorkHolds
    <3>3. thread[g].new \in DeploymentRecord /\ thread[g].new.dep \in Deployments
      BY SMT, <3>2 DEF InHand, RecordOf, DeploymentRecord
    <3> QED BY <1>5, <3>1, <3>2, <3>3 DEF InHand, Effect
  <2> QED BY <2>1, <2>2
<1>8. ASSUME NEW d \in Components \ {c} PROVE Orphans(d)' \subseteq Orphans(d)
  <2>1. \A g \in Threads : On(g, d) => On(g, d)' /\ thread'[g] = thread[g]
    BY <1>3 DEF Effect, ThreadOnly
  <2>2. \A s : Known(d, s) => Known(d, s)'
    BY <2>1 DEF Known, Effect
  <2>3. \A s \in running' : ComponentOf[s.dep] = d => s \in running
    BY DEF Effect
  <2> QED BY <2>2, <2>3 DEF Orphans
<1> QED BY <1>1, <1>2, <1>4, <1>6, <1>7, <1>8

\* The step leaves no process behind, ...
LEMMA Frame ==
    ASSUME ProcessInv, NEW c \in Components, NEW h \in Threads, Effect(h, c),
           \A p \in Deployments : records'[p] # Nothing =>
               (RecordOf(records[p], ComponentOf[p]) /\ records[p].dep = p)',
           current'[c] # Nothing => Filed(current[c], c)',
           On(h, c)' => InHand(h, c)',
           \A s \in running' :
               ComponentOf[s.dep] = c /\ (s \in running => Known(c, s)) => Known(c, s)'
    PROVE  ProcessInv'
<1>1. /\ HarnessTypes' /\ BootAlone' /\ OneAtATime' /\ RecordsHold' /\ WorkHolds'
      /\ \A d \in Components \ {c} : Orphans(d)' \subseteq Orphans(d)
  BY FrameRest
<1>2. Orphans(c)' \subseteq Orphans(c)
  BY DEF Orphans
<1>3. OrphansCounted'
  BY <1>1, <1>2, OrphansStay DEF Effect
<1> QED BY <1>1, <1>3 DEF ProcessInv

\* ... or one, because something failed on the way.
LEMMA FrameLosing ==
    ASSUME ProcessInv, NEW c \in Components, NEW h \in Threads, Effect(h, c),
           \A p \in Deployments : records'[p] # Nothing =>
               (RecordOf(records[p], ComponentOf[p]) /\ records[p].dep = p)',
           current'[c] # Nothing => Filed(current[c], c)',
           On(h, c)' => InHand(h, c)', Leak, NEW x,
           \A s \in running' : (s \in running => Known(c, s)) => Known(c, s)' \/ s = x
    PROVE  ProcessInv'
<1>1. /\ HarnessTypes' /\ BootAlone' /\ OneAtATime' /\ RecordsHold' /\ WorkHolds'
      /\ \A d \in Components \ {c} : Orphans(d)' \subseteq Orphans(d)
  BY FrameRest
<1>2. Orphans(c)' \subseteq Orphans(c) \cup {x}
  BY DEF Orphans
<1>3. ASSUME NEW d \in Components PROVE \E y : Orphans(d)' \subseteq Orphans(d) \cup {y}
  BY <1>1, <1>2
<1>4. OrphansCounted'
  BY <1>3, OrphansGrow DEF Effect, Leak
<1> QED BY <1>1, <1>4 DEF ProcessInv

-----------------------------------------------------------------------------
(* The steps of a harness thread, by what they do. *)

(* A request is refused, or answered from the record. *)
Refuses(h, c, a) ==
    /\ thread[h].pc = "lock"
    /\ Answered(h, a)
    /\ a.kind = "receipt" /\ thread[h].req.kind = "deploy" =>
           current[c] # Nothing /\ current[c].dep = thread[h].req.id
    /\ UNCHANGED <<running, starts, records, current, leaks>>

(* A process is started under the record n. *)
Launches(h, c, n) ==
    /\ thread[h].pc = "lock"
    /\ Moves(h, "started", current[c], n)
    /\ RecordOf(n, c)
    /\ \/ thread[h].req.kind = "deploy" /\ n.dep = thread[h].req.id /\ n.status = "healthy"
       \/ /\ thread[h].req.kind = "rollback" /\ n.status = "rolled_back"
          /\ records[n.dep] # Nothing
    /\ running' = running \cup {Slot(n)}
    /\ starts' \in Nat
    /\ UNCHANGED <<records, current, leaks>>

(* The process is stopped, to be recorded as disabled. *)
Halts(h, c, n) ==
    /\ thread[h].pc = "lock" /\ thread[h].req.kind = "disable"
    /\ current[c] # Nothing
    /\ Moves(h, "stopped", current[c], n)
    /\ RecordOf(n, c) /\ n.status = "disabled" /\ Slot(n) = Slot(current[c])
    /\ running' \subseteq running
    /\ UNCHANGED <<starts, records, current, leaks>>

(* A start that is given up on leaves the process s. *)
Abandons(h, c, s, a) ==
    /\ thread[h].pc = "lock"
    /\ Answered(h, a) /\ a.kind # "receipt"
    /\ running' = running \cup {s} /\ ComponentOf[s.dep] = c
    /\ starts' \in Nat /\ Leak
    /\ UNCHANGED <<records, current>>

(* The record is written, and the work goes on, or ends because the file    *)
(* was not synced. *)
Files(h) ==
    /\ thread[h].pc = "started" /\ thread[h].req.kind = "deploy"
    /\ records' = [records EXCEPT ![thread[h].new.dep] = thread[h].new]
    /\ \/ Moves(h, "recorded", thread[h].old, thread[h].new) /\ UNCHANGED running
       \/ /\ \E a : Answered(h, a) /\ a.kind # "receipt"
          /\ running' = running \ {Slot(thread[h].new)}
    /\ UNCHANGED <<starts, current, leaks>>

Activates(h, c) ==
    /\ Works(h) /\ thread[h].pc # "stopped" /\ records[thread[h].new.dep] # Nothing
    /\ Moves(h, "active", thread[h].old, thread[h].new)
    /\ current' = [current EXCEPT ![c] = thread[h].new]
    /\ UNCHANGED <<running, starts, records, leaks>>

(* The work ends with x as the component's record, and of the processes in  *)
(* hand only the one under x may still run. *)
Ends(h, c, x, a) ==
    /\ Works(h)
    /\ Answered(h, a)
    /\ x = thread[h].old \/ (x = thread[h].new /\ records[x.dep] # Nothing)
    /\ current' = [current EXCEPT ![c] = x]
    /\ running' \subseteq running
    /\ \A s \in running' :
           s \in Slots(thread[h].old) \cup Slots(thread[h].new) => s \in Slots(x)
    /\ a.kind = "receipt" /\ thread[h].req.kind = "deploy" =>
           x = thread[h].new /\ a.port = x.port
    /\ UNCHANGED <<starts, records, leaks>>

(* It ends so, but the process that is not under x may be left running. *)
Loses(h, c, x, a) ==
    /\ Works(h)
    /\ Answered(h, a) /\ a.kind # "receipt"
    /\ x = thread[h].old \/ (x = thread[h].new /\ records[x.dep] # Nothing)
    /\ current' = [current EXCEPT ![c] = x]
    /\ running' \subseteq running
    /\ Leak
    /\ UNCHANGED <<starts, records>>

ThreadStep(h, c) ==
    \/ \E a : Refuses(h, c, a)
    \/ \E n : Launches(h, c, n)
    \/ \E n : Halts(h, c, n)
    \/ \E s, a : Abandons(h, c, s, a)
    \/ Files(h)
    \/ Activates(h, c)
    \/ \E x, a : Ends(h, c, x, a)
    \/ \E x, a : Loses(h, c, x, a)

\* The fields of a record, and that it is one.
LEMMA RecordFields ==
    ASSUME NEW r \in DeploymentRecord
    PROVE  /\ r # Nothing /\ r.dep \in Deployments /\ r.port \in Nat
           /\ r.prev # Nothing => r.prev \in Deployments
           /\ Slots(r) = {Slot(r)}
<1>1. r.dep \in Deployments /\ r.port \in Nat /\ (r.prev # Nothing => r.prev \in Deployments)
  BY SMT DEF DeploymentRecord
<1>2. r # Nothing
  BY NothingIsNoRecord
<1> QED BY <1>1, <1>2 DEF Slots

\* A failure is not a receipt.
LEMMA FailureIsNoReceipt == \A code : Failure(code).kind # "receipt"
<1> SUFFICES ASSUME NEW code PROVE Failure(code).kind # "receipt"
  OBVIOUS
<1>1. Failure(code).kind \in {"definitive", "uncertain"}
  BY DEF Failure
<1> QED BY <1>1

\* What a thread that works has in hand.
LEMMA WorkingThread ==
    ASSUME ProcessInv, NEW h \in Threads, NEW c \in Components, Works(h),
           c = Target(thread[h].req)
    PROVE  /\ InHand(h, c) /\ Alone(h, c) /\ thread[h].pc # "free"
           /\ thread[h].new \in DeploymentRecord
<1>1. On(h, c) /\ thread[h].pc # "free"
  BY DEF On, Works
<1>2. InHand(h, c)
  BY <1>1 DEF ProcessInv, WorkHolds
<1>3. Alone(h, c)
  BY <1>1 DEF ProcessInv, OneAtATime, Alone
<1> QED BY <1>1, <1>2, <1>3 DEF InHand, RecordOf

\* The lock is taken only while no other thread works on the component.
LEMMA LockIsExclusive ==
    ASSUME NEW h \in Threads, lock_component(h)
    PROVE  thread[h].pc = "lock" /\ Alone(h, Target(thread[h].req))
BY DEF lock_component, Alone, On, Works

\* The steps that only answer.
LEMMA RefusalSteps ==
    ASSUME ProcessInv, NEW h \in Threads, NEW c \in Components, c = Target(thread[h].req),
           load_manifest(h) \/ control_answered(h)
    PROVE  \E a : Refuses(h, c, a)
<1>1. CASE load_manifest(h)
  <2>1. PICK code : write_json(h, Failure(code))
    BY <1>1 DEF load_manifest
  <2>2. Answered(h, Failure(code))
    BY <2>1, WriteJson DEF ProcessInv
  <2> QED BY <1>1, <2>2, FailureIsNoReceipt DEF load_manifest, lock_component, Refuses
<1>2. CASE control_answered(h)
  <2>1. PICK a : write_json(h, a)
    BY <1>2 DEF control_answered
  <2>2. Answered(h, a)
    BY <2>1, WriteJson DEF ProcessInv
  <2>3. thread[h].req.kind # "deploy"
    BY <1>2 DEF control_answered
  <2> QED BY <1>2, <2>2, <2>3 DEF control_answered, lock_component, Refuses
<1> QED BY <1>1, <1>2

\* A deployment starts its process, or is answered at once.
LEMMA DeploySteps ==
    ASSUME ProcessInv, NEW h \in Threads, NEW c \in Components, c = Target(thread[h].req),
           deploy(h)
    PROVE  (\E a : Refuses(h, c, a)) \/ (\E n : Launches(h, c, n))
<1> DEFINE p == thread[h].req.id
           old == current[c]
           found == existing_deployment(p, old)
<1>1. /\ thread[h].pc = "lock" /\ thread[h].req.kind = "deploy"
      /\ UNCHANGED <<records, current, leaks>>
      /\ p \in Deployments /\ c = ComponentOf[p]
  BY DEF deploy, lock_component, ProcessInv, HarnessTypes, Request, Target
<1>2. CASE found = "start" /\ start(p, starts + 1)
           /\ thread' = [thread EXCEPT ![h].pc = "started", ![h].old = old,
                                       ![h].new = DeployedRecord(p, old)]
  <2>1. PICK n : n = DeployedRecord(p, old)
    OBVIOUS
  <2>2. Moves(h, "started", old, n)
    BY <1>2, <2>1, MoveOn DEF ProcessInv
  <2>3. old # Nothing => Filed(old, c) /\ old.dep \in Deployments
    <3> SUFFICES ASSUME old # Nothing PROVE Filed(old, c) /\ old.dep \in Deployments
      OBVIOUS
    <3>1. Filed(old, c)
      BY DEF ProcessInv, RecordsHold
    <3> QED BY <3>1, RecordFields DEF Filed, RecordOf
  <2>4. PICK m : m = starts + 1
    OBVIOUS
  <2>5. m \in Nat
    BY SMT, <2>4 DEF ProcessInv, HarnessTypes
  <2>6. PICK q : q = IF old = Nothing THEN Nothing ELSE old.dep
    OBVIOUS
  <2>7. n = [dep |-> p, status |-> "healthy", port |-> m, inst |-> m, prev |-> q,
             last |-> Nothing]
    BY <2>1, <2>4, <2>6 DEF DeployedRecord
  <2>8. q \in Deployments \cup {Nothing} /\ (q # Nothing => q = old.dep /\ old # Nothing)
    BY <2>3, <2>6
  <2>9. n \in DeploymentRecord
    BY SMT, <1>1, <2>5, <2>7, <2>8 DEF DeploymentRecord
  <2>10. n.dep = p /\ n.status = "healthy" /\ n.prev = q
         /\ Slot(n) = [dep |-> p, port |-> m, inst |-> m]
    BY <2>7 DEF Slot
  <2>11. RecordOf(n, c)
    BY <1>1, <2>3, <2>8, <2>9, <2>10 DEF RecordOf, Filed
  <2>12. running' = running \cup {Slot(n)} /\ starts' = m
    BY <1>2, <2>4, <2>10 DEF start, NewProcess
  <2> QED BY <1>1, <2>2, <2>5, <2>10, <2>11, <2>12 DEF Launches
<1>3. CASE /\ \/ \E code \in StartFailures : write_json(h, Failure(code))
              \/ found # "start" /\ write_json(h, IF found = "replay" THEN Receipt(old)
                                                  ELSE Failure("NOT_MONOTONIC"))
           /\ UNCHANGED <<running, starts>>
  <2>1. PICK a : /\ write_json(h, a)
                 /\ \/ \E code : a = Failure(code)
                    \/ found = "replay"
    BY <1>3
  <2>2. Answered(h, a)
    BY <2>1, WriteJson DEF ProcessInv
  <2>3. found = "replay" => old # Nothing /\ old.dep = p
    BY DEF existing_deployment
  <2>4. a.kind = "receipt" => old # Nothing /\ old.dep = p
    BY <2>1, <2>3, FailureIsNoReceipt
  <2> QED BY <1>1, <1>3, <2>2, <2>4 DEF Refuses
<1> QED BY <1>1, <1>2, <1>3 DEF deploy

\* A rollback starts the process of what the component was at before.
LEMMA RollbackSteps ==
    ASSUME ProcessInv, NEW h \in Threads, NEW c \in Components, c = Target(thread[h].req),
           rollback(h)
    PROVE  (\E a : Refuses(h, c, a)) \/ (\E n : Launches(h, c, n))
<1> DEFINE q == thread[h].req
           old == current[c]
<1>1. /\ thread[h].pc = "lock" /\ q.kind = "rollback"
      /\ UNCHANGED <<records, current, leaks>>
      /\ old # Nothing /\ q.id \in Controls
  BY DEF rollback, ControlBegins, lock_component, ProcessInv, HarnessTypes, Request
<1>2. CASE /\ old.prev # Nothing
           /\ start(old.prev, starts + 1)
           /\ thread' = [thread EXCEPT ![h].pc = "started", ![h].old = old,
                                       ![h].new = rolled_back_record(old, q)]
  <2>1. PICK n : n = rolled_back_record(old, q)
    OBVIOUS
  <2>2. Moves(h, "started", old, n)
    BY <1>2, <2>1, MoveOn DEF ProcessInv
  <2>3. /\ old \in DeploymentRecord /\ old.prev \in Deployments
        /\ ComponentOf[old.prev] = c /\ records[old.prev] # Nothing
    BY <1>1, <1>2, RecordFields DEF ProcessInv, RecordsHold, Filed, RecordOf
  <2>4. PICK f : f = records[old.prev]
    OBVIOUS
  <2>5. RecordOf(f, c) /\ f.dep = old.prev /\ f \in DeploymentRecord
    BY <2>3, <2>4 DEF ProcessInv, RecordsHold, RecordOf
  <2>6. PICK m : m = starts + 1
    OBVIOUS
  <2>7. m \in Nat
    BY SMT, <2>6 DEF ProcessInv, HarnessTypes
  <2>a. PICK a : a = [f EXCEPT !.status = "rolled_back"]
    OBVIOUS
  <2>b. PICK b : b = [a EXCEPT !.port = m]
    OBVIOUS
  <2>8. PICK r : r = [b EXCEPT !.inst = m]
    OBVIOUS
  <2>9. /\ r \in DeploymentRecord /\ r.dep = f.dep /\ r.prev = f.prev
        /\ r.status = "rolled_back" /\ r.port = m /\ r.inst = m
    <3>1. /\ a \in DeploymentRecord /\ a.dep = f.dep /\ a.prev = f.prev
          /\ a.status = "rolled_back"
      BY SMT, <2>5, <2>a DEF DeploymentRecord
    <3>2. /\ b \in DeploymentRecord /\ b.dep = a.dep /\ b.prev = a.prev
          /\ b.status = a.status /\ b.port = m
      BY SMT, <2>7, <2>b, <3>1 DEF DeploymentRecord
    <3>3. /\ r \in DeploymentRecord /\ r.dep = b.dep /\ r.prev = b.prev
          /\ r.status = b.status /\ r.port = b.port /\ r.inst = m
      BY SMT, <2>7, <2>8, <3>2 DEF DeploymentRecord
    <3> QED BY <3>1, <3>2, <3>3
  <2>10. n = [r EXCEPT !.last = control_receipt(r, q.id, "rollback")]
    BY <2>1, <2>4, <2>6, <2>a, <2>b, <2>8 DEF rolled_back_record, load_record_by_artifact
  <2>11. PICK l : l = control_receipt(r, q.id, "rollback")
    OBVIOUS
  <2>12. l = [kind |-> "control", id |-> q.id, action |-> "rollback", dep |-> r.dep,
              port |-> r.port]
    BY <2>11 DEF control_receipt
  <2>13. r.dep \in Deployments /\ r.port \in Nat
    BY <2>9, RecordFields
  <2>14. /\ n \in DeploymentRecord /\ n.dep = r.dep /\ n.prev = r.prev
         /\ n.status = r.status /\ n.port = r.port /\ n.inst = r.inst
    BY SMT, <1>1, <2>9, <2>10, <2>11, <2>12, <2>13 DEF DeploymentRecord
  <2>15. n.dep = old.prev /\ n.prev = f.prev /\ n.status = "rolled_back"
         /\ Slot(n) = [dep |-> old.prev, port |-> m, inst |-> m]
    BY <2>5, <2>9, <2>14 DEF Slot
  <2>16. RecordOf(n, c) /\ records[n.dep] # Nothing
    BY <2>3, <2>5, <2>14, <2>15 DEF RecordOf
  <2>17. running' = running \cup {Slot(n)} /\ starts' = m
    BY <1>2, <2>6, <2>15 DEF start, NewProcess
  <2> QED BY <1>1, <2>2, <2>7, <2>15, <2>16, <2>17 DEF Launches
<1>3. CASE (\E a : write_json(h, a)) /\ UNCHANGED <<running, starts>>
  <2>1. PICK a : write_json(h, a)
    BY <1>3
  <2>2. Answered(h, a)
    BY <2>1, WriteJson DEF ProcessInv
  <2> QED BY <1>1, <1>3, <2>2 DEF Refuses
<1> QED BY <1>1, <1>2, <1>3 DEF rollback

\* Disabling stops the process, or is refused.
LEMMA DisableSteps ==
    ASSUME ProcessInv, NEW h \in Threads, NEW c \in Components, c = Target(thread[h].req),
           disable(h)
    PROVE  (\E a : Refuses(h, c, a)) \/ (\E n : Halts(h, c, n))
<1> DEFINE q == thread[h].req
           r == current[c]
<1>1. /\ thread[h].pc = "lock" /\ q.kind = "disable"
      /\ UNCHANGED <<starts, records, current, leaks>>
      /\ r # Nothing /\ q.id \in Controls
  BY DEF disable, ControlBegins, lock_component, ProcessInv, HarnessTypes, Request
<1>2. CASE /\ running' = IF r.status = "disabled" THEN running ELSE stop(r)
           /\ thread' = [thread EXCEPT ![h].pc = "stopped", ![h].old = r,
                 ![h].new = [r EXCEPT !.status = "disabled",
                                      !.last = control_receipt(r, q.id, "disable")]]
  <2>1. PICK l : l = control_receipt(r, q.id, "disable")
    OBVIOUS
  <2>2. PICK n : n = [r EXCEPT !.status = "disabled", !.last = l]
    OBVIOUS
  <2>3. Moves(h, "stopped", r, n)
    BY <1>2, <2>1, <2>2, MoveOn DEF ProcessInv
  <2>4. RecordOf(r, c) /\ r \in DeploymentRecord /\ r.dep \in Deployments /\ r.port \in Nat
    BY <1>1, RecordFields DEF ProcessInv, RecordsHold, Filed, RecordOf
  <2>5. l = [kind |-> "control", id |-> q.id, action |-> "disable", dep |-> r.dep,
             port |-> r.port]
    BY <2>1 DEF control_receipt
  <2> HIDE DEF r
  <2>6. /\ n \in DeploymentRecord /\ n.dep = r.dep /\ n.prev = r.prev
        /\ n.status = "disabled" /\ n.port = r.port /\ n.inst = r.inst
    <3>1. PICK a : a = [r EXCEPT !.status = "disabled"]
      OBVIOUS
    <3>2. /\ a \in DeploymentRecord /\ a.dep = r.dep /\ a.prev = r.prev
          /\ a.status = "disabled" /\ a.port = r.port /\ a.inst = r.inst
      BY SMT, <2>4, <3>1 DEF DeploymentRecord
    <3>3. l \in [kind : {"control"}, id : Controls, action : {"disable", "rollback"},
                 dep : Deployments, port : Nat]
      BY SMT, <1>1, <2>4, <2>5
    <3>4. n = [a EXCEPT !.last = l]
      BY <2>2, <3>1
    <3>5. /\ n \in DeploymentRecord /\ n.dep = a.dep /\ n.prev = a.prev
          /\ n.status = a.status /\ n.port = a.port /\ n.inst = a.inst
      BY SMT, <3>2, <3>3, <3>4 DEF DeploymentRecord
    <3> QED BY <3>2, <3>5
  <2>7. RecordOf(n, c) /\ Slot(n) = Slot(r)
    BY <2>4, <2>6 DEF RecordOf, Slot
  <2>8. running' \subseteq running
    BY <1>2 DEF stop
  <2> QED BY <1>1, <2>3, <2>6, <2>7, <2>8 DEF Halts, r
<1>3. CASE (\E a : write_json(h, a)) /\ UNCHANGED running
  <2>1. PICK a : write_json(h, a)
    BY <1>3
  <2>2. Answered(h, a)
    BY <2>1, WriteJson DEF ProcessInv
  <2> QED BY <1>1, <1>3, <2>2 DEF Refuses
<1> QED BY <1>1, <1>2, <1>3 DEF disable

\* A deployment or a rollback gives up on the process it started.
LEMMA AbandonSteps ==
    ASSUME ProcessInv, NEW h \in Threads, NEW c \in Components, c = Target(thread[h].req),
           start_abandoned(h)
    PROVE  \E s, a : Abandons(h, c, s, a)
<1>1. PICK q : q = thread[h].req
  OBVIOUS
<1>2. PICK p : p = IF q.kind = "deploy" THEN q.id ELSE current[c].prev
  OBVIOUS
<1>3. /\ thread[h].pc = "lock" /\ start(p, starts + 1) /\ Leak
      /\ write_json(h, Failure("IO"))
      /\ UNCHANGED <<records, current>>
      /\ \/ q.kind = "deploy"
         \/ q.kind = "rollback" /\ current[c] # Nothing /\ p # Nothing
  BY <1>1, <1>2 DEF start_abandoned, lock_component
<1>4. ComponentOf[p] = c
  <2>1. CASE q.kind = "deploy"
    BY <1>1, <1>2, <2>1 DEF Target
  <2>2. CASE q.kind # "deploy"
    BY <1>2, <1>3, <2>2 DEF ProcessInv, RecordsHold, Filed, RecordOf
  <2> QED BY <2>1, <2>2
<1>5. PICK s : s = NewProcess(p, starts + 1)
  OBVIOUS
<1>6. running' = running \cup {s} /\ s.dep = p
  BY <1>3, <1>5 DEF start, NewProcess
<1>7. starts' \in Nat
  BY SMT, <1>3 DEF start, ProcessInv, HarnessTypes
<1>8. Answered(h, Failure("IO"))
  BY <1>3, WriteJson DEF ProcessInv
<1>9. Abandons(h, c, s, Failure("IO"))
  BY <1>3, <1>4, <1>6, <1>7, <1>8, FailureIsNoReceipt DEF Abandons
<1> QED BY <1>9

(* The steps of a working thread. *)
WorkStep(h) ==
    \/ record_deployment(h) \/ activate_record(h) \/ persist_fails(h)
    \/ record_unsynced(h) \/ active_unsynced(h) \/ restore_fails(h)
    \/ stop_previous(h) \/ stop_previous_fails(h) \/ disable_recorded(h)

\* A working thread records, activates, or ends its work.
LEMMA WorkSteps ==
    ASSUME ProcessInv, NEW h \in Threads, NEW c \in Components, c = Target(thread[h].req),
           WorkStep(h)
    PROVE  \/ Files(h) \/ Activates(h, c) \/ \E x, a : Ends(h, c, x, a)
           \/ \E x, a : Loses(h, c, x, a)
<1> DEFINE old == thread[h].old
           new == thread[h].new
<1>1. Works(h) /\ thread[h].pc \in {"started", "recorded", "active", "stopped"}
  BY DEF WorkStep, record_deployment, activate_record, persist_fails, record_unsynced,
         active_unsynced, restore_fails, stop_previous, stop_previous_fails,
         disable_recorded, Works
<1>2. InHand(h, c) /\ new \in DeploymentRecord
  BY <1>1, WorkingThread
<1>3. Slots(new) = {Slot(new)} /\ (old # Nothing => Slots(old) = {Slot(old)})
  BY <1>2, RecordFields DEF Slots
<1>4. current = [current EXCEPT ![c] = current[c]]
  BY DEF ProcessInv, HarnessTypes
<1>5. \A r : stop(r) = running \ {Slot(r)}
  BY DEF stop, Slot
<1>6. HarnessTypes
  BY DEF ProcessInv
<1>7. CASE record_deployment(h)
  <2>1. Moves(h, "recorded", old, new)
    BY <1>6, <1>7, MoveOnSame DEF record_deployment
  <2> QED BY <1>7, <2>1 DEF record_deployment, persist_record, Files
<1>8. CASE activate_record(h)
  <2>1. Moves(h, "active", old, new)
    BY <1>6, <1>8, MoveOnSame DEF activate_record
  <2>2. records[new.dep] # Nothing /\ thread[h].pc # "stopped"
    BY <1>2, <1>8 DEF activate_record, InHand
  <2> QED BY <1>1, <1>8, <2>1, <2>2 DEF activate_record, persist_active, Activates
<1>9. CASE persist_fails(h)
  <2>1. Answered(h, Failure("IO"))
    BY <1>6, <1>9, WriteJson DEF persist_fails
  <2>2. current[c] = old /\ UNCHANGED <<starts, records, current>>
    BY <1>2, <1>9 DEF persist_fails, InHand
  <2>3. current' = [current EXCEPT ![c] = old]
    BY <1>4, <2>2
  <2>4. CASE running' = stop(new) /\ UNCHANGED leaks
    <3>1. Ends(h, c, old, Failure("IO"))
      BY <1>1, <1>3, <1>5, <2>1, <2>2, <2>3, <2>4, FailureIsNoReceipt DEF Ends
    <3> QED BY <3>1
  <2>5. CASE UNCHANGED running /\ Leak
    <3>1. Loses(h, c, old, Failure("IO"))
      BY <1>1, <2>1, <2>2, <2>3, <2>5, FailureIsNoReceipt DEF Loses
    <3> QED BY <3>1
  <2> QED BY <1>9, <2>4, <2>5 DEF persist_fails, stop_started
<1>10. CASE stop_previous(h)
  <2>1. Answered(h, Finished(h))
    BY <1>6, <1>10, WriteJson DEF stop_previous
  <2>2. /\ current[c] = new /\ records[new.dep] # Nothing
        /\ running' = IF old = Nothing THEN running ELSE running \ {Slot(old)}
        /\ UNCHANGED <<starts, records, current, leaks>>
    BY <1>2, <1>5, <1>10 DEF stop_previous, InHand
  <2>3. current' = [current EXCEPT ![c] = new]
    BY <1>4, <2>2
  <2>4. thread[h].req.kind = "deploy" => Finished(h).port = new.port
    BY DEF Finished, Receipt
  <2>5. Slots(old) = IF old = Nothing THEN {} ELSE {Slot(old)}
    BY DEF Slots
  <2>6. /\ running' \subseteq running
        /\ \A s \in running' : s \in Slots(old) \cup Slots(new) => s \in Slots(new)
    BY <2>2, <2>5
  <2>7. Ends(h, c, new, Finished(h))
    BY <1>1, <2>1, <2>2, <2>3, <2>4, <2>6 DEF Ends
  <2> QED BY <2>7
<1>11. CASE stop_previous_fails(h)
  <2>1. Answered(h, Failure("STOP_FAILED"))
    BY <1>6, <1>11, WriteJson DEF stop_previous_fails
  <2>2. current' = [current EXCEPT ![c] = old] /\ UNCHANGED <<starts, records>>
    BY <1>11 DEF stop_previous_fails, persist_active
  <2>3. CASE running' = stop(new) /\ UNCHANGED leaks
    <3>1. Ends(h, c, old, Failure("STOP_FAILED"))
      BY <1>1, <1>3, <1>5, <2>1, <2>2, <2>3, FailureIsNoReceipt DEF Ends
    <3> QED BY <3>1
  <2>4. CASE UNCHANGED running /\ Leak
    <3>1. Loses(h, c, old, Failure("STOP_FAILED"))
      BY <1>1, <2>1, <2>2, <2>4, FailureIsNoReceipt DEF Loses
    <3> QED BY <3>1
  <2> QED BY <1>11, <2>3, <2>4 DEF stop_previous_fails, stop_started
<1>12. CASE disable_recorded(h)
  <2>1. /\ old # Nothing /\ current[c] = old /\ Slot(new) = Slot(old)
        /\ records[new.dep] # Nothing /\ thread[h].pc = "stopped"
        /\ UNCHANGED <<running, starts, records, leaks>>
    BY <1>2, <1>12 DEF disable_recorded, InHand
  <2>2. Slots(new) = Slots(old)
    BY <1>3, <2>1
  <2>3. thread[h].req.kind # "deploy"
    BY <1>2, <2>1 DEF InHand
  <2>4. \A s : s \in Slots(old) \cup Slots(new) => s \in Slots(old) /\ s \in Slots(new)
    BY <2>2
  <2>5. CASE persist_active(c, new) /\ write_json(h, new.last)
    <3>1. Answered(h, new.last)
      BY <1>6, <2>5, WriteJson
    <3>2. Ends(h, c, new, new.last)
      BY <1>1, <2>1, <2>3, <2>4, <2>5, <3>1 DEF Ends, persist_active
    <3> QED BY <3>2
  <2>6. CASE write_json(h, Failure("IO")) /\ UNCHANGED current
    <3>1. Answered(h, Failure("IO"))
      BY <1>6, <2>6, WriteJson
    <3>2. current' = [current EXCEPT ![c] = old]
      BY <1>4, <2>1, <2>6
    <3>3. Ends(h, c, old, Failure("IO"))
      BY <1>1, <2>1, <2>3, <2>4, <3>1, <3>2 DEF Ends
    <3> QED BY <3>3
  <2>7. CASE persist_active(c, new) /\ write_json(h, Failure("IO"))
    <3>1. Answered(h, Failure("IO"))
      BY <1>6, <2>7, WriteJson
    <3>2. Ends(h, c, new, Failure("IO"))
      BY <1>1, <2>1, <2>3, <2>4, <2>7, <3>1 DEF Ends, persist_active
    <3> QED BY <3>2
  <2> QED BY <1>12, <2>5, <2>6, <2>7 DEF disable_recorded
<1>13. CASE record_unsynced(h)
  <2>1. Answered(h, Failure("IO"))
    BY <1>6, <1>13, WriteJson DEF record_unsynced
  <2> QED BY <1>5, <1>13, <2>1, FailureIsNoReceipt DEF record_unsynced, persist_record, Files
<1>14. CASE active_unsynced(h)
  <2>1. Answered(h, Failure("IO"))
    BY <1>6, <1>14, WriteJson DEF active_unsynced
  <2>2. records[new.dep] # Nothing
    BY <1>2, <1>14 DEF active_unsynced, InHand
  <2>3. /\ current' = [current EXCEPT ![c] = new] /\ running' = running \ {Slot(new)}
        /\ Leak /\ UNCHANGED <<starts, records>>
    BY <1>5, <1>14 DEF active_unsynced, persist_active
  <2>4. Loses(h, c, new, Failure("IO"))
    BY <1>1, <2>1, <2>2, <2>3, FailureIsNoReceipt DEF Loses
  <2> QED BY <2>4
<1>15. CASE restore_fails(h)
  <2>1. Answered(h, Failure("IO"))
    BY <1>6, <1>15, WriteJson DEF restore_fails
  <2>2. /\ current[c] = new /\ records[new.dep] # Nothing
        /\ Leak /\ UNCHANGED <<running, starts, records>>
        /\ current' = [current EXCEPT ![c] = old] \/ UNCHANGED current
    BY <1>2, <1>15 DEF restore_fails, InHand, persist_active
  <2>3. CASE current' = [current EXCEPT ![c] = old]
    <3>1. Loses(h, c, old, Failure("IO"))
      BY <1>1, <2>1, <2>2, <2>3, FailureIsNoReceipt DEF Loses
    <3> QED BY <3>1
  <2>4. CASE UNCHANGED current
    <3>1. current' = [current EXCEPT ![c] = new]
      BY <1>4, <2>2, <2>4
    <3>2. Loses(h, c, new, Failure("IO"))
      BY <1>1, <2>1, <2>2, <3>1, FailureIsNoReceipt DEF Loses
    <3> QED BY <3>2
  <2> QED BY <2>2, <2>3, <2>4
<1> QED BY <1>7, <1>8, <1>9, <1>10, <1>11, <1>12, <1>13, <1>14, <1>15 DEF WorkStep

\* Every step of a harness thread is one of these.
LEMMA ThreadSteps ==
    ASSUME ProcessInv, NEW h \in Threads, HarnessStep(h)
    PROVE  Target(thread[h].req) \in Components /\ ThreadStep(h, Target(thread[h].req))
<1>1. thread[h].pc # "free"
  BY DEF HarnessStep, load_manifest, deploy, record_deployment, activate_record,
         start_abandoned, persist_fails, record_unsynced, active_unsynced, stop_previous,
         stop_previous_fails, restore_fails, control_answered, disable, disable_recorded,
         rollback, ControlBegins, lock_component
<1>2. PICK c : c = Target(thread[h].req)
  OBVIOUS
<1>3. c \in Components
  BY <1>1, <1>2, TargetIsComponent DEF ProcessInv, HarnessTypes
<1>4. CASE load_manifest(h) \/ control_answered(h)
  BY <1>2, <1>3, <1>4, RefusalSteps DEF ThreadStep
<1>5. CASE deploy(h)
  BY <1>2, <1>3, <1>5, DeploySteps DEF ThreadStep
<1>6. CASE rollback(h)
  BY <1>2, <1>3, <1>6, RollbackSteps DEF ThreadStep
<1>7. CASE disable(h)
  BY <1>2, <1>3, <1>7, DisableSteps DEF ThreadStep
<1>8. CASE start_abandoned(h)
  BY <1>2, <1>3, <1>8, AbandonSteps DEF ThreadStep
<1>9. CASE WorkStep(h)
  BY <1>2, <1>3, <1>9, WorkSteps DEF ThreadStep
<1> QED BY <1>2, <1>3, <1>4, <1>5, <1>6, <1>7, <1>8, <1>9 DEF HarnessStep, WorkStep

\* A thread at the lock that takes a step has the component to itself, ...
LEMMA StepAlone ==
    ASSUME ProcessInv, NEW h \in Threads, HarnessStep(h)
    PROVE  thread[h].pc # "free" /\ Alone(h, Target(thread[h].req))
<1>1. CASE \/ load_manifest(h) \/ deploy(h) \/ start_abandoned(h)
           \/ control_answered(h) \/ disable(h) \/ rollback(h)
  <2>1. lock_component(h)
    BY <1>1 DEF load_manifest, deploy, start_abandoned, control_answered, disable, rollback,
                ControlBegins
  <2> QED BY <2>1, LockIsExclusive
<1>2. CASE WorkStep(h)
  <2>1. Works(h)
    BY <1>2 DEF WorkStep, record_deployment, activate_record, persist_fails,
                record_unsynced, active_unsynced, restore_fails, stop_previous,
                stop_previous_fails, disable_recorded, Works
  <2>2. Target(thread[h].req) \in Components
    BY <2>1, TargetIsComponent DEF ProcessInv, HarnessTypes, Works
  <2> QED BY <2>1, <2>2, WorkingThread
<1> QED BY <1>1, <1>2 DEF HarnessStep, WorkStep

\* ... and leaves every other one as it is.
LEMMA ThreadStepEffect ==
    ASSUME ProcessInv, NEW h \in Threads, NEW c \in Components, c = Target(thread[h].req),
           thread[h].pc # "free", Alone(h, c), ThreadStep(h, c),
           UNCHANGED <<boot, crashes, control>>
    PROVE  Effect(h, c)
<1>1. IsFiniteSet(running) /\ starts \in Nat
      /\ current = [d \in Components |-> current[d]]
      /\ records = [p \in Deployments |-> records[p]]
  BY DEF ProcessInv, HarnessTypes
<1>2. \A x : current' = [current EXCEPT ![c] = x] =>
          /\ current' = [d \in Components |-> current'[d]]
          /\ \A d \in Components \ {c} : current'[d] = current[d]
  BY <1>1
<1>3. \A a : Answered(h, a) =>
          ThreadOnly(h) /\ (thread'[h].pc # "free" => thread'[h].req = thread[h].req)
  BY DEF Answered
<1>4. \A pc, old, new : Moves(h, pc, old, new) =>
          ThreadOnly(h) /\ thread'[h].req = thread[h].req
  BY DEF Moves
<1>5. /\ UNCHANGED leaks => NotForgotten
      /\ Leak => NotForgotten
  BY SMT DEF NotForgotten, Leak, ProcessInv, HarnessTypes
<1>6. CASE \E a : Refuses(h, c, a)
  BY <1>1, <1>3, <1>5, <1>6 DEF Refuses, Effect
<1>7. ASSUME NEW n, Launches(h, c, n) PROVE Effect(h, c)
  <2>1. IsFiniteSet(running \cup {Slot(n)})
    BY <1>1, FS_AddElement
  <2>2. Slot(n).dep = n.dep /\ ComponentOf[n.dep] = c
    BY <1>7 DEF Launches, RecordOf, Slot
  <2>3. \A s \in running' \ running : ComponentOf[s.dep] = c
    BY <1>7, <2>2 DEF Launches
  <2> QED BY <1>1, <1>4, <1>5, <1>7, <2>1, <2>3 DEF Launches, Effect
<1>8. ASSUME NEW n, Halts(h, c, n) PROVE Effect(h, c)
  <2>1. IsFiniteSet(running')
    BY <1>1, <1>8, FS_Subset DEF Halts
  <2> QED BY <1>1, <1>4, <1>5, <1>8, <2>1 DEF Halts, Effect
<1>9. ASSUME NEW s, NEW a, Abandons(h, c, s, a) PROVE Effect(h, c)
  <2>1. IsFiniteSet(running \cup {s})
    BY <1>1, FS_AddElement
  <2> QED BY <1>1, <1>3, <1>5, <1>9, <2>1 DEF Abandons, Effect
<1>10. CASE Files(h)
  <2>1. thread[h].new # Nothing /\ thread[h].new.dep \in Deployments
    BY <1>10, WorkingThread, RecordFields DEF Files, Works
  <2>2. /\ records' = [p \in Deployments |-> records'[p]]
        /\ \A p \in Deployments : records[p] # Nothing => records'[p] # Nothing
    BY <1>1, <1>10, <2>1 DEF Files
  <2>3. running' \subseteq running
    BY <1>10 DEF Files
  <2>4. IsFiniteSet(running')
    BY <1>1, <2>3, FS_Subset
  <2>5. ThreadOnly(h) /\ (thread'[h].pc # "free" => thread'[h].req = thread[h].req)
    BY <1>3, <1>4, <1>10 DEF Files
  <2> QED BY <1>1, <1>5, <1>10, <2>2, <2>3, <2>4, <2>5 DEF Files, Effect
<1>11. CASE Activates(h, c)
  BY <1>1, <1>2, <1>4, <1>5, <1>11 DEF Activates, Effect
<1>12. ASSUME NEW x, NEW a, Ends(h, c, x, a) PROVE Effect(h, c)
  <2>1. IsFiniteSet(running')
    BY <1>1, <1>12, FS_Subset DEF Ends
  <2> QED BY <1>1, <1>2, <1>3, <1>5, <1>12, <2>1 DEF Ends, Effect
<1>13. ASSUME NEW x, NEW a, Loses(h, c, x, a) PROVE Effect(h, c)
  <2>1. IsFiniteSet(running')
    BY <1>1, <1>13, FS_Subset DEF Loses
  <2> QED BY <1>1, <1>2, <1>3, <1>5, <1>13, <2>1 DEF Loses, Effect
<1> QED BY <1>6, <1>7, <1>8, <1>9, <1>10, <1>11, <1>12, <1>13 DEF ThreadStep

\* A step of a harness thread.
LEMMA ThreadStepKeeps ==
    ASSUME ProcessInv, NEW h \in Threads, NEW c \in Components, c = Target(thread[h].req),
           thread[h].pc # "free", Alone(h, c), ThreadStep(h, c),
           UNCHANGED <<boot, crashes, control>>
    PROVE  ProcessInv'
<1>1. Effect(h, c)
  BY ThreadStepEffect
<1>2. /\ \A r, d : (RecordOf(r, d) => RecordOf(r, d)') /\ (Filed(r, d) => Filed(r, d)')
      /\ \A p \in Deployments : records[p] # Nothing => records'[p] # Nothing
  <2>1. \A p \in Deployments : records[p] # Nothing => records'[p] # Nothing
    BY <1>1 DEF Effect
  <2> QED BY <2>1, RecordsStay
<1>3. /\ \A p \in Deployments : records[p] # Nothing =>
             RecordOf(records[p], ComponentOf[p]) /\ records[p].dep = p
      /\ current[c] # Nothing => Filed(current[c], c)
  BY DEF ProcessInv, RecordsHold
<1>4. UNCHANGED records =>
          \A p \in Deployments : records'[p] # Nothing =>
             (RecordOf(records[p], ComponentOf[p]) /\ records[p].dep = p)'
  BY <1>2, <1>3
<1>5. UNCHANGED current => (current'[c] # Nothing => Filed(current[c], c)')
  BY <1>2, <1>3
<1>6. \A s : Known(c, s) <=>
          \/ s \in Slots(current[c])
          \/ On(h, c) /\ s \in Slots(thread[h].old) \cup Slots(thread[h].new)
  BY DEF Known, Alone
<1>7. \A s : \/ s \in Slots(current'[c])
             \/ On(h, c)' /\ s \in Slots(thread'[h].old) \cup Slots(thread'[h].new)
             => Known(c, s)'
  BY DEF Known, Slots, Slot
<1>8. On(h, c) <=> Works(h)
  BY DEF On
<1>9. CASE \E a : Refuses(h, c, a)
  <2>1. ~On(h, c) /\ ~On(h, c)'
    BY <1>9 DEF Refuses, Answered, On, Works
  <2>2. \A s \in running' : s \in running /\ (Known(c, s) => Known(c, s)')
    BY <1>6, <1>7, <1>9, <2>1 DEF Refuses
  <2> QED BY <1>1, <1>4, <1>5, <1>9, <2>1, <2>2, Frame DEF Refuses
<1>10. ASSUME NEW n, Launches(h, c, n) PROVE ProcessInv'
  <2>1. ~On(h, c) /\ n \in DeploymentRecord /\ Slots(n) = {Slot(n)}
    BY <1>10, RecordFields DEF Launches, On, Works, RecordOf
  <2>2. /\ thread'[h].pc = "started" /\ thread'[h].req = thread[h].req
        /\ thread'[h].old = current[c] /\ thread'[h].new = n
        /\ running' = running \cup {Slot(n)} /\ UNCHANGED <<records, current>>
    BY <1>10 DEF Launches, Moves
  <2>3. On(h, c)'
    BY <2>2 DEF On, Works
  <2>4. RecordOf(n, c)'
    BY <1>2, <1>10 DEF Launches
  <2>5. records'[n.dep] # Nothing \/ thread'[h].req.kind = "deploy"
    BY <1>10, <2>2 DEF Launches
  <2>6. current[c] # Nothing => Filed(current[c], c)'
    BY <1>2, <1>3, <2>2
  <2>7. InHand(h, c)'
    BY <2>2, <2>4, <2>5, <2>6 DEF InHand
  <2>8. \A s \in running' : (s \in running => Known(c, s)) => Known(c, s)'
    BY <1>6, <1>7, <2>1, <2>2, <2>3
  <2> QED BY <1>1, <1>4, <1>5, <2>2, <2>7, <2>8, Frame
<1>11. ASSUME NEW n, Halts(h, c, n) PROVE ProcessInv'
  <2>1. ~On(h, c)
    BY <1>11 DEF Halts, On, Works
  <2>2. /\ thread'[h].pc = "stopped" /\ thread'[h].req = thread[h].req
        /\ thread'[h].old = current[c] /\ thread'[h].new = n
        /\ running' \subseteq running /\ UNCHANGED <<records, current>>
        /\ current[c] # Nothing /\ Slot(n) = Slot(current[c])
        /\ thread[h].req.kind = "disable"
    BY <1>11 DEF Halts, Moves
  <2>3. RecordOf(n, c)' /\ Filed(current[c], c)'
    BY <1>2, <1>3, <1>11, <2>2 DEF Halts
  <2>4. n.dep = current[c].dep
    BY <2>2 DEF Slot
  <2>5. records'[n.dep] # Nothing
    BY <1>3, <2>2, <2>4 DEF Filed
  <2>6. InHand(h, c)'
    BY <2>2, <2>3, <2>5 DEF InHand, Slot
  <2>7. \A s \in running' : s \in running /\ (Known(c, s) => Known(c, s)')
    BY <1>6, <1>7, <2>1, <2>2
  <2> QED BY <1>1, <1>4, <1>5, <2>2, <2>6, <2>7, Frame
<1>11a. ASSUME NEW s0, NEW a, Abandons(h, c, s0, a) PROVE ProcessInv'
  <2>1. ~On(h, c) /\ ~On(h, c)'
    BY <1>11a DEF Abandons, Answered, On, Works
  <2>2. running' = running \cup {s0} /\ Leak /\ UNCHANGED <<records, current>>
    BY <1>11a DEF Abandons
  <2>3. \A s \in running' : (s \in running => Known(c, s)) => Known(c, s)' \/ s = s0
    BY <1>6, <1>7, <2>1, <2>2
  <2> QED BY <1>1, <1>4, <1>5, <2>1, <2>2, <2>3, FrameLosing
<1>12. CASE Works(h) /\ InHand(h, c) /\ thread[h].new \in DeploymentRecord
  <2>00. PICK old, new : old = thread[h].old /\ new = thread[h].new
    OBVIOUS
  <2>0. /\ old # Nothing => Filed(old, c)
        /\ RecordOf(new, c) /\ new \in DeploymentRecord
    BY <1>12, <2>00 DEF InHand
  <2>1. CASE Files(h)
    <3>1. /\ records' = [records EXCEPT ![new.dep] = new] /\ UNCHANGED current
          /\ thread[h].pc = "started"
      BY <2>00, <2>1 DEF Files
    <3>2. new.dep \in Deployments /\ new # Nothing
      BY <2>0, RecordFields
    <3>3. RecordOf(new, c)' /\ ComponentOf[new.dep] = c
      BY <1>2, <2>0 DEF RecordOf
    <3>4. records'[new.dep] = new /\ \A p \in Deployments \ {new.dep} : records'[p] = records[p]
      BY <3>1, <3>2 DEF ProcessInv, HarnessTypes
    <3>5. ASSUME NEW p \in Deployments, records'[p] # Nothing
          PROVE  (RecordOf(records[p], ComponentOf[p]) /\ records[p].dep = p)'
      <4>1. CASE p = new.dep
        BY <3>3, <3>4, <4>1 DEF RecordOf
      <4>2. CASE p # new.dep
        <5>1. PICK r : r = records[p]
          OBVIOUS
        <5>2. records'[p] = r /\ r # Nothing
          BY <3>4, <3>5, <4>2, <5>1
        <5>3. RecordOf(r, ComponentOf[p]) /\ r.dep = p
          BY <1>3, <5>1, <5>2 DEF RecordOf
        <5>4. RecordOf(r, ComponentOf[p])'
          BY <1>2, <5>3
        <5> QED BY <5>2, <5>3, <5>4 DEF RecordOf
      <4> QED BY <4>1, <4>2
    <3>6. CASE Moves(h, "recorded", old, new) /\ UNCHANGED running
      <4>0. /\ thread'[h].pc = "recorded" /\ thread'[h].req = thread[h].req
            /\ thread'[h].old = old /\ thread'[h].new = new
        BY <3>6 DEF Moves
      <4>1. RecordOf(thread[h].new, c)'
        BY <3>3, <4>0 DEF RecordOf
      <4>2. thread'[h].old # Nothing => Filed(thread[h].old, c)'
        <5>1. old # Nothing => Filed(old, c)'
          BY <1>2, <2>0
        <5> QED BY <4>0, <5>1 DEF Filed, RecordOf
      <4>3. current'[c] = thread'[h].old
        BY <1>12, <2>00, <3>1, <4>0 DEF InHand
      <4>4. InHand(h, c)'
        BY <3>2, <3>4, <4>0, <4>1, <4>2, <4>3 DEF InHand
      <4>5. On(h, c)'
        BY <4>0 DEF On, Works
      <4>6. \A s \in running' : s \in running /\ (Known(c, s) => Known(c, s)')
        BY <1>6, <1>7, <1>8, <1>12, <2>00, <3>1, <3>6, <4>0, <4>5
      <4> QED BY <1>1, <1>5, <3>1, <3>5, <4>4, <4>6, Frame
    <3>7. ASSUME NEW a, Answered(h, a), running' = running \ {Slot(new)} PROVE ProcessInv'
      <4>1. ~On(h, c)'
        BY <3>7 DEF Answered, On, Works
      <4>2. current[c] = old /\ Slots(new) = {Slot(new)}
        BY <1>12, <2>00, <2>0, <3>1, RecordFields DEF InHand
      <4>3. \A s \in running' : s \in running /\ (Known(c, s) => Known(c, s)')
        BY <1>6, <1>7, <2>00, <3>1, <3>7, <4>2
      <4> QED BY <1>1, <1>5, <3>1, <3>5, <4>1, <4>3, Frame
    <3> QED BY <2>00, <2>1, <3>6, <3>7 DEF Files
  <2>2. CASE Activates(h, c)
    <3>1. /\ thread'[h].pc = "active" /\ thread'[h].req = thread[h].req
          /\ thread'[h].old = old /\ thread'[h].new = new
          /\ current' = [current EXCEPT ![c] = new] /\ UNCHANGED <<running, records>>
          /\ records[new.dep] # Nothing /\ thread[h].pc # "stopped"
      BY <2>00, <2>2 DEF Activates, Moves
    <3>2. current'[c] = new
      BY <3>1 DEF ProcessInv, HarnessTypes
    <3>3. Filed(new, c)
      BY <2>0, <3>1 DEF Filed
    <3>4. Filed(new, c)' /\ RecordOf(new, c)'
      BY <1>2, <3>3 DEF Filed
    <3>5. Filed(current[c], c)'
      BY <3>2, <3>4 DEF Filed, RecordOf
    <3>6. old # Nothing => Filed(old, c)'
      BY <1>2, <2>0
    <3>7. InHand(h, c)'
      BY <3>1, <3>2, <3>4, <3>6 DEF InHand, RecordOf, Filed
    <3>8. On(h, c)'
      BY <3>1 DEF On, Works
    <3>9. current[c] = old \/ current[c] = new
      BY <1>12, <2>00 DEF InHand
    <3>10. \A s \in running' : s \in running /\ (Known(c, s) => Known(c, s)')
      BY <1>6, <1>7, <2>00, <3>1, <3>8, <3>9
    <3> QED BY <1>1, <1>4, <3>1, <3>5, <3>7, <3>10, Frame
  <2>3. ASSUME NEW x, NEW a, Ends(h, c, x, a) PROVE ProcessInv'
    <3>1. current'[c] = x /\ running' \subseteq running /\ UNCHANGED records
      BY <2>3 DEF Ends, ProcessInv, HarnessTypes
    <3>2. x # Nothing => Filed(x, c)
      BY <2>00, <2>0, <2>3 DEF Ends, Filed
    <3>3. current'[c] # Nothing => Filed(current[c], c)'
      BY <1>2, <3>1, <3>2 DEF Filed, RecordOf
    <3>4. ~On(h, c)'
      BY <2>3 DEF Ends, Answered, On, Works
    <3>5. current[c] = old \/ current[c] = new
      BY <1>12, <2>00 DEF InHand
    <3>6. \A s \in running' : s \in running /\ (Known(c, s) => Known(c, s)')
      BY <1>6, <1>7, <2>00, <2>3, <3>1, <3>5 DEF Ends
    <3> QED BY <1>1, <1>4, <3>1, <3>3, <3>4, <3>6, Frame
  <2>4. ASSUME NEW x, NEW a, Loses(h, c, x, a) PROVE ProcessInv'
    <3>1. current'[c] = x /\ running' \subseteq running /\ UNCHANGED records /\ Leak
      BY <2>4 DEF Loses, ProcessInv, HarnessTypes
    <3>2. x # Nothing => Filed(x, c)
      BY <2>00, <2>0, <2>4 DEF Loses, Filed
    <3>3. current'[c] # Nothing => Filed(current[c], c)'
      BY <1>2, <3>1, <3>2 DEF Filed, RecordOf
    <3>4. ~On(h, c)'
      BY <2>4 DEF Loses, Answered, On, Works
    <3>5. current[c] = old \/ current[c] = new
      BY <1>12, <2>00 DEF InHand
    <3>6. PICK y : y = IF x = old THEN Slot(new) ELSE Slot(old)
      OBVIOUS
    <3>7. x = old \/ x = new
      BY <2>00, <2>4 DEF Loses
    <3>8. \A s : s \in Slots(old) \cup Slots(new) => s \in Slots(x) \/ s = y
      BY <3>6, <3>7 DEF Slots
    <3>9. \A s \in running' : (s \in running => Known(c, s)) => Known(c, s)' \/ s = y
      BY <1>6, <1>7, <2>00, <3>1, <3>5, <3>8
    <3> QED BY <1>1, <1>4, <3>1, <3>3, <3>4, <3>9, FrameLosing
  <2> QED BY <1>12, <1>9, <1>10, <1>11, <1>11a, <2>1, <2>2, <2>3, <2>4 DEF ThreadStep
<1>13. Works(h) => InHand(h, c) /\ thread[h].new \in DeploymentRecord
  BY WorkingThread
<1>14. \/ Files(h) \/ Activates(h, c) \/ \E x, a : Ends(h, c, x, a)
       \/ \E x, a : Loses(h, c, x, a)
       => Works(h)
  BY DEF Files, Activates, Ends, Loses, Works
<1> QED BY <1>9, <1>10, <1>11, <1>11a, <1>12, <1>13, <1>14 DEF ThreadStep

-----------------------------------------------------------------------------
(* Steps that leave the work under way alone. *)
Quiet ==
    /\ running' \subseteq running
    /\ UNCHANGED <<starts, records, current>>
    /\ NotForgotten
    /\ thread' = [h \in Threads |-> thread'[h]]
    /\ \A h \in Threads :
          /\ IsThread(thread'[h])
          /\ thread'[h].pc # "free" => Request(thread'[h].req)
          /\ Works(h) \/ Works(h)' =>
                /\ thread'[h].pc = thread[h].pc /\ thread'[h].req = thread[h].req
                /\ thread'[h].old = thread[h].old /\ thread'[h].new = thread[h].new
    /\ boot' # {} => \A h \in Threads : thread'[h].pc = "free"
    /\ \A d \in Controls : Pends(d)' => control'[d].action \in {"disable", "rollback"}

\* They keep the invariant.
LEMMA QuietKeeps ==
    ASSUME ProcessInv, Quiet PROVE ProcessInv'
<1>1. IsFiniteSet(running')
  BY FS_Subset DEF Quiet, ProcessInv, HarnessTypes
<1>2. HarnessTypes' /\ BootAlone'
  BY <1>1 DEF ProcessInv, HarnessTypes, BootAlone, Quiet, NotForgotten
<1>3. ASSUME NEW h \in Threads, NEW c
      PROVE  /\ On(h, c)' <=> On(h, c)
             /\ On(h, c) => /\ thread'[h].pc = thread[h].pc /\ thread'[h].req = thread[h].req
                            /\ thread'[h].old = thread[h].old /\ thread'[h].new = thread[h].new
  <2>1. Works(h)' <=> Works(h)
    BY DEF Quiet, Works
  <2> QED BY <2>1 DEF On, Quiet
<1>4. OneAtATime'
  BY <1>3 DEF ProcessInv, OneAtATime
<1>5. UNCHANGED <<records, current>>
  BY DEF Quiet
<1>6. \A r, c : (RecordOf(r, c) <=> RecordOf(r, c)') /\ (Filed(r, c) <=> Filed(r, c)')
  BY <1>5 DEF RecordOf, Filed
<1>7. RecordsHold'
  BY <1>5, <1>6 DEF ProcessInv, RecordsHold
<1>8. WorkHolds'
  <2> SUFFICES ASSUME NEW c \in Components, NEW h \in Threads, On(h, c)'
               PROVE  InHand(h, c)'
    BY DEF WorkHolds
  <2>1. On(h, c) /\ InHand(h, c)
    BY <1>3 DEF ProcessInv, WorkHolds
  <2> QED BY <1>3, <1>5, <1>6, <2>1 DEF InHand
<1>9. \A c \in Components : Orphans(c)' \subseteq Orphans(c)
  <2>1. \A c, s : Known(c, s) => Known(c, s)'
    BY <1>3, <1>5 DEF Known
  <2> QED BY <2>1 DEF Orphans, Quiet
<1>10. OrphansCounted'
  BY <1>1, <1>9, OrphansStay DEF Quiet
<1> QED BY <1>2, <1>4, <1>7, <1>8, <1>10 DEF ProcessInv

\* A step that changes none of what the invariant speaks of.
LEMMA Elsewhere ==
    ASSUME ProcessInv,
           UNCHANGED <<running, starts, records, current, thread, boot, crashes, leaks>>,
           \A d \in Controls : Pends(d)' => control'[d].action \in {"disable", "rollback"}
    PROVE  ProcessInv'
<1>1. NotForgotten
  BY SMT DEF NotForgotten, ProcessInv, HarnessTypes
<1>2. Quiet
  BY <1>1 DEF Quiet, ProcessInv, HarnessTypes, BootAlone, Works
<1> QED BY <1>2, QuietKeeps

\* A thread that starts to wait for the lock, or has nothing more to do.
LEMMA ThreadWaits ==
    ASSUME ProcessInv, NEW h \in Threads, NEW t, thread' = [thread EXCEPT ![h] = t],
           IsThread(t), t.pc # "free" => Request(t.req) /\ boot = {},
           \/ ~Works(h) /\ t.pc \in {"free", "lock", "done"}
           \/ /\ t.pc = thread[h].pc /\ t.req = thread[h].req
              /\ t.old = thread[h].old /\ t.new = thread[h].new,
           UNCHANGED <<running, starts, records, current, boot, crashes, leaks>>,
           \A d \in Controls : Pends(d)' => control'[d].action \in {"disable", "rollback"}
    PROVE  ProcessInv'
<1>1. NotForgotten
  BY SMT DEF NotForgotten, ProcessInv, HarnessTypes
<1>2. ThreadOnly(h) /\ thread'[h] = t
  BY Touch DEF ProcessInv
<1>3. \A g \in Threads \ {h} : IsThread(thread'[g]) /\ thread'[g] = thread[g]
          /\ (thread'[g].pc # "free" => Request(thread'[g].req))
  BY <1>2 DEF ThreadOnly, ProcessInv, HarnessTypes
<1>4. Works(h) \/ Works(h)' =>
          /\ thread'[h].pc = thread[h].pc /\ thread'[h].req = thread[h].req
          /\ thread'[h].old = thread[h].old /\ thread'[h].new = thread[h].new
  BY <1>2 DEF Works
<1>5. boot' # {} => \A g \in Threads : thread'[g].pc = "free"
  BY <1>2, <1>3 DEF ProcessInv, BootAlone
<1>7. Quiet
  BY <1>1, <1>2, <1>3, <1>4, <1>5 DEF Quiet, ThreadOnly, Works
<1> QED BY <1>7, QuietKeeps

\* While the decisions stay as they are, so do their actions.
LEMMA ActionsStay ==
    ASSUME ProcessInv, UNCHANGED control
    PROVE  \A d \in Controls : Pends(d)' => control'[d].action \in {"disable", "rollback"}
BY DEF ProcessInv, HarnessTypes, Pends

\* The thread of a new request.
LEMMA NewThread ==
    ASSUME NEW q, NEW b
    PROVE  \E t : /\ t = [Idle EXCEPT !.pc = "lock", !.req = q, !.waited = b]
                  /\ IsThread(t) /\ t.pc = "lock" /\ t.req = q
<1>1. PICK u : u = [Idle EXCEPT !.pc = "lock"]
  OBVIOUS
<1>2. IsThread(u) /\ u.pc = "lock"
  BY SMT, <1>1, IdleThread DEF IsThread
<1>3. PICK v : v = [u EXCEPT !.req = q]
  OBVIOUS
<1>4. IsThread(v) /\ v.pc = "lock" /\ v.req = q
  BY SMT, <1>2, <1>3 DEF IsThread
<1>5. PICK w : w = [v EXCEPT !.waited = b]
  OBVIOUS
<1>6. IsThread(w) /\ w.pc = "lock" /\ w.req = q
  BY SMT, <1>4, <1>5 DEF IsThread
<1>7. w = [Idle EXCEPT !.pc = "lock", !.req = q, !.waited = b]
  BY <1>1, <1>3, <1>5
<1> QED BY <1>6, <1>7

\* A request is sent: ...
LEMMA ListenThread ==
    ASSUME ProcessInv, NEW h \in Threads, NEW q, serve_listener(h, q)
    PROVE  /\ boot = {} /\ thread[h].pc = "free"
           /\ IsThread(thread'[h]) /\ thread'[h].pc = "lock" /\ thread'[h].req = q
           /\ thread' = [thread EXCEPT ![h] = thread'[h]]
           /\ \A g \in Threads \ {h} : thread'[g] = thread[g]
<1>1. PICK b : b = TRUE
  OBVIOUS
<1>2. PICK t : /\ t = [Idle EXCEPT !.pc = "lock", !.req = q, !.waited = b]
               /\ IsThread(t) /\ t.pc = "lock" /\ t.req = q
  BY NewThread
<1>3. thread' = [thread EXCEPT ![h] = t] /\ boot = {} /\ thread[h].pc = "free"
  BY <1>1, <1>2 DEF serve_listener
<1>4. thread'[h] = t /\ \A g \in Threads \ {h} : thread'[g] = thread[g]
  BY <1>3 DEF ProcessInv, HarnessTypes
<1> QED BY <1>2, <1>3, <1>4

\* ... the invariant stays.
LEMMA ListenKeeps ==
    ASSUME ProcessInv, NEW h \in Threads, NEW q, Request(q), serve_listener(h, q),
           UNCHANGED <<running, starts, records, current, boot, crashes, leaks, control>>
    PROVE  ProcessInv'
<1>1. PICK t : t = thread'[h]
  OBVIOUS
<1>2. /\ IsThread(t) /\ t.pc = "lock" /\ t.req = q
      /\ thread' = [thread EXCEPT ![h] = t]
      /\ boot = {} /\ ~Works(h)
  BY <1>1, ListenThread DEF Works
<1> QED BY <1>2, ThreadWaits, ActionsStay

\* An answer is heard.
LEMMA HearKeeps ==
    ASSUME ProcessInv, NEW h \in Threads, thread[h].pc = "done", Hear(h),
           UNCHANGED <<running, starts, records, current, boot, crashes, leaks>>,
           \A d \in Controls : Pends(d)' => control'[d].action \in {"disable", "rollback"}
    PROVE  ProcessInv'
BY IdleThread, ThreadWaits DEF Hear, Works

\* Nobody waits any more.
LEMMA GiveUpKeeps ==
    ASSUME ProcessInv, NEW h \in Threads, GiveUp(h), thread[h].pc # "free",
           UNCHANGED <<running, starts, records, current, boot, crashes, leaks, control>>
    PROVE  ProcessInv'
<1>1. CASE thread[h].pc = "done"
  BY <1>1, IdleThread, ThreadWaits, ActionsStay DEF GiveUp, Works
<1>2. CASE thread[h].pc # "done"
  <2>0. PICK b : b = FALSE
    OBVIOUS
  <2>1. PICK t : t = [thread[h] EXCEPT !.waited = b]
    OBVIOUS
  <2>2. /\ IsThread(t) /\ t.pc = thread[h].pc /\ t.req = thread[h].req
        /\ t.old = thread[h].old /\ t.new = thread[h].new
    BY SMT, <2>1 DEF ProcessInv, HarnessTypes, IsThread
  <2>3. thread' = [thread EXCEPT ![h] = t]
    BY <1>2, <2>0, <2>1 DEF GiveUp
  <2>4. Request(t.req) /\ boot = {}
    BY <2>2 DEF ProcessInv, HarnessTypes, BootAlone
  <2> QED BY <2>2, <2>3, <2>4, ThreadWaits, ActionsStay
<1> QED BY <1>1, <1>2

\* The Kernel crashes, and nobody waits for any answer.
LEMMA KernelCrashKeeps ==
    ASSUME ProcessInv, KernelCrash PROVE ProcessInv'
<1>1. NotForgotten
  BY SMT DEF NotForgotten, KernelCrash, ProcessInv, HarnessTypes
<1>2. ASSUME NEW h \in Threads
      PROVE  /\ IsThread(thread'[h])
             /\ thread'[h].pc # "free" => Request(thread'[h].req)
             /\ thread[h].pc = "free" => thread'[h].pc = "free"
             /\ Works(h) \/ Works(h)' =>
                   /\ thread'[h].pc = thread[h].pc /\ thread'[h].req = thread[h].req
                   /\ thread'[h].old = thread[h].old /\ thread'[h].new = thread[h].new
  <2>1. IsThread(thread[h]) /\ (thread[h].pc # "free" => Request(thread[h].req))
    BY DEF ProcessInv, HarnessTypes
  <2>2. CASE thread[h].pc = "done"
    <3>1. thread'[h] = Idle
      BY <2>2 DEF KernelCrash
    <3> QED BY <2>2, <3>1, IdleThread DEF Works
  <2>3. CASE thread[h].pc # "done"
    <3>0. PICK b : b = FALSE
      OBVIOUS
    <3>1. PICK t : t = [thread[h] EXCEPT !.waited = b]
      OBVIOUS
    <3>2. /\ IsThread(t) /\ t.pc = thread[h].pc /\ t.req = thread[h].req
          /\ t.old = thread[h].old /\ t.new = thread[h].new
      BY SMT, <2>1, <3>1 DEF IsThread
    <3>3. thread'[h] = t
      BY <2>3, <3>0, <3>1 DEF KernelCrash
    <3> QED BY <2>1, <3>2, <3>3
  <2> QED BY <2>2, <2>3
<1>3. /\ thread' = [h \in Threads |-> thread'[h]]
      /\ UNCHANGED <<running, starts, records, current, boot, control>>
  BY DEF KernelCrash
<1>4. \A d \in Controls : Pends(d)' => control'[d].action \in {"disable", "rollback"}
  BY <1>3 DEF ProcessInv, HarnessTypes, Pends
<1>5. Quiet
  BY <1>1, <1>2, <1>3, <1>4 DEF Quiet, ProcessInv, BootAlone
<1> QED BY <1>5, QuietKeeps

-----------------------------------------------------------------------------
(* Crash and recovery. *)

\* While the harness restores its components no thread works.
LEMMA NoneWorks ==
    ASSUME ProcessInv, boot # {}
    PROVE  /\ \A h \in Threads : thread[h].pc = "free"
           /\ \A h \in Threads : \A c : ~On(h, c)
BY DEF ProcessInv, BootAlone, On, Works

\* A process is started for a restart and left off the record.
LEMMA StrayKeeps ==
    ASSUME ProcessInv, boot # {}, NEW s0, running' = running \cup {s0}, starts' \in Nat,
           NotForgotten, crashes' = crashes + 1 \/ leaks' = leaks + 1,
           UNCHANGED <<records, current, thread, control>>
    PROVE  ProcessInv'
<1>1. /\ \A h \in Threads : thread[h].pc = "free"
      /\ \A h \in Threads : \A d : ~On(h, d) /\ ~On(h, d)'
  BY NoneWorks DEF On, Works
<1>2. IsFiniteSet(running')
  BY FS_AddElement DEF ProcessInv, HarnessTypes
<1>3. HarnessTypes'
  BY <1>2 DEF ProcessInv, HarnessTypes, Pends, NotForgotten
<1>4. BootAlone' /\ OneAtATime' /\ WorkHolds'
  BY <1>1 DEF BootAlone, OneAtATime, WorkHolds
<1>5. \A f, d : (RecordOf(f, d) => RecordOf(f, d)') /\ (Filed(f, d) => Filed(f, d)')
  BY DEF RecordOf, Filed
<1>6. RecordsHold'
  BY <1>5 DEF ProcessInv, RecordsHold
<1>7. \A d, s : Known(d, s) => Known(d, s)'
  BY <1>1 DEF Known, Slots, Slot
<1>8. \A d \in Components : Orphans(d)' \subseteq Orphans(d) \cup {s0}
  BY <1>7 DEF Orphans
<1>9. OrphansCounted'
  BY <1>2, <1>8, OrphansGrow
<1> QED BY <1>3, <1>4, <1>6, <1>9 DEF ProcessInv

\* A service that is not running is started again under its record, and may be
\* stopped at once.
LEMMA ReconcileKeeps ==
    ASSUME ProcessInv, NEW c \in Components, reconcile(c) \/ reconcile_unsynced(c),
           UNCHANGED <<crashes, control>>
    PROVE  ProcessInv'
<1> DEFINE r == current[c]
<1>1. /\ boot # {} /\ r # Nothing /\ ~record_is_healthy(r)
      /\ starts' = starts + 1
      /\ running' = running \/ running' = running \cup {NewProcess(r.dep, r.port)}
      /\ current' = [current EXCEPT ![c] = [r EXCEPT !.inst = starts + 1]]
      /\ UNCHANGED <<records, thread, leaks>>
  BY DEF reconcile, reconcile_unsynced, persist_active, start
<1>2. /\ \A h \in Threads : thread[h].pc = "free"
      /\ \A h \in Threads : \A d : ~On(h, d) /\ ~On(h, d)'
  BY <1>1, NoneWorks DEF On, Works
<1>3. Filed(r, c) /\ r \in DeploymentRecord
  BY <1>1 DEF ProcessInv, RecordsHold, Filed, RecordOf
<1>4. PICK m : m = starts + 1
  OBVIOUS
<1>5. m \in Nat
  BY SMT, <1>4 DEF ProcessInv, HarnessTypes
<1>6. PICK n : n = [r EXCEPT !.inst = m]
  OBVIOUS
<1> HIDE DEF r
<1>7. /\ n \in DeploymentRecord /\ n.dep = r.dep /\ n.prev = r.prev /\ n.port = r.port
      /\ n.inst = m
  BY SMT, <1>3, <1>5, <1>6 DEF DeploymentRecord
<1>8. Filed(n, c) /\ Slots(n) = {Slot(n)} /\ Slots(r) = {Slot(r)}
  BY <1>3, <1>7, RecordFields DEF Filed, RecordOf
<1>9. /\ current' = [current EXCEPT ![c] = n]
      /\ running' = running \/ running' = running \cup {Slot(n)}
      /\ starts' = m
  BY <1>1, <1>4, <1>6, <1>7 DEF NewProcess, Slot
<1>10. /\ current'[c] = n /\ current' = [d \in Components |-> current'[d]]
       /\ \A d \in Components \ {c} : current'[d] = current[d]
  BY <1>9 DEF ProcessInv, HarnessTypes
<1>11. IsFiniteSet(running')
  BY <1>9, FS_AddElement DEF ProcessInv, HarnessTypes
<1>12. HarnessTypes'
  BY <1>1, <1>5, <1>9, <1>10, <1>11 DEF ProcessInv, HarnessTypes, Pends
<1>13. BootAlone' /\ OneAtATime' /\ WorkHolds'
  BY <1>1, <1>2 DEF BootAlone, OneAtATime, WorkHolds
<1>14. \A f, d : (RecordOf(f, d) => RecordOf(f, d)') /\ (Filed(f, d) => Filed(f, d)')
  BY <1>1 DEF RecordOf, Filed
<1>15. RecordsHold'
  <2>1. \A p \in Deployments : (records[p] # Nothing =>
            RecordOf(records[p], ComponentOf[p]) /\ records[p].dep = p)'
    BY <1>1, <1>14 DEF ProcessInv, RecordsHold
  <2>2. ASSUME NEW d \in Components, current'[d] # Nothing PROVE Filed(current[d], d)'
    BY <1>8, <1>10, <1>14, <2>2 DEF ProcessInv, RecordsHold
  <2> QED BY <2>1, <2>2 DEF RecordsHold
<1>16. ASSUME NEW d \in Components PROVE Orphans(d)' \subseteq Orphans(d)
  <2>1. \A s : /\ Known(d, s) <=> s \in Slots(current[d])
               /\ Known(d, s)' <=> s \in Slots(current[d])'
    BY <1>2 DEF Known
  <2>2. CASE d = c
    <3>1. Slot(r) \notin running
      BY <1>1 DEF record_is_healthy, Slot
    <3>2. \A s : Known(d, s)' <=> s = Slot(n)
      BY <1>8, <1>10, <2>1, <2>2 DEF Slots, Slot
    <3>3. \A s : Known(d, s) <=> s = Slot(r)
      BY <1>8, <2>1, <2>2 DEF r
    <3>4. ASSUME NEW s \in running', ~Known(d, s)' PROVE s \in running /\ ~Known(d, s)
      <4>1. s \in running \/ s = Slot(n)
        BY <1>9
      <4>2. s \in running
        BY <3>2, <3>4, <4>1
      <4> QED BY <3>1, <3>3, <4>2
    <3> QED BY <3>4 DEF Orphans
  <2>3. CASE d # c
    <3>1. Slot(n).dep = n.dep /\ ComponentOf[n.dep] = c
      BY <1>8 DEF Slot, Filed, RecordOf
    <3>2. current'[d] = current[d]
      BY <1>10, <2>3
    <3>3. Slots(current[d])' = Slots(current[d])
      BY <3>2 DEF Slots, Slot
    <3>4. \A s : Known(d, s)' <=> Known(d, s)
      BY <2>1, <3>3
    <3> QED BY <1>9, <2>3, <3>1, <3>4 DEF Orphans
  <2> QED BY <2>2, <2>3
<1>17. OrphansCounted'
  <2>1. NotForgotten
    BY SMT, <1>1 DEF NotForgotten, ProcessInv, HarnessTypes
  <2> QED BY <1>11, <1>16, <2>1, OrphansStay
<1> QED BY <1>12, <1>13, <1>15, <1>17 DEF ProcessInv

\* The steps of a restart.
LEMMA BootKeeps ==
    ASSUME ProcessInv, HarnessBoot, UNCHANGED <<crashes, control>> PROVE ProcessInv'
<1>1. CASE \/ serve
           \/ \E c \in Components : reconcile_nothing_to_do(c) \/ reconcile_fails(c)
  <2>1. boot # {} /\ UNCHANGED <<running, starts, records, current, thread, leaks>>
    BY <1>1 DEF serve, reconcile_nothing_to_do, reconcile_fails
  <2>2. NotForgotten
    BY SMT, <2>1 DEF NotForgotten, ProcessInv, HarnessTypes
  <2>3. Quiet
    BY <2>1, <2>2 DEF Quiet, ProcessInv, HarnessTypes, BootAlone, Works, Pends
  <2> QED BY <2>3, QuietKeeps
<1>2. ASSUME NEW c \in Components, reconcile(c) \/ reconcile_unsynced(c) PROVE ProcessInv'
  BY <1>2, ReconcileKeeps
<1>3. ASSUME NEW c \in Components, reconcile_abandoned(c) PROVE ProcessInv'
  <2>1. /\ boot # {} /\ starts' = starts + 1 /\ Leak
        /\ UNCHANGED <<records, current, thread>>
    BY <1>3 DEF reconcile_abandoned
  <2>2. PICK s : running' = running \cup {s}
    BY <1>3 DEF reconcile_abandoned
  <2>3. starts' \in Nat /\ NotForgotten /\ leaks' = leaks + 1
    BY SMT, <2>1 DEF Leak, NotForgotten, ProcessInv, HarnessTypes
  <2> QED BY <2>1, <2>2, <2>3, StrayKeeps
<1> QED BY <1>1, <1>2, <1>3 DEF HarnessBoot

\* The harness crashes: what its threads had in hand is forgotten, and a
\* process started for a restart may not be on record.
LEMMA HarnessCrashKeeps ==
    ASSUME ProcessInv, HarnessCrash PROVE ProcessInv'
<1>1. /\ crashes' = crashes + 1 /\ leaks' = leaks
      /\ UNCHANGED <<control, records, current>>
  BY DEF HarnessCrash, HarnessDown, reconcile_interrupted
<1>2. NotForgotten
  BY SMT, <1>1 DEF NotForgotten, ProcessInv, HarnessTypes
<1>3. CASE HarnessDown
  <2>1. UNCHANGED <<running, starts>>
    BY <1>3 DEF HarnessDown
  <2>2. /\ thread' = [h \in Threads |-> thread'[h]]
        /\ \A h \in Threads : IsThread(thread'[h]) /\ thread'[h].pc = "free"
    BY <1>3, IdleThread DEF HarnessDown
  <2>3. \A h \in Threads : \A c : ~On(h, c)'
    BY <2>2 DEF On, Works
  <2>4. \A f, d : (RecordOf(f, d) => RecordOf(f, d)') /\ (Filed(f, d) => Filed(f, d)')
    BY <1>1 DEF RecordOf, Filed
  <2>5. BootAlone' /\ OneAtATime' /\ WorkHolds'
    BY <2>2, <2>3 DEF BootAlone, OneAtATime, WorkHolds
  <2>6. RecordsHold'
    BY <1>1, <2>4 DEF ProcessInv, RecordsHold
  <2>7. \A c, s : Known(c, s)' <=> s \in Slots(current[c])
    BY <1>1, <2>3 DEF Known, Slots, Slot
  <2>8. HarnessTypes'
    BY <1>1, <1>2, <2>1, <2>2 DEF ProcessInv, HarnessTypes, Pends, NotForgotten
  <2>9. ASSUME NEW c \in Components PROVE \E x : Orphans(c)' \subseteq Orphans(c) \cup {x}
    <3>1. CASE \A h \in Threads : ~On(h, c)
      <4>1. \A s : Known(c, s) <=> s \in Slots(current[c])
        BY <3>1 DEF Known
      <4>2. Orphans(c)' \subseteq Orphans(c)
        BY <2>7, <2>1, <4>1 DEF Orphans
      <4> QED BY <4>2
    <3>2. ASSUME NEW h \in Threads, On(h, c)
          PROVE  \E x : Orphans(c)' \subseteq Orphans(c) \cup {x}
      <4> DEFINE old == thread[h].old
                 new == thread[h].new
      <4>1. InHand(h, c) /\ Alone(h, c)
        BY <3>2 DEF ProcessInv, WorkHolds, OneAtATime, Alone
      <4>2. \A s : Known(c, s) =>
                s \in Slots(current[c]) \/ s \in Slots(old) \/ s \in Slots(new)
        BY <4>1 DEF Known, Alone
      <4>3. current[c] = old \/ current[c] = new
        BY <4>1 DEF InHand
      <4>4. CASE current[c] = old
        <5>1. \A s : Known(c, s) => s \in Slots(current[c]) \/ s = Slot(new)
          BY <4>2, <4>4 DEF Slots
        <5>2. Orphans(c)' \subseteq Orphans(c) \cup {Slot(new)}
          BY <2>7, <2>1, <5>1 DEF Orphans
        <5> QED BY <5>2
      <4>5. CASE current[c] = new
        <5>1. \A s : Known(c, s) => s \in Slots(current[c]) \/ s = Slot(old)
          BY <4>2, <4>5 DEF Slots
        <5>2. Orphans(c)' \subseteq Orphans(c) \cup {Slot(old)}
          BY <2>7, <2>1, <5>1 DEF Orphans
        <5> QED BY <5>2
      <4> QED BY <4>3, <4>4, <4>5
    <3> QED BY <3>1, <3>2
  <2>10. OrphansCounted'
    BY <1>1, <1>2, <2>8, <2>9, OrphansGrow DEF HarnessTypes
  <2> QED BY <2>5, <2>6, <2>8, <2>10 DEF ProcessInv
<1>4. ASSUME NEW b \in Components, reconcile_interrupted(b) PROVE ProcessInv'
  <2>1. PICK s0 : running' = running \cup {s0}
    BY <1>4 DEF reconcile_interrupted, start
  <2>2. starts' \in Nat
    BY SMT, <1>4 DEF reconcile_interrupted, start, ProcessInv, HarnessTypes
  <2>3. boot # {} /\ UNCHANGED thread
    BY <1>4 DEF reconcile_interrupted
  <2> QED BY <1>1, <1>2, <2>1, <2>2, <2>3, StrayKeeps
<1> QED BY <1>3, <1>4 DEF HarnessCrash

-----------------------------------------------------------------------------
(* Every step of the system keeps the harness invariant. *)

\* Nothing runs at first.
LEMMA ProcessInvInit == Init => ProcessInv
<1> SUFFICES ASSUME Init PROVE ProcessInv
  OBVIOUS
<1>1. /\ running = {} /\ starts = 0 /\ crashes = 0 /\ leaks = 0
      /\ records = [p \in Deployments |-> Nothing]
      /\ current = [c \in Components |-> Nothing]
      /\ thread = [h \in Threads |-> Idle]
      /\ control = [d \in Controls |-> NoControl]
  BY DEF Init, HarnessInit, ControlInit
<1>2. \A h \in Threads : thread[h].pc = "free" /\ IsThread(thread[h])
  BY <1>1, IdleThread
<1>3. \A d \in Controls : ~Pends(d)
  BY <1>1 DEF Pends, NoControl
<1>4. starts \in Nat /\ crashes \in Nat /\ leaks \in Nat
  BY SMT, <1>1
<1>5. IsFiniteSet(running)
  BY <1>1, FS_EmptySet
<1>6. HarnessTypes
  BY <1>1, <1>2, <1>3, <1>4, <1>5 DEF HarnessTypes
<1>7. BootAlone /\ OneAtATime /\ WorkHolds
  BY <1>2 DEF BootAlone, OneAtATime, WorkHolds, On, Works
<1>8. RecordsHold
  BY <1>1 DEF RecordsHold
<1>9. OrphansCounted
  <2> SUFFICES ASSUME NEW c \in Components PROVE Cardinality(Orphans(c)) <= crashes + leaks
    BY DEF OrphansCounted
  <2>1. Orphans(c) = {}
    BY <1>1 DEF Orphans
  <2>2. Cardinality(Orphans(c)) = 0
    BY <2>1, FS_EmptySet
  <2> QED BY SMT, <1>1, <2>2
<1> QED BY <1>6, <1>7, <1>8, <1>9 DEF ProcessInv

\* The answer to a control decision settles it, fails it or leaves it.
LEMMA ControlActions ==
    ASSUME ServiceInv, ProcessInv, NEW d \in Controls,
           \/ UNCHANGED control
           \/ fail_component_control_intent(d)
           \/ \E r : settle_component_control(d, r)
    PROVE  \A e \in Controls : Pends(e)' => control'[e].action \in {"disable", "rollback"}
<1>1. \A e \in Controls : Pends(e) => control[e].action \in {"disable", "rollback"}
  BY DEF ProcessInv, HarnessTypes
<1>2. CASE UNCHANGED control
  BY <1>1, <1>2 DEF Pends
<1>3. ASSUME NEW s, s # "pending", control' = [control EXCEPT ![d].status = s]
      PROVE  \A e \in Controls : Pends(e)' => Pends(e) /\ control'[e] = control[e]
  <2>1. control'[d].status = s
    <3>1. PICK r : r = control[d]
      OBVIOUS
    <3>2. PICK u : u = [r EXCEPT !.status = s]
      OBVIOUS
    <3>3. IsControl(r)
      BY <3>1 DEF ServiceInv, Shapes
    <3>4. u.status = s
      BY SMT, <3>2, <3>3 DEF IsControl
    <3>5. control'[d] = u
      BY <1>3, <3>1, <3>2 DEF ServiceInv, Shapes
    <3> QED BY <3>4, <3>5
  <2>2. \A e \in Controls \ {d} : control'[e] = control[e]
    BY <1>3 DEF ServiceInv, Shapes
  <2> QED BY <1>3, <2>1, <2>2 DEF Pends
<1>4. CASE fail_component_control_intent(d)
  <2>1. control' = [control EXCEPT ![d].status =
            IF control[d].status = "pending" THEN "failed" ELSE control[d].status]
    BY <1>4 DEF fail_component_control_intent
  <2>2. PICK s : s = IF control[d].status = "pending" THEN "failed" ELSE control[d].status
    OBVIOUS
  <2>3. s # "pending" /\ control' = [control EXCEPT ![d].status = s]
    BY <2>1, <2>2
  <2> QED BY <1>1, <1>3, <2>3
<1>5. CASE \E r : settle_component_control(d, r)
  <2>1. UNCHANGED control \/ control' = [control EXCEPT ![d].status = "succeeded"]
    BY <1>5 DEF settle_component_control
  <2> QED BY <1>1, <1>2, <1>3, <2>1
<1> QED BY <1>2, <1>4, <1>5

\* A new control decision is one or the other.
LEMMA NewControlAction ==
    ASSUME ServiceInv, ProcessInv, NEW d \in Controls, ControlDecision(d)
    PROVE  \A e \in Controls : Pends(e)' => control'[e].action \in {"disable", "rollback"}
<1>1. PICK c \in Components, action \in {"disable", "rollback"} :
          record_component_control_intent(d, c, action)
  BY DEF ControlDecision
<1>2. PICK r : r = [status |-> "pending", component |-> c, action |-> action,
                    expected |-> components]
  OBVIOUS
<1>3. r.action \in {"disable", "rollback"} /\ control' = [control EXCEPT ![d] = r]
  BY <1>1, <1>2 DEF record_component_control_intent
<1>4. control'[d] = r /\ \A e \in Controls \ {d} : control'[e] = control[e]
  BY <1>3 DEF ServiceInv, Shapes
<1> QED BY <1>3, <1>4 DEF ProcessInv, HarnessTypes, Pends

\* The steps of the accept thread and of the background threads.
LEMMA KernelKeepsProcesses ==
    ASSUME ServiceInv, ProcessInv,
           \/ \E p \in Deployments :
                 \/ Expire(p) \/ Reject(p) \/ Approve(p) \/ replay_response(p)
                 \/ deploy_not_sent(p) \/ deploy_sent(p)
                 \/ deployer_deploy_and_record(p) \/ deploy_unanswered(p)
           \/ \E d \in Controls :
                 \/ ControlDecision(d) \/ ControlAgain(d) \/ control_sent(d)
                 \/ control_answer(d) \/ control_uncertain(d)
    PROVE  ProcessInv'
<1>1. \A e \in Controls : Pends(e) => control[e].action \in {"disable", "rollback"}
  BY DEF ProcessInv, HarnessTypes
<1>2. ASSUME NEW p \in Deployments,
             \/ Expire(p) \/ Reject(p) \/ Approve(p) \/ replay_response(p)
             \/ deploy_not_sent(p)
      PROVE  ProcessInv'
  <2>1. UNCHANGED <<running, starts, records, current, thread, boot, crashes, leaks, control>>
    BY <1>2 DEF Expire, Reject, Approve, replay_response, deploy_not_sent, vars,
                harnessVars, serviceVars, faults
  <2> QED BY <1>1, <2>1, Elsewhere DEF Pends
<1>3. ASSUME NEW p \in Deployments, deploy_sent(p) PROVE ProcessInv'
  <2>1. PICK h \in Threads : serve_listener(h, DeployRequest(p))
    BY <1>3 DEF deploy_sent
  <2>2. Request(DeployRequest(p))
    BY DEF Request, DeployRequest
  <2>3. UNCHANGED <<running, starts, records, current, boot, crashes, leaks, control>>
    BY <1>3 DEF deploy_sent, faults
  <2> QED BY <2>1, <2>2, <2>3, ListenKeeps
<1>4. ASSUME NEW p \in Deployments, deployer_deploy_and_record(p) PROVE ProcessInv'
  <2>1. PICK h \in Threads : thread[h].pc = "done" /\ Hear(h)
    BY <1>4 DEF deployer_deploy_and_record
  <2>2. UNCHANGED <<running, starts, records, current, boot, crashes, leaks, control>>
    BY <1>4 DEF deployer_deploy_and_record, faults
  <2> QED BY <2>1, <2>2, HearKeeps, ActionsStay
<1>5. ASSUME NEW p \in Deployments, deploy_unanswered(p) PROVE ProcessInv'
  <2>1. UNCHANGED <<running, starts, records, current, boot, crashes, leaks, control>>
    BY <1>5 DEF deploy_unanswered
  <2>2. ASSUME NEW h \in Threads, Waits(h, DeployRequest(p)), GiveUp(h) PROVE ProcessInv'
    BY <2>1, <2>2, GiveUpKeeps DEF Waits
  <2>3. CASE UNCHANGED thread
    BY <1>1, <2>1, <2>3, Elsewhere DEF Pends
  <2> QED BY <1>5, <2>2, <2>3 DEF deploy_unanswered
<1>6. ASSUME NEW d \in Controls, ControlDecision(d) PROVE ProcessInv'
  <2>1. UNCHANGED <<running, starts, records, current, thread, boot, crashes, leaks>>
    BY <1>6 DEF ControlDecision, harnessVars, faults
  <2> QED BY <1>6, <2>1, NewControlAction, Elsewhere
<1>7. ASSUME NEW d \in Controls, ControlAgain(d) PROVE ProcessInv'
  <2>1. UNCHANGED <<running, starts, records, current, thread, boot, crashes, leaks, control>>
    BY <1>7 DEF ControlAgain, harnessVars, faults
  <2> QED BY <1>1, <2>1, Elsewhere DEF Pends
<1>8. ASSUME NEW d \in Controls, control_sent(d) PROVE ProcessInv'
  <2>1. PICK h \in Threads : serve_listener(h, ControlRequest(d))
    BY <1>8 DEF control_sent
  <2>2. Pends(d) /\ control[d].component \in Components
    BY <1>8 DEF control_sent, ServiceInv, AwaitsPending, PendingKnown
  <2>3. Request(ControlRequest(d))
    BY <1>1, <2>2 DEF Request, ControlRequest
  <2>4. UNCHANGED <<running, starts, records, current, boot, crashes, leaks, control>>
    BY <1>8 DEF control_sent, serviceVars
  <2> QED BY <2>1, <2>3, <2>4, ListenKeeps
<1>9. ASSUME NEW d \in Controls, control_answer(d) PROVE ProcessInv'
  <2>1. PICK h \in Threads :
            /\ thread[h].pc = "done" /\ Hear(h)
            /\ \/ UNCHANGED control
               \/ fail_component_control_intent(d)
               \/ \E r : settle_component_control(d, r)
    BY <1>9 DEF control_answer
  <2>2. UNCHANGED <<running, starts, records, current, boot, crashes, leaks>>
    BY <1>9 DEF control_answer, faults
  <2>3. \A e \in Controls : Pends(e)' => control'[e].action \in {"disable", "rollback"}
    BY <2>1, ControlActions
  <2> QED BY <2>1, <2>2, <2>3, HearKeeps
<1>10. ASSUME NEW d \in Controls, control_uncertain(d) PROVE ProcessInv'
  <2>1. UNCHANGED <<running, starts, records, current, boot, crashes, leaks, control>>
    BY <1>10 DEF control_uncertain
  <2>2. ASSUME NEW h \in Threads, Waits(h, ControlRequest(d)), GiveUp(h) PROVE ProcessInv'
    BY <2>1, <2>2, GiveUpKeeps DEF Waits
  <2>3. CASE UNCHANGED thread
    BY <1>1, <2>1, <2>3, Elsewhere DEF Pends
  <2> QED BY <1>10, <2>2, <2>3 DEF control_uncertain
<1> QED BY <1>2, <1>3, <1>4, <1>5, <1>6, <1>7, <1>8, <1>9, <1>10

\* Every step.
LEMMA ProcessInvStep ==
    ASSUME ServiceInv, ProcessInv, [Next]_vars PROVE ProcessInv'
<1>1. \A e \in Controls : Pends(e) => control[e].action \in {"disable", "rollback"}
  BY DEF ProcessInv, HarnessTypes
<1>2. CASE Harness
  <2>1. UNCHANGED <<crashes, control>>
    BY <1>2 DEF Harness, serviceVars
  <2>2. CASE HarnessBoot
    BY <2>1, <2>2, BootKeeps
  <2>3. ASSUME NEW h \in Threads, HarnessStep(h) PROVE ProcessInv'
    <3>1. /\ thread[h].pc # "free" /\ Alone(h, Target(thread[h].req))
          /\ Target(thread[h].req) \in Components /\ ThreadStep(h, Target(thread[h].req))
      BY <2>3, StepAlone, ThreadSteps
    <3>2. UNCHANGED boot
      BY <2>3 DEF HarnessStep, load_manifest, deploy, record_deployment, activate_record,
                  start_abandoned, persist_fails, record_unsynced, active_unsynced,
                  stop_previous, stop_previous_fails, restore_fails, control_answered,
                  disable, disable_recorded, rollback
    <3> QED BY <2>1, <3>1, <3>2, ThreadStepKeeps
  <2> QED BY <1>2, <2>2, <2>3 DEF Harness
<1>3. CASE Exit
  <2>1. /\ running' \subseteq running
        /\ UNCHANGED <<starts, records, current, thread, boot, crashes, leaks, control>>
    BY <1>3 DEF Exit, ServiceExit
  <2>2. NotForgotten
    BY SMT, <2>1 DEF NotForgotten, ProcessInv, HarnessTypes
  <2>3. Quiet
    BY <1>1, <2>1, <2>2 DEF Quiet, ProcessInv, HarnessTypes, BootAlone, Works, Pends
  <2> QED BY <2>3, QuietKeeps
<1>4. CASE Environment \/ UNCHANGED vars
  <2>1. UNCHANGED <<running, starts, records, current, thread, boot, crashes, leaks, control>>
    BY <1>4 DEF Environment, vars, harnessVars, serviceVars
  <2> QED BY <1>1, <2>1, Elsewhere DEF Pends
<1> QED BY <1>2, <1>3, <1>4, KernelCrashKeeps, HarnessCrashKeeps, KernelKeepsProcesses DEF Next

\* The invariant holds throughout.
THEOREM HarnessInvariant == Spec => []ProcessInv
<1>1. ServiceInv /\ ProcessInv /\ [Next]_vars => ProcessInv'
  BY ProcessInvStep
<1> QED BY <1>1, ProcessInvInit, ServiceInvariant, PTL DEF Spec

\* What runs for a component, against the faults there were.
LEMMA ProcessCount ==
    ASSUME ProcessInv, NEW c \in Components
    PROVE  Cardinality({s \in running : ComponentOf[s.dep] = c})
               <= 1 + crashes + leaks + (IF Busy(c) THEN 1 ELSE 0)
<1> DEFINE S == {s \in running : ComponentOf[s.dep] = c}
           O == Orphans(c)
<1>1. /\ IsFiniteSet(O) /\ Cardinality(O) \in Nat
      /\ Cardinality(O) <= crashes + leaks /\ crashes \in Nat /\ leaks \in Nat
  BY FS_Subset, FS_CardinalityType DEF Orphans, ProcessInv, HarnessTypes, OrphansCounted
<1>2. S \subseteq {s \in S : Known(c, s)} \cup O
  BY DEF Orphans
<1> HIDE DEF O, S
<1>3. ASSUME NEW x
      PROVE  /\ IsFiniteSet(O \cup {x})
             /\ \/ Cardinality(O \cup {x}) = Cardinality(O)
                \/ Cardinality(O \cup {x}) = Cardinality(O) + 1
  BY <1>1, FS_AddElement
<1>4. ASSUME NEW x, NEW y
      PROVE  /\ IsFiniteSet((O \cup {x}) \cup {y})
             /\ \/ Cardinality((O \cup {x}) \cup {y}) = Cardinality(O \cup {x})
                \/ Cardinality((O \cup {x}) \cup {y}) = Cardinality(O \cup {x}) + 1
  BY <1>3, FS_AddElement
<1>5. CASE \A h \in Threads : ~On(h, c)
  <2>1. PICK x : x = Slot(current[c])
    OBVIOUS
  <2>2. \A s : Known(c, s) => s = x
    BY <1>5, <2>1 DEF Known, Slots
  <2>3. S \subseteq O \cup {x}
    BY <1>2, <2>2
  <2>4. Cardinality(S) <= Cardinality(O \cup {x}) /\ IsFiniteSet(S)
    BY <1>3, <2>3, FS_Subset
  <2>5. Cardinality(S) \in Nat
    BY <2>4, FS_CardinalityType
  <2>6. ~Busy(c)
    BY <1>5 DEF Busy, On, Works
  <2>7. \/ Cardinality(O \cup {x}) = Cardinality(O)
        \/ Cardinality(O \cup {x}) = Cardinality(O) + 1
    BY <1>3
  <2>8. Cardinality(S) <= 1 + crashes + leaks + 0
    BY SMT, <1>1, <2>4, <2>5, <2>7
  <2> QED BY <2>6, <2>8 DEF S
<1>6. ASSUME NEW h \in Threads, On(h, c)
      PROVE  Cardinality(S) <= 1 + crashes + leaks + (IF Busy(c) THEN 1 ELSE 0)
  <2>1. InHand(h, c) /\ Alone(h, c)
    BY <1>6 DEF ProcessInv, WorkHolds, OneAtATime, Alone
  <2>2. PICK x, y : x = Slot(thread[h].old) /\ y = Slot(thread[h].new)
    OBVIOUS
  <2>3. \A s : Known(c, s) => s = x \/ s = y
    BY <2>1, <2>2 DEF Known, Alone, InHand, Slots
  <2>4. S \subseteq (O \cup {x}) \cup {y}
    BY <1>2, <2>3
  <2>5. Cardinality(S) <= Cardinality((O \cup {x}) \cup {y}) /\ IsFiniteSet(S)
    BY <1>4, <2>4, FS_Subset
  <2>6. Cardinality(S) \in Nat
    BY <2>5, FS_CardinalityType
  <2>7. Busy(c)
    BY <1>6 DEF Busy, On, Works
  <2>8. /\ \/ Cardinality(O \cup {x}) = Cardinality(O)
           \/ Cardinality(O \cup {x}) = Cardinality(O) + 1
        /\ \/ Cardinality((O \cup {x}) \cup {y}) = Cardinality(O \cup {x})
           \/ Cardinality((O \cup {x}) \cup {y}) = Cardinality(O \cup {x}) + 1
    BY <1>3, <1>4
  <2>9. Cardinality(S) <= 1 + crashes + leaks + 1
    BY SMT, <1>1, <2>5, <2>6, <2>8
  <2> QED BY <2>7, <2>9
<1> QED BY <1>5, <1>6 DEF S

\* However often Kernel and harness crash, requests are given up on and services
\* exit, a component has no more service processes than its own one, the one a
\* request under way replaces it with, one for each crash, and one for each
\* failing write or stop after which the harness leaves a process behind.
THEOREM ProcessesAreBounded == Spec => []ProcessesBounded
<1>1. ProcessInv => ProcessesBounded
  BY ProcessCount DEF ProcessesBounded
<1> QED BY <1>1, HarnessInvariant, PTL

-----------------------------------------------------------------------------
(* Ports.  One deployment request is made for a candidate, so a candidate   *)
(* is recorded once, and whatever is healthy at it has the recorded port.   *)

Asks(h, p) == thread[h].pc # "free" /\ thread[h].req.kind = "deploy" /\ thread[h].req.id = p

PortOf(p) == records[p].port

AskedOnce ==
    /\ worker = [p \in Deployments |-> worker[p]]
    /\ \A p \in Deployments :
          worker[p] \in {"none", "started"} =>
              records[p] = Nothing /\ \A h \in Threads : ~Asks(h, p)
    /\ \A p \in Deployments : \A g, h \in Threads : Asks(g, p) /\ Asks(h, p) => g = h

(* How far the request for a candidate has come. *)
AskState(h, p) ==
    /\ thread[h].pc \in {"lock", "started"} => records[p] = Nothing
    /\ Works(h) => thread[h].new.dep = p /\ thread[h].new.status = "healthy"
    /\ thread[h].pc = "done" /\ thread[h].answer.kind = "receipt" =>
          records[p] # Nothing /\ thread[h].answer.port = PortOf(p)

AskStates == \A p \in Deployments : \A h \in Threads : Asks(h, p) => AskState(h, p)

HasPort(r) == r.status = "healthy" => r.port = PortOf(r.dep)

RecordPorts == \A c \in Components : current[c] # Nothing => HasPort(current[c])

ThreadPorts(h) ==
    Works(h) => /\ thread[h].old # Nothing => HasPort(thread[h].old)
                /\ records[thread[h].new.dep] # Nothing => HasPort(thread[h].new)

EntryPorts ==
    \A c \in Components :
        components[c] # Nothing /\ components[c].status = "Healthy" =>
            /\ records[components[c].dep] # Nothing
            /\ components[c].port = PortOf(components[c].dep)

EndpointInv ==
    /\ AskedOnce /\ AskStates
    /\ RecordPorts /\ EntryPorts /\ \A h \in Threads : ThreadPorts(h)

\* Nothing is asked for or recorded at first.
LEMMA EndpointInvInit == Init => EndpointInv
<1> SUFFICES ASSUME Init PROVE EndpointInv
  OBVIOUS
<1>1. /\ records = [p \in Deployments |-> Nothing]
      /\ current = [c \in Components |-> Nothing]
      /\ components = [c \in Components |-> Nothing]
      /\ thread = [h \in Threads |-> Idle]
      /\ worker = [p \in Deployments |-> "none"]
  BY DEF Init, HarnessInit, RegistryInit
<1>2. \A h \in Threads : thread[h].pc = "free"
  BY <1>1, IdleThread
<1>3. AskedOnce /\ AskStates /\ \A h \in Threads : ThreadPorts(h)
  BY <1>1, <1>2 DEF AskedOnce, AskStates, ThreadPorts, Asks, Works
<1>4. RecordPorts /\ EntryPorts
  BY <1>1 DEF RecordPorts, EntryPorts
<1> QED BY <1>3, <1>4 DEF EndpointInv

(* A thread that goes on as it was, or has no request any more. *)
SameOrFree(h) ==
    \/ thread'[h].pc = "free"
    \/ /\ thread'[h].pc = thread[h].pc /\ thread'[h].req = thread[h].req
       /\ thread'[h].old = thread[h].old /\ thread'[h].new = thread[h].new
       /\ thread'[h].answer = thread[h].answer

\* Requests that are not moved on, and records that are not written.
LEMMA PortsStay ==
    ASSUME EndpointInv, UNCHANGED records,
           \A h \in Threads : SameOrFree(h),
           worker' = [p \in Deployments |-> worker'[p]],
           \A p \in Deployments :
               worker'[p] \in {"none", "started"} => worker[p] \in {"none", "started"},
           RecordPorts', EntryPorts'
    PROVE  EndpointInv'
<1>1. /\ \A h \in Threads : \A p : Asks(h, p)' => Asks(h, p)
      /\ \A r : HasPort(r) => HasPort(r)'
  BY DEF SameOrFree, Asks, HasPort, PortOf
<1>2. AskedOnce'
  BY <1>1 DEF EndpointInv, AskedOnce
<1>3. AskStates'
  <2> SUFFICES ASSUME NEW p \in Deployments, NEW h \in Threads, Asks(h, p)'
               PROVE  AskState(h, p)'
    BY DEF AskStates
  <2>1. AskState(h, p) /\ thread'[h].pc # "free"
    BY <1>1 DEF EndpointInv, AskStates, Asks
  <2>2. /\ thread'[h].pc = thread[h].pc /\ thread'[h].new = thread[h].new
        /\ thread'[h].answer = thread[h].answer
    BY <2>1 DEF SameOrFree
  <2> QED BY <2>1, <2>2 DEF AskState, Works, PortOf
<1>4. ASSUME NEW h \in Threads PROVE ThreadPorts(h)'
  <2> SUFFICES ASSUME Works(h)' PROVE ThreadPorts(h)'
    BY DEF ThreadPorts
  <2>1. /\ Works(h) /\ thread'[h].old = thread[h].old /\ thread'[h].new = thread[h].new
    BY DEF SameOrFree, Works
  <2>2. ThreadPorts(h)
    BY DEF EndpointInv
  <2> QED BY <1>1, <2>1, <2>2 DEF ThreadPorts
<1> QED BY <1>2, <1>3, <1>4 DEF EndpointInv

\* The ports on record stay when neither file is written.
LEMMA RecordPortsStay ==
    ASSUME EndpointInv, UNCHANGED <<records, current>> PROVE RecordPorts'
BY DEF EndpointInv, RecordPorts, HasPort, PortOf

\* So do those the Kernel published.
LEMMA EntryPortsStay ==
    ASSUME EndpointInv, UNCHANGED <<records, components>> PROVE EntryPorts'
BY DEF EndpointInv, EntryPorts, PortOf

\* A request is sent: a deployment only for a candidate never asked for before.
LEMMA ListenPorts ==
    ASSUME ProcessInv, EndpointInv, NEW h \in Threads, NEW q, Request(q),
           serve_listener(h, q), UNCHANGED <<records, current, components>>,
           worker' = [p \in Deployments |-> worker'[p]],
           \A p \in Deployments : worker'[p] \in {"none", "started"} =>
               worker[p] \in {"none", "started"} /\ ~(q.kind = "deploy" /\ q.id = p),
           q.kind = "deploy" => worker[q.id] = "started"
    PROVE  EndpointInv'
<1>2. thread'[h].pc = "lock" /\ thread'[h].req = q
  BY ListenThread
<1>3. \A g \in Threads \ {h} : thread'[g] = thread[g]
  BY ListenThread
<1>4. /\ \A p : Asks(h, p)' => q.kind = "deploy" /\ q.id = p
      /\ \A g \in Threads \ {h} : \A p : Asks(g, p)' => Asks(g, p)
  BY <1>2, <1>3 DEF Asks
<1>5. ASSUME NEW p \in Deployments, Asks(h, p)'
      PROVE  records[p] = Nothing /\ \A g \in Threads : ~Asks(g, p)
  BY <1>4, <1>5 DEF EndpointInv, AskedOnce
<1>6. AskedOnce'
  <2>1. ASSUME NEW p \in Deployments, worker'[p] \in {"none", "started"}
        PROVE  records'[p] = Nothing /\ \A g \in Threads : ~Asks(g, p)'
    <3>1. worker[p] \in {"none", "started"} /\ ~Asks(h, p)'
      BY <1>4, <2>1
    <3>2. records[p] = Nothing /\ \A g \in Threads : ~Asks(g, p)
      BY <3>1 DEF EndpointInv, AskedOnce
    <3> QED BY <1>4, <3>1, <3>2
  <2>2. ASSUME NEW p \in Deployments, NEW f \in Threads, NEW g \in Threads,
               Asks(f, p)', Asks(g, p)'
        PROVE  f = g
    <3>1. CASE f = h \/ g = h
      BY <1>4, <1>5, <2>2, <3>1
    <3>2. CASE f # h /\ g # h
      <4>1. Asks(f, p) /\ Asks(g, p)
        BY <1>4, <2>2, <3>2
      <4> QED BY <4>1 DEF EndpointInv, AskedOnce
    <3> QED BY <3>1, <3>2
  <2> QED BY <2>1, <2>2 DEF AskedOnce
<1>7. ASSUME NEW p \in Deployments, NEW g \in Threads, Asks(g, p)' PROVE AskState(g, p)'
  <2>1. CASE g = h
    BY <1>2, <1>3, <1>5, <1>7, <2>1 DEF AskState, Works
  <2>2. CASE g # h
    <3>1. Asks(g, p) /\ AskState(g, p) /\ thread'[g] = thread[g]
      BY <1>3, <1>4, <1>7, <2>2 DEF EndpointInv, AskStates
    <3> QED BY <3>1 DEF AskState, Works, PortOf
  <2> QED BY <2>1, <2>2
<1>8. ASSUME NEW g \in Threads PROVE ThreadPorts(g)'
  <2>1. CASE g = h
    BY <1>2, <1>3, <2>1 DEF ThreadPorts, Works
  <2>2. CASE g # h
    <3>1. ThreadPorts(g) /\ thread'[g] = thread[g]
      BY <1>3, <2>2 DEF EndpointInv
    <3> QED BY <3>1 DEF ThreadPorts, Works, HasPort, PortOf
  <2> QED BY <2>1, <2>2
<1>9. AskStates'
  BY <1>7 DEF AskStates
<1> QED BY <1>6, <1>8, <1>9, RecordPortsStay, EntryPortsStay DEF EndpointInv

\* A thread step that writes no candidate's record.
LEMMA StepPorts ==
    ASSUME ProcessInv, EndpointInv, NEW h \in Threads, NEW c \in Components, Effect(h, c),
           UNCHANGED <<records, components, worker>>,
           \A p \in Deployments : Asks(h, p) /\ Asks(h, p)' => AskState(h, p)',
           current'[c] # Nothing => HasPort(current[c])',
           ThreadPorts(h)'
    PROVE  EndpointInv'
<1>1. /\ \A g \in Threads : \A p : Asks(g, p)' => Asks(g, p)
      /\ \A g \in Threads \ {h} : thread'[g] = thread[g]
  BY DEF Asks, Effect, ThreadOnly
<1>2. \A r : HasPort(r) => HasPort(r)'
  BY DEF HasPort, PortOf
<1>3. AskedOnce'
  BY <1>1 DEF EndpointInv, AskedOnce
<1>4. ASSUME NEW p \in Deployments, NEW g \in Threads \ {h}, Asks(g, p)'
      PROVE  AskState(g, p)'
  <2>1. AskState(g, p) /\ thread'[g] = thread[g]
    BY <1>1, <1>4 DEF EndpointInv, AskStates
  <2> QED BY <2>1 DEF AskState, Works, PortOf
<1>5. AskStates'
  BY <1>1, <1>4 DEF AskStates
<1>6. ASSUME NEW g \in Threads \ {h} PROVE ThreadPorts(g)'
  BY <1>1, <1>2 DEF EndpointInv, ThreadPorts, Works
<1>7. RecordPorts'
  BY <1>2 DEF EndpointInv, RecordPorts, Effect
<1> QED BY <1>3, <1>5, <1>6, <1>7, EntryPortsStay DEF EndpointInv

\* The record of a candidate is written, the only time.
LEMMA FilesPorts ==
    ASSUME ServiceInv, ProcessInv, EndpointInv, NEW h \in Threads, NEW c \in Components,
           Effect(h, c), c = Target(thread[h].req), Files(h), UNCHANGED <<components, worker>>
    PROVE  EndpointInv'
<1> DEFINE n == thread[h].new
           p == thread[h].req.id
<1>1. On(h, c) /\ InHand(h, c)
  BY DEF Files, On, Works, ProcessInv, WorkHolds
<1>2. n \in DeploymentRecord /\ n # Nothing /\ ComponentOf[n.dep] = c
  BY <1>1, RecordFields DEF InHand, RecordOf
<1>3. p \in Deployments /\ Asks(h, p)
  BY DEF Files, ProcessInv, HarnessTypes, Request, Asks
<1>4. AskState(h, p) /\ worker[p] \notin {"none", "started"}
  BY <1>3 DEF EndpointInv, AskStates, AskedOnce
<1>5. n.dep = p /\ n.status = "healthy" /\ records[p] = Nothing
  BY <1>4 DEF AskState, Files, Works
<1>6. records'[p] = n /\ \A q \in Deployments \ {p} : records'[q] = records[q]
  BY <1>3, <1>5 DEF Files, ProcessInv, HarnessTypes
<1>7. /\ \/ /\ thread'[h].pc = "recorded"
            /\ thread'[h].old = thread[h].old /\ thread'[h].new = n
         \/ thread'[h].pc = "free"
         \/ thread'[h].pc = "done" /\ thread'[h].answer.kind # "receipt"
      /\ thread'[h].pc # "free" => thread'[h].req = thread[h].req
      /\ \A g \in Threads \ {h} : thread'[g] = thread[g]
      /\ current' = current
  <2>1. CASE Moves(h, "recorded", thread[h].old, thread[h].new)
    BY <2>1 DEF Files, Moves, ThreadOnly
  <2>2. CASE \E a : Answered(h, a) /\ a.kind # "receipt"
    BY <2>2 DEF Files, Answered, ThreadOnly
  <2> QED BY <2>1, <2>2 DEF Files
<1> HIDE DEF n, p
<1>8. \A g \in Threads : \A q : Asks(g, q)' => Asks(g, q)
  BY <1>7 DEF Asks, Files
<1>9. \A q \in Deployments : q # p => records'[q] = records[q]
  BY <1>6
<1>10. ASSUME NEW r, NEW d, Filed(r, d), HasPort(r) PROVE HasPort(r)'
  <2>1. r.dep \in Deployments /\ r.dep # p
    BY <1>5, <1>10, RecordFields DEF Filed, RecordOf
  <2> QED BY <1>9, <1>10, <2>1 DEF HasPort, PortOf
<1>11. AskedOnce'
  <2>1. ASSUME NEW q \in Deployments, worker'[q] \in {"none", "started"}
        PROVE  records'[q] = Nothing /\ \A g \in Threads : ~Asks(g, q)'
    BY <1>4, <1>8, <1>9, <2>1 DEF EndpointInv, AskedOnce
  <2> QED BY <1>8, <2>1 DEF EndpointInv, AskedOnce
<1>12. ASSUME NEW q \in Deployments, NEW g \in Threads, Asks(g, q)' PROVE AskState(g, q)'
  <2>1. Asks(g, q) /\ AskState(g, q)
    BY <1>8, <1>12 DEF EndpointInv, AskStates
  <2>2. CASE g = h
    <3>1. q = p
      BY <2>1, <2>2 DEF Asks, p
    <3> QED BY <1>5, <1>7, <2>2, <3>1 DEF AskState, Works
  <2>3. CASE g # h
    <3>1. q # p
      BY <1>3, <2>1, <2>3 DEF EndpointInv, AskedOnce
    <3> QED BY <1>7, <1>9, <2>1, <2>3, <3>1 DEF AskState, Works, PortOf
  <2> QED BY <2>2, <2>3
<1>13. AskStates'
  BY <1>12 DEF AskStates
<1>14. RecordPorts'
  <2> SUFFICES ASSUME NEW d \in Components, current'[d] # Nothing
               PROVE  HasPort(current[d])'
    BY DEF RecordPorts
  <2>1. Filed(current[d], d) /\ HasPort(current[d])
    BY <1>7 DEF EndpointInv, RecordPorts, ProcessInv, RecordsHold
  <2>2. PICK r : r = current[d]
    OBVIOUS
  <2>3. HasPort(r)'
    BY <1>10, <2>1, <2>2
  <2> QED BY <1>7, <2>2, <2>3 DEF HasPort, PortOf
<1>15. EntryPorts'
  <2> SUFFICES ASSUME NEW d \in Components, components'[d] # Nothing,
                      components'[d].status = "Healthy"
               PROVE  /\ records'[components'[d].dep] # Nothing
                      /\ components'[d].port = records'[components'[d].dep].port
    BY DEF EntryPorts, PortOf
  <2>1. /\ records[components[d].dep] # Nothing
        /\ components[d].port = records[components[d].dep].port
    BY DEF EndpointInv, EntryPorts, PortOf
  <2>2. components[d].dep # p /\ components[d].dep \in Deployments
    BY <1>5, <2>1 DEF ServiceInv, ApprovedBehind
  <2> QED BY <1>9, <2>1, <2>2
<1>16. ASSUME NEW g \in Threads, Works(g)' PROVE ThreadPorts(g)'
  <2>1. PICK d \in Components : d = Target(thread[g].req) /\ On(g, d) /\ InHand(g, d)
    <3>1. Works(g)
      BY <1>7, <1>16 DEF Works, Files
    <3>2. Target(thread[g].req) \in Components
      BY <3>1, TargetIsComponent DEF ProcessInv, HarnessTypes, Works
    <3> QED BY <3>1, <3>2 DEF On, ProcessInv, WorkHolds
  <2>2. /\ thread'[g].old = thread[g].old /\ thread'[g].new = thread[g].new
        /\ ThreadPorts(g) /\ Works(g)
    BY <1>7, <1>16, <2>1 DEF EndpointInv, On, Works, n
  <2>3. PICK o, m : o = thread[g].old /\ m = thread[g].new
    OBVIOUS
  <2>4. o # Nothing => HasPort(o)'
    BY <1>10, <2>1, <2>2, <2>3 DEF ThreadPorts, InHand
  <2>5. records'[m.dep] # Nothing => HasPort(m)'
    <3>1. CASE g = h
      BY <1>5, <1>6, <2>3, <3>1 DEF HasPort, PortOf, n
    <3>2. CASE g # h
      <4>1. d # c /\ RecordOf(m, d)
        BY <1>1, <2>1, <2>3, <3>2 DEF Effect, Alone, InHand
      <4>2. m.dep # p /\ m.dep \in Deployments
        BY <1>2, <1>5, <4>1, RecordFields DEF RecordOf
      <4>3. records'[m.dep] = records[m.dep]
        BY <1>9, <4>2
      <4> QED BY <2>2, <2>3, <4>3 DEF ThreadPorts, HasPort, PortOf
    <3> QED BY <3>1, <3>2
  <2> QED BY <2>2, <2>3, <2>4, <2>5 DEF ThreadPorts, HasPort, PortOf
<1>17. \A g \in Threads : ThreadPorts(g)'
  BY <1>16 DEF ThreadPorts
<1> QED BY <1>11, <1>13, <1>14, <1>15, <1>17 DEF EndpointInv

\* Any step of a harness thread.
LEMMA ThreadStepPorts ==
    ASSUME ServiceInv, ProcessInv, EndpointInv, NEW h \in Threads, NEW c \in Components,
           c = Target(thread[h].req), Effect(h, c), ThreadStep(h, c),
           UNCHANGED <<components, worker>>
    PROVE  EndpointInv'
<1>1. /\ \A r : UNCHANGED records => (HasPort(r) => HasPort(r)')
      /\ current[c] # Nothing => HasPort(current[c])
  BY DEF HasPort, PortOf, EndpointInv, RecordPorts
<1>2. UNCHANGED <<records, current>> => (current'[c] # Nothing => HasPort(current[c])')
  BY <1>1 DEF HasPort, PortOf
<1>3. ASSUME NEW p \in Deployments, Asks(h, p)
      PROVE  /\ AskState(h, p)
             /\ thread[h].req.kind = "deploy" /\ thread[h].req.id = p
  BY <1>3 DEF EndpointInv, AskStates, Asks
<1>4. Works(h) =>
          /\ InHand(h, c)
          /\ thread[h].old # Nothing => HasPort(thread[h].old)
          /\ records[thread[h].new.dep] # Nothing => HasPort(thread[h].new)
  BY DEF EndpointInv, ThreadPorts, ProcessInv, WorkHolds, On
<1>5. ASSUME NEW a, Refuses(h, c, a) PROVE EndpointInv'
  <2>1. /\ thread'[h].pc \in {"free", "done"} /\ UNCHANGED <<records, current>>
        /\ thread'[h].pc = "done" => thread'[h].answer = a
    BY <1>5 DEF Refuses, Answered
  <2>2. ASSUME NEW p \in Deployments, Asks(h, p) PROVE a.kind # "receipt"
    <3>1. records[p] = Nothing
      BY <1>3, <1>5, <2>2 DEF AskState, Refuses
    <3>2. a.kind = "receipt" => current[c] # Nothing /\ current[c].dep = p
      BY <1>3, <1>5, <2>2 DEF Refuses
    <3> QED BY <3>1, <3>2 DEF ProcessInv, RecordsHold, Filed
  <2>3. ~Works(h)'
    BY <2>1 DEF Works
  <2>4. \A p \in Deployments : Asks(h, p) /\ Asks(h, p)' => AskState(h, p)'
    BY <2>1, <2>2, <2>3 DEF AskState
  <2> QED BY <1>2, <2>1, <2>3, <2>4, StepPorts DEF ThreadPorts
<1>6. ASSUME NEW n, Launches(h, c, n) PROVE EndpointInv'
  <2>1. /\ thread[h].pc = "lock" /\ UNCHANGED <<records, current>>
        /\ thread'[h].pc = "started" /\ thread'[h].old = current[c] /\ thread'[h].new = n
    BY <1>6 DEF Launches, Moves
  <2>2. ASSUME NEW p \in Deployments, Asks(h, p) PROVE AskState(h, p)'
    BY <1>3, <1>6, <2>1, <2>2 DEF AskState, Launches
  <2>3. records[n.dep] # Nothing => n.status = "rolled_back"
    <3>1. CASE thread[h].req.kind = "deploy"
      <4>1. n.dep = thread[h].req.id /\ n.dep \in Deployments /\ Asks(h, n.dep)
        BY <1>6, <2>1, <3>1, RecordFields DEF Launches, RecordOf, Asks
      <4>2. records[n.dep] = Nothing
        BY <1>3, <2>1, <4>1 DEF AskState
      <4> QED BY <4>2
    <3>2. CASE thread[h].req.kind # "deploy"
      BY <1>6, <3>2 DEF Launches
    <3> QED BY <3>1, <3>2
  <2>4. ThreadPorts(h)'
    BY <1>1, <2>1, <2>3 DEF ThreadPorts, HasPort, PortOf
  <2> QED BY <1>2, <2>1, <2>2, <2>4, StepPorts
<1>7. ASSUME NEW n, Halts(h, c, n) PROVE EndpointInv'
  <2>1. /\ thread[h].req.kind # "deploy" /\ UNCHANGED <<records, current>>
        /\ thread'[h].old = current[c] /\ thread'[h].new = n /\ n.status = "disabled"
    BY <1>7 DEF Halts, Moves
  <2>2. ThreadPorts(h)'
    BY <1>1, <2>1 DEF ThreadPorts, HasPort, PortOf
  <2> QED BY <1>2, <1>3, <2>1, <2>2, StepPorts
<1>8. CASE Files(h)
  BY <1>8, FilesPorts
<1>9. CASE Activates(h, c)
  <2>1. /\ Works(h) /\ records[thread[h].new.dep] # Nothing /\ UNCHANGED records
        /\ thread'[h].pc = "active"
        /\ thread'[h].old = thread[h].old /\ thread'[h].new = thread[h].new
    BY <1>9 DEF Activates, Moves
  <2>2. current'[c] = thread[h].new
    BY <1>9 DEF Activates, ProcessInv, HarnessTypes
  <2>3. HasPort(current[c])'
    BY <1>4, <2>1, <2>2 DEF HasPort, PortOf
  <2>4. \A p \in Deployments : Asks(h, p) => AskState(h, p)'
    BY <1>3, <2>1 DEF AskState
  <2>5. ThreadPorts(h)'
    BY <1>4, <2>1 DEF ThreadPorts, HasPort, PortOf
  <2> QED BY <2>1, <2>3, <2>4, <2>5, StepPorts
<1>10. ASSUME NEW x, NEW a, Ends(h, c, x, a) PROVE EndpointInv'
  <2>1. /\ Works(h) /\ UNCHANGED records
        /\ thread'[h].pc \in {"free", "done"}
        /\ thread'[h].pc = "done" => thread'[h].answer = a
        /\ x = thread[h].old \/ (x = thread[h].new /\ records[x.dep] # Nothing)
    BY <1>10 DEF Ends, Answered
  <2>2. current'[c] = x
    BY <1>10 DEF Ends, ProcessInv, HarnessTypes
  <2>3. x # Nothing => HasPort(x)
    BY <1>4, <2>1
  <2>4. current'[c] # Nothing => HasPort(current[c])'
    BY <2>1, <2>2, <2>3 DEF HasPort, PortOf
  <2>5. ~Works(h)'
    BY <2>1 DEF Works
  <2>6. ASSUME NEW p \in Deployments, Asks(h, p), a.kind = "receipt"
        PROVE  records[p] # Nothing /\ a.port = PortOf(p)
    <3>1. x = thread[h].new /\ a.port = x.port
      BY <1>3, <1>10, <2>6 DEF Ends
    <3>2. x.dep = p /\ x.status = "healthy"
      BY <1>3, <2>1, <2>6, <3>1 DEF AskState
    <3>3. x \in DeploymentRecord /\ x # Nothing
      BY <1>4, <2>1, <3>1, RecordFields DEF InHand, RecordOf
    <3>4. records[x.dep] # Nothing
      BY <1>4, <2>1, <3>3 DEF InHand, Filed
    <3> QED BY <2>3, <3>1, <3>2, <3>3, <3>4 DEF HasPort
  <2>7. \A p \in Deployments : Asks(h, p) /\ Asks(h, p)' => AskState(h, p)'
    BY <2>1, <2>5, <2>6 DEF AskState, PortOf
  <2> QED BY <2>1, <2>4, <2>5, <2>7, StepPorts DEF ThreadPorts
<1>11. ASSUME NEW s, NEW a, Abandons(h, c, s, a) PROVE EndpointInv'
  <2>1. /\ thread'[h].pc \in {"free", "done"} /\ UNCHANGED <<records, current>>
        /\ thread'[h].pc = "done" => thread'[h].answer.kind # "receipt"
    BY <1>11 DEF Abandons, Answered
  <2>2. ~Works(h)'
    BY <2>1 DEF Works
  <2>3. \A p \in Deployments : AskState(h, p)'
    BY <2>1, <2>2 DEF AskState
  <2> QED BY <1>2, <2>1, <2>2, <2>3, StepPorts DEF ThreadPorts
<1>12. ASSUME NEW x, NEW a, Loses(h, c, x, a) PROVE EndpointInv'
  <2>1. /\ Works(h) /\ UNCHANGED records
        /\ thread'[h].pc \in {"free", "done"}
        /\ thread'[h].pc = "done" => thread'[h].answer.kind # "receipt"
        /\ x = thread[h].old \/ (x = thread[h].new /\ records[x.dep] # Nothing)
    BY <1>12 DEF Loses, Answered
  <2>2. current'[c] = x
    BY <1>12 DEF Loses, ProcessInv, HarnessTypes
  <2>3. x # Nothing => HasPort(x)
    BY <1>4, <2>1
  <2>4. current'[c] # Nothing => HasPort(current[c])'
    BY <2>1, <2>2, <2>3 DEF HasPort, PortOf
  <2>5. ~Works(h)'
    BY <2>1 DEF Works
  <2>6. \A p \in Deployments : AskState(h, p)'
    BY <2>1, <2>5 DEF AskState
  <2> QED BY <2>1, <2>4, <2>5, <2>6, StepPorts DEF ThreadPorts
<1> QED BY <1>5, <1>6, <1>7, <1>8, <1>9, <1>10, <1>11, <1>12 DEF ThreadStep

\* The port that is published with an activation is the recorded one.
LEMMA ActivationPorts ==
    ASSUME ServiceInv, ProcessInv, EndpointInv, NEW p \in Deployments,
           deployer_deploy_and_record(p)
    PROVE  EntryPorts'
<1>1. PICK h \in Threads :
          /\ Waits(h, DeployRequest(p)) /\ thread[h].pc = "done"
          /\ IF thread[h].answer.kind = "receipt"
             THEN activate_trusted_service(p, thread[h].answer)
             ELSE fail_trusted_activation(p)
  BY DEF deployer_deploy_and_record
<1>2. UNCHANGED records
  BY DEF deployer_deploy_and_record
<1>3. Asks(h, p) /\ AskState(h, p)
  <2>1. Asks(h, p)
    <3>1. thread[h].pc # "free" /\ thread[h].req = DeployRequest(p)
      BY <1>1 DEF Waits
    <3>2. DeployRequest(p).kind = "deploy" /\ DeployRequest(p).id = p
      BY DEF DeployRequest
    <3> QED BY <3>1, <3>2 DEF Asks
  <2> QED BY <2>1 DEF EndpointInv, AskStates
<1>4. CASE UNCHANGED components
  BY <1>2, <1>4, EntryPortsStay
<1>5. CASE thread[h].answer.kind = "receipt" /\ activation_checks(p, thread[h].answer)
  <2>1. PICK e : e = Registered(p, thread[h].answer.port)
    OBVIOUS
  <2>2. e.dep = p /\ e.port = thread[h].answer.port
    BY <2>1 DEF Registered
  <2>3. components' = [components EXCEPT ![ComponentOf[p]] = e]
    BY <1>1, <1>5, <2>1 DEF activate_trusted_service, persist_snapshot
  <2>4. \A c \in Components : components'[c] = e \/ components'[c] = components[c]
    BY <2>3 DEF ServiceInv, Shapes
  <2>5. records[p] # Nothing /\ e.port = PortOf(p)
    BY <1>1, <1>3, <1>5, <2>2 DEF AskState
  <2> QED BY <1>2, <2>2, <2>4, <2>5 DEF EndpointInv, EntryPorts, PortOf
<1>6. UNCHANGED components
      \/ (thread[h].answer.kind = "receipt" /\ activation_checks(p, thread[h].answer))
  BY <1>1 DEF activate_trusted_service, fail_trusted_activation, Decide, registryVars
<1> QED BY <1>4, <1>5, <1>6

\* A settled control decision leaves no healthy entry.
LEMMA SettlementPorts ==
    ASSUME ServiceInv, EndpointInv, NEW d \in Controls, UNCHANGED records,
           UNCHANGED components \/ \E r : settle_component_control(d, r)
    PROVE  EntryPorts'
<1>1. CASE UNCHANGED components
  BY <1>1, EntryPortsStay
<1>2. ASSUME NEW r, settle_component_control(d, r), ~UNCHANGED components
      PROVE  EntryPorts'
  <2>1. PICK e : e = [dep |-> r.dep, port |-> r.port,
               status |-> IF control[d].action = "disable" THEN "Disabled" ELSE "RolledBack"]
    OBVIOUS
  <2>2. e.status # "Healthy"
    BY <2>1
  <2>3. components' = [components EXCEPT ![control[d].component] = e]
    BY <1>2, <2>1 DEF settle_component_control, persist_snapshot
  <2>4. \A c \in Components : components'[c] = e \/ components'[c] = components[c]
    BY <2>3 DEF ServiceInv, Shapes
  <2> QED BY <2>2, <2>4 DEF EndpointInv, EntryPorts, PortOf
<1> QED BY <1>1, <1>2

\* Threads after an answer is heard or given up on.
LEMMA HeardOrNot ==
    ASSUME ProcessInv, NEW h \in Threads, Hear(h) \/ GiveUp(h)
    PROVE  \A g \in Threads : SameOrFree(g)
<1>1. \A g \in Threads \ {h} : thread'[g] = thread[g]
  BY DEF Hear, GiveUp, ProcessInv, HarnessTypes
<1>2. CASE thread'[h] = Idle
  BY <1>1, <1>2, IdleThread DEF SameOrFree
<1>3. CASE thread'[h] = [thread[h] EXCEPT !.waited = FALSE]
  <2>0. PICK b : b = FALSE
    OBVIOUS
  <2>1. PICK t : t = [thread[h] EXCEPT !.waited = b]
    OBVIOUS
  <2>2. /\ t.pc = thread[h].pc /\ t.req = thread[h].req /\ t.old = thread[h].old
        /\ t.new = thread[h].new /\ t.answer = thread[h].answer
    BY SMT, <2>1 DEF ProcessInv, HarnessTypes, IsThread
  <2> QED BY <1>1, <1>3, <2>0, <2>1, <2>2 DEF SameOrFree
<1>4. thread'[h] = Idle \/ thread'[h] = [thread[h] EXCEPT !.waited = FALSE]
  BY DEF Hear, GiveUp, ProcessInv, HarnessTypes
<1> QED BY <1>2, <1>3, <1>4

\* A candidate's background thread that moves on.
LEMMA WorkerMoves ==
    ASSUME EndpointInv, NEW p \in Deployments, NEW s, worker' = [worker EXCEPT ![p] = s]
    PROVE  /\ worker' = [q \in Deployments |-> worker'[q]] /\ worker'[p] = s
           /\ \A q \in Deployments \ {p} : worker'[q] = worker[q]
BY DEF EndpointInv, AskedOnce

\* The steps of the accept thread and of the background threads.
LEMMA KernelKeepsPorts ==
    ASSUME ServiceInv, ProcessInv, EndpointInv,
           \/ \E p \in Deployments :
                 \/ Expire(p) \/ Reject(p) \/ Approve(p) \/ replay_response(p)
                 \/ deploy_not_sent(p) \/ deploy_sent(p)
                 \/ deployer_deploy_and_record(p) \/ deploy_unanswered(p)
           \/ \E d \in Controls :
                 \/ ControlDecision(d) \/ ControlAgain(d) \/ control_sent(d)
                 \/ control_answer(d) \/ control_uncertain(d)
    PROVE  EndpointInv'
<1>1. UNCHANGED thread => \A h \in Threads : SameOrFree(h)
  BY DEF SameOrFree
<1>2. UNCHANGED worker =>
          /\ worker' = [q \in Deployments |-> worker'[q]]
          /\ \A q \in Deployments :
                worker'[q] \in {"none", "started"} => worker[q] \in {"none", "started"}
  BY DEF EndpointInv, AskedOnce
<1>3. ASSUME NEW p \in Deployments,
             \/ Expire(p) \/ Reject(p) \/ replay_response(p)
      PROVE  EndpointInv'
  <2>1. UNCHANGED <<records, current, thread, worker, components>>
    BY <1>3 DEF Expire, Reject, replay_response, expire_trusted_approval, reject_trusted,
                Decide, vars, harnessVars, registryVars, serviceVars
  <2> QED BY <1>1, <1>2, <2>1, PortsStay, RecordPortsStay, EntryPortsStay
<1>4. ASSUME NEW p \in Deployments, Approve(p) PROVE EndpointInv'
  <2>1. /\ UNCHANGED <<records, current, thread, components>>
        /\ worker[p] = "none" /\ worker' = [worker EXCEPT ![p] = "started"]
    BY <1>4 DEF Approve, record_trusted_service_deployment_intent, harnessVars
  <2>2. /\ worker' = [q \in Deployments |-> worker'[q]]
        /\ \A q \in Deployments :
              worker'[q] \in {"none", "started"} => worker[q] \in {"none", "started"}
    BY <2>1, WorkerMoves
  <2> QED BY <1>1, <2>1, <2>2, PortsStay, RecordPortsStay, EntryPortsStay
<1>5. ASSUME NEW p \in Deployments, Finish(p)
      PROVE  /\ worker' = [q \in Deployments |-> worker'[q]]
             /\ \A q \in Deployments :
                   worker'[q] \in {"none", "started"} => worker[q] \in {"none", "started"}
  BY <1>5, WorkerMoves DEF Finish
<1>6. ASSUME NEW p \in Deployments, deploy_not_sent(p) PROVE EndpointInv'
  <2>1. UNCHANGED <<records, current, thread, components>> /\ Finish(p)
    BY <1>6 DEF deploy_not_sent, fail_trusted_activation, Decide, harnessVars, registryVars
  <2> QED BY <1>1, <1>5, <2>1, PortsStay, RecordPortsStay, EntryPortsStay
<1>7. ASSUME NEW p \in Deployments, deploy_sent(p) PROVE EndpointInv'
  <2>1. PICK h \in Threads : serve_listener(h, DeployRequest(p))
    BY <1>7 DEF deploy_sent
  <2>2. PICK q : q = DeployRequest(p)
    OBVIOUS
  <2>3. q.kind = "deploy" /\ q.id = p /\ Request(q)
    BY <2>2 DEF DeployRequest, Request
  <2>4. /\ UNCHANGED <<records, current, components>>
        /\ worker[p] = "started" /\ worker' = [worker EXCEPT ![p] = "waiting"]
    BY <1>7 DEF deploy_sent, registryVars
  <2>5. /\ worker' = [r \in Deployments |-> worker'[r]]
        /\ \A r \in Deployments : worker'[r] \in {"none", "started"} =>
               worker[r] \in {"none", "started"} /\ r # p
    BY <2>4, WorkerMoves
  <2> QED BY <2>1, <2>2, <2>3, <2>4, <2>5, ListenPorts
<1>8. ASSUME NEW p \in Deployments, deployer_deploy_and_record(p) PROVE EndpointInv'
  <2>1. UNCHANGED <<records, current>> /\ Finish(p) /\ \E h \in Threads : Hear(h)
    BY <1>8 DEF deployer_deploy_and_record
  <2> QED BY <1>5, <1>8, <2>1, HeardOrNot, ActivationPorts, PortsStay, RecordPortsStay
<1>9. ASSUME NEW p \in Deployments, deploy_unanswered(p) PROVE EndpointInv'
  <2>1. /\ UNCHANGED <<records, current, components>> /\ Finish(p)
        /\ UNCHANGED thread \/ \E h \in Threads : GiveUp(h)
    BY <1>9 DEF deploy_unanswered, fail_trusted_activation, Decide, registryVars
  <2> QED BY <1>1, <1>5, <2>1, HeardOrNot, PortsStay, RecordPortsStay, EntryPortsStay
<1>10. ASSUME NEW d \in Controls, ControlDecision(d) \/ ControlAgain(d) PROVE EndpointInv'
  <2>1. UNCHANGED <<records, current, thread, worker, components>>
    BY <1>10 DEF ControlDecision, ControlAgain, harnessVars, registryVars
  <2> QED BY <1>1, <1>2, <2>1, PortsStay, RecordPortsStay, EntryPortsStay
<1>11. ASSUME NEW d \in Controls, control_sent(d) PROVE EndpointInv'
  <2>1. PICK h \in Threads : serve_listener(h, ControlRequest(d))
    BY <1>11 DEF control_sent
  <2>2. PICK q : q = ControlRequest(d)
    OBVIOUS
  <2>3. Pends(d) /\ control[d].component \in Components
        /\ control[d].action \in {"disable", "rollback"}
    BY <1>11 DEF control_sent, ServiceInv, AwaitsPending, PendingKnown, ProcessInv, HarnessTypes
  <2>4. q.kind # "deploy" /\ Request(q)
    BY <2>2, <2>3 DEF ControlRequest, Request
  <2>5. UNCHANGED <<records, current, components, worker>>
    BY <1>11 DEF control_sent, registryVars, serviceVars
  <2> QED BY <1>2, <2>1, <2>2, <2>4, <2>5, ListenPorts
<1>12. ASSUME NEW d \in Controls, control_answer(d) PROVE EndpointInv'
  <2>1. /\ UNCHANGED <<records, current, worker>> /\ \E h \in Threads : Hear(h)
        /\ UNCHANGED components \/ \E r : settle_component_control(d, r)
    BY <1>12 DEF control_answer
  <2> QED BY <1>2, <2>1, HeardOrNot, SettlementPorts, PortsStay, RecordPortsStay
<1>13. ASSUME NEW d \in Controls, control_uncertain(d) PROVE EndpointInv'
  <2>1. /\ UNCHANGED <<records, current, components, worker>>
        /\ UNCHANGED thread \/ \E h \in Threads : GiveUp(h)
    BY <1>13 DEF control_uncertain, registryVars
  <2> QED BY <1>1, <1>2, <2>1, HeardOrNot, PortsStay, RecordPortsStay, EntryPortsStay
<1> QED BY <1>3, <1>4, <1>6, <1>7, <1>8, <1>9, <1>10, <1>11, <1>12, <1>13

\* Every step.
LEMMA EndpointInvStep ==
    ASSUME ServiceInv, ProcessInv, EndpointInv, [Next]_vars PROVE EndpointInv'
<1>1. UNCHANGED thread => \A h \in Threads : SameOrFree(h)
  BY DEF SameOrFree
<1>2. UNCHANGED worker =>
          /\ worker' = [q \in Deployments |-> worker'[q]]
          /\ \A q \in Deployments :
                worker'[q] \in {"none", "started"} => worker[q] \in {"none", "started"}
  BY DEF EndpointInv, AskedOnce
<1>3. ASSUME NEW h \in Threads, HarnessStep(h), Harness PROVE EndpointInv'
  <2>1. /\ thread[h].pc # "free" /\ Alone(h, Target(thread[h].req))
        /\ Target(thread[h].req) \in Components /\ ThreadStep(h, Target(thread[h].req))
    BY <1>3, StepAlone, ThreadSteps
  <2>2. UNCHANGED boot
    BY <1>3 DEF HarnessStep, load_manifest, deploy, record_deployment, activate_record,
                start_abandoned, persist_fails, record_unsynced, active_unsynced,
                stop_previous, stop_previous_fails, restore_fails, control_answered,
                disable, disable_recorded, rollback
  <2>3. UNCHANGED <<crashes, control, components, worker>>
    BY <1>3 DEF Harness, serviceVars, registryVars
  <2>4. Effect(h, Target(thread[h].req))
    BY <2>1, <2>2, <2>3, ThreadStepEffect
  <2> QED BY <2>1, <2>3, <2>4, ThreadStepPorts
<1>4. CASE Harness /\ HarnessBoot
  <2>1. UNCHANGED <<records, thread, components, worker>>
    BY <1>4 DEF Harness, HarnessBoot, serve, reconcile_nothing_to_do, reconcile,
                reconcile_fails, reconcile_abandoned, reconcile_unsynced, registryVars,
                serviceVars
  <2>2. CASE UNCHANGED current
    BY <1>1, <1>2, <2>1, <2>2, PortsStay, RecordPortsStay, EntryPortsStay
  <2>3. ASSUME NEW c \in Components, reconcile(c) \/ reconcile_unsynced(c)
        PROVE  RecordPorts'
    <3>1. current[c] # Nothing
      BY <2>3 DEF reconcile, reconcile_unsynced
    <3>2. PICK n : n = [current[c] EXCEPT !.inst = starts + 1]
      OBVIOUS
    <3>3. /\ n.dep = current[c].dep /\ n.port = current[c].port
          /\ n.status = current[c].status
      <4>1. current[c] \in DeploymentRecord
        BY <3>1 DEF ProcessInv, RecordsHold, Filed, RecordOf
      <4> QED BY SMT, <3>2, <4>1 DEF DeploymentRecord
    <3>4. current' = [current EXCEPT ![c] = n]
      BY <2>3, <3>2 DEF reconcile, reconcile_unsynced, persist_active
    <3>5. current'[c] = n /\ \A d \in Components \ {c} : current'[d] = current[d]
      BY <3>4 DEF ProcessInv, HarnessTypes
    <3> QED BY <2>1, <3>1, <3>3, <3>5 DEF EndpointInv, RecordPorts, HasPort, PortOf
  <2>4. UNCHANGED current \/ \E c \in Components : reconcile(c) \/ reconcile_unsynced(c)
    BY <1>4 DEF HarnessBoot, serve, reconcile_nothing_to_do, reconcile_fails,
                reconcile_abandoned
  <2> QED BY <1>1, <1>2, <2>1, <2>2, <2>3, <2>4, PortsStay, EntryPortsStay
<1>5. CASE KernelCrash
  <2>1. UNCHANGED <<records, current, components>>
    BY <1>5 DEF KernelCrash, registryVars
  <2>2. ASSUME NEW h \in Threads PROVE SameOrFree(h)
    <3>1. CASE thread[h].pc = "done"
      BY <1>5, <3>1, IdleThread DEF KernelCrash, SameOrFree
    <3>2. CASE thread[h].pc # "done"
      <4>0. PICK b : b = FALSE
        OBVIOUS
      <4>1. PICK t : t = [thread[h] EXCEPT !.waited = b]
        OBVIOUS
      <4>2. /\ t.pc = thread[h].pc /\ t.req = thread[h].req /\ t.old = thread[h].old
            /\ t.new = thread[h].new /\ t.answer = thread[h].answer
        BY SMT, <4>1 DEF ProcessInv, HarnessTypes, IsThread
      <4>3. thread'[h] = t
        BY <1>5, <3>2, <4>0, <4>1 DEF KernelCrash
      <4> QED BY <4>2, <4>3 DEF SameOrFree
    <3> QED BY <3>1, <3>2
  <2>3. /\ worker' = [q \in Deployments |-> worker'[q]]
        /\ \A q \in Deployments :
              worker'[q] \in {"none", "started"} => worker[q] \in {"none", "started"}
    BY <1>5 DEF KernelCrash
  <2> QED BY <2>1, <2>2, <2>3, PortsStay, RecordPortsStay, EntryPortsStay
<1>6. CASE HarnessCrash
  <2>1. UNCHANGED <<records, current, components, worker>>
    BY <1>6 DEF HarnessCrash, HarnessDown, reconcile_interrupted, registryVars
  <2>2. \A h \in Threads : SameOrFree(h)
    BY <1>6, <1>1, IdleThread DEF HarnessCrash, HarnessDown, reconcile_interrupted, SameOrFree
  <2> QED BY <1>2, <2>1, <2>2, PortsStay, RecordPortsStay, EntryPortsStay
<1>7. CASE Exit \/ Environment \/ UNCHANGED vars
  <2>1. UNCHANGED <<records, current, thread, worker, components>>
    BY <1>7 DEF Exit, ServiceExit, Environment, PassExpiry, RegistryMoves, vars,
                harnessVars, registryVars, serviceVars
  <2> QED BY <1>1, <1>2, <2>1, PortsStay, RecordPortsStay, EntryPortsStay
<1>8. CASE Harness
  BY <1>3, <1>4, <1>8 DEF Harness
<1> QED BY <1>5, <1>6, <1>7, <1>8, KernelKeepsPorts DEF Next

\* Through every crash, restart, time-out and control decision, the port the
\* Kernel published for a healthy component is the one the harness has on record
\* for it.
THEOREM EndpointsStayValid == Spec => []EndpointStaysValid
<1>1. ServiceInv /\ ProcessInv /\ EndpointInv /\ [Next]_vars => EndpointInv'
  BY EndpointInvStep
<1>2. EndpointInv => EndpointStaysValid
  BY DEF EndpointInv, RecordPorts, EntryPorts, HasPort, EndpointStaysValid
<1> QED BY <1>1, <1>2, EndpointInvInit, ServiceInvariant, HarnessInvariant, PTL DEF Spec
=============================================================================
