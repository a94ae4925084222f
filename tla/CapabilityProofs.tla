--------------------------- MODULE CapabilityProofs --------------------------
(***************************************************************************)
(* Proofs about capability decisions, for any manifests, proposals,        *)
(* decisions, host threads and faults.  A step is reduced to what it does  *)
(* to the registry, to the two rows of a proposal and to the host's        *)
(* record; the invariants are then shown to survive it.                    *)
(***************************************************************************)
EXTENDS CapabilityDecision, FiniteSetTheorems, TLAPS

\* The leaves are for Zenon; a leaf that needs arithmetic, or that Zenon does not
\* find in time, cites SMT.
USE Zenon

\* Snapshots that differ in one operation at most.
OneApart(s, r) ==
    \A op, o \in Ops : s.ops[op] # r.ops[op] /\ s.ops[o] # r.ops[o] => op = o

IsThread(g) == g = [pc |-> g.pc, request |-> g.request, answer |-> g.answer]
IsApproval(a) == a = [status |-> a.status, decision |-> a.decision, snapshot |-> a.snapshot]
IsProposal(a) == a = [status |-> a.status, source |-> a.source, snapshot |-> a.snapshot]

Shapes ==
    /\ approval = [p \in Proposals |-> approval[p]] /\ \A p \in Proposals : IsApproval(approval[p])
    /\ proposal = [p \in Proposals |-> proposal[p]] /\ \A p \in Proposals : IsProposal(proposal[p])
    /\ thread = [h \in HostThreads |-> thread[h]] /\ \A h \in HostThreads : IsThread(thread[h])

\* Rows that were cut short: some operations are missing, none is another one.
PartOf(r, s) == \A op \in Ops : r.ops[op] \in {s.ops[op], NoBinding}

SnapsInv ==
    /\ DOMAIN snaps \subseteq Snapshots
    /\ \A s \in DOMAIN snaps : snaps[s] \in Snapshots /\ PartOf(snaps[s], s)

\* The registry and the process's copy of it.
RegistryInv ==
    /\ SnapsInv
    /\ active \in DOMAIN snaps \union {NoSnapshot}
    /\ kpc \notin {"boot", "init"} => active \in DOMAIN snaps
    /\ kpc \notin {"boot", "seed", "init", "upgrade", "seeding", "cache"} => cache = active
    /\ kpc \in {"upgrade", "seeding", "change"} => OneApart(request.target, snaps[active])
    /\ kpc = "cache" => request.target = active

\* The two rows of a trusted proposal.
RowsInv ==
    \A p \in Trusted :
        /\ approval[p].status \in Terminal \union {"None", "Pending"}
        /\ approval[p].status = "None" <=> proposal[p].status = "None"
        /\ approval[p].status \in Terminal =>
             proposal[p].status =
                IF approval[p].status = "Approved" THEN "Activated" ELSE approval[p].status

\* A decision as it was taken: recorded with its outcome, never to change.
Recorded(d, status) ==
    /\ d \in Decisions /\ d.flaw = "none" /\ d.proposal \in Trusted /\ status \in Terminal
    /\ approval[d.proposal].decision = d /\ approval[d.proposal].status = status

\* What the thread remembers of a decision between its steps.
DecisionInv ==
    /\ answer # NoAnswer => Recorded(answer.decision, answer.status)
    /\ kpc \in {"deploying", "activating", "failing"} =>
         /\ request.decision \in Decisions /\ request.decision.flaw = "none"
         /\ request.decision.proposal \in Trusted
    /\ kpc = "cache" /\ request.decision # NoDecision => Recorded(request.decision, "Approved")

\* The host's one record: an answer "ok" is about it, and so is an activation.
HostInv ==
    /\ \A h \in HostThreads :
         /\ thread[h].pc # "free" => thread[h].request # NoRecord
         /\ thread[h].pc = "answered" /\ thread[h].answer = "ok" => record = thread[h].request
    /\ kpc = "deploying" => waiting \in HostThreads
    /\ kpc = "activating" =>
         record # NoRecord /\ record = DeployRequest(request.decision, request.target)

\* What an approval stands on, and what stands on it.
WholeApproval(p) ==
    /\ record # NoRecord /\ record = DeployRequest(approval[p].decision, approval[p].snapshot)
    /\ approval[p].decision.proposal = p
    /\ approval[p].snapshot \in DOMAIN snaps /\ snaps[approval[p].snapshot] = approval[p].snapshot
    /\ [op |-> OperationName[ManifestOf[p]], snapshot |-> approval[p].snapshot] \in grants
ApprovalInv ==
    /\ \A p \in Trusted : approval[p].status = "Approved" => WholeApproval(p)
    /\ \A g \in grants : \E p \in Trusted :
         approval[p].status = "Approved" /\ approval[p].snapshot = g.snapshot
    /\ \A e \in served :
         /\ e.record.decision.proposal \in Trusted
         /\ approval[e.record.decision.proposal].status = "Approved"
         /\ approval[e.record.decision.proposal].decision = e.record.decision
         /\ approval[e.record.decision.proposal].snapshot = e.snapshot

CapabilityInv == Shapes /\ RegistryInv /\ RowsInv /\ DecisionInv /\ HostInv /\ ApprovalInv

-----------------------------------------------------------------------------
(* Snapshots. *)

\* Binding an operation changes that operation only.
LEMMA WithSnapshot ==
    ASSUME NEW s \in Snapshots, NEW m \in Manifests, NEW risk \in {"ReadOnly", "Write"}
    PROVE  /\ With(s, m, risk) \in Snapshots
           /\ OneApart(With(s, m, risk), s)
<1>1. OperationName[m] \in Ops
  BY ManifestsName
<1>2. [manifest |-> m, risk |-> risk] \in Bindings
  BY DEF Bindings
<1>3. PICK b : b = [manifest |-> m, risk |-> risk]
  OBVIOUS
<1>4. With(s, m, risk) = [s EXCEPT !.ops[OperationName[m]] = b]
  BY <1>3 DEF With
<1>5. b \in Bindings \cup {NoBinding}
  BY <1>2, <1>3
<1>6. [s EXCEPT !.ops[OperationName[m]] = b] \in Snapshots
  BY <1>1, <1>5 DEF Snapshots
<1>7. \A o \in Ops \ {OperationName[m]} :
          [s EXCEPT !.ops[OperationName[m]] = b].ops[o] = s.ops[o]
  BY <1>1 DEF Snapshots
<1> QED BY <1>1, <1>4, <1>6, <1>7 DEF OneApart

\* Removing one changes that one only.
LEMMA WithoutSnapshot ==
    ASSUME NEW s \in Snapshots, NEW m \in Manifests
    PROVE  /\ [s EXCEPT !.ops[OperationName[m]] = NoBinding] \in Snapshots
           /\ OneApart([s EXCEPT !.ops[OperationName[m]] = NoBinding], s)
<1>1. OperationName[m] \in Ops
  BY ManifestsName
<1>2. [s EXCEPT !.ops[OperationName[m]] = NoBinding] \in Snapshots
  BY <1>1 DEF Snapshots
<1>3. \A o \in Ops \ {OperationName[m]} :
          [s EXCEPT !.ops[OperationName[m]] = NoBinding].ops[o] = s.ops[o]
  BY <1>1 DEF Snapshots
<1> QED BY <1>1, <1>2, <1>3 DEF OneApart

\* Hooks and upgrades leave the operations alone.
LEMMA HooksSnapshot ==
    ASSUME NEW s \in Snapshots
    PROVE  /\ inherit_hook_bindings(s) \in Snapshots /\ inherit_hook_bindings(s).ops = s.ops
           /\ retire_legacy_builtin_time(s) \in Snapshots /\ retire_legacy_builtin_time(s).ops = s.ops
           /\ ensure_required_hook_bindings(s) \in Snapshots
           /\ ensure_required_hook_bindings(s).ops = s.ops
           /\ ensure_coding_control_operations(s) \in Snapshots
           /\ ensure_coding_control_operations(s).ops = s.ops
BY DEF inherit_hook_bindings, retire_legacy_builtin_time,
   ensure_required_hook_bindings, ensure_coding_control_operations, Snapshots

\* What an approved capability, a proposal and a replacement make of a snapshot.
LEMMA SpecsSnapshot ==
    ASSUME NEW s \in Snapshots, NEW m \in Manifests, NEW risk \in {"ReadOnly", "Write"}
    PROVE  /\ inherit_hook_bindings(With(s, m, risk)) \in Snapshots
           /\ OneApart(inherit_hook_bindings(With(s, m, risk)), s)
<1>1. With(s, m, risk) \in Snapshots /\ OneApart(With(s, m, risk), s)
  BY WithSnapshot
<1>2. PICK w : w = With(s, m, risk)
  OBVIOUS
<1>3. inherit_hook_bindings(w) \in Snapshots /\ inherit_hook_bindings(w).ops = w.ops
  BY <1>1, <1>2, HooksSnapshot
<1> QED BY <1>1, <1>2, <1>3 DEF OneApart

\* What boot, enabling and disabling may create changes one operation at most.
LEMMA CreatingSnapshot ==
    ASSUME RegistryInv, NEW t \in Creating
    PROVE  t \in Snapshots /\ ((kpc = "boot" /\ active = NoSnapshot) \/ OneApart(t, snaps[active]))
<1> DEFINE s == snaps[active]
<1>1. ASSUME active \in DOMAIN snaps, t \in upgrade(active) \union seed(active)
      PROVE  t \in Snapshots /\ OneApart(t, s)
  <2>1. s \in Snapshots
    BY <1>1 DEF RegistryInv, SnapsInv
  <2>2. t \in {retire_legacy_builtin_time(s), ensure_required_hook_bindings(s),
               ensure_coding_control_operations(s)}
    BY <1>1 DEF upgrade, seed, load_registry_snapshot
  <2>3. t \in Snapshots /\ t.ops = s.ops
    BY <2>1, <2>2, HooksSnapshot
  <2> QED BY <2>3 DEF OneApart
<1>2. ASSUME active \in DOMAIN snaps, cache = active, NEW m \in Manifests,
             t \in enable_harness(m) \union disable_harness(m)
      PROVE  t \in Snapshots /\ OneApart(t, s)
  <2>1. s \in Snapshots
    BY <1>2 DEF RegistryInv, SnapsInv
  <2>2. t \in {With(s, m, "Write"), [s EXCEPT !.ops[OperationName[m]] = NoBinding]}
    BY <1>2 DEF enable_harness, disable_harness, load_registry_snapshot
  <2> QED BY <2>1, <2>2, WithSnapshot, WithoutSnapshot
<1>3. CASE kpc = "boot" /\ active = NoSnapshot
  <2>1. t = builtin_specs
    BY <1>3 DEF Creating
  <2> QED BY <1>3, <2>1 DEF builtin_specs, Snapshots, Bare
<1>4. CASE kpc = "boot" /\ active # NoSnapshot
  <2>1. t \in upgrade(active) \union seed(active)
    BY <1>4 DEF Creating
  <2>2. active \in DOMAIN snaps
    BY <1>4 DEF RegistryInv
  <2> QED BY <1>1, <2>1, <2>2
<1>5. CASE kpc = "seed"
  <2>1. t \in seed(active)
    BY <1>5 DEF Creating
  <2>2. active \in DOMAIN snaps
    BY <1>5 DEF RegistryInv
  <2> QED BY <1>1, <2>1, <2>2
<1>6. CASE kpc = "idle" /\ changes < MaxChanges
  <2>1. t \in UNION {enable_harness(m) \cup disable_harness(m) : m \in Manifests}
    BY <1>6 DEF Creating
  <2>2. active \in DOMAIN snaps /\ cache = active
    BY <1>6 DEF RegistryInv
  <2> QED BY <1>2, <2>1, <2>2
<1> QED BY <1>3, <1>4, <1>5, <1>6 DEF Creating

\* What is stored stays, also when more is stored.
StoreLasts == \A s \in DOMAIN snaps : s \in DOMAIN snaps' /\ snaps'[s] = snaps[s]

\* Storing one more snapshot keeps the ones that are there.
LEMMA StoredKeeps ==
    ASSUME SnapsInv, NEW s \in Snapshots \ DOMAIN snaps, NEW content \in Snapshots,
           PartOf(content, s), snaps' = Stored(s, content)
    PROVE  SnapsInv' /\ StoreLasts /\ s \in DOMAIN snaps' /\ snaps'[s] = content
<1>1. DOMAIN snaps' = DOMAIN snaps \union {s}
  BY DEF Stored
<1>2. snaps'[s] = content /\ \A t \in DOMAIN snaps : snaps'[t] = snaps[t]
  BY DEF Stored
<1> QED BY <1>1, <1>2 DEF SnapsInv, StoreLasts

\* A snapshot is created, or found.
LEMMA CreateKeeps ==
    ASSUME SnapsInv, NEW s \in Snapshots, create_registry_snapshot(s)
    PROVE  SnapsInv' /\ StoreLasts /\ s \in DOMAIN snaps'
<1>1. CASE s \in DOMAIN snaps
  BY <1>1 DEF create_registry_snapshot, SnapsInv, StoreLasts
<1>2. CASE s \notin DOMAIN snaps
  <2>1. snaps' = Stored(s, s) /\ PartOf(s, s)
    BY <1>2 DEF create_registry_snapshot, PartOf
  <2> QED BY <1>2, <2>1, StoredKeeps
<1> QED BY <1>1, <1>2

\* A snapshot is created in part.
LEMMA InterruptKeeps ==
    ASSUME SnapsInv, NEW s \in Snapshots, create_is_interrupted(s)
    PROVE  SnapsInv' /\ StoreLasts
<1>1. PICK n : s \notin DOMAIN snaps /\ snaps' = Stored(s, Rows(s, n))
  BY DEF create_is_interrupted
<1>2. Rows(s, n) \in Snapshots /\ PartOf(Rows(s, n), s)
  <2>1. PICK first : first = [op \in Ops |-> NameOrder[op] <= n]
    OBVIOUS
  <2>2. PICK ops : ops = [op \in Ops |-> IF first[op] THEN s.ops[op] ELSE NoBinding]
    OBVIOUS
  <2>3. ops = [op \in Ops |-> IF NameOrder[op] <= n THEN s.ops[op] ELSE NoBinding]
    BY <2>1, <2>2
  <2>4. PICK time : time = (s.time /\ NameOrder["time.now"] <= n)
    OBVIOUS
  <2>5. PICK control : control = (s.control /\ NameOrder["external.coding_task_submit"] <= n)
    OBVIOUS
  <2>6. time \in BOOLEAN /\ control \in BOOLEAN
    BY <2>4, <2>5
  <2>7. Rows(s, n) = [ops |-> ops, hooks |-> FALSE, time |-> time, control |-> control]
    BY <2>3, <2>4, <2>5 DEF Rows
  <2>8. /\ ops \in [Ops -> Bindings \union {NoBinding}]
        /\ \A op \in Ops : ops[op] \in {s.ops[op], NoBinding}
    BY <2>2 DEF Snapshots
  <2>9. [ops |-> ops, hooks |-> FALSE, time |-> time, control |-> control] \in Snapshots
    BY <2>6, <2>8 DEF Snapshots
  <2>10. [ops |-> ops, hooks |-> FALSE, time |-> time, control |-> control].ops = ops
    OBVIOUS
  <2> QED BY <2>7, <2>8, <2>9, <2>10 DEF PartOf
<1> QED BY <1>1, <1>2, StoredKeeps

\* A snapshot is inserted by an activation.
LEMMA ActivateKeeps ==
    ASSUME SnapsInv, NEW expected, NEW s \in Snapshots, activate_registry_tx(expected, s)
    PROVE  /\ SnapsInv' /\ StoreLasts /\ s \in DOMAIN snaps' /\ snaps'[s] = s
           /\ active = expected /\ active' = s
<1>1. s \notin DOMAIN snaps /\ snaps' = Stored(s, s) /\ active = expected /\ active' = s
  BY DEF activate_registry_tx
<1>2. PartOf(s, s)
  BY DEF PartOf
<1> QED BY <1>1, <1>2, StoredKeeps

Differing(s, r, t) == {op \in Ops : t.ops[op] # r.ops[op] /\ (t = s \/ t.ops[op] # NoBinding)}

\* The operations that differ once a snapshot one apart, or part of it, is active.
LEMMA OneApartCard ==
    ASSUME NEW s, NEW r, NEW t, OneApart(s, r), PartOf(t, s)
    PROVE  Cardinality(Differing(s, r, t)) <= 1
<1> DEFINE D == Differing(s, r, t)
<1>0. \A op \in D : op \in Ops /\ s.ops[op] # r.ops[op]
  BY DEF PartOf, Differing
<1>1. CASE D = {}
  BY SMT, <1>1, FS_EmptySet
<1>2. ASSUME NEW op \in D PROVE Cardinality(D) <= 1
  <2>1. D = {op}
    BY <1>0, <1>2 DEF OneApart
  <2>2. Cardinality({op}) = 1
    BY FS_Singleton
  <2>3. Cardinality(D) = 1
    BY <2>1, <2>2
  <2> QED BY SMT, <2>3
<1> QED BY <1>1, <1>2

-----------------------------------------------------------------------------
(* What a step does to the rows of a proposal. *)

OthersKeep(p) ==
    \A q \in Proposals \ {p} : approval'[q] = approval[q] /\ proposal'[q] = proposal[q]
Asked(p) ==
    /\ p \in Trusted /\ proposal[p].status = "None" /\ OthersKeep(p) /\ grants' = grants
    /\ approval'[p].status = "Pending" /\ proposal'[p].status = "PendingApproval"
Lapsed(p) ==
    /\ p \in Trusted /\ approval[p].status = "Pending" /\ OthersKeep(p) /\ grants' = grants
    /\ approval'[p].status = "Expired" /\ proposal'[p].status = "Expired"
Decided(d, status, target) ==
    /\ d \in Decisions /\ d.proposal \in Trusted /\ d.flaw = "none"
    /\ OthersKeep(d.proposal) /\ approval[d.proposal].status = "Pending"
    /\ approval'[d.proposal].status = status /\ approval'[d.proposal].decision = d
    /\ approval'[d.proposal].snapshot = target
    /\ \/ /\ status \in {"Rejected", "ActivationFailed"}
          /\ proposal'[d.proposal].status = status /\ grants' = grants
       \/ /\ status = "Approved" /\ proposal'[d.proposal].status = "Activated"
          /\ grants' = grants \union {[op |-> OperationName[ManifestOf[d.proposal]], snapshot |-> target]}
          /\ target \in DOMAIN snaps' /\ snaps'[target] = target
          /\ record' # NoRecord /\ record' = DeployRequest(d, target)
RowsKept == approval' = approval /\ grants' = grants /\ \A p \in Trusted : proposal'[p] = proposal[p]
RowsEffect ==
    /\ Shapes'
    /\ \/ RowsKept
       \/ \E p : Asked(p) \/ Lapsed(p)
       \/ \E d, status, target : Decided(d, status, target)

\* A closed approval does not change.
Frozen == \A p \in Proposals : approval[p].status \in Terminal => approval'[p] = approval[p]

LastingRecord == /\ StoreLasts
                 /\ record # NoRecord => record' = record
Served(e) ==
    /\ e.record.decision.proposal \in Trusted
    /\ approval[e.record.decision.proposal].status = "Approved"
    /\ approval[e.record.decision.proposal].decision = e.record.decision
    /\ approval[e.record.decision.proposal].snapshot = e.snapshot

\* Closed approvals are left alone by every effect.
LEMMA EffectFreezes ==
    ASSUME RowsInv, RowsEffect
    PROVE  Frozen
<1> SUFFICES ASSUME NEW p \in Proposals, approval[p].status \in Terminal
             PROVE  approval'[p] = approval[p]
  BY DEF Frozen
<1>1. CASE RowsKept
  BY <1>1 DEF RowsKept
<1>2. ASSUME NEW q, Asked(q) PROVE approval'[p] = approval[p]
  <2>1. approval[q].status = "None"
    BY <1>2 DEF Asked, RowsInv
  <2>2. p # q
    BY <2>1 DEF Terminal
  <2> QED BY <1>2, <2>2 DEF Asked, OthersKeep
<1>3. ASSUME NEW q, Lapsed(q) PROVE approval'[p] = approval[p]
  BY <1>3 DEF Lapsed, OthersKeep, Terminal
<1>4. ASSUME NEW d, NEW status, NEW target, Decided(d, status, target)
      PROVE approval'[p] = approval[p]
  BY <1>4 DEF Decided, OthersKeep, Terminal
<1> QED BY <1>1, <1>2, <1>3, <1>4 DEF RowsEffect

\* What was recorded stays recorded.
LEMMA RecordedStays ==
    ASSUME Frozen, NEW d, NEW status, Recorded(d, status)
    PROVE  Recorded(d, status)'
BY ProposalsAsk DEF Frozen, Recorded

\* The two rows of a proposal stay in step.
LEMMA RowsInvStep ==
    ASSUME RowsInv, RowsEffect
    PROVE  RowsInv'
<1> SUFFICES ASSUME NEW p \in Trusted
             PROVE  /\ approval'[p].status \in Terminal \union {"None", "Pending"}
                    /\ approval'[p].status = "None" <=> proposal'[p].status = "None"
                    /\ approval'[p].status \in Terminal =>
                         proposal'[p].status =
                           IF approval'[p].status = "Approved" THEN "Activated"
                           ELSE approval'[p].status
  BY DEF RowsInv
<1>0. p \in Proposals
  BY ProposalsAsk
<1>1. CASE RowsKept
  BY <1>1 DEF RowsKept, RowsInv
<1>2. ASSUME NEW q, OthersKeep(q), q # p PROVE approval'[p] = approval[p] /\ proposal'[p] = proposal[p]
  BY <1>0, <1>2 DEF OthersKeep
<1>3. CASE approval'[p] = approval[p] /\ proposal'[p] = proposal[p]
  BY <1>3 DEF RowsInv
<1>4. CASE Asked(p) \/ Lapsed(p)
  BY <1>4 DEF Asked, Lapsed, Terminal
<1>5. ASSUME NEW d, NEW status, NEW target, Decided(d, status, target), d.proposal = p
      PROVE  /\ approval'[p].status \in Terminal /\ approval'[p].status # "None"
             /\ proposal'[p].status # "None"
             /\ proposal'[p].status =
                  IF approval'[p].status = "Approved" THEN "Activated" ELSE approval'[p].status
  BY <1>5 DEF Decided, Terminal
<1>6. ASSUME NEW q, Asked(q) \/ Lapsed(q), q # p
      PROVE  approval'[p] = approval[p] /\ proposal'[p] = proposal[p]
  BY <1>2, <1>6 DEF Asked, Lapsed
<1>7. ASSUME NEW d, NEW status, NEW target, Decided(d, status, target), d.proposal # p
      PROVE  approval'[p] = approval[p] /\ proposal'[p] = proposal[p]
  BY <1>2, <1>7 DEF Decided
<1> QED BY <1>1, <1>3, <1>4, <1>5, <1>6, <1>7 DEF RowsEffect

\* Approvals stay whole, grants and executions stay approved.
LEMMA ApprovalInvStep ==
    ASSUME RowsInv, ApprovalInv, RowsEffect, LastingRecord, \A e \in served' \ served : Served(e)'
    PROVE  ApprovalInv'
<1>1. Frozen
  BY EffectFreezes
<1>2. \A p \in Trusted : approval[p].status = "Approved" => approval'[p] = approval[p] /\ p \in Proposals
  BY <1>1, ProposalsAsk DEF Frozen, Terminal
<1>3. grants \subseteq grants'
  BY DEF RowsEffect, RowsKept, Asked, Lapsed, Decided
<1>4. ASSUME NEW p \in Trusted, approval[p].status = "Approved" PROVE WholeApproval(p)'
  <2>1. approval'[p] = approval[p] /\ WholeApproval(p)
    BY <1>2, <1>4 DEF ApprovalInv
  <2>2. record' = record
    BY <2>1 DEF WholeApproval, LastingRecord
  <2>3. PICK a : a = approval[p]
    OBVIOUS
  <2>4. a.snapshot \in DOMAIN snaps' /\ snaps'[a.snapshot] = a.snapshot
    BY <2>1, <2>3 DEF WholeApproval, LastingRecord, StoreLasts
  <2> QED BY <1>3, <2>1, <2>2, <2>3, <2>4 DEF WholeApproval, DeployRequest
<1>5. ASSUME NEW p \in Trusted, approval'[p].status = "Approved", approval[p].status # "Approved"
      PROVE  WholeApproval(p)'
  <2>0. p \in Proposals
    BY ProposalsAsk
  <2>1. PICK d, status, target : Decided(d, status, target) /\ d.proposal = p /\ status = "Approved"
    <3>1. ~RowsKept
      BY <1>5 DEF RowsKept
    <3>2. \A q : ~Asked(q) /\ ~Lapsed(q)
      BY <1>5, <2>0 DEF Asked, Lapsed, OthersKeep
    <3>3. PICK d, status, target : Decided(d, status, target)
      BY <3>1, <3>2 DEF RowsEffect
    <3>4. d.proposal = p
      BY <1>5, <2>0, <3>3 DEF Decided, OthersKeep
    <3>5. status = "Approved"
      BY <1>5, <3>3, <3>4 DEF Decided
    <3> QED BY <3>3, <3>4, <3>5
  <2> QED BY <2>1 DEF Decided, WholeApproval
<1>6. ASSUME NEW g \in grants'
      PROVE  \E p \in Trusted : approval'[p].status = "Approved" /\ approval'[p].snapshot = g.snapshot
  <2>1. CASE g \in grants
    BY SMT, <1>2, <2>1 DEF ApprovalInv
  <2>2. CASE g \notin grants
    <3>1. PICK d, status, target :
              /\ Decided(d, status, target) /\ status = "Approved"
              /\ g = [op |-> OperationName[ManifestOf[d.proposal]], snapshot |-> target]
      BY SMT, <1>6, <2>2 DEF RowsEffect, RowsKept, Asked, Lapsed, Decided
    <3> QED BY <3>1 DEF Decided
  <2> QED BY <2>1, <2>2
<1>7. ASSUME NEW e \in served' PROVE Served(e)'
  <2>1. CASE e \in served
    BY <1>2, <2>1 DEF ApprovalInv, Served
  <2> QED BY <2>1
<1> QED BY <1>4, <1>5, <1>6, <1>7 DEF ApprovalInv, Served

-----------------------------------------------------------------------------
(* What every step does: the parts of the invariant that concern the       *)
(* registry, the thread and the host hold again, the rows move as above.   *)

ActiveMoves ==
    \/ active' = active
    \/ active' \in DOMAIN snaps' /\ (active = NoSnapshot \/ OneApart(active', snaps[active]))
Good ==
    /\ RowsEffect /\ LastingRecord /\ RegistryInv' /\ DecisionInv' /\ HostInv' /\ ActiveMoves
    /\ \A e \in served' \ served : Served(e)'

\* Steps that touch no row and no host thread.
LEMMA KeepsRows ==
    ASSUME Shapes, UNCHANGED <<approvalVars, thread>>
    PROVE  RowsEffect
BY DEF Shapes, RowsEffect, RowsKept, approvalVars

\* The host, when it does nothing and nobody waits for it any more.
LEMMA KeepsHost ==
    ASSUME HostInv, UNCHANGED hostVars,
           kpc' \notin {"deploying", "activating"} \/ UNCHANGED serverVars
    PROVE  HostInv'
BY DEF HostInv, hostVars, serverVars, DeployRequest

\* An answer that was given stays true.
LEMMA AnswerStays ==
    ASSUME DecisionInv, Frozen, answer' \in {answer, NoAnswer}
    PROVE  (answer # NoAnswer => Recorded(answer.decision, answer.status))'
<1>1. CASE answer' = answer /\ answer # NoAnswer
  <2>1. PICK d, status : d = answer.decision /\ status = answer.status
    OBVIOUS
  <2>2. Recorded(d, status)'
    BY <1>1, <2>1, RecordedStays DEF DecisionInv
  <2> QED BY <1>1, <2>1, <2>2
<1> QED BY <1>1

\* The thread's memory of a decision, when it takes no new one.
LEMMA KeepsDecision ==
    ASSUME DecisionInv, Frozen,
           \/ UNCHANGED serverVars
           \/ /\ answer' \in {answer, NoAnswer}
              /\ kpc' \notin {"deploying", "activating", "failing"}
              /\ kpc' = "cache" => request'.decision = NoDecision
    PROVE  DecisionInv'
<1>1. (answer # NoAnswer => Recorded(answer.decision, answer.status))'
  BY AnswerStays DEF serverVars
<1>2. CASE UNCHANGED serverVars
  <2>1. kpc' = kpc /\ request' = request
    BY <1>2 DEF serverVars
  <2>2. (kpc = "cache" /\ request.decision # NoDecision => Recorded(request.decision, "Approved"))'
    <3>1. PICK d : d = request.decision
      OBVIOUS
    <3>2. kpc = "cache" /\ d # NoDecision => Recorded(d, "Approved")'
      BY <3>1, RecordedStays DEF DecisionInv
    <3> QED BY <2>1, <3>1, <3>2
  <2> QED BY <1>1, <2>1, <2>2 DEF DecisionInv
<1>3. CASE /\ kpc' \notin {"deploying", "activating", "failing"}
           /\ kpc' = "cache" => request'.decision = NoDecision
  BY <1>1, <1>3 DEF DecisionInv
<1> QED BY <1>2, <1>3

\* The registry, when a request ends or goes on without touching it.
LEMMA KeepsRegistry ==
    ASSUME SnapsInv, active \in DOMAIN snaps, UNCHANGED <<snaps, active>>, cache' = active,
           kpc' \in {"idle", "deploying", "activating", "failing"}
    PROVE  RegistryInv' /\ StoreLasts /\ ActiveMoves
BY DEF RegistryInv, SnapsInv, StoreLasts, ActiveMoves

\* The registry, when nothing happens in the server.
LEMMA IgnoresRegistry ==
    ASSUME RegistryInv, UNCHANGED <<registryVars, serverVars>>
    PROVE  RegistryInv' /\ StoreLasts /\ ActiveMoves
BY DEF RegistryInv, SnapsInv, StoreLasts, ActiveMoves, registryVars, serverVars, OneApart

\* The registry, when a snapshot becomes active.
LEMMA MovesRegistry ==
    ASSUME SnapsInv', StoreLasts, active' \in DOMAIN snaps',
           active = NoSnapshot \/ OneApart(active', snaps[active]),
           \/ kpc' \in {"boot", "seed"}
           \/ kpc' = "cache" /\ request'.target = active'
    PROVE  RegistryInv' /\ StoreLasts /\ ActiveMoves
BY DEF RegistryInv, ActiveMoves

\* Boot brings an old registry up to date without touching its operations.
LEMMA BootGood ==
    ASSUME CapabilityInv, initialize_registry \/ init_registry_state \/ ActivateUpgrade
    PROVE  Good
<1>0. /\ RegistryInv /\ SnapsInv /\ DecisionInv /\ HostInv /\ Shapes /\ RowsInv
      /\ UNCHANGED <<approvalVars, hostVars, run, served>>
  BY DEF CapabilityInv, RegistryInv, initialize_registry, init_registry_state, ActivateUpgrade
<1>1. RowsEffect
  BY <1>0, KeepsRows DEF hostVars
<1>2. Frozen
  BY <1>0, <1>1, EffectFreezes
<1>3. ASSUME RegistryInv', StoreLasts, ActiveMoves, answer' \in {answer, NoAnswer},
             kpc' \notin {"deploying", "activating", "failing"},
             kpc' = "cache" => request'.decision = NoDecision
      PROVE  Good
  <2>1. DecisionInv'
    BY <1>0, <1>2, <1>3, KeepsDecision
  <2>2. HostInv'
    BY <1>0, <1>3, KeepsHost
  <2> QED BY <1>0, <1>1, <1>3, <2>1, <2>2 DEF Good, LastingRecord, hostVars
<1>4. CASE initialize_registry
  <2>1. kpc \in {"boot", "seed"}
    BY <1>4 DEF initialize_registry
  <2>2. ASSUME NEW target \in Creating, create_registry_snapshot(target), active' = active,
               NEW pc \in {"init", "upgrade", "seeding"}, active = NoSnapshot => pc = "init",
               active # NoSnapshot => pc # "init", Goto(pc, NoDecision, target)
        PROVE  Good
    <3>1. target \in Snapshots /\ (active # NoSnapshot => OneApart(target, snaps[active]))
      BY <1>0, CreatingSnapshot
    <3>2. SnapsInv' /\ StoreLasts
      BY <1>0, <2>2, <3>1, CreateKeeps
    <3>3. kpc' = pc /\ request'.target = target /\ answer' = answer
      BY <2>2 DEF Goto
    <3>4. RegistryInv'
      <4>1. active' \in DOMAIN snaps' \union {NoSnapshot}
        BY <1>0, <2>2, <3>2 DEF RegistryInv, StoreLasts
      <4>2. CASE active = NoSnapshot
        BY <2>2, <3>2, <3>3, <4>1, <4>2 DEF RegistryInv
      <4>3. CASE active # NoSnapshot
        <5>1. active \in DOMAIN snaps /\ snaps'[active] = snaps[active] /\ active' \in DOMAIN snaps'
          BY <1>0, <2>2, <3>2, <4>3 DEF RegistryInv, StoreLasts
        <5>2. OneApart(request'.target, snaps'[active'])
          BY <2>2, <3>1, <3>3, <4>3, <5>1
        <5>3. OneApart(request.target, snaps[active])'
          BY <5>2 DEF OneApart
        <5> QED BY <2>2, <3>2, <3>3, <4>3, <5>1, <5>3 DEF RegistryInv
      <4> QED BY <4>2, <4>3
    <3> QED BY <1>3, <2>2, <3>2, <3>3, <3>4 DEF ActiveMoves
  <2>3. CASE Creating = {} /\ set_cache(active) /\ Idle(NoAnswer)
    <3>1. active \in DOMAIN snaps
      <4>1. CASE kpc = "boot" /\ active = NoSnapshot
        BY <2>3, <4>1 DEF Creating
      <4>2. CASE ~(kpc = "boot" /\ active = NoSnapshot)
        BY <1>0, <2>1, <4>2 DEF RegistryInv
      <4> QED BY <4>1, <4>2
    <3>2. /\ UNCHANGED <<snaps, active>> /\ cache' = active /\ kpc' = "idle" /\ answer' = NoAnswer
      BY <2>3 DEF Idle, set_cache
    <3> QED BY <1>0, <1>3, <3>1, <3>2, KeepsRegistry
  <2>4. ASSUME NEW target \in Creating, create_registry_snapshot(target), active' = active,
               Goto(IF active = NoSnapshot THEN "init"
                    ELSE IF kpc = "boot" /\ upgrade(active) # {} THEN "upgrade" ELSE "seeding",
                    NoDecision, target)
        PROVE  Good
    <3>1. PICK pc : pc = IF active = NoSnapshot THEN "init"
                         ELSE IF kpc = "boot" /\ upgrade(active) # {} THEN "upgrade" ELSE "seeding"
      OBVIOUS
    <3>2. /\ pc \in {"init", "upgrade", "seeding"} /\ (active = NoSnapshot => pc = "init")
          /\ (active # NoSnapshot => pc # "init") /\ Goto(pc, NoDecision, target)
      BY <2>4, <3>1
    <3> QED BY <2>2, <2>4, <3>2
  <2> QED BY <1>4, <2>3, <2>4 DEF initialize_registry
<1>5. CASE init_registry_state
  <2>1. /\ active = NoSnapshot /\ active' = request.target /\ active' \in DOMAIN snaps
        /\ snaps' = snaps /\ kpc' = "cache" /\ request'.target = request.target
        /\ request'.decision = NoDecision /\ answer' = answer
    BY <1>5 DEF init_registry_state, activate_snapshot, Goto
  <2>2. SnapsInv' /\ StoreLasts
    BY <1>0, <2>1 DEF SnapsInv, StoreLasts
  <2> QED BY <1>3, <2>1, <2>2, MovesRegistry
<1>6. CASE ActivateUpgrade
  <2>1. /\ kpc \in {"upgrade", "seeding"} /\ active' = request.target /\ active' \in DOMAIN snaps
        /\ snaps' = snaps
    BY <1>6 DEF ActivateUpgrade, activate_snapshot
  <2>2. SnapsInv' /\ StoreLasts
    BY <1>0, <2>1 DEF SnapsInv, StoreLasts
  <2>3. OneApart(active', snaps[active])
    BY <1>0, <2>1 DEF RegistryInv
  <2>4. /\ kpc' \in {"seed", "cache"} /\ (kpc' = "cache" => request'.target = request.target)
        /\ request'.decision = NoDecision /\ answer' = answer
    <3>1. Goto("seed", NoDecision, NoSnapshot) \/ Goto("cache", NoDecision, request.target)
      BY <1>6 DEF ActivateUpgrade
    <3>2. CASE Goto("seed", NoDecision, NoSnapshot)
      <4>1. kpc' = "seed" /\ request' = [decision |-> NoDecision, target |-> NoSnapshot] /\ answer' = answer
        BY <3>2 DEF Goto
      <4> QED BY <4>1
    <3>3. CASE Goto("cache", NoDecision, request.target)
      <4>1. /\ kpc' = "cache" /\ answer' = answer
            /\ request' = [decision |-> NoDecision, target |-> request.target]
        BY <3>3 DEF Goto
      <4> QED BY <4>1
    <3> QED BY <3>1, <3>2, <3>3
  <2> QED BY <1>3, <2>1, <2>2, <2>3, <2>4, MovesRegistry
<1> QED BY <1>4, <1>5, <1>6

\* Operators' requests and the writing of the in-memory copy.
LEMMA HarnessRoutesGood ==
    ASSUME CapabilityInv,
           \/ \E m \in Manifests : handle_register(m) \/ handle_enable(m) \/ handle_disable(m)
           \/ ChangeFails \/ activate_registry_snapshot_atomic \/ WriteCache
    PROVE  Good
<1>0. /\ RegistryInv /\ SnapsInv /\ DecisionInv /\ HostInv /\ Shapes /\ RowsInv
      /\ UNCHANGED <<approvalVars, hostVars, run, served>>
  BY DEF CapabilityInv, RegistryInv, handle_register, handle_enable, handle_disable, handle_change,
     ChangeFails, activate_registry_snapshot_atomic, WriteCache
<1>1. RowsEffect
  BY <1>0, KeepsRows DEF hostVars
<1>2. Frozen
  BY <1>0, <1>1, EffectFreezes
<1>3. ASSUME RegistryInv', StoreLasts, ActiveMoves, answer' \in {answer, NoAnswer},
             kpc' \notin {"deploying", "activating", "failing"},
             kpc' = "cache" => request'.decision = NoDecision
      PROVE  Good
  <2>1. DecisionInv'
    BY <1>0, <1>2, <1>3, KeepsDecision
  <2>2. HostInv'
    BY <1>0, <1>3, KeepsHost
  <2> QED BY <1>0, <1>1, <1>3, <2>1, <2>2 DEF Good, LastingRecord, hostVars
<1>4. ASSUME kpc = "idle" PROVE active \in DOMAIN snaps /\ cache = active
  BY <1>0, <1>4 DEF RegistryInv
<1>5. ASSUME NEW m \in Manifests, handle_register(m) PROVE Good
  <2>1. /\ kpc = "idle" /\ UNCHANGED <<snaps, active>> /\ cache' = cache
        /\ kpc' = "idle" /\ answer' = NoAnswer
    BY <1>5 DEF handle_register, register_harness_manifest, Idle
  <2> QED BY <1>0, <1>3, <1>4, <2>1, KeepsRegistry
<1>6. ASSUME NEW m \in Manifests, handle_enable(m) \/ handle_disable(m) PROVE Good
  <2>1. PICK target \in enable_harness(m) \union disable_harness(m) :
            /\ kpc = "idle" /\ changes < MaxChanges /\ active' = active /\ cache' = cache
            /\ create_registry_snapshot(target) /\ Goto("change", NoDecision, target)
    BY <1>6 DEF handle_enable, handle_disable, handle_change
  <2>2. target \in Creating
    <3>1. target \in UNION {enable_harness(i) \cup disable_harness(i) : i \in Manifests}
      BY <2>1
    <3> QED BY <2>1, <3>1 DEF Creating
  <2>3. target \in Snapshots /\ OneApart(target, snaps[active])
    BY <1>0, <2>1, <2>2, CreatingSnapshot
  <2>4. SnapsInv' /\ StoreLasts
    BY <1>0, <2>1, <2>3, CreateKeeps
  <2>5. kpc' = "change" /\ request'.target = target /\ answer' = answer
    BY <2>1 DEF Goto
  <2>6. /\ active \in DOMAIN snaps /\ snaps'[active] = snaps[active] /\ active' \in DOMAIN snaps'
        /\ cache' = active'
    BY <1>4, <2>1, <2>4 DEF StoreLasts
  <2>7. OneApart(request.target, snaps[active])'
    <3>1. OneApart(request'.target, snaps'[active'])
      BY <2>1, <2>3, <2>5, <2>6
    <3> QED BY <3>1 DEF OneApart
  <2>8. RegistryInv'
    BY <2>4, <2>5, <2>6, <2>7 DEF RegistryInv
  <2> QED BY <1>3, <2>1, <2>4, <2>5, <2>8 DEF ActiveMoves
<1>7. CASE ChangeFails
  <2>1. PICK target \in Creating : create_is_interrupted(target)
    BY <1>7 DEF ChangeFails
  <2>2. SnapsInv' /\ StoreLasts
    BY <1>0, <2>1, CreatingSnapshot, InterruptKeeps
  <2>3. kpc = "idle" /\ active' = active /\ cache' = cache /\ kpc' = "idle" /\ answer' = NoAnswer
    BY <1>7 DEF ChangeFails, Idle
  <2>4. active' \in DOMAIN snaps' /\ cache' = active'
    BY <1>4, <2>2, <2>3 DEF StoreLasts
  <2>5. RegistryInv'
    BY <2>2, <2>3, <2>4 DEF RegistryInv
  <2> QED BY <1>3, <2>2, <2>3, <2>5 DEF ActiveMoves
<1>8. CASE activate_registry_snapshot_atomic
  <2>1. /\ kpc = "change" /\ active' = request.target /\ active' \in DOMAIN snaps /\ snaps' = snaps
        /\ kpc' = "cache" /\ answer' = answer /\ request'.decision = NoDecision
        /\ request'.target = request.target
    BY <1>8 DEF activate_registry_snapshot_atomic, activate_snapshot, Goto
  <2>2. OneApart(active', snaps[active])
    BY <1>0, <2>1 DEF RegistryInv
  <2>3. SnapsInv' /\ StoreLasts
    BY <1>0, <2>1 DEF SnapsInv, StoreLasts
  <2> QED BY <1>3, <2>1, <2>2, <2>3, MovesRegistry
<1>9. CASE WriteCache
  <2>1. /\ kpc = "cache" /\ UNCHANGED <<snaps, active>> /\ cache' = request.target /\ kpc' = "idle"
        /\ answer' = IF request.decision = NoDecision THEN NoAnswer
                     ELSE Answer(request.decision, "Approved")
    BY <1>9 DEF WriteCache, set_cache, Idle
  <2>2. active \in DOMAIN snaps /\ request.target = active
    BY <1>0, <2>1 DEF RegistryInv
  <2>3. RegistryInv' /\ StoreLasts /\ ActiveMoves
    BY <1>0, <2>1, <2>2, KeepsRegistry
  <2>4. DecisionInv'
    <3>1. CASE request.decision = NoDecision
      BY <1>0, <1>2, <2>1, <3>1, KeepsDecision
    <3>2. CASE request.decision # NoDecision
      <4>1. PICK d : d = request.decision
        OBVIOUS
      <4>2. Recorded(d, "Approved")'
        BY <1>0, <1>2, <2>1, <3>2, <4>1, RecordedStays DEF DecisionInv
      <4>3. answer'.decision = d /\ answer'.status = "Approved"
        BY <2>1, <3>2, <4>1 DEF Answer
      <4> QED BY <2>1, <4>2, <4>3 DEF DecisionInv
    <3> QED BY <3>1, <3>2
  <2> QED BY <1>0, <1>1, <2>1, <2>3, <2>4, KeepsHost DEF Good, LastingRecord, hostVars
<1> QED BY <1>5, <1>6, <1>7, <1>8, <1>9

\* The administrative proposal: its rows are not a trusted proposal's.
LEMMA AdminRoutesGood ==
    ASSUME CapabilityInv, NEW p \in Proposals,
           \/ handle_submit_proposal(p)
           \/ \E verb \in {"approved", "rejected"} : handle_admin_decision(p, verb)
    PROVE  Good
<1>0. /\ RegistryInv /\ SnapsInv /\ DecisionInv /\ HostInv /\ Shapes /\ RowsInv
      /\ kpc = "idle" /\ p \notin Trusted /\ cache = active /\ active \in DOMAIN snaps
      /\ UNCHANGED <<approval, expired, grants, hostVars, run, served>>
  BY DEF CapabilityInv, RegistryInv, handle_submit_proposal, handle_admin_decision, create_proposal,
     expire_proposal, reject_proposal, activate_proposal, activate_schema_upgrade, ActivateProposal
<1>1. \/ \E x : proposal' = [proposal EXCEPT ![p].status = x]
      \/ \E x, y : proposal' = [proposal EXCEPT ![p].status = x, ![p].source = y]
      \/ \E x, y : proposal' = [proposal EXCEPT ![p].status = x, ![p].snapshot = y]
  <2>1. CASE handle_submit_proposal(p)
    BY <2>1 DEF handle_submit_proposal, create_proposal, insert_proposal
  <2>2. ASSUME NEW verb, handle_admin_decision(p, verb)
        PROVE  \/ \E x : proposal' = [proposal EXCEPT ![p].status = x]
               \/ \E x, y : proposal' = [proposal EXCEPT ![p].status = x, ![p].snapshot = y]
    BY <2>2 DEF handle_admin_decision, expire_proposal, reject_proposal, activate_proposal,
       activate_schema_upgrade, ActivateProposal
  <2> QED BY <2>1, <2>2
<1>2. /\ proposal' = [q \in Proposals |-> proposal'[q]]
      /\ \A q \in Proposals : IsProposal(proposal'[q])
      /\ \A q \in Proposals \ {p} : proposal'[q] = proposal[q]
  BY <1>0, <1>1 DEF Shapes, IsProposal
<1>3. RowsEffect
  BY <1>0, <1>2, ProposalsAsk DEF RowsEffect, RowsKept, Shapes, hostVars
<1>4. Frozen
  BY <1>0, <1>3, EffectFreezes
<1>5. CASE UNCHANGED registryVars /\ Idle(NoAnswer)
  <2>1. UNCHANGED <<snaps, active>> /\ cache' = cache /\ kpc' = "idle" /\ answer' = NoAnswer
    BY <1>5 DEF registryVars, Idle
  <2>2. RegistryInv' /\ StoreLasts /\ ActiveMoves
    BY <1>0, <2>1, KeepsRegistry
  <2> QED BY <1>0, <1>3, <1>4, <2>1, <2>2, KeepsHost, KeepsDecision
          DEF Good, LastingRecord, hostVars
<1>6. ASSUME NEW expected, NEW target \in Snapshots, activate_registry_tx(expected, target),
             OneApart(target, snaps[active]), Goto("cache", NoDecision, active')
      PROVE  Good
  <2>1. kpc' = "cache" /\ answer' = answer /\ request'.decision = NoDecision /\ request'.target = active'
    BY <1>6 DEF Goto
  <2>2. SnapsInv' /\ StoreLasts /\ target \in DOMAIN snaps' /\ active' = target
    BY <1>0, <1>6, ActivateKeeps
  <2>3. RegistryInv' /\ StoreLasts /\ ActiveMoves
    BY <1>6, <2>1, <2>2, MovesRegistry
  <2> QED BY <1>0, <1>3, <1>4, <2>1, <2>3, KeepsHost, KeepsDecision
          DEF Good, LastingRecord, hostVars
<1>7. PICK s : s = snaps[active] /\ s \in Snapshots
  BY <1>0 DEF SnapsInv
<1>8. CASE activate_proposal(p) /\ Goto("cache", NoDecision, active')
  <2>1. PICK target \in proposal_specs(load_registry_snapshot(proposal[p].source), ManifestOf[p]) :
            activate_registry_tx(proposal[p].source, target)
    BY <1>8 DEF activate_proposal
  <2>2. active = proposal[p].source
    BY <2>1 DEF activate_registry_tx
  <2>3. target = inherit_hook_bindings(With(s, ManifestOf[p], "Write"))
    BY <1>7, <2>1, <2>2 DEF proposal_specs, load_registry_snapshot
  <2>4. target \in Snapshots /\ OneApart(target, s)
    BY <1>7, <2>3, SpecsSnapshot, ProposalsAsk
  <2> QED BY <1>6, <1>7, <1>8, <2>1, <2>4
<1>9. CASE activate_schema_upgrade(p) /\ Goto("cache", NoDecision, active')
  <2>0. PICK source : source = load_registry_snapshot(proposal[p].source)
    OBVIOUS
  <2>1. PICK target \in schema_upgrade_specs(source, ManifestOf[p]) :
            activate_registry_tx(active, target)
    BY <1>9, <2>0 DEF activate_schema_upgrade
  <2>2. PICK risk : risk = s.ops[OperationName[ManifestOf[p]]].risk
    OBVIOUS
  <2>3. /\ lookup(s, OperationName[ManifestOf[p]])
        /\ target = inherit_hook_bindings(With(s, ManifestOf[p], risk))
    BY <1>7, <2>1, <2>2 DEF schema_upgrade_specs, load_registry_snapshot
  <2>4. risk \in {"ReadOnly", "Write"}
    BY <1>7, <2>2, <2>3, ProposalsAsk, ManifestsName DEF lookup, Snapshots, Bindings
  <2>5. target \in Snapshots /\ OneApart(target, s)
    BY <1>7, <2>3, <2>4, SpecsSnapshot, ProposalsAsk
  <2> QED BY <1>6, <1>7, <1>9, <2>1, <2>5
<1>10. CASE handle_submit_proposal(p)
  BY <1>5, <1>10 DEF handle_submit_proposal
<1>11. ASSUME NEW verb, handle_admin_decision(p, verb) PROVE Good
  BY <1>5, <1>8, <1>9, <1>11 DEF handle_admin_decision
<1> QED BY <1>10, <1>11

\* One transaction over both rows.
LEMMA PersistRows ==
    ASSUME Shapes, NEW d \in Decisions, NEW status, NEW pstatus, NEW target,
           persist_terminal(d, status, pstatus, target)
    PROVE  /\ approval' = [q \in Proposals |-> approval'[q]] /\ \A q \in Proposals : IsApproval(approval'[q])
           /\ proposal' = [q \in Proposals |-> proposal'[q]] /\ \A q \in Proposals : IsProposal(proposal'[q])
           /\ OthersKeep(d.proposal) /\ approval[d.proposal].status = "Pending"
           /\ approval'[d.proposal].status = status /\ approval'[d.proposal].decision = d
           /\ approval'[d.proposal].snapshot = target /\ proposal'[d.proposal].status = pstatus
<1>1. PICK p : p = d.proposal
  OBVIOUS
<1>2. p \in Proposals
  BY <1>1 DEF Decisions
<1>3. /\ approval[p].status = "Pending"
      /\ approval' = [approval EXCEPT ![p] = [status |-> status, decision |-> d, snapshot |-> target]]
      /\ proposal' = [proposal EXCEPT ![p].status = pstatus, ![p].snapshot = target]
  BY <1>1 DEF persist_terminal
<1>4. /\ approval' = [q \in Proposals |-> approval'[q]] /\ \A q \in Proposals : IsApproval(approval'[q])
      /\ \A q \in Proposals \ {p} : approval'[q] = approval[q]
      /\ approval'[p].status = status /\ approval'[p].decision = d /\ approval'[p].snapshot = target
  BY <1>2, <1>3 DEF Shapes, IsApproval
<1>5. /\ proposal' = [q \in Proposals |-> proposal'[q]] /\ \A q \in Proposals : IsProposal(proposal'[q])
      /\ \A q \in Proposals \ {p} : proposal'[q] = proposal[q]
      /\ proposal'[p].status = pstatus
  <2>1. PICK r : r = [proposal[p] EXCEPT !.status = pstatus, !.snapshot = target]
    OBVIOUS
  <2>2. IsProposal(r) /\ r.status = pstatus
    <3>1. PICK x : x = proposal[p]
      OBVIOUS
    <3>2. IsProposal(x)
      BY <1>2, <3>1 DEF Shapes
    <3>3. r = [x EXCEPT !.status = pstatus, !.snapshot = target]
      BY <2>1, <3>1
    <3> QED BY <3>2, <3>3 DEF IsProposal
  <2>3. proposal' = [proposal EXCEPT ![p] = r]
    BY <1>3, <2>1
  <2> QED BY <1>2, <2>2, <2>3 DEF Shapes
<1> QED BY <1>1, <1>3, <1>4, <1>5 DEF OthersKeep

\* A thread of the host moves.
LEMMA ThreadRows ==
    ASSUME Shapes, UNCHANGED approvalVars, NEW h \in HostThreads, NEW g, IsThread(g),
           thread' = [thread EXCEPT ![h] = g]
    PROVE  /\ RowsEffect
           /\ thread'[h] = g /\ \A k \in HostThreads \ {h} : thread'[k] = thread[k]
<1>1. /\ thread' = [k \in HostThreads |-> thread'[k]] /\ thread'[h] = g
      /\ \A k \in HostThreads \ {h} : thread'[k] = thread[k]
  BY DEF Shapes
<1> QED BY <1>1 DEF Shapes, RowsEffect, RowsKept, approvalVars

\* Nothing is wrong with a decision that passed every test.
LEMMA Flawless ==
    ASSUME NEW d \in Decisions, parse_input(d), decision_identity(d), load_validated_binding(d)
    PROVE  d.flaw = "none"
BY DEF Decisions, Flaws, parse_input, decision_identity, load_validated_binding,
   validate_identity, validate_authoritative_receipt, validate_origin

\* Expiry closes both rows.
LEMMA LapseRows ==
    ASSUME Shapes, NEW p \in Trusted, expire_trusted_approval(p), UNCHANGED thread
    PROVE  Shapes' /\ Lapsed(p)
<1>0. p \in Proposals
  BY ProposalsAsk
<1>1. /\ approval' = [approval EXCEPT ![p].status = "Expired"] /\ approval[p].status = "Pending"
      /\ proposal' = [proposal EXCEPT ![p].status = "Expired"] /\ grants' = grants
  BY DEF expire_trusted_approval
<1>2. /\ approval' = [q \in Proposals |-> approval'[q]] /\ \A q \in Proposals : IsApproval(approval'[q])
      /\ \A q \in Proposals \ {p} : approval'[q] = approval[q]
      /\ approval'[p].status = "Expired"
  BY SMT, <1>0, <1>1 DEF Shapes, IsApproval
<1>3. /\ proposal' = [q \in Proposals |-> proposal'[q]] /\ \A q \in Proposals : IsProposal(proposal'[q])
      /\ \A q \in Proposals \ {p} : proposal'[q] = proposal[q]
      /\ proposal'[p].status = "Expired"
  BY SMT, <1>0, <1>1 DEF Shapes, IsProposal
<1> QED BY <1>1, <1>2, <1>3 DEF Shapes, Lapsed, OthersKeep

\* A decision up to the call to the host.
LEMMA DecisionGood ==
    ASSUME CapabilityInv, NEW d \in Decisions, handle_decision(d)
    PROVE  Good
<1> DEFINE p == d.proposal
<1>0. /\ SnapsInv /\ DecisionInv /\ HostInv /\ Shapes /\ RowsInv
      /\ kpc = "idle" /\ p \in Trusted /\ p \in Proposals /\ cache = active /\ active \in DOMAIN snaps
      /\ parse_input(d) /\ decision_identity(d)
      /\ UNCHANGED <<snaps, active>> /\ cache' = active /\ served' = served
  BY ProposalsAsk DEF CapabilityInv, RegistryInv, handle_decision, registryVars
<1>1. CASE expire_trusted_approval(p) /\ Idle(NoAnswer) /\ UNCHANGED hostVars
  <2>4. Shapes' /\ Lapsed(p)
    BY <1>0, <1>1, LapseRows DEF hostVars
  <2>5. RowsEffect
    BY <2>4 DEF RowsEffect
  <2>6. kpc' = "idle" /\ answer' = NoAnswer
    BY <1>1 DEF Idle
  <2>7. RegistryInv' /\ StoreLasts /\ ActiveMoves
    BY <1>0, <2>6, KeepsRegistry
  <2>8. Frozen
    BY <1>0, <2>5, EffectFreezes
  <2> QED BY <1>0, <1>1, <2>5, <2>6, <2>7, <2>8, KeepsHost, KeepsDecision
          DEF Good, LastingRecord, hostVars
<1>2. CASE /\ load_validated_binding(d) /\ replay_result(d)
           /\ Idle(Answer(d, approval[p].status)) /\ UNCHANGED <<approvalVars, hostVars>>
  <2>1. RowsEffect
    BY <1>0, <1>2, KeepsRows DEF hostVars
  <2>2. PICK status : status = approval[p].status
    OBVIOUS
  <2>3. Recorded(d, status)
    <3>1. d.flaw = "none"
      BY <1>0, <1>2, Flawless
    <3>2. approval[p].decision = d /\ status \in Terminal
      BY <1>2, <2>2 DEF replay_result, Terminal
    <3> QED BY <1>0, <2>2, <3>1, <3>2 DEF Recorded
  <2>4. Recorded(d, status)'
    BY <1>0, <2>1, <2>3, EffectFreezes, RecordedStays
  <2>5. kpc' = "idle" /\ answer'.decision = d /\ answer'.status = status
    BY <1>2, <2>2 DEF Idle, Answer
  <2>6. DecisionInv'
    BY <2>4, <2>5 DEF DecisionInv
  <2>7. RegistryInv' /\ StoreLasts /\ ActiveMoves
    BY <1>0, <2>5, KeepsRegistry
  <2> QED BY <1>0, <1>2, <2>1, <2>5, <2>6, <2>7, KeepsHost DEF Good, LastingRecord, hostVars
<1>3. CASE reject_trusted_capability(d) /\ Idle(Answer(d, "Rejected")) /\ UNCHANGED hostVars
  <2>1. /\ load_validated_binding(d) /\ persist_terminal(d, "Rejected", "Rejected", NoSnapshot)
        /\ grants' = grants
    BY <1>3 DEF reject_trusted_capability, finish_without_activation
  <2>2. d.flaw = "none"
    BY <1>0, <2>1, Flawless
  <2>3. Shapes' /\ Decided(d, "Rejected", NoSnapshot)
    <3>1. /\ approval' = [q \in Proposals |-> approval'[q]] /\ \A q \in Proposals : IsApproval(approval'[q])
          /\ proposal' = [q \in Proposals |-> proposal'[q]] /\ \A q \in Proposals : IsProposal(proposal'[q])
          /\ OthersKeep(d.proposal) /\ approval[d.proposal].status = "Pending"
          /\ approval'[d.proposal].status = "Rejected" /\ approval'[d.proposal].decision = d
          /\ approval'[d.proposal].snapshot = NoSnapshot
          /\ proposal'[d.proposal].status = "Rejected"
      BY SMT, <1>0, <2>1, PersistRows
    <3>2. Shapes'
      BY <1>0, <1>3, <3>1 DEF Shapes, hostVars
    <3>3. Decided(d, "Rejected", NoSnapshot)
      BY <1>0, <2>1, <2>2, <3>1 DEF Decided
    <3> QED BY <3>2, <3>3
  <2>4. RowsEffect
    BY <2>3 DEF RowsEffect
  <2>5. kpc' = "idle" /\ answer'.decision = d /\ answer'.status = "Rejected"
    BY <1>3 DEF Idle, Answer
  <2>6. Recorded(d, "Rejected")'
    BY <2>3 DEF Decided, Recorded, Terminal
  <2>7. DecisionInv'
    BY <2>5, <2>6 DEF DecisionInv
  <2>8. RegistryInv' /\ StoreLasts /\ ActiveMoves
    BY <1>0, <2>5, KeepsRegistry
  <2> QED BY <1>0, <1>3, <2>4, <2>5, <2>7, <2>8, KeepsHost DEF Good, LastingRecord, hostVars
<1>4. ASSUME NEW target \in prospective_snapshot(p), NEW h \in HostThreads,
             load_validated_binding(d), Accept(h, DeployRequest(d, target)),
             kpc' = "deploying", waiting' = h, answer' = NoAnswer,
             request' = [decision |-> d, target |-> target], UNCHANGED approvalVars
      PROVE  Good
  <2>1. target \in Snapshots
    <3>0. PICK s : s = snaps[active] /\ s \in Snapshots
      BY <1>0 DEF SnapsInv
    <3>1. target \in capability_specs(s, ManifestOf[p])
      BY <1>4, <3>0 DEF prospective_snapshot, validate_pending, load_registry_snapshot
    <3>2. target = inherit_hook_bindings(With(s, ManifestOf[p], "ReadOnly"))
      BY <3>1 DEF capability_specs
    <3> QED BY <1>0, <3>0, <3>2, SpecsSnapshot, ProposalsAsk
  <2>2. PICK r : r = DeployRequest(d, target)
    OBVIOUS
  <2>3. r # NoRecord
    BY <2>1, <2>2, NoRecordIsNone
  <2>4. PICK g : g = [pc |-> "received", request |-> r, answer |-> "none"]
    OBVIOUS
  <2>5. /\ thread' = [thread EXCEPT ![h] = g] /\ record' = record
        /\ IsThread(g) /\ g.pc = "received" /\ g.request = r
    BY <1>4, <2>2, <2>4 DEF Accept, IsThread
  <2>6. /\ RowsEffect
        /\ thread'[h] = g /\ \A k \in HostThreads \ {h} : thread'[k] = thread[k]
    BY <1>0, <1>4, <2>5, ThreadRows
  <2>7. HostInv'
    BY <1>0, <1>4, <2>3, <2>5, <2>6 DEF HostInv
  <2>8. d.flaw = "none"
    BY <1>0, <1>4, Flawless
  <2>9. DecisionInv'
    BY <1>0, <1>4, <2>8 DEF DecisionInv
  <2>10. RegistryInv' /\ StoreLasts /\ ActiveMoves
    BY <1>0, <1>4, KeepsRegistry
  <2> QED BY <1>0, <2>5, <2>6, <2>7, <2>9, <2>10 DEF Good, LastingRecord
<1> QED BY <1>1, <1>2, <1>3, <1>4 DEF handle_decision

\* The host's answer, the giving up on it, and what follows.
LEMMA DeploymentGood ==
    ASSUME CapabilityInv, handle_deployment \/ DeployUncertain
    PROVE  Good
<1>0. /\ SnapsInv /\ DecisionInv /\ HostInv /\ Shapes /\ RowsInv
      /\ kpc = "deploying" /\ waiting \in HostThreads /\ active \in DOMAIN snaps
      /\ request.decision \in Decisions /\ request.decision.flaw = "none"
      /\ request.decision.proposal \in Trusted
      /\ UNCHANGED <<snaps, active>> /\ cache' = active /\ served' = served
      /\ UNCHANGED approvalVars
  BY DEF CapabilityInv, RegistryInv, DecisionInv, HostInv, handle_deployment, DeployUncertain,
     registryVars
<1>1. CASE DeployUncertain
  <2>1. UNCHANGED hostVars /\ kpc' = "idle" /\ answer' = NoAnswer
    BY <1>1 DEF DeployUncertain, Idle
  <2>2. RowsEffect
    BY <1>0, <2>1, KeepsRows DEF hostVars
  <2>3. Frozen
    BY <1>0, <2>2, EffectFreezes
  <2>4. RegistryInv' /\ StoreLasts /\ ActiveMoves
    BY <1>0, <2>1, KeepsRegistry
  <2> QED BY <1>0, <2>1, <2>2, <2>3, <2>4, KeepsHost, KeepsDecision
          DEF Good, LastingRecord, hostVars
<1>2. CASE handle_deployment
  <2>1. PICK h : h = waiting
    OBVIOUS
  <2>2. /\ h \in HostThreads /\ thread[h].pc = "answered" /\ record' = record
        /\ thread' = [thread EXCEPT ![h] = FreeThread]
    BY <1>0, <1>2, <2>1 DEF handle_deployment, Hangup
  <2>3. IsThread(FreeThread) /\ FreeThread.pc = "free"
    BY DEF IsThread, FreeThread
  <2>4. /\ RowsEffect
        /\ thread'[h] = FreeThread /\ \A k \in HostThreads \ {h} : thread'[k] = thread[k]
    BY <1>0, <2>2, <2>3, ThreadRows
  <2>5. Frozen
    BY <1>0, <2>4, EffectFreezes
  <2>6. \A k \in HostThreads :
           /\ thread'[k].pc # "free" => thread'[k].request # NoRecord
           /\ thread'[k].pc = "answered" /\ thread'[k].answer = "ok" => record' = thread'[k].request
    BY <1>0, <2>2, <2>3, <2>4 DEF HostInv
  <2>7. CASE /\ deploy(thread[h].answer) = "deployed" /\ deployment_matches(h)
             /\ Goto("activating", request.decision, request.target)
    <3>1. thread[h].answer = "ok"
      BY <2>7 DEF deploy
    <3>2. record = thread[h].request /\ thread[h].request # NoRecord
      BY <1>0, <2>2, <3>1 DEF HostInv
    <3>3. /\ kpc' = "activating" /\ request'.decision = request.decision
          /\ request'.target = request.target /\ answer' = answer
      BY <2>7 DEF Goto
    <3>4. HostInv'
      <4>1. record' # NoRecord /\ record' = DeployRequest(request'.decision, request'.target)
        BY <2>2, <2>7, <3>2, <3>3 DEF deployment_matches
      <4> QED BY <2>6, <3>3, <4>1 DEF HostInv, DeployRequest
    <3>5. (answer # NoAnswer => Recorded(answer.decision, answer.status))'
      BY <1>0, <2>5, <3>3, AnswerStays
    <3>6. DecisionInv'
      BY <1>0, <3>3, <3>5 DEF DecisionInv
    <3>7. RegistryInv' /\ StoreLasts /\ ActiveMoves
      BY <1>0, <3>3, KeepsRegistry
    <3> QED BY <1>0, <2>2, <2>4, <3>4, <3>6, <3>7 DEF Good, LastingRecord
  <2>8. CASE Goto("failing", request.decision, NoSnapshot)
    <3>1. kpc' = "failing" /\ request'.decision = request.decision /\ answer' = answer
      BY <2>8 DEF Goto
    <3>2. HostInv'
      BY <2>6, <3>1 DEF HostInv
    <3>3. (answer # NoAnswer => Recorded(answer.decision, answer.status))'
      BY <1>0, <2>5, <3>1, AnswerStays
    <3>4. DecisionInv'
      BY <1>0, <3>1, <3>3 DEF DecisionInv
    <3>5. RegistryInv' /\ StoreLasts /\ ActiveMoves
      BY <1>0, <3>1, KeepsRegistry
    <3> QED BY <1>0, <2>2, <2>4, <3>2, <3>4, <3>5 DEF Good, LastingRecord
  <2>9. CASE Idle(NoAnswer)
    <3>1. kpc' = "idle" /\ answer' = NoAnswer
      BY <2>9 DEF Idle
    <3>2. HostInv'
      BY <2>6, <3>1 DEF HostInv
    <3>3. RegistryInv' /\ StoreLasts /\ ActiveMoves
      BY <1>0, <3>1, KeepsRegistry
    <3> QED BY <1>0, <2>2, <2>4, <2>5, <3>1, <3>2, <3>3, KeepsDecision DEF Good, LastingRecord
  <2> QED BY <1>2, <2>1, <2>7, <2>8, <2>9 DEF handle_deployment
<1> QED BY <1>1, <1>2

\* The last step of a decision: the rows are closed, or stay pending.
LEMMA ConclusionGood ==
    ASSUME CapabilityInv, activation_failed \/ ActivateTrusted
    PROVE  Good
<1>1. PICK d : d = request.decision
  OBVIOUS
<1>0. /\ SnapsInv /\ DecisionInv /\ HostInv /\ Shapes /\ RowsInv
      /\ kpc \in {"failing", "activating"} /\ cache = active /\ active \in DOMAIN snaps
      /\ d \in Decisions /\ d.flaw = "none" /\ d.proposal \in Trusted /\ d.proposal \in Proposals
      /\ served' = served /\ UNCHANGED hostVars
  BY <1>1, ProposalsAsk DEF CapabilityInv, RegistryInv, DecisionInv, activation_failed,
     ActivateTrusted
<1>2. CASE UNCHANGED <<registryVars, approvalVars>> /\ Idle(NoAnswer)
  <2>1. UNCHANGED <<snaps, active>> /\ cache' = cache /\ kpc' = "idle" /\ answer' = NoAnswer
    BY <1>2 DEF Idle, registryVars
  <2>2. RowsEffect
    BY <1>0, <1>2, KeepsRows DEF hostVars
  <2>3. Frozen
    BY <1>0, <2>2, EffectFreezes
  <2>4. RegistryInv' /\ StoreLasts /\ ActiveMoves
    BY <1>0, <2>1, KeepsRegistry
  <2> QED BY <1>0, <2>1, <2>2, <2>3, <2>4, KeepsHost, KeepsDecision
          DEF Good, LastingRecord, hostVars
<1>3. CASE fail_trusted_activation(d) /\ Idle(Answer(d, "ActivationFailed")) /\ UNCHANGED registryVars
  <2>1. /\ persist_terminal(d, "ActivationFailed", "ActivationFailed", NoSnapshot)
        /\ grants' = grants
    BY <1>3 DEF fail_trusted_activation, finish_without_activation
  <2>2. Shapes' /\ Decided(d, "ActivationFailed", NoSnapshot)
    <3>1. /\ approval' = [q \in Proposals |-> approval'[q]] /\ \A q \in Proposals : IsApproval(approval'[q])
          /\ proposal' = [q \in Proposals |-> proposal'[q]] /\ \A q \in Proposals : IsProposal(proposal'[q])
          /\ OthersKeep(d.proposal) /\ approval[d.proposal].status = "Pending"
          /\ approval'[d.proposal].status = "ActivationFailed" /\ approval'[d.proposal].decision = d
          /\ approval'[d.proposal].snapshot = NoSnapshot
          /\ proposal'[d.proposal].status = "ActivationFailed"
      BY SMT, <1>0, <2>1, PersistRows
    <3>2. Shapes'
      BY <1>0, <3>1 DEF Shapes, hostVars
    <3>3. Decided(d, "ActivationFailed", NoSnapshot)
      BY <1>0, <2>1, <3>1 DEF Decided
    <3> QED BY <3>2, <3>3
  <2>3. RowsEffect
    BY <2>2 DEF RowsEffect
  <2>4. kpc' = "idle" /\ answer'.decision = d /\ answer'.status = "ActivationFailed"
        /\ UNCHANGED <<snaps, active>> /\ cache' = cache
    BY <1>3 DEF Idle, Answer, registryVars
  <2>5. Recorded(d, "ActivationFailed")'
    BY <2>2 DEF Decided, Recorded, Terminal
  <2>6. DecisionInv'
    BY <2>4, <2>5 DEF DecisionInv
  <2>7. RegistryInv' /\ StoreLasts /\ ActiveMoves
    BY <1>0, <2>4, KeepsRegistry
  <2> QED BY <1>0, <2>3, <2>4, <2>6, <2>7, KeepsHost DEF Good, LastingRecord, hostVars
<1>4. CASE /\ kpc = "activating" /\ activate_trusted_capability(d, request.target)
           /\ Goto("cache", d, request.target)
  <2>1. PICK target : target = request.target
    OBVIOUS
  <2>2. /\ target \in capability_specs(load_registry_snapshot(proposal[d.proposal].source),
                                       ManifestOf[d.proposal])
        /\ activate_registry_tx(proposal[d.proposal].source, target)
        /\ grants' = grants \union {[op |-> OperationName[ManifestOf[d.proposal]], snapshot |-> target]}
        /\ persist_terminal(d, "Approved", "Activated", target)
    BY <1>4, <2>1 DEF activate_trusted_capability, create_external_operation_grant_tx
  <2>3. active = proposal[d.proposal].source
    BY <2>2 DEF activate_registry_tx
  <2>4. PICK s : s = snaps[active] /\ s \in Snapshots
    BY <1>0 DEF SnapsInv
  <2>5. target \in Snapshots /\ OneApart(target, s)
    <3>1. target = inherit_hook_bindings(With(s, ManifestOf[d.proposal], "ReadOnly"))
      BY <2>2, <2>3, <2>4 DEF capability_specs, load_registry_snapshot
    <3> QED BY <1>0, <2>4, <3>1, SpecsSnapshot, ProposalsAsk
  <2>14. SnapsInv' /\ StoreLasts /\ target \in DOMAIN snaps' /\ snaps'[target] = target /\ active' = target
    BY <1>0, <2>2, <2>5, ActivateKeeps
  <2>6. record' = record /\ record # NoRecord /\ record = DeployRequest(d, target)
    BY <1>0, <1>1, <1>4, <2>1 DEF HostInv, hostVars
  <2>7. Shapes' /\ Decided(d, "Approved", target)
    <3>1. /\ approval' = [q \in Proposals |-> approval'[q]] /\ \A q \in Proposals : IsApproval(approval'[q])
          /\ proposal' = [q \in Proposals |-> proposal'[q]] /\ \A q \in Proposals : IsProposal(proposal'[q])
          /\ OthersKeep(d.proposal) /\ approval[d.proposal].status = "Pending"
          /\ approval'[d.proposal].status = "Approved" /\ approval'[d.proposal].decision = d
          /\ approval'[d.proposal].snapshot = target
          /\ proposal'[d.proposal].status = "Activated"
      BY <1>0, <2>2, PersistRows
    <3>2. Shapes'
      BY <1>0, <3>1 DEF Shapes, hostVars
    <3>3. Decided(d, "Approved", target)
      BY <1>0, <2>2, <2>6, <2>14, <3>1 DEF Decided
    <3> QED BY <3>2, <3>3
  <2>8. RowsEffect
    BY <2>7 DEF RowsEffect
  <2>9. kpc' = "cache" /\ request'.decision = d /\ answer' = answer /\ request'.target = target
    BY <1>4, <2>1 DEF Goto
  <2>10. Recorded(d, "Approved")'
    BY <2>7 DEF Decided, Recorded, Terminal
  <2>11. (answer # NoAnswer => Recorded(answer.decision, answer.status))'
    BY <1>0, <2>8, <2>9, EffectFreezes, AnswerStays
  <2>12. DecisionInv'
    BY <2>9, <2>10, <2>11 DEF DecisionInv
  <2>13. RegistryInv' /\ StoreLasts /\ ActiveMoves
    BY <2>4, <2>5, <2>9, <2>14, MovesRegistry
  <2> QED BY <1>0, <2>6, <2>8, <2>9, <2>12, <2>13, KeepsHost
          DEF Good, LastingRecord
<1> QED BY <1>1, <1>2, <1>3, <1>4 DEF activation_failed, ActivateTrusted

\* A Run asks for a capability, and time passes.
LEMMA RequestsGood ==
    ASSUME CapabilityInv, NEW p \in Proposals, RequestCapability(p) \/ Expire(p)
    PROVE  Good
<1>0. /\ RegistryInv /\ DecisionInv /\ HostInv /\ Shapes /\ RowsInv
      /\ UNCHANGED <<registryVars, hostVars, serverVars, served>>
  BY DEF CapabilityInv, RequestCapability, Expire
<1>1. RegistryInv' /\ LastingRecord /\ ActiveMoves /\ HostInv'
  BY <1>0, KeepsHost, IgnoresRegistry DEF hostVars, LastingRecord
<1>2. RowsEffect
  <2>1. CASE Expire(p)
    BY <1>0, <2>1 DEF Expire, PassExpiry, Shapes, RowsEffect, RowsKept, hostVars
  <2>2. CASE RequestCapability(p)
    <3>1. /\ p \in Trusted /\ proposal[p] = NoProposal /\ grants' = grants
          /\ approval' = [approval EXCEPT ![p].status = "Pending"]
          /\ proposal' = [proposal EXCEPT ![p].status = "PendingApproval", ![p].source = run]
      BY <2>2 DEF RequestCapability, create_proposal_with_receipt, insert_proposal
    <3>2. /\ approval' = [q \in Proposals |-> approval'[q]]
          /\ \A q \in Proposals : IsApproval(approval'[q])
          /\ \A q \in Proposals \ {p} : approval'[q] = approval[q]
          /\ approval'[p].status = "Pending"
      BY SMT, <1>0, <3>1 DEF Shapes, IsApproval
    <3>3. /\ proposal' = [q \in Proposals |-> proposal'[q]]
          /\ \A q \in Proposals : IsProposal(proposal'[q])
          /\ \A q \in Proposals \ {p} : proposal'[q] = proposal[q]
          /\ proposal'[p].status = "PendingApproval"
      <4>1. PICK r : r = [proposal[p] EXCEPT !.status = "PendingApproval", !.source = run]
        OBVIOUS
      <4>2. IsProposal(r) /\ r.status = "PendingApproval"
        <5>1. PICK x : x = proposal[p]
          OBVIOUS
        <5>2. IsProposal(x)
          BY <1>0, <5>1 DEF Shapes
        <5>3. r = [x EXCEPT !.status = "PendingApproval", !.source = run]
          BY <4>1, <5>1
        <5> QED BY <5>2, <5>3 DEF IsProposal
      <4>3. proposal' = [proposal EXCEPT ![p] = r]
        BY <3>1, <4>1
      <4> QED BY <1>0, <4>2, <4>3 DEF Shapes
    <3>4. proposal[p].status = "None"
      BY SMT, <3>1 DEF NoProposal
    <3>5. Asked(p) /\ Shapes'
      BY <1>0, <3>1, <3>2, <3>3, <3>4 DEF Asked, OthersKeep, Shapes, hostVars
    <3> QED BY <3>5 DEF RowsEffect
  <2> QED BY <2>1, <2>2
<1>3. Frozen
  BY <1>0, <1>2, EffectFreezes
<1> QED BY <1>0, <1>1, <1>2, <1>3, KeepsDecision DEF Good

\* A Run is pinned, and the host executes for it.
LEMMA RunGood ==
    ASSUME CapabilityInv, create_run \/ \E op \in Ops : dispatch_builtin_binding(op)
    PROVE  Good
<1>0. /\ RegistryInv /\ DecisionInv /\ HostInv /\ Shapes /\ RowsInv /\ ApprovalInv
      /\ UNCHANGED <<registryVars, approvalVars, hostVars, serverVars>>
  BY DEF CapabilityInv, create_run, dispatch_builtin_binding
<1>1. RegistryInv' /\ LastingRecord /\ ActiveMoves /\ HostInv'
  BY <1>0, KeepsHost, IgnoresRegistry DEF hostVars, LastingRecord
<1>2. RowsEffect
  BY <1>0, KeepsRows DEF hostVars
<1>3. Frozen
  BY <1>0, <1>2, EffectFreezes
<1>4. \A e \in served' \ served : Served(e)'
  <2>1. CASE create_run
    BY <2>1 DEF create_run
  <2>2. ASSUME NEW op \in Ops, dispatch_builtin_binding(op), NEW e \in served' \ served
        PROVE  Served(e)'
    <3>1. /\ e = [record |-> record, snapshot |-> run] /\ [op |-> op, snapshot |-> run] \in grants
      BY <2>2 DEF dispatch_builtin_binding
    <3>2. PICK p \in Trusted : approval[p].status = "Approved" /\ approval[p].snapshot = run
      BY <1>0, <3>1 DEF ApprovalInv
    <3>3. WholeApproval(p)
      BY <1>0, <3>2 DEF ApprovalInv
    <3>4. record.decision = approval[p].decision /\ record.decision.proposal = p
      BY <3>3 DEF WholeApproval, DeployRequest
    <3>5. e.record.decision = approval[p].decision /\ e.record.decision.proposal = p /\ e.snapshot = run
      BY <3>1, <3>4
    <3>6. Served(e)
      BY <3>2, <3>5 DEF Served
    <3> QED BY <1>0, <3>6 DEF Served, approvalVars
  <2> QED BY <2>1, <2>2
<1> QED BY <1>0, <1>1, <1>2, <1>3, <1>4, KeepsDecision DEF Good

\* Either process stops, and a thread of the host works.
LEMMA FaultsGood ==
    ASSUME CapabilityInv, KernelCrash \/ HostStops \/ HostStep
    PROVE  Good
<1>0. /\ RegistryInv /\ DecisionInv /\ HostInv /\ Shapes /\ RowsInv
      /\ UNCHANGED <<approvalVars, served>>
  BY DEF CapabilityInv, KernelCrash, HostStops, HostStep
<1>1. CASE KernelCrash
  <2>1. kpc' = "boot" /\ answer' = NoAnswer /\ active' = active /\ UNCHANGED hostVars
    BY <1>1 DEF KernelCrash
  <2>5. SnapsInv' /\ StoreLasts
    <3>1. CASE UNCHANGED snaps
      BY <1>0, <3>1 DEF RegistryInv, SnapsInv, StoreLasts
    <3>2. ASSUME NEW target \in Creating, create_is_interrupted(target)
          PROVE  SnapsInv' /\ StoreLasts
      <4>1. SnapsInv /\ target \in Snapshots
        BY <1>0, CreatingSnapshot DEF RegistryInv
      <4> QED BY <3>2, <4>1, InterruptKeeps
    <3> QED BY <1>1, <3>1, <3>2 DEF KernelCrash
  <2>2. RegistryInv' /\ ActiveMoves
    <3>1. active' \in DOMAIN snaps' \union {NoSnapshot}
      BY <1>0, <2>1, <2>5 DEF RegistryInv, StoreLasts
    <3> QED BY <2>1, <2>5, <3>1 DEF RegistryInv, ActiveMoves
  <2>3. RowsEffect
    BY <1>0, <2>1, KeepsRows DEF hostVars
  <2>4. Frozen
    BY <1>0, <2>3, EffectFreezes
  <2> QED BY <1>0, <2>1, <2>2, <2>3, <2>4, <2>5, KeepsHost, KeepsDecision
          DEF Good, LastingRecord, hostVars
<1>2. ASSUME RowsEffect, UNCHANGED <<registryVars, serverVars>>, record # NoRecord => record' = record,
             \A h \in HostThreads :
               /\ thread'[h].pc # "free" => thread'[h].request # NoRecord
               /\ thread'[h].pc = "answered" /\ thread'[h].answer = "ok" => record' = thread'[h].request
      PROVE  Good
  <2>1. RegistryInv' /\ StoreLasts /\ ActiveMoves
    BY <1>0, <1>2, IgnoresRegistry
  <2>2. HostInv'
    BY <1>0, <1>2 DEF HostInv, serverVars, DeployRequest
  <2>3. Frozen
    BY <1>0, <1>2, EffectFreezes
  <2> QED BY <1>0, <1>2, <2>1, <2>2, <2>3, KeepsDecision DEF Good, LastingRecord
<1>3. IsThread(FreeThread) /\ FreeThread.pc = "free"
  BY DEF IsThread, FreeThread
<1>4. CASE HostStops
  <2>1. /\ thread' = [h \in HostThreads |-> FreeThread] /\ record' = record
        /\ UNCHANGED <<registryVars, serverVars>>
    BY <1>4 DEF HostStops, HostCrash
  <2>2. \A h \in HostThreads : thread'[h] = FreeThread
    BY <2>1
  <2>3. RowsEffect
    BY <1>0, <1>3, <2>1, <2>2 DEF Shapes, RowsEffect, RowsKept, approvalVars
  <2> QED BY <1>2, <1>3, <2>1, <2>2, <2>3
<1>5. ASSUME NEW h \in HostThreads, NEW g, IsThread(g), thread' = [thread EXCEPT ![h] = g],
             g.pc # "free" => g.request # NoRecord,
             g.pc = "answered" /\ g.answer = "ok" => record' = g.request,
             record # NoRecord => record' = record,
             UNCHANGED <<registryVars, serverVars>>
      PROVE  Good
  <2>1. /\ RowsEffect
        /\ thread'[h] = g /\ \A k \in HostThreads \ {h} : thread'[k] = thread[k]
    BY <1>0, <1>5, ThreadRows
  <2>2. ASSUME NEW k \in HostThreads
        PROVE  /\ thread'[k].pc # "free" => thread'[k].request # NoRecord
               /\ thread'[k].pc = "answered" /\ thread'[k].answer = "ok" => record' = thread'[k].request
    <3>1. CASE k = h
      BY <1>5, <2>1, <3>1
    <3>2. CASE k # h
      BY <1>0, <1>5, <2>1, <3>2 DEF HostInv
    <3> QED BY <3>1, <3>2
  <2> QED BY <1>2, <1>5, <2>1, <2>2
<1>6. CASE HostStep
  <2>1. PICK h \in HostThreads : prepare(h) \/ Hangup(h)
    BY <1>6 DEF HostStep
  <2>2. UNCHANGED <<registryVars, serverVars>>
    BY <1>6 DEF HostStep
  <2>3. CASE Hangup(h)
    BY <1>3, <1>5, <2>1, <2>2, <2>3 DEF Hangup
  <2>4. CASE prepare(h)
    <3>1. thread[h].pc = "received" /\ thread[h].request # NoRecord
      BY <1>0, <2>1, <2>4 DEF prepare, HostInv
    <3>2. PICK ans : /\ thread' = [thread EXCEPT ![h].pc = "answered", ![h].answer = ans]
                     /\ \/ record # NoRecord /\ record' = record
                           /\ (ans = "ok" => record = thread[h].request)
                        \/ record = NoRecord /\ record' = thread[h].request
                        \/ record = NoRecord /\ record' = record /\ ans # "ok"
      BY SMT, <2>4 DEF prepare, Reply, matches_request, persist
    <3>3. PICK g : g = [thread[h] EXCEPT !.pc = "answered", !.answer = ans]
      OBVIOUS
    <3>4. IsThread(g) /\ g.pc = "answered" /\ g.answer = ans /\ g.request = thread[h].request
      <4>1. PICK x : x = thread[h]
        OBVIOUS
      <4>2. IsThread(x)
        BY <1>0, <2>1, <4>1 DEF Shapes
      <4>3. g = [x EXCEPT !.pc = "answered", !.answer = ans]
        BY <3>3, <4>1
      <4>4. IsThread(g) /\ g.pc = "answered" /\ g.answer = ans /\ g.request = x.request
        BY <4>2, <4>3 DEF IsThread
      <4> QED BY <4>1, <4>4
    <3>5. thread' = [thread EXCEPT ![h] = g]
      BY <3>2, <3>3
    <3> QED BY <1>5, <2>2, <3>1, <3>2, <3>4, <3>5
  <2> QED BY <2>1, <2>3, <2>4
<1> QED BY <1>1, <1>4, <1>6

-----------------------------------------------------------------------------
(* The theorems. *)

\* Every step is good, and the invariant is inductive.
LEMMA CapabilityStep ==
    ASSUME CapabilityInv, [Next]_vars
    PROVE  CapabilityInv' /\ ActiveMoves /\ Frozen
<1>1. CASE Good
  <2>1. RowsInv' /\ ApprovalInv' /\ Frozen
    BY <1>1, RowsInvStep, ApprovalInvStep, EffectFreezes DEF CapabilityInv, Good
  <2> QED BY <1>1, <2>1 DEF CapabilityInv, Good, RowsEffect
<1>2. CASE UNCHANGED vars
  <2>1. UNCHANGED <<registryVars, approvalVars, hostVars, serverVars, served>>
    BY <1>2 DEF vars
  <2>2. RowsEffect /\ HostInv'
    BY <2>1, KeepsRows, KeepsHost DEF CapabilityInv, hostVars
  <2>3. Frozen
    BY <2>2, EffectFreezes DEF CapabilityInv
  <2>4. RegistryInv' /\ StoreLasts /\ ActiveMoves
    BY <2>1, IgnoresRegistry DEF CapabilityInv
  <2>5. DecisionInv'
    BY <2>1, <2>3, KeepsDecision DEF CapabilityInv
  <2>6. Good
    BY <2>1, <2>2, <2>4, <2>5 DEF Good, LastingRecord, hostVars
  <2> QED BY <1>1, <2>6
<1>3. CASE Next
  <2>1. CASE initialize_registry \/ init_registry_state \/ ActivateUpgrade
    BY <1>1, <2>1, BootGood
  <2>2. CASE handle_connection
    BY <1>1, <2>2, HarnessRoutesGood, AdminRoutesGood, DecisionGood, DeploymentGood, ConclusionGood
       DEF handle_connection, try_handle_capability_request
  <2>3. CASE create_run \/ \E op \in Ops : dispatch_builtin_binding(op)
    BY <1>1, <2>3, RunGood
  <2>4. CASE \E p \in Proposals : RequestCapability(p) \/ Expire(p)
    BY <1>1, <2>4, RequestsGood
  <2>5. CASE KernelCrash \/ HostStops \/ HostStep
    BY <1>1, <2>5, FaultsGood
  <2> QED BY <1>3, <2>1, <2>2, <2>3, <2>4, <2>5 DEF Next
<1> QED BY <1>2, <1>3

\* It holds at first.
LEMMA CapabilityInit ==
    ASSUME Init
    PROVE  CapabilityInv
<1>0. /\ approval = [p \in Proposals |-> NoApproval] /\ proposal = [p \in Proposals |-> NoProposal]
      /\ thread = [h \in HostThreads |-> FreeThread] /\ grants = {} /\ served = {}
      /\ kpc = "boot" /\ answer = NoAnswer
  BY DEF Init, ApprovalInit, HostInit
<1>1. /\ IsApproval(NoApproval) /\ NoApproval.status = "None"
      /\ IsProposal(NoProposal) /\ NoProposal.status = "None"
      /\ IsThread(FreeThread) /\ FreeThread.pc = "free"
  BY DEF NoApproval, NoProposal, FreeThread, IsApproval, IsProposal, IsThread
<1>2. Shapes
  BY <1>0, <1>1 DEF Shapes
<1>3. RegistryInv
  <2>1. /\ active \in LegacySnapshots \union {NoSnapshot}
        /\ snaps = [s \in {active} \ {NoSnapshot} |-> s]
    BY DEF Init, RegistryInit
  <2>2. DOMAIN snaps = {active} \ {NoSnapshot} /\ \A s \in DOMAIN snaps : snaps[s] = s
    BY <2>1
  <2>3. DOMAIN snaps \subseteq Snapshots
    BY <2>1, <2>2, LegacySnapshotsAre
  <2>4. SnapsInv
    BY <2>2, <2>3 DEF SnapsInv, PartOf
  <2> QED BY <1>0, <2>2, <2>4 DEF RegistryInv
<1>4. \A p \in Trusted : approval[p].status = "None" /\ proposal[p].status = "None"
  BY <1>0, <1>1, ProposalsAsk
<1>5. RowsInv
  BY <1>4 DEF RowsInv, Terminal
<1>6. DecisionInv
  BY <1>0 DEF DecisionInv
<1>7. HostInv
  BY <1>0, <1>1 DEF HostInv
<1>8. ApprovalInv
  BY <1>0, <1>4 DEF ApprovalInv
<1> QED BY <1>2, <1>3, <1>5, <1>6, <1>7, <1>8 DEF CapabilityInv

\* The invariant holds in every reachable state.
LEMMA CapabilityAlways == Spec => []CapabilityInv
BY CapabilityInit, CapabilityStep, PTL DEF Spec

(* Between requests the snapshot in memory, which new Runs are pinned to, *)
(* is the one in registry_state. *)
THEOREM CacheIsCoherent == Spec => []CacheCoherent
<1>1. CapabilityInv => CacheCoherent
  BY DEF CapabilityInv, RegistryInv, CacheCoherent
<1> QED BY <1>1, CapabilityAlways, PTL

(* What a client is told of a decision is what is recorded for that very *)
(* decision, repeated, raced or after a restart. *)
THEOREM AnswersAreRecorded == Spec => []AnswerIsRecorded
<1>1. CapabilityInv => AnswerIsRecorded
  BY DEF CapabilityInv, DecisionInv, AnswerIsRecorded, Recorded
<1> QED BY <1>1, CapabilityAlways, PTL

(* An approved capability is deployed for that decision, activated and *)
(* granted: all of it or none. *)
THEOREM ApprovalsAreWhole == Spec => []ApprovedIsWhole
<1>1. CapabilityInv => ApprovedIsWhole
  BY DEF CapabilityInv, ApprovalInv, ApprovedIsWhole, WholeApproval, Whole, load_registry_snapshot
<1> QED BY <1>1, CapabilityAlways, PTL

(* The host executes only for a Run on the snapshot the owner approved. *)
THEOREM OnlyApprovedIsServed == Spec => []ServedIsApproved
<1>1. CapabilityInv => ServedIsApproved
  BY DEF CapabilityInv, ApprovalInv, ServedIsApproved
<1> QED BY <1>1, CapabilityAlways, PTL

(* No step changes more than one of the operations that are served, except *)
(* that a snapshot left incomplete may lack others; it brings none. *)
THEOREM OneOperationPerStep == Spec => OneOperationAtATime
<1>1. CapabilityInv /\ [Next]_vars => [OneOperationChanges]_active
  <2> SUFFICES ASSUME CapabilityInv, [Next]_vars, active' # active, active # NoSnapshot
               PROVE  Cardinality({op \in Ops :
                        /\ snaps'[active'].ops[op] # snaps[active].ops[op]
                        /\ snaps'[active'] = active' \/ snaps'[active'].ops[op] # NoBinding}) <= 1
    BY DEF OneOperationChanges, load_registry_snapshot, Whole, lookup
  <2>1. active' \in DOMAIN snaps' /\ OneApart(active', snaps[active]) /\ SnapsInv'
    BY CapabilityStep DEF ActiveMoves, CapabilityInv, RegistryInv
  <2>2. PartOf(snaps'[active'], active')
    BY <2>1 DEF SnapsInv, PartOf
  <2>3. PICK s : s = active'
    OBVIOUS
  <2>4. PICK t : t = snaps'[active']
    OBVIOUS
  <2>5. PICK r : r = snaps[active]
    OBVIOUS
  <2>6. Cardinality(Differing(s, r, t)) <= 1
    <3>1. OneApart(s, r) /\ PartOf(t, s)
      BY <2>1, <2>2, <2>3, <2>4, <2>5
    <3> QED BY <3>1, OneApartCard
  <2> QED BY <2>3, <2>4, <2>5, <2>6 DEF Differing
<1> QED BY <1>1, CapabilityAlways, PTL DEF Spec, OneOperationAtATime

(* A closed approval never changes, and its proposal is closed with it. *)
THEOREM DecisionsAreFinal == Spec => DecidedOnceTogether
<1>1. CapabilityInv /\ [Next]_vars =>
        [\A p \in Proposals : approval[p].status \in Terminal => approval'[p] = approval[p]]_approval
  BY CapabilityStep DEF Frozen
<1>2. CapabilityInv =>
        \A p \in Trusted : approval[p].status \in Terminal =>
            proposal[p].status =
                IF approval[p].status = "Approved" THEN "Activated" ELSE approval[p].status
  BY DEF CapabilityInv, RowsInv
<1> QED BY <1>1, <1>2, CapabilityAlways, PTL DEF Spec, DecidedOnceTogether
====
