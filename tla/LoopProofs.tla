----------------------------- MODULE LoopProofs -----------------------------
(***************************************************************************)
(* One continuation per trigger run, one start per run, a bounded number   *)
(* of automatic runs, and no event skipped by the paging, for any number   *)
(* of runs, crashes and losses.                                            *)
(*                                                                         *)
(* The ledger holds at most one row per trigger because a row is added     *)
(* only where there is none.  A run starts once because the transaction    *)
(* that starts it also creates its row, and no step takes a row away.  The *)
(* ledger is counted twice: beyond the count in memory it holds the        *)
(* requests whose answer was lost, beyond the one on disk also those whose *)
(* count could not be saved, and a crash puts the second in the place of   *)
(* the first.  A page that is cut at the limit leaves out only events      *)
(* beyond its last one, where the cursor stops.                            *)
(***************************************************************************)
EXTENDS AgentLoop, FiniteSetTheorems, WellFoundedInduction, TLAPS

\* The leaves are for Zenon; a leaf that needs arithmetic, or that Zenon does not
\* find in time, cites SMT.
USE Zenon

IsState(s) == s = [cursor |-> s.cursor, processed |-> s.processed, automatic |-> s.automatic]

OneRowPerTrigger == \A v, w \in ledger : v.trigger = w.trigger => v = w

StartedOnce ==
    \A r \in Runs : starts[r] <= 1 /\ (runStatus[r] = "none" => starts[r] = 0)

CountIsBounded ==
    /\ IsState(mem) /\ IsState(disk)
    /\ mem.automatic \in 0..MaxAutomaticRuns
    /\ disk.automatic \in 0..MaxAutomaticRuns

\* Continuations missing from the count in memory for want of a save.
Unsaved == IF harnessCrashes = 0 THEN 0 ELSE saveFailures

LedgerIsCounted ==
    ~stateLost =>
        /\ Cardinality(ledger) <= mem.automatic + lost + Unsaved
        /\ Cardinality(ledger) <= disk.automatic + lost + saveFailures

LoopTypes ==
    /\ runStatus \in [Runs -> RunState]
    /\ starts \in [Runs -> Nat]
    /\ ledger \subseteq [trigger : Runs, next : Runs]
    /\ IsFiniteSet(ledger)
    /\ \A obs \in pending : obs.run \in Runs
    /\ lost \in Nat /\ saveFailures \in Nat /\ harnessCrashes \in Nat
    /\ stateLost \in BOOLEAN

\* The inductive invariant.
LoopInv ==
    /\ LoopTypes
    /\ OneRowPerTrigger
    /\ StartedOnce
    /\ CountIsBounded
    /\ LedgerIsCounted

\* It holds at the start, with an empty ledger and the default state.
LEMMA LoopInvInit == LoopInit => LoopInv
<1> SUFFICES ASSUME LoopInit PROVE LoopInv
  OBVIOUS
<1> USE DEF LoopInit, KernelInit, HarnessInit
<1>1. LoopTypes
  BY FS_EmptySet DEF LoopTypes, RunState
<1>2. OneRowPerTrigger /\ StartedOnce
  BY SMT DEF OneRowPerTrigger, StartedOnce
<1>3. CountIsBounded
  BY SMT, HarnessAssumption DEF CountIsBounded, IsState, Default
<1>4. LedgerIsCounted
  BY SMT, FS_EmptySet DEF LedgerIsCounted, Unsaved, Default
<1> QED BY <1>1, <1>2, <1>3, <1>4 DEF LoopInv

\* A step that writes no run row back to "none", starts no run that has a row
\* and leaves ledger and harness alone keeps the invariant.
LEMMA KernelRunStep ==
    ASSUME LoopInv, UNCHANGED <<ledger, harnessVars>>,
           NEW r, NEW s \in RunState \ {"none"},
           \/ runStatus' = runStatus
           \/ runStatus' = [runStatus EXCEPT ![r] = s],
           \/ starts' = starts
           \/ /\ runStatus[r] = "none"
              /\ runStatus' = [runStatus EXCEPT ![r] = s]
              /\ starts' = [starts EXCEPT ![r] = @ + 1]
    PROVE  LoopInv'
<1> USE DEF LoopInv, harnessVars
<1>1. LoopTypes'
  BY SMT DEF LoopTypes, RunState
<1>2. StartedOnce'
  BY SMT DEF LoopTypes, StartedOnce
<1>3. OneRowPerTrigger' /\ CountIsBounded' /\ LedgerIsCounted'
  BY DEF OneRowPerTrigger, CountIsBounded, LedgerIsCounted, Unsaved, IsState
<1> QED BY <1>1, <1>2, <1>3

\* The worker creates a run with its start and otherwise only moves it on.
LEMMA WorkerKeeps ==
    ASSUME LoopInv, WorkerStep, UNCHANGED harnessVars PROVE LoopInv'
<1>0. "Running" \in RunState \ {"none"}
  BY DEF RunState
<1>1. CASE \/ \E t \in Runs : LeaseContinuation(t)
           \/ ScheduleRefused \/ ScheduleTerminal \/ StrandedRunFailed \/ ToolLoopYields
           \/ QueueReply \/ ModelRunFailed \/ NotifyFailure \/ DriveError
           \/ SettleContinuationJob
  <2>1. UNCHANGED <<runStatus, starts, ledger>>
    BY <1>1 DEF LeaseContinuation, ScheduleRefused, ScheduleTerminal, StrandedRunFailed,
       ToolLoopYields, QueueReply, ModelRunFailed, NotifyFailure, DriveError,
       SettleContinuationJob
  <2> QED BY <1>0, <2>1, KernelRunStep
<1>2. CASE insert_run_and_start
  <2>1. runStatus[crun] = "none" /\ UNCHANGED ledger
        /\ runStatus' = [runStatus EXCEPT ![crun] = "Running"]
        /\ starts' = [starts EXCEPT ![crun] = @ + 1]
    BY <1>2 DEF insert_run_and_start, run_by_id
  <2> QED BY <1>0, <2>1, KernelRunStep
<1>3. CASE ScheduleStranded \/ CompleteYielded \/ WaitForDispatch \/ ModelFails
  <2>1. PICK s \in {"Failed", "Completed", "WaitingDispatch"} :
            runStatus' = [runStatus EXCEPT ![crun] = s]
    BY <1>3 DEF ScheduleStranded, CompleteYielded, WaitForDispatch, ModelFails
  <2>2. s \in RunState \ {"none"}
    BY DEF RunState
  <2>3. UNCHANGED <<starts, ledger>>
    BY <1>3 DEF ScheduleStranded, CompleteYielded, WaitForDispatch, ModelFails
  <2> QED BY <2>1, <2>2, <2>3, KernelRunStep
<1> QED BY <1>1, <1>2, <1>3 DEF WorkerStep

\* The dispatcher completes or fails a run; it starts none.
LEMMA DispatcherKeeps ==
    ASSUME LoopInv, DispatcherStep, UNCHANGED harnessVars PROVE LoopInv'
<1>1. PICK r \in Runs : ReplyDelivered(r) \/ ReplyRefused(r)
  BY DEF DispatcherStep
<1>2. UNCHANGED <<starts, ledger>>
  BY <1>1 DEF ReplyDelivered, ReplyRefused
<1>3. \/ runStatus' = runStatus
      \/ runStatus' = [runStatus EXCEPT ![r] = "Failed"]
      \/ runStatus' = [runStatus EXCEPT ![r] = "Completed"]
  BY <1>1 DEF ReplyDelivered, ReplyRefused
<1>4. "Failed" \in RunState \ {"none"} /\ "Completed" \in RunState \ {"none"}
  BY DEF RunState
<1> QED BY <1>2, <1>3, <1>4, KernelRunStep

\* A user message starts a run under an id no row has.
LEMMA UserMessageKeeps ==
    ASSUME LoopInv, NEW r \in Runs, DeliverUserMessage(r), UNCHANGED harnessVars
    PROVE  LoopInv'
<1>1. r \in UnusedIds
  BY DEF DeliverUserMessage, Fresh
<1>2. runStatus[r] = "none"
  BY <1>1 DEF UnusedIds, run_by_id
<1>3. "Running" \in RunState \ {"none"}
  BY DEF RunState
<1> QED BY <1>2, <1>3, KernelRunStep DEF DeliverUserMessage

\* An accepted continuation adds one row, for a trigger that had none.
LEMMA AcceptAdds ==
    ASSUME LoopInv, NEW t \in Runs, NEW next \in Runs, accept_session_continuation(t, next)
    PROVE  /\ ledger' \subseteq [trigger : Runs, next : Runs]
           /\ IsFiniteSet(ledger')
           /\ Cardinality(ledger') = Cardinality(ledger) + 1
           /\ Cardinality(ledger) \in Nat
           /\ OneRowPerTrigger'
           /\ UNCHANGED <<runStatus, starts>>
<1> DEFINE new == [trigger |-> t, next |-> next]
<1>1. ledger' = ledger \cup {new} /\ UNCHANGED <<runStatus, starts>>
  BY DEF accept_session_continuation
<1>2. \A w \in ledger : w.trigger # t
  BY DEF accept_session_continuation, continuation_by_trigger_run
<1>3. new \notin ledger
  BY <1>2
<1>4. IsFiniteSet(ledger)
  BY DEF LoopInv, LoopTypes
<1>5. /\ IsFiniteSet(ledger')
      /\ Cardinality(ledger') = Cardinality(ledger) + 1
      /\ Cardinality(ledger) \in Nat
  BY <1>1, <1>3, <1>4, FS_AddElement, FS_CardinalityType
<1>6. OneRowPerTrigger'
  BY SMT, <1>1, <1>2 DEF LoopInv, OneRowPerTrigger
<1>7. ledger' \subseteq [trigger : Runs, next : Runs]
  BY SMT, <1>1 DEF LoopInv, LoopTypes
<1> QED BY <1>1, <1>5, <1>6, <1>7
\* The numbers of the count.
LEMMA CountNumbers ==
    ASSUME LoopInv
    PROVE  /\ Cardinality(ledger) \in Nat
           /\ mem.automatic \in Nat /\ disk.automatic \in Nat
           /\ lost \in Nat /\ saveFailures \in Nat /\ harnessCrashes \in Nat
           /\ Unsaved \in Nat /\ Unsaved <= saveFailures
<1>1. Cardinality(ledger) \in Nat
  BY FS_CardinalityType DEF LoopInv, LoopTypes
<1>2. mem.automatic \in Nat /\ disk.automatic \in Nat
  BY SMT, HarnessAssumption DEF LoopInv, CountIsBounded
<1>3. lost \in Nat /\ saveFailures \in Nat /\ harnessCrashes \in Nat
  BY DEF LoopInv, LoopTypes
<1>4. Unsaved \in Nat /\ Unsaved <= saveFailures
  BY SMT, <1>3 DEF Unsaved
<1> QED BY <1>1, <1>2, <1>3, <1>4

\* What the harness does to its own state, without the kernel.
HarnessOnly ==
    /\ UNCHANGED kernelVars
    /\ \A obs \in pending' : obs.run \in Runs
    /\ lost' \in Nat /\ saveFailures' \in Nat /\ harnessCrashes' \in Nat
    /\ stateLost' \in BOOLEAN
    /\ CountIsBounded'
    /\ LedgerIsCounted'

\* It keeps the invariant.
LEMMA HarnessOnlyKeeps ==
    ASSUME LoopInv, HarnessOnly PROVE LoopInv'
<1> USE DEF LoopInv, HarnessOnly, kernelVars
<1>1. LoopTypes'
  BY DEF LoopTypes
<1>2. OneRowPerTrigger' /\ StartedOnce' /\ CountIsBounded'
  BY DEF OneRowPerTrigger, StartedOnce
<1> QED BY <1>1, <1>2

\* Reading a page moves only the cursor.
LEMMA ObserveKeeps ==
    ASSUME LoopInv, Observe PROVE LoopInv'
<1> DEFINE answer == observe_events(log, mem.cursor, Event)
           page == answer.events
           cursor == answer.next_cursor
<1>1. /\ pending' = {RunObservation(page, r) : r \in Resolvable(page)}
      /\ mem' = [mem EXCEPT !.cursor = cursor]
  BY DEF Observe
<1> HIDE DEF page, cursor
<1>2. \A obs \in pending' : obs.run \in Runs
  <2>1. \A r : RunObservation(page, r).run = r
    BY DEF RunObservation
  <2>2. Resolvable(page) \subseteq Runs
    BY DEF Resolvable
  <2> QED BY <1>1, <2>1, <2>2
<1>3. UNCHANGED <<kernelVars, disk, lost, saveFailures, harnessCrashes, stateLost>>
  BY DEF Observe
<1>4. CountIsBounded' /\ mem'.automatic = mem.automatic
  BY <1>1, <1>3 DEF LoopInv, CountIsBounded, IsState
<1>5. LedgerIsCounted'
  BY <1>3, <1>4 DEF LoopInv, LedgerIsCounted, Unsaved, kernelVars
<1>6. HarnessOnly
  BY <1>2, <1>3, <1>4, <1>5 DEF HarnessOnly, LoopInv, LoopTypes
<1> QED BY <1>6, HarnessOnlyKeeps

\* The state file holds the state in memory, or what it held with one more
\* failure on record.
LEMMA SaveOutcomes ==
    ASSUME LoopInv, NEW obs, NEW automatic, Resolved(obs, automatic)
    PROVE  /\ \/ disk' = mem' /\ saveFailures' = saveFailures
              \/ disk' = disk /\ saveFailures' = saveFailures + 1
           /\ pending' \subseteq pending
           /\ saveFailures' \in Nat /\ saveFailures' >= saveFailures
           /\ Unsaved' \in Nat /\ Unsaved' >= Unsaved
           /\ IsState(mem') /\ mem'.automatic = automatic /\ mem'.cursor = mem.cursor
           /\ UNCHANGED <<read, lost, harnessCrashes, stateLost>>
<1>1. /\ \/ disk' = mem' /\ saveFailures' = saveFailures
         \/ disk' = disk /\ saveFailures' = saveFailures + 1
      /\ pending' \subseteq pending
      /\ mem' = [mem EXCEPT !.processed = @ \cup {obs.run}, !.automatic = automatic]
      /\ UNCHANGED <<read, lost, harnessCrashes, stateLost>>
  BY DEF Resolved, save
<1>2. IsState(mem)
  BY DEF LoopInv, CountIsBounded
<1>3. IsState(mem') /\ mem'.automatic = automatic /\ mem'.cursor = mem.cursor
  BY <1>1, <1>2 DEF IsState
<1>4. saveFailures' = saveFailures \/ saveFailures' = saveFailures + 1
  BY <1>1
<1>5. saveFailures' \in Nat /\ saveFailures' >= saveFailures
  BY SMT, <1>4, CountNumbers
<1>6. Unsaved' \in Nat /\ Unsaved' >= Unsaved
  BY SMT, <1>1, <1>5, CountNumbers DEF Unsaved
<1> QED BY <1>1, <1>3, <1>5, <1>6

\* A run that is not continued, or was before, changes no count.
LEMMA ResolvedKeeps ==
    ASSUME LoopInv, NEW obs \in pending, Resolved(obs, mem.automatic), UNCHANGED kernelVars
    PROVE  LoopInv'
<1>1. /\ \/ disk' = mem' /\ saveFailures' = saveFailures
         \/ disk' = disk /\ saveFailures' = saveFailures + 1
      /\ pending' \subseteq pending
      /\ saveFailures' \in Nat /\ saveFailures' >= saveFailures
      /\ Unsaved' \in Nat /\ Unsaved' >= Unsaved
      /\ IsState(mem') /\ mem'.automatic = mem.automatic
      /\ UNCHANGED <<lost, harnessCrashes, stateLost>>
  BY SaveOutcomes
<1>2. ledger' = ledger
  BY DEF kernelVars
<1>3. CountIsBounded'
  BY <1>1 DEF LoopInv, CountIsBounded
<1>4. disk'.automatic = mem.automatic \/ disk'.automatic = disk.automatic
  BY <1>1
<1>5. LedgerIsCounted'
  BY SMT, <1>1, <1>2, <1>4, CountNumbers DEF LoopInv, LedgerIsCounted
<1>6. HarnessOnly
  BY <1>1, <1>3, <1>5 DEF HarnessOnly, LoopInv, LoopTypes
<1> QED BY <1>6, HarnessOnlyKeeps

\* A continuation that is accepted and heard of is counted with its row.
LEMMA ContinueAcceptedKeeps ==
    ASSUME LoopInv, NEW obs \in pending, NEW r \in Runs, ContinueAccepted(obs, r)
    PROVE  LoopInv'
<1>1. obs.run \in Runs
  BY DEF LoopInv, LoopTypes
<1>2. accept_session_continuation(obs.run, r) /\ Resolved(obs, mem.automatic + 1)
  BY DEF ContinueAccepted
<1>3. mem.automatic < MaxAutomaticRuns
  BY DEF ContinueAccepted, resolve_policy
<1>4. /\ ledger' \subseteq [trigger : Runs, next : Runs]
      /\ IsFiniteSet(ledger')
      /\ Cardinality(ledger') = Cardinality(ledger) + 1
      /\ Cardinality(ledger) \in Nat
      /\ OneRowPerTrigger'
      /\ UNCHANGED <<runStatus, starts>>
  BY <1>1, <1>2, AcceptAdds
<1>5. /\ \/ disk' = mem' /\ saveFailures' = saveFailures
         \/ disk' = disk /\ saveFailures' = saveFailures + 1
      /\ pending' \subseteq pending
      /\ saveFailures' \in Nat /\ saveFailures' >= saveFailures
      /\ Unsaved' \in Nat /\ Unsaved' >= Unsaved
      /\ IsState(mem') /\ mem'.automatic = mem.automatic + 1
      /\ UNCHANGED <<lost, harnessCrashes, stateLost>>
  BY <1>2, SaveOutcomes
<1>6. LoopTypes' /\ StartedOnce'
  BY <1>4, <1>5 DEF LoopInv, LoopTypes, StartedOnce
<1>7. CountIsBounded'
  <2>1. mem.automatic + 1 \in 0..MaxAutomaticRuns
    BY SMT, <1>3, HarnessAssumption DEF LoopInv, CountIsBounded
  <2>2. IsState(disk') /\ disk'.automatic \in 0..MaxAutomaticRuns
    BY <1>5, <2>1 DEF LoopInv, CountIsBounded
  <2> QED BY <1>5, <2>1, <2>2 DEF CountIsBounded
<1>8. LedgerIsCounted'
  <2>1. \/ disk'.automatic = mem.automatic + 1 /\ saveFailures' = saveFailures
        \/ disk'.automatic = disk.automatic /\ saveFailures' = saveFailures + 1
    BY <1>5
  <2> QED BY SMT, <1>4, <1>5, <2>1, CountNumbers DEF LoopInv, LedgerIsCounted
<1> QED BY <1>4, <1>6, <1>7, <1>8 DEF LoopInv

\* A continuation whose answer is lost is counted as a loss.
LEMMA ContinueLostKeeps ==
    ASSUME LoopInv, NEW obs \in pending, NEW r \in Runs, ContinueLost(obs, r)
    PROVE  LoopInv'
<1>1. /\ lost' = lost + 1 /\ pending' = {}
      /\ UNCHANGED <<mem, disk, saveFailures, harnessCrashes, stateLost>>
  BY DEF ContinueLost
<1>2. lost' \in Nat /\ CountIsBounded' /\ Unsaved' = Unsaved
  <2>1. lost' \in Nat
    BY SMT, <1>1, CountNumbers
  <2> QED BY <1>1, <2>1 DEF LoopInv, CountIsBounded, IsState, Unsaved
<1>3. CASE UNCHANGED kernelVars
  <2>1. ledger' = ledger
    BY <1>3 DEF kernelVars
  <2>2. LedgerIsCounted'
    BY SMT, <1>1, <1>2, <2>1, CountNumbers DEF LoopInv, LedgerIsCounted
  <2>3. HarnessOnly
    BY <1>1, <1>2, <1>3, <2>2 DEF HarnessOnly, LoopInv, LoopTypes
  <2> QED BY <2>3, HarnessOnlyKeeps
<1>4. CASE accept_session_continuation(obs.run, r)
  <2>1. obs.run \in Runs
    BY DEF LoopInv, LoopTypes
  <2>2. /\ ledger' \subseteq [trigger : Runs, next : Runs]
        /\ IsFiniteSet(ledger')
        /\ Cardinality(ledger') = Cardinality(ledger) + 1
        /\ Cardinality(ledger) \in Nat
        /\ OneRowPerTrigger'
        /\ UNCHANGED <<runStatus, starts>>
    BY <1>4, <2>1, AcceptAdds
  <2>3. LoopTypes' /\ StartedOnce'
    BY <1>1, <1>2, <2>2 DEF LoopInv, LoopTypes, StartedOnce
  <2>4. LedgerIsCounted'
    BY SMT, <1>1, <1>2, <2>2, CountNumbers DEF LoopInv, LedgerIsCounted
  <2> QED BY <1>2, <2>2, <2>3, <2>4 DEF LoopInv
<1> QED BY <1>3, <1>4 DEF ContinueLost

\* A restart takes the count from the file, or from nothing and says so.
LEMMA HarnessCrashKeeps ==
    ASSUME LoopInv, HarnessCrash PROVE LoopInv'
<1>1. /\ UNCHANGED <<kernelVars, lost, saveFailures>> /\ pending' = {}
      /\ harnessCrashes' = harnessCrashes + 1
  BY DEF HarnessCrash
<1>2. harnessCrashes' \in Nat /\ harnessCrashes' # 0
  BY SMT, <1>1, CountNumbers
<1>3. Unsaved' = saveFailures /\ ledger' = ledger
  BY <1>1, <1>2 DEF Unsaved, kernelVars
<1>4. CASE mem' = disk /\ UNCHANGED <<disk, stateLost>>
  <2>1. CountIsBounded'
    BY <1>4 DEF LoopInv, CountIsBounded, IsState
  <2>2. LedgerIsCounted'
    BY <1>1, <1>3, <1>4 DEF LoopInv, LedgerIsCounted
  <2>3. HarnessOnly
    BY <1>1, <1>2, <1>4, <2>1, <2>2 DEF HarnessOnly, LoopInv, LoopTypes
  <2> QED BY <2>3, HarnessOnlyKeeps
<1>5. CASE mem' = Default /\ disk' = Default /\ stateLost' = TRUE
  <2>1. CountIsBounded'
    BY SMT, <1>5, HarnessAssumption DEF CountIsBounded, IsState, Default
  <2>2. LedgerIsCounted'
    BY <1>5 DEF LedgerIsCounted
  <2>3. HarnessOnly
    BY <1>1, <1>2, <1>5, <2>1, <2>2 DEF HarnessOnly, LoopInv, LoopTypes
  <2> QED BY <2>3, HarnessOnlyKeeps
<1> QED BY <1>4, <1>5 DEF HarnessCrash

\* Every step keeps it.
LEMMA LoopInvStep == LoopInv /\ [LoopNext]_loopVars => LoopInv'
<1> SUFFICES ASSUME LoopInv, [LoopNext]_loopVars PROVE LoopInv'
  OBVIOUS
<1>1. CASE WorkerStep /\ UNCHANGED harnessVars
  BY <1>1, WorkerKeeps
<1>2. CASE DispatcherStep /\ UNCHANGED harnessVars
  BY <1>2, DispatcherKeeps
<1>3. CASE HarnessStep
  <2>1. CASE Observe
    BY <2>1, ObserveKeeps
  <2>2. ASSUME NEW obs \in pending, WaitOrStop(obs) \/ ContinueDuplicate(obs) PROVE LoopInv'
    BY <2>2, ResolvedKeeps DEF WaitOrStop, ContinueDuplicate
  <2>3. ASSUME NEW obs \in pending, NEW r \in Runs, ContinueAccepted(obs, r) PROVE LoopInv'
    BY <2>3, ContinueAcceptedKeeps
  <2> QED BY <1>3, <2>1, <2>2, <2>3 DEF HarnessStep
<1>4. ASSUME NEW r \in Runs, DeliverUserMessage(r) /\ UNCHANGED harnessVars PROVE LoopInv'
  BY <1>4, UserMessageKeeps
<1>5. CASE KernelCrash /\ UNCHANGED harnessVars
  <2>1. "Running" \in RunState \ {"none"}
    BY DEF RunState
  <2>2. UNCHANGED <<runStatus, starts, ledger>>
    BY <1>5 DEF KernelCrash
  <2> QED BY <1>5, <2>1, <2>2, KernelRunStep
<1>6. ASSUME NEW obs \in pending, NEW r \in Runs, ContinueLost(obs, r) PROVE LoopInv'
  BY <1>6, ContinueLostKeeps
<1>7. CASE HarnessCrash
  BY <1>7, HarnessCrashKeeps
<1>8. CASE UNCHANGED loopVars
  <2>1. "Running" \in RunState \ {"none"}
    BY DEF RunState
  <2> QED BY <1>8, <2>1, KernelRunStep DEF loopVars, kernelVars
<1> QED BY <1>1, <1>2, <1>3, <1>4, <1>5, <1>6, <1>7, <1>8 DEF LoopNext

\* The continuation ledger and the worker keep the promise of one continuation
\* per trigger run, driven once, whatever is repeated, lost or restarted.
THEOREM ContinuedOnceHolds == LoopSpec => []ContinuedOnce
<1>1. LoopInv => ContinuedOnce
  <2> SUFFICES ASSUME LoopInv PROVE ContinuedOnce
    OBVIOUS
  <2>1. ASSUME NEW t \in Runs PROVE Cardinality(Continued(t)) <= 1
    <3>1. CASE Continued(t) = {}
      <4>1. Cardinality(Continued(t)) = 0
        BY <3>1, FS_EmptySet
      <4> QED BY SMT, <4>1
    <3>2. CASE Continued(t) # {}
      <4>1. PICK w \in ledger : w.trigger = t
        BY <3>2 DEF Continued
      <4>2. Continued(t) = {w.next}
        BY <4>1 DEF Continued, LoopInv, OneRowPerTrigger
      <4>3. Cardinality({w.next}) = 1
        BY FS_Singleton
      <4> QED BY SMT, <4>2, <4>3
    <3> QED BY <3>1, <3>2
  <2>2. \A r \in Runs : starts[r] <= 1
    BY DEF LoopInv, StartedOnce
  <2> QED BY <2>1, <2>2 DEF ContinuedOnce
<1> QED BY <1>1, LoopInvInit, LoopInvStep, PTL DEF LoopSpec

\* As long as the state file survives, the harness causes no more continuations
\* than its limit, one for each lost answer and, after a crash, one for each
\* save that failed.
THEOREM AutomaticRunsAreBounded == LoopSpec => []AutomaticRunsBounded
<1>1. LoopInv => AutomaticRunsBounded
  <2> SUFFICES ASSUME LoopInv, ~stateLost
               PROVE  Cardinality(ledger) <= MaxAutomaticRuns + lost + Unsaved
    BY DEF AutomaticRunsBounded, Unsaved
  <2>1. mem.automatic <= MaxAutomaticRuns
    BY SMT, HarnessAssumption DEF LoopInv, CountIsBounded
  <2>2. Cardinality(ledger) <= mem.automatic + lost + Unsaved
    BY DEF LoopInv, LedgerIsCounted
  <2> QED BY SMT, <2>1, <2>2, CountNumbers, HarnessAssumption
<1> QED BY <1>1, LoopInvInit, LoopInvStep, PTL DEF LoopSpec
-----------------------------------------------------------------------------
(***************************************************************************)
(* Paging.  A page is a beginning of what the query selects, so what lies  *)
(* up to its last row and was selected is in it.                           *)
(***************************************************************************)

\* A set of naturals below a bound has a greatest element, and Max is it.
LEMMA MaxIsGreatest ==
    ASSUME NEW n \in Nat, NEW T \in SUBSET (0..n), T # {}
    PROVE  Max(T) \in T /\ \A y \in T : y <= Max(T)
<1> DEFINE U == {n - y : y \in T}
           R == OpToRel(<, Nat)
<1>1. U \subseteq Nat /\ U # {}
  <2>1. \A y \in T : n - y \in Nat
    BY SMT
  <2> QED BY <2>1
<1>2. \A k, m \in Nat : k < m => <<k, m>> \in R
  BY SMT DEF OpToRel
<1> HIDE DEF U, R
<1>3. IsWellFoundedOn(R, Nat)
  BY NatLessThanWellFounded DEF R
<1>4. PICK u \in U : \A v \in U : ~(<<v, u>> \in R)
  BY <1>1, <1>3, WFMin
<1>5. \A v \in U : ~(v < u)
  BY <1>1, <1>2, <1>4
<1>6. PICK x \in T : u = n - x
  BY DEF U
<1>7. \A y \in T : x >= y
  <2> SUFFICES ASSUME NEW y \in T PROVE x >= y
    OBVIOUS
  <2>1. n - y \in U
    BY DEF U
  <2>2. ~(n - y < n - x)
    BY <2>1, <1>5, <1>6
  <2>3. x \in 0..n /\ y \in 0..n
    OBVIOUS
  <2> QED BY SMT, <2>2, <2>3
<1>8. \E z \in T : \A y \in T : z >= y
  BY <1>7
<1>9. Max(T) \in T /\ \A y \in T : Max(T) >= y
  BY <1>8 DEF Max
<1>10. Max(T) \in 0..n /\ \A y \in T : y \in 0..n
  BY <1>9
<1> QED BY SMT, <1>9, <1>10

\* LIMIT keeps, with a row, every row before it.
LEMMA LimitCutsTheEnd ==
    ASSUME NEW rows, rows \subseteq Nat, IsFiniteSet(rows), NEW n \in Nat,
           NEW i \in FirstRows(n, rows), NEW j \in rows, j <= i
    PROVE  j \in FirstRows(n, rows)
<1> DEFINE Below(k) == {m \in rows : m < k}
<1>1. i \in rows /\ Cardinality(Below(i)) < n
  BY DEF FirstRows
<1>2. Below(j) \subseteq Below(i)
  <2>1. \A m \in rows : m < j => m < i
    BY SMT, <1>1
  <2> QED BY <2>1
<1>3. IsFiniteSet(Below(i)) /\ IsFiniteSet(Below(j))
  BY FS_Subset
<1>4. Cardinality(Below(j)) <= Cardinality(Below(i))
  BY <1>2, <1>3, FS_Subset
<1>5. Cardinality(Below(i)) \in Nat /\ Cardinality(Below(j)) \in Nat
  BY <1>3, FS_CardinalityType
<1> HIDE DEF Below
<1>6. Cardinality(Below(j)) < n
  BY SMT, <1>1, <1>4, <1>5
<1> QED BY <1>6 DEF FirstRows, Below

\* What a query answers, for any journal, cursor and filter: the page holds
\* only selected events, and every selected event up to the next cursor.
LEMMA PageSkipsNothing ==
    ASSUME NEW S, NEW journal \in Seq(S), NEW after \in Nat, NEW filter,
           NEW answer, answer = observe_events(journal, after, filter)
    PROVE  /\ answer.events \subseteq Matching(journal, after, filter)
           /\ answer.next_cursor \in Nat
           /\ answer.next_cursor \in {after} \cup answer.events
           /\ \A i \in Matching(journal, after, filter) :
                 i <= answer.next_cursor => i \in answer.events
<1> DEFINE rows == Matching(journal, after, filter)
           fetched == FirstRows(PageLimit + 1, rows)
           more == Cardinality(fetched) > PageLimit
           page == IF more THEN FirstRows(PageLimit, fetched) ELSE fetched
<1>1. /\ answer.events = page
      /\ answer.next_cursor = IF page = {} THEN after ELSE Max(page)
  BY DEF observe_events
<1>2. PICK n \in Nat : DOMAIN journal = 1..n
  BY SMT
<1>3. /\ rows \subseteq 1..n /\ \A i \in rows : i > after
      /\ fetched \subseteq rows /\ page \subseteq fetched
  BY <1>2 DEF Matching, FirstRows
<1>4. IsFiniteSet(rows) /\ IsFiniteSet(fetched) /\ rows \subseteq Nat /\ fetched \subseteq Nat
  <2>1. IsFiniteSet(1..n)
    BY SMT, FS_Interval
  <2>2. 1..n \subseteq Nat
    BY SMT
  <2> QED BY <1>3, <2>1, <2>2, FS_Subset
<1>5. PageLimit \in Nat /\ PageLimit + 1 \in Nat
  BY SMT, ObserveAssumption
<1>6. ASSUME NEW i \in page, NEW j \in rows, j <= i PROVE j \in page
  <2>1. j \in fetched
    BY <1>3, <1>4, <1>5, <1>6, LimitCutsTheEnd
  <2> QED BY <1>4, <1>5, <1>6, <2>1, LimitCutsTheEnd
<1> HIDE DEF rows, fetched, more, page
<1>7. CASE page = {}
  <2>1. answer.next_cursor = after
    BY <1>1, <1>7
  <2>2. \A i \in rows : ~(i <= after)
    BY SMT, <1>3, <1>4
  <2> QED BY <1>1, <1>3, <2>1, <2>2 DEF rows
<1>8. CASE page # {}
  <2>0. 1..n \subseteq 0..n
    BY SMT
  <2>1. page \in SUBSET (0..n) /\ answer.next_cursor = Max(page)
    BY <1>1, <1>3, <1>8, <2>0
  <2>2. Max(page) \in page
    BY <1>8, <2>1, MaxIsGreatest
  <2>3. \A i \in rows : i <= Max(page) => i \in page
    BY <1>6, <2>2
  <2> QED BY <1>1, <1>3, <1>4, <2>1, <2>2, <2>3 DEF rows
<1> QED BY <1>7, <1>8

\* The journal holds events of runs, and what either copy of the harness's
\* state has its cursor past was read.
CursorInv ==
    /\ log \in Seq(Event)
    /\ cpc # "idle" => crun \in Runs
    /\ mem.cursor \in Nat /\ disk.cursor \in Nat
    /\ 1..mem.cursor \subseteq read
    /\ 1..disk.cursor \subseteq read

\* A journal of events with one more appended.
LEMMA AppendKeepsEvents ==
    ASSUME log \in Seq(Event), NEW kind \in EventKind, NEW r \in Runs, Append1(kind, r)
    PROVE  log' \in Seq(Event)
<1>1. [kind |-> kind, run |-> r] \in Event
  BY DEF Event
<1> QED BY SMT, <1>1 DEF Append1

\* The kernel appends to the journal and leaves the harness alone.
LEMMA KernelKeepsCursor ==
    ASSUME LoopInv, CursorInv, UNCHANGED harnessVars,
           \/ WorkerStep \/ DispatcherStep \/ KernelCrash
           \/ \E r \in Runs : DeliverUserMessage(r)
    PROVE  CursorInv'
<1> USE DEF CursorInv
<1>0. "RunStarted" \in EventKind /\ "Yield" \in EventKind
      /\ "RunFailed" \in EventKind /\ "RunCompleted" \in EventKind
  BY DEF EventKind
<1>1. log' \in Seq(Event) /\ (cpc' # "idle" => crun' \in Runs)
  <2>1. ASSUME NEW t \in Runs, LeaseContinuation(t) PROVE log' = log /\ crun' \in Runs
    BY <2>1 DEF LeaseContinuation, continuation_by_trigger_run, LoopInv, LoopTypes
  <2>2. CASE insert_run_and_start
    BY <1>0, <2>2, AppendKeepsEvents DEF insert_run_and_start, Goto
  <2>3. CASE StrandedRunFailed \/ ToolLoopYields \/ ModelRunFailed
    BY <1>0, <2>3, AppendKeepsEvents DEF StrandedRunFailed, ToolLoopYields, ModelRunFailed, Goto
  <2>4. CASE \/ ScheduleRefused \/ ScheduleTerminal \/ ScheduleStranded \/ CompleteYielded
             \/ QueueReply \/ WaitForDispatch \/ ModelFails \/ NotifyFailure \/ DriveError
    BY <2>4 DEF ScheduleRefused, ScheduleTerminal, ScheduleStranded, CompleteYielded,
       QueueReply, WaitForDispatch, ModelFails, NotifyFailure, DriveError, Goto
  <2>5. CASE SettleContinuationJob \/ KernelCrash
    BY <2>5 DEF SettleContinuationJob, KernelCrash, WorkerIdle
  <2>6. ASSUME NEW r \in Runs, ReplyDelivered(r) \/ ReplyRefused(r)
        PROVE  log' \in Seq(Event) /\ UNCHANGED <<cpc, crun>>
    BY <1>0, <2>6, AppendKeepsEvents DEF ReplyDelivered, ReplyRefused
  <2>7. ASSUME NEW r \in Runs, DeliverUserMessage(r)
        PROVE  log' \in Seq(Event) /\ crun' \in Runs
    BY <1>0, <2>7, AppendKeepsEvents DEF DeliverUserMessage
  <2> QED BY <2>1, <2>2, <2>3, <2>4, <2>5, <2>6, <2>7 DEF WorkerStep, DispatcherStep
<1> QED BY <1>1 DEF harnessVars

\* A page read brings everything up to the new cursor.
LEMMA ObserveKeepsCursor ==
    ASSUME LoopInv, CursorInv, Observe PROVE CursorInv'
<1> DEFINE answer == observe_events(log, mem.cursor, Event)
<1>1. /\ UNCHANGED <<kernelVars, disk>>
      /\ mem' = [mem EXCEPT !.cursor = answer.next_cursor]
      /\ read' = read \cup answer.events
  BY DEF Observe
<1>2. IsState(mem)
  BY DEF LoopInv, CountIsBounded
<1>3. mem'.cursor = answer.next_cursor
  BY <1>1, <1>2 DEF IsState
<1>4. PICK a : a = answer
  OBVIOUS
<1>5. /\ a.next_cursor \in Nat
      /\ a.next_cursor \in {mem.cursor} \cup a.events
      /\ a.events \subseteq Matching(log, mem.cursor, Event)
      /\ \A i \in Matching(log, mem.cursor, Event) : i <= a.next_cursor => i \in a.events
  <2>1. log \in Seq(Event) /\ mem.cursor \in Nat
    BY DEF CursorInv
  <2>2. a = observe_events(log, mem.cursor, Event)
    BY <1>4
  <2> HIDE DEF answer
  <2> QED BY SMT, <2>1, <2>2, PageSkipsNothing
<1> HIDE DEF answer
<1>6. ASSUME NEW i \in 1..a.next_cursor PROVE i \in read'
  <2>1. CASE i <= mem.cursor
    <3>1. i \in 1..mem.cursor
      BY SMT, <1>5, <2>1 DEF CursorInv
    <3> QED BY <1>1, <3>1 DEF CursorInv
  <2>2. CASE i > mem.cursor
    <3>1. i \in Nat /\ 1 <= i /\ i <= a.next_cursor
      BY SMT, <1>5
    <3>2. a.next_cursor # mem.cursor
      BY SMT, <2>2, <3>1 DEF CursorInv
    <3>3. a.next_cursor \in DOMAIN log
      BY <1>5, <3>2 DEF Matching
    <3>4. i \in DOMAIN log /\ log[i] \in Event
      BY SMT, <3>1, <3>3 DEF CursorInv
    <3>5. i \in Matching(log, mem.cursor, Event)
      BY <2>2, <3>4 DEF Matching
    <3>6. i \in a.events
      BY <1>5, <3>1, <3>5
    <3> QED BY <1>1, <1>4, <3>6
  <2>3. i \in Nat /\ mem.cursor \in Nat
    BY SMT, <1>5 DEF CursorInv
  <2> QED BY SMT, <2>1, <2>2, <2>3
<1>7. read \subseteq read'
  BY <1>1
<1>8. mem'.cursor \in Nat /\ 1..mem'.cursor \subseteq read'
  BY <1>3, <1>4, <1>5, <1>6
<1> QED BY <1>1, <1>7, <1>8 DEF CursorInv, kernelVars

\* A resolved run saves the state with its cursor, or the file keeps the old one.
LEMMA ResolvedKeepsCursor ==
    ASSUME LoopInv, CursorInv, NEW obs, NEW automatic, Resolved(obs, automatic),
           UNCHANGED <<log, cpc, crun>>
    PROVE  CursorInv'
<1>1. mem'.cursor = mem.cursor /\ (disk' = mem' \/ disk' = disk) /\ read' = read
  BY SaveOutcomes
<1> QED BY <1>1 DEF CursorInv

\* Every step keeps what is read and the two cursors together.
LEMMA CursorStep == LoopInv /\ CursorInv /\ [LoopNext]_loopVars => CursorInv'
<1> SUFFICES ASSUME LoopInv, CursorInv, [LoopNext]_loopVars PROVE CursorInv'
  OBVIOUS
<1>1. CASE \/ WorkerStep /\ UNCHANGED harnessVars
           \/ DispatcherStep /\ UNCHANGED harnessVars
           \/ \E r \in Runs : DeliverUserMessage(r) /\ UNCHANGED harnessVars
           \/ KernelCrash /\ UNCHANGED harnessVars
  BY <1>1, KernelKeepsCursor
<1>2. CASE HarnessStep
  <2>1. CASE Observe
    BY <2>1, ObserveKeepsCursor
  <2>2. ASSUME NEW obs \in pending, WaitOrStop(obs) \/ ContinueDuplicate(obs) PROVE CursorInv'
    BY <2>2, ResolvedKeepsCursor DEF WaitOrStop, ContinueDuplicate, kernelVars
  <2>3. ASSUME NEW obs \in pending, NEW r \in Runs, ContinueAccepted(obs, r) PROVE CursorInv'
    BY <2>3, ResolvedKeepsCursor DEF ContinueAccepted, accept_session_continuation
  <2> QED BY <1>2, <2>1, <2>2, <2>3 DEF HarnessStep
<1>3. ASSUME NEW obs \in pending, NEW r \in Runs, ContinueLost(obs, r) PROVE CursorInv'
  BY <1>3 DEF ContinueLost, accept_session_continuation, kernelVars, CursorInv
<1>4. CASE HarnessCrash
  <2>1. Default.cursor = 0 /\ 0 \in Nat /\ 1..0 \subseteq read
    BY SMT DEF Default
  <2>2. UNCHANGED <<log, cpc, crun, read>> /\ (mem' = Default \/ mem' = disk)
        /\ (disk' = Default \/ disk' = disk)
    BY <1>4 DEF HarnessCrash, kernelVars
  <2> QED BY <2>1, <2>2 DEF CursorInv
<1>5. CASE UNCHANGED loopVars
  BY <1>5 DEF loopVars, kernelVars, harnessVars, CursorInv
<1> QED BY <1>1, <1>2, <1>3, <1>4, <1>5 DEF LoopNext

\* Whatever is appended between two queries, paging with next_cursor skips
\* nothing: every event up to the cursor was returned to the harness.
THEOREM PagingSkipsNothing == LoopSpec => []CursorSkipsNothing
<1>1. LoopInit => CursorInv
  <2> SUFFICES ASSUME LoopInit PROVE CursorInv
    OBVIOUS
  <2>1. << >> \in Seq(Event) /\ 1..0 = {} /\ 0 \in Nat
    BY SMT
  <2> QED BY <2>1 DEF LoopInit, KernelInit, HarnessInit, Default, CursorInv
<1>2. CursorInv => CursorSkipsNothing
  BY DEF CursorInv, CursorSkipsNothing
<1> QED BY <1>1, <1>2, CursorStep, LoopInvInit, LoopInvStep, PTL DEF LoopSpec
=============================================================================
