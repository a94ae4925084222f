---------------------------- MODULE KernelProofs ----------------------------
(***************************************************************************)
(* Proofs about the kernel, for any messages, runs and bounds: type        *)
(* correctness; KernelInv is inductive, so the outbox projection never     *)
(* drifts from the journal, no message is answered twice, a paused reply   *)
(* needs a grant, and the kernel implements ReplyContract; StatusInv is    *)
(* inductive relative to it, so a run's status tells what became of its    *)
(* reply, its approval and its delivery.                                   *)
(***************************************************************************)
EXTENDS KernelInvariant, TLAPS

\* The leaves are for Zenon; a leaf that needs arithmetic, or that Zenon does not
\* find in time, cites SMT.
USE Zenon

\* Appending events in one transaction counts each kind once more for the run
\* and leaves every other count alone.
LEMMA AppendEffect ==
    ASSUME JournalTypeOK, NEW r \in Runs, NEW ks, append_event(r, ks)
    PROVE  /\ events' \in [Runs -> [Kinds -> Nat]]
           /\ \A q \in Runs, k \in Kinds :
                 events'[q][k] = IF q = r /\ k \in ks THEN events[q][k] + 1
                                 ELSE events[q][k]
BY SMT DEF append_event, JournalTypeOK

\* Writing a run's status keeps the table well formed.
LEMMA StatusType ==
    ASSUME JournalTypeOK, NEW r \in Runs, NEW s \in RunStatus, update_run_status(r, s)
    PROVE  status' \in [Runs -> RunStatus]
BY DEF update_run_status, JournalTypeOK

\* INSERT OR IGNORE of the outbox keeps journal and projection well formed.
LEMMA QueueType ==
    ASSUME JournalTypeOK, OutboxTypeOK, NEW r \in Runs, queue_outbox_dispatch(r)
    PROVE  /\ events' \in [Runs -> [Kinds -> Nat]]
           /\ row' \in [Runs -> RowStatus]
<1>1. CASE row[r] = "none"
  BY SMT, <1>1, AppendEffect DEF queue_outbox_dispatch, OutboxTypeOK, RowStatus
<1>2. CASE row[r] # "none"
  BY <1>2 DEF queue_outbox_dispatch, OutboxTypeOK, JournalTypeOK
<1> QED BY <1>1, <1>2

\* The transactions of the dispatcher thread and of its startup recovery.
LEMMA OutboxStepType ==
    ASSUME JournalTypeOK, OutboxTypeOK,
           \/ \E r \in Runs : lease_next_outbox_dispatch(r)
           \/ adapter_execute
           \/ succeed_outbox_dispatch
           \/ fail_outbox_dispatch
           \/ unknown_outbox_dispatch
           \/ dispatch_once_error
           \/ \E r \in Runs : recover_unknown_invocation(r)
           \/ repair_stale_dispatching
    PROVE  JournalTypeOK' /\ OutboxTypeOK'
<1> USE NoRunAssumption
<1>1. ASSUME NEW r \in Runs, lease_next_outbox_dispatch(r)
      PROVE  JournalTypeOK' /\ OutboxTypeOK'
  BY <1>1, AppendEffect
     DEF lease_next_outbox_dispatch, JournalTypeOK, OutboxTypeOK, RowStatus
<1>2. CASE adapter_execute
  BY SMT, <1>2 DEF adapter_execute, JournalTypeOK, OutboxTypeOK
<1>3. CASE succeed_outbox_dispatch
  <2>1. drun \in Runs
    BY <1>3 DEF succeed_outbox_dispatch, OutboxTypeOK
  <2>2. events' \in [Runs -> [Kinds -> Nat]]
    BY <1>3, <2>1, AppendEffect DEF succeed_outbox_dispatch, JournalTypeOK
  <2>3. status' \in [Runs -> RunStatus]
    BY <1>3, <2>1, StatusType DEF succeed_outbox_dispatch, JournalTypeOK, RunStatus
  <2> QED
    BY <1>3, <2>2, <2>3
       DEF succeed_outbox_dispatch, DispatcherDone, JournalTypeOK, OutboxTypeOK, RowStatus
<1>4. CASE fail_outbox_dispatch
  <2>1. drun \in Runs
    BY <1>4 DEF fail_outbox_dispatch, OutboxTypeOK
  <2>2. events' \in [Runs -> [Kinds -> Nat]]
    BY <1>4, <2>1, AppendEffect DEF fail_outbox_dispatch, JournalTypeOK
  <2>3. status' \in [Runs -> RunStatus]
    BY <1>4, <2>1, StatusType DEF fail_outbox_dispatch, JournalTypeOK, RunStatus
  <2> QED
    BY <1>4, <2>2, <2>3
       DEF fail_outbox_dispatch, DispatcherDone, JournalTypeOK, OutboxTypeOK, RowStatus
<1>5. CASE unknown_outbox_dispatch
  <2>1. drun \in Runs
    BY <1>5 DEF unknown_outbox_dispatch, OutboxTypeOK
  <2>2. events' \in [Runs -> [Kinds -> Nat]]
    BY <1>5, <2>1, AppendEffect DEF unknown_outbox_dispatch, JournalTypeOK
  <2> QED
    BY <1>5, <2>2
       DEF unknown_outbox_dispatch, DispatcherDone, JournalTypeOK, OutboxTypeOK, RowStatus
<1>6. CASE dispatch_once_error
  BY <1>6 DEF dispatch_once_error, DispatcherDone, JournalTypeOK, OutboxTypeOK
<1>7. ASSUME NEW r \in Runs, recover_unknown_invocation(r)
      PROVE  JournalTypeOK' /\ OutboxTypeOK'
  <2>1. events' \in [Runs -> [Kinds -> Nat]]
    BY <1>7, AppendEffect DEF recover_unknown_invocation
  <2>2. status' \in [Runs -> RunStatus]
    BY <1>7, StatusType DEF recover_unknown_invocation, RunStatus
  <2> QED
    BY <1>7, <2>1, <2>2
       DEF recover_unknown_invocation, JournalTypeOK, OutboxTypeOK, RowStatus
<1>8. CASE repair_stale_dispatching
  <2>1. \A r \in Runs : classify_terminal_fact(r) \in RowStatus
    BY DEF classify_terminal_fact, RowStatus
  <2> QED
    BY SMT, <1>8, <2>1 DEF repair_stale_dispatching, journalVars, JournalTypeOK, OutboxTypeOK
<1> QED BY <1>1, <1>2, <1>3, <1>4, <1>5, <1>6, <1>7, <1>8

\* The transactions and errors of the worker thread.
LEMMA WorkerStepType ==
    ASSUME TypeOK, WorkerStep \/ WorkerError
    PROVE  JournalTypeOK' /\ OutboxTypeOK' /\ QueueTypeOK' /\ WorkerTypeOK'
<1> USE NoRunAssumption, NoMsgAssumption
<1> USE DEF TypeOK, BeforeRunPc, RunPc, EndPc, Goto, WorkerDone
<1>0. /\ UNCHANGED journalVars => JournalTypeOK'
      /\ UNCHANGED outboxVars => OutboxTypeOK'
      /\ UNCHANGED queueVars => QueueTypeOK'
  BY DEF journalVars, outboxVars, queueVars, JournalTypeOK, OutboxTypeOK, QueueTypeOK
<1>1. ASSUME NEW m \in Msgs, LeaseJob(m)
      PROVE  JournalTypeOK' /\ OutboxTypeOK' /\ QueueTypeOK' /\ WorkerTypeOK'
  BY <1>0, <1>1 DEF LeaseJob, lease_next_worker_job, QueueTypeOK, JobStatus, WorkerTypeOK
<1>2. CASE SessionReady
  BY <1>0, <1>2 DEF SessionReady, mark_delivered, QueueTypeOK, WorkerTypeOK
<1>3. ASSUME NEW r \in Runs, InsertRun(r)
      PROVE  JournalTypeOK' /\ OutboxTypeOK' /\ QueueTypeOK' /\ WorkerTypeOK'
  <2>1. wmsg \in Msgs
    BY <1>3 DEF InsertRun, WorkerTypeOK
  <2>2. JournalTypeOK'
    BY <1>3, <2>1 DEF InsertRun, insert_run, update_run_status, JournalTypeOK, RunStatus
  <2> QED BY <1>0, <1>3, <2>2 DEF InsertRun, WorkerTypeOK
<1>4. CASE NoRunError \/ InsertRunConflict \/ ModelReply \/ ModelFailure
           \/ BudgetExhausted \/ LegacyError
  BY <1>0, <1>4 DEF NoRunError, InsertRunConflict, ModelReply, ModelFailure,
                    BudgetExhausted, LegacyError, WorkerTypeOK
<1>5. CASE RunStarted \/ RunFailed \/ RunBudgetTerminated
  <2>1. wrun \in Runs
    BY <1>5 DEF RunStarted, RunFailed, RunBudgetTerminated, WorkerTypeOK
  <2>2. JournalTypeOK'
    BY SMT, <1>5, <2>1, AppendEffect DEF RunStarted, RunFailed, RunBudgetTerminated, JournalTypeOK
  <2> QED
    BY <1>0, <1>5, <2>2 DEF RunStarted, RunFailed, RunBudgetTerminated, AfterTerminate,
                            WorkerTypeOK
<1>6. CASE Yield \/ PauseStatus \/ WaitingStatus \/ V0Complete \/ FailRun \/ TerminateRun
  <2>1. wrun \in Runs
    BY <1>6 DEF Yield, PauseStatus, WaitingStatus, V0Complete, FailRun, TerminateRun,
                WorkerTypeOK
  <2>2. JournalTypeOK'
    BY <1>6, <2>1 DEF Yield, PauseStatus, WaitingStatus, V0Complete, FailRun, TerminateRun,
                      complete_run, fail_run, update_run_status, JournalTypeOK, RunStatus
  <2> QED
    BY <1>0, <1>6, <2>2 DEF Yield, PauseStatus, WaitingStatus, V0Complete, FailRun,
                            TerminateRun, AfterEnqueue, WorkerTypeOK
<1>7. CASE EnqueueOrPause \/ FailureNotice
  <2>1. wrun \in Runs
    BY <1>7 DEF EnqueueOrPause, FailureNotice, WorkerTypeOK
  <2>2. events' \in [Runs -> [Kinds -> Nat]] /\ row' \in [Runs -> RowStatus]
    BY <1>7, <2>1, AppendEffect, QueueType DEF EnqueueOrPause, FailureNotice, OutboxTypeOK
  <2>3. JournalTypeOK' /\ OutboxTypeOK'
    BY <1>7, <2>2 DEF EnqueueOrPause, FailureNotice, JournalTypeOK, OutboxTypeOK
  <2> QED
    BY <1>0, <1>7, <2>3 DEF EnqueueOrPause, FailureNotice, WorkerTypeOK
<1>8. CASE SucceedJob \/ FailJob
  <2>1. wmsg \in Msgs
    BY <1>8 DEF SucceedJob, FailJob, WorkerTypeOK
  <2>2. QueueTypeOK'
    BY <1>8, <2>1 DEF SucceedJob, FailJob, succeed_worker_job, fail_worker_job,
                      update_worker_job, QueueTypeOK, JobStatus
  <2> QED BY <1>0, <1>8, <2>2 DEF SucceedJob, FailJob, WorkerTypeOK
<1>9. CASE FailJobMark
  BY <1>0, <1>9 DEF FailJobMark, mark_delivered, QueueTypeOK, WorkerTypeOK
<1>10. CASE WorkerError
  <2>1. CASE StatusReadError
    BY <1>0, <1>10, <2>1 DEF WorkerError, StatusReadError, WorkerTypeOK
  <2>2. CASE ~StatusReadError
    BY <1>0, <1>10, <2>2 DEF WorkerError, ErrorTarget, AfterTerminate, WorkerTypeOK
  <2> QED BY <2>1, <2>2
<1> QED
  BY <1>1, <1>2, <1>3, <1>4, <1>5, <1>6, <1>7, <1>8, <1>9, <1>10 DEF WorkerStep

\* The transactions and errors of the accept loop.
LEMMA HandlerStepType ==
    ASSUME TypeOK,
           \/ \E m \in Msgs : IngressReserve(m)
           \/ \E r \in Runs : ApproveRead(r) \/ DenyRead(r)
           \/ HandlerStep
           \/ HandlerError
    PROVE  JournalTypeOK' /\ OutboxTypeOK' /\ QueueTypeOK' /\ GatewayTypeOK'
<1> USE NoRunAssumption, NoMsgAssumption
<1> USE DEF TypeOK, ApprovalPc, HandlerDone
<1>0. /\ UNCHANGED journalVars => JournalTypeOK'
      /\ UNCHANGED outboxVars => OutboxTypeOK'
      /\ UNCHANGED queueVars => QueueTypeOK'
  BY DEF journalVars, outboxVars, queueVars, JournalTypeOK, OutboxTypeOK, QueueTypeOK
<1>1. ASSUME NEW m \in Msgs, IngressReserve(m)
      PROVE  JournalTypeOK' /\ OutboxTypeOK' /\ QueueTypeOK' /\ GatewayTypeOK'
  BY <1>0, <1>1 DEF IngressReserve, reserve_ingress, QueueTypeOK, GatewayTypeOK
<1>2. ASSUME NEW r \in Runs, ApproveRead(r) \/ DenyRead(r)
      PROVE  JournalTypeOK' /\ OutboxTypeOK' /\ QueueTypeOK' /\ GatewayTypeOK'
  BY <1>0, <1>2 DEF ApproveRead, DenyRead, GatewayTypeOK
<1>3. CASE IngressAccept
  <2>1. hmsg \in Msgs
    BY <1>3 DEF IngressAccept, GatewayTypeOK
  <2>2. QueueTypeOK'
    BY <1>3, <2>1 DEF IngressAccept, accept_ingress_with_worker_job, QueueTypeOK, JobStatus
  <2> QED BY <1>0, <1>3, <2>2 DEF IngressAccept, GatewayTypeOK
<1>4. CASE ApproveGrant \/ DenyAppend
  <2>1. hrun \in Runs
    BY <1>4 DEF ApproveGrant, DenyAppend, GatewayTypeOK
  <2>2. JournalTypeOK'
    BY SMT, <1>4, <2>1, AppendEffect DEF ApproveGrant, DenyAppend, JournalTypeOK
  <2> QED BY <1>0, <1>4, <2>2 DEF ApproveGrant, DenyAppend, GatewayTypeOK
<1>5. CASE ApproveQueue
  <2>1. hrun \in Runs
    BY <1>5 DEF ApproveQueue, GatewayTypeOK
  <2>2. events' \in [Runs -> [Kinds -> Nat]] /\ row' \in [Runs -> RowStatus]
    BY <1>5, <2>1, QueueType DEF ApproveQueue
  <2>3. JournalTypeOK' /\ OutboxTypeOK'
    BY <1>5, <2>2 DEF ApproveQueue, JournalTypeOK, OutboxTypeOK
  <2> QED BY <1>0, <1>5, <2>3 DEF ApproveQueue, GatewayTypeOK
<1>6. CASE ApproveResume \/ DenyFail
  <2>1. hrun \in Runs
    BY <1>6 DEF ApproveResume, DenyFail, GatewayTypeOK
  <2>2. JournalTypeOK'
    BY <1>6, <2>1 DEF ApproveResume, DenyFail, fail_run, update_run_status,
                      JournalTypeOK, RunStatus
  <2> QED BY <1>0, <1>6, <2>2 DEF ApproveResume, DenyFail, GatewayTypeOK
<1>7. CASE HandlerError
  BY <1>0, <1>7 DEF HandlerError, GatewayTypeOK
<1> QED BY <1>1, <1>2, <1>3, <1>4, <1>5, <1>6, <1>7 DEF HandlerStep

\* The transactions and errors of the approval sweep.
LEMMA ExpiryStepType ==
    ASSUME TypeOK,
           \/ \E S \in SUBSET Runs : stale_approvals_since(S)
           \/ \E r \in Runs : ExpireAppend(r)
           \/ ExpireFail
           \/ ExpiryError
    PROVE  JournalTypeOK' /\ ExpiryTypeOK'
<1> USE NoRunAssumption DEF TypeOK
<1>1. ASSUME NEW S \in SUBSET Runs, stale_approvals_since(S)
      PROVE  JournalTypeOK' /\ ExpiryTypeOK'
  BY <1>1 DEF stale_approvals_since, ExpiryIdle, ExpiryTypeOK, journalVars, JournalTypeOK
<1>2. ASSUME NEW r \in Runs, ExpireAppend(r)
      PROVE  JournalTypeOK' /\ ExpiryTypeOK'
  BY <1>2, AppendEffect DEF ExpireAppend, ExpiryTypeOK, JournalTypeOK
<1>3. CASE ExpireFail
  BY <1>3 DEF ExpireFail, fail_run, update_run_status, ExpiryTypeOK, JournalTypeOK, RunStatus
<1>4. CASE ExpiryError
  BY <1>4 DEF ExpiryError, ExpiryTypeOK, journalVars, JournalTypeOK
<1> QED BY <1>1, <1>2, <1>3, <1>4


\* The first start over an empty database is well typed.
LEMMA TypeInit == Init => TypeOK
<1> SUFFICES ASSUME Init PROVE TypeOK
  OBVIOUS
<1> USE NoRunAssumption, NoMsgAssumption, KernelAssumption DEF Init
<1>1. JournalTypeOK
  BY DEF JournalInit, JournalTypeOK, RunStatus
<1>2. OutboxTypeOK
  BY DEF OutboxInit, OutboxTypeOK, RowStatus
<1>3. QueueTypeOK
  BY DEF QueueInit, QueueTypeOK, JobStatus
<1>4. GatewayTypeOK /\ WorkerTypeOK /\ ExpiryTypeOK
  BY DEF GatewayInit, GatewayTypeOK, ApprovalPc, WorkerInit, WorkerTypeOK, BeforeRunPc,
         RunPc, EndPc, ExpiryInit, ExpiryTypeOK
<1> QED BY SMT, <1>1, <1>2, <1>3, <1>4 DEF TypeOK, Phases

\* Every thread step, startup step, journal error and crash keeps the types.
LEMMA TypeNext == TypeOK /\ [Next]_vars => TypeOK'
<1> SUFFICES ASSUME TypeOK, [Next]_vars PROVE TypeOK'
  OBVIOUS
<1> USE NoRunAssumption, NoMsgAssumption, KernelAssumption
<1>0. /\ UNCHANGED journalVars => JournalTypeOK'
      /\ UNCHANGED outboxVars => OutboxTypeOK'
      /\ UNCHANGED queueVars => QueueTypeOK'
      /\ UNCHANGED gatewayVars => GatewayTypeOK'
      /\ UNCHANGED workerVars => WorkerTypeOK'
      /\ UNCHANGED expiryVars => ExpiryTypeOK'
  BY DEF TypeOK, journalVars, outboxVars, queueVars, gatewayVars, workerVars, expiryVars,
         JournalTypeOK, OutboxTypeOK, QueueTypeOK, GatewayTypeOK, WorkerTypeOK, ExpiryTypeOK
<1>1. CASE Restart
  BY <1>0, <1>1 DEF Restart, TypeOK, Phases
<1>2. ASSUME NEW r \in Runs, RecoverUnknown(r) PROVE TypeOK'
  BY <1>0, <1>2, OutboxStepType DEF RecoverUnknown, controlVars, TypeOK
<1>3. CASE RepairStaleRows
  BY <1>0, <1>3, OutboxStepType DEF RepairStaleRows, TypeOK, Phases
<1>4. ASSUME NEW S \in SUBSET Runs, StartupExpiry(S) PROVE TypeOK'
  BY <1>0, <1>4, ExpiryStepType DEF StartupExpiry, TypeOK, Phases
<1>5. CASE StartThreads
  <2>1. QueueTypeOK'
    BY <1>5 DEF StartThreads, recover_undelivered_ingress, TypeOK, QueueTypeOK, JobStatus
  <2> QED BY <1>0, <1>5, <2>1 DEF StartThreads, TypeOK, Phases
<1>6. CASE Dispatcher
  BY <1>0, <1>6, OutboxStepType DEF Dispatcher, controlVars, TypeOK
<1>7. CASE Worker
  BY <1>0, <1>7, WorkerStepType DEF Worker, controlVars, TypeOK
<1>8. CASE Request \/ Handler
  BY <1>0, <1>8, HandlerStepType DEF Request, Handler, controlVars, TypeOK
<1>9. CASE Sweep \/ Expire
  BY <1>0, <1>9, ExpiryStepType DEF Sweep, Expire, controlVars, TypeOK
<1>10. CASE JournalError
  <2>1. CASE dispatch_once_error /\ UNCHANGED <<queueVars, gatewayVars, workerVars, expiryVars>>
    BY SMT, <1>0, <1>10, <2>1, OutboxStepType DEF JournalError, TypeOK
  <2>2. CASE WorkerError /\ UNCHANGED <<gatewayVars, expiryVars>>
    BY SMT, <1>0, <1>10, <2>2, WorkerStepType DEF JournalError, TypeOK
  <2>3. CASE HandlerError /\ UNCHANGED <<workerVars, expiryVars>>
    BY SMT, <1>0, <1>10, <2>3, HandlerStepType DEF JournalError, TypeOK
  <2>4. CASE ExpiryError /\ UNCHANGED <<outboxVars, queueVars, gatewayVars, workerVars>>
    BY SMT, <1>0, <1>10, <2>4, ExpiryStepType DEF JournalError, TypeOK
  <2> QED BY <1>10, <2>1, <2>2, <2>3, <2>4 DEF JournalError
<1>11. CASE Crash
  <2>1. OutboxTypeOK'
    BY <1>11 DEF Crash, DispatcherDone, TypeOK, OutboxTypeOK
  <2>2. WorkerTypeOK' /\ GatewayTypeOK' /\ ExpiryTypeOK'
    BY <1>11 DEF Crash, WorkerDone, HandlerDone, WorkerTypeOK, BeforeRunPc, RunPc, EndPc,
                 GatewayTypeOK, ApprovalPc, ExpiryTypeOK
  <2> QED BY SMT, <1>0, <1>11, <2>1, <2>2 DEF Crash, TypeOK, Phases
<1>12. CASE UNCHANGED vars
  BY <1>0, <1>12 DEF vars, controlVars, TypeOK
<1> QED
  BY <1>1, <1>2, <1>3, <1>4, <1>5, <1>6, <1>7, <1>8, <1>9, <1>10, <1>11, <1>12
     DEF Next, Startup

\* The kernel's state keeps its type: every thread that is inside a handler
\* knows the message and the run it is working on.
THEOREM TypeCorrect == Spec => []TypeOK
BY TypeInit, TypeNext, PTL DEF Spec

-----------------------------------------------------------------------------
(* The outbox.  The steps of the kernel fall into three classes for it:    *)
(* those that leave it alone, those that queue a reply, and those of the   *)
(* dispatcher and its recovery.                                            *)

OutboxKinds == {"OutboxQueued", "DispatchStarted"} \cup TerminalFact

OutboxUntouched ==
    /\ UNCHANGED outboxVars
    /\ \A r \in Runs, k \in OutboxKinds : events'[r][k] = events[r][k]

Queued(r) == queue_outbox_dispatch(r) /\ UNCHANGED <<calls, dpc, drun>>

OutboxSteps ==
    \/ \E r \in Runs : lease_next_outbox_dispatch(r)
    \/ adapter_execute
    \/ succeed_outbox_dispatch
    \/ fail_outbox_dispatch
    \/ unknown_outbox_dispatch

\* Appending events of other kinds leaves the outbox events alone.
LEMMA AppendOther ==
    ASSUME JournalTypeOK, NEW r \in Runs, NEW ks, append_event(r, ks),
           ks \cap OutboxKinds = {}
    PROVE  \A q \in Runs, k \in OutboxKinds : events'[q][k] = events[q][k]
BY SMT, AppendEffect DEF OutboxKinds, TerminalFact, Kinds

\* The worker queues the reply of its run or leaves the outbox alone.
LEMMA WorkerOutbox ==
    ASSUME TypeOK, WorkerStep \/ WorkerError
    PROVE  OutboxUntouched \/ (wrun \in Runs /\ Queued(wrun))
<1> USE DEF TypeOK
<1>0. UNCHANGED <<events, outboxVars>> => OutboxUntouched
  BY DEF OutboxUntouched
<1>1. CASE RunStarted \/ RunFailed \/ RunBudgetTerminated
  <2>1. wrun \in Runs
    BY <1>1 DEF RunStarted, RunFailed, RunBudgetTerminated, WorkerTypeOK, RunPc
  <2>2. PICK k \in {"RunStarted", "RunFailed", "RunBudgetTerminated"} : append_event(wrun, {k})
    BY <1>1 DEF RunStarted, RunFailed, RunBudgetTerminated
  <2>3. {k} \cap OutboxKinds = {}
    BY DEF OutboxKinds, TerminalFact
  <2> QED
    BY <1>1, <2>1, <2>2, <2>3, AppendOther
       DEF RunStarted, RunFailed, RunBudgetTerminated, OutboxUntouched
<1>2. CASE EnqueueOrPause
  <2>1. wrun \in Runs
    BY <1>2 DEF EnqueueOrPause, WorkerTypeOK, RunPc
  <2>2. {"ApprovalRequested"} \cap OutboxKinds = {}
    BY DEF OutboxKinds, TerminalFact
  <2>3. CASE RequireWriteApproval
    BY <1>2, <2>1, <2>2, <2>3, AppendOther DEF EnqueueOrPause, OutboxUntouched, outboxVars
  <2>4. CASE ~RequireWriteApproval
    BY <1>2, <2>1, <2>4 DEF EnqueueOrPause, Queued
  <2> QED BY <2>3, <2>4
<1>3. CASE FailureNotice
  BY <1>3 DEF FailureNotice, Queued, WorkerTypeOK, RunPc
<1>4. CASE \/ \E m \in Msgs : LeaseJob(m)
           \/ \E r \in Runs : InsertRun(r)
           \/ SessionReady \/ NoRunError \/ InsertRunConflict
           \/ ModelReply \/ ModelFailure \/ Yield \/ LegacyError \/ BudgetExhausted
           \/ PauseStatus \/ WaitingStatus \/ V0Complete \/ FailRun \/ TerminateRun
           \/ SucceedJob \/ FailJob \/ FailJobMark \/ WorkerError
  BY <1>0, <1>4
     DEF LeaseJob, InsertRun, SessionReady, NoRunError, InsertRunConflict, ModelReply,
         ModelFailure, Yield, LegacyError, BudgetExhausted, PauseStatus, WaitingStatus,
         V0Complete, FailRun, TerminateRun, SucceedJob, FailJob, FailJobMark, WorkerError,
         journalVars
<1> QED BY <1>1, <1>2, <1>3, <1>4 DEF WorkerStep

\* The accept loop queues the reply of the run being approved or leaves the
\* outbox alone.
LEMMA HandlerOutbox ==
    ASSUME TypeOK,
           \/ \E m \in Msgs : IngressReserve(m)
           \/ \E r \in Runs : ApproveRead(r) \/ DenyRead(r)
           \/ HandlerStep
           \/ HandlerError
    PROVE  OutboxUntouched \/ (hpc = "queue" /\ hrun \in Runs /\ Queued(hrun))
<1> USE DEF TypeOK
<1>0. UNCHANGED <<events, outboxVars>> => OutboxUntouched
  BY DEF OutboxUntouched
<1>1. CASE ApproveGrant \/ DenyAppend
  <2>1. hrun \in Runs
    BY <1>1 DEF ApproveGrant, DenyAppend, GatewayTypeOK, ApprovalPc
  <2>2. PICK k \in {"ApprovalGranted", "ApprovalDenied"} : append_event(hrun, {k})
    BY <1>1 DEF ApproveGrant, DenyAppend
  <2>3. {k} \cap OutboxKinds = {}
    BY DEF OutboxKinds, TerminalFact
  <2> QED
    BY <1>1, <2>1, <2>2, <2>3, AppendOther DEF ApproveGrant, DenyAppend, OutboxUntouched
<1>2. CASE ApproveQueue
  BY <1>2 DEF ApproveQueue, Queued, GatewayTypeOK, ApprovalPc
<1>3. CASE \/ \E m \in Msgs : IngressReserve(m)
           \/ \E r \in Runs : ApproveRead(r) \/ DenyRead(r)
           \/ IngressAccept \/ ApproveResume \/ DenyFail \/ HandlerError
  BY <1>0, <1>3 DEF IngressReserve, ApproveRead, DenyRead, IngressAccept, ApproveResume,
                    DenyFail, HandlerError, journalVars
<1> QED BY <1>1, <1>2, <1>3 DEF HandlerStep

\* The sweep leaves the outbox alone.
LEMMA ExpiryOutbox ==
    ASSUME TypeOK, UNCHANGED outboxVars,
           \/ \E S \in SUBSET Runs : stale_approvals_since(S)
           \/ \E r \in Runs : ExpireAppend(r)
           \/ ExpireFail
           \/ ExpiryError
    PROVE  OutboxUntouched
<1>1. ASSUME NEW r \in Runs, ExpireAppend(r) PROVE OutboxUntouched
  <2>1. {"ApprovalExpired"} \cap OutboxKinds = {}
    BY DEF OutboxKinds, TerminalFact
  <2> QED BY <1>1, <2>1, AppendOther DEF ExpireAppend, OutboxUntouched, TypeOK
<1> QED
  BY <1>1 DEF stale_approvals_since, ExpireFail, ExpiryError, OutboxUntouched, journalVars

-----------------------------------------------------------------------------
(* The projection and the journal *)

\* A step that leaves the outbox alone keeps RowInv.
LEMMA UntouchedKeepsRow ==
    ASSUME RowInv, OutboxUntouched PROVE RowInv'
BY SMT DEF RowInv, OutboxUntouched, outboxVars, Has, OutboxKinds, TerminalFact

\* Queueing a reply keeps RowInv and never touches a row that exists.
LEMMA QueueKeepsRow ==
    ASSUME TypeOK, RowInv, NEW r \in Runs, Queued(r)
    PROVE  RowInv' /\ \A q \in Runs : row[q] # "none" => row'[q] = row[q]
<1> USE DEF TypeOK, Queued
<1>1. CASE row[r] = "none"
  <2>1. /\ row' = [row EXCEPT ![r] = "pending"]
        /\ \A q \in Runs, k \in Kinds :
              events'[q][k] = IF q = r /\ k = "OutboxQueued" THEN events[q][k] + 1
                              ELSE events[q][k]
    BY SMT, <1>1, AppendEffect DEF queue_outbox_dispatch
  <2> QED
    BY SMT, <1>1, <2>1 DEF RowInv, Has, Kinds, OutboxTypeOK, JournalTypeOK
<1>2. CASE row[r] # "none"
  BY SMT, <1>2 DEF queue_outbox_dispatch, RowInv, Has
<1> QED BY <1>1, <1>2

\* The dispatcher's steps keep RowInv: they act on a dispatching row only.
LEMMA DispatcherKeepsRow ==
    ASSUME KernelInv, OutboxSteps PROVE RowInv' /\ (phase' = "up" => DispatcherInv')
<1> USE NoRunAssumption DEF KernelInv, TypeOK
<1>1. ASSUME NEW r \in Runs, lease_next_outbox_dispatch(r)
      PROVE  RowInv' /\ (phase' = "up" => DispatcherInv')
  <2>1. \A q \in Runs, k \in Kinds :
           events'[q][k] = IF q = r /\ k = "DispatchStarted" THEN events[q][k] + 1
                           ELSE events[q][k]
    BY SMT, <1>1, AppendEffect DEF lease_next_outbox_dispatch
  <2>2. RowInv'
    BY SMT, <1>1, <2>1
       DEF lease_next_outbox_dispatch, RowInv, Has, Kinds, OutboxTypeOK, JournalTypeOK
  <2>3. calls[r] = 0
    BY <1>1 DEF lease_next_outbox_dispatch, RowInv
  <2> QED
    BY <1>1, <2>2, <2>3 DEF lease_next_outbox_dispatch, DispatcherInv, OutboxTypeOK
<1>2. CASE adapter_execute
  <2>1. drun \in Runs /\ row[drun] = "dispatching" /\ calls[drun] = 0
    BY <1>2 DEF adapter_execute, DispatcherInv, OutboxTypeOK
  <2> QED
    BY SMT, <1>2, <2>1 DEF adapter_execute, RowInv, DispatcherInv, Has, OutboxTypeOK
<1>3. CASE succeed_outbox_dispatch \/ fail_outbox_dispatch \/ unknown_outbox_dispatch
  <2>1. drun \in Runs /\ row[drun] = "dispatching" /\ calls[drun] = 1
    BY <1>3 DEF succeed_outbox_dispatch, fail_outbox_dispatch, unknown_outbox_dispatch,
                DispatcherInv, OutboxTypeOK
  <2>2. DispatcherInv' \/ phase' # "up"
    BY <1>3 DEF succeed_outbox_dispatch, fail_outbox_dispatch, unknown_outbox_dispatch,
                DispatcherDone, DispatcherInv
  <2>3. CASE succeed_outbox_dispatch
    <3>1. PICK ks \in {{"ReceiptSucceeded"}, {"ReceiptSucceeded", "RunCompleted"}} :
             append_event(drun, ks)
      BY <2>1, <2>3 DEF succeed_outbox_dispatch
    <3>2. \A q \in Runs, k \in OutboxKinds :
             events'[q][k] = IF q = drun /\ k = "ReceiptSucceeded" THEN events[q][k] + 1
                             ELSE events[q][k]
      BY SMT, <2>1, <3>1, AppendEffect DEF OutboxKinds, TerminalFact, Kinds
    <3> QED
      BY SMT, <2>1, <2>2, <2>3, <3>2
         DEF succeed_outbox_dispatch, RowInv, Has, OutboxKinds, TerminalFact, OutboxTypeOK
  <2>4. CASE fail_outbox_dispatch
    <3>1. append_event(drun, {"ReceiptFailed", "RunFailed"})
      BY <2>1, <2>4 DEF fail_outbox_dispatch
    <3>2. \A q \in Runs, k \in OutboxKinds :
             events'[q][k] = IF q = drun /\ k = "ReceiptFailed" THEN events[q][k] + 1
                             ELSE events[q][k]
      BY SMT, <2>1, <3>1, AppendEffect DEF OutboxKinds, TerminalFact, Kinds
    <3> QED
      BY SMT, <2>1, <2>2, <2>4, <3>2
         DEF fail_outbox_dispatch, RowInv, Has, OutboxKinds, TerminalFact, OutboxTypeOK
  <2>5. CASE unknown_outbox_dispatch
    <3>1. append_event(drun, {"OutboxDispatchUnknown"})
      BY <2>1, <2>5 DEF unknown_outbox_dispatch
    <3>2. \A q \in Runs, k \in OutboxKinds :
             events'[q][k] = IF q = drun /\ k = "OutboxDispatchUnknown"
                             THEN events[q][k] + 1 ELSE events[q][k]
      BY SMT, <2>1, <3>1, AppendEffect DEF OutboxKinds, TerminalFact, Kinds
    <3> QED
      BY SMT, <2>1, <2>2, <2>5, <3>2
         DEF unknown_outbox_dispatch, RowInv, Has, OutboxKinds, TerminalFact, OutboxTypeOK
  <2> QED BY <1>3, <2>3, <2>4, <2>5
<1> QED BY <1>1, <1>2, <1>3 DEF OutboxSteps

\* What recovery finds: an invocation without a terminal fact is exactly a
\* dispatching row, so a dispatching row never has a terminal fact and the
\* repair of stale rows has nothing to do.
LEMMA RecoveryCandidates ==
    ASSUME TypeOK, RowInv
    PROVE  /\ \A r \in Runs : r \in UnknownInvocations <=> row[r] = "dispatching"
           /\ repair_stale_dispatching => row' = row
<1>1. \A r \in Runs : r \in UnknownInvocations <=> row[r] = "dispatching"
  BY SMT DEF UnknownInvocations, RowInv, Has, TerminalFact, TypeOK, OutboxTypeOK, RowStatus
<1>2. StaleDispatching = {}
  BY SMT DEF StaleDispatching, RowInv, Has, TerminalFact
<1>3. ASSUME repair_stale_dispatching PROVE row' = row
  <2>1. PICK S \in SUBSET StaleDispatching :
            row' = [r \in Runs |-> IF r \in S THEN classify_terminal_fact(r) ELSE row[r]]
    BY <1>3 DEF repair_stale_dispatching
  <2>2. row' = [r \in Runs |-> row[r]]
    BY <1>2, <2>1
  <2> QED BY <2>2 DEF TypeOK, OutboxTypeOK
<1> QED BY <1>1, <1>3

\* Recovery turns a dispatching row and its journal to unknown together.
LEMMA RecoveryKeepsRow ==
    ASSUME KernelInv, NEW r \in Runs, recover_unknown_invocation(r) PROVE RowInv'
<1>0. JournalTypeOK /\ row = [q \in Runs |-> row[q]] /\ RowInv
  BY DEF KernelInv, TypeOK, OutboxTypeOK
<1>1. /\ append_event(r, {"OutboxDispatchUnknown"})
      /\ row' = [row EXCEPT ![r] = "unknown"]
      /\ UNCHANGED calls
  BY DEF recover_unknown_invocation
<1>2. row[r] = "dispatching"
  BY RecoveryCandidates DEF recover_unknown_invocation, KernelInv
<1>3. \A q \in Runs, k \in Kinds :
         events'[q][k] = IF q = r /\ k = "OutboxDispatchUnknown" THEN events[q][k] + 1
                         ELSE events[q][k]
  BY SMT, <1>0, <1>1, AppendEffect
<1>4. row'[r] = "unknown" /\ \A q \in Runs \ {r} : row'[q] = row[q]
  BY <1>0, <1>1
<1> QED
  BY SMT, <1>0, <1>1, <1>2, <1>3, <1>4 DEF RowInv, Has, Kinds, JournalTypeOK

\* Every step of the kernel, as the outbox sees it.
OutboxClass ==
    \/ OutboxUntouched
    \/ wrun \in Runs /\ Queued(wrun)
    \/ hpc = "queue" /\ hrun \in Runs /\ Queued(hrun)
    \/ OutboxSteps
    \/ phase = "recover_unknown" /\ \E r \in Runs : recover_unknown_invocation(r)
    \/ DispatcherDone /\ UNCHANGED <<events, row, calls>>

\* Which part of the kernel a step belongs to, and so which variables it may
\* have changed.
LEMMA StepClass == KernelInv /\ [Next]_vars => OutboxClass
<1> SUFFICES ASSUME KernelInv, [Next]_vars PROVE OutboxClass
  OBVIOUS
<1> USE DEF KernelInv, OutboxClass
<1>0. UNCHANGED <<journalVars, outboxVars>> => OutboxUntouched
  BY DEF OutboxUntouched, journalVars
<1>1. CASE Restart \/ StartThreads \/ UNCHANGED vars
  BY <1>0, <1>1 DEF Restart, StartThreads, vars
<1>2. ASSUME NEW r \in Runs, RecoverUnknown(r) PROVE OutboxClass
  BY <1>2 DEF RecoverUnknown
<1>3. CASE RepairStaleRows
  BY <1>0, <1>3, RecoveryCandidates DEF RepairStaleRows, repair_stale_dispatching, outboxVars
<1>4. ASSUME NEW S \in SUBSET Runs, StartupExpiry(S) PROVE OutboxClass
  BY <1>4, ExpiryOutbox DEF StartupExpiry
<1>5. CASE Dispatcher
  BY <1>5 DEF Dispatcher, OutboxSteps
<1>6. CASE Worker
  BY <1>6, WorkerOutbox DEF Worker
<1>7. CASE Request \/ Handler
  BY <1>7, HandlerOutbox DEF Request, Handler
<1>8. CASE Sweep \/ Expire
  BY <1>8, ExpiryOutbox DEF Sweep, Expire
<1>9. CASE JournalError
  BY <1>9, WorkerOutbox, HandlerOutbox, ExpiryOutbox DEF JournalError, dispatch_once_error
<1>10. CASE Crash
  BY <1>10 DEF Crash, journalVars
<1> QED
  BY <1>1, <1>2, <1>3, <1>4, <1>5, <1>6, <1>7, <1>8, <1>9, <1>10 DEF Next, Startup

\* RowInv and DispatcherInv are kept by every step.
LEMMA OutboxInvNext ==
    ASSUME KernelInv, [Next]_vars PROVE RowInv' /\ DispatcherInv'
<1> USE DEF KernelInv
<1>1. RowInv'
  <2>1. ASSUME DispatcherDone /\ UNCHANGED <<events, row, calls>> PROVE RowInv'
    BY <2>1 DEF RowInv, Has
  <2> QED
    BY <2>1, StepClass, UntouchedKeepsRow, QueueKeepsRow, DispatcherKeepsRow, RecoveryKeepsRow
       DEF OutboxClass
<1>2. \/ phase' # "up" => dpc = "idle" /\ UNCHANGED dpc
      \/ DispatcherDone
  BY DEF Next, vars, controlVars, Startup, Restart, RecoverUnknown, recover_unknown_invocation,
         RepairStaleRows, repair_stale_dispatching, StartupExpiry, StartThreads, Dispatcher,
         Worker, Request, Handler, Sweep, Expire, JournalError, Crash, DispatcherInv, outboxVars
<1>3. DispatcherInv'
  <2>1. CASE OutboxUntouched
    BY <1>2, <2>1 DEF DispatcherInv, OutboxUntouched, outboxVars, DispatcherDone
  <2>2. ASSUME NEW r \in Runs, Queued(r) PROVE DispatcherInv'
    <3>1. \A q \in Runs : row[q] # "none" => row'[q] = row[q]
      BY <2>2, QueueKeepsRow
    <3> QED
      BY <1>2, <2>2, <3>1 DEF DispatcherInv, Queued, DispatcherDone, TypeOK, OutboxTypeOK
  <2>3. CASE OutboxSteps
    <3>1. phase' # "up" => dpc' = "idle"
      BY <1>2 DEF DispatcherDone
    <3> QED
      BY <2>3, <3>1, DispatcherKeepsRow DEF DispatcherInv
  <2>4. ASSUME NEW r \in Runs, phase = "recover_unknown", recover_unknown_invocation(r)
        PROVE  DispatcherInv'
    BY <2>4 DEF recover_unknown_invocation, DispatcherInv
  <2>5. CASE DispatcherDone
    BY <2>5 DEF DispatcherDone, DispatcherInv
  <2> QED BY <2>1, <2>2, <2>3, <2>4, <2>5, StepClass DEF OutboxClass
<1> QED BY <1>1, <1>3

-----------------------------------------------------------------------------
(* Approvals and messages: the rest of KernelInv, and what follows from it. *)

\* No step removes an event.
EventsGrow == \A r \in Runs, k \in Kinds : Has(r, k) => events'[r][k] > 0

\* No step other than enqueue_or_pause asks for approval.
NoNewRequest ==
    \A r \in Runs : events'[r]["ApprovalRequested"] > 0 => Has(r, "ApprovalRequested")

\* append_event only adds to the journal.
LEMMA AppendGrows ==
    ASSUME JournalTypeOK, NEW r \in Runs, NEW ks, append_event(r, ks)
    PROVE  EventsGrow /\ ("ApprovalRequested" \notin ks => NoNewRequest)
<1>1. EventsGrow
  BY SMT, AppendEffect DEF EventsGrow, Has, JournalTypeOK
<1>2. ASSUME "ApprovalRequested" \notin ks PROVE NoNewRequest
  <2>1. "ApprovalRequested" \in Kinds
    BY DEF Kinds
  <2> QED BY SMT, <1>2, <2>1, AppendEffect DEF NoNewRequest, Has
<1> QED BY <1>1, <1>2

\* A step that appends nothing loses nothing.
LEMMA UnchangedGrows ==
    ASSUME JournalTypeOK, UNCHANGED events PROVE EventsGrow /\ NoNewRequest
BY DEF EventsGrow, NoNewRequest, Has

\* queue_outbox_dispatch only adds to the journal, inserted row or not.
LEMMA QueueGrows ==
    ASSUME JournalTypeOK, NEW r \in Runs, queue_outbox_dispatch(r)
    PROVE  EventsGrow /\ NoNewRequest
BY SMT, AppendGrows, UnchangedGrows DEF queue_outbox_dispatch

\* Steps of the dispatcher and of recovery: rows change only where they exist,
\* statuses only where a row exists, and none of them becomes AwaitingApproval.
OutboxOnly ==
    /\ EventsGrow /\ NoNewRequest
    /\ UNCHANGED trigger
    /\ \A r \in Runs : row[r] = "none" => row'[r] = "none" /\ status'[r] = status[r]
    /\ \A r \in Runs : row'[r] = "none" => row[r] = "none"
    /\ \A r \in Runs : status'[r] = "AwaitingApproval" => status[r] = "AwaitingApproval"

\* The dispatcher and startup recovery touch the outbox and the run they hold.
LEMMA OutboxStepsOnly ==
    ASSUME KernelInv, OutboxSteps \/ \E r \in Runs : recover_unknown_invocation(r)
    PROVE  OutboxOnly
<1> USE DEF KernelInv, TypeOK
<1>1. ASSUME NEW r \in Runs, lease_next_outbox_dispatch(r) PROVE OutboxOnly
  BY SMT, <1>1, AppendGrows DEF lease_next_outbox_dispatch, OutboxOnly, OutboxTypeOK
<1>2. CASE adapter_execute
  BY <1>2, UnchangedGrows DEF adapter_execute, OutboxOnly
<1>3. CASE succeed_outbox_dispatch \/ fail_outbox_dispatch \/ unknown_outbox_dispatch
  <2>1. drun \in Runs /\ row[drun] = "dispatching"
    BY <1>3 DEF succeed_outbox_dispatch, fail_outbox_dispatch, unknown_outbox_dispatch,
                DispatcherInv, OutboxTypeOK
  <2>2. EventsGrow /\ NoNewRequest
    BY SMT, <1>3, <2>1, AppendGrows
       DEF succeed_outbox_dispatch, fail_outbox_dispatch, unknown_outbox_dispatch
  <2> QED
    BY <1>3, <2>1, <2>2
       DEF succeed_outbox_dispatch, fail_outbox_dispatch, unknown_outbox_dispatch,
           update_run_status, OutboxOnly, OutboxTypeOK, JournalTypeOK
<1>4. ASSUME NEW r \in Runs, recover_unknown_invocation(r) PROVE OutboxOnly
  <2>1. row[r] = "dispatching"
    BY <1>4, RecoveryCandidates DEF recover_unknown_invocation
  <2>2. EventsGrow /\ NoNewRequest
    BY SMT, <1>4, AppendGrows DEF recover_unknown_invocation
  <2> QED
    BY <1>4, <2>1, <2>2 DEF recover_unknown_invocation, update_run_status, OutboxOnly,
                            OutboxTypeOK, JournalTypeOK
<1> QED BY <1>1, <1>2, <1>3, <1>4 DEF OutboxSteps

\* A run with a row, a request or a decision in progress was created for a
\* message.
LEMMA RequestedIsCreated ==
    ASSUME KernelInv, NEW r \in Runs, Has(r, "ApprovalRequested") \/ row[r] # "none"
    PROVE  trigger[r] # NoMsg
BY DEF KernelInv, TriggerInv

\* Steps of the dispatcher and of recovery keep the approval and trigger
\* invariants.
LEMMA OutboxOnlyKeeps ==
    ASSUME KernelInv, OutboxOnly, UNCHANGED <<gatewayVars, workerVars, expiryVars>>
    PROVE  ApprovalInv' /\ TriggerInv'
<1> USE DEF KernelInv, TypeOK, gatewayVars, workerVars, expiryVars
<1>0. \A r \in Runs : /\ Has(r, "ApprovalRequested") <=> Has(r, "ApprovalRequested")'
                      /\ Has(r, "ApprovalGranted") => Has(r, "ApprovalGranted")'
  BY DEF OutboxOnly, EventsGrow, NoNewRequest, Has, Kinds
<1>1. ApprovalInv'
  <2>1. BeforeHandOver => wrun \in Runs
    BY DEF BeforeHandOver, WorkerTypeOK, RunPc
  <2>2. BeforeHandOver' <=> BeforeHandOver
    BY DEF BeforeHandOver, Legacy
  <2>3. (wpc = "pause" => wrun \in Runs) /\ (hpc = "queue" => hrun \in Runs)
    BY DEF WorkerTypeOK, RunPc, GatewayTypeOK, ApprovalPc
  <2>4. \A r \in Runs :
           /\ Has(r, "ApprovalRequested")' => RequireWriteApproval
           /\ status'[r] = "AwaitingApproval" => Has(r, "ApprovalRequested")'
           /\ row'[r] # "none" /\ Has(r, "ApprovalRequested")' => Has(r, "ApprovalGranted")'
    BY <1>0 DEF ApprovalInv, OutboxOnly
  <2> QED
    BY <1>0, <2>1, <2>2, <2>3, <2>4
       DEF ApprovalInv, OutboxOnly, GatewayTypeOK, ExpiryTypeOK
<1>2. TriggerInv'
  BY <1>0 DEF TriggerInv, OutboxOnly
<1> QED BY <1>1, <1>2


\* The runs the threads hold are runs.
LEMMA HeldRuns ==
    ASSUME TypeOK
    PROVE  /\ BeforeHandOver => wrun \in Runs
           /\ wpc \in RunPc => wrun \in Runs
           /\ hpc \in ApprovalPc => hrun \in Runs /\ hrun # NoRun
           /\ hrun # NoRun => hrun \in Runs
           /\ erun # NoRun => erun \in Runs
BY NoRunAssumption
   DEF TypeOK, BeforeHandOver, WorkerTypeOK, RunPc, GatewayTypeOK, ApprovalPc, ExpiryTypeOK

\* A step that changes no run, no row and no request keeps both invariants, as
\* long as the threads keep what they hold or let go of it.
LEMMA LettingGoKeeps ==
    ASSUME KernelInv, UNCHANGED <<events, status, trigger, row>>,
           UNCHANGED workerVars \/ WorkerDone,
           UNCHANGED gatewayVars \/ HandlerDone,
           UNCHANGED expiryVars \/ (elist' = {} /\ erun' = NoRun)
    PROVE  ApprovalInv' /\ TriggerInv'
<1> USE DEF KernelInv
<1>1. BeforeHandOver' => BeforeHandOver /\ UNCHANGED workerVars
  BY DEF BeforeHandOver, Legacy, workerVars, WorkerDone
<1>2. ApprovalInv'
  BY <1>1 DEF ApprovalInv, Has, workerVars, WorkerDone, gatewayVars, HandlerDone, expiryVars
<1>3. TriggerInv'
  BY DEF TriggerInv, Has, workerVars, WorkerDone
<1> QED BY <1>2, <1>3

\* The accept loop keeps both invariants: a decision is taken on a run that
\* asked for it, and the grant is recorded before the reply is queued.
LEMMA HandlerKeeps ==
    ASSUME KernelInv,
           \/ \E m \in Msgs : IngressReserve(m)
           \/ \E r \in Runs : ApproveRead(r) \/ DenyRead(r)
           \/ HandlerStep
           \/ HandlerError,
           UNCHANGED workerVars, UNCHANGED expiryVars
    PROVE  ApprovalInv' /\ TriggerInv'
<1> USE HeldRuns DEF KernelInv
<1>0. /\ BeforeHandOver' <=> BeforeHandOver
      /\ UNCHANGED <<wpc, wmsg, wrun, elist, erun>>
  BY DEF BeforeHandOver, Legacy, workerVars, expiryVars
<1>1. ASSUME NEW m \in Msgs, IngressReserve(m) PROVE ApprovalInv' /\ TriggerInv'
  BY <1>0, <1>1 DEF IngressReserve, journalVars, outboxVars, ApprovalInv, TriggerInv, Has
<1>2. ASSUME NEW r \in Runs, ApproveRead(r) \/ DenyRead(r)
      PROVE  ApprovalInv' /\ TriggerInv'
  BY SMT, <1>0, <1>2 DEF ApproveRead, DenyRead, journalVars, outboxVars, ApprovalInv, TriggerInv,
     Has
<1>3. CASE ApproveGrant \/ DenyAppend
  <2>1. hrun \in Runs
    BY <1>3 DEF ApproveGrant, DenyAppend, ApprovalPc
  <2>2. EventsGrow /\ NoNewRequest
    BY SMT, <1>3, <2>1, AppendGrows DEF ApproveGrant, DenyAppend, TypeOK
  <2>3. hpc' = "queue" => events'[hrun]["ApprovalGranted"] > 0
    BY SMT, <1>3, <2>1, AppendEffect DEF ApproveGrant, DenyAppend, TypeOK, JournalTypeOK, Kinds
  <2>4. \A r \in Runs : /\ Has(r, "ApprovalRequested") <=> Has(r, "ApprovalRequested")'
                        /\ Has(r, "ApprovalGranted") => Has(r, "ApprovalGranted")'
    BY <2>2 DEF EventsGrow, NoNewRequest, Has, Kinds
  <2>5. UNCHANGED <<status, trigger, row, hrun>>
    BY <1>3 DEF ApproveGrant, DenyAppend, outboxVars
  <2>6. hpc' = "queue" => Has(hrun, "ApprovalGranted")'
    BY <2>3, <2>5 DEF Has
  <2>7. ApprovalInv'
    BY <1>0, <2>1, <2>4, <2>5, <2>6 DEF ApprovalInv, TypeOK, ExpiryTypeOK, RunPc
  <2>8. TriggerInv'
    BY <1>0, <2>4, <2>5 DEF TriggerInv
  <2> QED BY <2>7, <2>8
<1>4. CASE ApproveQueue
  <2>1. hrun \in Runs /\ Has(hrun, "ApprovalRequested") /\ Has(hrun, "ApprovalGranted")
    BY <1>4 DEF ApproveQueue, ApprovalPc, ApprovalInv
  <2>2. EventsGrow /\ NoNewRequest
    BY <1>4, <2>1, QueueGrows DEF ApproveQueue, TypeOK
  <2>3. \A r \in Runs : /\ Has(r, "ApprovalRequested") <=> Has(r, "ApprovalRequested")'
                        /\ Has(r, "ApprovalGranted") => Has(r, "ApprovalGranted")'
    BY <2>2 DEF EventsGrow, NoNewRequest, Has, Kinds
  <2>4. \A r \in Runs : r # hrun => row'[r] = row[r]
    BY <1>4, <2>1 DEF ApproveQueue, queue_outbox_dispatch, TypeOK, OutboxTypeOK
  <2>5. UNCHANGED <<status, trigger, hrun>> /\ hpc' = "resume"
    BY <1>4 DEF ApproveQueue
  <2>6. ApprovalInv'
    BY <1>0, <2>1, <2>3, <2>4, <2>5 DEF ApprovalInv, TypeOK, ExpiryTypeOK, RunPc
  <2>7. TriggerInv'
    BY <1>0, <2>1, <2>3, <2>4, <2>5 DEF TriggerInv
  <2> QED BY <2>6, <2>7
<1>5. CASE ApproveResume \/ DenyFail
  <2>1. hrun \in Runs /\ trigger[hrun] # NoMsg
    BY <1>5, RequestedIsCreated DEF ApproveResume, DenyFail, ApprovalPc, ApprovalInv
  <2>2. PICK st \in {"WaitingDispatch", "Failed"} : status' = [status EXCEPT ![hrun] = st]
    BY <1>5 DEF ApproveResume, DenyFail, fail_run, update_run_status
  <2>3. UNCHANGED <<events, trigger, row>> /\ HandlerDone
    BY <1>5 DEF ApproveResume, DenyFail, outboxVars
  <2>4. ApprovalInv'
    BY <1>0, <2>1, <2>2, <2>3 DEF ApprovalInv, HandlerDone, Has, TypeOK, JournalTypeOK
  <2>5. TriggerInv'
    BY <1>0, <2>1, <2>2, <2>3 DEF TriggerInv, Has, TypeOK, JournalTypeOK
  <2> QED BY <2>4, <2>5
<1>6. CASE IngressAccept \/ HandlerError
  BY <1>6, LettingGoKeeps DEF IngressAccept, HandlerError, journalVars, outboxVars
<1> QED BY <1>1, <1>2, <1>3, <1>4, <1>5, <1>6 DEF HandlerStep

\* The sweep keeps both invariants: its list holds runs that asked.
LEMMA ExpiryKeeps ==
    ASSUME KernelInv,
           \/ \E S \in SUBSET Runs : stale_approvals_since(S)
           \/ \E r \in Runs : ExpireAppend(r)
           \/ ExpireFail
           \/ ExpiryError,
           UNCHANGED row, UNCHANGED workerVars, UNCHANGED gatewayVars
    PROVE  ApprovalInv' /\ TriggerInv'
<1> USE HeldRuns DEF KernelInv
<1>0. /\ BeforeHandOver' <=> BeforeHandOver
      /\ UNCHANGED <<wpc, wmsg, wrun, hpc, hmsg, hrun>>
  BY DEF BeforeHandOver, Legacy, workerVars, gatewayVars
<1>1. ASSUME NEW S \in SUBSET Runs, stale_approvals_since(S)
      PROVE  ApprovalInv' /\ TriggerInv'
  <2>1. \A r \in S : Has(r, "ApprovalRequested")
    BY <1>1 DEF stale_approvals_since, OpenApprovals
  <2> QED
    BY <1>0, <1>1, <2>1 DEF stale_approvals_since, journalVars, ApprovalInv, TriggerInv, Has
<1>2. ASSUME NEW r \in Runs, ExpireAppend(r) PROVE ApprovalInv' /\ TriggerInv'
  <2>1. EventsGrow /\ NoNewRequest
    BY SMT, <1>2, AppendGrows DEF ExpireAppend, TypeOK
  <2>2. \A q \in Runs : /\ Has(q, "ApprovalRequested") <=> Has(q, "ApprovalRequested")'
                        /\ Has(q, "ApprovalGranted") => Has(q, "ApprovalGranted")'
    BY <2>1 DEF EventsGrow, NoNewRequest, Has, Kinds
  <2>3. /\ UNCHANGED <<status, trigger>>
        /\ erun' = r /\ r \in elist
        /\ \A q \in elist' : q \in elist
    BY <1>2 DEF ExpireAppend
  <2>4. ApprovalInv'
    <3>1. \A q \in Runs :
             /\ Has(q, "ApprovalRequested")' => RequireWriteApproval
             /\ status'[q] = "AwaitingApproval" => Has(q, "ApprovalRequested")'
             /\ row'[q] # "none" /\ Has(q, "ApprovalRequested")' => Has(q, "ApprovalGranted")'
      BY <2>2, <2>3 DEF ApprovalInv
    <3> QED BY <1>0, <2>2, <2>3, <3>1 DEF ApprovalInv, TypeOK, ExpiryTypeOK, RunPc, ApprovalPc
  <2>5. TriggerInv'
    BY <1>0, <2>2, <2>3 DEF TriggerInv
  <2> QED BY <2>4, <2>5
<1>3. CASE ExpireFail
  <2>1. erun \in Runs /\ trigger[erun] # NoMsg
    BY <1>3, RequestedIsCreated DEF ExpireFail, ApprovalInv
  <2>2. /\ status' = [status EXCEPT ![erun] = "Failed"]
        /\ UNCHANGED <<events, trigger, elist>>
        /\ erun' = NoRun
    BY <1>3 DEF ExpireFail, fail_run, update_run_status
  <2>3. ApprovalInv'
    BY <1>0, <2>1, <2>2 DEF ApprovalInv, Has, TypeOK, JournalTypeOK
  <2>4. TriggerInv'
    BY <1>0, <2>1, <2>2 DEF TriggerInv, Has, TypeOK, JournalTypeOK
  <2> QED BY <2>3, <2>4
<1>4. CASE ExpiryError
  BY <1>4, LettingGoKeeps DEF ExpiryError, journalVars
<1> QED BY <1>1, <1>2, <1>3, <1>4

-----------------------------------------------------------------------------
(* The worker: it creates one run per message, and hands a reply over      *)
(* either to the outbox or to an approval.                                 *)

\* A worker step that only moves on keeps both invariants, if it does not
\* return to a stage before the hand-over.
LEMMA MovingOnKeeps ==
    ASSUME KernelInv, UNCHANGED <<events, status, trigger, row>>,
           UNCHANGED gatewayVars, UNCHANGED expiryVars,
           UNCHANGED <<wmsg, wrun>> \/ (wrun = NoRun /\ wrun' = NoRun),
           BeforeHandOver' => BeforeHandOver /\ UNCHANGED wrun,
           wpc' # "pause"
    PROVE  ApprovalInv' /\ TriggerInv'
<1> USE DEF KernelInv, gatewayVars, expiryVars
<1>1. ApprovalInv'
  BY DEF ApprovalInv, Has
<1>2. TriggerInv'
  BY DEF TriggerInv, Has
<1> QED BY <1>1, <1>2

\* The worker keeps both invariants: it creates one run per message, asks for
\* approval before the reply has a row, and queues without asking only where
\* no approval is required or the run has failed.
LEMMA WorkerKeeps ==
    ASSUME KernelInv, WorkerStep \/ WorkerError, UNCHANGED gatewayVars, UNCHANGED expiryVars
    PROVE  ApprovalInv' /\ TriggerInv'
<1> USE HeldRuns DEF KernelInv
<1>0. UNCHANGED <<hpc, hmsg, hrun, elist, erun>>
  BY DEF gatewayVars, expiryVars
<1>1. CASE \/ \E m \in Msgs : LeaseJob(m)
           \/ SessionReady \/ NoRunError \/ InsertRunConflict \/ ModelReply
           \/ ModelFailure \/ BudgetExhausted \/ LegacyError \/ FailJob
  <2>1. UNCHANGED <<events, status, trigger, row>> /\ wpc' # "pause"
    BY <1>1 DEF LeaseJob, SessionReady, NoRunError, InsertRunConflict, ModelReply, ModelFailure,
                BudgetExhausted, LegacyError, FailJob, Goto, journalVars, outboxVars
  <2>3. UNCHANGED <<wmsg, wrun>> \/ (wrun = NoRun /\ wrun' = NoRun)
    <3>1. CASE \E m \in Msgs : LeaseJob(m)
      BY <3>1 DEF LeaseJob, TypeOK, WorkerTypeOK
    <3>2. CASE \/ SessionReady \/ NoRunError \/ InsertRunConflict \/ ModelReply
               \/ ModelFailure \/ BudgetExhausted \/ LegacyError \/ FailJob
      BY <3>2 DEF SessionReady, NoRunError, InsertRunConflict, ModelReply, ModelFailure,
                  BudgetExhausted, LegacyError, FailJob, Goto
    <3> QED BY <1>1, <3>1, <3>2
  <2>2. BeforeHandOver' => BeforeHandOver /\ UNCHANGED wrun
    BY <1>1 DEF LeaseJob, SessionReady, NoRunError, InsertRunConflict, ModelReply, ModelFailure,
                BudgetExhausted, LegacyError, FailJob, Goto, BeforeHandOver, Legacy
  <2> QED BY <2>1, <2>2, <2>3, MovingOnKeeps
<1>2. CASE SucceedJob \/ FailJobMark
  BY <1>2, LettingGoKeeps DEF SucceedJob, FailJobMark, journalVars, outboxVars
<1>3. CASE WorkerError
  <2>1. UNCHANGED <<events, status, trigger, row>>
    BY <1>3 DEF WorkerError, journalVars, outboxVars
  <2>2. CASE wpc \in {"ok", "errmark"}
    <3>1. WorkerDone
      BY <1>3, <2>2 DEF WorkerError, StatusReadError
    <3> QED BY <2>1, <3>1, LettingGoKeeps
  <2>3. CASE wpc \notin {"ok", "errmark"} /\ ~StatusReadError
    <3>1. Goto(ErrorTarget)
      BY <1>3, <2>3 DEF WorkerError
    <3>2. \/ ErrorTarget \in {"err", "errmark"}
          \/ ErrorTarget = "fail" /\ ~Legacy
          \/ ErrorTarget \in {"termmark", "notify", "enqueue"} /\ wpc \in {"terminate", "termmark"}
      BY DEF ErrorTarget, AfterTerminate
    <3>3. BeforeHandOver' => BeforeHandOver /\ UNCHANGED wrun
      BY <3>1, <3>2 DEF Goto, BeforeHandOver, Legacy
    <3> QED BY <2>1, <3>1, <3>2, <3>3, MovingOnKeeps DEF Goto
  <2>4. CASE StatusReadError
    <3>1. BeforeHandOver' => BeforeHandOver /\ UNCHANGED wrun
      BY <2>4 DEF StatusReadError, Goto, BeforeHandOver
    <3> QED BY <2>1, <2>4, <3>1, MovingOnKeeps DEF StatusReadError, Goto
  <2> QED BY <2>2, <2>3, <2>4
<1>4. ASSUME NEW r \in Runs, InsertRun(r) PROVE ApprovalInv' /\ TriggerInv'
  <2>1. /\ trigger[r] = NoMsg
        /\ \A q \in Runs : trigger[q] # wmsg
        /\ trigger' = [trigger EXCEPT ![r] = wmsg]
        /\ status' = [status EXCEPT ![r] = "Running"]
        /\ UNCHANGED <<events, row, wmsg>>
        /\ wpc' = "start" /\ wrun' = r
    BY <1>4 DEF InsertRun, insert_run, HasRun, update_run_status, outboxVars
  <2>2. status[r] = "none" /\ row[r] = "none" /\ ~Has(r, "ApprovalRequested")
    BY <2>1 DEF TriggerInv
  <2>3. ApprovalInv'
    <3>1. \A q \in Runs : status'[q] = "AwaitingApproval" => status[q] = "AwaitingApproval"
      BY <2>1 DEF TypeOK, JournalTypeOK
    <3>2. ~Has(wrun, "ApprovalRequested")' /\ row'[wrun'] = "none"
      BY <2>1, <2>2 DEF Has
    <3> QED BY <1>0, <2>1, <3>1, <3>2 DEF ApprovalInv, Has
  <2>4. TriggerInv'
    BY <2>1, <2>2 DEF TriggerInv, Has, TypeOK, JournalTypeOK
  <2> QED BY <2>3, <2>4
<1>5. CASE RunStarted \/ RunFailed \/ RunBudgetTerminated
  <2>1. wrun \in Runs
    BY <1>5 DEF RunStarted, RunFailed, RunBudgetTerminated, RunPc
  <2>2. EventsGrow /\ NoNewRequest
    BY SMT, <1>5, <2>1, AppendGrows DEF RunStarted, RunFailed, RunBudgetTerminated, TypeOK
  <2>3. \A q \in Runs : /\ Has(q, "ApprovalRequested") <=> Has(q, "ApprovalRequested")'
                        /\ Has(q, "ApprovalGranted") => Has(q, "ApprovalGranted")'
    BY <2>2 DEF EventsGrow, NoNewRequest, Has, Kinds
  <2>4. UNCHANGED <<status, trigger, row, wmsg, wrun>> /\ wpc' # "pause"
    BY <1>5 DEF RunStarted, RunFailed, RunBudgetTerminated, AfterTerminate, Goto, outboxVars
  <2>5. BeforeHandOver' => BeforeHandOver
    BY <1>5 DEF RunStarted, RunFailed, RunBudgetTerminated, AfterTerminate, Goto,
                BeforeHandOver, Legacy
  <2>6. ApprovalInv'
    BY <1>0, <2>1, <2>3, <2>4, <2>5 DEF ApprovalInv, TypeOK, ExpiryTypeOK, ApprovalPc
  <2>7. TriggerInv'
    BY <2>3, <2>4 DEF TriggerInv
  <2> QED BY <2>6, <2>7
<1>6. CASE EnqueueOrPause /\ RequireWriteApproval
  <2>1. /\ wrun \in Runs /\ trigger[wrun] # NoMsg
        /\ row[wrun] = "none"
    BY <1>6, NoRunAssumption, NoMsgAssumption
       DEF EnqueueOrPause, RunPc, ApprovalInv, BeforeHandOver, TriggerInv, TypeOK, WorkerTypeOK
  <2>2. /\ append_event(wrun, {"ApprovalRequested"})
        /\ wpc' = "pause"
        /\ UNCHANGED <<status, trigger, row, wmsg, wrun>>
    BY <1>6 DEF EnqueueOrPause, Goto
  <2>3. \A q \in Runs, k \in Kinds :
           events'[q][k] = IF q = wrun /\ k = "ApprovalRequested" THEN events[q][k] + 1
                           ELSE events[q][k]
    BY SMT, <2>1, <2>2, AppendEffect DEF TypeOK
  <2>4. /\ \A q \in Runs : /\ Has(q, "ApprovalRequested") => Has(q, "ApprovalRequested")'
                           /\ q # wrun => (Has(q, "ApprovalRequested")' => Has(q, "ApprovalRequested"))
                           /\ Has(q, "ApprovalGranted") => Has(q, "ApprovalGranted")'
        /\ Has(wrun, "ApprovalRequested")'
    BY SMT, <2>1, <2>2, <2>3 DEF Has, Kinds, TypeOK, JournalTypeOK
  <2>5. ~BeforeHandOver'
    BY <2>2 DEF BeforeHandOver
  <2>6. ApprovalInv'
    BY <1>0, <1>6, <2>1, <2>2, <2>4, <2>5 DEF ApprovalInv, TypeOK, ExpiryTypeOK, ApprovalPc
  <2>7. TriggerInv'
    BY <2>1, <2>2, <2>4 DEF TriggerInv
  <2> QED BY <2>6, <2>7
<1>7. CASE (EnqueueOrPause /\ ~RequireWriteApproval) \/ FailureNotice
  <2>1. /\ wrun \in Runs /\ trigger[wrun] # NoMsg
        /\ ~Has(wrun, "ApprovalRequested")
    BY <1>7, NoRunAssumption, NoMsgAssumption
       DEF EnqueueOrPause, FailureNotice, RunPc, ApprovalInv, BeforeHandOver, TriggerInv,
           TypeOK, WorkerTypeOK
  <2>2. /\ queue_outbox_dispatch(wrun)
        /\ wpc' \in {"waiting", "ok"}
        /\ UNCHANGED <<status, trigger, wmsg, wrun>>
    BY <1>7 DEF EnqueueOrPause, FailureNotice, Goto
  <2>3. EventsGrow /\ NoNewRequest
    BY <2>1, <2>2, QueueGrows DEF TypeOK
  <2>4. \A q \in Runs : /\ Has(q, "ApprovalRequested") <=> Has(q, "ApprovalRequested")'
                        /\ Has(q, "ApprovalGranted") => Has(q, "ApprovalGranted")'
    BY <2>3 DEF EventsGrow, NoNewRequest, Has, Kinds
  <2>5. \A q \in Runs : q # wrun => row'[q] = row[q]
    BY <2>1, <2>2 DEF queue_outbox_dispatch, TypeOK, OutboxTypeOK
  <2>6. ~BeforeHandOver'
    BY <2>2 DEF BeforeHandOver
  <2>7. ApprovalInv'
    BY <1>0, <2>1, <2>2, <2>4, <2>5, <2>6 DEF ApprovalInv, TypeOK, ExpiryTypeOK, ApprovalPc
  <2>8. TriggerInv'
    BY <2>1, <2>2, <2>4, <2>5 DEF TriggerInv
  <2> QED BY <2>7, <2>8
<1>8. CASE Yield \/ PauseStatus \/ WaitingStatus \/ V0Complete \/ FailRun \/ TerminateRun
  <2>1. wrun \in Runs /\ trigger[wrun] # NoMsg
    BY <1>8, NoRunAssumption, NoMsgAssumption
       DEF Yield, PauseStatus, WaitingStatus, V0Complete, FailRun, TerminateRun, RunPc,
           TriggerInv, TypeOK, WorkerTypeOK
  <2>2. PICK st \in RunStatus : /\ status' = [status EXCEPT ![wrun] = st]
                                /\ st = "AwaitingApproval" => wpc = "pause"
    BY <1>8 DEF Yield, PauseStatus, WaitingStatus, V0Complete, FailRun, TerminateRun,
                complete_run, fail_run, update_run_status, RunStatus
  <2>3. UNCHANGED <<events, trigger, row, wmsg, wrun>> /\ wpc' # "pause"
    BY <1>8 DEF Yield, PauseStatus, WaitingStatus, V0Complete, FailRun, TerminateRun,
                AfterEnqueue, Goto, outboxVars
  <2>4. BeforeHandOver' => BeforeHandOver
    BY <1>8 DEF Yield, PauseStatus, WaitingStatus, V0Complete, FailRun, TerminateRun,
                AfterEnqueue, Goto, BeforeHandOver, Legacy
  <2>5. ApprovalInv'
    BY <1>0, <2>1, <2>2, <2>3, <2>4 DEF ApprovalInv, Has, TypeOK, JournalTypeOK
  <2>6. TriggerInv'
    BY <2>1, <2>2, <2>3 DEF TriggerInv, Has, TypeOK, JournalTypeOK
  <2> QED BY <2>5, <2>6
<1>9. WorkerStep => \/ \E m \in Msgs : LeaseJob(m)
                    \/ \E r \in Runs : InsertRun(r)
                    \/ SessionReady \/ NoRunError \/ InsertRunConflict \/ ModelReply
                    \/ ModelFailure \/ BudgetExhausted \/ LegacyError \/ FailJob
                    \/ SucceedJob \/ FailJobMark
                    \/ RunStarted \/ RunFailed \/ RunBudgetTerminated
                    \/ EnqueueOrPause \/ FailureNotice
                    \/ Yield \/ PauseStatus \/ WaitingStatus \/ V0Complete \/ FailRun
                    \/ TerminateRun
  BY DEF WorkerStep
<1> QED BY <1>1, <1>2, <1>3, <1>4, <1>5, <1>6, <1>7, <1>8, <1>9

-----------------------------------------------------------------------------
(* The invariant as a whole, and its consequences.                         *)

\* The invariant holds when the kernel first starts.
LEMMA KernelInvInit == Init => KernelInv
<1> SUFFICES ASSUME Init PROVE KernelInv
  OBVIOUS
<1>1. /\ \A r \in Runs, k \in Kinds : events[r][k] = 0
      /\ \A r \in Runs : /\ status[r] = "none"
                         /\ trigger[r] = NoMsg
                         /\ row[r] = "none"
                         /\ calls[r] = 0
      /\ dpc = "idle" /\ wpc = "idle" /\ wrun = NoRun /\ hpc = "idle" /\ hrun = NoRun
      /\ elist = {} /\ erun = NoRun
  BY DEF Init, JournalInit, OutboxInit, GatewayInit, WorkerInit, ExpiryInit
<1>2. DispatcherInv
  BY <1>1 DEF DispatcherInv
<1>3. RowInv
  BY SMT, <1>1 DEF RowInv, Has, Kinds
<1>4. ApprovalInv
  BY SMT, <1>1 DEF ApprovalInv, BeforeHandOver, Has, Kinds
<1>5. TriggerInv
  BY SMT, <1>1 DEF TriggerInv, Has, Kinds
<1> QED BY <1>2, <1>3, <1>4, <1>5, TypeInit DEF KernelInv

\* Every thread step, startup step, journal error and crash keeps the
\* invariant.
LEMMA KernelInvNext == KernelInv /\ [Next]_vars => KernelInv'
<1> SUFFICES ASSUME KernelInv, [Next]_vars PROVE KernelInv'
  OBVIOUS
<1>1. TypeOK'
  BY TypeNext DEF KernelInv
<1>2. RowInv' /\ DispatcherInv'
  BY OutboxInvNext
<1>3. ApprovalInv' /\ TriggerInv'
  <2>1. CASE Restart \/ StartThreads \/ UNCHANGED vars
    BY <2>1, LettingGoKeeps DEF Restart, StartThreads, vars, journalVars, outboxVars
  <2>2. ASSUME NEW r \in Runs, RecoverUnknown(r) PROVE ApprovalInv' /\ TriggerInv'
    BY <2>2, OutboxStepsOnly, OutboxOnlyKeeps DEF RecoverUnknown
  <2>3. CASE RepairStaleRows
    BY <2>3, RecoveryCandidates, LettingGoKeeps
       DEF RepairStaleRows, repair_stale_dispatching, journalVars, KernelInv
  <2>4. ASSUME NEW S \in SUBSET Runs, StartupExpiry(S) PROVE ApprovalInv' /\ TriggerInv'
    BY <2>4, ExpiryKeeps DEF StartupExpiry, outboxVars
  <2>5. CASE Dispatcher
    BY <2>5, OutboxStepsOnly, OutboxOnlyKeeps DEF Dispatcher, OutboxSteps
  <2>6. CASE Worker
    BY <2>6, WorkerKeeps DEF Worker
  <2>7. CASE Request \/ Handler
    BY <2>7, HandlerKeeps DEF Request, Handler
  <2>8. CASE Sweep \/ Expire
    BY <2>8, ExpiryKeeps DEF Sweep, Expire, outboxVars
  <2>9. CASE JournalError
    <3>1. CASE dispatch_once_error /\ UNCHANGED <<queueVars, gatewayVars, workerVars, expiryVars>>
      BY <3>1, LettingGoKeeps DEF dispatch_once_error
    <3>2. CASE WorkerError /\ UNCHANGED <<gatewayVars, expiryVars>>
      BY <3>2, WorkerKeeps
    <3>3. CASE HandlerError /\ UNCHANGED <<workerVars, expiryVars>>
      BY <3>3, HandlerKeeps
    <3>4. CASE ExpiryError /\ UNCHANGED <<outboxVars, queueVars, gatewayVars, workerVars>>
      BY <3>4, ExpiryKeeps DEF outboxVars
    <3> QED BY <2>9, <3>1, <3>2, <3>3, <3>4 DEF JournalError
  <2>10. CASE Crash
    BY <2>10, LettingGoKeeps DEF Crash, journalVars
  <2> QED
    BY <2>1, <2>2, <2>3, <2>4, <2>5, <2>6, <2>7, <2>8, <2>9, <2>10 DEF Next, Startup
<1> QED BY <1>1, <1>2, <1>3 DEF KernelInv

\* The inductive invariant holds in every state the kernel reaches.
THEOREM KernelInvariantHolds == Spec => []KernelInv
BY KernelInvInit, KernelInvNext, PTL DEF Spec

\* The outbox projection never drifts from the journal and no reply has two
\* terminal facts, through every interleaving, journal error and crash.
THEOREM ProjectionNeverDrifts == Spec => []RowMatchesJournal
<1>1. KernelInv => RowMatchesJournal
  <2> SUFFICES ASSUME KernelInv, NEW r \in Runs
               PROVE  /\ row[r] = RowOfFate[Fate[r]]
                      /\ \A k \in TerminalFact :
                            /\ events[r][k] <= 1
                            /\ \A l \in TerminalFact \ {k} : ~(Has(r, k) /\ Has(r, l))
    BY DEF RowMatchesJournal
  <2>1. row[r] \in RowStatus
    BY DEF KernelInv, TypeOK, OutboxTypeOK
  <2>2. row[r] = RowOfFate[Fate[r]]
    <3>1. /\ Has(r, "OutboxQueued") <=> row[r] # "none"
          /\ Has(r, "DispatchStarted") <=> row[r] \notin {"none", "pending"}
          /\ Has(r, "ReceiptSucceeded") <=> row[r] = "succeeded"
          /\ Has(r, "ReceiptFailed") <=> row[r] = "failed"
          /\ Has(r, "OutboxDispatchUnknown") <=> row[r] = "unknown"
      BY SMT DEF KernelInv, RowInv, Has
    <3>2. Fate[r] = IF row[r] = "unknown" THEN "unknown"
                    ELSE IF row[r] = "failed" THEN "rejected"
                    ELSE IF row[r] = "succeeded" THEN "delivered"
                    ELSE IF row[r] \notin {"none", "pending"} THEN "claimed"
                    ELSE IF row[r] # "none" THEN "queued"
                    ELSE "idle"
      BY <3>1 DEF Fate
    <3> QED BY SMT, <2>1, <3>2 DEF RowOfFate, RowStatus
  <2>3. \A k \in TerminalFact :
           events[r][k] <= 1 /\ \A l \in TerminalFact \ {k} : ~(Has(r, k) /\ Has(r, l))
    <3>1. /\ events[r]["ReceiptSucceeded"] = IF row[r] = "succeeded" THEN 1 ELSE 0
          /\ events[r]["ReceiptFailed"] = IF row[r] = "failed" THEN 1 ELSE 0
          /\ events[r]["OutboxDispatchUnknown"] = IF row[r] = "unknown" THEN 1 ELSE 0
      BY DEF KernelInv, RowInv
    <3> QED BY SMT, <3>1 DEF Has, TerminalFact
  <2> QED BY <2>2, <2>3
<1> QED BY <1>1, KernelInvariantHolds, PTL

\* No message is answered twice, however often its job is leased.
THEOREM NoSecondReply == Spec => []AtMostOneDispatchPerMessage
<1>1. KernelInv => AtMostOneDispatchPerMessage
  <2> SUFFICES ASSUME KernelInv, NEW r \in Runs, NEW q \in Runs,
                      calls[r] > 0, calls[q] > 0, trigger[r] = trigger[q]
               PROVE  r = q /\ calls[r] = 1
    BY DEF AtMostOneDispatchPerMessage
  <2>1. row[r] # "none" /\ calls[r] = 1
    BY SMT DEF KernelInv, RowInv, TypeOK, OutboxTypeOK
  <2>2. trigger[r] # NoMsg
    BY <2>1, RequestedIsCreated
  <2> QED BY <2>1, <2>2 DEF KernelInv, TriggerInv
<1> QED BY <1>1, KernelInvariantHolds, PTL

\* A reply that was put up for approval is sent only after it was granted.
THEOREM GrantBeforeSending == Spec => []PausedReplyNeedsGrant
<1>1. KernelInv => PausedReplyNeedsGrant
  <2> SUFFICES ASSUME KernelInv, NEW r \in Runs, calls[r] > 0, Has(r, "ApprovalRequested")
               PROVE  Has(r, "ApprovalGranted")
    BY DEF PausedReplyNeedsGrant
  <2>1. row[r] # "none"
    BY SMT DEF KernelInv, RowInv
  <2> QED BY <2>1 DEF KernelInv, ApprovalInv
<1> QED BY <1>1, KernelInvariantHolds, PTL

-----------------------------------------------------------------------------
(* Refinement of the reply contract *)

FateOfRow(x) ==
    IF x = "unknown" THEN "unknown"
    ELSE IF x = "failed" THEN "rejected"
    ELSE IF x = "succeeded" THEN "delivered"
    ELSE IF x = "dispatching" THEN "claimed"
    ELSE IF x = "pending" THEN "queued"
    ELSE "idle"

\* Before and after a step, the journal's account of a reply is what the
\* projection's status says.
LEMMA FateByRow ==
    ASSUME KernelInv, KernelInv'
    PROVE  /\ Fate = [r \in Runs |-> FateOfRow(row[r])]
           /\ Fate' = [r \in Runs |-> FateOfRow(row'[r])]
<1>1. \A r \in Runs : row[r] \in RowStatus /\ row'[r] \in RowStatus
  BY DEF KernelInv, TypeOK, OutboxTypeOK
<1>2. Fate = [r \in Runs |-> FateOfRow(row[r])]
  BY SMT, <1>1 DEF KernelInv, RowInv, Fate, FateOfRow, Has, RowStatus
<1>3. Fate' = [r \in Runs |-> FateOfRow(row'[r])]
  BY SMT, <1>1 DEF KernelInv, RowInv, Fate, FateOfRow, Has, RowStatus
<1> QED BY <1>2, <1>3

\* Moving one row moves the fate of that reply and no other.
LEMMA RowMove ==
    ASSUME KernelInv, KernelInv', NEW r \in Runs, NEW x \in RowStatus,
           row' = [row EXCEPT ![r] = x], UNCHANGED calls
    PROVE  Contract!Move(r, FateOfRow(row[r]), FateOfRow(x))
<1>1. Fate' = [Fate EXCEPT ![r] = FateOfRow(x)]
  BY FateByRow DEF KernelInv, TypeOK, OutboxTypeOK
<1>2. Fate[r] = FateOfRow(row[r])
  BY FateByRow
<1> QED BY <1>1, <1>2 DEF Contract!Move

\* An empty journal maps to a contract in which every reply is idle.
LEMMA ContractInit == Init => Contract!Init
<1> SUFFICES ASSUME Init PROVE Contract!Init
  OBVIOUS
<1>1. \A r \in Runs, k \in Kinds : events[r][k] = 0
  BY DEF Init, JournalInit
<1>2. Fate = [r \in Runs |-> "idle"]
  BY SMT, <1>1 DEF Fate, Has, Kinds
<1> QED BY <1>2 DEF Init, OutboxInit, Contract!Init

\* Every kernel step is a step of the contract or leaves fates and attempts
\* alone.
LEMMA ContractStep ==
    ASSUME KernelInv, KernelInv', [Next]_vars
    PROVE  [Contract!Next]_<<Fate, calls>>
<1> USE NoRunAssumption
<1>0. UNCHANGED <<row, calls>> => UNCHANGED <<Fate, calls>>
  BY FateByRow
<1>1. CASE OutboxUntouched \/ (DispatcherDone /\ UNCHANGED <<events, row, calls>>)
  BY <1>0, <1>1 DEF OutboxUntouched, outboxVars
<1>2. ASSUME NEW r \in Runs, Queued(r) PROVE [Contract!Next]_<<Fate, calls>>
  <2>1. CASE row[r] # "none"
    BY <1>0, <1>2, <2>1 DEF Queued, queue_outbox_dispatch
  <2>2. CASE row[r] = "none"
    <3>1. row' = [row EXCEPT ![r] = "pending"] /\ UNCHANGED calls
      BY <1>2, <2>2 DEF Queued, queue_outbox_dispatch
    <3>2. Contract!Queue(r)
      BY <2>2, <3>1, RowMove DEF Contract!Queue, FateOfRow, RowStatus
    <3> QED BY <3>2 DEF Contract!Next
  <2> QED BY <2>1, <2>2
<1>3. ASSUME NEW r \in Runs, lease_next_outbox_dispatch(r)
      PROVE  [Contract!Next]_<<Fate, calls>>
  <2>1. Contract!Claim(r)
    BY <1>3, RowMove DEF lease_next_outbox_dispatch, Contract!Claim, FateOfRow, RowStatus
  <2> QED BY <2>1 DEF Contract!Next
<1>4. CASE adapter_execute
  <2>1. drun \in Runs /\ row[drun] = "dispatching" /\ calls[drun] = 0
    BY <1>4 DEF adapter_execute, KernelInv, DispatcherInv, TypeOK, OutboxTypeOK
  <2>2. Fate[drun] = "claimed" /\ UNCHANGED Fate
    BY <1>4, <2>1, FateByRow DEF adapter_execute, FateOfRow
  <2>3. calls' = [calls EXCEPT ![drun] = 1]
    BY SMT, <1>4, <2>1 DEF adapter_execute
  <2>4. Contract!Attempt(drun)
    BY <2>1, <2>2, <2>3 DEF Contract!Attempt
  <2> QED BY <2>1, <2>4 DEF Contract!Next
<1>5. CASE succeed_outbox_dispatch \/ fail_outbox_dispatch \/ unknown_outbox_dispatch
  <2>1. drun \in Runs /\ row[drun] = "dispatching" /\ calls[drun] = 1
    BY <1>5 DEF succeed_outbox_dispatch, fail_outbox_dispatch, unknown_outbox_dispatch,
                KernelInv, DispatcherInv, TypeOK, OutboxTypeOK
  <2>2. PICK x \in TerminalRow : row' = [row EXCEPT ![drun] = x] /\ UNCHANGED calls
    BY <1>5, <2>1 DEF succeed_outbox_dispatch, fail_outbox_dispatch, unknown_outbox_dispatch,
                      TerminalRow
  <2>3. Contract!Conclude(drun, FateOfRow(x))
    BY <2>1, <2>2, RowMove DEF Contract!Conclude, FateOfRow, RowStatus, TerminalRow
  <2>4. FateOfRow(x) \in {"delivered", "rejected", "unknown"}
    BY DEF FateOfRow, TerminalRow
  <2> QED BY <2>1, <2>3, <2>4 DEF Contract!Next
<1>6. ASSUME NEW r \in Runs, recover_unknown_invocation(r)
      PROVE  [Contract!Next]_<<Fate, calls>>
  <2>1. row[r] = "dispatching"
    BY <1>6, RecoveryCandidates DEF recover_unknown_invocation, KernelInv
  <2>2. Contract!Conclude(r, "unknown")
    BY <1>6, <2>1, RowMove DEF recover_unknown_invocation, Contract!Conclude, FateOfRow, RowStatus
  <2> QED BY <2>2 DEF Contract!Next
<1> QED
  BY <1>1, <1>2, <1>3, <1>4, <1>5, <1>6, StepClass DEF OutboxClass, OutboxSteps

\* The kernel implements the reply contract: whatever the threads, journal
\* errors and crashes do, every reply is queued, claimed and attempted at most
\* once, and its verdict is final.
THEOREM KernelKeepsContract == Spec => ContractKept
<1>1. KernelInv /\ KernelInv' /\ [Next]_vars => [Contract!Next]_<<Fate, calls>>
  BY ContractStep
<1> QED
  BY <1>1, ContractInit, KernelInvariantHolds, PTL DEF Spec, ContractKept, Contract!Spec

-----------------------------------------------------------------------------
(* What a run's status says about its reply, its approval and the worker.  *)

\* How the worker may change the status of the run it delivers.
WorkerMove(st) ==
    \/ st = "Failed" /\ (BeforeHandOver \/ ~Legacy)
    \/ st = "Completed" /\ ~Legacy
    \/ st = "Completed" /\ BeforeHandOver /\ UNCHANGED <<events, row>>
    \/ st = "AwaitingApproval"
    \/ st = "WaitingDispatch" /\ ~RequireWriteApproval

\* How a step of another thread may change a run's status: not at all, by settling
\* its dispatch or by a recorded decision.
OtherMove(r) ==
    \/ status'[r] = status[r]
    \/ /\ row[r] = "dispatching" /\ status'[r] # "Running"
       /\ (status'[r] = "Completed" => row'[r] = "succeeded")
    \/ /\ Has(r, "ApprovalRequested") /\ \E k \in Decisions : Has(r, k)
       /\ status'[r] \in {"WaitingDispatch", "Failed"}

\* How any step may: as well in its delivery, or by creating it.
StatusMove(r) ==
    \/ OtherMove(r)
    \/ r = wrun /\ wpc \in RunPc /\ WorkerMove(status'[r])
    \/ r = wrun' /\ wpc' = "start" /\ status'[r] = "Running" /\ trigger[r] = NoMsg

\* How any step may change a run otherwise: a delivered reply stays delivered, and
\* only the worker hands a first reply over.
RunMove(r) ==
    /\ StatusMove(r)
    /\ row[r] = "succeeded" => row'[r] = "succeeded"
    /\ \/ ~(row'[r] # "none" \/ events'[r]["ApprovalRequested"] > 0)
       \/ row[r] # "none" \/ Has(r, "ApprovalRequested")
       \/ r = wrun /\ BeforeHandOver /\ status'[r] = status[r]
    /\ \/ trigger'[r] = trigger[r]
       \/ r = wrun' /\ wpc' = "start" /\ status'[r] = "Running"

RunMoves == EventsGrow /\ \A r \in Runs : RunMove(r)

\* A run of the v0 path stays with the worker while it is Running, but for a fault.
DeliveryHolds ==
    wpc \in RunPc /\ ~Legacy /\ status'[wrun] = "Running"
        => wrun' = wrun /\ wpc' \in RunPc

\* A reply of a Completed legacy run was delivered, after every such step.
LEMMA CompletedKeeps ==
    ASSUME KernelInv, StatusInv, RunMoves
    PROVE  CompletedInv'
<1> SUFFICES ASSUME NEW r \in Runs, trigger'[r] \in LegacyMsgs, status'[r] = "Completed",
                    row'[r] # "none" \/ events'[r]["ApprovalRequested"] > 0
    PROVE  row'[r] = "succeeded"
    BY DEF CompletedInv, Has
<1>1. RunMove(r) /\ trigger'[r] = trigger[r]
    BY DEF RunMoves, RunMove
<1>2. CASE status'[r] = status[r]
  <2>1. row[r] # "none" \/ Has(r, "ApprovalRequested")
      BY <1>1, <1>2 DEF RunMove, StatusInv, WorkerInv
  <2> QED BY <1>1, <1>2, <2>1 DEF StatusInv, CompletedInv, RunMove
<1>3. CASE r = wrun /\ wpc \in RunPc /\ WorkerMove("Completed")
  <2>1. Legacy
      BY <1>1, <1>3, HeldRuns, NoRunAssumption DEF KernelInv, TriggerInv, Legacy
  <2>2. BeforeHandOver /\ UNCHANGED <<events, row>>
      BY <1>3, <2>1 DEF WorkerMove
  <2> QED BY <1>3, <2>2 DEF KernelInv, ApprovalInv, Has
<1> QED BY <1>1, <1>2, <1>3 DEF RunMove, StatusMove, OtherMove

\* Only a fault leaves a Running run of the v0 path without the worker.
LEMMA DanglingKeeps ==
    ASSUME KernelInv, StatusInv, RunMoves, crashes' \in Nat, errors' \in Nat,
           \/ DeliveryHolds /\ crashes' = crashes /\ errors' = errors
           \/ crashes' = crashes + 1 /\ errors' = errors
           \/ crashes' = crashes /\ errors' = errors + 1
    PROVE  NoDanglingRun'
<1> SUFFICES ASSUME NEW r \in Runs, status'[r] = "Running", trigger'[r] \notin LegacyMsgs,
                    ~(wrun' = r /\ wpc' \in RunPc)
    PROVE  crashes' + errors' > 0
    BY DEF NoDanglingRun
<1>0. crashes \in Nat /\ errors \in Nat
    BY SMT, KernelAssumption DEF KernelInv, TypeOK
<1>1. RunMove(r)
    BY DEF RunMoves
<1>2. status[r] = "Running" /\ trigger'[r] = trigger[r]
  <2>1. ~(r = wrun' /\ wpc' = "start")
      BY DEF RunPc
  <2>2. status'[r] = status[r]
      BY <1>1, <2>1 DEF RunMove, StatusMove, OtherMove, WorkerMove
  <2>3. trigger[r] # NoMsg
      BY <2>2 DEF KernelInv, TriggerInv
  <2> QED BY <1>1, <2>1, <2>2, <2>3 DEF RunMove
<1>3. CASE crashes' = crashes /\ errors' = errors
  <2>1. DeliveryHolds
      BY SMT, <1>0, <1>3
  <2>2. CASE wrun = r /\ wpc \in RunPc
    <3>1. ~Legacy
        BY <1>2, <2>2, NoRunAssumption DEF KernelInv, TriggerInv, Legacy
    <3> QED BY <2>1, <2>2, <3>1 DEF DeliveryHolds
  <2>3. CASE ~(wrun = r /\ wpc \in RunPc)
      BY <1>0, <1>2, <1>3, <2>3 DEF StatusInv, NoDanglingRun
  <2> QED BY <2>2, <2>3
<1>4. CASE crashes' = crashes + 1
  <2>1. PICK c \in Nat, e \in Nat : c = crashes' /\ e = errors'
      OBVIOUS
  <2>2. c > 0
      BY SMT, <1>0, <1>4, <2>1
  <2>3. c + e > 0
      BY SMT, <2>2
  <2> QED BY <2>1, <2>3
<1>5. CASE errors' = errors + 1
  <2>1. PICK c \in Nat, e \in Nat : c = crashes' /\ e = errors'
      OBVIOUS
  <2>2. e > 0
      BY SMT, <1>0, <1>5, <2>1
  <2>3. c + e > 0
      BY SMT, <2>2
  <2> QED BY <2>1, <2>3
<1> QED BY <1>3, <1>4, <1>5

\* Steps of the other threads keep what is known of the worker.
LEMMA WorkerRests ==
    ASSUME KernelInv, StatusInv, \A r \in Runs : OtherMove(r), UNCHANGED workerVars
    PROVE  WorkerInv' /\ DeliveryHolds
<1>1. UNCHANGED <<wpc, wmsg, wrun>> /\ (BeforeHandOver' <=> BeforeHandOver)
    BY DEF workerVars, BeforeHandOver, Legacy
<1>2. ASSUME BeforeHandOver PROVE status'[wrun] # "Completed"
  <2>1. wrun \in Runs /\ row[wrun] = "none" /\ ~Has(wrun, "ApprovalRequested")
      BY <1>2, HeldRuns DEF KernelInv, ApprovalInv
  <2> QED BY <1>2, <2>1 DEF OtherMove, StatusInv, WorkerInv
<1>3. ASSUME wpc = "failmark" PROVE status'[wrun] # "Running"
  <2>1. wrun \in Runs
      BY <1>3, HeldRuns DEF KernelInv, RunPc
  <2> QED BY <1>3, <2>1 DEF OtherMove, StatusInv, WorkerInv
<1>4. WorkerInv'
    BY <1>1, <1>2, <1>3 DEF StatusInv, WorkerInv, Legacy
<1> QED BY <1>1, <1>4 DEF DeliveryHolds

\* A step that leaves a run's row and request alone, or is the dispatcher's, is one
\* of the moves.
LEMMA OtherRunMoves ==
    ASSUME EventsGrow, UNCHANGED trigger,
           \A r \in Runs : /\ OtherMove(r)
                           /\ row[r] = "succeeded" => row'[r] = "succeeded"
                           /\ row[r] = "none" => row'[r] = "none" \/ Has(r, "ApprovalRequested"),
           NoNewRequest
    PROVE  RunMoves
BY DEF RunMoves, RunMove, StatusMove, NoNewRequest

\* What every step but a fault of the worker keeps.
Kept == RunMoves /\ WorkerInv' /\ DeliveryHolds /\ DecisionInv'

\* Decisions stay recorded.
LEMMA DecisionsStay ==
    ASSUME KernelInv, StatusInv, EventsGrow,
           UNCHANGED gatewayVars \/ HandlerDone,
           UNCHANGED expiryVars \/ erun' = NoRun
    PROVE  DecisionInv'
<1> USE HeldRuns DEF KernelInv
<1>1. (hpc' \in {"resume", "denyfail"} => hrun \in Runs /\ hrun' = hrun /\ hpc' = hpc)
      /\ (erun' # NoRun => erun \in Runs /\ erun' = erun)
    BY DEF gatewayVars, HandlerDone, expiryVars, ApprovalPc
<1> QED BY <1>1 DEF StatusInv, DecisionInv, EventsGrow, Has, Kinds

\* The dispatcher and startup recovery settle only what was handed over.
LEMMA OutboxKept ==
    ASSUME KernelInv, StatusInv, OutboxSteps \/ \E r \in Runs : recover_unknown_invocation(r),
           UNCHANGED <<gatewayVars, workerVars, expiryVars>>
    PROVE  Kept
<1>1. OutboxOnly
    BY OutboxStepsOnly
<1>2. \A r \in Runs : OtherMove(r) /\ (row[r] = "succeeded" => row'[r] = "succeeded")
  <2>1. ASSUME NEW q \in Runs, lease_next_outbox_dispatch(q)
        PROVE  \A r \in Runs : OtherMove(r) /\ (row[r] = "succeeded" => row'[r] = "succeeded")
      BY <2>1 DEF lease_next_outbox_dispatch, OtherMove, KernelInv, TypeOK, OutboxTypeOK
  <2>2. CASE adapter_execute
      BY <2>2 DEF adapter_execute, OtherMove
  <2>3. CASE succeed_outbox_dispatch \/ fail_outbox_dispatch \/ unknown_outbox_dispatch
    <3>1. drun \in Runs /\ row[drun] = "dispatching"
        BY <2>3 DEF succeed_outbox_dispatch, fail_outbox_dispatch, unknown_outbox_dispatch,
                    DispatcherInv, OutboxTypeOK, KernelInv, TypeOK
    <3> QED
      BY <2>3, <3>1
         DEF succeed_outbox_dispatch, fail_outbox_dispatch, unknown_outbox_dispatch,
             update_run_status, OtherMove, KernelInv, TypeOK, OutboxTypeOK, JournalTypeOK
  <2>4. ASSUME NEW q \in Runs, recover_unknown_invocation(q)
        PROVE  \A r \in Runs : OtherMove(r) /\ (row[r] = "succeeded" => row'[r] = "succeeded")
    <3>1. row[q] = "dispatching"
        BY <2>4, RecoveryCandidates DEF recover_unknown_invocation, KernelInv
    <3> QED
      BY <2>4, <3>1 DEF recover_unknown_invocation, update_run_status, OtherMove, KernelInv,
                        TypeOK, OutboxTypeOK, JournalTypeOK
  <2> QED BY <2>1, <2>2, <2>3, <2>4 DEF OutboxSteps
<1>3. RunMoves
    BY <1>1, <1>2, OtherRunMoves DEF OutboxOnly
<1> QED BY <1>1, <1>2, <1>3, WorkerRests, DecisionsStay DEF Kept, OutboxOnly

\* A step that changes no run keeps what is known of it.
LEMMA RestingKept ==
    ASSUME KernelInv, StatusInv, UNCHANGED <<events, status, trigger, row>>
    PROVE  RunMoves /\ \A r \in Runs : OtherMove(r)
<1>1. EventsGrow /\ NoNewRequest
    BY UnchangedGrows DEF KernelInv, TypeOK
<1>2. \A r \in Runs : OtherMove(r)
    BY DEF OtherMove
<1> QED BY <1>1, <1>2, OtherRunMoves

\* Handlers change a run's status only behind the recorded decision.
LEMMA HandlerKept ==
    ASSUME KernelInv, StatusInv,
           \/ \E m \in Msgs : IngressReserve(m)
           \/ \E r \in Runs : ApproveRead(r) \/ DenyRead(r)
           \/ HandlerStep
           \/ HandlerError,
           UNCHANGED workerVars, UNCHANGED expiryVars
    PROVE  Kept
<1> USE HeldRuns DEF KernelInv
<1>1. CASE IngressAccept \/ HandlerError \/ (\E m \in Msgs : IngressReserve(m))
           \/ \E r \in Runs : ApproveRead(r) \/ DenyRead(r)
  <2>1. UNCHANGED <<events, status, trigger, row>> /\ EventsGrow
      BY <1>1, UnchangedGrows
         DEF IngressAccept, HandlerError, IngressReserve, ApproveRead, DenyRead, journalVars,
             outboxVars, TypeOK
  <2>2. hpc' \notin {"resume", "denyfail"} /\ erun' = erun
      BY <1>1 DEF IngressAccept, HandlerError, IngressReserve, ApproveRead, DenyRead,
                  HandlerDone, expiryVars
  <2>3. DecisionInv'
      BY <2>1, <2>2 DEF StatusInv, DecisionInv, Has
  <2> QED BY <2>1, <2>3, RestingKept, WorkerRests DEF Kept
<1>2. CASE ApproveGrant \/ DenyAppend
  <2>1. hrun \in Runs
      BY <1>2 DEF ApproveGrant, DenyAppend, ApprovalPc
  <2>2. EventsGrow /\ NoNewRequest
      BY SMT, <1>2, <2>1, AppendGrows DEF ApproveGrant, DenyAppend, TypeOK
  <2>3. UNCHANGED <<status, trigger, row, hrun, erun>>
      BY <1>2 DEF ApproveGrant, DenyAppend, outboxVars, expiryVars
  <2>4. hpc' # "resume" /\ (hpc' = "denyfail" => events'[hrun]["ApprovalDenied"] > 0)
      BY SMT, <1>2, <2>1, AppendEffect DEF ApproveGrant, DenyAppend, TypeOK, JournalTypeOK, Kinds
  <2>5. DecisionInv'
      BY <2>2, <2>3, <2>4 DEF StatusInv, DecisionInv, EventsGrow, Has, Kinds
  <2>6. \A r \in Runs : OtherMove(r)
      BY <2>3 DEF OtherMove
  <2>7. RunMoves
      BY <2>2, <2>3, <2>6, OtherRunMoves
  <2> QED BY <2>5, <2>6, <2>7, WorkerRests DEF Kept
<1>3. CASE ApproveQueue
  <2>1. hrun \in Runs /\ Has(hrun, "ApprovalRequested") /\ Has(hrun, "ApprovalGranted")
      BY <1>3 DEF ApproveQueue, ApprovalPc, ApprovalInv
  <2>2. EventsGrow /\ NoNewRequest
      BY <1>3, <2>1, QueueGrows DEF ApproveQueue, TypeOK
  <2>3. \A r \in Runs : /\ row[r] # "none" => row'[r] = row[r]
                        /\ row[r] = "none" => row'[r] = "none" \/ Has(r, "ApprovalRequested")
      BY <1>3, <2>1 DEF ApproveQueue, queue_outbox_dispatch, TypeOK, OutboxTypeOK
  <2>4. UNCHANGED <<status, trigger, hrun, erun>> /\ hpc' = "resume"
      BY <1>3 DEF ApproveQueue, expiryVars
  <2>5. DecisionInv'
      BY <2>1, <2>2, <2>4 DEF StatusInv, DecisionInv, EventsGrow, Has, Kinds
  <2>6. \A r \in Runs : OtherMove(r)
      BY <2>4 DEF OtherMove
  <2>7. RunMoves
      BY <2>2, <2>3, <2>4, <2>6, OtherRunMoves
  <2> QED BY <2>5, <2>6, <2>7, WorkerRests DEF Kept
<1>4. CASE ApproveResume \/ DenyFail
  <2>1. /\ hrun \in Runs /\ Has(hrun, "ApprovalRequested")
        /\ Has(hrun, "ApprovalGranted") \/ Has(hrun, "ApprovalDenied")
      BY <1>4 DEF ApproveResume, DenyFail, ApprovalPc, ApprovalInv, StatusInv, DecisionInv
  <2>2. PICK st \in {"WaitingDispatch", "Failed"} : status' = [status EXCEPT ![hrun] = st]
      BY <1>4 DEF ApproveResume, DenyFail, fail_run, update_run_status
  <2>3. UNCHANGED <<events, trigger, row>> /\ HandlerDone /\ EventsGrow /\ NoNewRequest
      BY <1>4, UnchangedGrows DEF ApproveResume, DenyFail, outboxVars, TypeOK
  <2>4. \A r \in Runs : OtherMove(r)
    <3>1. \E k \in Decisions : Has(hrun, k)
        BY <2>1 DEF Decisions
    <3> QED BY <2>1, <2>2, <3>1 DEF OtherMove, TypeOK, JournalTypeOK
  <2>5. RunMoves
      BY <2>3, <2>4, OtherRunMoves
  <2> QED BY <2>3, <2>4, <2>5, WorkerRests, DecisionsStay DEF Kept
<1> QED BY <1>1, <1>2, <1>3, <1>4 DEF HandlerStep

\* So does the sweep.
LEMMA ExpiryKept ==
    ASSUME KernelInv, StatusInv,
           \/ \E S \in SUBSET Runs : stale_approvals_since(S)
           \/ \E r \in Runs : ExpireAppend(r)
           \/ ExpireFail
           \/ ExpiryError,
           UNCHANGED row, UNCHANGED workerVars, UNCHANGED gatewayVars
    PROVE  Kept
<1> USE HeldRuns DEF KernelInv
<1>1. CASE ExpiryError \/ \E S \in SUBSET Runs : stale_approvals_since(S)
  <2>1. UNCHANGED <<events, status, trigger>> /\ EventsGrow /\ erun' = NoRun
      BY <1>1, UnchangedGrows
         DEF ExpiryError, stale_approvals_since, ExpiryIdle, journalVars, TypeOK
  <2> QED BY <2>1, RestingKept, WorkerRests, DecisionsStay DEF Kept
<1>2. ASSUME NEW r \in Runs, ExpireAppend(r) PROVE Kept
  <2>1. EventsGrow /\ NoNewRequest
      BY SMT, <1>2, AppendGrows DEF ExpireAppend, TypeOK
  <2>2. UNCHANGED <<status, trigger, hpc, hrun>> /\ erun' = r
      BY <1>2 DEF ExpireAppend, gatewayVars
  <2>3. events'[r]["ApprovalExpired"] > 0
      BY SMT, <1>2, AppendEffect DEF ExpireAppend, TypeOK, JournalTypeOK, Kinds
  <2>4. DecisionInv'
      BY <2>1, <2>2, <2>3 DEF StatusInv, DecisionInv, EventsGrow, Has, Kinds, ApprovalPc
  <2>5. \A q \in Runs : OtherMove(q)
      BY <2>2 DEF OtherMove
  <2>6. RunMoves
      BY <2>1, <2>2, <2>5, OtherRunMoves
  <2> QED BY <2>4, <2>5, <2>6, WorkerRests DEF Kept
<1>3. CASE ExpireFail
  <2>1. erun \in Runs /\ Has(erun, "ApprovalRequested") /\ Has(erun, "ApprovalExpired")
      BY <1>3 DEF ExpireFail, ApprovalInv, StatusInv, DecisionInv
  <2>2. /\ status' = [status EXCEPT ![erun] = "Failed"]
        /\ UNCHANGED <<events, trigger>> /\ erun' = NoRun /\ EventsGrow /\ NoNewRequest
      BY <1>3, UnchangedGrows DEF ExpireFail, fail_run, update_run_status, TypeOK
  <2>3. \A r \in Runs : OtherMove(r)
    <3>1. \E k \in Decisions : Has(erun, k)
        BY <2>1 DEF Decisions
    <3> QED BY <2>1, <2>2, <3>1 DEF OtherMove, TypeOK, JournalTypeOK
  <2>4. RunMoves
      BY <2>2, <2>3, OtherRunMoves
  <2> QED BY <2>2, <2>3, <2>4, WorkerRests, DecisionsStay DEF Kept
<1> QED BY <1>1, <1>2, <1>3

\* A worker step that changes no run moves as the code allows.
LEMMA MovingKept ==
    ASSUME KernelInv, StatusInv, UNCHANGED <<events, status, trigger, row>>,
           UNCHANGED gatewayVars, UNCHANGED expiryVars, UNCHANGED <<wmsg, wrun>>,
           BeforeHandOver' => BeforeHandOver,
           wpc' \in {"terminate", "termmark", "notify"} => Legacy,
           wpc' \notin {"complete", "waiting", "failmark"}
    PROVE  RunMoves /\ WorkerInv' /\ DecisionInv'
<1>1. RunMoves /\ EventsGrow
    BY RestingKept DEF RunMoves
<1>2. WorkerInv'
    BY DEF StatusInv, WorkerInv, Legacy
<1> QED BY <1>1, <1>2, DecisionsStay

\* The worker changes the status of the run it delivers only as the path of its
\* message allows, and keeps a Running run of the v0 path.
LEMMA WorkerKept ==
    ASSUME KernelInv, StatusInv, WorkerStep, UNCHANGED gatewayVars, UNCHANGED expiryVars
    PROVE  Kept
<1> USE HeldRuns DEF KernelInv
<1>1. CASE \E m \in Msgs : LeaseJob(m)
  <2>1. UNCHANGED <<events, status, trigger, row>> /\ wpc' = "session" /\ wpc = "idle"
      BY <1>1 DEF LeaseJob, journalVars, outboxVars
  <2>2. RunMoves /\ EventsGrow
      BY <2>1, RestingKept DEF RunMoves
  <2>3. WorkerInv' /\ DeliveryHolds
      BY <2>1 DEF WorkerInv, BeforeHandOver, DeliveryHolds, RunPc
  <2> QED BY <2>2, <2>3, DecisionsStay DEF Kept
<1>2. CASE SessionReady \/ NoRunError \/ InsertRunConflict \/ ModelReply \/ ModelFailure
           \/ BudgetExhausted \/ LegacyError \/ FailJob
  <2>1. UNCHANGED <<events, status, trigger, row, wmsg, wrun>>
      BY <1>2 DEF SessionReady, NoRunError, InsertRunConflict, ModelReply, ModelFailure,
                  BudgetExhausted, LegacyError, FailJob, Goto, journalVars, outboxVars
  <2>2. /\ BeforeHandOver' => BeforeHandOver
        /\ wpc' \in {"terminate", "termmark", "notify"} => Legacy
        /\ wpc' \notin {"complete", "waiting", "failmark"}
        /\ wpc \in RunPc => Legacy \/ wpc' \in RunPc
      BY <1>2 DEF SessionReady, NoRunError, InsertRunConflict, ModelReply, ModelFailure,
                  BudgetExhausted, LegacyError, FailJob, Goto, BeforeHandOver, Legacy, RunPc
  <2> QED BY <2>1, <2>2, MovingKept DEF Kept, DeliveryHolds
<1>3. CASE SucceedJob \/ FailJobMark
  <2>1. UNCHANGED <<events, status, trigger, row>> /\ WorkerDone /\ wpc \notin RunPc
      BY <1>3 DEF SucceedJob, FailJobMark, journalVars, outboxVars, RunPc
  <2>2. WorkerInv' /\ DeliveryHolds
      BY <2>1 DEF WorkerInv, BeforeHandOver, DeliveryHolds, WorkerDone
  <2>3. RunMoves /\ EventsGrow
      BY <2>1, RestingKept DEF RunMoves
  <2> QED BY <2>2, <2>3, DecisionsStay DEF Kept
<1>4. ASSUME NEW r \in Runs, InsertRun(r) PROVE Kept
  <2>1. /\ trigger[r] = NoMsg
        /\ trigger' = [trigger EXCEPT ![r] = wmsg]
        /\ status' = [status EXCEPT ![r] = "Running"]
        /\ UNCHANGED <<events, row, wmsg>>
        /\ wpc' = "start" /\ wrun' = r /\ wpc = "insert"
      BY <1>4 DEF InsertRun, insert_run, update_run_status, outboxVars
  <2>2. EventsGrow /\ NoNewRequest
      BY <2>1, UnchangedGrows DEF TypeOK
  <2>3. \A q \in Runs : StatusMove(q) /\ (trigger'[q] = trigger[q] \/ q = r)
      BY <2>1 DEF StatusMove, OtherMove, TypeOK, JournalTypeOK
  <2>4. status'[r] = "Running"
      BY <2>1 DEF TypeOK, JournalTypeOK
  <2>5. RunMoves
      BY <2>1, <2>2, <2>3, <2>4 DEF RunMoves, RunMove, NoNewRequest
  <2>6. WorkerInv' /\ DeliveryHolds
      BY <2>1, <2>4 DEF WorkerInv, DeliveryHolds, RunPc
  <2> QED BY <2>2, <2>5, <2>6, DecisionsStay DEF Kept
<1>5. CASE RunStarted \/ RunFailed \/ RunBudgetTerminated
  <2>1. wrun \in Runs /\ wpc \in RunPc
      BY <1>5 DEF RunStarted, RunFailed, RunBudgetTerminated, RunPc
  <2>2. EventsGrow /\ NoNewRequest
      BY SMT, <1>5, <2>1, AppendGrows DEF RunStarted, RunFailed, RunBudgetTerminated, TypeOK
  <2>3. UNCHANGED <<status, trigger, row, wmsg, wrun>>
      BY <1>5 DEF RunStarted, RunFailed, RunBudgetTerminated, Goto, outboxVars
  <2>4. /\ BeforeHandOver' => BeforeHandOver
        /\ wpc' \in {"terminate", "termmark", "notify"} => Legacy
        /\ wpc' \notin {"complete", "waiting", "failmark"}
        /\ Legacy \/ wpc' \in RunPc \/ wpc = "failmark"
      BY <1>5 DEF RunStarted, RunFailed, RunBudgetTerminated, AfterTerminate, Goto,
                  BeforeHandOver, Legacy, RunPc, StatusInv, WorkerInv
  <2>5. \A r \in Runs : OtherMove(r)
      BY <2>3 DEF OtherMove
  <2>6. RunMoves
      BY <2>2, <2>3, <2>5, OtherRunMoves
  <2>7. WorkerInv' /\ DeliveryHolds
      BY <2>3, <2>4 DEF StatusInv, WorkerInv, Legacy, DeliveryHolds
  <2> QED BY <2>2, <2>6, <2>7, DecisionsStay DEF Kept
<1>6. CASE EnqueueOrPause \/ FailureNotice
  <2>1. wrun \in Runs /\ BeforeHandOver /\ row[wrun] = "none"
      BY <1>6 DEF EnqueueOrPause, FailureNotice, RunPc, BeforeHandOver, ApprovalInv
  <2>2. EventsGrow /\ \A r \in Runs : r # wrun =>
            (events'[r]["ApprovalRequested"] > 0 => Has(r, "ApprovalRequested"))
    <3>1. CASE queue_outbox_dispatch(wrun)
        BY <2>1, <3>1, QueueGrows DEF TypeOK, NoNewRequest
    <3>2. CASE append_event(wrun, {"ApprovalRequested"})
      <4>1. "ApprovalRequested" \in Kinds
          BY DEF Kinds
      <4> QED BY SMT, <2>1, <3>2, <4>1, AppendGrows, AppendEffect DEF TypeOK, Has
    <3> QED BY <1>6, <3>1, <3>2 DEF EnqueueOrPause, FailureNotice
  <2>3. UNCHANGED <<status, trigger, wmsg, wrun>>
      BY <1>6 DEF EnqueueOrPause, FailureNotice, Goto
  <2>4. \A r \in Runs : row'[r] = row[r] \/ r = wrun
      BY <1>6, <2>1 DEF EnqueueOrPause, FailureNotice, queue_outbox_dispatch, TypeOK,
                        OutboxTypeOK
  <2>5. RunMoves
    <3>1. \A r \in Runs : StatusMove(r)
        BY <2>3 DEF StatusMove, OtherMove
    <3> QED BY <2>1, <2>2, <2>3, <2>4, <3>1 DEF RunMoves, RunMove
  <2>6. /\ wpc' \in {"pause", "waiting", "ok"} /\ (wpc' = "waiting" => ~RequireWriteApproval)
        /\ wpc' = "ok" => Legacy
      BY <1>6 DEF EnqueueOrPause, FailureNotice, Goto, StatusInv, WorkerInv
  <2>7. WorkerInv' /\ DeliveryHolds
      BY <2>3, <2>6 DEF WorkerInv, BeforeHandOver, DeliveryHolds, RunPc
  <2> QED BY <2>2, <2>5, <2>7, DecisionsStay DEF Kept
<1>7. CASE Yield \/ PauseStatus \/ WaitingStatus \/ V0Complete \/ FailRun \/ TerminateRun
  <2>1. wrun \in Runs /\ wpc \in RunPc
      BY <1>7 DEF Yield, PauseStatus, WaitingStatus, V0Complete, FailRun, TerminateRun, RunPc
  <2>2. UNCHANGED <<events, trigger, row, wmsg, wrun>> /\ EventsGrow /\ NoNewRequest
      BY <1>7, UnchangedGrows
         DEF Yield, PauseStatus, WaitingStatus, V0Complete, FailRun, TerminateRun, Goto,
             outboxVars, TypeOK
  <2>3. PICK st : /\ status' = [status EXCEPT ![wrun] = st] /\ WorkerMove(st)
                  /\ st # "Running" /\ (st = "Completed" => wpc' = "ok")
      BY <1>7, <2>2
         DEF Yield, PauseStatus, WaitingStatus, V0Complete, FailRun, TerminateRun, WorkerMove,
             complete_run, fail_run, update_run_status, StatusInv, WorkerInv, BeforeHandOver, Goto
  <2>4. status'[wrun] = st /\ \A r \in Runs : r # wrun => status'[r] = status[r]
      BY <2>1, <2>3 DEF TypeOK, JournalTypeOK
  <2>5. RunMoves
    <3>1. \A r \in Runs : StatusMove(r)
        BY <2>1, <2>3, <2>4 DEF StatusMove, OtherMove
    <3> QED BY <2>2, <3>1 DEF RunMoves, RunMove, NoNewRequest
  <2>6. /\ wpc' \in {"ok", "complete", "failmark", "termmark"}
        /\ (wpc' = "termmark" => Legacy) /\ (wpc' = "complete" => ~Legacy)
      BY <1>7 DEF Yield, PauseStatus, WaitingStatus, V0Complete, FailRun, TerminateRun,
                  AfterEnqueue, Goto, StatusInv, WorkerInv
  <2>7. WorkerInv' /\ DeliveryHolds
      BY <2>2, <2>3, <2>4, <2>6 DEF WorkerInv, BeforeHandOver, DeliveryHolds, Legacy
  <2> QED BY <2>2, <2>5, <2>7, DecisionsStay DEF Kept
<1> QED BY <1>1, <1>2, <1>3, <1>4, <1>5, <1>6, <1>7 DEF WorkerStep

\* A journal error in the worker changes no run.
LEMMA WorkerErrorKept ==
    ASSUME KernelInv, StatusInv, WorkerError, UNCHANGED gatewayVars, UNCHANGED expiryVars
    PROVE  RunMoves /\ WorkerInv' /\ DecisionInv'
<1>1. UNCHANGED <<events, status, trigger, row>>
    BY DEF WorkerError, journalVars, outboxVars
<1>2. CASE WorkerDone
  <2>1. RunMoves /\ EventsGrow
      BY <1>1, RestingKept DEF RunMoves
  <2>2. WorkerInv'
      BY <1>2 DEF WorkerDone, WorkerInv, BeforeHandOver
  <2> QED BY <2>1, <2>2, DecisionsStay
<1>3. CASE StatusReadError
    BY <1>1, <1>3, MovingKept DEF StatusReadError, Goto, BeforeHandOver
<1>4. CASE Goto(ErrorTarget)
  <2>1. \/ ErrorTarget \in {"err", "errmark"}
        \/ ErrorTarget = "fail" /\ ~Legacy
        \/ ErrorTarget \in {"termmark", "notify", "enqueue"} /\ wpc \in {"terminate", "termmark"}
      BY DEF ErrorTarget, AfterTerminate
  <2>2. /\ BeforeHandOver' => BeforeHandOver
        /\ wpc' \in {"terminate", "termmark", "notify"} => Legacy
        /\ wpc' \notin {"complete", "waiting", "failmark"}
      BY <1>4, <2>1 DEF Goto, BeforeHandOver, Legacy, StatusInv, WorkerInv
  <2> QED BY <1>1, <1>4, <2>2, MovingKept DEF Goto
<1> QED BY <1>2, <1>3, <1>4 DEF WorkerError

\* A thread that lets go of its work, or rests, changes no run.
LEMMA LettingGoKept ==
    ASSUME KernelInv, StatusInv, UNCHANGED <<events, status, trigger, row>>,
           UNCHANGED workerVars \/ WorkerDone,
           UNCHANGED gatewayVars \/ HandlerDone,
           UNCHANGED expiryVars \/ erun' = NoRun
    PROVE  /\ RunMoves /\ WorkerInv' /\ DecisionInv'
           /\ UNCHANGED workerVars => DeliveryHolds
<1>1. RunMoves /\ EventsGrow /\ \A r \in Runs : OtherMove(r)
    BY RestingKept DEF RunMoves
<1>2. UNCHANGED workerVars => WorkerInv' /\ DeliveryHolds
    BY <1>1, WorkerRests
<1>3. WorkerDone => WorkerInv'
    BY DEF WorkerDone, WorkerInv, BeforeHandOver
<1> QED BY <1>1, <1>2, <1>3, DecisionsStay

\* Every step moves each run as its threads may, and only a crash or a journal
\* error lets the worker leave a Running run.
LEMMA StepsKeep ==
    ASSUME KernelInv, StatusInv, [Next]_vars
    PROVE  /\ RunMoves /\ WorkerInv' /\ DecisionInv'
           /\ \/ DeliveryHolds /\ crashes' = crashes /\ errors' = errors
              \/ crashes' = crashes + 1 /\ errors' = errors
              \/ crashes' = crashes /\ errors' = errors + 1
<1> DEFINE Quiet == crashes' = crashes /\ errors' = errors
<1>1. CASE Restart \/ StartThreads \/ UNCHANGED vars
    BY <1>1, LettingGoKept
       DEF Restart, StartThreads, vars, journalVars, outboxVars, controlVars
<1>2. ASSUME NEW r \in Runs, RecoverUnknown(r) PROVE Kept /\ Quiet
    BY <1>2, OutboxKept DEF RecoverUnknown, controlVars
<1>3. CASE RepairStaleRows
  <2>1. UNCHANGED <<events, status, trigger, row>>
      BY <1>3, RecoveryCandidates
         DEF RepairStaleRows, repair_stale_dispatching, journalVars, KernelInv
  <2> QED BY <1>3, <2>1, LettingGoKept DEF RepairStaleRows
<1>4. ASSUME NEW S \in SUBSET Runs, StartupExpiry(S) PROVE Kept /\ Quiet
    BY <1>4, ExpiryKept DEF StartupExpiry, outboxVars
<1>5. CASE Dispatcher
    BY <1>5, OutboxKept DEF Dispatcher, OutboxSteps, controlVars, Kept
<1>6. CASE Worker
    BY <1>6, WorkerKept DEF Worker, controlVars, Kept
<1>7. CASE Request \/ Handler
    BY <1>7, HandlerKept DEF Request, Handler, controlVars, Kept
<1>8. CASE Sweep \/ Expire
    BY <1>8, ExpiryKept DEF Sweep, Expire, outboxVars, controlVars, Kept
<1>9. CASE JournalError
  <2>1. crashes' = crashes /\ errors' = errors + 1
      BY <1>9 DEF JournalError
  <2>2. CASE dispatch_once_error /\ UNCHANGED <<queueVars, gatewayVars, workerVars, expiryVars>>
      BY <2>1, <2>2, LettingGoKept DEF dispatch_once_error
  <2>3. CASE WorkerError /\ UNCHANGED <<gatewayVars, expiryVars>>
      BY <2>1, <2>3, WorkerErrorKept
  <2>4. CASE HandlerError /\ UNCHANGED <<workerVars, expiryVars>>
      BY <2>1, <2>4, LettingGoKept DEF HandlerError, journalVars, outboxVars
  <2>5. CASE ExpiryError /\ UNCHANGED <<outboxVars, queueVars, gatewayVars, workerVars>>
      BY <2>1, <2>5, ExpiryKept DEF outboxVars, Kept
  <2> QED BY <1>9, <2>2, <2>3, <2>4, <2>5 DEF JournalError
<1>10. CASE Crash
    BY <1>10, LettingGoKept DEF Crash, journalVars
<1> QED
  BY <1>1, <1>2, <1>3, <1>4, <1>5, <1>6, <1>7, <1>8, <1>9, <1>10 DEF Next, Startup, Kept

\* The first start satisfies it.
LEMMA StatusInvInit == Init => StatusInv
<1> SUFFICES ASSUME Init PROVE StatusInv
    OBVIOUS
<1>1. wpc = "idle" /\ hpc = "idle" /\ erun = NoRun /\ \A r \in Runs : status[r] = "none"
    BY DEF Init, JournalInit, WorkerInit, GatewayInit, ExpiryInit
<1> QED BY <1>1 DEF StatusInv, WorkerInv, DecisionInv, CompletedInv, NoDanglingRun, BeforeHandOver

\* Every step keeps it.
LEMMA StatusInvNext == KernelInv /\ KernelInv' /\ StatusInv /\ [Next]_vars => StatusInv'
<1> SUFFICES ASSUME KernelInv, KernelInv', StatusInv, [Next]_vars PROVE StatusInv'
    OBVIOUS
<1>1. crashes' \in Nat /\ errors' \in Nat
    BY SMT, KernelAssumption DEF KernelInv, TypeOK
<1>2. CompletedInv'
    BY StepsKeep, CompletedKeeps
<1>3. NoDanglingRun'
    BY <1>1, StepsKeep, DanglingKeeps
<1> QED BY <1>2, <1>3, StepsKeep DEF StatusInv

\* What the statuses say holds in every state the kernel reaches.
THEOREM StatusInvariantHolds == Spec => []StatusInv
BY StatusInvInit, StatusInvNext, KernelInvariantHolds, PTL DEF Spec

\* A run of the legacy runtime that has a reply is Completed only once the reply
\* was delivered, whatever crashes, journal errors and late handlers do.
THEOREM CompletedRunsWereDelivered == Spec => []CompletedMeansDelivered
<1>1. KernelInv /\ StatusInv => CompletedMeansDelivered
    BY DEF KernelInv, RowInv, StatusInv, CompletedInv, CompletedMeansDelivered
<1> QED BY <1>1, KernelInvariantHolds, StatusInvariantHolds, PTL

\* Without a crash or a journal error the worker never leaves a Running run of the
\* v0 path behind.
THEOREM OnlyFaultsLeaveRuns == Spec => []NoDanglingRun
<1>1. StatusInv => NoDanglingRun
    BY DEF StatusInv
<1> QED BY <1>1, StatusInvariantHolds, PTL

\* No step of any thread moves a paused legacy run on without a recorded grant,
\* denial or expiry.
THEOREM PausesHold == Spec => PauseHoldsUntilDecided
<1>1. ASSUME KernelInv, StatusInv, [Next]_vars, NEW r \in Runs,
             status[r] = "AwaitingApproval", status'[r] # "AwaitingApproval",
             trigger[r] \in LegacyMsgs
      PROVE  \E k \in Decisions : Has(r, k)
  <2>1. StatusMove(r)
      BY <1>1, StepsKeep DEF RunMoves, RunMove
  <2>2. Has(r, "ApprovalRequested") /\ RequireWriteApproval
      BY <1>1 DEF KernelInv, ApprovalInv
  <2>3. CASE OtherMove(r)
    <3>1. CASE row[r] = "dispatching"
      <4>1. Has(r, "ApprovalGranted")
          BY <1>1, <2>2, <3>1 DEF KernelInv, ApprovalInv
      <4> QED BY <4>1 DEF Decisions
    <3> QED BY <1>1, <2>3, <3>1 DEF OtherMove
  <2>4. CASE r = wrun /\ wpc \in RunPc /\ WorkerMove(status'[r])
    <3>1. Legacy
        BY <1>1, <2>4, NoRunAssumption DEF KernelInv, TriggerInv, Legacy
    <3>2. ~BeforeHandOver
        BY <1>1, <2>2, <2>4 DEF KernelInv, ApprovalInv
    <3> QED BY <1>1, <2>2, <2>4, <3>1, <3>2 DEF WorkerMove
  <2>5. CASE trigger[r] = NoMsg
      BY <1>1, <2>5 DEF KernelInv, TriggerInv
  <2> QED BY <2>1, <2>3, <2>4, <2>5 DEF StatusMove
<1>2. KernelInv /\ StatusInv /\ [Next]_vars
        => [\A r \in Runs : /\ status[r] = "AwaitingApproval"
                            /\ status'[r] # "AwaitingApproval"
                            /\ trigger[r] \in LegacyMsgs
                         => \E k \in Decisions : Has(r, k)]_vars
    BY <1>1
<1> QED
  BY <1>2, KernelInvariantHolds, StatusInvariantHolds, PTL DEF Spec, PauseHoldsUntilDecided
=============================================================================
