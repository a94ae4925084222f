------------------------------- MODULE Kernel -------------------------------
(***************************************************************************)
(* The kernel process: worker, dispatcher, approval sweep and accept loop  *)
(* over one journal, crashes, and the startup sequence that recovers what  *)
(* a crash left.  A crash loses the threads' local state and keeps what    *)
(* committed transactions wrote.                                           *)
(***************************************************************************)
EXTENDS Gateway, Delivery, ApprovalExpiry

CONSTANTS
    ApprovalExpires,   \* config.write_approval_ttl_secs > 0
    MaxCrashes,        \* bound on crashes
    MaxJournalErrors   \* bound on journal transactions that return an error

ASSUME KernelAssumption ==
    /\ ApprovalExpires \in BOOLEAN
    /\ MaxCrashes \in Nat
    /\ MaxJournalErrors \in Nat

VARIABLES
    phase,     \* down, a startup stage, or up
    crashes,   \* crashes so far
    errors     \* journal errors so far

controlVars == <<phase, crashes, errors>>

vars == <<journalVars, outboxVars, queueVars, gatewayVars, workerVars,
          expiryVars, controlVars>>

Phases == {"down", "recover_unknown", "expire", "expiring", "up"}

\* Every table, journal count and thread-local variable has its type, and a
\* thread holds a message or run exactly while it is inside a handler.
TypeOK ==
    /\ JournalTypeOK
    /\ OutboxTypeOK
    /\ QueueTypeOK
    /\ GatewayTypeOK
    /\ WorkerTypeOK
    /\ ExpiryTypeOK
    /\ phase \in Phases
    /\ crashes \in 0..MaxCrashes
    /\ errors \in 0..MaxJournalErrors

\* The first start over an empty database.
Init ==
    /\ JournalInit
    /\ OutboxInit
    /\ QueueInit
    /\ GatewayInit
    /\ WorkerInit
    /\ ExpiryInit
    /\ phase = "recover_unknown"
    /\ crashes = 0
    /\ errors = 0

(***************************************************************************)
(* Startup: recover unknown dispatches, expire stale approvals if that is  *)
(* enabled, requeue undelivered ingress, then start the threads.           *)
(***************************************************************************)

Restart ==
    /\ phase = "down"
    /\ phase' = "recover_unknown"
    /\ UNCHANGED <<journalVars, outboxVars, queueVars, gatewayVars, workerVars,
                   expiryVars, crashes, errors>>

RecoverUnknown(r) ==
    /\ phase = "recover_unknown"
    /\ recover_unknown_invocation(r)
    /\ UNCHANGED <<queueVars, gatewayVars, workerVars, expiryVars, controlVars>>

\* The second half of recover_unknown_invocations.
RepairStaleRows ==
    /\ phase = "recover_unknown"
    /\ UnknownInvocations = {}
    /\ repair_stale_dispatching
    /\ phase' = "expire"
    /\ UNCHANGED <<queueVars, gatewayVars, workerVars, expiryVars, crashes, errors>>

ExpiryEnabled == RequireWriteApproval /\ ApprovalExpires

StartupExpiry(S) ==
    /\ phase = "expire"
    /\ ExpiryEnabled \/ S = {}
    /\ stale_approvals_since(S)
    /\ phase' = "expiring"
    /\ UNCHANGED <<outboxVars, queueVars, gatewayVars, workerVars, crashes, errors>>

StartThreads ==
    /\ phase = "expiring"
    /\ ExpiryIdle
    /\ recover_undelivered_ingress
    /\ phase' = "up"
    /\ UNCHANGED <<journalVars, outboxVars, gatewayVars, workerVars, expiryVars,
                   crashes, errors>>

(***************************************************************************)
(* The threads                                                             *)
(***************************************************************************)

Dispatcher ==
    /\ phase = "up"
    /\ \/ \E r \in Runs : lease_next_outbox_dispatch(r)
       \/ adapter_execute
       \/ succeed_outbox_dispatch
       \/ fail_outbox_dispatch
       \/ unknown_outbox_dispatch
    /\ UNCHANGED <<queueVars, gatewayVars, workerVars, expiryVars, controlVars>>

Worker ==
    /\ phase = "up"
    /\ WorkerStep
    /\ UNCHANGED <<gatewayVars, expiryVars, controlVars>>

Handler ==
    /\ phase = "up"
    /\ HandlerStep
    /\ UNCHANGED <<workerVars, expiryVars, controlVars>>

\* A request arrives: the environment's choice, so never forced by fairness.
Request ==
    /\ phase = "up"
    /\ \/ \E m \in Msgs : IngressReserve(m)
       \/ \E r \in Runs : ApproveRead(r) \/ DenyRead(r)
    /\ UNCHANGED <<workerVars, expiryVars, controlVars>>

Sweep ==
    /\ phase = "up"
    /\ ExpiryEnabled
    /\ \E S \in SUBSET Runs : S # {} /\ stale_approvals_since(S)
    /\ UNCHANGED <<outboxVars, queueVars, gatewayVars, workerVars, controlVars>>

\* The body of the sweep, in the thread and at startup.
Expire ==
    /\ phase \in {"expiring", "up"}
    /\ ExpireFail \/ \E r \in Runs : ExpireAppend(r)
    /\ UNCHANGED <<outboxVars, queueVars, gatewayVars, workerVars, controlVars>>

(***************************************************************************)
(* Faults                                                                  *)
(***************************************************************************)

\* A transaction of some thread returns an error (a full disk, a busy or
\* failing database) and the code takes its error path.
JournalError ==
    /\ phase = "up"
    /\ errors < MaxJournalErrors
    /\ errors' = errors + 1
    /\ UNCHANGED <<phase, crashes>>
    /\ \/ dispatch_once_error /\ UNCHANGED <<queueVars, gatewayVars, workerVars, expiryVars>>
       \/ WorkerError /\ UNCHANGED <<gatewayVars, expiryVars>>
       \/ HandlerError /\ UNCHANGED <<workerVars, expiryVars>>
       \/ ExpiryError /\ UNCHANGED <<outboxVars, queueVars, gatewayVars, workerVars>>

Crash ==
    /\ phase # "down"
    /\ crashes < MaxCrashes
    /\ crashes' = crashes + 1
    /\ phase' = "down"
    /\ DispatcherDone /\ WorkerDone /\ HandlerDone
    /\ elist' = {} /\ erun' = NoRun
    /\ UNCHANGED <<journalVars, row, calls, queueVars, errors>>

Startup ==
    \/ Restart
    \/ \E r \in Runs : RecoverUnknown(r)
    \/ RepairStaleRows
    \/ \E S \in SUBSET Runs : StartupExpiry(S)
    \/ StartThreads

Next ==
    \/ Startup
    \/ Dispatcher
    \/ Worker
    \/ Request
    \/ Handler
    \/ Sweep
    \/ Expire
    \/ JournalError
    \/ Crash

\* Each thread keeps running while it has something to do; the process is
\* restarted after a crash.  Requests and faults are never forced.
Fairness ==
    /\ WF_vars(Startup)
    /\ WF_vars(Dispatcher)
    /\ WF_vars(Worker)
    /\ WF_vars(Handler)
    /\ WF_vars(Sweep)
    /\ WF_vars(Expire)

Spec == Init /\ [][Next]_vars

FairSpec == Spec /\ Fairness
=============================================================================
