---------------------------- MODULE Continuation ----------------------------
(***************************************************************************)
(* Same-session continuations in the kernel: the ledger that accepts one   *)
(* continuation per trigger run, the worker that creates and drives the    *)
(* next run, and the dispatcher that settles its reply.                    *)
(*                                                                         *)
(* A run is Running from its creation until the model's part ends: with a  *)
(* yield fact, a reply, a failure or an error.  log holds the journal      *)
(* events that carry a run id and that an observer tells apart; the event  *)
(* of an accepted continuation carries none.  All runs belong to one       *)
(* session of one agent and channel, so the consistency checks between a   *)
(* trigger and its session always succeed.                                 *)
(***************************************************************************)
EXTENDS Integers, Sequences, FiniteSets

CONSTANTS
    Runs,            \* run ids
    NoRun,
    MaxUserRuns,     \* bound on user messages
    MaxKernelCrashes \* bound on crashes of the kernel

ASSUME ContinuationAssumption ==
    /\ NoRun \notin Runs
    /\ MaxUserRuns \in Nat
    /\ MaxKernelCrashes \in Nat

VARIABLES
    runStatus,  \* runs.status, "none" = no row
    starts,     \* RunStarted events of the run
    log,        \* journal_events as an observer sees them
    ledger,     \* session_continuations: rows [trigger, next]
    cjob,       \* schedule_continuation job of the trigger run
    reply,      \* the run's reply: none, queued in the outbox, settled
    cpc,        \* worker thread: idle or the next transaction
    crun,       \* the run it drives
    ctrig,      \* the trigger of its continuation job
    userRuns,   \* user messages delivered
    kernelCrashes

kernelVars == <<runStatus, starts, log, ledger, cjob, reply, cpc, crun, ctrig,
                userRuns, kernelCrashes>>

RunState == {"none", "Running", "WaitingDispatch", "Completed", "Failed"}
EventKind == {"RunStarted", "Yield", "RunFailed", "RunCompleted"}
Event == [kind : EventKind, run : Runs]

KernelInit ==
    /\ runStatus = [r \in Runs |-> "none"]
    /\ starts = [r \in Runs |-> 0]
    /\ log = << >>
    /\ ledger = {}
    /\ cjob = [r \in Runs |-> "none"]
    /\ reply = [r \in Runs |-> "none"]
    /\ cpc = "idle" /\ crun = NoRun /\ ctrig = NoRun
    /\ userRuns = 0
    /\ kernelCrashes = 0

run_by_id(r) == runStatus[r] # "none"

continuation_by_trigger_run(t) == {row \in ledger : row.trigger = t}

UnusedIds == {r \in Runs : ~run_by_id(r) /\ \A row \in ledger : row.next # r}

\* A freshly generated run id.  Ids carry no meaning, so any one will do.
Fresh(r) == UnusedIds # {} /\ r = CHOOSE u \in UnusedIds : TRUE

Append1(kind, r) == log' = Append(log, [kind |-> kind, run |-> r])

-----------------------------------------------------------------------------
(* Accepting a continuation: one request of the accept loop. *)

request_session_continuation(t) == run_by_id(t)

\* One transaction: the request event, the ledger row with the next run's id
\* and the worker job.
accept_session_continuation(t, next) ==
    /\ continuation_by_trigger_run(t) = {}
    /\ Fresh(next)
    /\ ledger' = ledger \cup {[trigger |-> t, next |-> next]}
    /\ cjob' = [cjob EXCEPT ![t] = "queued"]
    /\ UNCHANGED <<runStatus, starts, log, reply, cpc, crun, ctrig, userRuns,
                   kernelCrashes>>

-----------------------------------------------------------------------------
(* The worker *)

Goto(pc) == cpc' = pc /\ UNCHANGED <<crun, ctrig>>

WorkerIdle == cpc' = "idle" /\ crun' = NoRun /\ ctrig' = NoRun

\* A user message is delivered by the legacy runtime: row and RunStarted (its
\* two transactions are the subject of Delivery).
DeliverUserMessage(r) ==
    /\ cpc = "idle"
    /\ userRuns < MaxUserRuns
    /\ Fresh(r)
    /\ userRuns' = userRuns + 1
    /\ runStatus' = [runStatus EXCEPT ![r] = "Running"]
    /\ starts' = [starts EXCEPT ![r] = @ + 1]
    /\ Append1("RunStarted", r)
    /\ cpc' = "model" /\ crun' = r /\ ctrig' = NoRun
    /\ UNCHANGED <<ledger, cjob, reply, kernelCrashes>>

\* Faulty variant: only queued jobs are leased.
LeaseOnlyQueued(t) ==
    /\ cpc = "idle"
    /\ cjob[t] = "queued"
    /\ cjob' = [cjob EXCEPT ![t] = "running"]
    /\ \E row \in continuation_by_trigger_run(t) : crun' = row.next
    /\ cpc' = "schedule"
    /\ ctrig' = t
    /\ UNCHANGED <<runStatus, starts, log, ledger, reply, userRuns, kernelCrashes>>

\* The job of a trigger is leased; a job a crash left running is leased again
\* once its lock has expired.
LeaseContinuation(t) ==
    /\ cpc = "idle"
    /\ cjob[t] \in {"queued", "running"}
    /\ cjob' = [cjob EXCEPT ![t] = "running"]
    /\ \E row \in continuation_by_trigger_run(t) : crun' = row.next
    /\ cpc' = "schedule"
    /\ ctrig' = t
    /\ UNCHANGED <<runStatus, starts, log, ledger, reply, userRuns, kernelCrashes>>

\* The registry snapshot of the trigger cannot be loaded, or the budget hook
\* fails closed: no run is created.
ScheduleRefused ==
    /\ cpc = "schedule"
    /\ Goto("err")
    /\ UNCHANGED <<runStatus, starts, log, ledger, cjob, reply, userRuns, kernelCrashes>>

\* insert_run_and_start: the row and RunStarted in one transaction.
insert_run_and_start ==
    /\ cpc = "schedule"
    /\ ~run_by_id(crun)
    /\ runStatus' = [runStatus EXCEPT ![crun] = "Running"]
    /\ starts' = [starts EXCEPT ![crun] = @ + 1]
    /\ Append1("RunStarted", crun)
    /\ Goto("model")
    /\ UNCHANGED <<ledger, cjob, reply, userRuns, kernelCrashes>>

\* The run of an earlier attempt reached a terminal state: nothing to do.
ScheduleTerminal ==
    /\ cpc = "schedule"
    /\ runStatus[crun] \in {"Completed", "Failed"}
    /\ Goto("ok")
    /\ UNCHANGED <<runStatus, starts, log, ledger, cjob, reply, userRuns, kernelCrashes>>

\* Faulty variant: the run of an earlier attempt is driven again.
ReplayStranded ==
    /\ cpc = "schedule"
    /\ runStatus[crun] \in {"Running", "WaitingDispatch"}
    /\ starts' = [starts EXCEPT ![crun] = @ + 1]
    /\ Append1("RunStarted", crun)
    /\ Goto("model")
    /\ UNCHANGED <<runStatus, ledger, cjob, reply, userRuns, kernelCrashes>>

\* It did not, with RunStarted on record or without: the run is failed and
\* never driven again, ...
ScheduleStranded ==
    /\ cpc = "schedule"
    /\ runStatus[crun] \in {"Running", "WaitingDispatch"}
    /\ runStatus' = [runStatus EXCEPT ![crun] = "Failed"]
    /\ Goto("stranded")
    /\ UNCHANGED <<starts, log, ledger, cjob, reply, userRuns, kernelCrashes>>

\* ... RunFailed is recorded, and the job fails.
StrandedRunFailed ==
    /\ cpc = "stranded"
    /\ Append1("RunFailed", crun)
    /\ Goto("err")
    /\ UNCHANGED <<runStatus, starts, ledger, cjob, reply, userRuns, kernelCrashes>>

\* The tool loop exhausts the budget with action yield and records the fact ...
ToolLoopYields ==
    /\ cpc = "model"
    /\ Append1("Yield", crun)
    /\ Goto("yielded")
    /\ UNCHANGED <<runStatus, starts, ledger, cjob, reply, userRuns, kernelCrashes>>

\* ... which run_yielded finds: the run completes without a reply.
CompleteYielded ==
    /\ cpc = "yielded"
    /\ runStatus' = [runStatus EXCEPT ![crun] = "Completed"]
    /\ Goto("ok")
    /\ UNCHANGED <<starts, log, ledger, cjob, reply, userRuns, kernelCrashes>>

\* The model answers; the reply is queued and then the run waits for it.  Writes
\* need no approval here, as by default: Delivery has the pause of enqueue_or_pause.
QueueReply ==
    /\ cpc = "model"
    /\ reply' = [reply EXCEPT ![crun] = "queued"]
    /\ Goto("waiting")
    /\ UNCHANGED <<runStatus, starts, log, ledger, cjob, userRuns, kernelCrashes>>

WaitForDispatch ==
    /\ cpc = "waiting"
    /\ runStatus' = [runStatus EXCEPT ![crun] = "WaitingDispatch"]
    /\ Goto("ok")
    /\ UNCHANGED <<starts, log, ledger, cjob, reply, userRuns, kernelCrashes>>

\* The model call fails: fail_run, RunFailed, and a notice is queued.
ModelFails ==
    /\ cpc = "model"
    /\ runStatus' = [runStatus EXCEPT ![crun] = "Failed"]
    /\ Goto("failed")
    /\ UNCHANGED <<starts, log, ledger, cjob, reply, userRuns, kernelCrashes>>

ModelRunFailed ==
    /\ cpc = "failed"
    /\ Append1("RunFailed", crun)
    /\ Goto("notify")
    /\ UNCHANGED <<runStatus, starts, ledger, cjob, reply, userRuns, kernelCrashes>>

NotifyFailure ==
    /\ cpc = "notify"
    /\ reply' = [reply EXCEPT ![crun] = "queued"]
    /\ Goto("ok")
    /\ UNCHANGED <<runStatus, starts, log, ledger, cjob, userRuns, kernelCrashes>>

\* Context assembly, the tool loop or the gateway return an error.
DriveError ==
    /\ cpc = "model"
    /\ Goto("err")
    /\ UNCHANGED <<runStatus, starts, log, ledger, cjob, reply, userRuns, kernelCrashes>>

\* succeed_worker_job or fail_worker_job; user messages have their job in
\* WorkerQueue.
SettleContinuationJob ==
    /\ cpc \in {"ok", "err"}
    /\ cjob' = IF ctrig = NoRun THEN cjob
               ELSE [cjob EXCEPT ![ctrig] = IF cpc = "ok" THEN "succeeded" ELSE "failed"]
    /\ WorkerIdle
    /\ UNCHANGED <<runStatus, starts, log, ledger, reply, userRuns, kernelCrashes>>

WorkerStep ==
    \/ \E t \in Runs : LeaseContinuation(t)
    \/ insert_run_and_start
    \/ ScheduleRefused \/ ScheduleTerminal \/ ScheduleStranded \/ StrandedRunFailed
    \/ ToolLoopYields \/ CompleteYielded
    \/ QueueReply \/ WaitForDispatch
    \/ ModelFails \/ ModelRunFailed \/ NotifyFailure
    \/ DriveError \/ SettleContinuationJob

-----------------------------------------------------------------------------
(* The dispatcher and crashes *)

\* The reply is delivered: a run that has not failed completes.
ReplyDelivered(r) ==
    /\ reply[r] = "queued"
    /\ reply' = [reply EXCEPT ![r] = "settled"]
    /\ IF runStatus[r] = "Failed"
       THEN UNCHANGED <<runStatus, log>>
       ELSE /\ runStatus' = [runStatus EXCEPT ![r] = "Completed"]
            /\ Append1("RunCompleted", r)
    /\ UNCHANGED <<starts, ledger, cjob, cpc, crun, ctrig, userRuns, kernelCrashes>>

\* The connector refuses it: the run fails.
ReplyRefused(r) ==
    /\ reply[r] = "queued"
    /\ reply' = [reply EXCEPT ![r] = "settled"]
    /\ runStatus' = [runStatus EXCEPT ![r] = "Failed"]
    /\ Append1("RunFailed", r)
    /\ UNCHANGED <<starts, ledger, cjob, cpc, crun, ctrig, userRuns, kernelCrashes>>

DispatcherStep == \E r \in Runs : ReplyDelivered(r) \/ ReplyRefused(r)

KernelCrash ==
    /\ kernelCrashes < MaxKernelCrashes
    /\ kernelCrashes' = kernelCrashes + 1
    /\ WorkerIdle
    /\ UNCHANGED <<runStatus, starts, log, ledger, cjob, reply, userRuns>>
=============================================================================
