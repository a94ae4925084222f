------------------------------ MODULE Delivery ------------------------------
(***************************************************************************)
(* The worker thread: it leases the job of a message, creates the run,     *)
(* lets the model work, and hands the reply to the outbox or pauses the    *)
(* run for approval.  wpc names the transaction the thread is about to do. *)
(*                                                                         *)
(* Two paths exist.  deliver_via_runtime_v0 is the default; messages in    *)
(* LegacyMsgs take the frozen Runtime::deliver, which the calculator route *)
(* and the force-legacy flag use.  What the model and its tools do inside  *)
(* a run is abstracted to how the run ends: a reply, a failure, a yield or *)
(* an error.                                                               *)
(***************************************************************************)
EXTENDS Outbox, WorkerQueue

CONSTANTS
    LegacyMsgs,            \* messages the legacy Runtime delivers
    RequireWriteApproval   \* config.require_write_approval

ASSUME DeliveryAssumption ==
    /\ LegacyMsgs \subseteq Msgs
    /\ RequireWriteApproval \in BOOLEAN

VARIABLES
    wpc,    \* worker thread: idle, or the next transaction of the delivery
    wmsg,   \* the message of the leased job
    wrun    \* the run created for it

workerVars == <<wpc, wmsg, wrun>>

\* Transactions before, and on, the run of the delivery.
BeforeRunPc == {"session", "insert"}
RunPc == {"start", "model", "enqueue", "pause", "waiting", "complete",
          "fail", "failmark", "terminate", "termmark", "notify"}
EndPc == {"ok", "err", "errmark"}

WorkerInit == wpc = "idle" /\ wmsg = NoMsg /\ wrun = NoRun

WorkerTypeOK ==
    /\ wpc \in {"idle"} \cup BeforeRunPc \cup RunPc \cup EndPc
    /\ wmsg \in Msgs \cup {NoMsg}
    /\ wrun \in Runs \cup {NoRun}
    /\ (wpc = "idle") <=> (wmsg = NoMsg)
    /\ (wpc \in {"idle"} \cup BeforeRunPc) => (wrun = NoRun)
    /\ (wpc \in RunPc) => (wrun # NoRun)

Legacy == wmsg \in LegacyMsgs

\* The worker goes on to pc, in the same delivery.
Goto(pc) == wpc' = pc /\ UNCHANGED <<wmsg, wrun>>

WorkerDone == wpc' = "idle" /\ wmsg' = NoMsg /\ wrun' = NoRun

LeaseJob(m) ==
    /\ wpc = "idle"
    /\ lease_next_worker_job(m)
    /\ wpc' = "session"
    /\ wmsg' = m
    /\ UNCHANGED <<wrun, journalVars, outboxVars>>

\* get_or_create_session and the SessionReady event.
SessionReady ==
    /\ wpc = "session"
    /\ mark_delivered(wmsg)
    /\ Goto("insert")
    /\ UNCHANGED <<journalVars, outboxVars>>

\* No usable registry snapshot, or a budget hook that fails closed.
NoRunError ==
    /\ wpc = "insert"
    /\ Goto("err")
    /\ UNCHANGED <<journalVars, outboxVars, queueVars>>

InsertRun(r) ==
    /\ wpc = "insert"
    /\ insert_run(r, wmsg)
    /\ wpc' = "start"
    /\ wrun' = r
    /\ UNCHANGED <<wmsg, events, outboxVars, queueVars>>

\* The message already has a run: the unique index rejects a second one.
InsertRunConflict ==
    /\ wpc = "insert"
    /\ HasRun(wmsg)
    /\ Goto("err")
    /\ UNCHANGED <<journalVars, outboxVars, queueVars>>

RunStarted ==
    /\ wpc = "start"
    /\ append_event(wrun, {"RunStarted"})
    /\ Goto("model")
    /\ UNCHANGED <<status, trigger, outboxVars, queueVars>>

\* The model produced a reply and the gateway approved its invocation.
ModelReply ==
    /\ wpc = "model"
    /\ Goto("enqueue")
    /\ UNCHANGED <<journalVars, outboxVars, queueVars>>

\* Faulty variant: a failure is passed up without failing the run.
FailureLeavesRun ==
    /\ wpc = "model"
    /\ Goto("err")
    /\ UNCHANGED <<journalVars, outboxVars, queueVars>>

\* The model or a tool failed.
ModelFailure ==
    /\ wpc = "model"
    /\ Goto("fail")
    /\ UNCHANGED <<journalVars, outboxVars, queueVars>>

\* The budget ran out with action Terminate.  Only the legacy runtime has
\* budgets.
BudgetExhausted ==
    /\ wpc = "model"
    /\ Legacy
    /\ Goto("terminate")
    /\ UNCHANGED <<journalVars, outboxVars, queueVars>>

\* The budget ran out with action Yield: the run completes without a reply.
Yield ==
    /\ wpc = "model"
    /\ Legacy
    /\ complete_run(wrun)
    /\ Goto("ok")
    /\ UNCHANGED <<events, trigger, outboxVars, queueVars>>

\* The legacy runtime passes an error up without touching the run: context
\* assembly, the tool loop, or a refused reply invocation.
LegacyError ==
    /\ wpc \in {"model", "notify"}
    /\ Legacy
    /\ Goto("err")
    /\ UNCHANGED <<journalVars, outboxVars, queueVars>>

\* Faulty variant: the legacy path completes the run as well.
AlwaysComplete == "complete"

\* What follows enqueue_or_pause: the v0 path completes the run.
AfterEnqueue == IF Legacy THEN "ok" ELSE "complete"

\* enqueue_or_pause: the first of its two transactions, ...
EnqueueOrPause ==
    /\ wpc = "enqueue"
    /\ IF RequireWriteApproval
       THEN /\ append_event(wrun, {"ApprovalRequested"})
            /\ Goto("pause")
            /\ UNCHANGED row
       ELSE /\ queue_outbox_dispatch(wrun)
            /\ Goto("waiting")
    /\ UNCHANGED <<status, trigger, calls, dpc, drun, queueVars>>

\* ... and the second.
PauseStatus ==
    /\ wpc = "pause"
    /\ update_run_status(wrun, "AwaitingApproval")
    /\ Goto(AfterEnqueue)
    /\ UNCHANGED <<events, trigger, outboxVars, queueVars>>

WaitingStatus ==
    /\ wpc = "waiting"
    /\ update_run_status(wrun, "WaitingDispatch")
    /\ Goto(AfterEnqueue)
    /\ UNCHANGED <<events, trigger, outboxVars, queueVars>>

V0Complete ==
    /\ wpc = "complete"
    /\ complete_run(wrun)
    /\ Goto("ok")
    /\ UNCHANGED <<events, trigger, outboxVars, queueVars>>

FailRun ==
    /\ wpc = "fail"
    /\ fail_run(wrun)
    /\ Goto("failmark")
    /\ UNCHANGED <<events, trigger, outboxVars, queueVars>>

RunFailed ==
    /\ wpc = "failmark"
    /\ append_event(wrun, {"RunFailed"})
    /\ Goto(IF Legacy THEN "notify" ELSE "err")
    /\ UNCHANGED <<status, trigger, outboxVars, queueVars>>

TerminateRun ==
    /\ wpc = "terminate"
    /\ fail_run(wrun)
    /\ Goto("termmark")
    /\ UNCHANGED <<events, trigger, outboxVars, queueVars>>

\* The tool loop ignores errors while it ends an exhausted run, so deliver
\* looks at the run's status to tell a failed run from one to answer.
AfterTerminate == IF status[wrun] = "Failed" THEN "notify" ELSE "enqueue"

RunBudgetTerminated ==
    /\ wpc = "termmark"
    /\ append_event(wrun, {"RunBudgetTerminated"})
    /\ Goto(AfterTerminate)
    /\ UNCHANGED <<status, trigger, outboxVars, queueVars>>

\* reply_with_failure queues its notice whatever the approval setting.
FailureNotice ==
    /\ wpc = "notify"
    /\ queue_outbox_dispatch(wrun)
    /\ Goto("ok")
    /\ UNCHANGED <<status, trigger, calls, dpc, drun, queueVars>>

SucceedJob ==
    /\ wpc = "ok"
    /\ succeed_worker_job(wmsg)
    /\ WorkerDone
    /\ UNCHANGED <<journalVars, outboxVars>>

FailJob ==
    /\ wpc = "err"
    /\ fail_worker_job(wmsg)
    /\ Goto("errmark")
    /\ UNCHANGED <<journalVars, outboxVars>>

\* The RunFailed event of the worker names the message and no run.
FailJobMark ==
    /\ wpc = "errmark"
    /\ mark_delivered(wmsg)
    /\ WorkerDone
    /\ UNCHANGED <<journalVars, outboxVars>>

\* A journal error in the transaction at pc takes the worker elsewhere: in
\* the v0 path an error in the loop or while handing over the reply fails the
\* run; an error of the job updates, or while ending an exhausted run, is
\* ignored; any other fails the job.
ErrorTarget ==
    CASE wpc \in {"model", "enqueue", "pause", "waiting"} /\ ~Legacy -> "fail"
      [] wpc = "terminate" -> "termmark"
      [] wpc = "termmark" -> AfterTerminate
      [] wpc = "err" -> "errmark"
      [] OTHER -> "err"

\* When the error is that of deliver's own read of the run's status, a failed
\* run is taken for one to answer.
StatusReadError ==
    /\ wpc = "notify"
    /\ Goto("enqueue")

WorkerError ==
    /\ wpc # "idle"
    /\ \/ IF wpc \in {"ok", "errmark"} THEN WorkerDone ELSE Goto(ErrorTarget)
       \/ StatusReadError
    /\ UNCHANGED <<journalVars, outboxVars, queueVars>>

WorkerStep ==
    \/ \E m \in Msgs : LeaseJob(m)
    \/ SessionReady \/ NoRunError \/ InsertRunConflict
    \/ \E r \in Runs : InsertRun(r)
    \/ RunStarted \/ ModelReply \/ ModelFailure \/ Yield \/ LegacyError
    \/ EnqueueOrPause \/ PauseStatus \/ WaitingStatus \/ V0Complete
    \/ FailRun \/ RunFailed
    \/ BudgetExhausted \/ TerminateRun \/ RunBudgetTerminated
    \/ FailureNotice
    \/ SucceedJob \/ FailJob \/ FailJobMark
=============================================================================
