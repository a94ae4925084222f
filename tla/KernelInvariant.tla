-------------------------- MODULE KernelInvariant --------------------------
(***************************************************************************)
(* The inductive invariant behind the safety properties of the kernel.     *)
(***************************************************************************)
EXTENDS KernelProperties

\* The dispatcher holds a dispatching row, before or after its only call; it
\* does not run before startup has finished.
DispatcherInv ==
    /\ phase # "up" => dpc = "idle"
    /\ dpc # "idle" => row[drun] = "dispatching"
    /\ dpc = "leased" => calls[drun] = 0
    /\ dpc = "executed" => calls[drun] = 1

\* The projection's status determines the outbox events of the journal and
\* bounds the adapter calls.
RowInv ==
    \A r \in Runs :
        /\ Has(r, "OutboxQueued") <=> row[r] # "none"
        /\ Has(r, "DispatchStarted") <=> row[r] \notin {"none", "pending"}
        /\ events[r]["ReceiptSucceeded"] = IF row[r] = "succeeded" THEN 1 ELSE 0
        /\ events[r]["ReceiptFailed"] = IF row[r] = "failed" THEN 1 ELSE 0
        /\ events[r]["OutboxDispatchUnknown"] = IF row[r] = "unknown" THEN 1 ELSE 0
        /\ row[r] \in {"none", "pending"} => calls[r] = 0
        /\ row[r] \in {"succeeded", "failed"} => calls[r] = 1
        /\ calls[r] <= 1

\* Stages of a delivery in which the run's reply has not been handed over.
BeforeHandOver ==
    \/ wpc \in {"start", "model", "enqueue", "terminate", "termmark", "notify"}
    \/ wpc \in {"fail", "failmark"} /\ Legacy

\* Who may queue a reply: approval is asked for only where it is required,
\* decisions are about runs that asked, and a reply that asked is queued only
\* once it was granted.
ApprovalInv ==
    /\ \A r \in Runs :
          /\ Has(r, "ApprovalRequested") => RequireWriteApproval
          /\ status[r] = "AwaitingApproval" => Has(r, "ApprovalRequested")
          /\ row[r] # "none" /\ Has(r, "ApprovalRequested") => Has(r, "ApprovalGranted")
    /\ hrun # NoRun => Has(hrun, "ApprovalRequested")
    /\ hpc = "queue" => Has(hrun, "ApprovalGranted")
    /\ wpc = "pause" => Has(wrun, "ApprovalRequested")
    /\ BeforeHandOver => row[wrun] = "none" /\ ~Has(wrun, "ApprovalRequested")
    /\ \A r \in elist : Has(r, "ApprovalRequested")
    /\ erun # NoRun => Has(erun, "ApprovalRequested")

\* Runs exist only for messages, one per message, and nothing happens to a run
\* id that was not handed out.
TriggerInv ==
    /\ \A r \in Runs :
          trigger[r] = NoMsg =>
              status[r] = "none" /\ row[r] = "none" /\ ~Has(r, "ApprovalRequested")
    /\ \A r, q \in Runs : trigger[r] = trigger[q] /\ trigger[r] # NoMsg => r = q
    /\ wrun # NoRun => trigger[wrun] = wmsg

\* Inductive: it holds at the first start and every step of every thread, a
\* journal error and a crash keep it.
KernelInv == TypeOK /\ DispatcherInv /\ RowInv /\ ApprovalInv /\ TriggerInv

\* Where the worker may be: only the legacy runtime ends a run by its budget or
\* queues a notice, only the v0 path completes a run itself, and a run it is
\* still to hand over has not been completed.
WorkerInv ==
    /\ wpc \in {"terminate", "termmark", "notify"} => Legacy
    /\ wpc = "complete" => ~Legacy
    /\ wpc = "waiting" => ~RequireWriteApproval
    /\ wpc = "failmark" => status[wrun] # "Running"
    /\ BeforeHandOver => status[wrun] # "Completed"

\* A thread that is about to change a paused run has recorded the decision.
DecisionInv ==
    /\ hpc = "resume" => Has(hrun, "ApprovalGranted")
    /\ hpc = "denyfail" => Has(hrun, "ApprovalDenied")
    /\ erun # NoRun => Has(erun, "ApprovalExpired")

\* CompletedMeansDelivered, in terms of the row.
CompletedInv ==
    \A r \in Runs :
           /\ trigger[r] \in LegacyMsgs
           /\ status[r] = "Completed"
           /\ row[r] # "none" \/ Has(r, "ApprovalRequested")
        => row[r] = "succeeded"

\* Inductive relative to KernelInv: what a run's status says about its reply, its
\* approval and the worker.
StatusInv == WorkerInv /\ DecisionInv /\ CompletedInv /\ NoDanglingRun
=============================================================================
