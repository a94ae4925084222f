------------------------------- MODULE Outbox -------------------------------
(***************************************************************************)
(* The outbox: the queue of approved replies, the dispatcher thread that   *)
(* sends them through the connector adapter, and the startup recovery of   *)
(* dispatches a crash cut short.                                           *)
(*                                                                         *)
(* The dispatcher leases a row, calls the adapter without holding the      *)
(* journal lock, and settles the row by what the adapter returned.  Rows   *)
(* are leased in any order; the code takes the oldest first, which is one  *)
(* of the orders considered.                                               *)
(***************************************************************************)
EXTENDS Journal

VARIABLES
    row,      \* outbox_dispatches.status of the run's reply, "none" = no row
    calls,    \* how often adapter.execute was called for the run's reply
    dpc,      \* dispatcher thread: idle, leased (before the call), executed
    drun      \* the run whose reply the dispatcher holds

outboxVars == <<row, calls, dpc, drun>>

RowStatus == {"none", "pending", "dispatching", "succeeded", "failed", "unknown"}
TerminalRow == {"succeeded", "failed", "unknown"}
TerminalFact == {"ReceiptSucceeded", "ReceiptFailed", "OutboxDispatchUnknown"}

OutboxInit ==
    /\ row = [r \in Runs |-> "none"]
    /\ calls = [r \in Runs |-> 0]
    /\ dpc = "idle"
    /\ drun = NoRun

OutboxTypeOK ==
    /\ row \in [Runs -> RowStatus]
    /\ calls \in [Runs -> Nat]
    /\ dpc \in {"idle", "leased", "executed"}
    /\ drun \in Runs \cup {NoRun}
    /\ (dpc = "idle") <=> (drun = NoRun)

\* Faulty variant: INSERT OR REPLACE.
queue_outbox_dispatch_replacing(r) ==
    /\ row' = [row EXCEPT ![r] = "pending"]
    /\ append_event(r, {"OutboxQueued"})

\* INSERT OR IGNORE by invocation id; OutboxQueued only for an inserted row.
queue_outbox_dispatch(r) ==
    IF row[r] = "none"
    THEN /\ row' = [row EXCEPT ![r] = "pending"]
         /\ append_event(r, {"OutboxQueued"})
    ELSE UNCHANGED <<row, events>>

\* Faulty variant: a dispatching row whose lock expired is leased again, as
\* the worker queue does with its jobs.
lease_outbox_dispatch_again(r) ==
    /\ dpc = "idle"
    /\ row[r] \in {"pending", "dispatching"}
    /\ row' = [row EXCEPT ![r] = "dispatching"]
    /\ append_event(r, {"DispatchStarted"})
    /\ dpc' = "leased"
    /\ drun' = r
    /\ UNCHANGED <<calls, status, trigger>>

lease_next_outbox_dispatch(r) ==
    /\ dpc = "idle"
    /\ row[r] = "pending"
    /\ row' = [row EXCEPT ![r] = "dispatching"]
    /\ append_event(r, {"DispatchStarted"})
    /\ dpc' = "leased"
    /\ drun' = r
    /\ UNCHANGED <<calls, status, trigger>>

\* adapter.execute: the effect outside the kernel; no journal access.
adapter_execute ==
    /\ dpc = "leased"
    /\ calls' = [calls EXCEPT ![drun] = @ + 1]
    /\ dpc' = "executed"
    /\ UNCHANGED <<row, drun, events, status, trigger>>

DispatcherDone == dpc' = "idle" /\ drun' = NoRun

\* The three terminal transitions accept only a dispatching row, and write
\* nothing otherwise.
succeed_outbox_dispatch ==
    /\ dpc = "executed"
    /\ DispatcherDone
    /\ UNCHANGED <<calls, trigger>>
    /\ IF row[drun] = "dispatching"
       THEN /\ row' = [row EXCEPT ![drun] = "succeeded"]
            /\ IF status[drun] = "Failed"
               THEN /\ append_event(drun, {"ReceiptSucceeded"})
                    /\ UNCHANGED status
               ELSE /\ append_event(drun, {"ReceiptSucceeded", "RunCompleted"})
                    /\ update_run_status(drun, "Completed")
       ELSE UNCHANGED <<row, events, status>>

fail_outbox_dispatch ==
    /\ dpc = "executed"
    /\ DispatcherDone
    /\ UNCHANGED <<calls, trigger>>
    /\ IF row[drun] = "dispatching"
       THEN /\ row' = [row EXCEPT ![drun] = "failed"]
            /\ append_event(drun, {"ReceiptFailed", "RunFailed"})
            /\ update_run_status(drun, "Failed")
       ELSE UNCHANGED <<row, events, status>>

\* Faulty variant: an unknown outcome completes the run.
unknown_completes_run ==
    /\ dpc = "executed"
    /\ DispatcherDone
    /\ UNCHANGED <<calls, trigger>>
    /\ row' = [row EXCEPT ![drun] = "unknown"]
    /\ append_event(drun, {"OutboxDispatchUnknown"})
    /\ update_run_status(drun, "Completed")

\* A timeout, a transport error or an unclear receipt.  The run is untouched.
unknown_outbox_dispatch ==
    /\ dpc = "executed"
    /\ DispatcherDone
    /\ UNCHANGED <<calls, trigger, status>>
    /\ IF row[drun] = "dispatching"
       THEN /\ row' = [row EXCEPT ![drun] = "unknown"]
            /\ append_event(drun, {"OutboxDispatchUnknown"})
       ELSE UNCHANGED <<row, events>>

\* The settling transaction itself returns an error: dispatch_once passes it
\* up, the loop logs it and goes on, and the row stays dispatching.
dispatch_once_error ==
    /\ dpc = "executed"
    /\ DispatcherDone
    /\ UNCHANGED <<row, calls, events, status, trigger>>

\* Faulty variant: recovery trusts the run's status.
UnknownInvocationsByStatus ==
    {r \in Runs : status[r] = "WaitingDispatch" /\ row[r] = "dispatching"}

\* Started, and neither a receipt nor an unknown fact.
UnknownInvocations ==
    {r \in Runs : Has(r, "DispatchStarted") /\ \A k \in TerminalFact : ~Has(r, k)}

\* Faulty variant: recovery forgets the projection.
recover_without_projection(r) ==
    /\ r \in UnknownInvocations
    /\ append_event(r, {"OutboxDispatchUnknown"})
    /\ update_run_status(r, "Unknown")
    /\ UNCHANGED <<row, calls, dpc, drun, trigger>>

\* One transaction of startup recovery; it does not look at the row's or the
\* run's status.
recover_unknown_invocation(r) ==
    /\ r \in UnknownInvocations
    /\ append_event(r, {"OutboxDispatchUnknown"})
    /\ row' = [row EXCEPT ![r] = "unknown"]
    /\ update_run_status(r, "Unknown")
    /\ UNCHANGED <<calls, dpc, drun, trigger>>

\* What the last terminal fact says the row should be.
classify_terminal_fact(r) ==
    CASE Has(r, "OutboxDispatchUnknown") -> "unknown"
      [] Has(r, "ReceiptFailed") -> "failed"
      [] OTHER -> "succeeded"

\* Dispatching rows whose journal is already terminal.
StaleDispatching ==
    {r \in Runs : row[r] = "dispatching" /\ \E k \in TerminalFact : Has(r, k)}

\* Startup, after the unknown invocations: stale rows take the status their
\* terminal fact says, except those whose lease has not expired yet.
repair_stale_dispatching ==
    /\ \E S \in SUBSET StaleDispatching :
          row' = [r \in Runs |-> IF r \in S THEN classify_terminal_fact(r) ELSE row[r]]
    /\ UNCHANGED <<calls, dpc, drun, journalVars>>
=============================================================================
