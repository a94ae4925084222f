------------------------------ MODULE Journal ------------------------------
(***************************************************************************)
(* The durable state every kernel thread shares: the append-only event     *)
(* journal and the `runs` table, both in one SQLite database behind one    *)
(* mutex.  One journal transaction is one step of the model.               *)
(*                                                                         *)
(* The hash-chained global log is abstracted to what the rest of the       *)
(* kernel asks of it: how often a kind of event was recorded for a run.    *)
(* Every run has at most one outbox invocation (its reply), so events      *)
(* that carry an invocation id are counted for the run that owns it.       *)
(***************************************************************************)
EXTENDS Naturals, FiniteSets

CONSTANTS
    Msgs,      \* external messages (ingress events)
    Runs,      \* run ids that RunId::new may hand out
    NoMsg,     \* the absence of a message
    NoRun      \* the absence of a run

ASSUME NoMsgAssumption == NoMsg \notin Msgs
ASSUME NoRunAssumption == NoRun \notin Runs

VARIABLES
    events,    \* events[r][k]: how many k events the journal holds for run r
    status,    \* runs.status, "none" while the run has no row
    trigger    \* runs.trigger_event_id

journalVars == <<events, status, trigger>>

\* ReceiptReceived is split by the status in its payload, which recovery and
\* the projection read back.
Kinds == {"RunStarted",
          "ApprovalRequested", "ApprovalGranted", "ApprovalDenied", "ApprovalExpired",
          "OutboxQueued", "DispatchStarted",
          "ReceiptSucceeded", "ReceiptFailed", "OutboxDispatchUnknown",
          "RunCompleted", "RunFailed", "RunBudgetTerminated"}

RunStatus == {"none", "Running", "AwaitingApproval", "WaitingDispatch",
              "Completed", "Failed", "Unknown"}

JournalInit ==
    /\ events = [r \in Runs |-> [k \in Kinds |-> 0]]
    /\ status = [r \in Runs |-> "none"]
    /\ trigger = [r \in Runs |-> NoMsg]

JournalTypeOK ==
    /\ events \in [Runs -> [Kinds -> Nat]]
    /\ status \in [Runs -> RunStatus]
    /\ trigger \in [Runs -> Msgs \cup {NoMsg}]

Has(r, k) == events[r][k] > 0

\* One transaction appends each kind in ks once.
append_event(r, ks) ==
    events' = [events EXCEPT ![r] =
                 [k \in Kinds |-> IF k \in ks THEN events[r][k] + 1 ELSE events[r][k]]]

\* update_run_status, complete_run and fail_run: none of them looks at the
\* status it overwrites.
update_run_status(r, s) == status' = [status EXCEPT ![r] = s]

complete_run(r) == update_run_status(r, "Completed")

fail_run(r) == update_run_status(r, "Failed")

\* The unique index on runs(trigger_event_id).
HasRun(m) == \E r \in Runs : trigger[r] = m

\* Faulty variant: no unique index on the trigger event.
insert_run_without_index(r, m) ==
    /\ trigger[r] = NoMsg
    /\ trigger' = [trigger EXCEPT ![r] = m]
    /\ update_run_status(r, "Running")

insert_run(r, m) ==
    /\ trigger[r] = NoMsg
    /\ ~HasRun(m)
    /\ trigger' = [trigger EXCEPT ![r] = m]
    /\ update_run_status(r, "Running")
=============================================================================
