-------------------------- MODULE KernelProperties --------------------------
(***************************************************************************)
(* What must hold of the kernel.  The first part holds and is checked, and *)
(* partly proved; the second states a sentence of the repository's         *)
(* documents that the code does not keep.                                  *)
(***************************************************************************)
EXTENDS Kernel

-----------------------------------------------------------------------------
(* Safety *)

\* The fate of a run's reply as the journal, not the projection, tells it.
Fate == [r \in Runs |->
            IF Has(r, "OutboxDispatchUnknown") THEN "unknown"
            ELSE IF Has(r, "ReceiptFailed") THEN "rejected"
            ELSE IF Has(r, "ReceiptSucceeded") THEN "delivered"
            ELSE IF Has(r, "DispatchStarted") THEN "claimed"
            ELSE IF Has(r, "OutboxQueued") THEN "queued"
            ELSE "idle"]

Contract == INSTANCE ReplyContract
                WITH Replies <- Runs, fate <- Fate, attempts <- calls

\* The journal's account of every reply keeps the contract of ReplyContract:
\* one queueing, one claim, at most one adapter call, one final verdict, over
\* lease_next_outbox_dispatch, adapter.execute, the three terminal
\* transitions, recover_unknown_invocations and crashes between them.
ContractKept == Contract!Spec

\* However often a message's job is leased, at most one of its runs is ever
\* handed to the adapter, and only once: the deduplication of ingress, the
\* unique index on runs(trigger_event_id) and the outbox lease together.
AtMostOneDispatchPerMessage ==
    \A r, q \in Runs :
        calls[r] > 0 /\ calls[q] > 0 /\ trigger[r] = trigger[q]
            => r = q /\ calls[r] = 1

RowOfFate == [idle |-> "none", queued |-> "pending", claimed |-> "dispatching",
              delivered |-> "succeeded", rejected |-> "failed",
              unknown |-> "unknown"]

\* The outbox_dispatches projection never drifts from the journal, not even
\* between a crash and the end of recovery, and the journal never holds two
\* terminal facts for one reply.
RowMatchesJournal ==
    \A r \in Runs :
        /\ row[r] = RowOfFate[Fate[r]]
        /\ \A k \in TerminalFact :
              events[r][k] <= 1 /\ \A l \in TerminalFact \ {k} : ~(Has(r, k) /\ Has(r, l))

\* A reply that enqueue_or_pause held back for approval reaches the adapter
\* only after approve_run recorded ApprovalGranted.
PausedReplyNeedsGrant ==
    \A r \in Runs :
        calls[r] > 0 /\ Has(r, "ApprovalRequested") => Has(r, "ApprovalGranted")

\* A run of the legacy runtime that has a reply is Completed only if the
\* reply was delivered.
CompletedMeansDelivered ==
    \A r \in Runs :
           /\ trigger[r] \in LegacyMsgs
           /\ status[r] = "Completed"
           /\ Has(r, "OutboxQueued") \/ Has(r, "ApprovalRequested")
        => row[r] = "succeeded"

\* A run of the v0 runtime is Running without the worker working on it only
\* after a crash or a journal error.
NoDanglingRun ==
    \A r \in Runs :
           /\ status[r] = "Running"
           /\ trigger[r] \notin LegacyMsgs
           /\ ~(wrun = r /\ wpc \in RunPc)
        => crashes + errors > 0

\* A paused run of the legacy runtime leaves AwaitingApproval only with a
\* recorded decision: granted, denied or expired.
PauseHoldsUntilDecided ==
    [][\A r \in Runs :
             /\ status[r] = "AwaitingApproval"
             /\ status'[r] # "AwaitingApproval"
             /\ trigger[r] \in LegacyMsgs
          => \E k \in Decisions : Has(r, k)]_vars

-----------------------------------------------------------------------------
(* Liveness *)

\* Every accepted message is worked off: its job ends succeeded or failed,
\* across crashes and leases of jobs a crash left running.
AcceptedIsWorkedOff ==
    \A m \in Msgs : m \in accepted ~> job[m] \in {"succeeded", "failed"}

\* Every queued reply gets a verdict: the dispatcher settles it, or recovery
\* does after a crash.
QueuedIsSettled ==
    \A r \in Runs : row[r] = "pending" ~> row[r] \in TerminalRow

\* A paused run does not wait forever: somebody decides or
\* expire_stale_approvals fails it.  A crash or a journal error between the
\* recorded decision and the run's status can hold it back, and nothing else.
PauseEnds ==
    \A r \in Runs :
        status[r] = "AwaitingApproval" ~>
            \/ status[r] # "AwaitingApproval"
            \/ crashes + errors > 0 /\ \E k \in Decisions : Has(r, k)

-----------------------------------------------------------------------------
(* What a document says and the code does not do *)

\* docs/operating-guide.md and the M2d decision: the pause is durable, a
\* paused run stays AwaitingApproval until it is decided.
PauseIsDurable ==
    [][\A r \in Runs :
          status[r] = "AwaitingApproval" /\ status'[r] # "AwaitingApproval"
              => \E k \in Decisions : Has(r, k)]_vars
=============================================================================
