------------------------ MODULE CodingSubmission -------------------------
(***************************************************************************)
(* Development submissions from the Kernel's tool call to the proposal:    *)
(* the attempt rows of journal/coding_task_submissions.rs, the handler of  *)
(* server/coding_task_submit, its client, and the receipt-linked proposal  *)
(* of journal/capability_proposal_receipt.rs, composed with the harness's  *)
(* SubmissionStore.  A caller is a Kernel thread inside the handler; the   *)
(* same call key may be submitted again, by the same or another thread.    *)
(***************************************************************************)
EXTENDS SubmissionStore

CONSTANTS
    Callers,           \* Kernel threads
    Keys,              \* submission call keys
    Messages,          \* source messages
    KeyMessage,        \* call key -> the message its run answers
    KeyKind,           \* call key -> the kind of component its request names
    MaxKernelCrashes,  \* bound on Kernel restarts
    MaxUnsettled,      \* bound on attempts left running by a failed settlement
    MaxFaults          \* bound on faults of all kinds together

ASSUME SubmissionAssumption ==
    /\ NoOne \notin Callers
    /\ KeyMessage \in [Keys -> Messages]
    /\ KeyKind \in [Keys -> Kinds]

VARIABLES
    row,        \* attempt -> its row
    caller,     \* caller -> where it is
    proposals,  \* attempts whose receipt has a proposal
    kernelCrashes,
    unsettled   \* history: attempts left running by a settlement that failed

kernelVars == <<row, caller, proposals, kernelCrashes, unsettled>>
vars == <<storeVars, kernelVars>>

NoRow == [status |-> "none", key |-> NoOne, sequence |-> 0]
IdleCaller == [pc |-> "idle", attempt |-> NoOne, answer |-> "none"]

Rows(m) == {a \in Attempts : row[a].status # "none" /\ KeyMessage[row[a].key] = m}
Last(m) == CHOOSE a \in Rows(m) : \A b \in Rows(m) : row[b].sequence <= row[a].sequence
Fresh == {a \in Attempts : row[a].status = "none"}

Init ==
    /\ StoreInit
    /\ row = [a \in Attempts |-> NoRow]
    /\ caller = [c \in Callers |-> IdleCaller]
    /\ proposals = {}
    /\ kernelCrashes = 0
    /\ unsettled = {}

At(c, pc) == caller[c].pc = pc
Become(c, pc, a) == caller' = [caller EXCEPT ![c] = [pc |-> pc, attempt |-> a, answer |-> "none"]]

\* Faulty variant: an attempt whose outcome is unknown does not block the next.
FaultyNewAttempt(c, k) ==
    LET m == KeyMessage[k] IN
    /\ Rows(m) # {} => row[Last(m)].status \in {"definitively_rejected", "outcome_unknown"}
    /\ Fresh # {}
    /\ LET a == CHOOSE x \in Fresh : TRUE IN
       /\ row' = [row EXCEPT ![a] = [status |-> "running", key |-> k,
                                     sequence |-> Cardinality(Rows(m)) + 1]]
       /\ Become(c, "execute", a)

\* The first claim of a call key: the next attempt of the message, or an error
\* when its last attempt is not definitively rejected.
NewAttempt(c, k) ==
    LET m == KeyMessage[k] IN
    /\ Rows(m) # {} => row[Last(m)].status = "definitively_rejected"
    /\ Fresh # {}
    /\ LET a == CHOOSE x \in Fresh : TRUE IN
       /\ row' = [row EXCEPT ![a] = [status |-> "running", key |-> k,
                                     sequence |-> Cardinality(Rows(m)) + 1]]
       /\ Become(c, "execute", a)

\* The claim of a key that has a row: a running attempt is executed again under
\* its own identity, a succeeded one is reused, and any other is an error.
ReplayAttempt(c, k) ==
    \E a \in Attempts :
      /\ row[a].key = k
      /\ \/ row[a].status = "running" /\ Become(c, "execute", a)
         \/ row[a].status = "succeeded" /\ Become(c, "propose", a)
      /\ UNCHANGED row

\* claim_coding_task_submission, one transaction.
Claim(c, k) ==
    IF \E a \in Attempts : row[a].key = k THEN ReplayAttempt(c, k) ELSE NewAttempt(c, k)

\* A tool call enters the handler with a request that passed its checks; one
\* that did not leaves nothing behind.
Submit(c, k) ==
    /\ At(c, "idle")
    /\ Claim(c, k)
    /\ UNCHANGED <<storeVars, proposals, kernelCrashes, unsettled>>

\* The client connects and the submission reaches a harness thread.
Send(c, t) ==
    /\ At(c, "execute")
    /\ Accept(t, caller[c].attempt, KeyKind[row[caller[c].attempt].key], c)
    /\ caller' = [caller EXCEPT ![c].pc = "waiting"]
    /\ UNCHANGED <<row, proposals, kernelCrashes, unsettled>>

\* Faulty variant: a call that is given up on counts as a rejection.
FaultyGiveUp(c) ==
    /\ At(c, "execute") \/ At(c, "waiting")
    /\ caller' = [caller EXCEPT ![c].pc = "settle", ![c].answer = "definitively_rejected"]
    /\ thread' = [t \in Threads |-> IF thread[t].client = c
                                    THEN [thread[t] EXCEPT !.client = NoOne] ELSE thread[t]]
    /\ UNCHANGED <<dir, content, diskFaults, harnessCrashes, history,
                   row, proposals, kernelCrashes, unsettled>>

\* The client gives up: it could not connect, or no answer arrived in time, or
\* the answer was not one the protocol defines.  A thread that works for it
\* goes on without a reader.
GiveUp(c) ==
    /\ At(c, "execute") \/ At(c, "waiting")
    /\ caller' = [caller EXCEPT ![c].pc = "settle", ![c].answer = "outcome_unknown"]
    /\ thread' = [t \in Threads |-> IF thread[t].client = c
                                    THEN [thread[t] EXCEPT !.client = NoOne] ELSE thread[t]]
    /\ UNCHANGED <<dir, content, diskFaults, harnessCrashes, history,
                   row, proposals, kernelCrashes, unsettled>>

\* A thread writes its answer; classify_response maps it one to one.
Reply(t) ==
    /\ thread[t].pc = "answer"
    /\ thread' = [thread EXCEPT ![t] = IdleThread]
    /\ IF thread[t].client \in Callers
       THEN caller' = [caller EXCEPT ![thread[t].client].pc = "settle",
                                     ![thread[t].client].answer = thread[t].result]
       ELSE UNCHANGED caller
    /\ UNCHANGED <<dir, content, diskFaults, harnessCrashes, history,
                   row, proposals, kernelCrashes, unsettled>>

\* finish_coding_task_submission, one transaction: a repetition changes nothing,
\* a row that is no longer running is a conflict.
Finish(a, status) ==
    /\ row' = IF row[a].status = "running" THEN [row EXCEPT ![a].status = status] ELSE row
    /\ unsettled' = unsettled \ {a}

\* The transaction fails, and the handler with it: the row stays as it is.
FinishFails(a) ==
    /\ row[a].status = "running"
    /\ Cardinality(unsettled \union {a}) <= MaxUnsettled
    /\ unsettled' = unsettled \union {a}
    /\ UNCHANGED row

\* Either way the handler is left.
Settled(c, status) ==
    /\ Finish(caller[c].attempt, status) \/ FinishFails(caller[c].attempt)
    /\ Become(c, "idle", NoOne)

\* Faulty variant: an answer without an outcome leaves the attempt running.
FaultySettleUnknown(c) ==
    /\ Become(c, "idle", NoOne)
    /\ UNCHANGED <<row, unsettled>>

\* The outcome is unknown, the acceptance is invalid, or the content it names
\* cannot be loaded.
SettleUnknown(c) == Settled(c, "outcome_unknown")

\* The answer binds the request, the attempt and the three digests, or not.
validate_acceptance == BOOLEAN

\* The three objects an acceptance names, read one after the other.  An object
\* lost behind the reader is an object lost after the last read, so the reads
\* are one step; what is done with them is another.
Loads(a) == content[a] = Contents

\* settle_submission_attempt.  A valid acceptance whose content loads is
\* completed next.
Settle(c) ==
    /\ At(c, "settle")
    /\ \/ /\ caller[c].answer = "succeeded"
          /\ \E valid \in validate_acceptance :
                IF valid /\ Loads(caller[c].attempt)
                THEN Become(c, "complete", caller[c].attempt) /\ UNCHANGED <<row, unsettled>>
                ELSE SettleUnknown(c)
       \/ /\ caller[c].answer = "definitively_rejected"
          /\ Settled(c, "definitively_rejected")
       \/ caller[c].answer = "outcome_unknown" /\ SettleUnknown(c)
       \/ /\ caller[c].answer = "in_progress"
          /\ Become(c, "idle", NoOne)
          /\ UNCHANGED <<row, unsettled>>
    /\ UNCHANGED <<storeVars, proposals, kernelCrashes>>

\* complete_coding_task_submission; the handler goes on only if it succeeds.
Complete(c) ==
    LET a == caller[c].attempt IN
    /\ At(c, "complete")
    /\ \/ /\ Finish(a, "succeeded")
          /\ IF row[a].status \in {"running", "succeeded"}
             THEN Become(c, "propose", a) ELSE Become(c, "idle", NoOne)
       \/ FinishFails(a) /\ Become(c, "idle", NoOne)
    /\ UNCHANGED <<storeVars, proposals, kernelCrashes>>

\* Before the proposal everything is loaded again, and no proposal is made
\* without it.
LoadAgain(c) ==
    /\ At(c, "propose")
    /\ IF Loads(caller[c].attempt)
       THEN Become(c, "link", caller[c].attempt) ELSE Become(c, "idle", NoOne)
    /\ UNCHANGED <<storeVars, row, proposals, kernelCrashes, unsettled>>

\* create_proposal_with_receipt: one proposal per receipt, and none when the
\* active snapshot is not the run's any more.
Propose(c) ==
    /\ At(c, "link")
    /\ \E current \in BOOLEAN :
         proposals' = IF current THEN proposals \union {caller[c].attempt} ELSE proposals
    /\ Become(c, "idle", NoOne)
    /\ UNCHANGED <<storeVars, row, kernelCrashes, unsettled>>

\* What the content store holds of an attempt is lost or damaged after it was
\* written; one object or all of them, the attempt does not load any more.
LoseContent(a) ==
    /\ content[a] # {}
    /\ content' = [content EXCEPT ![a] = {}]
    /\ diskFaults < MaxDiskFaults
    /\ diskFaults' = diskFaults + 1
    /\ UNCHANGED <<dir, thread, harnessCrashes, history, kernelVars>>

\* The Kernel stops: its callers are gone, the rows stay.
KernelCrash ==
    /\ kernelCrashes < MaxKernelCrashes
    /\ kernelCrashes' = kernelCrashes + 1
    /\ caller' = [c \in Callers |-> IdleCaller]
    /\ thread' = [t \in Threads |-> [thread[t] EXCEPT !.client = NoOne]]
    /\ UNCHANGED <<dir, content, diskFaults, harnessCrashes, history, row, proposals, unsettled>>

\* The harness stops: the connections of its threads break.
HarnessCrash ==
    /\ StoreCrash
    /\ caller' = [c \in Callers |->
                    IF At(c, "waiting")
                    THEN [caller[c] EXCEPT !.pc = "settle", !.answer = "outcome_unknown"]
                    ELSE caller[c]]
    /\ UNCHANGED <<row, proposals, kernelCrashes, unsettled>>

HarnessStep(t) == StoreStep(t) /\ UNCHANGED kernelVars
CallerStep(c) ==
    (\E t \in Threads : Send(c, t)) \/ Settle(c) \/ Complete(c) \/ LoadAgain(c) \/ Propose(c)

FaultsBounded == kernelCrashes + harnessCrashes + diskFaults + Cardinality(unsettled) <= MaxFaults

Step ==
    \/ \E c \in Callers, k \in Keys : Submit(c, k)
    \/ \E c \in Callers : CallerStep(c) \/ GiveUp(c)
    \/ \E t \in Threads : HarnessStep(t) \/ Reply(t)
    \/ \E t \in Threads : DiskFault(t) /\ UNCHANGED kernelVars
    \/ \E a \in Attempts : LoseContent(a)
    \/ KernelCrash \/ HarnessCrash

Next == Step /\ FaultsBounded'

Spec == Init /\ [][Next]_vars

--------------------------------------------------------------------------
(* Properties. *)

\* The handler of one attempt is entered at most once, whatever repeats the
\* call: a second Kernel thread, a replay after a restart of the Kernel, or a
\* restart of the harness in the middle of the first run.
HandlerEnteredOnce == \A a \in Attempts : entered[a] <= 1

\* A proposal stands on one entry of the handler, on five passed gates, on the
\* harness's durable success and on the row's.
ProposalIsBacked ==
    \A a \in proposals :
      /\ row[a].status = "succeeded" /\ dir[a].result = "succeeded"
      /\ a \in gatesPassed /\ entered[a] = 1

\* A message gets another attempt only when the harness itself has the one
\* before on its disk as rejected, and no thread of it is in that attempt's
\* handler: a call given up on, a lost answer or a restart on either side never
\* puts two attempts of a message to work.
RejectedBeforeNext ==
    \A m \in Messages : \A a, b \in Rows(m) : row[a].sequence < row[b].sequence =>
      /\ dir[a].result = "definitively_rejected"
      /\ \A t \in Threads : thread[t].attempt = a => thread[t].pc \in {"idle", "lock", "answer"}

\* The rows of a message, seen as its slot, keep the submission contract.
SlotOf(m) ==
    LET statuses == {row[a].status : a \in Rows(m)} IN
    CASE "running" \in statuses -> "busy"
      [] "succeeded" \in statuses -> "succeeded"
      [] "outcome_unknown" \in statuses -> "unknown"
      [] OTHER -> "open"
Contract == INSTANCE SubmissionContract WITH slot <- [m \in Messages |-> SlotOf(m)]
ContractSpec == Contract!Spec

\* While the Kernel has not restarted, a running attempt has a caller that will
\* settle it: one that is about to call, one whose call a harness thread still
\* serves, or one that holds an outcome.  Only an attempt whose settlement could
\* not be written is left running without one.
RunningIsOwned ==
    kernelCrashes = 0 =>
      \A a \in Attempts : row[a].status = "running" =>
        \/ a \in unsettled
        \/ \E c \in Callers :
             /\ caller[c].attempt = a
             /\ \/ At(c, "execute") \/ At(c, "complete")
                \/ At(c, "waiting") /\ \E t \in Threads : thread[t].client = c
                \/ At(c, "settle") /\ caller[c].answer # "in_progress"
==========================================================================
