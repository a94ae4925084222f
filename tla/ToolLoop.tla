---- MODULE ToolLoop ----
(***************************************************************************)
(* Delivery of one user message by the runtime: the budget is frozen, the  *)
(* first model invocation is made, the tool recall loop alternates tool    *)
(* calls and model invocations until the model answers, the budget or the  *)
(* wall clock runs out or something fails, and the ending is delivered.    *)
(***************************************************************************)
EXTENDS RunBudget, ModelInvocation, ToolCall

CONSTANTS Mutating,   \* is_mutating_coding_op
          MaxFaults   \* bound: journal appends that fail

\* Every wait of a delivery has a timeout.
ASSUME TimeoutsAssumption == ModelTimeout \in Nat /\ HookTime \in Nat /\ ToolTime \in Nat

VARIABLES pc,        \* where the worker thread is
          budget,    \* the decision frozen onto the Run
          turn,      \* turn_index: rounds taken
          handled,   \* the tool calls handled so far, in order
          status,    \* runs.status, "None" before the row exists
          yielded,   \* a budget-exhausted fact with action yield is durable
          stopped,   \* the loop stopped on a duplicate call
          reply,     \* what went to the outbox
          error,     \* deliver returned Err
          faults     \* journal appends that failed so far

loopVars == <<pc, budget, turn, handled, status, yielded, stopped, reply, error, faults>>
vars == <<loopVars, modelVars, toolVars>>

NoBudget == [rounds |-> 0, wall |-> 0, action |-> "yield"]
SystemOutput == [call |-> NoCall, endpoint |-> "system", failed |-> FALSE, turn |-> FALSE]

Init ==
    /\ pc = "budget" /\ budget = NoBudget /\ turn = 0 /\ handled = <<>>
    /\ status = "None" /\ yielded = FALSE /\ stopped = FALSE /\ reply = "none"
    /\ error = FALSE /\ faults = 0
    /\ left = 0 /\ context \in {"not_configured", "fail_closed", "fail_open"}
    /\ facts = <<>> /\ follow_ups = <<>> /\ out = SystemOutput /\ calls = 0 /\ spent = 0
    /\ events = {} /\ effects = {}

\* A journal write succeeds, or takes one of the faults.
Durable(ok) == ok \/ faults < MaxFaults
Spend(ok) == faults' = IF ok THEN faults ELSE faults + 1

Goto(l) == pc' = l

---------------------------------------------------------------------------
\* resolve_run_budget before the Run exists: an Err creates nothing.
ResolveBudget ==
    /\ pc = "budget"
    /\ \E b \in Budgets :
         IF b.ok
         THEN /\ budget' = b.decision /\ left' = b.decision.wall
              /\ status' = "Running" /\ Goto("first") /\ UNCHANGED error
         ELSE error' = TRUE /\ Goto("done") /\ UNCHANGED <<budget, left, status>>
    /\ UNCHANGED <<turn, handled, yielded, stopped, reply, faults, context, facts,
                   follow_ups, out, calls, spent, toolVars>>

\* fail_run and RunFailed; an error of either is returned by deliver.
FailRun(ok, next) ==
    /\ Durable(ok) /\ Spend(ok)
    /\ IF ok THEN status' = "Failed" /\ Goto(next) /\ UNCHANGED error
       ELSE error' = TRUE /\ Goto("done") /\ status' \in {status, "Failed"}

\* The budget fact and, for terminate, fail_run: neither result is looked at.
Exhaust(factKept, failKept) ==
    /\ faults' = faults + Cardinality({k \in {"fact", "fail"} :
                               (k = "fact" /\ ~factKept) \/ (k = "fail" /\ ~failKept)})
    /\ faults' <= MaxFaults
    /\ yielded' = (factKept /\ budget.action = "yield")
    /\ status' = IF failKept /\ budget.action = "terminate" THEN "Failed" ELSE status
    /\ Goto("end")

---------------------------------------------------------------------------
\* Deliver's first invocation and the loop's later ones, up to the request.
BeginModel ==
    /\ pc \in {"first", "followup"}
    /\ \E hook \in ContextHook, fits, ok \in BOOLEAN, r \in {"started", "error", "deadline"} :
         /\ Durable(ok) /\ Spend(ok)
         /\ StartInvocation(hook, fits, ok, r)
         /\ Goto(CASE r = "started" -> IF pc = "first" THEN "calling" ELSE "calling_again"
                   [] r = "error" -> IF pc = "first" THEN "first_failed" ELSE "failed"
                   [] r = "deadline" -> IF pc = "first" THEN "first_failed" ELSE "exhausted")
    /\ UNCHANGED <<budget, turn, handled, status, yielded, stopped, reply, error,
                   context, follow_ups, out, calls, toolVars>>

\* The request itself; the output of the first one enters the loop.
CallModel ==
    /\ pc = "calling"
    /\ \E ok \in BOOLEAN, r \in {"output", "error"} :
         /\ Durable(ok) /\ Spend(ok)
         /\ FinishInvocation(ok, r)
         /\ Goto(IF r = "output" THEN "enter" ELSE "first_failed")
    /\ UNCHANGED <<budget, turn, handled, status, yielded, stopped, reply, error,
                   context, follow_ups, toolVars>>

CallModelAgain ==
    /\ pc = "calling_again"
    /\ \E ok \in BOOLEAN, r \in {"output", "error"} :
         /\ Durable(ok) /\ Spend(ok)
         /\ FinishInvocation(ok, r)
         /\ Goto(IF r = "output" THEN "head" ELSE "failed")
    /\ UNCHANGED <<budget, turn, handled, status, yielded, stopped, reply, error,
                   context, follow_ups, toolVars>>

\* The initial or a follow-up invocation failed, or a tool outcome was Fatal.
ModelFailed ==
    /\ pc \in {"first_failed", "failed"}
    /\ \E ok \in BOOLEAN : FailRun(ok, "end")
    /\ out' = SystemOutput
    /\ UNCHANGED <<budget, turn, handled, yielded, stopped, reply, left, context, facts,
                   follow_ups, calls, spent, toolVars>>

---------------------------------------------------------------------------
\* The loop freezes a deadline of its own when it is entered.
EnterLoop ==
    /\ pc = "enter"
    /\ left' = budget.wall /\ Goto("head")
    /\ UNCHANGED <<budget, turn, handled, status, yielded, stopped, reply, error, faults,
                   context, facts, follow_ups, out, calls, spent, toolVars>>

RoundsLeft == turn < budget.rounds

Answered ==
    /\ pc = "head" /\ out.call = NoCall /\ Goto("end")
    /\ UNCHANGED <<budget, turn, handled, status, yielded, stopped, reply, error, faults,
                   modelVars, toolVars>>

\* The same mutating call twice in a row; a malformed call in between resets it.
Duplicate(call) ==
    /\ call.op \in Mutating /\ handled # <<>>
    /\ Last(handled).op = call.op
    /\ canonicalize_args_json(Last(handled).args) = canonicalize_args_json(call.args)

StopOnDuplicate ==
    /\ pc = "head" /\ RoundsLeft /\ out.turn /\ Duplicate(out.call)
    /\ stopped' = TRUE /\ Goto("end")
    /\ UNCHANGED <<budget, turn, handled, status, yielded, reply, error, faults,
                   modelVars, toolVars>>

\* The call's result becomes a follow-up of the provider turn that asked for it.
Follow == follow_ups' = IF out.turn
                        THEN Append(follow_ups, [call |-> out.call, endpoint |-> out.endpoint])
                        ELSE follow_ups

\* The events of the call are written, its result is followed up, and the clock is
\* read again before the next model invocation.
Take(kinds) ==
    /\ \E written \in 0 .. Len(kinds), time \in 0 .. ToolTime :
         /\ Durable(written = Len(kinds)) /\ Spend(written = Len(kinds))
         /\ Invoke(out.call, Len(handled), kinds, written, time)
         /\ left' = Passed(time) /\ spent' = spent + time
         /\ IF append_or_fatal(written, kinds)
            THEN Follow /\ Goto(IF left' = 0 THEN "exhausted" ELSE "followup")
            ELSE UNCHANGED follow_ups /\ Goto("failed")
    /\ handled' = Append(handled, out.call) /\ turn' = turn + 1
    /\ UNCHANGED <<budget, status, yielded, stopped, reply, error, context, facts, out,
                   calls>>

\* A call that could not be parsed is not held back by the clock.
MalformedTool ==
    /\ pc = "head" /\ RoundsLeft /\ out.call = MalformedCall
    /\ Take(handle_malformed_tool_call)

\* A parsed call starts only before the deadline.
InvokeTool ==
    /\ pc = "head" /\ RoundsLeft /\ out.turn /\ out.call # MalformedCall
    /\ ~Duplicate(out.call) /\ left > 0
    /\ Take(handle_inline_tool_call(out.call.op, out.call.args))

\* load_legacy_governance, before either: an error is returned by deliver.
GovernanceUnread ==
    /\ pc = "head" /\ RoundsLeft
    /\ out.call = MalformedCall \/ (out.turn /\ ~Duplicate(out.call) /\ left > 0)
    /\ Durable(FALSE) /\ Spend(FALSE)
    /\ error' = TRUE /\ Goto("done")
    /\ UNCHANGED <<budget, turn, handled, status, yielded, stopped, reply, modelVars, toolVars>>

OutOfTime ==
    \/ pc = "exhausted"
    \/ pc = "head" /\ RoundsLeft /\ out.turn /\ ~Duplicate(out.call) /\ left = 0

OutOfRounds == pc = "head" /\ ~RoundsLeft /\ out.call # NoCall

BudgetExhausted ==
    /\ OutOfTime \/ OutOfRounds
    /\ \E factKept, failKept \in BOOLEAN : Exhaust(factKept, failKept)
    /\ UNCHANGED <<budget, turn, handled, stopped, reply, error, modelVars, toolVars>>

---------------------------------------------------------------------------
\* Faulty variant: a failed Run is not told.
EndingInSilence == IF yielded \/ status = "Failed" THEN "none" ELSE "reply"

\* The rest of deliver: a yield completes the Run in silence, a failed Run is told
\* so, any other is answered with the last output.
Ending == IF yielded THEN "none" ELSE IF status = "Failed" THEN "failure" ELSE "reply"

EndDelivery ==
    /\ pc = "end" /\ Goto("done")
    /\ \E ok \in BOOLEAN :
         /\ Durable(ok) /\ Spend(ok)
         /\ IF ok THEN /\ reply' = Ending
                       /\ status' = IF yielded THEN "Completed" ELSE status
                       /\ UNCHANGED error
            ELSE error' = TRUE /\ UNCHANGED <<reply, status>>
    /\ UNCHANGED <<budget, turn, handled, yielded, stopped, modelVars, toolVars>>

Finished == pc = "done" /\ UNCHANGED vars

Next ==
    \/ ResolveBudget \/ BeginModel \/ CallModel \/ CallModelAgain \/ ModelFailed
    \/ EnterLoop \/ Answered \/ StopOnDuplicate \/ MalformedTool \/ InvokeTool
    \/ GovernanceUnread
    \/ BudgetExhausted \/ EndDelivery \/ Finished

Spec == Init /\ [][Next]_vars

\* The worker thread that claimed the job keeps running; every wait it makes is
\* bounded by a timeout.
LiveSpec == Spec /\ WF_vars(Next)

---------------------------------------------------------------------------
\* The positions of the parsed calls of a sequence of calls.
Parsed(s) == {i \in DOMAIN s : s[i] # MalformedCall}

\* The follow-ups are the calls handled at these positions, each once, in order.
InOrder(at, positions) ==
    /\ \A i \in DOMAIN follow_ups : follow_ups[i].call = handled[at[i]]
    /\ \A i, j \in DOMAIN follow_ups : i < j => at[i] < at[j]
    /\ \A k \in positions : \E i \in DOMAIN follow_ups : at[i] = k

\* A transcript never mixes providers: every answered tool turn of a Run was issued
\* by the same endpoint, although the first request may fall back
\* (OpenAiCompatibleLlm::complete routes by the last follow-up).
TranscriptFromOneEndpoint ==
    \A i, j \in DOMAIN follow_ups : follow_ups[i].endpoint = follow_ups[j].endpoint

\* The model sees exactly the results of the parsed calls that were handled, each
\* once and in order; a malformed call never stands in for a provider turn
\* (pending_turn in run_tool_recall_loop).
ResultsSentOnce ==
    pc \in {"followup", "calling_again", "head"} =>
        \E at \in [DOMAIN follow_ups -> Parsed(handled)] : InOrder(at, Parsed(handled))

\* Nothing is carried out for a Run unless the request, the proposal and the
\* approval are durable first and the principal holds the grant; and a Run whose
\* side effect has no durable receipt never goes on to answer: it is failed, or
\* its job ends in an error (handle_inline_tool_call, append_or_fatal).
EffectsAreAccountedFor ==
    \A e \in effects :
        /\ e.op \in Granted
        /\ \A k \in {"ToolCallIssued", "InvocationProposed", "InvocationApproved"} :
             [call |-> e.call, kind |-> k] \in events
        /\ \/ [call |-> e.call, kind |-> "ReceiptReceived"] \in events
           \/ pc = "failed" \/ status = "Failed" \/ error

\* The longest a model invocation waits (the hook, then both endpoints), and the
\* longest that anything does.
InvocationTime == HookTime + 2 * ModelTimeout
LongestWait == IF ToolTime > InvocationTime THEN ToolTime ELSE InvocationTime

\* A delivery gives its worker back: whatever the model asks for, it makes no more
\* tool calls than the frozen rounds and one more model invocation, and waits no
\* longer than the frozen wall time and two waits.  Both come from the code: the
\* loop freezes its deadline after the first invocation (run_tool_recall_loop),
\* and the wait that crosses it runs to its own timeout, the request after a
\* context hook that used up the time included (complete_model_invocation).
SpendsItsBudget ==
    /\ Len(handled) <= budget.rounds /\ calls <= budget.rounds + 1
    /\ spent <= InvocationTime + budget.wall + LongestWait

\* Every delivery comes to an end, and an ending is never silent unless the Run
\* yielded or the job failed: the budget bounds the loop and each wait is bounded.
DeliveryEnds == <>(pc = "done" /\ (reply # "none" \/ yielded \/ error))
====
