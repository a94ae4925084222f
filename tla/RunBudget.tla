---- MODULE RunBudget ----
(***************************************************************************)
(* run.budget.resolve.v0: how a Run obtains the number of tool rounds, the *)
(* wall time and the exhaustion action that are frozen onto it before its  *)
(* row is inserted.  The registry snapshot names the hook; a local         *)
(* credential authenticates it; a host ceiling bounds what it may answer.  *)
(***************************************************************************)
EXTENDS Integers

CONSTANTS HOST_MAX_TOOL_ROUNDS,   \* host ceiling on the tool rounds
          HOST_MAX_WALL_TIME_MS,  \* host ceiling on the wall time
          ConfigRounds,           \* KernelConfig.max_tool_rounds
          ConfigWall              \* KernelConfig.tool_loop_timeout_ms

\* Environment validation at start-up keeps the configured limits positive.
ASSUME BudgetConfigured ==
    /\ HOST_MAX_TOOL_ROUNDS \in Nat \ {0} /\ HOST_MAX_WALL_TIME_MS \in Nat \ {0}
    /\ ConfigRounds \in Nat \ {0} /\ ConfigWall \in Nat \ {0}

FailureModes == {"fail_closed", "disabled", "fail_open", "degrade"}

\* What a hook may answer, one past each ceiling and zero included.
Decisions == [rounds : 0 .. (HOST_MAX_TOOL_ROUNDS + 1),
              wall   : 0 .. (HOST_MAX_WALL_TIME_MS + 1),
              action : {"terminate", "yield"}]

BudgetFailed == [ok |-> FALSE]
Frozen(d) == [ok |-> TRUE, decision |-> d]

\* A decision is accepted only within the host's safety ceiling.
validate_against_ceiling(d) ==
    /\ d.rounds # 0 /\ d.rounds <= HOST_MAX_TOOL_ROUNDS
    /\ d.wall # 0 /\ d.wall <= HOST_MAX_WALL_TIME_MS

\* The builtin hook: the configured limits, clamped to the ceiling.
default_budget_decision ==
    LET Clamp(n, ceiling) == IF n > ceiling THEN ceiling ELSE n
        d == [rounds |-> ConfigRounds, wall |-> ConfigWall, action |-> "yield"]
    IN  IF validate_against_ceiling(d) THEN d
        ELSE [d EXCEPT !.rounds = Clamp(@, HOST_MAX_TOOL_ROUNDS),
                       !.wall = Clamp(@, HOST_MAX_WALL_TIME_MS)]

\* post_hook: within the size limits and the timeout the provider answered with a
\* 2xx body and a proof header.
post_hook(answer) == answer.delivered

\* RunBudgetHookResponse::validate_against: this request's ids, within the ceiling.
validate_against(answer) == answer.mine /\ validate_against_ceiling(answer.decision)

\* HttpHookClient::call_budget: the answer is this request's and proven to be the
\* provider's.
call_budget(answer) == post_hook(answer) /\ validate_against(answer) /\ answer.proven

\* What the failure mode of the hook makes of a failed call.
OnHookFailure(mode) ==
    IF mode \in {"fail_closed", "disabled"} THEN BudgetFailed
    ELSE Frozen(default_budget_decision)

\* Runtime::resolve_run_budget.  bindings counts the snapshot's bindings for the
\* contract; credential says the local one is enabled and names the provider.
resolve_run_budget(hook, answer) ==
    IF hook.bindings # 1 THEN BudgetFailed
    ELSE IF hook.kind = "builtin" THEN Frozen(default_budget_decision)
    ELSE IF ~hook.credential THEN BudgetFailed
    ELSE IF call_budget(answer) THEN Frozen(answer.decision)
    ELSE OnHookFailure(hook.mode)

Hooks == [bindings : 0 .. 2, kind : {"builtin", "external"},
          credential : BOOLEAN, mode : FailureModes]

Answers == [delivered : BOOLEAN, mine : BOOLEAN, proven : BOOLEAN, decision : Decisions]

\* Every budget some snapshot, credential and hook answer can freeze onto a Run.
Budgets == {resolve_run_budget(h, a) : h \in Hooks, a \in Answers}
====
