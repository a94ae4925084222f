---- MODULE ModelInvocation ----
(***************************************************************************)
(* One model invocation of a Run: the context hook, the started fact, the  *)
(* OpenAI-compatible client with its fallback endpoint, and the terminal   *)
(* fact.  Time is kept as what is left until the deadline of the Run;      *)
(* every wait takes some of it.                                            *)
(***************************************************************************)
EXTENDS Integers, Sequences, SequencesExt, FiniteSets

CONSTANTS Calls,         \* the tool calls a model can put in an answer
          HasFallback,   \* a fallback endpoint is configured
          ModelTimeout,  \* KernelConfig.model_timeout_ms and the client's own
          HookTime       \* the context hook's own timeout

VARIABLES left,        \* time left until the deadline in force, 0 once passed
          context,     \* the context hook's configuration, fixed per process
          facts,       \* the journalled model invocation facts, in order
          follow_ups,  \* LlmInput.follow_ups: the answered tool turns
          out,         \* the LlmOutput of the last invocation
          calls,       \* model invocations that were sent so far
          spent        \* history: the time the waits took, deadline or not

modelVars == <<left, context, facts, follow_ups, out, calls, spent>>

NoCall == [op |-> "absent", args |-> "none"]
MalformedCall == [op |-> "malformed", args |-> "none"]
Outputs == {NoCall, MalformedCall} \cup Calls

Lesser(a, b) == IF a < b THEN a ELSE b

\* Faulty variant: every wait starts from a deadline of its own.
PassedNothing(t) == left

\* deadline.saturating_duration_since(now) after a wait of t.
Passed(t) == IF t >= left THEN 0 ELSE left - t

\* Faulty variant: a malformed call keeps a provider turn.
parse_keeping_turn(call, endpoint) ==
    [call |-> call, endpoint |-> endpoint, failed |-> FALSE, turn |-> call # NoCall]

\* The provider turn of an output: present only for a parsed, valid call.
parse_tool_call(call, endpoint) ==
    [call |-> call, endpoint |-> endpoint, failed |-> FALSE,
     turn |-> call \notin {NoCall, MalformedCall}]

request_failed_output(endpoint) ==
    [call |-> NoCall, endpoint |-> endpoint, failed |-> TRUE, turn |-> FALSE]

\* request_endpoint: an answer within the timeout, or an error.
request_endpoint(endpoint, timeout) ==
    {[ok |-> TRUE, time |-> t, output |-> parse_tool_call(c, endpoint)] :
        t \in 0 .. timeout, c \in Outputs}
    \cup {[ok |-> FALSE, time |-> t] : t \in 0 .. timeout}

\* Primary first, the fallback on any error; both with the same timeout.
FirstRound(timeout) ==
    LET failed(e, t) == [ok |-> TRUE, time |-> t, output |-> request_failed_output(e)]
        primary == request_endpoint("primary", timeout)
        Then(p) ==
            IF p.ok THEN {p}
            ELSE IF ~HasFallback THEN {failed("primary", p.time)}
            ELSE {IF f.ok THEN [f EXCEPT !.time = @ + p.time]
                  ELSE failed("fallback", f.time + p.time) :
                    f \in request_endpoint("fallback", timeout)}
    IN  UNION {Then(p) : p \in primary}

\* Faulty variant: every round starts at the primary endpoint.
complete_primary_first(timeout) == FirstRound(timeout)

\* OpenAiCompatibleLlm::complete: once a tool turn was answered, the next request
\* goes to the endpoint that issued it, and its error is the caller's.
complete(timeout) ==
    IF follow_ups # <<>> THEN request_endpoint(Last(follow_ups).endpoint, timeout)
    ELSE FirstRound(timeout)

---------------------------------------------------------------------------
\* The invocation id is "model:{run}:{round}", the round the follow-up count.
InvocationId == Len(follow_ups)

Terminal == {"completed", "failed"}
Existing(id, kinds) == {i \in DOMAIN facts : facts[i].id = id /\ facts[i].kind \in kinds}

\* record_model_invocation_event: a fact already there is returned unchanged, a
\* different terminal fact is a conflict, a terminal fact needs its started one.
record_model_invocation_event(id, kind) ==
    LET started == Existing(id, {"started"})
        terminal == Existing(id, Terminal)
        same == IF kind = "started" THEN started ELSE terminal
        allowed == IF kind = "started" THEN terminal = {} ELSE started # {}
    IN  IF same # {}
        THEN [ok |-> \E i \in same : facts[i].kind = kind, facts |-> facts]
        ELSE [ok |-> allowed,
              facts |-> IF allowed THEN Append(facts, [id |-> id, kind |-> kind]) ELSE facts]

---------------------------------------------------------------------------
\* call_context_artifact_hook: no hook configured or disabled keeps the staged
\* candidate; a hook call takes time and either provides artifacts, is degraded
\* to the candidate, or terminates the invocation.
ContextHook ==
    IF context = "not_configured" THEN {[go |-> TRUE, time |-> 0]}
    ELSE {[go |-> ok \/ context \in {"fail_open", "degrade"}, time |-> t] :
            ok \in BOOLEAN, t \in 0 .. HookTime}

\* complete_model_invocation up to the request: the deadline guard, the context
\* hook, materialization under the hard token budget and the started fact.
\* fits: the materialized input fits the context window; durable: the journal took
\* the facts; result: how it ends.
StartInvocation(hook, fits, durable, result) ==
    LET id == InvocationId
        started == record_model_invocation_event(id, "started")
    IN  IF left = 0 THEN result = "deadline" /\ UNCHANGED <<left, facts, spent>>
        ELSE /\ left' = Passed(hook.time) /\ spent' = spent + hook.time
             /\ IF ~hook.go \/ ~durable \/ ~started.ok
                THEN result = "error" /\ UNCHANGED facts
                ELSE IF ~fits
                THEN /\ result = "error"
                     /\ facts' = IF Existing(id, Terminal) = {}
                                 THEN Append(started.facts, [id |-> id, kind |-> "failed"])
                                 ELSE started.facts
                ELSE result = "started" /\ facts' = started.facts

\* The request and its terminal fact: the remaining time bounds the client's
\* timeout, but only while some of it remains.
FinishInvocation(durable, result) ==
    \E r \in complete(IF left > 0 THEN Lesser(left, ModelTimeout) ELSE ModelTimeout) :
        LET kind == IF ~r.ok \/ r.output.failed THEN "failed" ELSE "completed"
            fact == record_model_invocation_event(InvocationId, kind)
            kept == durable /\ fact.ok
        IN  /\ left' = Passed(r.time) /\ spent' = spent + r.time
            /\ facts' = IF kept THEN fact.facts ELSE facts
            /\ calls' = calls + 1
            /\ IF r.ok /\ kept THEN result = "output" /\ out' = r.output
               ELSE result = "error" /\ UNCHANGED out
====
