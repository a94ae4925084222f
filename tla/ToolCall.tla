---- MODULE ToolCall ----
(***************************************************************************)
(* One tool call of a Run, from the model's request to its receipt: the    *)
(* pinned registry snapshot, argument validation, the policy pipeline, the *)
(* dispatch to a builtin or to an external harness over HTTP, and the      *)
(* events each stage must make durable before the next one starts.         *)
(***************************************************************************)
EXTENDS Integers, Sequences, SequencesExt, FiniteSets

CONSTANTS Catalog,    \* operations of the Run's pinned RegistrySnapshot
          External,   \* those bound to an external harness
          Writes,     \* those whose risk is not ReadOnly
          Retired,    \* builtin bindings without a handler
          Granted,    \* operations the Run's principal holds a grant for
          ToolTime    \* how long a harness can take, in units of the deadline

ASSUME CatalogAssumption ==
    External \subseteq Catalog /\ Writes \subseteq Catalog /\ Retired \subseteq Catalog

VARIABLES events,    \* tool events in the journal: [call, kind], call the tool_index
          effects    \* calls a harness or a builtin carried out: [call, op]

toolVars == <<events, effects>>

\* Two argument texts that differ in the order of their keys only.
SameArguments == {"a", "a_reordered"}

\* canonicalize_args_json: the key order of an object does not count.
canonicalize_args_json(args) == IF args \in SameArguments THEN "a" ELSE args

---------------------------------------------------------------------------
\* snapshot.lookup and Gateway::validate_tool_call: only known operations, and no
\* builtin Write, can be requested by the model.
validate_tool_call(op) == op \in Catalog /\ (op \in Writes => op \in External)

\* Builtin rules, or the JSON schema an external operation was registered with.
validate_model_arguments(op, args) == args # "against_schema"

\* evaluate_policy: grant, pinned catalog, and the session injected by the loop.
evaluate_policy(op) == op \in Granted /\ op \in Catalog

\* handle_inline_tool_call: the events a call writes, in order, when the journal
\* takes all of them.  An approved call is dispatched before its receipt.
handle_inline_tool_call(op, args) ==
    IF ~validate_tool_call(op) \/ ~validate_model_arguments(op, args)
    THEN <<"ToolCallIssued", "ToolCallRejected">>
    ELSE IF ~evaluate_policy(op)
    THEN <<"ToolCallIssued", "InvocationProposed", "ToolCallRejected">>
    ELSE <<"ToolCallIssued", "InvocationProposed", "InvocationApproved", "ReceiptReceived">>

\* A call that could not be parsed is issued and rejected.
handle_malformed_tool_call == <<"ToolCallIssued", "ToolCallRejected">>

---------------------------------------------------------------------------
\* execute_external_harness_binding, up to the response: whether the request
\* reached the harness.
request_sent(answer) == answer \notin {"manifest_missing", "not_loopback", "connect_failed"}

\* The rest of it: anything but a 2xx JSON answer of the manifest's protocol version
\* with ok = true, a result of the output schema and, where needed, an execution
\* identity is a Failed receipt or an error that becomes one.
receipt_status(answer) == IF answer = "ok" THEN "Succeeded" ELSE "Failed"

\* The answers that differ to the model: nothing sent, sent and refused or lost,
\* sent and accepted.
HarnessAnswers == {"connect_failed", "timed_out", "ok"}

\* dispatch_builtin_binding: the carried-out flag, the receipt and the time taken
\* by each binding.  A request that was sent may have been carried out whatever
\* the receipt says; an accepted answer means it was.
dispatch_builtin_binding(op) ==
    LET exchanges == {x \in [answer : HarnessAnswers, done : BOOLEAN, time : 0 .. ToolTime] :
                        /\ x.done => request_sent(x.answer)
                        /\ receipt_status(x.answer) = "Succeeded" => x.done}
    IN  IF op \in External
        THEN {[done |-> x.done, status |-> receipt_status(x.answer), time |-> x.time] :
                x \in exchanges}
        ELSE IF op \in Retired \/ op \in Writes
        THEN {[done |-> FALSE, status |-> "Failed", time |-> 0]}
        ELSE {[done |-> TRUE, status |-> "Succeeded", time |-> 0],
              [done |-> FALSE, status |-> "Failed", time |-> 0]}

Recorded(call, kinds) == {[call |-> call, kind |-> kinds[i]] : i \in DOMAIN kinds}

\* Faulty variant: a receipt the journal does not take is not fatal.
append_or_ignore(written, kinds) == written >= Len(kinds) - 1

\* append_or_fatal: the first event the journal does not take ends the call.
append_or_fatal(written, kinds) == written = Len(kinds)

\* The call makes `written' of its events durable and, once approved, is
\* dispatched, which takes time.
Invoke(call, index, kinds, written, time) ==
    /\ events' = events \cup Recorded(index, SubSeq(kinds, 1, written))
    /\ IF written >= 3 /\ kinds[3] = "InvocationApproved"
       THEN \E r \in dispatch_builtin_binding(call.op) :
              /\ effects' = IF r.done THEN effects \cup {[call |-> index, op |-> call.op]}
                            ELSE effects
              /\ time = r.time
       ELSE time = 0 /\ UNCHANGED effects
====
