---------------------------- MODULE Generator ----------------------------
(***************************************************************************)
(* The code generator of the Coding Harness                                *)
(* (tools/coding-harness/src/self_evolution/generator) and the acceptance  *)
(* that follows it (profile_acceptance.rs).  All of it runs on one thread, *)
(* inside the handler of one submission, so each operator maps the         *)
(* thread's record to the set of records it may have next: what the code   *)
(* model answers and what a command or the disk does is a choice.          *)
(***************************************************************************)
EXTENDS Gates, Sequences

CONSTANTS
    TOTAL_MODEL_CALL_BUDGET,  \* model calls of one generation, all phases
    INITIAL_ATTEMPTS          \* model calls generate_module_with_retry may make

ASSUME GeneratorAssumption ==
    /\ TOTAL_MODEL_CALL_BUDGET \in Nat \ {0}
    /\ INITIAL_ATTEMPTS \in 1..TOTAL_MODEL_CALL_BUDGET

Contents == {"artifact", "manifest", "evidence"}

\* The handler returns r, and its locals are gone.
Return(g, r) == [g EXCEPT !.pc = "finish", !.result = r, !.calls = 0, !.left = 0,
                          !.version = "default", !.gated = FALSE,
                          !.stored = IF r = "succeeded" THEN Contents ELSE {}]

\* Every error of generation and acceptance is a definitive rejection.
error(g) == Return(g, "definitively_rejected")

\* The catalogs refuse the request, a fixture serves it, or a generator does.
plan(g) ==
    { error(g),
      [g EXCEPT !.pc = "fixture"],
      [g EXCEPT !.pc = "generate",
                !.left = IF g.kind = "HookConsumerService"
                         THEN INITIAL_ATTEMPTS ELSE TOTAL_MODEL_CALL_BUDGET] }

\* A built-in fixture writes its candidate aside, renames it and loads it back.
fixture(g) == { [g EXCEPT !.pc = "gates"], error(g) }

\* One request to the code model: text, or one of the errors, all retryable.
complete == {"text", "error"}

\* The policy a module of a service must meet.
validate_generated_source(answer) == IF answer = "text" THEN {"module", "invalid"} ELSE {"invalid"}

\* The JSON object, contract and source a capability's answer must parse into.
parse(answer) == IF answer = "text" THEN {"module", "invalid"} ELSE {"invalid"}

\* One call of retry_model_output; the last attempt's error is returned.
retry_model_output(g) ==
    LET called == [g EXCEPT !.calls = @ + 1] IN
    { CASE answer = "module" -> [called EXCEPT !.pc = "probe"]
        [] answer # "module" /\ g.left > 1 -> [called EXCEPT !.left = @ - 1]
        [] OTHER -> error(called)
      : answer \in UNION {validate_generated_source(a) : a \in complete} }

\* One pass of generate_new: a model error, or an answer that does not parse,
\* costs a call and the loop goes on to its end.
generate_new(g) ==
    LET called == [g EXCEPT !.calls = @ + 1] IN
    { CASE answer = "module" -> [called EXCEPT !.pc = "probe"]
        [] answer # "module" /\ called.calls < TOTAL_MODEL_CALL_BUDGET -> called
        [] OTHER -> error(called)
      : answer \in UNION {parse(a) : a \in complete} }

\* A generator returns the verified candidate it froze.
Verified(g) == [g EXCEPT !.pc = "materialize", !.calls = 0, !.left = 0]

\* verify_candidate of a capability: one build, then one command per contract
\* case, and every failure, the sandbox's own included, is the candidate's.
CapabilityProbes ==
    { IF b = "ok" /\ c = "ok" THEN "ok" ELSE "candidate" : b \in Commands, c \in Commands }

verify_candidate(g) ==
    { CASE o = "ok" -> Verified(g)
        [] o # "ok" /\ g.calls < TOTAL_MODEL_CALL_BUDGET -> [g EXCEPT !.pc = "generate"]
        [] OTHER -> error(g)
      : o \in CapabilityProbes }

\* A service's build, its generic contract probe and its private cases: who is
\* to blame for a command that did not do what was asked.
BuildProbe(b) ==
    CASE b \in {"unavailable", "timeout", "cleanup_failed"} -> "infrastructure"
      [] b = "exit" -> "candidate"
      [] OTHER -> "ok"
ContractProbe(c) ==
    CASE c \in {"unavailable", "cleanup_failed"} -> "infrastructure"
      [] c \in {"exit", "timeout", "wrong_output"} -> "candidate"
      [] OTHER -> "ok"
PrivateCase(p) == IF p = "ok" THEN "ok" ELSE "candidate"

ServiceProbes ==
    { CASE BuildProbe(b) # "ok" -> BuildProbe(b)
        [] BuildProbe(b) = "ok" /\ ContractProbe(c) # "ok" -> ContractProbe(c)
        [] OTHER -> PrivateCase(p)
      : b \in Commands, c \in Commands, p \in Commands }

\* verify_frozen_candidate of a service: an infrastructure failure ends the
\* generation, a candidate failure is repaired with what is left of the budget.
verify_frozen_candidate(g) ==
    { CASE o = "ok" -> Verified(g)
        [] o = "candidate" /\ g.calls < TOTAL_MODEL_CALL_BUDGET ->
             [g EXCEPT !.pc = "generate", !.left = TOTAL_MODEL_CALL_BUDGET - g.calls]
        [] OTHER -> error(g)
      : o \in ServiceProbes }

\* The verified bytes are written aside, renamed and loaded back.
materialize_capability(g) == { [g EXCEPT !.pc = "gates"], error(g) }
materialize_service(g) == { [g EXCEPT !.pc = "gates"], error(g) }

\* run_all_gates_for_acceptance on a read-only snapshot of the candidate; the
\* snapshot may fail, and the built bytes may be missing when read back.
run_all_gates(g) ==
    { IF o.accepted THEN [g EXCEPT !.pc = "store_artifact", !.gated = o.gated] ELSE error(g)
      : o \in GateOutcomes[g.kind] } \union {error(g)}

\* One object is put in the content store, or the handler fails.
Store(g, what, next) ==
    { [g EXCEPT !.pc = next, !.stored = @ \union {what}], error(g) }

\* query_deployed_version: the Deployment Harness runs the component, answers
\* 404, or answers anything else.
query_deployed_version == {"found", "absent", "error"}

\* The version of a service's delivery manifest: an error of the query is
\* dropped (.ok().flatten()), and the version stays the generator's.
allocate_next_version(g) ==
    { [g EXCEPT !.version = IF q = "found" THEN "next" ELSE "default"]
      : q \in query_deployed_version }

\* The fields of the component manifest each generator writes.
component_manifest(kind) ==
    {"schema_version", "component_id", "kind", "profile_id",
     "contract_catalog_version", "required_contracts", "requested_permissions",
     "test_kit", "deployment_profile", "entry", "artifact_digest", "generation"}
    \union (IF kind = "HookConsumerService" 
               THEN {"service", "acceptance_bundle_ref", "acceptance_bundle_digest"}
               ELSE {"capability"})

\* build_delivery_manifest needs these of a service's component manifest.
build_delivery_manifest(fields) ==
    {"target_kind", "schema_version", "component_id", "service",
     "required_contracts", "requested_permissions"} \subseteq fields

\* The manifest of the accepted component is built and stored.
BuildManifest(g) ==
    IF g.kind = "InvocableCapability"
    THEN Store(g, "manifest", "store_evidence")
    ELSE UNION { IF build_delivery_manifest(component_manifest(g.kind))
                 THEN Store(h, "manifest", "store_evidence") ELSE {error(h)}
                 : h \in allocate_next_version(g) }

\* The evidence is stored last; then the receipt is computed.
StoreEvidence(g) == { Return(g, "succeeded"), error(g) }

\* What the handler's thread may do next inside handle_submit_once.
handle_submit_once(g) ==
    CASE g.pc = "plan" -> plan(g)
      [] g.pc = "generate" /\ g.kind = "HookConsumerService" -> retry_model_output(g)
      [] g.pc = "generate" /\ g.kind = "InvocableCapability" -> generate_new(g)
      [] g.pc = "probe" /\ g.kind = "HookConsumerService" -> verify_frozen_candidate(g)
      [] g.pc = "probe" /\ g.kind = "InvocableCapability" -> verify_candidate(g)
      [] g.pc = "fixture" -> fixture(g)
      [] g.pc = "materialize" /\ g.kind = "HookConsumerService" -> materialize_service(g)
      [] g.pc = "materialize" /\ g.kind = "InvocableCapability" -> materialize_capability(g)
      [] g.pc = "gates" -> run_all_gates(g)
      [] g.pc = "store_artifact" -> Store(g, "artifact", "build_manifest")
      [] g.pc = "build_manifest" -> BuildManifest(g)
      [] g.pc = "store_evidence" -> StoreEvidence(g)
      [] OTHER -> {}
==========================================================================
