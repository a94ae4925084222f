---------------------------- MODULE MCActivation ----------------------------
(* An instance of CapabilityDecision for TLC: a capability that a trusted   *)
(* proposal asks for, and a tool with a manifest and its replacement, which *)
(* operators enable and disable and another proposal creates or replaces;   *)
(* one manifest operators may try to register has an invalid schema.        *)
EXTENDS CapabilityDecision, TLC

MCOperationName == [m \in Manifests |-> IF m = "calc" THEN "calculator" ELSE "tool"]

MCNameOrder == [n \in Names |->
    CASE n = "calculator" -> 1 [] n = "external.coding_task_submit" -> 2
      [] n = "time.now" -> 3 [] n = "tool" -> 4]

MCDefect == [m \in Manifests |-> IF m = "broken" THEN "schema" ELSE "none"]

Old(hooks, time) == [ops |-> Bare, hooks |-> hooks, time |-> time, control |-> FALSE]

MCLegacySnapshots == {Old(FALSE, TRUE), Old(FALSE, FALSE)}

Interchangeable ==
    Permutations(HostThreads) \cup Permutations(DecisionIds) \cup Permutations(Trusted)

MCManifestOf == [p \in Proposals |-> IF p \in Trusted THEN "calc" ELSE "tool2"]
=============================================================================
