------------------------------ MODULE Gates ------------------------------
(***************************************************************************)
(* The five acceptance gates of the Coding Harness (hcr/gates).  What the  *)
(* disk and the sandboxed commands do in one run of the gates is a record; *)
(* each gate is a predicate on it, and the runner decides which gates run. *)
(***************************************************************************)
EXTENDS Naturals

Kinds == {"InvocableCapability", "HookConsumerService"}

\* run_command_sandboxed: a command exits with 0 and the output asked for, with
\* 0 and another output, with another status, is killed at its time limit,
\* leaves its sandbox home behind, or is not run at all.
Commands == {"ok", "wrong_output", "exit", "timeout", "cleanup_failed", "unavailable"}
Exits0 == {"ok", "wrong_output", "cleanup_failed"}
Matches == {"ok", "cleanup_failed"}

\* files: the scaffold is complete; evidence: the manifest names the acceptance
\* bundle; entry: a regular file with the declared digest; changed: the gate
\* around which the candidate's digest changed, 6 when it never did.
Worlds ==
    [files : BOOLEAN, build : Commands, test : Commands, evidence : BOOLEAN,
     smoke : Commands, entry : BOOLEAN, changed : 1..6]

scaffold(w) == w.files
build(w) == w.build \in Exits0
artifact(w) == w.entry

\* A capability's contract cases are run again, a service's acceptance evidence
\* is looked up; both need the binary.
trusted_test(kind, w) ==
    /\ build(w)
    /\ IF kind = "HookConsumerService" THEN w.evidence ELSE w.test \in Matches

trusted_smoke(w) == build(w) /\ w.smoke \in Matches

\* The gates that pass: one that fails does not stop the next, a changed digest
\* fails its gate and ends the run.
PassedGates(kind, w) ==
    {i \in 1..(w.changed - 1) :
       CASE i = 1 -> scaffold(w)
         [] i = 2 -> build(w)
         [] i = 3 -> trusted_test(kind, w)
         [] i = 4 -> trusted_smoke(w)
         [] i = 5 -> artifact(w)}

RanGates(w) == {i \in 1..5 : i <= w.changed}

\* Faulty variant: only the result of the last gate is looked at.
FaultyAllPassed(kind, w) == 5 \in PassedGates(kind, w)

\* The check that every gate ran and passed.
AllPassed(kind, w) == RanGates(w) = 1..5 /\ RanGates(w) \subseteq PassedGates(kind, w)

\* What a run of the gates may come to: is the candidate accepted, and did it
\* really pass all five.
GateRuns(kind) ==
    { [accepted |-> AllPassed(kind, w), gated |-> PassedGates(kind, w) = 1..5] : w \in Worlds }
GateOutcomes == [kind \in Kinds |-> GateRuns(kind)]
==========================================================================
