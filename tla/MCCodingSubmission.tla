----------------------- MODULE MCCodingSubmission ------------------------
(* One message, two call keys: the first asks for a service, the second for
   a capability.  Callers and threads are interchangeable.  *)
EXTENDS CodingSubmission, TLC

CONSTANTS k1, k2, m1

MCKeyMessage == [k \in {k1, k2} |-> m1]
MCKeyKind == [k \in {k1, k2} |-> IF k = k1 THEN "HookConsumerService" ELSE "InvocableCapability"]
MCSymmetry == Permutations(Callers) \union Permutations(Threads)
==========================================================================
