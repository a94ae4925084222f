---------------------------- MODULE MCComponents ----------------------------
(* Managed services for TLC: versions 1, 2, ... of one component, or one    *)
(* version of each of several.                                              *)
EXTENDS ServiceDecision, TLC

MCOneComponent == [p \in Deployments |-> CHOOSE c \in Components : TRUE]

MCVersion == [p \in Deployments |-> IF p = "v1" THEN 1 ELSE 2]

MCTwoComponents == [p \in Deployments |-> IF p = "v1" THEN "page" ELSE "feed"]

Interchangeable == Permutations(Threads) \cup Permutations(Controls)
=============================================================================
