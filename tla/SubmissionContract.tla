----------------------- MODULE SubmissionContract ------------------------
(***************************************************************************)
(* What the Kernel promises of the development attempts of one source      *)
(* message: one attempt at a time, a further one only after a definitive   *)
(* rejection, and nothing after a success or an unknown outcome.           *)
(***************************************************************************)
CONSTANT Messages
VARIABLE slot   \* message -> where its attempts stand

Init == slot = [m \in Messages |-> "open"]

\* An attempt begins; it is refused, accepted, or its outcome is lost.
Moves == {<<"open", "busy">>, <<"busy", "open">>,
          <<"busy", "succeeded">>, <<"busy", "unknown">>}

Next ==
    \E m \in Messages :
      /\ <<slot[m], slot'[m]>> \in Moves
      /\ \A n \in Messages \ {m} : slot'[n] = slot[n]
Spec == Init /\ [][Next]_slot
==========================================================================
