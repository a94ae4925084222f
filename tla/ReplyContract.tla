--------------------------- MODULE ReplyContract ---------------------------
(***************************************************************************)
(* What the kernel promises about the reply of a run, whatever threads,    *)
(* crashes and errors do: it is queued once, claimed once, handed to the   *)
(* connector at most once, and gets at most one verdict, which is final.   *)
(* Delivered and rejected are verdicts about an attempt that was made; a   *)
(* reply whose attempt was cut short is unknown and is never tried again.  *)
(***************************************************************************)
EXTENDS Naturals

CONSTANT Replies

VARIABLES
    fate,      \* what the journal says became of the reply
    attempts   \* how often it was handed to the connector

Init ==
    /\ fate = [r \in Replies |-> "idle"]
    /\ attempts = [r \in Replies |-> 0]

Move(r, from, to) ==
    /\ fate[r] = from
    /\ fate' = [fate EXCEPT ![r] = to]
    /\ UNCHANGED attempts

Queue(r) == Move(r, "idle", "queued")

Claim(r) == Move(r, "queued", "claimed")

Attempt(r) ==
    /\ fate[r] = "claimed"
    /\ attempts[r] = 0
    /\ attempts' = [attempts EXCEPT ![r] = 1]
    /\ UNCHANGED fate

Conclude(r, verdict) ==
    /\ verdict = "unknown" \/ attempts[r] = 1
    /\ Move(r, "claimed", verdict)

Next ==
    \E r \in Replies :
        \/ Queue(r)
        \/ Claim(r)
        \/ Attempt(r)
        \/ \E v \in {"delivered", "rejected", "unknown"} : Conclude(r, v)

Spec == Init /\ [][Next]_<<fate, attempts>>
=============================================================================
