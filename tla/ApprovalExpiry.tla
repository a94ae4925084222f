--------------------------- MODULE ApprovalExpiry ---------------------------
(***************************************************************************)
(* The sweep that expires approvals nobody answered.  It reads the list of *)
(* stale approvals once and then handles each run with two transactions.   *)
(* Clock readings are abstracted: the approvals older than the time-to-    *)
(* live are any subset of those still open.                                *)
(***************************************************************************)
EXTENDS Journal

VARIABLES
    elist,   \* runs of the list still to be expired
    erun     \* the run between its two transactions, NoRun otherwise

expiryVars == <<elist, erun>>

Decisions == {"ApprovalGranted", "ApprovalDenied", "ApprovalExpired"}

ExpiryInit == elist = {} /\ erun = NoRun

ExpiryTypeOK ==
    /\ elist \subseteq Runs
    /\ erun \in Runs \cup {NoRun}
    /\ erun \notin elist

ExpiryIdle == elist = {} /\ erun = NoRun

OpenApprovals ==
    {r \in Runs : /\ status[r] = "AwaitingApproval"
                  /\ Has(r, "ApprovalRequested")
                  /\ \A k \in Decisions : ~Has(r, k)}

\* The read that starts a sweep.
stale_approvals_since(S) ==
    /\ ExpiryIdle
    /\ S \subseteq OpenApprovals
    /\ elist' = S
    /\ UNCHANGED <<erun, journalVars>>

ExpireAppend(r) ==
    /\ erun = NoRun
    /\ r \in elist
    /\ append_event(r, {"ApprovalExpired"})
    /\ erun' = r
    /\ elist' = elist \ {r}
    /\ UNCHANGED <<status, trigger>>

\* Faulty variant: the sweep does not fail the run.
ExpireWithoutFail ==
    /\ erun # NoRun
    /\ erun' = NoRun
    /\ UNCHANGED <<elist, journalVars>>

ExpireFail ==
    /\ erun # NoRun
    /\ fail_run(erun)
    /\ erun' = NoRun
    /\ UNCHANGED <<elist, events, trigger>>

\* A journal error ends the sweep; the next one reads a new list.
ExpiryError ==
    /\ ~ExpiryIdle
    /\ elist' = {}
    /\ erun' = NoRun
    /\ UNCHANGED journalVars
=============================================================================
