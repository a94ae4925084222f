------------------------------ MODULE Gateway ------------------------------
(***************************************************************************)
(* The requests the accept loop handles, one at a time: an ingress message *)
(* and a human approval decision.  Each handler is several journal         *)
(* transactions; other threads run, and a crash may fall, between them.    *)
(* A duplicate message and a decision on a run that is not awaiting        *)
(* approval change nothing and are left out.                               *)
(***************************************************************************)
EXTENDS Outbox, WorkerQueue

VARIABLES
    hpc,    \* accept loop: idle, or the next transaction of its handler
    hmsg,   \* the message being accepted
    hrun    \* the run being decided on

gatewayVars == <<hpc, hmsg, hrun>>

ApprovalPc == {"grant", "queue", "resume", "deny", "denyfail"}

GatewayInit == hpc = "idle" /\ hmsg = NoMsg /\ hrun = NoRun

GatewayTypeOK ==
    /\ hpc \in {"idle", "accept"} \cup ApprovalPc
    /\ hmsg \in Msgs \cup {NoMsg}
    /\ hrun \in Runs \cup {NoRun}
    /\ (hpc = "accept") <=> (hmsg # NoMsg)
    /\ (hpc \in ApprovalPc) <=> (hrun # NoRun)

HandlerDone == hpc' = "idle" /\ hmsg' = NoMsg /\ hrun' = NoRun

\* validate_feishu_ingress, validate_cli_ingress: reserve the key, ...
IngressReserve(m) ==
    /\ hpc = "idle"
    /\ reserve_ingress(m)
    /\ hpc' = "accept"
    /\ hmsg' = m
    /\ UNCHANGED <<hrun, journalVars, outboxVars>>

\* ... then accept the message in a second transaction.
IngressAccept ==
    /\ hpc = "accept"
    /\ accept_ingress_with_worker_job(hmsg)
    /\ HandlerDone
    /\ UNCHANGED <<journalVars, outboxVars>>

\* Faulty variant: approve_run does not record the grant.
ApproveWithoutGrant(r) ==
    /\ hpc = "idle"
    /\ status[r] = "AwaitingApproval"
    /\ hpc' = "queue"
    /\ hrun' = r
    /\ UNCHANGED <<hmsg, journalVars, outboxVars, queueVars>>

\* Both decisions start with a read of the run's status.
ApproveRead(r) ==
    /\ hpc = "idle"
    /\ status[r] = "AwaitingApproval"
    /\ hpc' = "grant"
    /\ hrun' = r
    /\ UNCHANGED <<hmsg, journalVars, outboxVars, queueVars>>

ApproveGrant ==
    /\ hpc = "grant"
    /\ append_event(hrun, {"ApprovalGranted"})
    /\ hpc' = "queue"
    /\ UNCHANGED <<hmsg, hrun, status, trigger, outboxVars, queueVars>>

ApproveQueue ==
    /\ hpc = "queue"
    /\ queue_outbox_dispatch(hrun)
    /\ hpc' = "resume"
    /\ UNCHANGED <<hmsg, hrun, status, trigger, calls, dpc, drun, queueVars>>

ApproveResume ==
    /\ hpc = "resume"
    /\ update_run_status(hrun, "WaitingDispatch")
    /\ HandlerDone
    /\ UNCHANGED <<events, trigger, outboxVars, queueVars>>

DenyRead(r) ==
    /\ hpc = "idle"
    /\ status[r] = "AwaitingApproval"
    /\ hpc' = "deny"
    /\ hrun' = r
    /\ UNCHANGED <<hmsg, journalVars, outboxVars, queueVars>>

DenyAppend ==
    /\ hpc = "deny"
    /\ append_event(hrun, {"ApprovalDenied"})
    /\ hpc' = "denyfail"
    /\ UNCHANGED <<hmsg, hrun, status, trigger, outboxVars, queueVars>>

DenyFail ==
    /\ hpc = "denyfail"
    /\ fail_run(hrun)
    /\ HandlerDone
    /\ UNCHANGED <<events, trigger, outboxVars, queueVars>>

\* A journal error in any transaction of a handler ends it with an error
\* response; what it wrote before stays.
HandlerError ==
    /\ hpc # "idle"
    /\ HandlerDone
    /\ UNCHANGED <<journalVars, outboxVars, queueVars>>

\* The steps a handler takes once its request has arrived.
HandlerStep ==
    \/ IngressAccept
    \/ ApproveGrant \/ ApproveQueue \/ ApproveResume
    \/ DenyAppend \/ DenyFail
=============================================================================
