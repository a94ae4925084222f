---------------------------- MODULE WorkerQueue ----------------------------
(***************************************************************************)
(* Accepted ingress messages and the worker jobs that deliver them.        *)
(*                                                                         *)
(* Job locks carry an expiry time.  There is one worker thread, so a job   *)
(* is running while the thread is idle only when a crash or an error left  *)
(* it so, and its lock expires sooner or later: an idle worker may lease   *)
(* any queued or running job.                                              *)
(***************************************************************************)
EXTENDS Journal

VARIABLES
    reserved,  \* ingress_dedup: messages whose key was reserved
    accepted,  \* messages with an IngressAccepted event
    job,       \* worker_jobs.status of the message, "none" = no row
    marked     \* messages with a SessionReady/RunStarted/RunFailed event that
               \* correlates to them: no longer undelivered

queueVars == <<reserved, accepted, job, marked>>

JobStatus == {"none", "queued", "running", "succeeded", "failed"}

QueueInit ==
    /\ reserved = {}
    /\ accepted = {}
    /\ job = [m \in Msgs |-> "none"]
    /\ marked = {}

QueueTypeOK ==
    /\ reserved \subseteq Msgs
    /\ accepted \subseteq Msgs
    /\ job \in [Msgs -> JobStatus]
    /\ marked \subseteq Msgs

reserve_ingress(m) ==
    /\ m \notin reserved
    /\ reserved' = reserved \cup {m}
    /\ UNCHANGED <<accepted, job, marked>>

\* One transaction: the IngressAccepted event and the queued job.
accept_ingress_with_worker_job(m) ==
    /\ accepted' = accepted \cup {m}
    /\ job' = [job EXCEPT ![m] = IF @ = "none" THEN "queued" ELSE @]
    /\ UNCHANGED <<reserved, marked>>

\* Faulty variant: running jobs are never leased again.
lease_only_queued(m) ==
    /\ job[m] = "queued"
    /\ job' = [job EXCEPT ![m] = "running"]
    /\ UNCHANGED <<reserved, accepted, marked>>

lease_next_worker_job(m) ==
    /\ job[m] \in {"queued", "running"}
    /\ job' = [job EXCEPT ![m] = "running"]
    /\ UNCHANGED <<reserved, accepted, marked>>

\* A succeeded job is never moved again.
update_worker_job(m, s) ==
    /\ job' = [job EXCEPT ![m] = IF @ = "succeeded" THEN @ ELSE s]
    /\ UNCHANGED <<reserved, accepted, marked>>

succeed_worker_job(m) == update_worker_job(m, "succeeded")

fail_worker_job(m) == update_worker_job(m, "failed")

\* An event whose correlation id is the message.
mark_delivered(m) ==
    /\ marked' = marked \cup {m}
    /\ UNCHANGED <<reserved, accepted, job>>

undelivered_ingress_events == accepted \ marked

\* Startup: enqueue_worker_job (INSERT OR IGNORE) for every undelivered
\* message.  Nothing else runs yet, and the inserts are idempotent.
recover_undelivered_ingress ==
    /\ job' = [m \in Msgs |-> IF m \in undelivered_ingress_events /\ job[m] = "none"
                              THEN "queued" ELSE job[m]]
    /\ UNCHANGED <<reserved, accepted, marked>>
=============================================================================
