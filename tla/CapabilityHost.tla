--------------------------- MODULE CapabilityHost ---------------------------
(* tools/capability-host: the process that runs an approved capability's    *)
(* artifact.  One thread serves each connection, up to a limit; a           *)
(* deployment takes the file lock, probes the artifact and persists the     *)
(* only deployment record the host ever has.  The record survives a crash,  *)
(* the threads do not; a thread whose client has gone away carries on.      *)
EXTENDS Naturals, FiniteSets

CONSTANTS
    HostThreads,    \* connections served at once
    NoRecord        \* nothing deployed yet; nothing asked

VARIABLES
    thread,         \* per thread: [pc, request, answer]
    record          \* the deployment record: the request it was made for

hostVars == <<thread, record>>

(* A request is [decision, manifest, target]; the digests, the              *)
(* manifest and the artifact it names either are in the content store and   *)
(* fit together or are not, which the thread finds out.                     *)
FreeThread == [pc |-> "free", request |-> NoRecord, answer |-> "none"]

HostInit ==
    /\ thread = [h \in HostThreads |-> FreeThread]
    /\ record = NoRecord

(* serve_listener: a connection takes a thread, or is answered 503 when     *)
(* all of them are busy. *)
Accept(h, r) ==
    /\ thread[h].pc = "free"
    /\ thread' = [thread EXCEPT ![h] = [pc |-> "received", request |-> r, answer |-> "none"]]
    /\ UNCHANGED record

Reply(h, answer) == [thread EXCEPT ![h].pc = "answered", ![h].answer = answer]

matches_request(r) == record = r

(* What is checked before the artifact runs; a request that fails is        *)
(* answered 400. *)
validate_manifest == BOOLEAN

resolve_artifact == {"found", "missing", "unsafe"}

(* One run of the artifact: how it ended and what it wrote. *)
run_artifact == [exit : {"zero", "nonzero", "killed"}, stdout : {"result", "refusal", "garbage"}]

map_process_response(o) == o.stdout = "result"

probe(o) == o.exit = "zero" /\ map_process_response(o)

persist(r) == record' = r

(* What a new deployment may come to, over all of those. *)
verdict ==
    {IF fits /\ artifact = "found" /\ probe(o) THEN "ok"
     ELSE IF fits /\ artifact = "unsafe" THEN "500" ELSE "400" :
        fits \in validate_manifest, artifact \in resolve_artifact, o \in run_artifact}

(* Faulty variant: a later request replaces the record. *)
prepare_replacing(h) ==
    /\ thread[h].pc = "received"
    /\ \E reply \in verdict :
        /\ thread' = Reply(h, reply)
        /\ IF reply = "ok" THEN persist(thread[h].request) ELSE UNCHANGED record

(* prepare, under the file lock: an existing record answers for itself; a   *)
(* new one is written only after the probe, and the reply follows it. *)
prepare(h) ==
    /\ thread[h].pc = "received"
    /\ IF record # NoRecord
       THEN /\ thread' = Reply(h, IF matches_request(thread[h].request) THEN "ok" ELSE "409")
            /\ UNCHANGED record
       ELSE \E reply \in verdict :
            /\ thread' = Reply(h, reply)
            /\ IF reply = "ok" THEN persist(thread[h].request) ELSE UNCHANGED record

(* The answer has been read, or nobody is there to read it. *)
Hangup(h) ==
    /\ thread[h].pc = "answered"
    /\ thread' = [thread EXCEPT ![h] = FreeThread]
    /\ UNCHANGED record

HostCrash ==
    /\ \E h \in HostThreads : thread[h].pc # "free"
    /\ thread' = [h \in HostThreads |-> FreeThread]
    /\ UNCHANGED record

(* An execution is for the deployed manifest, from a Run pinned to the very *)
(* snapshot the deployment was prepared for. *)
authorize_execution(manifest, snapshot) ==
    /\ record # NoRecord
    /\ record.manifest = manifest
    /\ record.target = snapshot

(* The execution of a well-formed request, as far as it changes anything:   *)
(* it ran the artifact. *)
handle_execute(manifest, snapshot) ==
    /\ authorize_execution(manifest, snapshot)
    /\ "found" \in resolve_artifact
=============================================================================
