-------------------------- MODULE DeploymentHarness -------------------------
(* The deployment harness (tools/deployment-harness): a process of its own  *)
(* that runs the managed services.  Every request has a thread; a file lock *)
(* per component lets one of them work at a time.  A deployment starts the  *)
(* new process, writes the two record files, and only then stops the old    *)
(* process; a crash may fall between any two of these, and each write may   *)
(* fail.  Service processes outlive the harness.                            *)
EXTENDS Naturals, FiniteSets

CONSTANTS
    Components,     \* managed components
    Deployments,    \* candidates that may be deployed, one artifact each
    ComponentOf,    \* the component a candidate is a version of
    Version,        \* a candidate's version
    Threads,        \* requests the harness works on at a time
    MaxStarts,      \* service processes that may be started
    MaxLeaks,       \* failures that leave a process nobody will stop
    Nothing         \* no record, no request, no deployment

ASSUME CandidatesAre ==
    /\ ComponentOf \in [Deployments -> Components]
    /\ Version \in [Deployments -> Nat]

VARIABLES
    running,        \* service processes: [dep, port, inst]
    starts,         \* processes started so far; the next port and identity
    records,        \* deployments/<id>.json: a candidate's record or Nothing
    current,        \* active.json of a component: a record or Nothing
    thread,         \* what each request thread does
    boot,           \* components still to be restored before it listens; {"down"} when down
    leaks           \* history: failures that left a process nobody will stop

harnessVars == <<running, starts, records, current, thread, boot, leaks>>

Idle == [pc |-> "free", req |-> Nothing, old |-> Nothing, new |-> Nothing,
         waited |-> FALSE, answer |-> Nothing]

HarnessInit ==
    /\ running = {}
    /\ starts = 0
    /\ records = [p \in Deployments |-> Nothing]
    /\ current = [c \in Components |-> Nothing]
    /\ thread = [h \in Threads |-> Idle]
    /\ boot = {}
    /\ leaks = 0

Target(q) == IF q.kind = "deploy" THEN ComponentOf[q.id] ELSE q.component

(* The lock file: a thread past "lock" holds it until it answers. *)
lock_component(h) ==
    /\ thread[h].pc = "lock"
    /\ \A g \in Threads \ {h} :
           thread[g].pc \notin {"free", "lock", "done"} =>
               Target(thread[g].req) # Target(thread[h].req)

(* A thread per connection; the caller waits for its answer. *)
serve_listener(h, q) ==
    /\ boot = {}
    /\ thread[h].pc = "free"
    /\ thread' = [thread EXCEPT ![h] =
                      [Idle EXCEPT !.pc = "lock", !.req = q, !.waited = TRUE]]

(* An answer nobody waits for goes nowhere. *)
write_json(h, answer) ==
    thread' = [thread EXCEPT ![h] =
        IF thread[h].waited
        THEN [Idle EXCEPT !.pc = "done", !.req = thread[h].req,
                          !.waited = TRUE, !.answer = answer]
        ELSE Idle]

Hear(h) == thread' = [thread EXCEPT ![h] = Idle]

(* Whoever waited has given up; the thread goes on. *)
GiveUp(h) ==
    thread' = [thread EXCEPT ![h] =
        IF thread[h].pc = "done" THEN Idle ELSE [thread[h] EXCEPT !.waited = FALSE]]

(***************************************************************************)
(* Answers.  A 400, 409 or 422 is definitive to the Kernel, and anything   *)
(* else that is not a receipt leaves the effect uncertain.                 *)
(***************************************************************************)
safe_error(code) ==
    CASE code \in {"NOT_MONOTONIC", "TARGET_MISSING", "CONFLICT"} -> 409
      [] code \in {"EXITED_BEFORE_READY", "HEALTHCHECK"}          -> 422
      [] code = "INVALID"                                         -> 400
      [] code = "NOT_FOUND"                                       -> 404
      [] OTHER                                                    -> 500

Failure(code) ==
    [kind |-> IF safe_error(code) \in {400, 409, 422} THEN "definitive" ELSE "uncertain"]

Receipt(r) == [kind |-> "receipt", port |-> r.port, prev |-> r.prev]

control_receipt(r, id, action) ==
    [kind |-> "control", id |-> id, action |-> action, dep |-> r.dep, port |-> r.port]

(***************************************************************************)
(* Service processes.                                                      *)
(***************************************************************************)
NewProcess(p, port) == [dep |-> p, port |-> port, inst |-> starts + 1]

(* Only the process under the recorded identity answers the probe. *)
record_is_healthy(r) == [dep |-> r.dep, port |-> r.port, inst |-> r.inst] \in running

stop(r) == running \ {[dep |-> r.dep, port |-> r.port, inst |-> r.inst]}

(* The port of a process that does not listen. *)
NoPort == 0

reserve_port(port) == \A s \in running : s.port # port

(* How a start can end short of a healthy process. *)
StartFailures == {"EXITED_BEFORE_READY", "HEALTHCHECK", "SPAWN"}

start(p, port) ==
    /\ starts < MaxStarts
    /\ reserve_port(port)
    /\ running' = running \cup {NewProcess(p, port)}
    /\ starts' = starts + 1

(* A write or a stop failed on the way, and a process stays behind. *)
Leak == leaks < MaxLeaks /\ leaks' = leaks + 1

(* The result of stopping a process that was just started is not looked at. *)
stop_started(r) ==
    \/ running' = stop(r) /\ UNCHANGED leaks
    \/ UNCHANGED running /\ Leak

persist_record(r) == records' = [records EXCEPT ![r.dep] = r]

persist_active(c, r) == current' = [current EXCEPT ![c] = r]

(* A control decision that was carried out last is answered from the record.*)
replay_control(r, q) == r.last # Nothing /\ r.last.id = q.id

(***************************************************************************)
(* Deploying.                                                              *)
(***************************************************************************)
compare_version(p, q) == Version[p] > Version[q]

(* What is already there decides, before anything is started. *)
existing_deployment(p, r) ==
    IF r = Nothing THEN "start"
    ELSE IF r.dep = p
         THEN IF r.status = "healthy" /\ record_is_healthy(r) THEN "replay" ELSE "start"
         ELSE IF compare_version(p, r.dep) THEN "start" ELSE "refuse"

(* The manifest, the artifact or the installation cannot be used. *)
load_manifest(h) ==
    /\ lock_component(h)
    /\ thread[h].req.kind = "deploy"
    /\ \E code \in {"INVALID", "NOT_FOUND"} : write_json(h, Failure(code))
    /\ UNCHANGED <<running, starts, records, current, boot, leaks>>

DeployedRecord(p, old) ==
    [dep |-> p, status |-> "healthy", port |-> starts + 1, inst |-> starts + 1,
     prev |-> IF old = Nothing THEN Nothing ELSE old.dep, last |-> Nothing]

deploy(h) ==
    LET p == thread[h].req.id
        c == ComponentOf[p]
        old == current[c]
        found == existing_deployment(p, old) IN
    /\ lock_component(h)
    /\ thread[h].req.kind = "deploy"
    /\ IF found = "start"
       THEN \/ /\ start(p, starts + 1)
               /\ thread' = [thread EXCEPT ![h].pc = "started", ![h].old = old,
                                           ![h].new = DeployedRecord(p, old)]
            \/ /\ \E code \in StartFailures : write_json(h, Failure(code))
               /\ UNCHANGED <<running, starts>>
       ELSE /\ write_json(h, IF found = "replay" THEN Receipt(old)
                             ELSE Failure("NOT_MONOTONIC"))
            /\ UNCHANGED <<running, starts>>
    /\ UNCHANGED <<records, current, boot, leaks>>

(* The two record files, one after the other. *)
record_deployment(h) ==
    /\ thread[h].pc = "started"
    /\ thread[h].req.kind = "deploy"
    /\ persist_record(thread[h].new)
    /\ thread' = [thread EXCEPT ![h].pc = "recorded"]
    /\ UNCHANGED <<running, starts, current, boot, leaks>>

activate_record(h) ==
    /\ \/ thread[h].pc = "recorded"
       \/ thread[h].pc = "started" /\ thread[h].req.kind = "rollback"
    /\ persist_active(Target(thread[h].req), thread[h].new)
    /\ thread' = [thread EXCEPT ![h].pc = "active"]
    /\ UNCHANGED <<running, starts, records, boot, leaks>>

(* The health check timed out and what it found could not be written to the *)
(* log: the error returns before the process is stopped.                    *)
start_abandoned(h) ==
    LET q == thread[h].req
        old == current[Target(q)]
        p == IF q.kind = "deploy" THEN q.id ELSE old.prev IN
    /\ lock_component(h)
    /\ \/ q.kind = "deploy" /\ existing_deployment(p, old) = "start"
       \/ q.kind = "rollback" /\ old # Nothing /\ ~replay_control(old, q) /\ p # Nothing
    /\ start(p, starts + 1) /\ Leak
    /\ write_json(h, Failure("IO"))
    /\ UNCHANGED <<records, current, boot>>

(* The record could not be written: the new process is stopped again. *)
persist_fails(h) ==
    /\ thread[h].pc \in {"started", "recorded"}
    /\ stop_started(thread[h].new)
    /\ write_json(h, Failure("IO"))
    /\ UNCHANGED <<starts, records, current, boot>>

(* The file is in place and only the sync of its directory failed: the new  *)
(* process is stopped as well, but it is the one on record; when it is the  *)
(* active one, nothing refers to the old process any more.                  *)
record_unsynced(h) ==
    /\ thread[h].pc = "started"
    /\ thread[h].req.kind = "deploy"
    /\ persist_record(thread[h].new)
    /\ running' = stop(thread[h].new)
    /\ write_json(h, Failure("IO"))
    /\ UNCHANGED <<starts, current, boot, leaks>>

active_unsynced(h) ==
    /\ \/ thread[h].pc = "recorded"
       \/ thread[h].pc = "started" /\ thread[h].req.kind = "rollback"
    /\ persist_active(Target(thread[h].req), thread[h].new)
    /\ running' = stop(thread[h].new) /\ Leak
    /\ write_json(h, Failure("IO"))
    /\ UNCHANGED <<starts, records, boot>>

Finished(h) ==
    IF thread[h].req.kind = "deploy" THEN Receipt(thread[h].new) ELSE thread[h].new.last

(* Faulty variant: the old process is left alone. *)
stop_nothing(h) ==
    /\ thread[h].pc = "active"
    /\ write_json(h, Finished(h))
    /\ UNCHANGED <<running, starts, records, current, boot, leaks>>

stop_previous(h) ==
    /\ thread[h].pc = "active"
    /\ running' = IF thread[h].old = Nothing THEN running ELSE stop(thread[h].old)
    /\ write_json(h, Finished(h))
    /\ UNCHANGED <<starts, records, current, boot, leaks>>

(* The old process can neither be stopped nor is it gone: it stays the      *)
(* active one. *)
stop_previous_fails(h) ==
    /\ thread[h].pc = "active"
    /\ thread[h].old # Nothing
    /\ record_is_healthy(thread[h].old)
    /\ persist_active(Target(thread[h].req), thread[h].old)
    /\ stop_started(thread[h].new)
    /\ write_json(h, Failure("STOP_FAILED"))
    /\ UNCHANGED <<starts, records, boot>>

(* Nor can the old record be put back: the error returns before the new     *)
(* process is stopped, and both run. *)
restore_fails(h) ==
    /\ thread[h].pc = "active"
    /\ thread[h].old # Nothing
    /\ record_is_healthy(thread[h].old)
    /\ persist_active(Target(thread[h].req), thread[h].old) \/ UNCHANGED current
    /\ write_json(h, Failure("IO")) /\ Leak
    /\ UNCHANGED <<running, starts, records, boot>>

(***************************************************************************)
(* Disable and roll back.                                                  *)
(***************************************************************************)
ControlBegins(h, kind) ==
    /\ lock_component(h)
    /\ thread[h].req.kind = kind

(* Nothing to control, or the decision was carried out already. *)
control_answered(h) ==
    LET q == thread[h].req
        r == current[Target(q)] IN
    /\ lock_component(h)
    /\ q.kind \in {"disable", "rollback"}
    /\ r # Nothing => replay_control(r, q)
    /\ write_json(h, IF r = Nothing THEN Failure("NOT_DEPLOYED")
                     ELSE IF r.last.action = q.kind THEN r.last ELSE Failure("CONFLICT"))
    /\ UNCHANGED <<running, starts, records, current, boot, leaks>>

disable(h) ==
    LET q == thread[h].req
        r == current[Target(q)] IN
    /\ ControlBegins(h, "disable")
    /\ r # Nothing /\ ~replay_control(r, q)
    /\ \/ /\ running' = IF r.status = "disabled" THEN running ELSE stop(r)
          /\ thread' = [thread EXCEPT ![h].pc = "stopped", ![h].old = r,
                 ![h].new = [r EXCEPT !.status = "disabled",
                                      !.last = control_receipt(r, q.id, "disable")]]
       \/ /\ r.status # "disabled" /\ record_is_healthy(r)
          /\ write_json(h, Failure("STOP_FAILED"))
          /\ UNCHANGED running
    /\ UNCHANGED <<starts, records, current, boot, leaks>>

disable_recorded(h) ==
    /\ thread[h].pc = "stopped"
    /\ \/ /\ persist_active(Target(thread[h].req), thread[h].new)
          /\ write_json(h, thread[h].new.last)
       \/ /\ persist_active(Target(thread[h].req), thread[h].new) \/ UNCHANGED current
          /\ write_json(h, Failure("IO"))
    /\ UNCHANGED <<running, starts, records, boot, leaks>>

load_record_by_artifact(r) == records[r.prev]

rolled_back_record(old, q) ==
    LET previous == load_record_by_artifact(old)
        r == [previous EXCEPT !.status = "rolled_back",
                              !.port = starts + 1, !.inst = starts + 1] IN
    [r EXCEPT !.last = control_receipt(r, q.id, "rollback")]

rollback(h) ==
    LET q == thread[h].req
        old == current[Target(q)] IN
    /\ ControlBegins(h, "rollback")
    /\ old # Nothing /\ ~replay_control(old, q)
    /\ IF old.prev = Nothing
       THEN /\ write_json(h, Failure("TARGET_MISSING"))
            /\ UNCHANGED <<running, starts>>
       ELSE \/ /\ start(old.prev, starts + 1)
               /\ thread' = [thread EXCEPT ![h].pc = "started", ![h].old = old,
                                           ![h].new = rolled_back_record(old, q)]
            \/ /\ \E code \in StartFailures : write_json(h, Failure(code))
               /\ UNCHANGED <<running, starts>>
    /\ UNCHANGED <<records, current, boot, leaks>>

(***************************************************************************)
(* Crash and recovery.                                                     *)
(***************************************************************************)
ServiceExit ==
    /\ \E s \in running : running' = running \ {s}
    /\ UNCHANGED <<starts, records, current, thread, boot, leaks>>

HarnessDown ==
    /\ thread' = [h \in Threads |-> Idle]
    /\ boot' = {"down"}
    /\ UNCHANGED <<running, starts, records, current, leaks>>

(* serve: every component is restored before the first connection. *)
serve ==
    /\ boot = {"down"}
    /\ boot' = Components
    /\ UNCHANGED <<running, starts, records, current, thread, leaks>>

reconcile_nothing_to_do(c) ==
    /\ c \in boot
    /\ current[c] # Nothing => current[c].status = "disabled" \/ record_is_healthy(current[c])
    /\ boot' = boot \ {c}
    /\ UNCHANGED <<running, starts, records, current, thread, leaks>>

(* Faulty variant: the service comes back on a port of its own. *)
reconcile_fresh_port(c) ==
    /\ c \in boot
    /\ current[c] # Nothing /\ current[c].status # "disabled"
    /\ ~record_is_healthy(current[c])
    /\ start(current[c].dep, starts + 1)
    /\ persist_active(c, [current[c] EXCEPT !.inst = starts + 1, !.port = starts + 1])
    /\ boot' = boot \ {c}
    /\ UNCHANGED <<records, thread, leaks>>

reconcile(c) ==
    /\ c \in boot
    /\ current[c] # Nothing /\ current[c].status # "disabled"
    /\ ~record_is_healthy(current[c])
    /\ start(current[c].dep, current[c].port)
    /\ persist_active(c, [current[c] EXCEPT !.inst = starts + 1])
    /\ boot' = boot \ {c}
    /\ UNCHANGED <<records, thread, leaks>>

(* The process was started and the harness died before it was recorded. *)
reconcile_interrupted(c) ==
    /\ c \in boot
    /\ current[c] # Nothing /\ current[c].status # "disabled"
    /\ ~record_is_healthy(current[c])
    /\ start(current[c].dep, current[c].port)
    /\ boot' = {"down"}
    /\ UNCHANGED <<records, current, thread, leaks>>

(* A service that does not come back keeps the harness from starting. *)
reconcile_fails(c) ==
    /\ c \in boot
    /\ current[c] # Nothing /\ current[c].status # "disabled"
    /\ ~record_is_healthy(current[c])
    /\ boot' = {"down"}
    /\ UNCHANGED <<running, starts, records, current, thread, leaks>>

(* The process that was started is not healthy and is not stopped either,   *)
(* listening or not. *)
reconcile_abandoned(c) ==
    /\ c \in boot
    /\ current[c] # Nothing /\ current[c].status # "disabled"
    /\ ~record_is_healthy(current[c])
    /\ starts < MaxStarts /\ starts' = starts + 1
    /\ reserve_port(current[c].port)
    /\ \E port \in {current[c].port, NoPort} :
           running' = running \cup {NewProcess(current[c].dep, port)}
    /\ Leak
    /\ boot' = {"down"}
    /\ UNCHANGED <<records, current, thread>>

(* It is healthy, on record, and stopped: its record was not synced. *)
reconcile_unsynced(c) ==
    /\ c \in boot
    /\ current[c] # Nothing /\ current[c].status # "disabled"
    /\ ~record_is_healthy(current[c])
    /\ starts < MaxStarts /\ starts' = starts + 1
    /\ reserve_port(current[c].port)
    /\ persist_active(c, [current[c] EXCEPT !.inst = starts + 1])
    /\ boot' = {"down"}
    /\ UNCHANGED <<running, records, thread, leaks>>

HarnessStep(h) ==
    \/ load_manifest(h) \/ deploy(h) \/ record_deployment(h) \/ activate_record(h)
    \/ start_abandoned(h) \/ persist_fails(h) \/ record_unsynced(h) \/ active_unsynced(h)
    \/ stop_previous(h) \/ stop_previous_fails(h) \/ restore_fails(h)
    \/ control_answered(h) \/ disable(h) \/ disable_recorded(h) \/ rollback(h)

HarnessBoot ==
    \/ serve
    \/ \E c \in Components :
          \/ reconcile_nothing_to_do(c) \/ reconcile(c) \/ reconcile_fails(c)
          \/ reconcile_abandoned(c) \/ reconcile_unsynced(c)
=============================================================================
