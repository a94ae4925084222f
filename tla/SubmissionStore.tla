------------------------- MODULE SubmissionStore -------------------------
(***************************************************************************)
(* The Coding Harness's side of a submission: the threads of its server,   *)
(* the submission store (self_evolution/submission_store.rs) with its lock *)
(* file, its request marker and its result file, and the handler the store *)
(* runs at most once per attempt.  The operating system releases the lock  *)
(* of a process that dies; files and the content store survive.            *)
(***************************************************************************)
EXTENDS Generator, FiniteSets

CONSTANTS
    Attempts,          \* attempt identities, fresh uuids in the Kernel
    Threads,           \* server threads of the harness
    NoOne,             \* no thread holds the lock, no caller waits
    MaxDiskFaults,     \* bound on failing writes
    MaxHarnessCrashes  \* bound on harness restarts

ASSUME StoreAssumption == NoOne \notin Threads

VARIABLES
    dir,        \* attempt -> its directory: request, result, lock
    thread,     \* thread -> its record
    content,    \* attempt -> the objects the content store holds for it
    diskFaults, harnessCrashes,
    entered,     \* history: how often the handler of an attempt was entered
    gatesPassed  \* history: attempts whose five gates all passed

history == <<entered, gatesPassed>>
storeVars == <<dir, thread, content, diskFaults, harnessCrashes, history>>

Results == {"succeeded", "definitively_rejected", "outcome_unknown"}
IdleThread == [pc |-> "idle", attempt |-> NoOne, client |-> NoOne,
               kind |-> "InvocableCapability", result |-> "outcome_unknown",
               calls |-> 0, left |-> 0, version |-> "default",
               stored |-> {}, gated |-> FALSE]

StoreInit ==
    /\ dir = [a \in Attempts |-> [request |-> "none", result |-> "none", lock |-> NoOne]]
    /\ thread = [t \in Threads |-> IdleThread]
    /\ content = [a \in Attempts |-> {}]
    /\ diskFaults = 0
    /\ harnessCrashes = 0
    /\ entered = [a \in Attempts |-> 0]
    /\ gatesPassed = {}

Goto(t, pc) == thread' = [thread EXCEPT ![t].pc = pc]
Held(a) == dir[a].lock # NoOne

\* The thread answers r and releases the lock it holds.
Answer(t, r) ==
    /\ thread' = [thread EXCEPT ![t].pc = "answer", ![t].result = r]
    /\ dir' = [dir EXCEPT ![thread[t].attempt].lock = IF @ = t THEN NoOne ELSE @]

\* A thread accepts a connection with the submission of attempt a.
Accept(t, a, kind, client) ==
    /\ thread[t].pc = "idle"
    /\ thread' = [thread EXCEPT ![t] =
                    [IdleThread EXCEPT !.pc = "lock", !.attempt = a,
                                       !.kind = kind, !.client = client]]
    /\ UNCHANGED <<dir, content, diskFaults, harnessCrashes, history>>

\* Faulty variant: only a completed result stops the handler.
FaultyExecuteLocked(d) ==
    CASE d.result \in Results -> "answer"
      [] d.result \notin Results /\ d.request = "json" -> "enter"
      [] OTHER -> "mark"

\* execute_locked: a result is replayed, a marker without a result is sealed,
\* and only a directory with neither is marked and handled.
ExecuteLocked(d) ==
    CASE d.result \in Results -> "answer"
      [] d.result \notin Results /\ d.request = "json" -> "seal"
      [] OTHER -> "mark"

\* execute_inner: the lock is tried, never waited for; the thread that has it
\* looks at the directory.
TryLock(t) ==
    /\ thread[t].pc = "lock"
    /\ LET a == thread[t].attempt
           next == ExecuteLocked(dir[a])
       IN  IF Held(a) THEN Answer(t, "in_progress")
           ELSE IF next = "answer" THEN Answer(t, dir[a].result)
           ELSE Goto(t, next) /\ dir' = [dir EXCEPT ![a].lock = t]
    /\ UNCHANGED <<content, diskFaults, harnessCrashes, history>>

\* write_json_atomic, first half: the temporary file must not exist yet, so one
\* that a crash left behind fails the write.
WriteTemp(t, file, next) ==
    LET a == thread[t].attempt IN
    IF dir[a][file] = "tmp" THEN Answer(t, "outcome_unknown")
    ELSE dir' = [dir EXCEPT ![a][file] = "tmp"] /\ Goto(t, next)

\* write_json_atomic, second half: the rename makes the value durable.
Rename(t, file, value) ==
    dir' = [dir EXCEPT ![thread[t].attempt][file] = value]

MarkRequest(t) ==
    /\ \/ thread[t].pc = "mark" /\ WriteTemp(t, "request", "marked")
       \/ thread[t].pc = "marked" /\ Rename(t, "request", "json") /\ Goto(t, "enter")
    /\ UNCHANGED <<content, diskFaults, harnessCrashes, history>>

EnterHandler(t) ==
    /\ thread[t].pc = "enter"
    /\ Goto(t, "plan")
    /\ entered' = [entered EXCEPT ![thread[t].attempt] = @ + 1]
    /\ UNCHANGED <<dir, content, diskFaults, harnessCrashes, gatesPassed>>

\* One step of the handler itself.
Handle(t) ==
    /\ \E g \in handle_submit_once(thread[t]) :
         /\ thread' = [thread EXCEPT ![t] = g]
         /\ content' = [content EXCEPT ![g.attempt] = @ \union (g.stored \ thread[t].stored)]
         /\ gatesPassed' = IF g.gated THEN gatesPassed \union {g.attempt} ELSE gatesPassed
    /\ UNCHANGED <<dir, diskFaults, harnessCrashes, entered>>

\* The handler's result is written, then answered.
PersistResult(t) ==
    /\ \/ thread[t].pc = "finish" /\ WriteTemp(t, "result", "finished")
       \/ /\ thread[t].pc = "finished"
          /\ thread' = [thread EXCEPT ![t].pc = "answer"]
          /\ dir' = [dir EXCEPT ![thread[t].attempt].result = thread[t].result,
                                ![thread[t].attempt].lock = NoOne]
    /\ UNCHANGED <<content, diskFaults, harnessCrashes, history>>

\* An attempt whose marker has no result is closed as unknown.
Seal(t) ==
    /\ \/ thread[t].pc = "seal" /\ WriteTemp(t, "result", "sealed")
       \/ /\ thread[t].pc = "sealed"
          /\ thread' = [thread EXCEPT ![t].pc = "answer", ![t].result = "outcome_unknown"]
          /\ dir' = [dir EXCEPT ![thread[t].attempt].result = "outcome_unknown",
                                ![thread[t].attempt].lock = NoOne]
    /\ UNCHANGED <<content, diskFaults, harnessCrashes, history>>

\* A file cannot be opened, or cannot be read: nothing is written.
OpenFault(t) ==
    /\ thread[t].pc \in {"lock", "mark", "finish", "seal"}
    /\ Answer(t, "outcome_unknown")

\* A write fails: the temporary file stays, or it was renamed and only the
\* directory's sync failed.
WriteFault(t) ==
    /\ thread[t].pc \in {"marked", "finished", "sealed"}
    /\ thread' = [thread EXCEPT ![t].pc = "answer", ![t].result = "outcome_unknown"]
    /\ LET a == thread[t].attempt
           file == IF thread[t].pc = "marked" THEN "request" ELSE "result"
           value == CASE thread[t].pc = "marked" -> "json"
                      [] thread[t].pc = "finished" -> thread[t].result
                      [] OTHER -> "outcome_unknown"
       IN  \E v \in {"tmp", value} :
             dir' = [dir EXCEPT ![a][file] = v, ![a].lock = NoOne]

\* The store answers any error of its files with an unknown outcome.
DiskFault(t) ==
    /\ diskFaults < MaxDiskFaults
    /\ diskFaults' = diskFaults + 1
    /\ OpenFault(t) \/ WriteFault(t)
    /\ UNCHANGED <<content, harnessCrashes, history>>

\* The process dies: its threads and locks are gone, its files are not.
StoreCrash ==
    /\ harnessCrashes < MaxHarnessCrashes
    /\ harnessCrashes' = harnessCrashes + 1
    /\ thread' = [t \in Threads |-> IdleThread]
    /\ dir' = [a \in Attempts |-> [dir[a] EXCEPT !.lock = NoOne]]
    /\ UNCHANGED <<content, diskFaults, history>>

StoreStep(t) ==
    \/ TryLock(t) \/ MarkRequest(t) \/ EnterHandler(t)
    \/ Handle(t) \/ PersistResult(t) \/ Seal(t)
==========================================================================
