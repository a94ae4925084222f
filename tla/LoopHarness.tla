---------------------------- MODULE LoopHarness ----------------------------
(***************************************************************************)
(* The agent loop harness: a process outside the kernel that reads the     *)
(* journal page by page, decides for every run it sees end whether to      *)
(* continue it, and asks the kernel for the continuation.                  *)
(*                                                                         *)
(* Its state is a cursor, the runs it has resolved and the number of       *)
(* continuations it asked for; save writes all of it to a file.  The wall  *)
(* time and failure limits never bind: nothing sets last_user_input_at or  *)
(* consecutive_failures.                                                   *)
(***************************************************************************)
EXTENDS Continuation, EventObserve

CONSTANTS
    MaxAutomaticRuns,    \* config.max_automatic_runs
    MaxLost,             \* bound on requests or answers lost on the way
    MaxSaveFailures,     \* bound on writes of the state file that fail
    MaxHarnessCrashes    \* bound on crashes of the harness

ASSUME HarnessAssumption ==
    /\ MaxAutomaticRuns \in Nat
    /\ MaxLost \in Nat
    /\ MaxSaveFailures \in Nat
    /\ MaxHarnessCrashes \in Nat

VARIABLES
    mem,       \* HarnessState in memory
    disk,      \* HarnessState in the state file
    pending,   \* runs of the page still to resolve, with their outcome
    read,      \* sequence numbers ever returned to the harness
    lost, saveFailures, harnessCrashes,
    stateLost  \* the state file was lost or unreadable at some start

harnessVars == <<mem, disk, pending, read, lost, saveFailures, harnessCrashes, stateLost>>

Default == [cursor |-> 0, processed |-> {}, automatic |-> 0]

HarnessInit ==
    /\ mem = Default
    /\ disk = Default
    /\ pending = {}
    /\ read = {}
    /\ lost = 0
    /\ saveFailures = 0
    /\ harnessCrashes = 0
    /\ stateLost = FALSE

\* What a page tells of a run: a yield fact outweighs a terminal event.
RunObservation(page, r) ==
    [run |-> r, yielded |-> \E i \in page : log[i] = [kind |-> "Yield", run |-> r]]

\* The runs a page shows to have ended and that are not resolved yet.
Resolvable(page) ==
    {r \in Runs \ mem.processed :
        \E i \in page : log[i].run = r /\ log[i].kind # "RunStarted"}

\* One page is read; the cursor moves over it before its runs are acted on.
Observe ==
    /\ pending = {}
    /\ LET answer == observe_events(log, mem.cursor, Event)
           page == answer.events
       IN /\ page # {}
          /\ pending' = {RunObservation(page, r) : r \in Resolvable(page)}
          /\ mem' = [mem EXCEPT !.cursor = answer.next_cursor]
          /\ read' = read \cup page
    /\ UNCHANGED <<kernelVars, disk, lost, saveFailures, harnessCrashes, stateLost>>

\* Faulty variant: the automatic runs are not counted against the limit.
resolve_policy_unlimited(obs) ==
    IF obs.yielded THEN "continue_same_session" ELSE "reply_and_wait"

resolve_policy(obs) ==
    IF ~obs.yielded THEN "reply_and_wait"
    ELSE IF mem.automatic < MaxAutomaticRuns THEN "continue_same_session"
    ELSE "stop"

\* The whole state is written to a file of its own and renamed, or run_once
\* returns the error: the file is the old one, and the rest of the page is gone.
save(obs) ==
    \/ /\ disk' = mem'
       /\ pending' = pending \ {obs}
       /\ UNCHANGED saveFailures
    \/ /\ saveFailures < MaxSaveFailures
       /\ saveFailures' = saveFailures + 1
       /\ pending' = {}
       /\ UNCHANGED disk

\* The run is resolved in memory and the state saved.
Resolved(obs, automatic) ==
    /\ mem' = [mem EXCEPT !.processed = @ \cup {obs.run}, !.automatic = automatic]
    /\ save(obs)
    /\ UNCHANGED <<read, lost, harnessCrashes, stateLost>>

\* Faulty variant: a run that is not continued is left unresolved.
WaitUnresolved(obs) ==
    /\ resolve_policy(obs) # "continue_same_session"
    /\ pending' = pending \ {obs}
    /\ UNCHANGED <<kernelVars, mem, disk, read, lost, saveFailures, harnessCrashes, stateLost>>

WaitOrStop(obs) ==
    /\ resolve_policy(obs) # "continue_same_session"
    /\ Resolved(obs, mem.automatic)
    /\ UNCHANGED kernelVars

\* The kernel accepts the continuation and the harness learns of it.
ContinueAccepted(obs, next) ==
    /\ resolve_policy(obs) = "continue_same_session"
    /\ request_session_continuation(obs.run)
    /\ accept_session_continuation(obs.run, next)
    /\ Resolved(obs, mem.automatic + 1)

\* The kernel has accepted it before: the answer carries duplicate.
ContinueDuplicate(obs) ==
    /\ resolve_policy(obs) = "continue_same_session"
    /\ continuation_by_trigger_run(obs.run) # {}
    /\ Resolved(obs, mem.automatic)
    /\ UNCHANGED kernelVars

\* The request or its answer is lost: run_once returns the error, and what it
\* had not resolved of the page is gone with the cursor past it.  A crash
\* between the request and the save is this step and then HarnessCrash.
ContinueLost(obs, next) ==
    /\ resolve_policy(obs) = "continue_same_session"
    /\ lost < MaxLost
    /\ lost' = lost + 1
    /\ pending' = {}
    /\ \/ UNCHANGED kernelVars
       \/ accept_session_continuation(obs.run, next)
    /\ UNCHANGED <<mem, disk, read, saveFailures, harnessCrashes, stateLost>>

\* A crash, and a restart from the state file or, when it cannot be read,
\* from the default state.
HarnessCrash ==
    /\ harnessCrashes < MaxHarnessCrashes
    /\ harnessCrashes' = harnessCrashes + 1
    /\ pending' = {}
    /\ \/ mem' = disk /\ UNCHANGED <<disk, stateLost>>
       \/ mem' = Default /\ disk' = Default /\ stateLost' = TRUE
    /\ UNCHANGED <<kernelVars, read, lost, saveFailures>>

HarnessStep ==
    \/ Observe
    \/ \E obs \in pending :
          WaitOrStop(obs) \/ ContinueDuplicate(obs) \/ \E r \in Runs : ContinueAccepted(obs, r)
=============================================================================
