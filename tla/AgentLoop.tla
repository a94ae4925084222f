----------------------------- MODULE AgentLoop -----------------------------
(***************************************************************************)
(* The kernel's continuations and the agent loop harness together, and     *)
(* what must hold of them.                                                 *)
(***************************************************************************)
EXTENDS LoopHarness

loopVars == <<kernelVars, harnessVars>>

LoopInit == KernelInit /\ HarnessInit

LoopNext ==
    \/ WorkerStep /\ UNCHANGED harnessVars
    \/ DispatcherStep /\ UNCHANGED harnessVars
    \/ HarnessStep
    \/ \E r \in Runs : DeliverUserMessage(r) /\ UNCHANGED harnessVars
    \/ KernelCrash /\ UNCHANGED harnessVars
    \/ \E obs \in pending, r \in Runs : ContinueLost(obs, r)
    \/ HarnessCrash

\* The kernel's threads and the harness keep running; messages, losses and
\* crashes are never forced.
LoopSpec ==
    /\ LoopInit
    /\ [][LoopNext]_loopVars
    /\ WF_loopVars(WorkerStep /\ UNCHANGED harnessVars)
    /\ WF_loopVars(DispatcherStep /\ UNCHANGED harnessVars)
    /\ WF_loopVars(HarnessStep)

-----------------------------------------------------------------------------

Continued(t) == {row.next : row \in {w \in ledger : w.trigger = t}}

\* The boundary document's promise of one continuation per trigger run: over
\* duplicate requests, lost answers, a lost state file, crashes of either
\* process and jobs leased again, at most one run is created for a trigger,
\* and its model is driven at most once.
ContinuedOnce ==
    /\ \A t \in Runs : Cardinality(Continued(t)) <= 1
    /\ \A r \in Runs : starts[r] <= 1

\* max_automatic_runs bounds the continuations the harness causes.  An answer
\* that is lost hides one from its count; so does a count that could not be
\* saved, once a crash takes the one in memory.  A lost state file is not bounded.
AutomaticRunsBounded ==
    ~stateLost => Cardinality(ledger)
                     <= MaxAutomaticRuns + lost + (IF harnessCrashes = 0 THEN 0 ELSE saveFailures)

\* Every event up to the cursor was returned to the harness: paging with
\* next_cursor skips nothing, whatever is appended between two queries.
CursorSkipsNothing == 1..mem.cursor \subseteq read

Yielded(r) == \E i \in DOMAIN log : log[i] = [kind |-> "Yield", run |-> r]

\* Once user messages and faults stop coming, every accepted continuation is
\* worked off: no job stays queued or leased, across crashes.
ContinuationIsWorkedOff ==
    <>[](\A t \in Runs : cjob[t] \notin {"queued", "running"})

\* And every yield is resolved by the harness or continued, but for those of
\* the page at hand when a request was lost, a save failed or the harness
\* crashed: the cursor is past that page by then, and past no other.
YieldIsResolved ==
    <>[](Cardinality({r \in Runs : Yielded(r) /\ r \notin mem.processed /\ Continued(r) = {}})
            <= PageLimit * (lost + saveFailures + harnessCrashes))
=============================================================================
