----------------------------- MODULE FeishuProofs ----------------------------
(***************************************************************************)
(* The connector's promises for any number of messages, handlers, requests *)
(* and faults.  Each step is first reduced to what it does to one message  *)
(* and one handler (a Change); the invariants are then shown to survive    *)
(* every kind of change.                                                   *)
(***************************************************************************)
EXTENDS FeishuConnector, FiniteSetTheorems, TLAPS

\* The leaves are for Zenon; a leaf that needs arithmetic, or that Zenon does not
\* find in time, cites SMT.
USE Zenon

IsTask(g) == g = [kind |-> g.kind, pc |-> g.pc, msg |-> g.msg, id |-> g.id]
TaskOK(g) ==
    /\ IsTask(g) /\ g.id \in Nat
    /\ g.pc \in {"free", "adding", "added", "removing", "removed", "post"}
    /\ g.pc = "free" => g = NoTask
    /\ g.pc # "free" => g.msg \in Messages
    /\ g.pc = "post" => g.kind = "ingress"
    /\ g.pc \in {"adding", "added"} => g.kind \in {"ingress", "failed", "refused"}
    /\ g.pc \in {"removing", "removed"} => g.kind \in {"succeeded", "skipped", "failed", "refused"}

Shapes ==
    /\ task = [t \in Tasks |-> task[t]] /\ \A t \in Tasks : TaskOK(task[t])
    /\ states \in [Messages -> ReactionState \union {Nothing}]
    /\ disk \in [Messages -> ReactionState \union {Nothing}]
    /\ shown = [m \in Messages |-> shown[m]]
    /\ sent \in [Messages -> Nat] /\ deliveries \in [Messages -> Nat]
    /\ inFlight \in [Messages -> {"none", "sending", "landed", "rejecting"}]
    /\ kernel \subseteq Messages /\ acked \subseteq kernel /\ stored \subseteq kernel
    /\ \A m \in Messages : inFlight[m] # "none" => m \in kernel
    /\ adds \in Nat /\ crashes \in Nat /\ failures \in Nat /\ expiries \in Nat

-----------------------------------------------------------------------------
(* What a step does to message m and handler t, which becomes g. *)

\* The handler after a removal, and after its reaction is added or given up.
GoesOn(g, kind, m) ==
    IF MarksFailure(kind)
    THEN g.kind = kind /\ g.pc = "adding" /\ g.msg = m /\ g.id = 0
    ELSE g = NoTask
Posts(g, kind, m) ==
    IF kind = "ingress" THEN g.kind = kind /\ g.pc = "post" /\ g.msg = m /\ g.id = 0
    ELSE g = NoTask

SameFailures == failures' = failures
OneFailure == failures' = failures + 1
SameShown(m) == shown'[m] = shown[m]
SameState(m) == states'[m] = states[m]
SameSend(m) == inFlight'[m] = inFlight[m] /\ kernel' = kernel /\ acked' = acked /\ stored' = stored
SameCount(m) == deliveries'[m] = deliveries[m]

Arrives(m, t, g) ==
    /\ task[t] = NoTask /\ g.kind = "ingress" /\ g.msg = m
    /\ g.pc = IF states[m] = Nothing THEN "adding" ELSE "post"
    /\ deliveries'[m] = deliveries[m] + 1
    /\ SameFailures /\ SameShown(m) /\ SameState(m) /\ SameSend(m)
Removes(m, t, g) ==
    /\ task[t].pc = "removing" /\ task[t].msg = m
    /\ g.kind = task[t].kind /\ g.pc = "removed" /\ g.msg = m /\ g.id = task[t].id
    /\ shown'[m] = {x \in shown[m] : x.id # task[t].id}
    /\ SameFailures /\ SameCount(m) /\ SameState(m) /\ SameSend(m)
Forgets(m, t, g) ==
    /\ task[t].pc = "removed" /\ task[t].msg = m /\ GoesOn(g, task[t].kind, m)
    /\ states'[m] = Nothing
    /\ SameFailures \/ OneFailure
    /\ SameShown(m) /\ SameCount(m) /\ SameSend(m)
Keeps(m, t, g) ==
    /\ task[t].pc \in {"removing", "removed"} /\ task[t].msg = m /\ GoesOn(g, task[t].kind, m)
    /\ OneFailure /\ SameShown(m) /\ SameCount(m) /\ SameSend(m)
Adds(m, t, g) ==
    /\ task[t].pc = "adding" /\ task[t].msg = m
    /\ g.kind = task[t].kind /\ g.pc = "added" /\ g.msg = m
    /\ \E x : x.id = g.id /\ shown'[m] = shown[m] \union {x}
    /\ SameFailures /\ SameCount(m) /\ SameState(m) /\ SameSend(m)
Tracks(m, t, g) ==
    /\ task[t].pc = "added" /\ task[t].msg = m /\ Posts(g, task[t].kind, m)
    /\ states'[m] # Nothing /\ states'[m].id = task[t].id
    /\ states'[m].status = Emoji(task[t].kind)
    /\ SameFailures \/ OneFailure
    /\ SameShown(m) /\ SameCount(m) /\ SameSend(m)
Retries(m, t, g) ==
    /\ task[t].pc = "added" /\ task[t].msg = m
    /\ g.kind = task[t].kind /\ g.pc = "adding" /\ g.msg = m
    /\ OneFailure /\ SameShown(m) /\ SameCount(m) /\ SameState(m) /\ SameSend(m)
GivesUp(m, t, g) ==
    /\ task[t].pc \in {"adding", "added"} /\ task[t].msg = m /\ Posts(g, task[t].kind, m)
    /\ OneFailure /\ SameShown(m) /\ SameCount(m) /\ SameState(m) /\ SameSend(m)
Enters(m, t, g) ==
    /\ task[t].pc = "post" /\ task[t].msg = m /\ g = NoTask
    /\ \/ SameFailures /\ kernel' = kernel \union {m}
       \/ OneFailure
    /\ UNCHANGED <<inFlight, acked, stored>>
    /\ SameShown(m) /\ SameCount(m) /\ SameState(m)

\* removeTrackedReaction: nothing to remove, or the removal begins.
Retracts(m, g, kind) ==
    \/ /\ states[m] = Nothing \/ (states[m] # Nothing /\ states[m].status = "remove_pending")
       /\ GoesOn(g, kind, m) /\ SameState(m)
    \/ /\ states[m] # Nothing /\ states[m].status # "remove_pending"
       /\ states'[m] # Nothing /\ states'[m].id = states[m].id
       /\ states'[m].status = "remove_pending"
       /\ g.kind = kind /\ g.pc = "removing" /\ g.msg = m /\ g.id = states[m].id
Clears(m, t, g) ==
    /\ task[t].pc = "post" /\ task[t].msg = m
    /\ \/ Retracts(m, g, "skipped") /\ SameFailures
       \/ Retracts(m, g, "refused") /\ OneFailure
    /\ SameShown(m) /\ SameCount(m) /\ SameSend(m)
Concludes(m, t, g) ==
    /\ task[t] = NoTask /\ SameShown(m) /\ SameCount(m) /\ kernel' = kernel
    /\ \/ /\ inFlight[m] = "landed" /\ inFlight'[m] = "none"
          /\ Retracts(m, g, "succeeded") /\ SameFailures
       \/ /\ inFlight[m] = "landed" /\ inFlight'[m] = "rejecting"
          /\ Retracts(m, g, "succeeded") /\ OneFailure
       \/ /\ inFlight[m] = "rejecting" /\ inFlight'[m] = "none"
          /\ Retracts(m, g, "failed") /\ SameFailures
       \/ /\ inFlight[m] \in {"sending", "landed"} /\ inFlight'[m] = "none"
          /\ Retracts(m, g, "failed") /\ OneFailure

Change(m, t, g) ==
    /\ task' = [task EXCEPT ![t] = g] /\ TaskOK(g)
    /\ task[t].msg = m \/ task[t] = NoTask
    /\ g.msg = m \/ g = NoTask
    /\ \A n \in Messages \ {m} :
         /\ SameShown(n) /\ SameState(n) /\ SameCount(n) /\ inFlight'[n] = inFlight[n]
         /\ n \in kernel' <=> n \in kernel
         /\ n \in acked' <=> n \in acked
         /\ n \in stored' <=> n \in stored
    /\ SameFailures \/ OneFailure
    /\ UNCHANGED crashes
    /\ \/ Arrives(m, t, g) \/ Removes(m, t, g) \/ Forgets(m, t, g) \/ Keeps(m, t, g)
       \/ Adds(m, t, g) \/ Tracks(m, t, g) \/ Retries(m, t, g) \/ GivesUp(m, t, g)
       \/ Enters(m, t, g) \/ Clears(m, t, g) \/ Concludes(m, t, g)

\* The handler's record, and everybody else's.
LEMMA TouchPoints ==
    ASSUME Shapes, NEW t \in Tasks, NEW g, TaskOK(g), task' = [task EXCEPT ![t] = g]
    PROVE  /\ task' = [u \in Tasks |-> task'[u]] /\ \A u \in Tasks : TaskOK(task'[u])
           /\ task'[t] = g /\ \A u \in Tasks \ {t} : task'[u] = task[u]
BY DEF Shapes

\* The idle handler is well shaped and works on no message.
LEMMA NoTaskOK == TaskOK(NoTask) /\ NoTask.msg = Nothing /\ NoTask.pc = "free"
BY DEF TaskOK, NoTask, IsTask

\* A record for the handler's place in what it does.
LEMMA TaskShape ==
    ASSUME NEW kind, NEW pc, NEW m \in Messages, NEW id \in Nat, NEW g,
           g = [kind |-> kind, pc |-> pc, msg |-> m, id |-> id],
           \/ pc = "post" /\ kind = "ingress"
           \/ pc \in {"adding", "added"} /\ kind \in {"ingress", "failed", "refused"}
           \/ pc \in {"removing", "removed"} /\ kind \in {"succeeded", "skipped", "failed", "refused"}
    PROVE  /\ TaskOK(g)
           /\ g.kind = kind /\ g.pc = pc /\ g.msg = m /\ g.id = id
<1>1. IsTask(g) /\ g.kind = kind /\ g.pc = pc /\ g.msg = m /\ g.id = id
  BY DEF IsTask
<1> QED BY <1>1 DEF TaskOK

\* The handler after a removal goes on to its failure mark or ends.
LEMMA AfterRemovalShape ==
    ASSUME NEW t, NEW m \in Messages, NEW g,
           NEW kind \in {"succeeded", "skipped", "failed", "refused"},
           g = AfterRemoval(t, kind, m)
    PROVE  TaskOK(g) /\ GoesOn(g, kind, m) /\ (g.msg = m \/ g = NoTask)
<1>1. CASE MarksFailure(kind)
  <2>1. g = [kind |-> kind, pc |-> "adding", msg |-> m, id |-> 0]
    BY <1>1 DEF AfterRemoval
  <2>2. TaskOK(g) /\ g.kind = kind /\ g.pc = "adding" /\ g.msg = m /\ g.id = 0
    BY SMT, <1>1, <2>1, TaskShape DEF MarksFailure
  <2> QED BY <1>1, <2>2 DEF GoesOn
<1>2. CASE ~MarksFailure(kind)
  BY <1>2, NoTaskOK DEF AfterRemoval, GoesOn
<1> QED BY <1>1, <1>2

\* The handler after an addition goes on to the Kernel or ends.
LEMMA AfterAddingShape ==
    ASSUME Shapes, NEW t \in Tasks, task[t].pc \in {"adding", "added"}, NEW g,
           g = AfterAdding(t)
    PROVE  /\ TaskOK(g) /\ Posts(g, task[t].kind, task[t].msg)
           /\ g.msg = task[t].msg \/ g = NoTask
<1>0. TaskOK(task[t]) /\ task[t].msg \in Messages
  BY DEF Shapes, TaskOK
<1>1. CASE task[t].kind = "ingress"
  <2>1. g = [kind |-> "ingress", pc |-> "post", msg |-> task[t].msg, id |-> 0]
    BY <1>0, <1>1 DEF AfterAdding, TaskOK, IsTask
  <2>2. TaskOK(g) /\ g.kind = "ingress" /\ g.pc = "post" /\ g.msg = task[t].msg /\ g.id = 0
    BY SMT, <1>0, <2>1, TaskShape
  <2> QED BY <1>1, <2>2 DEF Posts
<1>2. CASE task[t].kind # "ingress"
  BY <1>2, NoTaskOK DEF AfterAdding, Posts
<1> QED BY <1>1, <1>2

\* A tracked reaction with another status.
LEMMA StatusShape ==
    ASSUME NEW r \in ReactionState, NEW s \in {"processing", "failed", "remove_pending"}, NEW q,
           q = [r EXCEPT !.status = s]
    PROVE  q \in ReactionState /\ q # Nothing /\ q.id = r.id /\ q.status = s
BY FeishuAssumption DEF ReactionState

\* removeTrackedReaction marks the entry or finds nothing to remove.
LEMMA RetractsEffect ==
    ASSUME Shapes, NEW t \in Tasks, NEW m \in Messages,
           NEW kind \in {"succeeded", "skipped", "failed", "refused"},
           removeTrackedReaction(t, kind, m)
    PROVE  \E g : /\ task' = [task EXCEPT ![t] = g] /\ TaskOK(g)
                  /\ g.msg = m \/ g = NoTask
                  /\ Retracts(m, g, kind)
                  /\ states' \in [Messages -> ReactionState \union {Nothing}]
                  /\ disk' = disk
                  /\ \A n \in Messages \ {m} : SameState(n)
<1>0. states \in [Messages -> ReactionState \union {Nothing}] /\ disk' = disk
  BY DEF Shapes, removeTrackedReaction
<1>1. CASE states[m] = Nothing \/ (states[m] # Nothing /\ states[m].status = "remove_pending")
  <2>1. PICK g : g = AfterRemoval(t, kind, m)
    OBVIOUS
  <2>2. TaskOK(g) /\ GoesOn(g, kind, m) /\ (g.msg = m \/ g = NoTask)
    BY SMT, <2>1, AfterRemovalShape
  <2>3. task' = [task EXCEPT ![t] = g] /\ states' = states
    BY <1>1, <2>1 DEF removeTrackedReaction
  <2> QED BY <1>0, <1>1, <2>2, <2>3 DEF Retracts, SameState
<1>2. CASE ~(states[m] = Nothing \/ (states[m] # Nothing /\ states[m].status = "remove_pending"))
  <2>0. states[m] \in ReactionState /\ states[m].status # "remove_pending" /\ states[m].id \in Nat
    BY <1>0, <1>2 DEF ReactionState
  <2>1. PICK g, q : /\ g = [kind |-> kind, pc |-> "removing", msg |-> m, id |-> states[m].id]
                    /\ q = [states[m] EXCEPT !.status = "remove_pending"]
    OBVIOUS
  <2>2. TaskOK(g) /\ g.kind = kind /\ g.pc = "removing" /\ g.msg = m /\ g.id = states[m].id
    BY SMT, <2>0, <2>1, TaskShape
  <2>3. q \in ReactionState /\ q # Nothing /\ q.id = states[m].id /\ q.status = "remove_pending"
    BY SMT, <2>0, <2>1, StatusShape
  <2>4. task' = [task EXCEPT ![t] = g] /\ states' = [states EXCEPT ![m] = q]
    BY <1>2, <2>1 DEF removeTrackedReaction
  <2>5. /\ states' \in [Messages -> ReactionState \union {Nothing}]
        /\ states'[m] = q /\ \A n \in Messages \ {m} : SameState(n)
    BY <1>0, <2>3, <2>4 DEF SameState
  <2> QED BY <1>0, <1>2, <2>2, <2>3, <2>4, <2>5 DEF Retracts
<1> QED BY <1>1, <1>2

\* A handler's step keeps the shapes.
LEMMA HandlerShapes ==
    ASSUME Shapes, NEW t \in Tasks, NEW g, TaskOK(g), task' = [task EXCEPT ![t] = g],
           states' \in [Messages -> ReactionState \union {Nothing}],
           disk' \in [Messages -> ReactionState \union {Nothing}],
           shown' = [m \in Messages |-> shown'[m]],
           UNCHANGED <<sent, inFlight, stored, acked, crashes, expiries>>,
           kernel \subseteq kernel', kernel' \subseteq Messages,
           deliveries' \in [Messages -> Nat], adds' \in Nat, SameFailures \/ OneFailure
    PROVE  Shapes'
<1>1. task' = [u \in Tasks |-> task'[u]] /\ \A u \in Tasks : TaskOK(task'[u])
  BY TouchPoints
<1>2. failures' \in Nat
  BY SMT DEF Shapes, SameFailures, OneFailure
<1> QED BY <1>1, <1>2 DEF Shapes

\* What a change leaves alone in every handler's step.
LEMMA HandlerAt ==
    ASSUME Shapes, NEW t \in Tasks, task[t].pc # "free"
    PROVE  task[t].msg \in Messages /\ TaskOK(task[t]) /\ task[t].id \in Nat
BY DEF Shapes, TaskOK

\* The deletion takes effect.
LEMMA RemoveLandsChanges ==
    ASSUME Shapes, NEW t \in Tasks, RemoveLands(t)
    PROVE  Shapes' /\ \E m \in Messages : \E g : Change(m, t, g)
<1>1. PICK m \in Messages : m = task[t].msg
  BY HandlerAt DEF RemoveLands
<1>0. task[t].pc = "removing" /\ TaskOK(task[t])
  BY HandlerAt DEF RemoveLands
<1>2. PICK g : g = [task[t] EXCEPT !.pc = "removed"]
  OBVIOUS
<1>3. g = [kind |-> task[t].kind, pc |-> "removed", msg |-> m, id |-> task[t].id]
  BY <1>0, <1>1, <1>2 DEF TaskOK, IsTask
<1>4. TaskOK(g) /\ g.kind = task[t].kind /\ g.pc = "removed" /\ g.msg = m /\ g.id = task[t].id
  BY SMT, <1>0, <1>3, TaskShape DEF TaskOK
<1>5. task' = [task EXCEPT ![t] = g]
  BY <1>2 DEF RemoveLands
<1>6. /\ shown' = [n \in Messages |-> shown'[n]]
      /\ shown'[m] = {x \in shown[m] : x.id # task[t].id}
      /\ \A n \in Messages \ {m} : SameShown(n)
  BY <1>1 DEF RemoveLands, Shapes, SameShown
<1>7. UNCHANGED <<sent, inFlight, stored, request, kernel, acked, states, disk, adds,
                  deliveries, crashes, failures, expiries>>
  BY DEF RemoveLands, sendVars, faultVars
<1>8. Removes(m, t, g)
  BY <1>0, <1>1, <1>4, <1>6, <1>7 DEF Removes, SameFailures, SameCount, SameState, SameSend
<1>9. Shapes'
  BY <1>4, <1>5, <1>6, <1>7, HandlerShapes DEF Shapes, SameFailures
<1> QED BY <1>1, <1>4, <1>5, <1>6, <1>7, <1>8, <1>9
        DEF Change, SameState, SameCount, SameFailures

\* What the store was asked to write.
LEMMA SaveShape ==
    ASSUME Shapes, NEW m \in Messages, NEW r \in ReactionState \union {Nothing}, save(m, r)
    PROVE  /\ disk' \in [Messages -> ReactionState \union {Nothing}]
           /\ SameFailures \/ OneFailure
BY DEF Shapes, save, Fail, SameFailures, OneFailure

\* The deletion is answered.
LEMMA RemovedChanges ==
    ASSUME Shapes, NEW t \in Tasks, Removed(t)
    PROVE  Shapes' /\ \E m \in Messages : \E g : Change(m, t, g)
<1>1. PICK m \in Messages : m = task[t].msg
  BY HandlerAt DEF Removed
<1>0. task[t].pc = "removed" /\ task[t].kind \in {"succeeded", "skipped", "failed", "refused"}
  BY HandlerAt DEF Removed, TaskOK
<1>2. PICK g : g = AfterRemoval(t, task[t].kind, m)
  OBVIOUS
<1>3. TaskOK(g) /\ GoesOn(g, task[t].kind, m) /\ (g.msg = m \/ g = NoTask)
  BY SMT, <1>0, <1>2, AfterRemovalShape
<1>4. task' = [task EXCEPT ![t] = g] /\ states' = [states EXCEPT ![m] = Nothing]
      /\ save(m, Nothing)
  BY <1>1, <1>2 DEF Removed
<1>5. /\ states' \in [Messages -> ReactionState \union {Nothing}] /\ states'[m] = Nothing
      /\ \A n \in Messages \ {m} : SameState(n)
  BY <1>4 DEF Shapes, SameState
<1>6. disk' \in [Messages -> ReactionState \union {Nothing}] /\ (SameFailures \/ OneFailure)
  BY <1>4, SaveShape
<1>7. UNCHANGED <<sent, inFlight, stored, request, kernel, acked, shown, adds,
                  deliveries, crashes, expiries>>
  BY DEF Removed, sendVars
<1>8. Forgets(m, t, g)
  BY <1>0, <1>1, <1>3, <1>5, <1>6, <1>7 DEF Forgets, SameShown, SameCount, SameSend
<1>9. Shapes'
  BY SMT, <1>3, <1>4, <1>5, <1>6, <1>7, HandlerShapes DEF Shapes
<1> QED BY <1>1, <1>3, <1>4, <1>5, <1>6, <1>7, <1>8, <1>9 DEF Change, SameShown, SameCount

\* The deletion fails.
LEMMA RemoveFailsChanges ==
    ASSUME Shapes, NEW t \in Tasks, RemoveFails(t)
    PROVE  Shapes' /\ \E m \in Messages : \E g : Change(m, t, g)
<1>1. PICK m \in Messages : m = task[t].msg
  BY HandlerAt DEF RemoveFails
<1>0. /\ task[t].pc \in {"removing", "removed"} /\ OneFailure
      /\ task[t].kind \in {"succeeded", "skipped", "failed", "refused"}
  BY HandlerAt DEF RemoveFails, TaskOK, Fail, OneFailure
<1>2. PICK g : g = AfterRemoval(t, task[t].kind, m)
  OBVIOUS
<1>3. TaskOK(g) /\ GoesOn(g, task[t].kind, m) /\ (g.msg = m \/ g = NoTask)
  BY SMT, <1>0, <1>2, AfterRemovalShape
<1>4. PICK s \in {"processing", "failed"} :
         s = IF MarksFailure(task[t].kind) THEN "failed" ELSE "processing"
  OBVIOUS
<1>5. PICK q : q = IF states[m] # Nothing
                   THEN IF states[m].id = task[t].id THEN [states[m] EXCEPT !.status = s]
                        ELSE states[m]
                   ELSE states[m]
  OBVIOUS
<1>6. q \in ReactionState \union {Nothing}
  <2>1. states[m] \in ReactionState \union {Nothing}
    BY DEF Shapes
  <2> QED BY SMT, <1>5, <2>1, StatusShape
<1>7. task' = [task EXCEPT ![t] = g] /\ states' = [states EXCEPT ![m] = q]
  BY <1>1, <1>2, <1>4, <1>5 DEF RemoveFails, Shapes
<1>8. /\ states' \in [Messages -> ReactionState \union {Nothing}]
      /\ \A n \in Messages \ {m} : SameState(n)
  BY <1>6, <1>7 DEF Shapes, SameState
<1>9. UNCHANGED <<sent, inFlight, stored, request, kernel, acked, shown, disk, adds,
                  deliveries, crashes, expiries>>
  BY DEF RemoveFails, sendVars
<1>10. Keeps(m, t, g)
  BY <1>0, <1>1, <1>3, <1>9 DEF Keeps, SameShown, SameCount, SameSend
<1>11. Shapes'
  BY <1>0, <1>3, <1>7, <1>8, <1>9, HandlerShapes DEF Shapes
<1> QED BY <1>0, <1>1, <1>3, <1>7, <1>8, <1>9, <1>10, <1>11 DEF Change, SameShown, SameCount

\* The creation takes effect.
LEMMA AddLandsChanges ==
    ASSUME Shapes, NEW t \in Tasks, AddLands(t)
    PROVE  Shapes' /\ \E m \in Messages : \E g : Change(m, t, g)
<1>1. PICK m \in Messages : m = task[t].msg
  BY HandlerAt DEF AddLands
<1>0. task[t].pc = "adding" /\ TaskOK(task[t]) /\ adds \in Nat
  BY HandlerAt DEF AddLands, Shapes
<1>2. PICK g : g = [task[t] EXCEPT !.pc = "added", !.id = adds + 1]
  OBVIOUS
<1>3. g = [kind |-> task[t].kind, pc |-> "added", msg |-> m, id |-> adds + 1]
  BY <1>0, <1>1, <1>2 DEF TaskOK, IsTask
<1>4. TaskOK(g) /\ g.kind = task[t].kind /\ g.pc = "added" /\ g.msg = m /\ g.id = adds + 1
  BY SMT, <1>0, <1>3, TaskShape DEF TaskOK
<1>5. task' = [task EXCEPT ![t] = g]
  BY <1>2 DEF AddLands, Shapes
<1>6. PICK x : x = [id |-> adds + 1, emoji |-> Emoji(task[t].kind)]
  OBVIOUS
<1>7. x.id = g.id
  BY <1>4, <1>6
<1>8. /\ shown' = [n \in Messages |-> shown'[n]] /\ shown'[m] = shown[m] \union {x}
      /\ \A n \in Messages \ {m} : SameShown(n)
  BY <1>1, <1>6 DEF AddLands, Shapes, SameShown
<1>9. UNCHANGED <<sent, inFlight, stored, request, kernel, acked, states, disk,
                  deliveries, crashes, failures, expiries>> /\ adds' = adds + 1
  BY DEF AddLands, sendVars, faultVars
<1>10. Adds(m, t, g)
  BY <1>0, <1>1, <1>4, <1>7, <1>8, <1>9 DEF Adds, SameFailures, SameCount, SameState, SameSend
<1>11. Shapes'
  BY SMT, <1>0, <1>4, <1>5, <1>8, <1>9, HandlerShapes DEF Shapes, SameFailures
<1> QED BY <1>1, <1>4, <1>5, <1>8, <1>9, <1>10, <1>11
        DEF Change, SameState, SameCount, SameFailures

\* The creation is answered and tracked.
LEMMA AddedChanges ==
    ASSUME Shapes, NEW t \in Tasks, Added(t)
    PROVE  Shapes' /\ \E m \in Messages : \E g : Change(m, t, g)
<1>1. PICK m \in Messages : m = task[t].msg
  BY HandlerAt DEF Added
<1>0. task[t].pc = "added" /\ task[t].id \in Nat
  BY HandlerAt DEF Added
<1>2. PICK g : g = AfterAdding(t)
  OBVIOUS
<1>3. TaskOK(g) /\ Posts(g, task[t].kind, m) /\ (g.msg = m \/ g = NoTask)
  BY <1>0, <1>1, <1>2, AfterAddingShape
<1>4. PICK q : q = [id |-> task[t].id, status |-> Emoji(task[t].kind)]
  OBVIOUS
<1>5. q \in ReactionState /\ q # Nothing /\ q.id = task[t].id /\ q.status = Emoji(task[t].kind)
  <2>1. Emoji(task[t].kind) \in {"processing", "failed"}
    BY DEF Emoji
  <2> QED BY SMT, <1>0, <1>4, <2>1, FeishuAssumption DEF ReactionState
<1>6. /\ task' = [task EXCEPT ![t] = g] /\ states' = [states EXCEPT ![m] = q] /\ save(m, q)
  BY <1>1, <1>2, <1>4 DEF Added
<1>7. /\ states' \in [Messages -> ReactionState \union {Nothing}] /\ states'[m] = q
      /\ \A n \in Messages \ {m} : SameState(n)
  BY <1>5, <1>6 DEF Shapes, SameState
<1>8. disk' \in [Messages -> ReactionState \union {Nothing}] /\ (SameFailures \/ OneFailure)
  BY <1>5, <1>6, SaveShape
<1>9. UNCHANGED <<sent, inFlight, stored, request, kernel, acked, shown, adds,
                  deliveries, crashes, expiries>>
  BY DEF Added, sendVars
<1>10. Tracks(m, t, g)
  BY <1>0, <1>1, <1>3, <1>5, <1>7, <1>8, <1>9 DEF Tracks, SameShown, SameCount, SameSend
<1>11. Shapes'
  BY <1>3, <1>6, <1>7, <1>8, <1>9, HandlerShapes DEF Shapes
<1> QED BY <1>1, <1>3, <1>6, <1>7, <1>8, <1>9, <1>10, <1>11 DEF Change, SameShown, SameCount

\* The answer to the creation is lost and it is tried again.
LEMMA AddRetriedChanges ==
    ASSUME Shapes, NEW t \in Tasks, AddRetried(t)
    PROVE  Shapes' /\ \E m \in Messages : \E g : Change(m, t, g)
<1>1. PICK m \in Messages : m = task[t].msg
  BY HandlerAt DEF AddRetried
<1>0. task[t].pc = "added" /\ TaskOK(task[t])
  BY HandlerAt DEF AddRetried
<1>2. PICK g : g = [task[t] EXCEPT !.pc = "adding", !.id = 0]
  OBVIOUS
<1>3. g = [kind |-> task[t].kind, pc |-> "adding", msg |-> m, id |-> 0]
  BY <1>0, <1>1, <1>2 DEF TaskOK, IsTask
<1>4. TaskOK(g) /\ g.kind = task[t].kind /\ g.pc = "adding" /\ g.msg = m
  BY SMT, <1>0, <1>3, TaskShape DEF TaskOK
<1>5. task' = [task EXCEPT ![t] = g]
  BY <1>2 DEF AddRetried, Shapes
<1>6. UNCHANGED <<sent, inFlight, stored, request, kernel, acked, shown, states, disk, adds,
                  deliveries, crashes, expiries>> /\ OneFailure
  BY DEF AddRetried, sendVars, Fail, OneFailure
<1>7. Retries(m, t, g)
  BY <1>0, <1>1, <1>4, <1>6 DEF Retries, SameShown, SameCount, SameState, SameSend
<1>8. Shapes'
  BY <1>4, <1>5, <1>6, HandlerShapes DEF Shapes
<1> QED BY <1>1, <1>4, <1>5, <1>6, <1>7, <1>8 DEF Change, SameShown, SameState, SameCount

\* The creation is given up.
LEMMA AddFailsChanges ==
    ASSUME Shapes, NEW t \in Tasks, AddFails(t)
    PROVE  Shapes' /\ \E m \in Messages : \E g : Change(m, t, g)
<1>1. PICK m \in Messages : m = task[t].msg
  BY HandlerAt DEF AddFails
<1>0. task[t].pc \in {"adding", "added"}
  BY DEF AddFails
<1>2. PICK g : g = AfterAdding(t)
  OBVIOUS
<1>3. TaskOK(g) /\ Posts(g, task[t].kind, m) /\ (g.msg = m \/ g = NoTask)
  BY <1>0, <1>1, <1>2, AfterAddingShape
<1>4. UNCHANGED <<sent, inFlight, stored, request, kernel, acked, shown, states, disk, adds,
                  deliveries, crashes, expiries>> /\ OneFailure /\ task' = [task EXCEPT ![t] = g]
  BY <1>2 DEF AddFails, sendVars, Fail, OneFailure
<1>5. GivesUp(m, t, g)
  BY <1>0, <1>1, <1>3, <1>4 DEF GivesUp, SameShown, SameCount, SameState, SameSend
<1>6. Shapes'
  BY <1>3, <1>4, HandlerShapes DEF Shapes
<1> QED BY <1>1, <1>3, <1>4, <1>5, <1>6 DEF Change, SameShown, SameState, SameCount

\* An event arrives at a free handler.
LEMMA DeliverChanges ==
    ASSUME Shapes, NEW m \in Messages, Deliver(m)
    PROVE  Shapes' /\ \E t \in Tasks : \E g : Change(m, t, g)
<1>1. PICK t \in Tasks : task[t].pc = "free" /\ markProcessing(t, m)
  BY DEF Deliver
<1>2. task[t] = NoTask
  BY <1>1 DEF Shapes, TaskOK
<1>3. PICK pc \in {"adding", "post"} : pc = IF states[m] = Nothing THEN "adding" ELSE "post"
  OBVIOUS
<1>4. PICK g : g = [kind |-> "ingress", pc |-> pc, msg |-> m, id |-> 0]
  OBVIOUS
<1>5. TaskOK(g) /\ g.kind = "ingress" /\ g.pc = pc /\ g.msg = m
  BY SMT, <1>4, TaskShape
<1>6. task' = [task EXCEPT ![t] = g]
  BY <1>1, <1>3, <1>4 DEF markProcessing, Arriving
<1>7. /\ deliveries' \in [Messages -> Nat] /\ deliveries'[m] = deliveries[m] + 1
      /\ \A n \in Messages \ {m} : SameCount(n)
  BY SMT DEF Deliver, Shapes, SameCount
<1>8. UNCHANGED <<sent, inFlight, stored, request, kernel, acked, shown, states, disk, adds,
                  crashes, failures, expiries>>
  BY DEF Deliver, sendVars
<1>9. Arrives(m, t, g)
  BY <1>2, <1>3, <1>5, <1>7, <1>8 DEF Arrives, SameShown, SameState, SameSend, SameFailures
<1>10. Shapes'
  BY <1>5, <1>6, <1>7, <1>8, HandlerShapes DEF Shapes, SameFailures
<1> QED BY <1>2, <1>5, <1>6, <1>7, <1>8, <1>9, <1>10
        DEF Change, SameShown, SameState, SameFailures

\* The Kernel accepts the message, or its answer is lost.
LEMMA IngressEntersChanges ==
    ASSUME Shapes, NEW t \in Tasks, IngressAccepted(t) \/ IngressUnanswered(t)
    PROVE  Shapes' /\ \E m \in Messages : \E g : Change(m, t, g)
<1>1. PICK m \in Messages : m = task[t].msg
  BY HandlerAt DEF IngressAccepted, IngressUnanswered
<1>2. /\ task[t].pc = "post" /\ task' = [task EXCEPT ![t] = NoTask]
      /\ UNCHANGED <<sent, inFlight, stored, request, acked, shown, states, disk, adds,
                     deliveries, crashes, expiries>>
      /\ kernel' \in {kernel, kernel \union {m}}
      /\ \/ SameFailures /\ kernel' = kernel \union {m}
         \/ OneFailure
  BY <1>1 DEF IngressAccepted, IngressUnanswered, faultVars, Fail, SameFailures, OneFailure
<1>3. Enters(m, t, NoTask)
  BY <1>1, <1>2 DEF Enters, SameShown, SameCount, SameState
<1>4. kernel \subseteq kernel' /\ kernel' \subseteq Messages
  BY <1>2 DEF Shapes
<1>5. Shapes'
  BY <1>2, <1>4, NoTaskOK, HandlerShapes DEF Shapes
<1>6. Change(m, t, NoTask)
  BY <1>1, <1>2, <1>3, NoTaskOK DEF Change, SameShown, SameState, SameCount
<1> QED BY <1>5, <1>6

\* The Kernel skips or refuses the message.
LEMMA IngressClearsChanges ==
    ASSUME Shapes, NEW t \in Tasks, IngressSkipped(t) \/ IngressRefused(t)
    PROVE  Shapes' /\ \E m \in Messages : \E g : Change(m, t, g)
<1>1. PICK m \in Messages : m = task[t].msg
  BY HandlerAt DEF IngressSkipped, IngressRefused
<1>2. PICK kind \in {"skipped", "refused"} :
         /\ task[t].pc = "post" /\ removeTrackedReaction(t, kind, m)
         /\ UNCHANGED <<sent, inFlight, stored, request, kernel, acked, shown, adds,
                        deliveries, crashes, expiries>>
         /\ \/ kind = "skipped" /\ SameFailures
            \/ kind = "refused" /\ OneFailure
  BY <1>1 DEF IngressSkipped, IngressRefused, sendVars, faultVars, Fail, SameFailures, OneFailure
<1>3. PICK g : /\ task' = [task EXCEPT ![t] = g] /\ TaskOK(g)
               /\ g.msg = m \/ g = NoTask
               /\ Retracts(m, g, kind)
               /\ states' \in [Messages -> ReactionState \union {Nothing}]
               /\ disk' = disk
               /\ \A n \in Messages \ {m} : SameState(n)
  BY SMT, <1>2, RetractsEffect
<1>4. Clears(m, t, g)
  BY <1>1, <1>2, <1>3 DEF Clears, SameShown, SameCount, SameSend
<1>5. Shapes'
  BY <1>2, <1>3, HandlerShapes DEF Shapes
<1> QED BY <1>1, <1>2, <1>3, <1>4, <1>5 DEF Change, SameShown, SameCount

\* A send ends: stored, not stored, or rejected.
LEMMA SendEndsChanges ==
    ASSUME Shapes, NEW m \in Messages, SendSucceeds(m) \/ StoreFails(m) \/ SendRejects(m)
    PROVE  Shapes' /\ \E t \in Tasks : \E g : Change(m, t, g)
<1>1. PICK kind \in {"succeeded", "failed"}, t \in Tasks, w \in {"none", "rejecting"} :
         /\ task[t].pc = "free" /\ removeTrackedReaction(t, kind, m)
         /\ inFlight' = [inFlight EXCEPT ![m] = w]
         /\ UNCHANGED <<sent, kernel, shown, adds, deliveries, crashes, expiries>>
         /\ stored' \in {stored, stored \union {m}} /\ acked' \in {acked, acked \union {m}}
         /\ \/ inFlight[m] = "landed" /\ w = "none" /\ kind = "succeeded" /\ SameFailures
            \/ inFlight[m] = "landed" /\ w = "rejecting" /\ kind = "succeeded" /\ OneFailure
            \/ inFlight[m] = "rejecting" /\ w = "none" /\ kind = "failed" /\ SameFailures
            \/ /\ inFlight[m] \in {"sending", "landed"} /\ w = "none" /\ kind = "failed"
               /\ OneFailure
  BY DEF SendSucceeds, StoreFails, SendRejects, Heard, faultVars, Fail, SameFailures, OneFailure
<1>2. task[t] = NoTask
  BY <1>1 DEF Shapes, TaskOK
<1>3. PICK g : /\ task' = [task EXCEPT ![t] = g] /\ TaskOK(g)
               /\ g.msg = m \/ g = NoTask
               /\ Retracts(m, g, kind)
               /\ states' \in [Messages -> ReactionState \union {Nothing}]
               /\ disk' = disk
               /\ \A n \in Messages \ {m} : SameState(n)
  BY SMT, <1>1, RetractsEffect
<1>4. /\ inFlight'[m] = w /\ \A n \in Messages \ {m} : inFlight'[n] = inFlight[n]
      /\ inFlight' \in [Messages -> {"none", "sending", "landed", "rejecting"}]
      /\ m \in kernel
  BY <1>1 DEF Shapes
<1>5. Concludes(m, t, g)
  BY <1>1, <1>2, <1>3, <1>4 DEF Concludes, SameShown, SameCount
<1>6. Shapes'
  <2>1. task' = [u \in Tasks |-> task'[u]] /\ \A u \in Tasks : TaskOK(task'[u])
    BY <1>3, TouchPoints
  <2>2. failures' \in Nat
    BY SMT, <1>1 DEF Shapes, SameFailures, OneFailure
  <2>3. /\ kernel' \subseteq Messages /\ acked' \subseteq kernel' /\ stored' \subseteq kernel'
        /\ \A n \in Messages : inFlight'[n] # "none" => n \in kernel'
    BY <1>1, <1>4 DEF Shapes
  <2> QED BY <1>1, <1>3, <1>4, <2>1, <2>2, <2>3 DEF Shapes
<1>7. \A n \in Messages \ {m} : /\ n \in kernel' <=> n \in kernel
                                /\ n \in acked' <=> n \in acked
                                /\ n \in stored' <=> n \in stored
  BY <1>1
<1>8. SameFailures \/ OneFailure
  BY <1>1
<1> QED BY <1>1, <1>2, <1>3, <1>4, <1>5, <1>6, <1>7, <1>8 DEF Change, SameShown, SameCount

\* A step that concerns no reaction.
Quiet ==
    /\ UNCHANGED <<task, shown, states, deliveries, failures, crashes, kernel>>
    /\ \A m \in Messages : inFlight'[m] = "rejecting" <=> inFlight[m] = "rejecting"
    /\ stored' \subseteq stored /\ acked' \subseteq acked \union stored

\* Polling, landing and expiry touch no reaction.
LEMMA QuietSteps ==
    ASSUME Shapes,
           \/ \E r \in Requests : Execute(r)
           \/ \E m \in Messages : SendLands(m) \/ Expire(m)
           \/ UNCHANGED vars
    PROVE  Shapes' /\ Quiet
<1>1. ASSUME NEW r \in Requests, Execute(r) PROVE Shapes' /\ Quiet
  <2>1. PICK m \in kernel \ acked : execute(r, m)
    BY <1>1 DEF Execute
  <2>2. m \in Messages
    BY <2>1 DEF Shapes
  <2>3. UNCHANGED <<task, shown, states, disk, adds, deliveries, failures, crashes, expiries,
                    kernel, sent, stored>>
    BY <1>1 DEF Execute, reactionVars, faultVars
  <2>4. /\ inFlight' \in [Messages -> {"none", "sending", "landed", "rejecting"}]
        /\ \A n \in Messages : inFlight'[n] = "rejecting" <=> inFlight[n] = "rejecting"
        /\ \A n \in Messages : inFlight'[n] # "none" => n \in kernel
        /\ acked' \subseteq kernel /\ acked' \subseteq acked \union stored
    BY <2>1, <2>2 DEF execute, Heard, Shapes
  <2> QED BY <2>3, <2>4 DEF Shapes, Quiet
<1>2. ASSUME NEW m \in Messages, SendLands(m) PROVE Shapes' /\ Quiet
  <2>1. UNCHANGED <<task, shown, states, disk, adds, deliveries, failures, crashes, expiries,
                    kernel, acked, stored>>
    BY <1>2 DEF SendLands, reactionVars, faultVars
  <2>2. /\ inFlight' \in [Messages -> {"none", "sending", "landed", "rejecting"}]
        /\ \A n \in Messages : inFlight'[n] = "rejecting" <=> inFlight[n] = "rejecting"
        /\ \A n \in Messages : inFlight'[n] # "none" => n \in kernel
        /\ sent' \in [Messages -> Nat]
    BY SMT, <1>2 DEF SendLands, Shapes
  <2> QED BY <2>1, <2>2 DEF Shapes, Quiet
<1>3. ASSUME NEW m \in Messages, Expire(m) PROVE Shapes' /\ Quiet
  BY SMT, <1>3 DEF Expire, Shapes, Quiet, reactionVars
<1>4. CASE UNCHANGED vars
  BY <1>4 DEF Shapes, Quiet, vars, sendVars, reactionVars, faultVars
<1> QED BY <1>1, <1>2, <1>3, <1>4

\* A restart reloads well-shaped entries.
LEMMA RestartShapes ==
    ASSUME Shapes, Restart
    PROVE  Shapes' /\ crashes' # 0
<1>1. /\ task' = [t \in Tasks |-> task'[t]] /\ \A t \in Tasks : TaskOK(task'[t])
      /\ states' = disk /\ \A m \in Messages : inFlight'[m] = "none"
  BY NoTaskOK DEF Restart, loadStates
<1> QED BY SMT, <1>1 DEF Restart, Shapes

\* Every step is quiet, a restart, or a change of one message and one handler.
LEMMA StepsChange ==
    ASSUME Shapes, [Next]_vars
    PROVE  /\ Shapes'
           /\ Quiet \/ Restart \/ \E m \in Messages, t \in Tasks : \E g : Change(m, t, g)
<1>1. ASSUME NEW m \in Messages, Deliver(m) \/ SendSucceeds(m) \/ StoreFails(m) \/ SendRejects(m)
      PROVE  Shapes' /\ \E t \in Tasks : \E g : Change(m, t, g)
  BY <1>1, DeliverChanges, SendEndsChanges
<1>2. ASSUME NEW t \in Tasks,
             \/ RemoveLands(t) \/ Removed(t) \/ RemoveFails(t)
             \/ AddLands(t) \/ Added(t) \/ AddRetried(t) \/ AddFails(t)
      PROVE  Shapes' /\ \E m \in Messages : \E g : Change(m, t, g)
  BY <1>2, RemoveLandsChanges, RemovedChanges, RemoveFailsChanges, AddLandsChanges,
     AddedChanges, AddRetriedChanges, AddFailsChanges
<1>3. ASSUME NEW t \in Tasks,
             IngressAccepted(t) \/ IngressSkipped(t) \/ IngressRefused(t) \/ IngressUnanswered(t)
      PROVE  Shapes' /\ \E m \in Messages : \E g : Change(m, t, g)
  BY <1>3, IngressEntersChanges, IngressClearsChanges
<1> QED BY <1>1, <1>2, <1>3, QuietSteps, RestartShapes DEF Next

\* The initial state is well shaped.
LEMMA ShapesInit == Init => Shapes
<1> SUFFICES ASSUME Init PROVE Shapes
  OBVIOUS
<1>1. task = [t \in Tasks |-> task[t]] /\ \A t \in Tasks : TaskOK(task[t])
  BY NoTaskOK DEF Init
<1> QED BY <1>1 DEF Init, Shapes

-----------------------------------------------------------------------------
(* Replies. *)

\* A reply that left and has no record was lost to a fault.
SendInv ==
    \A m \in Messages :
       /\ m \in stored => inFlight[m] = "none"
       /\ sent[m] <= 1 + crashes + failures + expiries
       /\ m \notin stored /\ inFlight[m] # "landed" => sent[m] <= crashes + failures + expiries

\* Where nothing leaves and faults only grow, the account stays.
LEMMA SendStays ==
    ASSUME Shapes, SendInv, UNCHANGED <<sent, inFlight, stored, expiries>>,
           crashes' \in Nat, failures' \in Nat, crashes <= crashes', failures <= failures'
    PROVE  SendInv'
BY SMT DEF Shapes, SendInv

\* Every step keeps the count of sends within the faults.
LEMMA SendInvStep ==
    ASSUME Shapes, SendInv, [Next]_vars
    PROVE  SendInv'
<1>0. Shapes'
  BY StepsChange
<1>1. ASSUME UNCHANGED <<sent, inFlight, stored, expiries, crashes>>,
             failures' = failures \/ failures' = failures + 1
      PROVE  SendInv'
  <2>1. failures <= failures' /\ crashes <= crashes' /\ crashes' \in Nat /\ failures' \in Nat
    BY SMT, <1>0, <1>1 DEF Shapes
  <2> QED BY <1>1, <2>1, SendStays
<1>2. ASSUME NEW m \in Messages, Deliver(m) PROVE SendInv'
  BY <1>1, <1>2 DEF Deliver, sendVars
<1>3. ASSUME NEW t \in Tasks,
             \/ RemoveLands(t) \/ Removed(t) \/ RemoveFails(t)
             \/ AddLands(t) \/ Added(t) \/ AddRetried(t) \/ AddFails(t)
             \/ IngressAccepted(t) \/ IngressSkipped(t) \/ IngressRefused(t) \/ IngressUnanswered(t)
      PROVE  SendInv'
  <2>1. /\ UNCHANGED <<sent, inFlight, stored, expiries, crashes>>
        /\ failures' = failures \/ failures' = failures + 1
    BY <1>3 DEF RemoveLands, Removed, RemoveFails, AddLands, Added, AddRetried, AddFails,
       IngressAccepted, IngressSkipped, IngressRefused, IngressUnanswered, sendVars, faultVars,
       save, Fail
  <2> QED BY <1>1, <2>1
<1>4. ASSUME NEW r \in Requests, Execute(r) PROVE SendInv'
  <2>1. PICK m \in kernel \ acked : execute(r, m)
    BY <1>4 DEF Execute
  <2>2. m \in Messages
    BY <2>1 DEF Shapes
  <2>3. UNCHANGED <<sent, stored, crashes, failures, expiries>>
    BY <1>4 DEF Execute, faultVars
  <2>4. \A n \in Messages : \/ inFlight'[n] = inFlight[n]
                            \/ n \notin stored /\ inFlight[n] = "none" /\ inFlight'[n] = "sending"
    BY <2>1, <2>2 DEF execute, Shapes
  <2> QED BY <2>3, <2>4 DEF SendInv
<1>5. ASSUME NEW m \in Messages, SendLands(m) PROVE SendInv'
  <2>1. /\ inFlight[m] = "sending" /\ inFlight'[m] = "landed" /\ sent'[m] = sent[m] + 1
        /\ \A n \in Messages \ {m} : inFlight'[n] = inFlight[n] /\ sent'[n] = sent[n]
        /\ UNCHANGED <<stored, crashes, failures, expiries>>
    BY <1>5 DEF SendLands, faultVars, Shapes
  <2>2. sent[m] <= crashes + failures + expiries /\ m \notin stored
    BY <2>1 DEF SendInv
  <2>3. sent'[m] <= 1 + crashes + failures + expiries
    BY SMT, <2>1, <2>2 DEF Shapes
  <2> QED BY <2>1, <2>2, <2>3 DEF SendInv
<1>6. ASSUME NEW m \in Messages, SendSucceeds(m) PROVE SendInv'
  <2>1. /\ inFlight[m] = "landed" /\ inFlight'[m] = "none" /\ stored' = stored \union {m}
        /\ \A n \in Messages \ {m} : inFlight'[n] = inFlight[n]
        /\ UNCHANGED <<sent, crashes, failures, expiries>>
    BY <1>6 DEF SendSucceeds, faultVars, Shapes
  <2> QED BY <2>1 DEF SendInv
<1>7. ASSUME NEW m \in Messages, StoreFails(m) \/ SendRejects(m) PROVE SendInv'
  <2>1. /\ inFlight[m] # "none" /\ inFlight'[m] # "landed"
        /\ \A n \in Messages \ {m} : inFlight'[n] = inFlight[n]
        /\ UNCHANGED <<sent, stored, crashes, expiries>>
        /\ \/ failures' = failures /\ inFlight[m] = "rejecting"
           \/ failures' = failures + 1
    BY <1>7 DEF StoreFails, SendRejects, Fail, Shapes
  <2>2. m \notin stored
    BY <2>1 DEF SendInv
  <2>3. sent'[m] <= crashes' + failures' + expiries'
    BY SMT, <2>1, <2>2 DEF SendInv, Shapes
  <2>4. \A n \in Messages : sent[n] <= 1 + crashes + failures' + expiries
    BY SMT, <2>1 DEF SendInv, Shapes
  <2>5. \A n \in Messages \ {m} : n \notin stored /\ inFlight[n] # "landed"
                                     => sent[n] <= crashes + failures' + expiries
    BY SMT, <2>1 DEF SendInv, Shapes
  <2> QED BY <2>1, <2>2, <2>3, <2>4, <2>5 DEF SendInv
<1>8. ASSUME NEW m \in Messages, Expire(m) PROVE SendInv'
  <2>1. /\ m \in stored /\ stored' = stored \ {m} /\ expiries' = expiries + 1
        /\ UNCHANGED <<sent, inFlight, crashes, failures>>
    BY <1>8 DEF Expire
  <2> QED BY SMT, <2>1 DEF SendInv, Shapes
<1>9. CASE Restart
  <2>1. /\ crashes' = crashes + 1 /\ UNCHANGED <<sent, stored, failures, expiries>>
        /\ \A m \in Messages : inFlight'[m] = "none"
    BY <1>9 DEF Restart
  <2> QED BY SMT, <2>1 DEF SendInv, Shapes
<1>10. CASE UNCHANGED vars
  BY <1>1, <1>10 DEF vars, sendVars, faultVars
<1> QED BY <1>2, <1>3, <1>4, <1>5, <1>6, <1>7, <1>8, <1>9, <1>10 DEF Next

\* A reply goes out again only for a restart, a failure or an expiry, whatever
\* the number of requests that ask for it at once.
THEOREM RepliesAreSentOnce == Spec => []SentOncePerFault
<1>1. Init => SendInv
  BY SMT DEF Init, SendInv
<1>2. SendInv => SentOncePerFault
  BY DEF SendInv, SentOncePerFault
<1>3. Shapes /\ SendInv /\ [Next]_vars => Shapes' /\ SendInv'
  BY StepsChange, SendInvStep
<1> QED BY <1>1, <1>2, <1>3, ShapesInit, PTL DEF Spec

-----------------------------------------------------------------------------
(* Reactions nobody will remove. *)

\* Handlers that have a reaction to add.
Pending(g, m) ==
    /\ g.msg = m
    /\ g.pc = "adding" \/ (g.pc \in {"removing", "removed"} /\ MarksFailure(g.kind))
Pend(m) == {t \in Tasks : Pending(task[t], m)}
Rejecting(m) == IF inFlight[m] = "rejecting" THEN 1 ELSE 0

\* What is shown or will be, and what has been spent on it: one event or one
\* failure for each reaction.
Load(m) == Cardinality(shown[m]) + Cardinality(Pend(m)) + Rejecting(m)
Budget(m) == deliveries[m] + failures
HasId(S, i) == \E x \in S : x.id = i

\* Nothing has been lost or removed so far: the shown reactions are known.
Neat(m) ==
    /\ \A t \in Tasks : task[t].msg = m =>
          /\ task[t].pc # "removed"
          /\ task[t].pc \in {"added", "removing"} => HasId(shown[m], task[t].id)
    /\ states[m] # Nothing => HasId(shown[m], states[m].id)
    /\ shown[m] # {} => \/ states[m] # Nothing
                        \/ \E t \in Tasks : task[t].msg = m /\ task[t].pc = "added"
                        \/ Pend(m) # {} \/ inFlight[m] = "rejecting"
Account(m) ==
    /\ IsFiniteSet(shown[m]) /\ IsFiniteSet(Pend(m))
    /\ Load(m) <= Budget(m)
    /\ crashes = 0 => Load(m) + 1 <= Budget(m) \/ Neat(m)
StrayInv == \A m \in Messages : Account(m)

\* Cardinalities of a set and of one that is smaller, or larger by one.
LEMMA CardSub ==
    ASSUME NEW S, IsFiniteSet(S), NEW T, T \subseteq S
    PROVE  IsFiniteSet(T) /\ Cardinality(T) \in Nat /\ Cardinality(S) \in Nat
           /\ Cardinality(T) <= Cardinality(S)
BY FS_Subset, FS_CardinalityType

\* A set with one more member.
LEMMA CardAdd ==
    ASSUME NEW S, IsFiniteSet(S), NEW x, NEW T, T \subseteq S \union {x}
    PROVE  IsFiniteSet(T) /\ Cardinality(T) \in Nat /\ Cardinality(S) \in Nat
           /\ Cardinality(T) <= Cardinality(S) + 1
<1>1. /\ IsFiniteSet(S \union {x}) /\ Cardinality(S) \in Nat
      /\ Cardinality(S \union {x}) <= Cardinality(S) + 1
  <2>1. Cardinality(S) \in Nat
    BY FS_CardinalityType
  <2>2. /\ IsFiniteSet(S \union {x})
        /\ Cardinality(S \union {x}) = IF x \in S THEN Cardinality(S) ELSE Cardinality(S) + 1
    BY FS_AddElement
  <2> QED BY SMT, <2>1, <2>2
<1>2. /\ IsFiniteSet(T) /\ Cardinality(T) \in Nat /\ Cardinality(S \union {x}) \in Nat
      /\ Cardinality(T) <= Cardinality(S \union {x})
  BY <1>1, CardSub
<1> QED BY SMT, <1>1, <1>2

\* A set that lacks a member.
LEMMA CardLess ==
    ASSUME NEW S, IsFiniteSet(S), NEW x \in S, NEW T, T \subseteq S \ {x}
    PROVE  IsFiniteSet(T) /\ Cardinality(T) \in Nat /\ Cardinality(S) \in Nat
           /\ Cardinality(T) + 1 <= Cardinality(S)
<1>1. /\ IsFiniteSet(S \ {x}) /\ Cardinality(S) \in Nat
      /\ Cardinality(S \ {x}) = Cardinality(S) - 1
  BY FS_RemoveElement, FS_CardinalityType
<1>2. /\ IsFiniteSet(T) /\ Cardinality(T) \in Nat /\ Cardinality(S \ {x}) \in Nat
      /\ Cardinality(T) <= Cardinality(S \ {x})
  BY <1>1, CardSub
<1> QED BY SMT, <1>1, <1>2

\* One handler changes: so does the number of pending ones, by at most one.
LEMMA PendMoves ==
    ASSUME Shapes, NEW m, NEW t \in Tasks, NEW g, TaskOK(g), task' = [task EXCEPT ![t] = g],
           IsFiniteSet(Pend(m))
    PROVE  /\ IsFiniteSet(Pend(m)') /\ Cardinality(Pend(m)') \in Nat /\ Cardinality(Pend(m)) \in Nat
           /\ Cardinality(Pend(m)') <= Cardinality(Pend(m)) + 1
           /\ ~Pending(g, m) => Cardinality(Pend(m)') <= Cardinality(Pend(m))
           /\ Pending(task[t], m) => Cardinality(Pend(m)') <= Cardinality(Pend(m))
           /\ Pending(task[t], m) /\ ~Pending(g, m)
                => Cardinality(Pend(m)') + 1 <= Cardinality(Pend(m))
           /\ Pending(g, m) => Pend(m)' # {}
<1>1. task'[t] = g /\ \A u \in Tasks \ {t} : task'[u] = task[u]
  BY TouchPoints
<1>2. Pend(m)' \subseteq Pend(m) \union {t}
  BY <1>1 DEF Pend
<1>3. ~Pending(g, m) => Pend(m)' \subseteq Pend(m) \ {t}
  BY <1>1 DEF Pend
<1>4. Pending(task[t], m) => t \in Pend(m) /\ Pend(m)' \subseteq Pend(m)
  BY <1>1 DEF Pend
<1>5. Pending(g, m) => Pend(m)' # {}
  BY <1>1 DEF Pend
<1>6. PICK P, Q : P = Pend(m) /\ Q = Pend(m)'
  OBVIOUS
<1>7. /\ IsFiniteSet(P) /\ Q \subseteq P \union {t}
      /\ ~Pending(g, m) => Q \subseteq P \ {t}
      /\ Pending(task[t], m) => t \in P /\ Q \subseteq P
  BY <1>2, <1>3, <1>4, <1>6
<1>8. /\ IsFiniteSet(Q) /\ Cardinality(Q) \in Nat /\ Cardinality(P) \in Nat
      /\ Cardinality(Q) <= Cardinality(P) + 1
  BY <1>7, CardAdd
<1>9. ~Pending(g, m) => Cardinality(Q) <= Cardinality(P)
  BY <1>7, CardSub
<1>10. Pending(task[t], m) => Cardinality(Q) <= Cardinality(P)
  BY <1>7, CardSub
<1>11. Pending(task[t], m) /\ ~Pending(g, m) => Cardinality(Q) + 1 <= Cardinality(P)
  BY <1>7, CardLess
<1> QED BY <1>5, <1>6, <1>8, <1>9, <1>10, <1>11

\* The numbers are natural.
LEMMA LoadType ==
    ASSUME Shapes, NEW m \in Messages, IsFiniteSet(shown[m]), IsFiniteSet(Pend(m))
    PROVE  /\ Load(m) \in Nat /\ Budget(m) \in Nat /\ Rejecting(m) \in Nat
           /\ Cardinality(shown[m]) \in Nat /\ Cardinality(Pend(m)) \in Nat
BY SMT, FS_CardinalityType DEF Load, Budget, Rejecting, Shapes

\* A step that spends no more than it adds keeps the account.
LEMMA AccountEven ==
    ASSUME Shapes, Shapes', NEW m \in Messages, Account(m), UNCHANGED crashes,
           IsFiniteSet(shown'[m]), IsFiniteSet(Pend(m)'),
           NEW s \in Nat, Load(m)' <= Load(m) + s, Budget(m)' = Budget(m) + s,
           Neat(m) => Neat(m)'
    PROVE  Account(m)'
<1>1. Load(m) \in Nat /\ Budget(m) \in Nat
  BY LoadType DEF Account
<1>2. Load(m)' \in Nat /\ Budget(m)' \in Nat
  <2>1. Cardinality(shown'[m]) \in Nat /\ Cardinality(Pend(m)') \in Nat
    BY FS_CardinalityType
  <2>2. Rejecting(m)' \in Nat /\ Budget(m)' \in Nat
    BY SMT DEF Rejecting, Budget, Shapes
  <2> QED BY SMT, <2>1, <2>2 DEF Load
<1> QED BY SMT, <1>1, <1>2 DEF Account

\* A step that spends more than it adds leaves slack.
LEMMA AccountGains ==
    ASSUME Shapes, Shapes', NEW m \in Messages, Account(m),
           IsFiniteSet(shown'[m]), IsFiniteSet(Pend(m)'),
           NEW s \in Nat, Load(m)' + 1 <= Load(m) + s, Budget(m)' = Budget(m) + s
    PROVE  Account(m)'
<1>1. Load(m) \in Nat /\ Budget(m) \in Nat
  BY LoadType DEF Account
<1>2. Load(m)' \in Nat /\ Budget(m)' \in Nat
  <2>1. Cardinality(shown'[m]) \in Nat /\ Cardinality(Pend(m)') \in Nat
    BY FS_CardinalityType
  <2>2. Rejecting(m)' \in Nat /\ Budget(m)' \in Nat
    BY SMT DEF Rejecting, Budget, Shapes
  <2> QED BY SMT, <2>1, <2>2 DEF Load
<1> QED BY SMT, <1>1, <1>2 DEF Account

\* What keeps a message neat.
LEMMA NeatStep ==
    ASSUME Shapes, NEW m \in Messages, NEW t \in Tasks, NEW g, TaskOK(g),
           task' = [task EXCEPT ![t] = g], Neat(m),
           shown[m] \subseteq shown'[m],
           g.msg = m => /\ g.pc # "removed"
                        /\ g.pc \in {"added", "removing"} => HasId(shown'[m], g.id),
           states'[m] # Nothing => HasId(shown'[m], states'[m].id),
           \/ shown'[m] = {}
           \/ states'[m] # Nothing \/ Pending(g, m) \/ (g.msg = m /\ g.pc = "added")
           \/ inFlight'[m] = "rejecting"
           \/ shown'[m] = shown[m] /\ states'[m] = states[m] /\ ~Pending(task[t], m)
              /\ task[t].pc # "added" /\ inFlight[m] # "rejecting"
    PROVE  Neat(m)'
<1>1. task'[t] = g /\ \A u \in Tasks \ {t} : task'[u] = task[u]
  BY TouchPoints
<1>2. \A u \in Tasks : task'[u].msg = m =>
          /\ task'[u].pc # "removed"
          /\ task'[u].pc \in {"added", "removing"} => HasId(shown'[m], task'[u].id)
  BY SMT, <1>1 DEF Neat, HasId
<1>3. shown'[m] # {} => \/ states'[m] # Nothing
                        \/ \E u \in Tasks : task'[u].msg = m /\ task'[u].pc = "added"
                        \/ Pend(m)' # {} \/ inFlight'[m] = "rejecting"
  <2>1. Pending(g, m) => Pend(m)' # {}
    BY <1>1 DEF Pend
  <2>2. g.msg = m /\ g.pc = "added" => \E u \in Tasks : task'[u].msg = m /\ task'[u].pc = "added"
    BY <1>1
  <2>3. ASSUME shown[m] # {}, states[m] = Nothing, ~Pending(task[t], m),
               task[t].pc # "added", inFlight[m] # "rejecting"
        PROVE  (\E u \in Tasks : task'[u].msg = m /\ task'[u].pc = "added") \/ Pend(m)' # {}
    <3>1. \/ \E u \in Tasks \ {t} : task[u].msg = m /\ task[u].pc = "added"
          \/ \E u \in Tasks \ {t} : Pending(task[u], m)
      BY <2>3 DEF Neat, Pend
    <3> QED BY <1>1, <3>1 DEF Pend
  <2> QED BY <2>1, <2>2, <2>3
<1> QED BY <1>2, <1>3 DEF Neat

\* What a removal that begins, or need not, means for a neat message.
LEMMA RetractsNeat ==
    ASSUME Shapes, NEW m \in Messages, NEW g, TaskOK(g),
           NEW kind \in {"succeeded", "skipped", "failed", "refused"},
           Retracts(m, g, kind), SameShown(m)
    PROVE  /\ Pending(g, m) <=> MarksFailure(kind)
           /\ states[m] = Nothing <=> states'[m] = Nothing
           /\ Neat(m) => /\ g.msg = m => /\ g.pc # "removed"
                                         /\ g.pc \in {"added", "removing"} => HasId(shown'[m], g.id)
                         /\ states'[m] # Nothing => HasId(shown'[m], states'[m].id)
<1>1. NoTask.msg # m /\ NoTask.pc = "free"
  BY NoTaskOK, FeishuAssumption
<1>2. CASE GoesOn(g, kind, m) /\ SameState(m)
  <2>1. MarksFailure(kind) => g.pc = "adding" /\ g.msg = m
    BY <1>2 DEF GoesOn
  <2>2. ~MarksFailure(kind) => g = NoTask
    BY <1>2 DEF GoesOn
  <2> QED BY <1>1, <1>2, <2>1, <2>2 DEF Pending, SameState, SameShown, Neat
<1>3. CASE /\ states[m] # Nothing /\ states'[m] # Nothing /\ states'[m].id = states[m].id
           /\ g.kind = kind /\ g.pc = "removing" /\ g.msg = m /\ g.id = states[m].id
  BY <1>3 DEF Pending, SameShown, Neat
<1> QED BY <1>2, <1>3 DEF Retracts

\* The message a change is about.
LEMMA ChangedAccount ==
    ASSUME Shapes, Shapes', NEW m \in Messages, NEW t \in Tasks, NEW g, Change(m, t, g),
           Account(m)
    PROVE  Account(m)'
<1> DEFINE f == task[t]
           c == Cardinality(shown[m])
           p == Cardinality(Pend(m))
           c1 == Cardinality(shown'[m])
           p1 == Cardinality(Pend(m)')
<1>0. /\ task' = [task EXCEPT ![t] = g] /\ TaskOK(g) /\ UNCHANGED crashes
      /\ IsFiniteSet(shown[m]) /\ IsFiniteSet(Pend(m))
      /\ NoTask.msg # m /\ NoTask.pc = "free"
  BY NoTaskOK, FeishuAssumption DEF Change, Account
<1>1. /\ IsFiniteSet(Pend(m)') /\ p \in Nat /\ p1 \in Nat /\ p1 <= p + 1
      /\ ~Pending(g, m) => p1 <= p
      /\ Pending(f, m) => p1 <= p
      /\ Pending(f, m) /\ ~Pending(g, m) => p1 + 1 <= p
      /\ Pending(g, m) => Pend(m)' # {}
  BY <1>0, PendMoves
<1>2. /\ c \in Nat /\ Rejecting(m) \in Nat /\ Rejecting(m)' \in Nat
      /\ deliveries[m] \in Nat /\ failures \in Nat
      /\ inFlight'[m] = inFlight[m] => Rejecting(m)' = Rejecting(m)
  BY <1>0, FS_CardinalityType DEF Rejecting, Shapes
<1>3. SameShown(m) => IsFiniteSet(shown'[m]) /\ c1 = c
  BY <1>0 DEF SameShown
<1>4. Load(m) = c + p + Rejecting(m) /\ Load(m)' = c1 + p1 + Rejecting(m)'
      /\ Budget(m) = deliveries[m] + failures /\ Budget(m)' = deliveries'[m] + failures'
  BY DEF Load, Budget
<1> HIDE DEF c, p, c1, p1
\* Even and gaining steps, in terms of the parts.
<1>5. ASSUME SameShown(m), NEW s \in Nat, Budget(m)' = Budget(m) + s,
             p1 + Rejecting(m)' <= p + Rejecting(m) + s, Neat(m) => Neat(m)'
      PROVE  Account(m)'
  <2>1. Load(m)' <= Load(m) + s
    BY SMT, <1>1, <1>2, <1>3, <1>4, <1>5
  <2> QED BY <1>0, <1>1, <1>3, <1>5, <2>1, AccountEven
<1>6. ASSUME SameShown(m), NEW s \in Nat, Budget(m)' = Budget(m) + s,
             p1 + Rejecting(m)' + 1 <= p + Rejecting(m) + s
      PROVE  Account(m)'
  <2>1. Load(m)' + 1 <= Load(m) + s
    BY SMT, <1>1, <1>2, <1>3, <1>4, <1>6
  <2> QED BY <1>0, <1>1, <1>3, <1>6, <2>1, AccountGains
<1>7. SameCount(m) /\ SameFailures => Budget(m)' = Budget(m) + 0
  BY SMT, <1>2, <1>4 DEF SameCount, SameFailures
<1>8. SameCount(m) /\ OneFailure => Budget(m)' = Budget(m) + 1
  BY SMT, <1>2, <1>4 DEF SameCount, OneFailure
<1>9. SameSend(m) => Rejecting(m)' = Rejecting(m)
  BY <1>2 DEF SameSend
<1>11. CASE Arrives(m, t, g)
  <2>1. Budget(m)' = Budget(m) + 1 /\ SameShown(m) /\ SameState(m) /\ Rejecting(m)' = Rejecting(m)
        /\ f = NoTask /\ g.msg = m
    BY SMT, <1>2, <1>4, <1>9, <1>11 DEF Arrives, SameFailures
  <2>2. CASE states[m] = Nothing
    <3>1. g.pc = "adding" /\ Pending(g, m)
      BY <1>11, <2>1, <2>2 DEF Arrives, Pending
    <3>2. Neat(m) => Neat(m)'
      BY <1>0, <2>1, <2>2, <3>1, NeatStep DEF SameShown, SameState
    <3> QED BY SMT, <1>1, <1>2, <1>5, <2>1, <3>2
  <2>3. CASE states[m] # Nothing
    <3>1. ~Pending(g, m)
      BY <1>11, <2>3 DEF Arrives, Pending
    <3> QED BY SMT, <1>1, <1>2, <1>6, <2>1, <3>1
  <2> QED BY <2>2, <2>3
<1>12. CASE Removes(m, t, g)
  <2>1. /\ Budget(m)' = Budget(m) + 0 /\ Rejecting(m)' = Rejecting(m)
        /\ shown'[m] = {x \in shown[m] : x.id # f.id} /\ f.msg = m /\ f.pc = "removing"
    BY <1>7, <1>9, <1>12 DEF Removes
  <2>2. p1 <= p
    BY <1>1, <1>12 DEF Removes, Pending
  <2>3. CASE HasId(shown[m], f.id)
    <3>1. PICK x \in shown[m] : x.id = f.id
      BY <2>3 DEF HasId
    <3>2. shown'[m] \subseteq shown[m] \ {x}
      BY <2>1, <3>1
    <3>3. IsFiniteSet(shown'[m]) /\ c1 \in Nat /\ c1 + 1 <= c
      BY <1>0, <3>1, <3>2, CardLess DEF c, c1
    <3>4. Load(m)' + 1 <= Load(m) + 0
      BY SMT, <1>1, <1>2, <1>4, <2>1, <2>2, <3>3
    <3> QED BY <1>1, <2>1, <3>3, <3>4, AccountGains
  <2>4. CASE ~HasId(shown[m], f.id)
    <3>1. ~Neat(m)
      BY <2>1, <2>4 DEF Neat
    <3>2. IsFiniteSet(shown'[m]) /\ c1 \in Nat /\ c1 <= c
      BY <1>0, <2>1, CardSub DEF c, c1
    <3>3. Load(m)' <= Load(m) + 0
      BY SMT, <1>1, <1>2, <1>4, <2>1, <2>2, <3>2
    <3> QED BY <1>0, <1>1, <2>1, <3>1, <3>2, <3>3, AccountEven
  <2> QED BY <2>3, <2>4
<1>13. CASE Forgets(m, t, g) \/ Keeps(m, t, g)
  <2>1. /\ SameShown(m) /\ Rejecting(m)' = Rejecting(m) /\ SameCount(m)
        /\ f.msg = m /\ f.pc \in {"removing", "removed"} /\ GoesOn(g, f.kind, m)
        /\ OneFailure \/ (f.pc = "removed" /\ SameFailures)
    BY <1>9, <1>13 DEF Forgets, Keeps
  <2>2. p1 <= p
    BY <1>0, <1>1, <2>1 DEF GoesOn, Pending
  <2>3. f.pc = "removed" => ~Neat(m)
    BY <2>1 DEF Neat
  <2> QED BY SMT, <1>1, <1>2, <1>5, <1>6, <1>7, <1>8, <2>1, <2>2, <2>3
<1>14. CASE Adds(m, t, g)
  <2>1. PICK x : x.id = g.id /\ shown'[m] = shown[m] \union {x}
    BY <1>14 DEF Adds
  <2>2. /\ Budget(m)' = Budget(m) + 0 /\ Rejecting(m)' = Rejecting(m) /\ SameState(m)
        /\ f.pc = "adding" /\ f.msg = m /\ g.pc = "added" /\ g.msg = m
    BY <1>7, <1>9, <1>14 DEF Adds
  <2>3. p1 + 1 <= p
    BY <1>1, <2>2 DEF Pending
  <2>4. IsFiniteSet(shown'[m]) /\ c1 \in Nat /\ c1 <= c + 1
    BY <1>0, <2>1, CardAdd DEF c, c1
  <2>5. Load(m)' <= Load(m) + 0
    BY SMT, <1>1, <1>2, <1>4, <2>2, <2>3, <2>4
  <2>6. Neat(m) => Neat(m)'
    <3>1. HasId(shown'[m], g.id)
      BY <2>1 DEF HasId
    <3>2. Neat(m) /\ states'[m] # Nothing => HasId(shown'[m], states'[m].id)
      BY <2>1, <2>2 DEF Neat, HasId, SameState
    <3> QED BY <1>0, <2>1, <2>2, <3>1, <3>2, NeatStep
  <2> QED BY <1>0, <1>1, <2>2, <2>4, <2>5, <2>6, AccountEven
<1>15. CASE Tracks(m, t, g)
  <2>1. /\ SameShown(m) /\ Rejecting(m)' = Rejecting(m) /\ SameCount(m)
        /\ f.pc = "added" /\ f.msg = m /\ Posts(g, f.kind, m)
        /\ states'[m] # Nothing /\ states'[m].id = f.id /\ (SameFailures \/ OneFailure)
    BY <1>9, <1>15 DEF Tracks
  <2>2. g.pc \in {"post", "free"} /\ ~Pending(g, m)
    BY <1>0, <2>1 DEF Posts, Pending
  <2>3. Neat(m) => HasId(shown'[m], f.id)
    BY <2>1 DEF Neat, SameShown
  <2>4. Neat(m) => Neat(m)'
    BY <1>0, <2>1, <2>2, <2>3, NeatStep DEF SameShown
  <2> QED BY SMT, <1>1, <1>2, <1>5, <1>6, <1>7, <1>8, <2>1, <2>2, <2>4
<1>16. CASE Retries(m, t, g)
  <2>1. /\ SameShown(m) /\ Rejecting(m)' = Rejecting(m) /\ SameState(m)
        /\ Budget(m)' = Budget(m) + 1 /\ g.pc = "adding" /\ g.msg = m /\ Pending(g, m)
    BY <1>8, <1>9, <1>16 DEF Retries, Pending
  <2>2. Neat(m) => Neat(m)'
    <3>1. Neat(m) /\ states'[m] # Nothing => HasId(shown'[m], states'[m].id)
      BY <2>1 DEF Neat, SameState, SameShown
    <3> QED BY <1>0, <2>1, <3>1, NeatStep DEF SameShown
  <2> QED BY SMT, <1>1, <1>2, <1>5, <2>1, <2>2
<1>17. CASE GivesUp(m, t, g)
  <2>1. /\ SameShown(m) /\ Rejecting(m)' = Rejecting(m)
        /\ Budget(m)' = Budget(m) + 1 /\ Posts(g, f.kind, m)
    BY <1>8, <1>9, <1>17 DEF GivesUp
  <2>2. ~Pending(g, m)
    BY <1>0, <2>1 DEF Posts, Pending
  <2> QED BY SMT, <1>1, <1>2, <1>6, <2>1, <2>2
<1>18. CASE Enters(m, t, g)
  <2>1. /\ SameShown(m) /\ Rejecting(m)' = Rejecting(m) /\ SameCount(m) /\ SameState(m)
        /\ UNCHANGED inFlight
        /\ g = NoTask /\ ~Pending(g, m) /\ f.pc = "post" /\ (SameFailures \/ OneFailure)
    BY <1>0, <1>2, <1>18 DEF Enters, Pending
  <2>2. Neat(m) => Neat(m)'
    <3>1. Neat(m) /\ states'[m] # Nothing => HasId(shown'[m], states'[m].id)
      BY <2>1 DEF Neat, SameState, SameShown
    <3>2. ~Pending(f, m)
      BY <2>1 DEF Pending
    <3> QED BY <1>0, <2>1, <3>1, <3>2, NeatStep DEF SameShown, SameState
  <2> QED BY SMT, <1>1, <1>2, <1>5, <1>6, <1>7, <1>8, <2>1, <2>2
<1>19. CASE Clears(m, t, g) \/ Concludes(m, t, g)
  <2>1. PICK kind \in {"succeeded", "skipped", "failed", "refused"} :
           /\ Retracts(m, g, kind) /\ SameShown(m) /\ SameCount(m)
           /\ ~Pending(f, m) /\ f.pc # "added"
           /\ \/ SameFailures /\ ~MarksFailure(kind) /\ Rejecting(m)' = Rejecting(m)
                 /\ (inFlight'[m] # "rejecting" => inFlight[m] # "rejecting")
              \/ OneFailure /\ MarksFailure(kind) /\ Rejecting(m)' = Rejecting(m)
              \/ OneFailure /\ ~MarksFailure(kind) /\ Rejecting(m)' = Rejecting(m) + 1
                 /\ inFlight'[m] = "rejecting"
              \/ SameFailures /\ MarksFailure(kind) /\ Rejecting(m)' + 1 = Rejecting(m)
    <3>1. CASE Clears(m, t, g)
      BY <1>9, <3>1 DEF Clears, MarksFailure, Pending, SameSend
    <3>2. CASE Concludes(m, t, g)
      BY SMT, <1>0, <3>2 DEF Concludes, MarksFailure, Pending, Rejecting
    <3> QED BY <1>19, <3>1, <3>2
  <2>2. /\ Pending(g, m) <=> MarksFailure(kind)
        /\ states[m] = Nothing <=> states'[m] = Nothing
        /\ Neat(m) => /\ g.msg = m => /\ g.pc # "removed"
                                      /\ g.pc \in {"added", "removing"} => HasId(shown'[m], g.id)
                      /\ states'[m] # Nothing => HasId(shown'[m], states'[m].id)
    BY <1>0, <2>1, RetractsNeat
  <2>3. Neat(m) => Neat(m)'
    <3>1. CASE MarksFailure(kind) \/ inFlight'[m] = "rejecting" \/ states'[m] # Nothing
      BY <1>0, <2>1, <2>2, <3>1, NeatStep DEF SameShown
    <3>2. CASE ~MarksFailure(kind) /\ inFlight'[m] # "rejecting" /\ states'[m] = Nothing
      <4>1. inFlight[m] # "rejecting" /\ states'[m] = states[m]
        BY <2>1, <2>2, <3>2
      <4> QED BY <1>0, <2>1, <2>2, <4>1, NeatStep DEF SameShown
    <3> QED BY <3>1, <3>2
  <2> QED BY SMT, <1>1, <1>2, <1>5, <1>7, <1>8, <2>1, <2>2, <2>3
<1> QED BY <1>11, <1>12, <1>13, <1>14, <1>15, <1>16, <1>17, <1>18, <1>19 DEF Change

\* Every other message: a failure elsewhere only adds to its budget.
LEMMA OtherAccount ==
    ASSUME Shapes, Shapes', NEW m \in Messages, NEW t \in Tasks, NEW g, Change(m, t, g),
           NEW n \in Messages \ {m}, Account(n)
    PROVE  Account(n)'
<1>1. /\ task'[t] = g /\ \A u \in Tasks \ {t} : task'[u] = task[u]
  BY TouchPoints DEF Change
<1>2. task[t].msg # n /\ g.msg # n
  <2>1. task[t].msg \in {m, Nothing} /\ g.msg \in {m, Nothing}
    BY NoTaskOK DEF Change
  <2>2. n # m /\ n # Nothing
    BY FeishuAssumption
  <2> QED BY <2>1, <2>2
<1>3. Pend(n)' = Pend(n)
  BY <1>1, <1>2 DEF Pend, Pending
<1>4. /\ shown'[n] = shown[n] /\ states'[n] = states[n] /\ deliveries'[n] = deliveries[n]
      /\ inFlight'[n] = inFlight[n] /\ UNCHANGED crashes
      /\ failures' = failures \/ failures' = failures + 1
  BY DEF Change, SameShown, SameState, SameCount, SameFailures, OneFailure
<1>5. Load(n)' = Load(n)
  BY <1>3, <1>4 DEF Load, Rejecting
<1>6. Budget(n)' = Budget(n) + 0 \/ Budget(n)' = Budget(n) + 1
  BY SMT, <1>4 DEF Budget, Shapes
<1>7. Neat(n) => Neat(n)'
  BY <1>1, <1>2, <1>3, <1>4 DEF Neat
<1>8. Load(n) \in Nat /\ Budget(n) \in Nat /\ IsFiniteSet(shown'[n]) /\ IsFiniteSet(Pend(n)')
  BY <1>3, <1>4, LoadType DEF Account
<1>9. CASE Budget(n)' = Budget(n) + 0
  <2>1. Load(n)' <= Load(n) + 0
    BY SMT, <1>5, <1>8
  <2> QED BY <1>4, <1>7, <1>8, <1>9, <2>1, AccountEven
<1>10. CASE Budget(n)' = Budget(n) + 1
  <2>1. Load(n)' + 1 <= Load(n) + 1
    BY SMT, <1>5, <1>8
  <2> QED BY <1>8, <1>10, <2>1, AccountGains
<1> QED BY <1>6, <1>9, <1>10

\* A restart forgets every handler; from then on only the totals are kept.
LEMMA RestartAccount ==
    ASSUME Shapes, Restart, NEW m \in Messages, Account(m)
    PROVE  Account(m)'
<1>1. /\ shown' = shown /\ UNCHANGED <<deliveries, failures>> /\ crashes' # 0
      /\ inFlight'[m] = "none" /\ \A t \in Tasks : task'[t] = NoTask
  BY SMT DEF Restart, Shapes
<1>2. Pend(m)' = {}
  BY <1>1, NoTaskOK, FeishuAssumption DEF Pend, Pending
<1>3. IsFiniteSet(Pend(m)') /\ Cardinality(Pend(m)') = 0
  BY <1>2, FS_EmptySet
<1>4. Load(m)' = Cardinality(shown[m]) + 0 + 0 /\ Budget(m)' = Budget(m)
  BY <1>1, <1>3 DEF Load, Rejecting, Budget
<1>5. Cardinality(shown[m]) \in Nat /\ Cardinality(Pend(m)) \in Nat /\ Rejecting(m) \in Nat
  BY FS_CardinalityType DEF Account, Rejecting
<1>6. Budget(m) \in Nat
  BY SMT DEF Budget, Shapes
<1>7. Load(m)' <= Budget(m)'
  BY SMT, <1>4, <1>5, <1>6 DEF Account, Load
<1> QED BY <1>1, <1>3, <1>7 DEF Account

\* The other steps touch neither reactions nor handlers.
LEMMA QuietAccount ==
    ASSUME Quiet, NEW m \in Messages, Account(m)
    PROVE  Account(m)'
<1>1. UNCHANGED <<task, shown, states, deliveries, failures, crashes>>
      /\ (inFlight'[m] = "rejecting" <=> inFlight[m] = "rejecting")
  BY DEF Quiet
<1>2. Pend(m)' = Pend(m)
  BY <1>1 DEF Pend, Pending
<1>3. Load(m)' = Load(m) /\ Budget(m)' = Budget(m)
  BY <1>1, <1>2 DEF Load, Budget, Rejecting
<1>4. Neat(m) => Neat(m)'
  BY <1>1, <1>2 DEF Neat
<1> QED BY <1>1, <1>2, <1>3, <1>4 DEF Account

\* The account holds in every state.
LEMMA StrayInvStep ==
    ASSUME Shapes, StrayInv, [Next]_vars
    PROVE  StrayInv'
<1>1. Shapes'
  BY StepsChange
<1>2. CASE Quiet
  BY <1>2, QuietAccount DEF StrayInv
<1>3. CASE Restart
  BY <1>3, RestartAccount DEF StrayInv
<1>4. ASSUME NEW m \in Messages, NEW t \in Tasks, NEW g, Change(m, t, g) PROVE StrayInv'
  <2> SUFFICES ASSUME NEW n \in Messages PROVE Account(n)'
    BY DEF StrayInv
  <2>1. CASE n = m
    BY <1>1, <1>4, <2>1, ChangedAccount DEF StrayInv
  <2>2. CASE n # m
    BY <1>1, <1>4, <2>2, OtherAccount DEF StrayInv
  <2> QED BY <2>1, <2>2
<1> QED BY <1>2, <1>3, <1>4, StepsChange

\* Nothing is shown at first.
LEMMA StrayInvInit ==
    ASSUME Init
    PROVE  StrayInv
<1> SUFFICES ASSUME NEW m \in Messages PROVE Account(m)
  BY DEF StrayInv
<1>1. /\ shown[m] = {} /\ deliveries[m] = 0 /\ failures = 0 /\ inFlight[m] = "none"
      /\ states[m] = Nothing /\ \A t \in Tasks : task[t] = NoTask
  BY DEF Init
<1>2. Pend(m) = {}
  BY <1>1, NoTaskOK, FeishuAssumption DEF Pend, Pending
<1>3. IsFiniteSet({}) /\ Cardinality({}) = 0
  BY FS_EmptySet
<1>4. Neat(m)
  BY <1>1, NoTaskOK, FeishuAssumption DEF Neat
<1> QED BY SMT, <1>1, <1>2, <1>3, <1>4 DEF Account, Load, Budget, Rejecting

\* What the account says of a message nobody handles.
LEMMA StrayInvBounds ==
    ASSUME Shapes, StrayInv
    PROVE  StrayReactionsBounded
<1> SUFFICES ASSUME NEW m \in Messages, Idle(m), Stray(m) # {}
             PROVE  Cardinality(Stray(m)) + 1 <= crashes + failures + deliveries[m]
  BY DEF StrayReactionsBounded
<1>1. Account(m)
  BY DEF StrayInv
<1>2. Pend(m) = {} /\ Rejecting(m) = 0 /\ inFlight[m] # "rejecting"
  BY DEF Idle, Pend, Pending, Rejecting
<1>3. Cardinality(Pend(m)) = 0
  BY <1>2, FS_EmptySet
<1>4. IsFiniteSet(shown[m]) /\ Stray(m) \subseteq shown[m]
  BY <1>1 DEF Account, Stray
<1>5. /\ Cardinality(shown[m]) \in Nat /\ Cardinality(Stray(m)) \in Nat
      /\ Cardinality(Stray(m)) <= Cardinality(shown[m])
  BY <1>4, CardSub, FS_CardinalityType
<1>6. Load(m) = Cardinality(shown[m])
  BY SMT, <1>2, <1>3, <1>5 DEF Load
<1>7. /\ crashes \in Nat /\ failures \in Nat /\ deliveries[m] \in Nat
      /\ Budget(m) = deliveries[m] + failures
  BY DEF Shapes, Budget
<1>8. CASE crashes # 0 \/ Load(m) + 1 <= Budget(m)
  <2>1. Load(m) <= Budget(m)
    BY <1>1 DEF Account
  <2> QED BY SMT, <1>5, <1>6, <1>7, <1>8, <2>1
<1>9. CASE Neat(m)
  <2>1. states[m] # Nothing /\ HasId(shown[m], states[m].id)
    <3>1. shown[m] # {}
      BY DEF Stray
    <3> QED BY <1>2, <1>9, <3>1 DEF Neat, Idle
  <2>2. PICK x \in shown[m] : x.id = states[m].id
    BY <2>1 DEF HasId
  <2>3. Stray(m) \subseteq shown[m] \ {x}
    BY <2>1, <2>2 DEF Stray
  <2>4. Cardinality(Stray(m)) + 1 <= Cardinality(shown[m])
    BY <1>4, <2>2, <2>3, CardLess
  <2>5. Load(m) <= Budget(m)
    BY <1>1 DEF Account
  <2> QED BY SMT, <1>5, <1>6, <1>7, <2>4, <2>5
<1> QED BY <1>1, <1>8, <1>9 DEF Account

(* Reactions nobody will remove are as few as the failures, restarts and *)
(* repeated events that leave them, for any number of each. *)
THEOREM StrayReactionsAreAccountedFor == Spec => []StrayReactionsBounded
<1>1. Init => Shapes /\ StrayInv
  BY ShapesInit, StrayInvInit
<1>2. Shapes /\ StrayInv /\ [Next]_vars => (Shapes /\ StrayInv)'
  BY StepsChange, StrayInvStep
<1>3. Shapes /\ StrayInv => StrayReactionsBounded
  BY StrayInvBounds
<1> QED BY <1>1, <1>2, <1>3, PTL DEF Spec

-----------------------------------------------------------------------------
(* A message whose event came once and met no failure goes through stages: *)
(* its reaction is added, tracked, shown while the Kernel works, removed.  *)

Free(m) == \A t \in Tasks : task[t].msg # m
Worker(m, t) == task[t].msg = m /\ \A u \in Tasks \ {t} : task[u].msg # m
Only(S, i) == \A x \in S : x.id = i
TrackedAs(m, status, i) == states[m] # Nothing /\ states[m].status = status /\ states[m].id = i

Rest(m) ==
    /\ Free(m) /\ states[m] = Nothing /\ shown[m] = {}
    /\ deliveries[m] = 0 => m \notin kernel
Waiting(m) ==
    /\ Free(m) /\ m \in kernel /\ m \notin acked /\ m \notin stored /\ deliveries[m] = 1
    /\ TrackedAs(m, "processing", states[m].id) /\ Only(shown[m], states[m].id)
Entering(m, t) ==
    /\ Worker(m, t) /\ deliveries[m] = 1 /\ m \notin kernel /\ task[t].kind = "ingress"
    /\ \/ task[t].pc = "adding" /\ states[m] = Nothing /\ shown[m] = {}
       \/ task[t].pc = "added" /\ states[m] = Nothing /\ Only(shown[m], task[t].id)
       \/ /\ task[t].pc = "post" /\ TrackedAs(m, "processing", states[m].id)
          /\ Only(shown[m], states[m].id)
Leaving(m, t) ==
    /\ Worker(m, t) /\ deliveries[m] = 1 /\ task[t].kind \in {"succeeded", "skipped"}
    /\ TrackedAs(m, "remove_pending", task[t].id)
    /\ \/ task[t].pc = "removing" /\ Only(shown[m], task[t].id)
       \/ task[t].pc = "removed" /\ shown[m] = {}
Stage(m) ==
    /\ inFlight[m] # "rejecting"
    /\ Rest(m) \/ Waiting(m) \/ \E t \in Tasks : Entering(m, t) \/ Leaving(m, t)
Smooth(m) == deliveries[m] <= 1 /\ crashes = 0 /\ failures = 0
ReactionInv == \A m \in Messages : Smooth(m) => Stage(m)

\* A smooth message was smooth before, and nothing failed in between.
LEMMA StaysSmooth ==
    ASSUME Shapes, Shapes', NEW m \in Messages, NEW t \in Tasks, NEW g, Change(m, t, g),
           NEW n \in Messages, Smooth(n)'
    PROVE  Smooth(n) /\ failures' = failures /\ ~OneFailure
<1>1. /\ crashes' = crashes
      /\ failures' = failures \/ failures' = failures + 1
      /\ deliveries'[n] = deliveries[n] \/ deliveries'[n] = deliveries[n] + 1
  BY DEF Change, SameFailures, OneFailure, SameCount, Arrives, Removes, Forgets, Keeps, Adds,
     Tracks, Retries, GivesUp, Enters, Clears, Concludes
<1> QED BY SMT, <1>1 DEF Smooth, Shapes, OneFailure

\* Who works on the message after the change.
LEMMA WorkerMoves ==
    ASSUME Shapes, NEW m \in Messages, NEW t \in Tasks, NEW g, Change(m, t, g)
    PROVE  /\ task'[t] = g /\ \A u \in Tasks \ {t} : task'[u] = task[u]
           /\ Free(m) /\ g = NoTask => Free(m)'
           /\ Free(m) /\ g.msg = m => Worker(m, t)'
           /\ Worker(m, t) /\ g = NoTask => Free(m)'
           /\ Worker(m, t) /\ g.msg = m => Worker(m, t)'
           /\ \A u \in Tasks : Worker(m, u) /\ task[t].msg = m => u = t
           /\ \A u \in Tasks \ {t} : Worker(m, u) /\ g = NoTask => Worker(m, u)'
           /\ Free(m) => task[t].msg # m
           /\ NoTask.msg # m
<1>1. task'[t] = g /\ \A u \in Tasks \ {t} : task'[u] = task[u]
  BY TouchPoints DEF Change
<1>2. NoTask.msg # m
  BY NoTaskOK, FeishuAssumption
<1> QED BY <1>1, <1>2 DEF Free, Worker

\* The message a change is about.
LEMMA ChangedStage ==
    ASSUME Shapes, Shapes', NEW m \in Messages, NEW t \in Tasks, NEW g, Change(m, t, g),
           Stage(m), deliveries'[m] <= 1, SameFailures, ~OneFailure
    PROVE  Stage(m)'
<1>0. /\ deliveries[m] \in Nat /\ acked \subseteq kernel /\ stored \subseteq kernel
      /\ inFlight[m] # "none" => m \in kernel
  BY DEF Shapes
<1>1. /\ task'[t] = g /\ \A u \in Tasks \ {t} : task'[u] = task[u]
      /\ Free(m) /\ g = NoTask => Free(m)'
      /\ Free(m) /\ g.msg = m => Worker(m, t)'
      /\ Worker(m, t) /\ g = NoTask => Free(m)'
      /\ Worker(m, t) /\ g.msg = m => Worker(m, t)'
      /\ \A u \in Tasks : Worker(m, u) /\ task[t].msg = m => u = t
      /\ \A u \in Tasks \ {t} : Worker(m, u) /\ g = NoTask => Worker(m, u)'
      /\ Free(m) => task[t].msg # m
      /\ NoTask.msg # m
  BY WorkerMoves
<1>2. task[t].msg = m => Entering(m, t) \/ Leaving(m, t)
  BY <1>1 DEF Stage, Rest, Waiting, Entering, Leaving
<1>3. CASE Arrives(m, t, g)
  <2>1. /\ deliveries[m] = 0 /\ deliveries'[m] = 1 /\ SameShown(m) /\ SameState(m) /\ SameSend(m)
        /\ g.kind = "ingress" /\ g.msg = m
    BY SMT, <1>0, <1>3 DEF Arrives
  <2>2. Rest(m)
    BY SMT, <2>1 DEF Stage, Waiting, Entering, Leaving
  <2>3. g.pc = "adding" /\ Free(m) /\ m \notin kernel /\ states[m] = Nothing /\ shown[m] = {}
    BY <1>3, <2>1, <2>2 DEF Rest, Arrives
  <2>4. Entering(m, t)'
    BY <1>1, <2>1, <2>3 DEF Entering, SameShown, SameState, SameSend
  <2> QED BY <2>1, <2>4 DEF Stage, SameSend
<1>4. CASE Removes(m, t, g)
  <2>1. Leaving(m, t) /\ task[t].pc = "removing"
    BY <1>2, <1>4 DEF Removes, Entering
  <2>2. shown'[m] = {}
    BY <1>4, <2>1 DEF Removes, Leaving, Only
  <2>3. Leaving(m, t)'
    BY <1>1, <1>4, <2>1, <2>2 DEF Removes, Leaving, TrackedAs, SameState, SameCount
  <2> QED BY <1>4, <2>3 DEF Stage, Removes, SameSend
<1>5. CASE Forgets(m, t, g)
  <2>1. Leaving(m, t) /\ task[t].pc = "removed" /\ GoesOn(g, task[t].kind, m)
    BY <1>2, <1>5 DEF Forgets, Entering
  <2>2. g = NoTask /\ Worker(m, t) /\ shown[m] = {} /\ deliveries[m] = 1
    BY <2>1 DEF GoesOn, Leaving, MarksFailure
  <2>3. Rest(m)'
    BY SMT, <1>1, <1>5, <2>2 DEF Rest, Forgets, SameShown, SameCount
  <2> QED BY <1>5, <2>3 DEF Stage, Forgets, SameSend
<1>6. CASE Adds(m, t, g)
  <2>1. Entering(m, t) /\ task[t].pc = "adding" /\ g.pc = "added" /\ g.msg = m
        /\ g.kind = task[t].kind /\ SameState(m) /\ SameCount(m) /\ SameSend(m)
    BY <1>2, <1>6 DEF Adds, Leaving
  <2>2. Only(shown'[m], g.id)
    BY <1>6, <2>1 DEF Adds, Entering, Only
  <2>3. Entering(m, t)'
    BY <1>1, <2>1, <2>2 DEF Entering, SameState, SameCount, SameSend
  <2> QED BY <2>1, <2>3 DEF Stage, SameSend
<1>7. CASE Tracks(m, t, g)
  <2>1. Entering(m, t) /\ task[t].pc = "added" /\ task[t].kind = "ingress"
        /\ SameShown(m) /\ SameCount(m) /\ SameSend(m) /\ Posts(g, "ingress", m)
        /\ states'[m] # Nothing /\ states'[m].id = task[t].id
        /\ states'[m].status = Emoji("ingress")
    BY <1>2, <1>7 DEF Tracks, Leaving, Entering
  <2>2. g.pc = "post" /\ g.kind = "ingress" /\ g.msg = m /\ states'[m].status = "processing"
    BY <2>1 DEF Posts, Emoji
  <2>3. Only(shown'[m], states'[m].id)
    BY <2>1 DEF Entering, SameShown
  <2>4. Entering(m, t)'
    BY <1>1, <2>1, <2>2, <2>3 DEF Entering, TrackedAs, SameCount, SameSend
  <2> QED BY <2>1, <2>4 DEF Stage, SameSend
<1>8. CASE Enters(m, t, g)
  <2>1. /\ Entering(m, t) /\ task[t].pc = "post" /\ g = NoTask /\ m \in kernel'
        /\ UNCHANGED <<inFlight, acked, stored>> /\ SameShown(m) /\ SameCount(m) /\ SameState(m)
    BY <1>2, <1>8 DEF Enters, Leaving
  <2>2. m \notin acked /\ m \notin stored /\ Worker(m, t) /\ deliveries[m] = 1
        /\ TrackedAs(m, "processing", states[m].id) /\ Only(shown[m], states[m].id)
    BY <1>0, <2>1 DEF Entering
  <2>3. Waiting(m)'
    BY <1>1, <2>1, <2>2 DEF Waiting, TrackedAs, SameShown, SameCount, SameState
  <2> QED BY <2>1, <2>3 DEF Stage
<1>9. CASE Clears(m, t, g)
  <2>1. /\ Entering(m, t) /\ task[t].pc = "post" /\ Retracts(m, g, "skipped")
        /\ SameShown(m) /\ SameCount(m) /\ SameSend(m)
    BY <1>2, <1>9 DEF Clears, Leaving
  <2>2. /\ Worker(m, t) /\ deliveries[m] = 1 /\ Only(shown[m], states[m].id)
        /\ states[m] # Nothing /\ states[m].status = "processing"
    BY <2>1 DEF Entering, TrackedAs
  <2>3. /\ states'[m] # Nothing /\ states'[m].id = states[m].id
        /\ states'[m].status = "remove_pending"
        /\ g.kind = "skipped" /\ g.pc = "removing" /\ g.msg = m /\ g.id = states[m].id
    BY <2>1, <2>2 DEF Retracts
  <2>4. Leaving(m, t)'
    BY <1>1, <2>1, <2>2, <2>3 DEF Leaving, TrackedAs, SameShown, SameCount
  <2> QED BY <2>1, <2>4 DEF Stage, SameSend
<1>10. CASE Concludes(m, t, g)
  <2>1. /\ task[t] = NoTask /\ SameShown(m) /\ SameCount(m) /\ kernel' = kernel
        /\ Retracts(m, g, "succeeded") /\ inFlight[m] = "landed" /\ inFlight'[m] = "none"
    BY <1>10 DEF Concludes, Stage
  <2>2. m \in kernel /\ ~\E u \in Tasks : Entering(m, u)
    BY <1>0, <2>1 DEF Entering
  <2>3. CASE Rest(m)
    <3>1. g = NoTask /\ SameState(m)
      BY <2>1, <2>3 DEF Rest, Retracts, GoesOn, MarksFailure
    <3>2. Rest(m)'
      BY <1>1, <2>1, <2>3, <3>1 DEF Rest, SameShown, SameState, SameCount
    <3> QED BY <2>1, <3>2 DEF Stage
  <2>4. CASE Waiting(m)
    <3>1. /\ Free(m) /\ deliveries[m] = 1 /\ Only(shown[m], states[m].id)
          /\ states[m] # Nothing /\ states[m].status = "processing"
      BY <2>4 DEF Waiting, TrackedAs
    <3>2. /\ states'[m] # Nothing /\ states'[m].id = states[m].id
          /\ states'[m].status = "remove_pending"
          /\ g.kind = "succeeded" /\ g.pc = "removing" /\ g.msg = m /\ g.id = states[m].id
      BY <2>1, <3>1 DEF Retracts
    <3>3. Leaving(m, t)'
      BY <1>1, <2>1, <3>1, <3>2 DEF Leaving, TrackedAs, SameShown, SameCount
    <3> QED BY <2>1, <3>3 DEF Stage
  <2>5. ASSUME NEW u \in Tasks, Leaving(m, u) PROVE Stage(m)'
    <3>1. u # t
      BY <1>1, <2>1, <2>5 DEF Leaving, Worker
    <3>2. g = NoTask /\ SameState(m)
      BY <2>1, <2>5 DEF Leaving, TrackedAs, Retracts, GoesOn, MarksFailure
    <3>3. Leaving(m, u)'
      BY <1>1, <2>1, <2>5, <3>1, <3>2 DEF Leaving, TrackedAs, SameShown, SameState, SameCount
    <3> QED BY <2>1, <3>3 DEF Stage
  <2> QED BY <2>2, <2>3, <2>4, <2>5 DEF Stage
<1>11. CASE Keeps(m, t, g) \/ Retries(m, t, g) \/ GivesUp(m, t, g)
  BY <1>11 DEF Keeps, Retries, GivesUp
<1> QED BY <1>3, <1>4, <1>5, <1>6, <1>7, <1>8, <1>9, <1>10, <1>11 DEF Change

\* Every other message stays where it is.
LEMMA OtherStage ==
    ASSUME Shapes, NEW m \in Messages, NEW t \in Tasks, NEW g, Change(m, t, g),
           NEW n \in Messages \ {m}, Stage(n)
    PROVE  Stage(n)'
<1>1. /\ task'[t] = g /\ \A u \in Tasks \ {t} : task'[u] = task[u]
  BY TouchPoints DEF Change
<1>2. task[t].msg # n /\ g.msg # n
  <2>1. task[t].msg \in {m, Nothing} /\ g.msg \in {m, Nothing}
    BY NoTaskOK DEF Change
  <2>2. n # m /\ n # Nothing
    BY FeishuAssumption
  <2> QED BY <2>1, <2>2
<1>3. Free(n) => Free(n)'
  BY <1>1, <1>2 DEF Free
<1>4. \A u \in Tasks : Worker(n, u) => Worker(n, u)' /\ task'[u] = task[u]
  BY <1>1, <1>2 DEF Worker
<1>5. /\ shown'[n] = shown[n] /\ states'[n] = states[n] /\ deliveries'[n] = deliveries[n]
      /\ inFlight'[n] = inFlight[n]
      /\ n \in kernel' <=> n \in kernel
      /\ n \in acked' <=> n \in acked
      /\ n \in stored' <=> n \in stored
  BY DEF Change, SameShown, SameState, SameCount
<1>6. Rest(n) => Rest(n)'
  BY <1>3, <1>5 DEF Rest
<1>7. Waiting(n) => Waiting(n)'
  BY <1>3, <1>5 DEF Waiting, TrackedAs
<1>8. \A u \in Tasks : Entering(n, u) => Entering(n, u)'
  BY <1>4, <1>5 DEF Entering, TrackedAs
<1>9. \A u \in Tasks : Leaving(n, u) => Leaving(n, u)'
  BY <1>4, <1>5 DEF Leaving, TrackedAs
<1> QED BY <1>5, <1>6, <1>7, <1>8, <1>9 DEF Stage

\* Polling, sending and expiry leave the stages alone: what is not stored is
\* not acknowledged.
LEMMA QuietStage ==
    ASSUME Quiet, NEW m \in Messages, Stage(m)
    PROVE  Stage(m)'
<1>1. /\ UNCHANGED <<task, shown, states, deliveries, kernel>>
      /\ (inFlight'[m] = "rejecting" <=> inFlight[m] = "rejecting")
      /\ m \notin stored /\ m \notin acked => m \notin stored' /\ m \notin acked'
  BY DEF Quiet
<1>2. /\ Free(m)' <=> Free(m)
      /\ \A t \in Tasks : Worker(m, t)' <=> Worker(m, t)
  BY <1>1 DEF Free, Worker
<1>3. Rest(m) => Rest(m)'
  BY <1>1, <1>2 DEF Rest
<1>4. Waiting(m) => Waiting(m)'
  BY <1>1, <1>2 DEF Waiting, TrackedAs
<1>5. \A t \in Tasks : Entering(m, t) => Entering(m, t)'
  BY <1>1, <1>2 DEF Entering, TrackedAs
<1>6. \A t \in Tasks : Leaving(m, t) => Leaving(m, t)'
  BY <1>1, <1>2 DEF Leaving, TrackedAs
<1> QED BY <1>1, <1>3, <1>4, <1>5, <1>6 DEF Stage

\* Smooth messages are always in one of the stages.
LEMMA ReactionInvStep ==
    ASSUME Shapes, ReactionInv, [Next]_vars
    PROVE  ReactionInv'
<1>1. Shapes'
  BY StepsChange
<1>2. CASE Quiet
  <2>1. \A m \in Messages : Smooth(m)' => Smooth(m)
    BY <1>2 DEF Quiet, Smooth
  <2> QED BY <1>2, <2>1, QuietStage DEF ReactionInv
<1>3. CASE Restart
  <2>1. \A m \in Messages : ~Smooth(m)'
    BY SMT, <1>3 DEF Restart, Smooth, Shapes
  <2> QED BY <2>1 DEF ReactionInv
<1>4. ASSUME NEW m \in Messages, NEW t \in Tasks, NEW g, Change(m, t, g) PROVE ReactionInv'
  <2> SUFFICES ASSUME NEW n \in Messages, Smooth(n)' PROVE Stage(n)'
    BY DEF ReactionInv
  <2>1. Smooth(n) /\ SameFailures /\ ~OneFailure /\ Stage(n) /\ deliveries'[n] <= 1
    BY <1>1, <1>4, StaysSmooth DEF ReactionInv, SameFailures, Smooth
  <2>2. CASE n = m
    BY <1>1, <1>4, <2>1, <2>2, ChangedStage
  <2>3. CASE n # m
    BY <1>4, <2>1, <2>3, OtherStage
  <2> QED BY <2>2, <2>3
<1> QED BY <1>2, <1>3, <1>4, StepsChange

(* An answered message whose event came once and met no failure shows no *)
(* reaction once its handlers are done, whatever the other messages do. *)
THEOREM AnsweredMessagesAreCleared == Spec => []AnsweredShowsNothing
<1>1. Init => Shapes /\ ReactionInv
  <2> SUFFICES ASSUME Init PROVE ReactionInv
    BY ShapesInit
  <2>1. /\ \A t \in Tasks : task[t] = NoTask
        /\ kernel = {}
        /\ \A m \in Messages : shown[m] = {} /\ states[m] = Nothing /\ inFlight[m] = "none"
    BY DEF Init
  <2>2. \A m \in Messages : Free(m)
    BY <2>1, NoTaskOK, FeishuAssumption DEF Free
  <2> QED BY <2>1, <2>2 DEF ReactionInv, Stage, Rest
<1>2. Shapes /\ ReactionInv /\ [Next]_vars => (Shapes /\ ReactionInv)'
  BY StepsChange, ReactionInvStep
<1>3. Shapes /\ ReactionInv => AnsweredShowsNothing
  <2> SUFFICES ASSUME Shapes, ReactionInv, NEW m \in acked, Idle(m), deliveries[m] = 1,
                      crashes = 0, failures = 0
               PROVE  shown[m] = {}
    BY DEF AnsweredShowsNothing
  <2>1. m \in Messages /\ Stage(m)
    BY SMT DEF Shapes, ReactionInv, Smooth
  <2> QED BY <2>1 DEF Stage, Idle, Rest, Waiting, Entering, Leaving, Worker
<1> QED BY <1>1, <1>2, <1>3, PTL DEF Spec
====
