--------------------------- MODULE AttemptProofs ---------------------------
(***************************************************************************)
(* The Kernel's side of a submission, for any number of callers, threads,  *)
(* attempts, crashes and disk faults.                                      *)
(*                                                                         *)
(* BackedInv, of SubmissionProofs, through the Kernel's steps and crashes. *)
(*                                                                         *)
(* OwnedInv: a running row has a caller that will settle it, also when     *)
(* that caller gave up on a thread that still works, or a settlement that  *)
(* failed.                                                                 *)
(*                                                                         *)
(* SlotInv: the rows of a message are numbered, and only the last may be   *)
(* other than definitively rejected.                                       *)
(***************************************************************************)
EXTENDS SubmissionProofs, FiniteSetTheorems

\* The leaves are for Zenon; a leaf that needs arithmetic, or that Zenon does not
\* find in time, cites SMT.
USE Zenon

(* The Kernel's steps and crashes. *)

\* A thread begins, ends or loses its reader: no result changes.
LEMMA QuietKeepsResults ==
    ASSUME SubmissionInv, BackedInv, UNCHANGED <<entered, gatesPassed>>,
           \A a \in Attempts : /\ dir'[a].result = dir[a].result
                               /\ dir'[a].lock = dir[a].lock \/ dir'[a].lock = NoOne,
           \A t \in Threads :
               \/ /\ thread'[t].pc = thread[t].pc /\ thread'[t].attempt = thread[t].attempt
                  /\ thread'[t].result = thread[t].result
               \/ /\ thread'[t].pc \in {"lock", "idle"} /\ thread'[t].result # "in_progress"
                  /\ \A a \in Attempts : dir'[a].lock # t
    PROVE  ResultsBacked'
<1>1. {"lock", "idle"} \cap (LockedPc \union HandlerPc \union FinishPc \union GatedPc
                             \union {"answer"}) = {}
  BY DEF LockedPc, HandlerPc, MarkingPc, FinishPc, GatedPc
<1>2. HeldByWorker'
  BY SMT DEF BackedInv, ResultsBacked, HeldByWorker
<1>3. \A t \in Threads : thread[t].pc # "idle" => thread[t].attempt \in Attempts
  BY DEF SubmissionInv, NamesAttempt
<1>4. ASSUME NEW t \in Threads PROVE ThreadBacked(thread[t])'
  <2>1. CASE /\ thread'[t].pc = thread[t].pc /\ thread'[t].attempt = thread[t].attempt
             /\ thread'[t].result = thread[t].result
    <3>1. ThreadBacked(thread[t])
      BY DEF BackedInv, ResultsBacked
    <3>2. thread[t].pc \in LockedPc \union {"answer"} => dir'[thread[t].attempt].result = dir[thread[t].attempt].result
      BY <1>1, <1>3
    <3> QED BY <2>1, <3>1, <3>2 DEF ThreadBacked
  <2>2. CASE thread'[t].pc \in {"lock", "idle"} /\ thread'[t].result # "in_progress"
    BY <1>1, <2>2 DEF ThreadBacked
  <2> QED BY <2>1, <2>2
<1> QED BY <1>2, <1>4 DEF ResultsBacked, BackedInv

\* A thread that works under no lock holds none.
LEMMA NoLock ==
    ASSUME BackedInv, NEW t \in Threads, thread[t].pc \notin LockedPc
    PROVE  \A a \in Attempts : dir[a].lock # t
BY StoreAssumption DEF BackedInv, ResultsBacked, HeldByWorker

\* The caller becomes what Become says, and nobody else changes.
LEMMA BecomePoints ==
    ASSUME SubmissionInv, NEW c \in Callers, NEW pc, NEW a, Become(c, pc, a)
    PROVE  /\ caller'[c].pc = pc /\ caller'[c].attempt = a /\ caller'[c].answer = "none"
           /\ \A x \in Callers \ {c} : caller'[x] = caller[x]
<1>1. PICK r : r = [pc |-> pc, attempt |-> a, answer |-> "none"]
  OBVIOUS
<1>2. caller'[c] = r /\ \A x \in Callers \ {c} : caller'[x] = caller[x]
  BY <1>1 DEF Become, SubmissionInv, Shapes
<1>3. r.pc = pc /\ r.attempt = a /\ r.answer = "none"
  BY <1>1
<1> QED BY <1>2, <1>3

\* The claim of an attempt: an old row as it is, or a new one that runs.
LEMMA SubmitEffect ==
    ASSUME SubmissionInv, BackedInv, NEW c \in Callers, NEW k \in Keys, Submit(c, k)
    PROVE  \E a \in Attempts :
           /\ At(c, "idle")
           /\ caller'[c].attempt = a
           /\ \A x \in Callers \ {c} : caller'[x] = caller[x]
           /\ UNCHANGED <<storeVars, proposals, kernelCrashes, unsettled>>
           /\ row'[a].status # "none"
           /\ row' = [b \in Attempts |-> row'[b]]
           /\ \A b \in Attempts \ {a} : row'[b] = row[b]
           /\ \/ /\ row' = row
                 /\ \/ caller'[c].pc = "execute" /\ row[a].status = "running"
                    \/ caller'[c].pc = "propose" /\ row[a].status = "succeeded"
              \/ /\ caller'[c].pc = "execute" /\ row[a].status = "none"
                 /\ row'[a] = [status |-> "running", key |-> k,
                               sequence |-> Cardinality(Rows(KeyMessage[k])) + 1]
                 /\ LET m == KeyMessage[k] IN
                    Rows(m) # {} => row[Last(m)].status = "definitively_rejected"
<1>0. /\ At(c, "idle") /\ UNCHANGED <<storeVars, proposals, kernelCrashes, unsettled>>
      /\ row = [b \in Attempts |-> row[b]]
  BY DEF Submit, BackedInv, RowsKnown
<1>1. CASE ReplayAttempt(c, k)
  <2>1. PICK a \in Attempts :
            /\ UNCHANGED row
            /\ \/ row[a].status = "running" /\ Become(c, "execute", a)
               \/ row[a].status = "succeeded" /\ Become(c, "propose", a)
    BY <1>1 DEF ReplayAttempt
  <2> QED BY SMT, <1>0, <2>1, BecomePoints
<1>2. CASE NewAttempt(c, k)
  <2>1. PICK a : a = CHOOSE x \in Fresh : TRUE
    OBVIOUS
  <2> DEFINE m == KeyMessage[k]
             n == Cardinality(Rows(m)) + 1
  <2>2. /\ Fresh # {} /\ Become(c, "execute", a)
        /\ row' = [row EXCEPT ![a] = [status |-> "running", key |-> k, sequence |-> n]]
        /\ Rows(m) # {} => row[Last(m)].status = "definitively_rejected"
    BY <1>2, <2>1 DEF NewAttempt
  <2>3. a \in Attempts /\ row[a].status = "none"
    BY <2>1, <2>2 DEF Fresh
  <2> HIDE DEF n
  <2>4. /\ row'[a] = [status |-> "running", key |-> k, sequence |-> n]
        /\ row' = [b \in Attempts |-> row'[b]]
        /\ \A b \in Attempts \ {a} : row'[b] = row[b]
    BY <1>0, <2>2, <2>3
  <2>5. row'[a].status = "running"
    BY SMT, <2>4
  <2>6. /\ caller'[c].pc = "execute" /\ caller'[c].attempt = a
        /\ \A x \in Callers \ {c} : caller'[x] = caller[x]
    BY <2>2, BecomePoints
  <2> QED BY <1>0, <2>2, <2>3, <2>4, <2>5, <2>6 DEF n
<1> QED BY <1>1, <1>2 DEF Submit, Claim

\* The settlement of an attempt: its row stops running, once, or stays as it is
\* because nothing is known, because the content comes first, or because the
\* transaction failed.
Stays(c, a) ==
    /\ UNCHANGED <<row, unsettled>> /\ At(c, "settle")
    /\ \/ caller[c].answer = "in_progress" /\ caller'[c].pc = "idle"
       \/ /\ caller[c].answer = "succeeded"
          /\ caller'[c].pc = "complete" /\ caller'[c].attempt = a
Fails(c, a) ==
    UNCHANGED row /\ unsettled' = unsettled \union {a} /\ caller'[c].pc = "idle"
Ends(c, a) ==
    /\ unsettled' = unsettled \ {a}
    /\ \A b \in Attempts \ {a} : row'[b] = row[b]
    /\ IsRow(row'[a]) /\ row'[a].key = row[a].key /\ row'[a].sequence = row[a].sequence
    /\ row'[a].status # "running"
    /\ \/ row'[a].status = row[a].status
       \/ /\ row[a].status = "running"
          /\ \/ row'[a].status = "outcome_unknown"
             \/ row'[a].status = "succeeded" /\ At(c, "complete")
             \/ /\ row'[a].status = "definitively_rejected" /\ At(c, "settle")
                /\ caller[c].answer = "definitively_rejected"
    /\ \/ caller'[c].pc = "idle"
       \/ /\ caller'[c].pc = "propose" /\ caller'[c].attempt = a
          /\ row'[a].status = "succeeded"

\* A row that is finished, or was.
LEMMA FinishPoints ==
    ASSUME BackedInv, NEW a \in Attempts,
           NEW s \in {"succeeded", "outcome_unknown", "definitively_rejected"}, Finish(a, s)
    PROVE  /\ row' = [b \in Attempts |-> row'[b]]
           /\ \A b \in Attempts \ {a} : row'[b] = row[b]
           /\ IsRow(row'[a]) /\ row'[a].key = row[a].key /\ row'[a].sequence = row[a].sequence
           /\ row'[a].status = IF row[a].status = "running" THEN s ELSE row[a].status
           /\ unsettled' = unsettled \ {a}
<1>1. row = [b \in Attempts |-> row[b]] /\ IsRow(row[a])
  BY DEF BackedInv, RowsKnown
<1>4. unsettled' = unsettled \ {a}
  BY DEF Finish
<1>2. CASE row[a].status # "running"
  BY <1>1, <1>2, <1>4 DEF Finish
<1>3. CASE row[a].status = "running"
  <2>1. PICK r : r = [row[a] EXCEPT !.status = s]
    OBVIOUS
  <2>2. IsRow(r) /\ r.key = row[a].key /\ r.sequence = row[a].sequence /\ r.status = s
    BY <1>1, <2>1 DEF IsRow
  <2>3. row' = [row EXCEPT ![a] = r]
    BY <1>3, <2>1 DEF Finish
  <2> QED BY <1>1, <1>3, <1>4, <2>2, <2>3
<1> QED BY <1>2, <1>3

\* A settlement or a completion touches the row of the client's attempt and no
\* other.
LEMMA SettleEffect ==
    ASSUME SubmissionInv, BackedInv, NEW c \in Callers, Settle(c) \/ Complete(c)
    PROVE  /\ At(c, "settle") \/ At(c, "complete")
           /\ caller[c].attempt \in Attempts
           /\ \A x \in Callers \ {c} : caller'[x] = caller[x]
           /\ row' = [b \in Attempts |-> row'[b]]
           /\ UNCHANGED <<storeVars, proposals, kernelCrashes>>
           /\ LET a == caller[c].attempt IN Stays(c, a) \/ Fails(c, a) \/ Ends(c, a)
<1>a. PICK a : a = caller[c].attempt
  OBVIOUS
<1>0. /\ At(c, "settle") \/ At(c, "complete")
      /\ UNCHANGED <<storeVars, proposals, kernelCrashes>>
      /\ a \in Attempts /\ row = [b \in Attempts |-> row[b]] /\ IsRow(row[a])
  BY <1>a DEF Settle, Complete, BackedInv, RowsKnown, At
<1> DEFINE Goal == /\ \A x \in Callers \ {c} : caller'[x] = caller[x]
                   /\ row' = [b \in Attempts |-> row'[b]]
                   /\ Stays(c, a) \/ Fails(c, a) \/ Ends(c, a)
<1> SUFFICES Goal
  BY <1>0, <1>a
<1>1. ASSUME Finish(a, "outcome_unknown"), Become(c, "idle", NoOne)
      PROVE  Goal
  BY SMT, <1>0, <1>1, FinishPoints, BecomePoints DEF Ends
<1>2. ASSUME FinishFails(a), Become(c, "idle", NoOne)
      PROVE  Goal
  BY <1>0, <1>2, BecomePoints DEF FinishFails, Fails
<1>3. ASSUME Finish(a, "definitively_rejected"), Become(c, "idle", NoOne),
             At(c, "settle"), caller[c].answer = "definitively_rejected"
      PROVE  Goal
  BY SMT, <1>0, <1>3, FinishPoints, BecomePoints DEF Ends
<1>4. ASSUME Finish(a, "succeeded"), At(c, "complete"),
             IF row[a].status \in {"running", "succeeded"}
             THEN Become(c, "propose", a) ELSE Become(c, "idle", NoOne)
      PROVE  Goal
  BY SMT, <1>0, <1>4, FinishPoints, BecomePoints DEF Ends
<1>5. ASSUME At(c, "settle"), UNCHANGED <<row, unsettled>>,
             \/ caller[c].answer = "in_progress" /\ Become(c, "idle", NoOne)
             \/ caller[c].answer = "succeeded" /\ Become(c, "complete", a)
      PROVE  Goal
  BY <1>0, <1>5, BecomePoints DEF Stays
<1> HIDE DEF Goal
<1>6. ASSUME SettleUnknown(c) PROVE Goal
  BY <1>a, <1>1, <1>2, <1>6 DEF SettleUnknown, Settled
<1>7. CASE Complete(c)
  BY <1>a, <1>2, <1>4, <1>7 DEF Complete
<1>8. CASE Settle(c)
  <2>1. \/ SettleUnknown(c)
        \/ Settled(c, "definitively_rejected") /\ caller[c].answer = "definitively_rejected"
        \/ /\ UNCHANGED <<row, unsettled>>
           /\ \/ caller[c].answer = "in_progress" /\ Become(c, "idle", NoOne)
              \/ caller[c].answer = "succeeded" /\ Become(c, "complete", a)
    BY <1>a, <1>8 DEF Settle
  <2>2. At(c, "settle")
    BY <1>8 DEF Settle
  <2> QED BY <1>a, <1>2, <1>3, <1>5, <1>6, <2>1, <2>2 DEF Settled
<1> QED BY <1>7, <1>8

\* What Send, GiveUp, Reply and the crashes do to each thread and each caller.
LEMMA SendEffect ==
    ASSUME SubmissionInv, NEW c \in Callers, NEW t \in Threads, Send(c, t)
    PROVE  /\ At(c, "execute") /\ thread[t].pc = "idle"
           /\ thread'[t].pc = "lock" /\ thread'[t].client = c
           /\ thread'[t].attempt = caller[c].attempt
           /\ thread'[t].kind = KeyKind[row[caller[c].attempt].key]
           /\ thread'[t].result # "in_progress"
           /\ \A u \in Threads \ {t} : thread'[u] = thread[u]
           /\ caller'[c].pc = "waiting" /\ caller'[c].attempt = caller[c].attempt
           /\ \A x \in Callers \ {c} : caller'[x] = caller[x]
           /\ UNCHANGED <<dir, entered, gatesPassed, row, proposals, kernelCrashes, unsettled>>
<1> DEFINE a == caller[c].attempt
<1>1. PICK g : g = [IdleThread EXCEPT !.pc = "lock", !.attempt = a,
                                      !.kind = KeyKind[row[a].key], !.client = c]
  OBVIOUS
<1>2. /\ g.pc = "lock" /\ g.client = c /\ g.attempt = a /\ g.kind = KeyKind[row[a].key]
      /\ g.result # "in_progress"
  BY <1>1 DEF IdleThread
<1>3. thread' = [thread EXCEPT ![t] = g]
  BY <1>1 DEF Send, Accept
<1>4. PICK r : r = [caller[c] EXCEPT !.pc = "waiting"]
  OBVIOUS
<1>5. r.pc = "waiting" /\ r.attempt = a
  BY SMT, <1>4 DEF SubmissionInv, Shapes, IsCaller
<1>6. caller' = [caller EXCEPT ![c] = r]
  BY <1>4 DEF Send
<1>7. caller'[c] = r /\ \A x \in Callers \ {c} : caller'[x] = caller[x]
  BY <1>6 DEF SubmissionInv, Shapes
<1>8. thread'[t] = g /\ \A u \in Threads \ {t} : thread'[u] = thread[u]
  BY <1>3 DEF SubmissionInv, Shapes
<1> QED BY <1>2, <1>5, <1>7, <1>8 DEF Send, Accept, history

\* A thread as it was, but for its reader.
SameWork(g, f) ==
    g.pc = f.pc /\ g.attempt = f.attempt /\ g.result = f.result /\ g.kind = f.kind

\* A client that stops waiting has an unknown outcome, and its thread nobody to answer.
LEMMA GiveUpEffect ==
    ASSUME SubmissionInv, NEW c \in Callers, GiveUp(c)
    PROVE  /\ At(c, "execute") \/ At(c, "waiting")
           /\ \A t \in Threads :
                /\ SameWork(thread'[t], thread[t])
                /\ thread'[t].client = IF thread[t].client = c THEN NoOne ELSE thread[t].client
           /\ caller'[c].pc = "settle" /\ caller'[c].answer = "outcome_unknown"
           /\ caller'[c].attempt = caller[c].attempt
           /\ \A x \in Callers \ {c} : caller'[x] = caller[x]
           /\ UNCHANGED <<dir, entered, gatesPassed, row, proposals, kernelCrashes, unsettled>>
<1>1. PICK r : r = [caller[c] EXCEPT !.pc = "settle", !.answer = "outcome_unknown"]
  OBVIOUS
<1>2. r.pc = "settle" /\ r.answer = "outcome_unknown" /\ r.attempt = caller[c].attempt
  BY SMT, <1>1 DEF SubmissionInv, Shapes, IsCaller
<1>3. caller' = [caller EXCEPT ![c] = r]
  BY <1>1 DEF GiveUp, SubmissionInv, Shapes
<1>4. caller'[c] = r /\ \A x \in Callers \ {c} : caller'[x] = caller[x]
  BY <1>3 DEF SubmissionInv, Shapes
<1>5. ASSUME NEW t \in Threads
      PROVE  /\ SameWork(thread'[t], thread[t])
             /\ thread'[t].client = IF thread[t].client = c THEN NoOne ELSE thread[t].client
  <2>1. thread'[t] = IF thread[t].client = c THEN [thread[t] EXCEPT !.client = NoOne]
                     ELSE thread[t]
    BY DEF GiveUp
  <2> QED BY <2>1 DEF SubmissionInv, Shapes, IsThread, SameWork
<1> QED BY <1>2, <1>4, <1>5 DEF GiveUp, history

\* A reply reaches the client of its attempt and no other.
LEMMA ReplyEffect ==
    ASSUME SubmissionInv, NEW t \in Threads, Reply(t)
    PROVE  /\ thread[t].pc = "answer" /\ thread'[t] = IdleThread
           /\ \A u \in Threads \ {t} : thread'[u] = thread[u]
           /\ thread[t].client \in Callers =>
                /\ caller'[thread[t].client].pc = "settle"
                /\ caller'[thread[t].client].answer = thread[t].result
                /\ caller'[thread[t].client].attempt = caller[thread[t].client].attempt
           /\ \A x \in Callers \ {thread[t].client} : caller'[x] = caller[x]
           /\ UNCHANGED <<dir, entered, gatesPassed, row, proposals, kernelCrashes, unsettled>>
<1> DEFINE c == thread[t].client
<1>1. thread'[t] = IdleThread /\ \A u \in Threads \ {t} : thread'[u] = thread[u]
  BY DEF Reply, SubmissionInv, Shapes
<1>2. CASE c \notin Callers
  BY <1>1, <1>2 DEF Reply, history
<1>3. CASE c \in Callers
  <2>1. PICK r : r = [caller[c] EXCEPT !.pc = "settle", !.answer = thread[t].result]
    OBVIOUS
  <2>2. r.pc = "settle" /\ r.answer = thread[t].result /\ r.attempt = caller[c].attempt
    BY SMT, <1>3, <2>1 DEF SubmissionInv, Shapes, IsCaller
  <2>3. caller' = [caller EXCEPT ![c] = r]
    BY <1>3, <2>1 DEF Reply, SubmissionInv, Shapes
  <2>4. caller'[c] = r /\ \A x \in Callers \ {c} : caller'[x] = caller[x]
    BY <1>3, <2>3 DEF SubmissionInv, Shapes
  <2> QED BY <1>1, <1>3, <2>2, <2>4 DEF Reply, history
<1> QED BY <1>2, <1>3

\* A kernel crash forgets the clients and keeps the rows.
LEMMA KernelCrashEffect ==
    ASSUME SubmissionInv, KernelCrash
    PROVE  /\ \A t \in Threads : SameWork(thread'[t], thread[t]) /\ thread'[t].client = NoOne
           /\ \A c \in Callers : caller'[c].pc = "idle"
           /\ UNCHANGED <<dir, entered, gatesPassed, row, proposals>>
<1>1. ASSUME NEW t \in Threads
      PROVE  SameWork(thread'[t], thread[t]) /\ thread'[t].client = NoOne
  <2>1. thread'[t] = [thread[t] EXCEPT !.client = NoOne]
    BY DEF KernelCrash
  <2> QED BY <2>1 DEF SubmissionInv, Shapes, IsThread, SameWork
<1> QED BY <1>1 DEF KernelCrash, IdleCaller, history

\* A harness crash forgets the threads and their locks and keeps the files.
LEMMA HarnessCrashEffect ==
    ASSUME SubmissionInv, HarnessCrash
    PROVE  /\ \A t \in Threads : thread'[t] = IdleThread
           /\ \A a \in Attempts : dir'[a].lock = NoOne /\ dir'[a].result = dir[a].result
           /\ \A c \in Callers :
                \/ ~At(c, "waiting") /\ caller'[c] = caller[c]
                \/ /\ At(c, "waiting") /\ caller'[c].pc = "settle"
                   /\ caller'[c].answer = "outcome_unknown"
                   /\ caller'[c].attempt = caller[c].attempt
           /\ UNCHANGED <<entered, gatesPassed, row, proposals, kernelCrashes, unsettled>>
<1>1. ASSUME NEW a \in Attempts
      PROVE  dir'[a].lock = NoOne /\ dir'[a].result = dir[a].result
  <2>1. dir'[a] = [dir[a] EXCEPT !.lock = NoOne]
    BY DEF HarnessCrash, StoreCrash
  <2> QED BY <2>1 DEF SubmissionInv, Shapes, IsDir
<1>2. ASSUME NEW c \in Callers, At(c, "waiting")
      PROVE  /\ caller'[c].pc = "settle" /\ caller'[c].answer = "outcome_unknown"
             /\ caller'[c].attempt = caller[c].attempt
  <2>1. caller'[c] = [caller[c] EXCEPT !.pc = "settle", !.answer = "outcome_unknown"]
    BY <1>2 DEF HarnessCrash
  <2> QED BY <2>1 DEF SubmissionInv, Shapes, IsCaller
<1>3. \A c \in Callers : ~At(c, "waiting") => caller'[c] = caller[c]
  BY DEF HarnessCrash
<1> QED BY <1>1, <1>2, <1>3 DEF HarnessCrash, StoreCrash, history

\* The Kernel's steps keep the invariant.
LEMMA SubmitKeepsBacked ==
    ASSUME SubmissionInv, BackedInv, NEW c \in Callers, NEW k \in Keys, Submit(c, k)
    PROVE  BackedInv'
<1>1. PICK a \in Attempts :
           /\ At(c, "idle")
           /\ caller'[c].attempt = a
           /\ \A x \in Callers \ {c} : caller'[x] = caller[x]
           /\ UNCHANGED <<storeVars, proposals, kernelCrashes, unsettled>>
           /\ row'[a].status # "none"
           /\ row' = [b \in Attempts |-> row'[b]]
           /\ \A b \in Attempts \ {a} : row'[b] = row[b]
           /\ \/ /\ row' = row
                 /\ \/ caller'[c].pc = "execute" /\ row[a].status = "running"
                    \/ caller'[c].pc = "propose" /\ row[a].status = "succeeded"
              \/ /\ caller'[c].pc = "execute" /\ row[a].status = "none"
                 /\ row'[a] = [status |-> "running", key |-> k,
                               sequence |-> Cardinality(Rows(KeyMessage[k])) + 1]
  BY SubmitEffect
<1>2. UNCHANGED <<dir, thread, entered, gatesPassed, proposals>>
  BY <1>1 DEF storeVars, history
<1>3. ResultsBacked'
  BY <1>2 DEF BackedInv, ResultsBacked, HeldByWorker, ThreadBacked
<1>4. \A b \in Attempts : row[b].status # "none" => row'[b].status = row[b].status
  BY <1>1
<1>5. IsRow(row'[a]) /\ row'[a].key \in Keys
  BY SMT, <1>1 DEF IsRow, BackedInv, RowsKnown
<1>6. RowsKnown'
  BY SMT, <1>1, <1>2, <1>4, <1>5 DEF BackedInv, RowsKnown, At, SubmissionInv, NamesAttempt
<1>7. \A t \in Threads : thread[t].client # c
  BY <1>1 DEF BackedInv, ClientsWait, At
<1>8. ClientsWait'
  BY <1>1, <1>2, <1>7 DEF BackedInv, ClientsWait, At
<1>9. \A b \in Attempts : row'[b].status \in Definite => row[b].status = row'[b].status
  BY SMT, <1>1 DEF Definite
<1>10. SuccessBacked'
  <2>1. ASSUME NEW x \in Callers PROVE CallerBacked(caller[x])'
    <3>1. CASE x = c
      BY <1>1, <3>1 DEF CallerBacked
    <3>2. CASE x # c
      <4>1. caller'[x] = caller[x] /\ CallerBacked(caller[x])
        BY <1>1, <3>2 DEF BackedInv, SuccessBacked
      <4>2. caller[x].pc # "idle" =>
               caller[x].attempt \in Attempts /\ row[caller[x].attempt].status # "none"
        BY DEF BackedInv, RowsKnown, At
      <4> QED BY <1>2, <1>4, <4>1, <4>2 DEF CallerBacked
    <3> QED BY <3>1, <3>2
  <2>2. \A b \in Attempts : row'[b].status \in Definite => dir'[b].result = row'[b].status
    BY <1>2, <1>9 DEF BackedInv, SuccessBacked
  <2>3. proposals' \subseteq Attempts /\ \A b \in proposals' : row'[b].status = "succeeded"
    BY <1>2, <1>4 DEF BackedInv, SuccessBacked
  <2> QED BY <2>1, <2>2, <2>3 DEF SuccessBacked
<1> QED BY <1>3, <1>6, <1>8, <1>10 DEF BackedInv

\* Sending a request adds a waiting client, not a result.
LEMMA SendKeepsBacked ==
    ASSUME SubmissionInv, BackedInv, NEW c \in Callers, NEW t \in Threads, Send(c, t)
    PROVE  BackedInv'
<1>1. /\ At(c, "execute") /\ thread[t].pc = "idle"
      /\ thread'[t].pc = "lock" /\ thread'[t].client = c
      /\ thread'[t].attempt = caller[c].attempt
      /\ thread'[t].kind = KeyKind[row[caller[c].attempt].key]
      /\ thread'[t].result # "in_progress"
      /\ \A u \in Threads \ {t} : thread'[u] = thread[u]
      /\ caller'[c].pc = "waiting" /\ caller'[c].attempt = caller[c].attempt
      /\ \A x \in Callers \ {c} : caller'[x] = caller[x]
      /\ UNCHANGED <<dir, entered, gatesPassed, row, proposals, kernelCrashes, unsettled>>
  BY SendEffect
<1>2. "idle" \notin LockedPc
  BY DEF LockedPc, HandlerPc, MarkingPc
<1>3. \A a \in Attempts : dir[a].lock # t
  BY <1>1, <1>2, NoLock
<1>4. ResultsBacked'
  BY <1>1, <1>3, QuietKeepsResults
<1>5. /\ caller[c].attempt \in Attempts /\ row[caller[c].attempt].status # "none"
      /\ KeyKind[row[caller[c].attempt].key] \in Kinds
  BY <1>1, SubmissionAssumption DEF BackedInv, RowsKnown, At
<1>6. RowsKnown'
  <2>1. \A u \in Threads : thread'[u].pc # "idle" =>
            row'[thread'[u].attempt].status # "none" /\ thread'[u].kind \in Kinds
    BY SMT, <1>1, <1>5 DEF BackedInv, RowsKnown
  <2>2. \A x \in Callers : ~At(x, "idle")' =>
            caller'[x].attempt \in Attempts /\ row'[caller'[x].attempt].status # "none"
    BY SMT, <1>1, <1>5 DEF BackedInv, RowsKnown, At
  <2> QED BY <1>1, <2>1, <2>2 DEF BackedInv, RowsKnown
<1>7. \A u \in Threads : thread[u].client # c
  BY <1>1 DEF BackedInv, ClientsWait, At
<1>8. ClientsWait'
  BY SMT, <1>1, <1>7 DEF BackedInv, ClientsWait, At
<1>9. SuccessBacked'
  BY SMT, <1>1 DEF BackedInv, SuccessBacked, CallerBacked
<1> QED BY <1>4, <1>6, <1>8, <1>9 DEF BackedInv

\* Giving up records nothing that needs backing.
LEMMA GiveUpKeepsBacked ==
    ASSUME SubmissionInv, BackedInv, NEW c \in Callers, GiveUp(c)
    PROVE  BackedInv'
<1>1. /\ At(c, "execute") \/ At(c, "waiting")
      /\ \A t \in Threads :
           /\ SameWork(thread'[t], thread[t])
           /\ thread'[t].client = IF thread[t].client = c THEN NoOne ELSE thread[t].client
      /\ caller'[c].pc = "settle" /\ caller'[c].answer = "outcome_unknown"
      /\ caller'[c].attempt = caller[c].attempt
      /\ \A x \in Callers \ {c} : caller'[x] = caller[x]
      /\ UNCHANGED <<dir, entered, gatesPassed, row, proposals, kernelCrashes, unsettled>>
  BY GiveUpEffect
<1>2. ResultsBacked'
  BY <1>1, QuietKeepsResults DEF SameWork
<1>3. RowsKnown'
  BY SMT, <1>1 DEF BackedInv, RowsKnown, At, SameWork
<1>4. ClientsWait'
  BY SMT, <1>1, SubmissionAssumption DEF BackedInv, ClientsWait, At, SameWork
<1>5. SuccessBacked'
  <2>1. "outcome_unknown" \notin Definite
    BY DEF Definite
  <2>2. ASSUME NEW x \in Callers PROVE CallerBacked(caller[x])'
    BY SMT, <1>1, <2>1 DEF BackedInv, SuccessBacked, CallerBacked
  <2> QED BY <1>1, <2>2 DEF BackedInv, SuccessBacked
<1> QED BY <1>2, <1>3, <1>4, <1>5 DEF BackedInv

\* A reply carries what the attempt directory holds.
LEMMA ReplyKeepsBacked ==
    ASSUME SubmissionInv, BackedInv, NEW t \in Threads, Reply(t)
    PROVE  BackedInv'
<1> DEFINE c == thread[t].client
<1>1. /\ thread[t].pc = "answer" /\ thread'[t] = IdleThread
      /\ \A u \in Threads \ {t} : thread'[u] = thread[u]
      /\ c \in Callers =>
           /\ caller'[c].pc = "settle" /\ caller'[c].answer = thread[t].result
           /\ caller'[c].attempt = caller[c].attempt
      /\ \A x \in Callers \ {c} : caller'[x] = caller[x]
      /\ UNCHANGED <<dir, entered, gatesPassed, row, proposals, kernelCrashes, unsettled>>
  BY ReplyEffect
<1>2. "answer" \notin LockedPc
  BY DEF LockedPc, HandlerPc, MarkingPc
<1>3. /\ thread'[t].pc = "idle" /\ thread'[t].result # "in_progress"
      /\ thread'[t].client = NoOne
  BY SMT, <1>1 DEF IdleThread
<1>4. \A a \in Attempts : dir[a].lock # t
  BY <1>1, <1>2, NoLock
<1>5. ResultsBacked'
  BY <1>1, <1>3, <1>4, QuietKeepsResults
<1>6. c \in Callers => /\ At(c, "waiting") /\ caller[c].attempt = thread[t].attempt
                       /\ \A u \in Threads \ {t} : thread[u].client # c
  BY DEF BackedInv, ClientsWait
<1>7. RowsKnown'
  BY SMT, <1>1, <1>3, <1>6 DEF BackedInv, RowsKnown, At
<1>8. ClientsWait'
  BY SMT, <1>1, <1>3, <1>6, SubmissionAssumption DEF BackedInv, ClientsWait, At
<1>9. SuccessBacked'
  <2>1. c \in Callers /\ thread[t].result \in Definite
          => dir[caller[c].attempt].result = thread[t].result
    BY <1>1, <1>6 DEF BackedInv, ResultsBacked, ThreadBacked
  <2>2. ASSUME NEW x \in Callers PROVE CallerBacked(caller[x])'
    BY SMT, <1>1, <2>1 DEF BackedInv, SuccessBacked, CallerBacked
  <2> QED BY <1>1, <2>2 DEF BackedInv, SuccessBacked
<1> QED BY <1>5, <1>7, <1>8, <1>9 DEF BackedInv

\* A row becomes completed or rejected only from a reply that is backed.
LEMMA SettleKeepsBacked ==
    ASSUME SubmissionInv, BackedInv, NEW c \in Callers, Settle(c) \/ Complete(c)
    PROVE  BackedInv'
<1>a. PICK a : a = caller[c].attempt
  OBVIOUS
<1>1. /\ At(c, "settle") \/ At(c, "complete")
      /\ a \in Attempts
      /\ \A x \in Callers \ {c} : caller'[x] = caller[x]
      /\ row' = [b \in Attempts |-> row'[b]]
      /\ UNCHANGED <<storeVars, proposals, kernelCrashes>>
      /\ Stays(c, a) \/ Fails(c, a) \/ Ends(c, a)
  BY <1>a, SettleEffect
<1>2. UNCHANGED <<dir, thread, entered, gatesPassed, proposals>>
  BY <1>1 DEF storeVars, history
<1>3. ResultsBacked'
  BY <1>2 DEF BackedInv, ResultsBacked, HeldByWorker, ThreadBacked
<1>4. /\ \A b \in Attempts : row[b].status = "none" <=> row'[b].status = "none"
      /\ \A b \in Attempts : row[b].status = "succeeded" => row'[b].status = "succeeded"
      /\ \A b \in Attempts : IsRow(row'[b]) /\ row'[b].key = row[b].key
  <2>1. CASE Ends(c, a)
    BY <1>1, <2>1 DEF Ends, BackedInv, RowsKnown
  <2> QED BY <1>1, <2>1 DEF Stays, Fails, BackedInv, RowsKnown
<1>5. \/ caller'[c].pc = "idle"
      \/ caller'[c].pc \in {"propose", "complete"} /\ caller'[c].attempt = a
  BY <1>1 DEF Stays, Fails, Ends
<1>b. CallerBacked(caller[c])
  BY DEF BackedInv, SuccessBacked
<1>c. "succeeded" \in Definite /\ "definitively_rejected" \in Definite
      /\ "outcome_unknown" \notin Definite
  BY DEF Definite
<1>6. RowsKnown'
  <2>1. \A u \in Threads : thread'[u].pc # "idle" =>
            row'[thread'[u].attempt].status # "none" /\ thread'[u].kind \in Kinds
    BY <1>2, <1>4 DEF BackedInv, RowsKnown, SubmissionInv, NamesAttempt
  <2>2. \A x \in Callers : ~At(x, "idle")' =>
            caller'[x].attempt \in Attempts /\ row'[caller'[x].attempt].status # "none"
    <3>1. row[a].status # "none"
      BY <1>a, <1>1 DEF BackedInv, RowsKnown, At
    <3>2. ~At(c, "idle")' => caller'[c].attempt \in Attempts /\ row'[caller'[c].attempt].status # "none"
      BY <1>1, <1>4, <1>5, <3>1 DEF At
    <3>3. \A x \in Callers \ {c} : ~At(x, "idle")' =>
              caller'[x].attempt \in Attempts /\ row[caller'[x].attempt].status # "none"
      BY <1>1 DEF BackedInv, RowsKnown, At
    <3> QED BY <1>4, <3>2, <3>3
  <2> QED BY <1>1, <1>4, <2>1, <2>2 DEF BackedInv, RowsKnown
<1>7. \A u \in Threads : thread[u].client # c
  BY <1>1 DEF BackedInv, ClientsWait, At
<1>8. ClientsWait'
  BY <1>1, <1>2, <1>7 DEF BackedInv, ClientsWait, At
<1>9. SuccessBacked'
  <2>1. CallerBacked(caller[c])'
    <3>1. caller'[c].pc = "complete" => dir'[a].result = "succeeded"
      BY <1>a, <1>b, <1>c, <1>1, <1>2 DEF Stays, Fails, Ends, CallerBacked, At
    <3>2. caller'[c].pc = "propose" => row'[a].status = "succeeded"
      BY <1>1 DEF Stays, Fails, Ends
    <3> QED BY <1>5, <3>1, <3>2 DEF CallerBacked
  <2>2. ASSUME NEW x \in Callers \ {c} PROVE CallerBacked(caller[x])'
    <3>1. caller'[x] = caller[x] /\ CallerBacked(caller[x])
      BY <1>1 DEF BackedInv, SuccessBacked
    <3>2. caller[x].pc # "idle" => caller[x].attempt \in Attempts
      BY DEF BackedInv, RowsKnown, At
    <3> QED BY <1>2, <1>4, <3>1, <3>2 DEF CallerBacked
  <2>3. \A b \in Attempts : row'[b].status \in Definite => dir'[b].result = row'[b].status
    <3>1. \A b \in Attempts : row[b].status \in Definite => dir[b].result = row[b].status
      BY DEF BackedInv, SuccessBacked
    <3>2. CASE Ends(c, a)
      <4>1. row'[a].status \in Definite => dir[a].result = row'[a].status
        <5>1. CASE row'[a].status = row[a].status
          BY <1>1, <3>1, <5>1
        <5>2. CASE row'[a].status = "succeeded" /\ At(c, "complete")
          BY <1>a, <1>b, <5>2 DEF CallerBacked, At
        <5>3. CASE /\ row'[a].status = "definitively_rejected" /\ At(c, "settle")
                   /\ caller[c].answer = "definitively_rejected"
          BY <1>a, <1>b, <1>c, <5>3 DEF CallerBacked, At
        <5> QED BY <1>c, <3>2, <5>1, <5>2, <5>3 DEF Ends
      <4>2. \A b \in Attempts \ {a} : row'[b] = row[b]
        BY <3>2 DEF Ends
      <4> QED BY <1>2, <3>1, <4>1, <4>2
    <3> QED BY <1>1, <1>2, <3>1, <3>2 DEF Stays, Fails
  <2>4. proposals' \subseteq Attempts /\ \A b \in proposals' : row'[b].status = "succeeded"
    BY <1>2, <1>4 DEF BackedInv, SuccessBacked
  <2> QED BY <2>1, <2>2, <2>3, <2>4 DEF SuccessBacked
<1> QED BY <1>3, <1>6, <1>8, <1>9 DEF BackedInv

\* What was loaded before is loaded again, and nothing is recorded.
LEMMA LoadAgainKeepsBacked ==
    ASSUME SubmissionInv, BackedInv, NEW c \in Callers, LoadAgain(c)
    PROVE  BackedInv'
<1>1. /\ At(c, "propose") /\ UNCHANGED <<dir, thread, entered, gatesPassed, row, proposals>>
      /\ \/ caller'[c].pc = "idle"
         \/ caller'[c].pc = "link" /\ caller'[c].attempt = caller[c].attempt
      /\ \A x \in Callers \ {c} : caller'[x] = caller[x]
  BY BecomePoints DEF LoadAgain, storeVars, history
<1>2. ResultsBacked'
  BY <1>1 DEF BackedInv, ResultsBacked, HeldByWorker, ThreadBacked
<1>3. RowsKnown'
  BY SMT, <1>1 DEF BackedInv, RowsKnown, At
<1>4. \A u \in Threads : thread[u].client # c
  BY <1>1 DEF BackedInv, ClientsWait, At
<1>5. ClientsWait'
  BY <1>1, <1>4 DEF BackedInv, ClientsWait, At
<1>6. ASSUME NEW x \in Callers PROVE CallerBacked(caller[x])'
  BY SMT, <1>1 DEF BackedInv, SuccessBacked, CallerBacked, At
<1>7. SuccessBacked'
  BY <1>1, <1>6 DEF BackedInv, SuccessBacked
<1> QED BY <1>2, <1>3, <1>5, <1>7 DEF BackedInv

\* A proposal is made from a completed row.
LEMMA ProposeKeepsBacked ==
    ASSUME SubmissionInv, BackedInv, NEW c \in Callers, Propose(c)
    PROVE  BackedInv'
<1>1. /\ At(c, "link") /\ UNCHANGED <<dir, thread, entered, gatesPassed, row>>
      /\ caller'[c].pc = "idle" /\ \A x \in Callers \ {c} : caller'[x] = caller[x]
      /\ proposals' \subseteq proposals \union {caller[c].attempt}
  BY BecomePoints DEF Propose, storeVars, history
<1>2. ResultsBacked'
  BY <1>1 DEF BackedInv, ResultsBacked, HeldByWorker, ThreadBacked
<1>3. RowsKnown'
  BY <1>1 DEF BackedInv, RowsKnown, At
<1>4. \A u \in Threads : thread[u].client # c
  BY <1>1 DEF BackedInv, ClientsWait, At
<1>5. ClientsWait'
  BY <1>1, <1>4 DEF BackedInv, ClientsWait, At
<1>6. caller[c].attempt \in Attempts /\ row[caller[c].attempt].status = "succeeded"
  BY <1>1 DEF BackedInv, RowsKnown, SuccessBacked, CallerBacked, At
<1>7. SuccessBacked'
  <2>1. ASSUME NEW x \in Callers PROVE CallerBacked(caller[x])'
    BY SMT, <1>1 DEF BackedInv, SuccessBacked, CallerBacked
  <2> QED BY <1>1, <1>6, <2>1 DEF BackedInv, SuccessBacked
<1> QED BY <1>2, <1>3, <1>5, <1>7 DEF BackedInv

\* Rows and files survive a kernel crash.
LEMMA KernelCrashKeepsBacked ==
    ASSUME SubmissionInv, BackedInv, KernelCrash
    PROVE  BackedInv'
<1>1. /\ \A t \in Threads : SameWork(thread'[t], thread[t]) /\ thread'[t].client = NoOne
      /\ \A c \in Callers : caller'[c].pc = "idle"
      /\ UNCHANGED <<dir, entered, gatesPassed, row, proposals>>
  BY KernelCrashEffect
<1>2. ResultsBacked'
  BY <1>1, QuietKeepsResults DEF SameWork
<1>3. RowsKnown'
  BY <1>1 DEF BackedInv, RowsKnown, At, SameWork
<1>4. ClientsWait'
  BY <1>1, SubmissionAssumption DEF ClientsWait
<1>5. SuccessBacked'
  BY <1>1 DEF BackedInv, SuccessBacked, CallerBacked
<1> QED BY <1>2, <1>3, <1>4, <1>5 DEF BackedInv

\* Files survive a harness crash.
LEMMA HarnessCrashKeepsBacked ==
    ASSUME SubmissionInv, BackedInv, HarnessCrash
    PROVE  BackedInv'
<1>1. /\ \A t \in Threads : thread'[t] = IdleThread
      /\ \A a \in Attempts : dir'[a].lock = NoOne /\ dir'[a].result = dir[a].result
      /\ \A c \in Callers :
           \/ ~At(c, "waiting") /\ caller'[c] = caller[c]
           \/ /\ At(c, "waiting") /\ caller'[c].pc = "settle"
              /\ caller'[c].answer = "outcome_unknown"
              /\ caller'[c].attempt = caller[c].attempt
      /\ UNCHANGED <<entered, gatesPassed, row, proposals, kernelCrashes, unsettled>>
  BY HarnessCrashEffect
<1>2. \A t \in Threads : /\ thread'[t].pc = "idle" /\ thread'[t].client = NoOne
                         /\ thread'[t].result # "in_progress"
  BY SMT, <1>1 DEF IdleThread
<1>3. ResultsBacked'
  BY <1>1, <1>2, StoreAssumption, QuietKeepsResults
<1>4. RowsKnown'
  BY SMT, <1>1, <1>2 DEF BackedInv, RowsKnown, At
<1>5. ClientsWait'
  BY <1>2, SubmissionAssumption DEF ClientsWait
<1>6. SuccessBacked'
  <2>1. "outcome_unknown" \notin Definite
    BY DEF Definite
  <2>2. ASSUME NEW x \in Callers PROVE CallerBacked(caller[x])'
    <3>1. CallerBacked(caller[x]) /\ (caller[x].pc # "idle" => caller[x].attempt \in Attempts)
      BY DEF BackedInv, SuccessBacked, RowsKnown, At
    <3>2. CASE caller'[x] = caller[x]
      BY <1>1, <3>1, <3>2 DEF CallerBacked
    <3>3. CASE caller'[x].pc = "settle" /\ caller'[x].answer = "outcome_unknown"
      BY <2>1, <3>3 DEF CallerBacked
    <3> QED BY <1>1, <3>2, <3>3
  <2> QED BY <1>1, <2>2 DEF BackedInv, SuccessBacked
<1> QED BY <1>3, <1>4, <1>5, <1>6 DEF BackedInv

\* Nothing is recorded at first.
LEMMA BackedInvInit == Init => BackedInv
<1> SUFFICES ASSUME Init PROVE BackedInv
  OBVIOUS
<1>1. /\ \A t \in Threads : /\ thread[t].pc = "idle" /\ thread[t].client = NoOne
                            /\ thread[t].result # "in_progress"
      /\ \A c \in Callers : caller[c].pc = "idle"
  <2>1. (\A t \in Threads : thread[t] = IdleThread) /\ \A c \in Callers : caller[c] = IdleCaller
    BY DEF Init, StoreInit
  <2> QED BY SMT, <2>1 DEF IdleThread, IdleCaller
<1>7. /\ \A a \in Attempts : dir[a].lock = NoOne /\ dir[a].result = "none"
      /\ \A a \in Attempts : row[a] = NoRow
      /\ proposals = {} /\ row = [a \in Attempts |-> row[a]]
  BY DEF Init, StoreInit
<1>2. \A a \in Attempts : IsRow(row[a]) /\ row[a].status = "none"
  BY SMT, <1>7 DEF IsRow, NoRow
<1>3. "idle" \notin LockedPc \union HandlerPc \union FinishPc \union GatedPc
  BY DEF LockedPc, HandlerPc, MarkingPc, FinishPc, GatedPc
<1>4. ResultsBacked
  BY <1>1, <1>3, <1>7 DEF ResultsBacked, HeldByWorker, ThreadBacked
<1>5. RowsKnown /\ SuccessBacked
  BY <1>1, <1>2, <1>7 DEF RowsKnown, SuccessBacked, CallerBacked, Definite, At
<1>6. ClientsWait
  BY <1>1, SubmissionAssumption DEF ClientsWait
<1> QED BY <1>4, <1>5, <1>6 DEF BackedInv

\* A step that touches nothing of it keeps the invariant.
LEMMA NothingKeepsBacked ==
    ASSUME BackedInv, UNCHANGED <<thread, dir, entered, gatesPassed, kernelVars>>
    PROVE  BackedInv'
<1>1. ResultsBacked'
  BY DEF BackedInv, ResultsBacked, HeldByWorker, ThreadBacked
<1>2. RowsKnown' /\ ClientsWait'
  BY DEF BackedInv, RowsKnown, ClientsWait, At, kernelVars
<1>3. SuccessBacked'
  BY DEF BackedInv, SuccessBacked, CallerBacked, kernelVars
<1> QED BY <1>1, <1>2, <1>3 DEF BackedInv

\* Every step keeps results backed by the files.
LEMMA BackedInvStep == SubmissionInv /\ BackedInv /\ [Next]_vars => BackedInv'
<1> SUFFICES ASSUME SubmissionInv, BackedInv, [Next]_vars PROVE BackedInv'
  OBVIOUS
<1>1. ASSUME NEW c \in Callers, NEW k \in Keys, Submit(c, k) PROVE BackedInv'
  BY <1>1, SubmitKeepsBacked
<1>2. ASSUME NEW c \in Callers, CallerStep(c) \/ GiveUp(c) PROVE BackedInv'
  BY <1>2, SendKeepsBacked, SettleKeepsBacked, LoadAgainKeepsBacked, ProposeKeepsBacked,
     GiveUpKeepsBacked DEF CallerStep
<1>3. ASSUME NEW t \in Threads, StoreStep(t) \/ DiskFault(t), UNCHANGED kernelVars
      PROVE  BackedInv'
  <2>1. PICK g, d : Moved(t, g, d)
    BY <1>3, TryLockMoves, MarkMoves, EnterMoves, HandleMoves, ResultMoves, DiskFaultMoves
       DEF StoreStep
  <2> QED BY <1>3, <2>1, MovedKeeps DEF kernelVars
<1>4. ASSUME NEW t \in Threads, HarnessStep(t) \/ Reply(t) PROVE BackedInv'
  BY <1>3, <1>4, ReplyKeepsBacked DEF HarnessStep
<1>5. ASSUME NEW a \in Attempts, LoseContent(a) PROVE BackedInv'
  BY <1>5, NothingKeepsBacked DEF LoseContent, history
<1>6. CASE UNCHANGED vars
  BY <1>6, NothingKeepsBacked DEF vars, storeVars, history
<1> QED BY <1>1, <1>2, <1>3, <1>4, <1>5, <1>6, KernelCrashKeepsBacked, HarnessCrashKeepsBacked
        DEF Next, Step

\* A proposal stands on one entry of the handler, five passed gates and two
\* durable successes, for any number of callers, threads, crashes and faults.
THEOREM ProposalsAreBacked == Spec => []ProposalIsBacked
<1>1. SubmissionInv /\ BackedInv => ProposalIsBacked
  BY DEF BackedInv, SuccessBacked, Definite, ResultsBacked, ProposalIsBacked
<1> QED BY <1>1, SubmissionInvInit, SubmissionInvStep, BackedInvInit, BackedInvStep, PTL
        DEF Spec

-----------------------------------------------------------------------------
(* Who will settle a running attempt. *)

\* The thread works on its attempt, or has an outcome to answer.
Serves(t) ==
    \/ thread[t].pc = "lock" \/ thread[t].pc \in LockedPc
    \/ thread[t].pc = "answer" /\ thread[t].result # "in_progress"
Settling(c) == At(c, "complete") \/ (At(c, "settle") /\ caller[c].answer # "in_progress")
Owner(c, a) ==
    /\ caller[c].attempt = a
    /\ \/ At(c, "execute") \/ Settling(c)
       \/ At(c, "waiting") /\ \E t \in Threads : thread[t].client = c /\ Serves(t)

\* A running attempt has an owner, unless its settlement failed; the caller that
\* gave up on a thread that still works is about to settle its attempt.
RunningOwned ==
    \A a \in Attempts : row[a].status = "running" =>
       a \in unsettled \/ \E c \in Callers : Owner(c, a)
GivenUpOwned ==
    \A t \in Threads :
       thread[t].pc # "idle" /\ thread[t].client \notin Callers
       /\ row[thread[t].attempt].status = "running"
         => \/ thread[t].attempt \in unsettled
            \/ \E c \in Callers : caller[c].attempt = thread[t].attempt /\ Settling(c)
OwnedInv ==
    /\ kernelCrashes \in Nat
    /\ kernelCrashes = 0 => RunningOwned /\ GivenUpOwned

\* A caller that a step leaves alone, with its thread, is an owner still.
LEMMA OwnerStays ==
    ASSUME NEW c \in Callers, NEW a, Owner(c, a), caller'[c] = caller[c],
           \A t \in Threads : thread[t].client = c /\ Serves(t)
                                => thread'[t].client = c /\ Serves(t)'
    PROVE  Owner(c, a)'
BY DEF Owner, Settling, At

\* A harness step leaves the owners of rows alone.
LEMMA MovedKeepsOwned ==
    ASSUME SubmissionInv, BackedInv, RunningOwned, GivenUpOwned,
           NEW t \in Threads, NEW g, NEW d, Moved(t, g, d),
           UNCHANGED <<row, caller, unsettled>>
    PROVE  RunningOwned' /\ GivenUpOwned'
<1> DEFINE f == thread[t]
<1>1. /\ thread'[t] = g /\ \A u \in Threads \ {t} : thread'[u] = thread[u]
      /\ g.attempt = f.attempt /\ g.client = f.client
      /\ f.pc # "idle" /\ f.attempt \in Attempts
  BY MovedPoints DEF Moved
<1>2. \A u \in Threads : thread'[u].client = thread[u].client /\ thread'[u].attempt = thread[u].attempt
  BY <1>1
<1>3. \A u \in Threads \ {t} : Serves(u)' <=> Serves(u)
  BY <1>1 DEF Serves
<1>4. GivenUpOwned'
  <2>1. \A u \in Threads : thread'[u].pc # "idle" => thread[u].pc # "idle"
    BY <1>1
  <2> QED BY SMT, <1>2, <2>1 DEF GivenUpOwned, Settling, At
<1>5. CASE ~Busy(f, g, d)
  <2>1. Serves(t)'
    BY <1>1, <1>5 DEF Moved, Replayed, Locked, Worked, Released, Serves, LockedPc, MarkingPc,
       Results
  <2>2. \A u \in Threads : Serves(u) => Serves(u)'
    BY <1>3, <2>1
  <2>3. ASSUME NEW c \in Callers, NEW a \in Attempts, Owner(c, a) PROVE Owner(c, a)'
    BY <1>2, <2>2, <2>3, OwnerStays
  <2> QED BY <1>4, <2>3 DEF RunningOwned
<1>6. CASE Busy(f, g, d)
  <2>0. PICK o \in Attempts : o = f.attempt
    BY <1>1
  <2>1. PICK h \in Threads \ {t} : thread[h].pc \in LockedPc /\ thread[h].attempt = o
    <3>1. "lock" \notin LockedPc
      BY DEF LockedPc, HandlerPc, MarkingPc
    <3> QED BY <1>1, <1>6, <2>0, <3>1 DEF Busy, Held, BackedInv, ResultsBacked, HeldByWorker
  <2>2. Serves(h)' /\ thread'[h].client = thread[h].client /\ thread[h].pc # "idle"
    BY <1>1, <2>1 DEF Serves, LockedPc, HandlerPc, MarkingPc
  <2>3. ASSUME row[o].status = "running", o \notin unsettled
        PROVE  \E c \in Callers : Owner(c, o)'
    <3>1. CASE thread[h].client \in Callers
      <4>1. At(thread[h].client, "waiting") /\ caller[thread[h].client].attempt = o
        BY <2>1, <3>1 DEF BackedInv, ClientsWait
      <4>2. PICK c \in Callers : c = thread[h].client
        BY <3>1
      <4>3. Owner(c, o)'
        BY <2>2, <4>1, <4>2 DEF Owner, At
      <4> QED BY <4>3
    <3>2. CASE thread[h].client \notin Callers
      <4>1. PICK c \in Callers : caller[c].attempt = o /\ Settling(c)
        BY <2>1, <2>2, <2>3, <3>2 DEF GivenUpOwned
      <4>2. Owner(c, o)'
        BY <4>1 DEF Owner, Settling, At
      <4> QED BY <4>2
    <3> QED BY <3>1, <3>2
  <2>4. ASSUME NEW c \in Callers, NEW a \in Attempts \ {o}, Owner(c, a)
        PROVE  Owner(c, a)'
    <3>1. f.client # c \/ ~Serves(t) \/ ~At(c, "waiting")
      BY <2>0, <2>4 DEF Owner, BackedInv, ClientsWait
    <3> QED BY <1>1, <1>3, <2>4, <3>1 DEF Owner, Settling, At
  <2> QED BY <1>4, <2>3, <2>4 DEF RunningOwned
<1> QED BY <1>5, <1>6

\* A submitted row starts without a running attempt.
LEMMA SubmitKeepsOwned ==
    ASSUME SubmissionInv, BackedInv, RunningOwned, GivenUpOwned,
           NEW c \in Callers, NEW k \in Keys, Submit(c, k)
    PROVE  RunningOwned' /\ GivenUpOwned'
<1>1. PICK a \in Attempts :
           /\ At(c, "idle")
           /\ caller'[c].attempt = a
           /\ \A x \in Callers \ {c} : caller'[x] = caller[x]
           /\ UNCHANGED <<storeVars, proposals, kernelCrashes, unsettled>>
           /\ \A b \in Attempts \ {a} : row'[b] = row[b]
           /\ row' = row \/ (caller'[c].pc = "execute" /\ row[a].status = "none")
  BY SubmitEffect
<1>2. UNCHANGED thread
  BY <1>1 DEF storeVars
<1>3. \A b \in Attempts : ~Owner(c, b)
  BY <1>1 DEF Owner, Settling, At
<1>4. ASSUME NEW x \in Callers, NEW b \in Attempts, Owner(x, b) PROVE Owner(x, b)'
  BY <1>1, <1>2, <1>3, <1>4, OwnerStays DEF Serves
<1>5. RunningOwned'
  <2>1. row' # row => Owner(c, a)'
    BY <1>1 DEF Owner, At
  <2> QED BY <1>1, <1>4, <2>1 DEF RunningOwned
<1>6. \A t \in Threads : thread[t].pc # "idle" => row'[thread[t].attempt] = row[thread[t].attempt]
  BY <1>1 DEF BackedInv, RowsKnown, SubmissionInv, NamesAttempt
<1>7. \A x \in Callers : Settling(x) => x # c
  BY <1>1 DEF Settling, At
<1>8. GivenUpOwned'
  BY SMT, <1>1, <1>2, <1>6, <1>7 DEF GivenUpOwned, Settling, At
<1> QED BY <1>5, <1>8

\* A row that is sent is owned by its new client.
LEMMA SendKeepsOwned ==
    ASSUME SubmissionInv, BackedInv, RunningOwned, GivenUpOwned,
           NEW c \in Callers, NEW t \in Threads, Send(c, t)
    PROVE  RunningOwned' /\ GivenUpOwned'
<1>1. /\ At(c, "execute") /\ thread[t].pc = "idle"
      /\ thread'[t].pc = "lock" /\ thread'[t].client = c
      /\ \A u \in Threads \ {t} : thread'[u] = thread[u]
      /\ caller'[c].pc = "waiting" /\ caller'[c].attempt = caller[c].attempt
      /\ \A x \in Callers \ {c} : caller'[x] = caller[x]
      /\ UNCHANGED <<row, unsettled>>
  BY SMT, SendEffect
<1>2. ~Serves(t) /\ \A u \in Threads : Serves(u) => Serves(u)' /\ thread'[u] = thread[u]
  BY <1>1 DEF Serves, LockedPc, HandlerPc, MarkingPc
<1>3. \A a : Owner(c, a) => Owner(c, a)'
  <2>1. Serves(t)'
    BY <1>1 DEF Serves
  <2> QED BY <1>1, <2>1 DEF Owner, At
<1>4. ASSUME NEW x \in Callers \ {c}, NEW b \in Attempts, Owner(x, b) PROVE Owner(x, b)'
  BY <1>1, <1>2, <1>4, OwnerStays
<1>5. RunningOwned'
  BY <1>1, <1>3, <1>4 DEF RunningOwned
<1>6. \A x \in Callers : Settling(x) => x # c
  BY <1>1 DEF Settling, At
<1>7. GivenUpOwned'
  BY SMT, <1>1, <1>6 DEF GivenUpOwned, Settling, At
<1> QED BY <1>5, <1>7

\* A client that gave up leaves its row accounted for.
LEMMA GiveUpKeepsOwned ==
    ASSUME SubmissionInv, BackedInv, RunningOwned, GivenUpOwned, NEW c \in Callers, GiveUp(c)
    PROVE  RunningOwned' /\ GivenUpOwned'
<1>1. /\ At(c, "execute") \/ At(c, "waiting")
      /\ \A t \in Threads :
           /\ SameWork(thread'[t], thread[t])
           /\ thread'[t].client = IF thread[t].client = c THEN NoOne ELSE thread[t].client
      /\ caller'[c].pc = "settle" /\ caller'[c].answer = "outcome_unknown"
      /\ caller'[c].attempt = caller[c].attempt
      /\ \A x \in Callers \ {c} : caller'[x] = caller[x]
      /\ UNCHANGED <<row, unsettled>>
  BY GiveUpEffect
<1>2. Settling(c)' /\ \A a : Owner(c, a) => Owner(c, a)'
  BY <1>1 DEF Owner, Settling, At
<1>3. ASSUME NEW x \in Callers \ {c}, NEW b \in Attempts, Owner(x, b) PROVE Owner(x, b)'
  BY SMT, <1>1, <1>3, OwnerStays DEF SameWork, Serves
<1>4. RunningOwned'
  BY <1>1, <1>2, <1>3 DEF RunningOwned
<1>5. \A x \in Callers : Settling(x) => Settling(x)' /\ caller'[x].attempt = caller[x].attempt
  BY <1>1 DEF Settling, At
<1>6. ASSUME NEW t \in Threads, thread'[t].pc # "idle", thread'[t].client \notin Callers,
             row'[thread'[t].attempt].status = "running", thread'[t].attempt \notin unsettled'
      PROVE  \E x \in Callers : caller'[x].attempt = thread'[t].attempt /\ Settling(x)'
  <2>1. CASE thread[t].client = c
    <3>1. caller[c].attempt = thread[t].attempt
      BY <2>1 DEF BackedInv, ClientsWait
    <3> QED BY <1>1, <1>2, <3>1 DEF SameWork
  <2>2. CASE thread[t].client # c
    BY SMT, <1>1, <1>5, <1>6, <2>2 DEF GivenUpOwned, SameWork
  <2> QED BY <2>1, <2>2
<1> QED BY <1>4, <1>6 DEF GivenUpOwned

\* A client that has its reply still owns its row.
LEMMA ReplyKeepsOwned ==
    ASSUME SubmissionInv, BackedInv, RunningOwned, GivenUpOwned, NEW t \in Threads, Reply(t)
    PROVE  RunningOwned' /\ GivenUpOwned'
<1>0. PICK c : c = thread[t].client
  OBVIOUS
<1>1. /\ thread[t].pc = "answer" /\ thread'[t].pc = "idle"
      /\ \A u \in Threads \ {t} : thread'[u] = thread[u]
      /\ c \in Callers =>
           /\ caller'[c].pc = "settle" /\ caller'[c].answer = thread[t].result
           /\ caller'[c].attempt = caller[c].attempt
      /\ \A x \in Callers \ {c} : caller'[x] = caller[x]
      /\ UNCHANGED <<row, unsettled>>
  BY SMT, <1>0, ReplyEffect DEF IdleThread
<1>2. c \in Callers => At(c, "waiting") /\ \A u \in Threads \ {t} : thread[u].client # c
  BY <1>0 DEF BackedInv, ClientsWait
<1>3. ASSUME c \in Callers, NEW a \in Attempts, Owner(c, a) PROVE Owner(c, a)'
  <2>1. Serves(t) /\ caller[c].attempt = a
    BY <1>2, <1>3 DEF Owner, Settling, At
  <2>2. thread[t].result # "in_progress"
    BY <1>1, <2>1 DEF Serves, LockedPc, HandlerPc, MarkingPc
  <2> QED BY <1>1, <1>3, <2>1, <2>2 DEF Owner, Settling, At
<1>4. ASSUME NEW x \in Callers \ {c}, NEW b \in Attempts, Owner(x, b) PROVE Owner(x, b)'
  BY SMT, <1>0, <1>1, <1>4, OwnerStays DEF Serves
<1>5. RunningOwned'
  BY <1>1, <1>3, <1>4 DEF RunningOwned
<1>6. \A x \in Callers : Settling(x) => x # c
  BY <1>2 DEF Settling, At
<1>7. GivenUpOwned'
  BY SMT, <1>1, <1>6 DEF GivenUpOwned, Settling, At
<1> QED BY <1>5, <1>7

\* Settling ends the running of a row together with its owner, goes on to the
\* completion, or fails and leaves the row unsettled.
LEMMA SettleKeepsOwned ==
    ASSUME SubmissionInv, BackedInv, RunningOwned, GivenUpOwned, NEW c \in Callers,
           Settle(c) \/ Complete(c)
    PROVE  RunningOwned' /\ GivenUpOwned'
<1>0. PICK a : a = caller[c].attempt
  OBVIOUS
<1>a. /\ At(c, "settle") \/ At(c, "complete")
      /\ a \in Attempts
      /\ \A x \in Callers \ {c} : caller'[x] = caller[x]
      /\ UNCHANGED thread
      /\ Stays(c, a) \/ Fails(c, a) \/ Ends(c, a)
  BY <1>0, SettleEffect DEF storeVars
<1>1. /\ a \in Attempts
      /\ \A x \in Callers \ {c} : caller'[x] = caller[x]
      /\ UNCHANGED thread
      /\ \A b \in Attempts : row'[b].status = "running" =>
            row[b].status = "running" /\ (b \in unsettled => b \in unsettled')
      /\ \/ row'[a].status # "running" \/ a \in unsettled' \/ ~Settling(c)
         \/ Settling(c)' /\ caller'[c].attempt = a
  <2>1. CASE Stays(c, a)
    BY <1>a, <2>1 DEF Stays, Settling, At
  <2>2. CASE Fails(c, a)
    BY <1>a, <2>2 DEF Fails
  <2>3. CASE Ends(c, a)
    BY <1>a, <2>3 DEF Ends
  <2> QED BY <1>a, <2>1, <2>2, <2>3
<1>2. \A b \in Attempts : Owner(c, b) => b = a /\ Settling(c)
  BY <1>0, <1>a DEF Owner, Settling, At
<1>3. ASSUME NEW x \in Callers \ {c}, NEW b \in Attempts, Owner(x, b) PROVE Owner(x, b)'
  BY <1>1, <1>3, OwnerStays DEF Serves
<1>b. Settling(c)' /\ caller'[c].attempt = a => Owner(c, a)'
  BY DEF Owner
<1>4. RunningOwned'
  BY <1>1, <1>2, <1>3, <1>b DEF RunningOwned
<1>5. ASSUME NEW t \in Threads, thread'[t].pc # "idle", thread'[t].client \notin Callers,
             row'[thread'[t].attempt].status = "running", thread'[t].attempt \notin unsettled'
      PROVE  \E x \in Callers : caller'[x].attempt = thread'[t].attempt /\ Settling(x)'
  <2>1. thread[t].attempt \in Attempts
    BY <1>1, <1>5 DEF SubmissionInv, NamesAttempt
  <2>2. PICK x \in Callers : caller[x].attempt = thread[t].attempt /\ Settling(x)
    BY <1>1, <1>5, <2>1 DEF GivenUpOwned
  <2>3. CASE x # c
    BY <1>1, <2>2, <2>3 DEF Settling, At
  <2>4. CASE x = c
    BY <1>0, <1>1, <1>5, <2>2, <2>4
  <2> QED BY <2>3, <2>4
<1> QED BY <1>4, <1>5 DEF GivenUpOwned

\* Proposing touches no running row.
LEMMA ProposeKeepsOwned ==
    ASSUME SubmissionInv, BackedInv, RunningOwned, GivenUpOwned, NEW c \in Callers,
           LoadAgain(c) \/ Propose(c)
    PROVE  RunningOwned' /\ GivenUpOwned'
<1>1. /\ At(c, "propose") \/ At(c, "link")
      /\ UNCHANGED <<thread, row, unsettled>>
      /\ \A x \in Callers \ {c} : caller'[x] = caller[x]
  BY BecomePoints DEF LoadAgain, Propose, storeVars
<1>2. ~Settling(c) /\ \A b \in Attempts : ~Owner(c, b)
  BY <1>1 DEF Owner, Settling, At
<1>3. ASSUME NEW x \in Callers, NEW b \in Attempts, Owner(x, b) PROVE Owner(x, b)'
  BY <1>1, <1>2, <1>3, OwnerStays DEF Serves
<1>4. RunningOwned'
  BY <1>1, <1>3 DEF RunningOwned
<1>5. GivenUpOwned'
  BY SMT, <1>1, <1>2 DEF GivenUpOwned, Settling, At
<1> QED BY <1>4, <1>5

\* Rows and clients survive a harness crash.
LEMMA HarnessCrashKeepsOwned ==
    ASSUME SubmissionInv, BackedInv, RunningOwned, GivenUpOwned, HarnessCrash
    PROVE  RunningOwned' /\ GivenUpOwned'
<1>1. /\ \A t \in Threads : thread'[t].pc = "idle"
      /\ \A c \in Callers :
           \/ ~At(c, "waiting") /\ caller'[c] = caller[c]
           \/ /\ At(c, "waiting") /\ caller'[c].pc = "settle"
              /\ caller'[c].answer = "outcome_unknown"
              /\ caller'[c].attempt = caller[c].attempt
      /\ UNCHANGED <<row, unsettled>>
  BY SMT, HarnessCrashEffect DEF IdleThread
<1>2. ASSUME NEW c \in Callers, NEW b \in Attempts, Owner(c, b) PROVE Owner(c, b)'
  BY <1>1, <1>2 DEF Owner, Settling, At
<1> QED BY <1>1, <1>2 DEF RunningOwned, GivenUpOwned

\* No row runs at first.
LEMMA OwnedInvInit == Init => OwnedInv
<1> SUFFICES ASSUME Init PROVE OwnedInv
  OBVIOUS
<1>1. /\ \A t \in Threads : thread[t] = IdleThread
      /\ \A a \in Attempts : row[a] = NoRow
      /\ kernelCrashes = 0
  BY DEF Init, StoreInit
<1> QED BY SMT, <1>1 DEF OwnedInv, RunningOwned, GivenUpOwned, IdleThread, NoRow

\* Every step keeps running rows owned.
LEMMA OwnedInvStep ==
    SubmissionInv /\ BackedInv /\ OwnedInv /\ [Next]_vars => OwnedInv'
<1> SUFFICES ASSUME SubmissionInv, BackedInv, OwnedInv, [Next]_vars PROVE OwnedInv'
  OBVIOUS
<1>1. CASE KernelCrash
  BY SMT, <1>1 DEF KernelCrash, OwnedInv
<1>2. CASE ~KernelCrash
  <2>1. UNCHANGED kernelCrashes
    BY <1>2 DEF Next, Step, Submit, CallerStep, Send, Settle, Complete, LoadAgain, Propose,
                GiveUp, HarnessStep, Reply, LoseContent, HarnessCrash, vars, kernelVars
  <2> SUFFICES ASSUME RunningOwned, GivenUpOwned PROVE RunningOwned' /\ GivenUpOwned'
    BY <2>1 DEF OwnedInv
  <2>2. ASSUME NEW c \in Callers, NEW k \in Keys, Submit(c, k)
        PROVE  RunningOwned' /\ GivenUpOwned'
    BY <2>2, SubmitKeepsOwned
  <2>3. ASSUME NEW c \in Callers, CallerStep(c) \/ GiveUp(c)
        PROVE  RunningOwned' /\ GivenUpOwned'
    BY <2>3, SendKeepsOwned, SettleKeepsOwned, ProposeKeepsOwned, GiveUpKeepsOwned
       DEF CallerStep
  <2>4. ASSUME NEW t \in Threads, StoreStep(t) \/ DiskFault(t), UNCHANGED kernelVars
        PROVE  RunningOwned' /\ GivenUpOwned'
    <3>1. PICK g, d : Moved(t, g, d)
      BY <2>4, TryLockMoves, MarkMoves, EnterMoves, HandleMoves, ResultMoves, DiskFaultMoves
         DEF StoreStep
    <3> QED BY <2>4, <3>1, MovedKeepsOwned DEF kernelVars
  <2>5. ASSUME NEW t \in Threads, HarnessStep(t) \/ Reply(t)
        PROVE  RunningOwned' /\ GivenUpOwned'
    BY <2>4, <2>5, ReplyKeepsOwned DEF HarnessStep
  <2>6. ASSUME UNCHANGED <<thread, row, caller, unsettled>>
        PROVE  RunningOwned' /\ GivenUpOwned'
    BY SMT, <2>6 DEF RunningOwned, GivenUpOwned, Owner, Serves, Settling, At
  <2>7. ASSUME NEW a \in Attempts, LoseContent(a) PROVE RunningOwned' /\ GivenUpOwned'
    BY <2>6, <2>7 DEF LoseContent, kernelVars
  <2>8. CASE UNCHANGED vars
    BY <2>6, <2>8 DEF vars, storeVars, kernelVars
  <2> QED BY <1>2, <2>2, <2>3, <2>4, <2>5, <2>7, <2>8, HarnessCrashKeepsOwned DEF Next, Step
<1> QED BY <1>1, <1>2

\* While the Kernel has not restarted, every running attempt has a caller that
\* will settle it or had one whose settlement failed, for any number of callers,
\* threads, harness restarts and failed transactions.
THEOREM RunningAttemptsAreOwned == Spec => []RunningIsOwned
<1>1. OwnedInv => RunningIsOwned
  BY SMT DEF OwnedInv, RunningOwned, RunningIsOwned, Owner, Settling
<1> QED BY <1>1, SubmissionInvInit, SubmissionInvStep, BackedInvInit, BackedInvStep,
           OwnedInvInit, OwnedInvStep, PTL DEF Spec

-----------------------------------------------------------------------------
(* The rows of a message keep the submission contract. *)

Rejected == "definitively_rejected"
Statuses == {"none", "running", "succeeded", "outcome_unknown", Rejected}

\* The rows of message m in table r, and the slot they make.
RowsIn(r, m) == {a \in Attempts : r[a].status # "none" /\ KeyMessage[r[a].key] = m}
SlotIn(r, m) ==
    LET statuses == {r[a].status : a \in RowsIn(r, m)} IN
    CASE "running" \in statuses -> "busy"
      [] "succeeded" \in statuses -> "succeeded"
      [] "outcome_unknown" \in statuses -> "unknown"
      [] OTHER -> "open"

\* Attempts of a message are numbered; only the last may be other than rejected.
Numbered(r, m) ==
    /\ IsFiniteSet(RowsIn(r, m))
    /\ RowsIn(r, m) # {} =>
         \E a \in RowsIn(r, m) : \A b \in RowsIn(r, m) : r[b].sequence <= r[a].sequence
    /\ \A a, b \in RowsIn(r, m) :
         /\ r[a].sequence <= Cardinality(RowsIn(r, m))
         /\ r[a].sequence = r[b].sequence => a = b
         /\ r[a].status # Rejected => r[b].sequence <= r[a].sequence
SlotInv ==
    /\ \A a \in Attempts : row[a].status \in Statuses /\ row[a].sequence \in Nat
    /\ \A m \in Messages : Numbered(row, m)

\* At most one row of a message is other than rejected.
LEMMA OneLive ==
    ASSUME NEW r, NEW m, Numbered(r, m), \A x \in Attempts : r[x].sequence \in Nat,
           NEW a \in RowsIn(r, m), r[a].status # Rejected,
           NEW b \in RowsIn(r, m), b # a
    PROVE  r[b].status = Rejected
<1>1. r[a].sequence \in Nat /\ r[b].sequence \in Nat
  BY DEF RowsIn
<1>2. r[b].sequence <= r[a].sequence /\ r[a].sequence # r[b].sequence
  BY DEF Numbered
<1>3. r[b].status # Rejected => r[a].sequence <= r[b].sequence
  BY DEF Numbered
<1> QED BY SMT, <1>1, <1>2, <1>3

\* Once the last row is rejected, all are.
LEMMA LastRejected ==
    ASSUME SlotInv, NEW m \in Messages, Rows(m) # {}, row[Last(m)].status = Rejected
    PROVE  \A a \in Rows(m) : row[a].status = Rejected
<1>1. Rows(m) = RowsIn(row, m)
  BY DEF Rows, RowsIn
<1>2. \E a \in Rows(m) : \A b \in Rows(m) : row[b].sequence <= row[a].sequence
  BY SMT, <1>1 DEF SlotInv, Numbered
<1>3. Last(m) \in Rows(m) /\ \A b \in Rows(m) : row[b].sequence <= row[Last(m)].sequence
  BY <1>2 DEF Last
<1> SUFFICES ASSUME NEW a \in Rows(m), row[a].status # Rejected PROVE FALSE
  OBVIOUS
<1>4. row[Last(m)].sequence <= row[a].sequence
  BY SMT, <1>1, <1>3 DEF SlotInv, Numbered
<1>5. row[a].sequence \in Nat /\ row[Last(m)].sequence \in Nat
  BY <1>3 DEF Rows, SlotInv
<1>6. row[Last(m)].sequence = row[a].sequence
  BY SMT, <1>3, <1>4, <1>5
<1>7. Last(m) = a
  BY SMT, <1>1, <1>3, <1>6 DEF SlotInv, Numbered
<1> QED BY <1>7

\* The slot is what its one live row says.
LEMMA LiveSlot ==
    ASSUME NEW r, NEW m, NEW a \in RowsIn(r, m),
           \A b \in RowsIn(r, m) \ {a} : r[b].status = Rejected
    PROVE  /\ r[a].status = "running" => SlotIn(r, m) = "busy"
           /\ r[a].status = "succeeded" => SlotIn(r, m) = "succeeded"
           /\ r[a].status = "outcome_unknown" => SlotIn(r, m) = "unknown"
           /\ r[a].status = Rejected => SlotIn(r, m) = "open"
<1> DEFINE S == {r[x].status : x \in RowsIn(r, m)}
<1>1. r[a].status \in S /\ \A s \in S : s = r[a].status \/ s = Rejected
  OBVIOUS
<1> HIDE DEF S
<1>2. SlotIn(r, m) = CASE "running" \in S -> "busy"
                      [] "succeeded" \in S -> "succeeded"
                      [] "outcome_unknown" \in S -> "unknown"
                      [] OTHER -> "open"
  BY DEF SlotIn, S
<1>3. CASE r[a].status = "running"
  BY <1>1, <1>2, <1>3 DEF Rejected
<1>4. CASE r[a].status = "succeeded"
  BY <1>1, <1>2, <1>4 DEF Rejected
<1>5. CASE r[a].status = "outcome_unknown"
  BY <1>1, <1>2, <1>5 DEF Rejected
<1>6. CASE r[a].status = Rejected
  BY <1>1, <1>2, <1>6 DEF Rejected
<1> QED BY <1>3, <1>4, <1>5, <1>6 DEF Rejected

\* A slot whose rows are all rejected is open.
LEMMA OpenSlot ==
    ASSUME NEW r, NEW m, \A b \in RowsIn(r, m) : r[b].status = Rejected
    PROVE  SlotIn(r, m) = "open"
<1> DEFINE S == {r[x].status : x \in RowsIn(r, m)}
<1>1. \A s \in S : s = Rejected
  OBVIOUS
<1> HIDE DEF S
<1>2. SlotIn(r, m) = CASE "running" \in S -> "busy"
                      [] "succeeded" \in S -> "succeeded"
                      [] "outcome_unknown" \in S -> "unknown"
                      [] OTHER -> "open"
  BY DEF SlotIn, S
<1> QED BY <1>1, <1>2 DEF Rejected

\* Two tables with the same rows of a message make the same slot.
LEMMA SameSlot ==
    ASSUME NEW r, NEW q, NEW m, RowsIn(q, m) = RowsIn(r, m),
           \A a \in RowsIn(r, m) : q[a] = r[a]
    PROVE  SlotIn(q, m) = SlotIn(r, m) /\ (Numbered(r, m) => Numbered(q, m))
<1>1. {q[a].status : a \in RowsIn(q, m)} = {r[a].status : a \in RowsIn(r, m)}
  OBVIOUS
<1>2. SlotIn(q, m) = SlotIn(r, m)
  BY <1>1 DEF SlotIn
<1>3. Numbered(r, m) => Numbered(q, m)
  BY DEF Numbered
<1> QED BY <1>2, <1>3

\* The slot's moves: a new attempt makes an open slot busy, a settlement ends it.
SlotMove(r, q, m) == <<SlotIn(r, m), SlotIn(q, m)>> \in Contract!Moves
OthersStay(r, q, m) == \A n \in Messages \ {m} : SlotIn(q, n) = SlotIn(r, n)

\* Submitting fills a free slot and no other.
LEMMA SubmitMovesSlot ==
    ASSUME SubmissionInv, BackedInv, SlotInv, NEW c \in Callers, NEW k \in Keys, Submit(c, k)
    PROVE  /\ SlotInv'
           /\ row' = row \/ \E m \in Messages : SlotMove(row, row', m) /\ OthersStay(row, row', m)
<1> DEFINE m == KeyMessage[k]
           n == Cardinality(Rows(m)) + 1
<1>1. PICK a \in Attempts :
           /\ \A b \in Attempts \ {a} : row'[b] = row[b]
           /\ \/ row' = row
              \/ /\ row[a].status = "none"
                 /\ row'[a] = [status |-> "running", key |-> k, sequence |-> n]
                 /\ Rows(m) # {} => row[Last(m)].status = Rejected
  BY SubmitEffect DEF Rejected
<1>2. CASE row' = row
  BY <1>2 DEF SlotInv
<1>3. CASE row' # row
  <2>0. /\ row[a].status = "none" /\ m \in Messages
        /\ row'[a] = [status |-> "running", key |-> k, sequence |-> n]
        /\ Rows(m) # {} => row[Last(m)].status = Rejected
    BY <1>1, <1>3, SubmissionAssumption
  <2> HIDE DEF n
  <2>1. row'[a].status = "running" /\ row'[a].key = k /\ row'[a].sequence = n
    BY SMT, <2>0
  <2>2. Rows(m) = RowsIn(row, m) /\ IsFiniteSet(Rows(m)) /\ Cardinality(Rows(m)) \in Nat
    <3>1. Rows(m) = RowsIn(row, m)
      BY DEF Rows, RowsIn
    <3> QED BY <2>0, <3>1, FS_CardinalityType DEF SlotInv, Numbered
  <2>3. \A x \in Rows(m) : row[x].status = Rejected
    BY <2>0, LastRejected
  <2>4. a \notin Rows(m) /\ RowsIn(row', m) = Rows(m) \union {a}
    BY <1>1, <2>0, <2>1 DEF Rows, RowsIn
  <2>5. /\ IsFiniteSet(RowsIn(row', m))
        /\ Cardinality(RowsIn(row', m)) = n /\ n \in Nat /\ n > Cardinality(Rows(m))
    BY SMT, <2>2, <2>4, FS_AddElement DEF n
  <2>6. \A x \in Rows(m) : /\ row'[x] = row[x] /\ row[x].sequence \in Nat
                           /\ row[x].sequence < n
    <3>1. \A x \in Rows(m) : /\ row'[x] = row[x] /\ row[x].sequence \in Nat
                             /\ row[x].sequence <= Cardinality(Rows(m))
      BY <1>1, <2>0, <2>2, <2>4 DEF SlotInv, Numbered, Rows
    <3> QED BY SMT, <2>2, <2>5, <3>1
  <2>7. Numbered(row', m)
    <3>1. \A x \in RowsIn(row', m) : row'[x].sequence <= row'[a].sequence
      BY SMT, <2>1, <2>4, <2>5, <2>6
    <3>2. \A x, y \in RowsIn(row', m) :
              /\ row'[x].sequence <= n
              /\ row'[x].sequence = row'[y].sequence => x = y
      <4>1. \A x, y \in Rows(m) : row[x].sequence = row[y].sequence => x = y
        BY SMT, <2>0, <2>2 DEF SlotInv, Numbered
      <4> QED BY SMT, <2>1, <2>4, <2>5, <2>6, <4>1
    <3>3. \A x \in RowsIn(row', m) : row'[x].status # Rejected => x = a
      BY <2>3, <2>4, <2>6
    <3> QED BY <2>4, <2>5, <3>1, <3>2, <3>3 DEF Numbered
  <2>8. \A w \in Messages \ {m} :
           RowsIn(row', w) = RowsIn(row, w) /\ \A x \in RowsIn(row, w) : row'[x] = row[x]
    BY SMT, <1>1, <2>0, <2>1 DEF RowsIn
  <2>9. OthersStay(row, row', m) /\ \A w \in Messages \ {m} : Numbered(row', w)
    BY <2>8, SameSlot DEF OthersStay, SlotInv
  <2>10. SlotInv'
    <3>1. \A x \in Attempts : row'[x].status \in Statuses /\ row'[x].sequence \in Nat
      BY <1>1, <2>1, <2>5 DEF SlotInv, Statuses
    <3> QED BY <2>7, <2>9, <3>1 DEF SlotInv
  <2>11. SlotIn(row, m) = "open"
    BY <2>2, <2>3, OpenSlot
  <2>12. SlotIn(row', m) = "busy"
    <3>1. a \in RowsIn(row', m) /\ \A b \in RowsIn(row', m) \ {a} : row'[b].status = Rejected
      BY <2>3, <2>4, <2>6
    <3> QED BY <2>1, <3>1, LiveSlot
  <2> QED BY <2>0, <2>9, <2>10, <2>11, <2>12 DEF SlotMove, Contract!Moves
<1> QED BY <1>2, <1>3

\* Settling is a step of the contract on one slot, or none.
LEMMA SettleMovesSlot ==
    ASSUME SubmissionInv, BackedInv, SlotInv, NEW c \in Callers, Settle(c) \/ Complete(c)
    PROVE  /\ SlotInv'
           /\ row' = row \/ \E m \in Messages : SlotMove(row, row', m) /\ OthersStay(row, row', m)
<1>0. PICK a : a = caller[c].attempt
  OBVIOUS
<1>1. /\ a \in Attempts /\ \A b \in Attempts \ {a} : row'[b] = row[b]
      /\ IsRow(row'[a]) /\ row'[a].key = row[a].key /\ row'[a].sequence = row[a].sequence
      /\ \/ row'[a].status = row[a].status
         \/ /\ row[a].status = "running"
            /\ row'[a].status \in {"succeeded", "outcome_unknown", Rejected}
      /\ row' = [b \in Attempts |-> row'[b]]
      /\ row = [b \in Attempts |-> row[b]] /\ IsRow(row[a])
  <2>1. /\ a \in Attempts /\ row' = [b \in Attempts |-> row'[b]]
        /\ Stays(c, a) \/ Fails(c, a) \/ Ends(c, a)
    BY <1>0, SettleEffect
  <2>2. row = [b \in Attempts |-> row[b]] /\ IsRow(row[a])
    BY <2>1 DEF BackedInv, RowsKnown
  <2>3. CASE UNCHANGED row
    BY <2>1, <2>2, <2>3
  <2>4. CASE Ends(c, a)
    BY <2>1, <2>2, <2>4 DEF Ends, Rejected
  <2> QED BY <2>1, <2>3, <2>4 DEF Stays, Fails
<1>2. CASE row'[a].status = row[a].status
  <2>1. row'[a] = row[a]
    BY <1>1, <1>2 DEF IsRow
  <2>2. row' = row
    BY <1>1, <2>1
  <2> QED BY <2>2 DEF SlotInv
<1>3. CASE row'[a].status # row[a].status
  <2>0. /\ row[a].status = "running"
        /\ row'[a].status \in {"succeeded", "outcome_unknown", Rejected}
        /\ row[a].key \in Keys
    BY <1>1, <1>3 DEF BackedInv, RowsKnown
  <2>1. PICK m \in Messages : m = KeyMessage[row[a].key]
    BY <2>0, SubmissionAssumption
  <2>2. RowsIn(row', m) = RowsIn(row, m) /\ a \in RowsIn(row, m)
    BY SMT, <1>1, <2>0, <2>1 DEF RowsIn, Rejected
  <2>3. Numbered(row, m) /\ \A x \in Attempts : row[x].sequence \in Nat
    BY DEF SlotInv
  <2>4. \A b \in RowsIn(row, m) \ {a} : row[b].status = Rejected /\ row'[b] = row[b]
    <3>1. \A b \in RowsIn(row, m) \ {a} : row'[b] = row[b]
      BY <1>1 DEF RowsIn
    <3>2. row[a].status # Rejected
      BY <2>0 DEF Rejected
    <3> QED BY <2>2, <2>3, <3>1, <3>2, OneLive
  <2>5. \A b \in RowsIn(row, m) : row'[b].sequence = row[b].sequence
    BY <1>1, <2>4
  <2>6. \A b \in RowsIn(row, m) : row[b].sequence <= row[a].sequence
    BY <2>0, <2>2, <2>3 DEF Numbered, Rejected
  <2>7. Numbered(row', m)
    BY <2>2, <2>3, <2>4, <2>5, <2>6 DEF Numbered
  <2>8. \A w \in Messages \ {m} :
           RowsIn(row', w) = RowsIn(row, w) /\ \A x \in RowsIn(row, w) : row'[x] = row[x]
    BY SMT, <1>1, <2>0, <2>1 DEF RowsIn, Rejected
  <2>9. OthersStay(row, row', m) /\ \A w \in Messages \ {m} : Numbered(row', w)
    BY <2>8, SameSlot DEF OthersStay, SlotInv
  <2>10. SlotInv'
    <3>1. \A x \in Attempts : row'[x].status \in Statuses /\ row'[x].sequence \in Nat
      BY <1>1, <2>0 DEF SlotInv, Statuses
    <3> QED BY <2>7, <2>9, <3>1 DEF SlotInv
  <2>11. SlotIn(row, m) = "busy"
    BY <2>0, <2>2, <2>4, LiveSlot
  <2>12. SlotIn(row', m) \in {"succeeded", "unknown", "open"}
    <3>1. a \in RowsIn(row', m) /\ \A b \in RowsIn(row', m) \ {a} : row'[b].status = Rejected
      BY <2>2, <2>4
    <3> QED BY <2>0, <3>1, LiveSlot
  <2> QED BY <2>9, <2>10, <2>11, <2>12 DEF SlotMove, Contract!Moves
<1> QED BY <1>2, <1>3

\* Slots are empty at first.
LEMMA SlotInvInit == Init => SlotInv /\ Contract!Init
<1> SUFFICES ASSUME Init PROVE SlotInv /\ Contract!Init
  OBVIOUS
<1>1. \A a \in Attempts : row[a].status = "none" /\ row[a].sequence = 0
  BY DEF Init, NoRow
<1>2. \A m \in Messages : RowsIn(row, m) = {} /\ SlotOf(m) = SlotIn(row, m)
  BY <1>1 DEF RowsIn, SlotOf, SlotIn, Rows
<1>3. SlotInv
  BY SMT, <1>1, <1>2, FS_EmptySet DEF SlotInv, Numbered, Statuses
<1>4. \A m \in Messages : SlotOf(m) = "open"
  BY <1>2, OpenSlot
<1> QED BY <1>3, <1>4 DEF Contract!Init

\* Every step keeps slots and rows in agreement.
LEMMA SlotInvStep ==
    SubmissionInv /\ BackedInv /\ SlotInv /\ [Next]_vars
      => SlotInv' /\ [Contract!Next]_[m \in Messages |-> SlotOf(m)]
<1> DEFINE slots == [m \in Messages |-> SlotOf(m)]
           Moved1 == row' = row \/ \E m \in Messages :
                        SlotMove(row, row', m) /\ OthersStay(row, row', m)
<1> SUFFICES ASSUME SubmissionInv, BackedInv, SlotInv, [Next]_vars
             PROVE  SlotInv' /\ [Contract!Next]_slots
  OBVIOUS
<1>1. SlotInv' /\ Moved1
  <2>1. ASSUME NEW c \in Callers, NEW k \in Keys, Submit(c, k) PROVE SlotInv' /\ Moved1
    BY <2>1, SubmitMovesSlot
  <2>2. ASSUME NEW c \in Callers, Settle(c) \/ Complete(c) PROVE SlotInv' /\ Moved1
    BY <2>2, SettleMovesSlot
  <2>3. ASSUME UNCHANGED row PROVE SlotInv' /\ Moved1
    BY <2>3 DEF SlotInv
  <2> HIDE DEF Moved1
  <2>4. CASE UNCHANGED vars
    BY <2>3, <2>4 DEF vars, kernelVars
  <2> QED BY <2>1, <2>2, <2>3, <2>4
          DEF Next, Step, CallerStep, Send, GiveUp, LoadAgain, Propose, HarnessStep, Reply,
              LoseContent, KernelCrash, HarnessCrash, kernelVars
<1>2. \A m \in Messages : slots[m] = SlotIn(row, m) /\ slots'[m] = SlotIn(row', m)
  BY DEF SlotOf, SlotIn, Rows, RowsIn
<1>3. CASE row' = row
  BY SMT, <1>1, <1>3 DEF SlotOf, Rows
<1>4. ASSUME NEW m \in Messages, SlotMove(row, row', m), OthersStay(row, row', m)
      PROVE  Contract!Next
  <2>1. <<slots[m], slots'[m]>> \in Contract!Moves
    BY <1>2, <1>4 DEF SlotMove
  <2>2. \A n \in Messages \ {m} : slots'[n] = slots[n]
    BY <1>2, <1>4 DEF OthersStay
  <2> HIDE DEF slots
  <2> QED BY <2>1, <2>2 DEF Contract!Next, slots
<1> QED BY <1>1, <1>3, <1>4

\* Any interleaving of callers, harness threads and crashes implements the
\* submission contract: one attempt of a message at a time, a further one only
\* after a definitive rejection.
THEOREM SubmissionsKeepTheContract == Spec => ContractSpec
<1> QED BY SubmissionInvInit, SubmissionInvStep, BackedInvInit, BackedInvStep, SlotInvInit,
           SlotInvStep, PTL DEF Spec, ContractSpec, Contract!Spec

\* A message gets another attempt only after the harness has rejected the one
\* before, durably and with no thread in its handler, for any number of callers,
\* threads, crashes, lost calls and faults of the disk.
THEOREM RetriesFollowRejections == Spec => []RejectedBeforeNext
<1>1. ASSUME SubmissionInv, BackedInv, SlotInv PROVE RejectedBeforeNext
  <2> SUFFICES ASSUME NEW m \in Messages, NEW a \in Rows(m), NEW b \in Rows(m),
                      row[a].sequence < row[b].sequence
               PROVE  /\ dir[a].result = "definitively_rejected"
                      /\ \A t \in Threads : thread[t].attempt = a =>
                            thread[t].pc \in {"idle", "lock", "answer"}
    BY DEF RejectedBeforeNext
  <2>1. a \in Attempts /\ b \in Attempts /\ a \in RowsIn(row, m) /\ b \in RowsIn(row, m)
    BY DEF Rows, RowsIn
  <2>2. row[a].status # Rejected => row[b].sequence <= row[a].sequence
    BY <1>1, <2>1 DEF SlotInv, Numbered
  <2>3. row[a].sequence \in Nat /\ row[b].sequence \in Nat
    BY <1>1, <2>1 DEF SlotInv
  <2>4. row[a].status = Rejected
    BY SMT, <2>2, <2>3
  <2>5. dir[a].result = "definitively_rejected"
    BY <1>1, <2>1, <2>4 DEF BackedInv, SuccessBacked, Definite, Rejected
  <2>6. "definitively_rejected" \in Results
    BY DEF Results
  <2>7. ASSUME NEW t \in Threads, thread[t].attempt = a
        PROVE  thread[t].pc \in {"idle", "lock", "answer"}
    <3>1. ThreadBacked(thread[t])
      BY <1>1 DEF BackedInv, ResultsBacked
    <3> QED BY <2>5, <2>6, <2>7, <3>1 DEF ThreadBacked
  <2> QED BY <2>5, <2>7
<1>2. Init => SlotInv
  BY SlotInvInit
<1>3. SubmissionInv /\ BackedInv /\ SlotInv /\ [Next]_vars => SlotInv'
  BY SlotInvStep
<1> QED BY <1>1, <1>2, <1>3, SubmissionInvInit, SubmissionInvStep, BackedInvInit,
           BackedInvStep, PTL DEF Spec
=============================================================================
