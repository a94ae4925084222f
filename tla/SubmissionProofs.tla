-------------------------- MODULE SubmissionProofs -------------------------
(***************************************************************************)
(* The submission store and the Kernel's rows, for any number of callers,  *)
(* threads, attempts, crashes and disk faults.                             *)
(*                                                                         *)
(* SubmissionInv: a thread past the lock holds the lock file of its        *)
(* attempt, so two threads are never between the marker and the handler of *)
(* one attempt.  The marker is durable before the handler is entered, and  *)
(* a thread that finds it goes to seal; so an attempt without a marker, or *)
(* whose thread is still marking it, has not been entered.                 *)
(*                                                                         *)
(* BackedInv: what a thread is about to write has happened, and what the   *)
(* Kernel holds of a success is durable in the harness.                    *)
(***************************************************************************)
EXTENDS CodingSubmission, TLAPS

\* The leaves are for Zenon; a leaf that needs arithmetic, or that Zenon does not
\* find in time, cites SMT.
USE Zenon

HandlerPc == {"plan", "fixture", "generate", "probe", "materialize", "gates",
              "store_artifact", "build_manifest", "store_evidence"}
MarkingPc == {"mark", "marked", "enter"}
LockedPc == HandlerPc \union MarkingPc \union {"seal", "sealed", "finish", "finished"}

IsThread(g) ==
    g = [pc |-> g.pc, attempt |-> g.attempt, client |-> g.client, kind |-> g.kind,
         result |-> g.result, calls |-> g.calls, left |-> g.left,
         version |-> g.version, stored |-> g.stored, gated |-> g.gated]
IsCaller(c) == c = [pc |-> c.pc, attempt |-> c.attempt, answer |-> c.answer]
IsDir(d) == d = [request |-> d.request, result |-> d.result, lock |-> d.lock]

Shapes ==
    /\ thread = [t \in Threads |-> thread[t]]
    /\ \A t \in Threads : IsThread(thread[t])
    /\ caller = [c \in Callers |-> caller[c]]
    /\ \A c \in Callers : IsCaller(caller[c])
    /\ dir = [a \in Attempts |-> dir[a]]
    /\ \A a \in Attempts : IsDir(dir[a])
    /\ entered \in [Attempts -> Nat]

NamesAttempt ==
    /\ \A c \in Callers : At(c, "execute") => caller[c].attempt \in Attempts
    /\ \A t \in Threads : thread[t].pc # "idle" => thread[t].attempt \in Attempts

LockedByOwner ==
    \A t \in Threads : thread[t].pc \in LockedPc => dir[thread[t].attempt].lock = t

MarkedBeforeEntered ==
    /\ \A t \in Threads : thread[t].pc \in MarkingPc => entered[thread[t].attempt] = 0
    /\ \A t \in Threads : thread[t].pc = "enter" => dir[thread[t].attempt].request = "json"
    /\ \A a \in Attempts : dir[a].request # "json" => entered[a] = 0
    /\ \A a \in Attempts : entered[a] <= 1

\* The inductive invariant.
SubmissionInv == Shapes /\ NamesAttempt /\ LockedByOwner /\ MarkedBeforeEntered

\* It holds while no thread runs and no directory exists.
LEMMA SubmissionInvInit == Init => SubmissionInv
<1> SUFFICES ASSUME Init PROVE SubmissionInv
  OBVIOUS
<1> USE DEF Init, StoreInit, IdleThread, IdleCaller
<1>1. Shapes
  BY DEF Shapes, IsThread, IsCaller, IsDir
<1>2. NamesAttempt
  BY DEF NamesAttempt, At
<1>3. LockedByOwner
  BY DEF LockedByOwner, LockedPc, HandlerPc, MarkingPc
<1>4. MarkedBeforeEntered
  BY SMT DEF MarkedBeforeEntered, MarkingPc
<1> QED BY <1>1, <1>2, <1>3, <1>4 DEF SubmissionInv

\* A step of the handler stays in the handler or finishes it with a result, for
\* its attempt and its caller.
Continues(g, h) ==
    /\ IsThread(h)
    /\ h.attempt = g.attempt /\ h.client = g.client /\ h.kind = g.kind
    /\ \/ h.pc \in HandlerPc /\ h.result = g.result
       \/ h.pc = "finish" /\ h.result \in {"succeeded", "definitively_rejected"}

\* It has neither passed the gates nor succeeded.
GatedPc == {"store_artifact", "build_manifest", "store_evidence"}
Ungated(h) == h.pc \notin GatedPc /\ (h.pc = "finish" => h.result # "succeeded")

\* Returning finishes it.
LEMMA ReturnContinues ==
    ASSUME NEW g, IsThread(g), NEW r \in {"succeeded", "definitively_rejected"}
    PROVE  /\ Continues(g, Return(g, r))
           /\ r # "succeeded" => Ungated(Return(g, r))
<1>1. PICK f, s : Return(g, r) = [g EXCEPT !.pc = "finish", !.result = r, !.calls = 0,
                                  !.left = 0, !.version = "default", !.gated = f,
                                  !.stored = s]
  BY Zenon DEF Return
<1>2. PICK h : h = Return(g, r)
  OBVIOUS
<1>3. IsThread(h) /\ h.attempt = g.attempt /\ h.client = g.client /\ h.kind = g.kind
  BY <1>1, <1>2 DEF IsThread
<1>4. h.pc = "finish" /\ h.result = r
  BY <1>1, <1>2 DEF IsThread
<1> QED BY <1>2, <1>3, <1>4 DEF Continues, Ungated, GatedPc

\* So does an error.
LEMMA ErrorContinues ==
    ASSUME NEW g, IsThread(g) PROVE Continues(g, error(g)) /\ Ungated(error(g))
BY ReturnContinues DEF error

\* An object put in the content store keeps the handler going.
LEMMA StoreContinues ==
    ASSUME NEW g, IsThread(g), NEW what, NEW next \in HandlerPc,
           NEW h \in Store(g, what, next)
    PROVE  Continues(g, h)
<1>1. h = error(g) \/ h = [g EXCEPT !.pc = next, !.stored = @ \union {what}]
  BY DEF Store
<1>2. CASE h = error(g)
  BY <1>2, ErrorContinues
<1>3. CASE h = [g EXCEPT !.pc = next, !.stored = @ \union {what}]
  BY <1>3 DEF IsThread, Continues
<1> QED BY <1>1, <1>2, <1>3

\* The gates accept a candidate only if it really passed all five.
LEMMA AcceptedPassed ==
    ASSUME NEW kind \in Kinds, NEW o \in GateOutcomes[kind], o.accepted
    PROVE  o.gated
<1>1. PICK w \in Worlds : o = [accepted |-> AllPassed(kind, w),
                               gated |-> PassedGates(kind, w) = 1..5]
  BY DEF GateOutcomes, GateRuns
<1>2. AllPassed(kind, w) /\ w.changed \in 1..6
  BY <1>1 DEF Worlds
<1>3. PassedGates(kind, w) \subseteq 1..5
  <2>1. PassedGates(kind, w) \subseteq 1..(w.changed - 1)
    BY Zenon DEF PassedGates
  <2> QED BY SMT, <1>2, <2>1
<1>4. PassedGates(kind, w) = 1..5
  BY <1>2, <1>3 DEF AllPassed
<1> QED BY <1>1, <1>4

\* The generators' loops: a call, its answer, and what the probes make of it.
LEMMA GenerateContinues ==
    ASSUME NEW g, IsThread(g), g.pc \in HandlerPc \ GatedPc,
           NEW h \in retry_model_output(g) \union generate_new(g)
                     \union verify_candidate(g) \union verify_frozen_candidate(g)
    PROVE  Continues(g, h) /\ Ungated(h)
<1> DEFINE called == [g EXCEPT !.calls = @ + 1]
<1>0. /\ IsThread(called) /\ called.attempt = g.attempt /\ called.pc = g.pc
      /\ called.client = g.client /\ called.kind = g.kind /\ called.result = g.result
  BY SMT DEF IsThread
<1>1. /\ Continues(g, error(called)) /\ Ungated(error(called))
      /\ Continues(g, error(g)) /\ Ungated(error(g))
  BY <1>0, ErrorContinues DEF Continues
<1>2. CASE h \in retry_model_output(g)
  <2>1. \/ h = error(called)
        \/ h = [called EXCEPT !.pc = "probe"]
        \/ h = [called EXCEPT !.left = @ - 1]
    BY <1>2 DEF retry_model_output
  <2> HIDE DEF called
  <2> QED BY SMT, <1>0, <1>1, <2>1 DEF Continues, Ungated, IsThread, HandlerPc, GatedPc
<1>3. CASE h \in generate_new(g)
  <2>1. h = error(called) \/ h = [called EXCEPT !.pc = "probe"] \/ h = called
    BY <1>3 DEF generate_new
  <2> HIDE DEF called
  <2> QED BY <1>0, <1>1, <2>1 DEF Continues, Ungated, IsThread, HandlerPc, GatedPc
<1>4. CASE h \in verify_candidate(g)
  <2>1. h = error(g) \/ h = Verified(g) \/ h = [g EXCEPT !.pc = "generate"]
    BY <1>4 DEF verify_candidate
  <2> QED BY <1>1, <2>1 DEF Verified, Continues, Ungated, IsThread, HandlerPc, GatedPc
<1>5. CASE h \in verify_frozen_candidate(g)
  <2>1. \/ h = error(g) \/ h = Verified(g)
        \/ h = [g EXCEPT !.pc = "generate", !.left = TOTAL_MODEL_CALL_BUDGET - g.calls]
    BY <1>5 DEF verify_frozen_candidate
  <2> QED BY <1>1, <2>1 DEF Verified, Continues, Ungated, IsThread, HandlerPc, GatedPc
<1> QED BY <1>2, <1>3, <1>4, <1>5

\* The plan, the materialised candidate and the gates.
LEMMA PlanContinues ==
    ASSUME NEW g, IsThread(g),
           NEW h \in plan(g) \union fixture(g) \union materialize_service(g)
                     \union materialize_capability(g) \union run_all_gates(g)
    PROVE  /\ Continues(g, h)
           /\ g.kind \in Kinds => Ungated(h) \/ (h.gated /\ h.pc = "store_artifact")
<1>1. Continues(g, error(g)) /\ Ungated(error(g))
  BY ErrorContinues
<1>2. CASE h \in plan(g)
  <2>1. PICK n : \/ h = error(g) \/ h = [g EXCEPT !.pc = "fixture"]
                 \/ h = [g EXCEPT !.pc = "generate", !.left = n]
    BY <1>2 DEF plan
  <2> QED BY <1>1, <2>1 DEF Continues, Ungated, IsThread, HandlerPc, GatedPc
<1>3. CASE h \in fixture(g) \union materialize_service(g) \union materialize_capability(g)
  <2>1. h = error(g) \/ h = [g EXCEPT !.pc = "gates"]
    BY <1>3 DEF fixture, materialize_service, materialize_capability
  <2> QED BY <1>1, <2>1 DEF Continues, Ungated, IsThread, HandlerPc, GatedPc
<1>4. CASE h \in run_all_gates(g)
  <2>1. CASE h = error(g)
    BY <1>1, <2>1
  <2>2. CASE \E o \in GateOutcomes[g.kind] :
                o.accepted /\ h = [g EXCEPT !.pc = "store_artifact", !.gated = o.gated]
    <3>1. PICK o \in GateOutcomes[g.kind] :
                o.accepted /\ h = [g EXCEPT !.pc = "store_artifact", !.gated = o.gated]
      BY <2>2
    <3>2. PICK b : b = o.gated /\ h = [g EXCEPT !.pc = "store_artifact", !.gated = b]
      BY <3>1
    <3>3. Continues(g, h) /\ h.pc = "store_artifact" /\ h.gated = b
      BY <3>2 DEF Continues, IsThread, HandlerPc
    <3>4. g.kind \in Kinds => b
      BY <3>1, <3>2, AcceptedPassed
    <3> QED BY <3>3, <3>4
  <2> QED BY <1>4, <2>1, <2>2 DEF run_all_gates
<1> QED BY <1>2, <1>3, <1>4

\* The manifest, with the version the deployed one allows.
LEMMA ManifestContinues ==
    ASSUME NEW g, IsThread(g), NEW h \in BuildManifest(g) \union StoreEvidence(g)
    PROVE  Continues(g, h)
<1>1. "store_evidence" \in HandlerPc
  BY DEF HandlerPc
<1>2. CASE h \in StoreEvidence(g)
  BY <1>2, ErrorContinues, ReturnContinues DEF StoreEvidence
<1>3. CASE h \in Store(g, "manifest", "store_evidence")
  BY <1>1, <1>3, StoreContinues
<1>4. CASE \E f \in allocate_next_version(g) :
              h \in Store(f, "manifest", "store_evidence") \union {error(f)}
  <2>1. PICK f \in allocate_next_version(g) :
              h \in Store(f, "manifest", "store_evidence") \union {error(f)}
    BY <1>4
  <2>2. PICK v : f = [g EXCEPT !.version = v]
    BY <2>1 DEF allocate_next_version
  <2>3. /\ IsThread(f) /\ f.attempt = g.attempt
        /\ f.client = g.client /\ f.kind = g.kind /\ f.result = g.result
    BY <2>2 DEF IsThread
  <2>4. Continues(f, h)
    BY <1>1, <2>1, <2>3, ErrorContinues, StoreContinues
  <2> QED BY <2>3, <2>4 DEF Continues
<1> QED BY <1>2, <1>3, <1>4 DEF BuildManifest

\* What handle_submit_once may do next.
LEMMA HandlerContinues ==
    ASSUME NEW g, IsThread(g), NEW h \in handle_submit_once(g)
    PROVE  /\ g.pc \in HandlerPc /\ Continues(g, h)
           /\ g.kind \in Kinds =>
                 g.pc \in GatedPc \/ Ungated(h) \/ (h.gated /\ h.pc = "store_artifact")
<1>1. g.pc \in HandlerPc
  BY DEF handle_submit_once, HandlerPc
<1>2. \/ g.pc \notin GatedPc /\ h \in retry_model_output(g) \union generate_new(g)
              \union verify_candidate(g) \union verify_frozen_candidate(g)
      \/ h \in plan(g) \union fixture(g) \union materialize_service(g)
              \union materialize_capability(g) \union run_all_gates(g)
      \/ g.pc \in GatedPc /\ h \in BuildManifest(g) \union StoreEvidence(g)
      \/ g.pc \in GatedPc /\ h \in Store(g, "artifact", "build_manifest")
  BY DEF handle_submit_once, GatedPc
<1>3. "build_manifest" \in HandlerPc
  BY DEF HandlerPc
<1> QED BY <1>1, <1>2, <1>3, GenerateContinues, PlanContinues, ManifestContinues, StoreContinues

-----------------------------------------------------------------------------
(* The store's steps. *)

\* A thread that holds the lock goes on holding it.
LEMMA StaysLocked ==
    ASSUME SubmissionInv, NEW t \in Threads, NEW g, NEW d,
           IsThread(g), IsDir(d),
           thread[t].pc \in LockedPc, g.pc \in LockedPc,
           g.attempt = thread[t].attempt,
           d.lock = dir[g.attempt].lock,
           g.pc \in MarkingPc => thread[t].pc \in MarkingPc,
           g.pc = "enter" => d.request = "json",
           d.request # "json" => dir[g.attempt].request # "json" \/ thread[t].pc \in MarkingPc,
           thread' = [thread EXCEPT ![t] = g],
           dir' = [dir EXCEPT ![g.attempt] = d],
           UNCHANGED <<caller, entered>>
    PROVE  SubmissionInv'
<1> DEFINE a == g.attempt
<1> USE DEF SubmissionInv
<1>0. a \in Attempts
  BY DEF NamesAttempt, LockedPc, HandlerPc, MarkingPc
<1>1. Shapes'
  BY DEF Shapes
<1>2. \A u \in Threads \ {t} : thread'[u] = thread[u]
  BY DEF Shapes
<1>3. thread'[t] = g
  BY DEF Shapes
<1>4. dir'[a] = d /\ \A b \in Attempts \ {a} : dir'[b] = dir[b]
  BY <1>0 DEF Shapes
<1>5. NamesAttempt'
  BY <1>0, <1>2, <1>3 DEF NamesAttempt, At
<1>6. \A u \in Threads \ {t} : thread[u].pc \in LockedPc => thread[u].attempt # a
  BY DEF LockedByOwner
<1>7. \A u \in Threads : thread[u].pc \in LockedPc => thread[u].attempt \in Attempts
  BY DEF NamesAttempt, LockedPc, HandlerPc, MarkingPc
<1>8. LockedByOwner'
  BY SMT, <1>2, <1>3, <1>4, <1>6, <1>7 DEF LockedByOwner
<1>9. MarkingPc \subseteq LockedPc /\ "enter" \in MarkingPc
  BY DEF LockedPc, MarkingPc
<1>10. MarkedBeforeEntered'
  <2>1. \A u \in Threads : thread'[u].pc \in MarkingPc => entered[thread'[u].attempt] = 0
    BY SMT, <1>2, <1>3 DEF MarkedBeforeEntered
  <2>2. \A u \in Threads : thread'[u].pc = "enter" => dir'[thread'[u].attempt].request = "json"
    BY SMT, <1>2, <1>3, <1>4, <1>6, <1>7, <1>9 DEF MarkedBeforeEntered
  <2>3. \A b \in Attempts : dir'[b].request # "json" => entered[b] = 0
    BY SMT, <1>0, <1>4 DEF MarkedBeforeEntered
  <2> QED BY <2>1, <2>2, <2>3 DEF MarkedBeforeEntered
<1> QED BY <1>1, <1>5, <1>8, <1>10

\* A thread that holds the lock answers and releases it.
LEMMA Releases ==
    ASSUME SubmissionInv, NEW t \in Threads, NEW g, NEW d,
           IsThread(g), IsDir(d),
           thread[t].pc \in LockedPc, g.pc = "answer",
           g.attempt = thread[t].attempt,
           d.request # "json" => dir[g.attempt].request # "json" \/ thread[t].pc \in MarkingPc,
           thread' = [thread EXCEPT ![t] = g],
           dir' = [dir EXCEPT ![g.attempt] = d],
           UNCHANGED <<caller, entered>>
    PROVE  SubmissionInv'
<1> DEFINE a == g.attempt
<1> USE DEF SubmissionInv
<1>0. a \in Attempts
  BY DEF NamesAttempt, LockedPc, HandlerPc, MarkingPc
<1>1. Shapes'
  BY DEF Shapes
<1>2. \A u \in Threads \ {t} : thread'[u] = thread[u]
  BY DEF Shapes
<1>3. thread'[t] = g
  BY DEF Shapes
<1>4. dir'[a] = d /\ \A b \in Attempts \ {a} : dir'[b] = dir[b]
  BY <1>0 DEF Shapes
<1>5. NamesAttempt'
  BY <1>0, <1>2, <1>3 DEF NamesAttempt, At
<1>6. \A u \in Threads \ {t} : thread[u].pc \in LockedPc => thread[u].attempt # a
  BY DEF LockedByOwner
<1>7. \A u \in Threads : thread[u].pc \in LockedPc => thread[u].attempt \in Attempts
  BY DEF NamesAttempt, LockedPc, HandlerPc, MarkingPc
<1>8. thread'[t].pc \notin LockedPc
  BY <1>3 DEF LockedPc, HandlerPc, MarkingPc
<1>9. LockedByOwner'
  BY SMT, <1>2, <1>4, <1>6, <1>7, <1>8 DEF LockedByOwner
<1>10. MarkingPc \subseteq LockedPc /\ "enter" \in MarkingPc
  BY DEF LockedPc, MarkingPc
<1>11. MarkedBeforeEntered'
  <2>1. \A u \in Threads : thread'[u].pc \in MarkingPc => entered[thread'[u].attempt] = 0
    BY SMT, <1>2, <1>8, <1>10 DEF MarkedBeforeEntered
  <2>2. \A u \in Threads : thread'[u].pc = "enter" => dir'[thread'[u].attempt].request = "json"
    BY SMT, <1>2, <1>4, <1>6, <1>7, <1>8, <1>10 DEF MarkedBeforeEntered
  <2>3. \A b \in Attempts : dir'[b].request # "json" => entered[b] = 0
    BY SMT, <1>0, <1>4 DEF MarkedBeforeEntered
  <2> QED BY <2>1, <2>2, <2>3 DEF MarkedBeforeEntered
<1> QED BY <1>1, <1>5, <1>9, <1>11

\* A thread that holds no lock comes to hold none, or leaves the handler's
\* threads and directories as they are.
LEMMA KeepsLocks ==
    ASSUME SubmissionInv, Shapes', NamesAttempt', entered' = entered,
           \A t \in Threads : thread'[t].pc \in LockedPc =>
               thread'[t].pc = thread[t].pc /\ thread'[t].attempt = thread[t].attempt,
           \A a \in Attempts : dir'[a].request = dir[a].request,
           \A a \in Attempts : dir[a].lock \in Threads /\ thread[dir[a].lock].pc \in LockedPc
               => dir'[a].lock = dir[a].lock \/ thread'[dir[a].lock].pc \notin LockedPc
    PROVE  SubmissionInv'
<1> USE DEF SubmissionInv
<1>1. \A t \in Threads : thread[t].pc \in LockedPc => thread[t].attempt \in Attempts
  BY DEF NamesAttempt, LockedPc, HandlerPc, MarkingPc
<1>2. LockedByOwner'
  BY SMT, <1>1 DEF LockedByOwner
<1>3. MarkingPc \subseteq LockedPc /\ "enter" \in MarkingPc
  BY DEF LockedPc, MarkingPc
<1>4. MarkedBeforeEntered'
  BY SMT, <1>1, <1>3 DEF MarkedBeforeEntered
<1> QED BY <1>2, <1>4

\* A thread that has not taken the lock answers.
LEMMA AnswerUnlockedKeeps ==
    ASSUME SubmissionInv, NEW t \in Threads, thread[t].pc = "lock", NEW r, Answer(t, r),
           UNCHANGED <<caller, entered>>
    PROVE  SubmissionInv'
<1> DEFINE a == thread[t].attempt
<1>0. a \in Attempts /\ IsThread(thread[t]) /\ IsDir(dir[a])
  BY DEF SubmissionInv, NamesAttempt, Shapes
<1>1. /\ thread' = [thread EXCEPT ![t] = [thread[t] EXCEPT !.pc = "answer", !.result = r]]
      /\ dir' = [dir EXCEPT ![a] = [dir[a] EXCEPT !.lock = IF @ = t THEN NoOne ELSE @]]
  BY DEF Answer
<1>2. Shapes'
  BY <1>0, <1>1 DEF SubmissionInv, Shapes, IsThread, IsDir
<1>3. /\ thread'[t].pc = "answer" /\ thread'[t].attempt = a
      /\ \A u \in Threads \ {t} : thread'[u] = thread[u]
  BY <1>0, <1>1 DEF SubmissionInv, Shapes, IsThread
<1>4. NamesAttempt'
  BY <1>0, <1>3 DEF SubmissionInv, NamesAttempt, At
<1>5. \A u \in Threads : thread'[u].pc \in LockedPc =>
             thread'[u].pc = thread[u].pc /\ thread'[u].attempt = thread[u].attempt
  BY <1>3 DEF LockedPc, HandlerPc, MarkingPc
<1>6. \A b \in Attempts : /\ dir'[b].request = dir[b].request
                          /\ dir'[b].lock = dir[b].lock \/ dir[b].lock = t
  BY <1>0, <1>1 DEF SubmissionInv, Shapes, IsDir
<1>7. thread[t].pc \notin LockedPc
  BY DEF LockedPc, HandlerPc, MarkingPc
<1> QED BY <1>0, <1>2, <1>4, <1>5, <1>6, <1>7, KeepsLocks

\* The lock is taken only where nobody has it, and an attempt that is marked
\* already is sealed, not entered.
LEMMA TryLockKeeps ==
    ASSUME SubmissionInv, NEW t \in Threads, TryLock(t), UNCHANGED caller
    PROVE  SubmissionInv'
<1> DEFINE a == thread[t].attempt
           next == ExecuteLocked(dir[a])
<1>0. /\ thread[t].pc = "lock" /\ a \in Attempts /\ UNCHANGED <<caller, entered>>
      /\ IsThread(thread[t]) /\ IsDir(dir[a])
  BY DEF TryLock, history, SubmissionInv, NamesAttempt, Shapes
<1>1. ASSUME NEW r, Answer(t, r) PROVE SubmissionInv'
  BY <1>0, <1>1, AnswerUnlockedKeeps
<1>2. ASSUME ~Held(a), next # "answer", Goto(t, next), dir' = [dir EXCEPT ![a].lock = t]
      PROVE  SubmissionInv'
  <2>1. /\ next \in {"mark", "seal"}
        /\ next = "mark" => dir[a].request # "json"
    BY <1>2 DEF ExecuteLocked
  <2> HIDE DEF next
  <2>2. Shapes'
    BY <1>0, <1>2 DEF Goto, SubmissionInv, Shapes, IsThread, IsDir
  <2>3. /\ thread'[t].pc = next /\ thread'[t].attempt = a
        /\ \A u \in Threads \ {t} : thread'[u] = thread[u]
    BY <1>0, <1>2 DEF Goto, SubmissionInv, Shapes, IsThread
  <2>4. /\ dir'[a].lock = t /\ dir'[a].request = dir[a].request
        /\ \A b \in Attempts \ {a} : dir'[b] = dir[b]
    BY <1>0, <1>2 DEF SubmissionInv, Shapes, IsDir
  <2>5. NamesAttempt'
    BY <1>0, <2>3 DEF SubmissionInv, NamesAttempt, At
  <2>6. \A u \in Threads : thread[u].pc \in LockedPc => thread[u].attempt \in Attempts \ {a}
    <3>1. dir[a].lock \notin Threads
      BY <1>2, StoreAssumption DEF Held
    <3>2. \A u \in Threads : thread[u].pc \in LockedPc => thread[u].attempt \in Attempts
      BY DEF SubmissionInv, NamesAttempt, LockedPc, HandlerPc, MarkingPc
    <3> QED BY <3>1, <3>2 DEF SubmissionInv, LockedByOwner
  <2>7. LockedByOwner'
    BY SMT, <2>3, <2>4, <2>6 DEF SubmissionInv, LockedByOwner
  <2>8. MarkingPc \subseteq LockedPc /\ "enter" \in MarkingPc /\ "seal" \notin MarkingPc
    BY DEF LockedPc, MarkingPc
  <2>9. MarkedBeforeEntered'
    <3>1. \A b \in Attempts : dir'[b].request = dir[b].request
      BY <1>0, <2>4
    <3>2. \A u \in Threads : thread'[u].pc \in MarkingPc => entered[thread'[u].attempt] = 0
      BY SMT, <1>0, <2>1, <2>3, <2>8 DEF SubmissionInv, MarkedBeforeEntered
    <3>3. \A u \in Threads : thread'[u].pc = "enter" => dir'[thread'[u].attempt].request = "json"
      BY SMT, <2>1, <2>3, <2>4, <2>6, <2>8 DEF SubmissionInv, MarkedBeforeEntered
    <3> QED BY <1>0, <3>1, <3>2, <3>3 DEF SubmissionInv, MarkedBeforeEntered
  <2> QED BY <2>2, <2>5, <2>7, <2>9 DEF SubmissionInv
<1> QED BY <1>1, <1>2 DEF TryLock

\* The handler is entered under the lock, by a thread that has just marked the
\* attempt.
LEMMA EnterKeeps ==
    ASSUME SubmissionInv, NEW t \in Threads, EnterHandler(t), UNCHANGED caller
    PROVE  SubmissionInv'
<1> DEFINE a == thread[t].attempt
<1>0. /\ thread[t].pc = "enter" /\ a \in Attempts /\ UNCHANGED <<caller, dir>>
      /\ IsThread(thread[t])
  BY DEF EnterHandler, SubmissionInv, NamesAttempt, Shapes
<1>1. /\ thread' = [thread EXCEPT ![t] = [thread[t] EXCEPT !.pc = "plan"]]
      /\ entered' = [entered EXCEPT ![a] = @ + 1]
  BY DEF EnterHandler, Goto
<1>2. Shapes'
  BY SMT, <1>0, <1>1 DEF SubmissionInv, Shapes, IsThread
<1>3. /\ thread'[t].pc = "plan" /\ thread'[t].attempt = a
      /\ \A u \in Threads \ {t} : thread'[u] = thread[u]
  BY <1>0, <1>1 DEF SubmissionInv, Shapes, IsThread
<1>4. NamesAttempt'
  BY <1>0, <1>3 DEF SubmissionInv, NamesAttempt, At
<1>5. thread[t].pc \in LockedPc /\ MarkingPc \subseteq LockedPc /\ thread[t].pc \in MarkingPc
  BY <1>0 DEF LockedPc, MarkingPc
<1>6. LockedByOwner'
  BY <1>0, <1>3, <1>5 DEF SubmissionInv, LockedByOwner
<1>7. \A u \in Threads \ {t} : thread[u].pc \in LockedPc => thread[u].attempt \in Attempts \ {a}
  <2>1. \A u \in Threads : thread[u].pc \in LockedPc => thread[u].attempt \in Attempts
    BY DEF SubmissionInv, NamesAttempt, LockedPc, HandlerPc, MarkingPc
  <2> QED BY <1>5, <2>1 DEF SubmissionInv, LockedByOwner
<1>8. entered[a] = 0 /\ dir[a].request = "json"
  BY <1>0, <1>5 DEF SubmissionInv, MarkedBeforeEntered
<1>9. entered'[a] = 1 /\ \A b \in Attempts \ {a} : entered'[b] = entered[b]
  BY SMT, <1>0, <1>1, <1>8 DEF SubmissionInv, Shapes
<1>10. MarkedBeforeEntered'
  <2>1. \A u \in Threads : thread'[u].pc \in MarkingPc => entered'[thread'[u].attempt] = 0
    <3>1. "plan" \notin MarkingPc
      BY DEF MarkingPc
    <3> QED BY SMT, <1>3, <1>5, <1>7, <1>9, <3>1 DEF SubmissionInv, MarkedBeforeEntered
  <2>2. \A u \in Threads : thread'[u].pc = "enter" => dir'[thread'[u].attempt].request = "json"
    BY <1>0, <1>3 DEF SubmissionInv, MarkedBeforeEntered
  <2>3. \A b \in Attempts : dir'[b].request # "json" => entered'[b] = 0
    BY <1>0, <1>8, <1>9 DEF SubmissionInv, MarkedBeforeEntered
  <2>4. \A b \in Attempts : entered'[b] <= 1
    BY SMT, <1>9 DEF SubmissionInv, MarkedBeforeEntered
  <2> QED BY <2>1, <2>2, <2>3, <2>4 DEF MarkedBeforeEntered
<1> QED BY <1>2, <1>4, <1>6, <1>10 DEF SubmissionInv

\* A step of the handler leaves the directory alone.
LEMMA HandleKeeps ==
    ASSUME SubmissionInv, NEW t \in Threads, Handle(t), UNCHANGED caller
    PROVE  SubmissionInv'
<1>1. PICK g \in handle_submit_once(thread[t]) : thread' = [thread EXCEPT ![t] = g]
  BY DEF Handle
<1>2. UNCHANGED <<dir, entered>>
  BY DEF Handle
<1>3. IsThread(thread[t])
  BY DEF SubmissionInv, Shapes
<1>4. thread[t].pc \in HandlerPc /\ Continues(thread[t], g)
  BY <1>1, <1>3, HandlerContinues
<1>5. /\ thread[t].pc \in LockedPc /\ g.pc \in LockedPc
      /\ g.pc \notin MarkingPc /\ g.pc # "enter"
  BY <1>4 DEF Continues, LockedPc, HandlerPc, MarkingPc
<1>6. g.attempt = thread[t].attempt /\ g.attempt \in Attempts
  BY <1>4 DEF Continues, SubmissionInv, NamesAttempt, HandlerPc
<1>7. IsDir(dir[g.attempt]) /\ dir' = [dir EXCEPT ![g.attempt] = dir[g.attempt]]
  BY <1>2, <1>6 DEF SubmissionInv, Shapes
<1> QED BY <1>1, <1>2, <1>4, <1>5, <1>6, <1>7, StaysLocked DEF Continues

AnswerWith(g, r) == [g EXCEPT !.pc = "answer", !.result = r]
Unlocked(d, t) == [d EXCEPT !.lock = IF @ = t THEN NoOne ELSE @]
WithResult(d, r) == [d EXCEPT !.result = r, !.lock = NoOne]
WithMarker(d, r) == [d EXCEPT !.request = r, !.lock = NoOne]

\* A thread that answers is still a thread, with its attempt.
LEMMA AnswerShape ==
    ASSUME NEW g, IsThread(g), NEW r
    PROVE  LET h == AnswerWith(g, r) IN
           /\ IsThread(h) /\ h.pc = "answer" /\ h.attempt = g.attempt
           /\ h.result = r /\ h.client = g.client /\ h.kind = g.kind
<1>1. PICK h : h = AnswerWith(g, r)
  OBVIOUS
<1>2. /\ IsThread(h) /\ h.pc = "answer" /\ h.attempt = g.attempt
      /\ h.result = r /\ h.client = g.client /\ h.kind = g.kind
  BY <1>1 DEF AnswerWith, IsThread
<1> QED BY <1>1, <1>2

\* A directory whose result or lock is changed keeps its marker.
LEMMA DirShape ==
    ASSUME NEW d, IsDir(d), NEW r, NEW t
    PROVE  /\ IsDir(Unlocked(d, t)) /\ Unlocked(d, t).request = d.request
           /\ Unlocked(d, t).result = d.result
           /\ Unlocked(d, t).lock = IF d.lock = t THEN NoOne ELSE d.lock
           /\ IsDir(WithResult(d, r)) /\ WithResult(d, r).request = d.request
           /\ WithResult(d, r).result = r /\ WithResult(d, r).lock = NoOne
           /\ IsDir(WithMarker(d, r))
           /\ WithMarker(d, r).result = d.result /\ WithMarker(d, r).lock = NoOne
<1>1. PICK e, f, h : e = Unlocked(d, t) /\ f = WithResult(d, r) /\ h = WithMarker(d, r)
  OBVIOUS
<1>2. /\ IsDir(e) /\ e.request = d.request /\ e.result = d.result
      /\ e.lock = IF d.lock = t THEN NoOne ELSE d.lock
  <2>1. PICK x : x = (IF d.lock = t THEN NoOne ELSE d.lock) /\ e = [d EXCEPT !.lock = x]
    BY <1>1 DEF Unlocked
  <2>2. IsDir(e) /\ e.request = d.request /\ e.result = d.result /\ e.lock = x
    BY <2>1 DEF IsDir
  <2> QED BY <2>1, <2>2
<1>3. IsDir(f) /\ f.request = d.request /\ f.result = r /\ f.lock = NoOne
  BY <1>1 DEF WithResult, IsDir
<1>4. IsDir(h) /\ h.result = d.result /\ h.lock = NoOne
  BY <1>1 DEF WithMarker, IsDir
<1> QED BY <1>1, <1>2, <1>3, <1>4

\* A file is written aside, or the thread answers and releases the lock.
LEMMA WriteTempKeeps ==
    ASSUME SubmissionInv, NEW t \in Threads, NEW file \in {"request", "result"},
           NEW next \in LockedPc \ {"enter"}, WriteTemp(t, file, next),
           thread[t].pc \in LockedPc,
           file = "request" \/ next \in MarkingPc => thread[t].pc \in MarkingPc,
           UNCHANGED <<caller, entered>>
    PROVE  SubmissionInv'
<1> DEFINE a == thread[t].attempt
           d == [dir[a] EXCEPT ![file] = "tmp"]
           g == [thread[t] EXCEPT !.pc = next]
<1>0. a \in Attempts /\ IsThread(thread[t]) /\ IsDir(dir[a])
  BY DEF SubmissionInv, Shapes, NamesAttempt, LockedPc, HandlerPc, MarkingPc
<1>1. CASE dir[a][file] = "tmp"
  <2> DEFINE h == AnswerWith(thread[t], "outcome_unknown")
             e == Unlocked(dir[a], t)
  <2>1. thread' = [thread EXCEPT ![t] = h] /\ dir' = [dir EXCEPT ![a] = e]
    BY <1>1 DEF WriteTemp, Answer, AnswerWith, Unlocked
  <2>2. IsThread(h) /\ h.pc = "answer" /\ h.attempt = a
    BY SMT, <1>0, AnswerShape
  <2>3. IsDir(e) /\ e.request = dir[a].request
    BY <1>0, DirShape
  <2> HIDE DEF h, e
  <2> QED BY <2>1, <2>2, <2>3, Releases
<1>2. CASE dir[a][file] # "tmp"
  <2>1. thread' = [thread EXCEPT ![t] = g] /\ dir' = [dir EXCEPT ![a] = d]
    BY <1>2 DEF WriteTemp, Goto
  <2>2. IsThread(g) /\ g.pc = next /\ g.attempt = a
    BY SMT, <1>0 DEF IsThread
  <2>3. IsDir(d) /\ d.lock = dir[a].lock
    BY SMT, <1>0 DEF IsDir
  <2>4. d.request # "json" => dir[a].request # "json" \/ thread[t].pc \in MarkingPc
    BY <1>0 DEF IsDir
  <2> HIDE DEF g, d
  <2> QED BY <2>1, <2>2, <2>3, <2>4, StaysLocked
<1> QED BY <1>1, <1>2

\* The marker: written aside, then renamed, then the handler may be entered.
LEMMA MarkKeeps ==
    ASSUME SubmissionInv, NEW t \in Threads, MarkRequest(t), UNCHANGED caller
    PROVE  SubmissionInv'
<1>0. UNCHANGED entered
  BY DEF MarkRequest, history
<1>1. CASE thread[t].pc = "mark" /\ WriteTemp(t, "request", "marked")
  <2>1. thread[t].pc \in LockedPc /\ thread[t].pc \in MarkingPc
        /\ "marked" \in LockedPc \ {"enter"}
    BY <1>1 DEF LockedPc, MarkingPc
  <2> QED BY <1>0, <1>1, <2>1, WriteTempKeeps
<1>2. CASE thread[t].pc = "marked" /\ Rename(t, "request", "json") /\ Goto(t, "enter")
  <2> DEFINE a == thread[t].attempt
             d == [dir[a] EXCEPT !.request = "json"]
             g == [thread[t] EXCEPT !.pc = "enter"]
  <2>0. a \in Attempts /\ IsThread(thread[t]) /\ IsDir(dir[a])
    BY <1>2 DEF SubmissionInv, Shapes, NamesAttempt
  <2>1. thread' = [thread EXCEPT ![t] = g] /\ dir' = [dir EXCEPT ![a] = d]
    BY <1>2 DEF Rename, Goto
  <2>2. IsThread(g) /\ g.pc = "enter" /\ g.attempt = a
    BY SMT, <2>0 DEF IsThread
  <2>3. IsDir(d) /\ d.lock = dir[a].lock /\ d.request = "json"
    BY SMT, <2>0 DEF IsDir
  <2>4. /\ thread[t].pc \in LockedPc /\ thread[t].pc \in MarkingPc /\ g.pc \in LockedPc
    BY <1>2, <2>2 DEF LockedPc, MarkingPc
  <2> HIDE DEF g, d
  <2> QED BY <1>0, <2>1, <2>2, <2>3, <2>4, StaysLocked
<1> QED BY <1>1, <1>2 DEF MarkRequest

\* The result of the handler or of the seal: written aside, then renamed, and
\* the lock is released.
LEMMA ResultKeeps ==
    ASSUME SubmissionInv, NEW t \in Threads, PersistResult(t) \/ Seal(t), UNCHANGED caller
    PROVE  SubmissionInv'
<1> DEFINE a == thread[t].attempt
           r == IF thread[t].pc = "finished" THEN thread[t].result ELSE "outcome_unknown"
           d == WithResult(dir[a], r)
           g == AnswerWith(thread[t], r)
<1>0. UNCHANGED entered
  BY DEF PersistResult, Seal, history
<1>1. ASSUME NEW next \in {"finished", "sealed"}, thread[t].pc \in {"finish", "seal"},
             WriteTemp(t, "result", next)
      PROVE  SubmissionInv'
  <2>1. thread[t].pc \in LockedPc /\ next \in LockedPc \ {"enter"} /\ next \notin MarkingPc
    BY <1>1 DEF LockedPc, MarkingPc
  <2> QED BY <1>0, <1>1, <2>1, WriteTempKeeps
<1>2. ASSUME thread[t].pc \in {"finished", "sealed"},
             thread' = [thread EXCEPT ![t] = g], dir' = [dir EXCEPT ![a] = d]
      PROVE  SubmissionInv'
  <2>0. a \in Attempts /\ IsThread(thread[t]) /\ IsDir(dir[a])
    BY <1>2 DEF SubmissionInv, Shapes, NamesAttempt
  <2> HIDE DEF r
  <2>1. IsThread(g) /\ g.pc = "answer" /\ g.attempt = a
    BY SMT, <2>0, AnswerShape
  <2>2. IsDir(d) /\ d.request = dir[a].request
    BY <2>0, DirShape
  <2>3. thread[t].pc \in LockedPc
    BY <1>2 DEF LockedPc
  <2> HIDE DEF g, d
  <2> QED BY <1>0, <1>2, <2>1, <2>2, <2>3, Releases
<1>3. CASE thread[t].pc = "finish" /\ WriteTemp(t, "result", "finished")
  BY <1>1, <1>3
<1>4. CASE thread[t].pc = "seal" /\ WriteTemp(t, "result", "sealed")
  BY <1>1, <1>4
<1>5. /\ thread = [u \in Threads |-> thread[u]] /\ dir = [b \in Attempts |-> dir[b]]
      /\ IsThread(thread[t])
  BY DEF SubmissionInv, Shapes
<1>6. CASE /\ thread[t].pc = "finished"
           /\ thread' = [thread EXCEPT ![t].pc = "answer"]
           /\ dir' = [dir EXCEPT ![thread[t].attempt].result = thread[t].result,
                                 ![thread[t].attempt].lock = NoOne]
  <2>1. r = thread[t].result
    BY <1>6
  <2>2. g = [thread[t] EXCEPT !.pc = "answer"]
    BY <1>5, <2>1 DEF IsThread, AnswerWith
  <2>3. thread' = [thread EXCEPT ![t] = g] /\ dir' = [dir EXCEPT ![a] = d]
    BY <1>5, <1>6, <2>1, <2>2 DEF WithResult
  <2> HIDE DEF g, d, r
  <2> QED BY <1>2, <1>6, <2>3
<1>7. CASE /\ thread[t].pc = "sealed"
           /\ thread' = [thread EXCEPT ![t].pc = "answer", ![t].result = "outcome_unknown"]
           /\ dir' = [dir EXCEPT ![thread[t].attempt].result = "outcome_unknown",
                                 ![thread[t].attempt].lock = NoOne]
  <2>1. r = "outcome_unknown"
    BY <1>7
  <2>2. thread' = [thread EXCEPT ![t] = g] /\ dir' = [dir EXCEPT ![a] = d]
    BY <1>5, <1>7, <2>1 DEF AnswerWith, WithResult
  <2> HIDE DEF g, d, r
  <2> QED BY <1>2, <1>7, <2>2
<1> QED BY <1>3, <1>4, <1>6, <1>7 DEF PersistResult, Seal

\* A failed write leaves a temporary file or the renamed one, and the thread
\* answers that the outcome is unknown.
LEMMA WriteFaultKeeps ==
    ASSUME SubmissionInv, NEW t \in Threads, WriteFault(t), UNCHANGED <<caller, entered>>
    PROVE  SubmissionInv'
<1> DEFINE a == thread[t].attempt
           file == IF thread[t].pc = "marked" THEN "request" ELSE "result"
           g == AnswerWith(thread[t], "outcome_unknown")
<1>0. thread[t].pc \in {"marked", "finished", "sealed"}
  BY DEF WriteFault
<1>1. a \in Attempts /\ IsThread(thread[t]) /\ IsDir(dir[a])
      /\ dir = [b \in Attempts |-> dir[b]] /\ thread = [u \in Threads |-> thread[u]]
  BY <1>0 DEF SubmissionInv, Shapes, NamesAttempt
<1>2. PICK v : dir' = [dir EXCEPT ![a][file] = v, ![a].lock = NoOne]
  BY DEF WriteFault
<1> DEFINE d == IF thread[t].pc = "marked" THEN WithMarker(dir[a], v) ELSE WithResult(dir[a], v)
<1>3. dir' = [dir EXCEPT ![a] = d]
  <2>1. CASE thread[t].pc = "marked"
    BY <1>1, <1>2, <2>1 DEF WithMarker
  <2>2. CASE thread[t].pc # "marked"
    BY <1>1, <1>2, <2>2 DEF WithResult
  <2> QED BY <2>1, <2>2
<1>4. thread' = [thread EXCEPT ![t] = g]
  BY <1>1 DEF WriteFault, AnswerWith
<1>5. IsThread(g) /\ g.pc = "answer" /\ g.attempt = a
  BY SMT, <1>1, AnswerShape
<1>6. IsDir(d) /\ (thread[t].pc # "marked" => d.request = dir[a].request)
  BY <1>1, DirShape
<1>7. d.request # "json" => dir[a].request # "json" \/ thread[t].pc \in MarkingPc
  BY <1>6 DEF MarkingPc
<1>8. thread[t].pc \in LockedPc
  BY <1>0 DEF LockedPc, MarkingPc
<1> HIDE DEF g, d
<1> QED BY <1>0, <1>3, <1>4, <1>5, <1>6, <1>7, <1>8, Releases

\* A file that cannot be opened or read is left as it is.
LEMMA OpenFaultKeeps ==
    ASSUME SubmissionInv, NEW t \in Threads, OpenFault(t), UNCHANGED <<caller, entered>>
    PROVE  SubmissionInv'
<1> DEFINE a == thread[t].attempt
           g == AnswerWith(thread[t], "outcome_unknown")
           d == Unlocked(dir[a], t)
<1>0. /\ thread[t].pc \in {"lock", "mark", "finish", "seal"}
      /\ thread' = [thread EXCEPT ![t] = g] /\ dir' = [dir EXCEPT ![a] = d]
  BY DEF OpenFault, Answer, AnswerWith, Unlocked
<1>1. a \in Attempts /\ IsThread(thread[t]) /\ IsDir(dir[a])
  BY <1>0 DEF SubmissionInv, Shapes, NamesAttempt
<1>2. CASE thread[t].pc = "lock"
  BY <1>2, AnswerUnlockedKeeps DEF OpenFault
<1>3. CASE thread[t].pc # "lock"
  <2>1. IsThread(g) /\ g.pc = "answer" /\ g.attempt = a
    BY SMT, <1>1, AnswerShape
  <2>2. IsDir(d) /\ d.request = dir[a].request
    BY <1>1, DirShape
  <2>3. thread[t].pc \in LockedPc
    BY <1>0, <1>3 DEF LockedPc, MarkingPc
  <2> HIDE DEF g, d
  <2> QED BY <1>0, <2>1, <2>2, <2>3, Releases
<1> QED BY <1>2, <1>3

\* Any error of the store's files.
LEMMA DiskFaultKeeps ==
    ASSUME SubmissionInv, NEW t \in Threads, DiskFault(t), UNCHANGED caller
    PROVE  SubmissionInv'
BY OpenFaultKeeps, WriteFaultKeeps DEF DiskFault, history

-----------------------------------------------------------------------------
(* The Kernel's steps and crashes. *)

\* A caller that comes to execute names an attempt; nothing else of it matters.
LEMMA CallerKeeps ==
    ASSUME SubmissionInv, UNCHANGED <<thread, dir, entered>>,
           caller' = [c \in Callers |-> caller'[c]],
           \A c \in Callers :
               /\ IsCaller(caller'[c])
               /\ caller'[c].pc = "execute" => caller'[c].attempt \in Attempts
    PROVE  SubmissionInv'
<1>1. Shapes'
  BY DEF SubmissionInv, Shapes
<1>2. NamesAttempt'
  BY DEF SubmissionInv, NamesAttempt, At
<1> QED BY <1>1, <1>2 DEF SubmissionInv, LockedByOwner, MarkedBeforeEntered

\* Claims, settlements and proposals.
LEMMA KernelKeeps ==
    ASSUME SubmissionInv, UNCHANGED <<thread, dir, entered>>, NEW c \in Callers, NEW pc, NEW a,
           Become(c, pc, a), pc = "execute" => a \in Attempts
    PROVE  SubmissionInv'
<1>1. caller' = [caller EXCEPT ![c] = [pc |-> pc, attempt |-> a, answer |-> "none"]]
  BY DEF Become
<1>2. caller' = [x \in Callers |-> caller'[x]]
  BY <1>1 DEF SubmissionInv, Shapes
<1>3. /\ caller'[c] = [pc |-> pc, attempt |-> a, answer |-> "none"]
      /\ \A x \in Callers \ {c} : caller'[x] = caller[x]
  BY <1>1 DEF SubmissionInv, Shapes
<1>4. IsCaller(caller'[c])
  BY <1>3 DEF IsCaller
<1>5. \A x \in Callers :
          /\ IsCaller(caller'[x])
          /\ caller'[x].pc = "execute" => caller'[x].attempt \in Attempts
  BY SMT, <1>3, <1>4 DEF SubmissionInv, Shapes, NamesAttempt, At
<1> QED BY <1>2, <1>5, CallerKeeps

\* A claim makes the caller execute or propose an attempt that has a row.
LEMMA SubmitKeeps ==
    ASSUME SubmissionInv, NEW c \in Callers, NEW k \in Keys, Submit(c, k)
    PROVE  SubmissionInv'
<1>1. UNCHANGED <<thread, dir, entered>>
  BY DEF Submit, storeVars, history
<1>2. CASE ReplayAttempt(c, k)
  <2>1. PICK a \in Attempts : Become(c, "execute", a) \/ Become(c, "propose", a)
    BY <1>2 DEF ReplayAttempt
  <2> QED BY <1>1, <2>1, KernelKeeps
<1>3. CASE NewAttempt(c, k)
  <2> DEFINE a == CHOOSE x \in Fresh : TRUE
  <2>1. Fresh # {} /\ Become(c, "execute", a)
    BY <1>3 DEF NewAttempt
  <2>2. a \in Attempts
    BY <2>1 DEF Fresh
  <2> QED BY <1>1, <2>1, <2>2, KernelKeeps
<1> QED BY <1>2, <1>3 DEF Submit, Claim

\* From the settlement to the proposal a caller goes on or ends at idle.
LEMMA SettleKeeps ==
    ASSUME SubmissionInv, NEW c \in Callers,
           Settle(c) \/ Complete(c) \/ LoadAgain(c) \/ Propose(c)
    PROVE  SubmissionInv'
<1>1. UNCHANGED <<thread, dir, entered>>
  BY DEF Settle, Complete, LoadAgain, Propose, storeVars, history
<1>2. PICK a : \/ Become(c, "idle", NoOne) \/ Become(c, "complete", a)
               \/ Become(c, "propose", a) \/ Become(c, "link", a)
  BY DEF Settle, Complete, LoadAgain, Propose, Settled, SettleUnknown
<1> QED BY <1>1, <1>2, KernelKeeps

\* The submission reaches a thread.
LEMMA SendKeeps ==
    ASSUME SubmissionInv, NEW c \in Callers, NEW t \in Threads, Send(c, t)
    PROVE  SubmissionInv'
<1> DEFINE a == caller[c].attempt
<1>1. PICK kind : thread' = [thread EXCEPT ![t] =
                     [IdleThread EXCEPT !.pc = "lock", !.attempt = a,
                                        !.kind = kind, !.client = c]]
  BY DEF Send, Accept
<1>2. PICK g : g = [IdleThread EXCEPT !.pc = "lock", !.attempt = a,
                                      !.kind = kind, !.client = c]
  OBVIOUS
<1>3. IsThread(g) /\ g.pc = "lock" /\ g.attempt = a
  BY <1>2 DEF IdleThread, IsThread
<1>4. a \in Attempts
  BY DEF Send, SubmissionInv, NamesAttempt
<1>5. /\ UNCHANGED <<dir, entered>>
      /\ caller' = [caller EXCEPT ![c] = [caller[c] EXCEPT !.pc = "waiting"]]
  BY DEF Send, Accept, history
<1>6. /\ caller' = [x \in Callers |-> caller'[x]]
      /\ \A x \in Callers : IsCaller(caller'[x])
      /\ caller'[c].pc = "waiting"
      /\ \A x \in Callers \ {c} : caller'[x] = caller[x]
  BY SMT, <1>5 DEF SubmissionInv, Shapes, IsCaller
<1>7. /\ thread' = [u \in Threads |-> thread'[u]]
      /\ thread'[t] = g
      /\ \A u \in Threads \ {t} : thread'[u] = thread[u]
  BY <1>1, <1>2 DEF SubmissionInv, Shapes
<1>8. Shapes'
  BY <1>3, <1>5, <1>6, <1>7 DEF SubmissionInv, Shapes
<1>9. NamesAttempt'
  BY <1>3, <1>4, <1>6, <1>7 DEF SubmissionInv, NamesAttempt, At
<1>10. "lock" \notin LockedPc
  BY DEF LockedPc, HandlerPc, MarkingPc
<1> QED BY <1>3, <1>5, <1>7, <1>8, <1>9, <1>10, KeepsLocks

\* A caller that gives up, or the Kernel's crash, takes the reader from a
\* thread and nothing else.
LEMMA ReaderGoneKeeps ==
    ASSUME SubmissionInv, UNCHANGED <<dir, entered>>,
           caller' = [c \in Callers |-> caller'[c]],
           \A c \in Callers :
               /\ IsCaller(caller'[c])
               /\ caller'[c].pc = "execute" => caller'[c].attempt \in Attempts,
           thread' = [t \in Threads |-> thread'[t]],
           \A t \in Threads : \/ thread'[t] = thread[t]
                              \/ thread'[t] = [thread[t] EXCEPT !.client = NoOne]
    PROVE  SubmissionInv'
<1>1. \A t \in Threads : /\ IsThread(thread'[t])
                         /\ thread'[t].pc = thread[t].pc
                         /\ thread'[t].attempt = thread[t].attempt
  <2> TAKE t \in Threads
  <2>1. IsThread(thread[t])
    BY DEF SubmissionInv, Shapes
  <2> QED BY <2>1 DEF IsThread
<1>2. Shapes'
  BY <1>1 DEF SubmissionInv, Shapes
<1>3. NamesAttempt'
  BY <1>1 DEF SubmissionInv, NamesAttempt, At
<1> QED BY <1>1, <1>2, <1>3, KeepsLocks

\* A call that ends, with an answer or without one, is to be settled.
LEMMA SettledShape ==
    ASSUME NEW r, IsCaller(r), NEW answer
    PROVE  /\ IsCaller([r EXCEPT !.pc = "settle", !.answer = answer])
           /\ [r EXCEPT !.pc = "settle", !.answer = answer].pc = "settle"
<1>1. PICK p, a, w : r = [pc |-> p, attempt |-> a, answer |-> w]
  BY DEF IsCaller
<1>2. PICK h : h = [r EXCEPT !.pc = "settle", !.answer = answer]
  OBVIOUS
<1>3. h = [pc |-> "settle", attempt |-> a, answer |-> answer]
  BY <1>1, <1>2
<1>4. IsCaller(h) /\ h.pc = "settle"
  BY <1>3 DEF IsCaller
<1> QED BY <1>2, <1>4

\* The call is given up.
LEMMA GiveUpKeeps ==
    ASSUME SubmissionInv, NEW c \in Callers, GiveUp(c) PROVE SubmissionInv'
<1>1. /\ UNCHANGED <<dir, entered>>
      /\ caller' = [caller EXCEPT ![c] =
                      [caller[c] EXCEPT !.pc = "settle", !.answer = "outcome_unknown"]]
  BY DEF GiveUp, history
<1>2. /\ caller' = [x \in Callers |-> caller'[x]]
      /\ \A x \in Callers : IsCaller(caller'[x])
      /\ caller'[c].pc = "settle"
      /\ \A x \in Callers \ {c} : caller'[x] = caller[x]
  <2>1. PICK h : h = [caller[c] EXCEPT !.pc = "settle", !.answer = "outcome_unknown"]
    OBVIOUS
  <2>2. IsCaller(h) /\ h.pc = "settle"
    BY <2>1, SettledShape DEF SubmissionInv, Shapes
  <2>3. caller' = [caller EXCEPT ![c] = h]
    BY <1>1, <2>1
  <2> QED BY <2>2, <2>3 DEF SubmissionInv, Shapes
<1>3. \A x \in Callers : caller'[x].pc = "execute" => caller'[x].attempt \in Attempts
  BY <1>2 DEF SubmissionInv, NamesAttempt, At
<1>4. /\ thread' = [t \in Threads |-> thread'[t]]
      /\ \A t \in Threads : \/ thread'[t] = thread[t]
                            \/ thread'[t] = [thread[t] EXCEPT !.client = NoOne]
  BY DEF GiveUp
<1> QED BY <1>1, <1>2, <1>3, <1>4, ReaderGoneKeeps

\* The Kernel stops.
LEMMA KernelCrashKeeps ==
    ASSUME SubmissionInv, KernelCrash PROVE SubmissionInv'
<1>1. UNCHANGED <<dir, entered>>
  BY DEF KernelCrash, history
<1>2. /\ caller' = [c \in Callers |-> caller'[c]]
      /\ \A c \in Callers : caller'[c] = IdleCaller
  BY DEF KernelCrash
<1>3. IsCaller(IdleCaller) /\ IdleCaller.pc # "execute"
  BY DEF IsCaller, IdleCaller
<1>4. /\ thread' = [t \in Threads |-> thread'[t]]
      /\ \A t \in Threads : thread'[t] = [thread[t] EXCEPT !.client = NoOne]
  BY DEF KernelCrash
<1> QED BY <1>1, <1>2, <1>3, <1>4, ReaderGoneKeeps

\* An answered thread is idle again.
LEMMA ReplyKeeps ==
    ASSUME SubmissionInv, NEW t \in Threads, Reply(t) PROVE SubmissionInv'
<1>1. UNCHANGED <<dir, entered>> /\ thread' = [thread EXCEPT ![t] = IdleThread]
  BY DEF Reply, history
<1>2. IsThread(IdleThread) /\ IdleThread.pc = "idle"
  BY DEF IsThread, IdleThread
<1>3. /\ thread' = [u \in Threads |-> thread'[u]]
      /\ thread'[t] = IdleThread
      /\ \A u \in Threads \ {t} : thread'[u] = thread[u]
  BY <1>1 DEF SubmissionInv, Shapes
<1>4. /\ caller' = [c \in Callers |-> caller'[c]]
      /\ \A c \in Callers : /\ IsCaller(caller'[c])
                            /\ caller'[c] = caller[c] \/ caller'[c].pc = "settle"
  <2>1. CASE thread[t].client \in Callers
    <3> DEFINE c == thread[t].client
    <3>1. caller' = [caller EXCEPT ![c] =
                       [caller[c] EXCEPT !.pc = "settle", !.answer = thread[t].result]]
      BY <2>1 DEF Reply, SubmissionInv, Shapes
    <3>2. PICK h : h = [caller[c] EXCEPT !.pc = "settle", !.answer = thread[t].result]
      OBVIOUS
    <3>3. IsCaller(h) /\ h.pc = "settle"
      BY <2>1, <3>2, SettledShape DEF SubmissionInv, Shapes
    <3>4. caller' = [caller EXCEPT ![c] = h]
      BY <3>1, <3>2
    <3> HIDE DEF c
    <3> QED BY <3>3, <3>4 DEF SubmissionInv, Shapes
  <2>2. CASE thread[t].client \notin Callers
    BY <2>2 DEF Reply, SubmissionInv, Shapes
  <2> QED BY <2>1, <2>2
<1>5. Shapes'
  BY <1>1, <1>2, <1>3, <1>4 DEF SubmissionInv, Shapes
<1>6. NamesAttempt'
  BY <1>2, <1>3, <1>4 DEF SubmissionInv, NamesAttempt, At
<1>7. "idle" \notin LockedPc
  BY DEF LockedPc, HandlerPc, MarkingPc
<1> QED BY <1>1, <1>2, <1>3, <1>5, <1>6, <1>7, KeepsLocks

\* The harness stops: no thread and no lock is left, the markers are.
LEMMA HarnessCrashKeeps ==
    ASSUME SubmissionInv, HarnessCrash PROVE SubmissionInv'
<1>1. /\ UNCHANGED entered
      /\ thread' = [t \in Threads |-> IdleThread]
      /\ dir' = [a \in Attempts |-> [dir[a] EXCEPT !.lock = NoOne]]
  BY DEF HarnessCrash, StoreCrash, history
<1>2. IsThread(IdleThread) /\ IdleThread.pc = "idle"
  BY DEF IsThread, IdleThread
<1>3. \A a \in Attempts : IsDir(dir'[a]) /\ dir'[a].request = dir[a].request
  BY SMT, <1>1 DEF SubmissionInv, Shapes, IsDir
<1>4. /\ caller' = [c \in Callers |-> caller'[c]]
      /\ \A c \in Callers : /\ IsCaller(caller'[c])
                            /\ caller'[c] = caller[c] \/ caller'[c].pc = "settle"
  <2>1. caller' = [c \in Callers |->
                    IF At(c, "waiting")
                    THEN [caller[c] EXCEPT !.pc = "settle", !.answer = "outcome_unknown"]
                    ELSE caller[c]]
    BY DEF HarnessCrash
  <2>2. ASSUME NEW c \in Callers
        PROVE  /\ IsCaller(caller'[c])
               /\ caller'[c] = caller[c] \/ caller'[c].pc = "settle"
    <3>1. PICK h : h = [caller[c] EXCEPT !.pc = "settle", !.answer = "outcome_unknown"]
      OBVIOUS
    <3>2. IsCaller(h) /\ h.pc = "settle" /\ IsCaller(caller[c])
      BY <3>1, SettledShape DEF SubmissionInv, Shapes
    <3>3. caller'[c] = h \/ caller'[c] = caller[c]
      BY <2>1, <3>1
    <3> QED BY <3>2, <3>3
  <2> QED BY <2>1, <2>2
<1>5. Shapes'
  BY <1>1, <1>2, <1>3, <1>4 DEF SubmissionInv, Shapes
<1>6. NamesAttempt'
  BY <1>1, <1>2, <1>4 DEF SubmissionInv, NamesAttempt, At
<1>7. "idle" \notin LockedPc
  BY DEF LockedPc, HandlerPc, MarkingPc
<1> QED BY <1>1, <1>2, <1>3, <1>5, <1>6, <1>7, KeepsLocks

\* Every step keeps the invariant.
LEMMA SubmissionInvStep == SubmissionInv /\ [Next]_vars => SubmissionInv'
<1> SUFFICES ASSUME SubmissionInv, [Next]_vars PROVE SubmissionInv'
  OBVIOUS
<1>1. ASSUME NEW c \in Callers, NEW k \in Keys, Submit(c, k) PROVE SubmissionInv'
  BY <1>1, SubmitKeeps
<1>2. ASSUME NEW c \in Callers, CallerStep(c) \/ GiveUp(c) PROVE SubmissionInv'
  BY <1>2, SendKeeps, SettleKeeps, GiveUpKeeps DEF CallerStep
<1>3. ASSUME NEW t \in Threads, HarnessStep(t) \/ Reply(t) PROVE SubmissionInv'
  <2>1. CASE StoreStep(t) /\ UNCHANGED caller
    BY <2>1, TryLockKeeps, MarkKeeps, EnterKeeps, HandleKeeps, ResultKeeps DEF StoreStep
  <2> QED BY <1>3, <2>1, ReplyKeeps DEF HarnessStep, kernelVars
<1>4. ASSUME NEW t \in Threads, DiskFault(t), UNCHANGED kernelVars PROVE SubmissionInv'
  BY <1>4, DiskFaultKeeps DEF kernelVars
<1>5. ASSUME UNCHANGED <<thread, dir, entered, caller>> PROVE SubmissionInv'
  BY <1>5 DEF SubmissionInv, Shapes, NamesAttempt, At, LockedByOwner, MarkedBeforeEntered
<1>6. ASSUME NEW a \in Attempts, LoseContent(a) PROVE SubmissionInv'
  BY <1>5, <1>6 DEF LoseContent, history, kernelVars
<1>7. CASE KernelCrash \/ HarnessCrash
  BY <1>7, KernelCrashKeeps, HarnessCrashKeeps
<1>8. CASE UNCHANGED vars
  BY <1>5, <1>8 DEF vars, storeVars, history, kernelVars
<1> QED BY <1>1, <1>2, <1>3, <1>4, <1>6, <1>7, <1>8 DEF Next, Step

\* The submission store runs the handler of an attempt at most once, whatever
\* the callers repeat and wherever Kernel, harness or disk fail.
THEOREM HandlerIsEnteredOnce == Spec => []HandlerEnteredOnce
<1>1. SubmissionInv => HandlerEnteredOnce
  BY DEF SubmissionInv, MarkedBeforeEntered, HandlerEnteredOnce
<1> QED BY <1>1, SubmissionInvInit, SubmissionInvStep, PTL DEF Spec
-----------------------------------------------------------------------------
(* What the harness and the Kernel hold of an attempt. *)

FinishPc == {"finish", "finished"}
Definite == {"succeeded", "definitively_rejected"}

\* A held lock has a thread that works under it.
HeldByWorker ==
    \A a \in Attempts : dir[a].lock # NoOne =>
        /\ dir[a].lock \in Threads /\ thread[dir[a].lock].pc \in LockedPc
        /\ thread[dir[a].lock].attempt = a

\* What a thread is about to write or to answer has happened: the handler was
\* entered, the gates were passed, the result is durable.
ThreadBacked(g) ==
    /\ g.pc \in LockedPc \union {"idle", "lock", "answer"}
    /\ g.pc \in LockedPc => dir[g.attempt].result \notin Results
    /\ g.pc \in HandlerPc \union FinishPc => entered[g.attempt] = 1
    /\ g.pc \in GatedPc => g.attempt \in gatesPassed
    /\ g.pc \in FinishPc /\ g.result = "succeeded" => g.attempt \in gatesPassed
    /\ g.pc = "answer" /\ g.result \in Definite => dir[g.attempt].result = g.result
    /\ g.result = "in_progress" => g.pc = "answer"

ResultsBacked ==
    /\ HeldByWorker
    /\ \A t \in Threads : ThreadBacked(thread[t])
    /\ \A a \in Attempts : dir[a].result = "succeeded" => a \in gatesPassed /\ entered[a] = 1

IsRow(r) == r = [status |-> r.status, key |-> r.key, sequence |-> r.sequence]

\* Whoever works on an attempt works on one that has a row.
RowsKnown ==
    /\ row = [a \in Attempts |-> row[a]]
    /\ \A a \in Attempts : /\ IsRow(row[a])
                           /\ row[a].status # "none" => row[a].key \in Keys
    /\ \A t \in Threads : thread[t].pc # "idle" =>
          row[thread[t].attempt].status # "none" /\ thread[t].kind \in Kinds
    /\ \A c \in Callers : ~At(c, "idle") =>
          caller[c].attempt \in Attempts /\ row[caller[c].attempt].status # "none"

\* A thread's client waits for that thread alone, about the same attempt.
ClientsWait ==
    \A t \in Threads : thread[t].client \in Callers =>
        /\ thread[t].pc # "idle" /\ At(thread[t].client, "waiting")
        /\ caller[thread[t].client].attempt = thread[t].attempt
        /\ \A u \in Threads : thread[u].client = thread[t].client => u = t

\* A success or a rejection the Kernel holds is durable in the harness.
CallerBacked(r) ==
    /\ r.pc = "settle" /\ r.answer \in Definite => dir[r.attempt].result = r.answer
    /\ r.pc = "complete" => dir[r.attempt].result = "succeeded"
    /\ r.pc \in {"propose", "link"} => row[r.attempt].status = "succeeded"

SuccessBacked ==
    /\ \A c \in Callers : CallerBacked(caller[c])
    /\ \A a \in Attempts : row[a].status \in Definite => dir[a].result = row[a].status
    /\ proposals \subseteq Attempts
    /\ \A a \in proposals : row[a].status = "succeeded"

BackedInv == ResultsBacked /\ RowsKnown /\ ClientsWait /\ SuccessBacked

-----------------------------------------------------------------------------
(* The steps of a harness thread. *)

\* Nothing that was entered or passed is forgotten.
Remembers ==
    /\ gatesPassed \subseteq gatesPassed'
    /\ \A a \in Attempts : entered[a] = 1 => entered'[a] = 1

\* Thread record f becomes g and its attempt's directory becomes d.
Busy(f, g, d) ==
    /\ f.pc = "lock" /\ Held(f.attempt)
    /\ g.pc = "answer" /\ g.result = "in_progress"
    /\ d.lock = dir[f.attempt].lock /\ d.result = dir[f.attempt].result
Replayed(f, g, d) ==
    /\ f.pc = "lock"
    /\ g.pc = "answer" /\ g.result \in Results
    /\ g.result = "outcome_unknown" \/ g.result = dir[f.attempt].result
    /\ d.lock = dir[f.attempt].lock /\ d.result = dir[f.attempt].result
Locked(t, f, g, d) ==
    /\ f.pc = "lock" /\ ~Held(f.attempt) /\ dir[f.attempt].result \notin Results
    /\ g.pc \in {"mark", "seal"} /\ g.result # "in_progress"
    /\ d.lock = t /\ d.result = dir[f.attempt].result
Worked(f, g, d) ==
    /\ f.pc \in LockedPc /\ g.pc \in LockedPc /\ g.result # "in_progress"
    /\ d.lock = dir[f.attempt].lock /\ d.result \notin Results
    /\ g.pc \in HandlerPc \union FinishPc => entered'[f.attempt] = 1
    /\ g.pc \in GatedPc => f.attempt \in gatesPassed'
    /\ g.pc \in FinishPc /\ g.result = "succeeded" => f.attempt \in gatesPassed'
Released(f, g, d) ==
    /\ f.pc \in LockedPc /\ g.pc = "answer" /\ g.result # "in_progress"
    /\ d.lock = NoOne
    /\ d.result = "succeeded" => f.attempt \in gatesPassed /\ entered[f.attempt] = 1
    /\ g.result \in Definite => d.result = g.result

Moved(t, g, d) ==
    /\ thread' = [thread EXCEPT ![t] = g] /\ dir' = [dir EXCEPT ![thread[t].attempt] = d]
    /\ thread[t].pc # "idle"
    /\ g.attempt = thread[t].attempt /\ g.client = thread[t].client /\ g.kind = thread[t].kind
    /\ Remembers
    /\ \/ Busy(thread[t], g, d) \/ Replayed(thread[t], g, d) \/ Locked(t, thread[t], g, d)
       \/ Worked(thread[t], g, d) \/ Released(thread[t], g, d)

\* What the lock file says is answered, or the lock is taken.
LEMMA TryLockMoves ==
    ASSUME SubmissionInv, BackedInv, NEW t \in Threads, TryLock(t)
    PROVE  \E g, d : Moved(t, g, d)
<1> DEFINE f == thread[t]
           a == f.attempt
           next == ExecuteLocked(dir[a])
<1>0. /\ f.pc = "lock" /\ a \in Attempts /\ IsThread(f) /\ IsDir(dir[a])
      /\ UNCHANGED <<entered, gatesPassed>>
      /\ f.result # "in_progress"
  BY DEF TryLock, history, SubmissionInv, NamesAttempt, Shapes, BackedInv, ResultsBacked,
         ThreadBacked
<1>1. Remembers
  BY <1>0 DEF Remembers
<1>2. ASSUME NEW r, Answer(t, r),
             \/ Held(a) /\ r = "in_progress" /\ dir[a].lock # t
             \/ ~Held(a) /\ r \in Results /\ r = dir[a].result
      PROVE  \E g, d : Moved(t, g, d)
  <2>1. PICK g, d : g = AnswerWith(f, r) /\ d = Unlocked(dir[a], t)
    OBVIOUS
  <2>2. thread' = [thread EXCEPT ![t] = g] /\ dir' = [dir EXCEPT ![a] = d]
    BY <1>2, <2>1 DEF Answer, AnswerWith, Unlocked
  <2>3. /\ g.pc = "answer" /\ g.attempt = a /\ g.result = r
        /\ g.client = f.client /\ g.kind = f.kind
    BY SMT, <1>0, <2>1, AnswerShape
  <2>4. d.result = dir[a].result /\ d.lock = IF dir[a].lock = t THEN NoOne ELSE dir[a].lock
    BY SMT, <1>0, <2>1, DirShape
  <2>5. d.lock = dir[a].lock
    BY <1>2, <2>4 DEF Held
  <2>6. Busy(f, g, d) \/ Replayed(f, g, d)
    BY <1>0, <1>2, <2>3, <2>4, <2>5 DEF Busy, Replayed
  <2> QED BY <1>0, <1>1, <2>2, <2>3, <2>6 DEF Moved
<1>3. ASSUME ~Held(a), next # "answer", Goto(t, next), dir' = [dir EXCEPT ![a].lock = t]
      PROVE  \E g, d : Moved(t, g, d)
  <2>1. next \in {"mark", "seal"} /\ dir[a].result \notin Results
    BY <1>3 DEF ExecuteLocked
  <2> HIDE DEF next
  <2>2. PICK g, d : g = [f EXCEPT !.pc = next] /\ d = [dir[a] EXCEPT !.lock = t]
    OBVIOUS
  <2>3. thread' = [thread EXCEPT ![t] = g] /\ dir' = [dir EXCEPT ![a] = d]
    BY <1>3, <2>2 DEF Goto
  <2>4. /\ g.pc = next /\ g.attempt = a /\ g.result = f.result
        /\ g.client = f.client /\ g.kind = f.kind
    BY <1>0, <2>2 DEF IsThread
  <2>5. d.lock = t /\ d.result = dir[a].result
    BY <1>0, <2>2 DEF IsDir
  <2>6. Locked(t, f, g, d)
    BY <1>0, <1>3, <2>1, <2>4, <2>5 DEF Locked
  <2> QED BY <1>0, <1>1, <2>3, <2>4, <2>6 DEF Moved
<1>4. dir[a].lock # t \/ ~Held(a)
  BY <1>0 DEF BackedInv, ResultsBacked, HeldByWorker, Held, LockedPc, HandlerPc, MarkingPc
<1>5. next = "answer" => dir[a].result \in Results
  BY DEF ExecuteLocked
<1> QED BY <1>2, <1>3, <1>4, <1>5 DEF TryLock

\* What is known of a thread that works under the lock.
LEMMA Worker ==
    ASSUME SubmissionInv, BackedInv, NEW t \in Threads, thread[t].pc \in LockedPc
    PROVE  LET a == thread[t].attempt IN
           /\ a \in Attempts /\ IsThread(thread[t]) /\ IsDir(dir[a])
           /\ dir[a].lock = t /\ dir[a].result \notin Results
           /\ thread[t].kind \in Kinds /\ thread[t].result # "in_progress"
           /\ thread[t].pc # "idle"
<1>1. thread[t].pc # "idle" /\ thread[t].pc # "answer"
  BY DEF LockedPc, HandlerPc, MarkingPc
<1> QED BY <1>1 DEF SubmissionInv, Shapes, NamesAttempt, LockedByOwner, BackedInv,
                    ResultsBacked, ThreadBacked, RowsKnown

\* A file is written aside, or the thread answers that the outcome is unknown.
LEMMA WriteTempMoves ==
    ASSUME SubmissionInv, BackedInv, NEW t \in Threads, NEW file \in {"request", "result"},
           NEW next, WriteTemp(t, file, next),
           \/ thread[t].pc = "mark" /\ next = "marked"
           \/ thread[t].pc = "seal" /\ next = "sealed"
           \/ thread[t].pc = "finish" /\ next = "finished",
           UNCHANGED <<entered, gatesPassed>>
    PROVE  \E g, d : Moved(t, g, d)
<1> DEFINE f == thread[t]
           a == f.attempt
<1>0. f.pc \in LockedPc /\ next \in LockedPc
  BY DEF LockedPc, MarkingPc
<1>1. /\ a \in Attempts /\ IsThread(f) /\ IsDir(dir[a])
      /\ dir[a].lock = t /\ dir[a].result \notin Results
      /\ f.result # "in_progress" /\ f.pc # "idle"
  BY <1>0, Worker
<1>2. Remembers
  BY DEF Remembers
<1>3. "tmp" \notin Results /\ "succeeded" \in Results
  BY DEF Results
<1>4. CASE dir[a][file] = "tmp"
  <2>1. PICK g, d : g = AnswerWith(f, "outcome_unknown") /\ d = Unlocked(dir[a], t)
    OBVIOUS
  <2>2. thread' = [thread EXCEPT ![t] = g] /\ dir' = [dir EXCEPT ![a] = d]
    BY <1>4, <2>1 DEF WriteTemp, Answer, AnswerWith, Unlocked
  <2>3. /\ g.pc = "answer" /\ g.attempt = a /\ g.result = "outcome_unknown"
        /\ g.client = f.client /\ g.kind = f.kind
    BY SMT, <1>1, <2>1, AnswerShape
  <2>4. d.result = dir[a].result /\ d.lock = NoOne
    BY SMT, <1>1, <2>1, DirShape
  <2>5. Released(f, g, d)
    BY <1>0, <1>1, <1>3, <2>3, <2>4 DEF Released, Definite
  <2> QED BY <1>1, <1>2, <2>2, <2>3, <2>5 DEF Moved
<1>5. CASE dir[a][file] # "tmp"
  <2>1. PICK g, d : g = [f EXCEPT !.pc = next] /\ d = [dir[a] EXCEPT ![file] = "tmp"]
    OBVIOUS
  <2>2. thread' = [thread EXCEPT ![t] = g] /\ dir' = [dir EXCEPT ![a] = d]
    BY <1>5, <2>1 DEF WriteTemp, Goto
  <2>3. /\ g.pc = next /\ g.attempt = a /\ g.result = f.result
        /\ g.client = f.client /\ g.kind = f.kind
    BY <1>1, <2>1 DEF IsThread
  <2>4. d.lock = dir[a].lock /\ d.result \in {dir[a].result, "tmp"}
    BY <1>1, <2>1 DEF IsDir
  <2>5. Worked(f, g, d)
    <3>1. /\ g.pc \in HandlerPc \union FinishPc => f.pc = "finish"
          /\ g.pc \notin GatedPc
      BY <2>3 DEF HandlerPc, FinishPc, GatedPc
    <3>2. f.pc = "finish" => entered[a] = 1 /\ (f.result = "succeeded" => a \in gatesPassed)
      BY DEF BackedInv, ResultsBacked, ThreadBacked, FinishPc
    <3>3. g.pc \in FinishPc => f.pc = "finish"
      BY <3>1
    <3> QED BY <1>0, <1>1, <1>3, <2>3, <2>4, <3>1, <3>2, <3>3 DEF Worked
  <2> QED BY <1>1, <1>2, <2>2, <2>3, <2>5 DEF Moved
<1> QED BY <1>4, <1>5

\* The marker.
LEMMA MarkMoves ==
    ASSUME SubmissionInv, BackedInv, NEW t \in Threads, MarkRequest(t)
    PROVE  \E g, d : Moved(t, g, d)
<1> DEFINE f == thread[t]
           a == f.attempt
<1>0. UNCHANGED <<entered, gatesPassed>>
  BY DEF MarkRequest, history
<1>1. CASE f.pc = "mark" /\ WriteTemp(t, "request", "marked")
  BY <1>0, <1>1, WriteTempMoves
<1>2. CASE f.pc = "marked" /\ Rename(t, "request", "json") /\ Goto(t, "enter")
  <2>0. f.pc \in LockedPc
    BY <1>2 DEF LockedPc, MarkingPc
  <2>1. /\ a \in Attempts /\ IsThread(f) /\ IsDir(dir[a])
        /\ dir[a].result \notin Results /\ f.result # "in_progress" /\ f.pc # "idle"
    BY <2>0, Worker
  <2>2. PICK g, d : g = [f EXCEPT !.pc = "enter"] /\ d = [dir[a] EXCEPT !.request = "json"]
    OBVIOUS
  <2>3. thread' = [thread EXCEPT ![t] = g] /\ dir' = [dir EXCEPT ![a] = d]
    BY <1>2, <2>2 DEF Goto, Rename
  <2>4. /\ g.pc = "enter" /\ g.attempt = a /\ g.result = f.result
        /\ g.client = f.client /\ g.kind = f.kind
    BY <2>1, <2>2 DEF IsThread
  <2>5. d.lock = dir[a].lock /\ d.result = dir[a].result
    BY <2>1, <2>2 DEF IsDir
  <2>6. "enter" \in LockedPc /\ "enter" \notin HandlerPc \union FinishPc /\ "enter" \notin GatedPc
    BY DEF LockedPc, MarkingPc, HandlerPc, FinishPc, GatedPc
  <2>7. Worked(f, g, d)
    BY <2>0, <2>1, <2>4, <2>5, <2>6 DEF Worked
  <2>8. Remembers
    BY <1>0 DEF Remembers
  <2> QED BY <2>1, <2>3, <2>4, <2>7, <2>8 DEF Moved
<1> QED BY <1>1, <1>2 DEF MarkRequest

\* The handler is entered.
LEMMA EnterMoves ==
    ASSUME SubmissionInv, BackedInv, NEW t \in Threads, EnterHandler(t)
    PROVE  \E g, d : Moved(t, g, d)
<1> DEFINE f == thread[t]
           a == f.attempt
<1>0. /\ f.pc = "enter" /\ f.pc \in LockedPc /\ f.pc \in MarkingPc
      /\ UNCHANGED <<dir, gatesPassed>> /\ entered' = [entered EXCEPT ![a] = @ + 1]
  BY DEF EnterHandler, LockedPc, MarkingPc
<1>1. /\ a \in Attempts /\ IsThread(f) /\ dir[a].result \notin Results
      /\ f.result # "in_progress" /\ f.pc # "idle"
  BY <1>0, Worker
<1>2. entered[a] = 0 /\ entered \in [Attempts -> Nat] /\ dir = [b \in Attempts |-> dir[b]]
  BY <1>0 DEF SubmissionInv, MarkedBeforeEntered, Shapes
<1>3. entered'[a] = 1 /\ Remembers
  BY SMT, <1>0, <1>1, <1>2 DEF Remembers
<1>4. PICK g, d : g = [f EXCEPT !.pc = "plan"] /\ d = dir[a]
  OBVIOUS
<1>5. thread' = [thread EXCEPT ![t] = g] /\ dir' = [dir EXCEPT ![a] = d]
  BY <1>0, <1>1, <1>2, <1>4 DEF EnterHandler, Goto
<1>6. /\ g.pc = "plan" /\ g.attempt = a /\ g.result = f.result
      /\ g.client = f.client /\ g.kind = f.kind
  BY <1>1, <1>4 DEF IsThread
<1>7. "plan" \in LockedPc /\ "plan" \notin FinishPc /\ "plan" \notin GatedPc
  BY DEF LockedPc, HandlerPc, FinishPc, GatedPc
<1>8. Worked(f, g, d)
  BY <1>0, <1>1, <1>3, <1>4, <1>6, <1>7 DEF Worked
<1> QED BY <1>1, <1>3, <1>5, <1>6, <1>8 DEF Moved

\* A step of the handler.
LEMMA HandleMoves ==
    ASSUME SubmissionInv, BackedInv, NEW t \in Threads, Handle(t)
    PROVE  \E g, d : Moved(t, g, d)
<1> DEFINE f == thread[t]
           a == f.attempt
<1>1. PICK g \in handle_submit_once(f) :
         /\ thread' = [thread EXCEPT ![t] = g]
         /\ gatesPassed' = IF g.gated THEN gatesPassed \union {g.attempt} ELSE gatesPassed
  BY DEF Handle
<1>2. UNCHANGED <<dir, entered>> /\ IsThread(f)
  BY DEF Handle, SubmissionInv, Shapes
<1>3. f.pc \in HandlerPc /\ Continues(f, g)
  BY <1>1, <1>2, HandlerContinues
<1>4. f.pc \in LockedPc
  BY <1>3 DEF LockedPc
<1>5. /\ a \in Attempts /\ f.kind \in Kinds /\ dir[a].result \notin Results
      /\ f.result # "in_progress" /\ f.pc # "idle"
  BY <1>4, Worker
<1>6. f.pc \in GatedPc \/ Ungated(g) \/ (g.gated /\ g.pc = "store_artifact")
  BY <1>1, <1>2, <1>5, HandlerContinues
<1>7. /\ g.attempt = a /\ g.client = f.client /\ g.kind = f.kind
      /\ \/ g.pc \in HandlerPc /\ g.result = f.result
         \/ g.pc = "finish" /\ g.result \in {"succeeded", "definitively_rejected"}
  BY <1>3 DEF Continues
<1>8. g.pc \in LockedPc /\ g.result # "in_progress"
  BY <1>5, <1>7 DEF LockedPc
<1>9. entered[a] = 1 /\ (f.pc \in GatedPc => a \in gatesPassed)
  BY <1>3 DEF BackedInv, ResultsBacked, ThreadBacked
<1>10. gatesPassed \subseteq gatesPassed' /\ (g.gated => a \in gatesPassed')
  BY <1>1, <1>7
<1>11. /\ g.pc \in GatedPc => a \in gatesPassed'
       /\ g.pc \in FinishPc /\ g.result = "succeeded" => a \in gatesPassed'
  <2>1. "store_artifact" \notin FinishPc /\ (g.pc \in FinishPc => g.pc = "finish")
    BY <1>7 DEF FinishPc, HandlerPc
  <2> QED BY <1>6, <1>9, <1>10, <2>1 DEF Ungated
<1>12. Worked(f, g, dir[a])
  BY <1>2, <1>4, <1>5, <1>8, <1>9, <1>11 DEF Worked
<1>13. Remembers
  BY <1>2, <1>10 DEF Remembers
<1>14. dir' = [dir EXCEPT ![a] = dir[a]]
  BY <1>2, <1>5 DEF SubmissionInv, Shapes
<1> QED BY <1>1, <1>5, <1>7, <1>12, <1>13, <1>14 DEF Moved

\* A thread that answers r and leaves the result v behind.
LEMMA ReleaseMoves ==
    ASSUME SubmissionInv, BackedInv, NEW t \in Threads, thread[t].pc \in LockedPc,
           NEW r, NEW d, r # "in_progress", d.lock = NoOne, 
           d.result = "succeeded" =>
               thread[t].pc = "finished" /\ thread[t].result = "succeeded",
           r \in Definite => d.result = r,
           thread' = [thread EXCEPT ![t] = AnswerWith(thread[t], r)],
           dir' = [dir EXCEPT ![thread[t].attempt] = d],
           UNCHANGED <<entered, gatesPassed>>
    PROVE  \E g, e : Moved(t, g, e)
<1> DEFINE f == thread[t]
           a == f.attempt
<1>1. IsThread(f) /\ f.pc # "idle"
  BY Worker
<1>2. PICK g : g = AnswerWith(f, r)
  OBVIOUS
<1>3. /\ g.pc = "answer" /\ g.attempt = a /\ g.result = r
      /\ g.client = f.client /\ g.kind = f.kind
  BY SMT, <1>1, <1>2, AnswerShape
<1>4. d.result = "succeeded" => a \in gatesPassed /\ entered[a] = 1
  BY DEF BackedInv, ResultsBacked, ThreadBacked, FinishPc
<1>5. Released(f, g, d)
  BY <1>3, <1>4 DEF Released
<1>6. Remembers
  BY DEF Remembers
<1> QED BY <1>1, <1>2, <1>3, <1>5, <1>6 DEF Moved

\* The result of the handler or of the seal.
LEMMA ResultMoves ==
    ASSUME SubmissionInv, BackedInv, NEW t \in Threads, PersistResult(t) \/ Seal(t)
    PROVE  \E g, d : Moved(t, g, d)
<1> DEFINE f == thread[t]
           a == f.attempt
<1>0. UNCHANGED <<entered, gatesPassed>>
  BY DEF PersistResult, Seal, history
<1>1. CASE f.pc = "finish" /\ WriteTemp(t, "result", "finished")
  BY <1>0, <1>1, WriteTempMoves
<1>2. CASE f.pc = "seal" /\ WriteTemp(t, "result", "sealed")
  BY <1>0, <1>2, WriteTempMoves
<1>3. ASSUME f.pc \in {"finished", "sealed"}
      PROVE  /\ f.pc \in LockedPc /\ a \in Attempts /\ IsThread(f) /\ IsDir(dir[a])
             /\ thread = [u \in Threads |-> thread[u]] /\ dir = [b \in Attempts |-> dir[b]]
             /\ f.result # "in_progress"
  <2>1. f.pc \in LockedPc
    BY <1>3 DEF LockedPc
  <2> QED BY <2>1, Worker DEF SubmissionInv, Shapes
<1>4. CASE /\ f.pc = "finished"
           /\ thread' = [thread EXCEPT ![t].pc = "answer"]
           /\ dir' = [dir EXCEPT ![a].result = f.result, ![a].lock = NoOne]
  <2>1. PICK d : d = WithResult(dir[a], f.result)
    OBVIOUS
  <2>2. dir' = [dir EXCEPT ![a] = d]
    BY <1>3, <1>4, <2>1 DEF WithResult
  <2>3. AnswerWith(f, f.result) = [f EXCEPT !.pc = "answer"]
    BY <1>3, <1>4 DEF IsThread, AnswerWith
  <2>4. thread' = [thread EXCEPT ![t] = AnswerWith(f, f.result)]
    BY <1>3, <1>4, <2>3
  <2>5. d.result = f.result /\ d.lock = NoOne
    BY SMT, <1>3, <1>4, <2>1, DirShape
  <2> QED BY <1>0, <1>3, <1>4, <2>2, <2>4, <2>5, ReleaseMoves
<1>5. CASE /\ f.pc = "sealed"
           /\ thread' = [thread EXCEPT ![t].pc = "answer", ![t].result = "outcome_unknown"]
           /\ dir' = [dir EXCEPT ![a].result = "outcome_unknown", ![a].lock = NoOne]
  <2>1. PICK d : d = WithResult(dir[a], "outcome_unknown")
    OBVIOUS
  <2>2. dir' = [dir EXCEPT ![a] = d]
    BY <1>3, <1>5, <2>1 DEF WithResult
  <2>3. thread' = [thread EXCEPT ![t] = AnswerWith(f, "outcome_unknown")]
    BY <1>3, <1>5 DEF AnswerWith
  <2>4. d.result = "outcome_unknown" /\ d.lock = NoOne
    BY SMT, <1>3, <1>5, <2>1, DirShape
  <2> QED BY <1>0, <1>3, <1>5, <2>2, <2>3, <2>4, ReleaseMoves DEF Definite
<1> QED BY <1>1, <1>2, <1>4, <1>5 DEF PersistResult, Seal

\* A failed write.
LEMMA WriteFaultMoves ==
    ASSUME SubmissionInv, BackedInv, NEW t \in Threads, WriteFault(t),
           UNCHANGED <<entered, gatesPassed>>
    PROVE  \E g, d : Moved(t, g, d)
<1> DEFINE f == thread[t]
           a == f.attempt
           file == IF f.pc = "marked" THEN "request" ELSE "result"
<1>0. f.pc \in {"marked", "finished", "sealed"} /\ f.pc \in LockedPc
  BY DEF WriteFault, LockedPc, MarkingPc
<1>1. /\ a \in Attempts /\ IsDir(dir[a]) /\ dir[a].result \notin Results
      /\ dir = [b \in Attempts |-> dir[b]] /\ thread = [u \in Threads |-> thread[u]]
  BY <1>0, Worker DEF SubmissionInv, Shapes
<1>2. PICK v : /\ dir' = [dir EXCEPT ![a][file] = v, ![a].lock = NoOne]
               /\ v = "succeeded" => f.pc = "finished" /\ f.result = "succeeded"
  <2>1. PICK v \in {"tmp", CASE f.pc = "marked" -> "json"
                             [] f.pc = "finished" -> f.result
                             [] OTHER -> "outcome_unknown"} :
            dir' = [dir EXCEPT ![a][file] = v, ![a].lock = NoOne]
    BY DEF WriteFault
  <2>2. v = "succeeded" => f.pc = "finished" /\ f.result = "succeeded"
    BY <1>0, <2>1
  <2> QED BY <2>1, <2>2
<1>3. thread' = [thread EXCEPT ![t] = AnswerWith(f, "outcome_unknown")]
  BY <1>1 DEF WriteFault, AnswerWith
<1>4. "succeeded" \in Results /\ "outcome_unknown" \notin Definite
  BY DEF Results, Definite
<1>5. CASE f.pc = "marked"
  <2>1. PICK d : d = WithMarker(dir[a], v)
    OBVIOUS
  <2>2. dir' = [dir EXCEPT ![a] = d]
    BY <1>1, <1>2, <1>5, <2>1 DEF WithMarker
  <2>3. d.result = dir[a].result /\ d.lock = NoOne
    BY SMT, <1>1, <2>1, DirShape
  <2> QED BY <1>0, <1>1, <1>3, <1>4, <2>2, <2>3, ReleaseMoves
<1>6. CASE f.pc # "marked"
  <2>1. PICK d : d = WithResult(dir[a], v)
    OBVIOUS
  <2>2. dir' = [dir EXCEPT ![a] = d]
    BY <1>1, <1>2, <1>6, <2>1 DEF WithResult
  <2>3. d.result = v /\ d.lock = NoOne
    BY SMT, <1>1, <2>1, DirShape
  <2> QED BY <1>0, <1>2, <1>3, <1>4, <2>2, <2>3, ReleaseMoves
<1> QED BY <1>5, <1>6

\* A file that cannot be opened or read.
LEMMA OpenFaultMoves ==
    ASSUME SubmissionInv, BackedInv, NEW t \in Threads, OpenFault(t),
           UNCHANGED <<entered, gatesPassed>>
    PROVE  \E g, d : Moved(t, g, d)
<1> DEFINE f == thread[t]
           a == f.attempt
<1>1. /\ f.pc \in {"lock", "mark", "finish", "seal"}
      /\ a \in Attempts /\ IsThread(f) /\ IsDir(dir[a])
  BY DEF OpenFault, SubmissionInv, Shapes, NamesAttempt
<1>2. PICK g, d : g = AnswerWith(f, "outcome_unknown") /\ d = Unlocked(dir[a], t)
  OBVIOUS
<1>3. thread' = [thread EXCEPT ![t] = g] /\ dir' = [dir EXCEPT ![a] = d]
  BY <1>2 DEF OpenFault, Answer, AnswerWith, Unlocked
<1>4. /\ g.pc = "answer" /\ g.attempt = a /\ g.result = "outcome_unknown"
      /\ g.client = f.client /\ g.kind = f.kind
  BY SMT, <1>1, <1>2, AnswerShape
<1>5. d.result = dir[a].result /\ d.lock = IF dir[a].lock = t THEN NoOne ELSE dir[a].lock
  BY SMT, <1>1, <1>2, DirShape
<1>6. "succeeded" \in Results /\ "outcome_unknown" \in Results \ Definite
  BY DEF Results, Definite
<1>7. CASE f.pc = "lock"
  <2>1. dir[a].lock # t
    BY <1>1, <1>7, StoreAssumption DEF BackedInv, ResultsBacked, HeldByWorker, LockedPc,
                                       HandlerPc, MarkingPc
  <2>2. Replayed(f, g, d)
    BY <1>4, <1>5, <1>6, <1>7, <2>1 DEF Replayed
  <2> QED BY <1>3, <1>4, <1>7, <2>2 DEF Moved, Remembers
<1>8. CASE f.pc # "lock"
  <2>1. f.pc \in LockedPc
    BY <1>1, <1>8 DEF LockedPc, MarkingPc
  <2>2. dir[a].lock = t /\ dir[a].result \notin Results
    BY <2>1, Worker
  <2>3. d.lock = NoOne /\ d.result # "succeeded"
    BY <1>5, <1>6, <2>2
  <2> QED BY <1>2, <1>3, <1>6, <2>1, <2>3, ReleaseMoves
<1> QED BY <1>7, <1>8

\* Any error of the store's files.
LEMMA DiskFaultMoves ==
    ASSUME SubmissionInv, BackedInv, NEW t \in Threads, DiskFault(t)
    PROVE  \E g, d : Moved(t, g, d)
BY OpenFaultMoves, WriteFaultMoves DEF DiskFault, history

\* A step of a harness thread, thread by thread and directory by directory.
LEMMA MovedPoints ==
    ASSUME SubmissionInv, BackedInv, NEW t \in Threads, NEW g, NEW d, Moved(t, g, d)
    PROVE  LET a == thread[t].attempt IN
           /\ a \in Attempts /\ g.pc # "idle"
           /\ thread'[t] = g /\ \A u \in Threads \ {t} : thread'[u] = thread[u]
           /\ dir'[a] = d /\ \A b \in Attempts \ {a} : dir'[b] = dir[b]
           /\ \A b \in Attempts : dir[b].result \in Results => dir'[b].result = dir[b].result
<1> DEFINE f == thread[t]
           a == f.attempt
<1>1. a \in Attempts
  BY DEF Moved, SubmissionInv, NamesAttempt
<1>2. thread'[t] = g /\ \A u \in Threads \ {t} : thread'[u] = thread[u]
  BY DEF Moved, SubmissionInv, Shapes
<1>3. dir'[a] = d /\ \A b \in Attempts \ {a} : dir'[b] = dir[b]
  BY <1>1 DEF Moved, SubmissionInv, Shapes
<1>4. g.pc # "idle"
  BY DEF Moved, Busy, Replayed, Locked, Worked, Released, LockedPc, HandlerPc, MarkingPc
<1>5. dir[a].result \in Results => d.result = dir[a].result
  <2>1. f.pc \in LockedPc => dir[a].result \notin Results
    BY DEF BackedInv, ResultsBacked, ThreadBacked
  <2> QED BY <2>1 DEF Moved, Busy, Replayed, Locked, Worked, Released
<1> QED BY <1>1, <1>2, <1>3, <1>4, <1>5

\* It keeps what backs a result.
LEMMA MovedKeepsResults ==
    ASSUME SubmissionInv, BackedInv, NEW t \in Threads, NEW g, NEW d, Moved(t, g, d)
    PROVE  ResultsBacked'
<1> DEFINE f == thread[t]
           a == f.attempt
<1>1. /\ a \in Attempts
      /\ thread'[t] = g /\ \A u \in Threads \ {t} : thread'[u] = thread[u]
      /\ dir'[a] = d /\ \A b \in Attempts \ {a} : dir'[b] = dir[b]
      /\ \A b \in Attempts : dir[b].result \in Results => dir'[b].result = dir[b].result
  BY SMT, MovedPoints
<1>2. Remembers /\ g.attempt = a /\ f.pc # "idle"
  BY DEF Moved
<1>3. f.pc \in LockedPc => dir[a].lock = t /\ dir[a].result \notin Results
  BY Worker
<1>4. "lock" \notin LockedPc /\ "answer" \notin LockedPc \union HandlerPc \union FinishPc
      /\ {"mark", "seal"} \subseteq LockedPc
      /\ {"mark", "seal"} \cap (HandlerPc \union FinishPc \union GatedPc \union {"answer"}) = {}
      /\ "succeeded" \in Results /\ Definite \subseteq Results
      /\ "in_progress" \notin Definite /\ "outcome_unknown" \notin Definite
      /\ GatedPc \subseteq HandlerPc /\ FinishPc \subseteq LockedPc
  BY DEF LockedPc, HandlerPc, MarkingPc, FinishPc, GatedPc, Results, Definite
<1>5. \A u \in Threads \ {t} :
         /\ thread[u].pc # "idle" => thread[u].attempt \in Attempts
         /\ thread[u].pc \in LockedPc => thread[u].attempt \in Attempts
         /\ thread[u].pc \in LockedPc /\ thread[u].attempt = a => dir[a].lock = u
  BY DEF SubmissionInv, NamesAttempt, LockedByOwner, LockedPc, HandlerPc, MarkingPc
<1>6. HeldByWorker'
  <2>1. ASSUME NEW b \in Attempts \ {a}, dir[b].lock # NoOne
        PROVE  /\ dir[b].lock \in Threads \ {t} /\ thread[dir[b].lock].pc \in LockedPc
               /\ thread[dir[b].lock].attempt = b
    BY <2>1 DEF BackedInv, ResultsBacked, HeldByWorker
  <2>2. ASSUME d.lock # NoOne
        PROVE  /\ d.lock \in Threads /\ thread'[d.lock].pc \in LockedPc
               /\ thread'[d.lock].attempt = a
    <3>1. CASE Busy(f, g, d) \/ Replayed(f, g, d)
      <4>1. d.lock = dir[a].lock /\ f.pc \notin LockedPc
        BY <1>4, <3>1 DEF Busy, Replayed
      <4>2. dir[a].lock \in Threads \ {t} /\ thread[dir[a].lock].pc \in LockedPc
            /\ thread[dir[a].lock].attempt = a
        BY <1>1, <2>2, <4>1 DEF BackedInv, ResultsBacked, HeldByWorker
      <4> QED BY <1>1, <4>1, <4>2
    <3>2. CASE Locked(t, f, g, d) \/ Worked(f, g, d)
      BY <1>1, <1>2, <1>3, <1>4, <3>2 DEF Locked, Worked
    <3> QED BY <2>2, <3>1, <3>2 DEF Moved, Released
  <2> QED BY SMT, <1>1, <2>1, <2>2 DEF HeldByWorker
<1>7. ASSUME NEW u \in Threads \ {t} PROVE ThreadBacked(thread[u])'
  <2>1. thread'[u] = thread[u] /\ ThreadBacked(thread[u])
    BY <1>1 DEF BackedInv, ResultsBacked
  <2>2. thread[u].pc \in LockedPc => dir'[thread[u].attempt].result \notin Results
    <3>1. CASE thread[u].pc \in LockedPc /\ thread[u].attempt = a
      <4>1. dir[a].lock = u /\ dir[a].lock # NoOne
        BY <1>5, <3>1, StoreAssumption
      <4>2. Busy(f, g, d) \/ Replayed(f, g, d)
        BY <1>3, <4>1 DEF Moved, Locked, Held, Worked, Released
      <4>3. d.result = dir[a].result
        BY <4>2 DEF Busy, Replayed
      <4> QED BY <1>1, <2>1, <3>1, <4>3 DEF ThreadBacked
    <3>2. CASE thread[u].pc \in LockedPc /\ thread[u].attempt # a
      BY <1>1, <1>5, <2>1, <3>2 DEF ThreadBacked
    <3> QED BY <3>1, <3>2
  <2>3. thread[u].pc = "answer" /\ thread[u].result \in Definite
           => dir'[thread[u].attempt].result = thread[u].result
    BY <1>1, <1>4, <1>5, <2>1 DEF ThreadBacked
  <2>4. /\ thread[u].pc \in HandlerPc \union FinishPc => entered'[thread[u].attempt] = 1
        /\ thread[u].pc \in GatedPc => thread[u].attempt \in gatesPassed'
        /\ thread[u].pc \in FinishPc /\ thread[u].result = "succeeded"
             => thread[u].attempt \in gatesPassed'
    <3>1. thread[u].pc \in HandlerPc \union FinishPc => thread[u].attempt \in Attempts
      BY <1>4, <1>5 DEF LockedPc
    <3> QED BY <1>2, <2>1, <3>1 DEF ThreadBacked, Remembers
  <2>5. /\ thread[u].result = "in_progress" => thread[u].pc = "answer"
        /\ thread[u].pc \in LockedPc \union {"idle", "lock", "answer"}
    BY <2>1 DEF ThreadBacked
  <2> QED BY <2>1, <2>2, <2>3, <2>4, <2>5 DEF ThreadBacked
<1>8. ThreadBacked(thread[t])'
  <2>1. CASE Busy(f, g, d) \/ Replayed(f, g, d)
    <3>1. /\ g.pc = "answer" /\ d.result = dir[a].result
          /\ g.result \in Definite => d.result = g.result
      BY <1>4, <2>1 DEF Busy, Replayed
    <3> QED BY <1>1, <1>2, <1>4, <3>1 DEF ThreadBacked
  <2>2. CASE Locked(t, f, g, d)
    BY <1>1, <1>2, <1>4, <2>2 DEF Locked, ThreadBacked
  <2>3. CASE Worked(f, g, d)
    <3>1. g.pc # "answer"
      BY <1>4, <2>3 DEF Worked
    <3> QED BY <1>1, <1>2, <2>3, <3>1 DEF Worked, ThreadBacked
  <2>4. CASE Released(f, g, d)
    BY <1>1, <1>2, <1>4, <2>4 DEF Released, ThreadBacked
  <2> QED BY <2>1, <2>2, <2>3, <2>4 DEF Moved
<1>9. \A b \in Attempts : dir'[b].result = "succeeded" => b \in gatesPassed' /\ entered'[b] = 1
  <2>1. \A b \in Attempts : dir[b].result = "succeeded" => b \in gatesPassed' /\ entered'[b] = 1
    BY <1>2 DEF Remembers, BackedInv, ResultsBacked
  <2>2. d.result = "succeeded" => \/ dir[a].result = "succeeded"
                                  \/ a \in gatesPassed /\ entered[a] = 1
    BY <1>4 DEF Moved, Busy, Replayed, Locked, Worked, Released
  <2> QED BY <1>1, <1>2, <2>1, <2>2 DEF Remembers
<1> QED BY <1>1, <1>6, <1>7, <1>8, <1>9 DEF ResultsBacked

\* It keeps the rest as well.
LEMMA MovedKeeps ==
    ASSUME SubmissionInv, BackedInv, NEW t \in Threads, NEW g, NEW d, Moved(t, g, d),
           UNCHANGED <<row, caller, proposals>>
    PROVE  BackedInv'
<1>1. /\ thread'[t] = g /\ \A u \in Threads \ {t} : thread'[u] = thread[u]
      /\ \A b \in Attempts : dir[b].result \in Results => dir'[b].result = dir[b].result
      /\ g.attempt = thread[t].attempt /\ g.client = thread[t].client /\ g.kind = thread[t].kind
      /\ thread[t].pc # "idle" /\ g.pc # "idle"
  BY MovedPoints DEF Moved
<1>2. RowsKnown'
  BY <1>1 DEF BackedInv, RowsKnown, At
<1>3. ClientsWait'
  BY SMT, <1>1 DEF BackedInv, ClientsWait, At
<1>4. SuccessBacked'
  <2>1. \A b \in Attempts : dir[b].result \in Definite => dir'[b].result = dir[b].result
    BY <1>1 DEF Definite, Results
  <2>2. ASSUME NEW c \in Callers PROVE CallerBacked(caller[c])'
    <3>1. CallerBacked(caller[c]) /\ (caller[c].pc # "idle" => caller[c].attempt \in Attempts)
      BY DEF BackedInv, SuccessBacked, RowsKnown, At
    <3>2. "succeeded" \in Definite
      BY DEF Definite
    <3> QED BY <2>1, <3>1, <3>2 DEF CallerBacked
  <2>3. \A b \in Attempts : row'[b].status \in Definite => dir'[b].result = row'[b].status
    BY <2>1 DEF BackedInv, SuccessBacked
  <2> QED BY <2>2, <2>3 DEF BackedInv, SuccessBacked
<1> QED BY <1>2, <1>3, <1>4, MovedKeepsResults DEF BackedInv
=============================================================================
