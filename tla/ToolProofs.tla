---- MODULE ToolProofs ----
(***************************************************************************)
(* Proofs about the tool recall loop: what the model is sent, what is      *)
(* carried out for it and how many rounds and how much time it takes, for  *)
(* every catalog, grant set, budget and timeout.                           *)
(***************************************************************************)
EXTENDS ToolLoop, TLAPS

\* The leaves are for Zenon; a leaf that needs arithmetic, or that Zenon does not
\* find in time, cites SMT.
USE Zenon

Endpoints == {"primary", "fallback", "system"}

\* An output carries a provider turn exactly when its call was parsed.
WellFormed(o) ==
    /\ o.call \in Outputs /\ o.endpoint \in Endpoints
    /\ o.turn = (o.call \notin {NoCall, MalformedCall})

Shapes ==
    /\ handled \in Seq(Outputs)
    /\ follow_ups \in Seq([call : Outputs, endpoint : Endpoints])
    /\ WellFormed(out)

\* A yield or a failure of the Run takes the loop to its end, and not both.
ControlInv ==
    /\ (yielded \/ status = "Failed") => pc \in {"end", "done"}
    /\ ~(yielded /\ status = "Failed")

\* A parsed call comes from the endpoint of the transcript so far.
SameEndpoint ==
    out.turn => \A i \in DOMAIN follow_ups : follow_ups[i].endpoint = out.endpoint

\* ResultsSentOnce holds from the start until an error or the end of the loop.
Matched ==
    pc \notin {"failed", "end", "done"} =>
        \E at \in [DOMAIN follow_ups -> Parsed(handled)] : InOrder(at, Parsed(handled))

TranscriptInv == SameEndpoint /\ TranscriptFromOneEndpoint

ToolInv ==
    /\ Shapes /\ ControlInv /\ TranscriptInv /\ Matched
    /\ EffectsAreAccountedFor

---------------------------------------------------------------------------
\* What an endpoint answers with is an output of that endpoint
\* (request_endpoint).
LEMMA EndpointAnswers ==
    ASSUME NEW e \in {"primary", "fallback", "system"}, NEW t,
           NEW x \in request_endpoint(e, t), x.ok
    PROVE  /\ WellFormed(x.output) /\ x.output.endpoint = e
           /\ \E n : x = [ok |-> TRUE, time |-> n, output |-> x.output]
<1>1. PICK n \in 0 .. t, c \in Outputs :
          x = [ok |-> TRUE, time |-> n, output |-> parse_tool_call(c, e)]
    BY SMT DEF request_endpoint
<1>2. x.output = parse_tool_call(c, e) /\ x = [ok |-> TRUE, time |-> n, output |-> x.output]
    BY <1>1
<1>3. WellFormed(x.output) /\ x.output.endpoint = e
    BY SMT, <1>2 DEF parse_tool_call, WellFormed, Endpoints
<1> QED BY <1>2, <1>3

\* The first round's answer is an output of the primary or of the fallback
\* endpoint, whether it succeeded or not (OpenAiCompatibleLlm::complete).
LEMMA FirstAnswers ==
    ASSUME NEW t, NEW x \in FirstRound(t)
    PROVE  WellFormed(x.output)
<1> DEFINE failed(e, n) == [ok |-> TRUE, time |-> n, output |-> request_failed_output(e)]
           Then(p) ==
             IF p.ok THEN {p}
             ELSE IF ~HasFallback THEN {failed("primary", p.time)}
             ELSE {IF f.ok THEN [f EXCEPT !.time = @ + p.time]
                   ELSE failed("fallback", f.time + p.time) :
                     f \in request_endpoint("fallback", t)}
<1>1. PICK p \in request_endpoint("primary", t) : x \in Then(p)
    BY Zenon DEF FirstRound
<1>2. ASSUME NEW e \in {"primary", "fallback"}, NEW n PROVE WellFormed(failed(e, n).output)
    BY DEF request_failed_output, WellFormed, Endpoints, Outputs, NoCall
<1>3. CASE p.ok
    BY <1>1, <1>3, EndpointAnswers
<1>4. CASE ~p.ok /\ ~HasFallback
  <2>1. x = failed("primary", p.time)
      BY <1>1, <1>4
  <2> QED BY <2>1, <1>2
<1>5. CASE ~p.ok /\ HasFallback
  <2>1. PICK f \in request_endpoint("fallback", t) :
            x = IF f.ok THEN [f EXCEPT !.time = @ + p.time]
                ELSE failed("fallback", f.time + p.time)
      BY <1>1, <1>5
  <2>2. CASE f.ok
    <3>1. WellFormed(f.output) /\ \E n : f = [ok |-> TRUE, time |-> n, output |-> f.output]
        BY <2>2, EndpointAnswers
    <3>2. x.output = f.output
        BY <2>1, <2>2, <3>1
    <3> QED BY <3>1, <3>2
  <2>3. CASE ~f.ok
    <3>1. x = failed("fallback", f.time + p.time)
        BY <2>1, <2>3
    <3> QED BY <3>1, <1>2
  <2> QED BY <2>2, <2>3
<1> QED BY <1>3, <1>4, <1>5

\* A model request leaves the last output alone or replaces it with one of the
\* endpoint that issued the answered turns (FinishInvocation).
LEMMA FinishKeepsEndpoint ==
    ASSUME Shapes, NEW ok, NEW r, FinishInvocation(ok, r)
    PROVE  \/ out' = out
           \/ /\ WellFormed(out')
              /\ follow_ups # <<>> => out'.endpoint = follow_ups[Len(follow_ups)].endpoint
<1>1. PICK t : \E x \in complete(t) : IF x.ok THEN out' = x.output \/ out' = out ELSE out' = out
    BY DEF FinishInvocation
<1>2. PICK x \in complete(t) : IF x.ok THEN out' = x.output \/ out' = out ELSE out' = out
    BY <1>1
<1>3. CASE out' # out /\ follow_ups # <<>>
  <2>1. PICK S : S = [call : Outputs, endpoint : Endpoints]
      OBVIOUS
  <2>2. follow_ups \in Seq(S) /\ follow_ups # <<>>
      BY <1>3, <2>1 DEF Shapes
  <2>3. Len(follow_ups) \in 1 .. Len(follow_ups)
      BY SMT, <2>2
  <2>4. follow_ups[Len(follow_ups)] \in S
      BY SMT, <2>2, <2>3
  <2>5. x \in request_endpoint(follow_ups[Len(follow_ups)].endpoint, t)
      BY <1>2, <1>3 DEF complete, Last
  <2> QED BY <2>1, <2>4, <2>5, <1>2, <1>3, EndpointAnswers DEF Endpoints
<1>4. CASE out' # out /\ follow_ups = <<>>
    BY <1>2, <1>4, FirstAnswers DEF complete
<1> QED BY <1>3, <1>4

---------------------------------------------------------------------------
Kinds == {"ToolCallIssued", "InvocationProposed", "InvocationApproved", "ReceiptReceived",
          "ToolCallRejected"}

\* What handling one call does: its position, its events, its effect and its
\* follow-up, and where the loop goes on (handle_inline_tool_call).
CallEffect ==
    /\ handled' = Append(handled, out.call) /\ out' = out
    /\ yielded' = yielded /\ status' = status /\ error' = error
    /\ events \subseteq events'
    /\ \A e \in effects' \ effects :
         /\ e.op \in Granted
         /\ \A k \in {"ToolCallIssued", "InvocationProposed", "InvocationApproved"} :
              [call |-> e.call, kind |-> k] \in events'
         /\ [call |-> e.call, kind |-> "ReceiptReceived"] \in events' \/ pc' = "failed"
    /\ \/ pc' = "failed" /\ follow_ups' = follow_ups
       \/ /\ pc' \in {"exhausted", "followup"}
          /\ follow_ups' = IF out.turn
                           THEN Append(follow_ups, [call |-> out.call, endpoint |-> out.endpoint])
                           ELSE follow_ups

\* Only a granted call of the catalog is ever approved, and the events before the
\* approval are its first three (handle_inline_tool_call, evaluate_policy).
LEMMA ApprovedKinds ==
    ASSUME NEW op, NEW args, NEW n \in Nat, n >= 3,
           n <= Len(handle_inline_tool_call(op, args)),
           handle_inline_tool_call(op, args)[3] = "InvocationApproved"
    PROVE  /\ op \in Granted
           /\ handle_inline_tool_call(op, args)
                = <<"ToolCallIssued", "InvocationProposed", "InvocationApproved", "ReceiptReceived">>
BY SMT DEF handle_inline_tool_call, evaluate_policy

\* The events of a call that reached the journal are those of its first ones.
LEMMA RecordedPrefix ==
    ASSUME NEW index, NEW kinds \in Seq(Kinds), NEW n \in 0 .. Len(kinds), NEW i \in 1 .. n
    PROVE  [call |-> index, kind |-> kinds[i]] \in Recorded(index, SubSeq(kinds, 1, n))
<1>1. i \in DOMAIN SubSeq(kinds, 1, n) /\ SubSeq(kinds, 1, n)[i] = kinds[i]
    BY SMT
<1> QED BY <1>1 DEF Recorded

\* Handling a call has the effects listed, whichever path it takes.
LEMMA TakeEffect ==
    ASSUME NEW kinds,
           \/ kinds = handle_malformed_tool_call
           \/ kinds = handle_inline_tool_call(out.call.op, out.call.args),
           Take(kinds)
    PROVE  CallEffect
<1>1. kinds \in Seq(Kinds) /\ Len(kinds) \in Nat
  <2>1. \/ kinds = <<"ToolCallIssued", "ToolCallRejected">>
        \/ kinds = <<"ToolCallIssued", "InvocationProposed", "ToolCallRejected">>
        \/ kinds = <<"ToolCallIssued", "InvocationProposed", "InvocationApproved",
                     "ReceiptReceived">>
      BY DEF handle_malformed_tool_call, handle_inline_tool_call
  <2>2. CASE kinds = <<"ToolCallIssued", "ToolCallRejected">>
      BY SMT, <2>2 DEF Kinds
  <2>3. CASE kinds = <<"ToolCallIssued", "InvocationProposed", "ToolCallRejected">>
      BY SMT, <2>3 DEF Kinds
  <2>4. CASE kinds = <<"ToolCallIssued", "InvocationProposed", "InvocationApproved",
                       "ReceiptReceived">>
      BY SMT, <2>4 DEF Kinds
  <2> QED BY <2>1, <2>2, <2>3, <2>4
<1>2. PICK n \in 0 .. Len(kinds), time \in 0 .. ToolTime :
          /\ Invoke(out.call, Len(handled), kinds, n, time)
          /\ IF append_or_fatal(n, kinds)
             THEN Follow /\ Goto(IF left' = 0 THEN "exhausted" ELSE "followup")
             ELSE UNCHANGED follow_ups /\ Goto("failed")
    BY DEF Take
<1>3. /\ handled' = Append(handled, out.call) /\ out' = out
      /\ yielded' = yielded /\ status' = status /\ error' = error
    BY DEF Take
<1>4. \/ n # Len(kinds) /\ pc' = "failed" /\ follow_ups' = follow_ups
      \/ /\ n = Len(kinds) /\ pc' \in {"exhausted", "followup"}
         /\ follow_ups' = IF out.turn
                          THEN Append(follow_ups, [call |-> out.call, endpoint |-> out.endpoint])
                          ELSE follow_ups
    BY <1>2 DEF append_or_fatal, Follow, Goto
<1>5. events' = events \cup Recorded(Len(handled), SubSeq(kinds, 1, n))
    BY <1>2 DEF Invoke
<1>6. ASSUME NEW e \in effects' \ effects
      PROVE  /\ e.op \in Granted
             /\ \A k \in {"ToolCallIssued", "InvocationProposed", "InvocationApproved"} :
                  [call |-> e.call, kind |-> k] \in events'
             /\ [call |-> e.call, kind |-> "ReceiptReceived"] \in events' \/ pc' = "failed"
  <2>1. n >= 3 /\ kinds[3] = "InvocationApproved"
        /\ e = [call |-> Len(handled), op |-> out.call.op]
      BY <1>2, <1>6 DEF Invoke
  <2>2. kinds # handle_malformed_tool_call
      BY SMT, <1>1, <2>1 DEF handle_malformed_tool_call
  <2>3. /\ out.call.op \in Granted
        /\ kinds = <<"ToolCallIssued", "InvocationProposed", "InvocationApproved", "ReceiptReceived">>
      BY SMT, <2>1, <2>2, <1>1, ApprovedKinds
  <2>4. \A i \in 1 .. n : [call |-> e.call, kind |-> kinds[i]] \in events'
      BY <1>1, <1>5, <2>1, RecordedPrefix
  <2>5. 1 \in 1 .. n /\ 2 \in 1 .. n /\ 3 \in 1 .. n /\ (n = Len(kinds) => 4 \in 1 .. n)
      BY SMT, <2>1, <2>3
  <2> QED BY <1>4, <2>1, <2>3, <2>4, <2>5
<1> QED BY <1>3, <1>4, <1>5, <1>6 DEF CallEffect

---------------------------------------------------------------------------
\* The steps that handle no call keep the calls, the effects and the follow-ups.
Quiet == handled' = handled /\ follow_ups' = follow_ups /\ events' = events /\ effects' = effects

\* Handling a call keeps the transcript of one endpoint: the turn it answers is of
\* the endpoint the transcript came from.
LEMMA CallKeepsTranscript ==
    ASSUME Shapes, TranscriptInv, CallEffect
    PROVE  Shapes' /\ TranscriptInv'
<1>1. CASE follow_ups' = follow_ups
    BY SMT, <1>1 DEF Shapes, TranscriptInv, SameEndpoint, TranscriptFromOneEndpoint, CallEffect,
                WellFormed
<1>2. CASE /\ out.turn
           /\ follow_ups' = Append(follow_ups, [call |-> out.call, endpoint |-> out.endpoint])
  <2>1. PICK S : S = [call : Outputs, endpoint : Endpoints]
      OBVIOUS
  <2>2. PICK f : f = [call |-> out.call, endpoint |-> out.endpoint]
      OBVIOUS
  <2>3. f \in S /\ f.endpoint = out.endpoint
      BY <2>1, <2>2 DEF Shapes, WellFormed
  <2>4. follow_ups \in Seq(S) /\ follow_ups' = Append(follow_ups, f)
      BY <1>2, <2>1, <2>2 DEF Shapes
  <2>5. follow_ups' \in Seq(S)
      BY SMT, <2>3, <2>4
  <2>6. \A i \in DOMAIN follow_ups' : i \in DOMAIN follow_ups \/ follow_ups'[i] = f
      BY SMT, <2>3, <2>4
  <2>7. \A i \in DOMAIN follow_ups' : i \in DOMAIN follow_ups => follow_ups'[i] = follow_ups[i]
      BY SMT, <2>3, <2>4
  <2>8. \A i \in DOMAIN follow_ups' : follow_ups'[i].endpoint = out.endpoint
      BY <1>2, <2>3, <2>6, <2>7 DEF TranscriptInv, SameEndpoint
  <2>9. Shapes'
      BY SMT, <2>1, <2>5 DEF Shapes, CallEffect, WellFormed
  <2> QED BY <2>8, <2>9 DEF TranscriptInv, SameEndpoint, TranscriptFromOneEndpoint, CallEffect
<1> QED BY <1>1, <1>2 DEF CallEffect

\* Handling a call matches its follow-up with its position, the last one.
LEMMA CallKeepsMatch ==
    ASSUME Shapes, CallEffect, pc = "head", out.call # NoCall, Matched
    PROVE  Matched'
<1>1. SUFFICES ASSUME pc' # "failed"
      PROVE  \E at \in [DOMAIN follow_ups' -> Parsed(handled)'] : InOrder(at, Parsed(handled))'
    BY DEF Matched
<1>2. PICK at \in [DOMAIN follow_ups -> Parsed(handled)] : InOrder(at, Parsed(handled))
    BY DEF Matched
<1>3. PICK n \in Nat : n = Len(handled) /\ DOMAIN handled = 1 .. n
    BY SMT DEF Shapes
<1>4. PICK m \in Nat : m = Len(follow_ups) /\ DOMAIN follow_ups = 1 .. m
    BY SMT DEF Shapes
<1>5. PICK h : h = handled' /\ h = Append(handled, out.call)
    BY DEF CallEffect
<1>6. DOMAIN h = 1 .. n + 1 /\ h[n + 1] = out.call /\ \A k \in 1 .. n : h[k] = handled[k]
    BY SMT, <1>3, <1>5 DEF Shapes, WellFormed
<1>7. PICK g : g = follow_ups'
    OBVIOUS
<1>8. CASE ~out.turn
  <2>1. out.call = MalformedCall /\ g = follow_ups
      BY <1>1, <1>7, <1>8 DEF CallEffect, Shapes, WellFormed
  <2>2. Parsed(handled)' = Parsed(handled)
      BY SMT, <1>3, <1>5, <1>6, <2>1 DEF Parsed
  <2>3. InOrder(at, Parsed(handled))'
      BY SMT, <1>2, <1>3, <1>4, <1>5, <1>6, <1>7, <2>1, <2>2 DEF InOrder, Parsed
  <2> QED BY <1>2, <1>7, <2>1, <2>2, <2>3
<1>9. CASE out.turn
  <2>1. PICK f : f = [call |-> out.call, endpoint |-> out.endpoint] /\ g = Append(follow_ups, f)
      BY <1>1, <1>7, <1>9 DEF CallEffect
  <2>2. f.call = out.call /\ f \in [call : Outputs, endpoint : Endpoints]
      BY <2>1 DEF Shapes, WellFormed
  <2>3. PICK S : S = [call : Outputs, endpoint : Endpoints]
      OBVIOUS
  <2>4. DOMAIN g = 1 .. m + 1 /\ g[m + 1] = f /\ \A i \in 1 .. m : g[i] = follow_ups[i]
    <3>1. follow_ups \in Seq(S) /\ f \in S
        BY <2>2, <2>3 DEF Shapes
    <3> QED BY SMT, <1>4, <2>1, <3>1
  <2>5. out.call # MalformedCall
      BY <1>9 DEF Shapes, WellFormed
  <2>6. PICK old : old = Parsed(handled) /\ old \subseteq 1 .. n
      BY <1>3 DEF Parsed
  <2>7. PICK new : new = Parsed(handled)'
      OBVIOUS
  <2>8. new = old \cup {n + 1}
    <3>1. new = {i \in 1 .. n + 1 : h[i] # MalformedCall}
        BY <1>5, <1>6, <2>7 DEF Parsed
    <3>2. old = {i \in 1 .. n : handled[i] # MalformedCall}
        BY <1>3, <2>6 DEF Parsed
    <3>3. \A k \in 1 .. n + 1 : k \in new <=> k \in old \/ k = n + 1
        BY SMT, <1>6, <2>5, <3>1, <3>2
    <3>4. new \subseteq 1 .. n + 1 /\ old \subseteq 1 .. n + 1
        BY SMT, <3>1, <3>2
    <3>5. n + 1 \in 1 .. n + 1
        BY SMT
    <3> QED BY <3>3, <3>4, <3>5, Zenon
  <2>9. PICK b : b = [i \in 1 .. m + 1 |-> IF i <= m THEN at[i] ELSE n + 1]
      OBVIOUS
  <2>10. /\ \A i \in 1 .. m : b[i] = at[i] /\ at[i] \in old /\ at[i] \in 1 .. n
         /\ b[m + 1] = n + 1
      BY SMT, <1>2, <1>4, <2>6, <2>9
  <2>11. b \in [1 .. m + 1 -> new]
    <3>1. \A i \in 1 .. m + 1 : i \in 1 .. m \/ i = m + 1
        BY SMT
    <3>2. \A i \in 1 .. m + 1 : b[i] \in new
        BY <2>8, <2>10, <3>1
    <3>3. b = [i \in 1 .. m + 1 |-> b[i]]
        BY <2>9
    <3> QED BY <3>2, <3>3
  <2>12. \A i \in 1 .. m + 1 : g[i].call = h[b[i]]
    <3>1. \A i \in 1 .. m : g[i].call = h[b[i]]
        BY SMT, <1>2, <1>4, <1>6, <2>4, <2>10 DEF InOrder
    <3> QED BY SMT, <3>1, <1>6, <2>2, <2>4, <2>10
  <2>13. \A i, j \in 1 .. m + 1 : i < j => b[i] < b[j]
    <3>1. \A i, j \in 1 .. m : i < j => at[i] < at[j]
        BY <1>2, <1>4 DEF InOrder
    <3> QED BY SMT, <3>1, <2>10
  <2>14. \A k \in new : \E i \in 1 .. m + 1 : b[i] = k
    <3>1. \A k \in old : \E i \in 1 .. m : at[i] = k
        BY <1>2, <1>4, <2>6 DEF InOrder
    <3> QED BY SMT, <3>1, <2>8, <2>10
  <2>15. InOrder(b, Parsed(handled))'
      BY <1>5, <1>7, <2>4, <2>7, <2>12, <2>13, <2>14 DEF InOrder
  <2> QED BY <1>7, <2>4, <2>7, <2>11, <2>15
<1> QED BY <1>8, <1>9 DEF Shapes, WellFormed

\* Handling a call keeps every effect accounted for: the new one is approved and
\* has its receipt, or the Run goes on to fail.
LEMMA CallKeepsAccounts ==
    ASSUME pc = "head", EffectsAreAccountedFor, CallEffect
    PROVE  EffectsAreAccountedFor'
<1> SUFFICES ASSUME NEW e \in effects'
    PROVE  /\ e.op \in Granted
           /\ \A k \in {"ToolCallIssued", "InvocationProposed", "InvocationApproved"} :
                [call |-> e.call, kind |-> k] \in events'
           /\ \/ [call |-> e.call, kind |-> "ReceiptReceived"] \in events'
              \/ pc' = "failed" \/ status' = "Failed" \/ error'
    BY DEF EffectsAreAccountedFor
<1>1. CASE e \in effects
    BY <1>1 DEF EffectsAreAccountedFor, CallEffect
<1>2. CASE e \notin effects
    BY <1>2 DEF CallEffect
<1> QED BY <1>1, <1>2

\* A step that handles no call keeps what was sent and carried out, if its control
\* does.
LEMMA QuietKeeps ==
    ASSUME ToolInv, Quiet, ControlInv',
           \/ out' = out
           \/ /\ WellFormed(out')
              /\ (out'.turn /\ follow_ups # <<>>)
                    => out'.endpoint = follow_ups[Len(follow_ups)].endpoint,
           pc \in {"failed", "end", "done"} => pc' \in {"failed", "end", "done"},
           (pc = "failed" \/ status = "Failed" \/ error)
                => (pc' = "failed" \/ status' = "Failed" \/ error')
    PROVE  ToolInv'
<1>1. Shapes'
    BY DEF ToolInv, Quiet, Shapes, WellFormed
<1>2. EffectsAreAccountedFor' /\ TranscriptFromOneEndpoint'
    BY DEF ToolInv, Quiet, EffectsAreAccountedFor, TranscriptInv,
           TranscriptFromOneEndpoint
<1>3. SameEndpoint'
  <2>1. CASE out' = out
      BY <2>1 DEF ToolInv, Quiet, TranscriptInv, SameEndpoint
  <2>2. CASE out' # out /\ follow_ups # <<>>
    <3>1. Len(follow_ups) \in DOMAIN follow_ups
        BY SMT, <2>2 DEF ToolInv, Shapes
    <3> QED BY <2>2, <3>1 DEF ToolInv, Quiet, TranscriptInv, SameEndpoint,
                              TranscriptFromOneEndpoint
  <2>3. CASE follow_ups = <<>>
      BY SMT, <2>3 DEF Quiet, SameEndpoint
  <2> QED BY <2>1, <2>2, <2>3
<1>4. Matched'
    BY SMT DEF ToolInv, Quiet, Matched, Parsed, InOrder
<1> QED BY <1>1, <1>2, <1>3, <1>4 DEF ToolInv, TranscriptInv

---------------------------------------------------------------------------
\* Every step of the loop keeps the invariant.
LEMMA ToolStep ==
    ASSUME ToolInv, [Next]_vars
    PROVE  ToolInv'
<1> USE DEF Goto
<1>1. CASE ResolveBudget
  <2>1. Quiet /\ out' = out /\ pc' \in {"first", "done"} /\ pc = "budget"
        /\ yielded' = yielded /\ status' \in {"Running", status} /\ (error => error')
      BY <1>1 DEF ResolveBudget, Quiet, toolVars
  <2> QED BY <2>1, QuietKeeps DEF ToolInv, ControlInv
<1>2. CASE BeginModel
  <2>1. Quiet /\ out' = out /\ pc \in {"first", "followup"} /\ yielded' = yielded
        /\ status' = status /\ error' = error
      BY <1>2 DEF BeginModel, Quiet, toolVars
  <2> QED BY <2>1, QuietKeeps DEF ToolInv, ControlInv
<1>3. CASE CallModel \/ CallModelAgain
  <2>1. Quiet /\ pc \in {"calling", "calling_again"} /\ yielded' = yielded
        /\ status' = status /\ error' = error
      BY <1>3 DEF CallModel, CallModelAgain, Quiet, toolVars
  <2>2. PICK ok, r : FinishInvocation(ok, r)
      BY <1>3 DEF CallModel, CallModelAgain
  <2>3. \/ out' = out
        \/ /\ WellFormed(out')
           /\ follow_ups # <<>> => out'.endpoint = follow_ups[Len(follow_ups)].endpoint
      BY <2>2, FinishKeepsEndpoint DEF ToolInv
  <2> QED BY <2>1, <2>3, QuietKeeps DEF ToolInv, ControlInv
<1>4. CASE ModelFailed
  <2>1. /\ Quiet /\ pc \in {"first_failed", "failed"} /\ yielded' = yielded
        /\ \/ status' = "Failed" /\ pc' = "end" /\ error' = error
           \/ error' = TRUE /\ pc' = "done" /\ status' \in {status, "Failed"}
        /\ out' = SystemOutput
      BY <1>4 DEF ModelFailed, FailRun, Quiet, toolVars
  <2>2. WellFormed(out') /\ ~out'.turn
      BY <2>1 DEF SystemOutput, WellFormed, Endpoints, Outputs
  <2> QED BY <2>1, <2>2, QuietKeeps DEF ToolInv, ControlInv
<1>5. CASE EnterLoop \/ Answered \/ StopOnDuplicate
  <2>1. Quiet /\ out' = out /\ pc \in {"enter", "head"} /\ yielded' = yielded
        /\ status' = status /\ error' = error
      BY <1>5 DEF EnterLoop, Answered, StopOnDuplicate, Quiet, modelVars, toolVars
  <2> QED BY <2>1, QuietKeeps DEF ToolInv, ControlInv
<1>6. CASE MalformedTool \/ InvokeTool
  <2>1. CallEffect /\ pc = "head" /\ out.call # NoCall
    <3>1. CASE MalformedTool
        BY SMT, <3>1, TakeEffect DEF MalformedTool, NoCall, MalformedCall
    <3>2. CASE InvokeTool
        BY <3>2, TakeEffect DEF InvokeTool, ToolInv, Shapes, WellFormed
    <3> QED BY <1>6, <3>1, <3>2
  <2>2. ControlInv'
      BY <2>1 DEF ToolInv, ControlInv, CallEffect
  <2> QED BY <2>1, <2>2, CallKeepsTranscript, CallKeepsMatch, CallKeepsAccounts
       DEF ToolInv
<1>7. CASE BudgetExhausted
  <2>1. /\ Quiet /\ out' = out /\ pc \in {"exhausted", "head"} /\ pc' = "end"
        /\ error' = error
        /\ yielded' => budget.action = "yield"
        /\ status' = status \/ (status' = "Failed" /\ budget.action = "terminate")
      BY <1>7 DEF BudgetExhausted, OutOfTime, OutOfRounds, Exhaust, Quiet, modelVars, toolVars
  <2> QED BY <2>1, QuietKeeps DEF ToolInv, ControlInv
<1>8. CASE EndDelivery
  <2>1. /\ Quiet /\ out' = out /\ pc = "end" /\ pc' = "done" /\ yielded' = yielded
        /\ error => error'
        /\ status' = status \/ (status' = "Completed" /\ yielded)
      BY <1>8 DEF EndDelivery, Quiet, modelVars, toolVars
  <2> QED BY <2>1, QuietKeeps DEF ToolInv, ControlInv
<1>9. CASE GovernanceUnread
  <2>1. Quiet /\ out' = out /\ pc = "head" /\ pc' = "done" /\ yielded' = yielded
        /\ status' = status /\ error' = TRUE
      BY <1>9 DEF GovernanceUnread, Quiet, modelVars, toolVars
  <2> QED BY <2>1, QuietKeeps DEF ToolInv, ControlInv
<1>10. CASE UNCHANGED vars
  <2>1. Quiet /\ out' = out /\ pc' = pc /\ yielded' = yielded /\ status' = status /\ error' = error
      BY <1>10 DEF vars, loopVars, modelVars, toolVars, Quiet
  <2> QED BY <2>1, QuietKeeps DEF ToolInv, ControlInv
<1> QED BY <1>1, <1>2, <1>3, <1>4, <1>5, <1>6, <1>7, <1>8, <1>9, <1>10
       DEF Next, Finished

\* The invariant holds when the delivery starts.
LEMMA ToolInit ==
    ASSUME Init
    PROVE  ToolInv
<1>1. Shapes
  <2>1. handled = <<>> /\ follow_ups = <<>> /\ out = SystemOutput
      BY DEF Init
  <2>2. WellFormed(out)
      BY <2>1 DEF WellFormed, SystemOutput, Endpoints, Outputs
  <2> QED BY SMT, <2>1, <2>2 DEF Shapes
<1>2. Matched
  <2>1. PICK at : at = [i \in DOMAIN follow_ups |-> 0]
      OBVIOUS
  <2>2. DOMAIN follow_ups = {} /\ Parsed(handled) = {}
      BY SMT DEF Init, Parsed
  <2>3. at \in [DOMAIN follow_ups -> Parsed(handled)] /\ InOrder(at, Parsed(handled))
      BY <2>1, <2>2 DEF InOrder
  <2> QED BY <2>3 DEF Matched
<1> QED BY SMT, <1>1, <1>2 DEF Init, ToolInv, ControlInv, TranscriptInv, SameEndpoint,
           TranscriptFromOneEndpoint, EffectsAreAccountedFor

\* The inductive invariant of the tool recall loop.
LEMMA ToolAlways == Spec => []ToolInv
<1>1. ToolInv /\ [Next]_vars => ToolInv'
    BY ToolStep
<1> QED BY <1>1, ToolInit, PTL DEF Spec

---------------------------------------------------------------------------
\* The rounds taken and the invocations made, by where the worker is.
RoundsInv ==
    /\ turn \in Nat /\ calls \in Nat /\ budget.rounds \in Nat
    /\ turn = Len(handled) /\ turn <= budget.rounds /\ calls <= turn + 1
    /\ pc = "budget" => turn = 0
    /\ pc \in {"budget", "first", "calling"} => calls = 0
    /\ pc \in {"followup", "calling_again"} => calls <= turn

\* The time spent, by where the worker is: in the loop, what was spent and what is
\* left stay within the first invocation and the wall time until the deadline.
TimeInv ==
    /\ left \in Nat /\ spent \in Nat /\ budget.wall \in Nat
    /\ pc \in {"budget", "first"} => spent = 0
    /\ pc = "calling" => spent <= HookTime
    /\ pc \in {"enter", "first_failed"} => spent <= InvocationTime
    /\ pc \in {"head", "followup", "calling_again"} /\ left # 0
         => spent + left <= InvocationTime + budget.wall
    /\ pc = "calling_again" => spent <= InvocationTime + budget.wall + HookTime
    /\ spent <= InvocationTime + budget.wall + LongestWait

\* The wait bounds are numbers, and the longest is no less than each of them.
LEMMA Waits ==
    /\ InvocationTime \in Nat /\ LongestWait \in Nat
    /\ InvocationTime = HookTime + 2 * ModelTimeout
    /\ ToolTime <= LongestWait /\ InvocationTime <= LongestWait
BY SMT, TimeoutsAssumption DEF InvocationTime, LongestWait

\* A frozen budget has a number of rounds and a wall time (resolve_run_budget).
LEMMA FrozenBudget ==
    ASSUME NEW b \in Budgets, b.ok
    PROVE  b.decision.rounds \in Nat /\ b.decision.wall \in Nat
<1>1. \E h \in Hooks : \E a \in Answers : b = resolve_run_budget(h, a)
    BY SMT DEF Budgets
<1> PICK h \in Hooks : \E a \in Answers : b = resolve_run_budget(h, a)
    BY <1>1
<1> PICK a \in Answers : b = resolve_run_budget(h, a)
    OBVIOUS
<1>2. a.decision \in Decisions
    BY SMT DEF Answers
<1>3. ASSUME NEW d \in Decisions PROVE d.rounds \in Nat /\ d.wall \in Nat
    BY SMT, BudgetConfigured DEF Decisions
<1>4. default_budget_decision.rounds \in Nat /\ default_budget_decision.wall \in Nat
    BY SMT, BudgetConfigured DEF default_budget_decision
<1>5. b \in {BudgetFailed, Frozen(default_budget_decision), Frozen(a.decision)}
    BY DEF resolve_run_budget, OnHookFailure
<1>6. ~BudgetFailed.ok
    BY DEF BudgetFailed
<1>7. ASSUME NEW d, b = Frozen(d) PROVE b.decision = d
    BY SMT, <1>7 DEF Frozen
<1>8. b.decision = default_budget_decision \/ b.decision = a.decision
    BY <1>5, <1>6, <1>7 DEF BudgetFailed
<1> QED BY <1>2, <1>3, <1>4, <1>8

\* A request to one endpoint takes no longer than its timeout.
LEMMA EndpointTime ==
    ASSUME NEW e, NEW t \in Nat, NEW x \in request_endpoint(e, t)
    PROVE  x.time \in Nat /\ x.time <= t
BY SMT DEF request_endpoint

\* A model request takes no longer than two timeouts (OpenAiCompatibleLlm::complete).
LEMMA RequestTime ==
    ASSUME NEW t \in Nat, NEW x \in complete(t)
    PROVE  x.time \in Nat /\ x.time <= 2 * t
<1>1. CASE follow_ups # <<>>
  <2>1. x \in request_endpoint(Last(follow_ups).endpoint, t)
      BY <1>1 DEF complete
  <2>2. x.time \in Nat /\ x.time <= t
      BY <2>1, EndpointTime
  <2> QED BY SMT, <2>2
<1>2. CASE follow_ups = <<>>
  <2> DEFINE failed(e, n) == [ok |-> TRUE, time |-> n, output |-> request_failed_output(e)]
             Then(p) ==
               IF p.ok THEN {p}
               ELSE IF ~HasFallback THEN {failed("primary", p.time)}
               ELSE {IF f.ok THEN [f EXCEPT !.time = @ + p.time]
                     ELSE failed("fallback", f.time + p.time) :
                       f \in request_endpoint("fallback", t)}
  <2>1. PICK p \in request_endpoint("primary", t) : x \in Then(p)
      BY <1>2 DEF complete, FirstRound
  <2>2. p.time \in Nat /\ p.time <= t
      BY EndpointTime
  <2>3. CASE p.ok \/ ~HasFallback
    <3>1. x = p \/ x = failed("primary", p.time)
        BY <2>1, <2>3
    <3>2. failed("primary", p.time).time = p.time
        OBVIOUS
    <3>3. x.time = p.time
        BY <3>1, <3>2
    <3> QED BY SMT, <2>2, <3>3
  <2>4. CASE ~p.ok /\ HasFallback
    <3>1. PICK f \in request_endpoint("fallback", t) :
              x = IF f.ok THEN [f EXCEPT !.time = @ + p.time]
                  ELSE failed("fallback", f.time + p.time)
        BY <2>1, <2>4
    <3>2. f.time \in Nat /\ f.time <= t
        BY EndpointTime
    <3>3. x.time = f.time + p.time
      <4>1. CASE f.ok
        <5>1. \E n : f = [ok |-> TRUE, time |-> n, output |-> f.output]
            BY <4>1, EndpointAnswers
        <5>2. PICK n : f = [ok |-> TRUE, time |-> n, output |-> f.output]
            BY <5>1
        <5>3. x = [f EXCEPT !.time = @ + p.time]
            BY <3>1, <4>1
        <5> QED BY <5>2, <5>3
      <4>2. CASE ~f.ok
        <5>1. x = failed("fallback", f.time + p.time)
            BY <3>1, <4>2
        <5> QED BY <5>1
      <4> QED BY <4>1, <4>2
    <3> QED BY SMT, <2>2, <3>2, <3>3
  <2> QED BY <2>3, <2>4
<1> QED BY <1>1, <1>2

\* A wait of n that takes n off what is left.
Waited(n) == n \in Nat /\ left' = Passed(n) /\ spent' = spent + n

\* Starting an invocation waits for the hook, unless the deadline has passed.
LEMMA StartWaits ==
    ASSUME NEW hook \in ContextHook, NEW fits, NEW ok, NEW r, StartInvocation(hook, fits, ok, r)
    PROVE  \/ r = "deadline" /\ left' = left /\ spent' = spent
           \/ left # 0 /\ \E n \in Nat : n <= HookTime /\ Waited(n)
<1>1. hook.time \in Nat /\ hook.time <= HookTime
    BY SMT, TimeoutsAssumption DEF ContextHook
<1>2. CASE left = 0
    BY <1>2 DEF StartInvocation
<1>3. CASE left # 0
  <2>1. left' = Passed(hook.time) /\ spent' = spent + hook.time
      BY <1>3 DEF StartInvocation
  <2> QED BY <1>1, <1>3, <2>1 DEF Waited
<1> QED BY <1>2, <1>3

\* The request waits for two model timeouts at most, and counts as one invocation.
LEMMA FinishWaits ==
    ASSUME left \in Nat, NEW ok, NEW r, FinishInvocation(ok, r)
    PROVE  calls' = calls + 1 /\ \E n \in Nat : n <= 2 * ModelTimeout /\ Waited(n)
<1>1. PICK t : t = IF left > 0 THEN Lesser(left, ModelTimeout) ELSE ModelTimeout
    OBVIOUS
<1>2. t \in Nat /\ t <= ModelTimeout
    BY SMT, <1>1, TimeoutsAssumption DEF Lesser
<1>3. PICK x \in complete(t) :
          left' = Passed(x.time) /\ spent' = spent + x.time /\ calls' = calls + 1
    BY <1>1 DEF FinishInvocation
<1>4. x.time \in Nat /\ x.time <= 2 * t
    BY <1>2, RequestTime
<1>5. x.time <= 2 * ModelTimeout
    BY SMT, <1>2, <1>4, TimeoutsAssumption
<1> QED BY <1>3, <1>4, <1>5 DEF Waited

\* Handling a call waits for the harness at most, and not at all when the call was
\* not parsed.
LEMMA TakeWaits ==
    ASSUME NEW kinds, Take(kinds)
    PROVE  \E n \in Nat : /\ n <= ToolTime /\ Waited(n)
                          /\ kinds = handle_malformed_tool_call => n = 0
<1>1. PICK written \in 0 .. Len(kinds), time \in 0 .. ToolTime :
          Invoke(out.call, Len(handled), kinds, written, time)
          /\ left' = Passed(time) /\ spent' = spent + time
    BY DEF Take
<1>2. time \in Nat /\ time <= ToolTime
    BY SMT, TimeoutsAssumption
<1>3. ASSUME kinds = handle_malformed_tool_call PROVE time = 0
  <2>1. ~(written >= 3)
      BY SMT, <1>3 DEF handle_malformed_tool_call
  <2> QED BY <1>1, <2>1 DEF Invoke
<1> QED BY <1>1, <1>2, <1>3 DEF Waited

\* What a wait leaves: the deadline is passed, or the wait was taken off what was
\* left.
LEMMA WaitKeepsTime ==
    ASSUME TimeInv, budget' = budget, NEW n \in Nat, Waited(n)
    PROVE  /\ left' \in Nat /\ spent' \in Nat /\ budget'.wall \in Nat
           /\ (left' = 0 /\ n >= left) \/ (left' = left - n /\ left' # 0 /\ n < left)
           /\ spent' = spent + n
<1>1. left \in Nat /\ spent \in Nat /\ budget.wall \in Nat
    BY DEF TimeInv
<1>2. left' = (IF n >= left THEN 0 ELSE left - n) /\ spent' = spent + n
    BY DEF Waited, Passed
<1>3. n >= left \/ n < left
    BY SMT, <1>1
<1>4. CASE n >= left
  <2>1. left' = 0 /\ spent' = spent + n
      BY <1>2, <1>4
  <2> QED BY SMT, <1>1, <1>4, <2>1
<1>5. CASE n < left
  <2>1. left' = left - n /\ spent' = spent + n
      BY SMT, <1>1, <1>2, <1>5
  <2> QED BY SMT, <1>1, <1>5, <2>1
<1> QED BY <1>3, <1>4, <1>5

\* Every step keeps the time within its bound for where the worker goes.
LEMMA TimeStep ==
    ASSUME TimeInv, ToolInv, [Next]_vars
    PROVE  TimeInv'
<1> USE DEF Goto
<1>1. CASE ResolveBudget
  <2>1. /\ pc = "budget" /\ pc' \in {"first", "done"} /\ spent' = spent
        /\ \/ left' = left /\ budget' = budget
           \/ \E b \in Budgets : b.ok /\ budget' = b.decision /\ left' = b.decision.wall
      BY <1>1 DEF ResolveBudget
  <2>2. left' \in Nat /\ budget'.wall \in Nat
      BY <2>1, FrozenBudget DEF TimeInv
  <2> QED BY SMT, <2>1, <2>2, Waits DEF TimeInv
<1>2. CASE BeginModel
  <2>1. pc \in {"first", "followup"} /\ budget' = budget
      BY <1>2 DEF BeginModel
  <2>2. PICK hook \in ContextHook, fits, ok \in BOOLEAN, r \in {"started", "error", "deadline"} :
          /\ StartInvocation(hook, fits, ok, r)
          /\ pc' = CASE r = "started" -> IF pc = "first" THEN "calling" ELSE "calling_again"
                     [] r = "error" -> IF pc = "first" THEN "first_failed" ELSE "failed"
                     [] r = "deadline" -> IF pc = "first" THEN "first_failed" ELSE "exhausted"
      BY <1>2 DEF BeginModel
  <2>3. \/ pc = "first" /\ pc' \in {"calling", "first_failed"}
        \/ pc = "followup" /\ pc' \in {"calling_again", "failed", "exhausted"}
      BY SMT, <2>1, <2>2
  <2>4. r = "deadline" => pc' \in {"first_failed", "exhausted"}
      BY SMT, <2>2
  <2>5. CASE r = "deadline" /\ left' = left /\ spent' = spent
      BY SMT, <2>1, <2>3, <2>4, <2>5, Waits DEF TimeInv
  <2>6. CASE left # 0 /\ \E n \in Nat : n <= HookTime /\ Waited(n)
    <3>1. PICK n \in Nat : n <= HookTime /\ Waited(n)
        BY <2>6
    <3>2. /\ left' \in Nat /\ spent' \in Nat /\ budget'.wall \in Nat
          /\ (left' = 0 /\ n >= left) \/ (left' = left - n /\ left' # 0 /\ n < left)
          /\ spent' = spent + n
        BY <2>1, <3>1, WaitKeepsTime
    <3> QED BY SMT, <2>1, <2>3, <2>6, <3>1, <3>2, Waits, TimeoutsAssumption DEF TimeInv
  <2> QED BY <2>2, <2>5, <2>6, StartWaits
<1>3. CASE CallModel \/ CallModelAgain
  <2>1. /\ budget' = budget
        /\ \/ pc = "calling" /\ pc' \in {"enter", "first_failed"}
           \/ pc = "calling_again" /\ pc' \in {"head", "failed"}
      BY <1>3 DEF CallModel, CallModelAgain
  <2>2. PICK ok, r : FinishInvocation(ok, r)
      BY <1>3 DEF CallModel, CallModelAgain
  <2>3. PICK n \in Nat : n <= 2 * ModelTimeout /\ Waited(n)
      BY <2>2, FinishWaits DEF TimeInv
  <2>4. /\ left' \in Nat /\ spent' \in Nat /\ budget'.wall \in Nat
        /\ (left' = 0 /\ n >= left) \/ (left' = left - n /\ left' # 0 /\ n < left)
        /\ spent' = spent + n
      BY <2>1, <2>3, WaitKeepsTime
  <2> QED BY SMT, <2>1, <2>3, <2>4, Waits, TimeoutsAssumption DEF TimeInv
<1>4. CASE EnterLoop
  <2>1. /\ pc = "enter" /\ pc' = "head" /\ budget' = budget /\ spent' = spent
        /\ left' = budget.wall
      BY <1>4 DEF EnterLoop
  <2> QED BY SMT, <2>1, Waits DEF TimeInv
<1>5. CASE MalformedTool \/ InvokeTool
  <2>1. PICK kinds : Take(kinds) /\ (kinds = handle_malformed_tool_call \/ left > 0) /\ pc = "head"
      BY <1>5 DEF MalformedTool, InvokeTool
  <2>2. PICK n \in Nat : /\ n <= ToolTime /\ Waited(n)
                         /\ kinds = handle_malformed_tool_call => n = 0
      BY <2>1, TakeWaits
  <2>3. budget' = budget /\ pc' \in {"exhausted", "followup", "failed"}
      BY <2>1 DEF Take
  <2>4. /\ left' \in Nat /\ spent' \in Nat /\ budget'.wall \in Nat
        /\ (left' = 0 /\ n >= left) \/ (left' = left - n /\ left' # 0 /\ n < left)
        /\ spent' = spent + n
      BY <2>2, <2>3, WaitKeepsTime
  <2>5. n = 0 \/ left # 0
      BY SMT, <2>1, <2>2 DEF TimeInv
  <2> QED BY SMT, <2>1, <2>2, <2>3, <2>4, <2>5, Waits, TimeoutsAssumption DEF TimeInv
<1>6. CASE \/ ModelFailed \/ Answered \/ StopOnDuplicate \/ GovernanceUnread \/ BudgetExhausted
           \/ EndDelivery
  <2>1. pc' \in {"end", "done"} /\ left' = left /\ spent' = spent /\ budget' = budget
      BY <1>6 DEF ModelFailed, FailRun, Answered, StopOnDuplicate, GovernanceUnread,
                  BudgetExhausted, Exhaust, EndDelivery, modelVars
  <2> QED BY SMT, <2>1 DEF TimeInv
<1>7. CASE UNCHANGED vars
  <2>1. pc' = pc /\ left' = left /\ spent' = spent /\ budget' = budget
      BY <1>7 DEF vars, loopVars, modelVars
  <2> QED BY SMT, <2>1 DEF TimeInv
<1> QED BY <1>1, <1>2, <1>3, <1>4, <1>5, <1>6, <1>7 DEF Next, Finished

\* Every step keeps the rounds and the invocations within the budget.
LEMMA RoundsStep ==
    ASSUME RoundsInv, TimeInv, ToolInv, [Next]_vars
    PROVE  RoundsInv'
<1> USE DEF Goto
<1>1. CASE ResolveBudget
  <2>1. /\ pc = "budget" /\ pc' \in {"first", "done"} /\ UNCHANGED <<turn, handled, calls>>
        /\ \/ budget' = budget
           \/ \E b \in Budgets : b.ok /\ budget' = b.decision
      BY <1>1 DEF ResolveBudget
  <2>2. budget'.rounds \in Nat
      BY <2>1, FrozenBudget DEF RoundsInv
  <2> QED BY SMT, <2>1, <2>2 DEF RoundsInv
<1>2. CASE BeginModel
  <2>1. /\ UNCHANGED <<turn, handled, calls, budget>>
        /\ \/ pc = "first" /\ pc' \in {"calling", "first_failed"}
           \/ pc = "followup" /\ pc' \in {"calling_again", "failed", "exhausted"}
      BY SMT, <1>2 DEF BeginModel
  <2> QED BY SMT, <2>1 DEF RoundsInv
<1>3. CASE CallModel \/ CallModelAgain
  <2>1. /\ UNCHANGED <<turn, handled, budget>>
        /\ pc \in {"calling", "calling_again"} /\ pc' \in {"enter", "first_failed", "head", "failed"}
      BY <1>3 DEF CallModel, CallModelAgain
  <2>2. calls' = calls + 1
      BY <1>3, FinishWaits DEF CallModel, CallModelAgain, TimeInv
  <2> QED BY SMT, <2>1, <2>2 DEF RoundsInv
<1>4. CASE MalformedTool \/ InvokeTool
  <2>1. PICK kinds : Take(kinds) /\ turn < budget.rounds /\ pc = "head"
      BY <1>4 DEF MalformedTool, InvokeTool, RoundsLeft
  <2>2. /\ handled' = Append(handled, out.call) /\ turn' = turn + 1
        /\ UNCHANGED <<budget, calls>> /\ pc' \in {"exhausted", "followup", "failed"}
      BY <2>1 DEF Take
  <2>3. handled \in Seq(Outputs) /\ out.call \in Outputs
      BY DEF ToolInv, Shapes, WellFormed
  <2>4. Len(handled') = Len(handled) + 1
      BY SMT, <2>2, <2>3
  <2> QED BY SMT, <2>1, <2>2, <2>4 DEF RoundsInv
<1>5. CASE \/ EnterLoop \/ ModelFailed \/ Answered \/ StopOnDuplicate \/ GovernanceUnread
           \/ BudgetExhausted \/ EndDelivery
  <2>1. pc' \in {"head", "end", "done"} /\ UNCHANGED <<turn, handled, calls, budget>>
      BY <1>5 DEF EnterLoop, ModelFailed, FailRun, Answered, StopOnDuplicate, GovernanceUnread,
                  BudgetExhausted, Exhaust, EndDelivery, modelVars
  <2> QED BY SMT, <2>1 DEF RoundsInv
<1>6. CASE UNCHANGED vars
  <2>1. UNCHANGED <<pc, turn, handled, calls, budget>>
      BY <1>6 DEF vars, loopVars, modelVars
  <2> QED BY SMT, <2>1 DEF RoundsInv
<1> QED BY <1>1, <1>2, <1>3, <1>4, <1>5, <1>6 DEF Next, Finished

\* The inductive invariant of the rounds and of the time.
LEMMA BudgetAlways == Spec => [](RoundsInv /\ TimeInv)
<1>1. Init => RoundsInv /\ TimeInv
  <2> SUFFICES ASSUME Init PROVE RoundsInv /\ TimeInv
      OBVIOUS
  <2>1. Len(handled) = 0 /\ budget.rounds = 0 /\ budget.wall = 0
      BY SMT DEF Init, NoBudget
  <2> QED BY SMT, <2>1, Waits DEF Init, RoundsInv, TimeInv
<1>2. ToolInv /\ (RoundsInv /\ TimeInv) /\ [Next]_vars => (RoundsInv /\ TimeInv)'
    BY TimeStep, RoundsStep
<1> QED BY <1>1, <1>2, ToolAlways, PTL DEF Spec

---------------------------------------------------------------------------
\* Whatever fails and falls back, the tool turns a Run answers all come from one
\* endpoint (OpenAiCompatibleLlm::complete).
THEOREM TranscriptsStayWithOneEndpoint == Spec => []TranscriptFromOneEndpoint
<1>1. ToolInv => TranscriptFromOneEndpoint
    BY DEF ToolInv, TranscriptInv
<1> QED BY <1>1, ToolAlways, PTL

\* The model is sent the result of every parsed call once, in order
\* (run_tool_recall_loop).
THEOREM ResultsAreSentOnce == Spec => []ResultsSentOnce
<1>1. ToolInv => ResultsSentOnce
    BY DEF ToolInv, Matched, ResultsSentOnce
<1> QED BY <1>1, ToolAlways, PTL

\* What is carried out was granted, proposed and approved in the journal first, and
\* a Run without its receipt does not go on to answer (handle_inline_tool_call).
THEOREM EffectsStayAccountedFor == Spec => []EffectsAreAccountedFor
<1>1. ToolInv => EffectsAreAccountedFor
    BY DEF ToolInv
<1> QED BY <1>1, ToolAlways, PTL

\* A delivery takes no more rounds than its budget and one more model invocation,
\* and no longer than its wall time and two waits (run_tool_recall_loop).
THEOREM BudgetsAreKept == Spec => []SpendsItsBudget
<1>1. RoundsInv /\ TimeInv => SpendsItsBudget
    BY SMT DEF RoundsInv, TimeInv, SpendsItsBudget
<1> QED BY <1>1, BudgetAlways, PTL
====
