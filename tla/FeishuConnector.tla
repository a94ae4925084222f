--------------------------- MODULE FeishuConnector --------------------------
(* The Feishu connector (connectors/feishu/src): incoming messages go to    *)
(* the Kernel, the Kernel's replies go out under an idempotency key, and a  *)
(* reaction on the message shows how far it is.  One Node process: what     *)
(* runs between two awaits is one step, and other handlers run in between.  *)
(* Memory is lost at a restart, the two JSONL stores are not.  Each message *)
(* has one reply, so a message stands for its reply's key as well.          *)
EXTENDS Naturals, FiniteSets

CONSTANTS
    Messages,       \* messages people send
    Tasks,          \* reaction and ingress handlers running at a time
    Requests,       \* execute requests open at a time
    MaxDeliveries,  \* times Feishu delivers a message's event
    MaxCrashes,     \* restarts of the connector
    MaxFailures,    \* calls to Feishu or the Kernel, or disk writes, that fail
    MaxExpiries,    \* execute records dropped for their age
    Nothing         \* no reaction, no message

(* A tracked reaction; Nothing stands for an absent one. *)
ReactionState == [id : Nat, status : {"processing", "failed", "remove_pending"}]
ASSUME FeishuAssumption == Nothing \notin Messages /\ Nothing \notin ReactionState

VARIABLES
    sent,           \* replies that reached the chat
    inFlight,       \* the running send: "none", "sending", "landed", "rejecting"
    stored,         \* messages whose reply has a record in feishu-executes.jsonl
    request,        \* what each execute request waits for
    kernel,         \* messages the Kernel has accepted
    acked,          \* messages whose reply the Kernel was told is sent
    shown,          \* reactions on each message in the chat
    states,         \* the tracker's map
    disk,           \* feishu-reactions.jsonl
    task,           \* handlers that wait for something
    adds,           \* reactions added so far
    deliveries, crashes, failures, expiries

sendVars == <<sent, inFlight, stored, request, kernel, acked>>
reactionVars == <<shown, states, disk, task, adds>>
faultVars == <<deliveries, crashes, failures, expiries>>
vars == <<sendVars, reactionVars, faultVars>>

NoTask == [kind |-> "none", pc |-> "free", msg |-> Nothing, id |-> 0]
NoRequest == [pc |-> "free", msg |-> Nothing]

Init ==
    /\ sent = [m \in Messages |-> 0]
    /\ inFlight = [m \in Messages |-> "none"]
    /\ stored = {}
    /\ request = [r \in Requests |-> NoRequest]
    /\ kernel = {}
    /\ acked = {}
    /\ shown = [m \in Messages |-> {}]
    /\ states = [m \in Messages |-> Nothing]
    /\ disk = [m \in Messages |-> Nothing]
    /\ task = [t \in Tasks |-> NoTask]
    /\ adds = 0
    /\ deliveries = [m \in Messages |-> 0]
    /\ crashes = 0 /\ failures = 0 /\ expiries = 0

Fail == failures < MaxFailures /\ failures' = failures + 1

(***************************************************************************)
(* Reactions.  A handler is [kind, pc, msg, id]; its kind says what it is  *)
(* for and so what comes after the current wait.                           *)
(***************************************************************************)
Emoji(kind) == IF kind = "ingress" THEN "processing" ELSE "failed"

(* After a removal a failed message gets the failed reaction. *)
MarksFailure(kind) == kind \in {"failed", "refused"}

AfterRemoval(t, kind, m) ==
    IF MarksFailure(kind) THEN [kind |-> kind, pc |-> "adding", msg |-> m, id |-> 0]
    ELSE NoTask

AfterAdding(t) ==
    IF task[t].kind = "ingress" THEN [task[t] EXCEPT !.pc = "post", !.id = 0] ELSE NoTask

(* Faulty variant: the reaction is forgotten instead of removed. *)
forgetTrackedReaction(t, kind, m) ==
    /\ states' = [states EXCEPT ![m] = Nothing]
    /\ disk' = [disk EXCEPT ![m] = Nothing]
    /\ task' = [task EXCEPT ![t] = AfterRemoval(t, kind, m)]

(* What the store is asked to write, or the write fails. *)
save(m, reaction) ==
    \/ disk' = [disk EXCEPT ![m] = reaction] /\ UNCHANGED failures
    \/ Fail /\ UNCHANGED disk

(* The first part of removeTrackedReaction, up to the call. *)
removeTrackedReaction(t, kind, m) ==
    /\ UNCHANGED disk
    /\ IF states[m] = Nothing \/ (states[m] # Nothing /\ states[m].status = "remove_pending")
       THEN /\ task' = [task EXCEPT ![t] = AfterRemoval(t, kind, m)]
            /\ UNCHANGED states
       ELSE /\ states' = [states EXCEPT ![m].status = "remove_pending"]
            /\ task' = [task EXCEPT ![t] = [kind |-> kind, pc |-> "removing", msg |-> m,
                                            id |-> states[m].id]]

RemoveLands(t) ==
    /\ task[t].pc = "removing"
    /\ shown' = [shown EXCEPT ![task[t].msg] = {x \in @ : x.id # task[t].id}]
    /\ task' = [task EXCEPT ![t].pc = "removed"]
    /\ UNCHANGED <<sendVars, states, disk, adds, faultVars>>

(* Whatever the message's state is by now is dropped. *)
Removed(t) ==
    /\ task[t].pc = "removed"
    /\ states' = [states EXCEPT ![task[t].msg] = Nothing]
    /\ save(task[t].msg, Nothing)
    /\ task' = [task EXCEPT ![t] = AfterRemoval(t, task[t].kind, task[t].msg)]
    /\ UNCHANGED <<sendVars, shown, adds, deliveries, crashes, expiries>>

(* Every attempt failed, or the last answer was lost: the reaction counts   *)
(* as still there. *)
RemoveFails(t) ==
    LET m == task[t].msg IN
    /\ Fail
    /\ task[t].pc \in {"removing", "removed"}
    /\ states' = [states EXCEPT ![m] =
           IF @ # Nothing THEN IF @.id = task[t].id
           THEN [@ EXCEPT !.status = IF MarksFailure(task[t].kind) THEN "failed" ELSE "processing"]
           ELSE @ ELSE @]
    /\ task' = [task EXCEPT ![t] = AfterRemoval(t, task[t].kind, m)]
    /\ UNCHANGED <<sendVars, shown, disk, adds, deliveries, crashes, expiries>>

AddLands(t) ==
    /\ task[t].pc = "adding"
    /\ adds' = adds + 1
    /\ shown' = [shown EXCEPT ![task[t].msg] =
                     @ \cup {[id |-> adds + 1, emoji |-> Emoji(task[t].kind)]}]
    /\ task' = [task EXCEPT ![t].pc = "added", ![t].id = adds + 1]
    /\ UNCHANGED <<sendVars, states, disk, faultVars>>

(* The answer is here: the reaction is tracked, and takes the place of      *)
(* whatever was tracked. *)
Added(t) ==
    LET new == [id |-> task[t].id, status |-> Emoji(task[t].kind)] IN
    /\ task[t].pc = "added"
    /\ states' = [states EXCEPT ![task[t].msg] = new]
    /\ save(task[t].msg, new)
    /\ task' = [task EXCEPT ![t] = AfterAdding(t)]
    /\ UNCHANGED <<sendVars, shown, adds, deliveries, crashes, expiries>>

(* The answer to an attempt is lost: the next attempt adds another reaction. *)
AddRetried(t) ==
    /\ Fail
    /\ task[t].pc = "added"
    /\ task' = [task EXCEPT ![t].pc = "adding", ![t].id = 0]
    /\ UNCHANGED <<sendVars, shown, states, disk, adds, deliveries, crashes, expiries>>

(* All attempts failed, or the answer names no reaction. *)
AddFails(t) ==
    /\ Fail
    /\ task[t].pc \in {"adding", "added"}
    /\ task' = [task EXCEPT ![t] = AfterAdding(t)]
    /\ UNCHANGED <<sendVars, shown, states, disk, adds, deliveries, crashes, expiries>>

(***************************************************************************)
(* A message arrives.                                                      *)
(***************************************************************************)
(* The handler of the message's event: its reaction, then the Kernel. *)
Arriving(t, m, pc) == task' = [task EXCEPT ![t] = [kind |-> "ingress", pc |-> pc, msg |-> m, id |-> 0]]

(* Faulty variant: the Kernel is called without waiting for the reaction. *)
markProcessingUnawaited(t, m) ==
    IF states[m] # Nothing THEN Arriving(t, m, "post")
    ELSE \E u \in {x \in Tasks \ {t} : task[x].pc = "free"} :
        task' = [task EXCEPT
            ![t] = [kind |-> "ingress", pc |-> "post", msg |-> m, id |-> 0],
            ![u] = [kind |-> "reaction", pc |-> "adding", msg |-> m, id |-> 0]]

markProcessing(t, m) == Arriving(t, m, IF states[m] = Nothing THEN "adding" ELSE "post")

Deliver(m) ==
    /\ deliveries[m] < MaxDeliveries
    /\ deliveries' = [deliveries EXCEPT ![m] = @ + 1]
    /\ \E t \in Tasks : task[t].pc = "free" /\ markProcessing(t, m)
    /\ UNCHANGED <<sendVars, shown, states, disk, adds, crashes, failures, expiries>>

(* The Kernel takes a message it does not have yet. *)
IngressAccepted(t) ==
    /\ task[t].pc = "post"
    /\ task[t].msg \notin kernel
    /\ kernel' = kernel \cup {task[t].msg}
    /\ task' = [task EXCEPT ![t] = NoTask]
    /\ UNCHANGED <<sent, inFlight, stored, request, acked, shown, states, disk, adds, faultVars>>

(* It has the message already, or nothing to do with it: the reaction is    *)
(* cleared, be the first event of the message still at work or not. *)
IngressSkipped(t) ==
    /\ task[t].pc = "post"
    /\ removeTrackedReaction(t, "skipped", task[t].msg)
    /\ UNCHANGED <<sendVars, shown, adds, faultVars>>

(* It answers with an error: the message is marked failed. *)
IngressRefused(t) ==
    /\ Fail
    /\ task[t].pc = "post"
    /\ removeTrackedReaction(t, "refused", task[t].msg)
    /\ UNCHANGED <<sendVars, shown, adds, deliveries, crashes, expiries>>

(* No answer in time: nothing more is done here, whether the Kernel has the *)
(* message or not. *)
IngressUnanswered(t) ==
    /\ Fail
    /\ task[t].pc = "post"
    /\ kernel' \in {kernel, kernel \cup {task[t].msg}}
    /\ task' = [task EXCEPT ![t] = NoTask]
    /\ UNCHANGED <<sent, inFlight, stored, request, acked, shown, states, disk, adds,
                   deliveries, crashes, expiries>>

(***************************************************************************)
(* The Kernel's reply.                                                     *)
(***************************************************************************)
(* The Kernel hears the answer, or its request has timed out and it will    *)
(* ask again. *)
Heard(ms) == acked' \in {acked, acked \cup ms}

(* Faulty variant: a request does not see the send of another. *)
execute_alone(r, m) ==
    IF m \in stored
    THEN Heard({m}) /\ UNCHANGED <<inFlight, request>>
    ELSE /\ inFlight' = [inFlight EXCEPT ![m] = "sending"]
         /\ request' = [request EXCEPT ![r] = [pc |-> "waiting", msg |-> m]]
         /\ UNCHANGED acked

(* A running send is shared, a stored one is replayed. *)
execute(r, m) ==
    IF inFlight[m] = "none" /\ m \in stored
    THEN Heard({m}) /\ UNCHANGED <<inFlight, request>>
    ELSE /\ inFlight' = [inFlight EXCEPT ![m] = IF @ = "none" THEN "sending" ELSE @]
         /\ request' = [request EXCEPT ![r] = [pc |-> "waiting", msg |-> m]]
         /\ UNCHANGED acked

Execute(r) ==
    /\ request[r].pc = "free"
    /\ \E m \in kernel \ acked : execute(r, m)
    /\ UNCHANGED <<sent, stored, kernel, reactionVars, faultVars>>

Answered(m) ==
    request' = [r \in Requests |-> IF request[r].msg = m THEN NoRequest ELSE request[r]]

SendLands(m) ==
    /\ inFlight[m] = "sending"
    /\ inFlight' = [inFlight EXCEPT ![m] = "landed"]
    /\ sent' = [sent EXCEPT ![m] = @ + 1]
    /\ UNCHANGED <<stored, request, kernel, acked, reactionVars, faultVars>>

(* Success is recorded before anybody is told of it. *)
SendSucceeds(m) ==
    /\ inFlight[m] = "landed"
    /\ stored' = stored \cup {m}
    /\ inFlight' = [inFlight EXCEPT ![m] = "none"]
    /\ \E t \in Tasks : task[t].pc = "free" /\ removeTrackedReaction(t, "succeeded", m)
    /\ Answered(m)
    /\ Heard({m})
    /\ UNCHANGED <<sent, kernel, shown, adds, faultVars>>

(* The reply is out and its record cannot be written: the promise rejects. *)
StoreFails(m) ==
    /\ Fail
    /\ inFlight[m] = "landed"
    /\ inFlight' = [inFlight EXCEPT ![m] = "rejecting"]
    /\ \E t \in Tasks : task[t].pc = "free" /\ removeTrackedReaction(t, "succeeded", m)
    /\ UNCHANGED <<sent, stored, request, kernel, acked, shown, adds,
                   deliveries, crashes, expiries>>

SendRejects(m) ==
    /\ \/ inFlight[m] = "rejecting" /\ UNCHANGED failures
       \/ inFlight[m] \in {"sending", "landed"} /\ Fail
    /\ inFlight' = [inFlight EXCEPT ![m] = "none"]
    /\ \E t \in Tasks : task[t].pc = "free" /\ removeTrackedReaction(t, "failed", m)
    /\ Answered(m)
    /\ UNCHANGED <<sent, stored, kernel, acked, shown, adds, deliveries, crashes, expiries>>

(***************************************************************************)
(* Age and restart.                                                        *)
(***************************************************************************)
Expire(m) ==
    /\ m \in stored
    /\ expiries < MaxExpiries
    /\ expiries' = expiries + 1
    /\ stored' = stored \ {m}
    /\ UNCHANGED <<sent, inFlight, request, kernel, acked, reactionVars,
                   deliveries, crashes, failures>>

loadStates == states' = disk

Restart ==
    /\ crashes < MaxCrashes
    /\ crashes' = crashes + 1
    /\ inFlight' = [m \in Messages |-> "none"]
    /\ request' = [r \in Requests |-> NoRequest]
    /\ task' = [t \in Tasks |-> NoTask]
    /\ loadStates
    /\ UNCHANGED <<sent, stored, kernel, acked, shown, disk, adds, deliveries, failures, expiries>>

Next ==
    \/ \E m \in Messages :
          Deliver(m) \/ SendLands(m) \/ SendSucceeds(m) \/ StoreFails(m) \/ SendRejects(m) \/ Expire(m)
    \/ \E r \in Requests : Execute(r)
    \/ \E t \in Tasks :
          \/ RemoveLands(t) \/ Removed(t) \/ RemoveFails(t)
          \/ AddLands(t) \/ Added(t) \/ AddRetried(t) \/ AddFails(t)
          \/ IngressAccepted(t) \/ IngressSkipped(t) \/ IngressRefused(t) \/ IngressUnanswered(t)
    \/ Restart

Spec == Init /\ [][Next]_vars

(***************************************************************************)
(* Properties.                                                             *)
(***************************************************************************)
(* A reply is sent again only when something went wrong: a restart, a       *)
(* failing call or write of the connector, or a record dropped for its age, *)
(* whichever it was.  Concurrent and repeated requests alone send nothing.  *)
SentOncePerFault ==
    \A m \in Messages : sent[m] <= 1 + crashes + failures + expiries

Idle(m) == inFlight[m] = "none" /\ \A t \in Tasks : task[t].msg # m

Stray(m) ==
    {x \in shown[m] : states[m] = Nothing \/ (states[m] # Nothing /\ x.id # states[m].id)}

(* An answered message shows no reaction once its handlers are done, unless *)
(* its event came twice or something failed: the Kernel hears of a message  *)
(* only after its reaction is tracked, so the reply cannot miss it. *)
AnsweredShowsNothing ==
    \A m \in acked :
        Idle(m) /\ deliveries[m] = 1 /\ crashes = 0 /\ failures = 0 => shown[m] = {}

(* Reactions nobody will remove are as few as the failures, restarts and    *)
(* repeated events that leave them. *)
StrayReactionsBounded ==
    \A m \in Messages :
        Idle(m) /\ Stray(m) # {} =>
            Cardinality(Stray(m)) + 1 <= crashes + failures + deliveries[m]
=============================================================================
