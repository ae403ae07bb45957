---------------------------- MODULE RequestPath ----------------------------
(***************************************************************************)
(* The data plane: one proxied request (internal/server/proxy.go, handle)  *)
(* and the policy evaluation it waits for (internal/runtime/api.go,        *)
(* Evaluate), while operators edit the API's live policies.                *)
(*                                                                         *)
(* CEL programs are tables.  A predicate or condition yields "true",       *)
(* "false" or "error"; a condition that reads an output field of a bound   *)
(* meta first fetches the meta from upstream, once per request, and may    *)
(* absorb a failed fetch as CEL's || and && do.                            *)
(***************************************************************************)
EXTENDS PolicyBuckets

CONSTANTS
    Requests,       \* goroutines that serve requests
    Actions,        \* the API's actions; each binds one meta value
    Kinds,          \* the requests that may arrive
    PrincipalPred,  \* body -> caller -> Tri
    ActionPred,     \* body -> action -> Tri
    Condition,      \* body -> action -> [reads, val : Answers -> Tri]
    AuthOptional,   \* the API's auth: optional flag
    DeniedStatus,   \* the API's access_denied_status, NoStatus when unset
    Edits,          \* entries an operator may register
    MaxEdits        \* bound: edits in one run

Tri      == {"true", "false", "error"}
(* How a meta fetch fails: an upstream status, or no answer at all. *)
Failures == {"unauthorized", "forbidden", "missing", "broken", "noanswer"}
Answers  == {"unread", "yes", "no"} \cup Failures \* a bind value's completion
NoStatus == "none"
Statuses == {NoStatus, "200", "400", "401", "403", "404", "413", "500", "502",
             "upstream"}
Callers  == {"anonymous", "agent"}

(* path and body: what parsing makes of them; acts: the matched actions in  *)
(* declared order, or that a filter or bind expression failed.              *)
Kind == [path : {"claimed", "unclaimed", "malformed"},
         auth : {"none", "invalid", "valid"},
         body : {"ok", "large", "unreadable", "unparsable"},
         acts : {<<"error">>} \cup Seq(Actions)]

ASSUME TableAssumption ==
    /\ "error" \notin Actions /\ "none" \notin Names
    /\ Kinds \subseteq Kind
    /\ PrincipalPred \in [Bodies -> [Callers -> Tri]]
    /\ ActionPred \in [Bodies -> [Actions -> Tri]]
    /\ Condition \in [Bodies -> [Actions -> [reads : BOOLEAN, val : [Answers -> Tri]]]]
    /\ \A b \in Bodies, a \in Actions :
          ~Condition[b][a].reads =>
              \A m \in Answers : Condition[b][a].val[m] = Condition[b][a].val["unread"]
    /\ AuthOptional \in BOOLEAN
    /\ DeniedStatus \in Statuses \ {"upstream"}
    /\ Edits \subseteq Entry
    /\ MaxEdits \in Nat

VARIABLES
    store,     \* the API's policyStore
    edits,     \* edits so far
    pc, kind,  \* per request: its place in handle, its content
    snap,      \* the policies all() copied out
    pol, act,  \* the loop indices of Evaluate
    meta,      \* per action: the completion of its bind value
    fetches,   \* per action: upstream calls made for it
    decision,  \* recorderHook.decision
    trace,     \* recorderHook.policyEvals
    reached,   \* the request was sent upstream
    reply,     \* the status written
    event,     \* what commit handed to the recorder
    seen       \* history: the live stores from arrival to the decision

live == <<store, edits>>
loop == <<snap, pol, act>>
hook == <<decision, trace>>
vars == <<store, edits, pc, kind, snap, pol, act, meta, fetches, decision, trace,
          reached, reply, event, seen>>

NoKind  == [path |-> "malformed", auth |-> "none", body |-> "ok", acts |-> <<>>]
NoEvent == [decision |-> "none", policy |-> "none", upstream |-> FALSE]

Init ==
    /\ store = newPolicyStore /\ edits = 0
    /\ pc = [r \in Requests |-> "idle"]
    /\ kind = [r \in Requests |-> NoKind]
    /\ snap = [r \in Requests |-> <<>>]
    /\ pol = [r \in Requests |-> 1] /\ act = [r \in Requests |-> 1]
    /\ meta = [r \in Requests |-> [a \in Actions |-> "unread"]]
    /\ fetches = [r \in Requests |-> [a \in Actions |-> 0]]
    /\ decision = [r \in Requests |-> "error"]
    /\ trace = [r \in Requests |-> <<>>]
    /\ reached = [r \in Requests |-> FALSE]
    /\ reply = [r \in Requests |-> NoStatus]
    /\ event = [r \in Requests |-> NoEvent]
    /\ seen = [r \in Requests |-> {}]

-----------------------------------------------------------------------------
(* Operators edit the live set; each edit is one critical section. *)
Deciding == {"admit", "match", "snapshot", "principal", "action", "condition"}

Edited(s) ==
    /\ edits < MaxEdits /\ s # store
    /\ store' = s /\ edits' = edits + 1
    /\ seen' = [r \in Requests |->
                   IF pc[r] \in Deciding THEN seen[r] \cup {s} ELSE seen[r]]
    /\ UNCHANGED <<pc, kind, loop, meta, fetches, hook, reached, reply, event>>

ReplacePolicy(e) == Edited(replace(store, e))
RemovePolicy(n) == Edited(removeLocked(store, n))

-----------------------------------------------------------------------------
(* handle, up to the evaluation. *)

Goto(r, label) == pc' = [pc EXCEPT ![r] = label]

(* A response is written; the deferred commit follows. *)
Respond(r, status) == reply' = [reply EXCEPT ![r] = status] /\ Goto(r, "commit")

deniedStatusFor(k, natural) ==
    IF k.path = "claimed" /\ DeniedStatus # NoStatus THEN DeniedStatus ELSE natural

Arrive(r, k) ==
    /\ pc[r] = "idle"
    /\ kind' = [kind EXCEPT ![r] = k]
    /\ seen' = [seen EXCEPT ![r] = {store}]
    /\ Goto(r, "admit")
    /\ UNCHANGED <<live, loop, meta, fetches, hook, reached, reply, event>>

(* A bearer is verified, or its absence allowed by the matched API. *)
authenticateOrAnonymous(k) ==
    \/ k.auth = "valid"
    \/ k.auth = "none" /\ k.path = "claimed" /\ AuthOptional

Caller(k) == IF k.auth = "valid" THEN "agent" ELSE "anonymous"

(* The first check that fails, in the order handle makes them. *)
Refusal(k) ==
    IF k.path = "malformed" THEN "400"
    ELSE IF ~authenticateOrAnonymous(k) THEN deniedStatusFor(k, "401")
    ELSE IF k.body = "large" THEN "413"
    ELSE IF k.body = "unreadable" THEN "500"
    ELSE IF k.body = "unparsable" THEN "400"
    ELSE NoStatus

Admit(r) ==
    /\ pc[r] = "admit"
    /\ IF Refusal(kind[r]) # NoStatus
       THEN Respond(r, Refusal(kind[r]))
       ELSE Goto(r, "match") /\ UNCHANGED reply
    /\ UNCHANGED <<live, kind, loop, meta, fetches, hook, reached, event, seen>>

-----------------------------------------------------------------------------
(* Runtime.Evaluate and APIRuntime.Evaluate. *)

(* Mutant: the event of a failed evaluation is labelled a denial. *)
EvalFailsLabelled(r, status) ==
    /\ Respond(r, deniedStatusFor(kind[r], status))
    /\ decision' = [decision EXCEPT ![r] = Deny]

(* Evaluate returned an error: handleEvalError, and the decision stays      *)
(* "error".  Only a failed fetch carries an upstream status.                *)
EvalFails(r, status) == Respond(r, deniedStatusFor(kind[r], status)) /\ UNCHANGED decision

Decide(r, d) == decision' = [decision EXCEPT ![r] = d] /\ Goto(r, "decided") /\ UNCHANGED reply

Match(r) ==
    /\ pc[r] = "match"
    /\ IF kind[r].path = "unclaimed" THEN Decide(r, "no_match")
       ELSE IF kind[r].acts = <<"error">> THEN EvalFails(r, "403")
       ELSE IF kind[r].acts = <<>> THEN Decide(r, Deny)
       ELSE Goto(r, "snapshot") /\ UNCHANGED <<decision, reply>>
    /\ UNCHANGED <<live, kind, loop, meta, fetches, trace, reached, event, seen>>

Snapshot(r) ==
    /\ pc[r] = "snapshot"
    /\ snap' = [snap EXCEPT ![r] = all(store)]
    /\ Goto(r, "principal")
    /\ UNCHANGED <<live, kind, pol, act, meta, fetches, hook, reached, reply, event, seen>>

NextPolicy(r) == pol' = [pol EXCEPT ![r] = @ + 1] /\ act' = [act EXCEPT ![r] = 1]
NextAction(r) == act' = [act EXCEPT ![r] = @ + 1] /\ UNCHANGED pol

(* The policy under evaluation, and the matched action it is tried on. *)
policy(r) == snap[r][pol[r]]
action(r) == kind[r].acts[act[r]]

(* AppliesToPrincipal; after the last policy the default is deny. *)
AppliesToPrincipal(r) ==
    /\ pc[r] = "principal"
    /\ IF pol[r] > Len(snap[r]) THEN Decide(r, Deny) /\ UNCHANGED <<pol, act>>
       ELSE LET t == PrincipalPred[policy(r).body][Caller(kind[r])]
            IN  \/ t = "error" /\ EvalFails(r, "403") /\ UNCHANGED <<pol, act>>
                \/ t = "false" /\ NextPolicy(r) /\ UNCHANGED <<pc, decision, reply>>
                \/ t = "true" /\ Goto(r, "action") /\ UNCHANGED <<pol, act, decision, reply>>
    /\ UNCHANGED <<live, kind, snap, meta, fetches, trace, reached, event, seen>>

(* Mutant: a predicate that is false does not move on to the next action. *)
AppliesToStuck(r) ==
    /\ pc[r] = "action"
    /\ IF act[r] > Len(kind[r].acts)
       THEN NextPolicy(r) /\ Goto(r, "principal") /\ UNCHANGED <<decision, reply>>
       ELSE LET t == ActionPred[policy(r).body][action(r)]
            IN  \/ t = "error" /\ EvalFails(r, "403") /\ UNCHANGED <<pol, act>>
                \/ t = "false" /\ UNCHANGED <<pc, pol, act, decision, reply>>
                \/ t = "true" /\ Goto(r, "condition") /\ UNCHANGED <<pol, act, decision, reply>>
    /\ UNCHANGED <<live, kind, snap, meta, fetches, trace, reached, event, seen>>

(* Mutant: an action predicate that fails counts as false. *)
AppliesToFailsOpen(r) ==
    /\ pc[r] = "action"
    /\ IF act[r] > Len(kind[r].acts)
       THEN NextPolicy(r) /\ Goto(r, "principal") /\ UNCHANGED <<decision, reply>>
       ELSE LET t == ActionPred[policy(r).body][action(r)]
            IN  \/ t # "true" /\ NextAction(r) /\ UNCHANGED <<pc, decision, reply>>
                \/ t = "true" /\ Goto(r, "condition") /\ UNCHANGED <<pol, act, decision, reply>>
    /\ UNCHANGED <<live, kind, snap, meta, fetches, trace, reached, event, seen>>

AppliesTo(r) ==
    /\ pc[r] = "action"
    /\ IF act[r] > Len(kind[r].acts)
       THEN NextPolicy(r) /\ Goto(r, "principal") /\ UNCHANGED <<decision, reply>>
       ELSE LET t == ActionPred[policy(r).body][action(r)]
            IN  \/ t = "error" /\ EvalFails(r, "403") /\ UNCHANGED <<pol, act>>
                \/ t = "false" /\ NextAction(r) /\ UNCHANGED <<pc, decision, reply>>
                \/ t = "true" /\ Goto(r, "condition") /\ UNCHANGED <<pol, act, decision, reply>>
    /\ UNCHANGED <<live, kind, snap, meta, fetches, trace, reached, event, seen>>

Reads(r) == Condition[policy(r).body][action(r)].reads

(* Mutant: a failed completion is not remembered. *)
FetchForgets(r, m) ==
    /\ pc[r] = "condition" /\ Reads(r)
    /\ meta[r][action(r)] = "unread" /\ m # "unread"
    /\ meta' = [meta EXCEPT ![r][action(r)] = IF m \in Failures THEN "unread" ELSE m]
    /\ fetches' = [fetches EXCEPT ![r][action(r)] = @ + 1]
    /\ UNCHANGED <<live, pc, kind, loop, hook, reached, reply, event, seen>>

(* The first read of an output field runs the completer; its outcome, a     *)
(* failure too, stays with the bind value for the rest of the request.      *)
Fetch(r, m) ==
    /\ pc[r] = "condition" /\ Reads(r)
    /\ meta[r][action(r)] = "unread" /\ m # "unread"
    /\ meta' = [meta EXCEPT ![r][action(r)] = m]
    /\ fetches' = [fetches EXCEPT ![r][action(r)] = @ + 1]
    /\ UNCHANGED <<live, pc, kind, loop, hook, reached, reply, event, seen>>

(* An upstream status behind the error is told to the client; anything else *)
(* is a denial.                                                             *)
classifyEvalError(reads, m) ==
    IF ~reads THEN "403"
    ELSE IF m = "unauthorized" THEN "401"
    ELSE IF m = "missing" THEN "404"
    ELSE IF m = "broken" THEN "502"
    ELSE "403"

Evaluate(r) ==
    /\ pc[r] = "condition" /\ (Reads(r) => meta[r][action(r)] # "unread")
    /\ LET m == meta[r][action(r)]
           t == Condition[policy(r).body][action(r)].val[m]
       IN  /\ trace' = [trace EXCEPT ![r] = Append(@,
                  [policy |-> policy(r).name, result |-> policy(r).result, got |-> t])]
           /\ \/ t = "error" /\ EvalFails(r, classifyEvalError(Reads(r), m))
                 /\ UNCHANGED <<pol, act>>
              \/ t = "true" /\ Decide(r, policy(r).result) /\ UNCHANGED <<pol, act>>
              \/ t = "false" /\ NextAction(r) /\ Goto(r, "action")
                 /\ UNCHANGED <<decision, reply>>
    /\ UNCHANGED <<live, kind, snap, meta, fetches, reached, event, seen>>

-----------------------------------------------------------------------------
(* handle, from the decision on. *)

Refuse(r) ==
    /\ pc[r] = "decided" /\ decision[r] # Permit
    /\ Respond(r, IF decision[r] = "no_match" THEN "404"
                  ELSE deniedStatusFor(kind[r], "403"))
    /\ UNCHANGED <<live, kind, loop, meta, fetches, hook, reached, event, seen>>

(* forward: the outbound request cannot be built, gets no answer, or is     *)
(* answered, its body perhaps cut short after the status was written.       *)
Forward(r, exchange) ==
    /\ pc[r] = "decided" /\ decision[r] = Permit
    /\ reached' = [reached EXCEPT ![r] = exchange # "unsent"]
    /\ Respond(r, IF exchange = "answered" THEN "upstream" ELSE "502")
    /\ UNCHANGED <<live, kind, loop, meta, fetches, hook, event, seen>>

FiringPolicy(r) ==
    IF trace[r] # <<>> /\ Last(trace[r]).got = "true" THEN Last(trace[r]).policy ELSE "none"

commit(r) ==
    /\ pc[r] = "commit"
    /\ event' = [event EXCEPT ![r] =
           IF decision[r] = "no_match" THEN NoEvent
           ELSE [decision |-> decision[r], policy |-> FiringPolicy(r),
                 upstream |-> reply[r] = "upstream"]]
    /\ Goto(r, "done")
    /\ UNCHANGED <<live, kind, loop, meta, fetches, hook, reached, reply, seen>>

Step(r) ==
    \/ Admit(r) \/ Match(r) \/ Snapshot(r) \/ AppliesToPrincipal(r) \/ AppliesTo(r)
    \/ \E m \in Answers : Fetch(r, m)
    \/ Evaluate(r) \/ Refuse(r) \/ commit(r)

Next ==
    \/ \E e \in Edits : ReplacePolicy(e)
    \/ \E n \in Names : RemovePolicy(n)
    \/ \E r \in Requests :
          \/ \E k \in Kinds : Arrive(r, k)
          \/ Step(r)
          \/ \E exchange \in {"unsent", "unanswered", "answered"} : Forward(r, exchange)

Spec == Init /\ [][Next]_vars

(* Request goroutines keep running and every meta fetch ends at the         *)
(* upstream call timeout.  Nothing bounds the forwarded exchange, a stream, *)
(* so Forward is left out.                                                  *)
FairSpec == Spec /\ \A r \in Requests : WF_vars(Step(r))

-----------------------------------------------------------------------------
(* Properties. *)

TypeOK ==
    /\ store \in PolicyStore /\ edits \in 0..MaxEdits
    /\ pc \in [Requests -> Deciding \cup {"idle", "decided", "commit", "done"}]
    /\ kind \in [Requests -> Kinds \cup {NoKind}]
    /\ meta \in [Requests -> [Actions -> Answers]]
    /\ decision \in [Requests -> {"error", "no_match"} \cup Results]
    /\ reached \in [Requests -> BOOLEAN] /\ reply \in [Requests -> Statuses]
    /\ \A r \in Requests :
          /\ snap[r] \in Seq(Entry)
          /\ pol[r] \in 1..(Len(snap[r]) + 1) /\ act[r] \in 1..(Len(kind[r].acts) + 1)

(* The outcome of policy e on action a of a request k, read declaratively,  *)
(* where m holds the answers the request got for its binds.                 *)
Outcome(e, a, k, m) ==
    IF PrincipalPred[e.body][Caller(k)] # "true" THEN PrincipalPred[e.body][Caller(k)]
    ELSE IF ActionPred[e.body][a] # "true" THEN ActionPred[e.body][a]
    ELSE Condition[e.body][a].val[m[a]]

(* Store s lets k through: a permit fires on some matched action, and no    *)
(* deny fires or fails on any.                                              *)
Allows(s, k, m) ==
    /\ \E e \in ToSet(s.permit), a \in ToSet(k.acts) : Outcome(e, a, k, m) = "true"
    /\ \A e \in ToSet(s.deny), a \in ToSet(k.acts) : Outcome(e, a, k, m) = "false"

(* A request is sent upstream only if one policy set, live at some moment   *)
(* between its arrival and the decision, allows it: an edit acknowledged    *)
(* before it arrived is honoured, deny beats permit, errors fail closed,    *)
(* and deny and permit conditions judge the same upstream answer            *)
(* (api.go, Evaluate and policyStore.all; compiled/policy.go, Evaluate).    *)
ForwardedWasAllowed ==
    \A r \in Requests : reached[r] => \E s \in seen[r] : Allows(s, kind[r], meta[r])

(* However many policies read it, and whether it succeeds or fails, the     *)
(* meta bound to an action is fetched at most once per request              *)
(* (messages/value.go, completion.run and SetCompleter).                    *)
FetchedOnce == \A r \in Requests, a \in Actions : fetches[r][a] <= 1

(* The recorded event agrees with what happened: a permit or a deny that    *)
(* names a policy names the last one evaluated, which fired with that       *)
(* result; "deny" means that no evaluation failed; and only permitted       *)
(* requests carry an upstream status (server/recorder.go, onConditionEval   *)
(* and commit).                                                             *)
EventTellsOutcome ==
    \A r \in Requests : event[r] # NoEvent =>
        LET ev == event[r]
            fired == {i \in 1..Len(trace[r]) : trace[r][i].got = "true"}
        IN  /\ ev.decision = Permit => ev.policy # "none"
            /\ ev.policy # "none" =>
                  /\ fired = {Len(trace[r])}
                  /\ Last(trace[r]).result = ev.decision
            /\ ev.decision = Deny => \A i \in 1..Len(trace[r]) : trace[r][i].got # "error"
            /\ ev.upstream \/ reached[r] => ev.decision = Permit

(* Every request that arrives is decided and answered, or handed to the     *)
(* upstream exchange, however the policies change meanwhile                 *)
(* (proxy.go, handle).                                                      *)
Decided ==
    \A r \in Requests :
        pc[r] = "admit" ~> (pc[r] = "done" \/ decision[r] = Permit)
=============================================================================
