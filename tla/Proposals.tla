----------------------------- MODULE Proposals -----------------------------
(***************************************************************************)
(* The human-in-the-loop draft workflow (internal/control/proposals and    *)
(* its handlers in internal/server/admin/proposals.go) on top of           *)
(* PolicyService.  A proposal is approved by calling policies.Service, so  *)
(* a reviewer is one of its clients; the two services have a mutex each    *)
(* and a reviewer takes them in the order proposals, policies.             *)
(*                                                                         *)
(* Calls that only answer an error change nothing and are not steps.       *)
(***************************************************************************)
EXTENDS PolicyService

CONSTANTS Ids,         \* proposal ids; NewProposalID never repeats one
          NoProposal,
          Reviewers,   \* admins
          Agents       \* non-admin callers

Actors  == Reviewers \cup Agents
Writers == Clients \ Actors      \* direct policy CRUD

Proposal == [kind : {"apply", "delete"}, key : Keys, val : Row,
             status : {"proposed", "approved", "rejected"}, author : Actors]

ASSUME ActorAssumption ==
    /\ Actors \subseteq Clients
    /\ Reviewers \cap Agents = {}
    /\ NoProposal \notin Proposal

VARIABLES props,  \* the proposals table
          used,   \* ids issued so far
          pmu,    \* holder of proposals.Service.mu
          ppc,    \* where each actor is in its call
          rev     \* the call's proposal id, the record it read, and overwrite

pvars == <<props, used, pmu, ppc, rev>>
allvars == <<vars, pvars>>

Review(id, p, ow) == [id |-> id, prop |-> p, overwrite |-> ow]

-----------------------------------------------------------------------------
validateForKind(kind, k, v) ==
    IF kind = "delete" THEN v = NoPolicy
                       ELSE v # NoPolicy /\ Validate([key |-> k, val |-> v])

PInit ==
    /\ Init
    /\ props = [id \in Ids |-> NoProposal] /\ used = {}
    /\ pmu = NoClient
    /\ ppc = [a \in Actors |-> "idle"]
    /\ rev = [a \in Actors |-> NoProposal]

(* The caller may take proposals.Service.mu. *)
Free(a, at) == phase = "up" /\ pmu = NoClient /\ ppc[a] = at

Unlock(a) ==
    /\ pmu' = NoClient
    /\ ppc' = [ppc EXCEPT ![a] = "idle"]
    /\ rev' = [rev EXCEPT ![a] = NoProposal]

(* createProposalHandler stamps a non-admin's own subject as the author. *)
Propose(a, id, kind, k, v, author) ==
    /\ Free(a, "idle") /\ id \notin used
    /\ a \in Agents => author = a
    /\ validateForKind(kind, k, v)
    /\ props' = [props EXCEPT ![id] =
                    [kind |-> kind, key |-> k, val |-> v,
                     status |-> "proposed", author |-> author]]
    /\ used' = used \cup {id}
    /\ UNCHANGED <<pmu, ppc, rev, vars>>

(* ensureCallerCanModify: an unlocked Get before an agent's call. *)
ensureCallerCanModify(a, id) ==
    /\ phase = "up" /\ a \in Agents /\ ppc[a] = "idle"
    /\ props[id] # NoProposal /\ props[id].author = a
    /\ ppc' = [ppc EXCEPT ![a] = "owner"]
    /\ rev' = [rev EXCEPT ![a] = Review(id, props[id], FALSE)]
    /\ UNCHANGED <<props, used, pmu, vars>>

(* The call that follows it; an admin's call has no such check. *)
MayModify(a, id) ==
    \/ a \in Reviewers /\ Free(a, "idle")
    \/ a \in Agents /\ Free(a, "owner") /\ rev[a].id = id

(* Mutant: a PATCH names its sender as the author. *)
UpdateTakesOver(a, id, k, v) ==
    /\ MayModify(a, id)
    /\ LET q == props[id]
       IN  props' = IF q # NoProposal /\ q.status = "proposed"
                       /\ validateForKind(q.kind, k, v)
                    THEN [props EXCEPT ![id] =
                             [q EXCEPT !.key = k, !.val = v, !.author = a]]
                    ELSE props
    /\ Unlock(a)
    /\ UNCHANGED <<used, vars>>

Update(a, id, k, v) ==
    /\ MayModify(a, id)
    /\ LET q == props[id]
       IN  props' = IF q # NoProposal /\ q.status = "proposed"
                       /\ validateForKind(q.kind, k, v)
                    THEN [props EXCEPT ![id].key = k, ![id].val = v]
                    ELSE props
    /\ Unlock(a)
    /\ UNCHANGED <<used, vars>>

(* Mutant: Delete does not take the mutex. *)
PurgeUnlocked(a, id) ==
    /\ phase = "up" /\ a \in Agents /\ ppc[a] = "owner" /\ rev[a].id = id
    /\ props' = [props EXCEPT ![id] = NoProposal]
    /\ ppc' = [ppc EXCEPT ![a] = "idle"]
    /\ rev' = [rev EXCEPT ![a] = NoProposal]
    /\ UNCHANGED <<pmu, used, vars>>

Purge(a, id) ==
    /\ MayModify(a, id)
    /\ props' = [props EXCEPT ![id] = NoProposal]
    /\ Unlock(a)
    /\ UNCHANGED <<used, vars>>

Pending(id) == props[id] # NoProposal /\ props[id].status = "proposed"

(* Mutant: Reject does not look at the status. *)
RejectAny(a, id) ==
    /\ Free(a, "idle") /\ props[id] # NoProposal
    /\ props' = [props EXCEPT ![id].status = "rejected"]
    /\ UNCHANGED <<used, pmu, ppc, rev, vars>>

Reject(a, id) ==
    /\ Free(a, "idle") /\ Pending(id)
    /\ props' = [props EXCEPT ![id].status = "rejected"]
    /\ UNCHANGED <<used, pmu, ppc, rev, vars>>

(* Approve: lock, read, check the status ... *)
Approve(a, id, overwrite) ==
    /\ Free(a, "idle") /\ Pending(id)
    /\ pmu' = a
    /\ rev' = [rev EXCEPT ![a] = Review(id, props[id], overwrite)]
    /\ ppc' = [ppc EXCEPT ![a] =
                  IF props[id].kind = "apply" /\ ~overwrite
                  THEN "check" ELSE "apply"]
    /\ UNCHANGED <<props, used, vars>>

(* Mutant: any answer of Get is permission to proceed. *)
ConflictCheckOpen(a) ==
    /\ ppc[a] = "check"
    /\ ppc' = [ppc EXCEPT ![a] = "apply"]
    /\ UNCHANGED <<pmu, rev, props, used, vars>>

(* ... refuse to displace a live policy, without policies.Service.mu ... *)
ConflictCheck(a) ==
    /\ ppc[a] = "check"
    /\ \/ find(rev[a].prop.key) /\ Unlock(a)
       \/ /\ ~find(rev[a].prop.key)
          /\ ppc' = [ppc EXCEPT ![a] = "apply"]
          /\ UNCHANGED <<pmu, rev>>
    /\ UNCHANGED <<props, used, vars>>

(* ... call policies.Service ... *)
CallService(a) ==
    /\ ppc[a] = "apply"
    /\ LET p == rev[a].prop
       IN  \/ p.kind = "apply" /\ Replace(a, p.key, p.key, p.val)
           \/ p.kind = "delete" /\ Delete(a, p.key)
    /\ ppc' = [ppc EXCEPT ![a] = "called"]
    /\ UNCHANGED <<props, used, pmu, rev>>

(* Mutant: every error of a delete is swallowed. *)
SucceededBlind(a) == reply[a] = "ok" \/ rev[a].prop.kind = "delete"

Succeeded(a) ==
    \/ reply[a] = "ok"
    \/ rev[a].prop.kind = "delete" /\ reply[a] = "notfound"

ServiceReturned(a) ==
    /\ ppc[a] = "called" /\ pc[a] = "idle"
    /\ \/ ~Succeeded(a) /\ Unlock(a)
       \/ /\ Succeeded(a)
          /\ ppc' = [ppc EXCEPT ![a] = "record"]
          /\ UNCHANGED <<pmu, rev>>
    /\ UNCHANGED <<props, used, vars>>

(* ... and record the decision. *)
Record(a) ==
    /\ ppc[a] = "record"
    /\ props' = [props EXCEPT ![rev[a].id] =
                    [rev[a].prop EXCEPT !.status = "approved"]]
    /\ Unlock(a)
    /\ UNCHANGED <<used, vars>>

(* Mutant: the error path keeps the mutex. *)
RecordFailsHolding(a) ==
    /\ ppc[a] = "record"
    /\ ppc' = [ppc EXCEPT ![a] = "idle"]
    /\ UNCHANGED <<pmu, rev, props, used, vars>>

RecordFails(a) ==
    /\ ppc[a] = "record"
    /\ Unlock(a)
    /\ UNCHANGED <<props, used, vars>>

(* The proposals store is durable or in memory; calls in progress are lost. *)
PCrash ==
    /\ Crash
    /\ props' \in {props, [id \in Ids |-> NoProposal]}
    /\ pmu' = NoClient
    /\ ppc' = [a \in Actors |-> "idle"]
    /\ rev' = [a \in Actors |-> NoProposal]
    /\ UNCHANGED used

-----------------------------------------------------------------------------
Draft(a) ==
    \/ \E id \in Ids, kind \in {"apply", "delete"}, k \in Keys, v \in Row,
          author \in Actors : Propose(a, id, kind, k, v, author)
    \/ \E id \in Ids : ensureCallerCanModify(a, id) \/ Purge(a, id)
    \/ \E id \in Ids, k \in Keys, v \in Row : Update(a, id, k, v)

Decide(a) ==
    \/ \E id \in Ids : Reject(a, id)
    \/ \E id \in Ids, overwrite \in BOOLEAN : Approve(a, id, overwrite)

Approving(a) ==
    ConflictCheck(a) \/ ServiceReturned(a) \/ Record(a) \/ RecordFails(a)

PNext ==
    \/ /\ \/ \E c \in Writers : Request(c)
          \/ \E c \in Clients : Step(c)
          \/ Load \/ Operator
       /\ UNCHANGED pvars
    \/ PCrash
    \/ \E a \in Actors : Draft(a)
    \/ \E a \in Reviewers : Decide(a) \/ Approving(a) \/ CallService(a)

PSpec == PInit /\ [][PNext]_allvars

(* Every goroutine inside a call runs on and every store call returns;     *)
(* nobody owes a request, a boot or a crash.  CallService waits for        *)
(* policies.Service.mu, which others may take again and again: sync.Mutex  *)
(* hands over to a waiter that has starved for 1ms, hence strong fairness. *)
PFairSpec ==
    /\ PSpec
    /\ \A c \in Clients : WF_allvars(Step(c) /\ UNCHANGED pvars)
    /\ \A a \in Reviewers : /\ WF_allvars(Approving(a))
                            /\ SF_allvars(CallService(a))
-----------------------------------------------------------------------------
(* "the policy never lands without an approval intent" (proposals.go:364): *)
(* from Approve's read to its record the stored proposal is the one it     *)
(* read and is still `proposed`; no edit, reject or purge slips between    *)
(* the decision and the policy it puts into the runtime.                   *)
ApprovesWhatItRead ==
    \A a \in Reviewers : ppc[a] # "idle" =>
        /\ pmu = a
        /\ props[rev[a].id] = rev[a].prop
        /\ rev[a].prop.status = "proposed"

(* approved and rejected are terminal (proposals.go:29): whatever the      *)
(* interleaving, a decided proposal is only ever purged.                   *)
DecisionsAreFinal ==
    [][\A id \in Ids :
          props[id] # NoProposal /\ props[id].status # "proposed" =>
              props'[id] \in {props[id], NoProposal}]_allvars

(* ensureCallerCanModify checks and the call acts in two steps             *)
(* (admin/proposals.go:165): the proposal an agent is about to change is   *)
(* still its own or gone, because authors never change and ids are never   *)
(* reused.                                                                 *)
AgentsChangeTheirOwn ==
    \A a \in Agents :
        ppc[a] = "owner" /\ props[rev[a].id] # NoProposal =>
            props[rev[a].id].author = a

(* An Approve without overwrite has passed its conflict check, has not yet *)
(* written, and a live policy has its key.                                 *)
AboutToDisplace(a) ==
    /\ ppc[a] = "apply" \/ (ppc[a] = "called" /\ pc[a] # "idle")
    /\ rev[a].prop.kind = "apply" /\ ~rev[a].overwrite
    /\ find(rev[a].prop.key)

(* What the check "fail safe" of proposals.go:389 is worth although Get    *)
(* and Replace are two critical sections of the policy service: an Approve *)
(* without overwrite never replaces a policy that was live when it         *)
(* checked.  It comes to face one in a single way: a direct writer's own   *)
(* call puts that policy into the runtime after the check.                 *)
DisplacesOnlyLatecomers ==
    [][\A a \in Reviewers :
          AboutToDisplace(a)' /\ ~AboutToDisplace(a) =>
              /\ rt' # rt
              /\ \E w \in Writers : /\ pc[w] = "apply"
                                    /\ Current(w).key = rev[a].prop.key]_allvars

(* The policy service has answered a delete and Approve takes it as done. *)
DeleteDone(a) ==
    /\ ppc[a] = "called" /\ pc[a] = "idle"
    /\ rev[a].prop.kind = "delete" /\ Succeeded(a)

(* "a reviewer approving 'remove this policy' wants the post-condition     *)
(* (policy not present)" (proposals.go:378), and an ErrNotFound counts as  *)
(* that.  When the policy service answers, the policy is neither live nor  *)
(* on disk; where the key's seed file changed under the running server     *)
(* only one of the two is promised: what is still live, no boot will load  *)
(* again.                                                                  *)
ApprovedDeleteIsGone ==
    [][\A a \in Reviewers :
          DeleteDone(a)' /\ ~DeleteDone(a) =>
              LET k == rev[a].prop.key
              IN  /\ find(k)' => Effective(k)' = NoPolicy
                  /\ k \notin edited' =>
                        ~find(k)' /\ Effective(k)' = NoPolicy]_allvars

(* proposals.Service.mu is always given back, although Approve holds it    *)
(* while it waits for policies.Service.mu.                                 *)
ReviewerReleased == (pmu # NoClient) ~> (pmu = NoClient)
=============================================================================
