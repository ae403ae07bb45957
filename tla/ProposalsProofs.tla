-------------------------- MODULE ProposalsProofs --------------------------
(***************************************************************************)
(* The review workflow keeps its promises about proposals for any number   *)
(* of reviewers, agents, writers and proposals, and using it never makes   *)
(* the policy service do what PolicyService does not allow.                *)
(***************************************************************************)
EXTENDS Proposals, PolicyServiceProofs

ReviewRecord == [id : Ids, prop : Proposal, overwrite : BOOLEAN]

(* A stored proposal has an issued id, and a policy exactly if it applies. *)
PropsInv ==
    /\ props \in [Ids -> Proposal \cup {NoProposal}]
    /\ used \subseteq Ids
    /\ \A id \in Ids : props[id] # NoProposal =>
          /\ id \in used
          /\ props[id].kind = "apply" => props[id].val \in Policy

(* Only a reviewer inside Approve holds the mutex. *)
ActorInv ==
    /\ pmu \in Reviewers \cup {NoClient}
    /\ ppc \in [Actors -> {"idle", "owner", "check", "apply", "called", "record"}]
    /\ rev \in [Actors -> ReviewRecord \cup {NoProposal}]
    /\ \A a \in Actors : ppc[a] # "idle" =>
          /\ rev[a] \in ReviewRecord /\ rev[a].id \in used
    /\ \A a \in Agents : ppc[a] \in {"idle", "owner"}

PInv == PropsInv /\ ActorInv /\ ApprovesWhatItRead /\ AgentsChangeTheirOwn

(* Outside Approve nobody but agents past their check is inside a call.    *)
LEMMA MutexFree ==
    ASSUME PInv, pmu = NoClient
    PROVE  \A a \in Reviewers : ppc[a] = "idle"
<1>1. NoClient \notin Reviewers
  BY ConstantAssumption, ActorAssumption DEF Actors
<1> QED
  BY <1>1 DEF PInv, ApprovesWhatItRead

(* At first there is no proposal and nobody is inside a call. *)
LEMMA PInitInv == PInit => PInv
BY ConstantAssumption
DEF PInit, PInv, PropsInv, ActorInv, ApprovesWhatItRead, AgentsChangeTheirOwn,
    Actors

(* A call that changes one proposal, made by an actor that holds nothing   *)
(* afterwards, while no Approve is in progress.                            *)
LEMMA EditInv ==
    ASSUME PInv, pmu = NoClient, pmu' = NoClient, NEW a \in Actors,
           NEW id \in Ids, NEW p \in Proposal \cup {NoProposal},
           props' = [props EXCEPT ![id] = p],
           used' \in {used, used \cup {id}},
           p # NoProposal => /\ id \in used'
                             /\ p.kind = "apply" => p.val \in Policy
                             /\ props[id] # NoProposal =>
                                   p.author = props[id].author
                             /\ props[id] = NoProposal => id \notin used,
           \/ UNCHANGED <<ppc, rev>>
           \/ /\ ppc' = [ppc EXCEPT ![a] = "idle"]
              /\ rev' = [rev EXCEPT ![a] = NoProposal]
    PROVE  PInv'
<1>1. \A r \in Reviewers : r \in Actors /\ ppc[r] = "idle"
  BY MutexFree DEF Actors
<1>2. ActorInv
  BY DEF PInv
<1>3. PropsInv'
  <2>1. props' \in [Ids -> Proposal \cup {NoProposal}]
    BY DEF PInv, PropsInv
  <2> QED
    BY <2>1 DEF PInv, PropsInv
<1>4. ActorInv'
  <2>1. /\ ppc' \in [Actors -> {"idle", "owner", "check", "apply", "called", "record"}]
        /\ rev' \in [Actors -> ReviewRecord \cup {NoProposal}]
    BY <1>2 DEF ActorInv
  <2>2. \A b \in Actors : ppc'[b] # "idle" => ppc[b] # "idle" /\ rev'[b] = rev[b]
    BY <1>2 DEF ActorInv
  <2>3. \A b \in Agents : ppc'[b] \in {"idle", "owner"}
    BY <1>2 DEF ActorInv, Actors
  <2> QED
    BY <1>2, <2>1, <2>2, <2>3 DEF ActorInv
<1>5. ApprovesWhatItRead'
  <2>1. \A r \in Reviewers : ppc'[r] = "idle"
    BY <1>1, <1>2 DEF ActorInv
  <2> QED
    BY <2>1 DEF ApprovesWhatItRead
<1>6. AgentsChangeTheirOwn'
  <2> SUFFICES ASSUME NEW b \in Agents, ppc'[b] = "owner",
                      props'[rev'[b].id] # NoProposal
               PROVE  props'[rev'[b].id].author = b
    BY DEF AgentsChangeTheirOwn
  <2>1. b \in Actors /\ ppc[b] = "owner" /\ rev'[b] = rev[b]
    BY <1>2 DEF ActorInv, Actors
  <2>2. rev[b].id \in Ids /\ rev[b].id \in used
    BY <1>2, <2>1 DEF ActorInv, ReviewRecord
  <2>3. CASE rev[b].id = id
    <3>1. props'[id] = p
      BY DEF PInv, PropsInv
    <3>2. p # NoProposal /\ props[id] # NoProposal
      BY <2>1, <2>2, <2>3, <3>1
    <3> QED
      BY <2>1, <2>3, <3>1, <3>2 DEF PInv, AgentsChangeTheirOwn
  <2>4. CASE rev[b].id # id
    <3>1. props'[rev[b].id] = props[rev[b].id]
      BY <2>2, <2>4 DEF PInv, PropsInv
    <3> QED
      BY <2>1, <3>1 DEF PInv, AgentsChangeTheirOwn
  <2> QED
    BY <2>3, <2>4
<1> QED
  BY <1>3, <1>4, <1>5, <1>6 DEF PInv

(* Deleting a proposal. *)
LEMMA PurgeInv ==
    ASSUME PInv, NEW a \in Actors, NEW id \in Ids, Purge(a, id)
    PROVE  PInv'
BY EditInv DEF Purge, MayModify, Free, Unlock

(* Propose, Update and Reject. *)
LEMMA DraftInv ==
    ASSUME PInv, NEW a \in Actors, NEW id \in Ids, NEW k \in Keys,
           NEW v \in Row
    PROVE  /\ \A kind \in {"apply", "delete"}, author \in Actors :
                 Propose(a, id, kind, k, v, author) => PInv'
           /\ Update(a, id, k, v) => PInv'
           /\ Reject(a, id) => PInv'
<1>1. PropsInv
  BY DEF PInv
<1>2. ASSUME NEW kind \in {"apply", "delete"}, NEW author \in Actors,
             Propose(a, id, kind, k, v, author)
      PROVE  PInv'
  <2> DEFINE p == [kind |-> kind, key |-> k, val |-> v,
                   status |-> "proposed", author |-> author]
  <2>1. p \in Proposal /\ p.kind = kind /\ p.val = v /\ p # NoProposal
    BY ActorAssumption DEF Proposal
  <2>2. kind = "apply" => v \in Policy
    BY <1>2 DEF Propose, validateForKind, Row
  <2>3. id \notin used /\ pmu = NoClient
    BY <1>2 DEF Propose, Free
  <2>4. props[id] = NoProposal
    BY <1>1, <2>3 DEF PropsInv
  <2>5. /\ props' = [props EXCEPT ![id] = p] /\ used' = used \cup {id}
        /\ UNCHANGED <<pmu, ppc, rev>>
    BY <1>2 DEF Propose
  <2> HIDE DEF p
  <2> QED
    BY <2>1, <2>2, <2>3, <2>4, <2>5, EditInv
<1>3. ASSUME Update(a, id, k, v) PROVE PInv'
  <2>1. /\ pmu = NoClient /\ pmu' = NoClient /\ used' = used
        /\ ppc' = [ppc EXCEPT ![a] = "idle"]
        /\ rev' = [rev EXCEPT ![a] = NoProposal]
    BY <1>3 DEF Update, MayModify, Free, Unlock
  <2>2. CASE /\ props[id] # NoProposal /\ props[id].status = "proposed"
             /\ validateForKind(props[id].kind, k, v)
    <3> DEFINE q == props[id]
               p == [q EXCEPT !.key = k, !.val = v]
    <3>1. props' = [props EXCEPT ![id] = p]
      BY <1>1, <1>3, <2>2 DEF Update, PropsInv, Proposal
    <3>2. q \in Proposal /\ id \in used
      BY <1>1, <2>2 DEF PropsInv
    <3>3. p \in Proposal /\ p.kind = q.kind /\ p.val = v /\ p.author = q.author
      BY <3>2 DEF Proposal
    <3>4. q.kind = "apply" => v \in Policy
      BY <2>2 DEF validateForKind, Row
    <3> HIDE DEF p
    <3> QED
      BY <2>1, <2>2, <3>1, <3>2, <3>3, <3>4, EditInv
  <2>3. CASE ~(/\ props[id] # NoProposal /\ props[id].status = "proposed"
               /\ validateForKind(props[id].kind, k, v))
    <3>1. props' = [props EXCEPT ![id] = props[id]]
      BY <1>1, <1>3, <2>3 DEF Update, PropsInv
    <3> QED
      BY <1>1, <2>1, <3>1, EditInv DEF PropsInv
  <2> QED
    BY <2>2, <2>3
<1>4. ASSUME Reject(a, id) PROVE PInv'
  <2> DEFINE q == props[id]
             p == [q EXCEPT !.status = "rejected"]
  <2>1. /\ pmu = NoClient /\ pmu' = NoClient /\ used' = used
        /\ UNCHANGED <<ppc, rev>> /\ props[id] # NoProposal
    BY <1>4 DEF Reject, Free, Pending
  <2>2. q \in Proposal /\ id \in used /\ (q.kind = "apply" => q.val \in Policy)
    BY <1>1, <2>1 DEF PropsInv
  <2>3. p \in Proposal /\ p.kind = q.kind /\ p.val = q.val /\ p.author = q.author
    BY <2>2 DEF Proposal
  <2>4. props' = [props EXCEPT ![id] = p]
    BY <1>4 DEF Reject
  <2> HIDE DEF p
  <2> QED
    BY <2>1, <2>2, <2>3, <2>4, EditInv
<1> QED
  BY <1>2, <1>3, <1>4

(* A step inside Approve, or an agent's check, that writes no proposal. *)
LEMMA MoveInv ==
    ASSUME PInv, NEW a \in Actors, UNCHANGED <<props, used>>,
           pmu' \in {pmu, NoClient},
           NEW at \in {"idle", "apply", "called", "record"},
           ppc[a] \notin {"idle", "owner"},
           ppc' = [ppc EXCEPT ![a] = at],
           \/ at = "idle" /\ rev' = [rev EXCEPT ![a] = NoProposal]
           \/ UNCHANGED <<pmu, rev>>,
           pmu' = NoClient => at = "idle"
    PROVE  PInv'
<1>1. ActorInv
  BY DEF PInv
<1>2. a \in Reviewers /\ pmu = a
  BY <1>1 DEF ActorInv, Actors, PInv, ApprovesWhatItRead
<1>3. \A r \in Reviewers : r # a => ppc[r] = "idle"
  BY <1>2 DEF PInv, ApprovesWhatItRead
<1>4. PropsInv'
  BY DEF PInv, PropsInv
<1>5. ActorInv'
  <2>1. /\ ppc' \in [Actors -> {"idle", "owner", "check", "apply", "called", "record"}]
        /\ rev' \in [Actors -> ReviewRecord \cup {NoProposal}]
        /\ pmu' \in Reviewers \cup {NoClient}
    BY <1>1 DEF ActorInv
  <2>2. \A b \in Actors : ppc'[b] # "idle" => ppc[b] # "idle" /\ rev'[b] = rev[b]
    BY <1>1 DEF ActorInv
  <2>3. \A b \in Agents : ppc'[b] \in {"idle", "owner"}
    BY <1>1, <1>2, ActorAssumption DEF ActorInv, Actors
  <2> QED
    BY <1>1, <2>1, <2>2, <2>3 DEF ActorInv
<1>6. ApprovesWhatItRead'
  <2> SUFFICES ASSUME NEW r \in Reviewers, ppc'[r] # "idle"
               PROVE  /\ pmu' = r /\ props'[rev'[r].id] = rev'[r].prop
                      /\ rev'[r].prop.status = "proposed"
    BY DEF ApprovesWhatItRead
  <2>1. r = a /\ at # "idle"
    BY <1>1, <1>3 DEF ActorInv, Actors
  <2>2. rev' = rev /\ pmu' = pmu
    BY <2>1
  <2> QED
    BY <2>1, <2>2 DEF PInv, ApprovesWhatItRead
<1>7. AgentsChangeTheirOwn'
  <2>1. \A b \in Agents : b \in Actors /\ b # a
    BY <1>2, ActorAssumption DEF Actors
  <2>2. \A b \in Agents : ppc'[b] = ppc[b] /\ rev'[b] = rev[b]
    BY <1>1, <2>1 DEF ActorInv
  <2> QED
    BY <2>2 DEF PInv, AgentsChangeTheirOwn
<1> QED
  BY <1>4, <1>5, <1>6, <1>7 DEF PInv

(* An actor enters: Approve takes the mutex, an agent passes its check.   *)
LEMMA EnterReviewInv ==
    ASSUME PInv, NEW a \in Actors, NEW id \in Ids, NEW overwrite \in BOOLEAN,
           ensureCallerCanModify(a, id) \/ (a \in Reviewers /\ Approve(a, id, overwrite))
    PROVE  PInv'
<1>1. ActorInv /\ PropsInv
  BY DEF PInv
<1>2. /\ UNCHANGED <<props, used>> /\ ppc[a] = "idle" /\ props[id] # NoProposal
      /\ \E ow \in BOOLEAN : rev' = [rev EXCEPT ![a] = Review(id, props[id], ow)]
      /\ \E at \in {"owner", "check", "apply"} : ppc' = [ppc EXCEPT ![a] = at]
  BY DEF ensureCallerCanModify, Approve, Free, Pending
<1>3. PICK ow \in BOOLEAN : rev' = [rev EXCEPT ![a] = Review(id, props[id], ow)]
  BY <1>2
<1>4. /\ Review(id, props[id], ow) \in ReviewRecord /\ id \in used
      /\ Review(id, props[id], ow).id = id
      /\ Review(id, props[id], ow).prop = props[id]
  BY <1>1, <1>2 DEF PropsInv, Review, ReviewRecord
<1>5. rev'[a] = Review(id, props[id], ow) /\ \A b \in Actors \ {a} :
         rev'[b] = rev[b] /\ ppc'[b] = ppc[b]
  BY <1>1, <1>2, <1>3 DEF ActorInv
<1>6. PropsInv'
  BY <1>1, <1>2 DEF PropsInv
<1>7. CASE ensureCallerCanModify(a, id)
  <2>1. a \in Agents /\ ppc'[a] = "owner" /\ pmu' = pmu /\ props[id].author = a
        /\ a \notin Reviewers
    BY <1>1, <1>7, ActorAssumption DEF ensureCallerCanModify, ActorInv
  <2>2. ActorInv'
    <3>1. /\ ppc' \in [Actors -> {"idle", "owner", "check", "apply", "called", "record"}]
          /\ rev' \in [Actors -> ReviewRecord \cup {NoProposal}]
      BY <1>1, <1>2, <1>3, <1>4 DEF ActorInv
    <3> QED
      BY <1>1, <1>2, <1>4, <1>5, <2>1, <3>1 DEF ActorInv, Actors
  <2>3. ApprovesWhatItRead'
    <3>1. \A r \in Reviewers : ppc'[r] = ppc[r] /\ rev'[r] = rev[r]
      BY <1>5, <2>1 DEF Actors
    <3> QED
      BY <1>2, <2>1, <3>1 DEF PInv, ApprovesWhatItRead
  <2>4. AgentsChangeTheirOwn'
    <3> SUFFICES ASSUME NEW b \in Agents, ppc'[b] = "owner",
                        props'[rev'[b].id] # NoProposal
                 PROVE  props'[rev'[b].id].author = b
      BY DEF AgentsChangeTheirOwn
    <3>1. CASE b = a
      BY <1>2, <1>4, <1>5, <2>1, <3>1
    <3>2. CASE b # a
      BY <1>2, <1>5, <3>2 DEF PInv, AgentsChangeTheirOwn, Actors
    <3> QED
      BY <3>1, <3>2
  <2> QED
    BY <1>6, <2>2, <2>3, <2>4 DEF PInv
<1>8. CASE a \in Reviewers /\ Approve(a, id, overwrite)
  <2>1. /\ pmu = NoClient /\ pmu' = a /\ ppc'[a] \in {"check", "apply"}
        /\ props[id].status = "proposed" /\ a \notin Agents
    BY <1>1, <1>8, ActorAssumption DEF Approve, Free, Pending, ActorInv
  <2>2. \A r \in Reviewers : r \in Actors /\ ppc[r] = "idle"
    BY <2>1, MutexFree DEF Actors
  <2>3. ActorInv'
    <3>1. /\ ppc' \in [Actors -> {"idle", "owner", "check", "apply", "called", "record"}]
          /\ rev' \in [Actors -> ReviewRecord \cup {NoProposal}]
      BY <1>1, <1>2, <1>3, <1>4 DEF ActorInv
    <3> QED
      BY <1>1, <1>2, <1>4, <1>5, <1>8, <2>1, <3>1 DEF ActorInv, Actors
  <2>4. ApprovesWhatItRead'
    BY <1>2, <1>4, <1>5, <2>1, <2>2 DEF ApprovesWhatItRead
  <2>5. AgentsChangeTheirOwn'
    <3>1. \A b \in Agents : ppc'[b] = ppc[b] /\ rev'[b] = rev[b]
      BY <1>5, <2>1 DEF Actors
    <3> QED
      BY <1>2, <3>1 DEF PInv, AgentsChangeTheirOwn
  <2> QED
    BY <1>6, <2>3, <2>4, <2>5 DEF PInv
<1> QED
  BY <1>7, <1>8

(* Approve records its decision: the proposal it writes is the one stored, *)
(* with another status, so it keeps its author.                            *)
LEMMA RecordInv ==
    ASSUME PInv, NEW a \in Reviewers, Record(a)
    PROVE  PInv'
<1>1. ActorInv /\ PropsInv /\ a \in Actors
  BY DEF PInv, Actors
<1> DEFINE id == rev[a].id
           q  == rev[a].prop
           p  == [q EXCEPT !.status = "approved"]
<1>2. /\ ppc[a] = "record" /\ props' = [props EXCEPT ![id] = p] /\ used' = used
      /\ pmu' = NoClient /\ ppc' = [ppc EXCEPT ![a] = "idle"]
      /\ rev' = [rev EXCEPT ![a] = NoProposal]
  BY DEF Record, Unlock
<1>3. /\ id \in Ids /\ id \in used /\ pmu = a /\ props[id] = q /\ q \in Proposal
  BY <1>1, <1>2 DEF ActorInv, ReviewRecord, PInv, ApprovesWhatItRead
<1>4. p \in Proposal /\ p.kind = q.kind /\ p.val = q.val /\ p.author = q.author
  BY <1>3 DEF Proposal
<1>5. q # NoProposal /\ (q.kind = "apply" => q.val \in Policy)
  BY <1>1, <1>3, ActorAssumption DEF PropsInv
<1> HIDE DEF p
<1>6. PropsInv'
  BY <1>1, <1>2, <1>3, <1>4, <1>5 DEF PropsInv
<1>7. \A r \in Reviewers : r \in Actors /\ ppc'[r] = "idle"
  BY <1>1, <1>2, <1>3 DEF PInv, ApprovesWhatItRead, ActorInv, Actors
<1>8. \A b \in Actors : ppc'[b] # "idle" => ppc'[b] = ppc[b] /\ rev'[b] = rev[b]
  BY <1>1, <1>2 DEF ActorInv
<1>9. ActorInv'
  <2>1. /\ ppc' \in [Actors -> {"idle", "owner", "check", "apply", "called", "record"}]
        /\ rev' \in [Actors -> ReviewRecord \cup {NoProposal}]
    BY <1>1, <1>2 DEF ActorInv
  <2>2. \A b \in Agents : b \in Actors /\ ppc'[b] \in {"idle", "owner"}
    BY <1>1, <1>8 DEF ActorInv, Actors
  <2> QED
    BY <1>1, <1>2, <1>8, <2>1, <2>2 DEF ActorInv
<1>10. ApprovesWhatItRead'
  BY <1>7 DEF ApprovesWhatItRead
<1>11. AgentsChangeTheirOwn'
  <2> SUFFICES ASSUME NEW b \in Agents, ppc'[b] = "owner",
                      props'[rev'[b].id] # NoProposal
               PROVE  props'[rev'[b].id].author = b
    BY DEF AgentsChangeTheirOwn
  <2>1. b \in Actors /\ ppc[b] = "owner" /\ rev'[b] = rev[b]
    BY <1>8 DEF Actors
  <2>2. rev[b].id \in Ids
    BY <1>1, <2>1 DEF ActorInv, ReviewRecord
  <2>3. CASE rev[b].id = id
    <3>1. props'[rev'[b].id] = p
      BY <1>1, <1>2, <1>3, <2>1, <2>3 DEF PropsInv
    <3>2. props[rev[b].id].author = b
      BY <1>3, <1>5, <2>1, <2>3 DEF PInv, AgentsChangeTheirOwn
    <3> QED
      BY <1>3, <1>4, <2>3, <3>1, <3>2
  <2>4. CASE rev[b].id # id
    BY <1>1, <1>2, <2>1, <2>2, <2>4 DEF PropsInv, PInv, AgentsChangeTheirOwn
  <2> QED
    BY <2>3, <2>4
<1> QED
  BY <1>6, <1>9, <1>10, <1>11 DEF PInv

(* The process dies: nobody is inside a call any more. *)
LEMMA PCrashInv == PInv /\ PCrash => PInv'
<1> SUFFICES ASSUME PInv, PCrash PROVE PInv'
  OBVIOUS
<1>1. /\ props' \in {props, [id \in Ids |-> NoProposal]}
      /\ pmu' = NoClient /\ used' = used
      /\ ppc' = [a \in Actors |-> "idle"]
      /\ rev' = [a \in Actors |-> NoProposal]
  BY DEF PCrash
<1>2. PropsInv'
  BY <1>1 DEF PInv, PropsInv
<1>3. ActorInv'
  BY <1>1 DEF ActorInv, Actors
<1>4. ApprovesWhatItRead' /\ AgentsChangeTheirOwn'
  BY <1>1 DEF ApprovesWhatItRead, AgentsChangeTheirOwn, Actors
<1> QED
  BY <1>2, <1>3, <1>4 DEF PInv

(* PInv is inductive: one step per action of PNext. *)
LEMMA PInductive == PInv /\ [PNext]_allvars => PInv'
<1> SUFFICES ASSUME PInv, [PNext]_allvars PROVE PInv'
  OBVIOUS
<1>1. CASE UNCHANGED pvars
  BY <1>1 DEF pvars, PInv, PropsInv, ActorInv, ApprovesWhatItRead,
              AgentsChangeTheirOwn
<1>2. CASE PCrash
  BY <1>2, PCrashInv
<1>3. ASSUME NEW a \in Actors, Draft(a) PROVE PInv'
  <2>1. CASE \E id \in Ids, kind \in {"apply", "delete"}, k \in Keys, v \in Row,
                author \in Actors : Propose(a, id, kind, k, v, author)
    BY <2>1, DraftInv
  <2>2. CASE \E id \in Ids : ensureCallerCanModify(a, id)
    <3>1. PICK id \in Ids : ensureCallerCanModify(a, id)
      BY <2>2
    <3> QED
      BY <3>1, EnterReviewInv
  <2>3. CASE \E id \in Ids : Purge(a, id)
    BY <2>3, PurgeInv
  <2>4. CASE \E id \in Ids, k \in Keys, v \in Row : Update(a, id, k, v)
    BY <2>4, DraftInv
  <2> QED
    BY <1>3, <2>1, <2>2, <2>3, <2>4 DEF Draft
<1>4. ASSUME NEW a \in Reviewers, Decide(a) PROVE PInv'
  <2>1. a \in Actors
    BY DEF Actors
  <2>2. CASE \E id \in Ids : Reject(a, id)
    <3>1. PICK id \in Ids : Reject(a, id)
      BY <2>2
    <3>2. props[id] \in Proposal
      BY <3>1 DEF Reject, Pending, PInv, PropsInv
    <3> QED
      BY <2>1, <3>1, <3>2, DraftInv DEF Proposal
  <2>3. CASE \E id \in Ids, overwrite \in BOOLEAN : Approve(a, id, overwrite)
    BY <2>1, <2>3, EnterReviewInv
  <2> QED
    BY <1>4, <2>2, <2>3 DEF Decide
<1>5. ASSUME NEW a \in Reviewers,
             ConflictCheck(a) \/ CallService(a) \/ ServiceReturned(a) \/ RecordFails(a)
      PROVE  PInv'
  <2>1. /\ a \in Actors /\ ppc[a] \notin {"idle", "owner"}
        /\ UNCHANGED <<props, used>>
    BY <1>5 DEF ConflictCheck, CallService, ServiceReturned, RecordFails, Actors
  <2>2. pmu = a /\ a # NoClient
    BY <2>1, ConstantAssumption, ActorAssumption DEF PInv, ApprovesWhatItRead
  <2>3. \/ Unlock(a)
        \/ \E at \in {"apply", "called", "record"} :
              ppc' = [ppc EXCEPT ![a] = at] /\ UNCHANGED <<pmu, rev>>
    BY <1>5 DEF ConflictCheck, CallService, ServiceReturned, RecordFails
  <2>4. CASE Unlock(a)
    BY <2>1, <2>4, MoveInv DEF Unlock
  <2>5. ASSUME NEW at \in {"apply", "called", "record"},
               ppc' = [ppc EXCEPT ![a] = at] /\ UNCHANGED <<pmu, rev>>
        PROVE  PInv'
    BY <2>1, <2>2, <2>5, MoveInv
  <2> QED
    BY <2>3, <2>4, <2>5
<1>6. ASSUME NEW a \in Reviewers, Record(a) PROVE PInv'
  BY <1>6, RecordInv
<1> QED
  BY <1>1, <1>2, <1>3, <1>4, <1>5, <1>6 DEF PNext, Approving, allvars

-----------------------------------------------------------------------------
(* A composed step is, for the policy service, one of its own steps: what  *)
(* Approve passes to Replace or Delete is what a client might pass.        *)
LEMMA StepsAreServiceSteps == PInv /\ [PNext]_allvars => [Next]_vars
<1> SUFFICES ASSUME PInv, [PNext]_allvars PROVE Next \/ UNCHANGED vars
  OBVIOUS
<1>1. CASE UNCHANGED vars
  BY <1>1
<1>2. CASE (\E c \in Writers : Request(c)) \/ (\E c \in Clients : Step(c))
           \/ Load \/ Operator
  BY <1>2 DEF Writers, Next, Process
<1>3. CASE PCrash
  BY <1>3 DEF PCrash, Next, Process
<1>4. ASSUME NEW a \in Actors, Draft(a) PROVE UNCHANGED vars
  BY <1>4 DEF Draft, Propose, ensureCallerCanModify, Update, Purge
<1>5. ASSUME NEW a \in Reviewers, Decide(a) \/ Approving(a) PROVE UNCHANGED vars
  BY <1>5 DEF Decide, Reject, Approve, Approving, ConflictCheck,
              ServiceReturned, Record, RecordFails
<1>6. ASSUME NEW a \in Reviewers, CallService(a) PROVE Next
  <2> DEFINE p == rev[a].prop
  <2>1. a \in Actors /\ a \in Clients
    BY ActorAssumption DEF Actors
  <2>2. ppc[a] = "apply"
    BY <1>6 DEF CallService
  <2>3. rev[a] \in ReviewRecord /\ props[rev[a].id] = p
    BY <2>1, <2>2 DEF PInv, ActorInv, ApprovesWhatItRead
  <2>4. p \in Proposal /\ rev[a].id \in Ids /\ p # NoProposal
    BY <2>3, ActorAssumption DEF ReviewRecord
  <2>5. p.key \in Keys /\ (p.kind = "apply" => p.val \in Policy)
    BY <2>3, <2>4 DEF PInv, PropsInv, Proposal
  <2>6. \/ p.kind = "apply" /\ Replace(a, p.key, p.key, p.val)
        \/ p.kind = "delete" /\ Delete(a, p.key)
    BY <1>6 DEF CallService
  <2> HIDE DEF p
  <2>7. Request(a)
    BY <2>5, <2>6 DEF Request
  <2> QED
    BY <2>1, <2>7 DEF Next
<1> QED
  BY <1>1, <1>2, <1>3, <1>4, <1>5, <1>6 DEF PNext, allvars

(* The invariant holds in every behaviour of the composition. *)
LEMMA PInvariant == PSpec => []PInv
<1>1. PInit => PInv
  BY PInitInv
<1>2. PInv /\ [PNext]_allvars => PInv'
  BY PInductive
<1> QED
  BY <1>1, <1>2, PTL DEF PSpec

(* Between Approve's read and its record no edit, reject or purge changes  *)
(* the proposal it is acting on, for any number of reviewers and agents.   *)
THEOREM ApprovalIsAtomic == PSpec => []ApprovesWhatItRead
<1>1. PInv => ApprovesWhatItRead
  BY DEF PInv
<1> QED
  BY <1>1, PInvariant, PTL

(* The unlocked ownership check of the admin handlers is enough: between   *)
(* check and change the proposal cannot become another author's.           *)
THEOREM OwnershipIsStable == PSpec => []AgentsChangeTheirOwn
<1>1. PInv => AgentsChangeTheirOwn
  BY DEF PInv
<1> QED
  BY <1>1, PInvariant, PTL

(* The review workflow implements the policy service's specification: every *)
(* behaviour of the composition, seen through the service's own variables,  *)
(* is a behaviour of PolicyService.                                         *)
THEOREM ReviewsRefineService == PSpec => Spec
<1>1. PInit => Init
  BY DEF PInit
<1>2. PInv /\ [PNext]_allvars => [Next]_vars
  BY StepsAreServiceSteps
<1> QED
  BY <1>1, <1>2, PInvariant, PTL DEF PSpec, Spec

(* So approvals cannot break the mirror between memory and disk either.    *)
THEOREM ReviewedMirrorsDisk == PSpec => []MemoryMirrorsDisk
BY ReviewsRefineService, MirrorsDisk, PTL

(* One step leaves every decided proposal as it is, or purges it. *)
LEMMA StepKeepsDecisions ==
    ASSUME PInv, [PNext]_allvars, NEW id \in Ids,
           props[id] # NoProposal, props[id].status # "proposed"
    PROVE  props'[id] \in {props[id], NoProposal}
<1>1. PropsInv /\ ActorInv
  BY DEF PInv
<1>2. CASE props' = props
  BY <1>2
<1>3. CASE PCrash
  BY <1>3 DEF PCrash
<1>4. ASSUME NEW i \in Ids, NEW p, props' = [props EXCEPT ![i] = p],
             p = NoProposal \/ props[i] = NoProposal \/ props[i].status = "proposed"
      PROVE  props'[id] \in {props[id], NoProposal}
  BY <1>1, <1>4 DEF PropsInv
<1>5. ASSUME NEW a \in Actors, Draft(a)
      PROVE  props'[id] \in {props[id], NoProposal}
  <2>1. CASE \E i \in Ids, kind \in {"apply", "delete"}, k \in Keys, v \in Row,
                author \in Actors : Propose(a, i, kind, k, v, author)
    <3>1. PICK i \in Ids, kind \in {"apply", "delete"}, k \in Keys, v \in Row,
               author \in Actors : Propose(a, i, kind, k, v, author)
      BY <2>1
    <3>2. i \notin used /\ \E p : props' = [props EXCEPT ![i] = p]
      BY <3>1 DEF Propose
    <3>3. props[i] = NoProposal
      BY <1>1, <3>2 DEF PropsInv
    <3> QED
      BY <1>4, <3>2, <3>3
  <2>2. CASE \E i \in Ids : ensureCallerCanModify(a, i)
    BY <1>2, <2>2 DEF ensureCallerCanModify
  <2>3. CASE \E i \in Ids : Purge(a, i)
    BY <1>4, <2>3 DEF Purge
  <2>4. CASE \E i \in Ids, k \in Keys, v \in Row : Update(a, i, k, v)
    <3>1. PICK i \in Ids, k \in Keys, v \in Row : Update(a, i, k, v)
      BY <2>4
    <3>2. CASE props[i] # NoProposal /\ props[i].status = "proposed"
      <4>1. i # id
        BY <3>2
      <4>2. props' = props \/ props' = [props EXCEPT ![i].key = k, ![i].val = v]
        BY <3>1 DEF Update
      <4> QED
        BY <1>1, <4>1, <4>2 DEF PropsInv
    <3>3. CASE ~(props[i] # NoProposal /\ props[i].status = "proposed")
      BY <1>2, <3>1, <3>3 DEF Update
    <3> QED
      BY <3>2, <3>3
  <2> QED
    BY <1>5, <2>1, <2>2, <2>3, <2>4 DEF Draft
<1>6. ASSUME NEW a \in Reviewers, Decide(a) \/ CallService(a) \/ Approving(a)
      PROVE  props'[id] \in {props[id], NoProposal}
  <2>1. CASE \E i \in Ids : Reject(a, i)
    <3>1. PICK i \in Ids : Reject(a, i)
      BY <2>1
    <3>2. i # id /\ props' = [props EXCEPT ![i].status = "rejected"]
      BY <3>1 DEF Reject, Pending
    <3> QED
      BY <1>1, <3>2 DEF PropsInv
  <2>2. CASE Record(a)
    <3>1. a \in Actors /\ ppc[a] = "record"
          /\ props' = [props EXCEPT ![rev[a].id] =
                          [rev[a].prop EXCEPT !.status = "approved"]]
      BY <2>2 DEF Record, Actors
    <3>2. rev[a].id # id
      BY <3>1 DEF PInv, ApprovesWhatItRead
    <3> QED
      BY <1>1, <3>1, <3>2 DEF PropsInv
  <2>3. CASE (\E i \in Ids, overwrite \in BOOLEAN : Approve(a, i, overwrite))
             \/ ConflictCheck(a) \/ ServiceReturned(a) \/ RecordFails(a)
             \/ CallService(a)
    BY <1>2, <2>3 DEF Approve, ConflictCheck, ServiceReturned, RecordFails,
                      CallService
  <2> QED
    BY <1>6, <2>1, <2>2, <2>3 DEF Decide, Approving
<1> QED
  BY <1>2, <1>3, <1>5, <1>6 DEF PNext, allvars, pvars

(* approved and rejected are terminal whatever the interleaving of admin   *)
(* calls, approvals in progress and crashes.                               *)
THEOREM DecidedStaysDecided == PSpec => DecisionsAreFinal
<1>1. PInv /\ [PNext]_allvars =>
        [\A id \in Ids :
            props[id] # NoProposal /\ props[id].status # "proposed" =>
                props'[id] \in {props[id], NoProposal}]_allvars
  BY StepKeepsDecisions
<1> QED
  BY <1>1, PInvariant, PTL DEF PSpec, DecisionsAreFinal
=============================================================================
