------------------------- MODULE RequestPathProofs -------------------------
(***************************************************************************)
(* The request path lets nothing through that no live policy set allows,   *)
(* for any policies, actions, requests and edits.                          *)
(***************************************************************************)
EXTENDS RequestPath, PolicyBucketsProofs

Fresh   == {"idle", "admit", "match", "snapshot"}
Walking == {"principal", "action", "condition"}
Closing == {"decided", "commit", "done"}

Evaluation == [policy : Names, result : Results, got : Tri]

(* Policy e has been tried on action a without effect, and no later fetch   *)
(* can change that.                                                         *)
Settled(e, a, k, m) ==
    /\ Outcome(e, a, k, m) = "false"
    /\ \/ PrincipalPred[e.body][Caller(k)] = "false"
       \/ ActionPred[e.body][a] = "false"
       \/ Condition[e.body][a].reads => m[a] # "unread"

(* The walk over snapshot sn stands at policy po and action ac: everything  *)
(* before is settled, and sn is a store of S.                               *)
WalkOK(p, k, sn, po, ac, m, S) ==
    /\ k.acts \in Seq(Actions)
    /\ \E s \in S : sn = all(s)
    /\ \A i \in 1..(po - 1), j \in 1..Len(k.acts) : Settled(sn[i], k.acts[j], k, m)
    /\ p = "principal" => ac = 1
    /\ p # "principal" =>
          /\ po <= Len(sn) /\ PrincipalPred[sn[po].body][Caller(k)] = "true"
          /\ \A j \in 1..(ac - 1) : Settled(sn[po], k.acts[j], k, m)
    /\ p = "condition" => ac <= Len(k.acts) /\ ActionPred[sn[po].body][k.acts[ac]] = "true"

(* No evaluation fired or failed. *)
Quiet(tr) == \A i \in 1..Len(tr) : tr[i].got = "false"

(* The decision d is the one the evaluations tr lead to. *)
Told(d, tr) ==
    \/ d # Permit /\ Quiet(tr)
    \/ d = "error" /\ \A i \in 1..Len(tr) : tr[i].got # "true"
    \/ /\ Len(tr) > 0 /\ tr[Len(tr)].got = "true" /\ tr[Len(tr)].result = d
       /\ \A i \in 1..(Len(tr) - 1) : tr[i].got = "false"

Firing(tr) == IF tr # <<>> /\ Last(tr).got = "true" THEN Last(tr).policy ELSE "none"

Shape ==
    /\ edits \in 0..MaxEdits
    /\ pc \in [Requests -> Fresh \cup Walking \cup Closing]
    /\ kind \in [Requests -> Kinds \cup {NoKind}]
    /\ snap \in [Requests -> Seq(Entry)]
    /\ pol \in [Requests -> Nat \ {0}] /\ act \in [Requests -> Nat \ {0}]
    /\ meta \in [Requests -> [Actions -> Answers]]
    /\ fetches \in [Requests -> [Actions -> Nat]]
    /\ decision \in [Requests -> {"error", "no_match"} \cup Results]
    /\ trace \in [Requests -> Seq(Evaluation)]
    /\ reached \in [Requests -> BOOLEAN] /\ reply \in [Requests -> Statuses]
    /\ event \in [Requests -> {NoEvent} \cup [decision : {"error", "no_match"} \cup Results,
                                policy : Names \cup {"none"}, upstream : BOOLEAN]]
    /\ seen \in [Requests -> SUBSET PolicyStore]

(* The loop indices stay within their sequences, or one past. *)
IndexOK(p, k, sn, po, ac) ==
    /\ p \in Fresh => po = 1 /\ ac = 1
    /\ po <= Len(sn) + 1 /\ ac <= Len(k.acts) + 1

(* What the request has seen: the live store as long as it is undecided. *)
SeenAt(r) ==
    /\ \A s \in seen[r] : GoodStore(s)
    /\ pc[r] \in Deciding => store \in seen[r]

WalkAt(r) ==
    /\ IndexOK(pc[r], kind[r], snap[r], pol[r], act[r])
    /\ pc[r] = "snapshot" => kind[r].acts \in Seq(Actions)
    /\ pc[r] \in Walking => WalkOK(pc[r], kind[r], snap[r], pol[r], act[r], meta[r], seen[r])

FetchAt(r) == \A a \in Actions : fetches[r][a] = IF meta[r][a] = "unread" THEN 0 ELSE 1

(* A permit that was decided, and what was sent because of it, is allowed. *)
PermitAt(r) ==
    /\ pc[r] \in Closing /\ decision[r] = Permit =>
          \E s \in seen[r] : Allows(s, kind[r], meta[r])
    /\ reached[r] => pc[r] \in {"commit", "done"} /\ decision[r] = Permit

(* No decision is on record before there is one, then it is the one told. *)
TraceAt(r) ==
    /\ pc[r] \notin Closing => decision[r] = "error" /\ Quiet(trace[r])
    /\ pc[r] \in Closing => Told(decision[r], trace[r])
    /\ reply[r] = "upstream" => pc[r] \in Closing /\ decision[r] = Permit
    /\ event[r] # NoEvent =>
          /\ pc[r] = "done"
          /\ event[r] = [decision |-> decision[r], policy |-> Firing(trace[r]),
                         upstream |-> reply[r] = "upstream"]

RequestInv(r) == SeenAt(r) /\ WalkAt(r) /\ FetchAt(r) /\ PermitAt(r) /\ TraceAt(r)

(* The inductive invariant. *)
RPInv == Shape /\ GoodStore(store) /\ \A r \in Requests : RequestInv(r)

(* A request's matched actions are actions, unless matching failed. *)
LEMMA KindParts ==
    ASSUME NEW k \in Kinds \cup {NoKind}
    PROVE  /\ k.acts \in Seq(Actions) \/ k.acts = <<"error">>
           /\ Caller(k) \in Callers
<1>1. k.acts \in {<<"error">>} \cup Seq(Actions)
  <2>1. CASE k = NoKind
    BY <2>1 DEF NoKind
  <2>2. CASE k \in Kinds
    BY <2>2, TableAssumption DEF Kind
  <2> QED
    BY <2>1, <2>2
<1> QED
  BY <1>1 DEF Caller, Callers

(* A fetch does not unsettle what was settled before it: a condition that   *)
(* reads the bind had its answer already, one that does not is constant.    *)
LEMMA SettledStays ==
    ASSUME NEW e \in Entry, NEW a \in Actions, NEW k,
           NEW m \in [Actions -> Answers], NEW b \in Actions, NEW x \in Answers,
           m[b] = "unread", Settled(e, a, k, m)
    PROVE  Settled(e, a, k, [m EXCEPT ![b] = x])
<1> DEFINE n == [m EXCEPT ![b] = x]
           c == Condition[e.body][a]
<1>1. n[a] = (IF a = b THEN x ELSE m[a]) /\ n[a] \in Answers /\ m[a] \in Answers
  OBVIOUS
<1>2. e.body \in Bodies
  BY DEF Entry
<1>3. ~c.reads => c.val[n[a]] = c.val[m[a]]
  BY <1>1, <1>2, TableAssumption
<1>4. c.reads /\ m[a] # "unread" => n[a] = m[a]
  BY <1>1
<1>5. c.reads \in BOOLEAN
  BY <1>2, TableAssumption
<1> QED
  BY <1>3, <1>4, <1>5 DEF Settled, Outcome

(* Indices into a concatenation of a part d long and a part p long. *)
LEMMA ConcatIndices ==
    ASSUME NEW d \in Nat, NEW p \in Nat
    PROVE  /\ \A i \in 1..d : i \in 1..(d + p) /\ i <= d
           /\ \A i \in 1..(d + p) : i \in 1..d \/ (~(i <= d) /\ i - d \in 1..p)
           /\ \A i \in 1..d, j \in 1..(d + p) : j \in 1..d \/ i \in 1..(j - 1)
OBVIOUS

(* The snapshot lists the deny bucket, then the permit bucket. *)
LEMMA AllElements ==
    ASSUME NEW s \in PolicyStore
    PROVE  /\ all(s) \in Seq(Entry)
           /\ \A i \in 1..Len(s.deny) : all(s)[i] = s.deny[i]
           /\ \A i \in 1..Len(all(s)) :
                 \/ i \in 1..Len(s.deny)
                 \/ /\ i - Len(s.deny) \in 1..Len(s.permit)
                    /\ all(s)[i] = s.permit[i - Len(s.deny)]
           /\ \A i \in 1..Len(s.deny), j \in 1..Len(all(s)) :
                 j \in 1..Len(s.deny) \/ i \in 1..(j - 1)
<1>1. s.deny \in Seq(Entry) /\ s.permit \in Seq(Entry)
  BY DEF PolicyStore
<1>2. Len(s.deny) \in Nat /\ Len(s.permit) \in Nat
  BY <1>1, LenProperties
<1>3. /\ s.deny \o s.permit \in Seq(Entry)
      /\ Len(s.deny \o s.permit) = Len(s.deny) + Len(s.permit)
      /\ \A i \in 1..(Len(s.deny) + Len(s.permit)) : (s.deny \o s.permit)[i] =
            IF i <= Len(s.deny) THEN s.deny[i] ELSE s.permit[i - Len(s.deny)]
  BY <1>1, ConcatProperties, Zenon
<1>4. /\ \A i \in 1..Len(s.deny) :
            i \in 1..(Len(s.deny) + Len(s.permit)) /\ i <= Len(s.deny)
      /\ \A i \in 1..(Len(s.deny) + Len(s.permit)) :
            \/ i \in 1..Len(s.deny)
            \/ ~(i <= Len(s.deny)) /\ i - Len(s.deny) \in 1..Len(s.permit)
      /\ \A i \in 1..Len(s.deny), j \in 1..(Len(s.deny) + Len(s.permit)) :
            j \in 1..Len(s.deny) \/ i \in 1..(j - 1)
  BY <1>2, ConcatIndices, Zenon
<1>5. /\ \A i \in 1..Len(s.deny) : (s.deny \o s.permit)[i] = s.deny[i]
      /\ \A i \in 1..(Len(s.deny) + Len(s.permit)) :
            \/ i \in 1..Len(s.deny)
            \/ /\ i - Len(s.deny) \in 1..Len(s.permit)
               /\ (s.deny \o s.permit)[i] = s.permit[i - Len(s.deny)]
  BY <1>3, <1>4, Zenon
<1> QED
  BY <1>3, <1>4, <1>5, Zenon DEF all

(* A permit that fires after everything before it was settled is allowed by *)
(* the store the snapshot was taken from: every deny stands before it.      *)
LEMMA WalkAllows ==
    ASSUME NEW s, GoodStore(s), NEW k, k.acts \in Seq(Actions), NEW m,
           NEW po \in 1..Len(all(s)), NEW ac \in 1..Len(k.acts),
           all(s)[po].result = Permit,
           Outcome(all(s)[po], k.acts[ac], k, m) = "true",
           \A i \in 1..(po - 1), j \in 1..Len(k.acts) : Settled(all(s)[i], k.acts[j], k, m)
    PROVE  Allows(s, k, m)
<1>1. s \in PolicyStore /\ s.deny \in Seq(Entry) /\ s.permit \in Seq(Entry)
  BY DEF GoodStore, PolicyStore
<1>2. /\ ToSet(s.deny) = {s.deny[i] : i \in 1..Len(s.deny)}
      /\ ToSet(s.permit) = {s.permit[i] : i \in 1..Len(s.permit)}
      /\ ToSet(k.acts) = {k.acts[j] : j \in 1..Len(k.acts)}
  BY <1>1, LenProperties DEF ToSet
<1>3. po \notin 1..Len(s.deny)
  <2>1. SUFFICES ASSUME po \in 1..Len(s.deny) PROVE FALSE
    OBVIOUS
  <2>2. all(s)[po] \in ToSet(s.deny)
    BY <1>1, <1>2, <2>1, AllElements, Zenon
  <2> QED
    BY <2>2 DEF GoodStore, Deny, Permit
<1>4. all(s)[po] \in ToSet(s.permit)
  BY <1>1, <1>2, <1>3, AllElements, Zenon
<1>5. ASSUME NEW e \in ToSet(s.deny), NEW a \in ToSet(k.acts)
      PROVE  Outcome(e, a, k, m) = "false"
  <2>1. PICK i \in 1..Len(s.deny) : e = s.deny[i]
    BY <1>2
  <2>2. PICK j \in 1..Len(k.acts) : a = k.acts[j]
    BY <1>2
  <2>3. i \in 1..(po - 1) /\ all(s)[i] = e
    BY <1>1, <1>3, <2>1, AllElements, Zenon
  <2> QED
    BY <2>2, <2>3 DEF Settled
<1>6. k.acts[ac] \in ToSet(k.acts)
  BY <1>2
<1> QED
  BY <1>4, <1>5, <1>6 DEF Allows

-----------------------------------------------------------------------------
(* What an action leaves alone. *)

(* Only request r moves. *)
OnlyMoves(r) ==
    /\ store' = store
    /\ \A q \in Requests \ {r} :
          /\ pc'[q] = pc[q] /\ kind'[q] = kind[q]
          /\ snap'[q] = snap[q] /\ pol'[q] = pol[q] /\ act'[q] = act[q]
          /\ meta'[q] = meta[q] /\ fetches'[q] = fetches[q]
          /\ decision'[q] = decision[q] /\ trace'[q] = trace[q]
          /\ reached'[q] = reached[q] /\ reply'[q] = reply[q]
          /\ event'[q] = event[q] /\ seen'[q] = seen[q]

(* A step of r preserves the invariant if it does so for r. *)
LEMMA OneRequest ==
    ASSUME RPInv, NEW r \in Requests, OnlyMoves(r), Shape', RequestInv(r)'
    PROVE  RPInv'
<1>1. GoodStore(store')
  BY DEF RPInv, OnlyMoves
<1>2. ASSUME NEW q \in Requests \ {r}
      PROVE  RequestInv(q)'
  <2>1. SeenAt(q)'
    BY DEF RPInv, RequestInv, OnlyMoves, SeenAt
  <2>2. WalkAt(q)'
    BY DEF RPInv, RequestInv, OnlyMoves, WalkAt
  <2>3. FetchAt(q)'
    BY DEF RPInv, RequestInv, OnlyMoves, FetchAt
  <2>4. PermitAt(q)'
    BY DEF RPInv, RequestInv, OnlyMoves, PermitAt
  <2>5. TraceAt(q)'
    <3>1. /\ pc'[q] = pc[q] /\ decision'[q] = decision[q] /\ trace'[q] = trace[q]
          /\ reply'[q] = reply[q] /\ event'[q] = event[q]
      BY DEF OnlyMoves
    <3>2. TraceAt(q)
      BY DEF RPInv, RequestInv
    <3> QED
      BY <3>1, <3>2, Zenon DEF TraceAt
  <2> QED
    BY <2>1, <2>2, <2>3, <2>4, <2>5 DEF RequestInv
<1> QED
  BY <1>1, <1>2 DEF RPInv

(* A status that denies is never the upstream's. *)
LEMMA DenialStatus ==
    ASSUME NEW k, NEW natural \in Statuses \ {"upstream"}
    PROVE  /\ deniedStatusFor(k, natural) \in Statuses \ {"upstream"}
           /\ Refusal(k) \in Statuses \ {"upstream"}
<1>1. \A n \in Statuses \ {"upstream"} : deniedStatusFor(k, n) \in Statuses \ {"upstream"}
  BY TableAssumption DEF deniedStatusFor
<1>2. {"400", "401", "413", "500", NoStatus} \subseteq Statuses \ {"upstream"}
  BY DEF Statuses, NoStatus
<1> QED
  BY <1>1, <1>2 DEF Refusal

(* An edit shows every undecided request one more good store. *)
LEMMA EditedStep ==
    ASSUME RPInv, NEW s, GoodStore(s), Edited(s)
    PROVE  RPInv'
<1>1. s \in PolicyStore
  BY DEF GoodStore
<1>2. Shape'
  <2>1. (edits \in 0..MaxEdits)'
    BY TableAssumption DEF RPInv, Shape, Edited
  <2>2. (seen \in [Requests -> SUBSET PolicyStore])'
    BY <1>1 DEF RPInv, Shape, Edited
  <2> QED
    BY <2>1, <2>2 DEF RPInv, Shape, Edited, loop, hook
<1>3. ASSUME NEW r \in Requests
      PROVE  RequestInv(r)'
  <2>0. RequestInv(r)
    BY DEF RPInv
  <2>1. seen'[r] = (IF pc[r] \in Deciding THEN seen[r] \cup {s} ELSE seen[r])
    BY DEF Edited
  <2>2. SeenAt(r)'
    BY <2>0, <2>1 DEF RequestInv, SeenAt, Edited
  <2>3. WalkAt(r)'
    BY <2>0, <2>1 DEF RequestInv, WalkAt, WalkOK, Edited, loop
  <2>4. FetchAt(r)'
    BY <2>0 DEF RequestInv, FetchAt, Edited
  <2>5. PermitAt(r)'
    BY <2>0, <2>1 DEF RequestInv, PermitAt, Edited, hook
  <2>6. TraceAt(r)'
    BY <2>0 DEF RequestInv, TraceAt, Edited, hook
  <2> QED
    BY <2>2, <2>3, <2>4, <2>5, <2>6 DEF RequestInv
<1> QED
  BY <1>2, <1>3 DEF RPInv, Edited

(* A new request has nothing behind it and sees the live store. *)
LEMMA ArriveStep ==
    ASSUME RPInv, NEW r \in Requests, NEW k \in Kinds, Arrive(r, k)
    PROVE  RPInv'
<1>0. RequestInv(r) /\ Shape /\ GoodStore(store)
  BY DEF RPInv
<1>1. /\ pc[r] = "idle" /\ pc'[r] = "admit" /\ kind'[r] = k /\ seen'[r] = {store}
      /\ snap' = snap /\ pol' = pol /\ act' = act /\ store' = store
      /\ decision' = decision /\ trace' = trace
  BY <1>0 DEF Arrive, Goto, Shape, loop, live, hook
<1>2. Shape'
  <2>1. (pc \in [Requests -> Fresh \cup Walking \cup Closing])'
    BY <1>0 DEF Shape, Arrive, Goto, Fresh
  <2>2. (kind \in [Requests -> Kinds \cup {NoKind}])'
    BY <1>0 DEF Shape, Arrive
  <2>3. (seen \in [Requests -> SUBSET PolicyStore])'
    BY <1>0 DEF Shape, Arrive, GoodStore
  <2> QED
    BY <1>0, <2>1, <2>2, <2>3 DEF Shape, Arrive, live, loop, hook
<1>3. OnlyMoves(r)
  BY <1>0 DEF OnlyMoves, Shape, Arrive, Goto, live, loop, hook
<1>4. SeenAt(r)'
  BY <1>0, <1>1 DEF SeenAt
<1>5. WalkAt(r)'
  <2>1. Len(k.acts) \in Nat /\ Len(snap[r]) \in Nat
    <3>1. snap[r] \in Seq(Entry)
      BY <1>0 DEF Shape
    <3> QED
      BY <3>1, KindParts, LenProperties
  <2>2. pol[r] = 1 /\ act[r] = 1
    BY <1>0, <1>1 DEF RequestInv, WalkAt, IndexOK, Fresh
  <2> QED
    BY <1>1, <2>1, <2>2 DEF WalkAt, IndexOK, Walking
<1>6. FetchAt(r)'
  BY <1>0 DEF RequestInv, FetchAt, Arrive
<1>7. PermitAt(r)'
  BY <1>0, <1>1 DEF RequestInv, PermitAt, Arrive, Closing
<1>8. TraceAt(r)'
  BY <1>0, <1>1 DEF RequestInv, TraceAt, Arrive, Closing
<1> QED
  BY <1>2, <1>3, <1>4, <1>5, <1>6, <1>7, <1>8, OneRequest DEF RequestInv

-----------------------------------------------------------------------------
(* Steps of an undecided request. *)

(* A request that is decided or answered keeps the invariant if its         *)
(* evaluations tell the decision and a permit is allowed.                   *)
LEMMA Closes ==
    ASSUME RPInv, NEW r \in Requests,
           pc[r] \notin Closing, pc'[r] \in {"decided", "commit"},
           Told(decision'[r], trace'[r]),
           decision'[r] = Permit => \E s \in seen[r] : Allows(s, kind[r], meta[r]),
           reply'[r] # "upstream",
           UNCHANGED <<store, kind, snap, pol, act, meta, fetches, reached, event, seen>>
    PROVE  RequestInv(r)'
<1>0. RequestInv(r)
  BY DEF RPInv
<1>1. SeenAt(r)'
  BY <1>0 DEF RequestInv, SeenAt, Deciding
<1>2. WalkAt(r)'
  BY <1>0 DEF RequestInv, WalkAt, IndexOK, Fresh, Walking
<1>3. FetchAt(r)'
  BY <1>0 DEF RequestInv, FetchAt
<1>4. PermitAt(r)'
  BY <1>0 DEF RequestInv, PermitAt, Closing
<1>5. TraceAt(r)'
  BY <1>0 DEF RequestInv, TraceAt, Closing
<1> QED
  BY <1>1, <1>2, <1>3, <1>4, <1>5 DEF RequestInv

(* A request that walks on keeps the invariant if its place is right. *)
LEMMA Walks ==
    ASSUME RPInv, NEW r \in Requests,
           pc[r] \in Deciding, pc'[r] \in Walking, Quiet(trace'[r]),
           IndexOK(pc'[r], kind[r], snap'[r], pol'[r], act'[r]),
           WalkOK(pc'[r], kind[r], snap'[r], pol'[r], act'[r], meta[r], seen[r]),
           UNCHANGED <<store, kind, meta, fetches, decision, reached, reply, event, seen>>
    PROVE  RequestInv(r)'
<1>0. RequestInv(r)
  BY DEF RPInv
<1>1. SeenAt(r)'
  BY <1>0 DEF RequestInv, SeenAt
<1>2. WalkAt(r)'
  BY DEF WalkAt, Walking
<1>3. FetchAt(r)'
  BY <1>0 DEF RequestInv, FetchAt
<1>4. PermitAt(r)'
  BY <1>0 DEF RequestInv, PermitAt, Closing, Deciding, Walking
<1>5. TraceAt(r)'
  BY <1>0 DEF RequestInv, TraceAt, Closing, Deciding, Walking
<1> QED
  BY <1>1, <1>2, <1>3, <1>4, <1>5 DEF RequestInv

(* The evaluations of no request but r change. *)
TraceMoves(r) ==
    /\ trace' \in [Requests -> Seq(Evaluation)]
    /\ \A q \in Requests \ {r} : trace'[q] = trace[q]

(* An evaluation that fails leaves the decision at "error". *)
LEMMA FailsStep ==
    ASSUME RPInv, NEW r \in Requests, pc[r] \in Deciding,
           NEW natural \in Statuses \ {"upstream"}, EvalFails(r, natural),
           TraceMoves(r), \A i \in 1..Len(trace'[r]) : trace'[r][i].got # "true",
           UNCHANGED <<store, edits, kind, snap, pol, act, meta, fetches, reached, event, seen>>
    PROVE  RPInv'
<1> DEFINE status == deniedStatusFor(kind[r], natural)
<1>0. RequestInv(r) /\ Shape
  BY DEF RPInv
<1>1. status \in Statuses \ {"upstream"}
  BY DenialStatus
<1>2. /\ pc' = [pc EXCEPT ![r] = "commit"] /\ reply' = [reply EXCEPT ![r] = status]
      /\ decision' = decision
  BY DEF EvalFails, Respond, Goto
<1>3. Shape'
  BY <1>0, <1>1, <1>2 DEF Shape, Closing, TraceMoves
<1>4. OnlyMoves(r)
  BY <1>0, <1>2 DEF OnlyMoves, Shape, TraceMoves
<1>5. pc'[r] = "commit" /\ reply'[r] # "upstream"
  BY <1>0, <1>1, <1>2 DEF Shape
<1>6. pc[r] \notin Closing /\ decision[r] = "error"
  BY <1>0 DEF RequestInv, TraceAt, Closing, Deciding
<1>7. RequestInv(r)'
  BY <1>2, <1>5, <1>6, Closes DEF Told, Permit
<1> QED
  BY <1>3, <1>4, <1>7, OneRequest

(* A decision is kept if the evaluations tell it and a permit is allowed. *)
LEMMA DecideStep ==
    ASSUME RPInv, NEW r \in Requests, pc[r] \in Deciding,
           NEW d \in {"no_match"} \cup Results, Decide(r, d),
           TraceMoves(r), Told(d, trace'[r]),
           d = Permit => \E s \in seen[r] : Allows(s, kind[r], meta[r]),
           UNCHANGED <<store, edits, kind, snap, pol, act, meta, fetches, reached, event, seen>>
    PROVE  RPInv'
<1>0. RequestInv(r) /\ Shape
  BY DEF RPInv
<1>1. /\ pc' = [pc EXCEPT ![r] = "decided"] /\ decision' = [decision EXCEPT ![r] = d]
      /\ reply' = reply
  BY DEF Decide, Goto
<1>2. Shape'
  BY <1>0, <1>1 DEF Shape, Closing, TraceMoves
<1>3. OnlyMoves(r)
  BY <1>0, <1>1 DEF OnlyMoves, Shape, TraceMoves
<1>4. pc'[r] = "decided" /\ decision'[r] = d
  BY <1>0, <1>1 DEF Shape
<1>5. pc[r] \notin Closing /\ reply'[r] # "upstream"
  BY <1>0, <1>1 DEF RequestInv, TraceAt, Closing, Deciding
<1>6. RequestInv(r)'
  BY <1>4, <1>5, Closes
<1> QED
  BY <1>2, <1>3, <1>6, OneRequest

(* The walk goes on from its new place. *)
LEMMA WalksStep ==
    ASSUME RPInv, NEW r \in Requests, pc[r] \in Deciding,
           NEW label \in Walking, pc' = [pc EXCEPT ![r] = label],
           NEW sn \in Seq(Entry), snap' = [snap EXCEPT ![r] = sn],
           NEW po \in Nat \ {0}, pol' = [pol EXCEPT ![r] = po],
           NEW ac \in Nat \ {0}, act' = [act EXCEPT ![r] = ac],
           TraceMoves(r), Quiet(trace'[r]),
           IndexOK(label, kind[r], sn, po, ac),
           WalkOK(label, kind[r], sn, po, ac, meta[r], seen[r]),
           UNCHANGED <<store, edits, kind, meta, fetches, decision, reached, reply, event, seen>>
    PROVE  RPInv'
<1>0. Shape
  BY DEF RPInv
<1>1. Shape'
  BY <1>0 DEF Shape, TraceMoves
<1>2. OnlyMoves(r)
  BY <1>0 DEF OnlyMoves, Shape, TraceMoves
<1>3. pc'[r] = label /\ snap'[r] = sn /\ pol'[r] = po /\ act'[r] = ac
  BY <1>0 DEF Shape
<1>4. RequestInv(r)'
  BY <1>3, Walks
<1> QED
  BY <1>1, <1>2, <1>4, OneRequest

(* An undecided request has a quiet trace and lengths that are numbers. *)
LEMMA Undecided ==
    ASSUME RPInv, NEW r \in Requests, pc[r] \in Deciding
    PROVE  /\ decision[r] = "error" /\ Quiet(trace[r])
           /\ snap[r] \in Seq(Entry) /\ Len(snap[r]) \in Nat
           /\ Len(kind[r].acts) \in Nat
           /\ pol[r] \in Nat \ {0} /\ act[r] \in Nat \ {0}
           /\ trace' = trace => TraceMoves(r)
<1>0. RequestInv(r) /\ Shape
  BY DEF RPInv
<1>1. decision[r] = "error" /\ Quiet(trace[r])
  BY <1>0 DEF RequestInv, TraceAt, Closing, Deciding
<1>2. snap[r] \in Seq(Entry) /\ kind[r] \in Kinds \cup {NoKind}
  BY <1>0 DEF Shape
<1>3. Len(snap[r]) \in Nat
  BY <1>2, LenProperties
<1>4. Len(kind[r].acts) \in Nat
  BY <1>2, KindParts, LenProperties
<1>5. /\ pol[r] \in Nat \ {0} /\ act[r] \in Nat \ {0}
      /\ trace' = trace => TraceMoves(r)
  BY <1>0 DEF Shape, TraceMoves
<1> QED
  BY <1>1, <1>2, <1>3, <1>4, <1>5

(* Admission refuses with a status of its own, or goes on to matching. *)
LEMMA AdmitStep ==
    ASSUME RPInv, NEW r \in Requests, Admit(r)
    PROVE  RPInv'
<1>0. RequestInv(r) /\ Shape
  BY DEF RPInv
<1> DEFINE status == Refusal(kind[r])
<1>1. status \in Statuses \ {"upstream"}
  BY DenialStatus DEF Statuses
<1>2. /\ pc[r] = "admit"
      /\ UNCHANGED <<store, edits, kind, snap, pol, act, meta, fetches, decision, trace,
                     reached, event, seen>>
  BY DEF Admit, live, loop, hook
<1>3. CASE status # NoStatus
  <2>1. pc' = [pc EXCEPT ![r] = "commit"] /\ reply' = [reply EXCEPT ![r] = status]
    BY <1>3 DEF Admit, Respond, Goto
  <2>2. Shape'
    BY <1>0, <1>1, <1>2, <2>1 DEF Shape, Closing
  <2>3. OnlyMoves(r)
    BY <1>0, <1>2, <2>1 DEF OnlyMoves, Shape
  <2>4. decision[r] = "error" /\ Quiet(trace[r])
    BY <1>0, <1>2 DEF RequestInv, TraceAt, Closing
  <2>5. pc'[r] = "commit" /\ reply'[r] # "upstream"
    BY <1>0, <1>1, <2>1 DEF Shape
  <2>6. RequestInv(r)'
    BY <1>2, <2>4, <2>5, Closes DEF Told, Closing, Permit
  <2> QED
    BY <2>2, <2>3, <2>6, OneRequest
<1>4. CASE status = NoStatus
  <2>1. pc' = [pc EXCEPT ![r] = "match"] /\ reply' = reply
    BY <1>4 DEF Admit, Goto
  <2>2. Shape'
    BY <1>0, <1>2, <2>1 DEF Shape, Fresh
  <2>3. OnlyMoves(r)
    BY <1>0, <1>2, <2>1 DEF OnlyMoves, Shape
  <2>4. pc'[r] = "match"
    BY <1>0, <2>1 DEF Shape
  <2>5. RequestInv(r)'
    BY <1>0, <1>2, <2>1, <2>4 DEF RequestInv, SeenAt, WalkAt, FetchAt, PermitAt, TraceAt,
       IndexOK, Deciding, Fresh, Walking, Closing
  <2> QED
    BY <2>2, <2>3, <2>5, OneRequest
<1> QED
  BY <1>3, <1>4

(* Matching ends in no_match, in an error, in the default deny, or with     *)
(* actions to evaluate.                                                     *)
LEMMA MatchStep ==
    ASSUME RPInv, NEW r \in Requests, Match(r)
    PROVE  RPInv'
<1>0. RequestInv(r) /\ Shape
  BY DEF RPInv
<1>1. /\ pc[r] = "match" /\ pc[r] \in Deciding
      /\ UNCHANGED <<store, edits, kind, snap, pol, act, meta, fetches, trace, reached,
                     event, seen>>
  BY DEF Match, live, loop, Deciding
<1>2. Quiet(trace[r]) /\ TraceMoves(r)
  BY <1>1, Undecided
<1>3. ASSUME NEW d \in {"no_match", Deny}, Decide(r, d)
      PROVE  RPInv'
  BY <1>1, <1>2, <1>3, DecideStep DEF Told, Results, Permit, Deny
<1>4. CASE EvalFails(r, "403")
  <2>1. \A i \in 1..Len(trace'[r]) : trace'[r][i].got # "true"
    BY <1>1, <1>2 DEF Quiet
  <2> QED
    BY <1>1, <1>2, <1>4, <2>1, FailsStep DEF Statuses
<1>5. CASE kind[r].acts # <<"error">> /\ Goto(r, "snapshot") /\ UNCHANGED <<decision, reply>>
  <2>1. pc' = [pc EXCEPT ![r] = "snapshot"]
    BY <1>5 DEF Goto
  <2>2. Shape'
    BY <1>0, <1>1, <1>5, <2>1 DEF Shape, Fresh
  <2>3. OnlyMoves(r)
    BY <1>0, <1>1, <1>5, <2>1 DEF OnlyMoves, Shape
  <2>4. pc'[r] = "snapshot"
    BY <1>0, <2>1 DEF Shape
  <2>5. kind[r].acts \in Seq(Actions)
    BY <1>0, <1>5, KindParts DEF Shape
  <2>6. RequestInv(r)'
    BY <1>0, <1>1, <1>5, <2>4, <2>5 DEF RequestInv, SeenAt, WalkAt, FetchAt, PermitAt,
       TraceAt, IndexOK, Deciding, Fresh, Walking, Closing
  <2> QED
    BY <2>2, <2>3, <2>6, OneRequest
<1> QED
  BY <1>3, <1>4, <1>5 DEF Match
=============================================================================
