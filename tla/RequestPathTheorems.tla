------------------------ MODULE RequestPathTheorems ------------------------
(***************************************************************************)
(* The evaluation loop and the response preserve the invariant of          *)
(* RequestPathProofs, and the theorems about the request path follow.      *)
(***************************************************************************)
EXTENDS RequestPathProofs

-----------------------------------------------------------------------------
(* The evaluation loop. *)

(* A loop index a that has come to, or one past, a sequence n long. *)
LEMMA LoopIndex ==
    ASSUME NEW a \in Nat \ {0}, NEW n \in Nat
    PROVE  /\ 1 <= n + 1 /\ a + 1 \in Nat \ {0}
           /\ a <= n \/ a > n
           /\ ~(a <= n /\ a > n)
           /\ a <= n => /\ a \in 1..n /\ a <= n + 1 /\ a + 1 <= n + 1
                        /\ \A i \in 1..(a - 1) : i \in 1..n
           /\ a > n => \A i \in 1..n : i \in 1..(a - 1)
           /\ \A i \in 1..((a + 1) - 1) : i \in 1..(a - 1) \/ i = a
OBVIOUS

(* The walk starts on the live store, which the request has seen. *)
LEMMA SnapshotStep ==
    ASSUME RPInv, NEW r \in Requests, Snapshot(r)
    PROVE  RPInv'
<1>0. RequestInv(r) /\ Shape /\ GoodStore(store)
  BY DEF RPInv
<1>1. /\ pc[r] = "snapshot" /\ pc[r] \in Deciding
      /\ pc' = [pc EXCEPT ![r] = "principal"] /\ snap' = [snap EXCEPT ![r] = all(store)]
      /\ UNCHANGED <<store, edits, kind, pol, act, meta, fetches, decision, trace, reached,
                     reply, event, seen>>
  BY DEF Snapshot, Goto, live, hook, Deciding
<1>2. all(store) \in Seq(Entry) /\ Len(all(store)) \in Nat
  BY <1>0, AllElements, LenProperties DEF GoodStore
<1>3. /\ Quiet(trace'[r]) /\ TraceMoves(r) /\ Len(kind[r].acts) \in Nat
  BY <1>1, Undecided
<1>4. pol[r] = 1 /\ act[r] = 1 /\ kind[r].acts \in Seq(Actions) /\ store \in seen[r]
  BY <1>0, <1>1 DEF RequestInv, WalkAt, SeenAt, IndexOK, Fresh
<1>5. pol' = [pol EXCEPT ![r] = 1] /\ act' = [act EXCEPT ![r] = 1]
  BY <1>0, <1>1, <1>4 DEF Shape
<1>6. IndexOK("principal", kind[r], all(store), 1, 1)
  BY <1>2, <1>3 DEF IndexOK, Fresh
<1>7. WalkOK("principal", kind[r], all(store), 1, 1, meta[r], seen[r])
  <2>1. \A i \in 1..(1 - 1) : FALSE
    OBVIOUS
  <2> QED
    BY <1>4, <2>1 DEF WalkOK
<1>8. "principal" \in Walking /\ 1 \in Nat \ {0}
  BY DEF Walking
<1> QED
  BY <1>1, <1>2, <1>3, <1>5, <1>6, <1>7, <1>8, WalksStep

(* Where the walk stands, spelled out for the loop's steps. *)
LEMMA WalkPlace ==
    ASSUME RPInv, NEW r \in Requests, pc[r] \in Walking
    PROVE  /\ pc[r] \in Deciding
           /\ WalkOK(pc[r], kind[r], snap[r], pol[r], act[r], meta[r], seen[r])
           /\ pol[r] <= Len(snap[r]) + 1 /\ act[r] <= Len(kind[r].acts) + 1
           /\ snap = [snap EXCEPT ![r] = snap[r]]
           /\ pc = [pc EXCEPT ![r] = pc[r]]
           /\ pol = [pol EXCEPT ![r] = pol[r]] /\ act = [act EXCEPT ![r] = act[r]]
           /\ meta[r] \in [Actions -> Answers]
           /\ Caller(kind[r]) \in Callers
           /\ \A i \in 1..Len(snap[r]) : snap[r][i] \in Entry /\ snap[r][i].body \in Bodies
           /\ \A j \in 1..Len(kind[r].acts) : kind[r].acts[j] \in Actions
<1>0. RequestInv(r) /\ Shape
  BY DEF RPInv
<1>1. /\ WalkOK(pc[r], kind[r], snap[r], pol[r], act[r], meta[r], seen[r])
      /\ pol[r] <= Len(snap[r]) + 1 /\ act[r] <= Len(kind[r].acts) + 1
  BY <1>0 DEF RequestInv, WalkAt, IndexOK
<1>2. snap[r] \in Seq(Entry) /\ kind[r].acts \in Seq(Actions)
  BY <1>0, <1>1 DEF Shape, WalkOK
<1>3. \A i \in 1..Len(snap[r]) : snap[r][i] \in Entry /\ snap[r][i].body \in Bodies
  <2>1. \A i \in 1..Len(snap[r]) : snap[r][i] \in Entry
    BY <1>2, LenProperties
  <2> QED
    BY <2>1 DEF Entry
<1>4. \A j \in 1..Len(kind[r].acts) : kind[r].acts[j] \in Actions
  BY <1>2, LenProperties
<1>5. meta[r] \in [Actions -> Answers] /\ Caller(kind[r]) \in Callers
  BY <1>0, KindParts DEF Shape
<1>6. /\ snap = [snap EXCEPT ![r] = snap[r]] /\ pc = [pc EXCEPT ![r] = pc[r]]
      /\ pol = [pol EXCEPT ![r] = pol[r]] /\ act = [act EXCEPT ![r] = act[r]]
  BY <1>0 DEF Shape
<1> QED
  BY <1>1, <1>3, <1>4, <1>5, <1>6 DEF Walking, Deciding

(* A policy that does not apply to the caller is settled for every action;  *)
(* past the last policy the quiet trace tells the default deny.             *)
LEMMA PrincipalStep ==
    ASSUME RPInv, NEW r \in Requests, AppliesToPrincipal(r)
    PROVE  RPInv'
<1> DEFINE k == kind[r]
           sn == snap[r]
           po == pol[r]
           t == PrincipalPred[policy(r).body][Caller(k)]
<1>1. /\ pc[r] = "principal" /\ pc[r] \in Walking /\ pc[r] \in Deciding
      /\ UNCHANGED <<store, edits, kind, snap, meta, fetches, trace, reached, event, seen>>
  BY DEF AppliesToPrincipal, live, Walking, Deciding
<1>2. /\ Quiet(trace'[r]) /\ TraceMoves(r) /\ Len(k.acts) \in Nat /\ Len(sn) \in Nat
      /\ sn \in Seq(Entry) /\ po \in Nat \ {0} /\ act[r] \in Nat \ {0}
  BY <1>1, Undecided
<1>3. /\ WalkOK("principal", k, sn, po, act[r], meta[r], seen[r]) /\ po <= Len(sn) + 1
      /\ snap' = [snap EXCEPT ![r] = sn] /\ act[r] = 1
  BY <1>1, WalkPlace DEF WalkOK
<1>4. CASE po > Len(sn)
  <2>1. Decide(r, Deny) /\ UNCHANGED <<pol, act>>
    BY <1>4 DEF AppliesToPrincipal
  <2> QED
    BY <1>1, <1>2, <2>1, DecideStep DEF Told, Results, Permit, Deny
<1>5. CASE po <= Len(sn) /\ t = "error" /\ EvalFails(r, "403") /\ UNCHANGED <<pol, act>>
  <2>1. \A i \in 1..Len(trace'[r]) : trace'[r][i].got # "true"
    BY <1>2 DEF Quiet
  <2> QED
    BY <1>1, <1>2, <1>5, <2>1, FailsStep DEF Statuses
<1>6. CASE /\ po <= Len(sn) /\ t = "false" /\ NextPolicy(r)
           /\ UNCHANGED <<pc, decision, reply>>
  <2>1. /\ pol' = [pol EXCEPT ![r] = po + 1] /\ act' = [act EXCEPT ![r] = 1]
        /\ pc' = [pc EXCEPT ![r] = "principal"]
    BY <1>1, <1>6, WalkPlace DEF NextPolicy
  <2>2. IndexOK("principal", k, sn, po + 1, 1)
    <3>1. po + 1 <= Len(sn) + 1 /\ 1 <= Len(k.acts) + 1
      BY <1>2, <1>6, LoopIndex, Zenon
    <3> QED
      BY <3>1 DEF IndexOK, Fresh
  <2>3. \A j \in 1..Len(k.acts) : Settled(sn[po], k.acts[j], k, meta[r])
    BY <1>6 DEF Settled, Outcome, policy
  <2>4. \A i \in 1..((po + 1) - 1), j \in 1..Len(k.acts) : Settled(sn[i], k.acts[j], k, meta[r])
    <3>1. \A i \in 1..(po - 1), j \in 1..Len(k.acts) : Settled(sn[i], k.acts[j], k, meta[r])
      BY <1>3 DEF WalkOK
    <3>2. \A i \in 1..((po + 1) - 1) : i \in 1..(po - 1) \/ i = po
      BY <1>2, LoopIndex, Zenon
    <3> QED
      BY <2>3, <3>1, <3>2, Zenon
  <2>5. WalkOK("principal", k, sn, po + 1, 1, meta[r], seen[r])
    BY <1>3, <2>4 DEF WalkOK
  <2>6. po + 1 \in Nat \ {0}
    BY <1>2, LoopIndex, Zenon
  <2> QED
    BY <1>1, <1>2, <1>3, <1>6, <2>1, <2>2, <2>5, <2>6, WalksStep
<1>7. CASE /\ po <= Len(sn) /\ t = "true" /\ Goto(r, "action")
           /\ UNCHANGED <<pol, act, decision, reply>>
  <2>1. /\ pol' = [pol EXCEPT ![r] = po] /\ act' = [act EXCEPT ![r] = 1]
        /\ pc' = [pc EXCEPT ![r] = "action"]
    BY <1>1, <1>3, <1>7, WalkPlace DEF Goto
  <2>2. IndexOK("action", k, sn, po, 1)
    <3>1. po <= Len(sn) + 1 /\ 1 <= Len(k.acts) + 1
      BY <1>2, <1>7, LoopIndex, Zenon
    <3> QED
      BY <3>1 DEF IndexOK, Fresh
  <2>3. WalkOK("action", k, sn, po, 1, meta[r], seen[r])
    BY <1>3, <1>7 DEF WalkOK, policy
  <2>4. "action" \in Walking
    BY DEF Walking
  <2> QED
    BY <1>1, <1>2, <1>3, <1>7, <2>1, <2>2, <2>3, <2>4, WalksStep
<1>8. po <= Len(sn) \/ po > Len(sn)
  BY <1>2, LoopIndex, Zenon
<1>9. CASE po <= Len(sn)
  <2>1. ~(po > Len(sn))
    BY <1>2, <1>9, LoopIndex, Zenon
  <2> QED
    BY <1>5, <1>6, <1>7, <1>9, <2>1 DEF AppliesToPrincipal
<1> QED
  BY <1>4, <1>8, <1>9

(* Past the last action the policy is settled for all of them; an action    *)
(* it does not apply to is settled.                                         *)
LEMMA ActionStep ==
    ASSUME RPInv, NEW r \in Requests, AppliesTo(r)
    PROVE  RPInv'
<1> DEFINE k == kind[r]
           sn == snap[r]
           po == pol[r]
           ac == act[r]
           t == ActionPred[policy(r).body][action(r)]
<1>1. /\ pc[r] = "action" /\ pc[r] \in Walking /\ pc[r] \in Deciding
      /\ UNCHANGED <<store, edits, kind, snap, meta, fetches, trace, reached, event, seen>>
  BY DEF AppliesTo, live, Walking, Deciding
<1>2. /\ Quiet(trace'[r]) /\ TraceMoves(r) /\ Len(k.acts) \in Nat /\ Len(sn) \in Nat
      /\ sn \in Seq(Entry) /\ po \in Nat \ {0} /\ ac \in Nat \ {0}
  BY <1>1, Undecided
<1>3. /\ WalkOK("action", k, sn, po, ac, meta[r], seen[r])
      /\ snap' = [snap EXCEPT ![r] = sn] /\ ac <= Len(k.acts) + 1
  BY <1>1, WalkPlace
<1>4. /\ po <= Len(sn) /\ PrincipalPred[sn[po].body][Caller(k)] = "true"
      /\ \A j \in 1..(ac - 1) : Settled(sn[po], k.acts[j], k, meta[r])
      /\ \A i \in 1..(po - 1), j \in 1..Len(k.acts) : Settled(sn[i], k.acts[j], k, meta[r])
      /\ k.acts \in Seq(Actions) /\ \E s \in seen[r] : sn = all(s)
  BY <1>3 DEF WalkOK
<1>5. CASE ac > Len(k.acts)
  <2>1. /\ pol' = [pol EXCEPT ![r] = po + 1] /\ act' = [act EXCEPT ![r] = 1]
        /\ pc' = [pc EXCEPT ![r] = "principal"] /\ UNCHANGED <<decision, reply>>
    BY <1>5 DEF AppliesTo, NextPolicy, Goto
  <2>2. po + 1 <= Len(sn) + 1 /\ 1 <= Len(k.acts) + 1 /\ po + 1 \in Nat \ {0}
    BY <1>2, <1>4, LoopIndex, Zenon
  <2>3. IndexOK("principal", k, sn, po + 1, 1)
    BY <2>2 DEF IndexOK, Fresh
  <2>4. \A j \in 1..Len(k.acts) : j \in 1..(ac - 1)
    BY <1>2, <1>5, LoopIndex, Zenon
  <2>5. \A i \in 1..((po + 1) - 1) : i \in 1..(po - 1) \/ i = po
    BY <1>2, LoopIndex, Zenon
  <2>6. \A i \in 1..((po + 1) - 1), j \in 1..Len(k.acts) : Settled(sn[i], k.acts[j], k, meta[r])
    BY <1>4, <2>4, <2>5, Zenon
  <2>7. WalkOK("principal", k, sn, po + 1, 1, meta[r], seen[r])
    BY <1>4, <2>6 DEF WalkOK
  <2>8. "principal" \in Walking /\ 1 \in Nat \ {0}
    BY DEF Walking
  <2> QED
    BY <1>1, <1>2, <1>3, <2>1, <2>2, <2>3, <2>7, <2>8, WalksStep
<1>6. CASE t = "error" /\ EvalFails(r, "403") /\ UNCHANGED <<pol, act>>
  <2>1. \A i \in 1..Len(trace'[r]) : trace'[r][i].got # "true"
    BY <1>2 DEF Quiet
  <2> QED
    BY <1>1, <1>2, <1>6, <2>1, FailsStep DEF Statuses
<1>7. CASE /\ ac <= Len(k.acts) /\ t = "false" /\ NextAction(r)
           /\ UNCHANGED <<pc, decision, reply>>
  <2>1. /\ pol' = [pol EXCEPT ![r] = po] /\ act' = [act EXCEPT ![r] = ac + 1]
        /\ pc' = [pc EXCEPT ![r] = "action"]
    BY <1>1, <1>7, WalkPlace DEF NextAction
  <2>2. po <= Len(sn) + 1 /\ ac + 1 <= Len(k.acts) + 1 /\ ac + 1 \in Nat \ {0}
    BY <1>2, <1>4, <1>7, LoopIndex, Zenon
  <2>3. IndexOK("action", k, sn, po, ac + 1)
    BY <2>2 DEF IndexOK, Fresh
  <2>4. Settled(sn[po], k.acts[ac], k, meta[r])
    BY <1>4, <1>7 DEF Settled, Outcome, policy, action
  <2>5. \A j \in 1..((ac + 1) - 1) : j \in 1..(ac - 1) \/ j = ac
    BY <1>2, LoopIndex, Zenon
  <2>6. \A j \in 1..((ac + 1) - 1) : Settled(sn[po], k.acts[j], k, meta[r])
    BY <1>4, <2>4, <2>5, Zenon
  <2>7. WalkOK("action", k, sn, po, ac + 1, meta[r], seen[r])
    BY <1>4, <2>6 DEF WalkOK
  <2>8. "action" \in Walking
    BY DEF Walking
  <2> QED
    BY <1>1, <1>2, <1>3, <1>7, <2>1, <2>2, <2>3, <2>7, <2>8, WalksStep
<1>8. CASE /\ ac <= Len(k.acts) /\ t = "true" /\ Goto(r, "condition")
           /\ UNCHANGED <<pol, act, decision, reply>>
  <2>1. /\ pol' = [pol EXCEPT ![r] = po] /\ act' = [act EXCEPT ![r] = ac]
        /\ pc' = [pc EXCEPT ![r] = "condition"]
    BY <1>1, <1>8, WalkPlace DEF Goto
  <2>2. po <= Len(sn) + 1 /\ ac <= Len(k.acts) + 1
    BY <1>2, <1>4, <1>8, LoopIndex, Zenon
  <2>3. IndexOK("condition", k, sn, po, ac)
    BY <2>2 DEF IndexOK, Fresh
  <2>4. WalkOK("condition", k, sn, po, ac, meta[r], seen[r])
    BY <1>4, <1>8 DEF WalkOK, policy, action
  <2>5. "condition" \in Walking
    BY DEF Walking
  <2> QED
    BY <1>1, <1>2, <1>3, <1>8, <2>1, <2>3, <2>4, <2>5, WalksStep
<1>9. CASE ~(ac > Len(k.acts))
  <2>1. ac <= Len(k.acts)
    BY <1>2, <1>9, LoopIndex, Zenon
  <2> QED
    BY <1>6, <1>7, <1>8, <1>9, <2>1 DEF AppliesTo
<1> QED
  BY <1>5, <1>9

(* A fetch fills one unread bind and unsettles nothing. *)
LEMMA FetchStep ==
    ASSUME RPInv, NEW r \in Requests, NEW x \in Answers, Fetch(r, x)
    PROVE  RPInv'
<1> DEFINE k == kind[r]
           sn == snap[r]
           b == action(r)
           n == [meta[r] EXCEPT ![b] = x]
<1>0. RequestInv(r) /\ Shape
  BY DEF RPInv
<1>1. /\ pc[r] = "condition" /\ pc[r] \in Walking /\ pc[r] \notin Closing
      /\ meta[r][b] = "unread" /\ x # "unread"
      /\ meta' = [meta EXCEPT ![r][b] = x] /\ fetches' = [fetches EXCEPT ![r][b] = @ + 1]
      /\ UNCHANGED <<store, edits, pc, kind, snap, pol, act, decision, trace, reached,
                     reply, event, seen>>
  BY DEF Fetch, live, loop, hook, Walking, Closing
<1>2. /\ WalkOK("condition", k, sn, pol[r], act[r], meta[r], seen[r])
      /\ pol[r] \in Nat \ {0} /\ act[r] \in Nat \ {0}
      /\ Len(k.acts) \in Nat /\ Len(sn) \in Nat
  BY <1>1, WalkPlace, Undecided
<1>3. /\ pol[r] <= Len(sn) /\ act[r] <= Len(k.acts)
  BY <1>2 DEF WalkOK
<1>4. /\ \A i \in 1..Len(sn) : sn[i] \in Entry
      /\ \A j \in 1..Len(k.acts) : k.acts[j] \in Actions
      /\ meta[r] \in [Actions -> Answers]
  BY <1>1, WalkPlace, Zenon
<1>5. b \in Actions
  <2>1. act[r] \in 1..Len(k.acts)
    BY <1>2, <1>3, LoopIndex, Zenon
  <2> QED
    BY <1>4, <2>1 DEF action
<1>6. /\ meta'[r] = n /\ n \in [Actions -> Answers]
      /\ fetches'[r] = [fetches[r] EXCEPT ![b] = @ + 1]
  BY <1>0, <1>1, <1>5 DEF Shape
<1>7. Shape'
  <2>1. (meta \in [Requests -> [Actions -> Answers]])'
    BY <1>0, <1>1, <1>5 DEF Shape
  <2>2. (fetches \in [Requests -> [Actions -> Nat]])'
    BY <1>0, <1>1, <1>5 DEF Shape
  <2> QED
    BY <1>0, <1>1, <2>1, <2>2 DEF Shape
<1>8. OnlyMoves(r)
  BY <1>0, <1>1 DEF OnlyMoves, Shape
<1>9. WalkAt(r)'
  <2>1. \A i \in 1..(pol[r] - 1) : i \in 1..Len(sn)
    BY <1>2, <1>3, LoopIndex, Zenon
  <2>2. \A j \in 1..(act[r] - 1) : j \in 1..Len(k.acts)
    BY <1>2, <1>3, LoopIndex, Zenon
  <2>3. pol[r] \in 1..Len(sn)
    BY <1>2, <1>3, LoopIndex, Zenon
  <2>4. \A i \in 1..(pol[r] - 1), j \in 1..Len(k.acts) : Settled(sn[i], k.acts[j], k, n)
    <3>1. \A i \in 1..(pol[r] - 1), j \in 1..Len(k.acts) :
             Settled(sn[i], k.acts[j], k, meta[r])
      BY <1>2 DEF WalkOK
    <3> QED
      BY <1>1, <1>4, <1>5, <2>1, <3>1, SettledStays, Zenon
  <2>5. \A j \in 1..(act[r] - 1) : Settled(sn[pol[r]], k.acts[j], k, n)
    <3>1. \A j \in 1..(act[r] - 1) : Settled(sn[pol[r]], k.acts[j], k, meta[r])
      BY <1>2 DEF WalkOK
    <3> QED
      BY <1>1, <1>4, <1>5, <2>2, <2>3, <3>1, SettledStays, Zenon
  <2>6. WalkOK("condition", k, sn, pol[r], act[r], n, seen[r])
    BY <1>2, <2>4, <2>5 DEF WalkOK
  <2> QED
    BY <1>0, <1>1, <1>6, <2>6 DEF RequestInv, WalkAt
<1>10. FetchAt(r)'
  <2>1. fetches[r] \in [Actions -> Nat] /\ fetches[r][b] = 0
    BY <1>0, <1>1, <1>5 DEF Shape, RequestInv, FetchAt
  <2> QED
    BY <1>0, <1>1, <1>4, <1>5, <1>6, <2>1 DEF RequestInv, FetchAt
<1>11. SeenAt(r)' /\ PermitAt(r)'
  BY <1>0, <1>1 DEF RequestInv, SeenAt, PermitAt
<1>12. TraceAt(r)'
  BY <1>0, <1>1, Zenon DEF RequestInv, TraceAt
<1> QED
  BY <1>7, <1>8, <1>9, <1>10, <1>11, <1>12, OneRequest DEF RequestInv

(* What appending one evaluation makes of a quiet trace. *)
LEMMA AppendTells ==
    ASSUME NEW tr \in Seq(Evaluation), Quiet(tr), NEW x \in Evaluation
    PROVE  /\ Append(tr, x) \in Seq(Evaluation)
           /\ x.got = "false" => Quiet(Append(tr, x))
           /\ x.got = "error" => \A i \in 1..Len(Append(tr, x)) : Append(tr, x)[i].got # "true"
           /\ x.got = "true" => Told(x.result, Append(tr, x))
<1> DEFINE u == Append(tr, x)
<1>1. /\ u \in Seq(Evaluation) /\ Len(u) = Len(tr) + 1 /\ u[Len(tr) + 1] = x
      /\ \A i \in 1..Len(tr) : u[i] = tr[i]
  BY AppendProperties
<1>2. Len(tr) \in Nat
  BY LenProperties
<1>3. \A i \in 1..Len(tr) : u[i].got = "false"
  BY <1>1 DEF Quiet
<1>4. \A i \in 1..Len(u) : i \in 1..Len(tr) \/ u[i] = x
  BY <1>1, <1>2
<1>5. /\ Len(u) > 0 /\ u[Len(u)] = x
      /\ \A i \in 1..(Len(u) - 1) : i \in 1..Len(tr)
  BY <1>1, <1>2
<1> HIDE DEF u
<1>6. x.got = "false" => Quiet(u)
  BY <1>3, <1>4 DEF Quiet
<1>7. x.got = "error" => \A i \in 1..Len(u) : u[i].got # "true"
  BY <1>3, <1>4
<1>8. x.got = "true" => Told(x.result, u)
  BY <1>3, <1>5 DEF Told
<1> QED
  BY <1>1, <1>6, <1>7, <1>8 DEF u

(* A condition that fires decides, and what it permits is allowed; one that *)
(* fails ends the request; one that is false is settled.                    *)
LEMMA EvaluateStep ==
    ASSUME RPInv, NEW r \in Requests, Evaluate(r)
    PROVE  RPInv'
<1> DEFINE k == kind[r]
           sn == snap[r]
           po == pol[r]
           ac == act[r]
           e == policy(r)
           a == action(r)
           t == Condition[e.body][a].val[meta[r][a]]
           x == [policy |-> e.name, result |-> e.result, got |-> t]
<1>0. Shape /\ RequestInv(r)
  BY DEF RPInv
<1>1. /\ pc[r] = "condition" /\ pc[r] \in Walking /\ pc[r] \in Deciding
      /\ Reads(r) => meta[r][a] # "unread"
      /\ trace' = [trace EXCEPT ![r] = Append(@, x)]
      /\ UNCHANGED <<store, edits, kind, snap, meta, fetches, reached, event, seen>>
  BY DEF Evaluate, live, Walking, Deciding
<1>2. /\ Quiet(trace[r]) /\ Len(k.acts) \in Nat /\ Len(sn) \in Nat
      /\ sn \in Seq(Entry) /\ po \in Nat \ {0} /\ ac \in Nat \ {0}
  BY <1>1, Undecided
<1>3. /\ WalkOK("condition", k, sn, po, ac, meta[r], seen[r])
      /\ snap' = [snap EXCEPT ![r] = sn]
  BY <1>1, WalkPlace
<1>4. /\ po <= Len(sn) /\ ac <= Len(k.acts)
      /\ PrincipalPred[e.body][Caller(k)] = "true" /\ ActionPred[e.body][a] = "true"
      /\ \A j \in 1..(ac - 1) : Settled(e, k.acts[j], k, meta[r])
      /\ \A i \in 1..(po - 1), j \in 1..Len(k.acts) : Settled(sn[i], k.acts[j], k, meta[r])
      /\ k.acts \in Seq(Actions) /\ \E s \in seen[r] : sn = all(s)
  BY <1>3 DEF WalkOK, policy, action
<1>5. po \in 1..Len(sn) /\ ac \in 1..Len(k.acts)
  BY <1>2, <1>4, LoopIndex, Zenon
<1>6. e \in Entry /\ a \in Actions /\ meta[r][a] \in Answers
  <2>1. e \in Entry /\ a \in Actions /\ meta[r] \in [Actions -> Answers]
    BY <1>1, <1>5, WalkPlace, Zenon DEF policy, action
  <2> QED
    BY <2>1
<1>7. x \in Evaluation
  <2>1. e.name \in Names /\ e.result \in Results /\ e.body \in Bodies
    BY <1>6 DEF Entry
  <2>2. t \in Tri
    <3>1. Condition[e.body][a] \in [reads : BOOLEAN, val : [Answers -> Tri]]
      BY <1>6, <2>1, TableAssumption
    <3>2. Condition[e.body][a].val \in [Answers -> Tri]
      BY <3>1
    <3> QED
      BY <1>6, <3>2
  <2> QED
    BY <2>1, <2>2 DEF Evaluation
<1>8. trace[r] \in Seq(Evaluation) /\ trace'[r] = Append(trace[r], x)
  BY <1>0, <1>1 DEF Shape
<1>9. /\ Append(trace[r], x) \in Seq(Evaluation)
      /\ t = "false" => Quiet(trace'[r])
      /\ t = "error" => \A i \in 1..Len(trace'[r]) : trace'[r][i].got # "true"
      /\ t = "true" => Told(e.result, trace'[r])
  BY <1>2, <1>7, <1>8, AppendTells
<1>10. TraceMoves(r)
  BY <1>0, <1>1, <1>9 DEF Shape, TraceMoves
<1>11. Outcome(e, a, k, meta[r]) = t
  BY <1>4 DEF Outcome
<1>12. CASE t = "error" /\ EvalFails(r, classifyEvalError(Reads(r), meta[r][a]))
            /\ UNCHANGED <<pol, act>>
  <2>1. classifyEvalError(Reads(r), meta[r][a]) \in Statuses \ {"upstream"}
    BY DEF classifyEvalError, Statuses
  <2> QED
    BY <1>1, <1>9, <1>10, <1>12, <2>1, FailsStep
<1>13. CASE t = "true" /\ Decide(r, e.result) /\ UNCHANGED <<pol, act>>
  <2>1. ASSUME e.result = Permit
        PROVE  \E s \in seen[r] : Allows(s, k, meta[r])
    <3>1. PICK s \in seen[r] : sn = all(s)
      BY <1>4
    <3>2. GoodStore(s)
      BY <1>0, <3>1 DEF RequestInv, SeenAt
    <3>3. /\ po \in 1..Len(all(s)) /\ all(s)[po].result = Permit
          /\ Outcome(all(s)[po], k.acts[ac], k, meta[r]) = "true"
          /\ \A i \in 1..(po - 1), j \in 1..Len(k.acts) :
                Settled(all(s)[i], k.acts[j], k, meta[r])
      BY <1>4, <1>5, <1>11, <1>13, <2>1, <3>1 DEF policy, action
    <3>4. Allows(s, k, meta[r])
      BY <1>4, <1>5, <3>2, <3>3, WalkAllows, Zenon
    <3> QED
      BY <3>4
  <2>2. e.result \in {"no_match"} \cup Results
    BY <1>6 DEF Entry
  <2> QED
    BY <1>1, <1>9, <1>10, <1>13, <2>1, <2>2, DecideStep
<1>14. CASE t = "false" /\ NextAction(r) /\ Goto(r, "action") /\ UNCHANGED <<decision, reply>>
  <2>1. /\ pol' = [pol EXCEPT ![r] = po] /\ act' = [act EXCEPT ![r] = ac + 1]
        /\ pc' = [pc EXCEPT ![r] = "action"]
    BY <1>1, <1>14, WalkPlace DEF NextAction, Goto
  <2>2. po <= Len(sn) + 1 /\ ac + 1 <= Len(k.acts) + 1 /\ ac + 1 \in Nat \ {0}
    BY <1>2, <1>4, LoopIndex, Zenon
  <2>3. IndexOK("action", k, sn, po, ac + 1)
    BY <2>2 DEF IndexOK, Fresh
  <2>4. Settled(e, k.acts[ac], k, meta[r])
    BY <1>1, <1>11, <1>14 DEF Settled, Reads, action
  <2>5. \A j \in 1..((ac + 1) - 1) : j \in 1..(ac - 1) \/ j = ac
    BY <1>2, LoopIndex, Zenon
  <2>6. \A j \in 1..((ac + 1) - 1) : Settled(e, k.acts[j], k, meta[r])
    BY <1>4, <2>4, <2>5, Zenon
  <2>7. WalkOK("action", k, sn, po, ac + 1, meta[r], seen[r])
    BY <1>4, <2>6 DEF WalkOK, policy
  <2>8. "action" \in Walking
    BY DEF Walking
  <2> QED
    BY <1>1, <1>2, <1>3, <1>9, <1>10, <1>14, <2>1, <2>2, <2>3, <2>7, <2>8, WalksStep
<1> QED
  BY <1>12, <1>13, <1>14 DEF Evaluate

-----------------------------------------------------------------------------
(* Steps of a decided request. *)

LEMMA RefuseStep ==
    ASSUME RPInv, NEW r \in Requests, Refuse(r)
    PROVE  RPInv'
<1> DEFINE status == IF decision[r] = "no_match" THEN "404"
                     ELSE deniedStatusFor(kind[r], "403")
<1>0. RequestInv(r) /\ Shape
  BY DEF RPInv
<1>1. /\ pc[r] = "decided" /\ decision[r] # Permit
      /\ pc' = [pc EXCEPT ![r] = "commit"] /\ reply' = [reply EXCEPT ![r] = status]
      /\ UNCHANGED <<store, edits, kind, snap, pol, act, meta, fetches, decision, trace,
                     reached, event, seen>>
  BY DEF Refuse, Respond, Goto, live, loop, hook
<1>2. status \in Statuses \ {"upstream"}
  BY DenialStatus DEF Statuses
<1> HIDE DEF status
<1>3. Shape'
  BY <1>0, <1>1, <1>2 DEF Shape, Closing
<1>4. OnlyMoves(r)
  BY <1>0, <1>1 DEF OnlyMoves, Shape
<1>5. pc'[r] = "commit" /\ reply'[r] # "upstream"
  BY <1>0, <1>1, <1>2 DEF Shape
<1>6. SeenAt(r)' /\ WalkAt(r)' /\ FetchAt(r)'
  BY <1>0, <1>1, <1>5 DEF RequestInv, SeenAt, WalkAt, FetchAt, IndexOK, Deciding, Fresh, Walking
<1>7. PermitAt(r)' /\ TraceAt(r)'
  BY <1>0, <1>1, <1>5 DEF RequestInv, PermitAt, TraceAt, Closing
<1> QED
  BY <1>3, <1>4, <1>6, <1>7, OneRequest DEF RequestInv

(* Only a permitted request is sent. *)
LEMMA ForwardStep ==
    ASSUME RPInv, NEW r \in Requests, NEW exchange, Forward(r, exchange)
    PROVE  RPInv'
<1> DEFINE status == IF exchange = "answered" THEN "upstream" ELSE "502"
           sent == exchange # "unsent"
<1>0. RequestInv(r) /\ Shape
  BY DEF RPInv
<1>1. /\ pc[r] = "decided" /\ decision[r] = Permit
      /\ pc' = [pc EXCEPT ![r] = "commit"] /\ reply' = [reply EXCEPT ![r] = status]
      /\ reached' = [reached EXCEPT ![r] = sent]
      /\ UNCHANGED <<store, edits, kind, snap, pol, act, meta, fetches, decision, trace,
                     event, seen>>
  BY DEF Forward, Respond, Goto, live, loop, hook
<1>2. status \in Statuses /\ sent \in BOOLEAN
  BY DEF Statuses
<1> HIDE DEF status, sent
<1>3. Shape'
  <2>1. (reached \in [Requests -> BOOLEAN])'
    BY <1>0, <1>1, <1>2 DEF Shape
  <2>2. /\ (pc \in [Requests -> Fresh \cup Walking \cup Closing])'
        /\ (reply \in [Requests -> Statuses])'
    BY <1>0, <1>1, <1>2 DEF Shape, Closing
  <2> QED
    BY <1>0, <1>1, <2>1, <2>2 DEF Shape
<1>4. OnlyMoves(r)
  BY <1>0, <1>1 DEF OnlyMoves, Shape
<1>5. pc'[r] = "commit"
  BY <1>0, <1>1 DEF Shape
<1>6. SeenAt(r)' /\ WalkAt(r)' /\ FetchAt(r)'
  BY <1>0, <1>1, <1>5 DEF RequestInv, SeenAt, WalkAt, FetchAt, IndexOK, Deciding, Fresh, Walking
<1>7. PermitAt(r)' /\ TraceAt(r)'
  BY <1>0, <1>1, <1>5 DEF RequestInv, PermitAt, TraceAt, Closing
<1> QED
  BY <1>3, <1>4, <1>6, <1>7, OneRequest DEF RequestInv

(* The event is built from what the request recorded. *)
LEMMA commitStep ==
    ASSUME RPInv, NEW r \in Requests, commit(r)
    PROVE  RPInv'
<1> DEFINE told == [decision |-> decision[r], policy |-> Firing(trace[r]),
                    upstream |-> reply[r] = "upstream"]
           ev == IF decision[r] = "no_match" THEN NoEvent ELSE told
<1>0. RequestInv(r) /\ Shape
  BY DEF RPInv
<1>1. /\ pc[r] = "commit" /\ pc' = [pc EXCEPT ![r] = "done"]
      /\ event' = [event EXCEPT ![r] = ev]
      /\ UNCHANGED <<store, edits, kind, snap, pol, act, meta, fetches, decision, trace,
                     reached, reply, seen>>
  BY DEF commit, Goto, live, loop, hook, FiringPolicy, Firing
<1>2. told \in [decision : {"error", "no_match"} \cup Results,
                policy : Names \cup {"none"}, upstream : BOOLEAN]
  <2>1. trace[r] \in Seq(Evaluation) /\ decision[r] \in {"error", "no_match"} \cup Results
    BY <1>0 DEF Shape
  <2>2. Firing(trace[r]) \in Names \cup {"none"}
    <3>1. CASE trace[r] = <<>>
      BY <3>1 DEF Firing
    <3>2. CASE trace[r] # <<>>
      <4>1. Len(trace[r]) \in 1..Len(trace[r])
        BY <2>1, <3>2
      <4>2. trace[r][Len(trace[r])] \in Evaluation
        BY <2>1, <4>1, LenProperties
      <4> QED
        BY <4>2 DEF Firing, Last, Evaluation
    <3> QED
      BY <3>1, <3>2
  <2> QED
    BY <2>1, <2>2
<1>3. Shape'
  <2>1. (event \in [Requests -> {NoEvent} \cup [decision : {"error", "no_match"} \cup Results,
                                policy : Names \cup {"none"}, upstream : BOOLEAN]])'
    <3> HIDE DEF told
    <3> QED
      BY <1>0, <1>1, <1>2 DEF Shape
  <2>2. (pc \in [Requests -> Fresh \cup Walking \cup Closing])'
    BY <1>0, <1>1 DEF Shape, Closing
  <2> QED
    BY <1>0, <1>1, <2>1, <2>2 DEF Shape
<1>4. OnlyMoves(r)
  <2> HIDE DEF ev
  <2> QED
    BY <1>0, <1>1 DEF OnlyMoves, Shape
<1>5. pc'[r] = "done" /\ event'[r] = ev
  <2> HIDE DEF ev
  <2> QED
    BY <1>0, <1>1 DEF Shape
<1>6. SeenAt(r)' /\ WalkAt(r)' /\ FetchAt(r)' /\ PermitAt(r)'
  BY <1>0, <1>1, <1>5 DEF RequestInv, SeenAt, WalkAt, FetchAt, PermitAt, IndexOK, Deciding,
     Fresh, Walking, Closing
<1>7. TraceAt(r)'
  <2>1. event'[r] # NoEvent => event'[r] = told
    BY <1>5
  <2>2. pc[r] \in Closing /\ pc'[r] \in Closing
    BY <1>1, <1>5 DEF Closing
  <2>3. Told(decision[r], trace[r]) /\ (reply[r] = "upstream" => decision[r] = Permit)
    BY <1>0, <2>2 DEF RequestInv, TraceAt
  <2> QED
    BY <1>1, <1>5, <2>1, <2>2, <2>3, Zenon DEF TraceAt
<1> QED
  BY <1>3, <1>4, <1>6, <1>7, OneRequest DEF RequestInv

-----------------------------------------------------------------------------
(* The theorems. *)

LEMMA InitRPInv == Init => RPInv
<1> SUFFICES ASSUME Init PROVE RPInv
  OBVIOUS
<1>1. GoodStore(store)
  BY NewStore DEF Init
<1>2. Shape
  BY TableAssumption DEF Init, Shape, NoStatus, Statuses, Answers, Fresh
<1>3. ASSUME NEW r \in Requests
      PROVE  RequestInv(r)
  <2>1. SeenAt(r) /\ FetchAt(r)
    BY DEF Init, SeenAt, FetchAt, Deciding
  <2>2. WalkAt(r)
    BY DEF Init, WalkAt, IndexOK, Walking, NoKind
  <2>3. PermitAt(r) /\ TraceAt(r)
    BY DEF Init, PermitAt, TraceAt, Closing, Quiet, NoStatus
  <2> QED
    BY <2>1, <2>2, <2>3 DEF RequestInv
<1> QED
  BY <1>1, <1>2, <1>3 DEF RPInv

LEMMA NextRPInv == RPInv /\ [Next]_vars => RPInv'
<1> SUFFICES ASSUME RPInv, [Next]_vars PROVE RPInv'
  OBVIOUS
<1>0. GoodStore(store)
  BY DEF RPInv
<1>1. ASSUME NEW e \in Edits, ReplacePolicy(e) PROVE RPInv'
  <2>1. e \in Entry
    BY TableAssumption
  <2>2. GoodStore(replace(store, e))
    BY <1>0, <2>1, ReplaceEntry
  <2> QED
    BY <1>1, <2>2, EditedStep DEF ReplacePolicy
<1>2. ASSUME NEW n \in Names, RemovePolicy(n) PROVE RPInv'
  <2>1. GoodStore(removeLocked(store, n))
    BY <1>0, RemoveLocked
  <2> QED
    BY <1>2, <2>1, EditedStep DEF RemovePolicy
<1>3. ASSUME NEW r \in Requests, NEW k \in Kinds, Arrive(r, k) PROVE RPInv'
  BY <1>3, ArriveStep
<1>4. ASSUME NEW r \in Requests, Step(r) PROVE RPInv'
  BY <1>4, AdmitStep, MatchStep, SnapshotStep, PrincipalStep, ActionStep, FetchStep,
     EvaluateStep, RefuseStep, commitStep DEF Step
<1>5. ASSUME NEW r \in Requests, NEW x, Forward(r, x) PROVE RPInv'
  BY <1>5, ForwardStep
<1>6. CASE UNCHANGED vars
  <2>1. Shape'
    BY <1>6 DEF RPInv, Shape, vars
  <2>2. ASSUME NEW r \in Requests PROVE RequestInv(r)'
    <3>1. RequestInv(r)
      BY DEF RPInv
    <3>2. SeenAt(r)' /\ WalkAt(r)' /\ FetchAt(r)' /\ PermitAt(r)'
      BY <1>6, <3>1 DEF vars, RequestInv, SeenAt, WalkAt, FetchAt, PermitAt
    <3>3. TraceAt(r)'
      BY <1>6, <3>1, Zenon DEF vars, RequestInv, TraceAt
    <3> QED
      BY <3>2, <3>3 DEF RequestInv
  <2>3. GoodStore(store')
    BY <1>0, <1>6 DEF vars
  <2> QED
    BY <2>1, <2>2, <2>3 DEF RPInv
<1> QED
  BY <1>1, <1>2, <1>3, <1>4, <1>5, <1>6 DEF Next

(* The invariant holds in every reachable state of the request path. *)
THEOREM RequestPathInvariant == Spec => []RPInv
BY InitRPInv, NextRPInv, PTL DEF Spec

(* Every variable of a request in flight keeps its type, and the loop       *)
(* indices of Evaluate never leave the snapshot or the matched actions by   *)
(* more than one (runtime/api.go, Evaluate).                                *)
THEOREM RequestPathTypes == Spec => []TypeOK
<1>1. RPInv => TypeOK
  <2> SUFFICES ASSUME RPInv PROVE TypeOK
    OBVIOUS
  <2>1. ASSUME NEW r \in Requests
        PROVE  /\ snap[r] \in Seq(Entry)
               /\ pol[r] \in 1..(Len(snap[r]) + 1) /\ act[r] \in 1..(Len(kind[r].acts) + 1)
    <3>1. /\ snap[r] \in Seq(Entry) /\ kind[r] \in Kinds \cup {NoKind}
          /\ pol[r] \in Nat \ {0} /\ act[r] \in Nat \ {0}
      BY DEF RPInv, Shape
    <3>2. Len(snap[r]) \in Nat /\ Len(kind[r].acts) \in Nat
      BY <3>1, KindParts, LenProperties
    <3>3. pol[r] <= Len(snap[r]) + 1 /\ act[r] <= Len(kind[r].acts) + 1
      BY DEF RPInv, RequestInv, WalkAt, IndexOK
    <3> QED
      BY <3>1, <3>2, <3>3
  <2>2. pc \in [Requests -> Deciding \cup {"idle", "decided", "commit", "done"}]
    BY DEF RPInv, Shape, Fresh, Walking, Closing, Deciding
  <2> QED
    BY <2>1, <2>2 DEF RPInv, Shape, GoodStore, TypeOK
<1> QED
  BY <1>1, RequestPathInvariant, PTL

(* Whatever the policies, the edits and the upstream answers: nothing is    *)
(* sent upstream that no policy set, live between arrival and decision,     *)
(* allows (runtime/api.go, Evaluate; server/proxy.go, handle).              *)
THEOREM ForwardedIsAllowed == Spec => []ForwardedWasAllowed
<1>1. RPInv => ForwardedWasAllowed
  <2> SUFFICES ASSUME RPInv, NEW r \in Requests, reached[r]
               PROVE  \E s \in seen[r] : Allows(s, kind[r], meta[r])
    BY DEF ForwardedWasAllowed
  <2> QED
    BY DEF RPInv, RequestInv, PermitAt, Closing
<1> QED
  BY <1>1, RequestPathInvariant, PTL

(* A bind's meta is fetched at most once per request, for any number of     *)
(* policies that read it (messages/value.go, completion.run).               *)
THEOREM FetchIsOnce == Spec => []FetchedOnce
<1>1. RPInv => FetchedOnce
  BY DEF RPInv, RequestInv, FetchAt, FetchedOnce
<1> QED
  BY <1>1, RequestPathInvariant, PTL

(* The recorded event names the policy that decided, the decision it led    *)
(* to, and an upstream status only on a permit (server/recorder.go, commit).*)
THEOREM EventIsTrue == Spec => []EventTellsOutcome
<1>1. RPInv => EventTellsOutcome
  <2> SUFFICES ASSUME RPInv, NEW r \in Requests, event[r] # NoEvent
               PROVE  LET fired == {i \in 1..Len(trace[r]) : trace[r][i].got = "true"}
                      IN  /\ event[r].decision = Permit => event[r].policy # "none"
                          /\ event[r].policy # "none" =>
                                /\ fired = {Len(trace[r])}
                                /\ Last(trace[r]).result = event[r].decision
                          /\ event[r].decision = Deny =>
                                \A i \in 1..Len(trace[r]) : trace[r][i].got # "error"
                          /\ event[r].upstream \/ reached[r] => event[r].decision = Permit
    BY DEF EventTellsOutcome
  <2> DEFINE tr == trace[r]
             d == decision[r]
  <2>1. /\ RequestInv(r) /\ tr \in Seq(Evaluation) /\ Len(tr) \in Nat
    BY LenProperties DEF RPInv, Shape
  <2>2. /\ pc[r] = "done"
        /\ event[r] = [decision |-> d, policy |-> Firing(tr), upstream |-> reply[r] = "upstream"]
    BY <2>1, Zenon DEF RequestInv, TraceAt
  <2>3. /\ event[r].decision = d /\ event[r].policy = Firing(tr)
        /\ event[r].upstream = (reply[r] = "upstream")
    <3> DEFINE up == reply[r] = "upstream"
               f == Firing(tr)
    <3>1. event[r] = [decision |-> d, policy |-> f, upstream |-> up]
      BY <2>2
    <3> HIDE DEF up, f
    <3>2. event[r].decision = d /\ event[r].policy = f /\ event[r].upstream = up
      BY <3>1
    <3> QED
      BY <3>2 DEF up, f
  <2>4. Told(d, tr)
    BY <2>1, <2>2 DEF RequestInv, TraceAt, Closing
  <2>5. event[r].upstream \/ reached[r] => d = Permit
    BY <2>1, <2>3 DEF RequestInv, TraceAt, PermitAt
  <2>6. tr # <<>> => Len(tr) \in 1..Len(tr)
    BY <2>1
  <2>7. Len(tr) > 0 => tr # <<>>
    BY <2>1
  <2>8. CASE tr # <<>> /\ tr[Len(tr)].got = "true"
    <3>1. /\ tr[Len(tr)].result = d /\ \A i \in 1..(Len(tr) - 1) : tr[i].got = "false"
      BY <2>4, <2>6, <2>8 DEF Told, Quiet
    <3>2. tr[Len(tr)] \in Evaluation
      BY <2>1, <2>6, <2>8, LenProperties
    <3>3. Firing(tr) = tr[Len(tr)].policy /\ Firing(tr) # "none"
      BY <2>8, <3>2, TableAssumption DEF Firing, Last, Evaluation
    <3>4. \A i \in 1..Len(tr) : i \in 1..(Len(tr) - 1) \/ i = Len(tr)
      BY <2>1
    <3>5. {i \in 1..Len(tr) : tr[i].got = "true"} = {Len(tr)}
      BY <2>6, <2>8, <3>1, <3>4
    <3>6. \A i \in 1..Len(tr) : tr[i].got # "error"
      BY <2>8, <3>1, <3>4
    <3> QED
      BY <2>3, <2>5, <3>1, <3>3, <3>5, <3>6 DEF Last
  <2>9. CASE ~(tr # <<>> /\ tr[Len(tr)].got = "true")
    <3>1. Firing(tr) = "none"
      BY <2>9 DEF Firing, Last
    <3>2. d # Permit /\ (d = Deny => Quiet(tr))
      BY <2>4, <2>7, <2>9 DEF Told, Permit, Deny
    <3> QED
      BY <2>3, <2>5, <3>1, <3>2 DEF Quiet
  <2> QED
    BY <2>8, <2>9
<1> QED
  BY <1>1, RequestPathInvariant, PTL
=============================================================================
