--------------------------- MODULE PolicyBuckets ---------------------------
(***************************************************************************)
(* The runtime's per-API policy store (internal/runtime/api.go,            *)
(* policyStore): two slices, deny before permit, mutated under one         *)
(* RWMutex.  Every operator below is the body of one critical section, so  *)
(* the modules that use them take it as one atomic step.                   *)
(*                                                                         *)
(* A compiled policy is an entry [name, result, body]; body stands for     *)
(* everything replace does not look at (predicates, condition, source).    *)
(***************************************************************************)
EXTENDS Integers, Sequences, SequencesExt

CONSTANTS Names,    \* policy names
          Bodies    \* what a policy says beside its name and result

Deny   == "deny"
Permit == "permit"
Results == {Deny, Permit}

Policy == [result : Results, body : Bodies]
Entry  == [name : Names, result : Results, body : Bodies]

EntryOf(name, p) == [name |-> name, result |-> p.result, body |-> p.body]
Source(e) == [result |-> e.result, body |-> e.body]

PolicyStore    == [deny : Seq(Entry), permit : Seq(Entry)]
newPolicyStore == [deny |-> << >>, permit |-> << >>]

(* Index of the first entry called name, 0 (the code's -1) when none is. *)
indexByName(ps, name) == SelectInSeq(ps, LAMBDA e : e.name = name)

appendLocked(s, e) ==
    IF e.result = Deny THEN [s EXCEPT !.deny = Append(@, e)]
                       ELSE [s EXCEPT !.permit = Append(@, e)]

(* Drops the first entry called name from whichever bucket holds it. *)
removeLocked(s, name) ==
    LET d == indexByName(s.deny, name)
        p == indexByName(s.permit, name)
    IN  IF d > 0 THEN [s EXCEPT !.deny = RemoveAt(@, d)]
        ELSE IF p > 0 THEN [s EXCEPT !.permit = RemoveAt(@, p)]
        ELSE s

(* Mutant: every edit is a remove and an append. *)
replaceMoves(s, e) == appendLocked(removeLocked(s, e.name), e)

(* Mutant: a result flip forgets the entry in the old bucket. *)
replaceForgets(s, e) ==
    LET i == indexByName(IF e.result = Deny THEN s.deny ELSE s.permit, e.name)
    IN  IF i = 0 THEN appendLocked(s, e)
        ELSE IF e.result = Deny THEN [s EXCEPT !.deny[i] = e]
        ELSE [s EXCEPT !.permit[i] = e]

(* Swap in place within a bucket; a result flip removes and appends. *)
replace(s, e) ==
    LET d == indexByName(s.deny, e.name)
        p == indexByName(s.permit, e.name)
    IN  IF e.result = Deny /\ d > 0 THEN [s EXCEPT !.deny[d] = e]
        ELSE IF e.result # Deny /\ p > 0 THEN [s EXCEPT !.permit[p] = e]
        ELSE appendLocked(removeLocked(s, e.name), e)

(* The snapshot Evaluate iterates and ListPolicies returns: deny first. *)
all(s) == s.deny \o s.permit

-----------------------------------------------------------------------------
Entries(s) == ToSet(s.deny) \cup ToSet(s.permit)

(* Some entry of the store is called name. *)
Holds(s, name) == \E e \in Entries(s) : e.name = name

(* Every entry called name has source p, and there is at least one. *)
HoldsOnly(s, name, p) ==
    /\ Holds(s, name)
    /\ \A e \in Entries(s) : e.name = name => Source(e) = p

(* No name occurs twice, within a bucket or across the two. *)
UniqueNames(s) ==
    /\ \A i, j \in 1..Len(s.deny) : s.deny[i].name = s.deny[j].name => i = j
    /\ \A i, j \in 1..Len(s.permit) :
          s.permit[i].name = s.permit[j].name => i = j
    /\ \A i \in 1..Len(s.deny), j \in 1..Len(s.permit) :
          s.deny[i].name # s.permit[j].name

(* Each bucket holds only entries of its own result. *)
Sorted(s) ==
    /\ \A i \in 1..Len(s.deny) : s.deny[i].result = Deny
    /\ \A i \in 1..Len(s.permit) : s.permit[i].result = Permit
=============================================================================
