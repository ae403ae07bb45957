------------------------ MODULE PolicyBucketsProofs ------------------------
(***************************************************************************)
(* What the runtime's policyStore operations do to a store whose names are *)
(* unique: they keep it so, they act on the named entry and on no other.   *)
(***************************************************************************)
EXTENDS PolicyBuckets, SequenceTheorems, WellFoundedInduction, TLAPS

(* A non-empty set of naturals has a least element, so Min is in the set. *)
LEMMA MinOfNaturals ==
    ASSUME NEW T \in SUBSET Nat, T # {}
    PROVE  Min(T) \in T /\ \A y \in T : Min(T) <= y
<1> DEFINE R == OpToRel(<, Nat)
<1>0. R = {ss \in Nat \X Nat : ss[1] < ss[2]}
  BY Zenon DEF OpToRel
<1>a. IsWellFoundedOn(R, Nat)
  BY NatLessThanWellFounded
<1> HIDE DEF R
<1>1. PICK x \in T : \A y \in T : ~(<<y, x>> \in R)
  BY <1>a, WFMin
<1>2. ASSUME NEW y \in T PROVE x <= y
  <2>1. x \in Nat /\ y \in Nat
    OBVIOUS
  <2>2. y < x => <<y, x>> \in R
    BY <1>0, <2>1
  <2> QED
    BY <1>1, <2>1, <2>2
<1> QED
  BY <1>2 DEF Min

(* RemoveAt drops one element and closes the gap. *)
LEMMA RemoveAtElements ==
    ASSUME NEW S, NEW s \in Seq(S), NEW i \in 1..Len(s)
    PROVE  /\ RemoveAt(s, i) \in Seq(S)
           /\ Len(RemoveAt(s, i)) = Len(s) - 1
           /\ \A j \in 1..(Len(s) - 1) :
                 RemoveAt(s, i)[j] = IF j < i THEN s[j] ELSE s[j + 1]
<1> DEFINE a == SubSeq(s, 1, i - 1)
           b == SubSeq(s, i + 1, Len(s))
<1>1. Len(s) \in Nat /\ \A j \in 1..Len(s) : s[j] \in S
  BY ElementOfSeq, LenProperties
<1>2. /\ a \in Seq(S) /\ Len(a) = i - 1
      /\ \A j \in 1..(i - 1) : a[j] = s[j]
  BY <1>1, SubSeqProperties
<1>3. /\ b \in Seq(S) /\ Len(b) = Len(s) - i
      /\ \A j \in 1..(Len(s) - i) : b[j] = s[i + j]
  BY <1>1, SubSeqProperties
<1>4. RemoveAt(s, i) = a \o b
  BY DEF RemoveAt
<1> HIDE DEF a, b
<1>c. Len(a) + Len(b) = Len(s) - 1
  BY <1>1, <1>2, <1>3
<1>d. /\ a \o b \in Seq(S) /\ Len(a \o b) = Len(a) + Len(b)
      /\ \A j \in 1..(Len(a) + Len(b)) :
            (a \o b)[j] = IF j <= Len(a) THEN a[j] ELSE b[j - Len(a)]
  BY <1>2, <1>3, ConcatProperties, Zenon
<1>5. /\ a \o b \in Seq(S) /\ Len(a \o b) = Len(s) - 1
      /\ \A j \in 1..(Len(s) - 1) :
            (a \o b)[j] = IF j <= i - 1 THEN a[j] ELSE b[j - (i - 1)]
  BY <1>2, <1>c, <1>d
<1>6. ASSUME NEW j \in 1..(Len(s) - 1)
      PROVE  (a \o b)[j] = IF j < i THEN s[j] ELSE s[j + 1]
  <2>1. CASE j < i
    BY <1>1, <1>2, <1>5, <2>1
  <2>2. CASE ~(j < i)
    <3>1. j - (i - 1) \in 1..(Len(s) - i) /\ i + (j - (i - 1)) = j + 1
      BY <1>1, <2>2
    <3> QED
      BY <1>1, <1>3, <1>5, <2>2, <3>1
  <2> QED
    BY <2>1, <2>2
<1> QED
  BY <1>4, <1>5, <1>6

(* indexByName returns 0 exactly when no entry carries the name, and the   *)
(* position of such an entry otherwise.                                    *)
LEMMA IndexByName ==
    ASSUME NEW ps \in Seq(Entry), NEW name
    PROVE  /\ indexByName(ps, name) \in 0..Len(ps)
           /\ indexByName(ps, name) = 0 <=>
                 \A i \in 1..Len(ps) : ps[i].name # name
           /\ indexByName(ps, name) > 0 =>
                 ps[indexByName(ps, name)].name = name
<1> DEFINE I == {i \in 1..Len(ps) : ps[i].name = name}
<1>1. indexByName(ps, name) = IF I # {} THEN Min(I) ELSE 0
  BY DEF indexByName, SelectInSeq
<1>2. I \in SUBSET Nat /\ Len(ps) \in Nat
  BY LenProperties
<1>3. I # {} => Min(I) \in I
  BY <1>2, MinOfNaturals
<1> QED
  BY <1>1, <1>2, <1>3

Unique(ps) == \A i, j \in 1..Len(ps) : ps[i].name = ps[j].name => i = j

(* Removing the entry called name from a bucket with unique names. *)
LEMMA BucketRemove ==
    ASSUME NEW ps \in Seq(Entry), Unique(ps), NEW d \in 1..Len(ps)
    PROVE  /\ RemoveAt(ps, d) \in Seq(Entry)
           /\ Unique(RemoveAt(ps, d))
           /\ ToSet(RemoveAt(ps, d)) =
                 {e \in ToSet(ps) : e.name # ps[d].name}
<1> DEFINE qs == RemoveAt(ps, d)
           n == Len(ps)
<1>1. n \in Nat /\ DOMAIN ps = 1..n
  BY LenProperties
<1>2. /\ qs \in Seq(Entry) /\ Len(qs) = n - 1
      /\ \A j \in 1..(n - 1) : qs[j] = IF j < d THEN ps[j] ELSE ps[j + 1]
  BY RemoveAtElements
<1>3. DOMAIN qs = 1..(n - 1)
  BY <1>2, LenProperties
<1> HIDE DEF qs, n
<1>4. Unique(qs)
  <2> SUFFICES ASSUME NEW i \in 1..(n - 1), NEW j \in 1..(n - 1),
                      qs[i].name = qs[j].name
               PROVE  i = j
    BY <1>2 DEF Unique
  <2> DEFINE f(x) == IF x < d THEN x ELSE x + 1
  <2>1. f(i) \in 1..n /\ f(j) \in 1..n
    BY <1>1 DEF n
  <2>2. qs[i] = ps[f(i)] /\ qs[j] = ps[f(j)]
    BY <1>2
  <2>3. f(i) = f(j)
    BY <2>1, <2>2 DEF Unique, n
  <2> QED
    BY <1>1, <2>3 DEF n
<1>5. ASSUME NEW e \in ToSet(qs)
      PROVE  e \in ToSet(ps) /\ e.name # ps[d].name
  <2>1. PICK j \in 1..(n - 1) : e = qs[j]
    BY <1>3 DEF ToSet
  <2> DEFINE m == IF j < d THEN j ELSE j + 1
  <2>2. m \in 1..n /\ m # d /\ e = ps[m]
    BY <1>1, <1>2, <2>1 DEF n
  <2> QED
    BY <1>1, <2>2 DEF ToSet, Unique, n
<1>6. ASSUME NEW e \in ToSet(ps), e.name # ps[d].name
      PROVE  e \in ToSet(qs)
  <2>1. PICK m \in 1..n : e = ps[m]
    BY <1>1 DEF ToSet
  <2>2. m # d
    BY <1>6, <2>1
  <2> DEFINE j == IF m < d THEN m ELSE m - 1
  <2>3. j \in 1..(n - 1) /\ e = qs[j]
    BY <1>1, <1>2, <2>1, <2>2 DEF n
  <2> QED
    BY <1>3, <2>3 DEF ToSet
<1>7. ToSet(qs) = {e \in ToSet(ps) : e.name # ps[d].name}
  BY <1>5, <1>6
<1> QED
  BY <1>2, <1>4, <1>7 DEF qs

(* Swapping the entry at d for one of the same name, in place. *)
LEMMA BucketSwap ==
    ASSUME NEW ps \in Seq(Entry), Unique(ps), NEW d \in 1..Len(ps),
           NEW x \in Entry, x.name = ps[d].name
    PROVE  /\ [ps EXCEPT ![d] = x] \in Seq(Entry)
           /\ Unique([ps EXCEPT ![d] = x])
           /\ ToSet([ps EXCEPT ![d] = x]) =
                 {e \in ToSet(ps) : e.name # x.name} \cup {x}
<1> DEFINE qs == [ps EXCEPT ![d] = x]
<1>1. DOMAIN ps = 1..Len(ps)
  BY LenProperties
<1>2. /\ qs \in Seq(Entry) /\ Len(qs) = Len(ps)
      /\ \A j \in 1..Len(ps) : qs[j] = IF j = d THEN x ELSE ps[j]
  BY ExceptSeq
<1>3. DOMAIN qs = 1..Len(ps)
  BY <1>2, LenProperties
<1> HIDE DEF qs
<1>4. Unique(qs)
  BY <1>2 DEF Unique
<1>5. ToSet(qs) = {e \in ToSet(ps) : e.name # x.name} \cup {x}
  BY <1>1, <1>2, <1>3 DEF ToSet, Unique
<1> QED
  BY <1>2, <1>4, <1>5 DEF qs

(* Appending an entry whose name the bucket does not hold. *)
LEMMA BucketAppend ==
    ASSUME NEW ps \in Seq(Entry), Unique(ps), NEW x \in Entry,
           \A e \in ToSet(ps) : e.name # x.name
    PROVE  /\ Append(ps, x) \in Seq(Entry)
           /\ Unique(Append(ps, x))
           /\ ToSet(Append(ps, x)) = ToSet(ps) \cup {x}
<1> DEFINE qs == Append(ps, x)
           n == Len(ps)
<1>1. n \in Nat /\ DOMAIN ps = 1..n
  BY LenProperties
<1>2. /\ qs \in Seq(Entry) /\ Len(qs) = n + 1
      /\ \A j \in 1..n : qs[j] = ps[j]
      /\ qs[n + 1] = x
  BY AppendProperties
<1>3. DOMAIN qs = 1..(n + 1)
  BY <1>2, LenProperties
<1> HIDE DEF qs
<1>4. \A j \in 1..n : ps[j].name # x.name
  BY <1>1 DEF ToSet
<1>5. Unique(qs)
  BY <1>1, <1>2, <1>4 DEF Unique
<1>6. ToSet(qs) = ToSet(ps) \cup {x}
  BY <1>1, <1>2, <1>3 DEF ToSet
<1> QED
  BY <1>2, <1>5, <1>6 DEF qs

(* The store in which every name occurs once and in its own bucket, in     *)
(* terms of the buckets' entry sets.                                       *)
GoodStore(s) ==
    /\ s \in PolicyStore
    /\ Unique(s.deny) /\ Unique(s.permit)
    /\ \A x \in ToSet(s.deny), y \in ToSet(s.permit) : x.name # y.name
    /\ \A x \in ToSet(s.deny) : x.result = Deny
    /\ \A x \in ToSet(s.permit) : x.result = Permit

(* GoodStore spelled out for citation. *)
LEMMA GoodStoreMeaning ==
    ASSUME NEW s \in PolicyStore
    PROVE  GoodStore(s) <=> UniqueNames(s) /\ Sorted(s)
<1>1. /\ s.deny \in Seq(Entry) /\ s.permit \in Seq(Entry)
      /\ DOMAIN s.deny = 1..Len(s.deny)
      /\ DOMAIN s.permit = 1..Len(s.permit)
  BY LenProperties DEF PolicyStore
<1>2. /\ ToSet(s.deny) = {s.deny[i] : i \in 1..Len(s.deny)}
      /\ ToSet(s.permit) = {s.permit[i] : i \in 1..Len(s.permit)}
  BY <1>1 DEF ToSet
<1>3. (\A x \in ToSet(s.deny), y \in ToSet(s.permit) : x.name # y.name)
        <=> \A i \in 1..Len(s.deny), j \in 1..Len(s.permit) :
               s.deny[i].name # s.permit[j].name
  BY <1>2, Zenon
<1>4. (\A x \in ToSet(s.deny) : x.result = Deny)
        <=> \A i \in 1..Len(s.deny) : s.deny[i].result = Deny
  BY <1>2, Zenon
<1>5. (\A x \in ToSet(s.permit) : x.result = Permit)
        <=> \A i \in 1..Len(s.permit) : s.permit[i].result = Permit
  BY <1>2, Zenon
<1> QED
  BY <1>3, <1>4, <1>5, Zenon DEF GoodStore, UniqueNames, Sorted, Unique

(* removeLocked takes out the entry called name and nothing else. *)
LEMMA RemoveLocked ==
    ASSUME NEW s, GoodStore(s), NEW name
    PROVE  /\ GoodStore(removeLocked(s, name))
           /\ Entries(removeLocked(s, name)) =
                 {e \in Entries(s) : e.name # name}
<1> DEFINE d == indexByName(s.deny, name)
           p == indexByName(s.permit, name)
           t == removeLocked(s, name)
<1>1. s \in PolicyStore /\ s.deny \in Seq(Entry) /\ s.permit \in Seq(Entry)
  BY DEF GoodStore, PolicyStore
<1>2. /\ d \in 0..Len(s.deny) /\ p \in 0..Len(s.permit)
      /\ d > 0 => s.deny[d].name = name
      /\ p > 0 => s.permit[p].name = name
      /\ d = 0 => \A e \in ToSet(s.deny) : e.name # name
      /\ p = 0 => \A e \in ToSet(s.permit) : e.name # name
  <2>1. /\ DOMAIN s.deny = 1..Len(s.deny)
        /\ DOMAIN s.permit = 1..Len(s.permit)
    BY <1>1, LenProperties
  <2> QED
    BY <1>1, <2>1, IndexByName DEF ToSet
<1>3. t = IF d > 0 THEN [s EXCEPT !.deny = RemoveAt(@, d)]
          ELSE IF p > 0 THEN [s EXCEPT !.permit = RemoveAt(@, p)] ELSE s
  BY DEF removeLocked
<1> HIDE DEF d, p, t
<1>4. CASE d > 0
  <2>1. d \in 1..Len(s.deny)
    BY <1>1, <1>2, <1>4, LenProperties
  <2>2. /\ RemoveAt(s.deny, d) \in Seq(Entry) /\ Unique(RemoveAt(s.deny, d))
        /\ ToSet(RemoveAt(s.deny, d)) = {e \in ToSet(s.deny) : e.name # name}
    BY <1>1, <1>2, <1>4, <2>1, BucketRemove DEF GoodStore
  <2>3. /\ t \in PolicyStore
        /\ t.deny = RemoveAt(s.deny, d) /\ t.permit = s.permit
    BY <1>1, <1>3, <1>4, <2>2 DEF PolicyStore
  <2>4. s.deny[d] \in ToSet(s.deny)
    BY <1>1, <2>1, LenProperties DEF ToSet
  <2>5. \A e \in ToSet(s.permit) : e.name # name
    BY <1>2, <1>4, <2>4 DEF GoodStore
  <2> QED
    BY <2>2, <2>3, <2>5 DEF GoodStore, Entries, t
<1>5. CASE ~(d > 0) /\ p > 0
  <2>1. p \in 1..Len(s.permit) /\ d = 0
    BY <1>1, <1>2, <1>5, LenProperties
  <2>2. /\ RemoveAt(s.permit, p) \in Seq(Entry)
        /\ Unique(RemoveAt(s.permit, p))
        /\ ToSet(RemoveAt(s.permit, p)) =
              {e \in ToSet(s.permit) : e.name # name}
    BY <1>1, <1>2, <1>5, <2>1, BucketRemove DEF GoodStore
  <2>3. /\ t \in PolicyStore
        /\ t.permit = RemoveAt(s.permit, p) /\ t.deny = s.deny
    BY <1>1, <1>3, <1>5, <2>2 DEF PolicyStore
  <2> QED
    BY <1>2, <2>1, <2>2, <2>3 DEF GoodStore, Entries, t
<1>6. CASE ~(d > 0) /\ ~(p > 0)
  <2>1. d = 0 /\ p = 0 /\ t = s
    BY <1>1, <1>2, <1>3, <1>6, LenProperties
  <2> QED
    BY <1>2, <2>1 DEF Entries, t
<1> QED
  BY <1>4, <1>5, <1>6

(* replace puts x in, in the bucket of its result, and takes out the entry *)
(* that carried its name; every other entry stays.                         *)
LEMMA ReplaceEntry ==
    ASSUME NEW s, GoodStore(s), NEW x \in Entry
    PROVE  /\ GoodStore(replace(s, x))
           /\ Entries(replace(s, x)) =
                 {e \in Entries(s) : e.name # x.name} \cup {x}
<1> DEFINE d == indexByName(s.deny, x.name)
           p == indexByName(s.permit, x.name)
           r == removeLocked(s, x.name)
           t == replace(s, x)
<1>1. s \in PolicyStore /\ s.deny \in Seq(Entry) /\ s.permit \in Seq(Entry)
  BY DEF GoodStore, PolicyStore
<1>2. x.result \in {Deny, Permit} /\ Deny # Permit
  BY DEF Entry, Results, Deny, Permit
<1>3. /\ d \in 0..Len(s.deny) /\ p \in 0..Len(s.permit)
      /\ d > 0 => s.deny[d].name = x.name
      /\ p > 0 => s.permit[p].name = x.name
  BY <1>1, IndexByName
<1>4. t = IF x.result = Deny /\ d > 0 THEN [s EXCEPT !.deny[d] = x]
          ELSE IF x.result # Deny /\ p > 0 THEN [s EXCEPT !.permit[p] = x]
          ELSE appendLocked(r, x)
  BY DEF replace
<1> HIDE DEF d, p, r, t
<1>5. CASE x.result = Deny /\ d > 0
  <2> DEFINE qs == [s.deny EXCEPT ![d] = x]
  <2>1. d \in 1..Len(s.deny)
    BY <1>1, <1>3, <1>5, LenProperties
  <2>2. /\ qs \in Seq(Entry) /\ Unique(qs)
        /\ ToSet(qs) = {e \in ToSet(s.deny) : e.name # x.name} \cup {x}
    BY <1>1, <1>3, <1>5, <2>1, BucketSwap DEF GoodStore
  <2>3. t \in PolicyStore /\ t.deny = qs /\ t.permit = s.permit
    BY <1>1, <1>4, <1>5, <2>2 DEF PolicyStore
  <2>4. s.deny[d] \in ToSet(s.deny)
    BY <1>1, <2>1, LenProperties DEF ToSet
  <2>5. \A e \in ToSet(s.permit) : e.name # x.name
    BY <1>3, <1>5, <2>4 DEF GoodStore
  <2> QED
    BY <1>5, <2>2, <2>3, <2>5 DEF GoodStore, Entries, t
<1>6. CASE x.result # Deny /\ p > 0
  <2> DEFINE qs == [s.permit EXCEPT ![p] = x]
  <2>1. p \in 1..Len(s.permit)
    BY <1>1, <1>3, <1>6, LenProperties
  <2>2. /\ qs \in Seq(Entry) /\ Unique(qs)
        /\ ToSet(qs) = {e \in ToSet(s.permit) : e.name # x.name} \cup {x}
    BY <1>1, <1>3, <1>6, <2>1, BucketSwap DEF GoodStore
  <2>3. t \in PolicyStore /\ t.permit = qs /\ t.deny = s.deny
    BY <1>1, <1>4, <1>6, <2>2 DEF PolicyStore
  <2>4. s.permit[p] \in ToSet(s.permit)
    BY <1>1, <2>1, LenProperties DEF ToSet
  <2>5. \A e \in ToSet(s.deny) : e.name # x.name
    BY <1>3, <1>6, <2>4 DEF GoodStore
  <2> QED
    BY <1>2, <1>6, <2>2, <2>3, <2>5 DEF GoodStore, Entries, t
<1>7. CASE ~(x.result = Deny /\ d > 0) /\ ~(x.result # Deny /\ p > 0)
  <2>1. /\ GoodStore(r) /\ r \in PolicyStore
        /\ r.deny \in Seq(Entry) /\ r.permit \in Seq(Entry)
        /\ Entries(r) = {e \in Entries(s) : e.name # x.name}
    BY RemoveLocked DEF GoodStore, PolicyStore, r
  <2>2. t = appendLocked(r, x)
    BY <1>4, <1>7
  <2>3. /\ \A e \in ToSet(r.deny) : e.name # x.name
        /\ \A e \in ToSet(r.permit) : e.name # x.name
    BY <2>1 DEF Entries
  <2>4. CASE x.result = Deny
    <3>1. /\ Append(r.deny, x) \in Seq(Entry) /\ Unique(Append(r.deny, x))
          /\ ToSet(Append(r.deny, x)) = ToSet(r.deny) \cup {x}
      BY <2>1, <2>3, BucketAppend DEF GoodStore
    <3>2. t \in PolicyStore /\ t.deny = Append(r.deny, x) /\ t.permit = r.permit
      BY <2>1, <2>2, <2>4, <3>1 DEF appendLocked, PolicyStore
    <3>3. GoodStore(t)
      BY <2>1, <2>3, <2>4, <3>1, <3>2 DEF GoodStore
    <3> QED
      BY <2>1, <3>1, <3>2, <3>3 DEF Entries, t
  <2>5. CASE x.result # Deny
    <3>1. /\ Append(r.permit, x) \in Seq(Entry) /\ Unique(Append(r.permit, x))
          /\ ToSet(Append(r.permit, x)) = ToSet(r.permit) \cup {x}
      BY <2>1, <2>3, BucketAppend DEF GoodStore
    <3>2. t \in PolicyStore /\ t.permit = Append(r.permit, x) /\ t.deny = r.deny
      BY <2>1, <2>2, <2>5, <3>1 DEF appendLocked, PolicyStore
    <3>3. GoodStore(t)
      BY <1>2, <2>1, <2>3, <2>5, <3>1, <3>2 DEF GoodStore
    <3> QED
      BY <2>1, <3>1, <3>2, <3>3 DEF Entries, t
  <2> QED
    BY <2>4, <2>5
<1> QED
  BY <1>5, <1>6, <1>7

(* After replace the name holds exactly the new policy; no other name sees *)
(* a difference.                                                           *)
LEMMA ReplaceServes ==
    ASSUME NEW s, GoodStore(s), NEW name \in Names, NEW q \in Policy
    PROVE  /\ GoodStore(replace(s, EntryOf(name, q)))
           /\ HoldsOnly(replace(s, EntryOf(name, q)), name, q)
           /\ \A m : m # name =>
                 /\ Holds(replace(s, EntryOf(name, q)), m) <=> Holds(s, m)
                 /\ \A r : HoldsOnly(replace(s, EntryOf(name, q)), m, r)
                              <=> HoldsOnly(s, m, r)
<1> DEFINE x == EntryOf(name, q)
<1>1. x \in Entry /\ x.name = name /\ Source(x) = q
  BY DEF EntryOf, Entry, Policy, Source
<1> HIDE DEF x
<1>2. /\ GoodStore(replace(s, x))
      /\ Entries(replace(s, x)) =
            {e \in Entries(s) : e.name # name} \cup {x}
  BY <1>1, ReplaceEntry
<1>3. HoldsOnly(replace(s, x), name, q)
  BY <1>1, <1>2 DEF HoldsOnly, Holds
<1>4. ASSUME NEW m, m # name
      PROVE  /\ Holds(replace(s, x), m) <=> Holds(s, m)
             /\ \A r : HoldsOnly(replace(s, x), m, r) <=> HoldsOnly(s, m, r)
  <2>1. Holds(replace(s, x), m) <=> Holds(s, m)
    BY <1>1, <1>2, <1>4 DEF Holds
  <2> QED
    BY <1>1, <1>2, <1>4, <2>1 DEF HoldsOnly
<1> QED
  BY <1>2, <1>3, <1>4 DEF x

(* After remove nothing carries the name; no other name sees a difference. *)
LEMMA RemoveServes ==
    ASSUME NEW s, GoodStore(s), NEW name
    PROVE  /\ GoodStore(removeLocked(s, name))
           /\ ~Holds(removeLocked(s, name), name)
           /\ \A m : m # name =>
                 /\ Holds(removeLocked(s, name), m) <=> Holds(s, m)
                 /\ \A r : HoldsOnly(removeLocked(s, name), m, r)
                              <=> HoldsOnly(s, m, r)
<1>1. /\ GoodStore(removeLocked(s, name))
      /\ Entries(removeLocked(s, name)) = {e \in Entries(s) : e.name # name}
  BY RemoveLocked
<1>2. ASSUME NEW m, m # name
      PROVE  /\ Holds(removeLocked(s, name), m) <=> Holds(s, m)
             /\ \A r : HoldsOnly(removeLocked(s, name), m, r)
                          <=> HoldsOnly(s, m, r)
  BY <1>1, <1>2 DEF Holds, HoldsOnly
<1> QED
  BY <1>1, <1>2 DEF Holds

(* The fresh store of a newly built runtime. *)
LEMMA NewStore == GoodStore(newPolicyStore) /\ Entries(newPolicyStore) = {}
<1>1. ToSet(<< >>) = {}
  BY DEF ToSet
<1> QED
  BY <1>1 DEF GoodStore, newPolicyStore, PolicyStore, Unique, Entries
=============================================================================
