------------------------ MODULE PolicyServiceProofs ------------------------
(***************************************************************************)
(* The live policy set stays well formed, and memory mirrors disk, for     *)
(* every number of writers, APIs, names and policies.                      *)
(***************************************************************************)
EXTENDS PolicyService, PolicyBucketsProofs

(* The mutex is held exactly by the client inside a call, and only while   *)
(* the server is up; a process that is down has no runtime.                *)
LockInv ==
    /\ phase # "up" => mu = NoClient
    /\ phase = "down" => rt = emptyRuntime
    /\ \A c \in Clients : /\ pc[c] # "idle" <=> mu = c
                          /\ pc[c] = "idle" => work[c] = NoWork

(* What the checks of a call established and its steps rely on. *)
WorkOK(c) ==
    /\ work[c].left # {}
    /\ work[c].left \subseteq 1..Len(work[c].items)
    /\ \A i \in work[c].left :
          IF work[c].op = "delete" THEN work[c].items[i].val = NoPolicy
                                   ELSE work[c].items[i].val \in Policy
    /\ work[c].op = "create" => /\ work[c].left = {1}
                                /\ ~find(work[c].items[1].key)

WorkInv == \A c \in Clients : pc[c] # "idle" => WorkOK(c)

(* The store write that precedes an apply is on disk: the row put, or no   *)
(* row and, unless its file was edited meanwhile, no seed either.          *)
StoredOK(it) ==
    /\ primary[it.key] = it.val
    /\ it.val = NoPolicy /\ it.key \notin edited => seed[it.key] = NoPolicy

StoredInv == \A c \in Clients : pc[c] = "apply" => StoredOK(Current(c))

(* A boot that has replayed rows 1..pos-1 serves, for the key listed i-th  *)
(* in the seed and j-th in sqlite, the latest of its rows replayed.        *)
Replayed(i, j, n) ==
    IF n + j < pos /\ rows[n + j].val # NoPolicy THEN rows[n + j].val
    ELSE IF i < pos THEN rows[i].val
    ELSE NoPolicy

(* The rows a boot replays are the two layers it listed. *)
LoadInv ==
    phase = "loading" =>
        \E o \in SeedOrders :
            /\ Len(rows) = Len(o) + Len(KeyOrder)
            /\ \A i \in 1..Len(o) :
                  /\ rows[i].key = o[i]
                  /\ o[i] \notin edited => rows[i].val = seed[o[i]]
            /\ \A j \in 1..Len(KeyOrder) :
                  /\ rows[Len(o) + j].key = KeyOrder[j]
                  /\ rows[Len(o) + j].val = primary[KeyOrder[j]]
            /\ \A i \in 1..Len(o), j \in 1..Len(KeyOrder) :
                  o[i] = KeyOrder[j] => Serves(o[i], Replayed(i, j, Len(o)))

IInv ==
    /\ TypeOK
    /\ OneEntryPerName
    /\ LockInv
    /\ WorkInv
    /\ AppliedCompiles
    /\ StoredInv
    /\ LoadInv
    /\ MemoryMirrorsDisk

-----------------------------------------------------------------------------
GoodRuntime(r) == r \in [APIs -> PolicyStore] /\ \A a \in APIs : GoodStore(r[a])

(* OneEntryPerName is the store invariant of every API. *)
LEMMA GoodRuntimeMeaning ==
    ASSUME NEW r \in [APIs -> PolicyStore]
    PROVE  GoodRuntime(r) <=> \A a \in APIs : UniqueNames(r[a]) /\ Sorted(r[a])
BY GoodStoreMeaning DEF GoodRuntime

(* runtime.ReplacePolicy serves the new policy under its key, and changes  *)
(* nothing under any other key.                                            *)
LEMMA RegisteredServes ==
    ASSUME GoodRuntime(rt), NEW it \in Item, it.val \in Policy
    PROVE  /\ GoodRuntime(Registered(it))
           /\ ServedBy(Registered(it), it.key, it.val)
           /\ \A row : \A k \in Keys : k # it.key =>
                 (ServedBy(Registered(it), k, row) <=> ServedBy(rt, k, row))
<1> DEFINE a == it.key[1]
           n == it.key[2]
           t == replace(rt[a], EntryOf(n, it.val))
<1>1. a \in APIs /\ n \in Names /\ it.key = <<a, n>>
  BY DEF Item, Keys
<1>2. GoodStore(rt[a])
  BY <1>1 DEF GoodRuntime
<1>3. /\ GoodStore(t)
      /\ HoldsOnly(t, n, it.val)
      /\ \A m : m # n => /\ Holds(t, m) <=> Holds(rt[a], m)
                         /\ \A r : HoldsOnly(t, m, r) <=> HoldsOnly(rt[a], m, r)
  BY <1>1, <1>2, ReplaceServes
<1>4. Registered(it) = [rt EXCEPT ![a] = t]
  BY DEF Registered
<1>5. it.val # NoPolicy
  BY ConstantAssumption
<1>6. t \in PolicyStore
  BY <1>3 DEF GoodStore
<1> HIDE DEF t
<1>7. GoodRuntime(Registered(it))
  BY <1>1, <1>3, <1>4, <1>6 DEF GoodRuntime
<1>8. Registered(it)[a] = t
  BY <1>1, <1>4 DEF GoodRuntime
<1>9. ServedBy(Registered(it), it.key, it.val)
  BY <1>3, <1>5, <1>8 DEF ServedBy
<1>10. ASSUME NEW k \in Keys, NEW row, k # it.key
       PROVE  ServedBy(Registered(it), k, row) <=> ServedBy(rt, k, row)
  <2>1. k = <<k[1], k[2]>> /\ k[1] \in APIs
    BY DEF Keys
  <2>2. CASE k[1] = a
    <3>1. k[2] # n
      BY <1>1, <1>10, <2>1, <2>2
    <3> QED
      BY <1>3, <1>8, <2>2, <3>1 DEF ServedBy
  <2>3. CASE k[1] # a
    <3>1. Registered(it)[k[1]] = rt[k[1]]
      BY <1>1, <1>4, <2>1, <2>3 DEF GoodRuntime
    <3> QED
      BY <3>1 DEF ServedBy
  <2> QED
    BY <2>2, <2>3
<1> QED
  BY <1>7, <1>9, <1>10

(* runtime.RemovePolicy leaves nothing under the key, and changes nothing  *)
(* under any other.                                                        *)
LEMMA UnregisteredServes ==
    ASSUME GoodRuntime(rt), NEW key \in Keys
    PROVE  /\ GoodRuntime(Unregistered(key))
           /\ ServedBy(Unregistered(key), key, NoPolicy)
           /\ \A row : \A k \in Keys : k # key =>
                 (ServedBy(Unregistered(key), k, row) <=> ServedBy(rt, k, row))
<1> DEFINE a == key[1]
           n == key[2]
           t == removeLocked(rt[a], n)
<1>1. a \in APIs /\ n \in Names /\ key = <<a, n>>
  BY DEF Keys
<1>2. GoodStore(rt[a])
  BY <1>1 DEF GoodRuntime
<1>3. /\ GoodStore(t)
      /\ ~Holds(t, n)
      /\ \A m : m # n => /\ Holds(t, m) <=> Holds(rt[a], m)
                         /\ \A r : HoldsOnly(t, m, r) <=> HoldsOnly(rt[a], m, r)
  BY <1>2, RemoveServes
<1>4. Unregistered(key) = [rt EXCEPT ![a] = t]
  BY DEF Unregistered
<1>5. t \in PolicyStore
  BY <1>3 DEF GoodStore
<1> HIDE DEF t
<1>6. GoodRuntime(Unregistered(key))
  BY <1>1, <1>3, <1>4, <1>5 DEF GoodRuntime
<1>7. Unregistered(key)[a] = t
  BY <1>1, <1>4 DEF GoodRuntime
<1>8. ServedBy(Unregistered(key), key, NoPolicy)
  BY <1>3, <1>7 DEF ServedBy
<1>9. ASSUME NEW k \in Keys, NEW row, k # key
      PROVE  ServedBy(Unregistered(key), k, row) <=> ServedBy(rt, k, row)
  <2>1. k = <<k[1], k[2]>> /\ k[1] \in APIs
    BY DEF Keys
  <2>2. CASE k[1] = a
    <3>1. k[2] # n
      BY <1>1, <1>9, <2>1, <2>2
    <3> QED
      BY <1>3, <1>7, <2>2, <3>1 DEF ServedBy
  <2>3. CASE k[1] # a
    <3>1. Unregistered(key)[k[1]] = rt[k[1]]
      BY <1>1, <1>4, <2>1, <2>3 DEF GoodRuntime
    <3> QED
      BY <3>1 DEF ServedBy
  <2> QED
    BY <2>2, <2>3
<1> QED
  BY <1>6, <1>8, <1>9

(* The work of a client that is in no call. *)
LEMMA NoWorkType ==
    /\ NoWork \in [op : Ops, items : Seq(Item), left : SUBSET Nat]
    /\ NoWork.left = {}
<1>1. << >> \in Seq(Item) /\ {} \in SUBSET Nat
  OBVIOUS
<1>2. "delete" \in Ops
  BY DEF Ops
<1> QED
  BY <1>1, <1>2 DEF NoWork

(* A fresh runtime is well formed and serves nothing. *)
LEMMA EmptyRuntime ==
    /\ GoodRuntime(emptyRuntime)
    /\ \A k \in Keys : ServedBy(emptyRuntime, k, NoPolicy)
<1>1. GoodStore(newPolicyStore) /\ Entries(newPolicyStore) = {}
  BY NewStore
<1>2. newPolicyStore \in PolicyStore
  BY <1>1 DEF GoodStore
<1>3. GoodRuntime(emptyRuntime)
  BY <1>1, <1>2 DEF GoodRuntime, emptyRuntime
<1>4. ASSUME NEW k \in Keys PROVE ServedBy(emptyRuntime, k, NoPolicy)
  BY <1>1 DEF ServedBy, emptyRuntime, Keys, Holds
<1> QED
  BY <1>3, <1>4

-----------------------------------------------------------------------------
(* A server that has never run satisfies the invariant. *)
LEMMA InitInv == Init => IInv
<1> SUFFICES ASSUME Init PROVE IInv
  OBVIOUS
<1> USE DEF Init
<1>1. GoodRuntime(rt)
  BY EmptyRuntime
<1>2. TypeOK
  <2>1. rt \in [APIs -> PolicyStore]
    BY <1>1 DEF GoodRuntime
  <2>2. compiles \subseteq Keys \X Policy
    BY ConstantAssumption
  <2>3. NoWork \in [op : Ops, items : Seq(Item), left : SUBSET Nat]
    BY NoWorkType
  <2>4. primary \in [Keys -> Row] /\ seed \in [Keys -> Row]
    BY DEF Row
  <2>5. /\ pc \in [Clients -> {"idle", "persist", "apply"}]
        /\ reply \in [Clients -> Replies]
        /\ work \in [Clients -> [op : Ops, items : Seq(Item), left : SUBSET Nat]]
    BY <2>3 DEF Replies
  <2>6. readOnly \in BOOLEAN
    BY Zenon
  <2>7. /\ edited \subseteq Keys /\ phase \in {"down", "loading", "up"}
        /\ rows \in Seq(Item) /\ pos \in Nat \ {0}
        /\ mu \in Clients \cup {NoClient}
    OBVIOUS
  <2> HIDE DEF Init
  <2> QED
    BY <2>1, <2>2, <2>4, <2>5, <2>6, <2>7 DEF TypeOK
<1>3. OneEntryPerName
  BY <1>1, <1>2, GoodRuntimeMeaning DEF TypeOK, OneEntryPerName
<1>4. LockInv /\ WorkInv /\ StoredInv /\ LoadInv /\ MemoryMirrorsDisk
  BY ConstantAssumption
  DEF LockInv, WorkInv, StoredInv, LoadInv, MemoryMirrorsDisk
<1>5. AppliedCompiles
  BY DEF AppliedCompiles, NoWork
<1> QED
  BY <1>2, <1>3, <1>4, <1>5 DEF IInv

(* A call that passed its checks has established what its steps rely on. *)
LEMMA EnterInv ==
    ASSUME IInv,
           NEW c \in Clients, NEW err \in Replies, NEW op \in Ops,
           NEW items \in Seq(Item), NEW left \in SUBSET Nat,
           Enter(c, err, op, items, left),
           err = "none" =>
               /\ left # {} /\ left \subseteq 1..Len(items)
               /\ \A i \in left : /\ op = "delete" => items[i].val = NoPolicy
                                  /\ op # "delete" => items[i].val \in Policy
                                  /\ op # "delete" => Validate(items[i])
               /\ op = "create" => left = {1} /\ ~find(items[1].key)
    PROVE  IInv'
<1> DEFINE w == [op |-> op, items |-> items, left |-> left]
<1>0. w \in [op : Ops, items : Seq(Item), left : SUBSET Nat]
  OBVIOUS
<1>f. /\ UNCHANGED <<primary, seed, edited, compiles, phase, readOnly, rows, pos, rt>>
      /\ phase = "up" /\ mu = NoClient /\ pc[c] = "idle"
      /\ \/ /\ err # "none" /\ UNCHANGED <<mu, pc, work>>
            /\ reply' = [reply EXCEPT ![c] = err]
         \/ /\ err = "none" /\ mu' = c
            /\ pc' = [pc EXCEPT ![c] = "persist"]
            /\ work' = [work EXCEPT ![c] = w]
            /\ reply' = [reply EXCEPT ![c] = "none"]
  BY DEF Enter, disk, boot
<1>1. TypeOK'
  <2>1. TypeOK
    BY DEF IInv
  <2> HIDE DEF w
  <2>2. work' \in [Clients -> [op : Ops, items : Seq(Item), left : SUBSET Nat]]
    BY <1>0, <1>f, <2>1 DEF TypeOK
  <2>4. /\ pc' \in [Clients -> {"idle", "persist", "apply"}]
        /\ mu' \in Clients \cup {NoClient}
    BY <1>f, <2>1 DEF TypeOK
  <2>3. reply' \in [Clients -> Replies]
    BY <1>f, <2>1 DEF TypeOK, Replies
  <2> QED
    BY <1>f, <2>1, <2>2, <2>3, <2>4 DEF TypeOK
<1> HIDE DEF w
<1>2. OneEntryPerName'
  BY <1>f DEF OneEntryPerName, IInv
<1>a. \A d \in Clients : pc[d] = "idle" /\ work[d] = NoWork
  BY <1>f, ConstantAssumption DEF LockInv, IInv
<1>b. \A d \in Clients : pc'[d] # "apply"
  BY <1>a, <1>f DEF TypeOK, IInv
<1>c. CASE err # "none"
  <2>1. UNCHANGED <<primary, seed, edited, compiles, phase, readOnly, rows,
                    pos, rt, mu, pc, work>>
    BY <1>c, <1>f
  <2>2. LockInv' /\ WorkInv' /\ AppliedCompiles' /\ StoredInv'
    BY <2>1 DEF LockInv, WorkInv, WorkOK, AppliedCompiles, Validate,
                StoredInv, StoredOK, Current, find, IInv
  <2>3. LoadInv'
    BY <1>f DEF LoadInv
  <2>4. MemoryMirrorsDisk'
    BY <2>1 DEF MemoryMirrorsDisk, Applying, Current, Serves, Effective,
                IInv
  <2> QED
    BY <1>1, <1>2, <2>2, <2>3, <2>4 DEF IInv
<1>d. CASE err = "none"
  <2>1. /\ mu' = c /\ phase' = "up"
        /\ pc'[c] = "persist" /\ work'[c] = w
        /\ \A d \in Clients \ {c} : pc'[d] = "idle" /\ work'[d] = NoWork
    BY <1>a, <1>d, <1>f DEF TypeOK, IInv
  <2>2. LockInv'
    BY <2>1 DEF LockInv
  <2>3. WorkInv'
    <3> SUFFICES ASSUME NEW d \in Clients, pc'[d] # "idle"
                 PROVE  WorkOK(d)'
      BY DEF WorkInv
    <3>1. d = c
      BY <2>1
    <3>2. w.left = left /\ w.items = items /\ w.op = op
      BY DEF w
    <3>3. op = "create" => ~find(items[1].key)'
      BY <1>d, <1>f DEF find
    <3> QED
      BY <1>d, <2>1, <3>1, <3>2, <3>3 DEF WorkOK, find
  <2>4. AppliedCompiles'
    <3> SUFFICES ASSUME NEW d \in Clients, NEW i \in work'[d].left,
                        work'[d].items[i].val # NoPolicy
                 PROVE  Validate(work[d].items[i])'
      BY DEF AppliedCompiles
    <3>1. d = c
      BY <2>1 DEF NoWork
    <3>2. i \in left /\ work'[d].items = items /\ work'[d].op = op
      BY <2>1, <3>1 DEF w
    <3>3. Validate(items[i])
      BY <1>d, <3>2
    <3> QED
      BY <1>f, <3>2, <3>3 DEF Validate
  <2>5. StoredInv'
    BY <1>b DEF StoredInv
  <2>6. LoadInv'
    BY <2>1 DEF LoadInv
  <2>7. MemoryMirrorsDisk'
    <3>1. \A k : ~Applying(k)
      BY <1>a DEF Applying
    <3> QED
      BY <1>f, <3>1 DEF MemoryMirrorsDisk, Serves, Effective, IInv
  <2> QED
    BY <1>1, <1>2, <2>2, <2>3, <2>4, <2>5, <2>6, <2>7 DEF IInv
<1> QED
  BY <1>c, <1>d

(* Create, Replace, Delete and Import enter only with checked work. *)
LEMMA RequestInv ==
    ASSUME IInv, NEW c \in Clients, Request(c)
    PROVE  IInv'
<1>1. ASSUME NEW k \in Keys, NEW p \in Policy, Create(c, k, p)
      PROVE  IInv'
  <2> DEFINE it == [key |-> k, val |-> p]
             err == CASE readOnly -> "readonly"
                      [] ~readOnly /\ ~Validate(it) -> "invalid"
                      [] ~readOnly /\ Validate(it) /\ find(k) -> "conflict"
                      [] OTHER -> "none"
  <2>1. it \in Item /\ it.val = p /\ it.key = k
    BY DEF Item, Row
  <2>2. Enter(c, err, "create", <<it>>, {1})
    BY <1>1 DEF Create
  <2>3. /\ err \in {"readonly", "invalid", "conflict", "none"}
        /\ err = "none" => Validate(it) /\ ~find(k)
    OBVIOUS
  <2> HIDE DEF it, err
  <2>4. /\ <<it>> \in Seq(Item) /\ Len(<<it>>) = 1 /\ <<it>>[1] = it
        /\ "create" \in Ops /\ err \in Replies /\ {1} \in SUBSET Nat
        /\ {1} \subseteq 1..1
    BY <2>1, <2>3 DEF Ops, Replies
  <2> QED
    BY <2>1, <2>2, <2>3, <2>4, EnterInv
<1>2. ASSUME NEW path \in Keys, NEW k \in Keys, NEW p \in Policy,
             Replace(c, path, k, p)
      PROVE  IInv'
  <2> DEFINE it == [key |-> k, val |-> p]
             err == CASE readOnly -> "readonly"
                      [] ~readOnly /\ path # k -> "apipath"
                      [] ~readOnly /\ path = k /\ ~Validate(it) -> "invalid"
                      [] OTHER -> "none"
  <2>1. it \in Item /\ it.val = p
    BY DEF Item, Row
  <2>2. Enter(c, err, "replace", <<it>>, {1})
    BY <1>2 DEF Replace
  <2>3. /\ err \in {"readonly", "apipath", "invalid", "none"}
        /\ err = "none" => Validate(it)
    OBVIOUS
  <2> HIDE DEF it, err
  <2>4. /\ <<it>> \in Seq(Item) /\ Len(<<it>>) = 1 /\ <<it>>[1] = it
        /\ "replace" \in Ops /\ err \in Replies /\ {1} \in SUBSET Nat
        /\ {1} \subseteq 1..1
    BY <2>1, <2>3 DEF Ops, Replies
  <2> QED
    BY <2>1, <2>2, <2>3, <2>4, EnterInv
<1>3. ASSUME NEW k \in Keys, Delete(c, k)
      PROVE  IInv'
  <2> DEFINE it == [key |-> k, val |-> NoPolicy]
             err == CASE readOnly -> "readonly"
                      [] ~readOnly /\ ~find(k) -> "notfound"
                      [] OTHER -> "none"
  <2>1. it \in Item /\ it.val = NoPolicy
    BY DEF Item, Row
  <2>2. Enter(c, err, "delete", <<it>>, {1})
    BY <1>3 DEF Delete
  <2>3. err \in {"readonly", "notfound", "none"}
    OBVIOUS
  <2> HIDE DEF it, err
  <2>4. /\ <<it>> \in Seq(Item) /\ Len(<<it>>) = 1 /\ <<it>>[1] = it
        /\ "delete" \in Ops /\ err \in Replies /\ {1} \in SUBSET Nat
        /\ {1} \subseteq 1..1
    BY <2>1, <2>3 DEF Ops, Replies
  <2> QED
    BY <2>1, <2>2, <2>4, EnterInv
<1>4. ASSUME NEW b \in Batches, NEW dryRun \in BOOLEAN, Import(c, b, dryRun)
      PROVE  IInv'
  <2> DEFINE keep == Deduped(b)
             err == CASE readOnly -> "readonly"
                      [] ~readOnly /\ (\E i \in keep : ~Validate(b[i])) ->
                            "invalid"
                      [] ~readOnly /\ (\A i \in keep : Validate(b[i]))
                                   /\ (dryRun \/ keep = {}) -> "ok"
                      [] OTHER -> "none"
  <2>1. b \in Seq([key : Keys, val : Policy])
    BY ConstantAssumption
  <2>2. /\ b \in Seq(Item) /\ Len(b) \in Nat
        /\ \A i \in 1..Len(b) : b[i].val \in Policy
    <3> DEFINE T == [key : Keys, val : Policy]
    <3>1. \A x \in T : x \in Item /\ x.val \in Policy
      BY DEF Item, Row
    <3> HIDE DEF T
    <3>2. Len(b) \in Nat /\ \A i \in 1..Len(b) : b[i] \in T
      BY <2>1, LenProperties, ElementOfSeq DEF T
    <3>3. b \in Seq(Item)
      BY <2>1, <3>1, SeqMonotonic DEF T
    <3> QED
      BY <3>1, <3>2, <3>3
  <2>3. Enter(c, err, "import", b, keep)
    BY <1>4 DEF Import
  <2>4. keep \subseteq 1..Len(b)
    BY DEF Deduped
  <2> HIDE DEF keep
  <2>5. /\ err \in {"readonly", "invalid", "ok", "none"}
        /\ err = "none" => keep # {} /\ \A i \in keep : Validate(b[i])
    OBVIOUS
  <2> HIDE DEF err
  <2>6. "import" \in Ops /\ err \in Replies /\ keep \in SUBSET Nat
    BY <2>2, <2>4, <2>5 DEF Ops, Replies
  <2> QED
    BY <2>2, <2>3, <2>4, <2>5, <2>6, EnterInv
<1> QED
  BY <1>1, <1>2, <1>3, <1>4 DEF Request

(* What holds of the one client inside a call, and of all the others. *)
LEMMA Holder ==
    ASSUME IInv, NEW c \in Clients, pc[c] # "idle"
    PROVE  /\ phase = "up" /\ mu = c /\ c # NoClient
           /\ \A d \in Clients \ {c} : pc[d] = "idle" /\ work[d] = NoWork
           /\ WorkOK(c)
           /\ Min(work[c].left) \in work[c].left
           /\ Current(c) \in Item
           /\ Current(c).val # NoPolicy => Current(c).val \in Policy
           /\ \A k : Applying(k) <=> pc[c] = "apply" /\ k = Current(c).key
<1>1. /\ mu = c /\ c # NoClient /\ phase = "up"
      /\ \A d \in Clients \ {c} : pc[d] = "idle" /\ work[d] = NoWork
  BY ConstantAssumption DEF IInv, LockInv
<1>2. WorkOK(c)
  BY DEF IInv, WorkInv
<1>3. work[c].left \in SUBSET Nat /\ work[c].items \in Seq(Item)
  BY DEF IInv, TypeOK
<1>4. Min(work[c].left) \in work[c].left
  BY <1>2, <1>3, MinOfNaturals DEF WorkOK
<1>5. Current(c) \in Item
  BY <1>2, <1>3, <1>4, ElementOfSeq DEF WorkOK, Current
<1>6. Current(c).val # NoPolicy => Current(c).val \in Policy
  BY <1>2, <1>4 DEF WorkOK, Current
<1>7. \A k : Applying(k) <=> pc[c] = "apply" /\ k = Current(c).key
  BY <1>1 DEF Applying
<1> QED
  BY <1>1, <1>2, <1>4, <1>5, <1>6, <1>7

(* A call that returns leaves the mutex free and nobody at work; what it   *)
(* did to the runtime is for the caller to say.                            *)
LEMMA ReturnInv ==
    ASSUME IInv, NEW c \in Clients, pc[c] # "idle",
           NEW r \in Replies, Return(c, r), UNCHANGED <<disk, boot>>,
           GoodRuntime(rt'), MemoryMirrorsDisk'
    PROVE  IInv'
<1>1. /\ UNCHANGED <<primary, seed, edited, compiles, phase, readOnly, rows, pos>>
      /\ mu' = NoClient /\ pc' = [pc EXCEPT ![c] = "idle"]
      /\ work' = [work EXCEPT ![c] = NoWork] /\ reply' = [reply EXCEPT ![c] = r]
  BY DEF disk, boot, Return
<1>2. TypeOK
  BY DEF IInv
<1>3. TypeOK'
  <2>1. NoWork \in [op : Ops, items : Seq(Item), left : SUBSET Nat]
    BY NoWorkType
  <2>2. work' \in [Clients -> [op : Ops, items : Seq(Item), left : SUBSET Nat]]
    BY <1>1, <1>2, <2>1 DEF TypeOK
  <2>3. /\ pc' \in [Clients -> {"idle", "persist", "apply"}]
        /\ mu' \in Clients \cup {NoClient} /\ reply' \in [Clients -> Replies]
    BY <1>1, <1>2 DEF TypeOK
  <2>4. rt' \in [APIs -> PolicyStore]
    BY DEF GoodRuntime
  <2> QED
    BY <1>1, <1>2, <2>2, <2>3, <2>4 DEF TypeOK
<1>4. OneEntryPerName'
  BY <1>3, GoodRuntimeMeaning DEF TypeOK, OneEntryPerName
<1>5. phase = "up" /\ c # NoClient
  BY Holder
<1>6. \A d \in Clients : pc'[d] = "idle" /\ work'[d] = NoWork
  BY <1>1, <1>2, Holder DEF TypeOK
<1>7. LockInv' /\ WorkInv' /\ StoredInv' /\ LoadInv'
  BY <1>1, <1>5, <1>6, ConstantAssumption DEF LockInv, WorkInv, StoredInv, LoadInv
<1>8. AppliedCompiles'
  BY <1>6 DEF AppliedCompiles, NoWork
<1> QED
  BY <1>3, <1>4, <1>7, <1>8 DEF IInv

(* A store write that took effect is followed by its apply. *)
LEMMA PersistedInv ==
    ASSUME IInv, NEW c \in Clients, pc[c] = "persist",
           primary' = [primary EXCEPT ![Current(c).key] = Current(c).val],
           Current(c).val = NoPolicy => seed[Current(c).key] = NoPolicy,
           pc' = [pc EXCEPT ![c] = "apply"],
           UNCHANGED <<seed, edited, compiles, boot, rt, mu, work, reply>>
    PROVE  IInv'
<1>1. UNCHANGED <<seed, edited, compiles, phase, readOnly, rows, pos, rt, mu,
                  work, reply>>
  BY DEF boot
<1>2. TypeOK
  BY DEF IInv
<1>3. /\ phase = "up" /\ mu = c
      /\ \A d \in Clients \ {c} : pc[d] = "idle" /\ work[d] = NoWork
      /\ WorkOK(c) /\ Current(c) \in Item
      /\ \A k : ~Applying(k)
  BY Holder
<1>4. TypeOK'
  <2>1. Current(c).key \in Keys /\ Current(c).val \in Row
    BY <1>3 DEF Item
  <2>2. primary' \in [Keys -> Row]
    BY <1>2, <2>1 DEF TypeOK
  <2>3. pc' \in [Clients -> {"idle", "persist", "apply"}]
    BY <1>2 DEF TypeOK
  <2> QED
    BY <1>1, <1>2, <2>2, <2>3 DEF TypeOK
<1>5. OneEntryPerName'
  BY <1>1 DEF OneEntryPerName, IInv
<1>6. pc'[c] = "apply" /\ \A d \in Clients \ {c} : pc'[d] = "idle"
  BY <1>2, <1>3 DEF TypeOK
<1>7. LockInv'
  BY <1>1, <1>3, <1>6 DEF LockInv, IInv
<1>8. WorkInv'
  BY <1>1, <1>3, <1>6 DEF WorkInv, WorkOK, find
<1>9. AppliedCompiles'
  BY <1>1 DEF AppliedCompiles, Validate, IInv
<1>10. Current(c)' = Current(c)
  BY <1>1 DEF Current
<1>11. primary'[Current(c).key] = Current(c).val
  BY <1>2, <1>3 DEF TypeOK, Item
<1>12. StoredInv'
  BY <1>1, <1>6, <1>10, <1>11 DEF StoredInv, StoredOK
<1>13. LoadInv'
  BY <1>1, <1>3 DEF LoadInv
<1>14. MemoryMirrorsDisk'
  <2> SUFFICES ASSUME NEW k \in Keys, ~Applying(k)'
               PROVE  /\ primary'[k] # NoPolicy => Serves(k, primary[k])'
                      /\ k \notin edited' => Serves(k, Effective(k))'
    BY DEF MemoryMirrorsDisk
  <2>1. k # Current(c).key
    BY <1>6, <1>10 DEF Applying
  <2>2. primary'[k] = primary[k]
    BY <1>2, <2>1 DEF TypeOK
  <2>3. /\ primary[k] # NoPolicy => Serves(k, primary[k])
        /\ k \notin edited => Serves(k, Effective(k))
    BY <1>3 DEF IInv, MemoryMirrorsDisk
  <2> QED
    BY <1>1, <2>2, <2>3 DEF Serves, Effective
<1> QED
  BY <1>4, <1>5, <1>7, <1>8, <1>9, <1>12, <1>13, <1>14 DEF IInv

(* The apply of a persisted item makes memory mirror disk again at its key *)
(* and disturbs no other.                                                  *)
LEMMA ApplyInv ==
    ASSUME IInv, NEW c \in Clients, Apply(c)
    PROVE  IInv'
<1> DEFINE it == Current(c)
           rest == work[c].left \ {Min(work[c].left)}
<1>1. /\ pc[c] = "apply"
      /\ UNCHANGED <<primary, seed, edited, compiles, phase, readOnly, rows, pos>>
      /\ UNCHANGED <<disk, boot>>
      /\ rt' = IF it.val = NoPolicy THEN Unregistered(it.key) ELSE Registered(it)
      /\ \/ rest = {} /\ Return(c, "ok")
         \/ /\ rest # {}
            /\ pc' = [pc EXCEPT ![c] = "persist"]
            /\ work' = [work EXCEPT ![c].left = rest]
            /\ UNCHANGED <<mu, reply>>
  BY DEF Apply, disk, boot
<1>2. TypeOK
  BY DEF IInv
<1>3. /\ phase = "up" /\ mu = c /\ c # NoClient
      /\ \A d \in Clients \ {c} : pc[d] = "idle" /\ work[d] = NoWork
      /\ WorkOK(c) /\ it \in Item
      /\ it.val # NoPolicy => it.val \in Policy
      /\ \A k : Applying(k) <=> k = it.key
  BY <1>1, Holder
<1>4. StoredOK(it)
  BY <1>1 DEF IInv, StoredInv
<1> HIDE DEF it
<1>5. GoodRuntime(rt)
  BY <1>2, GoodRuntimeMeaning DEF TypeOK, OneEntryPerName, IInv
<1>6. /\ GoodRuntime(rt')
      /\ ServedBy(rt', it.key, it.val)
      /\ \A row : \A k \in Keys : k # it.key =>
            (ServedBy(rt', k, row) <=> ServedBy(rt, k, row))
  <2>1. it.key \in Keys
    BY <1>3 DEF Item
  <2>2. CASE it.val = NoPolicy
    BY <1>1, <1>5, <2>1, <2>2, UnregisteredServes
  <2>3. CASE it.val # NoPolicy
    BY <1>1, <1>3, <1>5, <2>3, RegisteredServes
  <2> QED
    BY <2>2, <2>3
<1>7. ASSUME NEW k \in Keys
      PROVE  /\ primary[k] # NoPolicy => ServedBy(rt', k, primary[k])
             /\ k \notin edited => ServedBy(rt', k, Effective(k))
  <2>1. CASE k = it.key
    <3>1. primary[k] = it.val
      BY <1>4, <2>1 DEF StoredOK
    <3>2. k \notin edited => Effective(k) = it.val
      BY <1>4, <2>1 DEF StoredOK, Effective
    <3> QED
      BY <1>6, <2>1, <3>1, <3>2
  <2>2. CASE k # it.key
    <3>1. /\ primary[k] # NoPolicy => ServedBy(rt, k, primary[k])
          /\ k \notin edited => ServedBy(rt, k, Effective(k))
      BY <1>3, <2>2 DEF IInv, MemoryMirrorsDisk, Serves
    <3> QED
      BY <1>6, <2>2, <3>1
  <2> QED
    BY <2>1, <2>2
<1>8. MemoryMirrorsDisk'
  BY <1>1, <1>7 DEF MemoryMirrorsDisk, Serves, Effective
<1>9. CASE rest = {}
  BY <1>1, <1>6, <1>8, <1>9, ReturnInv DEF Replies
<1>10. CASE rest # {}
  <2> DEFINE w == [work[c] EXCEPT !.left = rest]
  <2>1. /\ pc' = [pc EXCEPT ![c] = "persist"]
        /\ work' = [work EXCEPT ![c] = w]
        /\ UNCHANGED <<mu, reply>>
    BY <1>1, <1>10
  <2>2. /\ w \in [op : Ops, items : Seq(Item), left : SUBSET Nat]
        /\ w.op = work[c].op /\ w.items = work[c].items /\ w.left = rest
    BY <1>2 DEF TypeOK
  <2> HIDE DEF w
  <2>3. TypeOK'
    <3>1. work' \in [Clients -> [op : Ops, items : Seq(Item), left : SUBSET Nat]]
      BY <1>2, <2>1, <2>2 DEF TypeOK
    <3>2. pc' \in [Clients -> {"idle", "persist", "apply"}]
      BY <1>2, <2>1 DEF TypeOK
    <3>3. rt' \in [APIs -> PolicyStore]
      BY <1>6 DEF GoodRuntime
    <3> QED
      BY <1>1, <1>2, <2>1, <3>1, <3>2, <3>3 DEF TypeOK
  <2>4. OneEntryPerName'
    BY <1>6, <2>3, GoodRuntimeMeaning DEF TypeOK, OneEntryPerName
  <2>5. /\ pc'[c] = "persist" /\ work'[c] = w
        /\ \A d \in Clients \ {c} : pc'[d] = "idle" /\ work'[d] = NoWork
    BY <1>2, <1>3, <2>1 DEF TypeOK
  <2>6. LockInv'
    BY <1>1, <1>3, <2>1, <2>5 DEF LockInv
  <2>7. rest \subseteq work[c].left
    OBVIOUS
  <2>8. work[c].op # "create"
    <3>1. ASSUME work[c].left = {1} PROVE FALSE
      <4>1. Min(work[c].left) \in work[c].left
        BY <1>1, Holder
      <4> QED
        BY <1>10, <3>1, <4>1
    <3> QED
      BY <1>3, <3>1 DEF WorkOK
  <2> HIDE DEF rest
  <2>9. WorkInv'
    <3>1. WorkOK(c)'
      BY <1>3, <1>10, <2>2, <2>5, <2>7, <2>8 DEF WorkOK
    <3> QED
      BY <2>5, <3>1 DEF WorkInv
  <2>10. AppliedCompiles'
    <3>1. \A i \in rest : work[c].items[i].val # NoPolicy =>
             <<work[c].items[i].key, work[c].items[i].val>> \in compiles
      BY <2>7 DEF IInv, AppliedCompiles, Validate
    <3>2. \A d \in Clients \ {c} : work'[d].left = {}
      BY <2>5 DEF NoWork
    <3> QED
      BY <1>1, <2>2, <2>5, <3>1, <3>2 DEF AppliedCompiles, Validate
  <2>11. StoredInv' /\ LoadInv'
    BY <1>1, <1>3, <2>5 DEF StoredInv, LoadInv
  <2> QED
    BY <1>8, <2>3, <2>4, <2>6, <2>9, <2>10, <2>11 DEF IInv
<1> QED
  BY <1>9, <1>10

(* A client's step inside its call. *)
LEMMA StepInv ==
    ASSUME IInv, NEW c \in Clients, Step(c)
    PROVE  IInv'
<1>1. GoodRuntime(rt)
  BY GoodRuntimeMeaning DEF TypeOK, OneEntryPerName, IInv
<1>2. ASSUME pc[c] = "persist", UNCHANGED <<disk, boot, rt>>,
             NEW r \in Replies, Return(c, r)
      PROVE  IInv'
  <2>1. \A k : ~Applying(k)
    BY <1>2, Holder
  <2>2. MemoryMirrorsDisk'
    BY <1>2, <2>1 DEF IInv, MemoryMirrorsDisk, Serves, Effective, disk, boot
  <2>3. GoodRuntime(rt')
    BY <1>1, <1>2
  <2> QED
    BY <1>2, <2>2, <2>3, ReturnInv
<1>3. CASE PersistFails(c)
  BY <1>2, <1>3 DEF PersistFails, Replies
<1>4. CASE StorePut(c)
  BY <1>4, PersistedInv DEF StorePut
<1>5. CASE StoreDelete(c)
  <2>1. CASE pc'[c] = "apply"
    <3>1. /\ pc[c] = "persist" /\ Current(c).val = NoPolicy
          /\ seed[Current(c).key] = NoPolicy
          /\ primary' = [primary EXCEPT ![Current(c).key] = NoPolicy]
          /\ pc' = [pc EXCEPT ![c] = "apply"]
          /\ UNCHANGED <<seed, edited, compiles, boot, rt, mu, work, reply>>
      BY <1>5, <2>1 DEF StoreDelete, Return, IInv, TypeOK
    <3> QED
      BY <3>1, PersistedInv
  <2>2. CASE pc'[c] # "apply"
    <3>1. /\ pc[c] = "persist" /\ UNCHANGED <<disk, boot, rt>>
          /\ Return(c, "readonly") \/ Return(c, "notfound")
      BY <1>5, <2>2 DEF StoreDelete, IInv, TypeOK, disk
    <3> QED
      BY <1>2, <3>1 DEF Replies
  <2> QED
    BY <2>1, <2>2
<1>6. CASE Apply(c)
  BY <1>6, ApplyInv
<1> QED
  BY <1>3, <1>4, <1>5, <1>6 DEF Step

-----------------------------------------------------------------------------
(* No client is inside a call while the server is not up. *)
LEMMA NobodyInside ==
    ASSUME IInv, phase # "up"
    PROVE  /\ mu = NoClient
           /\ \A c \in Clients : pc[c] = "idle" /\ work[c] = NoWork
BY ConstantAssumption DEF IInv, LockInv

(* A fresh boot has listed both layers and replayed nothing. *)
LEMMA BootInv ==
    ASSUME IInv, NEW o \in SeedOrders, NEW ro \in BOOLEAN, Boot(o, ro)
    PROVE  IInv'
<1>1. /\ phase = "down" /\ phase' = "loading" /\ readOnly' = ro
      /\ rows' = List(o) /\ pos' = 1 /\ edited' = {}
      /\ UNCHANGED <<primary, seed, compiles, rt, mu, pc, work, reply>>
  BY DEF Boot, calls
<1>2. TypeOK
  BY DEF IInv
<1>3. rt = emptyRuntime
  BY <1>1 DEF IInv, LockInv
<1>4. mu = NoClient /\ \A c \in Clients : pc[c] = "idle" /\ work[c] = NoWork
  BY <1>1, NobodyInside
<1>5. o \in Seq(Keys) /\ KeyOrder \in Seq(Keys)
  BY ConstantAssumption DEF Enumerates
<1>6. /\ Len(o) \in Nat /\ Len(KeyOrder) \in Nat
      /\ \A i \in 1..Len(o) : o[i] \in Keys
      /\ \A j \in 1..Len(KeyOrder) : KeyOrder[j] \in Keys
  BY <1>5
<1> DEFINE N == Len(o) + Len(KeyOrder)
           e(i) == IF i <= Len(o)
                   THEN [key |-> o[i], val |-> seed[o[i]]]
                   ELSE [key |-> KeyOrder[i - Len(o)],
                         val |-> primary[KeyOrder[i - Len(o)]]]
<1>7. ASSUME NEW i \in 1..N
      PROVE  e(i) \in Item
  <2>1. \A k \in Keys : seed[k] \in Row /\ primary[k] \in Row
    BY <1>2 DEF TypeOK
  <2>2. CASE i <= Len(o)
    <3>1. i \in 1..Len(o)
      BY <1>6, <2>2
    <3>2. o[i] \in Keys /\ seed[o[i]] \in Row
      BY <1>6, <2>1, <3>1, Zenon
    <3> QED
      BY <2>2, <3>2 DEF Item
  <2>3. CASE ~(i <= Len(o))
    <3>1. i - Len(o) \in 1..Len(KeyOrder)
      BY <1>6, <2>3
    <3>2. KeyOrder[i - Len(o)] \in Keys /\ primary[KeyOrder[i - Len(o)]] \in Row
      BY <1>6, <2>1, <3>1, Zenon
    <3> QED
      BY <2>3, <3>2 DEF Item
  <2> QED
    BY <2>2, <2>3
<1>8. rows' = [i \in 1..N |-> e(i)]
  BY <1>1 DEF List
<1>9. rows' \in Seq(Item) /\ Len(rows') = N
  <2>1. N \in Nat
    BY <1>6
  <2> HIDE DEF e, N
  <2>2. rows' \in [1..N -> Item] /\ DOMAIN rows' = 1..N
    BY <1>7, <1>8
  <2> QED
    BY <2>1, <2>2
<1>10. TypeOK'
  BY <1>1, <1>2, <1>9 DEF TypeOK
<1>11. OneEntryPerName'
  BY <1>1 DEF OneEntryPerName, IInv
<1>12. LockInv' /\ WorkInv' /\ StoredInv' /\ MemoryMirrorsDisk'
  BY <1>1, <1>4, ConstantAssumption
  DEF LockInv, WorkInv, StoredInv, MemoryMirrorsDisk
<1>13. AppliedCompiles'
  BY <1>1 DEF AppliedCompiles, Validate, IInv
<1>14. LoadInv'
  <2>1. \A i \in 1..Len(o) : /\ rows'[i].key = o[i]
                             /\ rows'[i].val = seed'[o[i]]
    BY <1>1, <1>6, <1>8
  <2>2. \A j \in 1..Len(KeyOrder) :
           /\ rows'[Len(o) + j].key = KeyOrder[j]
           /\ rows'[Len(o) + j].val = primary'[KeyOrder[j]]
    <3> SUFFICES ASSUME NEW j \in 1..Len(KeyOrder)
                 PROVE  /\ rows'[Len(o) + j].key = KeyOrder[j]
                        /\ rows'[Len(o) + j].val = primary'[KeyOrder[j]]
      OBVIOUS
    <3>1. /\ Len(o) + j \in 1..N /\ ~(Len(o) + j <= Len(o))
          /\ Len(o) + j - Len(o) = j
      BY <1>6
    <3> QED
      BY <1>1, <1>8, <3>1
  <2>3. ASSUME NEW i \in 1..Len(o), NEW j \in 1..Len(KeyOrder)
        PROVE  Serves(o[i], Replayed(i, j, Len(o)))'
    <3>1. Replayed(i, j, Len(o))' = NoPolicy
      BY <1>1, <1>6 DEF Replayed
    <3>2. ServedBy(rt', o[i], NoPolicy)
      BY <1>1, <1>3, <1>6, EmptyRuntime
    <3> QED
      BY <3>1, <3>2 DEF Serves
  <2> QED
    BY <1>9, <2>1, <2>2, <2>3 DEF LoadInv
<1> QED
  BY <1>10, <1>11, <1>12, <1>13, <1>14 DEF IInv

(* Replaying a row makes its key serve it; the rows of a key are replayed  *)
(* seed first, so the sqlite row wins.                                     *)
LEMMA LoadNextInv ==
    ASSUME IInv, LoadNext
    PROVE  IInv'
<1> DEFINE row == rows[pos]
<1>1. /\ phase = "loading" /\ pos <= Len(rows) /\ pos' = pos + 1
      /\ rt' = IF row.val = NoPolicy THEN rt ELSE Registered(row)
      /\ UNCHANGED <<primary, seed, edited, compiles, phase, readOnly, rows,
                     mu, pc, work, reply>>
  BY DEF LoadNext, disk, calls
<1>2. TypeOK
  BY DEF IInv
<1>3. /\ rows \in Seq(Item) /\ pos \in Nat \ {0} /\ row \in Item
      /\ row.key \in Keys /\ row.val \in Row
  <2>1. rows \in Seq(Item) /\ pos \in Nat \ {0}
    BY <1>2 DEF TypeOK
  <2>2. pos \in 1..Len(rows)
    BY <1>1, <2>1
  <2>3. row \in Item
    BY <2>1, <2>2, ElementOfSeq
  <2> QED
    BY <2>1, <2>3 DEF Item
<1> HIDE DEF row
<1>4. GoodRuntime(rt)
  BY <1>2, GoodRuntimeMeaning DEF TypeOK, OneEntryPerName, IInv
<1>5. /\ GoodRuntime(rt')
      /\ row.val # NoPolicy => ServedBy(rt', row.key, row.val)
      /\ \A v : \A k \in Keys : k # row.key =>
            (ServedBy(rt', k, v) <=> ServedBy(rt, k, v))
  <2>1. CASE row.val = NoPolicy
    BY <1>1, <1>4, <2>1
  <2>2. CASE row.val # NoPolicy
    BY <1>1, <1>3, <1>4, <2>2, RegisteredServes DEF Row
  <2> QED
    BY <2>1, <2>2
<1>6. TypeOK'
  <2>1. rt' \in [APIs -> PolicyStore]
    BY <1>5 DEF GoodRuntime
  <2>2. pos' \in Nat \ {0}
    BY <1>1, <1>3
  <2>3. /\ primary' \in [Keys -> Row] /\ seed' \in [Keys -> Row] /\ edited' \subseteq Keys
        /\ compiles' \subseteq Keys \X Policy
        /\ phase' \in {"down", "loading", "up"} /\ readOnly' \in BOOLEAN
        /\ rows' \in Seq(Item)
    BY <1>1, <1>2 DEF TypeOK
  <2>4. /\ mu' \in Clients \cup {NoClient}
        /\ pc' \in [Clients -> {"idle", "persist", "apply"}]
        /\ work' \in [Clients -> [op : Ops, items : Seq(Item), left : SUBSET Nat]]
        /\ reply' \in [Clients -> Replies]
    BY <1>1, <1>2 DEF TypeOK
  <2> QED
    BY <2>1, <2>2, <2>3, <2>4 DEF TypeOK
<1>7. OneEntryPerName'
  BY <1>5, <1>6, GoodRuntimeMeaning DEF TypeOK, OneEntryPerName
<1>8. mu = NoClient /\ \A c \in Clients : pc[c] = "idle" /\ work[c] = NoWork
  BY <1>1, NobodyInside
<1>9. LockInv' /\ WorkInv' /\ StoredInv' /\ MemoryMirrorsDisk'
  BY <1>1, <1>8, ConstantAssumption
  DEF LockInv, WorkInv, StoredInv, MemoryMirrorsDisk
<1>10. AppliedCompiles'
  BY <1>1 DEF AppliedCompiles, Validate, IInv
<1>11. LoadInv'
  <2>1. PICK o \in SeedOrders :
            /\ Len(rows) = Len(o) + Len(KeyOrder)
            /\ \A i \in 1..Len(o) :
                  /\ rows[i].key = o[i]
                  /\ o[i] \notin edited => rows[i].val = seed[o[i]]
            /\ \A j \in 1..Len(KeyOrder) :
                  /\ rows[Len(o) + j].key = KeyOrder[j]
                  /\ rows[Len(o) + j].val = primary[KeyOrder[j]]
            /\ \A i \in 1..Len(o), j \in 1..Len(KeyOrder) :
                  o[i] = KeyOrder[j] => Serves(o[i], Replayed(i, j, Len(o)))
    BY <1>1 DEF IInv, LoadInv
  <2>2. /\ Len(o) \in Nat /\ Len(KeyOrder) \in Nat
        /\ \A i \in 1..Len(o) : o[i] \in Keys
        /\ \A i, j \in 1..Len(o) : o[i] = o[j] => i = j
        /\ \A i, j \in 1..Len(KeyOrder) : KeyOrder[i] = KeyOrder[j] => i = j
    <3>1. o \in Seq(Keys) /\ KeyOrder \in Seq(Keys)
      BY ConstantAssumption DEF Enumerates
    <3>2. /\ \A i, j \in 1..Len(o) : o[i] = o[j] => i = j
          /\ \A i, j \in 1..Len(KeyOrder) : KeyOrder[i] = KeyOrder[j] => i = j
      BY Zenon, ConstantAssumption DEF Enumerates
    <3> QED
      BY <3>1, <3>2
  <2>3. ASSUME NEW i \in 1..Len(o), NEW j \in 1..Len(KeyOrder),
               o[i] = KeyOrder[j]
        PROVE  Serves(o[i], Replayed(i, j, Len(o)))'
    <3> DEFINE before == Replayed(i, j, Len(o))
               after  == IF Len(o) + j < pos + 1 /\ rows[Len(o) + j].val # NoPolicy
                         THEN rows[Len(o) + j].val
                         ELSE IF i < pos + 1 THEN rows[i].val ELSE NoPolicy
    <3>1. ServedBy(rt, o[i], before)
      BY <2>1, <2>3 DEF Serves
    <3>2. Replayed(i, j, Len(o))' = after
      BY <1>1 DEF Replayed
    <3>3. CASE pos = i
      <4>1. row.key = o[i] /\ rows[i].val = row.val
        BY <2>1, <3>3 DEF row
      <4>2. before = NoPolicy /\ after = row.val
        <5>1. ~(Len(o) + j < pos) /\ ~(i < pos) /\ ~(Len(o) + j < pos + 1) /\ i < pos + 1
          BY <1>3, <2>2, <3>3
        <5> QED
          BY <4>1, <5>1 DEF Replayed
      <4>3. ServedBy(rt', o[i], row.val)
        BY <1>1, <1>5, <3>1, <4>1, <4>2
      <4> QED
        BY <3>2, <4>2, <4>3 DEF Serves
    <3>4. CASE pos = Len(o) + j
      <4>1. row.key = o[i] /\ rows[Len(o) + j].val = row.val
        BY <2>1, <2>3, <3>4 DEF row
      <4>2. CASE row.val = NoPolicy
        <5>1. after = before
          <6>1. i < pos /\ i < pos + 1
            BY <2>2, <3>4
          <6> QED
            BY <4>1, <4>2, <6>1 DEF Replayed
        <5>2. rt' = rt
          BY <1>1, <4>2
        <5> QED
          BY <3>1, <3>2, <5>1, <5>2 DEF Serves
      <4>3. CASE row.val # NoPolicy
        <5>1. after = row.val
          <6>1. Len(o) + j < pos + 1
            BY <2>2, <3>4
          <6> QED
            BY <4>1, <4>3, <6>1
        <5> QED
          BY <1>5, <3>2, <4>1, <4>3, <5>1 DEF Serves
      <4> QED
        BY <4>2, <4>3
    <3>5. CASE pos # i /\ pos # Len(o) + j
      <4>1. row.key # o[i]
        <5>1. CASE pos <= Len(o)
          BY <1>3, <2>1, <2>2, <3>5, <5>1 DEF row
        <5>2. CASE pos > Len(o)
          <6>1. PICK m \in 1..Len(KeyOrder) : pos = Len(o) + m
            <7>1. pos - Len(o) \in 1..Len(KeyOrder)
              BY <1>1, <1>3, <2>1, <2>2, <5>2
            <7> QED
              BY <1>3, <2>2, <7>1
          <6>2. row.key = KeyOrder[m] /\ m # j
            BY <2>1, <3>5, <6>1 DEF row
          <6> QED
            BY <2>2, <2>3, <6>2
        <5> QED
          BY <1>3, <2>2, <5>1, <5>2
      <4>2. /\ i < pos + 1 <=> i < pos
            /\ Len(o) + j < pos + 1 <=> Len(o) + j < pos
        <5>1. i \in Nat /\ Len(o) + j \in Nat /\ pos \in Nat
          BY <1>3, <2>2
        <5> HIDE DEF before, after
        <5> QED
          BY <3>5, <5>1
      <4>3. after = before
        BY <4>2 DEF Replayed
      <4> QED
        BY <1>5, <2>2, <3>1, <3>2, <4>1, <4>3 DEF Serves
    <3> QED
      BY <3>3, <3>4, <3>5
  <2> QED
    BY <1>1, <2>1, <2>3 DEF LoadInv
<1> QED
  BY <1>6, <1>7, <1>9, <1>10, <1>11 DEF IInv

(* A position past n seed rows and m primary rows is past each of them. *)
LEMMA PastAllRows ==
    ASSUME NEW n \in Nat, NEW m \in Nat, NEW p \in Nat, p > n + m,
           NEW i \in 1..n, NEW j \in 1..m
    PROVE  i < p /\ n + j < p
OBVIOUS

(* Once every row is replayed the server serves what the disk says. *)
LEMMA LoadDoneInv ==
    ASSUME IInv, LoadDone
    PROVE  IInv'
<1>1. /\ phase = "loading" /\ pos > Len(rows) /\ phase' = "up"
      /\ rows' = << >> /\ pos' = 1
      /\ UNCHANGED <<primary, seed, edited, compiles, readOnly, rt, mu, pc,
                     work, reply>>
  BY DEF LoadDone, disk, calls
<1>2. TypeOK
  BY DEF IInv
<1>3. TypeOK'
  <2>1. (rows \in Seq(Item))' /\ (pos \in Nat \ {0})' /\ (phase \in {"down", "loading", "up"})'
    BY <1>1
  <2> QED
    BY <1>1, <1>2, <2>1, Zenon DEF TypeOK
<1>4. OneEntryPerName'
  BY <1>1 DEF OneEntryPerName, IInv
<1>5. mu = NoClient /\ \A c \in Clients : pc[c] = "idle" /\ work[c] = NoWork
  BY <1>1, NobodyInside
<1>6. LockInv' /\ WorkInv' /\ StoredInv' /\ LoadInv'
  BY <1>1, <1>5, ConstantAssumption DEF LockInv, WorkInv, StoredInv, LoadInv
<1>7. AppliedCompiles'
  BY <1>1 DEF AppliedCompiles, Validate, IInv
<1>8. MemoryMirrorsDisk'
  <2>1. PICK o \in SeedOrders :
            /\ Len(rows) = Len(o) + Len(KeyOrder)
            /\ \A i \in 1..Len(o) :
                  /\ rows[i].key = o[i]
                  /\ o[i] \notin edited => rows[i].val = seed[o[i]]
            /\ \A j \in 1..Len(KeyOrder) :
                  /\ rows[Len(o) + j].key = KeyOrder[j]
                  /\ rows[Len(o) + j].val = primary[KeyOrder[j]]
            /\ \A i \in 1..Len(o), j \in 1..Len(KeyOrder) :
                  o[i] = KeyOrder[j] => Serves(o[i], Replayed(i, j, Len(o)))
    BY <1>1 DEF IInv, LoadInv
  <2>2. Len(o) \in Nat /\ Len(KeyOrder) \in Nat /\ pos \in Nat
    <3>1. o \in Seq(Keys) /\ KeyOrder \in Seq(Keys)
      BY ConstantAssumption DEF Enumerates
    <3> QED
      BY <1>2, <3>1 DEF TypeOK
  <2>3. ASSUME NEW k \in Keys
        PROVE  /\ primary[k] # NoPolicy => ServedBy(rt, k, primary[k])
               /\ k \notin edited => ServedBy(rt, k, Effective(k))
    <3>1. PICK i \in 1..Len(o) : o[i] = k
      BY Zenon, ConstantAssumption DEF Enumerates
    <3>2. PICK j \in 1..Len(KeyOrder) : KeyOrder[j] = k
      BY Zenon, ConstantAssumption DEF Enumerates
    <3>3. ServedBy(rt, k, Replayed(i, j, Len(o)))
      BY <2>1, <3>1, <3>2 DEF Serves
    <3>4. i < pos /\ Len(o) + j < pos
      <4>1. pos > Len(o) + Len(KeyOrder)
        BY <1>1, <2>1, Zenon
      <4> QED
        BY <2>2, <4>1, PastAllRows, Zenon
    <3>5. rows[Len(o) + j].val = primary[k]
      BY <2>1, <3>2
    <3>6. k \notin edited => rows[i].val = seed[k]
      BY <2>1, <3>1
    <3>7. CASE primary[k] # NoPolicy
      BY <3>3, <3>4, <3>5, <3>7 DEF Replayed, Effective
    <3>8. CASE primary[k] = NoPolicy
      BY <3>3, <3>4, <3>5, <3>6, <3>8 DEF Replayed, Effective
    <3> QED
      BY <3>7, <3>8
  <2> QED
    BY <1>1, <2>3 DEF MemoryMirrorsDisk, Serves, Effective
<1> QED
  BY <1>3, <1>4, <1>6, <1>7, <1>8 DEF IInv

(* A process that goes down, by a crash or a refused boot. *)
LEMMA DownInv ==
    ASSUME IInv, phase' = "down", rt' = emptyRuntime, rows' = << >>, pos' = 1,
           UNCHANGED <<disk, readOnly>>, mu' = NoClient,
           pc' \in [Clients -> {"idle"}], work' \in [Clients -> {NoWork}],
           reply' \in [Clients -> Replies]
    PROVE  IInv'
<1>1. TypeOK /\ UNCHANGED <<primary, seed, edited, compiles>>
  BY DEF IInv, disk
<1>2. GoodRuntime(rt')
  BY EmptyRuntime
<1>3. TypeOK'
  <2>1. NoWork \in [op : Ops, items : Seq(Item), left : SUBSET Nat]
    BY NoWorkType
  <2>2. /\ work' \in [Clients -> [op : Ops, items : Seq(Item), left : SUBSET Nat]]
        /\ pc' \in [Clients -> {"idle", "persist", "apply"}]
    BY <2>1
  <2>3. newPolicyStore \in PolicyStore
    BY NewStore DEF GoodStore
  <2>4. rt' \in [APIs -> PolicyStore]
    BY <2>3 DEF emptyRuntime
  <2>5. rows' \in Seq(Item) /\ pos' \in Nat \ {0} /\ reply' \in [Clients -> Replies]
    OBVIOUS
  <2>6. /\ primary' \in [Keys -> Row] /\ seed' \in [Keys -> Row] /\ edited' \subseteq Keys
        /\ compiles' \subseteq Keys \X Policy /\ readOnly' \in BOOLEAN
    BY <1>1 DEF TypeOK
  <2>7. phase' \in {"down", "loading", "up"} /\ mu' \in Clients \cup {NoClient}
    OBVIOUS
  <2> QED
    BY <2>2, <2>4, <2>5, <2>6, <2>7 DEF TypeOK
<1>4. OneEntryPerName'
  BY <1>2, <1>3, GoodRuntimeMeaning DEF TypeOK, OneEntryPerName
<1>5. \A c \in Clients : pc'[c] = "idle" /\ work'[c] = NoWork
  OBVIOUS
<1>6. LockInv' /\ WorkInv' /\ StoredInv' /\ LoadInv' /\ MemoryMirrorsDisk'
  BY <1>5, ConstantAssumption
  DEF LockInv, WorkInv, StoredInv, LoadInv, MemoryMirrorsDisk
<1>7. AppliedCompiles'
  <2>1. \A c \in Clients : work'[c].left = {}
    BY <1>5, NoWorkType
  <2> QED
    BY <2>1, Zenon DEF AppliedCompiles
<1> QED
  BY <1>3, <1>4, <1>6, <1>7 DEF IInv

(* Boots, crashes and refused boots. *)
LEMMA ProcessInv ==
    ASSUME IInv, Process
    PROVE  IInv'
<1>0. TypeOK
  BY DEF IInv
<1>1. ASSUME NEW o \in SeedOrders, NEW ro \in BOOLEAN, Boot(o, ro)
      PROVE  IInv'
  BY <1>1, BootInv
<1>2. CASE LoadNext
  BY <1>2, LoadNextInv
<1>3. CASE LoadRefused
  <2>1. mu = NoClient /\ \A c \in Clients : pc[c] = "idle" /\ work[c] = NoWork
    BY <1>3, NobodyInside DEF LoadRefused
  <2>2. UNCHANGED <<mu, pc, work, reply>>
    BY <1>3 DEF LoadRefused, calls
  <2>3. /\ pc' \in [Clients -> {"idle"}] /\ work' \in [Clients -> {NoWork}]
        /\ reply' \in [Clients -> Replies]
    BY <1>0, <2>1, <2>2 DEF TypeOK
  <2> QED
    BY <1>3, <2>1, <2>2, <2>3, DownInv DEF LoadRefused
<1>4. CASE LoadDone
  BY <1>4, LoadDoneInv
<1>5. CASE Crash
  <2>1. /\ pc' \in [Clients -> {"idle"}] /\ work' \in [Clients -> {NoWork}]
        /\ reply' \in [Clients -> Replies]
    BY <1>0, <1>5 DEF Crash, TypeOK, Replies
  <2> QED
    BY <1>5, <2>1, DownInv DEF Crash
<1> QED
  BY <1>1, <1>2, <1>3, <1>4, <1>5 DEF Process, Load

(* An operator's edit of a YAML file marks its key; new APIs are installed *)
(* only while no server runs.                                              *)
LEMMA OperatorInv ==
    ASSUME IInv, Operator
    PROVE  IInv'
<1>0. TypeOK
  BY DEF IInv
<1>1. ASSUME NEW e \in SeedEdits, EditSeed(e[1], e[2])
      PROVE  IInv'
  <2> DEFINE k == e[1]
             row == e[2]
  <2>1. k \in Keys /\ row \in Row
    BY ConstantAssumption
  <2>2. /\ seed' = [seed EXCEPT ![k] = row] /\ edited' = edited \cup {k}
        /\ UNCHANGED <<primary, compiles, phase, readOnly, rows, pos, rt, mu,
                       pc, work, reply>>
    BY <1>1 DEF EditSeed, boot, calls
  <2> HIDE DEF k, row
  <2>3. \A m \in Keys : m \notin edited' => m \notin edited /\ seed'[m] = seed[m]
    BY <1>0, <2>1, <2>2 DEF TypeOK
  <2>4. TypeOK'
    <3>1. seed' \in [Keys -> Row] /\ edited' \subseteq Keys
      BY <1>0, <2>1, <2>2 DEF TypeOK
    <3> QED
      BY <1>0, <2>2, <3>1 DEF TypeOK
  <2>5. OneEntryPerName' /\ LockInv' /\ WorkInv' /\ AppliedCompiles'
    BY <2>2 DEF IInv, OneEntryPerName, LockInv, WorkInv, WorkOK, find,
                AppliedCompiles, Validate
  <2>6. StoredInv'
    <3> SUFFICES ASSUME NEW c \in Clients, pc[c] = "apply"
                 PROVE  StoredOK(Current(c))'
      BY <2>2 DEF StoredInv
    <3>1. StoredOK(Current(c)) /\ Current(c).key \in Keys
      BY Holder DEF IInv, StoredInv, Item
    <3>2. Current(c)' = Current(c)
      BY <2>2 DEF Current
    <3> QED
      BY <2>2, <2>3, <3>1, <3>2 DEF StoredOK
  <2>7. LoadInv'
    <3> SUFFICES ASSUME phase = "loading" PROVE LoadInv'
      BY <2>2 DEF LoadInv
    <3>1. PICK o \in SeedOrders :
              /\ Len(rows) = Len(o) + Len(KeyOrder)
              /\ \A i \in 1..Len(o) :
                    /\ rows[i].key = o[i]
                    /\ o[i] \notin edited => rows[i].val = seed[o[i]]
              /\ \A j \in 1..Len(KeyOrder) :
                    /\ rows[Len(o) + j].key = KeyOrder[j]
                    /\ rows[Len(o) + j].val = primary[KeyOrder[j]]
              /\ \A i \in 1..Len(o), j \in 1..Len(KeyOrder) :
                    o[i] = KeyOrder[j] => Serves(o[i], Replayed(i, j, Len(o)))
      BY DEF IInv, LoadInv
    <3>2. \A i \in 1..Len(o) : o[i] \in Keys
      BY ElementOfSeq, ConstantAssumption DEF Enumerates
    <3>3. \A i \in 1..Len(o) :
             o[i] \notin edited' => rows'[i].val = seed'[o[i]]
      BY <2>2, <2>3, <3>1, <3>2
    <3>4. \A i \in 1..Len(o), j \in 1..Len(KeyOrder) :
             o[i] = KeyOrder[j] => Serves(o[i], Replayed(i, j, Len(o)))'
      BY <2>2, <3>1 DEF Serves, Replayed
    <3> QED
      BY <2>2, <3>1, <3>3, <3>4 DEF LoadInv
  <2>8. MemoryMirrorsDisk'
    <3> SUFFICES ASSUME phase = "up", NEW m \in Keys, ~Applying(m)
                 PROVE  /\ primary[m] # NoPolicy => ServedBy(rt, m, primary[m])
                        /\ m \notin edited' =>
                              ServedBy(rt, m, IF primary[m] # NoPolicy
                                              THEN primary[m] ELSE seed'[m])
      BY <2>2 DEF MemoryMirrorsDisk, Applying, Current, Serves, Effective
    <3> QED
      BY <2>3 DEF IInv, MemoryMirrorsDisk, Serves, Effective
  <2> QED
    BY <2>4, <2>5, <2>6, <2>7, <2>8 DEF IInv
<1>2. ASSUME NEW s \in Surfaces, ChangeAPIs(s)
      PROVE  IInv'
  <2>1. /\ phase = "down" /\ compiles' = s
        /\ UNCHANGED <<primary, seed, edited, phase, readOnly, rows, pos, rt,
                       mu, pc, work, reply>>
    BY <1>2 DEF ChangeAPIs, boot, calls
  <2>2. \A c \in Clients : pc[c] = "idle" /\ work[c] = NoWork
    BY <2>1, NobodyInside
  <2>3. TypeOK'
    <3>1. s \subseteq Keys \X Policy
      BY ConstantAssumption
    <3> QED
      BY <1>0, <2>1, <3>1 DEF TypeOK
  <2>4. OneEntryPerName' /\ LockInv'
    BY <2>1 DEF IInv, OneEntryPerName, LockInv
  <2>5. WorkInv' /\ StoredInv' /\ LoadInv' /\ MemoryMirrorsDisk'
    BY <2>1, <2>2 DEF WorkInv, StoredInv, LoadInv, MemoryMirrorsDisk
  <2>6. AppliedCompiles'
    <3>1. \A c \in Clients : work'[c].left = {}
      BY <2>1, <2>2, NoWorkType
    <3> QED
      BY <3>1, Zenon DEF AppliedCompiles
  <2> QED
    BY <2>3, <2>4, <2>5, <2>6 DEF IInv
<1> QED
  BY <1>1, <1>2 DEF Operator

-----------------------------------------------------------------------------
(* The inductive invariant holds of every reachable state. *)
LEMMA Inductive == Spec => []IInv
<1>1. IInv /\ [Next]_vars => IInv'
  <2> SUFFICES ASSUME IInv, [Next]_vars PROVE IInv'
    OBVIOUS
  <2>1. ASSUME NEW c \in Clients, Request(c) PROVE IInv'
    BY <2>1, RequestInv
  <2>2. ASSUME NEW c \in Clients, Step(c) PROVE IInv'
    BY <2>2, StepInv
  <2>3. CASE Process
    BY <2>3, ProcessInv
  <2>4. CASE Operator
    BY <2>4, OperatorInv
  <2>5. CASE UNCHANGED vars
    <3>1. UNCHANGED <<primary, seed, edited, compiles, phase, readOnly, rows,
                      pos, rt, mu, pc, work, reply>>
      BY <2>5 DEF vars
    <3>2. TypeOK' /\ OneEntryPerName' /\ LockInv' /\ WorkInv' /\ AppliedCompiles'
      BY <3>1 DEF IInv, TypeOK, OneEntryPerName, LockInv, WorkInv, WorkOK,
                  find, AppliedCompiles, Validate
    <3>3. StoredInv' /\ MemoryMirrorsDisk'
      BY <3>1 DEF IInv, StoredInv, StoredOK, Current, MemoryMirrorsDisk,
                  Applying, Serves, Effective
    <3>4. LoadInv'
      <4>1. \A k, i, j, n : Serves(k, Replayed(i, j, n))'
                               <=> Serves(k, Replayed(i, j, n))
        BY <3>1 DEF Serves, Replayed
      <4> QED
        BY <3>1, <4>1 DEF IInv, LoadInv
    <3> QED
      BY <3>2, <3>3, <3>4 DEF IInv
  <2> QED
    BY <2>1, <2>2, <2>3, <2>4, <2>5 DEF Next
<1> QED
  BY <1>1, InitInv, PTL DEF Spec

(* Every variable of the service keeps its type. *)
THEOREM TypeCorrect == Spec => []TypeOK
BY Inductive, PTL DEF IInv

(* For any number of writers, names and APIs, no sequence of edits, result *)
(* flips, imports, crashes and boots puts a policy twice, or in the wrong  *)
(* bucket, into the live set (api.go:425).                                 *)
THEOREM NoStaleTwin == Spec => []OneEntryPerName
BY Inductive, PTL DEF IInv

(* Memory mirrors disk (policies.go:230), for any number of writers, any   *)
(* interleaving, any point of failure and any boot order.                  *)
THEOREM MirrorsDisk == Spec => []MemoryMirrorsDisk
BY Inductive, PTL DEF IInv

(* No call reaches the store with a policy the runtime would not compile   *)
(* (policies.go:225).                                                      *)
THEOREM OnlyCompiledStored == Spec => []AppliedCompiles
BY Inductive, PTL DEF IInv

(* The duplicate check of Create still holds when it applies               *)
(* (policies.go:59).                                                       *)
THEOREM CreateIsExclusive == Spec => []CreateTargetsFreeName
<1>1. IInv => CreateTargetsFreeName
  <2> SUFFICES ASSUME IInv, NEW c \in Clients, pc[c] # "idle",
                      work[c].op = "create"
               PROVE  ~find(Current(c).key)
    BY DEF CreateTargetsFreeName
  <2>1. WorkOK(c) /\ Min(work[c].left) \in work[c].left
    BY Holder
  <2> QED
    BY <2>1 DEF WorkOK, Current
<1> QED
  BY <1>1, Inductive, PTL
=============================================================================
