--------------------------- MODULE PolicyService ---------------------------
(***************************************************************************)
(* The policy CRUD coordinator (internal/control/policies): writers run    *)
(* validate, persist, apply under one mutex; the durable rows live in a    *)
(* LayeredStore (read-only YAML seed under a sqlite primary; an empty seed *)
(* is the plain sqlite store); the live set is the runtime's policyStore.  *)
(* The process may crash between any two steps and boots by replaying the  *)
(* store.  While it is down the operator may change the installed APIs,    *)
(* and at any time the seed files.                                         *)
(***************************************************************************)
EXTENDS PolicyBuckets

CONSTANTS
    Clients,     \* goroutines calling the Service (admin handlers, reviewers)
    APIs,        \* API names
    NoPolicy,    \* "no row", "no file", "not registered"
    NoClient,    \* the mutex is free
    KeyOrder,    \* ORDER BY api, name
    SeedOrders,  \* orders in which the seed directory may list its policies
    SeedEdits,   \* <<key, policy or NoPolicy>>: what an operator may do to it
    Surfaces,    \* possible sets of <<key, policy>> that compile
    Batches      \* sequences of items an Import may carry

Keys  == APIs \X Names
Row   == Policy \cup {NoPolicy}
Item  == [key : Keys, val : Row]

Enumerates(o) ==
    /\ o \in Seq(Keys)
    /\ \A i, j \in 1..Len(o) : o[i] = o[j] => i = j
    /\ \A k \in Keys : \E i \in 1..Len(o) : o[i] = k

ASSUME ConstantAssumption ==
    /\ NoPolicy \notin Policy
    /\ NoClient \notin Clients
    /\ Enumerates(KeyOrder)
    /\ \A o \in SeedOrders : Enumerates(o)
    /\ SeedEdits \subseteq Keys \X Row
    /\ Surfaces \subseteq SUBSET (Keys \X Policy)
    /\ \A b \in Batches : b \in Seq([key : Keys, val : Policy])

VARIABLES
    primary,   \* sqlite rows
    seed,      \* the YAML policies directory
    edited,    \* keys whose seed file changed since it was last listed
    compiles,  \* <<key, policy>> pairs the installed APIs accept
    phase,     \* "down", "loading" or "up"
    readOnly,  \* --policies-readonly of this process
    rows,      \* what List returned to LoadFromStore
    pos,       \* next element of rows to replay
    rt,        \* the runtime's policyStore of every API
    mu,        \* holder of Service.mu
    pc,        \* where each client is in its call
    work,      \* the call's operation, its items and the indices left to do
    reply      \* what each client's last call returned

disk  == <<primary, seed, edited, compiles>>
boot  == <<phase, readOnly, rows, pos>>
calls == <<mu, pc, work, reply>>
vars  == <<primary, seed, edited, compiles, phase, readOnly, rows, pos, rt,
           mu, pc, work, reply>>

Ops     == {"create", "replace", "delete", "import"}
Replies == {"none", "ok", "readonly", "invalid", "conflict", "notfound",
            "apipath", "store", "lost"}
NoWork  == [op |-> "delete", items |-> << >>, left |-> {}]

-----------------------------------------------------------------------------
(* The runtime as the Service sees it. *)
find(k) == Holds(rt[k[1]], k[2])
Validate(it) == <<it.key, it.val>> \in compiles

(* Runtime r holds row, and nothing else, under key k. *)
ServedBy(r, k, row) == IF row = NoPolicy THEN ~Holds(r[k[1]], k[2])
                                         ELSE HoldsOnly(r[k[1]], k[2], row)
Serves(k, row) == ServedBy(rt, k, row)

Registered(it) ==
    [rt EXCEPT ![it.key[1]] = replace(@, EntryOf(it.key[2], it.val))]
Unregistered(k) == [rt EXCEPT ![k[1]] = removeLocked(@, k[2])]

emptyRuntime == [a \in APIs |-> newPolicyStore]

(* LayeredStore.List: seed entries, then primary entries; an element whose *)
(* val is NoPolicy stands for a key that has no entry in that layer.       *)
List(order) ==
    [i \in 1..(Len(order) + Len(KeyOrder)) |->
        IF i <= Len(order)
        THEN [key |-> order[i], val |-> seed[order[i]]]
        ELSE [key |-> KeyOrder[i - Len(order)],
              val |-> primary[KeyOrder[i - Len(order)]]]]

(* What a boot from the current disk would serve for k. *)
Effective(k) == IF primary[k] # NoPolicy THEN primary[k] ELSE seed[k]

-----------------------------------------------------------------------------
Init ==
    /\ primary = [k \in Keys |-> NoPolicy]
    /\ seed = [k \in Keys |-> NoPolicy]
    /\ edited = {}
    /\ compiles \in Surfaces
    /\ phase = "down" /\ readOnly = FALSE
    /\ rows = << >> /\ pos = 1
    /\ rt = emptyRuntime
    /\ mu = NoClient
    /\ pc = [c \in Clients |-> "idle"]
    /\ work = [c \in Clients |-> NoWork]
    /\ reply = [c \in Clients |-> "none"]

(* Mutant: no mutex around check, persist and apply. *)
EnterUnlocked(c, err, op, items, left) ==
    /\ phase = "up" /\ pc[c] = "idle"
    /\ \/ /\ err # "none"
          /\ reply' = [reply EXCEPT ![c] = err]
          /\ UNCHANGED <<mu, pc, work>>
       \/ /\ err = "none"
          /\ pc' = [pc EXCEPT ![c] = "persist"]
          /\ work' = [work EXCEPT ![c] =
                         [op |-> op, items |-> items, left |-> left]]
          /\ UNCHANGED <<mu, reply>>
    /\ UNCHANGED <<disk, boot, rt>>

(* A call enters the mutex and runs its checks.  Only the holder of mu     *)
(* writes what the checks read, so entering and checking are one step.     *)
Enter(c, err, op, items, left) ==
    /\ phase = "up" /\ mu = NoClient /\ pc[c] = "idle"
    /\ \/ /\ err # "none"
          /\ reply' = [reply EXCEPT ![c] = err]
          /\ UNCHANGED <<mu, pc, work>>
       \/ /\ err = "none"
          /\ mu' = c
          /\ pc' = [pc EXCEPT ![c] = "persist"]
          /\ work' = [work EXCEPT ![c] =
                         [op |-> op, items |-> items, left |-> left]]
          /\ reply' = [reply EXCEPT ![c] = "none"]
    /\ UNCHANGED <<disk, boot, rt>>

Create(c, k, p) ==
    LET it == [key |-> k, val |-> p]
    IN  Enter(c, CASE readOnly -> "readonly"
                   [] ~readOnly /\ ~Validate(it) -> "invalid"
                   [] ~readOnly /\ Validate(it) /\ find(k) -> "conflict"
                   [] OTHER -> "none",
              "create", <<it>>, {1})

(* path is the key in the URL, k the key in the body. *)
Replace(c, path, k, p) ==
    LET it == [key |-> k, val |-> p]
    IN  Enter(c, CASE readOnly -> "readonly"
                   [] ~readOnly /\ path # k -> "apipath"
                   [] ~readOnly /\ path = k /\ ~Validate(it) -> "invalid"
                   [] OTHER -> "none",
              "replace", <<it>>, {1})

Delete(c, k) ==
    Enter(c, CASE readOnly -> "readonly"
               [] ~readOnly /\ ~find(k) -> "notfound"
               [] OTHER -> "none",
          "delete", <<[key |-> k, val |-> NoPolicy]>>, {1})

(* Indices Import keeps: the last occurrence of every key. *)
Deduped(batch) ==
    {i \in 1..Len(batch) :
        \A j \in 1..Len(batch) : j > i => batch[j].key # batch[i].key}

(* The whole batch is validated before its first element is persisted. *)
Import(c, batch, dryRun) ==
    LET keep == Deduped(batch)
    IN  Enter(c, CASE readOnly -> "readonly"
                   [] ~readOnly /\ (\E i \in keep : ~Validate(batch[i])) ->
                         "invalid"
                   [] ~readOnly /\ (\A i \in keep : Validate(batch[i]))
                                /\ (dryRun \/ keep = {}) -> "ok"
                   [] OTHER -> "none",
              "import", batch, keep)

(* The element the call is working on. *)
Current(c) == work[c].items[Min(work[c].left)]

Return(c, r) ==
    /\ mu' = NoClient
    /\ pc' = [pc EXCEPT ![c] = "idle"]
    /\ work' = [work EXCEPT ![c] = NoWork]
    /\ reply' = [reply EXCEPT ![c] = r]

(* The store call fails: nothing was written, the runtime is untouched. *)
PersistFails(c) ==
    /\ pc[c] = "persist"
    /\ Return(c, "store")
    /\ UNCHANGED <<disk, boot, rt>>

StorePut(c) ==
    /\ pc[c] = "persist"
    /\ Current(c).val # NoPolicy
    /\ primary' = [primary EXCEPT ![Current(c).key] = Current(c).val]
    /\ pc' = [pc EXCEPT ![c] = "apply"]
    /\ UNCHANGED <<seed, edited, compiles, boot, rt, mu, work, reply>>

(* Mutant: the seed layer is not consulted. *)
StoreDeleteOverride(c) ==
    LET k == Current(c).key
    IN  /\ pc[c] = "persist"
        /\ Current(c).val = NoPolicy
        /\ \/ /\ primary[k] = NoPolicy
              /\ Return(c, "notfound")
              /\ UNCHANGED primary
           \/ /\ primary[k] # NoPolicy
              /\ primary' = [primary EXCEPT ![k] = NoPolicy]
              /\ pc' = [pc EXCEPT ![c] = "apply"]
              /\ UNCHANGED <<mu, work, reply>>
        /\ UNCHANGED <<seed, edited, compiles, boot, rt>>

StoreDelete(c) ==
    LET k == Current(c).key
    IN  /\ pc[c] = "persist"
        /\ Current(c).val = NoPolicy
        /\ \/ /\ seed[k] # NoPolicy
              /\ Return(c, "readonly")
              /\ UNCHANGED primary
           \/ /\ seed[k] = NoPolicy /\ primary[k] = NoPolicy
              /\ Return(c, "notfound")
              /\ UNCHANGED primary
           \/ /\ seed[k] = NoPolicy /\ primary[k] # NoPolicy
              /\ primary' = [primary EXCEPT ![k] = NoPolicy]
              /\ pc' = [pc EXCEPT ![c] = "apply"]
              /\ UNCHANGED <<mu, work, reply>>
        /\ UNCHANGED <<seed, edited, compiles, boot, rt>>

(* runtime.ReplacePolicy or RemovePolicy, then the next element of an      *)
(* import or the return.  The compile inside ReplacePolicy cannot fail     *)
(* here (AppliedCompiles), so it has no failing branch.                    *)
Apply(c) ==
    LET rest == work[c].left \ {Min(work[c].left)}
    IN  /\ pc[c] = "apply"
        /\ rt' = IF Current(c).val = NoPolicy
                 THEN Unregistered(Current(c).key)
                 ELSE Registered(Current(c))
        /\ \/ /\ rest = {}
              /\ Return(c, "ok")
           \/ /\ rest # {}
              /\ pc' = [pc EXCEPT ![c] = "persist"]
              /\ work' = [work EXCEPT ![c].left = rest]
              /\ UNCHANGED <<mu, reply>>
        /\ UNCHANGED <<disk, boot>>

-----------------------------------------------------------------------------
(* server.Load builds a fresh runtime and lists the store. *)
Boot(order, ro) ==
    /\ phase = "down"
    /\ phase' = "loading"
    /\ readOnly' = ro
    /\ rows' = List(order)
    /\ pos' = 1
    /\ edited' = {}
    /\ UNCHANGED <<primary, seed, compiles, rt, calls>>

LoadNext ==
    /\ phase = "loading" /\ pos <= Len(rows)
    /\ rows[pos].val # NoPolicy => Validate(rows[pos])
    /\ rt' = IF rows[pos].val = NoPolicy THEN rt ELSE Registered(rows[pos])
    /\ pos' = pos + 1
    /\ UNCHANGED <<disk, phase, readOnly, rows, calls>>

(* The first row that does not compile aborts the boot. *)
LoadRefused ==
    /\ phase = "loading" /\ pos <= Len(rows)
    /\ rows[pos].val # NoPolicy /\ ~Validate(rows[pos])
    /\ phase' = "down"
    /\ rt' = emptyRuntime
    /\ rows' = << >> /\ pos' = 1
    /\ UNCHANGED <<disk, readOnly, calls>>

LoadDone ==
    /\ phase = "loading" /\ pos > Len(rows)
    /\ phase' = "up"
    /\ rows' = << >> /\ pos' = 1
    /\ UNCHANGED <<disk, readOnly, rt, calls>>

Crash ==
    /\ phase # "down"
    /\ phase' = "down"
    /\ rt' = emptyRuntime
    /\ rows' = << >> /\ pos' = 1
    /\ mu' = NoClient
    /\ pc' = [c \in Clients |-> "idle"]
    /\ work' = [c \in Clients |-> NoWork]
    /\ reply' = [c \in Clients |-> IF pc[c] = "idle" THEN reply[c] ELSE "lost"]
    /\ UNCHANGED <<disk, readOnly>>

(* The operator adds, changes or deletes a YAML file of the seed. *)
EditSeed(k, row) ==
    /\ seed[k] # row
    /\ seed' = [seed EXCEPT ![k] = row]
    /\ edited' = edited \cup {k}
    /\ UNCHANGED <<primary, compiles, boot, rt, calls>>

(* Bundles are added, removed or upgraded between two runs of the server. *)
ChangeAPIs(s) ==
    /\ phase = "down"
    /\ s # compiles
    /\ compiles' = s
    /\ UNCHANGED <<primary, seed, edited, boot, rt, calls>>

-----------------------------------------------------------------------------
Request(c) ==
    \/ \E k \in Keys, p \in Policy : Create(c, k, p)
    \/ \E path, k \in Keys, p \in Policy : Replace(c, path, k, p)
    \/ \E k \in Keys : Delete(c, k)
    \/ \E b \in Batches, dryRun \in BOOLEAN : Import(c, b, dryRun)

Step(c) == PersistFails(c) \/ StorePut(c) \/ StoreDelete(c) \/ Apply(c)

Load ==
    \/ \E o \in SeedOrders, ro \in BOOLEAN : Boot(o, ro)
    \/ LoadNext \/ LoadRefused \/ LoadDone

Process == Load \/ Crash

Operator ==
    \/ \E e \in SeedEdits : EditSeed(e[1], e[2])
    \/ \E s \in Surfaces : ChangeAPIs(s)

Next == (\E c \in Clients : Request(c) \/ Step(c)) \/ Process \/ Operator

Spec == Init /\ [][Next]_vars
-----------------------------------------------------------------------------
TypeOK ==
    /\ primary \in [Keys -> Row] /\ seed \in [Keys -> Row]
    /\ edited \subseteq Keys
    /\ compiles \subseteq Keys \X Policy
    /\ phase \in {"down", "loading", "up"} /\ readOnly \in BOOLEAN
    /\ rows \in Seq(Item) /\ pos \in Nat \ {0}
    /\ rt \in [APIs -> PolicyStore]
    /\ mu \in Clients \cup {NoClient}
    /\ pc \in [Clients -> {"idle", "persist", "apply"}]
    /\ work \in [Clients -> [op : Ops, items : Seq(Item), left : SUBSET Nat]]
    /\ reply \in [Clients -> Replies]

(* The live set holds at most one policy per (api, name), in the bucket of *)
(* its result: no sequence of edits, flips between deny and permit,        *)
(* imports and boots leaves a stale twin that would keep firing.           *)
OneEntryPerName == \A a \in APIs : UniqueNames(rt[a]) /\ Sorted(rt[a])

Applying(k) == \E c \in Clients : pc[c] = "apply" /\ Current(c).key = k

(* "Memory mirrors disk after every successful CRUD" (policies.go:230): a  *)
(* running server serves, for every key but the one whose store write has  *)
(* just returned, the sqlite row if there is one, and exactly what a boot  *)
(* from the current disk would serve unless the key's YAML file was edited *)
(* since it was read.  A crash, a refused boot, a failed store call or a   *)
(* half-done import never breaks it; deleting only the override of a       *)
(* seeded policy would.                                                    *)
MemoryMirrorsDisk ==
    phase = "up" =>
        \A k \in Keys : ~Applying(k) =>
            /\ primary[k] # NoPolicy => Serves(k, primary[k])
            /\ k \notin edited => Serves(k, Effective(k))

(* Create never displaces a live policy: from its duplicate check to its   *)
(* apply the key stays free, whatever other writers do (policies.go:59).   *)
CreateTargetsFreeName ==
    \A c \in Clients :
        pc[c] # "idle" /\ work[c].op = "create" => ~find(Current(c).key)

(* The compile in runtime.ReplacePolicy never fails once a call passed its *)
(* checks, so no row reaches the store that the next boot would refuse     *)
(* with the same APIs (policies.go:225, "ReplacePolicy only fails on a     *)
(* bug").                                                                  *)
AppliedCompiles ==
    \A c \in Clients : \A i \in work[c].left :
        work[c].items[i].val # NoPolicy => Validate(work[c].items[i])

(* Entries of one API present before and after a step with an unchanged    *)
(* result keep their relative order: evaluation order is outcome-relevant  *)
(* and an edit must not move a policy (api.go:418, runtime.go:191).        *)
KeepsOrder(s, t) ==
    \A i, j \in 1..Len(s) : \A m, n \in 1..Len(t) :
        ( /\ s[i].name = t[m].name /\ s[i].result = t[m].result
          /\ s[j].name = t[n].name /\ s[j].result = t[n].result
          /\ i < j ) => m < n

(* No write to a running server reorders the policies it does not flip.    *)
EditsKeepOrder ==
    [][phase = "up" /\ phase' = "up" =>
          \A a \in APIs : KeepsOrder(all(rt[a]), all(rt'[a]))]_vars

=============================================================================
