------------------------------ MODULE KVStore ------------------------------
(***************************************************************************)
(* What policies.Service expects of a policies.Store                       *)
(* (internal/control/policies/policies.go, type Store): a durable map. A   *)
(* call takes effect at one instant, an error means it had none, and a     *)
(* crash leaves the map either as it was or as the call makes it.  A nil   *)
(* answer means that the call took effect, save where the storage kept a   *)
(* stale copy of the key: then the copy may win.                           *)
(***************************************************************************)
CONSTANTS Keys, Vals, NoPolicy

VARIABLES m,     \* the map: the policy of each key, NoPolicy for none
          key,   \* the key of the call in progress or last made
          val,   \* what it stores; NoPolicy for a Delete
          st,    \* "idle", "pending" or "done"
          ans,   \* what the last call answered
          stale  \* a stale copy of the key may outlive the call

vars == <<m, key, val, st, ans, stale>>

Init ==
    /\ m \in [Keys -> Vals \cup {NoPolicy}]
    /\ key \in Keys /\ val = NoPolicy
    /\ st = "idle" /\ ans = "none" /\ stale = FALSE

Begin(k, v) ==
    /\ st = "idle" /\ st' = "pending"
    /\ v = NoPolicy => m[k] # NoPolicy
    /\ key' = k /\ val' = v /\ ans' = "none" /\ stale' \in BOOLEAN
    /\ UNCHANGED m

(* Delete of an absent key answers ErrNotFound and changes nothing. *)
Missing(k) ==
    /\ st = "idle" /\ m[k] = NoPolicy
    /\ key' = k /\ val' = NoPolicy /\ ans' = "notfound"
    /\ stale' \in BOOLEAN
    /\ UNCHANGED <<m, st>>

Fail ==
    /\ st = "pending" /\ st' = "idle" /\ ans' = "error"
    /\ UNCHANGED <<m, key, val, stale>>

Take ==
    /\ st = "pending" /\ st' = "done"
    /\ m' = [m EXCEPT ![key] = val]
    /\ UNCHANGED <<key, val, ans, stale>>

Return ==
    /\ st = "done" /\ st' = "idle" /\ ans' = "nil"
    /\ stale => stale'
    /\ UNCHANGED <<m, key, val>>

(* Nil, and the map is as it was. *)
ReturnStale ==
    /\ st = "pending" /\ st' = "idle" /\ ans' = "nil"
    /\ stale' = TRUE
    /\ UNCHANGED <<m, key, val>>

Crash ==
    /\ st # "idle" /\ st' = "idle" /\ ans' = "lost"
    /\ UNCHANGED <<m, key, val, stale>>

(* Whoever owns the storage may change it between calls. *)
Edit ==
    /\ st = "idle" /\ ans' = "none" /\ stale' = FALSE
    /\ m' \in [Keys -> Vals \cup {NoPolicy}]
    /\ UNCHANGED <<key, val, st>>

Next == \/ \E k \in Keys, v \in Vals \cup {NoPolicy} : Begin(k, v)
        \/ \E k \in Keys : Missing(k)
        \/ Fail \/ Take \/ Return \/ ReturnStale \/ Crash \/ Edit

Spec == Init /\ [][Next]_vars
=============================================================================
