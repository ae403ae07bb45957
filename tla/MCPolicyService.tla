-------------------------- MODULE MCPolicyService --------------------------
(* PolicyService on one API with two names; name "n2" may be seeded. *)
EXTENDS PolicyService

MCAPIs    == {"api"}
MCNames   == {"n1", "n2"}
MCBodies  == {"b", "c"}

k1 == <<"api", "n1">>
k2 == <<"api", "n2">>
denyB   == [result |-> Deny, body |-> "b"]
permitB == [result |-> Permit, body |-> "b"]

MCKeyOrder   == <<k1, k2>>
MCSeedOrders == {<<k1, k2>>, <<k2, k1>>}
MCSeedEdits  == {<<k2, permitB>>, <<k2, NoPolicy>>}

(* All policies compile, or an API change has made the deny on n1 invalid. *)
MCSurfaces ==
    LET every == Keys \X Policy
    IN  {every, every \ {<<k1, denyB>>}}

(* Two keys; a repeated key; a batch whose second element may not compile. *)
MCBatches ==
    {<<[key |-> k1, val |-> permitB], [key |-> k2, val |-> denyB]>>,
     <<[key |-> k2, val |-> denyB], [key |-> k2, val |-> permitB]>>,
     <<[key |-> k2, val |-> permitB], [key |-> k1, val |-> denyB]>>}

Symmetry == Permutations(Clients)
=============================================================================
