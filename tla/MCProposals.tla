---------------------------- MODULE MCProposals ----------------------------
(* One reviewer, one agent and one direct writer around one policy name,   *)
(* which a seed file may hold and lose.                                    *)
EXTENDS Proposals

k1 == <<"api", "n1">>
permitB == [result |-> Permit, body |-> "b"]

MCAPIs       == {"api"}
MCNames      == {"n1"}
MCKeyOrder   == <<k1>>
MCSeedOrders == {<<k1>>}
MCSeedEdits  == {<<k1, permitB>>, <<k1, NoPolicy>>}
MCSurfaces   == {Keys \X Policy}
MCBatches    == {<<[key |-> k1, val |-> permitB]>>}
=============================================================================
