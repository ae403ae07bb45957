--------------------------- MODULE MCRequestPath ---------------------------
(***************************************************************************)
(* RequestPath with two actions and six policy bodies, each standing for   *)
(* one way a policy can behave.                                            *)
(***************************************************************************)
EXTENDS RequestPath

MCNames   == {"n1", "n2"}
MCActions == {"a1", "a2"}
MCBodies  == {"plain", "agents", "broken", "reads", "absorbs", "fails"}

const(t) == [reads |-> FALSE, val |-> [m \in Answers |-> t]]

(* True when upstream says yes; a failed fetch is an error. *)
reading == [reads |-> TRUE,
            val |-> [m \in Answers |-> IF m = "yes" THEN "true"
                                       ELSE IF m = "no" THEN "false" ELSE "error"]]
(* True unless upstream says yes: `failed || !yes` absorbs the failure. *)
absorbing == [reads |-> TRUE,
              val |-> [m \in Answers |-> IF m = "yes" THEN "false" ELSE "true"]]

(* "agents" does not apply to an anonymous caller; "fails" errors on one. *)
MCPrincipalPred ==
    [b \in MCBodies |-> [c \in Callers |->
        IF b = "agents" /\ c = "anonymous" THEN "false"
        ELSE IF b = "fails" /\ c = "anonymous" THEN "error" ELSE "true"]]

(* "agents" covers only a2; "broken" has a predicate that errors on a2. *)
MCActionPred ==
    [b \in MCBodies |-> [a \in MCActions |->
        IF b = "agents" /\ a = "a1" THEN "false"
        ELSE IF b = "broken" /\ a = "a2" THEN "error" ELSE "true"]]

MCCondition ==
    [b \in MCBodies |-> [a \in MCActions |->
        CASE b = "reads"   -> reading
          [] b = "absorbs" -> absorbing
          [] b = "fails"   -> const("error")
          [] b = "broken"  -> const("false")
          [] OTHER         -> const("true")]]

MCEdits == [name : MCNames, result : Results, body : MCBodies]

ok == [path |-> "claimed", auth |-> "valid", body |-> "ok", acts |-> <<"a1", "a2">>]
MCKinds ==
    {ok, [ok EXCEPT !.acts = <<"a1">>], [ok EXCEPT !.auth = "none"],
     [ok EXCEPT !.acts = <<>>], [ok EXCEPT !.acts = <<"error">>],
     [ok EXCEPT !.path = "malformed"], [ok EXCEPT !.path = "unclaimed"],
     [ok EXCEPT !.path = "unclaimed", !.auth = "none"], [ok EXCEPT !.auth = "invalid"],
     [ok EXCEPT !.body = "large"], [ok EXCEPT !.body = "unreadable"],
     [ok EXCEPT !.body = "unparsable"]}
=============================================================================
