---------------------------- MODULE MCFileStore ----------------------------
(* Two APIs, two names; "a.yaml" sorts before and "z.yaml" after the       *)
(* canonical files.                                                        *)
EXTENDS FileStore

MCAPIs  == {"p", "q"}
MCNames == {"n1", "n2"}
MCCanonical == [p |-> "p_policy", q |-> "q_policy"]
MCFileOrder == <<"a", "p_policy", "q_policy", "z">>

P(n, b) == [api |-> "p", name |-> n, body |-> b, plain |-> TRUE]
Q(n, b) == [api |-> "q", name |-> n, body |-> b, plain |-> TRUE]

(* Canonical files, legacy files before and after them, a key in two       *)
(* files, two APIs in one legacy file, an entry spelt with escapes.        *)
LegacyEdits ==
    {<<"p_policy", <<P("n1", "old"), P("n2", "old")>> >>,
     <<"q_policy", <<Q("n1", "old")>> >>,
     <<"a", <<P("n1", "old")>> >>,
     <<"z", <<P("n1", "old"), P("n2", "old"), Q("n1", "old")>> >>,
     <<"z", <<[P("n1", "old") EXCEPT !.plain = FALSE]>> >>}

(* One legacy file that lists each policy once. *)
TwoInOneFile == {<<"z", <<P("n1", "old"), P("n2", "old")>> >>}
=============================================================================
