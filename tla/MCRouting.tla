----------------------------- MODULE MCRouting -----------------------------
(* Small sets of API definitions, good and bad, and every path of up to    *)
(* three tokens at the root and below /b/a.                                *)
EXTENDS Routing

Action(method, path, filter, binds) ==
  [method |-> method, path |-> path, filter |-> filter, bind |-> <<>>, binds |-> binds]

Meta(name) == [name |-> name, input |-> <<"id">>, output |-> <<"size">>, refs |-> {}]

(* The defaults of a definition; its place in the order of names. *)
API(n, name) ==
  [order |-> n, name |-> name, base |-> <<>>, prefixes |-> <<>>, metas |-> <<>>,
   actions |-> <<>>, status |-> 0, auth |-> ""]

(* g binds a meta of d; the output of that one names a meta of g. *)
Drive == [API(1, <<"d">>) EXCEPT
            !.base = <<"/", "b">>, !.prefixes = << <<"/", "a">> >>,
            !.metas = <<[Meta(<<"f">>) EXCEPT !.refs = {<<"g", "m">>}]>>,
            !.actions = <<Action("GET", <<"/", "a", "/", "{x}">>, "none", <<>>)>>]
Gmail == [API(2, <<"g">>) EXCEPT
            !.base = <<"/", "b", "/">>,
            !.prefixes = << <<"/", "b", "/", "a">>, <<"/", "b", "/", "b">> >>,
            !.metas = <<Meta(<<"m">>)>>,
            !.actions = <<Action("GET", <<"/", "b", "/", "{x}", "/", "{y}">>, "true",
                                 << <<"d", "f">> >>),
                          Action("", <<>>, "false", <<>>)>>]
Files == [Drive EXCEPT !.metas = <<Meta(<<"f">>)>>]
(* Conflicts with Files, equal or longer; with itself. *)
Equal  == [API(3, <<"e">>) EXCEPT !.prefixes = << <<"/", "b">>, <<"/", "a">> >>]
Longer == [API(4, <<"l">>) EXCEPT !.prefixes = << <<"/", "a", "/", "b">> >>]
Twice  == [API(5, <<"t">>) EXCEPT !.prefixes = << <<"/", "b">>, <<"/", "b">> >>]
(* A second meta named d.f.x, and one of another API with a dotted name. *)
Dotted == [API(6, <<"d", "f">>) EXCEPT !.metas = <<Meta(<<"y">>), Meta(<<"x">>)>>]
Shadow == [API(7, <<"d">>) EXCEPT !.metas = <<Meta(<<"f", "x">>), Meta(<<"z">>)>>]
Bad ==
  {[API(8, <<"request">>) EXCEPT !.status = 200],
   [API(8, <<"s">>) EXCEPT !.status = 600],
   [API(8, <<"s">>) EXCEPT !.auth = "maybe"],
   [API(8, <<"s">>) EXCEPT !.prefixes = << <<"a">> >>],
   [API(8, <<"s">>) EXCEPT !.prefixes = << <<"/", "a", "/">> >>],
   [API(8, <<"s">>) EXCEPT !.metas = <<[Meta(<<"m">>) EXCEPT !.output = <<"id">>]>>],
   [API(8, <<"s">>) EXCEPT !.metas = <<Meta(<<"m">>), Meta(<<"m">>)>>],
   [API(8, <<"s">>) EXCEPT !.metas = <<Meta(<<"principal">>)>>],
   [API(8, <<"s">>) EXCEPT
      !.actions = <<Action("GET", <<"/", "{x}", "/", "{x}">>, "none", <<>>)>>],
   [API(8, <<"s">>) EXCEPT !.actions = <<Action("GET", <<"/", "{x">>, "none", <<>>)>>],
   [API(8, <<"s">>) EXCEPT !.actions = <<Action("", <<>>, "none", <<>>)>>],
   [API(8, <<"s">>) EXCEPT !.actions = <<Action("", <<>>, "true", << <<"d", "f">> >>)>>]}

MCConfigs ==
  {{Drive, Gmail}, {Drive}, {Gmail}, {Files, Gmail, Equal}, {Files, Longer}, {Twice},
   {Dotted, Shadow}, {Files, Dotted}, {Files, Shadow}} \cup {{b} : b \in Bad}

Tokens == {"/", "a", "b", "%2F", "%25", "%61"}
MCRequests ==
  [method : {"GET"}, path : {<<"/">> \o s : s \in BoundedSeq(Tokens, 3)}
                              \cup {<<"/", "b", "/", "a">> \o s : s \in BoundedSeq(Tokens, 3)}
                              \cup {<<"/", "a", "%zz">>, <<"/", "a", ":", "/", "/", "b">>}]
=============================================================================
