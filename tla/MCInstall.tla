------------------------------ MODULE MCInstall ------------------------------
(* Two processes on one data directory: an operator's commands, servers    *)
(* that boot, and upstream repositories whose branches move.               *)
EXTENDS DataDir

\* Repository r has a second commit that renames the bundle in its
\* manifest; repository q ships a bundle of the same name as r's first.
MCSlugs == {"r", "q"}
MCShas  == {"r1", "r2", "q1"}
MCNames == {"n", "m"}
MCHistory == [s \in MCSlugs |-> IF s = "r" THEN <<"r1", "r2">> ELSE <<"q1">>]
MCManifestName == [c \in MCShas |-> IF c = "r2" THEN "m" ELSE "n"]
MCAPIsOf == [c \in MCShas |-> IF c = "q1" THEN {"y"} ELSE {"x"}]
MCWithApis == {<<>>, <<"r", "q">>}
MCNameOrder == <<"m", "n">>
MCSymmetry == Permutations(Procs)
=============================================================================
