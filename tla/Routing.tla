------------------------------ MODULE Routing ------------------------------
(***************************************************************************)
(* How API definitions become a runtime (runtime.Builder: AddAPI, Build)   *)
(* and how a request path is read by it: split and decoded, routed to an   *)
(* API by its prefixes, matched against path templates, shown to policies  *)
(* and sent upstream.                                                      *)
(*                                                                         *)
(* A path is a sequence of tokens: "/" separates, "%2F" and "%25" are      *)
(* escapes, "%zz" a malformed one, "{x}" a template parameter, any other   *)
(* token a character.  API and meta names are sequences of labels, so that *)
(* the full name of a meta is a concatenation.                             *)
(***************************************************************************)
EXTENDS Integers, Sequences, FiniteSets, SequencesExt

CONSTANTS
  Configs,      \* sets of API definitions on disk
  Requests,     \* the requests: method and escaped path
  Params,       \* well-formed parameter tokens
  BadParams,    \* tokens with a stray or nested brace
  Reserved,     \* reservedTopLevelCEL
  None

ASSUME TokenAssumption == Params \cap BadParams = {}

VARIABLES
  config,       \* the definitions to be loaded
  pending,      \* Builder.pending: those added
  registry,     \* full names of the registered meta types
  phase,        \* "adding", "built" or "failed"
  routes,       \* Runtime.routes
  view          \* what the last request looked like, to whom

vars == <<config, pending, registry, phase, routes, view>>

-----------------------------------------------------------------------------
(* Paths *)

(* Strip one leading "/", then split on "/", keeping empty segments. *)
SplitPath(p) ==
  LET q == IF p # <<>> /\ Head(p) = "/" THEN Tail(p) ELSE p
      cuts == SetToSortSeq({0, Len(q) + 1} \cup {i \in DOMAIN q : q[i] = "/"}, <)
  IN  IF q = <<>> THEN <<>>
      ELSE [k \in 1 .. Len(cuts) - 1 |-> SubSeq(q, cuts[k] + 1, cuts[k + 1] - 1)]

(* url.PathUnescape of one token. *)
Unescape(t) == CASE t = "%2F" -> "/" [] t = "%25" -> "%" [] t = "%61" -> "a"
               [] OTHER -> t

Malformed(p) == \E i \in DOMAIN p : p[i] = "%zz"

SplitEscapedPath(p) ==
  LET segs == SplitPath(p)
  IN  [k \in DOMAIN segs |-> [i \in DOMAIN segs[k] |-> Unescape(segs[k][i])]]

(* Mutant: a decoded "%" is rendered as it is. *)
EscapeSlashOnly(c) == IF c = "/" THEN "%2F" ELSE c

Escape(c) == CASE c = "/" -> "%2F" [] c = "%" -> "%25" [] OTHER -> c

(* request.path *)
JoinSegments(segs) ==
  IF segs = <<>> THEN <<"/">>
  ELSE FlattenSeq([k \in DOMAIN segs |->
                     <<"/">> \o [i \in DOMAIN segs[k] |-> Escape(segs[k][i])]])

(* Mutant: the decoded path is joined. *)
JoinDecoded(base, p) ==
  LET rest == IF p # <<>> /\ Head(p) = "/" THEN Tail(p) ELSE p
      dir  == IF base # <<>> /\ Last(base) = "/" THEN base ELSE base \o <<"/">>
  IN  dir \o [i \in DOMAIN rest |-> Unescape(rest[i])]

(* The upstream path, as bytes; a protocol-relative reference and a scheme *)
(* are refused.                                                            *)
JoinPath(base, p) ==
  LET rest == IF p # <<>> /\ Head(p) = "/" THEN Tail(p) ELSE p
      dir  == IF base # <<>> /\ Last(base) = "/" THEN base ELSE base \o <<"/">>
      absolute == \/ IsPrefix(<<"/", "/">>, p)
                  \/ \E i \in DOMAIN p :
                       IsPrefix(<<":", "/", "/">>, SubSeq(p, i, Len(p)))
  IN  IF absolute THEN None ELSE dir \o rest

-----------------------------------------------------------------------------
(* Path templates and actions *)

IsParam(seg)   == Len(seg) = 1 /\ seg[1] \in Params
IsLiteral(seg) == \A i \in DOMAIN seg : seg[i] \notin Params \cup BadParams

parseSegmentOK(seg) == IsParam(seg) \/ IsLiteral(seg)

ParsePathTemplateOK(path) ==
  LET segs == SplitPath(path)
  IN  /\ segs # <<>>
      /\ \A k \in DOMAIN segs : parseSegmentOK(segs[k])
      /\ \A j, k \in DOMAIN segs :
            j # k /\ IsParam(segs[j]) /\ IsParam(segs[k]) => segs[j] # segs[k]

(* PathTemplate.Match: same length, literals byte for byte. *)
TemplateMatch(a, r, segs) ==
  LET t == SplitPath(a.path)
  IN  /\ r.method = a.method
      /\ Len(t) = Len(segs)
      /\ \A k \in DOMAIN t : IsParam(t[k]) \/ t[k] = segs[k]

Captures(a, segs) ==
  LET t == SplitPath(a.path)
      at == {k \in DOMAIN t : IsParam(t[k])}
  IN  [name \in {t[k][1] : k \in at} |->
         segs[CHOOSE k \in at : t[k] = <<name>>]]

HasTemplate(a) == a.path # <<>>

AllBinds(a) == a.bind \o a.binds

NewActionOK(a, metas) ==
  /\ a.bind = <<>> \/ a.binds = <<>>
  /\ (a.method = "") = (a.path = <<>>)
  /\ HasTemplate(a) => ParsePathTemplateOK(a.path)
  /\ HasTemplate(a) \/ a.filter # "none"
  /\ Range(AllBinds(a)) \subseteq metas
  /\ IsInjective(AllBinds(a))

(* Action.Match; the filter's value stands for its CEL program. *)
ActionMatch(a, r, segs) ==
  /\ HasTemplate(a) => TemplateMatch(a, r, segs)
  /\ a.filter \in {"none", "true"}

-----------------------------------------------------------------------------
(* Routes *)

hasSegmentPrefix(path, prefix) ==
  /\ Len(prefix) > 0 /\ Len(path) >= Len(prefix)
  /\ \A i \in 1 .. Len(prefix) : path[i] = prefix[i]

PrefixOK(raw) ==
  /\ raw # <<>> /\ Head(raw) = "/"
  /\ Last(raw) # "/"

(* Mutant: neighbours only. *)
NoConflictNearby(rs) ==
  \A i \in DOMAIN rs : i + 1 \in DOMAIN rs =>
     ~hasSegmentPrefix(rs[i + 1].segs, rs[i].segs)

NoConflict(rs) ==
  \A i, j \in DOMAIN rs : i # j => ~hasSegmentPrefix(rs[j].segs, rs[i].segs)

(* Definitions in the order of their names. *)
sortedPending == SetToSortSeq(pending, LAMBDA a, b : a.order < b.order)

Flat(specs) ==
  FlattenSeq([n \in DOMAIN specs |->
     [i \in DOMAIN specs[n].prefixes |->
        [segs |-> SplitPath(specs[n].prefixes[i]), api |-> specs[n].name]]])

routeRequest(segs) ==
  LET hits == {i \in DOMAIN routes : hasSegmentPrefix(segs, routes[i].segs)}
  IN  IF hits = {} THEN None
      ELSE routes[CHOOSE i \in hits : \A j \in hits : i <= j].api

-----------------------------------------------------------------------------
(* Builder *)

FullNames(a) == {a.name \o a.metas[i].name : i \in DOMAIN a.metas}

ValidateMetaFields(m) ==
  IsInjective(m.input) /\ IsInjective(m.output) /\ Range(m.input) \cap Range(m.output) = {}

(* registerAPITypes checks every meta before it registers any. *)
MetasOK(a) ==
  /\ \A i, j \in DOMAIN a.metas : i # j => a.metas[i].name # a.metas[j].name
  /\ FullNames(a) \cap registry = {}
  /\ \A i \in DOMAIN a.metas : ValidateMetaFields(a.metas[i])

AddAPIOK(a) ==
  /\ \A b \in pending : b.name # a.name
  /\ Len(a.name) = 1 => a.name[1] \notin Reserved
  /\ \A i \in DOMAIN a.metas :
        Len(a.metas[i].name) = 1 => a.metas[i].name[1] \notin Reserved
  /\ MetasOK(a)

(* Load adds one definition after the other and stops at an error. *)
AddAPI(a) ==
  /\ phase = "adding" /\ a \in config \ pending
  /\ IF AddAPIOK(a)
     THEN /\ pending' = pending \cup {a}
          /\ registry' = registry \cup FullNames(a)
          /\ phase' = phase
     ELSE /\ phase' = "failed"
          /\ UNCHANGED <<pending, registry>>
  /\ UNCHANGED <<config, routes, view>>

(* Mutant: binds resolve against the metas of the API itself. *)
compileOwnOK(a, metas) ==
  /\ \A i \in DOMAIN a.actions : NewActionOK(a.actions[i], FullNames(a))
  /\ a.status = 0 \/ a.status \in 200 .. 599
  /\ a.auth \in {"", "required", "optional"}

(* The types an output expression of the meta names. *)
CompileMetaOK(m) == m.refs \subseteq registry

compileAPIOK(a, metas) ==
  /\ \A i \in DOMAIN a.actions : NewActionOK(a.actions[i], metas)
  /\ a.status = 0 \/ a.status \in 200 .. 599
  /\ a.auth \in {"", "required", "optional"}

(* All metas before any action, then the routes. *)
Build ==
  /\ phase = "adding" /\ pending = config
  /\ LET flat == Flat(sortedPending)
         ok == /\ \A a \in pending : \A i \in DOMAIN a.metas : CompileMetaOK(a.metas[i])
               /\ \A a \in pending : compileAPIOK(a, registry)
               /\ \A a \in pending : \A i \in DOMAIN a.prefixes : PrefixOK(a.prefixes[i])
               /\ NoConflict(flat)
     IN  /\ phase' = IF ok THEN "built" ELSE "failed"
         /\ routes' = IF ok THEN flat ELSE routes
  /\ UNCHANGED <<config, pending, registry, view>>

-----------------------------------------------------------------------------
(* A request: what policies see of its path and what goes upstream. *)

APINamed(n) == CHOOSE a \in pending : a.name = n

Handle(r) ==
  /\ phase = "built" /\ ~Malformed(r.path)
  /\ LET segs == SplitEscapedPath(r.path)
         api  == routeRequest(segs)
         acts == IF api = None THEN <<>> ELSE APINamed(api).actions
     IN  view' = [segs |-> segs, path |-> JoinSegments(segs), api |-> api,
                  matched |-> {a \in Range(acts) : ActionMatch(a, r, segs)},
                  upstream |-> IF api = None THEN None
                               ELSE JoinPath(APINamed(api).base, r.path)]
  /\ UNCHANGED <<config, pending, registry, phase, routes>>

(* A malformed escape is answered 400 before any matching. *)
BadRequest(r) ==
  /\ phase = "built" /\ Malformed(r.path)
  /\ view' = None
  /\ UNCHANGED <<config, pending, registry, phase, routes>>

Init ==
  /\ config \in Configs
  /\ pending = {} /\ registry = {}
  /\ phase = "adding" /\ routes = <<>>
  /\ view = None

Next ==
  \/ \E a \in config : AddAPI(a)
  \/ Build
  \/ \E r \in Requests : Handle(r) \/ BadRequest(r)

Spec == Init /\ [][Next]_vars
-----------------------------------------------------------------------------
(* "Build-time validation guarantees at most one prefix matches any path"  *)
(* (runtime.go:380): so the scan of routeRequest does not depend on the    *)
(* order of the routes.                                                    *)
OneRoutePerPath ==
  phase = "built" =>
    \A r \in Requests : \A i, j \in DOMAIN routes :
       /\ hasSegmentPrefix(SplitEscapedPath(r.path), routes[i].segs)
       /\ hasSegmentPrefix(SplitEscapedPath(r.path), routes[j].segs)
       => i = j

(* A set of definitions every part of which is in order, binds to metas of *)
(* any of them included.                                                   *)
WellFormed(specs) ==
  LET metas == UNION {FullNames(a) : a \in specs}
      all   == {<<a, i>> : a \in specs, i \in 1 .. 3}
      given == {x \in all : x[2] \in DOMAIN x[1].prefixes}
      Segs(x) == SplitPath(x[1].prefixes[x[2]])
  IN  /\ \A a, b \in specs : a # b => a.name # b.name /\ FullNames(a) \cap FullNames(b) = {}
      /\ \A a \in specs :
            /\ Cardinality(FullNames(a)) = Len(a.metas)
            /\ {a.name} \cup {a.metas[i].name : i \in DOMAIN a.metas}
                 \subseteq Seq(STRING) \ {<<w>> : w \in Reserved}
            /\ \A i \in DOMAIN a.metas :
                  ValidateMetaFields(a.metas[i]) /\ a.metas[i].refs \subseteq metas
            /\ \A i \in DOMAIN a.actions : NewActionOK(a.actions[i], metas)
            /\ a.status \in {0} \cup 200 .. 599
            /\ a.auth \in {"", "required", "optional"}
      /\ \A x \in given : PrefixOK(x[1].prefixes[x[2]])
      /\ \A x, y \in given : x # y => ~IsPrefix(Segs(x), Segs(y))

(* "queueing the work makes cross-API references resolve regardless of     *)
(* insertion order" (runtime.go:42): whether a set of definitions loads    *)
(* depends on the set and not on the order in which they are added.        *)
LoadIsOrderFree ==
  /\ phase = "built" => WellFormed(config)
  /\ phase = "failed" => ~WellFormed(config)

(* request.path, request.path_segments and the captures of a template      *)
(* describe the same path: no separator is hidden in the rendering and no  *)
(* bare "%" could start an escape (path.go:145), and a template filled in  *)
(* with its captures is the path.                                          *)
PathViewsAgree ==
  view # None =>
    /\ "%" \notin Range(view.path)
    /\ SplitEscapedPath(view.path) = view.segs
    /\ \A a \in view.matched : HasTemplate(a) =>
         LET t == SplitPath(a.path)
         IN  view.segs = [k \in DOMAIN t |-> IF IsParam(t[k])
                                            THEN Captures(a, view.segs)[t[k][1]]
                                            ELSE t[k]]

(* "the bytes the upstream sees match what the policy evaluated"           *)
(* (http.go:278): below its base path the upstream reads the segments the  *)
(* policies judged, encoded slashes and empty segments included.           *)
UpstreamSeesTheSamePath ==
  view # None /\ view.api # None =>
    \/ view.upstream = None
    \/ LET n == Len(SplitEscapedPath(view.upstream))
       IN  SubSeq(SplitEscapedPath(view.upstream), n - Len(view.segs) + 1, n)
             = view.segs
=============================================================================
