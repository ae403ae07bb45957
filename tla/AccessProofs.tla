---------------------------- MODULE AccessProofs ----------------------------
(***************************************************************************)
(* The four properties of the control plane and its tokens, for any        *)
(* subjects, lifetimes, leeway, drafts and number of concurrent exchanges. *)
(*                                                                         *)
(* AccessInv strengthens ChainNeverExtends and AdminFromOperators by what  *)
(* the steps of an exchange rely on: a JWT under exchange was issued, and  *)
(* a cookie holds an issued JWT or none.                                   *)
(***************************************************************************)
EXTENDS ControlPlane, TLAPS

PolicySets == {"demo", "simple", "production"}

Sent     == [stage : {"sent"}, jwt : jwts]
Answered == [stage : {"answered"}, jwt : jwts, ttl : UpstreamTTLs, rotated : BOOLEAN]

Typed(j) == j.typ = "refresh" => j.exp \in Nat /\ j.first \in Nat

Bounded(j) == j.typ = "refresh" /\ j.first # 0 => j.exp # 0 /\ j.exp <= j.first

Granted(j) == j.admin => j.by = "admin"

Sound(j) == Typed(j) /\ Bounded(j) /\ Granted(j)

FlowOK(w) ==
  \/ flow[w] = NoFlow
  \/ flow[w] \in Sent \cup Answered /\ flow[w].jwt.typ = "refresh"

(* What holds between the steps of the token service ... *)
TokensInv ==
  /\ now \in Nat \ {0}
  /\ \A j \in jwts : Sound(j)
  /\ DOMAIN flow = Workers
  /\ \A w \in Workers : FlowOK(w)

(* ... and between the requests of the control plane. *)
AccessInv ==
  /\ TokensInv
  /\ policySet \in PolicySets
  /\ cookie \in jwts \cup {NoJWT}

-----------------------------------------------------------------------------
(* Issuing *)

(* A refresh JWT with a lifetime is bounded by its own expiry, one without *)
(* has none to keep to (IssueRefreshToken).                                *)
LEMMA NewRefreshSound ==
  ASSUME now \in Nat \ {0}, NEW sub, NEW ttl \in Nat, NEW admin, NEW key,
         NEW by, admin => by = "admin"
  PROVE  Sound(RefreshJWT(sub, ttl, admin, key, ExpiryOf(ttl), by))
<1> DEFINE e == ExpiryOf(ttl)
<1>1. e \in Nat
  BY DEF ExpiryOf
<1> HIDE DEF e
<1> QED
  BY <1>1 DEF Sound, Typed, Bounded, Granted, RefreshJWT, JWT, e

(* An access JWT belongs to no chain (IssueAccessToken). *)
LEMMA NewAccessSound ==
  ASSUME NEW sub, NEW ttl, NEW admin, NEW key, NEW by, admin => by = "admin"
  PROVE  Sound(AccessJWT(sub, ttl, admin, key, by))
BY DEF Sound, Typed, Bounded, Granted, AccessJWT, JWT

(* What is left of a token that has not expired is more than nothing and   *)
(* no more than that (rotatedRefreshTTL).                                  *)
LEMMA RotatedWithin ==
  ASSUME now \in Nat \ {0}, NEW exp \in Nat, Rotates(exp)
  PROVE  /\ RotatedTTL(exp) \in Nat
         /\ exp # 0 => RotatedTTL(exp) > 0 /\ now + RotatedTTL(exp) <= exp
BY TokensAssumption DEF Rotates, RotatedTTL

(* So a rotated JWT is as bounded as the one it replaces (issueResponse).  *)
LEMMA RotatedSound ==
  ASSUME now \in Nat \ {0}, NEW j, j.typ = "refresh", Sound(j), Rotates(j.exp)
  PROVE  Sound(RefreshJWT(j.sub, RotatedTTL(j.exp), j.admin, "server", j.first, j.by))
<1> DEFINE t == RotatedTTL(j.exp)
           r == RefreshJWT(j.sub, t, j.admin, "server", j.first, j.by)
<1>1. j.exp \in Nat /\ j.first \in Nat
  BY DEF Sound, Typed
<1>2. /\ t \in Nat
      /\ j.exp # 0 => t > 0 /\ now + t <= j.exp
  BY <1>1, RotatedWithin
<1>3. r.typ = "refresh" /\ r.exp = ExpiryOf(t) /\ r.first = j.first
      /\ r.admin = j.admin /\ r.by = j.by
  BY DEF RefreshJWT, JWT
<1> HIDE DEF t, r
<1>4. ExpiryOf(t) \in Nat
  BY <1>2 DEF ExpiryOf
<1>5. j.first # 0 => j.exp # 0 /\ j.exp <= j.first
  BY DEF Sound, Bounded
<1>6. j.first # 0 => ExpiryOf(t) # 0 /\ ExpiryOf(t) <= j.first
  BY <1>1, <1>2, <1>5 DEF ExpiryOf
<1>7. Granted(r)
  BY <1>3 DEF Sound, Granted
<1>8. Typed(r)
  BY <1>1, <1>3, <1>4 DEF Typed
<1>9. Bounded(r)
  BY <1>3, <1>6 DEF Bounded
<1>10. Sound(r)
  BY <1>7, <1>8, <1>9 DEF Sound
<1> QED
  BY <1>10 DEF r, t

(* Issued JWTs are kept, so what refers to one goes on to do so. *)
LEMMA FlowKept ==
  ASSUME TokensInv, jwts \subseteq jwts', NEW w \in Workers, flow'[w] = flow[w]
  PROVE  FlowOK(w)'
<1>1. FlowOK(w)
  BY DEF TokensInv
<1>2. CASE flow[w] = NoFlow
  BY <1>2 DEF FlowOK
<1>3. CASE flow[w] \in Sent /\ flow[w].jwt.typ = "refresh"
  <2>1. flow'[w] \in Sent'
    BY <1>3 DEF Sent
  <2> QED
    BY <1>3, <2>1 DEF FlowOK
<1>4. CASE flow[w] \in Answered /\ flow[w].jwt.typ = "refresh"
  <2>1. flow'[w] \in Answered'
    BY <1>4 DEF Answered
  <2> QED
    BY <1>4, <2>1 DEF FlowOK
<1> QED
  BY <1>1, <1>2, <1>3, <1>4 DEF FlowOK

(* A step that only issues sound JWTs. *)
LEMMA OnlyIssues ==
  ASSUME TokensInv, UNCHANGED <<now, flow>>, jwts \subseteq jwts',
         \A j \in jwts' \ jwts : Sound(j)
  PROVE  TokensInv'
<1>1. \A w \in Workers : FlowOK(w)'
  BY FlowKept
<1>2. (\A j \in jwts : Sound(j))'
  <2> SUFFICES ASSUME NEW j \in jwts' PROVE Sound(j)'
    OBVIOUS
  <2>1. Sound(j)
    BY DEF TokensInv
  <2> QED
    BY <2>1 DEF Sound, Typed, Bounded, Granted
<1> QED
  BY <1>1, <1>2 DEF TokensInv

LEMMA IssueKeeps ==
  ASSUME TokensInv, UNCHANGED <<now, flow>>, NEW sub, NEW ttl \in Nat, NEW admin,
         NEW key, NEW by, admin => by = "admin",
         \/ Issue(sub, ttl, admin, key, by)
         \/ IssueRefresh(sub, ttl, admin, key, by)
  PROVE  TokensInv' /\ jwts \subseteq jwts'
<1>1. now \in Nat \ {0}
  BY DEF TokensInv
<1>2. CASE Issue(sub, ttl, admin, key, by)
  BY <1>2, NewAccessSound, OnlyIssues DEF Issue
<1>3. CASE IssueRefresh(sub, ttl, admin, key, by)
  BY <1>1, <1>3, NewRefreshSound, OnlyIssues DEF IssueRefresh
<1> QED
  BY <1>2, <1>3

-----------------------------------------------------------------------------
(* The steps of the token service *)

LEMMA IssueTokenCmdKeeps ==
  ASSUME TokensInv, IssueTokenCmd
  PROVE  TokensInv' /\ jwts \subseteq jwts'
<1>1. UNCHANGED <<now, flow>>
  BY DEF IssueTokenCmd
<1>2. PICK sub \in Subjects, admin \in BOOLEAN, key \in {"server", "other"} :
        \/ \E ttl \in TTLs : Issue(sub, ttl, admin, key, "admin")
        \/ \E ttl \in TTLs \cup {0} : IssueRefresh(sub, ttl, admin, key, "admin")
  BY DEF IssueTokenCmd
<1>3. PICK ttl \in TTLs \cup {0} :
        \/ Issue(sub, ttl, admin, key, "admin")
        \/ IssueRefresh(sub, ttl, admin, key, "admin")
  BY <1>2
<1>4. ttl \in Nat
  BY TokensAssumption
<1> QED
  BY <1>1, <1>3, <1>4, IssueKeeps

LEMMA BeginExchangeKeeps ==
  ASSUME TokensInv, NEW w \in Workers, BeginExchange(w)
  PROVE  TokensInv' /\ jwts \subseteq jwts'
<1>1. UNCHANGED <<now, jwts>>
  BY DEF BeginExchange
<1>2. PICK j \in jwts : /\ Verify(j, "refresh")
                        /\ flow' = [flow EXCEPT ![w] = [stage |-> "sent", jwt |-> j]]
  BY DEF BeginExchange
<1>3. flow'[w] = [stage |-> "sent", jwt |-> j]
  BY <1>2 DEF TokensInv
<1>4. flow'[w] \in Sent' /\ flow'[w].jwt.typ = "refresh"
  BY <1>1, <1>2, <1>3 DEF Sent, Verify
<1>5. FlowOK(w)'
  BY <1>4 DEF FlowOK
<1>6. \A v \in Workers : FlowOK(v)'
  BY <1>1, <1>2, <1>5, FlowKept DEF TokensInv
<1>7. (\A i \in jwts : Sound(i))'
  BY <1>1 DEF TokensInv, Sound, Typed, Bounded, Granted
<1> QED
  BY <1>1, <1>2, <1>6, <1>7 DEF TokensInv

LEMMA ExchangeFailsKeeps ==
  ASSUME TokensInv, NEW w \in Workers, ExchangeFails(w)
  PROVE  TokensInv' /\ jwts \subseteq jwts'
<1>1. /\ UNCHANGED <<now, jwts>>
      /\ flow' = [flow EXCEPT ![w] = NoFlow]
  BY DEF ExchangeFails
<1>2. FlowOK(w)'
  BY <1>1 DEF FlowOK, TokensInv
<1>3. \A v \in Workers : FlowOK(v)'
  BY <1>1, <1>2, FlowKept DEF TokensInv
<1>4. (\A i \in jwts : Sound(i))'
  BY <1>1 DEF TokensInv, Sound, Typed, Bounded, Granted
<1> QED
  BY <1>1, <1>3, <1>4 DEF TokensInv

(* The stage tells which of the records of FlowOK a worker holds. *)
LEMMA UnderWay ==
  ASSUME TokensInv, NEW w \in Workers
  PROVE  /\ flow[w].stage = "sent" => flow[w] \in Sent
         /\ flow[w].stage = "answered" => flow[w] \in Answered
         /\ flow[w].stage \in {"sent", "answered"} => flow[w].jwt.typ = "refresh"
BY DEF TokensInv, FlowOK, NoFlow, Sent, Answered

LEMMA UpstreamAnswersKeeps ==
  ASSUME TokensInv, NEW w \in Workers, UpstreamAnswers(w)
  PROVE  TokensInv' /\ jwts \subseteq jwts'
<1>1. UNCHANGED <<now, jwts>>
  BY DEF UpstreamAnswers
<1>2. PICK ttl \in UpstreamTTLs, rotated \in BOOLEAN :
        flow' = [flow EXCEPT ![w] = [stage |-> "answered", jwt |-> flow[w].jwt,
                                     ttl |-> ttl, rotated |-> rotated]]
  BY DEF UpstreamAnswers
<1>3. flow[w].jwt \in jwts /\ flow[w].jwt.typ = "refresh"
  BY UnderWay DEF UpstreamAnswers, Sent
<1>4. flow'[w] = [stage |-> "answered", jwt |-> flow[w].jwt,
                  ttl |-> ttl, rotated |-> rotated]
  BY <1>2 DEF TokensInv
<1>5. flow'[w] \in Answered' /\ flow'[w].jwt.typ = "refresh"
  BY <1>1, <1>3, <1>4 DEF Answered
<1>6. FlowOK(w)'
  BY <1>5 DEF FlowOK
<1>7. \A v \in Workers : FlowOK(v)'
  BY <1>1, <1>2, <1>6, FlowKept DEF TokensInv
<1>8. (\A i \in jwts : Sound(i))'
  BY <1>1 DEF TokensInv, Sound, Typed, Bounded, Granted
<1> QED
  BY <1>1, <1>2, <1>7, <1>8 DEF TokensInv

LEMMA IssueResponseKeeps ==
  ASSUME TokensInv, NEW w \in Workers, IssueResponse(w)
  PROVE  TokensInv' /\ jwts \subseteq jwts'
<1> DEFINE f == flow[w]
           j == f.jwt
           a == AccessJWT(j.sub, f.ttl - Leeway, j.admin, "server", j.by)
           r == RefreshJWT(j.sub, RotatedTTL(j.exp), j.admin, "server", j.first, j.by)
<1>1. /\ flow' = [flow EXCEPT ![w] = NoFlow]
      /\ now' = now
      /\ jwts \subseteq jwts'
      /\ \A i \in jwts' \ jwts : i = a \/ (i = r /\ Rotates(j.exp))
  BY DEF IssueResponse
<1>2. j \in jwts /\ j.typ = "refresh"
  BY UnderWay DEF IssueResponse, Answered
<1>3. Sound(j) /\ now \in Nat \ {0}
  BY <1>2 DEF TokensInv
<1>4. j.admin => j.by = "admin"
  BY <1>3 DEF Sound, Granted
<1>5. Sound(a)
  BY <1>4, NewAccessSound
<1>6. Rotates(j.exp) => Sound(r)
  BY <1>2, <1>3, RotatedSound
<1> HIDE DEF a, r, j, f
<1>7. \A i \in jwts' : Sound(i)
  BY <1>1, <1>5, <1>6 DEF TokensInv
<1>8. FlowOK(w)'
  BY <1>1 DEF FlowOK, TokensInv
<1>9. \A v \in Workers : FlowOK(v)'
  BY <1>1, <1>8, FlowKept DEF TokensInv
<1>10. (\A i \in jwts : Sound(i))'
  BY <1>7 DEF Sound, Typed, Bounded, Granted
<1> QED
  BY <1>1, <1>9, <1>10 DEF TokensInv

LEMMA TickKeeps ==
  ASSUME TokensInv, Tick
  PROVE  TokensInv' /\ jwts \subseteq jwts'
<1>1. /\ UNCHANGED <<jwts, flow>>
      /\ now' = now + 1
  BY DEF Tick
<1>2. now' \in Nat \ {0}
  BY <1>1 DEF TokensInv
<1>3. \A v \in Workers : FlowOK(v)'
  BY <1>1, FlowKept
<1>4. (\A i \in jwts : Sound(i))'
  BY <1>1 DEF TokensInv, Sound, Typed, Bounded, Granted
<1> QED
  BY <1>1, <1>2, <1>3, <1>4 DEF TokensInv

LEMMA TokensStep ==
  ASSUME TokensInv, TNext
  PROVE  TokensInv' /\ jwts \subseteq jwts'
BY IssueTokenCmdKeeps, TickKeeps, BeginExchangeKeeps, ExchangeFailsKeeps,
   UpstreamAnswersKeeps, IssueResponseKeeps DEF TNext

-----------------------------------------------------------------------------
(* The gate *)

(* In each embedded policy set the guarded actions are an admin's alone.   *)
LEMMA GuardedIsAdmins ==
  ASSUME NEW set \in PolicySets, NEW action \in Guarded, NEW role,
         Permits(set, action, role)
  PROVE  role = "admin"
<1>1. action \notin UNION {LoginFlow, Discovery, PolicyReads, Drafting, ServiceReads, {"mcp"}}
  BY DEF Guarded, LoginFlow, Discovery, PolicyReads, Drafting, ServiceReads
<1>2. action \notin UNION {Pages, PolicyReads, Drafting, ServiceReads}
  BY DEF Guarded, Pages, PolicyReads, Drafting, ServiceReads
<1>3. action \notin DemoOpen /\ action \notin SimpleOpen /\ action \notin ProductionOpen
  BY <1>1 DEF DemoOpen, SimpleOpen, ProductionOpen
<1>4. action \notin SimpleUser
  BY <1>2 DEF SimpleUser
<1>5. action \notin OpenActions(set)
  BY <1>3 DEF OpenActions, PolicySets
<1>6. action \notin UserActions(set)
  BY <1>4 DEF UserActions
<1> QED
  BY <1>5, <1>6 DEF Permits

(* The credentials a request can carry. *)
Presented == {bearerOrCookie(h, c) : h \in Headers, c \in {cookie, NoJWT}}

LEMMA PresentedIssued ==
  ASSUME AccessInv, NEW j \in Presented
  PROVE  j \in jwts \cup {NoJWT}
BY DEF Presented, Headers, bearerOrCookie, AccessInv

(* Only a live access JWT of this server names a caller (AuthMiddleware,   *)
(* roleFor).                                                               *)
LEMMA CallerAuthentic ==
  ASSUME AccessInv, NEW j \in Presented, roleFor(j) # "anonymous"
  PROVE  Authentic(j)
<1>1. Verify(j, "access")
  BY DEF roleFor
<1>2. NoJWT.key = "other"
  BY DEF NoJWT, JWT
<1>3. j # NoJWT
  BY <1>1, <1>2 DEF Verify
<1> QED
  BY <1>1, <1>3, PresentedIssued DEF Verify, Authentic

LEMMA AdminAuthentic ==
  ASSUME AccessInv, NEW j \in Presented, roleFor(j) = "admin"
  PROVE  Authentic(j) /\ j.admin
<1>1. j.admin
  BY DEF roleFor
<1> QED
  BY <1>1, CallerAuthentic

LEMMA GuardedAuthentic ==
  ASSUME AccessInv, NEW j \in Presented, NEW action \in Guarded,
         Permits(policySet, action, roleFor(j))
  PROVE  roleFor(j) = "admin" /\ Authentic(j) /\ j.admin
BY GuardedIsAdmins, AdminAuthentic DEF AccessInv

(* A draft is visible to admins and to the subject that wrote it.          *)
LEMMA VisibleToOwner ==
  ASSUME AccessInv, NEW j \in Presented, NEW d \in Visible(j)
  PROVE  Authentic(j) /\ (j.admin \/ drafts[d].author = j.sub)
<1>1. CASE IsAdmin(j)
  BY <1>1, AdminAuthentic DEF IsAdmin
<1>2. CASE Subject(j) # "" /\ drafts[d].author = Subject(j)
  <2>1. Verify(j, "access") /\ drafts[d].author = j.sub
    BY <1>2 DEF Subject
  <2>2. roleFor(j) # "anonymous"
    BY <2>1 DEF roleFor
  <2> QED
    BY <2>1, <2>2, CallerAuthentic
<1> QED
  BY <1>1, <1>2 DEF Visible, callerCanSeeProposal

-----------------------------------------------------------------------------
(* What a request may do: the rest of the steps, by what they touch. *)

(* The answer shows nothing private. *)
Quiet == reply'.seen = {} /\ reply'.full = FALSE

LEMMA SilenceQuiet == Done => Quiet
BY DEF Done, Quiet, Silence, Answer

(* A step that issues nothing keeps the invariant. *)
LEMMA Keeps ==
  ASSUME AccessInv, UNCHANGED <<tvars, policySet>>, cookie' \in {cookie, NoJWT}
  PROVE  AccessInv'
<1>1. now' = now /\ jwts' = jwts /\ flow' = flow
  BY DEF tvars
<1>2. TokensInv'
  <2>1. \A v \in Workers : FlowOK(v)'
    BY <1>1, FlowKept DEF AccessInv
  <2>2. (\A i \in jwts : Sound(i))'
    BY <1>1 DEF AccessInv, TokensInv, Sound, Typed, Bounded, Granted
  <2> QED
    BY <1>1, <2>1, <2>2 DEF AccessInv, TokensInv
<1> QED
  BY <1>1, <1>2 DEF AccessInv

(* POST tokens/issue and tokens/issue/refresh. *)
LEMMA IssuingStep ==
  ASSUME AccessInv, NEW j \in Presented, TokensIssue(j) \/ TokensIssueRefresh(j)
  PROVE  AccessInv' /\ Quiet /\ live' = live
<1>1. "tokens_issue" \in Guarded /\ "tokens_issue_refresh" \in Guarded
  BY DEF Guarded
<1>2. roleFor(j) = "admin"
  BY <1>1, GuardedAuthentic DEF TokensIssue, TokensIssueRefresh
<1>3. PICK sub \in Subjects, ttl \in Nat, admin \in BOOLEAN :
        \/ Issue(sub, ttl, admin, "server", roleFor(j))
        \/ IssueRefresh(sub, ttl, admin, "server", roleFor(j))
  <2>1. CASE TokensIssue(j)
    <3>1. PICK sub \in Subjects :
            \/ \E ttl \in TTLs, admin \in BOOLEAN : Issue(sub, ttl, admin, "server", roleFor(j))
            \/ Issue(sub, LoginTTL, FALSE, "server", roleFor(j))
      BY <2>1 DEF TokensIssue
    <3>2. TTLs \subseteq Nat /\ LoginTTL \in Nat
      BY TokensAssumption, LoginAssumption
    <3> QED
      BY <3>1, <3>2
  <2>2. CASE TokensIssueRefresh(j)
    <3>1. PICK sub \in Subjects :
            \/ \E ttl \in TTLs \cup {0}, admin \in BOOLEAN :
                 IssueRefresh(sub, ttl, admin, "server", roleFor(j))
            \/ IssueRefresh(sub, 0, FALSE, "server", roleFor(j))
      BY <2>2 DEF TokensIssueRefresh
    <3>2. TTLs \cup {0} \subseteq Nat
      BY TokensAssumption
    <3> QED
      BY <3>1, <3>2
  <2> QED
    BY <2>1, <2>2
<1>4. UNCHANGED <<now, flow, policySet, live, cookie>> /\ Done
  BY DEF TokensIssue, TokensIssueRefresh
<1>5. TokensInv' /\ jwts \subseteq jwts'
  BY <1>2, <1>3, <1>4, IssueKeeps DEF AccessInv
<1>6. AccessInv'
  BY <1>4, <1>5 DEF AccessInv
<1> QED
  BY <1>4, <1>6, SilenceQuiet

(* What LiveNeedsAdmin asks of a step. *)
LiveStepOK == live' # live => reply'.jwt.admin /\ Authentic(reply'.jwt)

StepOK == AccessInv' /\ PrivateReads' /\ LiveStepOK

LEMMA QuietStep ==
  ASSUME AccessInv', Quiet, live' = live
  PROVE  StepOK
BY DEF Quiet, StepOK, PrivateReads, LiveStepOK

(* An admin changes the live policies: create, replace, import, delete,    *)
(* approve and the MCP tool.                                               *)
LEMMA LiveStep ==
  ASSUME AccessInv, NEW j \in Presented, roleFor(j) = "admin", DoneFor(j),
         UNCHANGED <<tvars, policySet, cookie>>
  PROVE  StepOK
<1>1. AccessInv'
  BY Keeps
<1>2. reply'.jwt = j /\ reply'.seen = {} /\ reply'.full = FALSE
  BY DEF DoneFor, Answer
<1> QED
  BY <1>1, <1>2, AdminAuthentic DEF StepOK, PrivateReads, LiveStepOK

(* A step that changes at most drafts and cookie and shows nothing. *)
LEMMA DraftStep ==
  ASSUME AccessInv, Done, UNCHANGED <<tvars, policySet, live>>,
         cookie' \in {cookie, NoJWT}
  PROVE  StepOK
BY Keeps, SilenceQuiet, QuietStep

(* Drafts are shown. *)
LEMMA ShowStep ==
  ASSUME AccessInv, NEW j \in Presented, NEW ids \in SUBSET Visible(j),
         Shows(j, ids), UNCHANGED <<tvars, policySet, live, drafts, cookie>>
  PROVE  StepOK
<1>1. AccessInv'
  BY Keeps
<1>2. reply'.seen = ids /\ reply'.full = FALSE /\ (ids # {} => reply'.jwt = j)
  BY DEF Shows, Answer
<1>3. \A d \in ids : Authentic(j) /\ (j.admin \/ drafts[d].author = j.sub)
  BY VisibleToOwner
<1>4. now' = now /\ jwts' = jwts /\ drafts' = drafts /\ live' = live
  BY DEF tvars
<1>5. \A d \in reply'.seen : /\ Authentic(reply.jwt)'
                             /\ reply'.jwt.admin \/ drafts'[d].author = reply'.jwt.sub
  BY <1>2, <1>3, <1>4 DEF Authentic
<1>6. PrivateReads'
  BY <1>2, <1>5 DEF PrivateReads
<1> QED
  BY <1>1, <1>4, <1>6 DEF StepOK, LiveStepOK

(* A traffic event is shown, in full to an admin only. *)
LEMMA EventStep ==
  ASSUME AccessInv, NEW j \in Presented, NEW full \in BOOLEAN,
         full => roleFor(j) = "admin",
         ShowsEvent(j, full), UNCHANGED <<tvars, policySet, live, drafts, cookie>>
  PROVE  StepOK
<1>1. AccessInv'
  BY Keeps
<1>2. reply'.seen = {} /\ reply'.full = full /\ (full => reply'.jwt = j)
  BY DEF ShowsEvent, Answer
<1>3. now' = now /\ jwts' = jwts /\ live' = live
  BY DEF tvars
<1>4. full => Authentic(reply.jwt)' /\ reply'.jwt.admin
  BY <1>2, <1>3, AdminAuthentic DEF Authentic
<1>5. PrivateReads'
  BY <1>2, <1>4 DEF PrivateReads
<1> QED
  BY <1>1, <1>3, <1>5 DEF StepOK, LiveStepOK

-----------------------------------------------------------------------------
(* Every request *)

LEMMA PolicyRequest ==
  ASSUME AccessInv, NEW j \in Presented, NEW n \in Names, NEW p \in Policies,
         PoliciesCreate(j, n, p) \/ PoliciesReplace(j, n, p) \/ PoliciesDelete(j, n)
  PROVE  StepOK
<1>1. {"policies_create", "policies_replace", "policies_import", "policies_delete"}
        \subseteq Guarded
  BY DEF Guarded
<1>2. \E a \in Guarded : Permits(policySet, a, roleFor(j))
  BY <1>1 DEF PoliciesCreate, PoliciesReplace, PoliciesDelete
<1>3. roleFor(j) = "admin"
  BY <1>2, GuardedAuthentic
<1>4. \E v : SetLive(j, n, v)
  BY DEF PoliciesCreate, PoliciesReplace, PoliciesDelete
<1>5. DoneFor(j) /\ UNCHANGED <<tvars, policySet, cookie>>
  BY <1>4 DEF SetLive
<1> QED
  BY <1>3, <1>5, LiveStep

LEMMA DraftRequest ==
  ASSUME AccessInv, NEW j \in Presented, NEW d, NEW n, NEW p,
         \/ ProposalsCreate(j, n, p) \/ ProposalsUpdate(j, d, n, p)
         \/ ProposalsDelete(j, d) \/ ProposalsReject(j, d)
  PROVE  StepOK
<1>1. \E e, r : SetDraft(e, r)
  BY DEF ProposalsCreate, CreateDraft, ProposalsUpdate, ProposalsDelete, ProposalsReject
<1>2. Done /\ UNCHANGED <<tvars, policySet, live, cookie>>
  BY <1>1 DEF SetDraft
<1> QED
  BY <1>2, DraftStep

LEMMA ApproveRequest ==
  ASSUME AccessInv, NEW j \in Presented, NEW d, ProposalsApprove(j, d)
  PROVE  StepOK
<1>1. "proposals_approve" \in Guarded
  BY DEF Guarded
<1>2. roleFor(j) = "admin"
  BY <1>1, GuardedAuthentic DEF ProposalsApprove
<1>3. DoneFor(j) /\ UNCHANGED <<tvars, policySet, cookie>>
  BY DEF ProposalsApprove
<1> QED
  BY <1>2, <1>3, LiveStep

LEMMA ProposeRequest ==
  ASSUME AccessInv, NEW j \in Presented, NEW n, NEW p, runProposePolicy(j, n, p)
  PROVE  StepOK
<1>1. CASE IsAdmin(j)
  <2>1. DoneFor(j) /\ UNCHANGED <<tvars, policySet, cookie>>
    BY <1>1 DEF runProposePolicy, SetLive
  <2> QED
    BY <1>1, <2>1, LiveStep DEF IsAdmin
<1>2. CASE ~IsAdmin(j)
  <2>1. \E e, r : SetDraft(e, r)
    BY <1>2 DEF runProposePolicy, CreateDraft
  <2>2. Done /\ UNCHANGED <<tvars, policySet, live, cookie>>
    BY <2>1 DEF SetDraft
  <2> QED
    BY <2>2, DraftStep
<1> QED
  BY <1>1, <1>2

LEMMA ReadingRequest ==
  ASSUME AccessInv, NEW j \in Presented, NEW d,
         \/ ProposalsList(j) \/ ProposalsGet(j, d) \/ runGetTrafficEvent(j)
         \/ TrafficGet(j) \/ Denied(j) \/ Read(j)
  PROVE  StepOK
<1>1. CASE ProposalsList(j)
  BY <1>1, ShowStep DEF ProposalsList
<1>2. CASE ProposalsGet(j, d)
  <2>1. {d} \cap Visible(j) \in SUBSET Visible(j)
    OBVIOUS
  <2> QED
    BY <1>2, <2>1, ShowStep DEF ProposalsGet
<1>3. CASE runGetTrafficEvent(j)
  <2>1. IsAdmin(j) \in BOOLEAN
    BY DEF IsAdmin
  <2>2. /\ ShowsEvent(j, IsAdmin(j))
        /\ UNCHANGED <<tvars, policySet, live, drafts, cookie>>
    BY <1>3 DEF runGetTrafficEvent
  <2>3. IsAdmin(j) => roleFor(j) = "admin"
    BY DEF IsAdmin
  <2> QED
    BY <2>1, <2>2, <2>3, EventStep
<1>4. CASE TrafficGet(j)
  <2>1. "traffic_get" \in Guarded
    BY DEF Guarded
  <2>2. roleFor(j) = "admin"
    BY <1>4, <2>1, GuardedAuthentic DEF TrafficGet
  <2> QED
    BY <1>4, <2>2, EventStep DEF TrafficGet
<1>5. CASE Denied(j) \/ Read(j)
  BY <1>5, DraftStep DEF Denied, Read
<1> QED
  BY <1>1, <1>2, <1>3, <1>4, <1>5

LEMMA RequestStep ==
  ASSUME AccessInv, NEW j \in Presented, Request(j)
  PROVE  StepOK
<1>1. CASE TokensIssue(j) \/ TokensIssueRefresh(j)
  BY <1>1, IssuingStep, QuietStep
<1>2. CASE ProposalsList(j) \/ runGetTrafficEvent(j) \/ TrafficGet(j) \/ Denied(j) \/ Read(j)
  BY <1>2, ReadingRequest
<1>3. CASE \E n \in Names, p \in Policies : PoliciesCreate(j, n, p) \/ PoliciesReplace(j, n, p)
  BY <1>3, PolicyRequest
<1>4. CASE \E n \in Names, p \in Policies :
             \/ ProposalsCreate(j, n, p)
             \/ \E d \in DraftIds : ProposalsUpdate(j, d, n, p)
  BY <1>4, DraftRequest
<1>5. CASE \E n \in Names, p \in Policies : runProposePolicy(j, n, p)
  BY <1>5, ProposeRequest
<1>6. CASE \E n \in Names : PoliciesDelete(j, n)
  <2>1. PICK n \in Names : PoliciesDelete(j, n)
    BY <1>6
  <2>2. "policies_delete" \in Guarded
    BY DEF Guarded
  <2>3. roleFor(j) = "admin"
    BY <2>1, <2>2, GuardedAuthentic DEF PoliciesDelete
  <2>4. DoneFor(j) /\ UNCHANGED <<tvars, policySet, cookie>>
    BY <2>1 DEF PoliciesDelete, SetLive
  <2> QED
    BY <2>3, <2>4, LiveStep
<1>7. CASE \E d \in DraftIds : ProposalsGet(j, d)
  BY <1>7, ReadingRequest
<1>8. CASE \E d \in DraftIds : ProposalsDelete(j, d) \/ ProposalsReject(j, d)
  BY <1>8, DraftRequest
<1>9. CASE \E d \in DraftIds : ProposalsApprove(j, d)
  BY <1>9, ApproveRequest
<1> QED
  BY <1>1, <1>2, <1>3, <1>4, <1>5, <1>6, <1>7, <1>8, <1>9 DEF Request

LEMMA LoginStep ==
  ASSUME AccessInv, Login
  PROVE  StepOK
<1> DEFINE j == AccessJWT(AdminSubject, LoginTTL, TRUE, "server", "admin")
<1>1. /\ jwts' = jwts \cup {j} /\ cookie' = j /\ Done
      /\ UNCHANGED <<now, flow, policySet, live>>
  BY DEF Login
<1>2. Sound(j)
  BY NewAccessSound
<1> HIDE DEF j
<1>3. TokensInv'
  BY <1>1, <1>2, OnlyIssues DEF AccessInv
<1>4. AccessInv'
  BY <1>1, <1>3 DEF AccessInv
<1> QED
  BY <1>1, <1>4, SilenceQuiet, QuietStep

(* Each step of the composed system. *)
LEMMA AccessStep ==
  ASSUME AccessInv, Next
  PROVE  StepOK
<1>1. CASE TNext /\ reply' = Silence /\ UNCHANGED <<policySet, live, drafts, cookie>>
  <2>1. TokensInv' /\ jwts \subseteq jwts'
    BY <1>1, TokensStep DEF AccessInv
  <2>2. AccessInv'
    BY <1>1, <2>1 DEF AccessInv
  <2>3. Quiet
    BY <1>1, SilenceQuiet DEF Done
  <2> QED
    BY <1>1, <2>2, <2>3, QuietStep
<1>2. CASE Login
  BY <1>2, LoginStep
<1>3. CASE Logout
  BY <1>3, DraftStep DEF Logout
<1>4. CASE \E j \in Presented : Request(j)
  BY <1>4, RequestStep
<1> QED
  BY <1>1, <1>2, <1>3, <1>4 DEF Next, Presented

LEMMA AccessStutter ==
  ASSUME AccessInv, UNCHANGED vars
  PROVE  AccessInv'
<1>1. UNCHANGED <<tvars, policySet, cookie>>
  BY DEF vars, cvars
<1> QED
  BY <1>1, Keeps

LEMMA AccessInit == Init => AccessInv /\ PrivateReads
<1> SUFFICES ASSUME Init PROVE AccessInv /\ PrivateReads
  OBVIOUS
<1>1. AccessInv
  BY DEF Init, TInit, AccessInv, TokensInv, FlowOK, PolicySets
<1>2. reply.seen = {} /\ reply.full = FALSE
  BY DEF Init, Silence, Answer
<1> QED
  BY <1>1, <1>2 DEF PrivateReads

(* Every JWT issued is sound, every exchange is of one of them, and the    *)
(* cookie is one of them or none.                                          *)
THEOREM AccessInvariant == Spec => []AccessInv
<1>1. AccessInv /\ [Next]_vars => AccessInv'
  BY AccessStep, AccessStutter DEF StepOK
<1> QED
  BY <1>1, AccessInit, PTL DEF Spec

-----------------------------------------------------------------------------
(* However long exchanges take and however many run at once, no rotation   *)
(* of a refresh JWT extends its chain (issueResponse, rotatedRefreshTTL).  *)
THEOREM ChainsEnd == Spec => []ChainNeverExtends
<1>1. AccessInv => ChainNeverExtends
  BY DEF AccessInv, TokensInv, Sound, Bounded, ChainNeverExtends
<1> QED
  BY <1>1, AccessInvariant, PTL

(* Under each of the embedded policy sets, every token with admin rights   *)
(* goes back to an operator or an admin (tokens_issue, issueResponse).     *)
THEOREM AdminGranted == Spec => []AdminFromOperators
<1>1. AccessInv => AdminFromOperators
  BY DEF AccessInv, TokensInv, Sound, Granted, AdminFromOperators
<1> QED
  BY <1>1, AccessInvariant, PTL

(* Drafts and full traffic events are shown to no one but the callers they *)
(* are for (callerCanSeeProposal, runGetTrafficEvent, the gate).           *)
THEOREM ReadsArePrivate == Spec => []PrivateReads
<1>1. AccessInv /\ PrivateReads /\ [Next]_vars => PrivateReads'
  <2> SUFFICES ASSUME AccessInv, PrivateReads, [Next]_vars PROVE PrivateReads'
    OBVIOUS
  <2>1. CASE Next
    BY <2>1, AccessStep DEF StepOK
  <2>2. CASE UNCHANGED vars
    BY <2>2 DEF vars, tvars, cvars, PrivateReads, Authentic
  <2> QED
    BY <2>1, <2>2
<1> QED
  BY <1>1, AccessInit, AccessInvariant, PTL DEF Spec

(* Nothing but an admin's request with an authentic token changes the live *)
(* policies (AuthMiddleware, the policy sets, propose_policy).             *)
THEOREM LiveChangesNeedAdmin == Spec => LiveNeedsAdmin
<1>1. AccessInv /\ [Next]_vars => [LiveStepOK]_vars
  BY AccessStep DEF StepOK
<1>2. [LiveStepOK]_vars => [live' # live => reply'.jwt.admin /\ Authentic(reply'.jwt)]_vars
  BY DEF LiveStepOK
<1> QED
  BY <1>1, <1>2, AccessInvariant, PTL DEF Spec, LiveNeedsAdmin
=============================================================================
