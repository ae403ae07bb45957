---------------------------- MODULE ControlPlane ----------------------------
(***************************************************************************)
(* The control plane (server/admin, its MCP endpoint included) in front of *)
(* the policy and proposal services: AuthMiddleware names the caller, the  *)
(* embedded policy set the operator chose at boot decides which of the     *)
(* internal actions they may take, and the handlers act for them.          *)
(*                                                                         *)
(* A request is one step: the interleavings inside the services are those  *)
(* of PolicyService and Proposals.  A policy is a value under a name.      *)
(***************************************************************************)
EXTENDS Tokens

CONSTANTS
  Names, Policies,  \* of live policies and drafts
  DraftIds,
  PasswordSet,      \* whether --admin-password-hash is set
  LoginTTL          \* loginTTL, defaultAccessTokenTTL

ASSUME LoginAssumption == LoginTTL \in Nat \ {0}

VARIABLES
  policySet,   \* --internal-policies
  live,        \* the policy service
  drafts,      \* the proposal service
  cookie,      \* the admin cookie of one browser
  reply        \* the last answer: the JWT that changed a live policy or
               \* was shown private data, and the data shown

cvars == <<policySet, live, drafts, cookie, reply>>
vars == <<tvars, cvars>>

NoPolicy == "none"
NoDraft == [status |-> "none", author |-> "", name |-> "", policy |-> NoPolicy]
NoJWT == JWT("none", "", FALSE, 0, "other", 0, "")
AdminSubject == "admin"

-----------------------------------------------------------------------------
(* The actions of api.yaml, in the groups the policy sets treat alike. *)

LoginFlow == {"ui_login", "login", "logout", "policies_capabilities"}
Discovery == {"whoami", "ca_download", "docs_agent", "docs_policies", "docs_apis",
              "apis_list", "apis_readme"}
PolicyReads == {"policies_list", "policies_get", "policies_dryrun", "policies_export"}
Drafting == {"proposals_list", "proposals_create", "proposals_get",
             "proposals_update", "proposals_delete"}
ServiceReads == {"services_list", "services_get"}
Pages == {"ui_index", "ui_tokens", "ui_policies", "ui_proposals", "ui_traffic",
          "ui_settings", "ui_services"}
Guarded == {"tokens_issue", "tokens_issue_refresh", "policies_create",
            "policies_replace", "policies_delete", "policies_import",
            "proposals_approve", "proposals_reject", "traffic_list", "traffic_get"}

Actions == UNION {LoginFlow, Discovery, PolicyReads, Drafting, ServiceReads, Pages,
                  Guarded, {"mcp"}}

DemoOpen == UNION {LoginFlow, Discovery, PolicyReads, Drafting, ServiceReads, {"mcp"}}
SimpleOpen == UNION {LoginFlow, Discovery, {"mcp"}}
SimpleUser == UNION {Pages, PolicyReads, Drafting, ServiceReads}
ProductionOpen == LoginFlow

(* Mutant: authenticated callers have the demo set's guarded actions. *)
SlackUser(set) == IF set = "demo" THEN Guarded ELSE IF set = "simple" THEN SimpleUser ELSE {}

OpenActions(set) ==
  CASE set = "demo" -> DemoOpen [] set = "simple" -> SimpleOpen
    [] set = "production" -> ProductionOpen

UserActions(set) == IF set = "simple" THEN SimpleUser ELSE {}

(* An action no policy of the set permits is denied. *)
Permits(set, action, role) ==
  \/ action \in OpenActions(set)
  \/ action \in UserActions(set) /\ role \in {"user", "admin"}
  \/ role = "admin"

-----------------------------------------------------------------------------
(* AuthMiddleware *)

(* Any Authorization header, a Bearer or not, hides the cookie. *)
Headers == {[scheme |-> "absent", jwt |-> NoJWT], [scheme |-> "basic", jwt |-> NoJWT]}
             \cup {[scheme |-> "bearer", jwt |-> j] : j \in jwts}

bearerOrCookie(h, c) == IF h.scheme = "absent" THEN c ELSE h.jwt

roleFor(j) ==
  IF ~Verify(j, "access") THEN "anonymous" ELSE IF j.admin THEN "admin" ELSE "user"
Subject(j) == IF Verify(j, "access") THEN j.sub ELSE ""
IsAdmin(j) == roleFor(j) = "admin"

-----------------------------------------------------------------------------
(* Answers *)

Answer(j, seen, full) == [jwt |-> j, seen |-> seen, full |-> full]

Silence == Answer(NoJWT, {}, FALSE)
Done == reply' = Silence
DoneFor(j) == reply' = Answer(j, {}, FALSE)
Shows(j, ids) == reply' = Answer(IF ids = {} THEN NoJWT ELSE j, ids, FALSE)
ShowsEvent(j, full) == reply' = Answer(IF full THEN j ELSE NoJWT, {}, full)

(* A redirect to the login page, 401 or 403. *)
Denied(j) ==
  /\ LET role == roleFor(j) IN ~\A a \in Actions : Permits(policySet, a, role)
  /\ Done
  /\ UNCHANGED <<tvars, policySet, live, drafts, cookie>>

-----------------------------------------------------------------------------
(* Sessions *)

Login ==
  /\ PasswordSet /\ Cardinality(jwts) < MaxJWTs
  /\ LET j == AccessJWT(AdminSubject, LoginTTL, TRUE, "server", "admin") IN
       jwts' = jwts \cup {j} /\ cookie' = j
  /\ Done
  /\ UNCHANGED <<now, flow, policySet, live, drafts>>

Logout ==
  /\ cookie' = NoJWT
  /\ Done
  /\ UNCHANGED <<tvars, policySet, live, drafts>>

(* POST tokens/issue and tokens/issue/refresh: a raw specification, or a   *)
(* variant of a service, which never makes an admin.                       *)
TokensIssue(j) ==
  /\ Permits(policySet, "tokens_issue", roleFor(j))
  /\ \E sub \in Subjects :
       \/ \E ttl \in TTLs, admin \in BOOLEAN : Issue(sub, ttl, admin, "server", roleFor(j))
       \/ Issue(sub, LoginTTL, FALSE, "server", roleFor(j))
  /\ Done
  /\ UNCHANGED <<now, flow, policySet, live, drafts, cookie>>

TokensIssueRefresh(j) ==
  /\ Permits(policySet, "tokens_issue_refresh", roleFor(j))
  /\ \E sub \in Subjects :
       \/ \E ttl \in TTLs \cup {0}, admin \in BOOLEAN :
            IssueRefresh(sub, ttl, admin, "server", roleFor(j))
       \/ IssueRefresh(sub, 0, FALSE, "server", roleFor(j))
  /\ Done
  /\ UNCHANGED <<now, flow, policySet, live, drafts, cookie>>

-----------------------------------------------------------------------------
(* Live policies: create, replace and import, delete *)

SetLive(j, n, p) ==
  /\ live' = [live EXCEPT ![n] = p]
  /\ DoneFor(j)
  /\ UNCHANGED <<tvars, policySet, drafts, cookie>>

PoliciesCreate(j, n, p) ==
  /\ Permits(policySet, "policies_create", roleFor(j))
  /\ live[n] = NoPolicy /\ SetLive(j, n, p)

PoliciesReplace(j, n, p) ==
  /\ \E a \in {"policies_replace", "policies_import"} : Permits(policySet, a, roleFor(j))
  /\ SetLive(j, n, p)

PoliciesDelete(j, n) ==
  /\ Permits(policySet, "policies_delete", roleFor(j))
  /\ live[n] # NoPolicy /\ SetLive(j, n, NoPolicy)

-----------------------------------------------------------------------------
(* Drafts *)

SetDraft(d, r) ==
  /\ drafts' = [drafts EXCEPT ![d] = r]
  /\ Done
  /\ UNCHANGED <<tvars, policySet, live, cookie>>

CreateDraft(author, n, p) ==
  \E d \in DraftIds :
    /\ drafts[d].status = "none"
    /\ SetDraft(d, [status |-> "proposed", author |-> author, name |-> n, policy |-> p])

(* An admin may write on behalf of another author. *)
ProposalsCreate(j, n, p) ==
  /\ Permits(policySet, "proposals_create", roleFor(j))
  /\ \E author \in IF IsAdmin(j) THEN Subjects \cup {""} ELSE {Subject(j)} :
       CreateDraft(author, n, p)

(* Mutant: nobody is like anybody. *)
CanSeeAlike(j, r) == IsAdmin(j) \/ r.author = Subject(j)

callerCanSeeProposal(j, r) ==
  IsAdmin(j) \/ (Subject(j) # "" /\ r.author = Subject(j))

Visible(j) == {d \in DraftIds : drafts[d].status # "none" /\ callerCanSeeProposal(j, drafts[d])}

ProposalsList(j) ==
  /\ Permits(policySet, "proposals_list", roleFor(j))
  /\ Shows(j, Visible(j))
  /\ UNCHANGED <<tvars, policySet, live, drafts, cookie>>

ProposalsGet(j, d) ==
  /\ Permits(policySet, "proposals_get", roleFor(j))
  /\ Shows(j, {d} \cap Visible(j))
  /\ UNCHANGED <<tvars, policySet, live, drafts, cookie>>

ProposalsUpdate(j, d, n, p) ==
  /\ Permits(policySet, "proposals_update", roleFor(j))
  /\ d \in Visible(j) /\ drafts[d].status = "proposed"
  /\ SetDraft(d, [drafts[d] EXCEPT !.name = n, !.policy = p])

ProposalsDelete(j, d) ==
  /\ Permits(policySet, "proposals_delete", roleFor(j))
  /\ d \in Visible(j)
  /\ SetDraft(d, NoDraft)

ProposalsApprove(j, d) ==
  /\ Permits(policySet, "proposals_approve", roleFor(j))
  /\ drafts[d].status = "proposed"
  /\ \E overwrite \in BOOLEAN : overwrite \/ live[drafts[d].name] = NoPolicy
  /\ drafts' = [drafts EXCEPT ![d].status = "approved"]
  /\ live' = [live EXCEPT ![drafts[d].name] = drafts[d].policy]
  /\ DoneFor(j)
  /\ UNCHANGED <<tvars, policySet, cookie>>

ProposalsReject(j, d) ==
  /\ Permits(policySet, "proposals_reject", roleFor(j))
  /\ drafts[d].status = "proposed"
  /\ SetDraft(d, [drafts[d] EXCEPT !.status = "rejected"])

-----------------------------------------------------------------------------
(* MCP *)

(* Mutant: a valid policy is applied at once, whoever proposes it. *)
ProposeToLive(j, n, p) ==
  /\ Permits(policySet, "mcp", roleFor(j))
  /\ live[n] = NoPolicy /\ SetLive(j, n, p)

(* propose_policy: a free name, live for an admin, a draft for others. *)
runProposePolicy(j, n, p) ==
  /\ Permits(policySet, "mcp", roleFor(j))
  /\ live[n] = NoPolicy
  /\ IF IsAdmin(j) THEN SetLive(j, n, p) ELSE CreateDraft(Subject(j), n, p)

(* get_traffic_event: redacted but for an admin. *)
runGetTrafficEvent(j) ==
  /\ Permits(policySet, "mcp", roleFor(j))
  /\ ShowsEvent(j, IsAdmin(j))
  /\ UNCHANGED <<tvars, policySet, live, drafts, cookie>>

TrafficGet(j) ==
  /\ Permits(policySet, "traffic_get", roleFor(j))
  /\ ShowsEvent(j, TRUE)
  /\ UNCHANGED <<tvars, policySet, live, drafts, cookie>>

(* Every other action, tool, resource or prompt reads. *)
Reads == UNION {Discovery, PolicyReads, ServiceReads, Pages,
                {"mcp", "ui_login", "policies_capabilities", "traffic_list"}}

Read(j) ==
  /\ LET role == roleFor(j) IN ~\A a \in Reads : ~Permits(policySet, a, role)
  /\ Done
  /\ UNCHANGED <<tvars, policySet, live, drafts, cookie>>

-----------------------------------------------------------------------------
Request(j) ==
  \/ TokensIssue(j) \/ TokensIssueRefresh(j) \/ ProposalsList(j)
  \/ runGetTrafficEvent(j) \/ TrafficGet(j) \/ Denied(j) \/ Read(j)
  \/ \E n \in Names, p \in Policies :
       \/ PoliciesCreate(j, n, p) \/ PoliciesReplace(j, n, p)
       \/ ProposalsCreate(j, n, p) \/ runProposePolicy(j, n, p)
       \/ \E d \in DraftIds : ProposalsUpdate(j, d, n, p)
  \/ \E n \in Names : PoliciesDelete(j, n)
  \/ \E d \in DraftIds :
       ProposalsGet(j, d) \/ ProposalsDelete(j, d) \/ ProposalsApprove(j, d) \/ ProposalsReject(j, d)

Init ==
  /\ TInit
  /\ policySet \in {"demo", "simple", "production"}
  /\ live = [n \in Names |-> NoPolicy] /\ drafts = [d \in DraftIds |-> NoDraft]
  /\ cookie = NoJWT /\ reply = Silence

Next ==
  \/ TNext /\ reply' = Silence /\ UNCHANGED <<policySet, live, drafts, cookie>>
  \/ Login \/ Logout
  \/ \E j \in {bearerOrCookie(h, c) : h \in Headers, c \in {cookie, NoJWT}} : Request(j)

Spec == Init /\ [][Next]_vars

-----------------------------------------------------------------------------
(* An access token of this server that is not past its expiry and leeway. *)
Authentic(j) ==
  j \in jwts /\ j.typ = "access" /\ j.key = "server" /\ now < j.exp + Leeway

(* A token that makes an admin goes back to a secret holder, a password or *)
(* an admin: no chain of issuing, refreshing and rotating lets a lesser    *)
(* caller become one (tokens_issue, issueResponse, the gate).              *)
AdminFromOperators ==
  \A j \in jwts : j.admin => j.by = "admin"

(* The live policies change only by a request that carries an admin's      *)
(* authentic access token: not by an expired session's cookie, a refresh   *)
(* token, or a draft an agent proposed over MCP.                           *)
LiveNeedsAdmin ==
  [][live' # live =>
       reply'.jwt.admin /\ Authentic(reply'.jwt)]_vars

(* A draft is shown to its author and to admins, one by an anonymous       *)
(* caller to admins only, and a traffic event in full to admins only.      *)
PrivateReads ==
  LET j == reply.jwt IN
  /\ \A d \in reply.seen : Authentic(j) /\ (j.admin \/ drafts[d].author = j.sub)
  /\ reply.full => Authentic(j) /\ j.admin
=============================================================================
