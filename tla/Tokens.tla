------------------------------- MODULE Tokens -------------------------------
(***************************************************************************)
(* The server's JWTs: who issues them (the issue-token command, and the    *)
(* handlers of ControlPlane), how they are verified (auth), and how POST   *)
(* /token (server/oauth) exchanges a refresh JWT for an access JWT and,    *)
(* when the upstream rotated its own token, a new refresh JWT.             *)
(*                                                                         *)
(* An exchange takes several steps: the JWT is verified, the upstream      *)
(* answers or not, and the response is issued at a later time.  The        *)
(* credentials inside a JWT are sealed and never inspected.  Times count   *)
(* seconds from 1; as in the code, the zero time means "no expiry".        *)
(***************************************************************************)
EXTENDS Integers, FiniteSets

CONSTANTS
  Subjects,       \* the subjects of issued tokens
  TTLs,           \* lifetimes an operator gives
  UpstreamTTLs,   \* values of expires_in
  RefreshTTL,     \* Handler.refreshTTL; 0 is no limit
  Leeway,         \* jwtLeeway, AccessLeeway
  Workers,        \* concurrent calls of POST /token
  MaxTime, MaxJWTs \* bounds

ASSUME TokensAssumption ==
  /\ {RefreshTTL, Leeway, MaxTime, MaxJWTs} \cup TTLs \cup UpstreamTTLs \subseteq Nat
  /\ 0 \notin TTLs

VARIABLES
  now,
  jwts,     \* every JWT ever issued
  flow      \* the exchange of each worker

tvars == <<now, jwts, flow>>

(* The claims typ, sub, admin and exp, and the secret it was signed with.  *)
(* first and by are history: the exp of the refresh JWT a chain began with *)
(* and the role that asked for the chain's first token.                    *)
JWT(typ, sub, admin, exp, key, first, by) ==
  [typ |-> typ, sub |-> sub, admin |-> admin, exp |-> exp, key |-> key,
   first |-> first, by |-> by]

NoFlow == [stage |-> "idle"]

-----------------------------------------------------------------------------
(* auth: issue and verify *)

ExpiryOf(ttl) == IF ttl > 0 THEN now + ttl ELSE 0

AccessJWT(sub, ttl, admin, key, by) ==
  JWT("access", sub, admin, now + ttl, key, 0, by)

RefreshJWT(sub, ttl, admin, key, first, by) ==
  JWT("refresh", sub, admin, ExpiryOf(ttl), key, first, by)

Verify(j, typ) ==
  /\ j.key = "server" /\ j.typ = typ
  /\ \/ j.exp = 0 /\ typ = "refresh"
     \/ j.exp # 0 /\ now < j.exp + Leeway

-----------------------------------------------------------------------------
(* tokens.Issue and IssueRefresh, and the command that calls them *)

Issue(sub, ttl, admin, key, by) ==
  /\ ttl > 0 /\ Cardinality(jwts) < MaxJWTs
  /\ jwts' = jwts \cup {AccessJWT(sub, ttl, admin, key, by)}

IssueRefresh(sub, ttl, admin, key, by) ==
  /\ Cardinality(jwts) < MaxJWTs
  /\ jwts' = jwts \cup {RefreshJWT(sub, ttl, admin, key, ExpiryOf(ttl), by)}

(* Run by whoever holds a secret, the server's or another server's. *)
IssueTokenCmd ==
  /\ \E sub \in Subjects, admin \in BOOLEAN, key \in {"server", "other"} :
       \/ \E ttl \in TTLs : Issue(sub, ttl, admin, key, "admin")
       \/ \E ttl \in TTLs \cup {0} : IssueRefresh(sub, ttl, admin, key, "admin")
  /\ UNCHANGED <<now, flow>>

-----------------------------------------------------------------------------
(* POST /token *)

(* A JWT in its leeway is verified, but no exchange begins. *)
BeginExchange(w) ==
  /\ flow[w] = NoFlow
  /\ \E j \in jwts :
       /\ Verify(j, "refresh")
       /\ j.exp = 0 \/ j.exp > now
       /\ flow' = [flow EXCEPT ![w] = [stage |-> "sent", jwt |-> j]]
  /\ UNCHANGED <<now, jwts>>

(* The upstream refuses or fails, or its answer, rotation included, is     *)
(* lost, too large or unreadable: the client gets an error.                *)
ExchangeFails(w) ==
  /\ flow[w].stage = "sent"
  /\ flow' = [flow EXCEPT ![w] = NoFlow]
  /\ UNCHANGED <<now, jwts>>

UpstreamAnswers(w) ==
  /\ flow[w].stage = "sent"
  /\ \E ttl \in UpstreamTTLs, rotated \in BOOLEAN :
       flow' = [flow EXCEPT ![w] = [stage |-> "answered", jwt |-> flow[w].jwt,
                                    ttl |-> ttl, rotated |-> rotated]]
  /\ UNCHANGED <<now, jwts>>

(* Mutant: a token whose time is up is rotated with what is left of it. *)
RotatesAnyway(exp) == TRUE

(* rotatedRefreshTTL: may the JWT be rotated, and for how long. *)
Rotates(exp) == exp = 0 \/ exp > now

RotatedTTL(exp) ==
  IF exp = 0 THEN RefreshTTL
  ELSE IF RefreshTTL = 0 \/ exp - now < RefreshTTL THEN exp - now ELSE RefreshTTL

(* issueResponse *)
IssueResponse(w) ==
  /\ flow[w].stage = "answered"
  /\ LET f == flow[w]  j == f.jwt IN
     IF f.ttl <= Leeway
     THEN UNCHANGED jwts
     ELSE /\ Cardinality(jwts) < MaxJWTs
          /\ jwts' = jwts
               \cup {AccessJWT(j.sub, f.ttl - Leeway, j.admin, "server", j.by)}
               \cup (IF f.rotated /\ Rotates(j.exp)
                     THEN {RefreshJWT(j.sub, RotatedTTL(j.exp), j.admin, "server",
                                      j.first, j.by)}
                     ELSE {})
  /\ flow' = [flow EXCEPT ![w] = NoFlow]
  /\ UNCHANGED now

Tick == now < MaxTime /\ now' = now + 1 /\ UNCHANGED <<jwts, flow>>

TInit ==
  /\ now = 1 /\ jwts = {}
  /\ flow = [w \in Workers |-> NoFlow]

TNext ==
  \/ IssueTokenCmd \/ Tick
  \/ \E w \in Workers :
       BeginExchange(w) \/ ExchangeFails(w) \/ UpstreamAnswers(w) \/ IssueResponse(w)

TSpec == TInit /\ [][TNext]_tvars

-----------------------------------------------------------------------------
(* However often a refresh JWT is rotated, and however long an exchange    *)
(* takes (the JWT may expire during it), no JWT of the chain lives longer  *)
(* than the first was to live (issueResponse, rotatedRefreshTTL and        *)
(* IssueRefreshToken, for which no time left would mean no expiry).        *)
ChainNeverExtends ==
  \A j \in jwts : j.typ = "refresh" /\ j.first # 0 => j.exp # 0 /\ j.exp <= j.first
=============================================================================
