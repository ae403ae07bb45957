--------------------------- MODULE MCTrafficStore ---------------------------
(* Small events, one as large as the budget, one beyond it, two to a       *)
(* millisecond.                                                            *)
EXTENDS TrafficStore

Shape(api, headers, body, fapi, fbody) ==
  [api |-> api, headers |-> headers, body |-> body,
   fetch |-> [api |-> fapi, body |-> fbody]]

MCShapes ==
  {Shape("api", {"accept"}, 1, "gmail", 1),
   Shape("api", {"authorization"}, 3, "api", 1),
   Shape("gmail", {"accept", "cookie"}, 9, "api", 2)}

Query(apis, since, until, limit) ==
  [apis |-> apis, since |-> since, until |-> until, limit |-> limit]

MCQueries ==
  {Query({}, 0, 0, 9), Query({"api"}, 0, 0, 0), Query({}, 3, 4, 1)}
=============================================================================
