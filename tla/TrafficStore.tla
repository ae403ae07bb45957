---------------------------- MODULE TrafficStore ----------------------------
(***************************************************************************)
(* The recent-requests log (internal/control/traffic): both stores behind  *)
(* one writer, the redaction that precedes a write, eviction by age and by *)
(* bytes, and a client that pages through List with a cursor while events  *)
(* are written and evicted.                                                *)
(*                                                                         *)
(* A row is an event as stored; `seq` is its place in the insertion order  *)
(* (the memory store's list).  Time counts ticks of the wall clock, of     *)
(* which the sqlite store keeps whole milliseconds.  The api filter stands *)
(* for all the equality filters of ListOpts.                               *)
(***************************************************************************)
EXTENDS Integers, Sequences, FiniteSetsExt

CONSTANTS
  Ids,               \* event ids, random in the code; numbers, so ordered
  Shapes,            \* the requests that are recorded
  Queries,           \* the ListOpts of the clients
  TicksPerMs,
  MaxBytes, MaxAge,  \* Options; MaxAge in ticks
  Batch,             \* rows of the first byte eviction (32)
  DefaultListLimit, MaxListLimit,
  MaxBodyBytes,
  NoBodyAPIs, SensitiveHeaders,   \* the defaults of sanitize.go
  Overhead,          \* bytes of a row beside its bodies
  NoCursor,
  MaxTime            \* bound: the clock

ASSUME TrafficAssumption ==
  /\ Ids \subseteq Nat \ {0} /\ IsFiniteSet(Ids)
  /\ DefaultListLimit <= MaxListLimit
  /\ {TicksPerMs, Batch, DefaultListLimit, MaxListLimit} \subseteq Nat \ {0}
  /\ {MaxBytes, MaxAge, MaxTime} \subseteq Nat
  /\ \A q \in Queries : q.limit \in Int

VARIABLES
  kind,      \* Open or NewMemoryStore
  rows,      \* the events table; byID and ll
  now,
  inserted,  \* ids written so far
  reader,    \* a client: "idle", "walking" or "done"
  query,     \* its filters
  cursor,    \* what the last page handed out
  pages,     \* the pages it got
  owed       \* history: rows that matched when it began and are still there

readVars == <<reader, query, cursor, pages, owed>>
vars == <<kind, rows, now, inserted, readVars>>

-----------------------------------------------------------------------------
(* Sanitize, in the writer goroutine *)

truncateBody(n) == IF n <= MaxBodyBytes THEN n ELSE MaxBodyBytes

stripHeaders(hs) == hs \ SensitiveHeaders

(* A fetch made for a no-body API loses its bodies whatever it read. *)
sanitizeFetch(ev) ==
  IF ev.api \in NoBodyAPIs \/ ev.fetch.api \in NoBodyAPIs
  THEN 0 ELSE truncateBody(ev.fetch.body)

Sanitize(ev) ==
  [ev EXCEPT
     !.headers = stripHeaders(@),
     !.body = IF ev.api \in NoBodyAPIs THEN 0 ELSE truncateBody(@),
     !.fetch.body = sanitizeFetch(ev)]

-----------------------------------------------------------------------------
(* Insert *)

UnixMilli(t) == t \div TicksPerMs

(* The ts column, or Event.Timestamp. *)
Stamp(t) == IF kind = "sqlite" THEN UnixMilli(t) ELSE t

(* The length of the JSON; approxSize counts no meta fetches. *)
Size(ev) ==
  Overhead + ev.body + IF kind = "sqlite" THEN ev.fetch.body ELSE 0

Bytes(rs) == MapThenSumSet(LAMBDA r : r.size, rs)

(* The order of the pages: ts, then id. *)
Older(r, s) == r.ts < s.ts \/ (r.ts = s.ts /\ r.id < s.id)

Expired(r, t) == r.ts < Stamp(t - MaxAge)

Rank(r, rs) == Cardinality({s \in rs : Older(s, r)})

(* Mutant: the newest rows go first. *)
evictNewest(rs, t) ==
  LET fresh == {r \in rs : ~Expired(r, t)}
      Without(n) == {r \in fresh : Cardinality(fresh) - Rank(r, fresh) > n}
      cuts == {Batch * (2^k - 1) : k \in 0 .. Cardinality(fresh)}
  IN  Without(Min({n \in cuts : Bytes(Without(n)) <= MaxBytes}))

(* Mutant: the sum is compared before the batch and never again. *)
evictOneBatch(rs, t) ==
  LET fresh == {r \in rs : ~Expired(r, t)}
  IN  IF Bytes(fresh) <= MaxBytes THEN fresh
      ELSE {r \in fresh : Rank(r, fresh) >= Batch}

(* Expired rows go first; then Batch rows, twice as many, and so on, until *)
(* the sum is within the budget: after k rounds Batch * (2^k - 1) in all.  *)
evictTx(rs, t) ==
  LET fresh == {r \in rs : ~Expired(r, t)}
      Without(n) == {r \in fresh : Rank(r, fresh) >= n}
      cuts == {Batch * (2^k - 1) : k \in 0 .. Cardinality(fresh)}
  IN  Without(Min({n \in cuts : Bytes(Without(n)) <= MaxBytes}))

(* One pass over the list, oldest insertion first: while the sum of what   *)
(* is left, this row and all later ones, exceeds the budget a row is       *)
(* dropped; after that only if it has expired.                             *)
evictLocked(rs, t) ==
  {r \in rs : /\ Bytes({s \in rs : s.seq >= r.seq}) <= MaxBytes
              /\ ~Expired(r, t)}

Evict(rs, t) == IF kind = "sqlite" THEN evictTx(rs, t) ELSE evictLocked(rs, t)

(* The writer stores a request that started at `started` and has ended. *)
Insert(id, shape, started) ==
  LET ev  == Sanitize(shape)
      row == [id |-> id, ts |-> Stamp(started), seq |-> Cardinality(inserted),
              size |-> Size(ev), event |-> ev]
  IN  /\ id \in Ids \ inserted
      /\ rows' = Evict({r \in rows : r.id # id} \cup {row}, now)
      /\ inserted' = inserted \cup {id}
      /\ owed' = owed \cap rows'
      /\ UNCHANGED <<kind, now, reader, query, cursor, pages>>

Tick ==
  /\ now < MaxTime
  /\ now' = now + 1
  /\ UNCHANGED <<kind, rows, inserted, readVars>>

(* The process restarts; the client keeps its cursor. *)
Restart ==
  /\ rows' = IF kind = "sqlite" THEN rows ELSE {}
  /\ owed' = owed \cap rows'
  /\ UNCHANGED <<kind, now, inserted, reader, query, cursor, pages>>

-----------------------------------------------------------------------------
(* List *)

ClampLimit(n) == IF n <= 0 THEN DefaultListLimit
                 ELSE IF n > MaxListLimit THEN MaxListLimit ELSE n

(* Zero fields are not applied; sqlite compares whole milliseconds. *)
match(r, q) ==
  /\ q.apis # {} => r.event.api \in q.apis
  /\ q.since # 0 => r.ts >= Stamp(q.since)
  /\ q.until # 0 => r.ts <= Stamp(q.until)

(* Mutant: the cursor's row itself is returned again. *)
AfterInclusive(c, r) == c = NoCursor \/ ~Older(c, r)

(* Strictly after the cursor, a (ts, id) pair. *)
After(c, r) == c = NoCursor \/ Older(r, c)

(* The first `limit` of the matching rows, newest first. *)
List(q, c) ==
  LET matched == {r \in rows : match(r, q) /\ After(c, r)}
  IN  {r \in matched :
         Cardinality({s \in matched : Older(r, s)}) < ClampLimit(q.limit)}

More(q, c) ==
  Cardinality({r \in rows : match(r, q) /\ After(c, r)}) > ClampLimit(q.limit)

(* Mutant: the cursor is the first row past the page. *)
NextCursorPast(q, c) ==
  LET rest == {r \in rows : match(r, q) /\ After(c, r)} \ List(q, c)
  IN  IF More(q, c)
      THEN CHOOSE r \in rest : \A s \in rest : r = s \/ Older(s, r)
      ELSE NoCursor

(* The last row of the page, if there are more. *)
NextCursor(q, c) ==
  LET page == List(q, c)
  IN  IF More(q, c)
      THEN CHOOSE r \in page : \A s \in page : r = s \/ Older(r, s)
      ELSE NoCursor

Begin(q) ==
  /\ reader # "walking"
  /\ reader' = "walking" /\ query' = q
  /\ cursor' = NoCursor /\ pages' = <<>>
  /\ owed' = {r \in rows : match(r, q)}
  /\ UNCHANGED <<kind, rows, now, inserted>>

NextPage ==
  /\ reader = "walking"
  /\ pages' = Append(pages, List(query, cursor))
  /\ cursor' = NextCursor(query, cursor)
  /\ reader' = IF More(query, cursor) THEN "walking" ELSE "done"
  /\ UNCHANGED <<kind, rows, now, inserted, query, owed>>

-----------------------------------------------------------------------------
Init ==
  /\ kind \in {"sqlite", "memory"}
  /\ rows = {} /\ inserted = {}
  /\ now = 1
  /\ reader = "idle" /\ query = (CHOOSE q \in Queries : TRUE) /\ cursor = NoCursor
  /\ pages = <<>> /\ owed = {}

Next ==
  \/ \E id \in Ids, s \in Shapes, t \in 1 .. now : Insert(id, s, t)
  \/ Tick \/ Restart
  \/ \E q \in Queries : Begin(q)
  \/ NextPage

Spec == Init /\ [][Next]_vars

-----------------------------------------------------------------------------
(* "Insert is responsible for honouring the byte and age budgets"          *)
(* (traffic.go:193): in both stores the rows fit the byte budget, however  *)
(* large and however late the events come, an event larger than the budget *)
(* included.                                                               *)
WithinBudget == Bytes(rows) <= MaxBytes

(* evictTx and evictLocked take nothing they need not: a row that is       *)
(* neither expired nor lost with the process goes only when the rows and   *)
(* the new event together exceed the budget, and then everything that      *)
(* stays is newer, by timestamp in the sqlite store and by insertion in    *)
(* the memory store.                                                       *)
OldestGoFirst ==
  [][\A r \in rows \ rows' :
       (inserted' # inserted /\ ~Expired(r, now)) =>
          /\ \A s \in rows' : IF kind = "sqlite" THEN Older(r, s)
                                                 ELSE r.seq < s.seq
          /\ rows' \subseteq rows \/ Bytes(rows \cup rows') > MaxBytes]_vars

(* The pages of one walk are disjoint and newest first, although rows are  *)
(* inserted and evicted between them and several rows share a millisecond. *)
PagesNeverRepeat ==
  \A i, j \in DOMAIN pages : i < j =>
     \A r \in pages[i], s \in pages[j] : Older(s, r)

(* A walk that reached the last page has shown every row that matched when *)
(* it began and is still there.                                            *)
WalkMissesNothing ==
  reader = "done" => owed \subseteq UNION {pages[i] : i \in DOMAIN pages}

=============================================================================
