# Bouncer in TLA+

Bouncer is a policy-enforcing proxy: an agent presents a token, the proxy routes
the request to an API, evaluates deny and permit policies written in CEL, and
forwards what is permitted with the upstream credentials. Operators and agents
edit the policies while it runs. This directory holds TLA+ models of the parts
of it that keep state or run concurrently, TLC configurations that check them on
small instances, and TLAPS proofs of their most important properties for
instances of every size.

`PROJECT.json` lists the components, the runs, the source lines each definition
models, the disagreements found between code and comments, the hazards the
properties are aimed at, and the theorems.

## 1. The system

| Part | State | Operations | Talks to | What is hard | What makes it correct |
|---|---|---|---|---|---|
| Policy service (`control/policies`) | mutex, rows in a store, live set in the runtime | Create, Replace, Delete, Import, LoadFromStore | store, runtime | crash between store and runtime, partial imports, two store layers | memory equals disk; one entry per name; create never displaces |
| Live set (`runtime/api.go`, `policyStore`) | a deny and a permit list per API | replace, remove, all | service writes, requests read | result flips move an entry between lists | order kept, no twins, a reader gets one consistent set |
| YAML directory (`file_store.go`) | files, canonical and legacy | List, Put, Delete | operators editing by hand | several renames per call, duplicates across files | acts as a durable map |
| Proposals (`control/proposals`) | mutex, table of proposals | Create, Update, Delete, Approve, Reject | policy service, two mutexes | checks made outside a lock, failure between two stores | approval is of what was read; decisions are final |
| Request path (`server/proxy.go`, `runtime`) | per-request hook, bind values | handle, Evaluate, completer, commit | live set, upstream, recorder | edits during evaluation, failing fetches, many exits | only permitted requests go upstream; the event tells the truth |
| Recorder (`control/traffic/recorder.go`) and shutdown (`servecmd/run.go`) | channel, RW mutex, counters, writer | Record, Close, run | handlers, store, main goroutine | Record against Close, deadline against drain, hijacked connections | no panic, nothing accepted is lost, databases close last |
| Traffic stores | events, byte and age budget | Insert, Get, List, evict | recorder, admin API | paging while rows are evicted | budget kept, oldest go first, pages neither repeat nor skip |
| Routing and templates | prefix table | Build, routeRequest, Match | request path | ambiguity, encoded slashes | at most one API claims a path; policies and upstream read the same segments |
| Tokens and OAuth | none in the process; encrypted tokens | issue, verify, refresh | upstream token endpoint | slow exchanges, rotation | a refreshed token never outlives its chain |
| MITM listener and CA | leaf cache, tunnels | serveConnect, leafFor | request path | hijacked connections, shared leaves, expiry | a served leaf is valid; tunnels are torn down |
| Bundles and `apis` commands | directories | install, add, upgrade, remove | the next boot | crash between renames, two commands at once | an API is never half installed, nor its only copy lost |
| Storage backends | schema versions | Migrate | every store | crash between migrations, two binaries at once | the version tells the schema |
| Admin surface, MCP | none | handlers | all services | sessions, roles and drafts over time | only admins change live policies or see private data |
| CEL adapters, models, observability, CLI, protobuf | none | pure or one-shot | | | |

Components interact by direct calls. The policy service is called by admin
handlers and by Approve; requests share nothing with it but the live set; the
recorder is called from a deferred function of every request.

## 2. The modules

| Module | Models | Extends |
|---|---|---|
| `PolicyBuckets` | the deny and permit lists and `replace`, `removeLocked`, `all` as operators | |
| `PolicyService` | the policy service over a two-layer store, with boot and crash | `PolicyBuckets` |
| `KVStore` | the abstract specification of a policy store: a durable map | |
| `FileStore` | the YAML directory | implements `KVStore` |
| `Proposals` | the review workflow composed with the policy service | `PolicyService` |
| `Recorder` | recorder, writer, Close and process shutdown | |
| `RequestPath` | one request from arrival to its event, beside policy edits | `PolicyBuckets` |
| `Routing` | loading API definitions; reading, routing, matching and forwarding a path | |
| `TrafficStore` | both event stores, redaction, eviction and a paging client | |
| `Mitm` | CONNECT tunnels, the leaf cache and the teardown timer | |
| `Tokens` | JWTs, the issue-token command and the OAuth token endpoint | |
| `ControlPlane` | the admin surface and MCP endpoint with their policy sets | `Tokens` |
| `Bundles` | the bundle directory and `apis add`, `upgrade`, `remove` | |
| `DataDir` | `init`, `serve` up to the listener, migrations | `Bundles` |
| `*Proofs`, `RequestPathTheorems` | theorems (`AccessProofs` is about `ControlPlane` and `Tokens`) | the module of that name |
| `MC*` | constants for TLC (`MCAccess`: `ControlPlane`; `MCInstall`: `DataDir`) | the module of that name |

### PolicyService
`primary` and `seed` are the rows of the sqlite store and the read-only YAML
layer of `LayeredStore`; an empty seed is the plain store. `rt` is the live set,
`mu` the holder of `Service.mu`. A call enters (`Create`, `Replace`, `Delete`,
`Import`: lock and checks in one step, since nothing else can run between them),
then alternates `StorePut` or `StoreDelete` with `Apply`, one pair per policy.
`StoreDelete` covers the seed lookup and the delete. `PersistFails` is a store
error. `Crash` may come between any two steps; `Boot`, `LoadNext` and `LoadDone`
replay the store and `LoadRefused` is the boot a policy stops that no longer
compiles. `Surfaces` says what compiles; it changes while the server is down.

### FileStore
One call at a time: `Put` and `Delete` compute the new canonical contents,
`writeAPIFile` renames it into place, `scrubLegacyEntry` cleans one other file
per step. The scrub first skims the raw bytes (`mightContainEntry`), so a
policy has a field `plain`: whether its file spells the api and the name out, as
the encoder does, or with YAML escapes the skim cannot see. `WriteFails`,
`ScrubFails` and `Crash` interrupt a call. `HandEdit` is an operator between
calls. A missing and an empty file are the same value. `loaded` is what a boot
would load. `KVStore` lets a nil answer be void only while `stale` is set;
`FileStore` maps that to `risk` (when the call began, the key was listed twice or
a legacy copy of it was out of the skim's sight) or a scrub that failed, which
the code answers nil with a warning. Everywhere else nil means done, an error
means nothing happened, and a crash leaves the old value or the new one.

### Proposals
Actors run `Propose`, `Update`, `Purge`, `Reject` and `Approve`. The handlers'
ownership check (`ensureCallerCanModify`) is a step of its own, as in the code.
`Approve` holds `pmu` through `ConflictCheck`, `CallService` (a call of the
policy service, with all its steps), `ServiceReturned` and `Record`. A delete
proposal carries `NoPolicy`. `PCrash` may keep or lose the table, which covers
the sqlite and the in-memory store. `Writers` call the policy service directly,
and the seed directory is edited while the server runs (`edited` remembers which
keys were).

### Recorder
A handler is in `"request"` for the whole exchange that precedes its commit. The
read lock and the test of `closed` are one step, as are lock, close and unlock
in Close. `onDrop` is three steps: add, load, compare-and-swap, modulo `Word`.
`wiring` is what `buildTraffic` returned; `"none"` is the default flag value.
`quiesced` means that `Shutdown` returned nil.

### RequestPath
`Admit` makes the checks of `handle` in order; `Match` routes and matches
actions; `Snapshot` is `policyStore.all`; `AppliesToPrincipal`, `AppliesTo`,
`Fetch` and `Evaluate` are the loops of `APIRuntime.Evaluate`; `Refuse`,
`Forward` and `commit` finish. CEL programs are tables from inputs to true,
false or error. A condition that reads an output field takes a `Fetch` first,
whose outcome, failures included, stays with the bind value. `seen` is a history
of the live sets between arrival and decision. Each action binds one meta.

### Routing
A path is a sequence of tokens, escapes among them. `AddAPI` takes the
definitions in any order and stops at the first bad one; `Build` compiles all
metas before any action and then the prefix routes, in the order of API names.
`Handle` records what one request looks like to the policies (`segs`, `path`, the
actions matched) and to the upstream.

### TrafficStore
`kind` chooses the sqlite or the memory store. `Insert` sanitises, stores and
evicts in one step, as the one writer does in one transaction or under the
lock. The clock is finer than the milliseconds sqlite keeps, and events are
inserted later than they start, out of order. A client walks `List` with the
cursor it was handed while rows come and go; `owed` is the history of what it
must have seen in the end.

### Mitm
A tunnel is serveConnect, the timer's watcher and the server's connection, each
with steps of its own. Finding a leaf and adding one to the cache are separate
steps, so two tunnels can miss together. `Tick` lets no handshake run past its
timeout and no due timer wait longer than `TimerSlack`.

### Tokens and ControlPlane
An exchange is verified, sent, answered or not, and finished at a later time.
`first` and `by` in a JWT are history: the expiry of the first refresh token of
its chain, and the role that asked for it. In `ControlPlane` a request is one
step (the interleavings inside the services are those of `PolicyService` and
`Proposals`); it carries a JWT in a header, or the browser's cookie, or nothing.
`policySet` is one of the three embedded sets; actions stand in the groups those
sets treat alike. `reply` records on whose behalf a live policy was changed or
private data shown.

### Bundles and DataDir
Each rename, stat and removal that another process can see is a step; a command
can be killed between two steps, and a rename, a lookup of a branch or a
download can fail. Directories have identities, so a removal follows the
directory it opened when an upgrade moves it. `owed` is the history of the
bundles, by name and repository, that an install put in place and nobody
removed. `Push` moves a branch upstream. `runInit` and `runServe` write the credentials (each in
two steps: an empty file, then its contents), install `--with-apis` through the
same commands, open the database, migrate and load. A migration and its version row are one
transaction; binaries differ in the length of their ladder.

## 3. What TLC checks

| Run | Instance | Shows |
|---|---|---|
| `policy_service` | 2 clients, 1 API, 2 names, 2 bodies, 2 sets of compiling policies | `MemoryMirrorsDisk`, `OneEntryPerName`, `CreateTargetsFreeName`, `EditsKeepOrder` |
| `file_store` | 2 APIs, 2 names, canonical files and legacy ones sorted before and after, duplicates, an escaped entry | `NeverDestructive`; `ImplementsStore`: refinement of `KVStore` |
| `file_store_twice` | one legacy file with two policies | violates `AcknowledgedIsLoaded` |
| `proposals` | 1 reviewer, 1 agent, 1 direct writer, 1 proposal, seed edits | `ApprovesWhatItRead`, `AgentsChangeTheirOwn`, `DecisionsAreFinal`, `DisplacesOnlyLatecomers`, `ApprovedDeleteIsGone`, `ReviewerReleased` |
| `recorder` | a plain and a hijacked handler, buffer 1, 4 events | `NeverSendsOnClosed`, `NothingLost`, `StoreOutlivesWriter`, `GracefulRecordsAll`, `ShutdownTerminates` |
| `request_path` | 1 request of 12 kinds, 2 edits, 2 names, 6 bodies, 2 actions | `ForwardedWasAllowed`, `FetchedOnce`, `EventTellsOutcome`, `Decided` |
| `routing` | 20 sets of definitions in every order, several hundred paths | `OneRoutePerPath`, `LoadIsOrderFree`, `PathViewsAgree`, `UpstreamSeesTheSamePath` |
| `traffic_store` | both stores, 3 events of 3 shapes, 4 ticks, 2 to a millisecond | `WithinBudget`, `OldestGoFirst`, `PagesNeverRepeat`, `WalkMissesNothing` |
| `mitm` | 2 tunnels, 2 names, a cache of one leaf, 7 ticks | `LeafOutlivesHandshake`, `OutlivesOnlyLateLeaf`, `TornDown` |
| `access` | 2 subjects, 1 exchange at a time, 2 tokens, 1 name, 1 draft, 3 seconds | `ChainNeverExtends`, `AdminFromOperators`, `PrivateReads`, `LiveNeedsAdmin` |
| `install` | 2 processes, 2 repositories, 2 commands, 1 kill, 2 failed operations, 2 binaries | `VisibleIsWhole`, `KeepsACopy`, `SchemaMatchesVersion`, `SecretOutlivesRestarts` |
| `recorder_unwired` | no traffic store | violates `NoRecorderNoEffect` |

Five of these properties are what the code keeps of a promise that its comments
state without exceptions. Each names its exceptions, which occur in its run; the
promises themselves are below.

- `ImplementsStore`: when an acknowledged write may be lost (`stale`).
- `DisplacesOnlyLatecomers`: an approval without overwrite never displaces a
  policy that was live at its conflict check, only one that a direct writer puts
  there between the check and the Replace.
- `ApprovedDeleteIsGone`: an approved delete leaves the policy neither live nor on
  disk, unless its seed file changed under the running server; then what is
  still live is gone at the next boot.
- `KeepsACopy`: a bundle is lost to `apis remove`, to an upgrade that neither
  renames the new version in nor the old one back, or to an upgrade that finds
  it under the name of the bundle it had scanned; in no other way.
- `OutlivesOnlyLateLeaf`: a tunnel open past the end of its leaf began when the
  leaf had no more than the margin and the time of a handshake left.

### Disagreements
Two runs end in a violation; the findings in `PROJECT.json` quote the lines.

- **No traffic store** (`recorder_unwired`). Commit calls `Record` on a nil
  recorder, although the interface test is there to disable recording.
- **A policy listed twice** (`file_store_twice`, `file_store.go:369`). `upsert` and
  `remove` touch the first entry of a name, so with two copies an acknowledged
  Put or Delete is undone by the next boot, which loads the last. The comments at
  :71 and :105 say the scrub prevents that. No operator needs to list a policy
  twice: a Put of one policy of a legacy file copies the others into the
  canonical file and leaves them in the legacy one. A copy spelt with escapes
  survives in the same way, since the skim passes over its file.

The following came up while modelling and have no run of their own. The models
contain the behaviour of Approve, of the tunnels and of the upgrades.

- **A misfiled policy** (`file_store.go:247`). Rewriting a canonical file drops
  entries of other APIs in it; :141 says hand edits are not silently dropped.
  `LegacyEdits` files none there.
- **Approve against a direct writer** (`proposals.go:394`). The conflict check and
  the Replace are separate critical sections of the policy service, so a policy
  created in between is overwritten; :346 and :389 promise a conflict. In the
  `proposals` run the direct writer does this.
- **Approved deletes** (`proposals.go:384`). `ErrNotFound` is taken to mean that the
  policy is not there; the layered store also answers it for one that is live and
  whose seed file was removed while the server runs. It stays live until the next
  boot, where the reviewer "wants the post-condition (policy not present)" (:378).
- `scrubLegacyEntry` rewrites legacy files, which `file_store.go:29` says are never
  written. A drain that times out leaves the databases open, which `run.go:208`
  denies and `run.go:229` explains. `onDrop` (`recorder.go:130`) subtracts counters
  read at different times, so an overtaken goroutine wraps and logs again.
- `mitm.go:184` arms no timer when the margin has begun by the end of the
  handshake, so a tunnel that took such a leaf from the cache can outlive it,
  which the comment at :178 excludes.
- The access JWT of an exchange is dated from the end of the exchange, so it can
  outlive the upstream token by its duration (`oauth.go:209`). The branch of
  `issueResponse` that the comment at `oauth.go:236` calls defence in depth is
  reached when a JWT expires during its exchange.
- `apis upgrade` killed between its two renames leaves the old bundle aside and
  nothing in place (`upgrade.go:127` accepts that). If the rename in and the
  rollback both fail, because they are refused or because another install took
  the name in between, the error of the second is ignored (:182) and :183 deletes
  the only copy, although :28 says it is removed only after the new directory is
  in place. An upgrade also does not check that the directory it moves aside is
  still the one it scanned: after a remove and an install of another bundle under
  that name it swaps out the other bundle.
- A killed `apis remove` may leave a directory without a manifest, which `add`
  refuses and `remove` and `upgrade` do not see. `apis remove` wants the directory
  name where its help says the bundle name; they differ after an upgrade across a
  renaming commit. Two versions of one slug install side by side when their
  manifests name them differently, in spite of `ref.go:26`.
- An `init` that fails or is killed after writing the secret makes every later
  `serve --init` refuse (`initcmd.go:69`); killed inside the password hash it
  leaves an empty one that counts as initialised. Two bootstraps of one new
  directory race for the secret (`raced`).
- `memory_store`'s size ignores meta fetches, so its budget is approximate; the
  sqlite store evicts in growing batches and may evict the new event as well.
- Comments only: `value.go:41` says SetCompleter panics where it does nothing;
  `admin/traffic.go:83` says 403 where the handler answers 404.

### Bounds
Every policy-service property is about at most one call in progress, one other
writer and one key beside the one being written, so two clients and two names
reach all cases; a second body tells an edit from a no-op. A reviewer, an
agent and a direct writer give the races over a proposal and over its policy;
calls of a second reviewer wait for the same mutex, and the theorems cover any
number of them. `MaxListed = 4` lets a call begin on a directory that an earlier
one left with duplicates. A buffer of one slot goes from empty to full with
one event, and four events with two handlers fill it, drop twice (one cadence of
`DropLogEvery = 2`) and come late. `Word = 16` stands for 2^64 and is far from
any count reached, so only a negative difference wraps. Requests share nothing
but the live set, so one request is enough; two edits reach a deny and a permit
before it arrives, or an edit on either side of its snapshot. Three events with
a page of one or two give pages before, between and after an eviction; a budget
of three bytes is met by one, two or no row. A cache of one leaf is evicted by
the second name, and seven ticks span a leaf's life and the next. Three seconds
let a refresh token of two expire during its exchange and a session of one run
out, leeway included. Two processes and
two commands give every pair of commands and boots; one kill and two failures
interrupt each step once and let a rename and its rollback both fail. (The swap
of another bundle takes a third command; with three, and no kill or failure, the
properties hold as well, in ten million states.) `MaxEvents`,
`MaxEdits`, `MaxTime`, `MaxJWTs`, `MaxDirs` and `MaxSecrets` only keep the state
space finite.

Symmetry is used over clients, processes and subjects, in runs without liveness
properties. `CHECK_DEADLOCK FALSE` appears where the system does stop or the
bounds run out: the process exits, tokens, time, requests or commands are used
up, a load has failed.

### Fairness
- `Proposals` (and the policy service in it): a goroutine inside a call keeps
  running and store calls return (`WF` of its steps). Nothing forces calls to
  start or the process to crash. The one step in which Approve takes the policy
  mutex has strong fairness: Go's `sync.Mutex` hands a mutex to a waiter that
  has starved for a millisecond, so a waiter is not overtaken for ever.
- `Recorder`: main runs and its timer fires; the handlers, the writer and the
  store may hang.
- `RequestPath`: request goroutines run and every fetch ends, by the timeout of
  the upstream client. The forwarded exchange is a stream without a bound, so
  `Decided` promises an answer or the start of that exchange.
- `Mitm`: goroutines that can run do, timers fire and time passes. No client is
  forced to speak or to leave; a closed connection ends the handler on it.

## 4. What is proved

TLAPS checks these theorems for all constants that satisfy the named
assumptions (`ConstantAssumption`, `ActorAssumption`, `RecorderAssumption`,
`TableAssumption`, `TokensAssumption`, `LoginAssumption`, `MitmAssumption`).

- **PolicyServiceProofs**: `TypeCorrect`, `NoStaleTwin`, `MirrorsDisk`,
  `OnlyCompiledStored`, `CreateIsExclusive`. Memory mirroring disk is not
  inductive by itself. `IInv` adds who holds the mutex (`LockInv`), what a call in
  progress still has to do (`WorkInv`), that the row about to be applied is on
  disk (`StoredInv`) and what a boot has replayed so far (`LoadInv`).
  `PolicyBucketsProofs` has the lemmas about the two lists.
- **ProposalsProofs**: `ApprovalIsAtomic` and `OwnershipIsStable` from `PInv`,
  which adds that only a reviewer inside Approve holds the mutex;
  `DecidedStaysDecided`, an action property, from the same invariant;
  `ReviewsRefineService`, that the composition implements the policy service, by
  showing that each of its steps is a step of the service or leaves it alone;
  and `ReviewedMirrorsDisk` as a consequence.
- **RecorderProofs**: `RecordNeverPanics`, `CloseDrains`, `DatabasesCloseLast`,
  `GracefulShutdown`. `RInv` adds that nobody is past the read lock once the
  channel is closed (`LockInv`), where an accepted event can be (`FlowInv`) and
  the order of Shutdown, Close and the databases (`MainInv`).
- **RequestPathTheorems**: `ForwardedIsAllowed`, `EventIsTrue`, `FetchIsOnce` and
  `RequestPathTypes`, for any policies, actions, requests and number of edits.
  That a forwarded request was allowed speaks of the end of a walk, so `RPInv`
  says where the walk stands (`WalkOK`): the snapshot is a store the request has
  seen, and every policy before the loop index is `Settled`, false by a predicate
  or by a condition that no later fetch can change. A fetch preserves that
  because it only fills a bind nobody read (`SettledStays`). When a permit fires,
  every deny stands before it in the snapshot, hence `Allows` (`WalkAllows`).
  `TraceAt` relates the decision to the evaluations that led to it.
  `TableAssumption` says that the tables have their types, that a condition which
  reads no output field does not depend on the fetch, and that "none" and
  "upstream", which stand for the empty policy name and for the upstream's own
  status, are not also a policy's name or the configured denial status.

- **AccessProofs**: all four properties of the control plane: `ChainsEnd`,
  `AdminGranted`, `ReadsArePrivate` and the action property
  `LiveChangesNeedAdmin`. `AccessInv` adds to the bound on refresh JWTs and the
  origin of admin rights that an exchange under way is of an issued refresh JWT
  and that the cookie holds an issued JWT or none. What carries the induction is
  `RotatedWithin`: a token that has not expired is rotated for more than zero and
  at most its remaining time, whenever the answer comes. The gate is
  `GuardedIsAdmins` (no embedded set opens a guarded action) with
  `CallerAuthentic` (only a verified access JWT names a caller). It uses that
  lifetimes and leeway are naturals and given lifetimes are not zero.
- **MitmProofs**: `HandshakeLeafValid` and `TunnelsEndInTime`, for any number of
  tunnels and names and any cache size, if the handshake timeout and the timer's
  slack are below the margin and the margin below a leaf's lifetime. `MitmInv`
  says that a leaf, once chosen, outlasts the time the handshake may still take;
  that a timer is due a margin before the leaf it was armed for expires; and
  that a tunnel being served has an armed timer, or is closed, or began on a
  leaf that was late. It also needs that only tunnels past their handshake have
  timers, since a hello replaces the leaf.

Only model-checked: the liveness properties (TLAPS does not prove liveness under
fairness here), `EditsKeepOrder`, `DisplacesOnlyLatecomers`, `ApprovedDeleteIsGone`, and all
of `FileStore`, `Routing`, `TrafficStore`, `Bundles` and `DataDir`. Their data are
sequences flattened, sorted and summed, about which the provers would need
induction.

## 5. What is not modelled

Listed per component in `PROJECT.json`. In short: cryptography, YAML and JSON
decoding, CEL itself, HTTP header handling, rendering, logging and flags.

- `RequestPath`: inline `Type{...}` literals (fetched afresh by every evaluation),
  several binds per action and metas that lead to other metas; the live set is
  edited directly and not through the policy service.
- `FileStore`: a hand edit during a call; names that the YAML encoder itself has to
  escape, whose copies the skim would miss even where the store wrote them; text
  that holds the api and the name outside those fields, for which the skim is
  only less strict. `Recorder`: a second caller of
  `AsyncRecorder.Close`, which the program does not have.
- `Routing`: compile errors of CEL and errors of filters at run time.
- `TrafficStore`: the text search of `List`; the subject filter, which no caller
  sets. The properties do not read what `Sanitize` removes beyond its size.
- `Mitm`: the contents of certificates and their truncation to seconds.
- `Tokens`: the two clock readings of one response are one. The code takes the
  remaining lifetime at `oauth.go:238` and adds it to a later reading at
  `auth.go:240`; a stall of a second or more between the two makes the rotated
  refresh token, and so its chain, longer by the stall, which `ChainNeverExtends`
  does not see. A negative refresh lifetime, which the code treats as none.
  `ControlPlane`: which page a denial redirects to.
- `Bundles`, `DataDir`: `apis fetch`, `pack`, `verify`, `list` and dry runs; loose
  spec files; the two files of the CA, and the files of one bundle when it is
  loaded, are read and written in one step each. `--with-apis` and `upgrade` do
  not consult the allowlist, in the code and in the model. Boots that are refused
  for conflicting routes or policies are in `Routing` and `PolicyService`.
