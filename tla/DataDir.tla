------------------------------- MODULE DataDir -------------------------------
(***************************************************************************)
(* The data directory: `bouncer init`, `bouncer serve` up to the point     *)
(* where it listens, and the schema of the shared sqlite database, on top  *)
(* of the bundle directory of module Bundles.                              *)
(*                                                                         *)
(* os.WriteFile of a credential is two steps, since a process killed in it *)
(* leaves an empty file. A migration script and its version bump are one   *)
(* step, as they are one transaction. Servers may boot together, from      *)
(* binaries with shorter or longer schema ladders, and any process can be  *)
(* killed between steps.                                                   *)
(***************************************************************************)
EXTENDS Bundles

CONSTANTS
    WithApis,    \* the lists of refs given as --with-apis
    Ladders,     \* lengths of the traffic schema ladder, one per binary
    MaxSecrets   \* bound: secrets that are generated

ASSUME DataDirAssumption ==
    WithApis \subseteq Seq(Slugs) /\ Ladders \subseteq 1 .. 2 /\ MaxSecrets \in Nat

VARIABLES
    disk,      \* the files of the data directory
    db,        \* the tables and versions in store/store.db
    boot,      \* Procs -> the init or serve command the process runs
    generated, \* how many secrets were generated
    signed,    \* history: secrets a server has served with
    retired,   \* history: secrets that init --force replaced
    raced      \* history: processes whose bootstrap another one overlapped

vars == <<bvars, disk, db, boot, generated, signed, retired, raced>>
dvars == <<disk, db, boot, generated, signed, retired, raced>>

\* A file is absent, empty, or holds a value: a secret (a positive number)
\* or, for the other files, Full.
Absent == 0 - 1
Empty  == 0
Full   == 1

Files == {"secret", "hash", "cert", "key", "store"}

\* The domains in the order in which runServe opens their stores.
Domains == <<"policies", "proposals", "traffic">>

\* The shape of a domain's tables. Only traffic has a second migration: it
\* drops the pinned column that the first one created.
Schema(d, version) ==
    IF version = 0 THEN "absent" ELSE IF d = "traffic" /\ version = 1 THEN "pinned" ELSE "plain"

\* Mutation: the first script does not index the column it adds.
ScriptUnindexed(d, i, schema) ==
    CASE d # "traffic"            -> "plain"
      [] d = "traffic" /\ i = 1   -> IF schema = "absent" THEN "pinned" ELSE schema
      [] d = "traffic" /\ i = 2   -> IF schema = "pinned" THEN "plain" ELSE "error"

\* What script i of a domain makes of a schema; "error" when a statement
\* fails. CREATE TABLE IF NOT EXISTS accepts a table that exists, CREATE
\* INDEX on a dropped column and a second DROP COLUMN do not.
Script(d, i, schema) ==
    CASE d # "traffic"            -> "plain"
      [] d = "traffic" /\ i = 1   -> IF schema = "plain" THEN "error" ELSE "pinned"
      [] d = "traffic" /\ i = 2   -> IF schema = "pinned" THEN "plain" ELSE "error"

Ladder(d, b) == IF d = "traffic" THEN b.ladder ELSE 1

Off == [pc |-> "off", serve |-> FALSE, force |-> FALSE, mitm |-> FALSE, refs |-> <<>>,
        secret |-> Absent, ladder |-> 1, domain |-> 1, version |-> 0,
        todo |-> {}, loaded |-> {}]

SetBoot(p, b) == boot' = [boot EXCEPT ![p] = b]
Goto(p, pc) == SetBoot(p, [boot[p] EXCEPT !.pc = pc])
Stop(p) == SetBoot(p, Off)

\* --with-apis is handled once: by Run, after the bootstrap ("with_apis"),
\* or by installRequestedBundles, after the directory is applied ("apis").
AfterApis(b) ==
    CASE ~b.serve           -> Off
      [] b.pc = "with_apis" -> [b EXCEPT !.pc = "apply", !.refs = <<>>]
      [] b.pc = "apis"      -> [b EXCEPT !.pc = "validate", !.refs = <<>>]

AtApis(b, pc) ==
    IF b.refs = <<>> THEN AfterApis([b EXCEPT !.pc = pc]) ELSE [b EXCEPT !.pc = pc]

\* datadir.IsInitialized: both files exist, whatever they hold.
IsInitialized == disk.secret # Absent /\ disk.hash # Absent

\* existingLayoutFiles: the credentials, the CA and the database.
existingLayoutFiles == {f \in Files : disk[f] # Absent}

-----------------------------------------------------------------------------
(* Starting a command. *)

runInit(p, force, mitm, refs) ==
    /\ boot[p].pc = "off" /\ job[p].pc = "idle"
    /\ SetBoot(p, [Off EXCEPT !.pc = "check", !.force = force, !.mitm = mitm, !.refs = refs])
    /\ Set(p, Ended) /\ Command
    /\ UNCHANGED <<tree, place, aside, head, owed>>
    /\ UNCHANGED <<disk, db, generated, signed, retired, raced>>

\* buildConfig of serve: --init bootstraps unless the directory counts as
\* initialised, and installs --with-apis in the same call; without --init
\* the directory is applied first.
runServe(p, init, ladder, refs) ==
    /\ boot[p].pc = "off" /\ job[p].pc = "idle"
    /\ LET b == [Off EXCEPT !.serve = TRUE, !.mitm = TRUE, !.ladder = ladder, !.refs = refs]
       IN  SetBoot(p, CASE ~init                  -> [b EXCEPT !.pc = "apply"]
                        [] init /\ IsInitialized  -> AtApis(b, "with_apis")
                        [] init /\ ~IsInitialized -> [b EXCEPT !.pc = "check"])
    /\ Set(p, Ended) /\ Command
    /\ UNCHANGED <<tree, place, aside, head, owed>>
    /\ UNCHANGED <<disk, db, generated, signed, retired, raced>>

-----------------------------------------------------------------------------
(* bootstrap *)

InBootstrap == {p \in Procs : boot[p].pc \in
    {"secret", "write_secret", "password", "write_hash", "cert", "key"}}

\* Mutation: only a directory that counts as initialised is protected.
RefusesInitialised(p) == IsInitialized /\ ~boot[p].force

Refuses(p) == existingLayoutFiles # {} /\ ~boot[p].force

BootstrapCheck(p) ==
    /\ boot[p].pc = "check"
    /\ IF Refuses(p) THEN Stop(p) ELSE Goto(p, "secret")
    /\ raced' = raced \ {p}
    /\ UNCHANGED <<bvars, disk, db, generated, signed, retired>>

\* os.WriteFile truncates the old secret first.
OpenSecret(p) ==
    /\ boot[p].pc = "secret" /\ generated < MaxSecrets
    /\ disk' = [disk EXCEPT !.secret = Empty]
    /\ retired' = IF boot[p].force \/ p \in raced THEN retired \cup {disk.secret} ELSE retired
    /\ raced' = raced \cup (InBootstrap \ {p})
    /\ Goto(p, "write_secret")
    /\ UNCHANGED <<bvars, db, generated, signed>>

WriteSecret(p) ==
    /\ boot[p].pc = "write_secret"
    /\ generated' = generated + 1
    /\ disk' = [disk EXCEPT !.secret = generated + 1]
    /\ retired' = IF p \in raced THEN retired \cup {disk.secret} ELSE retired
    /\ raced' = raced \cup (InBootstrap \ {p})
    /\ Goto(p, "password")
    /\ UNCHANGED <<bvars, db, signed>>

\* resolvePassword comes after the secret is written: an empty or unread
\* password ends the command there.
NoPassword(p) ==
    /\ boot[p].pc = "password"
    /\ Stop(p)
    /\ UNCHANGED <<bvars, disk, db, generated, signed, retired, raced>>

OpenHash(p) ==
    /\ boot[p].pc = "password"
    /\ disk' = [disk EXCEPT !.hash = Empty]
    /\ Goto(p, "write_hash")
    /\ UNCHANGED <<bvars, db, generated, signed, retired, raced>>

WriteHash(p) ==
    /\ boot[p].pc = "write_hash"
    /\ disk' = [disk EXCEPT !.hash = Full]
    /\ IF boot[p].mitm THEN Goto(p, "cert") ELSE SetBoot(p, AtApis(boot[p], "with_apis"))
    /\ UNCHANGED <<bvars, db, generated, signed, retired, raced>>

\* writeMITMCA: the certificate, then the key.
WriteCert(p) ==
    /\ boot[p].pc = "cert"
    /\ disk' = [disk EXCEPT !.cert = Full]
    /\ Goto(p, "key")
    /\ UNCHANGED <<bvars, db, generated, signed, retired, raced>>

WriteKey(p) ==
    /\ boot[p].pc = "key"
    /\ disk' = [disk EXCEPT !.key = Full]
    /\ SetBoot(p, AtApis(boot[p], "with_apis"))
    /\ UNCHANGED <<bvars, db, generated, signed, retired, raced>>

-----------------------------------------------------------------------------
(* --with-apis: the refs are handed to InstallRefs, and the command waits. *)

StartInstall(p) ==
    /\ boot[p].pc \in {"with_apis", "apis"} /\ job[p] = Ended
    /\ Set(p, [Ended EXCEPT !.pc = "refs", !.todo = boot[p].refs])
    /\ UNCHANGED <<tree, place, aside, head, owed, spent>>
    /\ UNCHANGED <<boot, disk, db, generated, signed, retired, raced>>

FinishInstall(p) ==
    /\ boot[p].pc \in {"with_apis", "apis"} /\ job[p].pc = "idle" /\ job[p] # Ended
    /\ SetBoot(p, IF job[p].result = "error" THEN Off ELSE AfterApis(boot[p]))
    /\ Set(p, Ended)
    /\ UNCHANGED <<tree, place, aside, head, owed, spent>>
    /\ UNCHANGED <<disk, db, generated, signed, retired, raced>>

-----------------------------------------------------------------------------
(* serve *)

\* applyDataDir reads what is there; a missing file is tolerated. (Without
\* the admin hash there is no login, without the CA no MITM; neither keeps
\* the server from starting.)
ApplyDataDir(p) ==
    /\ boot[p].pc = "apply"
    /\ SetBoot(p, AtApis([boot[p] EXCEPT !.secret = disk.secret, !.mitm = FALSE], "apis"))
    /\ UNCHANGED <<bvars, disk, db, generated, signed, retired, raced>>

\* validate: no secret, no server.
Validate(p) ==
    /\ boot[p].pc = "validate"
    /\ IF boot[p].secret \in {Absent, Empty} THEN Stop(p) ELSE Goto(p, "open")
    /\ UNCHANGED <<bvars, disk, db, generated, signed, retired, raced>>

\* OpenSQLite creates store.db, or fails on the write lock of another
\* process; the domains share the one file.
OpenStore(p) ==
    /\ boot[p].pc = "open"
    /\ disk' = [disk EXCEPT !.store = Full]
    /\ \/ Goto(p, "version")
       \/ (\E q \in Procs \ {p} : boot[q].pc = "migrate") /\ Stop(p)
    /\ UNCHANGED <<bvars, db, generated, signed, retired, raced>>

Domain(p) == Domains[boot[p].domain]

\* The store of the next domain is opened; a data directory puts them all
\* in the one sqlite file.
NextDomain(p) ==
    IF boot[p].domain = Len(Domains)
    THEN [Off EXCEPT !.pc = "load", !.serve = TRUE, !.secret = boot[p].secret]
    ELSE [boot[p] EXCEPT !.pc = "version", !.domain = @ + 1, !.version = 0]

\* Migrate reads the version of the domain and refuses a downgrade.
ReadVersion(p) ==
    /\ boot[p].pc = "version"
    /\ \E v \in {db[Domain(p)].version} :
         SetBoot(p, CASE v > Ladder(Domain(p), boot[p]) -> Off
                      [] v = Ladder(Domain(p), boot[p]) -> NextDomain(p)
                      [] v < Ladder(Domain(p), boot[p]) -> [boot[p] EXCEPT !.pc = "migrate", !.version = v])
    /\ UNCHANGED <<bvars, disk, db, generated, signed, retired, raced>>

\* applyMigration: the script and the version bump in one transaction.
Applied(d, v) == [version |-> v + 1, schema |-> Script(d, v + 1, db[d].schema)]

Migrate(p) ==
    /\ boot[p].pc = "migrate"
    /\ Applied(Domain(p), boot[p].version).schema # "error"
    /\ db' = [db EXCEPT ![Domain(p)] = Applied(Domain(p), boot[p].version)]
    /\ SetBoot(p, IF boot[p].version + 1 = Ladder(Domain(p), boot[p])
                  THEN NextDomain(p) ELSE [boot[p] EXCEPT !.version = @ + 1])
    /\ UNCHANGED <<bvars, disk, generated, signed, retired, raced>>

\* A statement fails, or another process holds the write lock: rollback,
\* and the server does not start.
MigrateFails(p) ==
    /\ boot[p].pc = "migrate"
    /\ \/ Script(Domain(p), boot[p].version + 1, db[Domain(p)].schema) = "error"
       \/ \E q \in Procs \ {p} : boot[q].pc = "migrate"
    /\ Stop(p)
    /\ UNCHANGED <<bvars, disk, db, generated, signed, retired, raced>>

\* LoadAll lists the directory, then loads the bundles in turn.
LoadAll(p) ==
    /\ boot[p].pc = "load"
    /\ SetBoot(p, [boot[p] EXCEPT !.pc = "bundles", !.todo = Installed])
    /\ UNCHANGED <<bvars, disk, db, generated, signed, retired, raced>>

\* The API names of a bundle, after the renames its source.yaml records.
LoadedNames(c) == APIsOf[c.sha] \X {c.renamed}

\* assertUniqueNames: another bundle declares one of its names.
DeclaredTwice(p, n) == LoadedNames(tree[place[n]]) \cap boot[p].loaded # {}

\* loadOneBundle, in one step: a file that is missing fails the boot.
loadOneBundle(p) ==
    /\ boot[p].pc = "bundles" /\ boot[p].todo # {}
    /\ \E n \in boot[p].todo :
         /\ \A m \in boot[p].todo : ~Before(m, n)
         /\ SetBoot(p, IF ~Whole(place[n]) THEN Off
                       ELSE IF DeclaredTwice(p, n) THEN Off
                       ELSE [boot[p] EXCEPT !.todo = @ \ {n},
                                            !.loaded = @ \cup LoadedNames(tree[place[n]])])
    /\ UNCHANGED <<bvars, disk, db, generated, signed, retired, raced>>

Listen(p) ==
    /\ boot[p].pc = "bundles" /\ boot[p].todo = {}
    /\ SetBoot(p, [boot[p] EXCEPT !.pc = "serving", !.loaded = {}])
    /\ signed' = signed \cup {boot[p].secret}
    /\ UNCHANGED <<bvars, disk, db, generated, retired, raced>>

\* SIGTERM, or a port in use.
Shutdown(p) ==
    /\ boot[p].pc = "serving"
    /\ Stop(p)
    /\ UNCHANGED <<bvars, disk, db, generated, signed, retired, raced>>

\* The process is killed. What it has on disk stays there.
Crash(p) ==
    /\ spent.crashes < MaxCrashes
    /\ spent' = [spent EXCEPT !.crashes = @ + 1]
    /\ job[p].pc # "idle" \/ boot[p].pc # "off"
    /\ Set(p, Ended) /\ Stop(p)
    /\ UNCHANGED <<place, aside, head, owed>> /\ Collect
    /\ UNCHANGED <<disk, db, generated, signed, retired, raced>>

-----------------------------------------------------------------------------
\* A new directory, or one that an older server has used, set up in full or
\* by a bootstrap that did not get past the password.
Init ==
    /\ BInit
    /\ \E used \in {0, 1}, creds \in {{"secret", "store"}, Files} :
         /\ disk = [f \in Files |-> IF used = 1 /\ f \in creds THEN Full ELSE Absent]
         /\ db = [d \in ToSet(Domains) |-> [version |-> used, schema |-> Schema(d, used)]]
         /\ generated = used
         /\ signed = {s \in {1} : used = 1}
         /\ used = 0 => \A n \in Names : place[n] = NoDir
    /\ boot = [p \in Procs |-> Off]
    /\ retired = {} /\ raced = {}

BootStep(p) ==
    \/ BootstrapCheck(p) \/ OpenSecret(p) \/ WriteSecret(p) \/ NoPassword(p)
    \/ OpenHash(p) \/ WriteHash(p) \/ WriteCert(p) \/ WriteKey(p)
    \/ StartInstall(p) \/ FinishInstall(p) \/ ApplyDataDir(p) \/ Validate(p)
    \/ OpenStore(p) \/ ReadVersion(p) \/ Migrate(p) \/ MigrateFails(p)
    \/ LoadAll(p) \/ loadOneBundle(p) \/ Listen(p) \/ Shutdown(p)

Next ==
    \/ \E p \in Procs :
         \/ BootStep(p)
         \/ Crash(p)
         \/ JobStep(p) /\ UNCHANGED dvars
         \/ boot[p].pc = "off" /\ RunCommand(p) /\ UNCHANGED dvars
         \/ \E force, mitm \in BOOLEAN, refs \in WithApis : runInit(p, force, mitm, refs)
         \/ \E init \in BOOLEAN, ladder \in Ladders, refs \in WithApis : runServe(p, init, ladder, refs)
    \/ \E s \in Slugs : Push(s) /\ UNCHANGED dvars

Spec == Init /\ [][Next]_vars

-----------------------------------------------------------------------------
\* Whichever servers boot together, from whichever binaries, and wherever
\* one of them is killed, the version row of a domain tells which scripts
\* its tables have seen: applyMigration commits both or neither, and a
\* script that another process has overtaken fails instead of winding the
\* version back.
SchemaMatchesVersion ==
    \A d \in DOMAIN db : db[d].schema = Schema(d, db[d].version)

\* Every secret that a server has signed tokens with is still the one on
\* disk, through restarts with --init and killed or refused bootstraps,
\* unless an init --force replaced it, or two bootstraps of a new directory
\* overlapped, which nothing in the code prevents.
SecretOutlivesRestarts == signed \subseteq {disk.secret} \cup retired
=============================================================================
