------------------------------- MODULE Bundles -------------------------------
(***************************************************************************)
(* The directory of installed API bundles, <apis-dir>, and the commands    *)
(* that change it: `apis add` (from GitHub, a tarball or a directory),     *)
(* `apis upgrade`, `apis remove`, and the installs of --with-apis.         *)
(*                                                                         *)
(* A command is a process. Every change it makes that another process, or  *)
(* the next boot, can see is a step of its own: a rename, a stat, the      *)
(* removal of a file. Between two steps it can be killed, and a rename can *)
(* fail. Directories have an identity (an inode, a member of Dirs), so     *)
(* that a removal under way follows the directory it opened when a         *)
(* concurrent upgrade moves it aside.                                      *)
(*                                                                         *)
(* Scratch directories (.tmp.<rand>) are seen by their own process only;    *)
(* the ones a killed command leaves behind are hidden from every reader    *)
(* and are not kept in the state.                                          *)
(***************************************************************************)
EXTENDS Naturals, Sequences, FiniteSets, FiniteSetsExt, SequencesExt

CONSTANTS
    Procs,        \* processes: commands and servers
    Slugs,        \* host/owner/repo
    Shas,         \* commits
    Names,        \* bundle names, the directories of <apis-dir>
    History,      \* [Slugs -> Seq(Shas)]: the commits of the tracked branch
    ManifestName, \* [Shas -> Names]: bouncer.yaml#name
    APIsOf,       \* [Shas -> SUBSET APIs]: the API specs of a commit
    Allowed,      \* slugs that bouncer.yaml#apis.allowlist admits
    NameOrder,    \* the names in lexical order
    MaxDirs,      \* bound: directories that exist together
    MaxFaults,    \* bound: renames the file system refuses
    MaxCrashes,   \* bound: commands that are killed
    MaxCommands   \* bound: commands that are started

ASSUME BundlesAssumption ==
    /\ History \in [Slugs -> Seq(Shas)] /\ \A s \in Slugs : History[s] # <<>>
    /\ ManifestName \in [Shas -> Names]
    /\ {MaxDirs, MaxFaults, MaxCrashes, MaxCommands} \subseteq Nat

VARIABLES
    tree,     \* the directories that exist -> what they hold
    place,    \* Names -> the directory installed there, or NoDir
    aside,    \* .upgrade-old.*: old installations moved aside
    head,     \* Slugs -> the position of the branch in its history
    job,      \* Procs -> the apis command the process runs
    owed,     \* history: <<name, slug>> installed, see KeepsACopy
    spent     \* [commands, faults, crashes] used up

bvars == <<tree, place, aside, head, job, owed, spent>>

Dirs  == 1 .. MaxDirs
NoDir == 0

\* The files of a bundle: bouncer.yaml, source.yaml and the API specs.
Parts == {"manifest", "source", "apis"}

\* resolved_sha of an install from a working tree: the version of its ref.
LocalVersion == "local"

NoSha == "none"

\* The state of a command. `todo` holds the refs InstallRefs has yet to
\* look at, `rows` the installed bundles an upgrade has yet to handle.
Idle(result) ==
    [pc |-> "idle", result |-> result, todo |-> <<>>, rows |-> <<>>,
     slug |-> NoSha, sha |-> NoSha, rec |-> NoSha, name |-> NoSha,
     renamed |-> FALSE, tmp |-> NoDir, old |-> NoDir]

Ended  == Idle("none")
Failed == Idle("error")
Done   == Idle("ok")

InUse == {place[n] : n \in Names} \cup {a.dir : a \in aside}
         \cup UNION {{job[p].tmp, job[p].old} : p \in Procs}

Free == Dirs \ DOMAIN tree

\* A directory is in the state while something refers to it.
Collect == tree' = [d \in InUse' \ {NoDir} |-> tree[d]]

Mkdir(d, content) ==
    tree' = [e \in DOMAIN tree \cup {d} |-> IF e = d THEN content ELSE tree[e]]

\* os.Rename of a directory onto `name` succeeds where there is nothing,
\* or an empty directory.
CanRenameTo(name) == place[name] \in {NoDir} \cup {d \in DOMAIN tree : tree[d].parts = {}}

Fault == /\ spent.faults < MaxFaults
         /\ spent' = [spent EXCEPT !.faults = @ + 1]

Command == /\ spent.commands < MaxCommands
           /\ spent' = [spent EXCEPT !.commands = @ + 1]

Set(p, j) == job' = [job EXCEPT ![p] = j]

\* What a staged directory holds when it is complete. `rec` is the commit
\* that source.yaml records; `doomed` is history: a removal has begun.
Staged(slug, sha, rec, renamed) ==
    [parts |-> Parts, sha |-> sha, slug |-> slug, rec |-> rec,
     renamed |-> renamed, doomed |-> FALSE]

\* Lexical order of names, the order of every directory listing.
Before(m, n) == \E i, j \in DOMAIN NameOrder : NameOrder[i] = m /\ NameOrder[j] = n /\ i < j

\* A directory where the first commits of some slugs were installed before.
BInit ==
    \E at \in {f \in [Names -> Slugs \cup {NoSha}] :
                 \A n \in Names : f[n] # NoSha => ManifestName[History[f[n]][1]] = n} :
      /\ place = [n \in Names |-> IF at[n] = NoSha THEN NoDir
                     ELSE Cardinality({m \in Names : at[m] # NoSha /\ Before(m, n)}) + 1]
      /\ tree = [d \in {place[n] : n \in Names} \ {NoDir} |->
                   LET slug == at[CHOOSE n \in Names : place[n] = d]
                   IN  Staged(slug, History[slug][1], History[slug][1], FALSE)]
      /\ aside = {}
      /\ head = [s \in Slugs |-> 1]
      /\ owed = {<<n, at[n]>> : n \in {m \in Names : at[m] # NoSha}}
      /\ job = [p \in Procs |-> Ended]
      /\ spent = [commands |-> 0, faults |-> 0, crashes |-> 0]

-----------------------------------------------------------------------------
(* Installing. Fetcher.Install resolves, downloads and extracts into a     *)
(* scratch directory before it looks whether the name is free; stageInstall *)
(* (tarball, directory) looks first. Both rename the scratch directory in. *)

\* The commit a ref resolves to: the head of its branch.
ResolveSHA(slug) == History[slug][head[slug]]

\* enforceAllowlist, which only `apis add` calls.
Allowlisted(slug) == slug \in Allowed

\* `apis add <ref>`
runAdd(p, slug, renamed) ==
    /\ job[p].pc = "idle" /\ Allowlisted(slug)
    /\ Set(p, [Ended EXCEPT !.pc = "stage", !.slug = slug, !.renamed = renamed])
    /\ Command
    /\ UNCHANGED <<tree, place, aside, head, owed>>

\* stageInstall looks whether the name is taken before it copies.
AddLocal(p, slug, sha, rec, renamed) ==
    /\ job[p].pc = "idle" /\ Allowlisted(slug)
    /\ Set(p, IF place[ManifestName[sha]] # NoDir THEN Failed
              ELSE [Ended EXCEPT !.pc = "copy", !.slug = slug, !.sha = sha, !.rec = rec,
                                 !.renamed = renamed])
    /\ Command
    /\ UNCHANGED <<tree, place, aside, head, owed>>

\* `apis add --from-tarball`: the embedded source.yaml names the commit.
runAddFromTarball(p, slug, sha, renamed) == AddLocal(p, slug, sha, sha, renamed)

\* `apis add --from-dir`: resolved_sha is the version of --ref.
runAddFromDir(p, slug, sha, renamed) == AddLocal(p, slug, sha, LocalVersion, renamed)

\* Mutation: the rename comes before source.yaml is written.
StagesUnrecorded(p, pc, sha, rec) ==
    \E d \in {Min(Free)} :
      /\ Mkdir(d, [Staged(job[p].slug, sha, rec, job[p].renamed) EXCEPT !.parts = @ \ {"source"}])
      /\ Set(p, [job[p] EXCEPT !.pc = pc, !.sha = sha, !.rec = rec, !.tmp = d,
                               !.name = ManifestName[sha]])

Stages(p, pc, sha, rec) ==
    \E d \in {Min(Free)} :
      /\ Mkdir(d, Staged(job[p].slug, sha, rec, job[p].renamed))
      /\ Set(p, [job[p] EXCEPT !.pc = pc, !.sha = sha, !.rec = rec, !.tmp = d,
                               !.name = ManifestName[sha]])

\* Fetcher.Stage: the ref is resolved to the head of its branch, and that
\* commit is downloaded, extracted, validated and given its source.yaml.
Stage(p) ==
    /\ job[p].pc = "stage" /\ Free # {}
    /\ \E sha \in {ResolveSHA(job[p].slug)} :
         Stages(p, "stat", sha, sha)
    /\ UNCHANGED <<place, aside, head, owed, spent>>

\* stageInstall: the tree is copied and source.yaml written.
StageLocal(p) ==
    /\ job[p].pc = "copy" /\ Free # {}
    /\ Stages(p, "rename", job[p].sha, job[p].rec)
    /\ UNCHANGED <<place, aside, head, owed, spent>>

\* GitHub does not answer, the ref is gone, the tarball or its manifest is refused, or a
\* file cannot be written: the deferred RemoveAll drops the scratch copy.
StageFails(p) ==
    /\ job[p].pc \in {"stage", "copy", "up_resolve", "up_stage"}
    /\ Set(p, Failed)
    /\ UNCHANGED <<tree, place, aside, head, owed, spent>>

\* Install looks whether the name is taken.
StatFinal(p) ==
    /\ job[p].pc = "stat"
    /\ Set(p, IF place[job[p].name] # NoDir THEN Failed
              ELSE [job[p] EXCEPT !.pc = "rename"])
    /\ UNCHANGED <<place, aside, head, owed, spent>> /\ Collect

\* After an install InstallRefs goes on with the next ref.
AfterInstall(p) ==
    IF job[p].todo = <<>> THEN Done
    ELSE [Ended EXCEPT !.pc = "refs", !.todo = job[p].todo]

RenameIn(p) ==
    /\ job[p].pc = "rename" /\ CanRenameTo(job[p].name)
    /\ place' = [place EXCEPT ![job[p].name] = job[p].tmp]
    /\ owed' = owed \cup {<<job[p].name, job[p].slug>>}
    /\ Set(p, AfterInstall(p))
    /\ UNCHANGED <<aside, head, spent>> /\ Collect

RenameInFails(p) ==
    /\ job[p].pc = "rename"
    /\ \/ ~CanRenameTo(job[p].name) /\ UNCHANGED spent
       \/ Fault
    /\ Set(p, Failed)
    /\ UNCHANGED <<place, aside, head, owed>> /\ Collect

\* refAlreadyInstalled: some visible directory records the slug.
refAlreadyInstalled(slug) ==
    \E n \in Names : /\ place[n] # NoDir
                     /\ "source" \in tree[place[n]].parts
                     /\ tree[place[n]].slug = slug

\* One turn of the loop of InstallRefs.
InstallRefs(p) ==
    /\ job[p].pc = "refs"
    /\ Set(p, LET rest == Tail(job[p].todo) IN
              IF refAlreadyInstalled(Head(job[p].todo))
              THEN IF rest = <<>> THEN Done ELSE [job[p] EXCEPT !.todo = rest]
              ELSE [Ended EXCEPT !.pc = "stage", !.slug = Head(job[p].todo), !.todo = rest])
    /\ UNCHANGED <<tree, place, aside, head, owed, spent>>

-----------------------------------------------------------------------------
(* Upgrading: fetch into a scratch directory, move the old installation    *)
(* aside, move the new one in, drop the old one.                           *)

\* The visible directories that carry a manifest, and so count as bundles.
Installed == {n \in Names : place[n] # NoDir /\ "manifest" \in tree[place[n]].parts}

RowOf(n) == [path |-> n, slug |-> tree[place[n]].slug, rec |-> tree[place[n]].rec]

\* scanInstalledBundles in lexical order, kept to the bundle asked for.
Scan(want) ==
    LET In(n) == n \in Installed /\ (want = "all" \/ ManifestName[tree[place[n]].sha] = want)
    IN  [i \in DOMAIN SelectSeq(NameOrder, In) |-> RowOf(SelectSeq(NameOrder, In)[i])]

Turn(rows) == IF rows = <<>> THEN Done ELSE [Ended EXCEPT !.pc = "up_resolve", !.rows = rows]

\* A bundle without its source.yaml makes the scan, and the command, fail.
runUpgrade(p, want) ==
    /\ job[p].pc = "idle"
    /\ Set(p, IF \E n \in Installed : "source" \notin tree[place[n]].parts THEN Failed
              ELSE IF want # "all" /\ Scan(want) = <<>> THEN Failed
              ELSE Turn(Scan(want)))
    /\ Command
    /\ UNCHANGED <<tree, place, aside, head, owed>>

\* ResolveSHA, and the comparison with the recorded commit.
UpgradeResolve(p) ==
    /\ job[p].pc = "up_resolve"
    /\ \E row \in {Head(job[p].rows)} :
         LET sha == ResolveSHA(row.slug)
         IN  Set(p, IF sha = row.rec THEN Turn(Tail(job[p].rows))
                    ELSE [job[p] EXCEPT !.pc = "up_stage", !.slug = row.slug,
                                        !.sha = sha, !.name = row.path])
    /\ UNCHANGED <<tree, place, aside, head, owed, spent>>

\* Download, extract, validate; the renames come from the source.yaml that
\* is in place now. A directory that is gone by then fails the command.
UpgradeStage(p) ==
    /\ job[p].pc = "up_stage" /\ Free # {}
    /\ place[job[p].name] # NoDir
    /\ LET prev == tree[place[job[p].name]] IN
       \E d \in {Min(Free)} :
         /\ "source" \in prev.parts
         /\ Mkdir(d, Staged(job[p].slug, job[p].sha, job[p].sha, prev.renamed))
         /\ Set(p, [job[p] EXCEPT !.pc = "up_aside", !.tmp = d])
    /\ UNCHANGED <<place, aside, head, owed, spent>>

UpgradeAside(p) ==
    /\ job[p].pc = "up_aside" /\ place[job[p].name] # NoDir
    /\ \E d \in {place[job[p].name]} :
         /\ aside' = aside \cup {[name |-> job[p].name, dir |-> d]}
         /\ Set(p, [job[p] EXCEPT !.pc = "up_in", !.old = d])
    /\ place' = [place EXCEPT ![job[p].name] = NoDir]
    /\ UNCHANGED <<tree, head, owed, spent>>

UpgradeAsideFails(p) ==
    /\ job[p].pc = "up_aside"
    /\ \/ place[job[p].name] = NoDir /\ UNCHANGED spent
       \/ Fault
    /\ Set(p, Failed)
    /\ UNCHANGED <<place, aside, head, owed>> /\ Collect

UpgradeIn(p) ==
    /\ job[p].pc = "up_in" /\ CanRenameTo(job[p].name)
    /\ place' = [place EXCEPT ![job[p].name] = job[p].tmp]
    /\ owed' = (owed \ {<<job[p].name, tree[job[p].old].slug>>})
               \cup {<<job[p].name, job[p].slug>>}
    /\ Set(p, [job[p] EXCEPT !.pc = "up_clean", !.tmp = NoDir])
    /\ UNCHANGED <<aside, head, spent>> /\ Collect

UpgradeInFails(p) ==
    /\ job[p].pc = "up_in"
    /\ \/ ~CanRenameTo(job[p].name) /\ UNCHANGED spent
       \/ Fault
    /\ Set(p, [job[p] EXCEPT !.pc = "up_back"])
    /\ UNCHANGED <<tree, place, aside, head, owed>>

WithoutOld(p) == {a \in aside : a.dir # job[p].old}

\* Mutation: the error path only cleans up.
UpgradeGivesUp(p) ==
    /\ job[p].pc = "up_back"
    /\ aside' = WithoutOld(p)
    /\ Set(p, Failed)
    /\ UNCHANGED <<place, head, owed, spent>> /\ Collect

\* The rollback: its error is ignored, and the copy that was moved aside is
\* removed whether it is back in place or not.
UpgradeRollback(p) ==
    /\ job[p].pc = "up_back"
    /\ \/ /\ CanRenameTo(job[p].name)
          /\ place' = [place EXCEPT ![job[p].name] = job[p].old]
          /\ UNCHANGED <<owed, spent>>
       \/ /\ \/ ~CanRenameTo(job[p].name) /\ UNCHANGED spent
             \/ Fault
          /\ owed' = owed \ {<<job[p].name, tree[job[p].old].slug>>}
          /\ UNCHANGED place
    /\ aside' = WithoutOld(p)
    /\ Set(p, Failed)
    /\ UNCHANGED head /\ Collect

\* RemoveAll of the old copy; its failure is only a warning.
UpgradeClean(p) ==
    /\ job[p].pc = "up_clean"
    /\ aside' = WithoutOld(p)
    /\ Set(p, Turn(Tail(job[p].rows)))
    /\ UNCHANGED <<place, head, owed, spent>> /\ Collect

-----------------------------------------------------------------------------
(* Removing: the command looks for the manifest; os.RemoveAll then opens   *)
(* whatever directory has the name, unlinks its files in some order and    *)
(* removes the directory that has the name by then, if it is empty.        *)

runRemove(p, n) ==
    /\ job[p].pc = "idle" /\ n \in Installed
    /\ Set(p, [Ended EXCEPT !.pc = "rm_open", !.name = n])
    /\ Command
    /\ UNCHANGED <<tree, place, aside, head, owed>>

\* RemoveAll of a name that is gone answers nil.
RemoveOpen(p) ==
    LET d == place[job[p].name]
    IN  /\ job[p].pc = "rm_open"
        /\ IF d = NoDir
           THEN Set(p, Done) /\ UNCHANGED <<tree, owed>>
           ELSE /\ Set(p, [job[p] EXCEPT !.pc = "rm", !.old = d])
                /\ tree' = [tree EXCEPT ![d].doomed = TRUE]
                /\ owed' = owed \ {<<job[p].name, tree[d].slug>>}
        /\ UNCHANGED <<place, aside, head, spent>>

RemovePart(p) ==
    /\ job[p].pc = "rm"
    /\ \E part \in tree[job[p].old].parts :
         tree' = [tree EXCEPT ![job[p].old].parts = @ \ {part}]
    /\ UNCHANGED <<place, aside, head, job, owed, spent>>

RemoveDir(p) ==
    /\ job[p].pc = "rm" /\ tree[job[p].old].parts = {}
    /\ IF CanRenameTo(job[p].name)
       THEN place' = [place EXCEPT ![job[p].name] = NoDir] /\ Set(p, Done)
       ELSE UNCHANGED place /\ Set(p, Failed)
    /\ UNCHANGED <<aside, head, owed, spent>> /\ Collect

-----------------------------------------------------------------------------
\* Upstream pushes a commit to the branch.
Push(s) ==
    /\ head[s] < Len(History[s])
    /\ head' = [head EXCEPT ![s] = @ + 1]
    /\ UNCHANGED <<tree, place, aside, job, owed, spent>>

\* The steps of a command under way.
JobStep(p) ==
    \/ Stage(p) \/ StageLocal(p) \/ StageFails(p) \/ StatFinal(p)
    \/ RenameIn(p) \/ RenameInFails(p) \/ InstallRefs(p)
    \/ UpgradeResolve(p) \/ UpgradeStage(p) \/ UpgradeAside(p) \/ UpgradeAsideFails(p)
    \/ UpgradeIn(p) \/ UpgradeInFails(p) \/ UpgradeRollback(p) \/ UpgradeClean(p)
    \/ RemoveOpen(p) \/ RemovePart(p) \/ RemoveDir(p)

\* The commands an operator starts.
RunCommand(p) ==
    \/ \E slug \in Slugs, renamed \in BOOLEAN :
         \/ runAdd(p, slug, renamed)
         \/ \E sha \in Range(History[slug]) :
              \/ runAddFromTarball(p, slug, sha, renamed)
              \/ runAddFromDir(p, slug, sha, renamed)
    \/ \E want \in Names \cup {"all"} : runUpgrade(p, want)
    \/ \E n \in Names : runRemove(p, n)

-----------------------------------------------------------------------------
Whole(d) == d # NoDir /\ tree[d].parts = Parts

\* A directory the loader sees is a whole bundle, unless a removal of that
\* very directory has begun: neither a killed or failed install or upgrade
\* nor any interleaving of two commands shows a partial one (fetch.go:253,
\* "a killed install can't leave a partial bundle on disk").
VisibleIsWhole ==
    \A n \in Names : place[n] # NoDir => Whole(place[n]) \/ tree[place[n]].doomed

\* Bundle `slug` has a whole copy under name n, installed or moved aside.
CopiesOf(n, slug) ==
    {d \in {place[n]} \cup {a.dir : a \in {b \in aside : b.name = n}} :
        Whole(d) /\ tree[d].slug = slug}

\* The old version is "removed only after the new directory is in place"
\* (upgrade.go:28), as far as the code keeps that: whatever is killed, fails
\* or runs at the same time, a bundle that was installed under a name is on
\* disk as a whole, in place or moved aside. It ceases to be owed in three
\* ways: `apis remove` opens its directory; an upgrade has lost both its
\* renames, the one in and the one back (refused, or another install took
\* the name), where upgrade.go:182 ignores the failure and :183 deletes the
\* copy; an upgrade finds it under the name of the bundle that it scanned,
\* which is gone, and swaps it out for the new version of that one.
KeepsACopy == \A b \in owed : CopiesOf(b[1], b[2]) # {}
=============================================================================
