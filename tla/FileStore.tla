----------------------------- MODULE FileStore -----------------------------
(***************************************************************************)
(* The YAML-directory policies.Store (internal/control/policies/           *)
(* file_store.go).  A call holds FileStore.mu from end to end, so there is *)
(* one call at a time; it reads every file, replaces the canonical file of *)
(* the API by rename, then scrubs the other files one by one.  The process *)
(* may crash between any two renames.  Between calls the operator edits    *)
(* the directory by hand.                                                  *)
(*                                                                         *)
(* A missing file and an empty one both list nothing and are both << >>.   *)
(***************************************************************************)
EXTENDS Integers, SequencesExt

CONSTANTS APIs, Names, Bodies,
          NoPolicy,    \* a key that has no policy
          FileOrder,   \* the directory's *.yaml names, sorted
          Canonical,   \* [APIs -> file name]: <api>_policy.yaml
          HandEdits,   \* <<file, contents>> an operator may leave behind
          MaxListed    \* bound: no call begins with more entries than this

Files   == ToSet(FileOrder)
Keys    == APIs \X Names

(* plain: the api and the name stand in the file as they are.  An operator *)
(* may write them with YAML escapes; the store's encoder does not.         *)
Policy  == [api : APIs, name : Names, body : Bodies, plain : BOOLEAN]

ASSUME FileAssumption ==
    /\ NoPolicy \notin Bodies
    /\ Canonical \in [APIs -> Files]
    /\ HandEdits \subseteq Files \X Seq(Policy)
    /\ MaxListed \in Nat

VARIABLES files,  \* contents of each file
          pc,     \* "idle", "write" or "scrub"
          key,    \* the call's (api, name)
          body,   \* what it puts; NoPolicy for Delete
          pending,\* the new contents of the canonical file
          scan,   \* index in FileOrder of the next file to scrub
          reply,  \* what the last call returned; "warned" is ok with a log line
          loaded, \* history: what a boot would load, Loaded(files)
          was,    \* history: what it would have loaded when the call began
          risk    \* history: the directory AtRisk for the call's key then

vars == <<files, pc, key, body, pending, scan, reply, loaded, was, risk>>
aux  == <<was, risk>>

-----------------------------------------------------------------------------
readAll(fs) == FlattenSeq([i \in 1..Len(FileOrder) |-> fs[FileOrder[i]]])

filterByAPI(ps, api) == SelectSeq(ps, LAMBDA p : p.api = api)

upsert(ps, p) ==
    LET i == SelectInSeq(ps, LAMBDA q : q.name = p.name)
    IN  IF i > 0 THEN [ps EXCEPT ![i] = p] ELSE Append(ps, p)

remove(ps, name) ==
    LET i == SelectInSeq(ps, LAMBDA q : q.name = name)
    IN  IF i > 0 THEN RemoveAt(ps, i) ELSE ps

(* Mutant: the name alone selects the entry. *)
withoutName(ps, k) == SelectSeq(ps, LAMBDA p : p.name # k[2])

withoutEntry(ps, k) == SelectSeq(ps, LAMBDA p : <<p.api, p.name>> # k)

(* What the encoder writes. *)
Encoded(ps) == [i \in 1..Len(ps) |-> [ps[i] EXCEPT !.plain = TRUE]]

(* The raw bytes hold the api and hold the name, not necessarily in one    *)
(* entry.                                                                  *)
mightContainEntry(ps, k) ==
    /\ \E i \in 1..Len(ps) : ps[i].plain /\ ps[i].api = k[1]
    /\ \E i \in 1..Len(ps) : ps[i].plain /\ ps[i].name = k[2]

(* What LoadFromStore makes of the listing: the last entry of a key wins. *)
Loaded(fs) ==
    LET ps == readAll(fs)
    IN  [k \in Keys |->
            LET i == SelectLastInSeq(ps, LAMBDA p : <<p.api, p.name>> = k)
            IN  IF i = 0 THEN NoPolicy ELSE ps[i].body]

(* Where a call for k may leave a stale copy: k is listed twice, or a file *)
(* other than the canonical one lists it and the skim does not see it.     *)
AtRisk(fs, k) ==
    LET ps == readAll(fs)
    IN  \/ Len(ps) - Len(withoutEntry(ps, k)) > 1
        \/ \E f \in Files \ {Canonical[k[1]]} :
              /\ withoutEntry(fs[f], k) # fs[f]
              /\ ~mightContainEntry(fs[f], k)

-----------------------------------------------------------------------------
Init ==
    /\ files = [f \in Files |-> << >>]
    /\ pc = "idle" /\ key \in Keys /\ body = NoPolicy
    /\ pending = << >> /\ scan = 1 /\ reply = "none"
    /\ loaded = Loaded(files) /\ was = loaded /\ risk = FALSE

Begin(k, b, ps) ==
    /\ pc = "idle" /\ Len(readAll(files)) <= MaxListed
    /\ key' = k /\ body' = b
    /\ was' = loaded /\ risk' = AtRisk(files, k)
    /\ pc' = "write" /\ pending' = ps /\ reply' = "none"
    /\ UNCHANGED <<files, loaded, scan>>

(* Lock and readAll, up to the write. *)
Put(k, b) ==
    Begin(k, b, upsert(filterByAPI(readAll(files), k[1]),
                       [api |-> k[1], name |-> k[2], body |-> b,
                        plain |-> TRUE]))

Delete(k) ==
    LET scoped == filterByAPI(readAll(files), k[1])
        kept == remove(scoped, k[2])
    IN  \/ /\ Len(kept) = Len(scoped)
           /\ pc = "idle" /\ reply' = "notfound"
           /\ key' = k /\ body' = NoPolicy
           /\ was' = loaded /\ risk' = AtRisk(files, k)
           /\ UNCHANGED <<files, loaded, pc, pending, scan>>
        \/ /\ Len(kept) # Len(scoped)
           /\ Begin(k, NoPolicy, kept)

(* readAll, the encoder or atomicWrite fails before its rename. *)
WriteFails ==
    /\ pc = "write" /\ pc' = "idle" /\ reply' = "error" /\ pending' = << >>
    /\ UNCHANGED <<files, loaded, key, body, scan, aux>>

(* Rename over the canonical file, or its removal when nothing is left. *)
writeAPIFile ==
    /\ pc = "write" /\ pc' = "scrub" /\ scan' = 1
    /\ files' = [files EXCEPT ![Canonical[key[1]]] = Encoded(pending)]
    /\ pending' = << >> /\ loaded' = Loaded(files')
    /\ UNCHANGED <<key, body, reply, aux>>

(* Mutant: the first legacy file that the skim passes over ends the walk. *)
scrubLegacyEntryStops ==
    /\ pc = "scrub" /\ scan <= Len(FileOrder)
    /\ LET f == FileOrder[scan]
       IN  IF f = Canonical[key[1]] \/ mightContainEntry(files[f], key)
           THEN /\ files' = IF f = Canonical[key[1]] THEN files
                            ELSE [files EXCEPT ![f] =
                                     Encoded(withoutEntry(@, key))]
                /\ scan' = scan + 1
           ELSE scan' = Len(FileOrder) + 1 /\ UNCHANGED files
    /\ loaded' = Loaded(files')
    /\ UNCHANGED <<pc, key, body, pending, reply, aux>>

(* One iteration of the directory walk: skim, decode, rewrite what had a   *)
(* match.                                                                  *)
scrubLegacyEntry ==
    /\ pc = "scrub" /\ scan <= Len(FileOrder)
    /\ LET f == FileOrder[scan]
           kept == withoutEntry(files[f], key)
           rewrites == /\ f # Canonical[key[1]]
                       /\ mightContainEntry(files[f], key)
                       /\ Len(kept) # Len(files[f])
       IN  files' = IF rewrites THEN [files EXCEPT ![f] = Encoded(kept)]
                                ELSE files
    /\ scan' = scan + 1
    /\ loaded' = Loaded(files')
    /\ UNCHANGED <<pc, key, body, pending, reply, aux>>

(* A legacy file cannot be read or rewritten: logged, the call succeeds. *)
ScrubFails ==
    /\ pc = "scrub" /\ scan <= Len(FileOrder)
    /\ FileOrder[scan] # Canonical[key[1]]
    /\ pc' = "idle" /\ reply' = "warned" /\ scan' = 1
    /\ UNCHANGED <<files, loaded, key, body, pending, aux>>

Return ==
    /\ pc = "scrub" /\ scan > Len(FileOrder)
    /\ pc' = "idle" /\ reply' = "ok" /\ scan' = 1
    /\ UNCHANGED <<files, loaded, key, body, pending, aux>>

(* A temp file left behind is not *.yaml and is never listed. *)
Crash ==
    /\ pc # "idle" /\ pc' = "idle" /\ reply' = "lost"
    /\ pending' = << >> /\ scan' = 1
    /\ UNCHANGED <<files, loaded, key, body, aux>>

HandEdit(f, ps) ==
    /\ pc = "idle" /\ files[f] # ps
    /\ files' = [files EXCEPT ![f] = ps]
    /\ reply' = "none" /\ loaded' = Loaded(files')
    /\ was' = loaded' /\ risk' = FALSE
    /\ UNCHANGED <<pc, key, body, pending, scan>>

Next ==
    \/ \E k \in Keys, b \in Bodies : Put(k, b)
    \/ \E k \in Keys : Delete(k)
    \/ writeAPIFile \/ WriteFails \/ scrubLegacyEntry \/ ScrubFails
    \/ Return \/ Crash
    \/ \E e \in HandEdits : HandEdit(e[1], e[2])

Spec == Init /\ [][Next]_vars
-----------------------------------------------------------------------------
(* A call is in progress, or was the last thing to touch the directory. *)
AfterCall == pc # "idle" \/ reply # "none"

(* At every instant of a call, hence after a crash at any point or a       *)
(* failed scrub, a boot loads for the key of the call its old value or its *)
(* new one, and for every other key what it would have loaded before: a    *)
(* partial failure is "never made destructive" (file_store.go:83).         *)
NeverDestructive ==
    AfterCall => /\ loaded[key] \in {was[key], body}
                 /\ \A k \in Keys \ {key} : loaded[k] = was[k]

(* A write has its effect when a boot would load it: at the rename, or,   *)
(* while a file that sorts later lists the old entry, when that is         *)
(* scrubbed.                                                               *)
Effective == loaded[key] = body

KV == INSTANCE KVStore WITH
          Vals <- Bodies, m <- loaded, key <- key, val <- body,
          st <- CASE pc = "idle" -> "idle"
                  [] pc = "write" -> "pending"
                  [] pc = "scrub" -> IF Effective THEN "done" ELSE "pending",
          ans <- IF reply \in {"ok", "warned"} THEN "nil" ELSE reply,
          stale <- risk \/ reply = "warned"

(* Every directory, duplicates and unseen copies included, is the durable  *)
(* map of KVStore: a call takes effect at one instant or not at all, an    *)
(* error means it did not, a crash at any step leaves the old value or the *)
(* new one.  A nil answer means that the next boot loads what was written  *)
(* (file_store.go:71, :105), unless the call began with the key listed     *)
(* twice or with a copy its skim cannot see, or the scrub failed.          *)
ImplementsStore == KV!Spec

(* "Put scrubs that entry from the legacy file after the canonical write   *)
(* succeeds" so that the next load cannot resurrect the stale value        *)
(* (file_store.go:72), and Delete "drop[s] it so the operator's hand-edit  *)
(* can't reanimate the deleted policy on next boot" (:105): after a call   *)
(* that returned nil without a warning a boot loads what it wrote.         *)
AcknowledgedIsLoaded == pc = "idle" /\ reply = "ok" => Effective
=============================================================================
