----------------------------- MODULE MessageCache -----------------------------
(***************************************************************************)
(* The on-disk source message cache (message_cache.rs) and the lanes that  *)
(* read and fill it (lib.rs), with several processes sharing one cache     *)
(* directory while source files are rewritten, deleted and recreated under *)
(* them.                                                                   *)
(*                                                                         *)
(* A scan lists its files, loads and prunes a private copy of the cache,   *)
(* fingerprints and parses the files it does not hit, and saves what it    *)
(* changed: under the exclusive lock, it re-reads each affected shard,     *)
(* merges its changes into what it finds and replaces the shard.           *)
(***************************************************************************)
EXTENDS CacheEntry

CONSTANTS
    Proc,                 \* processes sharing the cache directory
    Path,                 \* source files
    Shard,                \* cache shards
    ShardOf,              \* the shard of a path's cache key
    Lane,                 \* how a path's lane fills the cache
    OldestMigratable,     \* oldest parser version Claude's history survives from
    UpgradeWhileRunning,  \* may a newer build be installed while scans run?
    Faults                \* which I/O failures can happen

\* "claude":      fingerprint, parse, keep observed history
\* "check_first": fingerprint, parse, the live file is the whole truth
\* "simple":      parse, fingerprint, the live file is the whole truth
\* "gemini":      the same, and a parse that is not cacheable drops the entry
LaneKind == {"claude", "check_first", "simple", "gemini"}

FaultKind == {"crash", "load", "load_read", "parse", "lock", "save_read", "write"}

ASSUME LaneAssumption ==
    /\ Lane \in [Path -> LaneKind]
    /\ ShardOf \in [Path -> Shard]
    \* A shard belongs to one namespace.
    /\ \A q, r \in Path : ShardOf[q] = ShardOf[r] =>
         (Lane[q] = "claude" <=> Lane[r] = "claude")
ASSUME CacheConstantsAssumption ==
    /\ OldestMigratable \in Nat \ {0}
    /\ UpgradeWhileRunning \in BOOLEAN
    /\ Faults \subseteq FaultKind

VARIABLES
    \* source files
    transcript,     \* transcript[q][g]: the messages of q's generation g
    gen,            \* the current generation of each file
    present,        \* whether each file exists
    vanished,       \* paths that were absent since their shard was last replaced
    everVanished,   \* paths that were absent at any time
    installed,      \* parser version of the build on the machine
    \* the cache directory
    stored,         \* the entry each path has in its shard file
    envelope,       \* the parser version in each shard's envelope, 0: no file
    lock,           \* holder of the exclusive lock
    \* one SourceMessageCache per process
    pc,             \* where in its scan a process is
    build,          \* the parser version it was built with
    entries,        \* SourceMessageCache::entries
    dirty_keys,     \* SourceMessageCache::dirty_keys
    deleted_keys,   \* SourceMessageCache::deleted_keys
    rewrite_shards, \* SourceMessageCache::rewrite_shards
    stage,          \* how far each listed path is through its lane
    fp,             \* the fingerprint taken for a path being parsed
    parsed,         \* the messages parsed for a path not yet fingerprinted
    todo,           \* shards the running save has still to replace
    writing,        \* the shard merged and not yet replaced
    merged          \* its merged entries

sources == <<transcript, gen, present, vanished, everVanished, installed>>
cacheDir == <<stored, envelope, lock>>
laneVars == <<stage, fp, parsed>>
saveVars == <<todo, writing, merged>>
bookkeeping == <<entries, dirty_keys, deleted_keys, rewrite_shards>>
vars == <<sources, cacheDir, pc, build, bookkeeping, laneVars, saveVars>>

\* deleted_keys maps a path to a DeletionReason: Missing, or Invalidated with
\* the fingerprint of the entry that was dropped.
NotDeleted == 0
Missing == -1
Invalidated(fingerprint) == fingerprint
DeletionReason == {NotDeleted, Missing} \cup Gen

Step == {"idle", "prune", "scan", "unsaved", "save", "write"}
LaneStep == {"none", "queued", "parsing", "stamping"}

Retains(q) == Lane[q] = "claude"
ParsesFirst(q) == Lane[q] \in {"simple", "gemini"}
PathsOf(s) == {q \in Path : ShardOf[q] = s}
Content(q) == transcript[q][gen[q]]

TypeOK ==
    /\ transcript \in [Path -> [Gen -> Messages]]
    /\ gen \in [Path -> Gen]
    /\ present \in [Path -> BOOLEAN]
    /\ vanished \subseteq Path
    /\ everVanished \subseteq Path
    /\ installed \in Version
    /\ stored \in [Path -> CachedSourceEntry]
    /\ envelope \in [Shard -> Version \cup {0}]
    /\ lock \subseteq Proc
    /\ pc \in [Proc -> Step]
    /\ build \in [Proc -> Version]
    /\ entries \in [Proc -> [Path -> CachedSourceEntry]]
    /\ dirty_keys \in [Proc -> SUBSET Path]
    /\ deleted_keys \in [Proc -> [Path -> DeletionReason]]
    /\ rewrite_shards \in [Proc -> SUBSET Shard]
    /\ stage \in [Proc -> [Path -> LaneStep]]
    /\ fp \in [Proc -> [Path -> Gen \cup {0}]]
    /\ parsed \in [Proc -> [Path -> Messages]]
    /\ todo \in [Proc -> SUBSET Shard]
    /\ writing \in [Proc -> SUBSET Shard]
    /\ merged \in [Proc -> [Path -> CachedSourceEntry]]
-------------------------------------------------------------------------------
(***************************************************************************)
(* Source files: any program may write, delete or recreate one at any time *)
(* (Claude Code rewrites a transcript in place when it compacts it).       *)
(***************************************************************************)
WriteSource(q) ==
    /\ gen[q] < MaxGen
    /\ \E messages \in Messages :
         transcript' = [transcript EXCEPT ![q] = [@ EXCEPT ![gen[q] + 1] = messages]]
    /\ gen' = [gen EXCEPT ![q] = @ + 1]
    /\ present' = [present EXCEPT ![q] = TRUE]
    /\ UNCHANGED <<vanished, everVanished, installed, cacheDir, pc, build, bookkeeping, laneVars, saveVars>>

DeleteSource(q) ==
    /\ present[q]
    /\ present' = [present EXCEPT ![q] = FALSE]
    /\ vanished' = vanished \cup {q}
    /\ everVanished' = everVanished \cup {q}
    /\ UNCHANGED <<transcript, gen, installed, cacheDir, pc, build, bookkeeping, laneVars, saveVars>>

\* A build with the next parser version is installed.
Upgrade ==
    /\ installed < MaxVersion
    /\ UpgradeWhileRunning \/ \A p \in Proc : pc[p] = "idle"
    /\ installed' = installed + 1
    /\ UNCHANGED <<transcript, gen, present, vanished, everVanished, cacheDir, pc, build,
                   bookkeeping, laneVars, saveVars>>
-------------------------------------------------------------------------------
(***************************************************************************)
(* Reading a shard.                                                        *)
(***************************************************************************)
\* Mutant: a parser version bump discards every older shard.
Migratable_Never(retains, version, current) == FALSE

\* parser_version_is_migratable
Migratable(retains, version, current) ==
    retains /\ OldestMigratable <= version /\ version < current

\* read_shard_with_limit's version gate and the filters of its callers: a
\* current shard or entry is read, an older one only where history is retained.
Admitted(retains, version, current) ==
    version > 0 /\ (version = current \/ Migratable(retains, version, current))

ShardRetains(s) == \E q \in PathsOf(s) : Retains(q)

ShardLoaded(s, current) == Admitted(ShardRetains(s), envelope[s], current)

\* The entries a build takes from the readable shard files on disk.
ReadEntry(q, current, readable) ==
    IF /\ ShardOf[q] \in readable
       /\ ShardLoaded(ShardOf[q], current)
       /\ Admitted(Retains(q), stored[q].version, current)
    THEN stored[q]
    ELSE NoEntry

\* Shards a load queues for a rewrite: unreadable, stale, or holding an entry
\* it does not admit.
NeedsRewrite(s, current, readable) ==
    /\ envelope[s] # 0
    /\ \/ s \notin readable
       \/ ~ShardLoaded(s, current)
       \/ \E q \in PathsOf(s) : stored[q] # NoEntry /\ ReadEntry(q, current, readable) = NoEntry

Unreadable(fault) == IF fault \in Faults THEN SUBSET Shard ELSE {{}}
-------------------------------------------------------------------------------
\* A scan ends: its SourceMessageCache is dropped and its locks are released.
Drop(p) ==
    /\ pc' = [pc EXCEPT ![p] = "idle"]
    /\ lock' = lock \ {p}
    /\ entries' = [entries EXCEPT ![p] = [q \in Path |-> NoEntry]]
    /\ dirty_keys' = [dirty_keys EXCEPT ![p] = {}]
    /\ deleted_keys' = [deleted_keys EXCEPT ![p] = [q \in Path |-> NotDeleted]]
    /\ rewrite_shards' = [rewrite_shards EXCEPT ![p] = {}]
    /\ stage' = [stage EXCEPT ![p] = [q \in Path |-> "none"]]
    /\ fp' = [fp EXCEPT ![p] = [q \in Path |-> 0]]
    /\ parsed' = [parsed EXCEPT ![p] = [q \in Path |-> NoMessages]]
    /\ todo' = [todo EXCEPT ![p] = {}]
    /\ writing' = [writing EXCEPT ![p] = {}]
    /\ merged' = [merged EXCEPT ![p] = [q \in Path |-> NoEntry]]

\* The process dies.  A temporary shard file it leaves behind has no shard
\* name, so no load ever reads it.
Crash(p) ==
    /\ "crash" \in Faults
    /\ pc[p] # "idle"
    /\ Drop(p)
    /\ UNCHANGED <<sources, stored, envelope, build>>

(***************************************************************************)
(* A scan begins: the scanner lists source files (which ones depends on    *)
(* client filters and modification times), then the cache is read.  The    *)
(* shared lock is held for the whole read, so no save runs meanwhile.      *)
(***************************************************************************)
List(p) ==
    \E listed \in SUBSET {q \in Path : present[q]} :
        stage' = [stage EXCEPT ![p] = [q \in Path |-> IF q \in listed THEN "queued" ELSE "none"]]

Load(p) ==
    /\ pc[p] = "idle"
    /\ lock = {}
    /\ List(p)
    /\ build' = [build EXCEPT ![p] = installed]
    /\ \E bad \in Unreadable("load_read") :
         /\ entries' = [entries EXCEPT ![p] =
                         [q \in Path |-> ReadEntry(q, installed, Shard \ bad)]]
         /\ rewrite_shards' = [rewrite_shards EXCEPT ![p] =
                         {s \in Shard : NeedsRewrite(s, installed, Shard \ bad)}]
    /\ pc' = [pc EXCEPT ![p] = "prune"]
    /\ UNCHANGED <<sources, cacheDir, dirty_keys, deleted_keys, fp, parsed, saveVars>>

\* The cache directory or its lock is unavailable: the scan runs on an empty
\* cache, and may still save.
LoadFails(p) ==
    /\ "load" \in Faults
    /\ pc[p] = "idle"
    /\ List(p)
    /\ build' = [build EXCEPT ![p] = installed]
    /\ pc' = [pc EXCEPT ![p] = "scan"]
    /\ UNCHANGED <<sources, cacheDir, bookkeeping, fp, parsed, saveVars>>

\* prune_missing_files: entries whose source file is gone are dropped, and the
\* drop is recorded for the save.
PruneMissingFiles(p) ==
    /\ pc[p] = "prune"
    /\ LET gone == {q \in Path : entries[p][q] # NoEntry /\ ~present[q]}
       IN  /\ entries' = [entries EXCEPT ![p] =
                           [q \in Path |-> IF q \in gone THEN NoEntry ELSE @[q]]]
           /\ dirty_keys' = [dirty_keys EXCEPT ![p] = @ \ gone]
           /\ deleted_keys' = [deleted_keys EXCEPT ![p] =
                           [q \in Path |-> IF q \in gone THEN Missing ELSE @[q]]]
    /\ pc' = [pc EXCEPT ![p] = "scan"]
    /\ UNCHANGED <<sources, cacheDir, build, rewrite_shards, laneVars, saveVars>>
-------------------------------------------------------------------------------
(***************************************************************************)
(* The lanes.  Each listed path goes through its lane on its own: stage A  *)
(* runs in parallel, and what stage B does with a path touches only that   *)
(* path's entry.                                                           *)
(***************************************************************************)
Insert(p, q, entry) ==
    /\ entries' = [entries EXCEPT ![p] = [@ EXCEPT ![q] = entry]]
    /\ dirty_keys' = [dirty_keys EXCEPT ![p] = @ \cup {q}]
    /\ deleted_keys' = [deleted_keys EXCEPT ![p] = [@ EXCEPT ![q] = NotDeleted]]

Remove(p, q) ==
    IF entries[p][q] = NoEntry
    THEN UNCHANGED <<entries, dirty_keys, deleted_keys>>
    ELSE /\ entries' = [entries EXCEPT ![p] = [@ EXCEPT ![q] = NoEntry]]
         /\ dirty_keys' = [dirty_keys EXCEPT ![p] = @ \ {q}]
         /\ deleted_keys' = [deleted_keys EXCEPT ![p] =
                [@ EXCEPT ![q] = Invalidated(entries[p][q].fingerprint)]]

KeepCache == UNCHANGED <<entries, dirty_keys, deleted_keys>>

SetStage(p, q, step) == stage' = [stage EXCEPT ![p] = [@ EXCEPT ![q] = step]]

\* An entry of the running build for the generation `fingerprint' stands for.
FreshEntry(p, fingerprint, messages, retained) ==
    [version |-> build[p], fingerprint |-> fingerprint,
     messages |-> messages, retained_keys |-> retained]

\* The cached entry serves the file: same build, same fingerprint, not empty.
Hit(p, q) ==
    /\ present[q]
    /\ entries[p][q].version = build[p]
    /\ entries[p][q].fingerprint = gen[q]
    /\ entries[p][q].messages # NoMessages

\* Without a fingerprint nothing is cached; only a lane that parses first goes
\* on, since it takes the fingerprint it stores after the parse.
CheckFingerprint(p, q) ==
    /\ pc[p] = "scan"
    /\ stage[p][q] = "queued"
    /\ IF Hit(p, q) \/ (~present[q] /\ ~ParsesFirst(q))
       THEN /\ SetStage(p, q, "none")
            /\ UNCHANGED fp
       ELSE /\ SetStage(p, q, "parsing")
            /\ fp' = [fp EXCEPT ![p] = [@ EXCEPT
                        ![q] = IF ParsesFirst(q) THEN 0 ELSE gen[q]]]
    /\ UNCHANGED <<sources, cacheDir, pc, build, bookkeeping, parsed, saveVars>>

ParseDone(p, q) ==
    /\ SetStage(p, q, "none")
    /\ fp' = [fp EXCEPT ![p] = [@ EXCEPT ![q] = 0]]
    /\ parsed' = [parsed EXCEPT ![p] = [@ EXCEPT ![q] = NoMessages]]
    /\ UNCHANGED <<sources, cacheDir, pc, build, rewrite_shards, saveVars>>

\* Claude: the parse is joined with everything the entry this scan loaded has
\* observed, whichever build wrote it.
ParseClaude(p, q) ==
    /\ pc[p] = "scan" /\ stage[p][q] = "parsing" /\ Lane[q] = "claude"
    /\ present[q]
    /\ LET cached == entries[p][q].messages
           all    == RetainObserved(Content(q), cached)
       IN  IF all = NoMessages
           THEN KeepCache
           ELSE Insert(p, q, FreshEntry(p, fp[p][q], all, RetainedKeys(Content(q), cached)))
    /\ ParseDone(p, q)

\* Claude: an unreadable transcript is neither cached nor joined with history.
ParseClaudeFails(p, q) ==
    /\ pc[p] = "scan" /\ stage[p][q] = "parsing" /\ Lane[q] = "claude"
    /\ ~present[q] \/ "parse" \in Faults
    /\ KeepCache
    /\ ParseDone(p, q)

\* Mutant: a lane without history keeps the messages the file no longer has.
ParseCheckFirst_KeepsOld(p, q) ==
    /\ pc[p] = "scan" /\ stage[p][q] = "parsing" /\ Lane[q] = "check_first"
    /\ present[q]
    /\ LET all == RetainObserved(Content(q), entries[p][q].messages)
       IN  IF all = NoMessages THEN KeepCache ELSE Insert(p, q, FreshEntry(p, fp[p][q], all, {}))
    /\ ParseDone(p, q)

\* A lane without history caches what it parsed under the fingerprint it took
\* before the parse.
ParseCheckFirst(p, q) ==
    /\ pc[p] = "scan" /\ stage[p][q] = "parsing" /\ Lane[q] = "check_first"
    /\ present[q]
    /\ IF Content(q) = NoMessages
       THEN KeepCache
       ELSE Insert(p, q, FreshEntry(p, fp[p][q], Content(q), {}))
    /\ ParseDone(p, q)

\* A parse that is not cacheable invalidates the entry it was to replace; to a
\* simple lane it is an empty parse, which changes nothing.
ParseNotCacheable(p, q) ==
    /\ pc[p] = "scan" /\ stage[p][q] = "parsing" /\ Lane[q] # "claude"
    /\ ~present[q] \/ "parse" \in Faults
    /\ IF Lane[q] = "simple" THEN KeepCache ELSE Remove(p, q)
    /\ ParseDone(p, q)

\* simple_lane! and the Gemini lane: the parse comes first ...
ParseFirst(p, q) ==
    /\ pc[p] = "scan" /\ stage[p][q] = "parsing" /\ ParsesFirst(q)
    /\ present[q]
    /\ parsed' = [parsed EXCEPT ![p] = [@ EXCEPT ![q] = Content(q)]]
    /\ SetStage(p, q, IF Content(q) = NoMessages THEN "none" ELSE "stamping")
    /\ UNCHANGED <<sources, cacheDir, pc, build, bookkeeping, fp, saveVars>>

\* Mutant: the messages are stored under the fingerprint of the entry they replace.
StampAfterParse_OldStamp(p, q) ==
    /\ pc[p] = "scan" /\ stage[p][q] = "stamping"
    /\ IF present[q]
       THEN Insert(p, q, FreshEntry(p, entries[p][q].fingerprint, parsed[p][q], {}))
       ELSE KeepCache
    /\ ParseDone(p, q)

\* ... and its messages are stored under the fingerprint the file has then.
StampAfterParse(p, q) ==
    /\ pc[p] = "scan" /\ stage[p][q] = "stamping"
    /\ IF present[q]
       THEN Insert(p, q, FreshEntry(p, gen[q], parsed[p][q], {}))
       ELSE KeepCache
    /\ ParseDone(p, q)
-------------------------------------------------------------------------------
(***************************************************************************)
(* save_if_dirty.                                                          *)
(***************************************************************************)
DeletedPaths(p) == {q \in Path : deleted_keys[p][q] # NotDeleted}

AffectedShards(p) ==
    rewrite_shards[p] \cup {ShardOf[q] : q \in dirty_keys[p] \cup DeletedPaths(p)}

\* Mutant: the release of a namespace takes its dirty entries too.
FinishScan_ReleasesDirty(p) ==
    /\ pc[p] = "scan"
    /\ \A q \in Path : stage[p][q] = "none"
    /\ AffectedShards(p) # {}
    /\ entries' = [entries EXCEPT ![p] = [q \in Path |-> IF Retains(q) THEN @[q] ELSE NoEntry]]
    /\ pc' = [pc EXCEPT ![p] = "unsaved"]
    /\ UNCHANGED <<sources, cacheDir, build, dirty_keys, deleted_keys, rewrite_shards,
                   laneVars, saveVars>>

\* The lanes are done.  release_clean_namespace gave up the clean entries of
\* lanes without history; a clean cache is not saved.
FinishScan(p) ==
    /\ pc[p] = "scan"
    /\ \A q \in Path : stage[p][q] = "none"
    /\ AffectedShards(p) # {}
    /\ entries' = [entries EXCEPT ![p] =
           [q \in Path |-> IF Retains(q) \/ q \in dirty_keys[p] THEN @[q] ELSE NoEntry]]
    /\ pc' = [pc EXCEPT ![p] = "unsaved"]
    /\ UNCHANGED <<sources, cacheDir, build, dirty_keys, deleted_keys, rewrite_shards,
                   laneVars, saveVars>>

FinishCleanScan(p) ==
    /\ pc[p] = "scan"
    /\ \A q \in Path : stage[p][q] = "none"
    /\ AffectedShards(p) = {}
    /\ Drop(p)
    /\ UNCHANGED <<sources, stored, envelope, build>>

\* Mutant: the save goes ahead without waiting for the lock.
LockExclusive_NoWait(p) ==
    /\ pc[p] = "unsaved"
    /\ lock' = lock \cup {p}
    /\ todo' = [todo EXCEPT ![p] = AffectedShards(p)]
    /\ pc' = [pc EXCEPT ![p] = "save"]
    /\ UNCHANGED <<sources, stored, envelope, build, bookkeeping, laneVars, writing, merged>>

LockExclusive(p) ==
    /\ pc[p] = "unsaved"
    /\ lock = {}
    /\ lock' = {p}
    /\ todo' = [todo EXCEPT ![p] = AffectedShards(p)]
    /\ pc' = [pc EXCEPT ![p] = "save"]
    /\ UNCHANGED <<sources, stored, envelope, build, bookkeeping, laneVars, writing, merged>>

\* The directory or the lock is unavailable: nothing is saved.
SaveUnavailable(p) ==
    /\ "lock" \in Faults
    /\ pc[p] = "unsaved"
    /\ Drop(p)
    /\ UNCHANGED <<sources, stored, envelope, build>>

\* Mutant: a pruned path is deleted without looking for its source again.
StillDeleted_NotRechecked(p, q, store) ==
    LET reason == deleted_keys[p][q]
    IN  /\ reason # NotDeleted
        /\ reason = Missing \/ (store # NoEntry /\ store.fingerprint = reason)

\* Mutant: an invalidation drops whatever entry is stored by now.
StillDeleted_AnyEntry(p, q, store) ==
    LET reason == deleted_keys[p][q]
    IN  /\ reason # NotDeleted
        /\ reason = Missing => ~present[q]

\* A deletion is applied only if the source is still missing, or the stored
\* entry is still the one that was invalidated.
StillDeleted(p, q, store) ==
    LET reason == deleted_keys[p][q]
    IN  /\ reason # NotDeleted
        /\ IF reason = Missing THEN ~present[q]
           ELSE store # NoEntry /\ store.fingerprint = reason

\* Mutant: clean paths of the shard are written from memory, not as re-read.
SavedEntry_FromMemory(p, q, store) ==
    IF StillDeleted(p, q, store) THEN NoEntry
    ELSE IF q \in dirty_keys[p] /\ Retains(q) THEN AbsorbRetainedHistory(entries[p][q], store)
    ELSE entries[p][q]

\* Mutant: history is absorbed in every lane.
SavedEntry_EveryLaneRetains(p, q, store) ==
    LET kept == IF StillDeleted(p, q, store) THEN NoEntry ELSE store
    IN  IF q \notin dirty_keys[p] \/ entries[p][q] = NoEntry THEN kept
        ELSE AbsorbRetainedHistory(entries[p][q], kept)

SavedEntry(p, q, store) ==
    LET kept == IF StillDeleted(p, q, store) THEN NoEntry ELSE store
    IN  IF q \notin dirty_keys[p] \/ entries[p][q] = NoEntry THEN kept
        ELSE IF Retains(q) THEN AbsorbRetainedHistory(entries[p][q], kept)
        ELSE entries[p][q]

\* An unreadable shard is merged as if it were empty.
MergeShard(p, s) ==
    /\ pc[p] = "save"
    /\ s \in todo[p]
    /\ \E bad \in Unreadable("save_read") :
         merged' = [merged EXCEPT ![p] = [q \in Path |->
             IF ShardOf[q] = s
             THEN SavedEntry(p, q, ReadEntry(q, build[p], Shard \ bad))
             ELSE NoEntry]]
    /\ writing' = [writing EXCEPT ![p] = {s}]
    /\ pc' = [pc EXCEPT ![p] = "write"]
    /\ UNCHANGED <<sources, cacheDir, build, bookkeeping, laneVars, todo>>

\* Mutant: a shard stays queued after it was tried.
ShardDone_StaysQueued(p) ==
    /\ writing' = [writing EXCEPT ![p] = {}]
    /\ merged' = [merged EXCEPT ![p] = [q \in Path |-> NoEntry]]
    /\ pc' = [pc EXCEPT ![p] = "save"]
    /\ UNCHANGED todo

ShardDone(p) ==
    /\ todo' = [todo EXCEPT ![p] = @ \ writing[p]]
    /\ writing' = [writing EXCEPT ![p] = {}]
    /\ merged' = [merged EXCEPT ![p] = [q \in Path |-> NoEntry]]
    /\ pc' = [pc EXCEPT ![p] = "save"]

\* The merged shard, complete in a temporary file, replaces the old one.
WriteShard(p) ==
    /\ pc[p] = "write"
    /\ LET mine == {q \in Path : ShardOf[q] \in writing[p]}
       IN  /\ stored' = [q \in Path |-> IF q \in mine THEN merged[p][q] ELSE stored[q]]
           /\ vanished' = (vanished \ mine) \cup {q \in mine : ~present[q]}
    /\ envelope' = [s \in Shard |-> IF s \in writing[p] THEN build[p] ELSE envelope[s]]
    /\ ShardDone(p)
    /\ UNCHANGED <<transcript, gen, present, everVanished, installed, lock, build,
                   bookkeeping, laneVars>>

\* The temporary file could not be written: the shard keeps its last content.
WriteShardFails(p) ==
    /\ "write" \in Faults
    /\ pc[p] = "write"
    /\ ShardDone(p)
    /\ UNCHANGED <<sources, cacheDir, build, bookkeeping, laneVars>>

\* Every affected shard was tried; the lock file is closed and the scan ends.
SaveDone(p) ==
    /\ pc[p] = "save"
    /\ todo[p] = {}
    /\ Drop(p)
    /\ UNCHANGED <<sources, stored, envelope, build>>
-------------------------------------------------------------------------------
Init ==
    /\ transcript \in [Path -> {[g \in Gen |-> IF g = 1 THEN m ELSE NoMessages] : m \in Messages}]
    /\ gen = [q \in Path |-> 1]
    /\ present = [q \in Path |-> TRUE]
    /\ vanished = {}
    /\ everVanished = {}
    /\ installed = 1
    /\ stored = [q \in Path |-> NoEntry]
    /\ envelope = [s \in Shard |-> 0]
    /\ lock = {}
    /\ pc = [p \in Proc |-> "idle"]
    /\ build = [p \in Proc |-> 1]
    /\ entries = [p \in Proc |-> [q \in Path |-> NoEntry]]
    /\ dirty_keys = [p \in Proc |-> {}]
    /\ deleted_keys = [p \in Proc |-> [q \in Path |-> NotDeleted]]
    /\ rewrite_shards = [p \in Proc |-> {}]
    /\ stage = [p \in Proc |-> [q \in Path |-> "none"]]
    /\ fp = [p \in Proc |-> [q \in Path |-> 0]]
    /\ parsed = [p \in Proc |-> [q \in Path |-> NoMessages]]
    /\ todo = [p \in Proc |-> {}]
    /\ writing = [p \in Proc |-> {}]
    /\ merged = [p \in Proc |-> [q \in Path |-> NoEntry]]

LaneAction(p, q) ==
    \/ CheckFingerprint(p, q)
    \/ ParseClaude(p, q) \/ ParseClaudeFails(p, q)
    \/ ParseCheckFirst(p, q) \/ ParseNotCacheable(p, q)
    \/ ParseFirst(p, q) \/ StampAfterParse(p, q)

\* What a process that holds the lock does on its own until it gives it up.
SaveAction(p) ==
    \/ \E s \in Shard : MergeShard(p, s)
    \/ WriteShard(p) \/ WriteShardFails(p)
    \/ SaveDone(p)

ScanAction(p) ==
    \/ Load(p) \/ LoadFails(p) \/ PruneMissingFiles(p)
    \/ \E q \in Path : LaneAction(p, q)
    \/ FinishScan(p) \/ FinishCleanScan(p)
    \/ LockExclusive(p) \/ SaveUnavailable(p)

Next ==
    \/ \E q \in Path : WriteSource(q) \/ DeleteSource(q)
    \/ Upgrade
    \/ \E p \in Proc : ScanAction(p) \/ SaveAction(p) \/ Crash(p)

Spec == Init /\ [][Next]_vars
-------------------------------------------------------------------------------
(***************************************************************************)
(* Properties.                                                             *)
(***************************************************************************)
RetainedPath == {q \in Path : Retains(q)}

\* absorb_retained_history and the two deletion reasons: no save of any process
\* drops or lowers a turn Claude's cache holds, unless the transcript has been
\* missing since that shard was last replaced.
NoHistoryLost ==
    [][\A q \in RetainedPath :
         Covers(stored'[q].messages, stored[q].messages) \/ q \in vanished]_vars

\* The migration: across parser versions the live parse may restate a figure,
\* but a turn recorded by an older build, down to the oldest one whose payload
\* can be read, is never dropped.
NoTurnLost ==
    [][\A q \in RetainedPath, k \in StableKey :
         stored[q].messages[k] > 0 /\ stored[q].version >= OldestMigratable =>
             stored'[q].messages[k] > 0 \/ q \in everVanished]_vars

\* A turn labelled live in a stored entry was in the transcript at or after the
\* generation the entry is stamped with: the labels of an older generation are
\* never blended in, so a stale copy cannot outrank a live one elsewhere.
LiveLabelIsEarned ==
    \A q \in RetainedPath, k \in Key :
        stored[q].messages[k] > 0 /\ k \notin stored[q].retained_keys =>
            \E g \in stored[q].fingerprint..gen[q] : transcript[q][g][k] > 0

\* An entry that a scan would take as a hit holds every message the file holds
\* now, with at least its figure and labelled live, whatever happened between
\* the fingerprint, the parse and the saves of other processes.
HitIsComplete ==
    \A q \in Path :
        stored[q] # NoEntry /\ present[q] /\ stored[q].fingerprint = gen[q] =>
            \A k \in Key : Content(q)[k] > 0 =>
                /\ stored[q].messages[k] >= Content(q)[k]
                /\ k \notin stored[q].retained_keys

\* Lanes without history: such an entry is exactly what the file holds.
HitIsExact ==
    \A q \in Path \ RetainedPath :
        stored[q] # NoEntry /\ present[q] /\ stored[q].fingerprint = gen[q] =>
            stored[q].messages = Content(q)

\* The direction in which a stored entry can be wrong.  A lane that takes the
\* fingerprint first can only hold messages newer than its stamp, which the next
\* scan repairs; one that parses first can only hold older ones.
StampBoundsParse ==
    \A q \in Path \ RetainedPath : stored[q] # NoEntry =>
        \E g \in 1..gen[q] :
            /\ stored[q].messages = transcript[q][g]
            /\ IF ParsesFirst(q) THEN g <= stored[q].fingerprint
               ELSE stored[q].fingerprint <= g

\* An invalidation drops the entry it was decided on, never one that another
\* process has stored for the path since.
InvalidationIsPrecise ==
    [][\A q \in Path : stored[q] # NoEntry /\ stored'[q] = NoEntry =>
         \/ q \in vanished
         \/ \E p \in lock : deleted_keys[p][q] = stored[q].fingerprint]_vars

\* The exclusive lock excludes: a process between lock and release is alone.
OneWriter == \A p \in Proc : pc[p] \in {"save", "write"} => lock = {p}

\* What NoHistoryLost rests on when one build is installed: an absent file is
\* known to be; an entry without a version is no entry, and a stored one is
\* readable; retained entries are never invalidated; and the shard a save has
\* merged covers what is on disk until it is written, since nobody else writes.
WellFormed(entry) == entry.version = 0 => entry = NoEntry

AbsenceKnown == \A q \in Path : ~present[q] => q \in vanished

StoredReadable ==
    \A q \in Path : /\ WellFormed(stored[q])
                    /\ stored[q].version # 0 => envelope[ShardOf[q]] # 0

CopiesWellFormed ==
    \A p \in Proc, q \in Path : WellFormed(entries[p][q]) /\ WellFormed(merged[p][q])

RetainedNotInvalidated ==
    \A p \in Proc, q \in RetainedPath : deleted_keys[p][q] \in {NotDeleted, Missing}

MergedCoversStored ==
    \A p \in Proc, q \in RetainedPath :
        pc[p] = "write" /\ ShardOf[q] \in writing[p] =>
            Covers(merged[p][q].messages, stored[q].messages) \/ q \in vanished

HistoryInv ==
    /\ OneWriter /\ AbsenceKnown /\ StoredReadable
    /\ CopiesWellFormed /\ RetainedNotInvalidated /\ MergedCoversStored

\* A save pays for what the scan learnt: each dirty key still has the entry to
\* write, and no path is both to be written and to be deleted.
DirtyKeysHaveEntries ==
    \A p \in Proc : \A q \in dirty_keys[p] :
        entries[p][q] # NoEntry /\ deleted_keys[p][q] = NotDeleted

\* The cache implements the promise of ObservedHistory.
Promise == INSTANCE ObservedHistory WITH
    Path <- RetainedPath,
    history <- [q \in RetainedPath |-> [k \in StableKey |-> stored[q].messages[k]]],
    seen <- [q \in RetainedPath |-> [k \in StableKey |->
                {transcript[q][g][k] : g \in 1..gen[q]}]],
    gone <- vanished \cap RetainedPath
PromiseSpec == Promise!Spec

\* A process that holds the lock finishes its save: the loop over the shards
\* ends whether each write succeeds or fails.
FairSpec == Spec /\ \A p \in Proc : WF_vars(SaveAction(p))
LockIsReleased == \A p \in Proc : p \in lock ~> p \notin lock
===============================================================================
