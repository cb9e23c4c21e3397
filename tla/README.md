# A verification development of tokscale-core

tokscale-core reads the transcripts that coding agents leave on disk, turns them into usage
messages, prices them and folds them into reports.  Everything it shows is recomputed from files
it does not own, with a cache of parsed messages in between.  For most sources that cache is only
a matter of speed.  For one of them, Claude Code, it is the only copy of data: Claude Code rewrites
transcripts in place when it compacts them, and the turns that were dropped live on only in the
cache, which several processes read, merge and replace.

This directory holds TLA+ modules that model the way from a file to a figure in a report, TLC
configurations that check them on small instances, and TLAPS proofs that hold for every instance.

## 1. The system

| Component | State | Operations | Interacts with | What is hard | What makes it correct |
|---|---|---|---|---|---|
| **Source message cache** `message_cache.rs` | shard files per namespace, a lock file; per process `entries`, `dirty_keys`, `deleted_keys`, `rewrite_shards` | open/load, prune, get, insert, remove, release, `save_if_dirty` | every lane of `lib.rs`; other processes through the directory | concurrent writers, in-place rewrites, crashes, version bumps, I/O failure | no observed turn is lost; labels are earned; a hit is what the file holds; deletions hit only what they were decided on; the lock is released |
| **Lanes** `lib.rs` (streaming and materialized) | per scan: what was parsed, dedup sets, deferred messages | fingerprint, parse, retain, insert, emit | cache, parsers, pricing, sink | read/parse/stamp races, order of files, copies of a turn in several files | a live copy outranks a retained one; each turn is counted once; a warm cache changes nothing |
| **Claude parser** `sessions/claudecode.rs`, `cc_mirror.rs` | per-file duplicate groups, checkpoint | parse, resume from checkpoint, resolve parents | cache (checkpoint, related paths) | growth and rewrites between scans; streamed partial records | resume = full parse; duplicates merge to the final figure |
| **Codex parser and incremental cache** `sessions/codex.rs`, `lib.rs` 922-1080, `message_cache.rs` 2666-2747 | parser state at a byte offset, prefix hash | full parse, append parse, fallback | cache | truncation or rewrite while reading; forks that replay their parent | incremental = full; a fork counts its own tokens only |
| **Change token and memo** `message_cache.rs` 2106-2274, `lib.rs` 6037-6180 | memo of decoded shards | compute token | cache directory, scanner | no lock, stale memo | a change of retained state changes the token |
| **Cross-source selection** `lib.rs` 2866-3305 | authority sets, deferred records | admit, defer, select, finish | OpenCode, Antigravity, Trae, Kiro, Grok and Copilot parsers | the order in which copies arrive, stores that change between two readings | no request is lost, or counted more often than its databases tell it differently; the better copy counts |
| **Pricing service** `pricing/` | process-wide service with its age, dataset files with time stamps | get or refresh, load datasets | network, dataset files | concurrent refresh, failed refresh, clocks | no price is served past its age unless the refresh failed |
| **Price lookup** `pricing/lookup.rs` | a memo | find the rates of a model, compute cost and coverage | lanes | tiers, rates that are missing, two walks over the same rates | a cost is called an estimate only if every token has a rate |
| **Atomic replacement** `fs_atomic.rs` | temporary and final file | replace with retries | all writers | sharing violations, crashes | the final file is the old one or the new one |
| **Reports** `lib.rs`, `aggregator.rs`, `sessionize.rs` | folds over messages | aggregate, sessionize, cost coverage | lanes, pricing | parallel pieces, touching and nested intervals, days | the figures are those of the whole list, however it was cut |
| **Remote report** `remote_report.rs` | record sets and limits | validate, aggregate | lanes, callers | four rules for which clients are meant; limits; saturation | scanning and gating change nothing of the bundle; what is not asked for cannot fail it |
| **Source context, scanner, clients, paths** | none kept | resolve roots, list files | lanes | mostly file-system I/O | files are listed once |
| **Other session parsers** `sessions/*` | per-file | decode | lanes | formats of external programs | field extraction, mostly not modelled |

A scan goes from the left to the right of this picture:

    files -> parser (full or resumed) -> cache -> lane (order, gate, selection) -> sink -> fold -> report
                                          ^ |                                        ^
                              other processes, next scans                     pricing service

The first arrow is `CodexIncremental` and `ClaudeIncremental`; the cache, over many processes and
scans, is `MessageCache`; the lanes are `StreamingScan`; the folds are the rest of `UsageReport`;
pricing is `PricingService` and `TokenPrice`.

## 2. Modules

| Module | Models |
|---|---|
| `CacheEntry` | one cached entry, the parse-time merge (`retain_observed_messages`) and the merge of a save (`absorb_retained_history`) |
| `MessageCache` | the cache directory, the processes that use it and the lanes that fill it, over source files that anyone may change |
| `ObservedHistory` | what the cache promises about Claude transcripts, in three actions |
| `GrowingFile` | a transcript that is appended to, cut back and replaced while it is read |
| `CodexRollout`, `ClaudeTranscript` | the two stateful parsers, as folds over lines |
| `CodexIncremental`, `ClaudeIncremental` | the cached parse of one file: hit, resume, fallback, full parse, what is stored |
| `Subsequences` | the elements of a sequence at given positions, and the sum of numbers |
| `LaneMerges` | the merges of Copilot, Grok, Kiro and Trae |
| `ReportLanes` | the order, the gates and the deferrals by which the lanes of a streaming scan hand messages on |
| `OpenCodeSelection`, `OpenCodeScan` | the selection among copies of an OpenCode request, and the two readings of its stores |
| `StreamingScan` | the lanes of the two modules above as one scan |
| `TokenPrice` | cost and coverage of a message |
| `SessionTime` | session intervals and the time metrics |
| `GraphReport` | the accumulators of days and sessions, cut into pieces and merged |
| `RemoteReport` | the client rules, gate and fold of the report for a remote reader |
| `UsageReport` | a scan, and what is made of its messages |
| `PricingService` | the process-wide pricing snapshot, its lock and TTL, the shared dataset files, the retrying downloads and the fall back to files |
| `MC...` | constants for TLC |
| `MessageCacheProofs` | theorems about the cache, its turns and what its entries say |
| `GrowingFileProofs`, `CodexIncrementalProofs`, `ClaudeIncrementalProofs` | theorems about a file that is written while it is read, and about the cached parses of Codex and Claude Code on top of it |
| `StreamingScanProofs` | theorems about the lanes |
| `PricingServiceProofs` | theorems about the pricing service |
| `UsageReportProofs`, `GraphReportProofs` | theorems about the remote report and the price of a message, and, with the same facts about sums, about the graph |

### MessageCache and the code

A **message** is a dedup key with one usage figure, which stands for any of the counters that grow
while a response streams (they are merged field by field, so one field is enough to see a merge go
wrong).  `StableKey` are the keys `retained_history_key_filter` accepts; other keys are unique only
within one file.  A **fingerprint** tells contents of a file apart, so it is the number of the
content, its generation.  A file's key, namespace and shard are fixed by its path (`ShardOf`).

| Model | Code |
|---|---|
| `stored`, `envelope`, `lock` | shard files, `CachedShardEnvelope::parser_version`, the `fs2` lock |
| `entries`, `dirty_keys`, `deleted_keys`, `rewrite_shards` | the fields of `SourceMessageCache` |
| `stage`, `fp`, `parsed` | the local variables of a lane, per path |
| `todo`, `writing`, `merged` | the loop of `save_if_dirty_with_limit` |
| `Load`, `LoadFails`, `PruneMissingFiles` | `ensure_namespace_loaded` / `load` and their failure returns, `prune_missing_files` |
| `CheckFingerprint` | the hit test at the head of every lane |
| `ParseClaude`, `ParseClaudeFails` | `claude_stage_a` and the miss branch of the Claude lane |
| `ParseCheckFirst`, `ParseNotCacheable` | `load_or_parse_source_with_fingerprint_and_policy` |
| `ParseFirst`, `StampAfterParse` | `simple_lane!` and the Gemini lane: parse, then fingerprint again |
| `FinishScan`, `FinishCleanScan` | `release_clean_namespace`, the `dirty` test |
| `LockExclusive`, `MergeShard`, `WriteShard`, `WriteShardFails`, `SaveDone`, `SaveUnavailable` | `save_if_dirty_with_limit`, `write_shard_with_limit` |
| `Crash` | the process dies at any point; the lock is released by the system |
| `WriteSource`, `DeleteSource`, `Upgrade` | the environment |

The load holds the shared lock from beginning to end, so it is one step that needs `lock = {}`.
A save is one step per shard and half: the merge reads the shard, the write replaces it, and files
may change and the process may die between the two.  Lanes of different paths interleave freely,
which covers the parallel stage A and the batches of stage B.  The replacement of a shard by rename
is one step that happens or fails (`WriteShardFails`), which is what `fs_atomic.rs` gives its callers
after its retries.

`Faults` chooses which I/O failures can happen; the load can fail while the save succeeds because
the two open the directory and the lock file independently.

### The parsers and the code

A file is a sequence of complete lines and a part of the next one (`GrowingFile`): nothing, a "cut"
part that is not JSON yet, or a "bare" line that only lacks its newline.  A line is three units long,
so offsets, sizes and reads within a line mean something.  Any prefix of a session can be the
content; `CutBack` shortens or replaces it.

| Model | Code |
|---|---|
| `CodexRollout!ParseLine` and its `Parse...` operators | the match of `parse_codex_reader` over record types: pending messages without a model, inherited rows of a fork, totals and increments, headless lines |
| `CodexIncremental`: `Check`, `Hit`, `CheckPrefix`, `ReadLine`, `EndRead` | `codex_stage_a`: the hit test, the prefix hash, the append parse |
| `FinishFull`, `FinishTail`, `FinishUncached`, `Reparse`, `Fingerprint` | its outcomes: stored with state and offset, served without, or parsed again from the beginning |
| `ClaudeTranscript!ParseLine`, `ParseDetected`, `MergeRow`, `ParseAdvisors`, `ParseToolResult`, `ParseStream` | `parse_claude_lines` and the rows of one response, which are merged field by field |
| `ClaudeIncremental`: `Check`, `Hit`, `CheckPrefix`, `ReadLine`, `EndRead`, `FailRead` | `claude_stage_a` with `SourceFingerprint::claude...`, the checkpoint and its prefix hash |
| `NameAgent`, `meta`, `parent` | the `.meta.json` beside a subagent's transcript and the transcript of its parent, which name the agent and are part of the fingerprint |

Taking a fingerprint, of a transcript and its related files, is one step.  In the code `.meta.json` is read twice
for it: to see whether it names the agent (`message_cache.rs` 704), and to record it (581).  If it is deleted or stops naming
the agent in between, an entry without a parent is stored that no later check repairs.  The comment at
`message_cache.rs` 680-687 names that gap; `HitIsExact` and the theorems about it are stated without it.  A file that was
cut back does not grow past its old size within the same scan.  Checkpoints are taken on macOS arm64
builds only; the model is of such a build.  What a Claude scan keeps of older turns is left to
`MessageCache`, and does not appear in `ClaudeIncremental`.

### The lanes and the code

| Model | Code |
|---|---|
| `lane` "claude" | two passes: live copies as files are listed, retained ones after all files (`PutOff`, `FlushRetained`) |
| "codex" | files in order through one gate |
| "simple" | `simple_lane!` and the Gemini lane: cached files first, then the parsed ones (`HitsFirst`) |
| "copilot", "grok", "kiro" | collected, merged (`LaneMerges`), handed on |
| "antigravity" | three sources one after the other; a later source adds only to sessions and keys the earlier ones have not recorded |
| "trae" | the latest dump of each session, at the end |
| `OpenCodeScan`: `FirstReading`, `ReadDatabase`, `ReadFile`, `HandOverDeferred` | the authority reading and the second reading of `scan_opencode...` with `OpenCodeSelection` |
| `Drift` | OpenCode itself, between the two readings: a cost becomes reported, a store becomes unreadable |
| `Sink` | the client filter and the report's filter, behind the dedup gate, in this order |

Lanes share nothing but the sink, so a behaviour of `StreamingScan` shows one lane.  The lanes of
Kilo, Goose, Zed, Crush, Kiro's database and Synthetic pass messages straight on and are not looked at; those of
Hermes and gjc are "simple" without a cache.  A fingerprint is the content of a file, so a cached
entry is what `MessageCache` and the incremental parsers show it to be.

### The reports and the code

| Model | Code |
|---|---|
| `TokenPrice`: `TieredCost`, `RequestCost`; `TieredCoverage`, `SelectedCoverage`; `Reprice` | `compute_cost`, `compute_full_session_long_context_cost`; `coverage_for_pricing` and its helpers; `apply_pricing_if_available` |
| `SessionTime`: `Feed`, `Active`, `MaxConcurrent`, `LongestContinuous`, `DailyActive` | `SessionizeAccumulator`, `compute_max_concurrent`, `compute_time_metrics`, `compute_daily_active_time_with_timezone` |
| `GraphReport`: `Add`, `Split`, `Reduce`, `MergeDays`, `MergeSessions` | `DayAccumulator`, `SessionAccumulator` and rayon's fold and reduce over them |
| `RemoteReport`: `LanesOf`, `Scans`, `PassesClient`, `Accepts`, `Push`, `IsSaturated` | `split_report_client_filter`, `enabled_clients`, `retain_for_requested_clients`, `RemoteMessageGate`, `RemoteUsageAccumulator` |

Simplifications: rates and costs are integers, thresholds are ticks 1..4 for 128k, 200k, 256k and 272k
tokens, costs are in tenths for Zed's factor of 1.1.  Times are integers, shares of a day are rounded down from
exact rationals where the code multiplies floats, days have one length except where a midnight is missing
(`NoMidnight`).  In `GraphReport` one amount of tokens stands for the five buckets, amounts are not negative,
a tie that the code breaks by the order of a hash map is a choice, pieces may be merged in any order of
neighbours, and the clamps of `into_contribution` and the normalisation of seconds to milliseconds are
left out.  `RemoteReport` follows two folds side by side, one given every message and one given what a
scan for the query hands it; the limit on the size of the output, the timed samples of models, the
validation of queries and time zones are left out.

### PricingService and the code

A **dataset** is known by the timestamp it is saved with; what it says about models is not
modelled.  One clock stands for the system time of the files and the monotonic time of the snapshot;
files may be stamped in the future when a run begins.

| Model | Code |
|---|---|
| `service`, `queue`, `writer` | `PRICING_SERVICE`, a fair `tokio::sync::RwLock<Option<CachedService>>`, per process |
| `file` | the files of `pricing/cache.rs`; `written` is the mtime and only serves a property |
| `Ask`, `ReadLock`, `WriteLock` | `get_or_init`: fast path, write lock, second look |
| `ReadFile`, `Downloaded`, `SaveFile` | `load_cache`, and the stamp and the rename of `save_cache`, which other processes can come between |
| `AttemptFails`, `Refused`, `Exhausted` | the retry loops of `litellm::fetch` and `openrouter::fetch_all_models`; a listing that fails for good is an empty map |
| `StoreService`, `RefreshFails`, `Panic` | the end of `fetch_inner` and of `get_or_init` |
| `AskCacheOnly`, `ReadAnyAge`, `Fallback` | `load_pricing_for_local_parse_with_context`, `select_local_parse_pricing`, `load_cached_any_age` |
| `Cancel`, `Crash` | a task dropped at an await, the end of the process |

The two downloads of a refresh run in one task and take turns at their awaits; `save_cache` has none,
so nothing of the same task comes between a download and its file.

## 3. Runs

Every run of `MCMessageCache` has two processes.  Two are enough for the hazards here: each property relates what one
process holds in memory to what another has stored meanwhile, and the lock admits one writer.

| Run | Question | Bounds |
|---|---|---|
| `MCHistory` | Does the cache lose, lower or mislabel an observed turn while a transcript is rewritten, deleted and recreated, with crashes and failures?  Does it implement `ObservedHistory`? | 1 transcript, 1 turn, figures 0..2, 3 generations |
| `MCShards` | Does a save keep what others stored for other paths of a shard?  What if it stops between two shards? | 3 paths in 2 shards, Claude and a lane without history, 1 content each, crashes |
| `MCUpgrade` | Do turns survive parser versions down to the floor? | versions 1..3, floor 2, a stable and an unstable key |
| `MCNoHistory` | Is a hit exactly the file, and a deletion aimed at the right entry, in a lane that fingerprints first? | 1 path, 3 generations |
| `MCParseFirst` | What can be wrong with an entry of a lane that parses first, with shards that cannot be read back or written?  Is the lock always released? | Gemini lane, 1 path, 3 generations; no symmetry |
| `MCCodex` | Is a resumed parse a full parse, does a fork count its own tokens once, and does a scan report a state the file was in? | 7 sessions of up to 10 lines, 1 rewrite, 2 lines added during a scan, failing reads |
| `MCClaude` | Is a hit exact, a checkpoint where a full parse would stand, and the count of a response independent of the order of its rows? | 5 sessions of up to 5 lines, 1 rewrite, 3 writes during a scan, 2 related files with 2 names each, failing reads |
| `MCClaudeTorn` | *violation*: a line read in two parts is lost for good | as `MCClaude`, reads that end within a line |
| `MCScan` | Does what a scan reports depend on the cache or the order of files?  Which copy of a turn counts?  Are prices, days, sessions, time metrics and the remote bundle what the messages add up to? | 8 lanes of 3 files; 2 OpenCode databases of up to 2 rows and 2 files with 2 payloads, 1 change between readings; figures of reports below |
| `MCPricing` | How old can prices be that are handed out as fresh?  Does a task go without prices although there are some? | 2 processes, one of which may price from files only; 1 attempt, TTL 1, clock 0..2, refusals |
| `MCPricingLock` | Do tasks that find the snapshot expired download once?  Is each answered? | 1 process, 2 tasks, 2 attempts, TTL 1, clock 0..1, network and server errors, failed saves, cancellation, crashes |
| `MCRetriesPanic` | *violation*: a server error on every attempt panics | |

Three generations are needed for the hazards the comments of `absorb_retained_history` describe:
a full transcript, its compacted form, and a third content under which an older label would be
wrong.  Two figures tell a partial record from a complete one.

For a transcript one rewrite and one append per scan already make a resume meet every kind of
difference: the same prefix and more, another prefix of the same length, a shorter file, a file that is
replaced between the prefix hash and the read, an append between the last read and the fingerprint.
Codex adds a second append, because its append parse is checked twice.  Claude has three writes during a scan, which is
what a transcript needs that was cut back below its checkpoint to pass it again before the prefix is hashed (see the limits below).  The sessions are chosen by
what they make the parser do: forks of a subagent, a user and an older log, a resumed session, rows
that repeat, go back or lack a total or a model; streamed rows, advisors, tool results, sidechains, headless runs,
malformed lines.

The databases of OpenCode hold rows that are copies under one key or another, rows of one key that say different things (in
one database or in two, with or without a row that relates them), and a row that is a copy of two rows read before it.
Two payloads make a file an exact copy of a row, or one that only shares its key.

Three files per lane are a copy, another copy and a bystander; each lane has contents in which copies of a key
differ, are filtered out by either filter, or lack what its merge looks at.

The reports of `MCScan`: 4 thresholds and rates on either side, absent and invalid; 3 sessions, up to 4 messages at
times 0..7, idle gap 3, days of 3 with day 2 without a midnight, so sessions can touch, nest, span three days and cross
the gap; up to 4 messages of 5 kinds, cut into any pieces; up to 3 remote messages of 18 kinds under 14 queries, with
limits of 2 messages, 5 label bytes, 2 records and counts to 3, so each limit is met exactly and exceeded.

Every property of a passing run has a mutant in the modules (an operator named after the one it
replaces, `..._Variant`), a plausible bug under which the run finds the property violated.

For pricing, a TTL of 1 and a clock to 2 leave room for a file in its last fresh second, a
snapshot made of it, its expiry and a second refresh; the comparisons (`<` for the snapshot, `<=` for
the file) differ at these values already.  Two attempts tell an attempt that is retried from the last.

**Fairness.** In `MessageCache` only `FairSpec` has any: a process inside its save takes its next step (`SaveAction`).
The save is a loop over a finite set without waiting, so a running process gets through it.  Nothing
is assumed about files, other processes or whether a writer ever obtains the lock; a waiting
process can starve behind others.  In `PricingService` a task that has asked takes its next step
(`Proceed`): tokio runs tasks that are ready, its lock is first come first served, and each attempt
ends because the clients have connect and total timeouts.

**Deadlock** is checked in every run but `MCScan`, whose scans and reports come to an end.

### What the violations show

1. `MCRetriesPanic`.  `litellm::fetch` keeps an error only when the request fails.  If every attempt
   is answered with a 5xx or 429, `last_error.expect("should have error after retries")` panics in the
   middle of `get_or_init`, whose arm for failed refreshes is not reached.  The lock is released, so
   other tasks go on (`MCPricingLock` includes this fault).
2. `MCClaudeTorn`.  `parse_claude_lines` reads a line with `read_until`.  At the end of a growing file
   that returns the part that is there; if Claude Code finishes the line before the next read, the rest
   comes as a line of its own.  Both parts are skipped as malformed, the last byte is a newline, and the
   checkpoint taken behind it makes every later scan skip the line too, though a resume is documented
   (`claudecode.rs` 832) to give up whenever it could differ from a full parse.  It needs a write that is seen in two
   parts exactly between two reads at the end of a file.

### Known limits of the code

Met while modelling; each is a choice of the code or a corner it accepts, and the properties above are
stated so as not to hide them.

- A subagent's transcript that was fingerprinted before its first line is not fingerprinted with its parent.  If it is cut back to nothing
  later, its parent is renamed, and it grows past its old checkpoint again between a scan's fingerprint and its prefix hash
  (`claudecode.rs` 856-886), that scan resumes under the former name.  The next scan parses it anew.  `ServesAState` leaves this
  scan out: `Regrown` counts it as disturbed.
- A load that fails before a save that succeeds loses retained turns across a parser version: `absorb_retained_history`
  returns when the versions differ (`message_cache.rs` 1378), so only a loaded entry carries them.  `MCUpgrade` has no failing load.
- `simple_lane!` takes the fingerprint it stores after the parse (`lib.rs` 4686).  A write in between is stored as a
  hit with the old messages.  `StampBoundsParse` is stated for the lanes that do not.
- A figure that a rewrite lowers is reported once, by the scan that parsed it (`lib.rs` 849), and raised again by the
  merge of the save (`message_cache.rs` 1486).
- A failed OpenRouter listing is an empty map (`pricing/mod.rs` 424): a refresh that reads LiteLLM's file while offline
  replaces a snapshot that had OpenRouter's prices.
- `simple_lane!` hands on cached files before parsed ones, while `sessions/pi.rs` (near 287) relies on the order of the scan.  Of
  copies that differ the cache decides which is kept; `OnlyOrderChanges` holds for copies that are alike.
- Rows of OpenCode databases with one key and different payloads are counted each (`mark_sqlite_seen`, `lib.rs` 3143-3160; documented
  at 3077-3080 and tested at 12248).  A file is counted in the place of one of them or not at all.  `CountedOnce`
  therefore counts tellings: the rows that share no key and payload with a row before.
- An OpenCode row that is a copy of two rows read before it, which had nothing in common, takes the place of at most one.  The other is
  counted as well; if it was deferred, beside a row that has its key and its payload.  Two databases are enough:
  the second holds a row in which the collapse of copies (`sessions/opencode.rs` 319-471) has united both keys.  `CountedOnce`
  counts two tellings here, and `MCScan` has the case.
- A missing local midnight ends the walk over the days of a session: active time of that day, of the
  one before it and of the rest of the session is in no day.  `DaysShareTheTime` promises the sum only without one.
- A session of a single moment overlaps one that begins a millisecond later.
- The accumulators are documented as "bit-for-bit identical"; they are up to the order of float sums and of ties.
- `StreamingAggregator::feed` uses one set of seen keys for all clients, which the comment at `lib.rs` 4333-4338 warns of.
- An empty list of clients means all of them for the model, graph and remote reports and none for hourly, agent and window
  reports.

## 4. Proofs

`MessageCacheProofs` proves, for any sets of processes, paths, shards and keys and any bounds:

- `TypeCorrect`: `Spec => []TypeOK`.
- `HistoryInvariant`: `Spec => []HistoryInv`, and from it
- `HistoryKept`: `Spec => NoHistoryLost`: no step drops or lowers a stored turn of a Claude path
  unless the path has been absent since its shard was last replaced.

The last two assume `OneBuild` (one parser version; what happens between versions is the subject of
`NoTurnLost`) and `ShardsReadable` (a save can read back the
shards it replaces; an unreadable shard is overwritten as if it were empty, which `UPSTREAM.md`
accepts).

The argument: a save writes `merged`, computed from the shard as it was when the save read it.
That is right only while nobody else writes, so the invariant has to say that one process at a time
is in a save (`OneWriter`) and that what is merged covers what is stored now
(`MergedCoversStored`).  That the merge covers needs the two entries to be of one version
(`StoredReadable`, `CopiesWellFormed`), that a Claude entry is never invalidated by fingerprint
(`RetainedNotInvalidated`), and that an absent file is known to have been absent (`AbsenceKnown`).
`AbsorbCovers` is the lemma about the merge, `ReadBack` the one about reading a shard, `SavedCovers`
joins them; `PrivateStep` disposes of the steps that touch one process's memory only.

- `TurnsSurviveUpgrades`: `Spec => NoTurnLost`, for any number of parser versions: what a newer build saves still holds
  every turn that an older one recorded for a Claude path that stayed.  It assumes `CleanMigration`: builds are installed
  while no scan runs, and the cache can be read at the start of a scan and in a save.  Each of the three is needed: with
  an older build still running, a failed load or an unreadable shard, a save replaces turns it has not seen.

Its invariant (`TurnInv`) says of an entry that the running build would replace (`Migrates`) that each scan has loaded its
turns (`LoadedTurns`) and that what a save has merged holds them (`MergedTurns`) and is of the running build or the stored entry
itself: so no other scan that loaded the older entry can be behind.  `VersionsOrdered` is why a build can read what it has to
migrate (`OldIsRead`), and `SavedTurns` joins the two ways a turn gets into the new entry: the parse-time merge across
versions, `absorb_retained_history` within one.

The second half of the module proves what an entry says of its file, for any number of builds and under every fault:

- `LiveLabelsAreEarned`: `Spec => []LiveLabelIsEarned`;
- `StampsBoundParses`: `Spec => []StampBoundsParse`;
- `HitsAreExact` and `HitsAreComplete`: `Spec => []HitIsExact` and `Spec => []HitIsComplete`, where every lane
  takes its stamp before it parses (`StampsFirst`).  For `simple_lane!` and Gemini, which parse first, both are
  false of the code: a rewrite between the parse and the stamp leaves a stale entry under a current stamp.

The properties speak of stored entries, but an entry is made in a lane, copied by a load and blended by a save,
so the invariant (`StampInv`) says of every entry wherever it is that it is `Sound`: its stamp is not from the
future; a Claude entry holds only figures the file has `Shown`, its live labels are `Earned` since the stamp, and it
is `Complete` if the stamp is current; any other entry is `OfOneGeneration` on the right side of the stamp.  One
lemma per way an entry comes about shows it sound (`ParsedClaudeSound`, `CheckedFirstSound`,
`StampedAfterSound`, `AbsorbSound`, `SavedSound`); `RewriteSound` shows that a rewrite keeps it so, since no earlier
stamp is current afterwards; `FilesUnchanged` disposes of the steps that only copy entries.  `AbsorbSound` is
where the rule to trust the labels of the stored entry under one fingerprint only is needed.

It also proves what becomes of the entry in a save:

- `DirtyKeysKeepEntries`: `Spec => []DirtyKeysHaveEntries`, from the fact that no key is dirty before the lanes run
  (`DirtyInv`);
- `InvalidationsArePrecise`: `Spec => InvalidationIsPrecise`;
- `PromiseKept`: `Spec => PromiseSpec`: the refinement of `ObservedHistory`.  A rewrite of a transcript is a `Show`
  (`RewriteShows`), a deletion a `Disappear`, the replacement of a shard a `Record` (`WriteRecords`, from
  `StampInv` for what is recorded and `HistoryInv` for what is not lost), and everything else stutters.

The last two assume `OneBuild` and `ShardsReadable`: an entry that a save cannot read, or that another build
wrote, is dropped without a deletion.

`CodexIncrementalProofs` proves, for any sessions and forks, with the file written and cut back between any two steps of a
scan and replaced between scans:

- `ScansAreSound`: `Spec => []CodexInv`, and from it
- `EntriesAreFullParses`: `Spec => []EntryIsFullParse`: what is cached is the parse of exactly the content it is
  fingerprinted with, though it was put together from resumed parses;
- `ScansServeAState`: `Spec => ServesAState`: what a scan reports is the parse of a state of the file, and of none
  before the one the scan found;
- `QuietScansCache`: `Spec => QuietScanCaches`: a quiet scan of a clean file leaves an entry that the next one hits.

The argument has a half about the parser and a half about the file.  A resumed scan starts with the
stored state and no messages and puts the stored messages in front afterwards, so the question is whether a parse that
begins behind other messages is the same parse.  It is, because every step of the parser only appends: each handler
has a lemma (`WaitingBehind`, `SessionMetaBehind`, `TokenCountBehind`, ...) that it commutes with `Behind(earlier, p)` and undoes no failure
(`Follows`), and `LineBehind` joins them.  `ParseOneMore` says that the parse of a script up to line n + 1 is the parse up to n
and one `ParseLine`.  The fold of the parser needs an induction on the number of lines (`RunExists`, `RunsAgree`, `WholeIsParse`), done with the
least number that is a counterexample (`LeastNumber`), since an induction rule cannot be instantiated.  `GrowingFileProofs` says what a file is
(`FileInv`: lines of one script, whole but for the last), what a write does to it (`WritePartInv`, `RewriteInv`) and what a
read at an offset can have met (`WhatIsRead`); `SameSize` is the step from equal sizes to equal contents, which holds
because while a scan runs the file has only contents of one script.  `CodexInv` adds to it what a running scan has read and how it
resumed (`ScanInv`), what it found when it started (`StartInv`) and what the entry is the parse of (`EntryInv`).  Assumed is that a
script has no line that is `NoLine` (`ScriptsAssumption`) and that `None` is not the content of a file
(`NoneAssumption`).

`ClaudeIncrementalProofs` proves, for any transcripts and any names the files beside them give, with Claude Code writing, cutting
back and renaming between any two steps of a scan and reads failing:

- `ClaudeScansAreSound`: `Spec => []ClaudeInv`, and from it
- `ClaudeEntriesAreFullParses`: `Spec => []EntryIsFullParse`: an entry that a scan would hit is the parse of what the file holds,
  under the name its agent has now, and a checkpoint is where the full parse of the lines before it stands;
- `ClaudeScansServeAState`: `Spec => ServesAState`;
- `ClaudeQuietScansCache`: `Spec => QuietScanCaches`.

All four assume `"torn" \notin Faults`, that no line is read in two parts: `MCClaudeTorn` shows that the second is false otherwise.

Here a resume continues with the restored messages themselves, so nothing has to commute; what is needed is that the
parse is *restored*: a parse is its state, its messages and a stream that is not open (`EndParts`), and the messages before clamping are
the clamped ones with the one-hour parts of the checkpoint (`UnclampedAgain`, `RestoredParse`).  For that every handler is shown to keep the
shape of a parse, to drop no message and to leave what the first line decided (`Follows`: one lemma per handler, from
`PushFollows` and `MergeRowFollows` to `DetectedFollows`).  The second question is the name.  It is looked up while the file is read and
parsed into the messages, but the fingerprint names the files it comes from only as far as they matter: the parent is not
watched while `.meta.json` names the agent, nor for a transcript without a subagent.  `Watches` says when a fingerprint sees every
source of the name; `ReachedAs` and `EntryOf` say that what was parsed is a parse under *some* name, and under the present one if
the fingerprint still watches; `AnyName` says that a transcript without a subagent parses alike under every name, and
`NameKept` and `EntryKept` carry both through a write, a renaming and a replacement.  That is why an entry found unchanged
by its fingerprint has the present name (`HitIsParse`).  What a scan reads is `LineReached`, from `WhatIsRead` of
`GrowingFileProofs`: without torn reads a scan is between two lines, or at the end.  Besides the assumptions named above the proofs use that the files
beside a transcript say something from the beginning (`NamesAssumption`) and that a row has a sequence of advisor calls
(`AdvisorsAssumption`).

`PricingServiceProofs` proves, for any processes, tasks, TTL, faults and clock bound:

- `TypeCorrect`: `Spec => []TypeOK`;
- `RefreshIsExclusive`: `Spec => []RefreshInv`: a task that refreshes is the only holder of its
  process's lock, and the snapshot of that process is expired until it replaces it; from it
- `RefreshedOncePerTTL`: `Spec => RefreshesAreApart`;
- `FreshPricesAreYoung`: `Spec => []ServedAge`: prices given as fresh are less than two TTLs old, plus what the refresh took;
- `UnpricedIsJustified`: `Spec => []UnpricedOnlyWithoutData`: a task goes without prices only if all its process and the
  files have came after it began to look.

`RefreshInv` is inductive with a few types (`LockTypes`): entering the refresh needs a free lock and
the second look, leaving it changes only the snapshot of the own process, and a crash empties both.
The last two rest on `AgeInv`.  For each task it says (`TaskInv`) that what it has fetched is younger than a TTL or came since
it began, that what it has looked for in vain came later, and that its answer, when fresh, is of a young snapshot; every
snapshot is young (`SnapshotIsYoung`).  A step of one task keeps the part of every other because
what is stored is stored later than the other began (`OthersRun`).
Assumed is what `PricingAssumption` says of the constants.

`StreamingScanProofs` proves, for any number of files of a lane, whatever they hold, rewritten and removed in any way between any
number of scans:

- `ScansForget`: `ReportSpec => []CacheIsTransparent`: Codex, Copilot, Grok and Kiro report what a scan without a cache would;
- `OneSourceTells`: `ReportSpec => []ToldOnce`: what several sources tell is reported from one of them.

A lane names the messages it keeps by their positions, so "the first of its key" and "the latest of its session" are facts about
positions, and what a lane keeps is `Chosen` of a sequence.  The fold behind `Chosen` needs the inductions of this module
(`ChoicesExist`, `ChoicesAgree`, and `JoinedExist` for the files put one behind the other), each done with a least counterexample
(`LeastNumber`); with `ChosenOneMore` a scan can then be followed message by message.

For the four merged or ordered lanes `KeptInv` says that a scan under way stands at some message of what a scan without a cache
would go through, with exactly the keys of the ones before remembered and exactly what is reported of them in the sink
(`Progress`).  It needs of a cache entry only that it holds the messages of the content it is stored under: a hit is a content
that came back.  That a session is told by one kind of source (`CopilotTold`, `GrokTold`, `KiroTold`) follows from what is
reported, since the merges see the messages of all files, hits and parsed ones alike.  For Antigravity `FamilyInv` divides the
messages gone through by the source that is being read: what the earlier sources recorded, what this one did (`FamilyOneMore`,
`FamilyNextSource`); a client's copy is recorded whether or not a filter drops it.  For Trae `TraeInv` says of the buffer that it
holds the latest dump of each session so far (`LatestOf`) and, while it is emptied in any order, that buffer and sink together
hold the latest dumps (`Flushed`).  The choice is transitive (`DumpsAreOrdered`), which is where the keys of dumps of one time
have to be comparable.

Assumed is `LaneAssumption`: the listing is finite, files hold sequences of messages, a Grok message says its session and
whether it is of the unified log, and the times and keys of Trae dumps are numbers (a key is compared as text in the code; all that
matters is that keys are ordered and differ from none).

`UsageReportProofs` proves, for any messages, queries and limits:

- `BundleIsKept`: `ReportSpec => []GateKeepsBundle`: in every report, when all messages together can be folded, scanning only
  the lanes of the clients a query names, filtering and gating gives the same pages;
- `OnlyAskedFails`: `ReportSpec => []OnlyAskedCanFail`: a report fails only over a fault or a limit of what the query asks for;
- `UnflaggedReportsAreExact`: `ReportSpec => []UnflaggedIsExact`: a report that is not flagged as saturated has on every page,
  for every key and counter, the sum of what the query asks for;
- `EstimatesAreHonest`: `ReportSpec => []EstimateIsHonest`: for any rates, thresholds and numbers of tokens, a message costs what
  its tokens cost one by one, and is called estimated, partial or neither as all, some or none of them have a rate.

`GraphReportProofs` proves, for any messages:

- `ShownUnderTheDearest`: `ReportSpec => []TopCostsMost`: a session is shown under what cost the most of all its messages, for
  any number of messages, cut into any pieces, merged in any order;
- `MergedReportsAddUp`: `ReportSpec => []PiecesAddUp`: however the list was cut and merged, the report that is left has the days
  and sessions of the messages told, with their totals, clients, providers, turns and times.

The invariant of the first (`BundleInv`) says that the fold of the scan is behind the other in its count of messages only
(`Behind`).  A message that both get (`PushBoth`) keeps that; one that only the other gets (`PushGiven`) adds
to no page, because a message the fold would put on a page is scanned: `AskedIsScanned`, which is where the
rules for lanes, mirrors, gateways and the gate have to agree.  The lanes and the other figures leave both folds
alone (`NextBundle`).

The next two compare a fold that goes on message by message with the whole list told so far.  What is asked for is a set of
places in that list (`Asked`), so that a message more adds one place or none (`AskedOneMore`, `AskedGrows`).  `AskedInv`
says that the fold has counted those messages, their labels and the keys of their pages and nothing else, and that an error has
something to blame among them, which does not go away (`BlameStays`); `ExactInv` says that pages that are not flagged hold the sums,
and the flag is never taken back (`UncutSum`, `PushExact`).  That a sum over the list grows by what a message adds
(`SumsOneMore`) needs an induction on the length of the list, done with a least counterexample as in `GrowingFileProofs`.

For prices the sum over single tokens is what the walk over the tiers is measured by.  `Walked` says that at each threshold the walk has paid
for the tokens below it, each at the rate of the last tier it lies above, and that up to the next threshold with a rate all tokens have the
rate at hand; `StepWalk` keeps it, since equal rates add up to a product (`ConstantRun`), and a tier without a valid rate
changes neither.  The other walk, of the coverage, looks at the first tier only; `TieredTells` shows that this is enough: the first
token is below every threshold, the last is above the first one if any is.

For `ShownUnderTheDearest`, `SessionInv` says of a session that it remembers the cost of the client it is shown under and no client costs
more.  One message can raise the cost of one client only (`AddSession`).  A merge can raise many, but compares each after it has been
added (`MergeSession`): if none exceeds the cost remembered, the client shown had no share in the other piece.  `PiecesInv` says it
of every session of every piece, before and after a message, a cut and a merge.

For `MergedReportsAddUp` each piece is given the places, in the list of messages, of those it has taken in.  `AccountsInv` says
that every place belongs to one piece (`Accounts`) and that the figures of a piece are those of its places (`PieceAdds`, of days
`DayAdds`, of sessions `SessionAdds` and `Spans`).  The order of pieces plays no part in it.  What makes a merge right is that sums cut
off at `i64::MAX` on the way end where the whole sum is cut off in the end (`CutSums`, `TogetherOfBoth`): true of amounts that are not
negative, and no longer true if one is.  Hence `AmountsAreNatural`.

Assumed is `ReportAssumption`: messages come from the lanes of their clients (`MessagesHaveLanes`), counts, label sizes, tokens and costs are
natural numbers, as are the four thresholds, which rise (`MessagesHaveSizes`, `AmountsAreNatural`: the parsers clamp tokens at zero, and they and the price lookup drop costs that
are negative or not finite; times are any that 64 bits hold), and so are the limits.  The rates and tokens that are priced are numbers of any sign, rates may be
missing (`RatesAreNumbers`, `TokensAreNumbers`); they are whole numbers of some small unit, for the order of floating-point sums is left out,
as is the width of a sum of output and reasoning tokens.

Model-checked only: liveness (`LockIsReleased`, `EveryTaskIsAnswered`, which no backend proves), what the parsers count (`CountsOwnTokens`, `TokensAreAssembled`), the time metrics
(`TimeMetricsAreExact`: sums over lists that are sorted and cut), `NothingIsLost` of the lanes and the OpenCode selection (`EveryRequestCountsOnce`, `ReportedCostWins`, `ChoiceIgnoresFilter`).

## 5. Not modelled, and what could come next

Left out of `MessageCache`: the bytes of shards and their size limit (a shard too large to write is a
failed write), directory permissions, the fields of a message, which clients are listed.  Left out of
`PricingService`: the legacy locations of the files, the requests for the authors of single models
(a failed one keeps the listed price), jumps of the system clock while running, and prices.

- **Source context, scanner, clients, paths**: environment variables, paths and directory walks, without state of
  their own.
- **Atomic replacement**: one rename, retried on Windows.
- **Model and provider identity, the search for the rates of a model name**: string tables, normal forms and fuzzy
  matches; a model of them would repeat the tables.
- **Other session parsers**: each is one pass over a format of an external program, mostly field extraction.  Their
  messages are values of the lanes.
- **Change token and memo**: the memo is keyed by device, inode, size and times of a shard that is only ever
  replaced by rename; whether two contents can share such a key is a matter of the file system, which a model could only assume.
- **Years, summaries, intensities and the reports by model, hour and agent**: sums over the same messages.

What could come next, the most useful first:

1. Proofs about the OpenCode scan (`ChoiceIgnoresFilter`, `ReportedCostWins`) and about Claude's lane (`LiveOutranksRetained`).
2. The parsers whose state spans records: Gemini, Copilot and Cline keep running totals like Codex's.
3. The retained-state token under an explicit assumption about the file system.
