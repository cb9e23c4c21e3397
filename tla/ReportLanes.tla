------------------------------ MODULE ReportLanes ------------------------------
(***************************************************************************)
(* From the sources of a client to the messages of a report: the lanes of  *)
(* scan_messages_streaming_inner (lib.rs).  A scan takes the files of a    *)
(* lane in the order they are listed, from the cache if they have not      *)
(* changed, and hands each message to the sink unless an earlier one had   *)
(* its key.  Between scans files are rewritten and removed.                *)
(*                                                                         *)
(* Lanes share nothing but the sink, so one lane is looked at at a time.   *)
(* A message is a record of its `key`, an `id` that tells its copies       *)
(* apart, `passes` and `wanted`, what the client filter and the report's   *)
(* filter say of it, and what its lane needs; a fingerprint tells contents *)
(* apart, so it is the content.                                            *)
(***************************************************************************)
EXTENDS LaneMerges

CONSTANTS
    Path,       \* the positions of files in the listing
    Lanes,      \* the lanes that are looked at
    Contents,   \* Contents[l][p]: what a file of a lane may hold
    NoFile      \* the content of a file that is not there

\* "claude":      the history of a file is kept in the cache
\* "codex":       files in order
\* "simple":      simple_lane! and Gemini: the files that have not changed first
\* "copilot", "grok", "kiro": merged before anything is handed on
\* "antigravity": three sources, one after the other, without a cache
\* "trae":        the latest dump of a session, without a cache
Cached == {"claude", "codex", "simple", "copilot", "grok", "kiro"}
Gated == {"claude", "codex", "simple", "copilot", "grok"}

ASSUME LaneAssumption ==
    /\ IsFiniteSet(Path) /\ Path = 1..Cardinality(Path)
    /\ Lanes \subseteq Cached \cup {"antigravity", "trae"}
    /\ \A l \in Lanes : \A p \in Path : \A content \in Contents[l][p] :
         /\ content \in Seq(ToSet(content))
         /\ l = "grok" => \A m \in ToSet(content) : {"session", "unified"} \subseteq DOMAIN m
         /\ l = "trae" => \A m \in ToSet(content) : m.time \in Int /\ m.key \in Int \cup {NoKey}
    /\ NoKey \notin Int

VARIABLES
    lane,    \* the lane that is scanned
    file,    \* the content of each file
    cache,   \* the cached entry of each file: what it was parsed from, and the messages
    step,    \* "idle", "emit", "flush" or "done"
    queue,   \* messages not yet gone through
    gate,    \* what the deduplication remembers
    held,    \* messages put off: retained ones, or the latest of each Trae session
    sunk     \* what the sink was given

vars == <<lane, file, cache, step, queue, gate, held, sunk>>

NoEntry == [of |-> NoFile, messages |-> <<>>]

\* `seen` holds keys of this lane or, for Antigravity, of the source at hand,
\* which is number `source`; `this` and `earlier` are only used by Antigravity.
NewGate == [seen |-> {}, this |-> {}, earlier |-> {}, source |-> 1]

InitLane(l) ==
    /\ lane = l
    /\ file = [p \in Path |-> NoFile]
    /\ cache = [p \in Path |-> NoEntry]
    /\ step = "idle"
    /\ queue = <<>>
    /\ gate = NewGate
    /\ held = <<>>
    /\ sunk = <<>>

Init == \E l \in Lanes : InitLane(l)

\* A client writes or removes one of its files.
Write(p) ==
    /\ step = "idle"
    /\ \E content \in (Contents[lane][p] \cup {NoFile}) \ {file[p]} :
         file' = [file EXCEPT ![p] = content]
    /\ UNCHANGED <<lane, cache, step, queue, gate, held, sunk>>

-------------------------------------------------------------------------------
(***************************************************************************)
(* The files of a lane.                                                    *)
(***************************************************************************)
IsHit(p) == cache[p].of = file[p] /\ cache[p].messages # <<>>

\* Mutant: a copy that is still in the cache wins over the file's.
WithHistory_Frozen(p) ==
    LET known == cache[p].messages
        added == SelectSeq(file[p], LAMBDA m :
                    m.key = NoKey \/ \A x \in ToSet(known) : x.key # m.key)
    IN  added \o [i \in DOMAIN known |-> [known[i] EXCEPT !.retained = TRUE]]

\* retain_observed_messages: the turns of the entry that the file has lost.
WithHistory(p) ==
    LET live == file[p]
        lost == SelectSeq(cache[p].messages, LAMBDA m :
                    m.key # NoKey /\ \A x \in ToSet(live) : x.key # m.key)
    IN  live \o [i \in DOMAIN lost |-> [lost[i] EXCEPT !.retained = TRUE]]

MessagesOf(p) ==
    CASE file[p] = NoFile -> <<>>
      [] file[p] # NoFile /\ lane \in Cached /\ IsHit(p) -> cache[p].messages
      [] OTHER -> IF lane = "claude" THEN WithHistory(p) ELSE file[p]

\* What the scan leaves in the cache: files that are gone are pruned, and a
\* file without messages has no new entry.
EntryAfter(p) ==
    CASE file[p] = NoFile -> NoEntry
      [] file[p] # NoFile /\ MessagesOf(p) # <<>> -> [of |-> file[p], messages |-> MessagesOf(p)]
      [] OTHER -> IF lane = "kiro" THEN NoEntry ELSE cache[p]

Listing == [p \in 1..Cardinality(Path) |-> p]
InOrder(paths) == FlattenSeq([i \in DOMAIN paths |-> MessagesOf(paths[i])])

\* simple_lane! hands on what it finds in the cache while it collects the rest.
HitsFirst == SelectSeq(Listing, IsHit) \o SelectSeq(Listing, LAMBDA p : ~IsHit(p))

\* What a lane makes of the messages of all its files.
Merged(l, messages) ==
    CASE l = "copilot" ->
           PreferCopilotOtel(Chosen(messages, {i \in DOMAIN messages : ~messages[i].desktop}),
                             Chosen(messages, {i \in DOMAIN messages : messages[i].desktop}))
      [] l = "grok" -> PreferUnifiedLog(messages)
      [] l = "kiro" -> MergeKiro(messages)
      [] OTHER -> messages

\* Mutant: Grok's files that have not changed are handed on before the merge.
Queue_GrokHitsEarly ==
    CASE lane = "simple" -> InOrder(HitsFirst)
      [] lane = "grok" ->
           InOrder(SelectSeq(Listing, IsHit))
             \o PreferUnifiedLog(InOrder(SelectSeq(Listing, LAMBDA p : ~IsHit(p))))
      [] OTHER -> InOrder(Listing)

Queue == IF lane = "simple" THEN InOrder(HitsFirst) ELSE Merged(lane, InOrder(Listing))

\* The files of a lane are read and parsed, and their entries renewed.
Scan ==
    /\ step = "idle"
    /\ step' = "emit"
    /\ queue' = Queue
    /\ cache' = IF lane \in Cached THEN [p \in Path |-> EntryAfter(p)] ELSE cache
    /\ UNCHANGED <<lane, file, gate, held, sunk>>

-------------------------------------------------------------------------------
(***************************************************************************)
(* One message at a time.                                                  *)
(***************************************************************************)
Sink(m) == sunk' = IF m.passes /\ m.wanted THEN Append(sunk, m) ELSE sunk

\* Mutant: only a message of the report's window is remembered.
Gate_WantedOnly(m) ==
    IF m.key # NoKey /\ m.key \in gate.seen
    THEN UNCHANGED <<gate, sunk>>
    ELSE /\ gate' = IF m.key # NoKey /\ m.wanted THEN [gate EXCEPT !.seen = @ \cup {m.key}] ELSE gate
         /\ Sink(m)

\* dedup_gate_passes; the client filter comes before it, the report's after it.
Gate(m) ==
    IF ~m.passes \/ (m.key # NoKey /\ m.key \in gate.seen)
    THEN UNCHANGED <<gate, sunk>>
    ELSE /\ gate' = IF m.key # NoKey THEN [gate EXCEPT !.seen = @ \cup {m.key}] ELSE gate
         /\ Sink(m)

\* Mutant: a retained message is handed on where it stands.
IsPutOff_Never(m) == FALSE

IsPutOff(m) == lane = "claude" /\ m.retained

Emit ==
    /\ step = "emit" /\ queue # <<>>
    /\ lane \in Gated
    /\ ~IsPutOff(Head(queue))
    /\ Gate(Head(queue))
    /\ queue' = Tail(queue)
    /\ UNCHANGED <<lane, file, cache, step, held>>

PutOff ==
    /\ step = "emit" /\ queue # <<>>
    /\ IsPutOff(Head(queue))
    /\ held' = Append(held, Head(queue))
    /\ queue' = Tail(queue)
    /\ UNCHANGED <<lane, file, cache, step, gate, sunk>>

EmitKiro ==
    /\ step = "emit" /\ queue # <<>>
    /\ lane = "kiro"
    /\ Sink(Head(queue))
    /\ queue' = Tail(queue)
    /\ UNCHANGED <<lane, file, cache, step, gate, held>>

BufferTrae ==
    /\ step = "emit" /\ queue # <<>>
    /\ lane = "trae"
    /\ held' = KeepLatest(held, Head(queue))
    /\ queue' = Tail(queue)
    /\ UNCHANGED <<lane, file, cache, step, gate, sunk>>

(***************************************************************************)
(* AntigravityFamilyGate: `source` is 1 for the IDE, 2 for the CLI and 3   *)
(* for the extension.  The IDE has no gate of its own.  The gate is passed *)
(* before either filter looks at the message.                              *)
(***************************************************************************)
Repeats(m) == m.source # 1 /\ <<m.session, m.key>> \in gate.seen

\* Mutant: a message the filters drop leaves no trace.
Recorded_Sunk(m) ==
    IF m.key = NoKey \/ Repeats(m) \/ ~m.passes \/ ~m.wanted THEN gate
    ELSE [gate EXCEPT !.seen = IF m.source = 1 THEN @ ELSE @ \cup {<<m.session, m.key>>},
                      !.this = IF m.key \in gate.earlier THEN @ ELSE @ \cup {m.key}]

Recorded(m) ==
    IF m.key = NoKey \/ Repeats(m) THEN gate
    ELSE [gate EXCEPT !.seen = IF m.source = 1 THEN @ ELSE @ \cup {<<m.session, m.key>>},
                      !.this = IF m.key \in gate.earlier THEN @ ELSE @ \cup {m.key}]

EmitAntigravity ==
    /\ step = "emit" /\ queue # <<>>
    /\ lane = "antigravity"
    /\ Head(queue).source = gate.source
    /\ LET m == Head(queue)
           admitted == m.key = NoKey \/ (~Repeats(m) /\ m.key \notin gate.earlier)
       IN  IF admitted THEN Sink(m) ELSE UNCHANGED sunk
    /\ gate' = Recorded(Head(queue))
    /\ queue' = Tail(queue)
    /\ UNCHANGED <<lane, file, cache, step, held>>

FinishSource ==
    /\ step = "emit"
    /\ lane = "antigravity"
    /\ gate.source <= 3
    /\ queue # <<>> => Head(queue).source # gate.source
    /\ gate' = [NewGate EXCEPT !.earlier = gate.earlier \cup gate.this, !.source = gate.source + 1]
    /\ UNCHANGED <<lane, file, cache, step, queue, held, sunk>>

(***************************************************************************)
(* What was put off comes last.                                            *)
(***************************************************************************)
StartFlush ==
    /\ step = "emit" /\ queue = <<>>
    /\ lane = "antigravity" => gate.source = 4
    /\ step' = "flush"
    /\ UNCHANGED <<lane, file, cache, queue, gate, held, sunk>>

FlushRetained ==
    /\ step = "flush" /\ lane = "claude"
    /\ held # <<>>
    /\ Gate(Head(held))
    /\ held' = Tail(held)
    /\ UNCHANGED <<lane, file, cache, step, queue>>

\* The buffer is a hash map: its order says nothing.
FlushTrae ==
    /\ step = "flush" /\ lane = "trae"
    /\ \E session \in DOMAIN held :
         /\ Sink(held[session])
         /\ held' = Restrict(held, DOMAIN held \ {session})
    /\ UNCHANGED <<lane, file, cache, step, queue, gate>>

Finish ==
    /\ step = "flush" /\ DOMAIN held = {}
    /\ step' = "done"
    /\ UNCHANGED <<lane, file, cache, queue, gate, held, sunk>>

Rest ==
    /\ step = "done"
    /\ step' = "idle"
    /\ gate' = NewGate
    /\ held' = <<>>
    /\ sunk' = <<>>
    /\ UNCHANGED <<lane, file, cache, queue>>

Next ==
    \/ \E p \in Path : Write(p)
    \/ Scan
    \/ Emit \/ PutOff \/ EmitKiro \/ BufferTrae \/ EmitAntigravity \/ FinishSource
    \/ StartFlush \/ FlushRetained \/ FlushTrae \/ Finish
    \/ Rest

Spec == Init /\ [][Next]_vars

-------------------------------------------------------------------------------
(***************************************************************************)
(* Properties, of a scan that is done.                                     *)
(***************************************************************************)
Listed(files) == FlattenSeq([p \in 1..Cardinality(Path) |-> IF files[p] = NoFile THEN <<>> ELSE files[p]])
Live == Listed(file)

\* The first message of each key, of those the client filter lets through.
FirstCopies(messages) ==
    {i \in DOMAIN messages :
       /\ messages[i].passes
       /\ messages[i].key # NoKey =>
            \A j \in 1..(i - 1) : messages[j].passes => messages[j].key # messages[i].key}

Reported(l, messages) ==
    {i \in (IF l \in Gated THEN FirstCopies(messages) ELSE DOMAIN messages) :
       messages[i].passes /\ messages[i].wanted}

\* What a scan without a cache hands on: the live messages of the lane, merged
\* by its rule, one of each key whatever the report's filter says of it.
Cold == LET messages == Merged(lane, Live) IN Chosen(messages, Reported(lane, messages))

\* What is in the cache, and which files have changed since, cannot be told
\* from a report: a stale snapshot, log or aggregate never comes back and a
\* suppressed one is not lost for good (lib.rs, "Suppressed aggregates are never
\* written to the per-source cache").
CacheIsTransparent ==
    step = "done" /\ lane \in {"codex", "copilot", "grok", "kiro"} => sunk = Cold

\* What is told by two kinds of source, telemetry and the desktop database of
\* Copilot, the unified log and the older rows of Grok, an execution of Kiro and
\* the snapshots of it, is reported from one of them, whichever file is listed
\* first and whatever the cache held.
SessionIsToldOnce ==
    step = "done" =>
      /\ lane = "copilot" =>
           \A x, y \in ToSet(sunk) : x.session = y.session => (x.desktop <=> y.desktop)
      /\ lane = "grok" =>
           \A x, y \in ToSet(sunk) : x.session = y.session => (x.unified <=> y.unified)
      /\ lane = "kiro" =>
           \A x, y \in ToSet(sunk) : x.kind = "execution" =>
             /\ y.kind = "execution_snapshot" /\ x.workspace = y.workspace => x.key # y.key
             /\ y.kind = "chat_snapshot" /\ x.workspace = y.workspace => x.session # y.session
             /\ y.kind = "workspace_session" => x.session # y.session

\* No session is lost to the choice between two kinds of source.
NoSessionIsLost ==
    step = "done" /\ lane \in {"copilot", "grok", "kiro"} =>
      SessionsOf(sunk) = {m.session : m \in {m \in ToSet(Live) : m.passes /\ m.wanted}}

\* A lane that hands on unchanged files first (simple_lane!) may change the
\* order of a report, and nothing else when the copies of a message are equal.
OnlyOrderChanges ==
    step = "done" /\ lane = "simple" => ToSet(sunk) = ToSet(Cold) /\ Len(sunk) = Len(Cold)

\* A Claude turn that is still in some listed file is reported as that file
\* has it, never as the cache of another file remembers it, whichever is listed
\* first; and what no file has any more is reported from the cache, once.
LiveOutranksRetained ==
    step = "done" /\ lane = "claude" =>
      LET live == SelectSeq(sunk, LAMBDA m : ~m.retained)
          retained == SelectSeq(sunk, LAMBDA m : m.retained)
          kept == {m \in UNION {ToSet(cache[p].messages) : p \in Path} : m.retained}
      IN  /\ live = Cold
          /\ {m.key : m \in ToSet(retained)} =
               {m.key : m \in {m \in kept : m.wanted}} \ {m.key : m \in ToSet(Live)}
          /\ \A i, j \in DOMAIN retained : i # j => retained[i].key # retained[j].key

\* A response that several Antigravity clients recorded counts for the first of
\* them in the order IDE, CLI, extension, even when a filter then drops that
\* copy; a client's own repeats count once per conversation.
EarliestSourceCounts ==
    step = "done" /\ lane = "antigravity" =>
      sunk = Chosen(Live, {i \in DOMAIN Live :
                 /\ Live[i].passes /\ Live[i].wanted
                 /\ \/ Live[i].key = NoKey
                    \/ /\ \A j \in DOMAIN Live :
                            Live[j].key = Live[i].key => Live[j].source >= Live[i].source
                       /\ Live[i].source # 1 =>
                            \A j \in 1..(i - 1) :
                              <<Live[j].source, Live[j].session, Live[j].key>>
                                # <<Live[i].source, Live[i].session, Live[i].key>>})

\* Of two dumps the later one, of one time that with the greater key.
Outranks(m, x) ==
    \/ m.time > x.time
    \/ m.time = x.time /\ m.key # NoKey /\ (x.key # NoKey => m.key > x.key)

\* Of the dumps of a Trae session the latest counts, wherever it is listed, the
\* first of several that are even, and no session counts twice.
LatestDumpCounts ==
    step = "done" /\ lane = "trae" =>
      /\ \A i, j \in DOMAIN sunk : i # j => sunk[i].session # sunk[j].session
      /\ ToSet(sunk) =
           {Live[i] : i \in {i \in DOMAIN Live :
             /\ Live[i].passes /\ Live[i].wanted
             /\ \A j \in DOMAIN Live : Live[j].session = Live[i].session =>
                  /\ j < i => Outranks(Live[i], Live[j])
                  /\ j > i => ~Outranks(Live[j], Live[i])}}

\* What several sources tell is reported from one of them: a session of Copilot,
\* Grok or Kiro, a response of Antigravity, a session of Trae.
ToldOnce == SessionIsToldOnce /\ EarliestSourceCounts /\ LatestDumpCounts

\* Nothing that a client has told is lost: a turn of Claude to the cached copy of
\* another file, a session to the choice between two kinds of source, a message to
\* the order in which files come.
NothingIsLost == LiveOutranksRetained /\ NoSessionIsLost /\ OnlyOrderChanges
===============================================================================
