----------------------------- MODULE CodexRollout -----------------------------
(***************************************************************************)
(* The parser of Codex rollout files (sessions/codex.rs): a fold over the  *)
(* lines of one file.  Its state survives in the cache between scans, so a *)
(* later scan can resume after the last line it consumed.                  *)
(*                                                                         *)
(* A line is a record with a `type`.  Token figures are the four counters  *)
(* of a snapshot; a time, a model, an id or a snapshot that the line lacks *)
(* is None.  Provider, agent and workspace ride along with a message and   *)
(* decide nothing, so they are left out.                                   *)
(***************************************************************************)
EXTENDS Integers, Sequences

CONSTANTS
    None,            \* an absent optional value
    UnknownModel,    \* the model of a message no line named a model for
    OrderKey(_),     \* the millisecond of a UUID v7 id, None for other ids
    FallbackTime     \* the modification time of the file

Fields == {"input", "output", "cached", "reasoning"}
ZeroTotals == [f \in Fields |-> 0]

Sum4(t) == t["input"] + t["output"] + t["cached"] + t["reasoning"]
AtMost(t, u) == \A f \in Fields : t[f] <= u[f]
Plus(t, u) == [f \in Fields |-> t[f] + u[f]]
Minus(t, u) == [f \in Fields |-> t[f] - u[f]]
OrElse(a, b) == IF a # None THEN a ELSE b

\* into_tokens: cached input is a part of the input and reasoning a part of
\* the output; each is counted once.
IntoTokens(t) ==
    LET cached == IF t["cached"] <= t["input"] THEN t["cached"] ELSE t["input"]
        reasoning == IF t["reasoning"] <= t["output"] THEN t["reasoning"]
                     ELSE t["output"]
    IN  [input |-> t["input"] - cached, output |-> t["output"] - reasoning,
         cache_read |-> cached, reasoning |-> reasoning]

NoTokens == IntoTokens(ZeroTotals)

\* Mutant: every snapshot that went back is a reset.
LooksStale_Never(total, previous, last) == FALSE

\* A cumulative snapshot that went back by about one increment is an old
\* snapshot that arrived late, not a reset of the counters.
LooksStale(total, previous, last) ==
    /\ Sum4(previous) > 0 /\ Sum4(total) > 0 /\ Sum4(last) > 0
    /\ \/ 100 * Sum4(total) >= 98 * Sum4(previous)
       \/ Sum4(total) + 2 * Sum4(last) >= Sum4(previous)

-------------------------------------------------------------------------------
InitState ==
    [model |-> None, cursor |-> None, previous |-> None, meta_id |-> None,
     forked_from |-> None, child |-> None, replay |-> None, waiting |-> FALSE,
     base |-> None, base_total |-> None, pending_turn |-> FALSE,
     started |-> {}, user_fork |-> FALSE]

\* What one parse accumulates: messages, those still waiting for a model, and
\* whether the result may be cached.
InitParse(state) ==
    [st |-> state, messages |-> <<>>, pending |-> <<>>, succeeded |-> TRUE,
     unresolved |-> FALSE]

\* The child's own turn was minted at or after the child session; replayed
\* turns of an ancestor were minted before it.
TurnStartsOwnSession(st, turn) ==
    \/ st.replay = None
    \/ st.child = None
    \/ turn = None
    \/ OrderKey(st.child) = None
    \/ /\ OrderKey(turn) # None
       /\ OrderKey(turn) > OrderKey(st.child)
    \/ /\ OrderKey(turn) \in {None, OrderKey(st.child)}
       /\ st.user_fork \/ turn \in st.started

\* started_at counts seconds; here a second is one unit of OrderKey.
TaskStartsOwnSession(st, turn, started_at) ==
    /\ turn # None /\ st.child # None
    /\ \/ OrderKey(st.child) = None
       \/ /\ OrderKey(turn) # None
          /\ OrderKey(turn) >= OrderKey(st.child)
       \/ /\ OrderKey(turn) = None
          /\ started_at # None /\ started_at >= OrderKey(st.child)

\* The key under which copies of one message in several files collapse.
DedupKey(scope, model, total, time, tokens) ==
    IF total # None THEN <<"total", scope, model, total>>
                    ELSE <<"row", time, model, tokens>>

WithModel(waiting, model) ==
    [i \in DOMAIN waiting |->
        [waiting[i] EXCEPT
           !.model = model,
           !.key = IF @ = None /\ ~waiting[i].fallback
                   THEN DedupKey(None, model, None, waiting[i].time, waiting[i].tokens)
                   ELSE @]]

Flush(p, model) ==
    [p EXCEPT !.messages = @ \o WithModel(p.pending, model), !.pending = <<>>]

FlushUnknown(p) ==
    IF p.pending = <<>> THEN p
    ELSE [Flush(p, UnknownModel) EXCEPT !.unresolved = TRUE]

-------------------------------------------------------------------------------
(***************************************************************************)
(* A forked child replays its parent's history first.  While it waits for  *)
(* its own turn_context nothing counts; the snapshots it skips become the  *)
(* baseline below which later snapshots are replays too.                   *)
(***************************************************************************)
WhileWaiting(st, line) ==
    CASE line.type = "turn_context" /\ TurnStartsOwnSession(st, line.turn_id) ->
           [st EXCEPT !.waiting = FALSE, !.replay = None, !.started = {},
                      !.user_fork = FALSE, !.meta_id = OrElse(st.child, @),
                      !.model = line.model]
      [] line.type = "task_started" ->
           [st EXCEPT !.started = IF TaskStartsOwnSession(st, line.turn_id, line.started_at)
                                  THEN @ \cup {line.turn_id} ELSE @]
      [] line.type = "session_meta" ->
           [st EXCEPT !.replay = IF line.id # None /\ st.child # None /\ st.child # line.id
                                 THEN line.id ELSE @]
      [] line.type = "token_count" /\ line.total # None ->
           [st EXCEPT !.previous = line.total, !.base = line.total,
                      !.base_total = line.reported]
      [] OTHER -> st

ParseWhileWaiting(p, line) == [p EXCEPT !.st = WhileWaiting(p.st, line)]

SessionMeta(st, line) ==
    LET named == [st EXCEPT !.meta_id = OrElse(line.id, @)]
        forked == [named EXCEPT !.forked_from = line.from, !.child = line.id]
        repeated == ~st.waiting /\ line.id # None /\ st.child = line.id
    IN  CASE line.from = None -> named
          [] line.from # None /\ repeated -> forked
          [] OTHER -> [forked EXCEPT !.waiting = TRUE, !.replay = None, !.base = None,
                                     !.base_total = None, !.started = {},
                                     !.user_fork = line.user_fork]

ParseSessionMeta(p, line) == [p EXCEPT !.st = SessionMeta(p.st, line)]

ParseTurnContext(p, line) ==
    LET q == [p EXCEPT !.st = [@ EXCEPT !.model = line.model, !.cursor = line.time]]
    IN  IF line.model = None THEN q ELSE Flush(q, line.model)

ParseUserMessage(p, line) ==
    IF line.human
    THEN [p EXCEPT !.st = [@ EXCEPT !.pending_turn = TRUE, !.cursor = line.time]]
    ELSE p

\* The same human input as newer Codex versions report it: no cursor reset.
ParseItemCompleted(p, line) ==
    IF line.human THEN [p EXCEPT !.st.pending_turn = TRUE] ELSE p

-------------------------------------------------------------------------------
\* Mutant: what the parent had counted is not remembered.
SkipInherited_NoBaseline(st, line) == FALSE

\* A snapshot within what the parent had already counted is one more replay.
SkipInherited(st, line) ==
    /\ line.total # None
    /\ \/ /\ st.base_total # None /\ line.reported # None
          /\ line.reported <= st.base_total
       \/ st.base # None /\ AtMost(line.total, st.base)

\* Mutant: the first snapshot adds its total.
Increment_FirstTotal(total, last, previous) ==
    CASE total = None -> last
      [] total # None /\ previous = None -> total
      [] total # None /\ total = previous -> None
      [] OTHER -> last

(***************************************************************************)
(* The increment a snapshot adds, None for a repeated or a late one.       *)
(* `last` is what is added; `total` only tells the rows apart.             *)
(***************************************************************************)
Increment(total, last, previous) ==
    CASE total = None -> last
      [] total # None /\ previous = None -> OrElse(last, total)
      [] total # None /\ total = previous -> None
      [] OTHER ->
           IF last # None
           THEN IF ~AtMost(previous, total) /\ LooksStale(total, previous, last)
                THEN None ELSE last
           ELSE IF AtMost(previous, total) THEN Minus(total, previous) ELSE None

\* The totals the next snapshot is compared with, after an accepted row.
NextTotals(total, last, previous) ==
    IF total # None THEN total
    ELSE IF previous = None THEN None ELSE Plus(previous, last)

\* ... and after a row that added nothing: only a bare total that went back
\* becomes the new baseline.
TotalsAfterSkip(total, last, previous) ==
    IF total # None /\ last = None /\ previous # None /\ ~AtMost(previous, total)
    THEN total ELSE previous

TokenMessage(st, line, model, tokens) ==
    [tokens |-> tokens, model |-> OrElse(model, UnknownModel),
     time |-> OrElse(st.cursor, OrElse(line.time, FallbackTime)),
     turn |-> st.pending_turn, fallback |-> line.time = None,
     key |-> IF line.time = None /\ line.total = None THEN None
             ELSE DedupKey(OrElse(st.forked_from, st.meta_id),
                           OrElse(model, UnknownModel), line.total,
                           OrElse(st.cursor, line.time), tokens)]

\* Not every accepted row moves the cursor, and none moves it back.
LaterTime(cursor, time) ==
    IF time # None /\ (cursor = None \/ time > cursor) THEN time ELSE cursor

ParseTokenCount(p, line) ==
    IF ~line.info THEN p
    ELSE LET model == OrElse(line.model, p.st.model)
             q == IF model = None THEN p
                  ELSE Flush([p EXCEPT !.st.model = model], model)
         IN  IF SkipInherited(q.st, line) THEN q
             ELSE LET prev == q.st.previous
                      inc == Increment(line.total, line.last, prev)
                      tokens == IF inc = None THEN NoTokens ELSE IntoTokens(inc)
                      past == [q.st EXCEPT !.base = None, !.base_total = None]
                      m == TokenMessage(q.st, line, model, tokens)
                  IN  IF tokens = NoTokens
                      THEN [q EXCEPT !.st = [past EXCEPT
                              !.previous = TotalsAfterSkip(line.total, line.last, prev)]]
                      ELSE [(IF model = None
                             THEN [q EXCEPT !.pending = Append(@, m)]
                             ELSE [q EXCEPT !.messages = Append(@, m)])
                            EXCEPT !.st = [past EXCEPT
                              !.previous = NextTotals(line.total, line.last, prev),
                              !.pending_turn = FALSE,
                              !.cursor = LaterTime(@, line.time)]]

\* A line of `codex exec` output that carries its own usage: no dedup key.
ParseHeadlessLine(p, line) ==
    LET model == OrElse(line.model, p.st.model)
        q == [p EXCEPT !.st.model = model]
        r == IF model = None THEN FlushUnknown(q) ELSE Flush(q, model)
        m == [tokens |-> line.tokens, model |-> OrElse(model, UnknownModel),
              time |-> OrElse(line.time, FallbackTime), turn |-> FALSE,
              fallback |-> line.time = None, key |-> None]
    IN  IF line.tokens = NoTokens THEN r ELSE [r EXCEPT !.messages = Append(@, m)]

\* Anything that is not JSON: the parse goes on, but is not cached.
ParseMalformed(p) ==
    [(IF p.st.model = None THEN FlushUnknown(p) ELSE Flush(p, p.st.model))
       EXCEPT !.succeeded = FALSE]

ParseCounted(p, line) ==
    CASE line.type = "session_meta" -> ParseSessionMeta(p, line)
      [] line.type = "turn_context" -> ParseTurnContext(p, line)
      [] line.type = "user_message" -> ParseUserMessage(p, line)
      [] line.type = "item_completed" -> ParseItemCompleted(p, line)
      [] line.type = "token_count" -> ParseTokenCount(p, line)
      [] OTHER -> p

\* Rows still without a model wait only across session_meta and token_count
\* lines, for a line that names one.
KeepsPending(line) ==
    \/ line.type \in {"token_count", "session_meta"}
    \/ line.type = "turn_context" /\ line.model # None

Settled(p, line) == IF KeepsPending(line) THEN p ELSE FlushUnknown(p)

ParseLine(p, line) ==
    CASE line.type = "malformed" -> ParseMalformed(p)
      [] line.type = "headless" ->
           IF p.st.waiting THEN p ELSE ParseHeadlessLine(p, line)
      [] OTHER ->
           LET q == IF p.st.waiting THEN ParseWhileWaiting(p, line) ELSE p
           IN  IF q.st.waiting THEN q ELSE ParseCounted(Settled(q, line), line)

\* The whole parse of a sequence of lines, the last step included: messages
\* still without a model at the end are emitted as unknown.
ParseFrom(p, lines) ==
    LET f[n \in 0..Len(lines)] == IF n = 0 THEN p ELSE ParseLine(f[n - 1], lines[n])
    IN  f[Len(lines)]

EndOfFile(p) == FlushUnknown(p)

ParseFile(lines) == EndOfFile(ParseFrom(InitParse(InitState), lines))
===============================================================================
