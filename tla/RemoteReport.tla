------------------------------- MODULE RemoteReport -------------------------------
(***************************************************************************)
(* The report for a remote reader: aggregate_remote_usage_from_source_v1   *)
(* (lib.rs) scans the lanes of the clients a query names, keeps what a     *)
(* gate lets through, and hands it to the fold of remote_report.rs.        *)
(* aggregate_remote_usage_v1 folds whatever messages it is given.  Both    *)
(* are followed here, side by side, over the same messages.                *)
(*                                                                         *)
(* A message is a record of its `client`, the `lane` that parses it,       *)
(* whether it came through Synthetic's `gateway`, the `day` it falls on in *)
(* the query's time zone, a `fault`, its keys `model`, `hour` and `agent`, *)
(* the bytes of its `labels`, and its `counts`.                            *)
(***************************************************************************)
EXTENDS Subsequences, SequencesExt, FiniteSetsExt

CONSTANTS
    Messages,       \* what the stores of all clients may hold
    Queries,        \* records of `clients`, `from` and `until`
    Mirror,         \* the client ids of the cc-mirror variants
    MAX_MESSAGES, MAX_LABEL_BYTES, MAX_RECORDS,
    MAX_COUNT,      \* u64::MAX
    MaxTold         \* bound: messages in a behaviour

VARIABLES
    told,   \* the messages so far, in the order of the scan
    fold    \* the query, and the two folds: `given` gets every message, `scanned` the scan's

vars == <<told, fold>>

-------------------------------------------------------------------------------
(***************************************************************************)
(* The clients of a query.  An empty set of clients means all of them.     *)
(***************************************************************************)
Synthetic(m) == m.client = "synthetic" \/ m.gateway

\* A message is parsed by the lane of its client: those of cc-mirror by Claude's
\* and Grok Bot's by Cursor's.
MessagesHaveLanes ==
    /\ {"claude", "grok-bot", "synthetic"} \cap Mirror = {}
    /\ \A m \in Messages :
         m.lane = IF m.client \in Mirror THEN "claude" ELSE IF m.client = "grok-bot" THEN "cursor" ELSE m.client

\* Mutant: a cc-mirror client is taken for a lane of its own.
LanesOf_Literal(clients) == clients

\* split_report_client_filter: cc-mirror clients are found by the Claude lane.
LanesOf(clients) == {IF c \in Mirror THEN "claude" ELSE c : c \in clients}

\* enabled_clients: Grok Bot's events are found by the Cursor lane, what went
\* through Synthetic by any.
Scans(lanes, lane) ==
    \/ lanes = {} \/ "synthetic" \in lanes
    \/ lane \in lanes
    \/ lane = "cursor" /\ "grok-bot" \in lanes

\* retain_for_requested_clients
PassesClient(lanes, m) ==
    \/ lanes = {}
    \/ m.client \in lanes
    \/ "claude" \in lanes /\ m.client \in Mirror
    \/ "synthetic" \in lanes /\ Synthetic(m)

\* report_message_client_passes
Exact(clients, m) ==
    \/ clients = {}
    \/ m.client \in clients
    \/ "synthetic" \in clients /\ Synthetic(m)

InRange(m, query) == query.from <= m.day /\ m.day < query.until

\* RemoteMessageGate::accepts
Accepts(m, query) == Exact(query.clients, m) /\ m.fault # "timestamp" /\ InRange(m, query)

-------------------------------------------------------------------------------
(***************************************************************************)
(* The fold, RemoteUsageAccumulator.                                       *)
(***************************************************************************)
Bucket == {"input", "output", "messages"}

MessagesHaveSizes == \A m \in Messages : m.labels \in Nat /\ m.counts \in [Bucket -> Nat]

Page == {"graph", "models", "hourly", "agents"}

KeyOf(page, m) ==
    CASE page = "graph" -> <<m.day, m.client, m.model>>
      [] page = "models" -> <<m.client, m.model>>
      [] page = "hourly" -> <<m.hour, m.client, m.model>>
      [] page = "agents" -> <<m.agent, m.client, m.model>>

\* Mutant: a sum that does not fit wraps around, and nobody is told.
Sum_Wraps(a, b) == [value |-> (a + b) % (MAX_COUNT + 1), saturated |-> FALSE]

\* saturating_add
Sum(a, b) ==
    IF a + b > MAX_COUNT THEN [value |-> MAX_COUNT, saturated |-> TRUE]
    ELSE [value |-> a + b, saturated |-> FALSE]

NoCounts == [b \in Bucket |-> 0]
At(records, key) == IF key \in DOMAIN records THEN records[key] ELSE NoCounts

\* add_common
WithCounts(records, key, counts) ==
    [k \in DOMAIN records \cup {key} |->
       IF k = key THEN [b \in Bucket |-> Sum(At(records, key)[b], counts[b]).value] ELSE records[k]]

TooMany(records, key, counts) == \E b \in Bucket : Sum(At(records, key)[b], counts[b]).saturated

EmptyPages == [labels |-> 0, saturated |-> FALSE, records |-> [p \in Page |-> <<>>]]

NewFold == [messages |-> 0, error |-> "none", pages |-> EmptyPages]

\* What a message adds to the pages of a fold.
Added(pages, m) ==
    [labels |-> pages.labels + m.labels,
     saturated |-> \/ pages.saturated
                   \/ Sum(m.counts["input"], m.counts["output"]).saturated
                   \/ \E p \in Page : TooMany(pages.records[p], KeyOf(p, m), m.counts),
     records |-> [p \in Page |-> WithCounts(pages.records[p], KeyOf(p, m), m.counts)]]

\* Every message is counted and looked at, whether the query asks for it or not.
FaultOf(acc, m) ==
    CASE acc.messages + 1 > MAX_MESSAGES -> "limit"
      [] acc.messages + 1 <= MAX_MESSAGES /\ m.fault \in {"timestamp", "client", "numerator"} -> m.fault
      [] OTHER -> "none"

\* The labels and the size of the pages count only for what is asked for.
FaultOfPages(pages, m) ==
    CASE m.fault = "label" -> "label"
      [] m.fault # "label" /\ (\/ pages.labels > MAX_LABEL_BYTES
                               \/ \E p \in Page : Cardinality(DOMAIN pages.records[p]) > MAX_RECORDS) -> "limit"
      [] OTHER -> "none"

\* RemoteUsageAccumulator::add; the first error is the last word.
Push(acc, m, query) ==
    IF acc.error # "none" THEN acc
    ELSE IF FaultOf(acc, m) # "none" THEN [acc EXCEPT !.error = FaultOf(acc, m)]
    ELSE IF ~(Exact(query.clients, m) /\ InRange(m, query)) THEN [acc EXCEPT !.messages = @ + 1]
    ELSE [messages |-> acc.messages + 1, pages |-> Added(acc.pages, m),
          error |-> FaultOfPages(Added(acc.pages, m), m)]

\* finish: the token total of a record may not fit either.
IsSaturated(pages) ==
    \/ pages.saturated
    \/ \E p \in Page : \E key \in DOMAIN pages.records[p] :
         Sum(pages.records[p][key]["input"], pages.records[p][key]["output"]).saturated

-------------------------------------------------------------------------------
Init ==
    /\ told = <<>>
    /\ \E query \in Queries : fold = [query |-> query, given |-> NewFold, scanned |-> NewFold]

IsScanned(m) ==
    LET lanes == LanesOf(fold.query.clients)
    IN  Scans(lanes, m.lane) /\ PassesClient(lanes, m) /\ Accepts(m, fold.query)

\* Mutant: the gate is asked only after the fold has looked at a message.
Tell_GateLast(m) ==
    /\ Len(told) < MaxTold
    /\ told' = Append(told, m)
    /\ fold' = [fold EXCEPT !.given = Push(@, m, fold.query), !.scanned = Push(@, m, fold.query)]

\* The next message of the scan.
Tell(m) ==
    /\ Len(told) < MaxTold
    /\ told' = Append(told, m)
    /\ fold' = [fold EXCEPT !.given = Push(@, m, fold.query),
                            !.scanned = IF IsScanned(m) THEN Push(@, m, fold.query) ELSE @]

Next == \E m \in Messages : Tell(m)

Spec == Init /\ [][Next]_vars

-------------------------------------------------------------------------------
\* What the query asks for, by its place in the scan.
Asked == {i \in DOMAIN told : Accepts(told[i], fold.query)}
AskedKeys(p) == {KeyOf(p, told[i]) : i \in Asked}
AskedLabels == Total([i \in DOMAIN told |-> IF i \in Asked THEN told[i].labels ELSE 0])

\* What the messages of a key have together in a bucket.
AskedCount(p, key, b) ==
    Total([i \in DOMAIN told |->
             IF i \in Asked /\ KeyOf(p, told[i]) = key THEN told[i].counts[b] ELSE 0])

\* "Dropping the rest preserves the emitted bundle" (remote_report.rs): when all
\* messages together can be folded, scanning only some lanes, filtering by
\* client and passing the gate changes nothing of the report.
GateKeepsBundle ==
    fold.given.error = "none" =>
      /\ fold.scanned.error = "none"
      /\ fold.scanned.pages = fold.given.pages

\* A message that the query does not ask for cannot fail the report, nor use up
\* its limits: an error is due to what was asked for alone.
OnlyAskedCanFail ==
    fold.scanned.error # "none" =>
      \/ \E i \in Asked : told[i].fault # "none"
      \/ Cardinality(Asked) > MAX_MESSAGES
      \/ AskedLabels > MAX_LABEL_BYTES
      \/ \E p \in Page : Cardinality(AskedKeys(p)) > MAX_RECORDS

\* A report that does not say it is saturated is exact: on each page each key has
\* what its messages have together, and so has every client, on all pages alike.
UnflaggedIsExact ==
    fold.scanned.error = "none" /\ ~IsSaturated(fold.scanned.pages) =>
      \A p \in Page :
        /\ DOMAIN fold.scanned.pages.records[p] = AskedKeys(p)
        /\ \A key \in AskedKeys(p), b \in Bucket :
             fold.scanned.pages.records[p][key][b] = AskedCount(p, key, b)
===============================================================================
