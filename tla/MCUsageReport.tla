------------------------------ MODULE MCUsageReport ------------------------------
(***************************************************************************)
(* UsageReport for TLC: small files for each lane, two databases and two   *)
(* files for OpenCode, and a few messages for each figure of a report.     *)
(***************************************************************************)
EXTENDS UsageReport, TLC

CONSTANTS i, j, v, w  \* keys of OpenCode messages
CONSTANTS s1, s2, s3  \* sessions

ThreeFiles == 1..3

M(key, id) == [key |-> key, id |-> id, passes |-> TRUE, wanted |-> TRUE]
Unwanted(m) == [m EXCEPT !.wanted = FALSE]
Excluded(m) == [m EXCEPT !.passes = FALSE]

\* Turn "k" may be in every transcript, corrected later on; the report's window is without turn "i".
Turn(key, id) == [retained |-> FALSE] @@ M(key, id)
ClaudeFiles(p) ==
    IF p = 3 THEN {} ELSE {<<>>, <<Turn("k", p)>>, <<Turn("k", p + 10), Unwanted(Turn("i", p))>>, <<Turn("j", p)>>}

\* A fork repeats what its parent has counted.
CodexFiles(p) ==
    IF p = 3 THEN {<<M("k", 3)>>}
    ELSE {<<>>, <<M("k", p), M(NoKey, p)>>, <<Unwanted(M("k", p)), M("j", p)>>, <<Excluded(M("k", p))>>}

SimpleFiles(p) == {<<>>, <<M("k", 0)>>, <<M("j", 0), M("k", 0)>>, <<Unwanted(M("i", 0)), M("j", 0)>>}

Copilot(session, key, id, desktop) == [session |-> session, desktop |-> desktop] @@ M(key, id)
CopilotFiles(p) ==
    IF p = 3 THEN {<<Copilot("s", NoKey, 3, TRUE)>>, <<Copilot("s", NoKey, 3, TRUE), Copilot("t", NoKey, 3, TRUE)>>}
    ELSE {<<>>, <<Copilot("s", "k", p, FALSE)>>, <<Copilot("t", "j", p, FALSE)>>}

Grok(session, key, model, unified) ==
    [session |-> session, model |-> model, workspace |-> NoWorkspace, unified |-> unified] @@ M(key, 0)
GrokFiles(p) ==
    IF p = 3 THEN {<<>>, <<Grok("s", "u", UnknownModel, TRUE)>>,
                   <<Grok("s", "u", UnknownModel, TRUE), Grok("t", "x", UnknownModel, TRUE)>>}
    ELSE {<<>>, <<Grok("s", "k", p, FALSE)>>, <<Grok("t", "j", UnknownModel, FALSE), Grok("s", "k", p, FALSE)>>}

Kiro(kind, session, key) == [kind |-> kind, session |-> session, workspace |-> "w"] @@ M(key, 0)
KiroFiles(p) ==
    CASE p = 1 -> {<<>>, <<Kiro("execution_snapshot", "s", "e")>>, <<Kiro("chat_snapshot", "s", "c")>>}
      [] p = 2 -> {<<>>, <<Kiro("execution", "s", "e")>>, <<Kiro("cli", "x", "e")>>}
      [] p = 3 -> {<<Kiro("execution", "t", "f")>>, <<Kiro("workspace_session", "s", "p")>>,
                   <<Kiro("workspace_session", "t", "q")>>}

Response(p, session, key) == [session |-> session, source |-> p] @@ M(key, <<p, session>>)
AntigravityFiles(p) ==
    {<<>>, <<Response(p, "s", "r")>>, <<Unwanted(Response(p, "s", "r")), Response(p, "t", "r")>>,
     <<Excluded(Response(p, "s", "r")), Response(p, "s", "r")>>, <<Response(p, "s", NoKey), Response(p, "s", "q")>>}

Dump(session, time, key) == [session |-> session, time |-> time] @@ M(key, 0)
TraeFiles(p) ==
    {<<>>, <<Dump("s", 1, p % 2)>>, <<Dump("s", 2, p), Dump("t", 1, p)>>, <<Dump("t", 2, 5 - p)>>}

FilesOf ==
    [l \in {"claude", "codex", "simple", "copilot", "grok", "kiro", "antigravity", "trae"} |->
      [p \in ThreeFiles |->
        CASE l = "claude" -> ClaudeFiles(p)
          [] l = "codex" -> CodexFiles(p)
          [] l = "simple" -> SimpleFiles(p)
          [] l = "copilot" -> CopilotFiles(p)
          [] l = "grok" -> GrokFiles(p)
          [] l = "kiro" -> KiroFiles(p)
          [] l = "antigravity" -> AntigravityFiles(p)
          [] l = "trae" -> TraeFiles(p)]]

-------------------------------------------------------------------------------
Row(table, id, embedded, reported) ==
    [table |-> table, id |-> id, embedded |-> embedded, payload |-> 1, reported |-> reported, passes |-> TRUE]

\* The newer table has ids of its own; a migrated row embeds the older id.
Newer(id) == {Row("v2", id, e, r) : e \in {None, i}, r \in BOOLEAN}
Older(id) == {Row("v1", id, None, r) : r \in BOOLEAN}

\* A row of the same id that says something else, as when a tool used an id again.
Reused(rows) == {[row EXCEPT !.payload = 2] : row \in rows}

OneRow == {<<row>> : row \in Newer(v) \cup Older(i) \cup Older(j)}
TwoRows ==
    {<<x, y>> : x \in Newer(v), y \in Newer(w) \cup Older(i) \cup Older(j)}
      \cup {<<x, y>> : x \in Older(i), y \in Older(j)}

\* Two tellings of a request in one database, or in two of which one relates them.
TwoTellings ==
    {<<<<x, y>>, b>> : x \in Newer(v), y \in Reused(Older(i)), b \in OneRow \cup {<<>>}}
      \cup {<<a, <<y>>>> : a \in OneRow, y \in Reused(Older(i) \cup Newer(v))}

\* Rows of two messages in one database, and one that is a copy of both in the other.
Bridged ==
    {<<<<x, [y EXCEPT !.embedded = j]>>, b>> :
       x \in Newer(v), y \in Newer(w), b \in {<<x2, y2>> : x2 \in Newer(v), y2 \in Older(j)}}

TwoDatabases ==
    {<<a, b>> : a \in OneRow \cup TwoRows, b \in OneRow \cup {<<>>}}
      \cup {<<<<row>>, b>> : row \in Older(j), b \in TwoRows}
      \cup TwoTellings \cup Bridged

File(key, payload, reported, passes) ==
    [keys |-> <<key>>, payload |-> payload, reported |-> reported, passes |-> passes]
FileOf(key) ==
    {File(key, 1, FALSE, TRUE), File(key, 1, TRUE, TRUE), File(key, 1, TRUE, FALSE), File(key, 2, TRUE, TRUE)}
TwoFiles ==
    {<<>>} \cup {<<x>> : x \in FileOf(i)}
      \cup {<<x, y>> : x \in FileOf(j), y \in FileOf(i)}
-------------------------------------------------------------------------------
\* The rates of a model: none, one that is not valid, some above a threshold.
Thresholds == <<1, 2, 3, 4>>
Rates(base, t1, t2, t3, t4) == [base |-> base, above |-> <<t1, t2, t3, t4>>]
Flat(rate) == Rates(rate, NoRate, NoRate, NoRate, NoRate)
InputRates ==
    {Rates(base, t1, t2, t3, t4) : base \in {NoRate, -1, 1}, t1 \in {NoRate, 2}, t2 \in {NoRate, 3},
                                   t3 \in {NoRate, -1}, t4 \in {NoRate, 5}}
OtherRates == {Flat(NoRate), Rates(NoRate, NoRate, 2, NoRate, NoRate), Rates(1, NoRate, NoRate, NoRate, 2)}
RatesOfModels ==
    {[input |-> x, output |-> y, read |-> y, write |-> y, perRequest |-> r] :
       x \in InputRates, y \in OtherRates, r \in BOOLEAN}
SmallUsages ==
    {[input |-> n, output |-> o, reasoning |-> o, read |-> r, write |-> r, write1h |-> h] :
       n \in {-1, 2, 5}, o \in {0, 2}, r \in {0, 3}, h \in {0, 1, 4}}

Turned(session, client, provider, day, time, turn, cost) ==
    [session |-> session, client |-> client, provider |-> provider, model |-> "m", day |-> day, time |-> time,
     turn |-> turn, amount |-> [tokens |-> 2, cost |-> cost, messages |-> 1]]
FiveTurns ==
    {Turned("s", "a", "p", 1, 1, TRUE, 1), Turned("s", "a", "q", 1, 2, FALSE, 2), Turned("s", "b", "p", 2, 3, TRUE, 2),
     Turned("s", "b", "p", 1, 2, TRUE, 1), Turned("t", "b", "q", 1, 2, TRUE, 0)}

\* Clients with and without a lane of their own, days before, in and after the
\* query's, and messages that cannot be reported.
OneMirror == {"cc-mirror"}
LaneFor(client) ==
    CASE client = "cc-mirror" -> "claude"
      [] client = "grok-bot" -> "cursor"
      [] OTHER -> client
Remote1(client, day, input, output) ==
    [client |-> client, lane |-> LaneFor(client), gateway |-> FALSE, day |-> day, fault |-> "none",
     model |-> "m", hour |-> day, agent |-> "Main", labels |-> 2,
     counts |-> [input |-> input, output |-> output, messages |-> 1]]
RemoteMix ==
    {Remote1(client, 1, 1, 0) : client \in {"claude", "cc-mirror", "cursor", "grok-bot", "synthetic"}}
      \cup {Remote1("claude", 0, 1, 1), Remote1("cc-mirror", 2, 2, 1), Remote1("claude", 1, 2, 2)}
      \cup {[Remote1("cursor", 1, 1, 1) EXCEPT !.gateway = TRUE, !.agent = "headless"],
            [Remote1("claude", 1, 0, 1) EXCEPT !.model = "n", !.hour = 5]}
      \cup {[Remote1("claude", day, 1, 0) EXCEPT !.fault = fault] :
              day \in {0, 1}, fault \in {"timestamp", "client", "numerator", "label"}}
RemoteQueries ==
    {[clients |-> clients, from |-> from, until |-> 2] :
       clients \in {{}, {"claude"}, {"cc-mirror"}, {"cursor"}, {"grok-bot"}, {"synthetic"}, {"claude", "grok-bot"}},
       from \in {0, 1}}
===============================================================================
