--------------------------- MODULE ClaudeTranscript ---------------------------
(***************************************************************************)
(* The parser of Claude Code transcripts (sessions/claudecode.rs): a fold  *)
(* over the lines of one file.  A response is written several times while  *)
(* it streams, so rows with the same key are assembled into one message.   *)
(*                                                                         *)
(* A usage figure a row does not state is None.  What a line's provider    *)
(* hint and model say of the provider is given as an id with a confidence. *)
(***************************************************************************)
EXTENDS Integers, Sequences, FiniteSets

CONSTANTS
    None,         \* an absent optional value
    Synthetic,    \* the placeholder model of rows that are no response
    UnknownModel,
    FileSession,  \* the session id a file name stands for
    FallbackTime, \* the modification time of the file
    Unattributed  \* the provider a tool result is attributed to

Larger(a, b) == IF a >= b THEN a ELSE b
Smaller(a, b) == IF a <= b THEN a ELSE b
Stated(x) == IF x = None THEN 0 ELSE x
OrElse(a, b) == IF a # None THEN a ELSE b

\* A row that states the uncached remainder of the prompt, rather than the
\* whole prompt: it has an input and a cache figure, and not all are zero.
ReportsCacheSplit(u) ==
    /\ u.input # None
    /\ u.read # None \/ u.write # None
    /\ \E x \in {u.input, u.read, u.write} : Stated(x) # 0

\* The figures of a first row; the part of a cache write that lives an hour
\* is limited to the whole only once the message is assembled.
FirstTokens(u) ==
    [input |-> Stated(u.input), output |-> Stated(u.output),
     read |-> Stated(u.read), write |-> Stated(u.write), hour |-> Stated(u.hour)]

\* Mutant: of two inputs the larger one.
MergedInput_Max(input, u, isSplit) == Larger(input, Stated(u.input))

\* A remainder beats a whole-prompt figure; like figures grow.
MergedInput(input, u, isSplit) ==
    CASE ReportsCacheSplit(u) /\ ~isSplit -> u.input
      [] ~ReportsCacheSplit(u) /\ isSplit -> input
      [] OTHER -> Larger(input, Stated(u.input))

MergedTokens(t, u, isSplit) ==
    [input |-> MergedInput(t.input, u, isSplit),
     output |-> Larger(t.output, Stated(u.output)),
     read |-> Larger(t.read, Stated(u.read)),
     write |-> Larger(t.write, Stated(u.write)),
     hour |-> Larger(t.hour, Stated(u.hour))]

MergedDuration(m, time) ==
    IF time # None /\ time > m.time THEN Larger(m.duration, time - m.time) ELSE m.duration

Clamped(m) == [m EXCEPT !.tokens.hour = Smaller(@, m.tokens.write)]
ClampedAll(messages) == [i \in DOMAIN messages |-> Clamped(messages[i])]

-------------------------------------------------------------------------------
InitState ==
    [session |-> FileSession, agent |-> None, detected |-> FALSE, split |-> {},
     pending_turn |-> FALSE, pending_start |-> None, last_model |-> None,
     confidence |-> <<>>]

NoTokens == [input |-> 0, output |-> 0, read |-> 0, write |-> 0, hour |-> 0]
NoStream == [model |-> None, time |-> None, tokens |-> NoTokens]

\* `blocked`: something read depends on more than the lines before it, so no
\* later parse can continue from here.
InitParse(messages, state) ==
    [st |-> state, messages |-> messages, stream |-> NoStream, blocked |-> FALSE]

\* claude_dedup_index: the first message of a key.
IndexOf(p, key) ==
    LET at == {i \in DOMAIN p.messages : p.messages[i].key = key}
    IN  IF key = None \/ at = {} THEN 0
        ELSE CHOOSE i \in at : \A j \in at : i <= j

Push(p, m, confidence) ==
    [p EXCEPT !.messages = Append(@, m), !.st.confidence = Append(@, confidence)]

SplitIf(p, u, key) ==
    IF key # None /\ ReportsCacheSplit(u) THEN [p EXCEPT !.st.split = @ \cup {key}] ELSE p

\* update_claude_provider_id: only a more confident provider replaces one.
MergeRow(p, i, u, time, provider) ==
    LET m == p.messages[i]
        better == provider.confidence > p.st.confidence[i]
        merged == [m EXCEPT !.tokens = MergedTokens(@, u, m.key \in p.st.split),
                            !.duration = MergedDuration(m, time),
                            !.provider = IF better THEN provider.id ELSE @]
    IN  SplitIf([p EXCEPT !.messages[i] = merged,
                          !.st.confidence[i] = IF better THEN provider.confidence ELSE @],
                u, m.key)

\* Advisor calls ride on a row of their parent; each keeps its position, so
\* repeated rows and copies of a transcript name the same call.
ParseAdvisor(p, parent, u, n) ==
    LET up == p.messages[parent]
        key == IF up.key = None THEN None ELSE <<up.key, n>>
        i == IndexOf(p, key)
        m == [up EXCEPT !.key = key, !.tokens = FirstTokens(u), !.turn = FALSE,
                        !.duration = 0, !.model = u.model, !.provider = u.provider.id]
    IN  IF i # 0 THEN MergeRow(p, i, u, None, u.provider)
        ELSE Push(SplitIf(p, u, key), m, u.provider.confidence)

ParseAdvisors(p, parent, advisors) ==
    LET f[n \in 0..Len(advisors)] ==
          IF n = 0 THEN p ELSE ParseAdvisor(f[n - 1], parent, advisors[n], n)
    IN  f[Len(advisors)]

-------------------------------------------------------------------------------
\* The first line that parses tells whether the file is a subagent's; its
\* messages then belong to the session of the parent.  `name` is what the
\* files beside the transcript call its agent.
DetectSidechain(p, line, name) ==
    IF p.st.detected THEN p
    ELSE [p EXCEPT !.st.detected = TRUE,
            !.st.session = IF line.sidechain # None THEN line.sidechain ELSE @,
            !.st.agent = IF line.sidechain = None THEN None ELSE OrElse(name, line.sidechain)]

ParseToolResult(p, line) ==
    LET model == OrElse(p.st.last_model, UnknownModel)
        key == IF line.tool.id = None THEN None ELSE <<"tool_result", p.st.session, line.tool.id>>
        time == OrElse(line.time, FallbackTime)
        i == IndexOf(p, key)
        old == p.messages[i]
        m == [key |-> key, model |-> model, session |-> p.st.session, agent |-> p.st.agent,
              time |-> time, duration |-> 0, turn |-> FALSE,
              tokens |-> [NoTokens EXCEPT !.input = line.tool.input], provider |-> Unattributed]
    IN  IF i = 0 THEN Push(p, m, 0)
        ELSE [p EXCEPT !.messages[i] =
                [old EXCEPT !.tokens.input = Larger(@, line.tool.input),
                            !.time = Larger(@, time)]]

ParseUser(p, line) ==
    LET counts == line.tool # None /\ p.st.last_model # Synthetic
        q == [p EXCEPT !.blocked = @ \/ (counts /\ line.time = None),
                       !.st.pending_start = OrElse(line.time, @),
                       !.st.pending_turn = @ \/ line.human]
    IN  IF counts THEN ParseToolResult(q, line) ELSE q

NewMessage(p, line) ==
    [key |-> line.key, model |-> line.model, session |-> p.st.session, agent |-> p.st.agent,
     time |-> OrElse(p.st.pending_start, OrElse(line.time, FallbackTime)),
     duration |-> IF p.st.pending_start = None \/ line.time = None THEN 0
                  ELSE Larger(0, line.time - p.st.pending_start),
     turn |-> p.st.pending_turn, tokens |-> FirstTokens(line.usage),
     provider |-> line.provider.id]

ParseAssistant(p, line) ==
    LET q == [p EXCEPT !.st.last_model = OrElse(line.model, @)]
        i == IndexOf(q, line.key)
        timeless == q.st.pending_start = None /\ line.time = None
        pushed == Push(SplitIf([q EXCEPT !.blocked = @ \/ timeless], line.usage, line.key),
                       NewMessage(q, line), line.provider.confidence)
        merged == MergeRow(q, i, line.usage, line.time, line.provider)
    IN  IF line.usage = None THEN q
        ELSE IF i # 0 THEN ParseAdvisors(merged, i, line.advisors)
        ELSE IF line.model \in {None, Synthetic} THEN q
        ELSE ParseAdvisors([pushed EXCEPT !.st.pending_turn = FALSE,
                                          !.st.pending_start = None],
                           Len(pushed.messages), line.advisors)

\* The output of a headless run: whole documents, or an event stream that is
\* one message when it stops (or the next one starts, or the file ends).  Its
\* messages have no key, and may be stamped with the time of the file.
Headless(p, model, time, tokens) ==
    [Push(p, [key |-> None, model |-> model, session |-> p.st.session, agent |-> None,
              time |-> OrElse(time, FallbackTime), duration |-> 0, turn |-> FALSE,
              tokens |-> tokens, provider |-> Unattributed], 0) EXCEPT !.blocked = TRUE]

MaxTokens(t, u) ==
    LET v == FirstTokens(u) IN [f \in DOMAIN t |-> Larger(t[f], v[f])]

CloseStream(p) ==
    LET t == p.stream.tokens
        empty == \A f \in DOMAIN t \ {"hour"} : t[f] = 0
        closed == [p EXCEPT !.stream = NoStream]
    IN  IF p.stream.model = None THEN p
        ELSE IF p.stream.model = Synthetic \/ empty THEN closed
        ELSE Headless(closed, p.stream.model, p.stream.time, Clamped(p.stream).tokens)

ParseStream(p, line) ==
    LET q == IF line.event = "message_delta" THEN p ELSE CloseStream(p)
    IN  CASE line.event = "message_start" ->
               [q EXCEPT !.stream = [model |-> line.model, time |-> OrElse(line.time, @.time),
                                     tokens |-> MaxTokens(@.tokens, line.usage)]]
          [] line.event = "message_delta" ->
               [q EXCEPT !.stream.tokens = MaxTokens(@, line.usage)]
          [] OTHER -> q

ParseDocument(p, line) ==
    IF line.model \in {None, Synthetic} THEN p
    ELSE Headless(p, line.model, line.time, Clamped([tokens |-> FirstTokens(line.usage)]).tokens)

ParseDetected(p, line) ==
    CASE line.type = "stream" -> ParseStream(p, line)
      [] line.type = "headless" -> ParseDocument(p, line)
      [] line.type = "user" -> ParseUser(p, line)
      [] line.type = "assistant" -> ParseAssistant(p, line)
      [] OTHER -> p

ParseLine(p, line, name) ==
    IF line.type = "malformed" THEN p ELSE ParseDetected(DetectSidechain(p, line, name), line)

ParseFrom(p, lines, name) ==
    LET f[n \in 0..Len(lines)] == IF n = 0 THEN p ELSE ParseLine(f[n - 1], lines[n], name)
    IN  f[Len(lines)]

\* What is left at the end of the file.  The messages returned are clamped,
\* those a resume continues with are not.
EndOfFile(p) ==
    [CloseStream(p) EXCEPT !.blocked = @ \/ p.stream # NoStream]

ParseFile(lines, name) ==
    EndOfFile(ParseFrom(InitParse(<<>>, InitState), lines, name))
===============================================================================
