------------------------- MODULE MCClaudeIncremental -------------------------
(***************************************************************************)
(* ClaudeIncremental for TLC.                                              *)
(***************************************************************************)
EXTENDS ClaudeIncremental

CONSTANTS Agent, k1, k2, t1, opus, haiku, anthropic, relay, explorer, planner

Usage(input, output, read, write, hour) ==
    [input |-> input, output |-> output, read |-> read, write |-> write, hour |-> hour]

Assistant(key, usage, time, sidechain) ==
    [type |-> "assistant", key |-> key, model |-> opus, usage |-> usage, time |-> time,
     provider |-> [id |-> anthropic, confidence |-> 1], advisors |-> <<>>,
     sidechain |-> sidechain]
User(human, time, sidechain) ==
    [type |-> "user", human |-> human, time |-> time, tool |-> None, sidechain |-> sidechain]
ToolResult(id, input, time) == [User(FALSE, time, None) EXCEPT !.tool = [id |-> id, input |-> input]]

\* A whole-prompt figure, a remainder, then rows that are late or say less;
\* the one-hour part of the cache write is stated before the write.
whole == Usage(9, 1, None, None, None)
hourFirst == Usage(2, 1, 3, 1, 4)
later == Usage(1, 3, 4, 2, 2)
silent == Usage(None, 4, 5, 4, None)

Streamed ==
    <<User(TRUE, 1, None), Assistant(k1, whole, 2, None),
      [Assistant(k1, hourFirst, 4, None) EXCEPT !.provider = [id |-> relay, confidence |-> 2]],
      Assistant(k1, silent, 5, None), Assistant(k1, whole, 3, None)>>

Advised ==
    <<Assistant(k1, hourFirst, 1, None), ToolResult(t1, 2, 2), ToolResult(t1, 5, 3),
      [Assistant(k2, later, 4, None) EXCEPT !.advisors =
          <<[input |-> 3, output |-> 1, read |-> 1, write |-> None, hour |-> None,
             model |-> haiku, provider |-> [id |-> anthropic, confidence |-> 1]]>>],
      [Assistant(k2, later, 5, None) EXCEPT !.advisors =
          <<[input |-> 7, output |-> 2, read |-> None, write |-> None, hour |-> None,
             model |-> haiku, provider |-> [id |-> relay, confidence |-> 2]]>>]>>

Sidechain ==
    <<User(TRUE, 1, Agent), Assistant(k1, whole, 2, Agent), Assistant(k1, later, 3, Agent),
      Assistant(k2, hourFirst, 4, Agent)>>

\* Rows without a time are stamped with that of the file, rows without a
\* model are no response.
Timeless ==
    <<Assistant(k1, whole, 1, None), [Assistant(k2, later, 1, None) EXCEPT !.model = Synthetic],
      Assistant(k2, None, 1, None), Assistant(k2, later, None, None)>>

Event(event, model, usage) ==
    [type |-> "stream", event |-> event, model |-> model, usage |-> usage, time |-> 1,
     sidechain |-> None]
HeadlessRun ==
    <<Event("message_start", opus, whole), Event("message_delta", None, later),
      Event("message_stop", None, None), Malformed,
      [type |-> "headless", model |-> opus, usage |-> hourFirst, time |-> None, sidechain |-> None]>>

MCScripts == {Streamed, Advised, Sidechain, Timeless, HeadlessRun}
MCMetaNames == <<explorer, None>>
MCParentNames == <<None, planner>>
===============================================================================
