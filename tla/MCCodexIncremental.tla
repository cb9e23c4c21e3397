------------------------- MODULE MCCodexIncremental -------------------------
(***************************************************************************)
(* CodexIncremental for TLC: sessions of a parent P, and of forks of it.   *)
(* The parent's turn was minted at millisecond 1, or at the fork's own,    *)
(* millisecond 2, and ran another model.                                   *)
(***************************************************************************)
EXTENDS CodexIncremental

CONSTANTS P, C, ParentTurn, TiedTurn, LegacyTurn, ChildTurn, gpt, older

MCOrderKey(id) == CASE id = C -> 2 [] id = TiedTurn -> 2 [] id = ChildTurn -> 3
                    [] id = LegacyTurn -> None [] OTHER -> 1

Totals(i, o, c, r) ==
    [f \in Fields |-> CASE f = "input" -> i [] f = "output" -> o
                         [] f = "cached" -> c [] OTHER -> r]

Meta(id, from, user) ==
    [type |-> "session_meta", id |-> id, from |-> from, user_fork |-> user]
Turn(id, model, time) ==
    [type |-> "turn_context", turn_id |-> id, model |-> model, time |-> time]
Task(id, at) == [type |-> "task_started", turn_id |-> id, started_at |-> at]
Human(time) == [type |-> "user_message", human |-> TRUE, time |-> time]
Item == [type |-> "item_completed", human |-> TRUE]
Other == [type |-> "other"]
Headless(tokens, time) ==
    [type |-> "headless", model |-> None, tokens |-> IntoTokens(tokens), time |-> time]
Row(total, last, time, fresh) ==
    [type |-> "token_count", info |-> TRUE, model |-> None, total |-> total, last |-> last,
     reported |-> IF total = None THEN None ELSE total["input"] + total["output"],
     time |-> time, fresh |-> fresh]

\* The increments of the parent's rows and of the session's own.
p1 == Totals(1, 0, 0, 0)
p2 == Totals(4, 2, 2, 1)
o1 == Totals(4, 1, 3, 1)
o2 == Totals(5, 3, 0, 2)
P2 == Plus(p1, p2)
P2Capped == Minus(P2, Totals(0, 0, 1, 0))
O1 == Plus(P2, o1)
O2 == Plus(O1, o2)

MCParentLog == <<Meta(P, None, FALSE), Turn(ParentTurn, older, 1),
                 Row(p1, p1, 1, TRUE), Row(P2, p2, 1, TRUE)>>

\* A subagent announces its own turn with task_started, a human fork does not.
Subagent ==
    <<Meta(C, P, FALSE), Meta(P, None, FALSE), Turn(TiedTurn, older, 5), Row(p1, p1, 5, FALSE),
      Turn(LegacyTurn, older, 5), Row(P2, p2, 5, FALSE), Task(ChildTurn, 3),
      Turn(ChildTurn, gpt, 6), Row(P2, p2, 6, FALSE), Row(O1, o1, 7, TRUE)>>

UserFork ==
    <<Meta(C, P, TRUE), Meta(P, None, FALSE), Turn(ParentTurn, older, 5), Row(P2, p2, 5, FALSE),
      Turn(ChildTurn, gpt, 6), Row(P2, p2, 6, FALSE), Human(6), Row(O1, o1, 7, TRUE)>>

\* Older logs do not embed the parent's session_meta.
OlderFork ==
    <<Meta(C, P, FALSE), Row(p1, p1, 5, FALSE), Row(P2, p2, 5, FALSE), Turn(ChildTurn, gpt, 6),
      Row(p1, p1, 6, FALSE), Row(O1, o1, 7, TRUE), Row(O1, o1, 8, FALSE), Row(O2, o2, None, TRUE)>>

\* A repeated increment whose total was rewritten, a row without a total, rows of other kinds.
Plain ==
    <<Meta(C, None, FALSE), Turn(ChildTurn, gpt, 1), Item, Row(p1, p1, 2, TRUE),
      Row(P2, p2, 3, TRUE), Row(P2Capped, p2, 4, FALSE), Other, Row(O1, o1, 5, TRUE),
      Row(None, o2, 6, TRUE)>>

\* The model is named only after the first row, or never; a resumed session
\* starts with the total of what was counted before.
LateModel ==
    <<Meta(C, None, FALSE), Row(P2, p2, 2, TRUE), Turn(ChildTurn, gpt, 3),
      Human(4), Row(O1, o1, 5, TRUE)>>
NoModel == <<Row(p1, p1, 2, TRUE), Other, Row(P2, p2, 5, TRUE)>>

Broken == <<Turn(ChildTurn, gpt, 1), Headless(o1, 3), Malformed, Row(P2, p2, 5, TRUE)>>

MCScripts == {Subagent, UserFork,
              OlderFork, Plain, LateModel, NoModel, Broken}
===============================================================================
