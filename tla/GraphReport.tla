------------------------------ MODULE GraphReport ------------------------------
(***************************************************************************)
(* Days and sessions: aggregate_by_date and aggregate_by_session           *)
(* (aggregator.rs) fold pieces of the list of messages in parallel and     *)
(* merge the pieces, neighbour with neighbour, in whatever order they are  *)
(* done.  A streaming report is the same fold in one piece.                *)
(*                                                                         *)
(* A message is a record of its `client`, `provider`, `model`, `session`,  *)
(* `day` and `time`, whether it starts a `turn`, and its `amount`: tokens, *)
(* cost and messages, none of them negative.                               *)
(***************************************************************************)
EXTENDS Subsequences, SequencesExt, FiniteSetsExt

CONSTANTS
    Messages,
    NoKey,
    MAX,        \* i64::MAX
    MaxTold     \* bound: messages in a report

VARIABLES
    told,       \* the messages, in order
    pieces      \* the accumulators, of neighbouring pieces of the list

vars == <<told, pieces>>

\* i64::MIN
MIN == -MAX - 1

\* saturating_add
Sum(a, b) == IF a + b > MAX THEN MAX ELSE a + b

Plus(x, y) ==
    [tokens |-> Sum(x.tokens, y.tokens), cost |-> x.cost + y.cost, messages |-> Sum(x.messages, y.messages)]

Zero == [tokens |-> 0, cost |-> 0, messages |-> 0]

At(f, key, default) == IF key \in DOMAIN f THEN f[key] ELSE default
With(f, key, value) == [k \in DOMAIN f \cup {key} |-> IF k = key THEN value ELSE f[k]]

AmountsAreNatural ==
    \A m \in Messages :
      {m.amount.tokens, m.amount.cost, m.amount.messages} \subseteq Nat /\ m.time \in MIN..MAX

-------------------------------------------------------------------------------
(***************************************************************************)
(* DayAccumulator: the clients of a day by model, with all their           *)
(* providers, and the turns of each client.                                *)
(***************************************************************************)
NewDay == [totals |-> Zero, clients |-> <<>>, turns |-> <<>>]
NewClient == [amount |-> Zero, providers |-> {}]

DayClient(m) == <<m.client, m.model>>

AddToDay(day, m) ==
    [totals |-> Plus(day.totals, m.amount),
     clients |->
       LET entry == At(day.clients, DayClient(m), NewClient)
       IN  With(day.clients, DayClient(m),
                [amount |-> Plus(entry.amount, m.amount), providers |-> entry.providers \cup {m.provider}]),
     turns |-> IF m.turn THEN With(day.turns, m.client, Sum(At(day.turns, m.client, 0), 1)) ELSE day.turns]

\* Mutant: turns are counted, and not merged.
MergeDays_WithoutTurns(a, b) ==
    [totals |-> Plus(a.totals, b.totals),
     clients |-> [c \in DOMAIN a.clients \cup DOMAIN b.clients |->
                   LET x == At(a.clients, c, NewClient)
                       y == At(b.clients, c, NewClient)
                   IN  [amount |-> Plus(x.amount, y.amount), providers |-> x.providers \cup y.providers]],
     turns |-> a.turns]

MergeDays(a, b) ==
    [totals |-> Plus(a.totals, b.totals),
     clients |-> [c \in DOMAIN a.clients \cup DOMAIN b.clients |->
                   LET x == At(a.clients, c, NewClient)
                       y == At(b.clients, c, NewClient)
                   IN  [amount |-> Plus(x.amount, y.amount), providers |-> x.providers \cup y.providers]],
     turns |-> [c \in DOMAIN a.turns \cup DOMAIN b.turns |-> Sum(At(a.turns, c, 0), At(b.turns, c, 0))]]

-------------------------------------------------------------------------------
(***************************************************************************)
(* SessionAccumulator: the clients of a session by provider and model, and *)
(* which of them has cost the most so far.                                 *)
(***************************************************************************)
\* Before the first message the most is less than nothing, and no time is after
\* the first or before the last.
NewSession == [totals |-> Zero, clients |-> <<>>, top |-> NoKey, top_cost |-> -1, first |-> MAX, last |-> MIN]

SessionClient(m) == <<m.client, m.provider, m.model>>

AddToSession(session, m) ==
    LET key == SessionClient(m)
        entry == Plus(At(session.clients, key, Zero), m.amount)
        isTop == entry.cost > session.top_cost
    IN  [totals |-> Plus(session.totals, m.amount),
         clients |-> With(session.clients, key, entry),
         top |-> IF isTop THEN key ELSE session.top,
         top_cost |-> IF isTop THEN entry.cost ELSE session.top_cost,
         first |-> Min({session.first, m.time}),
         last |-> Max({session.last, m.time})]

\* Mutant: a merged entry is weighed with its own share of the cost only.
Weight_OwnShare(a, b, key) == b.clients[key].cost

\* What a merged entry costs when it is compared with the most so far.
Weight(a, b, key) == Plus(At(a.clients, key, Zero), b.clients[key]).cost

\* The clients of b come in the order of a hash map: of those that cost the most
\* any may be the first.
MergeSessions(a, b) ==
    LET most == Max({a.top_cost} \cup {Weight(a, b, key) : key \in DOMAIN b.clients})
    IN  {[totals |-> Plus(a.totals, b.totals),
          clients |-> [key \in DOMAIN a.clients \cup DOMAIN b.clients |->
                        Plus(At(a.clients, key, Zero), At(b.clients, key, Zero))],
          top |-> top,
          top_cost |-> most,
          first |-> Min({a.first, b.first}),
          last |-> Max({a.last, b.last})]
         : top \in IF most > a.top_cost THEN {key \in DOMAIN b.clients : Weight(a, b, key) = most} ELSE {a.top}}

-------------------------------------------------------------------------------
NewPiece == [days |-> <<>>, sessions |-> <<>>]

Init == told = <<>> /\ pieces = <<NewPiece>>

\* The next message goes to the last piece.
Add(m) ==
    /\ Len(told) < MaxTold
    /\ told' = Append(told, m)
    /\ LET piece == Last(pieces)
       IN  pieces' = [pieces EXCEPT ![Len(pieces)] =
             [days |-> With(piece.days, m.day, AddToDay(At(piece.days, m.day, NewDay), m)),
              sessions |-> With(piece.sessions, m.session,
                                AddToSession(At(piece.sessions, m.session, NewSession), m))]]

\* Another piece begins, perhaps an empty one.
Split ==
    /\ Last(pieces) # NewPiece
    /\ Len(told) < MaxTold
    /\ pieces' = Append(pieces, NewPiece)
    /\ UNCHANGED told

\* Two neighbours are merged when both are done: a takes everything of b.
Reduce(i) ==
    LET a == pieces[i]
        b == pieces[i + 1]
        sessionsOf(s) ==
            CASE s \notin DOMAIN b.sessions -> {a.sessions[s]}
              [] OTHER -> MergeSessions(At(a.sessions, s, NewSession), b.sessions[s])
        ids == DOMAIN a.sessions \cup DOMAIN b.sessions
    IN  /\ i + 1 < Len(pieces) \/ Len(told) = MaxTold
        /\ \E sessions \in [ids -> UNION {sessionsOf(s) : s \in ids}] :
             /\ \A s \in ids : sessions[s] \in sessionsOf(s)
             /\ pieces' = SubSeq(pieces, 1, i - 1)
                  \o <<[days |-> [d \in DOMAIN a.days \cup DOMAIN b.days |->
                                   CASE d \notin DOMAIN b.days -> a.days[d]
                                     [] OTHER -> MergeDays(At(a.days, d, NewDay), b.days[d])],
                        sessions |-> sessions]>>
                  \o SubSeq(pieces, i + 2, Len(pieces))
        /\ UNCHANGED told

Next == (\E m \in Messages : Add(m)) \/ Split \/ \E i \in 1..(Len(pieces) - 1) : Reduce(i)

Spec == Init /\ [][Next]_vars

-------------------------------------------------------------------------------
\* The messages of a day, of a session and so on, by their places in the list.
Of(kind, key) ==
    {i \in DOMAIN told :
      CASE kind = "day" -> told[i].day = key
        [] kind = "dayClient" -> <<told[i].day, DayClient(told[i])>> = key
        [] kind = "turns" -> told[i].turn /\ <<told[i].day, told[i].client>> = key
        [] kind = "session" -> told[i].session = key
        [] kind = "sessionClient" -> <<told[i].session, SessionClient(told[i])>> = key}

\* All amounts of the messages at these places together, and only then cut off.
Together(list, places) ==
    LET tokens == Total([i \in DOMAIN list |-> IF i \in places THEN list[i].amount.tokens ELSE 0])
        cost == Total([i \in DOMAIN list |-> IF i \in places THEN list[i].amount.cost ELSE 0])
        messages == Total([i \in DOMAIN list |-> IF i \in places THEN list[i].amount.messages ELSE 0])
    IN  [tokens |-> Min({MAX, tokens}), cost |-> cost, messages |-> Min({MAX, messages})]

\* However the list was cut and its pieces were merged, the report is the one of
\* the whole list: the totals of days and sessions and of their clients, the
\* providers of a client, its turns (which a merge is said to lose if it forgets
\* them), and the first and last time of a session.
PiecesAddUp ==
    Len(pieces) = 1 =>
      LET report == pieces[1]
      IN  /\ DOMAIN report.days = {told[i].day : i \in DOMAIN told}
          /\ DOMAIN report.sessions = {told[i].session : i \in DOMAIN told}
          /\ \A d \in DOMAIN report.days :
               LET day == report.days[d]
               IN  /\ day.totals = Together(told, Of("day", d))
                   /\ DOMAIN day.clients = {DayClient(told[i]) : i \in Of("day", d)}
                   /\ \A c \in DOMAIN day.clients :
                        LET places == Of("dayClient", <<d, c>>)
                        IN  /\ day.clients[c].amount = Together(told, places)
                            /\ day.clients[c].providers = {told[i].provider : i \in places}
                   /\ \A c \in {m.client : m \in Messages} :
                        At(day.turns, c, 0) = Min({MAX, Cardinality(Of("turns", <<d, c>>))})
          /\ \A s \in DOMAIN report.sessions :
               LET session == report.sessions[s]
                   times == {told[i].time : i \in Of("session", s)}
               IN  /\ session.totals = Together(told, Of("session", s))
                   /\ session.first = Min(times) /\ session.last = Max(times)
                   /\ DOMAIN session.clients = {SessionClient(told[i]) : i \in Of("session", s)}
                   /\ \A c \in DOMAIN session.clients :
                        session.clients[c] = Together(told, Of("sessionClient", <<s, c>>))

\* A session is shown under the client, provider and model that cost the most of
\* all its messages, in every piece and however the pieces are merged.
TopCostsMost ==
    \A i \in DOMAIN pieces : \A s \in DOMAIN pieces[i].sessions :
      LET session == pieces[i].sessions[s]
      IN  /\ session.top \in DOMAIN session.clients
          /\ \A c \in DOMAIN session.clients : session.clients[c].cost <= session.clients[session.top].cost
===============================================================================
