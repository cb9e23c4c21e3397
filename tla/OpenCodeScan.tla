------------------------------ MODULE OpenCodeScan ------------------------------
(***************************************************************************)
(* The OpenCode lane of a scan (lib.rs).  The stores are read twice: once  *)
(* for the keys of reported copies, and once more, database by database    *)
(* and file by file, to hand messages to the sink.  OpenCode does not wait *)
(* between the two: a copy may get its reported cost, a database may be    *)
(* locked or replaced, a file may go away.                                 *)
(***************************************************************************)
EXTENDS OpenCodeSelection, FiniteSets

CONSTANTS
    Databases,      \* the sequences of databases, each a sequence of rows
    Files,          \* the sequences of JSON files, each a message
    MaxDrifts       \* bound: how often a store changes while a scan runs

VARIABLES
    dbs,       \* the databases; one that cannot be read has no rows
    json,      \* the files; None for one that cannot be read
    first,     \* the messages of the first reading
    read,      \* the messages of the second one, in order
    sel,       \* the selection
    selected,  \* what it let through
    next,      \* the store that is read next: 0 before the first reading
    drifts,    \* how often a store has changed since the first reading
    ignores    \* selection_ignores_report_filter: the scan is a remote producer's

vars == <<dbs, json, first, read, sel, selected, next, drifts, ignores>>

Init ==
    /\ dbs \in Databases
    /\ json \in Files
    /\ first = {}
    /\ read = <<>>
    /\ sel = NewSelection({})
    /\ selected = <<>>
    /\ next = 0
    /\ drifts = 0
    /\ ignores \in BOOLEAN
    /\ ignores => \E m \in ToSet(json) : ~m.passes  \* without one it makes no difference

\* A cost arrives with a row, or with a file.
Corrected ==
    \/ \E d \in DOMAIN dbs : \E r \in DOMAIN dbs[d] :
         /\ ~dbs[d][r].reported
         /\ dbs' = [dbs EXCEPT ![d][r].reported = TRUE]
         /\ UNCHANGED json
    \/ \E f \in DOMAIN json :
         /\ json[f] # None /\ ~json[f].reported
         /\ json' = [json EXCEPT ![f].reported = TRUE]
         /\ UNCHANGED dbs

Unreadable ==
    \/ \E d \in DOMAIN dbs :
         /\ dbs[d] # <<>>
         /\ dbs' = [dbs EXCEPT ![d] = <<>>]
         /\ UNCHANGED json
    \/ \E f \in DOMAIN json :
         /\ json[f] # None
         /\ json' = [json EXCEPT ![f] = None]
         /\ UNCHANGED dbs

Drift ==
    /\ next \in 1..(Len(dbs) + Len(json))
    /\ drifts < MaxDrifts
    /\ drifts' = drifts + 1
    /\ Corrected \/ Unreadable
    /\ UNCHANGED <<first, read, sel, selected, next, ignores>>

\* The identities of all stores, and the authority they give.
FirstReading ==
    /\ next = 0
    /\ next' = 1
    /\ first' = UNION {ToSet(Collapse(dbs[d])) : d \in DOMAIN dbs} \cup (ToSet(json) \ {None})
    /\ sel' = NewSelection(Authority(first'))
    /\ UNCHANGED <<dbs, json, read, selected, drifts, ignores>>

ReadDatabase ==
    /\ next \in DOMAIN dbs
    /\ LET messages == Collapse(dbs[next])
           after == FoldLeft(LAMBDA acc, m :
                               LET step == SelectSqlite(acc.sel, m)
                               IN  [sel |-> step.sel, out |-> acc.out \o step.out],
                             [sel |-> sel, out |-> <<>>], messages)
       IN  /\ sel' = after.sel
           /\ selected' = selected \o after.out
           /\ read' = read \o messages
    /\ next' = next + 1
    /\ UNCHANGED <<dbs, json, first, drifts, ignores>>

\* Mutant: a remote producer's selection sees the filter too.
WillEmit_Filtered(m) == m.passes

WillEmit(m) == ignores \/ m.passes

ReadFile ==
    /\ next - Len(dbs) \in DOMAIN json
    /\ LET m == json[next - Len(dbs)]
           step == SelectJson(sel, m, WillEmit(m))
       IN  IF m = None THEN UNCHANGED <<sel, selected, read>>
           ELSE /\ sel' = step.sel
                /\ selected' = selected \o step.out
                /\ read' = Append(read, m)
    /\ next' = next + 1
    /\ UNCHANGED <<dbs, json, first, drifts, ignores>>

HandOverDeferred ==
    /\ next = Len(dbs) + Len(json) + 1
    /\ selected' = selected \o Finish(sel)
    /\ next' = next + 1
    /\ UNCHANGED <<dbs, json, first, read, sel, drifts, ignores>>

Next == Drift \/ FirstReading \/ ReadDatabase \/ ReadFile \/ HandOverDeferred

Spec == Init /\ [][Next]_vars

-------------------------------------------------------------------------------
Done == next = Len(dbs) + Len(json) + 2

\* What the sink is given; of a remote producer's scan, before its filter.
Counted == IF ignores THEN selected ELSE SelectSeq(selected, LAMBDA m : m.passes)

Read == ToSet(read)
\* Copies of one request are connected by their keys, of what was met in the
\* second reading or in either.
RequestIn(m, messages) == Spread(Keys(m), {Keys(x) : x \in messages})
RequestOf(m) == RequestIn(m, first \cup Read)
CountedIn(request) == {i \in DOMAIN Counted : Keys(Counted[i]) \subseteq request}
IsRow(m) == "embedded" \in DOMAIN m
\* The database rows of a request that share no key and payload with a row before:
\* rows that say different things are not copies, although they share a key.
Tellings(request) ==
    {k \in DOMAIN read :
       /\ IsRow(read[k]) /\ Keys(read[k]) \subseteq request
       /\ \A n \in 1..(k - 1) : Identities(read[k]) \cap Identities(read[n]) = {}}
TellingOf(m, messages) == Spread(Identities(m), {Identities(x) : x \in messages})
Same(m, n) == m.keys = n.keys /\ m.payload = n.payload
Gone(m) ==
    \E x \in first : /\ Keys(x) \subseteq RequestOf(m)
                     /\ \A y \in Read : ~(Same(x, y) /\ (x.reported => y.reported))

\* Every request the second reading met is counted, unless a copy it was
\* related to when the authority was taken could not be read again; every telling
\* of its databases is counted, or a file in its place.  A copy that only the
\* filter drops has its deferred twin counted for it.
NoRequestIsLost ==
    Done => \A m \in Read :
      /\ ~ignores /\ m.passes /\ ~Gone(m) => CountedIn(RequestOf(m)) # {}
      /\ LET request == RequestIn(m, Read)
         IN  Cardinality(CountedIn(request)) >= Cardinality(Tellings(request))

\* A request is counted once for each telling of its databases, and a file never adds
\* to what a database tells, whatever order the copies come in and whatever
\* changed since the authority was taken.  Neither is one telling counted in the
\* place of another, unless a row that came later relates the two.
CountedOnce ==
    Done => \A m \in Read :
      LET request == RequestIn(m, Read)
          telling == TellingOf(m, Read)
          counted == CountedIn(request)
          alike == {i \in counted : Identities(Counted[i]) \subseteq telling}
          told == {k \in Tellings(request) : Identities(read[k]) \subseteq telling}
      IN  /\ Cardinality(counted) <= 1 \/ Cardinality(counted) <= Cardinality(Tellings(request))
          /\ Cardinality(alike) <= 1 \/ Cardinality(alike) <= Cardinality(told)

\* A request with a copy whose cost was reported all along is counted with a
\* reported cost, whichever store that copy comes from and whenever it is read.
\* When the copy is a row, it is its own telling that is counted so.
ReportedCostWins ==
    Done => \A m \in Read : m.reported /\ m.passes /\ (\E x \in first : x.reported /\ Same(x, m)) =>
      \E i \in CountedIn(RequestOf(m)) :
        /\ Counted[i].reported
        /\ IsRow(m) => Identities(Counted[i]) \subseteq TellingOf(m, first \cup Read)

\* Which copy a remote producer chooses does not depend on its filter.
ChoiceIgnoresFilter ==
    Done /\ ignores =>
      LET unfiltered(m) == [m EXCEPT !.passes = TRUE]
          Choose(acc, m) ==
            LET step == IF IsRow(m) THEN SelectSqlite(acc.sel, m) ELSE SelectJson(acc.sel, m, TRUE)
            IN  [sel |-> step.sel, out |-> acc.out \o step.out]
          chosen == FoldLeft(Choose, [sel |-> NewSelection(sel.authority), out |-> <<>>],
                             [i \in DOMAIN read |-> unfiltered(read[i])])
      IN  [i \in DOMAIN selected |-> unfiltered(selected[i])] = chosen.out \o Finish(chosen.sel)
===============================================================================
