--------------------------- MODULE OpenCodeSelection ---------------------------
(***************************************************************************)
(* Which copy of an OpenCode request is reported (lib.rs).  Copies of one  *)
(* request live in several databases and in older JSON files; they are     *)
(* related by their keys, and by all they say (their payload).  A copy     *)
(* whose cost the provider reported should be the one that counts, but a   *)
(* message handed to the sink cannot be taken back: a first reading of     *)
(* all stores finds the keys that have such a copy (the authority), and    *)
(* the second one defers the database rows with these keys.                *)
(*                                                                         *)
(* A message is a record of its keys (the primary one first), its payload, *)
(* `reported` and `passes`, what the caller's filter says of it.  A key    *)
(* stands for itself and the time of the message.                          *)
(***************************************************************************)
EXTENDS Integers, SequencesExt

CONSTANTS None  \* no message

Keys(m) == ToSet(m.keys)

(***************************************************************************)
(* One database (sessions/opencode.rs).  A row is of the table with the    *)
(* newer or the older schema, has an id of its own and perhaps the id of   *)
(* the message embedded in its data.  Rows that say the same are copies a  *)
(* fork made, unless they embed different ids.                             *)
(***************************************************************************)
RowKey(row) == IF row.embedded = None THEN row.id ELSE row.embedded

\* merge_opencode_dedup_key
WithKey(keys, key, preferred) ==
    LET aliases == Tail(keys)
        demoted == IF Head(keys) \in ToSet(aliases) THEN aliases ELSE Append(aliases, Head(keys))
    IN  CASE key = Head(keys) -> keys
          [] key # Head(keys) /\ preferred -> <<key>> \o SelectSeq(demoted, LAMBDA k : k # key)
          [] OTHER -> IF key \in ToSet(aliases) THEN keys ELSE Append(keys, key)

IngestRow(acc, row) ==
    LET older == row.table = "v1" /\ row.embedded = None
        copies == {i \in DOMAIN acc :
                    /\ acc[i].payload = row.payload
                    /\ None \in {acc[i].embedded, row.embedded} \/ acc[i].embedded = row.embedded}
        first == CHOOSE i \in copies : \A j \in copies : i <= j
        named == row.embedded # None /\ acc[first].embedded = None
        fallback == older /\ acc[first].embedded = None /\ ~acc[first].fallback
        merged == [acc[first] EXCEPT
                     !.embedded = IF named THEN row.embedded ELSE @,
                     !.fallback = @ \/ older,
                     !.keys = WithKey(@, RowKey(row), named \/ fallback),
                     !.reported = @ \/ row.reported]
    IN  IF copies = {}
        THEN Append(acc, [keys |-> <<RowKey(row)>>, payload |-> row.payload, reported |-> row.reported,
                          passes |-> row.passes, embedded |-> row.embedded, fallback |-> older])
        ELSE [acc EXCEPT ![first] = merged]

\* parse_opencode_sqlite: the newer table, then the older one.
Collapse(rows) ==
    LET of(table) == SelectSeq(rows, LAMBDA row : row.table = table)
    IN  FoldLeft(IngestRow, <<>>, of("v2") \o of("v1"))

(***************************************************************************)
(* All stores together.                                                    *)
(***************************************************************************)

\* These keys, the keys that share a group with one of them, and so on.
Spread(keys, groups) ==
    FoldLeft(LAMBDA known, i : known \cup UNION {g \in groups : g \cap known # {}},
             keys, [i \in 1..Cardinality(groups) |-> i])

\* Mutant: only the keys of the reported copies themselves.
Authority_Direct(messages) == UNION {Keys(m) : m \in {m \in messages : m.reported}}

\* opencode_authoritative_sources: the keys of reported copies, and what they
\* are connected with.
Authority(messages) ==
    Spread(UNION {Keys(m) : m \in {m \in messages : m.reported}}, {Keys(m) : m \in messages})

\* `links` lists, in the order it was learned, which deferred row has which
\* key and payload.
NewSelection(authority) ==
    [authority |-> authority, seen |-> {}, emitted |-> {}, deferred |-> <<>>, links |-> <<>>]

HasAuthority(s, m) == Keys(m) \cap s.authority # {}
HasEmitted(s, m) == Keys(m) \cap s.emitted # {}

\* The keys deferred rows connect these with, rows already taken included.
KeysOfRow(s, i) == {l[1] : l \in {l \in ToSet(s.links) : l[3] = i}}
Connected(s, keys) == Spread(keys, {KeysOfRow(s, i) : i \in DOMAIN s.deferred})

MarkEmitted(s, keys) == [s EXCEPT !.emitted = @ \cup Connected(s, keys)]

Link(s, i, m) ==
    [s EXCEPT !.links =
        FoldLeft(LAMBDA links, key :
                    IF <<key, m.payload, i>> \in ToSet(links) THEN links
                    ELSE Append(links, <<key, m.payload, i>>),
                 @, m.keys)]

Defer(s, m) ==
    Link([s EXCEPT !.deferred = Append(@, m)], Len(s.deferred) + 1, m)

\* The first deferred row not yet taken, by the first key that has one; 0 if
\* there is none.
FirstActive(s, keys, Matches(_)) ==
    LET active(key) == SelectSeq(s.links, LAMBDA l :
                          l[1] = key /\ Matches(l) /\ s.deferred[l[3]] # None)
        found == SelectSeq(keys, LAMBDA key : active(key) # <<>>)
    IN  IF found = <<>> THEN 0 ELSE active(found[1])[1][3]

DeferredTwin(s, m) == FirstActive(s, m.keys, LAMBDA l : l[2] = m.payload)
DeferredCopy(s, m) == FirstActive(s, m.keys, LAMBDA l : TRUE)

\* A deferred row gives way: its keys are settled with those of its successor.
Take(s, i) ==
    MarkEmitted([s EXCEPT !.deferred[i] = None], KeysOfRow(s, i))

Emit(s, m) == [sel |-> MarkEmitted(s, Keys(m)), out |-> <<m>>]
Skip(s) == [sel |-> s, out |-> <<>>]
Settle(s, m) == IF HasEmitted(s, m) THEN MarkEmitted(s, Keys(m)) ELSE s

Identities(m) == {<<key, m.payload>> : key \in Keys(m)}

\* Mutant: a row is recognised by its primary key alone.
IsRepeated_Primary(s, m) == <<Head(m.keys), m.payload>> \in s.seen

\* Mutant: a row is recognised by its keys, whatever it says.
IsRepeated_AnyPayload(s, m) == Keys(m) \cap {known[1] : known \in s.seen} # {}

\* mark_sqlite_seen
IsRepeated(s, m) == Identities(m) \cap s.seen # {}

SelectSqlite(s, m) ==
    LET repeated == IsRepeated(s, m)
        q == [s EXCEPT !.seen = @ \cup Identities(m)]
        twin == DeferredTwin(q, m)
    IN  CASE m.keys = <<>> -> [sel |-> s, out |-> <<m>>]
          [] m.keys # <<>> /\ repeated /\ twin # 0 ->
               IF m.reported THEN Emit(Take(Link(q, twin, m), twin), m)
                             ELSE Skip(Link(q, twin, m))
          [] m.keys # <<>> /\ repeated /\ twin = 0 -> Skip(Settle(q, m))
          [] OTHER ->
               IF HasAuthority(q, m) /\ ~m.reported
               THEN Skip(Defer(Settle(q, m), m))
               ELSE Emit(Settle(q, m), m)

\* Mutant: a file that is filtered out takes the deferred row with it.
SelectJson_TakesFiltered(s, m, willEmit) ==
    LET twin == DeferredTwin(s, m)
        copy == IF twin # 0 THEN twin ELSE DeferredCopy(s, m)
        settled == IF copy = 0 THEN s ELSE Take(s, copy)
        emitted == Emit(s, m)
    IN  CASE m.keys = <<>> -> [sel |-> s, out |-> IF willEmit THEN <<m>> ELSE <<>>]
          [] m.keys # <<>> /\ HasAuthority(s, m) ->
               IF ~m.reported \/ (twin = 0 /\ HasEmitted(s, m)) THEN Skip(s) ELSE Emit(settled, m)
          [] OTHER ->
               IF HasEmitted(s, m) THEN Skip(s)
               ELSE [emitted EXCEPT !.out = IF willEmit THEN @ ELSE <<>>]

SelectJson(s, m, willEmit) ==
    LET twin == DeferredTwin(s, m)
        copy == IF twin # 0 THEN twin ELSE DeferredCopy(s, m)
        settled == IF copy = 0 THEN s ELSE Take(s, copy)
        emitted == Emit(s, m)
    IN  CASE m.keys = <<>> -> [sel |-> s, out |-> IF willEmit THEN <<m>> ELSE <<>>]
          [] m.keys # <<>> /\ HasAuthority(s, m) ->
               IF ~m.reported \/ ~willEmit \/ (twin = 0 /\ HasEmitted(s, m))
               THEN Skip(s) ELSE Emit(settled, m)
          [] OTHER ->
               IF HasEmitted(s, m) THEN Skip(s)
               ELSE [emitted EXCEPT !.out = IF willEmit THEN @ ELSE <<>>]

Finish(s) == SelectSeq(s.deferred, LAMBDA m : m # None)
===============================================================================
