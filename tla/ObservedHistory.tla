--------------------------- MODULE ObservedHistory ---------------------------
(***************************************************************************)
(* What the message cache promises about the transcripts of a client that  *)
(* rewrites them in place: a turn recorded once stays recorded, whatever   *)
(* the file holds later, until the file itself has gone missing; and only  *)
(* what the file has contained is ever recorded.                           *)
(***************************************************************************)
EXTENDS Integers

CONSTANTS Path, StableKey, MaxUsage

VARIABLES
    history,  \* history[q][k]: the usage recorded for turn k of file q, 0: none
    seen,     \* seen[q][k]: every usage figure file q has shown for turn k
    gone      \* files missing at some moment since their record was last renewed

Turns == [StableKey -> 0..MaxUsage]

Init ==
    /\ history = [q \in Path |-> [k \in StableKey |-> 0]]
    /\ seen \in [Path -> [StableKey -> SUBSET (0..MaxUsage)]]
    /\ gone = {}

\* The file shows new figures.
Show(q) ==
    /\ \E turns \in Turns : seen' = [seen EXCEPT ![q] = [k \in StableKey |-> @[k] \cup {turns[k]}]]
    /\ UNCHANGED <<history, gone>>

Disappear(q) ==
    /\ gone' = gone \cup {q}
    /\ UNCHANGED <<history, seen>>

\* Records are renewed: none loses a turn or lowers its figure unless its file
\* has been missing.
Record ==
    /\ \A q \in Path, k \in StableKey :
         /\ history'[q][k] \in seen[q][k] \cup {0}
         /\ q \in gone \/ history'[q][k] >= history[q][k]
    /\ gone' \subseteq gone
    /\ UNCHANGED seen

Next == Record \/ \E q \in Path : Show(q) \/ Disappear(q)

Spec == Init /\ [][Next]_<<history, seen, gone>>
===============================================================================
