------------------------------- MODULE SessionTime -------------------------------
(***************************************************************************)
(* How long a user was at work: SessionizeAccumulator and the metrics that *)
(* sessionize.rs derives from it.  A session is known by the times of its  *)
(* messages; time that passes between two of them is active unless it is   *)
(* longer than the idle gap.                                               *)
(***************************************************************************)
EXTENDS Integers, Sequences, SequencesExt, FiniteSetsExt

CONSTANTS
    Session,            \* a client and one of its session ids
    Timestamp,          \* times of messages; one that is not positive is no time
    MaxMessages,        \* bound: messages fed
    IdleGap,            \* DEFAULT_IDLE_GAP_MS
    DayLength,          \* of a local day
    NoMidnight          \* days that begin with a jump of the clock, over midnight

VARIABLE times  \* the times fed for each session, in order

Init == times = [s \in Session |-> <<>>]

Fed == MapThenSumSet(LAMBDA s : Len(times[s]), Session)

\* feed sorts nothing; finalize does, so the order of the scan is forgotten here.
Feed(s, t) ==
    /\ t > 0
    /\ Fed < MaxMessages
    /\ times' = [times EXCEPT ![s] =
                   SelectSeq(@, LAMBDA x : x <= t) \o <<t>> \o SelectSeq(@, LAMBDA x : x > t)]

Next == \E s \in Session, t \in Timestamp : Feed(s, t)

Spec == Init /\ [][Next]_times

-------------------------------------------------------------------------------
(***************************************************************************)
(* finalize: the interval of a session.                                    *)
(***************************************************************************)
Known == {s \in Session : times[s] # <<>>}

Start(s) == Head(times[s])
End(s) == Last(times[s])
Wall(s) == End(s) - Start(s)

Active(s) ==
    MapThenSumSet(LAMBDA i : LET gap == times[s][i + 1] - times[s][i] IN IF gap <= IdleGap THEN gap ELSE 0,
                  1..(Len(times[s]) - 1))

-------------------------------------------------------------------------------
(***************************************************************************)
(* compute_max_concurrent: a sweep over starts and ends.                   *)
(***************************************************************************)
LeavesAt(s) == IF End(s) <= Start(s) THEN Start(s) + 1 ELSE End(s)

Events ==
    {[at |-> Start(s), delta |-> 1, of |-> s] : s \in Known}
      \cup {[at |-> LeavesAt(s), delta |-> -1, of |-> s] : s \in Known}

\* Mutant: of two events at one time the end comes first.
Before_EndFirst(e, f) == e.at < f.at \/ (e.at = f.at /\ e.delta < f.delta)

\* Starts come before ends, so that sessions that touch overlap.
Before(e, f) == e.at < f.at \/ (e.at = f.at /\ e.delta > f.delta)

MaxConcurrent ==
    FoldLeft(LAMBDA sweep, e :
               LET now == sweep.now + e.delta
               IN  [now |-> now, most |-> IF now > sweep.most THEN now ELSE sweep.most],
             [now |-> 0, most |-> 0],
             SetToSortSeq(Events, Before)).most

-------------------------------------------------------------------------------
(***************************************************************************)
(* The longest stretch of activity, of all sessions together.              *)
(***************************************************************************)
\* A session's activity, as if it were at its beginning.
Windows == {[from |-> Start(s), to |-> Start(s) + Active(s)] : s \in {x \in Known : Active(x) > 0}}

\* Mutant: a window inside another one ends it.
Extended_LastEnds(run, w) ==
    IF w.from <= run.to + IdleGap
    THEN [run EXCEPT !.to = w.to]
    ELSE [from |-> w.from, to |-> w.to, longest |-> Max({run.longest, run.to - run.from})]

Extended(run, w) ==
    IF w.from <= run.to + IdleGap
    THEN [run EXCEPT !.to = Max({@, w.to})]
    ELSE [from |-> w.from, to |-> w.to, longest |-> Max({run.longest, run.to - run.from})]

LongestContinuous ==
    IF Windows = {} THEN 0
    ELSE LET sorted == SetToSortSeq(Windows, LAMBDA v, w : v.from < w.from)
             merged == FoldLeft(Extended, [longest |-> 0] @@ Head(sorted), Tail(sorted))
         IN  Max({merged.longest, merged.to - merged.from})

-------------------------------------------------------------------------------
(***************************************************************************)
(* compute_daily_active_time: the activity of a session, shared out to the *)
(* days it spans.                                                          *)
(***************************************************************************)
DayOf(t) == t \div DayLength
DayStart(d) == d * DayLength

\* The walk over the days of a session stops where a midnight is missing.
Reached(s) ==
    {d \in DayOf(Start(s))..DayOf(End(s)) :
       \A x \in DayOf(Start(s))..(d + 1) : x \notin NoMidnight}

Overlap(s, d) == Max({0, Min({End(s), DayStart(d + 1)}) - Max({Start(s), DayStart(d)})})

\* Mutant: a day's share is taken of the day, not of the session.
Share_OfDay(s, d) == (Active(s) * Overlap(s, d)) \div DayLength

Share(s, d) == (Active(s) * Overlap(s, d)) \div Max({Wall(s), 1})

DailyActive(d) == MapThenSumSet(LAMBDA s : IF d \in Reached(s) THEN Share(s, d) ELSE 0, Known)

-------------------------------------------------------------------------------
\* The sweep over starts and ends finds what counting at every moment finds:
\* the most sessions that are under way together, where a session of a single
\* moment lasts one tick and sessions that touch overlap.
OverlapsAreCounted ==
    MaxConcurrent =
      Max({0} \cup {Cardinality({s \in Known : Start(s) <= t /\ t <= LeavesAt(s)}) : t \in Timestamp})

\* Half a tick, so that a silence just longer than the idle gap is seen.
Covered(h) == \E w \in Windows : 2 * w.from <= h /\ h <= 2 * (w.to + IdleGap)

\* The longest stretch is the longest one without a silence beyond the idle
\* gap, however the windows of sessions lie in and over each other; and it is
\* never shorter than what a single session was active.
LongestIsUnbroken ==
    LongestContinuous =
      Max({0} \cup {p[1].to - p[2].from : p \in
                     {q \in Windows \X Windows : \A h \in (2 * q[2].from)..(2 * q[1].to) : Covered(h)}})

Days == 0..DayOf(Max(Timestamp))

\* The days of a report share the active time without adding to it: no session
\* gives a day more than it overlaps it, all days together get what the
\* sessions were active but for less than one tick a day, and time is only
\* missing where a midnight is.
DaysShareTheTime ==
    /\ \A s \in Known : \A d \in Reached(s) : Share(s, d) <= Overlap(s, d)
    /\ \A s \in Known :
         LET given == MapThenSumSet(LAMBDA d : Share(s, d), Reached(s))
         IN  /\ given <= Active(s)
             /\ (DayOf(Start(s))..(DayOf(End(s)) + 1)) \cap NoMidnight = {}
                  => Active(s) - given < Cardinality(Reached(s))
    /\ MapThenSumSet(DailyActive, Days) <= MapThenSumSet(Active, Known)
===============================================================================
