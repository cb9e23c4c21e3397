------------------------------ MODULE UsageReport ------------------------------
(***************************************************************************)
(* A report: a streaming scan, and what is made of its messages.  The      *)
(* price of a message, the days and sessions of a graph, the time metrics  *)
(* and the report for a remote reader are computed without looking at one  *)
(* another, so a behaviour shows one of them, as it shows one lane.        *)
(***************************************************************************)
EXTENDS StreamingScan

CONSTANTS
    Reports,                                    \* what is looked at besides the lanes
    Usages, Tables, NoRate, Over,               \* of TokenPrice
    Session, Timestamp, MaxMessages, IdleGap, DayLength, NoMidnight,  \* of SessionTime
    GraphMessages, MAX, MaxFolded,              \* of GraphReport
    RemoteMessages, Queries, Mirror,            \* of RemoteReport
    MAX_MESSAGES, MAX_LABEL_BYTES, MAX_RECORDS, MAX_COUNT, MaxPushed
    \* MaxMessages, MaxFolded and MaxPushed bound the messages of a behaviour.

VARIABLES message, times, told, pieces, fold

reportVars == <<message, times, told, pieces, fold>>

Price == INSTANCE TokenPrice
Time == INSTANCE SessionTime
Graph == INSTANCE GraphReport WITH Messages <- GraphMessages, MaxTold <- MaxFolded
Remote == INSTANCE RemoteReport WITH Messages <- RemoteMessages, MaxTold <- MaxPushed

ASSUME ReportAssumption ==
    /\ Reports \subseteq {"price", "time", "graph", "remote"}
    /\ Over \in [1..4 -> Nat]
    /\ \A i \in 1..3 : 0 < Over[i] /\ Over[i] < Over[i + 1]
    /\ Price!RatesAreNumbers /\ Price!TokensAreNumbers
    /\ {IdleGap, DayLength, MAX} \subseteq Nat \ {0}
    /\ Timestamp \cup NoMidnight \subseteq Nat
    /\ Graph!AmountsAreNatural /\ Remote!MessagesHaveLanes /\ Remote!MessagesHaveSizes
    /\ {MAX_MESSAGES, MAX_LABEL_BYTES, MAX_RECORDS, MAX_COUNT} \subseteq Nat

ReportInit ==
    \/ ScanInit /\ message = <<>> /\ times = <<>> /\ told = <<>> /\ pieces = <<>> /\ fold = <<>>
    \/ /\ \E report \in Reports : InitLane(report)
       /\ openCodeIdle
       /\ IF lane = "price" THEN Price!Init ELSE message = <<>>
       /\ IF lane = "time" THEN Time!Init ELSE times = <<>>
       /\ IF lane = "graph" THEN Graph!Init ELSE pieces = <<>>
       /\ IF lane = "remote" THEN Remote!Init ELSE fold = <<>> /\ told = <<>>

ReportNext ==
    \/ lane \notin Reports /\ ScanNext /\ UNCHANGED reportVars
    \/ /\ UNCHANGED <<vars, openCodeVars>>
       /\ \/ lane = "price" /\ Price!Next /\ UNCHANGED <<times, told, pieces, fold>>
          \/ lane = "time" /\ Time!Next /\ UNCHANGED <<message, told, pieces, fold>>
          \/ lane = "graph" /\ Graph!Next /\ UNCHANGED <<message, times, fold>>
          \/ lane = "remote" /\ Remote!Next /\ UNCHANGED <<message, times, pieces>>

ReportSpec == ReportInit /\ [][ReportNext]_<<vars, openCodeVars, reportVars>>

-------------------------------------------------------------------------------
\* Of the price of a message; stated and explained in TokenPrice.  A message
\* called estimated has a rate for every token, one called partial for some, and
\* the cost is the sum of what is known.
EstimateIsHonest == lane = "price" => Price!EstimateIsHonest

\* Of the time metrics; stated and explained in SessionTime.  The sweep over
\* starts and ends counts the sessions that overlap, the longest stretch of
\* activity has no silence beyond the idle gap, and the days share the active time
\* of the sessions without adding to it.
TimeMetricsAreExact ==
    lane = "time" => Time!OverlapsAreCounted /\ Time!LongestIsUnbroken /\ Time!DaysShareTheTime

\* Of the parallel aggregation; stated and explained in GraphReport.  However the
\* list was cut and merged, the report is the one of the whole list.
PiecesAddUp == lane = "graph" => Graph!PiecesAddUp

\* A session is shown under what cost the most.
TopCostsMost == lane = "graph" => Graph!TopCostsMost

\* Of the report for a remote reader; stated and explained in RemoteReport.  The
\* lanes, the client filter and the gate change nothing of the bundle.
GateKeepsBundle == lane = "remote" => Remote!GateKeepsBundle

\* What a query does not ask for cannot fail it.
OnlyAskedCanFail == lane = "remote" => Remote!OnlyAskedCanFail

\* A report that does not say it is saturated is exact.
UnflaggedIsExact == lane = "remote" => Remote!UnflaggedIsExact
===============================================================================
