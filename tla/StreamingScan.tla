------------------------------ MODULE StreamingScan ------------------------------
(***************************************************************************)
(* A streaming scan, scan_messages_streaming_inner (lib.rs): the OpenCode  *)
(* lane, which reads its stores twice, and the lanes of ReportLanes.  Each *)
(* lane has its own sources and its own memory of what it let through; no  *)
(* lane reads what another one wrote, so a scan is looked at through one   *)
(* of its lanes.                                                           *)
(***************************************************************************)
EXTENDS ReportLanes

CONSTANTS None, Databases, Files, MaxDrifts  \* of the OpenCode lane

VARIABLES dbs, json, first, read, sel, selected, next, drifts, ignores

openCodeVars == <<dbs, json, first, read, sel, selected, next, drifts, ignores>>

OpenCode == INSTANCE OpenCodeScan

openCodeIdle ==
    /\ dbs = <<>> /\ json = <<>> /\ first = {} /\ read = <<>>
    /\ sel = OpenCode!NewSelection({}) /\ selected = <<>>
    /\ next = 0 /\ drifts = 0 /\ ignores = FALSE

ScanInit ==
    \/ Init /\ openCodeIdle
    \/ InitLane("opencode") /\ OpenCode!Init

ScanNext ==
    \/ lane # "opencode" /\ Next /\ UNCHANGED openCodeVars
    \/ lane = "opencode" /\ OpenCode!Next /\ UNCHANGED vars

ScanSpec == ScanInit /\ [][ScanNext]_<<vars, openCodeVars>>

-------------------------------------------------------------------------------
\* Of the OpenCode lane; stated and explained in OpenCodeScan.  Whatever order
\* its copies come in, a request is neither lost between the first and the second
\* reading of the stores, nor counted more often than its databases tell it
\* differently (select_sqlite, select_json).
EveryRequestCountsOnce ==
    lane = "opencode" => OpenCode!NoRequestIsLost /\ OpenCode!CountedOnce

\* A request with a reported cost is counted with one.
ReportedCostWins == lane = "opencode" => OpenCode!ReportedCostWins

\* The choice of a remote producer does not depend on its filter.
ChoiceIgnoresFilter == lane = "opencode" => OpenCode!ChoiceIgnoresFilter
===============================================================================
