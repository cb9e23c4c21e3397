--------------------------- MODULE MCMessageCache ---------------------------
(***************************************************************************)
(* MessageCache for TLC.                                                   *)
(***************************************************************************)
EXTENDS MessageCache, TLC

CONSTANTS p1, p2, a, b, c, k, u, s1, s2

OneShard == [q \in Path |-> s1]
ShardEach == [q \in Path |-> IF q = a THEN s1 ELSE s2]

AllClaude == [q \in Path |-> "claude"]
AllCheckFirst == [q \in Path |-> "check_first"]
AllSimple == [q \in Path |-> "simple"]
AllGemini == [q \in Path |-> "gemini"]
CheckFirstAndClaude == [q \in Path |-> IF q = a THEN "check_first" ELSE "claude"]

Symmetric == Permutations(Proc)
\* Two transcripts of one lane in one shard are alike too.
SymmetricPair == Symmetric \cup Permutations({b, c})
===============================================================================
