-------------------------- MODULE MCPricingService --------------------------
(***************************************************************************)
(* PricingService for TLC.                                                 *)
(***************************************************************************)
EXTENDS PricingService, TLC

CONSTANTS m1, m2, c1, c2, c3

OneProcess == [c \in Caller |-> m1]
TwoProcesses == [c \in Caller |-> IF c = c3 THEN m2 ELSE m1]
===============================================================================
