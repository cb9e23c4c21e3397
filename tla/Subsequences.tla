------------------------------ MODULE Subsequences ------------------------------
(***************************************************************************)
(* The elements of a sequence that stand at given positions.  What a       *)
(* selection keeps is named by its positions, so that a rule may look at   *)
(* what comes before or after an element; and the sum of numbers in order. *)
(***************************************************************************)
EXTENDS Integers, Sequences

Chosen(s, positions) ==
    LET chosen[n \in 0..Len(s)] ==
          IF n = 0 THEN <<>>
          ELSE IF n \in positions THEN Append(chosen[n - 1], s[n]) ELSE chosen[n - 1]
    IN  chosen[Len(s)]

Total(numbers) ==
    LET sum[n \in 0..Len(numbers)] == IF n = 0 THEN 0 ELSE sum[n - 1] + numbers[n]
    IN  sum[Len(numbers)]
===============================================================================
