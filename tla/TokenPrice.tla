------------------------------- MODULE TokenPrice -------------------------------
(***************************************************************************)
(* What a message costs, and how much of that is known: compute_cost and   *)
(* coverage_for_pricing (pricing/lookup.rs) walk the same rates one beside *)
(* the other, and apply_pricing_if_available (lib.rs) puts what they say   *)
(* on a message.  The rates of a model are given; how they are looked up   *)
(* is not part of this module.                                             *)
(***************************************************************************)
EXTENDS Integers, Sequences, FiniteSetsExt, Subsequences

CONSTANTS
    Usages,      \* the tokens of messages: input, output, reasoning, read, write, write1h
    Tables,      \* the rates of models, see Ladder
    NoRate,      \* a rate that a table does not have
    Over         \* the four thresholds of tiers, 128k, 200k, 256k and 272k, in ticks

\* The message, and the table it was priced with last, if any.
VARIABLE message

\* A table has a base rate and, for each threshold, a rate above it, of input,
\* output and read tokens and of writes, and says whether the whole request is
\* priced by its length.
Ladder == {"input", "output", "read", "write"}

\* Rates, costs and tokens are counted in whole numbers, of any sign.
RatesAreNumbers ==
    /\ NoRate \notin Tables \cup Int
    /\ \A table \in Tables : \A b \in Ladder :
         /\ table[b].base \in Int \cup {NoRate}
         /\ \A i \in 1..4 : table[b].above[i] \in Int \cup {NoRate}

TokensAreNumbers ==
    \A usage \in Usages :
      {usage.input, usage.output, usage.reasoning, usage.read, usage.write, usage.write1h} \subseteq Int

\* is_valid_price_value
Valid(rate) == rate # NoRate /\ rate >= 0
PriceOf(rate) == IF Valid(rate) THEN rate ELSE 0

\* Read tokens have no tiers at 128k and 256k, and writes only one, at 200k.
TiersOf(bucket) ==
    CASE bucket = "read" -> {2, 4}
      [] bucket = "write" -> {2}
      [] OTHER -> 1..4

Rated(table, bucket) == {i \in TiersOf(bucket) : Valid(table[bucket].above[i])}

\* The output counts with the reasoning; of the writes, those for an hour are a
\* part, at most all of it, and paid for at twice the input's rates.
Hours(usage) == Min({Max({usage.write1h, 0}), Max({usage.write, 0})})
Tokens(usage) ==
    [input |-> Max({usage.input, 0}),
     output |-> Max({usage.output, 0}) + Max({usage.reasoning, 0}),
     read |-> Max({usage.read, 0}),
     write |-> Max({usage.write, 0}) - Hours(usage)]

-------------------------------------------------------------------------------
(***************************************************************************)
(* The cost.                                                               *)
(***************************************************************************)
Start(table, bucket) == [done |-> FALSE, from |-> 0, rate |-> PriceOf(table[bucket].base), cost |-> 0]

\* Up to the next threshold with a rate of its own the rate so far applies.
Step(tokens, table, bucket, walk, i) ==
    IF walk.done \/ i \notin Rated(table, bucket)
    THEN walk
    ELSE IF tokens <= Over[i]
    THEN [walk EXCEPT !.done = TRUE, !.cost = @ + (tokens - walk.from) * walk.rate, !.from = tokens]
    ELSE [done |-> FALSE, from |-> Over[i], rate |-> table[bucket].above[i],
          cost |-> walk.cost + (Over[i] - walk.from) * walk.rate]

TieredCost(tokens, table, bucket) ==
    LET walked(walk, i) == Step(tokens, table, bucket, walk, i)
        walk == walked(walked(walked(walked(Start(table, bucket), 1), 2), 3), 4)
    IN  walk.cost + (tokens - walk.from) * walk.rate

\* compute_cost
WriteCost(usage, table) ==
    TieredCost(Tokens(usage).write, table, "write") + 2 * TieredCost(Hours(usage), table, "input")

MarginalCost(usage, table) ==
    TieredCost(Tokens(usage).input, table, "input") + TieredCost(Tokens(usage).output, table, "output")
      + TieredCost(Tokens(usage).read, table, "read") + WriteCost(usage, table)

\* Some models are billed by the length of the request, which is what goes in.
IsLong(usage) == Tokens(usage).input + Tokens(usage).read > Over[4]

Selected(table, bucket, long) ==
    IF long /\ Valid(table[bucket].above[4]) THEN table[bucket].above[4] ELSE table[bucket].base

\* compute_full_session_long_context_cost
RequestCost(usage, table) ==
    LET cost(b) == Tokens(usage)[b] * PriceOf(Selected(table, b, IsLong(usage)))
    IN  cost("input") + cost("output") + cost("read") + WriteCost(usage, table)

Cost(usage, table) == IF table.perRequest THEN RequestCost(usage, table) ELSE MarginalCost(usage, table)

-------------------------------------------------------------------------------
(***************************************************************************)
(* The coverage.  A bucket says whether some of its tokens have a price    *)
(* ("known"), and whether some do not ("unknown").                         *)
(***************************************************************************)
\* Mutant: a rate for long contexts alone is taken to price every token.
TieredCoverage_AnyTier(tokens, table, bucket) ==
    IF tokens = 0 THEN {}
    ELSE IF Rated(table, bucket) # {} \/ Valid(table[bucket].base) THEN {"known"} ELSE {"unknown"}

\* ordinary_bucket_coverage
TieredCoverage(tokens, table, bucket) ==
    LET rated == Rated(table, bucket)
    IN  IF tokens = 0 THEN {}
        ELSE IF Valid(table[bucket].base) THEN {"known"}
        ELSE IF rated # {} /\ tokens > Over[Min(rated)] THEN {"known", "unknown"}
        ELSE {"unknown"}

\* selected_long_context_bucket_coverage
SelectedCoverage(tokens, table, bucket, long) ==
    IF tokens = 0 THEN {}
    ELSE IF Valid(Selected(table, bucket, long)) THEN {"known"} ELSE {"unknown"}

\* coverage_for_pricing
Observed(usage, table) ==
    (IF table.perRequest
     THEN UNION {SelectedCoverage(Tokens(usage)[b], table, b, IsLong(usage)) : b \in {"input", "output", "read"}}
     ELSE UNION {TieredCoverage(Tokens(usage)[b], table, b) : b \in {"input", "output", "read"}})
      \cup TieredCoverage(Tokens(usage).write, table, "write")
      \cup TieredCoverage(Hours(usage), table, "input")

Coverage(usage, table) ==
    CASE Observed(usage, table) = {"known"} -> "complete"
      [] Observed(usage, table) = {"known", "unknown"} -> "partial"
      [] OTHER -> "none"

-------------------------------------------------------------------------------
Init ==
    \E usage \in Usages, zed \in BOOLEAN, source \in {"reported", "unknown"} :
      message = [usage |-> usage, zed |-> zed, source |-> source,
                 cost |-> IF source = "reported" THEN 1 ELSE 0, table |-> NoRate]

\* pricing_multiplier: what Zed hosts costs a tenth more.  Costs are in tenths.
Multiplier == IF message.zed THEN 11 ELSE 10

\* Mutant: what a producer reported is estimated over.
Reprice_Always(table) ==
    /\ message.table = NoRate
    /\ message' = [message EXCEPT !.table = table, !.source = "estimated",
                                  !.cost = Multiplier * Cost(message.usage, table)]

\* apply_pricing_if_available: a reported cost stays, an estimate that knows no
\* rate says nothing.
Reprice(table) ==
    LET coverage == Coverage(message.usage, table)
    IN  /\ message.table = NoRate
        /\ message' =
             IF message.source = "reported" \/ coverage = "none"
             THEN [message EXCEPT !.table = table]
             ELSE [message EXCEPT !.table = table, !.cost = Multiplier * Cost(message.usage, table),
                                  !.source = IF coverage = "complete" THEN "estimated" ELSE "partial"]

Next == \E table \in Tables : Reprice(table)

Spec == Init /\ [][Next]_message

-------------------------------------------------------------------------------
(***************************************************************************)
(* The reference: every token has a rate of its own.                       *)
(***************************************************************************)
\* The rate of the n-th token: that of the last tier it lies above.
RateOfToken(n, table, bucket) ==
    LET above == {i \in Rated(table, bucket) : Over[i] < n}
    IN  IF above = {} THEN table[bucket].base ELSE table[bucket].above[Max(above)]

\* A bill has a line for each token of each bucket and, with the rates of input,
\* for each that is written for an hour.
Lines == Ladder \cup {"hour"}

TokensOf(usage, line) == IF line = "hour" THEN Hours(usage) ELSE Tokens(usage)[line]

RateOf(n, usage, table, line) ==
    CASE line = "hour" -> RateOfToken(n, table, "input")
      [] line # "hour" /\ table.perRequest /\ line # "write" -> Selected(table, line, IsLong(usage))
      [] OTHER -> RateOfToken(n, table, line)

Billed(usage, table, line) == Total([n \in 1..TokensOf(usage, line) |-> PriceOf(RateOf(n, usage, table, line))])

SumOf(usage, table) ==
    Billed(usage, table, "input") + Billed(usage, table, "output") + Billed(usage, table, "read")
      + Billed(usage, table, "write") + 2 * Billed(usage, table, "hour")

SomeKnown(usage, table) ==
    \E line \in Lines : \E n \in 1..TokensOf(usage, line) : Valid(RateOf(n, usage, table, line))

AllKnown(usage, table) ==
    \A line \in Lines : \A n \in 1..TokensOf(usage, line) : Valid(RateOf(n, usage, table, line))

\* The two walks over the rates agree with one another and with the price of
\* every single token: a message called estimated has a rate for each of its
\* tokens, one called partial for some, one left alone for none; its cost is the
\* sum of those that are known; and a cost that was reported is never touched.
EstimateIsHonest ==
    message.table # NoRate =>
      LET some == SomeKnown(message.usage, message.table)
          all == AllKnown(message.usage, message.table)
          honest == message.cost = Multiplier * SumOf(message.usage, message.table)
      IN  CASE message.source = "reported" -> message.cost = 1
            [] message.source = "estimated" -> some /\ all /\ honest
            [] message.source = "partial" -> some /\ ~all /\ honest
            [] message.source = "unknown" -> ~some /\ message.cost = 0
===============================================================================
