--------------------------- MODULE UsageReportProofs ---------------------------
(***************************************************************************)
(* Of the report for a remote reader: that the gate before the fold keeps  *)
(* the bundle, that a query fails for what it asks for alone, and that a   *)
(* report that is not flagged is exact, for all messages, queries and      *)
(* limits.  Of the price of a message: that it is what its tokens cost one *)
(* by one, for all rates, thresholds and numbers of tokens.                *)
(***************************************************************************)
EXTENDS UsageReport, FiniteSetTheorems, WellFoundedInduction, TLAPS

\* What a query asks for by client is scanned for and passes the client filter:
\* a cc-mirror client by way of Claude's lane, Grok Bot by way of Cursor's.
LEMMA AskedIsScanned ==
    ASSUME NEW m \in RemoteMessages, NEW clients, Remote!Exact(clients, m)
    PROVE  Remote!Scans(Remote!LanesOf(clients), m.lane) /\ Remote!PassesClient(Remote!LanesOf(clients), m)
<1>1. CASE clients = {}
  BY <1>1 DEF Remote!LanesOf, Remote!Scans, Remote!PassesClient
<1>2. CASE m.client \in clients
  <2>1. CASE m.client \in Mirror
    <3>1. "claude" \in Remote!LanesOf(clients)
      BY <1>2, <2>1 DEF Remote!LanesOf
    <3>. QED
      BY <2>1, <3>1, ReportAssumption DEF Remote!MessagesHaveLanes, Remote!Scans, Remote!PassesClient
  <2>2. CASE m.client \notin Mirror
    <3>1. m.client \in Remote!LanesOf(clients)
      BY <1>2, <2>2 DEF Remote!LanesOf
    <3>. QED
      BY <2>2, <3>1, ReportAssumption DEF Remote!MessagesHaveLanes, Remote!Scans, Remote!PassesClient
  <2>. QED
    BY <2>1, <2>2
<1>3. CASE "synthetic" \in clients /\ Remote!Synthetic(m)
  <2>1. "synthetic" \in Remote!LanesOf(clients)
    BY <1>3, ReportAssumption DEF Remote!MessagesHaveLanes, Remote!LanesOf
  <2>. QED
    BY <1>3, <2>1 DEF Remote!Scans, Remote!PassesClient
<1>. QED
  BY <1>1, <1>2, <1>3 DEF Remote!Exact

-------------------------------------------------------------------------------
IsFold(acc) ==
    /\ acc = [messages |-> acc.messages, error |-> acc.error, pages |-> acc.pages]
    /\ acc.messages \in Nat

\* The scanned fold is behind the given one in messages, and even in the rest.
Behind(scanned, given) ==
    /\ scanned.error = "none"
    /\ scanned.pages = given.pages
    /\ scanned.messages <= given.messages

\* As long as the given fold has no error; messages and errors are all a fold
\* has besides its pages.
BundleInv ==
    /\ fold = [query |-> fold.query, given |-> fold.given, scanned |-> fold.scanned]
    /\ IsFold(fold.given) /\ IsFold(fold.scanned)
    /\ fold.given.error = "none" => Behind(fold.scanned, fold.given)

\* A fold stays one, and an error stays.
LEMMA PushKeepsFold ==
    ASSUME NEW acc, IsFold(acc), NEW m, NEW query
    PROVE  /\ IsFold(Remote!Push(acc, m, query))
           /\ Remote!Push(acc, m, query).error = "none" => acc.error = "none"
  BY DEF IsFold, Remote!Push

\* What both folds look at keeps one behind the other: the limit on messages, the
\* only fault that depends on the fold, meets the given fold first.
LEMMA PushBoth ==
    ASSUME NEW given, IsFold(given), NEW scanned, IsFold(scanned), Behind(scanned, given),
           NEW m, NEW query, Remote!Push(given, m, query).error = "none"
    PROVE  Behind(Remote!Push(scanned, m, query), Remote!Push(given, m, query))
<1>1. given.error = "none"
  BY PushKeepsFold
<1>2. Remote!FaultOf(given, m) = "none"
  BY <1>1 DEF Remote!Push, IsFold
<1>3. Remote!FaultOf(scanned, m) = "none"
  BY <1>2, ReportAssumption DEF Remote!FaultOf, Behind, IsFold
<1>. QED
  BY <1>1, <1>2, <1>3 DEF Remote!Push, Behind, IsFold

\* What only the given fold looks at was not asked for, and leaves its pages.
LEMMA PushGiven ==
    ASSUME NEW given, IsFold(given), NEW scanned, Behind(scanned, given), scanned.messages \in Nat,
           NEW m \in RemoteMessages, ~Remote!IsScanned(m), Remote!Push(given, m, fold.query).error = "none"
    PROVE  Behind(scanned, Remote!Push(given, m, fold.query))
<1>1. given.error = "none" /\ Remote!FaultOf(given, m) = "none"
  BY PushKeepsFold DEF Remote!Push, IsFold
<1>2. m.fault # "timestamp"
  BY <1>1, ReportAssumption DEF Remote!FaultOf, IsFold
<1>3. ~(Remote!Exact(fold.query.clients, m) /\ Remote!InRange(m, fold.query))
  BY <1>2, AskedIsScanned DEF Remote!IsScanned, Remote!Accepts
<1>. QED
  BY <1>1, <1>3 DEF Remote!Push, Behind, IsFold

-------------------------------------------------------------------------------
(***************************************************************************)
(* A sum over the messages so far.                                         *)
(***************************************************************************)
LEMMA LeastNumber ==
    ASSUME NEW S, S \subseteq Nat, S # {}
    PROVE  \E n \in S : \A m \in S : n <= m
<1>1. IsWellFoundedOn(OpToRel(<, Nat), Nat)
  BY NatLessThanWellFounded
<1>2. PICK n \in S : \A m \in S : <<m, n>> \notin OpToRel(<, Nat)
  BY <1>1, WFMin
<1>3. \A m \in S : ~(m < n)
  BY <1>2 DEF OpToRel
<1>. QED
  BY <1>3

\* f[k] is the sum of the first k of the numbers.
Sums(f, a, n) == f = [k \in 0..n |-> IF k = 0 THEN 0 ELSE f[k - 1] + a[k]]

\* Such sums step by step.
LEMMA SumSteps ==
    ASSUME NEW n \in Nat, NEW a, NEW f, Sums(f, a, n)
    PROVE  f[0] = 0 /\ \A k \in 1..n : f[k] = f[k - 1] + a[k]
<1>. DEFINE Step(k) == IF k = 0 THEN 0 ELSE f[k - 1] + a[k]
<1>1. f = [k \in 0..n |-> Step(k)]
  BY DEF Sums
<1>. HIDE DEF Step
<1>2. \A k \in 0..n : f[k] = Step(k)
  BY <1>1
<1>3. 0 \in 0..n /\ \A k \in 1..n : k \in 0..n /\ k # 0
  OBVIOUS
<1>. QED
  BY <1>2, <1>3 DEF Step

\* The sums of one number more.
LEMMA LongerSums ==
    ASSUME NEW n \in Nat, NEW a, NEW f, Sums(f, a, n)
    PROVE  \E g : Sums(g, a, n + 1)
<1>1. PICK k \in Nat : k = n + 1
  OBVIOUS
<1>2. f[0] = 0 /\ \A i \in 1..n : f[i] = f[i - 1] + a[i]
  BY SumSteps
<1>. DEFINE last == f[n] + a[k]
            g == [i \in 0..k |-> IF i = k THEN last ELSE f[i]]
            G(i) == IF i = 0 THEN 0 ELSE g[i - 1] + a[i]
<1>3. \A i \in 0..k : g[i] = G(i)
  <2>. SUFFICES ASSUME NEW i \in 0..k PROVE g[i] = G(i)
    OBVIOUS
  <2>. HIDE DEF last
  <2>1. CASE i = 0
    BY <1>1, <1>2, <2>1
  <2>2. CASE i # 0 /\ i # k
    <3>1. i \in 1..n /\ i - 1 \in 0..k /\ i - 1 # k
      BY <1>1, <2>2
    <3>2. g[i] = f[i] /\ g[i - 1] = f[i - 1]
      BY <2>2, <3>1
    <3>. QED
      BY <1>2, <2>2, <3>1, <3>2
  <2>3. CASE i # 0 /\ i = k
    <3>1. n \in 0..k /\ n # k /\ i - 1 = n
      BY <1>1, <2>3
    <3>2. g[i - 1] = f[n] /\ g[i] = last
      BY <2>3, <3>1
    <3>. QED
      BY <2>3, <3>2 DEF last
  <2>. QED
    BY <2>1, <2>2, <2>3
<1>4. g = [i \in 0..k |-> G(i)]
  <2>1. g = [i \in 0..k |-> g[i]]
    OBVIOUS
  <2>. HIDE DEF g, G
  <2>. QED
    BY <1>3, <2>1
<1>5. Sums(g, a, k)
  <2>. HIDE DEF g
  <2>. QED
    BY <1>4 DEF Sums
<1>. HIDE DEF g
<1>. QED
  BY <1>1, <1>5

\* There are sums of any numbers: otherwise there is a least n without, and the
\* sums of n - 1 can be made longer.
LEMMA SumsExist ==
    ASSUME NEW n \in Nat, NEW a
    PROVE  \E f : Sums(f, a, n)
<1>. DEFINE S == {k \in Nat : ~\E f : Sums(f, a, k)}
<1>1. SUFFICES ASSUME S # {} PROVE FALSE
  OBVIOUS
<1>2. PICK k \in S : \A m \in S : k <= m
  <2>1. S \subseteq Nat
    OBVIOUS
  <2>. HIDE DEF S
  <2>. QED
    BY <1>1, <2>1, LeastNumber
<1>3. k # 0
  <2>1. Sums([i \in 0..0 |-> 0], a, 0)
    BY DEF Sums
  <2>. QED
    BY <1>2, <2>1
<1>4. PICK m \in Nat : k = m + 1
  <2>1. k - 1 \in Nat /\ k = (k - 1) + 1
    BY <1>2, <1>3
  <2>. QED
    BY <2>1
<1>5. m \notin S
  BY <1>2, <1>4
<1>6. \E f : Sums(f, a, m + 1)
  BY <1>5, LongerSums
<1>. QED
  BY <1>2, <1>4, <1>6

\* Two sequences have the same sums as far as they agree, and those of naturals
\* are naturals.
LEMMA SumsAgree ==
    ASSUME NEW n \in Nat, NEW m \in 0..n, NEW a, NEW f, Sums(f, a, n), NEW b, NEW g, Sums(g, b, m),
           \A k \in 1..m : a[k] = b[k] /\ b[k] \in Nat
    PROVE  \A k \in 0..m : f[k] = g[k] /\ g[k] \in Nat
<1>. DEFINE S == {k \in 0..m : ~(f[k] = g[k] /\ g[k] \in Nat)}
<1>1. SUFFICES ASSUME S # {} PROVE FALSE
  OBVIOUS
<1>2. PICK k \in S : \A i \in S : k <= i
  <2>1. S \subseteq Nat
    OBVIOUS
  <2>. HIDE DEF S
  <2>. QED
    BY <1>1, <2>1, LeastNumber
<1>3. f[0] = 0 /\ g[0] = 0
  BY SumSteps
<1>4. \A i \in 1..n : f[i] = f[i - 1] + a[i]
  BY SumSteps
<1>5. \A i \in 1..m : g[i] = g[i - 1] + b[i]
  BY SumSteps
<1>6. k \in 1..m /\ k \in 1..n /\ k - 1 \in 0..m /\ k - 1 < k
  <2>1. k # 0
    BY <1>2, <1>3
  <2>. QED
    BY <1>2, <2>1
<1>7. f[k - 1] = g[k - 1] /\ g[k - 1] \in Nat
  BY <1>2, <1>6
<1>. QED
  BY <1>2, <1>4, <1>5, <1>6, <1>7

\* Total is the last of the sums.
LEMMA TotalIsSum ==
    ASSUME NEW n \in Nat, NEW a, n = Len(a)
    PROVE  \E f : Sums(f, a, n) /\ Remote!Total(a) = f[n]
<1>. DEFINE f == CHOOSE g : g = [k \in 0..Len(a) |-> IF k = 0 THEN 0 ELSE g[k - 1] + a[k]]
<1>1. Remote!Total(a) = f[Len(a)]
  BY DEF Remote!Total
<1>2. Sums(f, a, Len(a))
  BY SumsExist DEF Sums
<1>. QED
  BY <1>1, <1>2

\* A further number is added to the sum.
LEMMA TotalOneMore ==
    ASSUME NEW n \in Nat, NEW a, n = Len(a), NEW m \in Nat, m = n + 1, NEW b, m = Len(b),
           \A i \in 1..n : b[i] = a[i] /\ a[i] \in Nat, b[m] \in Nat
    PROVE  Remote!Total(a) \in Nat /\ Remote!Total(b) = Remote!Total(a) + b[m]
<1>1. PICK f : Sums(f, a, n) /\ Remote!Total(a) = f[n]
  BY TotalIsSum
<1>2. PICK g : Sums(g, b, m) /\ Remote!Total(b) = g[m]
  BY TotalIsSum
<1>3. Sums(f, a, n) /\ Sums(g, b, m) /\ n \in 0..m /\ n \in 0..n
  BY <1>1, <1>2
<1>4. \A k \in 0..n : g[k] = f[k] /\ f[k] \in Nat
  BY <1>3, SumsAgree
<1>5. g[n] = f[n] /\ f[n] \in Nat
  BY <1>3, <1>4
<1>6. m \in 1..m /\ m - 1 = n
  OBVIOUS
<1>7. g[m] = g[m - 1] + b[m]
  BY <1>3, <1>6, SumSteps
<1>. QED
  BY <1>1, <1>2, <1>5, <1>6, <1>7

-------------------------------------------------------------------------------
(***************************************************************************)
(* What a message adds to what the query asks for.                         *)
(***************************************************************************)
IsTold == told \in Seq(RemoteMessages)

\* A message told is the last one, and the others stay where they are.
LEMMA ToldOneMore ==
    ASSUME IsTold, NEW m \in RemoteMessages, told' = Append(told, m)
    PROVE  \E n \in Nat :
             /\ n = Len(told) /\ DOMAIN told = 1..n /\ DOMAIN told' = 1..(n + 1)
             /\ told'[n + 1] = m /\ \A i \in 1..n : told'[i] = told[i] /\ told[i] \in RemoteMessages
             /\ IsTold'
<1>1. PICK n \in Nat : n = Len(told)
  BY DEF IsTold
<1>2. DOMAIN told = 1..n /\ \A i \in 1..n : told[i] \in RemoteMessages
  BY <1>1 DEF IsTold
<1>3. told' \in Seq(RemoteMessages) /\ Len(told') = n + 1
  BY <1>1 DEF IsTold
<1>4. DOMAIN told' = 1..(n + 1) /\ told'[n + 1] = m /\ \A i \in 1..n : told'[i] = told[i]
  BY <1>1, <1>3 DEF IsTold
<1>. QED
  BY <1>1, <1>2, <1>3, <1>4 DEF IsTold

\* The places of what is asked for.
LEMMA AskedOneMore ==
    ASSUME IsTold, NEW m \in RemoteMessages, told' = Append(told, m), fold'.query = fold.query,
           NEW n \in Nat, n = Len(told)
    PROVE  /\ Remote!Asked' = Remote!Asked \cup (IF Remote!Accepts(m, fold.query) THEN {n + 1} ELSE {})
           /\ Remote!Asked \subseteq 1..n
<1>1. /\ DOMAIN told = 1..n /\ DOMAIN told' = 1..(n + 1)
      /\ told'[n + 1] = m /\ \A i \in 1..n : told'[i] = told[i]
  BY ToldOneMore
<1>2. Remote!Asked = {i \in 1..n : Remote!Accepts(told[i], fold.query)}
  BY <1>1 DEF Remote!Asked
<1>3. Remote!Asked' = {i \in 1..(n + 1) : Remote!Accepts(told'[i], fold.query)}
  BY <1>1 DEF Remote!Asked
<1>4. 1..(n + 1) = (1..n) \cup {n + 1} /\ n + 1 \notin 1..n
  OBVIOUS
<1>5. PICK q : q = fold.query
  OBVIOUS
<1>6. \A i \in 1..n : Remote!Accepts(told'[i], q) <=> Remote!Accepts(told[i], q)
  BY <1>1
<1>7. Remote!Accepts(told'[n + 1], q) <=> Remote!Accepts(m, q)
  BY <1>1
<1>. QED
  BY <1>2, <1>3, <1>4, <1>5, <1>6, <1>7

\* What is asked for can be counted.
LEMMA AskedIsFinite ==
    ASSUME IsTold
    PROVE  IsFiniteSet(Remote!Asked) /\ \A p : IsFiniteSet(Remote!AskedKeys(p))
<1>1. PICK n \in Nat : n = Len(told)
  BY DEF IsTold
<1>2. Remote!Asked \subseteq 1..n
  BY <1>1 DEF IsTold, Remote!Asked
<1>3. IsFiniteSet(1..n)
  BY <1>1, FS_Interval
<1>4. IsFiniteSet(Remote!Asked)
  BY <1>2, <1>3, FS_Subset
<1>5. ASSUME NEW p PROVE IsFiniteSet(Remote!AskedKeys(p))
  <2>1. PICK f : f = [i \in Remote!Asked |-> Remote!KeyOf(p, told[i])]
    OBVIOUS
  <2>2. f \in Surjection(Remote!Asked, Remote!AskedKeys(p))
    BY <2>1 DEF Surjection, Remote!AskedKeys
  <2>. QED
    BY <1>4, <2>2, FS_Surjection
<1>. QED
  BY <1>4, <1>5

\* The sums and the keys of what is asked for.
LEMMA SumsOneMore ==
    ASSUME IsTold, NEW m \in RemoteMessages, told' = Append(told, m), fold'.query = fold.query
    PROVE  LET asked == Remote!Accepts(m, fold.query)
           IN  /\ Remote!AskedLabels \in Nat
               /\ Remote!AskedLabels' = Remote!AskedLabels + (IF asked THEN m.labels ELSE 0)
               /\ \A p : Remote!AskedKeys(p)' =
                           Remote!AskedKeys(p) \cup (IF asked THEN {Remote!KeyOf(p, m)} ELSE {})
               /\ \A p, key : \A b \in Remote!Bucket :
                    /\ Remote!AskedCount(p, key, b) \in Nat
                    /\ Remote!AskedCount(p, key, b)' = Remote!AskedCount(p, key, b)
                         + (IF asked /\ Remote!KeyOf(p, m) = key THEN m.counts[b] ELSE 0)
<1>. DEFINE asked == Remote!Accepts(m, fold.query)
<1>1. PICK n \in Nat :
         /\ n = Len(told) /\ DOMAIN told = 1..n /\ DOMAIN told' = 1..(n + 1)
         /\ told'[n + 1] = m /\ \A i \in 1..n : told'[i] = told[i] /\ told[i] \in RemoteMessages
  BY ToldOneMore
<1>2. PICK k \in Nat : k = n + 1
  OBVIOUS
<1>3. /\ DOMAIN told = 1..n /\ DOMAIN told' = 1..k /\ told'[k] = m
      /\ \A i \in 1..n : told'[i] = told[i] /\ told[i] \in RemoteMessages
  BY <1>1, <1>2
<1>4. /\ Remote!Asked' = Remote!Asked \cup (IF asked THEN {k} ELSE {})
      /\ Remote!Asked \subseteq 1..n /\ k \notin 1..n /\ \A i \in 1..n : i \in 1..k /\ i # k
  BY <1>1, <1>2, AskedOneMore
<1>5. (\A i \in 1..n : i \in Remote!Asked' <=> i \in Remote!Asked) /\ (k \in Remote!Asked' <=> asked)
  BY <1>4
<1>. HIDE DEF asked
<1>6. \A x \in RemoteMessages : x.labels \in Nat /\ \A b \in Remote!Bucket : x.counts[b] \in Nat
  BY ReportAssumption DEF Remote!MessagesHaveSizes
<1>7. Remote!AskedLabels \in Nat
        /\ Remote!AskedLabels' = Remote!AskedLabels + (IF asked THEN m.labels ELSE 0)
  <2>1. PICK old : old = [i \in 1..n |-> IF i \in Remote!Asked THEN told[i].labels ELSE 0]
    OBVIOUS
  <2>2. PICK new : new = [i \in 1..k |-> IF i \in Remote!Asked' THEN told'[i].labels ELSE 0]
    OBVIOUS
  <2>3. n = Len(old) /\ k = Len(new)
    BY <2>1, <2>2
  <2>4. \A i \in 1..n : new[i] = old[i] /\ old[i] \in Nat
    BY <1>3, <1>4, <1>5, <1>6, <2>1, <2>2
  <2>5. new[k] = (IF asked THEN m.labels ELSE 0) /\ new[k] \in Nat
    <3>1. k \in 1..k
      BY <1>2
    <3>. QED
      BY <1>3, <1>5, <1>6, <2>2, <3>1
  <2>6. Remote!Total(old) \in Nat /\ Remote!Total(new) = Remote!Total(old) + new[k]
    BY <1>2, <2>3, <2>4, <2>5, TotalOneMore
  <2>7. Remote!AskedLabels = Remote!Total(old) /\ Remote!AskedLabels' = Remote!Total(new)
    BY <1>3, <2>1, <2>2 DEF Remote!AskedLabels
  <2>. QED
    BY <2>5, <2>6, <2>7
<1>8. ASSUME NEW p
      PROVE  Remote!AskedKeys(p)' =
               Remote!AskedKeys(p) \cup (IF asked THEN {Remote!KeyOf(p, m)} ELSE {})
  <2>1. Remote!AskedKeys(p)' = {Remote!KeyOf(p, told'[i]) : i \in Remote!Asked'}
    BY DEF Remote!AskedKeys
  <2>2. \A i \in Remote!Asked : Remote!KeyOf(p, told'[i]) = Remote!KeyOf(p, told[i])
    BY <1>3, <1>4
  <2>3. Remote!KeyOf(p, told'[k]) = Remote!KeyOf(p, m)
    BY <1>3
  <2>. QED
    BY <1>4, <2>1, <2>2, <2>3 DEF Remote!AskedKeys
<1>9. ASSUME NEW p, NEW key, NEW b \in Remote!Bucket
      PROVE  /\ Remote!AskedCount(p, key, b) \in Nat
             /\ Remote!AskedCount(p, key, b)' = Remote!AskedCount(p, key, b)
                  + (IF asked /\ Remote!KeyOf(p, m) = key THEN m.counts[b] ELSE 0)
  <2>1. PICK old : old = [i \in 1..n |->
            IF i \in Remote!Asked /\ Remote!KeyOf(p, told[i]) = key THEN told[i].counts[b] ELSE 0]
    OBVIOUS
  <2>2. PICK new : new = [i \in 1..k |->
            IF i \in Remote!Asked' /\ Remote!KeyOf(p, told'[i]) = key THEN told'[i].counts[b] ELSE 0]
    OBVIOUS
  <2>3. n = Len(old) /\ k = Len(new)
    BY <2>1, <2>2
  <2>4. \A i \in 1..n : new[i] = old[i] /\ old[i] \in Nat
    BY <1>3, <1>4, <1>5, <1>6, <2>1, <2>2
  <2>5. new[k] = (IF asked /\ Remote!KeyOf(p, m) = key THEN m.counts[b] ELSE 0) /\ new[k] \in Nat
    <3>1. k \in 1..k
      BY <1>2
    <3>. QED
      BY <1>3, <1>5, <1>6, <2>2, <3>1
  <2>6. Remote!Total(old) \in Nat /\ Remote!Total(new) = Remote!Total(old) + new[k]
    BY <1>2, <2>3, <2>4, <2>5, TotalOneMore
  <2>7. Remote!AskedCount(p, key, b) = Remote!Total(old)
          /\ Remote!AskedCount(p, key, b)' = Remote!Total(new)
    BY <1>3, <2>1, <2>2 DEF Remote!AskedCount
  <2>. QED
    BY <2>5, <2>6, <2>7
<1>. QED
  BY <1>7, <1>8, <1>9 DEF asked

\* RemoteReport counts as this module does.
LEMMA SameCardinality == \A S : Remote!Cardinality(S) = Cardinality(S)
  BY DEF Remote!Cardinality, Cardinality

\* What is asked for only becomes more.
LEMMA AskedGrows ==
    ASSUME IsTold, NEW m \in RemoteMessages, told' = Append(told, m), fold'.query = fold.query
    PROVE  /\ Cardinality(Remote!Asked) \in Nat
           /\ Cardinality(Remote!Asked') =
                Cardinality(Remote!Asked) + (IF Remote!Accepts(m, fold.query) THEN 1 ELSE 0)
           /\ \A p : /\ Cardinality(Remote!AskedKeys(p)) \in Nat
                     /\ Cardinality(Remote!AskedKeys(p)') \in Nat
                     /\ Cardinality(Remote!AskedKeys(p)) <= Cardinality(Remote!AskedKeys(p)')
<1>1. PICK n \in Nat : n = Len(told)
  BY DEF IsTold
<1>2. /\ Remote!Asked' = Remote!Asked \cup (IF Remote!Accepts(m, fold.query) THEN {n + 1} ELSE {})
      /\ n + 1 \notin Remote!Asked
  BY <1>1, AskedOneMore
<1>3. /\ IsFiniteSet(Remote!Asked) /\ Cardinality(Remote!Asked) \in Nat
      /\ Cardinality(Remote!Asked \cup {n + 1}) = Cardinality(Remote!Asked) + 1
  BY <1>2, AskedIsFinite, FS_AddElement, FS_CardinalityType
<1>4. ASSUME NEW p
      PROVE  /\ Cardinality(Remote!AskedKeys(p)) \in Nat
             /\ Cardinality(Remote!AskedKeys(p)') \in Nat
             /\ Cardinality(Remote!AskedKeys(p)) <= Cardinality(Remote!AskedKeys(p)')
  <2>1. PICK key : key = Remote!KeyOf(p, m)
    OBVIOUS
  <2>2. PICK old : old = Remote!AskedKeys(p)
    OBVIOUS
  <2>3. IsFiniteSet(old)
    BY <2>2, AskedIsFinite
  <2>4. Remote!AskedKeys(p)' = old \/ Remote!AskedKeys(p)' = old \cup {key}
    BY <2>1, <2>2, SumsOneMore
  <2>5. /\ Cardinality(old) \in Nat
        /\ Cardinality(old \cup {key}) \in Nat
        /\ Cardinality(old) <= Cardinality(old \cup {key})
    <3>1. Cardinality(old) \in Nat
      BY <2>3, FS_CardinalityType
    <3>2. Cardinality(old \cup {key}) = Cardinality(old)
            \/ Cardinality(old \cup {key}) = Cardinality(old) + 1
      BY <2>3, FS_AddElement
    <3>. QED
      BY <3>1, <3>2
  <2>6. PICK new : new = Remote!AskedKeys(p)'
    OBVIOUS
  <2>7. Cardinality(new) \in Nat /\ Cardinality(old) <= Cardinality(new)
    <3>1. PICK more : more = old \cup {key}
      OBVIOUS
    <3>2. Cardinality(old) \in Nat /\ Cardinality(more) \in Nat /\ Cardinality(old) <= Cardinality(more)
      BY <2>5, <3>1
    <3>3. new = old \/ new = more
      BY <2>4, <2>6, <3>1
    <3>4. CASE new = old
      BY <3>2, <3>4
    <3>5. CASE new = more
      BY <3>2, <3>5
    <3>. QED
      BY <3>3, <3>4, <3>5
  <2>8. Cardinality(Remote!AskedKeys(p)) = Cardinality(old)
    BY <2>2
  <2>9. Cardinality(Remote!AskedKeys(p)') = Cardinality(new)
    BY <2>6
  <2>. QED
    BY <2>5, <2>7, <2>8, <2>9
<1>5. CASE Remote!Accepts(m, fold.query)
  BY <1>2, <1>3, <1>4, <1>5
<1>6. CASE ~Remote!Accepts(m, fold.query)
  BY <1>2, <1>3, <1>4, <1>6
<1>. QED
  BY <1>5, <1>6

\* What was asked for is to blame.
Blame ==
    \/ \E i \in Remote!Asked : told[i].fault # "none"
    \/ Cardinality(Remote!Asked) > MAX_MESSAGES
    \/ Remote!AskedLabels > MAX_LABEL_BYTES
    \/ \E p \in Remote!Page : Cardinality(Remote!AskedKeys(p)) > MAX_RECORDS

\* What a report may fail for does not go away when more is told.
LEMMA BlameStays ==
    ASSUME IsTold, NEW m \in RemoteMessages, told' = Append(told, m), fold'.query = fold.query, Blame
    PROVE  Blame'
<1>1. PICK n \in Nat :
         /\ n = Len(told) /\ DOMAIN told = 1..n
         /\ \A i \in 1..n : told'[i] = told[i] /\ told[i] \in RemoteMessages
  BY ToldOneMore
<1>2. Remote!Asked \subseteq Remote!Asked' /\ Remote!Asked \subseteq 1..n
  BY <1>1, AskedOneMore
<1>3. CASE \E i \in Remote!Asked : told[i].fault # "none"
  <2>1. PICK i \in Remote!Asked : told[i].fault # "none"
    BY <1>3
  <2>2. i \in Remote!Asked' /\ told'[i].fault # "none"
    BY <1>1, <1>2, <2>1
  <2>. QED
    BY <2>2 DEF Blame
<1>4. CASE Cardinality(Remote!Asked) > MAX_MESSAGES
  <2>1. Cardinality(Remote!Asked) \in Nat /\ Cardinality(Remote!Asked') >= Cardinality(Remote!Asked)
        /\ Cardinality(Remote!Asked') \in Nat
    BY AskedGrows
  <2>2. Cardinality(Remote!Asked') > MAX_MESSAGES
    BY <1>4, <2>1, ReportAssumption
  <2>. QED
    BY <2>2 DEF Blame
<1>5. CASE Remote!AskedLabels > MAX_LABEL_BYTES
  <2>1. m.labels \in Nat
    BY ReportAssumption DEF Remote!MessagesHaveSizes
  <2>2. Remote!AskedLabels \in Nat
        /\ \/ Remote!AskedLabels' = Remote!AskedLabels + m.labels
           \/ Remote!AskedLabels' = Remote!AskedLabels + 0
    BY SumsOneMore
  <2>3. Remote!AskedLabels' > MAX_LABEL_BYTES
    BY <1>5, <2>1, <2>2, ReportAssumption
  <2>. QED
    BY <2>3 DEF Blame
<1>6. CASE \E p \in Remote!Page : Cardinality(Remote!AskedKeys(p)) > MAX_RECORDS
  <2>1. PICK p \in Remote!Page : Cardinality(Remote!AskedKeys(p)) > MAX_RECORDS
    BY <1>6
  <2>2. /\ Cardinality(Remote!AskedKeys(p)) \in Nat
        /\ Cardinality(Remote!AskedKeys(p)') \in Nat
        /\ Cardinality(Remote!AskedKeys(p)) <= Cardinality(Remote!AskedKeys(p)')
    BY AskedGrows
  <2>3. Cardinality(Remote!AskedKeys(p)') > MAX_RECORDS
    BY <2>1, <2>2, ReportAssumption
  <2>. QED
    BY <2>3 DEF Blame
<1>. QED
  BY <1>3, <1>4, <1>5, <1>6 DEF Blame

-------------------------------------------------------------------------------
(***************************************************************************)
(* The fold of the scan holds what was asked for.                          *)
(***************************************************************************)
\* Of an error what was asked for is to blame.  Without one all of it was
\* counted, and on each page each key has a record.
AskedInv ==
    /\ IsTold
    /\ IF fold.scanned.error = "none"
       THEN /\ fold.scanned.messages = Cardinality(Remote!Asked)
            /\ fold.scanned.pages.labels = Remote!AskedLabels
            /\ \A p \in Remote!Page :
                 DOMAIN fold.scanned.pages.records[p] = Remote!AskedKeys(p)
       ELSE Blame

\* As long as no sum had to be cut, the records have what their messages have.
ExactInv ==
    fold.scanned.error = "none" /\ ~fold.scanned.pages.saturated =>
      \A p \in Remote!Page, b \in Remote!Bucket : \A key :
        Remote!At(fold.scanned.pages.records[p], key)[b] = Remote!AskedCount(p, key, b)

\* The scan hands on what is asked for and nothing else.
LEMMA ScannedIsAsked ==
    ASSUME NEW m \in RemoteMessages
    PROVE  Remote!IsScanned(m) <=> Remote!Accepts(m, fold.query)
<1>1. Remote!Accepts(m, fold.query) => Remote!Exact(fold.query.clients, m)
  BY DEF Remote!Accepts
<1>. QED
  BY <1>1, AskedIsScanned DEF Remote!IsScanned

\* A message reaches the scanned fold if the query accepts it, and no other way.
LEMMA TellStep ==
    ASSUME BundleInv, NEW m \in RemoteMessages, Remote!Tell(m)
    PROVE  /\ told' = Append(told, m) /\ fold'.query = fold.query
           /\ fold'.scanned = IF Remote!Accepts(m, fold.query)
                              THEN Remote!Push(fold.scanned, m, fold.query) ELSE fold.scanned
<1>1. fold' = [fold EXCEPT !.given = Remote!Push(@, m, fold.query),
                           !.scanned = IF Remote!IsScanned(m) THEN Remote!Push(@, m, fold.query) ELSE @]
      /\ told' = Append(told, m)
  BY DEF Remote!Tell
<1>2. /\ fold'.query = fold.query
      /\ fold'.scanned = IF Remote!IsScanned(m)
                         THEN Remote!Push(fold.scanned, m, fold.query) ELSE fold.scanned
  BY <1>1 DEF BundleInv
<1>. QED
  BY <1>1, <1>2, ScannedIsAsked

\* A record more, or more of it.
LEMMA CountedKeys ==
    ASSUME NEW records, NEW key, NEW counts
    PROVE  DOMAIN Remote!WithCounts(records, key, counts) = DOMAIN records \cup {key}
BY DEF Remote!WithCounts

\* What a message that is asked for does to the fold of the scan.
LEMMA PushAsked ==
    ASSUME AskedInv, NEW m \in RemoteMessages, told' = Append(told, m), fold'.query = fold.query,
           Remote!Accepts(m, fold.query), IsFold(fold.scanned), fold.scanned.error = "none",
           fold'.scanned = Remote!Push(fold.scanned, m, fold.query)
    PROVE  AskedInv'
<1>. DEFINE old == fold.scanned
            new == fold'.scanned
            pages == Remote!Added(old.pages, m)
<1>1. PICK n \in Nat :
         /\ n = Len(told) /\ DOMAIN told = 1..n
         /\ told'[n + 1] = m /\ IsTold'
  BY ToldOneMore DEF AskedInv
<1>2. n + 1 \in Remote!Asked'
  BY <1>1, AskedOneMore DEF AskedInv
<1>3. /\ Cardinality(Remote!Asked') = old.messages + 1
      /\ Remote!AskedLabels' = pages.labels
      /\ \A p \in Remote!Page : DOMAIN pages.records[p] = Remote!AskedKeys(p)'
  <2>1. IsTold /\ old.messages = Cardinality(Remote!Asked) /\ old.pages.labels = Remote!AskedLabels
        /\ \A p \in Remote!Page : DOMAIN old.pages.records[p] = Remote!AskedKeys(p)
    BY DEF AskedInv
  <2>2. Cardinality(Remote!Asked') = old.messages + 1
    BY <2>1, AskedGrows
  <2>3. Remote!AskedLabels' = Remote!AskedLabels + m.labels
    BY <2>1, SumsOneMore
  <2>4. \A p : Remote!AskedKeys(p)' = Remote!AskedKeys(p) \cup {Remote!KeyOf(p, m)}
    BY <2>1, SumsOneMore
  <2>5. pages.labels = old.pages.labels + m.labels
    BY DEF Remote!Added
  <2>6. \A p \in Remote!Page :
          pages.records[p] = Remote!WithCounts(old.pages.records[p], Remote!KeyOf(p, m), m.counts)
    BY DEF Remote!Added
  <2>7. \A p \in Remote!Page :
          DOMAIN pages.records[p] = DOMAIN old.pages.records[p] \cup {Remote!KeyOf(p, m)}
    <3>. HIDE DEF pages
    <3>1. SUFFICES ASSUME NEW p \in Remote!Page
                   PROVE  DOMAIN pages.records[p] = DOMAIN old.pages.records[p] \cup {Remote!KeyOf(p, m)}
      OBVIOUS
    <3>2. PICK records, key, counts :
            records = old.pages.records[p] /\ key = Remote!KeyOf(p, m) /\ counts = m.counts
      OBVIOUS
    <3>3. PICK more : more = pages.records[p]
      OBVIOUS
    <3>4. more = Remote!WithCounts(records, key, counts)
      BY <2>6, <3>2, <3>3
    <3>5. DOMAIN more = DOMAIN records \cup {key}
      BY <3>4, CountedKeys
    <3>. QED
      BY <3>2, <3>3, <3>5
  <2>. QED
    BY <2>1, <2>2, <2>3, <2>4, <2>5, <2>7
<1>4. Remote!Exact(fold.query.clients, m) /\ Remote!InRange(m, fold.query)
  BY DEF Remote!Accepts
<1>5. old.messages \in Nat
  BY DEF IsFold
<1>6. CASE Remote!FaultOf(old, m) # "none"
  <2>1. new = [old EXCEPT !.error = Remote!FaultOf(old, m)]
    BY <1>6 DEF Remote!Push
  <2>2. new.error # "none"
    BY <1>6, <2>1 DEF IsFold
  <2>3. old.messages + 1 > MAX_MESSAGES \/ m.fault # "none"
    BY <1>6 DEF Remote!FaultOf
  <2>4. Blame'
    BY <1>1, <1>2, <1>3, <2>3 DEF Blame
  <2>. QED
    BY <1>1, <2>2, <2>4 DEF AskedInv
<1>7. CASE Remote!FaultOf(old, m) = "none"
  <2>1. new = [messages |-> old.messages + 1, pages |-> pages,
               error |-> Remote!FaultOfPages(pages, m)]
    BY <1>4, <1>7 DEF Remote!Push
  <2>. HIDE DEF pages
  <2>2. new.messages = old.messages + 1 /\ new.pages = pages
        /\ new.error = Remote!FaultOfPages(pages, m)
    BY <2>1
  <2>3. CASE new.error = "none"
    BY <1>1, <1>3, <2>2, <2>3 DEF AskedInv
  <2>4. CASE new.error # "none"
    <3>1. \/ m.fault # "none"
          \/ pages.labels > MAX_LABEL_BYTES
          \/ \E p \in Remote!Page : Cardinality(DOMAIN pages.records[p]) > MAX_RECORDS
      BY <2>2, <2>4, SameCardinality DEF Remote!FaultOfPages
    <3>2. Blame'
      BY <1>1, <1>2, <1>3, <3>1 DEF Blame
    <3>. QED
      BY <1>1, <2>4, <3>2 DEF AskedInv
  <2>. QED
    BY <2>3, <2>4
<1>. QED
  BY <1>6, <1>7

\* After a message the scanned fold has still taken only what is asked for.
LEMMA TellAsked ==
    ASSUME AskedInv, BundleInv, NEW m \in RemoteMessages, Remote!Tell(m)
    PROVE  AskedInv'
<1>1. /\ told' = Append(told, m) /\ fold'.query = fold.query
      /\ fold'.scanned = IF Remote!Accepts(m, fold.query)
                         THEN Remote!Push(fold.scanned, m, fold.query) ELSE fold.scanned
  BY TellStep
<1>2. IsTold /\ IsTold' /\ IsFold(fold.scanned)
  BY <1>1, ToldOneMore DEF AskedInv, BundleInv
<1>3. CASE fold.scanned.error # "none"
  <2>1. fold'.scanned = fold.scanned
    BY <1>1, <1>3 DEF Remote!Push
  <2>2. Blame'
    BY <1>1, <1>2, <1>3, BlameStays DEF AskedInv
  <2>. QED
    BY <1>2, <1>3, <2>1, <2>2 DEF AskedInv
<1>4. CASE fold.scanned.error = "none" /\ Remote!Accepts(m, fold.query)
  BY <1>1, <1>2, <1>4, PushAsked
<1>5. CASE fold.scanned.error = "none" /\ ~Remote!Accepts(m, fold.query)
  <2>1. fold'.scanned = fold.scanned
    BY <1>1, <1>5
  <2>2. Cardinality(Remote!Asked') = Cardinality(Remote!Asked)
    <3>1. Cardinality(Remote!Asked) \in Nat
          /\ Cardinality(Remote!Asked') = Cardinality(Remote!Asked) + 0
      BY <1>1, <1>2, <1>5, AskedGrows
    <3>. QED
      BY <3>1
  <2>3. Remote!AskedLabels' = Remote!AskedLabels
    <3>1. Remote!AskedLabels \in Nat /\ Remote!AskedLabels' = Remote!AskedLabels + 0
      BY <1>1, <1>2, <1>5, SumsOneMore
    <3>. QED
      BY <3>1
  <2>4. \A p : Remote!AskedKeys(p)' = Remote!AskedKeys(p)
    <3>1. \A p : Remote!AskedKeys(p)' = Remote!AskedKeys(p) \cup {}
      BY <1>1, <1>2, <1>5, SumsOneMore
    <3>. QED
      BY <3>1
  <2>. QED
    BY <1>2, <1>5, <2>1, <2>2, <2>3, <2>4 DEF AskedInv
<1>. QED
  BY <1>3, <1>4, <1>5

\* The figures of a key after a message, its own or another's.
LEMMA CountedRecords ==
    ASSUME NEW records, NEW own, NEW counts, NEW key
    PROVE  Remote!At(Remote!WithCounts(records, own, counts), key) =
             IF key = own THEN [b \in Remote!Bucket |-> Remote!Sum(Remote!At(records, own)[b], counts[b]).value]
             ELSE Remote!At(records, key)
<1>. DEFINE figures == [b \in Remote!Bucket |-> Remote!Sum(Remote!At(records, own)[b], counts[b]).value]
<1>1. PICK new : new = Remote!WithCounts(records, own, counts)
  OBVIOUS
<1>2. new = [k \in DOMAIN records \cup {own} |-> IF k = own THEN figures ELSE records[k]]
  BY <1>1 DEF Remote!WithCounts
<1>. HIDE DEF figures
<1>3. CASE key = own
  <2>1. key \in DOMAIN new /\ new[key] = figures
    BY <1>2, <1>3
  <2>. QED
    BY <1>1, <1>3, <2>1 DEF Remote!At, figures
<1>4. CASE key # own /\ key \in DOMAIN records
  <2>1. key \in DOMAIN new /\ new[key] = records[key]
    BY <1>2, <1>4
  <2>. QED
    BY <1>1, <1>4, <2>1 DEF Remote!At
<1>5. CASE key # own /\ key \notin DOMAIN records
  <2>1. key \notin DOMAIN new
    BY <1>2, <1>5
  <2>. QED
    BY <1>1, <1>5, <2>1 DEF Remote!At
<1>. QED
  BY <1>3, <1>4, <1>5

\* A sum that is not cut is the sum.
LEMMA UncutSum ==
    ASSUME NEW a \in Nat, NEW b \in Nat, ~Remote!Sum(a, b).saturated
    PROVE  Remote!Sum(a, b).value = a + b
BY DEF Remote!Sum

\* A message the fold takes without an error is on every page under its key.
LEMMA PushExact ==
    ASSUME ExactInv, IsTold, NEW m \in RemoteMessages, told' = Append(told, m), fold'.query = fold.query,
           Remote!Accepts(m, fold.query), IsFold(fold.scanned), fold.scanned.error = "none",
           fold'.scanned = Remote!Push(fold.scanned, m, fold.query)
    PROVE  ExactInv'
<1>. SUFFICES ASSUME fold'.scanned.error = "none", ~fold'.scanned.pages.saturated,
                     NEW p \in Remote!Page, NEW b \in Remote!Bucket, NEW key
              PROVE  Remote!At(fold'.scanned.pages.records[p], key)[b] = Remote!AskedCount(p, key, b)'
  BY DEF ExactInv
<1>1. PICK records, own, counts :
        records = fold.scanned.pages.records[p] /\ own = Remote!KeyOf(p, m) /\ counts = m.counts
  OBVIOUS
<1>2. fold'.scanned.pages = Remote!Added(fold.scanned.pages, m)
  <2>1. Remote!Exact(fold.query.clients, m) /\ Remote!InRange(m, fold.query)
    BY DEF Remote!Accepts
  <2>2. Remote!FaultOf(fold.scanned, m) = "none"
    BY DEF Remote!Push, IsFold
  <2>3. Remote!Push(fold.scanned, m, fold.query).pages = Remote!Added(fold.scanned.pages, m)
    BY <2>1, <2>2 DEF Remote!Push
  <2>. QED
    BY <2>3
<1>3. PICK more : more = fold'.scanned.pages.records[p]
  OBVIOUS
<1>4. more = Remote!WithCounts(records, own, counts)
  BY <1>1, <1>2, <1>3 DEF Remote!Added
<1>5. ~fold.scanned.pages.saturated /\ ~Remote!TooMany(records, own, counts)
  BY <1>1, <1>2 DEF Remote!Added
<1>6. Remote!AskedCount(p, own, b) \in Nat /\ counts[b] \in Nat
  BY <1>1, SumsOneMore, ReportAssumption DEF Remote!MessagesHaveSizes
<1>7. Remote!At(records, own)[b] = Remote!AskedCount(p, own, b)
      /\ Remote!At(records, key)[b] = Remote!AskedCount(p, key, b)
  BY <1>1, <1>5 DEF ExactInv
<1>8. CASE key = own
  <2>1. Remote!At(more, key)[b] = Remote!Sum(Remote!At(records, own)[b], counts[b]).value
    <3>1. Remote!At(more, key) =
            [c \in Remote!Bucket |-> Remote!Sum(Remote!At(records, own)[c], counts[c]).value]
      BY <1>4, <1>8, CountedRecords
    <3>. QED
      BY <3>1
  <2>2. ~Remote!Sum(Remote!At(records, own)[b], counts[b]).saturated
    BY <1>5 DEF Remote!TooMany
  <2>3. Remote!At(more, key)[b] = Remote!AskedCount(p, own, b) + counts[b]
    <3>1. PICK x \in Nat : x = Remote!At(records, own)[b]
      BY <1>6, <1>7
    <3>2. Remote!Sum(x, counts[b]).value = x + counts[b]
      BY <1>6, <2>2, <3>1, UncutSum
    <3>. QED
      BY <1>7, <2>1, <3>1, <3>2
  <2>4. Remote!AskedCount(p, key, b)' = Remote!AskedCount(p, key, b) + counts[b]
    BY <1>1, <1>8, SumsOneMore
  <2>. QED
    BY <1>3, <1>8, <2>3, <2>4
<1>9. CASE key # own
  <2>1. Remote!At(more, key) = Remote!At(records, key)
    BY <1>4, <1>9, CountedRecords
  <2>2. Remote!AskedCount(p, key, b) \in Nat
        /\ Remote!AskedCount(p, key, b)' = Remote!AskedCount(p, key, b) + 0
    BY <1>1, <1>9, SumsOneMore
  <2>. QED
    BY <1>3, <1>7, <2>1, <2>2
<1>. QED
  BY <1>8, <1>9

\* After a message the pages that are not flagged are still exact.
LEMMA TellExact ==
    ASSUME ExactInv, AskedInv, BundleInv, NEW m \in RemoteMessages, Remote!Tell(m)
    PROVE  ExactInv'
<1>1. /\ told' = Append(told, m) /\ fold'.query = fold.query
      /\ fold'.scanned = IF Remote!Accepts(m, fold.query)
                         THEN Remote!Push(fold.scanned, m, fold.query) ELSE fold.scanned
  BY TellStep
<1>2. IsTold /\ IsFold(fold.scanned)
  BY DEF AskedInv, BundleInv
<1>3. CASE fold.scanned.error # "none"
  <2>1. fold'.scanned = fold.scanned
    BY <1>1, <1>3 DEF Remote!Push
  <2>. QED
    BY <1>3, <2>1 DEF ExactInv
<1>4. CASE fold.scanned.error = "none" /\ Remote!Accepts(m, fold.query)
  BY <1>1, <1>2, <1>4, PushExact
<1>5. CASE ~Remote!Accepts(m, fold.query)
  <2>1. fold'.scanned = fold.scanned
    BY <1>1, <1>5
  <2>2. \A p, key : \A b \in Remote!Bucket : Remote!AskedCount(p, key, b)' = Remote!AskedCount(p, key, b)
    <3>1. \A p, key : \A b \in Remote!Bucket :
            Remote!AskedCount(p, key, b) \in Nat
              /\ Remote!AskedCount(p, key, b)' = Remote!AskedCount(p, key, b) + 0
      BY <1>1, <1>2, <1>5, SumsOneMore
    <3>. QED
      BY <3>1
  <2>. QED
    BY <2>1, <2>2 DEF ExactInv
<1>. QED
  BY <1>3, <1>4, <1>5

-------------------------------------------------------------------------------
\* In a report: only that of a remote reader has folds.
RemoteInv == lane = "remote" => lane \in Reports /\ BundleInv /\ AskedInv /\ ExactInv

\* Initially both folds are empty.
LEMMA InitBundle == ReportInit => RemoteInv
<1>1. Remote!Init => BundleInv
  BY DEF Remote!Init, BundleInv, IsFold, Behind, Remote!NewFold
<1>2. ScanInit => lane # "remote"
  BY LaneAssumption DEF ScanInit, Init, InitLane, Cached
<1>3. ASSUME Remote!Init
      PROVE  AskedInv /\ ExactInv
  <2>1. told = <<>> /\ fold.scanned = Remote!NewFold
    BY <1>3 DEF Remote!Init
  <2>2. IsTold /\ DOMAIN told = {} /\ Remote!Asked = {}
    BY <2>1 DEF IsTold, Remote!Asked
  <2>3. \A p : Remote!AskedKeys(p) = {}
    BY <2>2 DEF Remote!AskedKeys
  <2>4. Remote!Total(<<>>) = 0
    <3>0. PICK zero \in Nat : zero = 0
      OBVIOUS
    <3>1. PICK none : none = <<>> /\ zero = Len(none) /\ zero = 0
      BY <3>0
    <3>2. PICK f : Sums(f, none, zero) /\ Remote!Total(none) = f[zero]
      BY <3>1, TotalIsSum
    <3>3. f[0] = 0
      BY <3>2, SumSteps
    <3>. QED
      BY <3>1, <3>2, <3>3
  <2>5. Remote!AskedLabels = 0 /\ \A p, key, b : Remote!AskedCount(p, key, b) = 0
    <3>1. \A f : DOMAIN f = {} /\ f = [x \in DOMAIN f |-> f[x]] => f = <<>>
      OBVIOUS
    <3>2. Remote!AskedLabels = Remote!Total(<<>>)
      BY <2>2, <3>1 DEF Remote!AskedLabels
    <3>3. \A p, key, b : Remote!AskedCount(p, key, b) = Remote!Total(<<>>)
      BY <2>2, <3>1 DEF Remote!AskedCount
    <3>. QED
      BY <2>4, <3>2, <3>3
  <2>6. Cardinality(Remote!Asked) = 0
    BY <2>2, FS_EmptySet
  <2>7. \A p \in Remote!Page : fold.scanned.pages.records[p] = <<>>
    BY <2>1 DEF Remote!NewFold, Remote!EmptyPages
  <2>8. AskedInv
    <3>1. /\ fold.scanned.messages = 0 /\ fold.scanned.error = "none"
          /\ fold.scanned.pages.labels = 0
      BY <2>1 DEF Remote!NewFold, Remote!EmptyPages
    <3>2. \A p \in Remote!Page : DOMAIN fold.scanned.pages.records[p] = Remote!AskedKeys(p)
      <4>1. DOMAIN <<>> = {}
        OBVIOUS
      <4>. QED
        BY <2>3, <2>7, <4>1
    <3>. QED
      BY <2>2, <2>5, <2>6, <3>1, <3>2 DEF AskedInv
  <2>9. ExactInv
    BY <2>5, <2>7 DEF ExactInv, Remote!At, Remote!NoCounts
  <2>. QED
    BY <2>8, <2>9
<1>. QED
  BY <1>1, <1>2, <1>3 DEF ReportInit, InitLane, RemoteInv

\* A message of the scan keeps one fold behind the other.
LEMMA TellBundle ==
    ASSUME BundleInv, NEW m \in RemoteMessages, Remote!Tell(m)
    PROVE  BundleInv'
<1>. DEFINE query == fold.query
            given == Remote!Push(fold.given, m, query)
            scanned == IF Remote!IsScanned(m) THEN Remote!Push(fold.scanned, m, query) ELSE fold.scanned
<1>1. fold' = [query |-> query, given |-> given, scanned |-> scanned]
  BY DEF Remote!Tell, BundleInv
<1>2. IsFold(given) /\ IsFold(scanned)
  BY PushKeepsFold DEF BundleInv
<1>3. ASSUME given.error = "none"
      PROVE  Behind(scanned, given)
  <2>1. Behind(fold.scanned, fold.given)
    BY <1>3, PushKeepsFold DEF BundleInv
  <2>2. CASE Remote!IsScanned(m)
    BY <1>3, <2>1, <2>2, PushBoth DEF BundleInv
  <2>3. CASE ~Remote!IsScanned(m)
    BY <1>3, <2>1, <2>3, PushGiven DEF BundleInv, IsFold
  <2>. QED
    BY <2>2, <2>3
<1>. QED
  BY <1>1, <1>2, <1>3 DEF BundleInv

\* The lanes and the other figures of a report leave the folds alone.
LEMMA NextBundle ==
    ASSUME RemoteInv, [ReportNext]_<<vars, openCodeVars, reportVars>>
    PROVE  RemoteInv'
<1>1. CASE UNCHANGED <<vars, openCodeVars, reportVars>>
  <2>1. UNCHANGED <<lane, told, fold>>
    BY <1>1 DEF vars, reportVars
  <2>2. BundleInv => BundleInv'
    BY <2>1 DEF BundleInv
  <2>3. UNCHANGED <<Remote!Asked, Remote!AskedLabels>>
        /\ (\A p : Remote!AskedKeys(p)' = Remote!AskedKeys(p))
        /\ \A p, key, b : Remote!AskedCount(p, key, b)' = Remote!AskedCount(p, key, b)
    BY <2>1 DEF Remote!Asked, Remote!AskedLabels, Remote!AskedKeys, Remote!AskedCount
  <2>4. AskedInv => AskedInv'
    BY <2>1, <2>3 DEF AskedInv, Blame, IsTold
  <2>5. ExactInv => ExactInv'
    BY <2>1, <2>3 DEF ExactInv
  <2>. QED
    BY <2>1, <2>2, <2>4, <2>5 DEF RemoteInv
<1>2. CASE lane = "remote" /\ ReportNext
  <2>1. lane' = lane /\ Remote!Next
    BY <1>2 DEF ReportNext, RemoteInv, vars
  <2>. QED
    BY <1>2, <2>1, TellBundle, TellAsked, TellExact DEF Remote!Next, RemoteInv
<1>3. CASE lane # "remote" /\ ReportNext
  <2>1. Next => lane' = lane
    BY DEF Next, Write, Scan, Emit, PutOff, EmitKiro, BufferTrae, EmitAntigravity, FinishSource,
           StartFlush, FlushRetained, FlushTrae, Finish, Rest, Sink
  <2>2. lane' = lane
    BY <1>3, <2>1 DEF ReportNext, ScanNext, vars
  <2>. QED
    BY <1>3, <2>2 DEF RemoteInv
<1>. QED
  BY <1>1, <1>2, <1>3

\* "Dropping the rest preserves the emitted bundle": whatever the messages, the
\* query and the limits, a scan of the lanes of the asked clients, filtered and
\* gated, ends with the pages that all messages together would give.
THEOREM BundleIsKept == ReportSpec => []GateKeepsBundle
<1>1. RemoteInv => GateKeepsBundle
  BY DEF RemoteInv, BundleInv, GateKeepsBundle, Remote!GateKeepsBundle, Behind
<1>. QED
  BY <1>1, InitBundle, NextBundle, PTL DEF ReportSpec

\* What a query does not ask for neither fails its report nor uses up its limits,
\* however much of it the same stores hold.
THEOREM OnlyAskedFails == ReportSpec => []OnlyAskedCanFail
<1>1. RemoteInv => OnlyAskedCanFail
  <2>. SUFFICES ASSUME AskedInv PROVE Remote!OnlyAskedCanFail
    BY DEF RemoteInv, OnlyAskedCanFail
  <2>1. fold.scanned.error # "none" => Blame
    BY DEF AskedInv
  <2>. QED
    BY <2>1, SameCardinality DEF Blame, Remote!OnlyAskedCanFail
<1>. QED
  BY <1>1, InitBundle, NextBundle, PTL DEF ReportSpec

\* A report that does not say it is saturated is exact: every figure on every
\* page is the sum over the messages of its key that were asked for.
THEOREM UnflaggedReportsAreExact == ReportSpec => []UnflaggedIsExact
<1>1. RemoteInv => UnflaggedIsExact
  <2>. SUFFICES ASSUME AskedInv, ExactInv, fold.scanned.error = "none",
                       ~Remote!IsSaturated(fold.scanned.pages), NEW p \in Remote!Page
                PROVE  /\ DOMAIN fold.scanned.pages.records[p] = Remote!AskedKeys(p)
                       /\ \A key \in Remote!AskedKeys(p), b \in Remote!Bucket :
                            fold.scanned.pages.records[p][key][b] = Remote!AskedCount(p, key, b)
    BY DEF RemoteInv, UnflaggedIsExact, Remote!UnflaggedIsExact
  <2>1. ~fold.scanned.pages.saturated
    BY DEF Remote!IsSaturated
  <2>2. DOMAIN fold.scanned.pages.records[p] = Remote!AskedKeys(p)
    BY DEF AskedInv
  <2>3. \A key : \A b \in Remote!Bucket :
          Remote!At(fold.scanned.pages.records[p], key)[b] = Remote!AskedCount(p, key, b)
    BY <2>1 DEF ExactInv
  <2>4. \A key \in Remote!AskedKeys(p) :
          Remote!At(fold.scanned.pages.records[p], key) = fold.scanned.pages.records[p][key]
    BY <2>2 DEF Remote!At
  <2>. QED
    BY <2>2, <2>3, <2>4
<1>. QED
  BY <1>1, InitBundle, NextBundle, PTL DEF ReportSpec

-------------------------------------------------------------------------------
(***************************************************************************)
(* The price of a message.                                                 *)
(***************************************************************************)
\* Some tiers have a first and a last one.
LEMMA FirstAndLastTier ==
    ASSUME NEW S, S \subseteq 1..4, S # {}
    PROVE  /\ Price!Max(S) \in S /\ \A i \in S : i <= Price!Max(S)
           /\ Price!Min(S) \in S /\ \A i \in S : Price!Min(S) <= i
<1>1. \A i \in S : i = 1 \/ i = 2 \/ i = 3 \/ i = 4
  OBVIOUS
<1>2. \E x \in S : \A y \in S : x >= y
  <2>1. CASE 4 \in S
    BY <1>1, <2>1
  <2>2. CASE 4 \notin S /\ 3 \in S
    BY <1>1, <2>2
  <2>3. CASE 4 \notin S /\ 3 \notin S /\ 2 \in S
    BY <1>1, <2>3
  <2>4. CASE 4 \notin S /\ 3 \notin S /\ 2 \notin S
    <3>1. 1 \in S /\ \A y \in S : y = 1
      BY <1>1, <2>4
    <3>. QED
      BY ONLY <3>1
  <2>. QED
    BY <2>1, <2>2, <2>3, <2>4
<1>3. \E x \in S : \A y \in S : x <= y
  <2>1. CASE 1 \in S
    BY <1>1, <2>1
  <2>2. CASE 1 \notin S /\ 2 \in S
    BY <1>1, <2>2
  <2>3. CASE 1 \notin S /\ 2 \notin S /\ 3 \in S
    BY <1>1, <2>3
  <2>4. CASE 1 \notin S /\ 2 \notin S /\ 3 \notin S
    <3>1. 4 \in S /\ \A y \in S : y = 4
      BY <1>1, <2>4
    <3>. QED
      BY ONLY <3>1
  <2>. QED
    BY <2>1, <2>2, <2>3, <2>4
<1>4. Price!Max(S) \in S /\ \A y \in S : Price!Max(S) >= y
  BY <1>2 DEF Price!Max
<1>5. Price!Min(S) \in S /\ \A y \in S : Price!Min(S) <= y
  BY <1>3 DEF Price!Min
<1>. QED
  BY <1>1, <1>4, <1>5

\* A number is cut off below zero, and the lesser of two is one of them.
LEMMA CutOff ==
    ASSUME NEW a \in Int, NEW b \in Int
    PROVE  /\ Price!Max({a, 0}) \in Nat
           /\ Price!Min({a, b}) \in {a, b} /\ Price!Min({a, b}) <= b
<1>1. \E x \in {a, 0} : \A y \in {a, 0} : x >= y
  OBVIOUS
<1>2. \E x \in {a, b} : \A y \in {a, b} : x <= y
  OBVIOUS
<1>3. Price!Max({a, 0}) \in {a, 0} /\ \A y \in {a, 0} : Price!Max({a, 0}) >= y
  BY <1>1 DEF Price!Max
<1>4. Price!Min({a, b}) \in {a, b} /\ \A y \in {a, b} : Price!Min({a, b}) <= y
  BY <1>2 DEF Price!Min
<1>. QED
  BY <1>3, <1>4

\* No line of a bill has less than no tokens.
LEMMA TokensCount ==
    ASSUME NEW usage \in Usages, NEW line \in Price!Lines
    PROVE  Price!TokensOf(usage, line) \in Nat
<1>1. /\ usage.input \in Int /\ usage.output \in Int /\ usage.reasoning \in Int
      /\ usage.read \in Int /\ usage.write \in Int /\ usage.write1h \in Int
  BY ReportAssumption DEF Price!TokensAreNumbers
<1>2. PICK i, o, t, r, w, h :
        /\ i = Price!Max({usage.input, 0}) /\ o = Price!Max({usage.output, 0})
        /\ t = Price!Max({usage.reasoning, 0}) /\ r = Price!Max({usage.read, 0})
        /\ w = Price!Max({usage.write, 0}) /\ h = Price!Max({usage.write1h, 0})
  OBVIOUS
<1>3. i \in Nat /\ o \in Nat /\ t \in Nat /\ r \in Nat /\ w \in Nat /\ h \in Nat
  BY <1>1, <1>2, CutOff
<1>4. PICK hours : hours = Price!Min({h, w})
  OBVIOUS
<1>5. hours \in Nat /\ w - hours \in Nat
  <2>1. h \in Int /\ w \in Int
    BY <1>3
  <2>2. Price!Min({h, w}) \in {h, w} /\ Price!Min({h, w}) <= w
    BY ONLY <2>1, CutOff
  <2>. QED
    BY <1>3, <1>4, <2>2
<1>6. Price!Hours(usage) = hours
  BY <1>2, <1>4 DEF Price!Hours
<1>7. Price!Tokens(usage) = [input |-> i, output |-> o + t, read |-> r, write |-> w - hours]
  BY <1>2, <1>6 DEF Price!Tokens
<1>8. CASE line = "hour"
  BY <1>5, <1>6, <1>8 DEF Price!TokensOf
<1>9. CASE line # "hour"
  <2>1. Price!TokensOf(usage, line) = Price!Tokens(usage)[line]
    BY <1>9 DEF Price!TokensOf
  <2>2. CASE line = "input"
    BY <1>3, <1>7, <2>1, <2>2
  <2>3. CASE line = "output"
    <3>1. Price!Tokens(usage)[line] = o + t
      BY <1>7, <2>3
    <3>. QED
      BY <1>3, <2>1, <3>1
  <2>4. CASE line = "read"
    BY <1>3, <1>7, <2>1, <2>4
  <2>5. CASE line = "write"
    <3>1. Price!Tokens(usage)[line] = w - hours
      BY <1>7, <2>5
    <3>. QED
      BY <1>5, <2>1, <3>1
  <2>. QED
    BY <1>9, <2>2, <2>3, <2>4, <2>5 DEF Price!Lines, Price!Ladder
<1>. QED
  BY <1>8, <1>9

\* The tiers of a bucket are numbered, their thresholds rise, and their rates are
\* numbers.
LEMMA TierFacts ==
    ASSUME NEW table \in Tables, NEW bucket \in Price!Ladder
    PROVE  /\ Price!Rated(table, bucket) \subseteq 1..4
           /\ \A i \in 1..4 : Over[i] \in Nat \ {0}
           /\ \A i, j \in 1..4 : i < j => Over[i] < Over[j]
           /\ Price!PriceOf(table[bucket].base) \in Nat
           /\ \A i \in 1..4 : Price!PriceOf(table[bucket].above[i]) \in Nat
           /\ \A i \in Price!Rated(table, bucket) : Price!Valid(table[bucket].above[i])
<1>1. Price!TiersOf(bucket) \subseteq 1..4
  BY DEF Price!TiersOf
<1>2. Price!Rated(table, bucket) \subseteq Price!TiersOf(bucket)
  BY DEF Price!Rated
<1>3. \A i \in 1..4 : Over[i] \in Nat
  BY ReportAssumption
<1>4. /\ 0 < Over[1] /\ Over[1] < Over[2] /\ Over[2] < Over[3] /\ Over[3] < Over[4]
  <2>1. \A i \in 1..3 : 0 < Over[i] /\ Over[i] < Over[i + 1]
    BY ReportAssumption
  <2>. QED
    BY <2>1
<1>5. \A i \in 1..4 : i = 1 \/ i = 2 \/ i = 3 \/ i = 4
  OBVIOUS
<1>6. Over[1] \in Nat /\ Over[2] \in Nat /\ Over[3] \in Nat /\ Over[4] \in Nat
  BY <1>3
<1>7. \A i \in 1..4 : Over[i] \in Nat \ {0}
  BY <1>4, <1>5, <1>6
<1>8. \A i, j \in 1..4 : i < j => Over[i] < Over[j]
  BY <1>4, <1>5, <1>6
<1>9. \A rate \in Int \cup {NoRate} : Price!PriceOf(rate) \in Nat
  BY DEF Price!PriceOf, Price!Valid
<1>10. table[bucket].base \in Int \cup {NoRate} /\ \A i \in 1..4 : table[bucket].above[i] \in Int \cup {NoRate}
  BY ReportAssumption DEF Price!RatesAreNumbers
<1>. QED
  BY <1>1, <1>2, <1>7, <1>8, <1>9, <1>10 DEF Price!Rated

\* From one point to another the sums of a grow by the same number.
Steady(f, a, from, to, rate) ==
    /\ from \in Nat /\ to \in Nat /\ from <= to /\ rate \in Int /\ f[from] \in Int
    /\ \A k \in (from + 1)..to : f[k] = f[k - 1] + a[k] /\ a[k] = rate

\* Numbers that do not change add up to a product.
LEMMA ConstantRun ==
    ASSUME NEW f, NEW a, NEW from, NEW to, NEW rate, Steady(f, a, from, to, rate)
    PROVE  f[to] = f[from] + (to - from) * rate
<1>. USE DEF Steady
<1>. DEFINE S == {k \in from..to : f[k] # f[from] + (k - from) * rate}
<1>1. SUFFICES ASSUME S # {} PROVE FALSE
  OBVIOUS
<1>2. PICK k \in S : \A i \in S : k <= i
  <2>1. S \subseteq Nat
    OBVIOUS
  <2>. HIDE DEF S
  <2>. QED
    BY <1>1, <2>1, LeastNumber
<1>3. k \in from..to /\ f[k] # f[from] + (k - from) * rate
  BY <1>2
<1>4. k # from
  <2>1. (from - from) * rate = 0
    OBVIOUS
  <2>. QED
    BY <1>3, <2>1
<1>5. k - 1 \in from..to /\ k - 1 \notin S /\ k \in (from + 1)..to
  BY <1>2, <1>3, <1>4
<1>6. f[k - 1] = f[from] + ((k - 1) - from) * rate
  BY <1>5
<1>7. f[k] = f[k - 1] + rate
  BY <1>5
<1>8. ((k - 1) - from) * rate + rate = (k - from) * rate
  BY <1>3
<1>9. ((k - 1) - from) * rate \in Int /\ (k - from) * rate \in Int
  BY <1>3
<1>. QED
  BY <1>3, <1>6, <1>7, <1>8, <1>9

\* A token up to `from` is paid; those up to the next threshold have the rate at
\* hand.  f[k] is the price of the first k tokens.
Walked(walk, f, tokens, table, bucket, i) ==
    /\ walk = [done |-> walk.done, from |-> walk.from, rate |-> walk.rate, cost |-> walk.cost]
    /\ walk.from \in 0..tokens /\ walk.rate \in Int /\ walk.cost \in Int
    /\ walk.cost = f[walk.from]
    /\ walk.done => walk.from = tokens
    /\ ~walk.done =>
         /\ \A j \in Price!Rated(table, bucket) : i < j => walk.from <= Over[j]
         /\ \A n \in 1..tokens :
              /\ walk.from < n
              /\ \A j \in Price!Rated(table, bucket) : i < j => n <= Over[j]
              => Price!PriceOf(Price!RateOfToken(n, table, bucket)) = walk.rate

\* f[k] is the price of the first k tokens of a bucket.
PricedBy(f, tokens, table, bucket) ==
    /\ f[0] = 0
    /\ \A k \in 1..tokens : f[k] = f[k - 1] + Price!PriceOf(Price!RateOfToken(k, table, bucket))

\* A token that lies above a threshold with a rate, and above none beyond it, has
\* that rate.
LEMMA RateAbove ==
    ASSUME NEW table \in Tables, NEW bucket \in Price!Ladder, NEW n \in Nat,
           NEW i \in Price!Rated(table, bucket), Over[i] < n,
           \A j \in Price!Rated(table, bucket) : i < j => n <= Over[j]
    PROVE  Price!PriceOf(Price!RateOfToken(n, table, bucket)) = table[bucket].above[i]
<1>. DEFINE above == {j \in Price!Rated(table, bucket) : Over[j] < n}
<1>1. Price!Rated(table, bucket) \subseteq 1..4 /\ \A j \in 1..4 : Over[j] \in Nat \ {0}
  BY TierFacts
<1>2. i \in above /\ above \subseteq 1..4 /\ \A j \in above : ~(i < j)
  BY <1>1
<1>3. Price!Max(above) \in above /\ \A j \in above : j <= Price!Max(above)
  <2>. HIDE DEF above
  <2>1. above # {}
    BY <1>2
  <2>. QED
    BY <1>2, <2>1, FirstAndLastTier
<1>4. Price!Max(above) = i
  <2>. HIDE DEF above
  <2>1. PICK last : last = Price!Max(above)
    OBVIOUS
  <2>2. last \in 1..4 /\ i \in 1..4 /\ ~(i < last) /\ i <= last
    BY <1>2, <1>3, <2>1
  <2>. QED
    BY <2>1, <2>2
<1>5. Price!RateOfToken(n, table, bucket) = table[bucket].above[i]
  BY <1>2, <1>4 DEF Price!RateOfToken
<1>6. Price!Valid(table[bucket].above[i])
  BY TierFacts
<1>. QED
  BY <1>5, <1>6 DEF Price!PriceOf

\* A token below all thresholds with a rate has the base rate.
LEMMA RateBelow ==
    ASSUME NEW table \in Tables, NEW bucket \in Price!Ladder, NEW n \in Nat,
           \A j \in Price!Rated(table, bucket) : n <= Over[j]
    PROVE  Price!RateOfToken(n, table, bucket) = table[bucket].base
<1>1. Price!Rated(table, bucket) \subseteq 1..4 /\ \A j \in 1..4 : Over[j] \in Nat \ {0}
  BY TierFacts
<1>2. {j \in Price!Rated(table, bucket) : Over[j] < n} = {}
  BY <1>1
<1>. QED
  BY <1>2 DEF Price!RateOfToken

\* Before the first tier nothing is paid.
LEMMA StartWalk ==
    ASSUME NEW table \in Tables, NEW bucket \in Price!Ladder, NEW tokens \in Nat,
           NEW f, PricedBy(f, tokens, table, bucket)
    PROVE  Walked(Price!Start(table, bucket), f, tokens, table, bucket, 0)
<1>. DEFINE walk == Price!Start(table, bucket)
<1>1. walk = [done |-> FALSE, from |-> 0, rate |-> Price!PriceOf(table[bucket].base), cost |-> 0]
  BY DEF Price!Start
<1>2. ~walk.done /\ walk.from = 0 /\ walk.rate = Price!PriceOf(table[bucket].base) /\ walk.cost = 0
  BY <1>1
<1>3. walk = [done |-> walk.done, from |-> walk.from, rate |-> walk.rate, cost |-> walk.cost]
  BY <1>1, <1>2
<1>4. Price!PriceOf(table[bucket].base) \in Nat
  BY TierFacts
<1>5. Price!Rated(table, bucket) \subseteq 1..4 /\ \A j \in 1..4 : Over[j] \in Nat \ {0}
  BY TierFacts
<1>6. ASSUME NEW n \in 1..tokens, \A j \in Price!Rated(table, bucket) : 0 < j => n <= Over[j]
      PROVE  Price!PriceOf(Price!RateOfToken(n, table, bucket)) = walk.rate
  <2>1. n \in Nat /\ \A j \in Price!Rated(table, bucket) : n <= Over[j]
    BY <1>5, <1>6
  <2>2. Price!RateOfToken(n, table, bucket) = table[bucket].base
    BY <2>1, RateBelow
  <2>. QED
    BY <1>2, <2>2
<1>7. f[0] = 0
  BY DEF PricedBy
<1>. HIDE DEF walk
<1>8. \A j \in Price!Rated(table, bucket) : 0 < j => walk.from <= Over[j]
  BY <1>2, <1>5
<1>9. Walked(walk, f, tokens, table, bucket, 0)
  BY <1>2, <1>3, <1>4, <1>6, <1>7, <1>8 DEF Walked
<1>. QED
  BY <1>9 DEF walk

\* What lies between two points without a threshold is paid at the rate at hand.
LEMMA PayUpTo ==
    ASSUME NEW table \in Tables, NEW bucket \in Price!Ladder, NEW tokens \in Nat,
           NEW f, PricedBy(f, tokens, table, bucket), NEW i \in 0..4,
           NEW walk, Walked(walk, f, tokens, table, bucket, i), ~walk.done,
           NEW to \in walk.from..tokens, \A j \in Price!Rated(table, bucket) : i < j => to <= Over[j]
    PROVE  walk.cost + (to - walk.from) * walk.rate = f[to]
<1>1. /\ walk.from \in 0..tokens /\ walk.rate \in Int /\ walk.cost \in Int
      /\ walk.cost = f[walk.from]
  BY DEF Walked
<1>2. Price!Rated(table, bucket) \subseteq 1..4 /\ \A j \in 1..4 : Over[j] \in Nat \ {0}
  BY TierFacts
<1>3. ASSUME NEW n \in (walk.from + 1)..to
      PROVE  Price!PriceOf(Price!RateOfToken(n, table, bucket)) = walk.rate
  <2>1. n \in 1..tokens /\ walk.from < n /\ n <= to
    BY <1>1
  <2>2. \A j \in Price!Rated(table, bucket) : i < j => n <= Over[j]
    BY <1>1, <1>2, <2>1
  <2>. QED
    BY <2>1, <2>2 DEF Walked
<1>. DEFINE a == [n \in 1..tokens |-> Price!PriceOf(Price!RateOfToken(n, table, bucket))]
<1>4. \A k \in 1..tokens : f[k] = f[k - 1] + a[k]
  BY DEF PricedBy
<1>5. \A n \in (walk.from + 1)..to : a[n] = walk.rate
  BY <1>1, <1>3
<1>. HIDE DEF a
<1>6. PICK from, rate : from = walk.from /\ rate = walk.rate
  OBVIOUS
<1>7. from \in 0..tokens /\ to \in from..tokens /\ rate \in Int /\ f[from] \in Int
  BY <1>1, <1>6
<1>8. \A n \in (from + 1)..to : a[n] = rate
  BY <1>5, <1>6
<1>9. f[to] = f[from] + (to - from) * rate
  <2>1. Steady(f, a, from, to, rate)
    BY <1>4, <1>7, <1>8 DEF Steady
  <2>. QED
    BY <2>1, ConstantRun
<1>. QED
  BY <1>1, <1>6, <1>9

\* One threshold further on.
LEMMA StepWalk ==
    ASSUME NEW table \in Tables, NEW bucket \in Price!Ladder, NEW tokens \in Nat,
           NEW f, PricedBy(f, tokens, table, bucket), NEW i \in 1..4,
           NEW walk, Walked(walk, f, tokens, table, bucket, i - 1)
    PROVE  Walked(Price!Step(tokens, table, bucket, walk, i), f, tokens, table, bucket, i)
<1>1. Price!Rated(table, bucket) \subseteq 1..4 /\ \A j \in 1..4 : Over[j] \in Nat \ {0}
  BY TierFacts
<1>2. \A j, k \in 1..4 : j < k => Over[j] < Over[k]
  BY TierFacts
<1>3. /\ walk = [done |-> walk.done, from |-> walk.from, rate |-> walk.rate, cost |-> walk.cost]
      /\ walk.from \in 0..tokens /\ walk.rate \in Int /\ walk.cost \in Int
      /\ walk.cost = f[walk.from]
  BY DEF Walked
<1>4. CASE walk.done
  BY <1>4 DEF Walked, Price!Step
<1>5. CASE ~walk.done /\ i \notin Price!Rated(table, bucket)
  <2>1. \A j \in Price!Rated(table, bucket) : i < j <=> i - 1 < j
    BY <1>1, <1>5
  <2>2. Price!Step(tokens, table, bucket, walk, i) = walk
    BY <1>5 DEF Price!Step
  <2>. QED
    BY <1>5, <2>1, <2>2 DEF Walked
<1>6. CASE ~walk.done /\ i \in Price!Rated(table, bucket) /\ tokens <= Over[i]
  <2>1. PICK cost : cost = walk.cost + (tokens - walk.from) * walk.rate
    OBVIOUS
  <2>2. Price!Step(tokens, table, bucket, walk, i)
          = [done |-> TRUE, from |-> tokens, rate |-> walk.rate, cost |-> cost]
    BY <1>3, <1>6, <2>1 DEF Price!Step
  <2>3. \A j \in Price!Rated(table, bucket) : i - 1 < j => tokens <= Over[j]
    <3>. SUFFICES ASSUME NEW j \in Price!Rated(table, bucket), i - 1 < j PROVE tokens <= Over[j]
      OBVIOUS
    <3>1. j = i \/ (j \in 1..4 /\ i < j)
      BY <1>1
    <3>. QED
      BY <1>1, <1>2, <1>6, <3>1
  <2>4. i - 1 \in 0..4 /\ tokens \in walk.from..tokens
    BY <1>3
  <2>5. cost = f[tokens]
    BY <1>6, <2>1, <2>3, <2>4, PayUpTo
  <2>6. cost \in Int
    BY <1>3, <2>1
  <2>7. PICK new : new = Price!Step(tokens, table, bucket, walk, i)
    OBVIOUS
  <2>8. /\ new = [done |-> new.done, from |-> new.from, rate |-> new.rate, cost |-> new.cost]
        /\ new.done /\ new.from = tokens /\ new.rate = walk.rate /\ new.cost = cost
    BY <2>2, <2>7
  <2>9. Walked(new, f, tokens, table, bucket, i)
    BY <1>3, <2>5, <2>6, <2>8 DEF Walked
  <2>. QED
    BY <2>7, <2>9
<1>7. CASE ~walk.done /\ i \in Price!Rated(table, bucket) /\ ~(tokens <= Over[i])
  <2>1. PICK cost, to : cost = walk.cost + (Over[i] - walk.from) * walk.rate /\ to = Over[i]
    OBVIOUS
  <2>2. Price!Step(tokens, table, bucket, walk, i)
          = [done |-> FALSE, from |-> to, rate |-> table[bucket].above[i], cost |-> cost]
    BY <1>7, <2>1 DEF Price!Step
  <2>3. to \in Nat /\ to < tokens
    BY <1>1, <1>7, <2>1
  <2>4. walk.from <= to
    BY <1>1, <1>7, <2>1 DEF Walked
  <2>5. i - 1 \in 0..4 /\ to \in walk.from..tokens /\ to \in 0..tokens
    BY <1>3, <2>3, <2>4
  <2>6. \A j \in Price!Rated(table, bucket) : i - 1 < j => to <= Over[j]
    <3>. SUFFICES ASSUME NEW j \in Price!Rated(table, bucket), i - 1 < j PROVE to <= Over[j]
      OBVIOUS
    <3>1. j = i \/ (j \in 1..4 /\ i < j)
      BY <1>1
    <3>. QED
      BY <1>1, <1>2, <2>1, <3>1
  <2>7. cost = f[to]
    BY <1>7, <2>1, <2>5, <2>6, PayUpTo
  <2>8. cost \in Int
    BY <1>3, <2>1, <2>3
  <2>9. table[bucket].above[i] \in Int
    <3>1. Price!Valid(table[bucket].above[i]) /\ Price!PriceOf(table[bucket].above[i]) \in Nat
      BY <1>7, TierFacts
    <3>. QED
      BY <3>1 DEF Price!PriceOf
  <2>10. \A j \in Price!Rated(table, bucket) : i < j => to <= Over[j]
    BY <1>1, <2>6
  <2>11. ASSUME NEW n \in 1..tokens, to < n, \A j \in Price!Rated(table, bucket) : i < j => n <= Over[j]
         PROVE  Price!PriceOf(Price!RateOfToken(n, table, bucket)) = table[bucket].above[i]
    <3>1. n \in Nat /\ Over[i] < n /\ i \in Price!Rated(table, bucket)
      BY <1>7, <2>1, <2>11
    <3>. QED
      BY <2>11, <3>1, RateAbove
  <2>12. PICK new : new = Price!Step(tokens, table, bucket, walk, i)
    OBVIOUS
  <2>13. /\ new = [done |-> new.done, from |-> new.from, rate |-> new.rate, cost |-> new.cost]
         /\ ~new.done /\ new.from = to /\ new.rate = table[bucket].above[i] /\ new.cost = cost
    BY <2>2, <2>12
  <2>14. Walked(new, f, tokens, table, bucket, i)
    BY <2>5, <2>7, <2>8, <2>9, <2>10, <2>11, <2>13 DEF Walked
  <2>. QED
    BY <2>12, <2>14
<1>. QED
  BY <1>4, <1>5, <1>6, <1>7

\* What a walk over the tiers pays is the price of all tokens.
LEMMA TieredIsBilled ==
    ASSUME NEW table \in Tables, NEW bucket \in Price!Ladder, NEW tokens \in Nat
    PROVE  Price!TieredCost(tokens, table, bucket) =
             Price!Total([n \in 1..tokens |-> Price!PriceOf(Price!RateOfToken(n, table, bucket))])
<1>. DEFINE a == [n \in 1..tokens |-> Price!PriceOf(Price!RateOfToken(n, table, bucket))]
<1>1. \A n \in 1..tokens : a[n] = Price!PriceOf(Price!RateOfToken(n, table, bucket))
  OBVIOUS
<1>2. Len(a) = tokens
  OBVIOUS
<1>. HIDE DEF a
<1>3. PICK f : Sums(f, a, tokens) /\ Remote!Total(a) = f[tokens]
  BY <1>2, TotalIsSum
<1>4. f[0] = 0 /\ \A k \in 1..tokens : f[k] = f[k - 1] + a[k]
  BY <1>3, SumSteps
<1>5. PricedBy(f, tokens, table, bucket)
  BY <1>1, <1>4 DEF PricedBy
<1>6. PICK w0 : w0 = Price!Start(table, bucket)
  OBVIOUS
<1>7. PICK w1 : w1 = Price!Step(tokens, table, bucket, w0, 1)
  OBVIOUS
<1>8. PICK w2 : w2 = Price!Step(tokens, table, bucket, w1, 2)
  OBVIOUS
<1>9. PICK w3 : w3 = Price!Step(tokens, table, bucket, w2, 3)
  OBVIOUS
<1>10. PICK w4 : w4 = Price!Step(tokens, table, bucket, w3, 4)
  OBVIOUS
<1>11. Walked(w0, f, tokens, table, bucket, 0)
  BY <1>5, <1>6, StartWalk
<1>12. ASSUME NEW i \in 1..4, NEW j, j = i - 1, NEW w, Walked(w, f, tokens, table, bucket, j)
       PROVE  Walked(Price!Step(tokens, table, bucket, w, i), f, tokens, table, bucket, i)
  <2>1. Walked(w, f, tokens, table, bucket, i - 1)
    BY <1>12
  <2>. QED
    BY <1>5, <2>1, StepWalk
<1>13. Walked(w1, f, tokens, table, bucket, 1)
  <2>1. 1 \in 1..4 /\ 0 = 1 - 1
    OBVIOUS
  <2>. QED
    BY <1>7, <1>11, <1>12, <2>1
<1>14. Walked(w2, f, tokens, table, bucket, 2)
  <2>1. 2 \in 1..4 /\ 1 = 2 - 1
    OBVIOUS
  <2>. QED
    BY <1>8, <1>13, <1>12, <2>1
<1>15. Walked(w3, f, tokens, table, bucket, 3)
  <2>1. 3 \in 1..4 /\ 2 = 3 - 1
    OBVIOUS
  <2>. QED
    BY <1>9, <1>14, <1>12, <2>1
<1>16. Walked(w4, f, tokens, table, bucket, 4)
  <2>1. 4 \in 1..4 /\ 3 = 4 - 1
    OBVIOUS
  <2>. QED
    BY <1>10, <1>15, <1>12, <2>1
<1>17. Price!TieredCost(tokens, table, bucket) = w4.cost + (tokens - w4.from) * w4.rate
  BY <1>6, <1>7, <1>8, <1>9, <1>10 DEF Price!TieredCost
<1>18. w4.from \in 0..tokens /\ w4.rate \in Int /\ w4.cost \in Int /\ w4.cost = f[w4.from]
  BY <1>16 DEF Walked
<1>19. w4.cost + (tokens - w4.from) * w4.rate = f[tokens]
  <2>1. CASE w4.done
    <3>1. w4.from = tokens
      BY <1>16, <2>1 DEF Walked
    <3>2. (tokens - w4.from) * w4.rate = 0
      BY <1>18, <3>1
    <3>. QED
      BY <1>18, <3>1, <3>2
  <2>2. CASE ~w4.done
    <3>1. \A j \in Price!Rated(table, bucket) : ~(4 < j)
      BY TierFacts
    <3>2. 4 \in 0..4 /\ tokens \in w4.from..tokens
      BY <1>18
    <3>3. \A j \in Price!Rated(table, bucket) : 4 < j => tokens <= Over[j]
      BY <3>1
    <3>. QED
      BY <1>5, <1>16, <2>2, <3>2, <3>3, PayUpTo
  <2>. QED
    BY <2>1, <2>2
<1>20. Price!Total(a) = Remote!Total(a)
  BY DEF Price!Total, Remote!Total
<1>. QED
  BY <1>3, <1>17, <1>19, <1>20 DEF a

\* Tokens of one price add up to a product.
LEMMA FlatIsBilled ==
    ASSUME NEW tokens \in Nat, NEW price \in Nat
    PROVE  tokens * price = Price!Total([n \in 1..tokens |-> price])
<1>. DEFINE a == [n \in 1..tokens |-> price]
<1>1. Len(a) = tokens /\ \A n \in 1..tokens : a[n] = price
  OBVIOUS
<1>. HIDE DEF a
<1>2. PICK f : Sums(f, a, tokens) /\ Remote!Total(a) = f[tokens]
  BY <1>1, TotalIsSum
<1>3. f[0] = 0 /\ \A k \in 1..tokens : f[k] = f[k - 1] + a[k]
  BY <1>2, SumSteps
<1>4. Steady(f, a, 0, tokens, price)
  BY <1>1, <1>3 DEF Steady
<1>5. f[tokens] = f[0] + (tokens - 0) * price
  BY <1>4, ConstantRun
<1>6. f[tokens] = tokens * price
  BY <1>3, <1>5
<1>7. Price!Total(a) = Remote!Total(a)
  BY DEF Price!Total, Remote!Total
<1>. QED
  BY <1>2, <1>6, <1>7 DEF a

\* A line of a bill at the rates of tiers.
LEMMA TieredLine ==
    ASSUME NEW usage \in Usages, NEW table \in Tables, NEW line \in Price!Lines, NEW bucket \in Price!Ladder,
           \A n : Price!RateOf(n, usage, table, line) = Price!RateOfToken(n, table, bucket)
    PROVE  Price!Billed(usage, table, line) = Price!TieredCost(Price!TokensOf(usage, line), table, bucket)
<1>1. PICK tokens : tokens = Price!TokensOf(usage, line)
  OBVIOUS
<1>2. tokens \in Nat
  BY <1>1, TokensCount
<1>3. [n \in 1..tokens |-> Price!PriceOf(Price!RateOf(n, usage, table, line))]
        = [n \in 1..tokens |-> Price!PriceOf(Price!RateOfToken(n, table, bucket))]
  OBVIOUS
<1>4. Price!Billed(usage, table, line) =
        Price!Total([n \in 1..tokens |-> Price!PriceOf(Price!RateOf(n, usage, table, line))])
  BY <1>1 DEF Price!Billed
<1>5. Price!TieredCost(tokens, table, bucket) =
        Price!Total([n \in 1..tokens |-> Price!PriceOf(Price!RateOfToken(n, table, bucket))])
  BY <1>2, TieredIsBilled
<1>. QED
  BY <1>1, <1>3, <1>4, <1>5

\* A line of a bill at one rate.
LEMMA SelectedLine ==
    ASSUME NEW usage \in Usages, NEW table \in Tables, NEW line \in Price!Lines, line \in Price!Ladder,
           \A n : Price!RateOf(n, usage, table, line) = Price!Selected(table, line, Price!IsLong(usage))
    PROVE  Price!Billed(usage, table, line) =
             Price!TokensOf(usage, line) * Price!PriceOf(Price!Selected(table, line, Price!IsLong(usage)))
<1>1. PICK tokens, rate :
        tokens = Price!TokensOf(usage, line) /\ rate = Price!Selected(table, line, Price!IsLong(usage))
  OBVIOUS
<1>2. PICK price : price = Price!PriceOf(rate)
  OBVIOUS
<1>3. tokens \in Nat /\ price \in Nat
  <2>1. tokens \in Nat
    BY <1>1, TokensCount
  <2>2. 4 \in 1..4
    OBVIOUS
  <2>. QED
    BY <1>1, <1>2, <2>1, <2>2, TierFacts DEF Price!Selected
<1>4. [n \in 1..tokens |-> Price!PriceOf(Price!RateOf(n, usage, table, line))] = [n \in 1..tokens |-> price]
  BY <1>1, <1>2
<1>5. Price!Billed(usage, table, line) =
        Price!Total([n \in 1..tokens |-> Price!PriceOf(Price!RateOf(n, usage, table, line))])
  BY <1>1 DEF Price!Billed
<1>6. tokens * price = Price!Total([n \in 1..tokens |-> price])
  BY <1>3, FlatIsBilled
<1>. QED
  BY <1>1, <1>2, <1>4, <1>5, <1>6

\* Which rates a line has.
LEMMA RatesOfLines ==
    ASSUME NEW usage, NEW table
    PROVE  /\ \A n : Price!RateOf(n, usage, table, "hour") = Price!RateOfToken(n, table, "input")
           /\ \A n : Price!RateOf(n, usage, table, "write") = Price!RateOfToken(n, table, "write")
           /\ \A n : \A line \in {"input", "output", "read"} :
                Price!RateOf(n, usage, table, line) =
                  IF table.perRequest THEN Price!Selected(table, line, Price!IsLong(usage))
                                      ELSE Price!RateOfToken(n, table, line)
  BY DEF Price!RateOf

\* What a line comes to is a number.
LEMMA BilledIsNumber ==
    ASSUME NEW usage \in Usages, NEW table \in Tables, NEW line \in Price!Lines
    PROVE  Price!Billed(usage, table, line) \in Nat
<1>. DEFINE price(n) == Price!PriceOf(Price!RateOf(n, usage, table, line))
<1>1. PICK tokens : tokens = Price!TokensOf(usage, line)
  OBVIOUS
<1>2. tokens \in Nat
  BY <1>1, TokensCount
<1>3. \A n \in 1..tokens : price(n) \in Nat
  <2>1. PICK bucket \in Price!Ladder :
          \A n : \/ Price!RateOf(n, usage, table, line) = Price!RateOfToken(n, table, bucket)
                \/ Price!RateOf(n, usage, table, line) = Price!Selected(table, bucket, Price!IsLong(usage))
    BY DEF Price!RateOf, Price!Lines, Price!Ladder
  <2>2. /\ Price!PriceOf(table[bucket].base) \in Nat
        /\ \A i \in 1..4 : Price!PriceOf(table[bucket].above[i]) \in Nat
    BY TierFacts
  <2>3. Price!PriceOf(Price!Selected(table, bucket, Price!IsLong(usage))) \in Nat
    <3>1. 4 \in 1..4
      OBVIOUS
    <3>. QED
      BY <2>2, <3>1 DEF Price!Selected
  <2>4. \A n : Price!PriceOf(Price!RateOfToken(n, table, bucket)) \in Nat
    <3>. SUFFICES ASSUME NEW n PROVE Price!PriceOf(Price!RateOfToken(n, table, bucket)) \in Nat
      OBVIOUS
    <3>. DEFINE above == {i \in Price!Rated(table, bucket) : Over[i] < n}
    <3>1. CASE above = {}
      BY <2>2, <3>1 DEF Price!RateOfToken
    <3>2. CASE above # {}
      <4>1. Price!RateOfToken(n, table, bucket) = table[bucket].above[Price!Max(above)]
        BY <3>2 DEF Price!RateOfToken
      <4>2. above \subseteq 1..4
        BY TierFacts
      <4>3. Price!Max(above) \in 1..4
        <5>. HIDE DEF above
        <5>. QED
          BY <3>2, <4>2, FirstAndLastTier
      <4>. QED
        BY <2>2, <4>1, <4>3
    <3>. QED
      BY <3>1, <3>2
  <2>. QED
    BY <2>1, <2>3, <2>4
<1>4. PICK a : a = [n \in 1..tokens |-> price(n)]
  OBVIOUS
<1>5. Len(a) = tokens /\ \A n \in 1..tokens : a[n] \in Nat
  <2>. HIDE DEF price
  <2>. QED
    BY <1>2, <1>3, <1>4
<1>6. Price!Billed(usage, table, line) = Price!Total(a)
  BY <1>1, <1>4 DEF Price!Billed
<1>7. PICK f : Sums(f, a, tokens) /\ Remote!Total(a) = f[tokens]
  BY <1>2, <1>5, TotalIsSum
<1>8. \A k \in 0..tokens : f[k] = f[k] /\ f[k] \in Nat
  <2>1. tokens \in 0..tokens
    BY <1>2
  <2>2. \A k \in 1..tokens : a[k] = a[k] /\ a[k] \in Nat
    BY <1>5
  <2>3. Sums(f, a, tokens)
    BY <1>7
  <2>. QED
    BY ONLY <1>2, <2>1, <2>2, <2>3, SumsAgree
<1>9. Price!Total(a) = Remote!Total(a)
  BY DEF Price!Total, Remote!Total
<1>. QED
  BY <1>2, <1>6, <1>7, <1>8, <1>9

\* The cost of a message is the price of its tokens.
LEMMA CostIsSum ==
    ASSUME NEW usage \in Usages, NEW table \in Tables
    PROVE  Price!Cost(usage, table) = Price!SumOf(usage, table)
<1>1. /\ {"input", "output", "read", "write"} \subseteq Price!Ladder
      /\ {"input", "output", "read", "write", "hour"} \subseteq Price!Lines
  BY DEF Price!Lines, Price!Ladder
<1>2. /\ Price!TokensOf(usage, "input") = Price!Tokens(usage).input
      /\ Price!TokensOf(usage, "output") = Price!Tokens(usage).output
      /\ Price!TokensOf(usage, "read") = Price!Tokens(usage).read
      /\ Price!TokensOf(usage, "write") = Price!Tokens(usage).write
      /\ Price!TokensOf(usage, "hour") = Price!Hours(usage)
  BY DEF Price!TokensOf
<1>3. Price!Billed(usage, table, "hour") = Price!TieredCost(Price!Hours(usage), table, "input")
  <2>1. \A n : Price!RateOf(n, usage, table, "hour") = Price!RateOfToken(n, table, "input")
    BY RatesOfLines
  <2>2. Price!Billed(usage, table, "hour") = Price!TieredCost(Price!TokensOf(usage, "hour"), table, "input")
    BY <1>1, <2>1, TieredLine
  <2>. QED
    BY <1>2, <2>2
<1>4. Price!Billed(usage, table, "write") = Price!TieredCost(Price!Tokens(usage).write, table, "write")
  <2>1. \A n : Price!RateOf(n, usage, table, "write") = Price!RateOfToken(n, table, "write")
    BY RatesOfLines
  <2>2. Price!Billed(usage, table, "write") = Price!TieredCost(Price!TokensOf(usage, "write"), table, "write")
    BY <1>1, <2>1, TieredLine
  <2>. QED
    BY <1>2, <2>2
<1>5. PICK i, o, r : /\ i = Price!Billed(usage, table, "input") /\ o = Price!Billed(usage, table, "output")
                    /\ r = Price!Billed(usage, table, "read")
  OBVIOUS
<1>6. Price!SumOf(usage, table) = i + o + r + Price!Billed(usage, table, "write")
                                  + 2 * Price!Billed(usage, table, "hour")
  BY <1>5 DEF Price!SumOf
<1>7. PICK w, h : w = Price!Billed(usage, table, "write") /\ h = Price!Billed(usage, table, "hour")
  OBVIOUS
<1>8. Price!WriteCost(usage, table) = w + 2 * h
  BY <1>3, <1>4, <1>7 DEF Price!WriteCost
<1>9. i \in Int /\ o \in Int /\ r \in Int /\ w \in Int /\ h \in Int
  BY <1>1, <1>5, <1>7, BilledIsNumber
<1>10. Price!Cost(usage, table) = i + o + r + (w + 2 * h)
  <2>1. CASE table.perRequest
    <3>1. \A line \in {"input", "output", "read"} :
            Price!Billed(usage, table, line) =
              Price!TokensOf(usage, line) * Price!PriceOf(Price!Selected(table, line, Price!IsLong(usage)))
      <4>. SUFFICES ASSUME NEW line \in {"input", "output", "read"}
                    PROVE  Price!Billed(usage, table, line) =
                             Price!TokensOf(usage, line)
                               * Price!PriceOf(Price!Selected(table, line, Price!IsLong(usage)))
        OBVIOUS
      <4>1. \A n : Price!RateOf(n, usage, table, line) = Price!Selected(table, line, Price!IsLong(usage))
        BY <2>1, RatesOfLines
      <4>. QED
        BY <1>1, <4>1, SelectedLine
    <3>2. Price!RequestCost(usage, table) = i + o + r + Price!WriteCost(usage, table)
      BY <1>2, <1>5, <3>1 DEF Price!RequestCost
    <3>. QED
      BY <1>8, <2>1, <3>2 DEF Price!Cost
  <2>2. CASE ~table.perRequest
    <3>1. \A line \in {"input", "output", "read"} :
            Price!Billed(usage, table, line) = Price!TieredCost(Price!TokensOf(usage, line), table, line)
      <4>. SUFFICES ASSUME NEW line \in {"input", "output", "read"}
                    PROVE  Price!Billed(usage, table, line) =
                             Price!TieredCost(Price!TokensOf(usage, line), table, line)
        OBVIOUS
      <4>1. \A n : Price!RateOf(n, usage, table, line) = Price!RateOfToken(n, table, line)
        <5>1. \A n : Price!RateOf(n, usage, table, line) =
                       IF table.perRequest THEN Price!Selected(table, line, Price!IsLong(usage))
                                           ELSE Price!RateOfToken(n, table, line)
          BY DEF Price!RateOf
        <5>. QED
          BY <2>2, <5>1
      <4>2. line \in Price!Ladder /\ line \in Price!Lines
        BY <1>1
      <4>. QED
        BY <4>1, <4>2, TieredLine
    <3>2. Price!MarginalCost(usage, table) = i + o + r + Price!WriteCost(usage, table)
      BY <1>2, <1>5, <3>1 DEF Price!MarginalCost
    <3>. QED
      BY <1>8, <2>2, <3>2 DEF Price!Cost
  <2>. QED
    BY <2>1, <2>2
<1>. QED
  BY <1>6, <1>7, <1>9, <1>10

-------------------------------------------------------------------------------
\* A bucket says of the rates of its tokens whether some are known, and whether
\* some are not.
Tells(coverage, rates) ==
    /\ coverage \subseteq {"known", "unknown"}
    /\ "known" \in coverage <=> \E n \in DOMAIN rates : Price!Valid(rates[n])
    /\ "unknown" \in coverage <=> \E n \in DOMAIN rates : ~Price!Valid(rates[n])

\* The walk over the tiers says so of its tokens.
LEMMA TieredTells ==
    ASSUME NEW table \in Tables, NEW bucket \in Price!Ladder, NEW tokens \in Nat
    PROVE  Tells(Price!TieredCoverage(tokens, table, bucket),
                 [n \in 1..tokens |-> Price!RateOfToken(n, table, bucket)])
<1>. DEFINE some == \E n \in 1..tokens : Price!Valid(Price!RateOfToken(n, table, bucket))
            all == \A n \in 1..tokens : Price!Valid(Price!RateOfToken(n, table, bucket))
            coverage == Price!TieredCoverage(tokens, table, bucket)
            rates == [n \in 1..tokens |-> Price!RateOfToken(n, table, bucket)]
<1>. SUFFICES /\ coverage \subseteq {"known", "unknown"}
              /\ "known" \in coverage <=> some
              /\ "unknown" \in coverage <=> ~all
  <2>1. DOMAIN rates = 1..tokens /\ \A n \in 1..tokens : rates[n] = Price!RateOfToken(n, table, bucket)
    OBVIOUS
  <2>. HIDE DEF coverage, rates
  <2>2. Tells(coverage, rates)
    BY <2>1 DEF Tells
  <2>. QED
    BY <2>2 DEF coverage, rates
<1>1. PICK rated : rated = Price!Rated(table, bucket)
  OBVIOUS
<1>2. /\ rated \subseteq 1..4 /\ \A j \in 1..4 : Over[j] \in Nat \ {0}
      /\ \A i, j \in 1..4 : i < j => Over[i] < Over[j]
      /\ \A i \in rated : Price!Valid(table[bucket].above[i])
  BY <1>1, TierFacts
<1>3. ASSUME NEW n \in 1..tokens
      PROVE  \/ /\ Price!RateOfToken(n, table, bucket) = table[bucket].base
                 /\ \A i \in rated : ~(Over[i] < n)
             \/ /\ Price!Valid(Price!RateOfToken(n, table, bucket))
                 /\ \E i \in rated : Over[i] < n
  <2>. DEFINE above == {i \in Price!Rated(table, bucket) : Over[i] < n}
  <2>1. CASE above = {}
    BY <1>1, <2>1 DEF Price!RateOfToken
  <2>2. CASE above # {}
    <3>1. Price!RateOfToken(n, table, bucket) = table[bucket].above[Price!Max(above)]
      BY <2>2 DEF Price!RateOfToken
    <3>2. above \subseteq rated
      BY <1>1
    <3>3. Price!Max(above) \in above
      <4>. HIDE DEF above
      <4>. QED
        BY <1>2, <2>2, <3>2, FirstAndLastTier
    <3>. QED
      BY <1>1, <1>2, <3>1, <3>3
  <2>. QED
    BY <2>1, <2>2
<1>4. CASE tokens = 0
  <2>1. coverage = {} /\ ~some /\ all
    BY <1>4 DEF Price!TieredCoverage
  <2>. QED
    BY <2>1
<1>5. CASE tokens # 0 /\ Price!Valid(table[bucket].base)
  <2>1. coverage = {"known"}
    BY <1>5 DEF Price!TieredCoverage
  <2>2. all
    BY <1>3, <1>5
  <2>3. some
    <3>1. 1 \in 1..tokens
      BY <1>5
    <3>. QED
      BY <2>2, <3>1
  <2>. QED
    BY <2>1, <2>2, <2>3
<1>6. CASE tokens # 0 /\ ~Price!Valid(table[bucket].base)
  <2>1. ~all
    <3>1. 1 \in 1..tokens /\ \A i \in rated : ~(Over[i] < 1)
      BY <1>2, <1>6
    <3>2. Price!RateOfToken(1, table, bucket) = table[bucket].base
      BY <1>3, <3>1
    <3>. QED
      BY <1>6, <3>1, <3>2
  <2>2. some <=> \E i \in rated : Over[i] < tokens
    <3>1. ASSUME some PROVE \E i \in rated : Over[i] < tokens
      <4>1. PICK n \in 1..tokens : Price!Valid(Price!RateOfToken(n, table, bucket))
        BY <3>1
      <4>2. PICK i \in rated : Over[i] < n
        BY <1>3, <1>6, <4>1
      <4>. QED
        BY <1>2, <4>2
    <3>2. ASSUME NEW i \in rated, Over[i] < tokens PROVE some
      <4>1. tokens \in 1..tokens
        BY <1>6
      <4>2. Price!Valid(Price!RateOfToken(tokens, table, bucket))
        BY <1>3, <3>2, <4>1
      <4>. QED
        BY <4>1, <4>2
    <3>. QED
      BY <3>1, <3>2
  <2>3. (\E i \in rated : Over[i] < tokens) <=> rated # {} /\ tokens > Over[Price!Min(rated)]
    <3>1. CASE rated = {}
      BY <3>1
    <3>2. CASE rated # {}
      <4>1. PICK lowest : lowest = Price!Min(rated)
        OBVIOUS
      <4>2. lowest \in rated /\ \A i \in rated : lowest <= i
        BY <1>2, <3>2, <4>1, FirstAndLastTier
      <4>3. \A i \in rated : Over[lowest] <= Over[i]
        <5>. SUFFICES ASSUME NEW i \in rated PROVE Over[lowest] <= Over[i]
          OBVIOUS
        <5>1. i \in 1..4 /\ lowest \in 1..4 /\ (i = lowest \/ lowest < i)
          BY <1>2, <4>2
        <5>. QED
          BY <1>2, <5>1
      <4>4. \A i \in rated : Over[i] \in Nat
        BY <1>2
      <4>. QED
        BY <3>2, <4>1, <4>2, <4>3, <4>4
    <3>. QED
      BY <3>1, <3>2
  <2>4. coverage = IF rated # {} /\ tokens > Over[Price!Min(rated)] THEN {"known", "unknown"} ELSE {"unknown"}
    BY <1>1, <1>6 DEF Price!TieredCoverage
  <2>. HIDE DEF coverage, some, all
  <2>. QED
    BY <2>1, <2>2, <2>3, <2>4
<1>. QED
  BY <1>4, <1>5, <1>6

\* And so does the rate of a request.
LEMMA SelectedTells ==
    ASSUME NEW table, NEW bucket, NEW long, NEW tokens \in Nat
    PROVE  Tells(Price!SelectedCoverage(tokens, table, bucket, long),
                 [n \in 1..tokens |-> Price!Selected(table, bucket, long)])
<1>. DEFINE rates == [n \in 1..tokens |-> Price!Selected(table, bucket, long)]
<1>1. DOMAIN rates = 1..tokens /\ \A n \in 1..tokens : rates[n] = Price!Selected(table, bucket, long)
  OBVIOUS
<1>. HIDE DEF rates
<1>2. CASE tokens = 0
  BY <1>1, <1>2 DEF Price!SelectedCoverage, Tells, rates
<1>3. CASE tokens # 0
  <2>1. 1 \in 1..tokens
    BY <1>3
  <2>2. Tells(Price!SelectedCoverage(tokens, table, bucket, long), rates)
    BY <1>1, <1>3, <2>1 DEF Price!SelectedCoverage, Tells
  <2>. QED
    BY <2>2 DEF rates
<1>. QED
  BY <1>2, <1>3

\* What a line says of its tokens.
LineCoverage(usage, table, line) ==
    CASE line = "hour" -> Price!TieredCoverage(Price!TokensOf(usage, line), table, "input")
      [] line # "hour" /\ table.perRequest /\ line # "write" ->
           Price!SelectedCoverage(Price!TokensOf(usage, line), table, line, Price!IsLong(usage))
      [] OTHER -> Price!TieredCoverage(Price!TokensOf(usage, line), table, line)

RatesOfLine(usage, table, line) ==
    [n \in 1..Price!TokensOf(usage, line) |-> Price!RateOf(n, usage, table, line)]

\* It is true of them.
LEMMA LineTells ==
    ASSUME NEW usage \in Usages, NEW table \in Tables, NEW line \in Price!Lines
    PROVE  Tells(LineCoverage(usage, table, line), RatesOfLine(usage, table, line))
<1>1. PICK tokens : tokens = Price!TokensOf(usage, line)
  OBVIOUS
<1>2. tokens \in Nat
  BY <1>1, TokensCount
<1>3. ASSUME NEW bucket \in Price!Ladder, LineCoverage(usage, table, line) = Price!TieredCoverage(tokens, table, bucket),
             \A n : Price!RateOf(n, usage, table, line) = Price!RateOfToken(n, table, bucket)
      PROVE  Tells(LineCoverage(usage, table, line), RatesOfLine(usage, table, line))
  <2>1. RatesOfLine(usage, table, line) = [n \in 1..tokens |-> Price!RateOfToken(n, table, bucket)]
    BY <1>1, <1>3 DEF RatesOfLine
  <2>2. Tells(Price!TieredCoverage(tokens, table, bucket), [n \in 1..tokens |-> Price!RateOfToken(n, table, bucket)])
    BY <1>2, TieredTells
  <2>. QED
    BY <1>3, <2>1, <2>2
<1>4. CASE line = "hour"
  <2>1. LineCoverage(usage, table, line) = Price!TieredCoverage(tokens, table, "input")
    BY <1>1, <1>4 DEF LineCoverage
  <2>2. \A n : Price!RateOf(n, usage, table, line) = Price!RateOfToken(n, table, "input")
    BY <1>4 DEF Price!RateOf
  <2>3. "input" \in Price!Ladder
    BY DEF Price!Ladder
  <2>. QED
    BY <1>3, <2>1, <2>2, <2>3
<1>5. CASE line # "hour" /\ table.perRequest /\ line # "write"
  <2>1. LineCoverage(usage, table, line) = Price!SelectedCoverage(tokens, table, line, Price!IsLong(usage))
    BY <1>1, <1>5 DEF LineCoverage
  <2>2. \A n : Price!RateOf(n, usage, table, line) = Price!Selected(table, line, Price!IsLong(usage))
    BY <1>5 DEF Price!RateOf
  <2>3. RatesOfLine(usage, table, line) = [n \in 1..tokens |-> Price!Selected(table, line, Price!IsLong(usage))]
    BY <1>1, <2>2 DEF RatesOfLine
  <2>4. Tells(Price!SelectedCoverage(tokens, table, line, Price!IsLong(usage)),
              [n \in 1..tokens |-> Price!Selected(table, line, Price!IsLong(usage))])
    BY <1>2, SelectedTells
  <2>. QED
    BY <2>1, <2>3, <2>4
<1>6. CASE line # "hour" /\ ~(table.perRequest /\ line # "write")
  <2>1. LineCoverage(usage, table, line) = Price!TieredCoverage(tokens, table, line)
    BY <1>1, <1>6 DEF LineCoverage
  <2>2. \A n : Price!RateOf(n, usage, table, line) = Price!RateOfToken(n, table, line)
    BY <1>6 DEF Price!RateOf
  <2>3. line \in Price!Ladder
    BY <1>6 DEF Price!Lines
  <2>. QED
    BY <1>3, <2>1, <2>2, <2>3
<1>. QED
  BY <1>4, <1>5, <1>6

\* So is what is observed of a message.
LEMMA ObservedTells ==
    ASSUME NEW usage \in Usages, NEW table \in Tables
    PROVE  /\ Price!Observed(usage, table) \subseteq {"known", "unknown"}
           /\ "known" \in Price!Observed(usage, table) <=> Price!SomeKnown(usage, table)
           /\ "unknown" \in Price!Observed(usage, table) <=> ~Price!AllKnown(usage, table)
<1>1. Price!Observed(usage, table) = UNION {LineCoverage(usage, table, line) : line \in Price!Lines}
  <2>1. /\ LineCoverage(usage, table, "hour") = Price!TieredCoverage(Price!Hours(usage), table, "input")
        /\ LineCoverage(usage, table, "write") = Price!TieredCoverage(Price!Tokens(usage).write, table, "write")
    BY DEF LineCoverage, Price!TokensOf
  <2>2. \A line \in {"input", "output", "read"} :
          LineCoverage(usage, table, line) =
            IF table.perRequest
            THEN Price!SelectedCoverage(Price!Tokens(usage)[line], table, line, Price!IsLong(usage))
            ELSE Price!TieredCoverage(Price!Tokens(usage)[line], table, line)
    BY DEF LineCoverage, Price!TokensOf
  <2>3. Price!Observed(usage, table) =
          (UNION {LineCoverage(usage, table, line) : line \in {"input", "output", "read"}})
            \cup LineCoverage(usage, table, "write") \cup LineCoverage(usage, table, "hour")
    BY <2>1, <2>2 DEF Price!Observed
  <2>4. Price!Lines = {"input", "output", "read"} \cup {"write", "hour"}
    BY DEF Price!Lines, Price!Ladder
  <2>. QED
    BY <2>3, <2>4
<1>2. \A line \in Price!Lines :
        /\ LineCoverage(usage, table, line) \subseteq {"known", "unknown"}
        /\ "known" \in LineCoverage(usage, table, line) <=>
              \E n \in 1..Price!TokensOf(usage, line) : Price!Valid(Price!RateOf(n, usage, table, line))
        /\ "unknown" \in LineCoverage(usage, table, line) <=>
              ~\A n \in 1..Price!TokensOf(usage, line) : Price!Valid(Price!RateOf(n, usage, table, line))
  BY LineTells DEF Tells, RatesOfLine
<1>3. "known" \in Price!Observed(usage, table) <=> Price!SomeKnown(usage, table)
  BY <1>1, <1>2 DEF Price!SomeKnown
<1>4. "unknown" \in Price!Observed(usage, table) <=> ~Price!AllKnown(usage, table)
  BY <1>1, <1>2 DEF Price!AllKnown
<1>5. Price!Observed(usage, table) \subseteq {"known", "unknown"}
  BY <1>1, <1>2
<1>. QED
  BY <1>3, <1>4, <1>5

\* The coverage says whether some tokens have a price, and whether all have one.
LEMMA CoverageTells ==
    ASSUME NEW usage \in Usages, NEW table \in Tables
    PROVE  /\ Price!Coverage(usage, table) = "complete" =>
                Price!SomeKnown(usage, table) /\ Price!AllKnown(usage, table)
           /\ Price!Coverage(usage, table) = "partial" =>
                Price!SomeKnown(usage, table) /\ ~Price!AllKnown(usage, table)
           /\ Price!Coverage(usage, table) = "none" => ~Price!SomeKnown(usage, table)
           /\ Price!Coverage(usage, table) \in {"complete", "partial", "none"}
<1>1. PICK observed : observed = Price!Observed(usage, table)
  OBVIOUS
<1>2. /\ observed \subseteq {"known", "unknown"}
      /\ "known" \in observed <=> Price!SomeKnown(usage, table)
      /\ "unknown" \in observed <=> ~Price!AllKnown(usage, table)
  BY <1>1, ObservedTells
<1>3. CASE observed = {"known"}
  <2>1. Price!Coverage(usage, table) = "complete"
    BY <1>1, <1>3 DEF Price!Coverage
  <2>. QED
    BY <1>2, <1>3, <2>1
<1>4. CASE observed = {"known", "unknown"}
  <2>1. observed # {"known"}
    BY <1>4
  <2>2. Price!Coverage(usage, table) = "partial"
    BY <1>1, <1>4, <2>1 DEF Price!Coverage
  <2>. QED
    BY <1>2, <1>4, <2>2
<1>5. CASE "known" \notin observed
  <2>1. observed # {"known"} /\ observed # {"known", "unknown"}
    BY <1>5
  <2>2. Price!Coverage(usage, table) = "none"
    BY <1>1, <2>1 DEF Price!Coverage
  <2>. QED
    BY <1>2, <1>5, <2>2
<1>6. observed = {"known"} \/ observed = {"known", "unknown"} \/ "known" \notin observed
  BY <1>2
<1>. QED
  BY <1>3, <1>4, <1>5, <1>6

\* A message is as its source left it until it is priced.
PriceInv ==
    /\ message = [usage |-> message.usage, zed |-> message.zed, source |-> message.source,
                  cost |-> message.cost, table |-> message.table]
    /\ message.usage \in Usages
    /\ message.table = NoRate =>
         \/ message.source = "reported" /\ message.cost = 1
         \/ message.source = "unknown" /\ message.cost = 0
    /\ message.table # NoRate => message.table \in Tables
    /\ Price!EstimateIsHonest

\* Of a price; no other lane is called so.
PricedHonestly == lane = "price" => lane \in Reports /\ PriceInv

\* Initially a message has no price.
LEMMA InitPrice == ReportInit => PricedHonestly
<1>1. Price!Init => PriceInv
  <2>1. SUFFICES ASSUME Price!Init PROVE PriceInv
    OBVIOUS
  <2>2. PICK usage \in Usages, zed \in BOOLEAN, source \in {"reported", "unknown"} :
          message = [usage |-> usage, zed |-> zed, source |-> source,
                     cost |-> IF source = "reported" THEN 1 ELSE 0, table |-> NoRate]
    BY <2>1 DEF Price!Init
  <2>3. /\ message.usage = usage /\ message.zed = zed /\ message.source = source
        /\ message.cost = (IF source = "reported" THEN 1 ELSE 0) /\ message.table = NoRate
    BY <2>2
  <2>. QED
    BY <2>2, <2>3 DEF PriceInv, Price!EstimateIsHonest
<1>2. ScanInit => lane # "price"
  BY LaneAssumption DEF ScanInit, Init, InitLane, Cached
<1>. QED
  BY <1>1, <1>2 DEF ReportInit, InitLane, PricedHonestly

\* A table prices a message at what its tokens cost, or leaves it as it is.
LEMMA RepriceHonestly ==
    ASSUME PriceInv, NEW table \in Tables, Price!Reprice(table)
    PROVE  PriceInv'
<1>1. PICK usage, cost : usage = message.usage /\ cost = Price!Cost(usage, table)
  OBVIOUS
<1>2. usage \in Usages /\ message.table = NoRate
  BY <1>1 DEF PriceInv, Price!Reprice
<1>3. table # NoRate
  BY ReportAssumption DEF Price!RatesAreNumbers
<1>4. cost = Price!SumOf(usage, table)
  BY <1>1, <1>2, CostIsSum
<1>5. PICK coverage : coverage = Price!Coverage(usage, table)
  OBVIOUS
<1>6. /\ coverage = "complete" => Price!SomeKnown(usage, table) /\ Price!AllKnown(usage, table)
      /\ coverage = "partial" => Price!SomeKnown(usage, table) /\ ~Price!AllKnown(usage, table)
      /\ coverage = "none" => ~Price!SomeKnown(usage, table)
      /\ coverage \in {"complete", "partial", "none"}
  BY <1>2, <1>5, CoverageTells
<1>7. CASE message.source = "reported" \/ coverage = "none"
  <2>1. message' = [message EXCEPT !.table = table]
    BY <1>1, <1>5, <1>7 DEF Price!Reprice
  <2>2. /\ message' = [usage |-> usage, zed |-> message.zed, source |-> message.source,
                       cost |-> message.cost, table |-> table]
        /\ message'.usage = usage /\ message'.zed = message.zed /\ message'.source = message.source
        /\ message'.cost = message.cost /\ message'.table = table
    BY <1>1, <2>1 DEF PriceInv
  <2>3. \/ message'.source = "reported" /\ message'.cost = 1
        \/ message'.source = "unknown" /\ message'.cost = 0 /\ ~Price!SomeKnown(usage, table)
    BY <1>2, <1>6, <1>7, <2>2 DEF PriceInv
  <2>4. Price!EstimateIsHonest'
    BY <2>2, <2>3 DEF Price!EstimateIsHonest
  <2>. QED
    BY <1>2, <1>3, <2>2, <2>4 DEF PriceInv
<1>8. CASE ~(message.source = "reported" \/ coverage = "none")
  <2>1. PICK new, source : /\ new = Price!Multiplier * cost
                           /\ source = IF coverage = "complete" THEN "estimated" ELSE "partial"
    OBVIOUS
  <2>2. message' = [message EXCEPT !.table = table, !.cost = new, !.source = source]
    BY <1>1, <1>5, <1>8, <2>1 DEF Price!Reprice
  <2>3. /\ message' = [usage |-> usage, zed |-> message.zed, source |-> source, cost |-> new, table |-> table]
        /\ message'.usage = usage /\ message'.zed = message.zed /\ message'.source = source
        /\ message'.cost = new /\ message'.table = table
    BY <1>1, <2>2 DEF PriceInv
  <2>4. Price!Multiplier' = Price!Multiplier
    BY <2>3 DEF Price!Multiplier
  <2>5. message'.cost = Price!Multiplier' * Price!SumOf(usage, table)
    BY <1>4, <2>1, <2>3, <2>4
  <2>6. \/ /\ message'.source = "estimated"
           /\ Price!SomeKnown(usage, table) /\ Price!AllKnown(usage, table)
        \/ /\ message'.source = "partial"
           /\ Price!SomeKnown(usage, table) /\ ~Price!AllKnown(usage, table)
    BY <1>6, <1>8, <2>1, <2>3
  <2>7. Price!EstimateIsHonest'
    BY <2>3, <2>5, <2>6 DEF Price!EstimateIsHonest
  <2>. QED
    BY <1>2, <1>3, <2>3, <2>7 DEF PriceInv
<1>. QED
  BY <1>7, <1>8

\* Only a price has a message, and each of its steps keeps it honest.
LEMMA NextPrice ==
    ASSUME PricedHonestly, [ReportNext]_<<vars, openCodeVars, reportVars>>
    PROVE  PricedHonestly'
<1>1. CASE UNCHANGED <<vars, openCodeVars, reportVars>>
  BY <1>1 DEF vars, reportVars, PricedHonestly, PriceInv, Price!EstimateIsHonest, Price!Multiplier
<1>2. CASE lane = "price" /\ ReportNext
  <2>1. lane' = lane /\ Price!Next
    BY <1>2 DEF ReportNext, PricedHonestly, vars
  <2>. QED
    BY <1>2, <2>1, RepriceHonestly DEF Price!Next, PricedHonestly
<1>3. CASE lane # "price" /\ ReportNext
  <2>1. Next => lane' = lane
    BY DEF Next, Write, Scan, Emit, PutOff, EmitKiro, BufferTrae, EmitAntigravity, FinishSource,
           StartFlush, FlushRetained, FlushTrae, Finish, Rest, Sink
  <2>2. lane' = lane
    BY <1>3, <2>1 DEF ReportNext, ScanNext, vars
  <2>. QED
    BY <1>3, <2>2 DEF PricedHonestly
<1>. QED
  BY <1>1, <1>2, <1>3

\* What a message costs is what its tokens cost one by one, at the rate of the last
\* tier each lies above; it is called estimated if all of them have a rate, partial
\* if some have, and keeps the cost it was reported with.
THEOREM EstimatesAreHonest == ReportSpec => []EstimateIsHonest
<1>1. PricedHonestly => EstimateIsHonest
  BY DEF PricedHonestly, PriceInv, EstimateIsHonest
<1>. QED
  BY <1>1, InitPrice, NextPrice, PTL DEF ReportSpec
===============================================================================
