-------------------------- MODULE StreamingScanProofs --------------------------
(***************************************************************************)
(* Of the lanes of a streaming scan, for any number of files, whatever     *)
(* they hold and however they change between scans: that a report does     *)
(* not depend on what the cache holds, and that what several sources tell  *)
(* is reported from one of them.                                           *)
(***************************************************************************)
EXTENDS UsageReport, FiniteSetTheorems, WellFoundedInduction, TLAPS

\* A set of naturals has a least one.
LEMMA LeastNumber ==
    ASSUME NEW S, S \subseteq Nat, S # {}
    PROVE  \E n \in S : \A m \in S : n <= m
<1>1. IsWellFoundedOn(OpToRel(<, Nat), Nat)
  BY NatLessThanWellFounded
<1>2. PICK n \in S : \A m \in S : <<m, n>> \notin OpToRel(<, Nat)
  BY <1>1, WFMin
<1>3. \A m \in S : ~(m < n)
  BY <1>2 DEF OpToRel
<1>. QED
  BY <1>3

\* f[k] is what is chosen of the first k elements.
FirstChosen(f, s, positions, n) ==
    f = [k \in 0..n |-> IF k = 0 THEN <<>>
                        ELSE IF k \in positions THEN Append(f[k - 1], s[k]) ELSE f[k - 1]]

\* Such choices step by step.
LEMMA ChoiceSteps ==
    ASSUME NEW n \in Nat, NEW s, NEW positions, NEW f, FirstChosen(f, s, positions, n)
    PROVE  /\ f[0] = <<>>
           /\ \A k \in 1..n : f[k] = IF k \in positions THEN Append(f[k - 1], s[k]) ELSE f[k - 1]
<1>. DEFINE Step(k) == IF k = 0 THEN <<>>
                       ELSE IF k \in positions THEN Append(f[k - 1], s[k]) ELSE f[k - 1]
<1>1. f = [k \in 0..n |-> Step(k)]
  BY DEF FirstChosen
<1>. HIDE DEF Step
<1>2. \A k \in 0..n : f[k] = Step(k)
  BY <1>1
<1>3. 0 \in 0..n /\ \A k \in 1..n : k \in 0..n /\ k # 0
  OBVIOUS
<1>. QED
  BY <1>2, <1>3 DEF Step

\* The choices of one element more.
LEMMA LongerChoices ==
    ASSUME NEW n \in Nat, NEW s, NEW positions, NEW f, FirstChosen(f, s, positions, n)
    PROVE  \E g : FirstChosen(g, s, positions, n + 1)
<1>1. PICK k \in Nat : k = n + 1
  OBVIOUS
<1>2. f[0] = <<>> /\ \A i \in 1..n : f[i] = IF i \in positions THEN Append(f[i - 1], s[i]) ELSE f[i - 1]
  BY ChoiceSteps
<1>. DEFINE last == IF k \in positions THEN Append(f[n], s[k]) ELSE f[n]
            g == [i \in 0..k |-> IF i = k THEN last ELSE f[i]]
            G(i) == IF i = 0 THEN <<>> ELSE IF i \in positions THEN Append(g[i - 1], s[i]) ELSE g[i - 1]
<1>3. \A i \in 0..k : g[i] = G(i)
  <2>. SUFFICES ASSUME NEW i \in 0..k PROVE g[i] = G(i)
    OBVIOUS
  <2>. HIDE DEF last
  <2>1. CASE i = 0
    BY <1>1, <1>2, <2>1
  <2>2. CASE i # 0 /\ i # k
    <3>1. i \in 1..n /\ i - 1 \in 0..k /\ i - 1 # k
      BY <1>1, <2>2
    <3>2. g[i] = f[i] /\ g[i - 1] = f[i - 1]
      BY <2>2, <3>1
    <3>. QED
      BY <1>2, <2>2, <3>1, <3>2
  <2>3. CASE i # 0 /\ i = k
    <3>1. n \in 0..k /\ n # k /\ i - 1 = n
      BY <1>1, <2>3
    <3>2. g[i - 1] = f[n] /\ g[i] = last
      BY <2>3, <3>1
    <3>. QED
      BY <2>3, <3>2 DEF last
  <2>. QED
    BY <2>1, <2>2, <2>3
<1>4. g = [i \in 0..k |-> G(i)]
  <2>1. g = [i \in 0..k |-> g[i]]
    OBVIOUS
  <2>. HIDE DEF g, G
  <2>. QED
    BY <1>3, <2>1
<1>5. FirstChosen(g, s, positions, k)
  <2>. HIDE DEF g
  <2>. QED
    BY <1>4 DEF FirstChosen
<1>. HIDE DEF g
<1>. QED
  BY <1>1, <1>5

\* There are choices of any length: otherwise there is a least n without, and the
\* choices of n - 1 can be made longer.
LEMMA ChoicesExist ==
    ASSUME NEW n \in Nat, NEW s, NEW positions
    PROVE  \E f : FirstChosen(f, s, positions, n)
<1>. DEFINE S == {k \in Nat : ~\E f : FirstChosen(f, s, positions, k)}
<1>1. SUFFICES ASSUME S # {} PROVE FALSE
  OBVIOUS
<1>2. PICK k \in S : \A m \in S : k <= m
  <2>1. S \subseteq Nat
    OBVIOUS
  <2>. HIDE DEF S
  <2>. QED
    BY <1>1, <2>1, LeastNumber
<1>3. k # 0
  <2>1. FirstChosen([i \in 0..0 |-> <<>>], s, positions, 0)
    BY DEF FirstChosen
  <2>. QED
    BY <1>2, <2>1
<1>4. PICK m \in Nat : k = m + 1
  <2>1. k - 1 \in Nat /\ k = (k - 1) + 1
    BY <1>2, <1>3
  <2>. QED
    BY <2>1
<1>5. m \notin S
  BY <1>2, <1>4
<1>6. \E f : FirstChosen(f, s, positions, m + 1)
  BY <1>5, LongerChoices
<1>. QED
  BY <1>2, <1>4, <1>6

\* Chosen is the last of the choices.
LEMMA ChosenIsLast ==
    ASSUME NEW s, NEW positions, Len(s) \in Nat
    PROVE  \E f : FirstChosen(f, s, positions, Len(s)) /\ Chosen(s, positions) = f[Len(s)]
<1>. DEFINE f == CHOOSE g : g = [n \in 0..Len(s) |->
                    IF n = 0 THEN <<>>
                    ELSE IF n \in positions THEN Append(g[n - 1], s[n]) ELSE g[n - 1]]
<1>1. Chosen(s, positions) = f[Len(s)]
  BY DEF Chosen
<1>2. \E g : FirstChosen(g, s, positions, Len(s))
  BY ChoicesExist
<1>3. \E g : g = [n \in 0..Len(s) |->
                    IF n = 0 THEN <<>>
                    ELSE IF n \in positions THEN Append(g[n - 1], s[n]) ELSE g[n - 1]]
  BY <1>2 DEF FirstChosen
<1>4. f = [n \in 0..Len(s) |->
             IF n = 0 THEN <<>> ELSE IF n \in positions THEN Append(f[n - 1], s[n]) ELSE f[n - 1]]
  BY <1>3
<1>. HIDE DEF f
<1>5. FirstChosen(f, s, positions, Len(s))
  BY <1>4 DEF FirstChosen
<1>. QED
  BY <1>1, <1>5

\* FirstChosen agree as far as the elements and the positions do.
LEMMA ChoicesAgree ==
    ASSUME NEW n \in Nat, NEW m \in 0..n, NEW s, NEW p, NEW f, FirstChosen(f, s, p, n),
           NEW t, NEW q, NEW g, FirstChosen(g, t, q, m),
           \A k \in 1..m : s[k] = t[k] /\ (k \in p <=> k \in q)
    PROVE  \A k \in 0..m : f[k] = g[k]
<1>. DEFINE S == {k \in 0..m : f[k] # g[k]}
<1>1. SUFFICES ASSUME S # {} PROVE FALSE
  OBVIOUS
<1>2. PICK k \in S : \A i \in S : k <= i
  <2>1. S \subseteq Nat
    OBVIOUS
  <2>. HIDE DEF S
  <2>. QED
    BY <1>1, <2>1, LeastNumber
<1>3. f[0] = <<>> /\ g[0] = <<>>
  BY ChoiceSteps
<1>4. \A i \in 1..n : f[i] = IF i \in p THEN Append(f[i - 1], s[i]) ELSE f[i - 1]
  BY ChoiceSteps
<1>5. \A i \in 1..m : g[i] = IF i \in q THEN Append(g[i - 1], t[i]) ELSE g[i - 1]
  BY ChoiceSteps
<1>6. k \in 1..m /\ k \in 1..n /\ k - 1 \in 0..m /\ k - 1 < k
  <2>1. k # 0
    BY <1>2, <1>3
  <2>. QED
    BY <1>2, <2>1
<1>7. f[k - 1] = g[k - 1]
  BY <1>2, <1>6
<1>8. f[k] = IF k \in p THEN Append(f[k - 1], s[k]) ELSE f[k - 1]
  BY <1>4, <1>6
<1>9. g[k] = IF k \in q THEN Append(g[k - 1], t[k]) ELSE g[k - 1]
  BY <1>5, <1>6
<1>10. s[k] = t[k] /\ (k \in p <=> k \in q)
  BY <1>6
<1>11. f[k] = g[k]
  BY <1>7, <1>8, <1>9, <1>10
<1>. QED
  BY <1>2, <1>11

\* What is chosen depends on the positions of the sequence alone.
LEMMA ChosenSame ==
    ASSUME NEW s, NEW t, Len(s) \in Nat, Len(t) = Len(s), NEW p, NEW q,
           \A k \in 1..Len(s) : s[k] = t[k] /\ (k \in p <=> k \in q)
    PROVE  Chosen(s, p) = Chosen(t, q)
<1>1. PICK n \in Nat : n = Len(s)
  OBVIOUS
<1>2. PICK f : FirstChosen(f, s, p, n) /\ Chosen(s, p) = f[n]
  BY <1>1, ChosenIsLast
<1>3. PICK g : FirstChosen(g, t, q, n) /\ Chosen(t, q) = g[n]
  BY <1>1, ChosenIsLast
<1>4. FirstChosen(f, s, p, n) /\ FirstChosen(g, t, q, n) /\ n \in 0..n
  BY <1>2, <1>3
<1>5. \A k \in 0..n : f[k] = g[k]
  BY <1>1, <1>4, ChoicesAgree
<1>. QED
  BY <1>2, <1>3, <1>4, <1>5

\* Of nothing, nothing is chosen.
LEMMA ChosenNone ==
    ASSUME NEW s, NEW p, Len(s) = 0
    PROVE  Chosen(s, p) = <<>>
<1>1. PICK f : FirstChosen(f, s, p, Len(s)) /\ Chosen(s, p) = f[Len(s)]
  BY ChosenIsLast
<1>2. FirstChosen(f, s, p, 0)
  BY <1>1
<1>3. f[0] = <<>>
  BY <1>2, ChoiceSteps
<1>. QED
  BY <1>1, <1>3

\* One element more is chosen if its position is.
LEMMA ChosenOneMore ==
    ASSUME NEW n \in Nat, NEW s, Len(s) = n, NEW t, Len(t) = n + 1,
           \A k \in 1..n : t[k] = s[k], NEW p
    PROVE  Chosen(t, p) = IF n + 1 \in p THEN Append(Chosen(s, p), t[n + 1]) ELSE Chosen(s, p)
<1>1. PICK m \in Nat : m = n + 1
  OBVIOUS
<1>2. PICK f : FirstChosen(f, s, p, n) /\ Chosen(s, p) = f[n]
  BY ChosenIsLast
<1>3. PICK g : FirstChosen(g, t, p, m) /\ Chosen(t, p) = g[m]
  BY <1>1, ChosenIsLast
<1>4. FirstChosen(f, s, p, n) /\ FirstChosen(g, t, p, m) /\ n \in 0..m /\ n \in 0..n
  BY <1>1, <1>2, <1>3
<1>5. \A k \in 0..n : g[k] = f[k]
  BY <1>4, ChoicesAgree
<1>6. m \in 1..m /\ m - 1 = n
  BY <1>1
<1>7. g[m] = IF m \in p THEN Append(g[m - 1], t[m]) ELSE g[m - 1]
  BY <1>4, <1>6, ChoiceSteps
<1>. QED
  BY <1>1, <1>2, <1>3, <1>4, <1>5, <1>6, <1>7

\* What is chosen is a sequence of elements at chosen positions.
LEMMA ChosenType ==
    ASSUME NEW s, Len(s) \in Nat, NEW p, NEW X, \A k \in 1..Len(s) : k \in p => s[k] \in X
    PROVE  Chosen(s, p) \in Seq(X)
<1>1. PICK n \in Nat : n = Len(s)
  OBVIOUS
<1>2. PICK f : FirstChosen(f, s, p, n) /\ Chosen(s, p) = f[n]
  BY <1>1, ChosenIsLast
<1>. DEFINE S == {k \in 0..n : f[k] \notin Seq(X)}
<1>3. SUFFICES ASSUME S # {} PROVE FALSE
  BY <1>2
<1>4. PICK k \in S : \A i \in S : k <= i
  <2>1. S \subseteq Nat
    OBVIOUS
  <2>. HIDE DEF S
  <2>. QED
    BY <1>3, <2>1, LeastNumber
<1>5. n \in Nat /\ FirstChosen(f, s, p, n)
  BY <1>2
<1>6. f[0] = <<>> /\ \A i \in 1..n : f[i] = IF i \in p THEN Append(f[i - 1], s[i]) ELSE f[i - 1]
  BY ONLY <1>5, ChoiceSteps
<1>7. k \in 1..n /\ k - 1 \in 0..n /\ k - 1 < k
  <2>1. k # 0
    <3>1. f[0] \in Seq(X)
      BY <1>6
    <3>. QED
      BY <1>4, <3>1
  <2>. QED
    BY <1>4, <2>1
<1>8. f[k - 1] \in Seq(X)
  BY <1>4, <1>7
<1>9. f[k] = IF k \in p THEN Append(f[k - 1], s[k]) ELSE f[k - 1]
  BY <1>6, <1>7
<1>10. k \in p => s[k] \in X
  BY <1>1, <1>7
<1>11. f[k] \in Seq(X)
  BY <1>8, <1>9, <1>10
<1>. QED
  BY <1>4, <1>11

-------------------------------------------------------------------------------
\* f[k] is the first k sequences one after the other.
Joined(f, seqs, n) == f = [k \in 1..n |-> IF k = 1 THEN seqs[k] ELSE f[k - 1] \o seqs[k]]

\* Such sequences step by step.
LEMMA JoinedSteps ==
    ASSUME NEW n \in Nat, NEW seqs, NEW f, Joined(f, seqs, n)
    PROVE  \A k \in 1..n : f[k] = IF k = 1 THEN seqs[k] ELSE f[k - 1] \o seqs[k]
<1>. DEFINE Step(k) == IF k = 1 THEN seqs[k] ELSE f[k - 1] \o seqs[k]
<1>1. f = [k \in 1..n |-> Step(k)]
  BY DEF Joined
<1>. HIDE DEF Step
<1>2. \A k \in 1..n : f[k] = Step(k)
  BY <1>1
<1>. QED
  BY <1>2 DEF Step

\* One sequence more can be joined.
LEMMA JoinedLonger ==
    ASSUME NEW n \in Nat, NEW seqs, NEW f, Joined(f, seqs, n)
    PROVE  \E g : Joined(g, seqs, n + 1)
<1>1. PICK k \in Nat : k = n + 1
  OBVIOUS
<1>2. \A i \in 1..n : f[i] = IF i = 1 THEN seqs[i] ELSE f[i - 1] \o seqs[i]
  BY JoinedSteps
<1>. DEFINE last == IF k = 1 THEN seqs[k] ELSE f[n] \o seqs[k]
            g == [i \in 1..k |-> IF i = k THEN last ELSE f[i]]
            G(i) == IF i = 1 THEN seqs[i] ELSE g[i - 1] \o seqs[i]
<1>3. \A i \in 1..k : g[i] = G(i)
  <2>. SUFFICES ASSUME NEW i \in 1..k PROVE g[i] = G(i)
    OBVIOUS
  <2>. HIDE DEF last
  <2>1. CASE i = 1 /\ i # k
    <3>1. i \in 1..n /\ g[i] = f[i]
      BY <1>1, <2>1
    <3>. QED
      BY <1>2, <2>1, <3>1
  <2>2. CASE i # 1 /\ i # k
    <3>1. i \in 1..n /\ i - 1 \in 1..k /\ i - 1 # k
      BY <1>1, <2>2
    <3>2. g[i] = f[i] /\ g[i - 1] = f[i - 1]
      BY <2>2, <3>1
    <3>. QED
      BY <1>2, <2>2, <3>1, <3>2
  <2>3. CASE i # 1 /\ i = k
    <3>1. n \in 1..k /\ n # k /\ i - 1 = n
      BY <1>1, <2>3
    <3>2. g[i - 1] = f[n] /\ g[i] = last
      BY <2>3, <3>1
    <3>. QED
      BY <2>3, <3>2 DEF last
  <2>4. CASE i = 1 /\ i = k
    <3>1. g[i] = last
      BY <2>4
    <3>. QED
      BY <2>4, <3>1 DEF last
  <2>. QED
    BY <2>1, <2>2, <2>3, <2>4
<1>4. g = [i \in 1..k |-> G(i)]
  <2>1. g = [i \in 1..k |-> g[i]]
    OBVIOUS
  <2>. HIDE DEF g, G
  <2>. QED
    BY <1>3, <2>1
<1>5. Joined(g, seqs, k)
  <2>. HIDE DEF g
  <2>. QED
    BY <1>4 DEF Joined
<1>. HIDE DEF g
<1>. QED
  BY <1>1, <1>5

\* Any number of sequences can be joined.
LEMMA JoinedExist ==
    ASSUME NEW n \in Nat, NEW seqs
    PROVE  \E f : Joined(f, seqs, n)
<1>. DEFINE S == {k \in Nat : ~\E f : Joined(f, seqs, k)}
<1>1. SUFFICES ASSUME S # {} PROVE FALSE
  OBVIOUS
<1>2. PICK k \in S : \A m \in S : k <= m
  <2>1. S \subseteq Nat
    OBVIOUS
  <2>. HIDE DEF S
  <2>. QED
    BY <1>1, <2>1, LeastNumber
<1>3. k # 0
  <2>1. Joined([i \in 1..0 |-> <<>>], seqs, 0)
    BY DEF Joined
  <2>. QED
    BY <1>2, <2>1
<1>4. PICK m \in Nat : k = m + 1
  <2>1. k - 1 \in Nat /\ k = (k - 1) + 1
    BY <1>2, <1>3
  <2>. QED
    BY <2>1
<1>5. m \notin S
  BY <1>2, <1>4
<1>6. \E f : Joined(f, seqs, m + 1)
  BY <1>5, JoinedLonger
<1>. QED
  BY <1>2, <1>4, <1>6

\* FlattenSeq joins sequences of these elements to one of these elements.
LEMMA FlattenType ==
    ASSUME NEW n \in Nat, NEW X, NEW seqs \in [1..n -> Seq(X)]
    PROVE  FlattenSeq(seqs) \in Seq(X)
<1>1. Len(seqs) = n
  <2>1. seqs \in Seq(Seq(X)) /\ DOMAIN seqs = 1..n
    OBVIOUS
  <2>. QED
    BY <2>1
<1>2. CASE n = 0
  <2>1. seqs = <<>>
    BY <1>2
  <2>2. FlattenSeq(seqs) = seqs
    BY <1>1, <1>2 DEF FlattenSeq
  <2>3. <<>> \in Seq(X)
    OBVIOUS
  <2>. QED
    BY <2>1, <2>2, <2>3
<1>3. CASE n # 0
  <2>. DEFINE f == CHOOSE g : g = [i \in 1..Len(seqs) |-> IF i = 1 THEN seqs[i] ELSE g[i - 1] \o seqs[i]]
  <2>1. FlattenSeq(seqs) = f[Len(seqs)]
    BY <1>1, <1>3 DEF FlattenSeq
  <2>2. \E g : Joined(g, seqs, Len(seqs))
    BY <1>1, JoinedExist
  <2>3. \E g : g = [i \in 1..Len(seqs) |-> IF i = 1 THEN seqs[i] ELSE g[i - 1] \o seqs[i]]
    BY <2>2 DEF Joined
  <2>4. f = [i \in 1..Len(seqs) |-> IF i = 1 THEN seqs[i] ELSE f[i - 1] \o seqs[i]]
    BY <2>3
  <2>. HIDE DEF f
  <2>5. Joined(f, seqs, n)
    BY <1>1, <2>4 DEF Joined
  <2>6. \A i \in 1..n : f[i] = IF i = 1 THEN seqs[i] ELSE f[i - 1] \o seqs[i]
    BY <2>5, JoinedSteps
  <2>. DEFINE S == {k \in 1..n : f[k] \notin Seq(X)}
  <2>0. n \in 1..n /\ FlattenSeq(seqs) = f[n]
    BY <1>1, <1>3, <2>1
  <2>7. SUFFICES ASSUME S # {} PROVE FALSE
    <3>1. n \notin S => f[n] \in Seq(X)
      BY <2>0
    <3>. QED
      BY <2>0, <3>1
  <2>8. PICK k \in S : \A i \in S : k <= i
    <3>1. S \subseteq Nat
      OBVIOUS
    <3>. HIDE DEF S
    <3>. QED
      BY <2>7, <3>1, LeastNumber
  <2>9. k \in 1..n /\ seqs[k] \in Seq(X) /\ f[k] = IF k = 1 THEN seqs[k] ELSE f[k - 1] \o seqs[k]
    BY <2>6, <2>8
  <2>10. CASE k = 1
    BY <2>8, <2>9, <2>10
  <2>11. CASE k # 1
    <3>1. k - 1 \in 1..n /\ k - 1 < k
      BY <2>9, <2>11
    <3>2. f[k - 1] \in Seq(X)
      BY <2>8, <3>1
    <3>3. f[k - 1] \o seqs[k] \in Seq(X)
      BY <2>9, <3>2
    <3>. QED
      BY <2>8, <2>9, <2>11, <3>3
  <2>. QED
    BY <2>10, <2>11
<1>. QED
  BY <1>2, <1>3

-------------------------------------------------------------------------------
(***************************************************************************)
(* The messages of a lane whose files are merged or taken as they come.    *)
(***************************************************************************)
Kept == {"codex", "copilot", "grok", "kiro"}

\* What is chosen is of the sequence.
LEMMA ChosenOfSequence ==
    ASSUME NEW X, NEW s \in Seq(X), NEW p
    PROVE  Chosen(s, p) \in Seq(X)
<1>1. Len(s) \in Nat /\ \A k \in 1..Len(s) : s[k] \in X
  OBVIOUS
<1>. QED
  BY <1>1, ChosenType

\* A lane makes a sequence of the messages of its files.
LEMMA MergedType ==
    ASSUME NEW l, NEW X, NEW s \in Seq(X)
    PROVE  \E Y : Merged(l, s) \in Seq(Y)
<1>1. CASE l = "copilot"
  <2>1. PICK otel, desktop : /\ otel = Chosen(s, {i \in DOMAIN s : ~s[i].desktop})
                             /\ desktop = Chosen(s, {i \in DOMAIN s : s[i].desktop})
    OBVIOUS
  <2>2. otel \in Seq(X) /\ desktop \in Seq(X)
    BY <2>1, ChosenOfSequence
  <2>3. Merged(l, s) = PreferCopilotOtel(otel, desktop)
    BY <1>1, <2>1 DEF Merged
  <2>4. PICK p : p = {i \in DOMAIN desktop : desktop[i].session \notin SessionsOf(otel)}
    OBVIOUS
  <2>5. Chosen(desktop, p) \in Seq(X)
    BY <2>2, ChosenOfSequence
  <2>6. PreferCopilotOtel(otel, desktop) = otel \o Chosen(desktop, p)
    BY <2>4 DEF PreferCopilotOtel
  <2>7. otel \o Chosen(desktop, p) \in Seq(X)
    BY <2>2, <2>5
  <2>. QED
    BY <2>3, <2>6, <2>7
<1>2. CASE l = "grok"
  <2>1. PICK t : t = [i \in DOMAIN s |-> Completed(s[i], s)]
    OBVIOUS
  <2>2. PICK Y : Y = {Completed(s[i], s) : i \in DOMAIN s}
    OBVIOUS
  <2>3. t \in Seq(Y)
    BY <2>1, <2>2
  <2>4. \E p : PreferUnifiedLog(s) = Chosen(t, p)
    BY <2>1 DEF PreferUnifiedLog
  <2>5. PreferUnifiedLog(s) \in Seq(Y)
    BY <2>3, <2>4, ChosenOfSequence
  <2>. QED
    BY <1>2, <2>5 DEF Merged
<1>3. CASE l = "kiro"
  <2>1. PICK executions : executions = {m \in ToSet(s) : m.kind = "execution"}
    OBVIOUS
  <2>2. PICK t : t = Chosen(s, {i \in DOMAIN s : ~Superseded(s[i], executions)})
    OBVIOUS
  <2>3. t \in Seq(X)
    BY <2>2, ChosenOfSequence
  <2>4. MergeKiro(s) = FirstOfEach(t)
    BY <2>1, <2>2 DEF MergeKiro
  <2>5. \E p : FirstOfEach(t) = Chosen(t, p)
    BY DEF FirstOfEach
  <2>6. MergeKiro(s) \in Seq(X)
    BY <2>3, <2>4, <2>5, ChosenOfSequence
  <2>. QED
    BY <1>3, <2>6 DEF Merged
<1>4. CASE l \notin {"copilot", "grok", "kiro"}
  BY <1>4 DEF Merged
<1>. QED
  BY <1>1, <1>2, <1>3, <1>4

\* The files of a lane hold what they may hold.
FilesInv(l, files) ==
    /\ l \in Lanes
    /\ files = [p \in Path |-> files[p]]
    /\ \A p \in Path : files[p] # NoFile => files[p] \in Contents[l][p]


\* Files of sequences are listed in a sequence.
LEMMA ListedType ==
    ASSUME NEW l, NEW files, FilesInv(l, files)
    PROVE  \E X : /\ Listed(files) \in Seq(X)
                  /\ \A m \in X : \E p \in Path : files[p] # NoFile /\ m \in ToSet(files[p])
<1>1. PICK n \in Nat : n = Cardinality(Path)
  BY LaneAssumption, FS_CardinalityType
<1>2. Path = 1..n
  BY <1>1, LaneAssumption
<1>3. PICK X : X = UNION {ToSet(files[p]) : p \in {p \in Path : files[p] # NoFile}}
  OBVIOUS
<1>4. PICK seqs : seqs = [p \in 1..n |-> IF files[p] = NoFile THEN <<>> ELSE files[p]]
  OBVIOUS
<1>5. \A p \in 1..n : seqs[p] \in Seq(X)
  <2>1. SUFFICES ASSUME NEW p \in 1..n PROVE seqs[p] \in Seq(X)
    OBVIOUS
  <2>2. CASE files[p] = NoFile
    <3>1. seqs[p] = <<>>
      BY <1>4, <2>1, <2>2
    <3>2. <<>> \in Seq(X)
      OBVIOUS
    <3>. QED
      BY <3>1, <3>2
  <2>3. CASE files[p] # NoFile
    <3>1. seqs[p] = files[p]
      BY <1>4, <2>1, <2>3
    <3>2. files[p] \in Seq(ToSet(files[p]))
      BY <1>2, <2>1, <2>3, LaneAssumption DEF FilesInv
    <3>3. ToSet(files[p]) \subseteq X
      BY <1>2, <1>3, <2>1, <2>3
    <3>4. PICK s, T : s = files[p] /\ T = ToSet(files[p])
      OBVIOUS
    <3>5. s \in Seq(T) /\ T \subseteq X
      BY <3>2, <3>3, <3>4
    <3>6. s \in Seq(X)
      BY <3>5
    <3>. QED
      BY <3>1, <3>4, <3>6
  <2>. QED
    BY <2>2, <2>3
<1>6. seqs \in [1..n -> Seq(X)]
  BY <1>4, <1>5
<1>7. Listed(files) = FlattenSeq(seqs)
  BY <1>1, <1>4 DEF Listed
<1>8. Listed(files) \in Seq(X)
  BY <1>6, <1>7, FlattenType
<1>9. \A m \in X : \E p \in Path : files[p] # NoFile /\ m \in ToSet(files[p])
  BY <1>3
<1>. QED
  BY <1>8, <1>9

-------------------------------------------------------------------------------
(***************************************************************************)
(* Where a scan is: n messages of a sequence have been gone through.       *)
(***************************************************************************)
SeenIn(messages, n) == {messages[i].key : i \in {i \in 1..n : messages[i].passes /\ messages[i].key # NoKey}}

Progress(l, rest, out, seen, messages, n) ==
    /\ n \in 0..Len(messages)
    /\ rest = SubSeq(messages, n + 1, Len(messages))
    /\ out = Chosen(SubSeq(messages, 1, n), Reported(l, messages))
    /\ l \in Gated => seen = SeenIn(messages, n)

\* Going through the first of the rest.
LEMMA OneMore ==
    ASSUME NEW X, NEW Q \in Seq(X), NEW n \in 0..Len(Q), NEW rest, rest = SubSeq(Q, n + 1, Len(Q)), rest # <<>>
    PROVE  /\ n + 1 \in 1..Len(Q) /\ n + 1 \in 0..Len(Q)
           /\ Head(rest) = Q[n + 1]
           /\ Tail(rest) = SubSeq(Q, (n + 1) + 1, Len(Q))
           /\ \A p : Chosen(SubSeq(Q, 1, n + 1), p) =
                       IF n + 1 \in p THEN Append(Chosen(SubSeq(Q, 1, n), p), Q[n + 1])
                       ELSE Chosen(SubSeq(Q, 1, n), p)
<1>1. PICK k : k = Len(Q)
  OBVIOUS
<1>2. k \in Nat /\ n \in Nat
  BY <1>1
<1>3. n < k
  <2>1. SUFFICES ASSUME n = k PROVE FALSE
    BY <1>1, <1>2
  <2>2. rest = <<>>
    BY <1>1, <1>2, <2>1
  <2>. QED
    BY <2>2
<1>4. n + 1 \in 1..k /\ n + 1 \in 0..k
  BY <1>2, <1>3
<1>5. Head(rest) = Q[n + 1] /\ Tail(rest) = SubSeq(Q, (n + 1) + 1, Len(Q))
  BY <1>1, <1>2, <1>3
<1>6. PICK s, t : s = SubSeq(Q, 1, n) /\ t = SubSeq(Q, 1, n + 1)
  OBVIOUS
<1>7. Len(s) = n /\ Len(t) = n + 1 /\ \A i \in 1..n : s[i] = Q[i]
  BY <1>1, <1>2, <1>3, <1>6
<1>8. \A i \in 1..(n + 1) : t[i] = Q[i]
  BY <1>1, <1>2, <1>3, <1>6
<1>9. (\A i \in 1..n : t[i] = s[i]) /\ t[n + 1] = Q[n + 1]
  BY <1>2, <1>7, <1>8
<1>10. \A p : Chosen(t, p) = IF n + 1 \in p THEN Append(Chosen(s, p), t[n + 1]) ELSE Chosen(s, p)
  <2>1. n \in Nat /\ Len(s) = n /\ Len(t) = n + 1 /\ \A i \in 1..n : t[i] = s[i]
    BY <1>2, <1>7, <1>9
  <2>. QED
    BY ONLY <2>1, ChosenOneMore
<1>. QED
  BY <1>1, <1>4, <1>5, <1>6, <1>9, <1>10

\* A sequence gone through to its end is read as a whole, and one at its start not at all.
LEMMA Ends ==
    ASSUME NEW X, NEW Q \in Seq(X)
    PROVE  /\ SubSeq(Q, 1, Len(Q)) = Q
           /\ \A p : Chosen(SubSeq(Q, 1, 0), p) = <<>>
           /\ \A n \in 0..Len(Q) : SubSeq(Q, n + 1, Len(Q)) = <<>> => n = Len(Q)
<1>1. SubSeq(Q, 1, Len(Q)) = Q
  OBVIOUS
<1>2. Len(SubSeq(Q, 1, 0)) = 0
  OBVIOUS
<1>3. \A n \in 0..Len(Q) : SubSeq(Q, n + 1, Len(Q)) = <<>> => n = Len(Q)
  <2>1. SUFFICES ASSUME NEW n \in 0..Len(Q), SubSeq(Q, n + 1, Len(Q)) = <<>> PROVE n = Len(Q)
    OBVIOUS
  <2>2. PICK k \in Nat : k = Len(Q)
    OBVIOUS
  <2>3. Len(SubSeq(Q, n + 1, k)) = k - n
    BY <2>2
  <2>4. Len(SubSeq(Q, n + 1, k)) = 0
    BY <2>1, <2>2
  <2>. QED
    BY <2>1, <2>2, <2>3, <2>4
<1>. QED
  BY <1>1, <1>2, <1>3, ChosenNone

\* A message passes the gate and the filters if it is to be reported.
LEMMA ReportedOrNot ==
    ASSUME NEW l, NEW X, NEW Q \in Seq(X), NEW n \in Nat, n + 1 \in 1..Len(Q)
    PROVE  n + 1 \in Reported(l, Q) <=>
             /\ Q[n + 1].passes /\ Q[n + 1].wanted
             /\ l \in Gated /\ Q[n + 1].key # NoKey => Q[n + 1].key \notin SeenIn(Q, n)
<1>1. PICK k : k = n + 1
  OBVIOUS
<1>2. k \in DOMAIN Q /\ k - 1 = n
  BY <1>1
<1>3. k \in FirstCopies(Q) <=>
        Q[k].passes /\ (Q[k].key # NoKey => \A j \in 1..n : Q[j].passes => Q[j].key # Q[k].key)
  BY <1>2 DEF FirstCopies
<1>4. Q[k].key # NoKey =>
        ((\A j \in 1..n : Q[j].passes => Q[j].key # Q[k].key) <=> Q[k].key \notin SeenIn(Q, n))
  BY DEF SeenIn
<1>5. k \in Reported(l, Q) <=>
        /\ k \in (IF l \in Gated THEN FirstCopies(Q) ELSE DOMAIN Q)
        /\ Q[k].passes /\ Q[k].wanted
  BY DEF Reported
<1>6. CASE l \in Gated
  BY <1>1, <1>3, <1>4, <1>5, <1>6
<1>7. CASE l \notin Gated
  BY <1>1, <1>2, <1>5, <1>7
<1>. QED
  BY <1>6, <1>7

\* What the gate has seen with one message more.
LEMMA SeenOneMore ==
    ASSUME NEW Q, NEW n \in Nat
    PROVE  SeenIn(Q, n + 1) =
             IF Q[n + 1].passes /\ Q[n + 1].key # NoKey THEN SeenIn(Q, n) \cup {Q[n + 1].key} ELSE SeenIn(Q, n)
<1>1. 1..(n + 1) = (1..n) \cup {n + 1}
  OBVIOUS
<1>2. {i \in 1..(n + 1) : Q[i].passes /\ Q[i].key # NoKey} =
        {i \in 1..n : Q[i].passes /\ Q[i].key # NoKey} \cup
          (IF Q[n + 1].passes /\ Q[n + 1].key # NoKey THEN {n + 1} ELSE {})
  BY <1>1
<1>. QED
  BY <1>2 DEF SeenIn

\* Of a lane whose reports do not show the cache.
KeptInv ==
    lane \in Kept =>
      /\ FilesInv(lane, file)
      /\ \A p \in Path : cache[p].messages # <<>> => cache[p].messages = cache[p].of
      /\ "seen" \in DOMAIN gate
      /\ step = "idle" => gate.seen = {} /\ sunk = <<>>
      /\ step # "idle" => \E n : Progress(lane, queue, sunk, gate.seen, Merged(lane, Live), n)
      /\ step \in {"flush", "done"} => queue = <<>>

\* The messages of a scan are those that the files hold, whatever the cache holds.
LEMMA QueueIsLive ==
    ASSUME lane \in Kept, KeptInv
    PROVE  Queue = Merged(lane, Live)
<1>1. PICK n : n = Cardinality(Path)
  OBVIOUS
<1>2. Path = 1..n
  BY <1>1, LaneAssumption
<1>3. \A p \in Path : MessagesOf(p) = IF file[p] = NoFile THEN <<>> ELSE file[p]
  BY DEF KeptInv, Kept, MessagesOf, IsHit
<1>4. PICK held0 : held0 = [p \in 1..n |-> IF file[p] = NoFile THEN <<>> ELSE file[p]]
  OBVIOUS
<1>5. DOMAIN Listing = 1..n /\ \A i \in 1..n : Listing[i] = i
  BY <1>1 DEF Listing
<1>6. [i \in DOMAIN Listing |-> MessagesOf(Listing[i])] = held0
  BY <1>2, <1>3, <1>4, <1>5
<1>7. InOrder(Listing) = FlattenSeq(held0)
  BY <1>6 DEF InOrder
<1>8. Live = FlattenSeq(held0)
  BY <1>1, <1>4 DEF Live, Listed
<1>. QED
  BY <1>7, <1>8 DEF Queue, Kept

\* The live messages of a lane, merged, are a sequence.
LEMMA LiveType ==
    ASSUME lane \in Kept, KeptInv
    PROVE  \E X : Merged(lane, Live) \in Seq(X)
<1>1. PICK X : Live \in Seq(X)
  BY ListedType DEF KeptInv, Live
<1>. QED
  BY <1>1, MergedType

\* Writing a file leaves the rest.
LEMMA WriteKept ==
    ASSUME lane \in Kept, KeptInv, NEW p \in Path, Write(p)
    PROVE  KeptInv'
<1>1. PICK content : content \in Contents[lane][p] \cup {NoFile} /\ file' = [file EXCEPT ![p] = content]
  BY DEF Write
<1>2. FilesInv(lane, file')
  BY <1>1 DEF KeptInv, FilesInv
<1>. QED
  BY <1>2 DEF KeptInv, Write

\* A scan starts with what the files hold, and caches that.
LEMMA ScanKept ==
    ASSUME lane \in Kept, KeptInv, Scan
    PROVE  KeptInv'
<1>1. UNCHANGED <<lane, file, gate, sunk>> /\ step = "idle" /\ step' = "emit" /\ queue' = Queue
  BY DEF Scan
<1>2. cache' = [p \in Path |-> EntryAfter(p)]
  BY DEF Scan, Kept, Cached
<1>3. \A p \in Path : cache'[p].messages # <<>> => cache'[p].messages = cache'[p].of
  <2>1. SUFFICES ASSUME NEW p \in Path PROVE cache'[p].messages # <<>> => cache'[p].messages = cache'[p].of
    OBVIOUS
  <2>2. MessagesOf(p) = IF file[p] = NoFile THEN <<>> ELSE file[p]
    BY <2>1 DEF KeptInv, Kept, MessagesOf, IsHit
  <2>3. cache'[p] = EntryAfter(p)
    BY <1>2, <2>1
  <2>4. EntryAfter(p) \in {NoEntry, cache[p], [of |-> file[p], messages |-> MessagesOf(p)]}
    BY DEF EntryAfter
  <2>. QED
    BY <2>1, <2>2, <2>3, <2>4 DEF KeptInv, NoEntry
<1>4. Live' = Live
  BY <1>1 DEF Live
<1>5. PICK X, Q : Q \in Seq(X) /\ Q = Merged(lane, Live)
  BY LiveType
<1>6. queue' = Q
  BY <1>1, <1>5, QueueIsLive
<1>7. Progress(lane, Q, <<>>, {}, Q, 0)
  <2>1. SeenIn(Q, 0) = {}
    BY DEF SeenIn
  <2>2. 0 \in 0..Len(Q) /\ 0 + 1 = 1
    BY <1>5
  <2>3. Q = SubSeq(Q, 1, Len(Q)) /\ Chosen(SubSeq(Q, 1, 0), Reported(lane, Q)) = <<>>
    BY <1>5, Ends
  <2>. QED
    BY <2>1, <2>2, <2>3 DEF Progress
<1>8. gate.seen = {} /\ sunk = <<>>
  BY <1>1 DEF KeptInv
<1>9. Progress(lane', queue', sunk', gate'.seen, Merged(lane', Live'), 0)
  BY <1>1, <1>4, <1>5, <1>6, <1>7, <1>8
<1>. QED
  BY <1>1, <1>3, <1>9 DEF KeptInv

\* One message of a gated lane.
LEMMA EmitKept ==
    ASSUME lane \in Kept, KeptInv, Emit
    PROVE  KeptInv'
<1>1. UNCHANGED <<lane, file, cache, step>> /\ step = "emit" /\ queue # <<>> /\ queue' = Tail(queue)
  BY DEF Emit
<1>2. lane \in Gated /\ Gate(Head(queue))
  BY DEF Emit
<1>3. PICK X, Q : Q \in Seq(X) /\ Q = Merged(lane, Live)
  BY LiveType
<1>4. PICK n : Progress(lane, queue, sunk, gate.seen, Q, n)
  BY <1>1, <1>3 DEF KeptInv
<1>5. /\ n \in 0..Len(Q) /\ queue = SubSeq(Q, n + 1, Len(Q))
      /\ sunk = Chosen(SubSeq(Q, 1, n), Reported(lane, Q))
      /\ gate.seen = SeenIn(Q, n)
  BY <1>2, <1>4 DEF Progress
<1>6. /\ n + 1 \in 1..Len(Q) /\ n + 1 \in 0..Len(Q)
      /\ Head(queue) = Q[n + 1]
      /\ Tail(queue) = SubSeq(Q, (n + 1) + 1, Len(Q))
      /\ \A p : Chosen(SubSeq(Q, 1, n + 1), p) =
                  IF n + 1 \in p THEN Append(Chosen(SubSeq(Q, 1, n), p), Q[n + 1])
                  ELSE Chosen(SubSeq(Q, 1, n), p)
  <2>1. Q \in Seq(X) /\ n \in 0..Len(Q) /\ queue = SubSeq(Q, n + 1, Len(Q)) /\ queue # <<>>
    BY <1>1, <1>3, <1>5
  <2>. QED
    BY ONLY <2>1, OneMore
<1>7. PICK m : m = Q[n + 1]
  OBVIOUS
<1>8. n \in Nat
  BY <1>5
<1>9. n + 1 \in Reported(lane, Q) <=>
        m.passes /\ m.wanted /\ (m.key # NoKey => m.key \notin gate.seen)
  BY <1>2, <1>3, <1>5, <1>6, <1>7, <1>8, ReportedOrNot
<1>10. SeenIn(Q, n + 1) = IF m.passes /\ m.key # NoKey THEN gate.seen \cup {m.key} ELSE gate.seen
  BY <1>5, <1>7, <1>8, SeenOneMore
<1>11. /\ "seen" \in DOMAIN gate'
       /\ gate'.seen = IF m.passes /\ m.key # NoKey THEN gate.seen \cup {m.key} ELSE gate.seen
       /\ sunk' = IF m.passes /\ m.wanted /\ (m.key # NoKey => m.key \notin gate.seen)
                  THEN Append(sunk, m) ELSE sunk
  <2>1. Gate(m) /\ "seen" \in DOMAIN gate
    BY <1>2, <1>6, <1>7 DEF KeptInv
  <2>2. CASE ~m.passes \/ (m.key # NoKey /\ m.key \in gate.seen)
    BY <2>1, <2>2 DEF Gate
  <2>3. CASE m.passes /\ ~(m.key # NoKey /\ m.key \in gate.seen)
    BY <2>1, <2>3 DEF Gate, Sink
  <2>. QED
    BY <2>2, <2>3
<1>12. sunk' = Chosen(SubSeq(Q, 1, n + 1), Reported(lane, Q))
  BY <1>5, <1>6, <1>7, <1>9, <1>11
<1>13. Progress(lane, queue', sunk', gate'.seen, Q, n + 1)
  BY <1>1, <1>6, <1>10, <1>11, <1>12 DEF Progress
<1>14. Live' = Live
  BY <1>1 DEF Live
<1>15. Progress(lane', queue', sunk', gate'.seen, Merged(lane', Live'), n + 1)
  BY <1>1, <1>3, <1>13, <1>14
<1>. QED
  BY <1>1, <1>11, <1>15 DEF KeptInv

\* One message of Kiro, which has no gate.
LEMMA EmitKiroKept ==
    ASSUME lane \in Kept, KeptInv, EmitKiro
    PROVE  KeptInv'
<1>1. UNCHANGED <<lane, file, cache, step, gate>> /\ step = "emit" /\ queue # <<>> /\ queue' = Tail(queue)
  BY DEF EmitKiro
<1>2. lane \notin Gated /\ Sink(Head(queue))
  BY DEF EmitKiro, Gated
<1>3. PICK X, Q : Q \in Seq(X) /\ Q = Merged(lane, Live)
  BY LiveType
<1>4. PICK n : Progress(lane, queue, sunk, gate.seen, Q, n)
  BY <1>1, <1>3 DEF KeptInv
<1>5. /\ n \in 0..Len(Q) /\ queue = SubSeq(Q, n + 1, Len(Q))
      /\ sunk = Chosen(SubSeq(Q, 1, n), Reported(lane, Q))
  BY <1>4 DEF Progress
<1>6. /\ n + 1 \in 1..Len(Q) /\ n + 1 \in 0..Len(Q)
      /\ Head(queue) = Q[n + 1]
      /\ Tail(queue) = SubSeq(Q, (n + 1) + 1, Len(Q))
      /\ \A p : Chosen(SubSeq(Q, 1, n + 1), p) =
                  IF n + 1 \in p THEN Append(Chosen(SubSeq(Q, 1, n), p), Q[n + 1])
                  ELSE Chosen(SubSeq(Q, 1, n), p)
  <2>1. Q \in Seq(X) /\ n \in 0..Len(Q) /\ queue = SubSeq(Q, n + 1, Len(Q)) /\ queue # <<>>
    BY <1>1, <1>3, <1>5
  <2>. QED
    BY ONLY <2>1, OneMore
<1>7. n \in Nat
  BY <1>5
<1>8. n + 1 \in Reported(lane, Q) <=> Q[n + 1].passes /\ Q[n + 1].wanted
  BY <1>2, <1>3, <1>6, <1>7, ReportedOrNot
<1>9. sunk' = IF Q[n + 1].passes /\ Q[n + 1].wanted THEN Append(sunk, Q[n + 1]) ELSE sunk
  BY <1>2, <1>6 DEF Sink
<1>10. sunk' = Chosen(SubSeq(Q, 1, n + 1), Reported(lane, Q))
  BY <1>5, <1>6, <1>8, <1>9
<1>11. Progress(lane, queue', sunk', gate'.seen, Q, n + 1)
  BY <1>1, <1>2, <1>6, <1>10 DEF Progress
<1>12. Live' = Live
  BY <1>1 DEF Live
<1>13. Progress(lane', queue', sunk', gate'.seen, Merged(lane', Live'), n + 1)
  BY <1>1, <1>3, <1>11, <1>12
<1>. QED
  BY <1>1, <1>13 DEF KeptInv

\* A step that only tells that all messages have been gone through.
LEMMA PassKept ==
    ASSUME lane \in Kept, KeptInv, UNCHANGED <<lane, file, cache, queue, gate, sunk>>,
           step # "idle", step' \in {"emit", "flush", "done"}, queue = <<>>
    PROVE  KeptInv'
<1>1. Live' = Live
  BY DEF Live
<1>2. PICK n : Progress(lane, queue, sunk, gate.seen, Merged(lane, Live), n)
  BY DEF KeptInv
<1>3. Progress(lane', queue', sunk', gate'.seen, Merged(lane', Live'), n)
  BY <1>1, <1>2
<1>. QED
  BY <1>3 DEF KeptInv

\* Every step of a scan keeps it.
LEMMA NextKept ==
    ASSUME lane \in Kept, KeptInv, Next
    PROVE  KeptInv'
<1>1. CASE \E p \in Path : Write(p)
  BY <1>1, WriteKept
<1>2. CASE Scan
  BY <1>2, ScanKept
<1>3. CASE Emit
  BY <1>3, EmitKept
<1>4. CASE EmitKiro
  BY <1>4, EmitKiroKept
<1>5. CASE PutOff \/ BufferTrae \/ EmitAntigravity \/ FinishSource \/ FlushRetained \/ FlushTrae
  BY <1>5 DEF Kept, PutOff, IsPutOff, BufferTrae, EmitAntigravity, FinishSource, FlushRetained, FlushTrae
<1>6. CASE StartFlush
  BY <1>6, PassKept DEF StartFlush
<1>7. CASE Finish
  <2>1. queue = <<>>
    BY <1>7 DEF Finish, KeptInv
  <2>. QED
    BY <1>7, <2>1, PassKept DEF Finish
<1>8. CASE Rest
  BY <1>8 DEF Rest, KeptInv, NewGate
<1>. QED
  BY <1>1, <1>2, <1>3, <1>4, <1>5, <1>6, <1>7, <1>8 DEF Next

\* Before the first scan nothing is cached, and no file is there.
LEMMA InitKept == ReportInit => KeptInv
<1>1. SUFFICES ASSUME ReportInit, lane \in Kept PROVE KeptInv
  BY DEF KeptInv
<1>2. lane \in Lanes /\ InitLane(lane)
  BY <1>1, ReportAssumption DEF ReportInit, ScanInit, Init, InitLane, Kept
<1>3. FilesInv(lane, file)
  BY <1>2 DEF InitLane, FilesInv
<1>. QED
  BY <1>2, <1>3 DEF InitLane, KeptInv, NoEntry, NewGate

\* No step changes the lane.
LEMMA LaneStays ==
    ASSUME [ReportNext]_<<vars, openCodeVars, reportVars>>
    PROVE  lane' = lane
<1>1. Next => lane' = lane
  BY DEF Next, Write, Scan, Emit, PutOff, EmitKiro, BufferTrae, EmitAntigravity, FinishSource,
         StartFlush, FlushRetained, FlushTrae, Finish, Rest, Sink
<1>. QED
  BY <1>1 DEF ReportNext, ScanNext, vars

\* Only the steps of the lane that is looked at change its state.
LEMMA ReportNextKept ==
    ASSUME KeptInv, [ReportNext]_<<vars, openCodeVars, reportVars>>
    PROVE  KeptInv'
<1>1. lane' = lane
  BY LaneStays
<1>2. SUFFICES ASSUME lane \in Kept PROVE KeptInv'
  BY <1>1 DEF KeptInv
<1>3. CASE Next
  BY <1>2, <1>3, NextKept
<1>4. CASE UNCHANGED vars
  <2>1. UNCHANGED <<lane, file, cache, step, queue, gate, sunk>>
    BY <1>4 DEF vars
  <2>2. Live' = Live
    BY <2>1 DEF Live
  <2>. QED
    BY <2>1, <2>2 DEF KeptInv
<1>5. Next \/ UNCHANGED vars
  BY <1>2, ReportAssumption DEF ReportNext, ScanNext, Kept
<1>. QED
  BY <1>3, <1>4, <1>5

\* For every lane whose files are merged or taken as they come: what is in the
\* cache, and which files have changed since, cannot be told from a report,
\* whatever the files hold and however often they are rewritten and scanned.
THEOREM ScansForget == ReportSpec => []CacheIsTransparent
<1>1. KeptInv => CacheIsTransparent
  <2>1. SUFFICES ASSUME KeptInv, step = "done", lane \in Kept PROVE sunk = Cold
    BY DEF CacheIsTransparent, Kept
  <2>2. PICK X, Q : Q \in Seq(X) /\ Q = Merged(lane, Live)
    BY <2>1, LiveType
  <2>3. PICK n : Progress(lane, queue, sunk, gate.seen, Q, n)
    BY <2>1, <2>2 DEF KeptInv
  <2>4. n \in 0..Len(Q) /\ SubSeq(Q, n + 1, Len(Q)) = <<>> /\ sunk = Chosen(SubSeq(Q, 1, n), Reported(lane, Q))
    BY <2>1, <2>3 DEF Progress, KeptInv
  <2>5. n = Len(Q) /\ SubSeq(Q, 1, Len(Q)) = Q
    BY <2>2, <2>4, Ends
  <2>. QED
    BY <2>2, <2>4, <2>5 DEF Cold
<1>. QED
  BY <1>1, InitKept, ReportNextKept, PTL DEF ReportSpec

-------------------------------------------------------------------------------
\* What is chosen is an element at one of the positions.
LEMMA ChosenElements ==
    ASSUME NEW X, NEW s \in Seq(X), NEW p, NEW x \in ToSet(Chosen(s, p))
    PROVE  \E k \in DOMAIN s : k \in p /\ x = s[k]
<1>1. PICK Y : Y = {s[k] : k \in {k \in DOMAIN s : k \in p}}
  OBVIOUS
<1>2. Len(s) \in Nat /\ DOMAIN s = 1..Len(s)
  OBVIOUS
<1>3. \A k \in 1..Len(s) : k \in p => s[k] \in Y
  BY <1>1, <1>2
<1>4. PICK t : t = Chosen(s, p)
  OBVIOUS
<1>5. t \in Seq(Y)
  BY <1>2, <1>3, <1>4, ChosenType
<1>6. x \in ToSet(t)
  BY <1>4
<1>7. x \in Y
  BY <1>5, <1>6 DEF ToSet
<1>. QED
  BY <1>1, <1>7

\* Copilot: what stays of the desktop database is of sessions without telemetry.
LEMMA CopilotTold ==
    ASSUME NEW X, NEW s \in Seq(X),
           NEW x \in ToSet(Merged("copilot", s)), NEW y \in ToSet(Merged("copilot", s)), x.session = y.session
    PROVE  x.desktop <=> y.desktop
<1>1. PICK otel : otel = Chosen(s, {i \in DOMAIN s : ~s[i].desktop})
  OBVIOUS
<1>2. PICK desktop : desktop = Chosen(s, {i \in DOMAIN s : s[i].desktop})
  OBVIOUS
<1>3. otel \in Seq(X) /\ desktop \in Seq(X)
  BY <1>1, <1>2, ChosenOfSequence
<1>4. PICK p : p = {i \in DOMAIN desktop : desktop[i].session \notin SessionsOf(otel)}
  OBVIOUS
<1>5. PICK rest : rest = Chosen(desktop, p)
  OBVIOUS
<1>6. Merged("copilot", s) = otel \o rest
  BY <1>1, <1>2, <1>4, <1>5 DEF Merged, PreferCopilotOtel
<1>7. rest \in Seq(X)
  BY <1>3, <1>5, ChosenOfSequence
<1>8. ToSet(otel \o rest) = ToSet(otel) \cup ToSet(rest)
  <2>1. PICK q : q = otel \o rest
    OBVIOUS
  <2>2. q \in Seq(X) /\ Len(q) = Len(otel) + Len(rest)
    BY <1>3, <1>7, <2>1
  <2>3. \A i \in 1..Len(q) : q[i] = IF i <= Len(otel) THEN otel[i] ELSE rest[i - Len(otel)]
    BY <1>3, <1>7, <2>1, <2>2
  <2>4. \A i \in DOMAIN q : q[i] \in ToSet(otel) \cup ToSet(rest)
    BY <1>3, <1>7, <2>2, <2>3 DEF ToSet
  <2>5. \A i \in DOMAIN otel : otel[i] = q[i] /\ i \in DOMAIN q
    BY <1>3, <1>7, <2>2, <2>3
  <2>6. \A i \in DOMAIN rest : rest[i] = q[i + Len(otel)] /\ i + Len(otel) \in DOMAIN q
    BY <1>3, <1>7, <2>2, <2>3
  <2>7. \A z \in ToSet(q) : z \in ToSet(otel) \cup ToSet(rest)
    BY <2>4 DEF ToSet
  <2>8. \A z \in ToSet(otel) : z \in ToSet(q)
    BY <2>5 DEF ToSet
  <2>9. \A z \in ToSet(rest) : z \in ToSet(q)
    BY <2>6 DEF ToSet
  <2>10. ToSet(q) = ToSet(otel) \cup ToSet(rest)
    BY <2>7, <2>8, <2>9
  <2>. QED
    BY <2>1, <2>10
<1>9. \A z \in ToSet(otel) : ~z.desktop /\ z.session \in SessionsOf(otel)
  <2>1. SUFFICES ASSUME NEW z \in ToSet(otel) PROVE ~z.desktop /\ z.session \in SessionsOf(otel)
    OBVIOUS
  <2>2. PICK q : q = {i \in DOMAIN s : ~s[i].desktop}
    OBVIOUS
  <2>3. z \in ToSet(Chosen(s, q))
    BY <1>1, <2>1, <2>2
  <2>4. PICK k \in DOMAIN s : k \in q /\ z = s[k]
    BY <2>3, ChosenElements
  <2>. QED
    BY <2>1, <2>2, <2>4 DEF SessionsOf
<1>10. \A z \in ToSet(rest) : z.desktop /\ z.session \notin SessionsOf(otel)
  <2>1. SUFFICES ASSUME NEW z \in ToSet(rest) PROVE z.desktop /\ z.session \notin SessionsOf(otel)
    OBVIOUS
  <2>2. PICK k \in DOMAIN desktop : k \in p /\ z = desktop[k]
    BY <1>3, <1>5, <2>1, ChosenElements
  <2>3. z \in ToSet(desktop)
    BY <2>2 DEF ToSet
  <2>4. z.desktop
    BY <1>2, <2>3, ChosenElements
  <2>. QED
    BY <1>4, <2>2, <2>4
<1>. QED
  BY <1>6, <1>8, <1>9, <1>10

\* Grok: a row stays if the unified log has nothing of its session.
LEMMA GrokTold ==
    ASSUME NEW X, NEW s \in Seq(X), \A m \in X : {"session", "unified"} \subseteq DOMAIN m,
           NEW x \in ToSet(Merged("grok", s)), NEW y \in ToSet(Merged("grok", s)), x.session = y.session
    PROVE  x.unified <=> y.unified
<1>1. PICK t : t = [i \in DOMAIN s |-> Completed(s[i], s)]
  OBVIOUS
<1>2. PICK unified : unified = {m \in ToSet(s) : m.unified}
  OBVIOUS
<1>3. PICK p : p = {i \in DOMAIN s : s[i].unified \/ \A m \in unified : m.session # s[i].session}
  OBVIOUS
<1>4. Merged("grok", s) = Chosen(t, p)
  BY <1>1, <1>2, <1>3 DEF Merged, PreferUnifiedLog
<1>5. PICK Y : Y = {Completed(s[i], s) : i \in DOMAIN s}
  OBVIOUS
<1>6. t \in Seq(Y) /\ DOMAIN t = DOMAIN s
  BY <1>1, <1>5
<1>7. \A i \in DOMAIN s : Completed(s[i], s).session = s[i].session /\ (Completed(s[i], s).unified <=> s[i].unified)
  <2>1. SUFFICES ASSUME NEW i \in DOMAIN s
                 PROVE  Completed(s[i], s).session = s[i].session /\ (Completed(s[i], s).unified <=> s[i].unified)
    OBVIOUS
  <2>2. PICK m : m = s[i]
    OBVIOUS
  <2>3. {"session", "unified"} \subseteq DOMAIN m
    BY <2>1, <2>2
  <2>4. Completed(m, s).session = m.session /\ (Completed(m, s).unified <=> m.unified)
    BY <2>3 DEF Completed
  <2>. QED
    BY <2>2, <2>4
<1>8. \A z \in ToSet(Chosen(t, p)) : \E i \in p : z.session = s[i].session /\ (z.unified <=> s[i].unified)
  <2>1. SUFFICES ASSUME NEW z \in ToSet(Chosen(t, p))
                 PROVE  \E i \in p : z.session = s[i].session /\ (z.unified <=> s[i].unified)
    OBVIOUS
  <2>2. PICK k \in DOMAIN t : k \in p /\ z = t[k]
    BY <1>6, <2>1, ChosenElements
  <2>3. k \in DOMAIN s /\ z = Completed(s[k], s)
    BY <1>1, <1>6, <2>2
  <2>. QED
    BY <1>7, <2>2, <2>3
<1>9. PICK i \in p : x.session = s[i].session /\ (x.unified <=> s[i].unified)
  BY <1>4, <1>8
<1>10. PICK j \in p : y.session = s[j].session /\ (y.unified <=> s[j].unified)
  BY <1>4, <1>8
<1>11. \A k \in p : s[k].unified => s[k] \in unified
  BY <1>2, <1>3 DEF ToSet
<1>12. s[i].unified <=> s[j].unified
  BY <1>3, <1>9, <1>10, <1>11
<1>. QED
  BY <1>9, <1>10, <1>12

\* Kiro: what stays is not superseded by an execution of any file.
LEMMA KiroTold ==
    ASSUME NEW X, NEW s \in Seq(X), NEW x \in ToSet(Merged("kiro", s)), NEW y \in ToSet(Merged("kiro", s)),
           x.kind = "execution"
    PROVE  \E executions : x \in executions /\ ~Superseded(y, executions)
<1>1. PICK executions : executions = {m \in ToSet(s) : m.kind = "execution"}
  OBVIOUS
<1>2. PICK p : p = {i \in DOMAIN s : ~Superseded(s[i], executions)}
  OBVIOUS
<1>3. PICK t : t = Chosen(s, p)
  OBVIOUS
<1>4. t \in Seq(X)
  BY <1>3, ChosenOfSequence
<1>5. PICK q : FirstOfEach(t) = Chosen(t, q)
  BY DEF FirstOfEach
<1>6. Merged("kiro", s) = Chosen(t, q)
  BY <1>1, <1>2, <1>3, <1>5 DEF Merged, MergeKiro
<1>7. \A z \in ToSet(Chosen(t, q)) : z \in ToSet(s) /\ ~Superseded(z, executions)
  <2>1. SUFFICES ASSUME NEW z \in ToSet(Chosen(t, q)) PROVE z \in ToSet(s) /\ ~Superseded(z, executions)
    OBVIOUS
  <2>2. PICK k \in DOMAIN t : z = t[k]
    BY <1>4, <2>1, ChosenElements
  <2>3. z \in ToSet(Chosen(s, p))
    BY <1>3, <2>2 DEF ToSet
  <2>4. PICK i \in DOMAIN s : i \in p /\ z = s[i]
    BY <2>3, ChosenElements
  <2>. QED
    BY <1>2, <2>4 DEF ToSet
<1>. QED
  BY <1>1, <1>6, <1>7

\* A session that two kinds of source tell of is reported from one of them: of
\* Copilot's telemetry and desktop database, of Grok's unified log and older rows,
\* of an execution of Kiro and what it supersedes, whatever the files hold.
LEMMA KeptTellOnce == KeptInv => SessionIsToldOnce
<1>1. SUFFICES ASSUME KeptInv, step = "done", lane \in {"copilot", "grok", "kiro"},
                      NEW x \in ToSet(sunk), NEW y \in ToSet(sunk)
               PROVE  /\ lane = "copilot" /\ x.session = y.session => (x.desktop <=> y.desktop)
                      /\ lane = "grok" /\ x.session = y.session => (x.unified <=> y.unified)
                      /\ lane = "kiro" /\ x.kind = "execution" =>
                           /\ y.kind = "execution_snapshot" /\ x.workspace = y.workspace => x.key # y.key
                           /\ y.kind = "chat_snapshot" /\ x.workspace = y.workspace => x.session # y.session
                           /\ y.kind = "workspace_session" => x.session # y.session
  BY DEF SessionIsToldOnce
<1>2. lane \in Kept
  BY <1>1 DEF Kept
<1>3. PICK X : Live \in Seq(X) /\ \A m \in X : \E p \in Path : file[p] # NoFile /\ m \in ToSet(file[p])
  BY <1>1, <1>2, ListedType DEF KeptInv, Live
<1>4. PICK s : s = Live
  OBVIOUS
<1>5. s \in Seq(X)
  BY <1>3, <1>4
<1>6. PICK Y, Q : Q \in Seq(Y) /\ Q = Merged(lane, s)
  BY <1>5, MergedType
<1>7. PICK n : n \in 0..Len(Q) /\ sunk = Chosen(SubSeq(Q, 1, n), Reported(lane, Q))
  BY <1>1, <1>2, <1>4, <1>6 DEF Progress, KeptInv
<1>8. PICK r : r = SubSeq(Q, 1, n)
  OBVIOUS
<1>9. r \in Seq(Y) /\ \A k \in DOMAIN r : k \in DOMAIN Q /\ r[k] = Q[k]
  BY <1>6, <1>7, <1>8
<1>10. \A z \in ToSet(sunk) : z \in ToSet(Q)
  <2>1. SUFFICES ASSUME NEW z \in ToSet(sunk) PROVE z \in ToSet(Q)
    OBVIOUS
  <2>2. PICK p : p = Reported(lane, Q)
    OBVIOUS
  <2>3. z \in ToSet(Chosen(r, p)) /\ r \in Seq(Y)
    BY <1>7, <1>8, <1>9, <2>1, <2>2
  <2>4. PICK k \in DOMAIN r : z = r[k]
    BY <2>3, ChosenElements
  <2>. QED
    BY <1>9, <2>4 DEF ToSet
<1>11. x \in ToSet(Merged(lane, s)) /\ y \in ToSet(Merged(lane, s))
  BY <1>1, <1>6, <1>10
<1>12. CASE lane = "copilot"
  BY <1>5, <1>11, <1>12, CopilotTold
<1>13. CASE lane = "grok"
  <2>1. \A m \in X : {"session", "unified"} \subseteq DOMAIN m
    BY <1>1, <1>2, <1>3, <1>13, LaneAssumption DEF KeptInv, FilesInv
  <2>. QED
    BY <1>5, <1>11, <1>13, <2>1, GrokTold
<1>14. CASE lane = "kiro"
  <2>1. x.kind = "execution" => \E executions : x \in executions /\ ~Superseded(y, executions)
    BY <1>5, <1>11, <1>14, KiroTold
  <2>. QED
    BY <1>14, <2>1 DEF Superseded
<1>. QED
  BY <1>1, <1>12, <1>13, <1>14

(***************************************************************************)
(* Antigravity: three sources, one after the other.                        *)
(***************************************************************************)
\* What is reported of a sequence of responses when they come source by source.
Earliest(Q) ==
    {i \in DOMAIN Q :
       /\ Q[i].passes /\ Q[i].wanted
       /\ Q[i].key # NoKey =>
            /\ \A j \in 1..(i - 1) : Q[j].key = Q[i].key => Q[j].source = Q[i].source
            /\ Q[i].source # 1 =>
                 \A j \in 1..(i - 1) :
                   <<Q[j].source, Q[j].session, Q[j].key>> # <<Q[i].source, Q[i].session, Q[i].key>>}

Keyed(Q, n) == {i \in 1..n : Q[i].key # NoKey}

\* Where a scan of the sources is: n responses have been gone through.
FamilyProgress(rest, out, seen, this, earlier, source, Q, n) ==
    /\ n \in 0..Len(Q)
    /\ rest = SubSeq(Q, n + 1, Len(Q))
    /\ out = Chosen(SubSeq(Q, 1, n), Earliest(Q))
    /\ source \in Nat
    /\ \A i \in 1..n : Q[i].source \in Nat /\ Q[i].source <= source
    /\ \A i, j \in 1..n : i < j => Q[i].source <= Q[j].source
    /\ earlier = {Q[i].key : i \in {i \in Keyed(Q, n) : Q[i].source # source}}
    /\ this \cup earlier = {Q[i].key : i \in Keyed(Q, n)}
    /\ seen = {<<Q[i].session, Q[i].key>> : i \in {i \in Keyed(Q, n) : Q[i].source = source /\ source # 1}}

\* One response of the source at hand.
LEMMA FamilyOneMore ==
    ASSUME NEW X, NEW Q \in Seq(X), NEW rest, NEW out, NEW seen, NEW this, NEW earlier, NEW source,
           NEW n, FamilyProgress(rest, out, seen, this, earlier, source, Q, n), rest # <<>>,
           NEW m, m = Head(rest), m.source = source,
           NEW repeats, repeats = (m.source # 1 /\ <<m.session, m.key>> \in seen),
           NEW out1, out1 = IF (m.key = NoKey \/ (~repeats /\ m.key \notin earlier)) /\ m.passes /\ m.wanted
                            THEN Append(out, m) ELSE out,
           NEW seen1, seen1 = IF m.key = NoKey \/ repeats \/ m.source = 1 THEN seen
                              ELSE seen \cup {<<m.session, m.key>>},
           NEW this1, this1 = IF m.key = NoKey \/ repeats \/ m.key \in earlier THEN this ELSE this \cup {m.key}
    PROVE  FamilyProgress(Tail(rest), out1, seen1, this1, earlier, source, Q, n + 1)
<1>1. /\ n \in 0..Len(Q) /\ rest = SubSeq(Q, n + 1, Len(Q)) /\ out = Chosen(SubSeq(Q, 1, n), Earliest(Q))
      /\ source \in Nat
  BY DEF FamilyProgress
<1>2. /\ \A i \in 1..n : Q[i].source \in Nat /\ Q[i].source <= source
      /\ \A i, j \in 1..n : i < j => Q[i].source <= Q[j].source
  BY DEF FamilyProgress
<1>3. /\ earlier = {Q[i].key : i \in {i \in Keyed(Q, n) : Q[i].source # source}}
      /\ this \cup earlier = {Q[i].key : i \in Keyed(Q, n)}
      /\ seen = {<<Q[i].session, Q[i].key>> : i \in {i \in Keyed(Q, n) : Q[i].source = source /\ source # 1}}
  BY DEF FamilyProgress
<1>4. /\ n + 1 \in 1..Len(Q) /\ n + 1 \in 0..Len(Q)
      /\ Head(rest) = Q[n + 1]
      /\ Tail(rest) = SubSeq(Q, (n + 1) + 1, Len(Q))
      /\ \A p : Chosen(SubSeq(Q, 1, n + 1), p) =
                  IF n + 1 \in p THEN Append(Chosen(SubSeq(Q, 1, n), p), Q[n + 1])
                  ELSE Chosen(SubSeq(Q, 1, n), p)
  <2>1. Q \in Seq(X) /\ n \in 0..Len(Q) /\ rest = SubSeq(Q, n + 1, Len(Q)) /\ rest # <<>>
    BY <1>1
  <2>. QED
    BY ONLY <2>1, OneMore
<1>5. PICK k : k = n + 1
  OBVIOUS
<1>6. n \in Nat /\ k \in Nat /\ k - 1 = n /\ k \in DOMAIN Q /\ m = Q[k]
  BY <1>1, <1>4, <1>5
<1>7. 1..k = (1..n) \cup {k}
  BY <1>5, <1>6
<1>8. Keyed(Q, k) = IF m.key # NoKey THEN Keyed(Q, n) \cup {k} ELSE Keyed(Q, n)
  BY <1>6, <1>7 DEF Keyed
<1>9. \A i \in 1..k : Q[i].source \in Nat /\ Q[i].source <= source
  BY <1>1, <1>2, <1>6, <1>7
<1>10. \A i, j \in 1..k : i < j => Q[i].source <= Q[j].source
  <2>1. SUFFICES ASSUME NEW i \in 1..k, NEW j \in 1..k, i < j PROVE Q[i].source <= Q[j].source
    OBVIOUS
  <2>2. i \in 1..n
    BY <1>5, <1>6, <2>1
  <2>3. CASE j \in 1..n
    BY <1>2, <2>1, <2>2, <2>3
  <2>4. CASE j = k
    BY <1>2, <1>6, <2>2, <2>4
  <2>. QED
    BY <1>7, <2>3, <2>4
<1>11. earlier = {Q[i].key : i \in {i \in Keyed(Q, k) : Q[i].source # source}}
  <2>1. {i \in Keyed(Q, k) : Q[i].source # source} = {i \in Keyed(Q, n) : Q[i].source # source}
    BY <1>6, <1>8
  <2>. QED
    BY <1>3, <2>1
<1>12. repeats => m.key \in this \cup earlier
  <2>1. SUFFICES ASSUME repeats PROVE m.key \in this \cup earlier
    OBVIOUS
  <2>2. PICK i \in Keyed(Q, n) : <<m.session, m.key>> = <<Q[i].session, Q[i].key>>
    BY <1>3, <2>1
  <2>. QED
    BY <1>3, <2>2
<1>13. this1 \cup earlier = {Q[i].key : i \in Keyed(Q, k)}
  <2>1. {Q[i].key : i \in Keyed(Q, k)} =
          IF m.key # NoKey THEN {Q[i].key : i \in Keyed(Q, n)} \cup {m.key} ELSE {Q[i].key : i \in Keyed(Q, n)}
    BY <1>6, <1>8
  <2>. QED
    BY <1>3, <1>12, <2>1
<1>14. seen1 = {<<Q[i].session, Q[i].key>> : i \in {i \in Keyed(Q, k) : Q[i].source = source /\ source # 1}}
  <2>1. {i \in Keyed(Q, k) : Q[i].source = source /\ source # 1} =
          IF m.key # NoKey /\ source # 1 THEN {i \in Keyed(Q, n) : Q[i].source = source /\ source # 1} \cup {k}
          ELSE {i \in Keyed(Q, n) : Q[i].source = source /\ source # 1}
    BY <1>6, <1>8
  <2>2. CASE m.key # NoKey /\ source # 1
    <3>1. {<<Q[i].session, Q[i].key>> : i \in {i \in Keyed(Q, k) : Q[i].source = source /\ source # 1}} =
            seen \cup {<<m.session, m.key>>}
      BY <1>3, <1>6, <2>1, <2>2
    <3>. QED
      BY <2>2, <3>1
  <2>3. CASE ~(m.key # NoKey /\ source # 1)
    BY <1>3, <2>1, <2>3
  <2>. QED
    BY <2>2, <2>3
<1>15. k \in Earliest(Q) <=>
         m.passes /\ m.wanted /\ (m.key = NoKey \/ (~repeats /\ m.key \notin earlier))
  <2>1. k \in Earliest(Q) <=>
          /\ m.passes /\ m.wanted
          /\ m.key # NoKey =>
               /\ \A j \in 1..n : Q[j].key = m.key => Q[j].source = m.source
               /\ m.source # 1 =>
                    \A j \in 1..n : <<Q[j].source, Q[j].session, Q[j].key>> # <<m.source, m.session, m.key>>
    BY <1>6 DEF Earliest
  <2>2. m.key # NoKey =>
          (m.key \notin earlier <=> \A j \in 1..n : Q[j].key = m.key => Q[j].source = m.source)
    BY <1>3 DEF Keyed
  <2>3. m.key # NoKey =>
          (~repeats <=> (m.source # 1 =>
             \A j \in 1..n : <<Q[j].source, Q[j].session, Q[j].key>> # <<m.source, m.session, m.key>>))
    BY <1>3 DEF Keyed
  <2>. QED
    BY <2>1, <2>2, <2>3
<1>16. out1 = Chosen(SubSeq(Q, 1, k), Earliest(Q))
  BY <1>1, <1>4, <1>5, <1>6, <1>15
<1>17. k \in 0..Len(Q) /\ Tail(rest) = SubSeq(Q, k + 1, Len(Q))
  BY <1>4, <1>5
<1>18. FamilyProgress(Tail(rest), out1, seen1, this1, earlier, source, Q, k)
  BY <1>1, <1>9, <1>10, <1>11, <1>13, <1>14, <1>16, <1>17 DEF FamilyProgress
<1>. QED
  BY <1>5, <1>18

\* The next source begins.
LEMMA FamilyNextSource ==
    ASSUME NEW X, NEW Q \in Seq(X), NEW rest, NEW out, NEW seen, NEW this, NEW earlier, NEW source,
           NEW n, FamilyProgress(rest, out, seen, this, earlier, source, Q, n)
    PROVE  FamilyProgress(rest, out, {}, {}, earlier \cup this, source + 1, Q, n)
<1>1. n \in 0..Len(Q) /\ source \in Nat /\ \A i \in 1..n : Q[i].source \in Nat /\ Q[i].source <= source
  BY DEF FamilyProgress
<1>2. \A i \in 1..n : Q[i].source <= source + 1 /\ Q[i].source # source + 1
  BY <1>1
<1>3. {i \in Keyed(Q, n) : Q[i].source # source + 1} = Keyed(Q, n)
  BY <1>2 DEF Keyed
<1>4. {i \in Keyed(Q, n) : Q[i].source = source + 1 /\ source + 1 # 1} = {}
  BY <1>2 DEF Keyed
<1>5. this \cup earlier = {Q[i].key : i \in Keyed(Q, n)}
  BY DEF FamilyProgress
<1>. QED
  BY <1>1, <1>2, <1>3, <1>4, <1>5 DEF FamilyProgress

\* Of Antigravity.
FamilyInv ==
    lane = "antigravity" =>
      /\ FilesInv(lane, file)
      /\ gate = [seen |-> gate.seen, this |-> gate.this, earlier |-> gate.earlier, source |-> gate.source]
      /\ step = "idle" => gate = NewGate /\ sunk = <<>>
      /\ step # "idle" =>
           \E n : FamilyProgress(queue, sunk, gate.seen, gate.this, gate.earlier, gate.source, Live, n)
      /\ step \in {"flush", "done"} => queue = <<>>

\* Without a cache, the messages of a scan are what the files hold.
LEMMA QueueIsFiles ==
    ASSUME lane \in {"antigravity", "trae"}
    PROVE  Queue = Live
<1>1. PICK n : n = Cardinality(Path)
  OBVIOUS
<1>2. \A p : MessagesOf(p) = IF file[p] = NoFile THEN <<>> ELSE file[p]
  BY DEF MessagesOf, Cached
<1>3. PICK held0 : held0 = [p \in 1..n |-> IF file[p] = NoFile THEN <<>> ELSE file[p]]
  OBVIOUS
<1>4. DOMAIN Listing = 1..n /\ \A i \in 1..n : Listing[i] = i
  BY <1>1 DEF Listing
<1>5. [i \in DOMAIN Listing |-> MessagesOf(Listing[i])] = held0
  BY <1>2, <1>3, <1>4
<1>6. InOrder(Listing) = FlattenSeq(held0)
  BY <1>5 DEF InOrder
<1>7. Live = FlattenSeq(held0)
  BY <1>1, <1>3 DEF Live, Listed
<1>8. Merged(lane, InOrder(Listing)) = InOrder(Listing)
  BY DEF Merged
<1>. QED
  BY <1>6, <1>7, <1>8 DEF Queue

\* One response.
LEMMA EmitFamily ==
    ASSUME lane = "antigravity", FamilyInv, EmitAntigravity
    PROVE  FamilyInv'
<1>1. UNCHANGED <<lane, file, step>> /\ step = "emit" /\ queue # <<>> /\ queue' = Tail(queue)
  BY DEF EmitAntigravity
<1>2. PICK m : m = Head(queue)
  OBVIOUS
<1>3. /\ m.source = gate.source
      /\ IF m.key = NoKey \/ (~Repeats(m) /\ m.key \notin gate.earlier) THEN Sink(m) ELSE UNCHANGED sunk
      /\ gate' = Recorded(m)
  BY <1>2 DEF EmitAntigravity
<1>4. gate = [seen |-> gate.seen, this |-> gate.this, earlier |-> gate.earlier, source |-> gate.source]
  BY DEF FamilyInv
<1>5. PICK repeats \in BOOLEAN : repeats = (m.source # 1 /\ <<m.session, m.key>> \in gate.seen)
  OBVIOUS
<1>6. Repeats(m) <=> repeats
  BY <1>5 DEF Repeats
<1>7. sunk' = IF (m.key = NoKey \/ (~repeats /\ m.key \notin gate.earlier)) /\ m.passes /\ m.wanted
              THEN Append(sunk, m) ELSE sunk
  BY <1>3, <1>6 DEF Sink
<1>8. gate' = [seen |-> IF m.key = NoKey \/ repeats \/ m.source = 1 THEN gate.seen
                        ELSE gate.seen \cup {<<m.session, m.key>>},
               this |-> IF m.key = NoKey \/ repeats \/ m.key \in gate.earlier THEN gate.this
                        ELSE gate.this \cup {m.key},
               earlier |-> gate.earlier,
               source |-> gate.source]
  <2>1. CASE m.key = NoKey \/ repeats
    BY <1>3, <1>4, <1>6, <2>1 DEF Recorded
  <2>2. CASE ~(m.key = NoKey \/ repeats)
    <3>1. gate' = [gate EXCEPT !.seen = IF m.source = 1 THEN gate.seen ELSE gate.seen \cup {<<m.session, m.key>>},
                               !.this = IF m.key \in gate.earlier THEN gate.this ELSE gate.this \cup {m.key}]
      BY <1>3, <1>6, <2>2 DEF Recorded
    <3>. QED
      BY <1>4, <2>2, <3>1
  <2>. QED
    BY <2>1, <2>2
<1>9. PICK X : Live \in Seq(X)
  BY ListedType DEF FamilyInv, Live
<1>10. PICK n : FamilyProgress(queue, sunk, gate.seen, gate.this, gate.earlier, gate.source, Live, n)
  BY <1>1 DEF FamilyInv
<1>11. PICK seen1 : seen1 = IF m.key = NoKey \/ repeats \/ m.source = 1 THEN gate.seen
                            ELSE gate.seen \cup {<<m.session, m.key>>}
  OBVIOUS
<1>12. PICK this1 : this1 = IF m.key = NoKey \/ repeats \/ m.key \in gate.earlier THEN gate.this
                            ELSE gate.this \cup {m.key}
  OBVIOUS
<1>13. FamilyProgress(Tail(queue), sunk', seen1, this1, gate.earlier, gate.source, Live, n + 1)
  <2>1. PICK Q, rest, out : Q = Live /\ rest = queue /\ out = sunk
    OBVIOUS
  <2>2. PICK seen, this, earlier, source :
          seen = gate.seen /\ this = gate.this /\ earlier = gate.earlier /\ source = gate.source
    OBVIOUS
  <2>3. PICK out1 : out1 = sunk'
    OBVIOUS
  <2>4. /\ Q \in Seq(X) /\ FamilyProgress(rest, out, seen, this, earlier, source, Q, n) /\ rest # <<>>
        /\ m = Head(rest) /\ m.source = source /\ repeats = (m.source # 1 /\ <<m.session, m.key>> \in seen)
    BY <1>1, <1>2, <1>3, <1>5, <1>9, <1>10, <2>1, <2>2
  <2>5. /\ out1 = IF (m.key = NoKey \/ (~repeats /\ m.key \notin earlier)) /\ m.passes /\ m.wanted
                  THEN Append(out, m) ELSE out
        /\ seen1 = IF m.key = NoKey \/ repeats \/ m.source = 1 THEN seen ELSE seen \cup {<<m.session, m.key>>}
        /\ this1 = IF m.key = NoKey \/ repeats \/ m.key \in earlier THEN this ELSE this \cup {m.key}
    BY <1>7, <1>11, <1>12, <2>1, <2>2, <2>3
  <2>6. FamilyProgress(Tail(rest), out1, seen1, this1, earlier, source, Q, n + 1)
    BY ONLY <2>4, <2>5, FamilyOneMore, ZenonT(60)
  <2>. QED
    BY <2>1, <2>2, <2>3, <2>6
<1>14. gate'.seen = seen1 /\ gate'.this = this1 /\ gate'.earlier = gate.earlier /\ gate'.source = gate.source
  BY <1>8, <1>11, <1>12
<1>15. gate' = [seen |-> gate'.seen, this |-> gate'.this, earlier |-> gate'.earlier, source |-> gate'.source]
  BY <1>8
<1>16. Live' = Live
  BY <1>1 DEF Live
<1>17. FamilyProgress(queue', sunk', gate'.seen, gate'.this, gate'.earlier, gate'.source, Live', n + 1)
  BY <1>1, <1>13, <1>14, <1>16
<1>. QED
  BY <1>1, <1>15, <1>17 DEF FamilyInv

\* A source has no more responses.
LEMMA FinishFamily ==
    ASSUME lane = "antigravity", FamilyInv, FinishSource
    PROVE  FamilyInv'
<1>1. UNCHANGED <<lane, file, step, queue, sunk>> /\ step = "emit"
  BY DEF FinishSource
<1>2. gate' = [seen |-> {}, this |-> {}, earlier |-> gate.earlier \cup gate.this, source |-> gate.source + 1]
  BY DEF FinishSource, NewGate
<1>3. PICK X : Live \in Seq(X)
  BY ListedType DEF FamilyInv, Live
<1>4. PICK n : FamilyProgress(queue, sunk, gate.seen, gate.this, gate.earlier, gate.source, Live, n)
  BY <1>1 DEF FamilyInv
<1>5. FamilyProgress(queue, sunk, {}, {}, gate.earlier \cup gate.this, gate.source + 1, Live, n)
  BY <1>3, <1>4, FamilyNextSource
<1>6. Live' = Live
  BY <1>1 DEF Live
<1>7. FamilyProgress(queue', sunk', gate'.seen, gate'.this, gate'.earlier, gate'.source, Live', n)
  BY <1>1, <1>2, <1>5, <1>6
<1>8. gate' = [seen |-> gate'.seen, this |-> gate'.this, earlier |-> gate'.earlier, source |-> gate'.source]
  BY <1>2
<1>. QED
  BY <1>1, <1>7, <1>8 DEF FamilyInv

\* A scan starts with nothing gone through.
LEMMA ScanFamily ==
    ASSUME lane = "antigravity", FamilyInv, Scan
    PROVE  FamilyInv'
<1>1. UNCHANGED <<lane, file, gate, sunk>> /\ step = "idle" /\ step' = "emit" /\ queue' = Queue
  BY DEF Scan
<1>2. queue' = Live /\ Live' = Live
  BY <1>1, QueueIsFiles DEF Live
<1>3. PICK X, Q : Q \in Seq(X) /\ Q = Live
  BY ListedType DEF FamilyInv, Live
<1>4. gate = NewGate /\ sunk = <<>>
  BY <1>1 DEF FamilyInv
<1>5. FamilyProgress(Q, <<>>, {}, {}, {}, 1, Q, 0)
  <2>1. 0 \in 0..Len(Q) /\ 0 + 1 = 1 /\ 1..0 = {}
    BY <1>3
  <2>2. Q = SubSeq(Q, 1, Len(Q)) /\ Chosen(SubSeq(Q, 1, 0), Earliest(Q)) = <<>>
    BY <1>3, Ends
  <2>3. Keyed(Q, 0) = {}
    BY <2>1 DEF Keyed
  <2>. QED
    BY <2>1, <2>2, <2>3 DEF FamilyProgress
<1>6. FamilyProgress(queue', sunk', gate'.seen, gate'.this, gate'.earlier, gate'.source, Live', 0)
  BY <1>1, <1>2, <1>3, <1>4, <1>5 DEF NewGate
<1>. QED
  BY <1>1, <1>6 DEF FamilyInv

\* Every step of a scan keeps it.
LEMMA NextFamily ==
    ASSUME lane = "antigravity", FamilyInv, Next
    PROVE  FamilyInv'
<1>1. CASE \E p \in Path : Write(p)
  <2>1. PICK p \in Path : Write(p)
    BY <1>1
  <2>2. PICK content : content \in Contents[lane][p] \cup {NoFile} /\ file' = [file EXCEPT ![p] = content]
    BY <2>1 DEF Write
  <2>3. FilesInv(lane, file')
    BY <2>2 DEF FamilyInv, FilesInv
  <2>. QED
    BY <2>1, <2>3 DEF FamilyInv, Write
<1>2. CASE Scan
  BY <1>2, ScanFamily
<1>3. CASE EmitAntigravity
  BY <1>3, EmitFamily
<1>4. CASE FinishSource
  BY <1>4, FinishFamily
<1>5. CASE Emit \/ PutOff \/ EmitKiro \/ BufferTrae \/ FlushRetained \/ FlushTrae
  BY <1>5 DEF Emit, Gated, PutOff, IsPutOff, EmitKiro, BufferTrae, FlushRetained, FlushTrae
<1>6. CASE StartFlush \/ Finish
  <2>1. UNCHANGED <<lane, file, queue, gate, sunk>> /\ step # "idle" /\ step' # "idle" /\ queue = <<>>
    BY <1>6 DEF StartFlush, Finish, FamilyInv
  <2>2. Live' = Live
    BY <2>1 DEF Live
  <2>. QED
    BY <2>1, <2>2 DEF FamilyInv
<1>7. CASE Rest
  BY <1>7 DEF Rest, FamilyInv, NewGate
<1>. QED
  BY <1>1, <1>2, <1>3, <1>4, <1>5, <1>6, <1>7 DEF Next

\* Before the first scan there is no file.
LEMMA InitFamily == ReportInit => FamilyInv
<1>1. SUFFICES ASSUME ReportInit, lane = "antigravity" PROVE FamilyInv
  BY DEF FamilyInv
<1>2. lane \in Lanes /\ InitLane(lane)
  BY <1>1, ReportAssumption DEF ReportInit, ScanInit, Init, InitLane
<1>3. FilesInv(lane, file)
  BY <1>2 DEF InitLane, FilesInv
<1>. QED
  BY <1>2, <1>3 DEF InitLane, FamilyInv, NewGate

\* Only the steps of the lane that is looked at change its state.
LEMMA ReportNextFamily ==
    ASSUME FamilyInv, [ReportNext]_<<vars, openCodeVars, reportVars>>
    PROVE  FamilyInv'
<1>1. lane' = lane
  BY LaneStays
<1>2. SUFFICES ASSUME lane = "antigravity" PROVE FamilyInv'
  BY <1>1 DEF FamilyInv
<1>3. CASE Next
  BY <1>2, <1>3, NextFamily
<1>4. CASE UNCHANGED vars
  <2>1. UNCHANGED <<lane, file, step, queue, gate, sunk>>
    BY <1>4 DEF vars
  <2>2. Live' = Live
    BY <2>1 DEF Live
  <2>. QED
    BY <2>1, <2>2 DEF FamilyInv
<1>5. Next \/ UNCHANGED vars
  BY <1>2, ReportAssumption DEF ReportNext, ScanNext
<1>. QED
  BY <1>3, <1>4, <1>5

\* A response counts for the earliest of the clients that recorded it.
LEMMA FamilyCounts ==
    ASSUME FamilyInv
    PROVE  EarliestSourceCounts
<1>1. SUFFICES ASSUME step = "done", lane = "antigravity" PROVE EarliestSourceCounts
  BY DEF EarliestSourceCounts
<1>2. PICK X, Q : Q \in Seq(X) /\ Q = Live
  BY <1>1, ListedType DEF FamilyInv, Live
<1>3. PICK n : FamilyProgress(queue, sunk, gate.seen, gate.this, gate.earlier, gate.source, Q, n)
  BY <1>1, <1>2 DEF FamilyInv
<1>4. n \in 0..Len(Q) /\ SubSeq(Q, n + 1, Len(Q)) = <<>> /\ sunk = Chosen(SubSeq(Q, 1, n), Earliest(Q))
  BY <1>1, <1>3 DEF FamilyProgress, FamilyInv
<1>5. n = Len(Q) /\ sunk = Chosen(Q, Earliest(Q))
  BY <1>2, <1>4, Ends
<1>6. /\ DOMAIN Q = 1..n /\ n \in Nat
      /\ \A i \in 1..n : Q[i].source \in Nat
      /\ \A i, j \in 1..n : i < j => Q[i].source <= Q[j].source
  BY <1>2, <1>3, <1>5 DEF FamilyProgress
<1>7. PICK p : p = {i \in DOMAIN Q :
                 /\ Q[i].passes /\ Q[i].wanted
                 /\ \/ Q[i].key = NoKey
                    \/ /\ \A j \in DOMAIN Q : Q[j].key = Q[i].key => Q[j].source >= Q[i].source
                       /\ Q[i].source # 1 =>
                            \A j \in 1..(i - 1) :
                              <<Q[j].source, Q[j].session, Q[j].key>> # <<Q[i].source, Q[i].session, Q[i].key>>}
  OBVIOUS
<1>8. \A i \in 1..n : (\A j \in DOMAIN Q : Q[j].key = Q[i].key => Q[j].source >= Q[i].source)
                        <=> (\A j \in 1..(i - 1) : Q[j].key = Q[i].key => Q[j].source = Q[i].source)
  <2>1. SUFFICES ASSUME NEW i \in 1..n
                 PROVE  (\A j \in DOMAIN Q : Q[j].key = Q[i].key => Q[j].source >= Q[i].source)
                          <=> (\A j \in 1..(i - 1) : Q[j].key = Q[i].key => Q[j].source = Q[i].source)
    OBVIOUS
  <2>2. \A j \in 1..(i - 1) : j \in 1..n /\ Q[j].source \in Nat /\ Q[i].source \in Nat /\ Q[j].source <= Q[i].source
    BY <1>6
  <2>3. \A j \in 1..n : j \in 1..(i - 1) \/ (Q[j].source \in Nat /\ Q[i].source \in Nat /\ Q[j].source >= Q[i].source)
    <3>1. SUFFICES ASSUME NEW j \in 1..n, j \notin 1..(i - 1)
                   PROVE  Q[j].source \in Nat /\ Q[i].source \in Nat /\ Q[j].source >= Q[i].source
      OBVIOUS
    <3>2. CASE j = i
      BY <1>6, <3>2
    <3>3. CASE i < j
      BY <1>6, <3>3
    <3>. QED
      BY <1>6, <3>1, <3>2, <3>3
  <2>4. ASSUME \A j \in DOMAIN Q : Q[j].key = Q[i].key => Q[j].source >= Q[i].source,
               NEW j \in 1..(i - 1), Q[j].key = Q[i].key
        PROVE  Q[j].source = Q[i].source
    BY <1>6, <2>2, <2>4
  <2>5. ASSUME \A j \in 1..(i - 1) : Q[j].key = Q[i].key => Q[j].source = Q[i].source,
               NEW j \in DOMAIN Q, Q[j].key = Q[i].key
        PROVE  Q[j].source >= Q[i].source
    BY <1>6, <2>3, <2>5
  <2>. QED
    BY <2>4, <2>5
<1>9. \A i \in 1..n : i \in Earliest(Q) <=> i \in p
  BY <1>6, <1>7, <1>8 DEF Earliest
<1>10. Chosen(Q, Earliest(Q)) = Chosen(Q, p)
  BY <1>5, <1>6, <1>9, ChosenSame
<1>11. sunk = Chosen(Q, p)
  BY <1>5, <1>10
<1>. QED
  BY <1>2, <1>7, <1>11 DEF EarliestSourceCounts

-------------------------------------------------------------------------------
(***************************************************************************)
(* Trae: the latest dump of each session.                                  *)
(***************************************************************************)
IsDump(m) == m.time \in Int /\ m.key \in Int \cup {NoKey}

\* Dumps are ordered, but for those that are even.
LEMMA DumpsAreOrdered ==
    ASSUME NEW a, NEW b, NEW c, IsDump(a), IsDump(b), IsDump(c), Outranks(a, b)
    PROVE  /\ Outranks(b, c) => Outranks(a, c)
           /\ ~Outranks(c, b) => Outranks(a, c)
<1>. NoKey \notin Int
  BY LaneAssumption
<1>. QED
  BY DEF IsDump, Outranks

\* The code's choice between two dumps is this order.
LEMMA ReplacingIsOutranking ==
    ASSUME NEW a, NEW b
    PROVE  ReplacesTrae(a, b) <=> Outranks(a, b)
  BY DEF ReplacesTrae, Outranks

\* The i-th of the first n dumps is the latest of its session.
IsLatest(Q, n, i) ==
    /\ i \in 1..n
    /\ \A j \in 1..n : Q[j].session = Q[i].session =>
         /\ j < i => Outranks(Q[i], Q[j])
         /\ j > i => ~Outranks(Q[j], Q[i])

LatestOf(latest, Q, n) ==
    /\ DOMAIN latest = {Q[i].session : i \in 1..n}
    /\ \A s \in DOMAIN latest : \E i \in 1..n : IsLatest(Q, n, i) /\ latest[s] = Q[i] /\ Q[i].session = s

\* Of a session whose dump does not come next, the latest stays.
LEMMA LatestElsewhere ==
    ASSUME NEW Q, NEW n \in Nat, NEW i, IsLatest(Q, n, i), Q[i].session # Q[n + 1].session
    PROVE  IsLatest(Q, n + 1, i)
<1>1. i \in 1..n /\ 1..(n + 1) = (1..n) \cup {n + 1}
  BY DEF IsLatest
<1>. QED
  BY <1>1 DEF IsLatest

\* One dump more.
LEMMA KeepLatestOneMore ==
    ASSUME NEW Q, NEW n \in Nat, \A i \in 1..(n + 1) : IsDump(Q[i]), NEW latest, LatestOf(latest, Q, n)
    PROVE  LatestOf(KeepLatest(latest, Q[n + 1]), Q, n + 1)
<1>1. PICK k \in Nat : k = n + 1
  OBVIOUS
<1>2. PICK m : m = Q[k]
  OBVIOUS
<1>3. 1..k = (1..n) \cup {k} /\ k \notin 1..n
  BY <1>1
<1>4. DOMAIN latest = {Q[i].session : i \in 1..n}
  BY DEF LatestOf
<1>5. DOMAIN latest \cup {m.session} = {Q[i].session : i \in 1..k}
  BY <1>2, <1>3, <1>4
<1>6. \A s \in DOMAIN latest : \E i \in 1..n : IsLatest(Q, n, i) /\ latest[s] = Q[i] /\ Q[i].session = s
  BY DEF LatestOf
<1>7. \A s \in DOMAIN latest : s # m.session =>
        \E i \in 1..k : IsLatest(Q, k, i) /\ latest[s] = Q[i] /\ Q[i].session = s
  <2>1. SUFFICES ASSUME NEW s \in DOMAIN latest, s # m.session
                 PROVE  \E i \in 1..k : IsLatest(Q, k, i) /\ latest[s] = Q[i] /\ Q[i].session = s
    OBVIOUS
  <2>2. PICK i \in 1..n : IsLatest(Q, n, i) /\ latest[s] = Q[i] /\ Q[i].session = s
    BY <1>6, <2>1
  <2>3. IsLatest(Q, k, i)
    BY <1>1, <1>2, <2>1, <2>2, LatestElsewhere
  <2>. QED
    BY <1>3, <2>2, <2>3
<1>8. CASE m.session \in DOMAIN latest /\ ~ReplacesTrae(m, latest[m.session])
  <2>1. PICK i \in 1..n : IsLatest(Q, n, i) /\ latest[m.session] = Q[i] /\ Q[i].session = m.session
    BY <1>6, <1>8
  <2>2. ~Outranks(m, Q[i])
    BY <1>8, <2>1, ReplacingIsOutranking
  <2>3. IsLatest(Q, k, i)
    BY <1>1, <1>2, <1>3, <2>1, <2>2 DEF IsLatest
  <2>4. KeepLatest(latest, m) = latest
    BY <1>8 DEF KeepLatest
  <2>5. DOMAIN latest = {Q[j].session : j \in 1..k}
    BY <1>5, <1>8
  <2>6. \A s \in DOMAIN latest : \E j \in 1..k : IsLatest(Q, k, j) /\ latest[s] = Q[j] /\ Q[j].session = s
    BY <1>3, <1>7, <2>1, <2>3
  <2>. QED
    BY <1>1, <1>2, <2>4, <2>5, <2>6 DEF LatestOf
<1>9. CASE ~(m.session \in DOMAIN latest /\ ~ReplacesTrae(m, latest[m.session]))
  <2>1. PICK new : new = [s \in DOMAIN latest \cup {m.session} |-> IF s = m.session THEN m ELSE latest[s]]
    OBVIOUS
  <2>2. KeepLatest(latest, m) = new
    BY <1>9, <2>1 DEF KeepLatest
  <2>3. \A j \in 1..n : Q[j].session = m.session => Outranks(m, Q[j])
    <3>1. SUFFICES ASSUME NEW j \in 1..n, Q[j].session = m.session PROVE Outranks(m, Q[j])
      OBVIOUS
    <3>2. m.session \in DOMAIN latest
      BY <1>4, <3>1
    <3>3. PICK i \in 1..n : IsLatest(Q, n, i) /\ latest[m.session] = Q[i] /\ Q[i].session = m.session
      BY <1>6, <3>2
    <3>4. Outranks(m, Q[i])
      BY <1>9, <3>2, <3>3, ReplacingIsOutranking
    <3>5. IsDump(m) /\ IsDump(Q[i]) /\ IsDump(Q[j])
      BY <1>1, <1>2, <1>3
    <3>6. j = i \/ Outranks(Q[i], Q[j]) \/ ~Outranks(Q[j], Q[i])
      BY <3>1, <3>3 DEF IsLatest
    <3>. QED
      BY <3>4, <3>5, <3>6, DumpsAreOrdered
  <2>4. IsLatest(Q, k, k)
    <3>1. \A j \in 1..k : Q[j].session = Q[k].session => (j < k => Outranks(Q[k], Q[j])) /\ ~(j > k)
      BY <1>2, <1>3, <2>3
    <3>. QED
      BY <1>1, <3>1 DEF IsLatest
  <2>5. DOMAIN new = {Q[j].session : j \in 1..k}
    BY <1>5, <2>1
  <2>6. \A s \in DOMAIN new : \E j \in 1..k : IsLatest(Q, k, j) /\ new[s] = Q[j] /\ Q[j].session = s
    <3>1. SUFFICES ASSUME NEW s \in DOMAIN new
                   PROVE  \E j \in 1..k : IsLatest(Q, k, j) /\ new[s] = Q[j] /\ Q[j].session = s
      OBVIOUS
    <3>2. CASE s = m.session
      BY <1>2, <1>3, <2>1, <2>4, <3>2
    <3>3. CASE s # m.session
      <4>1. s \in DOMAIN latest /\ new[s] = latest[s]
        BY <2>1, <3>1, <3>3
      <4>. QED
        BY <1>7, <3>3, <4>1
    <3>. QED
      BY <3>2, <3>3
  <2>. QED
    BY <1>1, <1>2, <2>2, <2>5, <2>6 DEF LatestOf
<1>. QED
  BY <1>8, <1>9

\* What is in the sink and what is still held are the latest dumps.
Flushed(latest, out, Q) ==
    /\ \A s \in DOMAIN latest : latest[s].session = s
    /\ \A m : (m \in ToSet(out) \/ \E s \in DOMAIN latest : m = latest[s] /\ m.passes /\ m.wanted)
                <=> \E i \in DOMAIN Q : m = Q[i] /\ m.passes /\ m.wanted /\ IsLatest(Q, Len(Q), i)
    /\ \A i \in DOMAIN out : out[i].session \notin DOMAIN latest
    /\ \A i, j \in DOMAIN out : i # j => out[i].session # out[j].session

\* When all dumps have been gone through, those held are the latest.
LEMMA LatestAreHeld ==
    ASSUME NEW X, NEW Q \in Seq(X), NEW latest, LatestOf(latest, Q, Len(Q))
    PROVE  Flushed(latest, <<>>, Q)
<1>1. PICK n \in Nat : n = Len(Q)
  OBVIOUS
<1>2. DOMAIN Q = 1..n /\ DOMAIN <<>> = {} /\ ToSet(<<>>) = {}
  BY <1>1 DEF ToSet
<1>3. DOMAIN latest = {Q[i].session : i \in 1..n}
  BY <1>1 DEF LatestOf
<1>4. \A s \in DOMAIN latest : \E i \in 1..n : IsLatest(Q, n, i) /\ latest[s] = Q[i] /\ Q[i].session = s
  BY <1>1 DEF LatestOf
<1>5. \A i \in 1..n : IsLatest(Q, n, i) => Q[i].session \in DOMAIN latest /\ latest[Q[i].session] = Q[i]
  <2>1. SUFFICES ASSUME NEW i \in 1..n, IsLatest(Q, n, i)
                 PROVE  Q[i].session \in DOMAIN latest /\ latest[Q[i].session] = Q[i]
    OBVIOUS
  <2>2. Q[i].session \in DOMAIN latest
    BY <1>3, <2>1
  <2>3. PICK k \in 1..n : IsLatest(Q, n, k) /\ latest[Q[i].session] = Q[k] /\ Q[k].session = Q[i].session
    BY <1>4, <2>2
  <2>4. ~(i < k) /\ ~(k < i)
    BY <2>1, <2>3 DEF IsLatest
  <2>. QED
    BY <2>2, <2>3, <2>4
<1>6. \A m : (\E s \in DOMAIN latest : m = latest[s] /\ m.passes /\ m.wanted)
               <=> \E i \in DOMAIN Q : m = Q[i] /\ m.passes /\ m.wanted /\ IsLatest(Q, n, i)
  BY <1>2, <1>4, <1>5
<1>. QED
  BY <1>1, <1>2, <1>4, <1>6 DEF Flushed

MoreSunk(out, m) == IF m.passes /\ m.wanted THEN Append(out, m) ELSE out

WithoutOne(latest, s) == Restrict(latest, DOMAIN latest \ {s})

\* One of the dumps held is handed on.
LEMMA FlushOneMore ==
    ASSUME NEW X, NEW out, NEW Q, NEW latest, NEW s, NEW more, NEW rest,
           out \in Seq(X), Flushed(latest, out, Q), s \in DOMAIN latest,
           more = MoreSunk(out, latest[s]), rest = WithoutOne(latest, s)
    PROVE  Flushed(rest, more, Q) /\ \E Y : more \in Seq(Y)
<1>1. rest = Restrict(latest, DOMAIN latest \ {s}) /\ more = IF latest[s].passes /\ latest[s].wanted THEN Append(out, latest[s]) ELSE out
  BY DEF MoreSunk, WithoutOne
<1>2. DOMAIN rest = DOMAIN latest \ {s} /\ \A r \in DOMAIN rest : rest[r] = latest[r]
  BY <1>1 DEF Restrict
<1>3. PICK d : d = latest[s]
  OBVIOUS
<1>4. d.session = s /\ \A r \in DOMAIN latest : latest[r].session = r
  BY <1>3 DEF Flushed
<1>5. PICK n \in Nat : n = Len(out) /\ DOMAIN out = 1..n
  OBVIOUS
<1>6. \A i \in DOMAIN out : out[i].session \notin DOMAIN latest
  BY DEF Flushed
<1>7. \A i, j \in DOMAIN out : i # j => out[i].session # out[j].session
  BY DEF Flushed
<1>8. \A m : (m \in ToSet(out) \/ \E r \in DOMAIN latest : m = latest[r] /\ m.passes /\ m.wanted)
               <=> \E i \in DOMAIN Q : m = Q[i] /\ m.passes /\ m.wanted /\ IsLatest(Q, Len(Q), i)
  BY DEF Flushed
<1>9. \A m : (\E r \in DOMAIN latest : m = latest[r] /\ m.passes /\ m.wanted)
               <=> (m = d /\ m.passes /\ m.wanted) \/ \E r \in DOMAIN rest : m = rest[r] /\ m.passes /\ m.wanted
  BY <1>2, <1>3
<1>10. CASE d.passes /\ d.wanted
  <2>1. more = Append(out, d)
    BY <1>1, <1>3, <1>10
  <2>2. DOMAIN more = 1..(n + 1) /\ more[n + 1] = d /\ \A i \in 1..n : more[i] = out[i]
    BY <1>5, <2>1
  <2>3. 1..(n + 1) = (1..n) \cup {n + 1} /\ n + 1 \notin 1..n
    OBVIOUS
  <2>4. \A m : m \in ToSet(more) <=> m \in ToSet(out) \/ m = d
    BY <1>5, <2>2, <2>3 DEF ToSet
  <2>5. \A m : (m \in ToSet(more) \/ \E r \in DOMAIN rest : m = rest[r] /\ m.passes /\ m.wanted)
                 <=> \E i \in DOMAIN Q : m = Q[i] /\ m.passes /\ m.wanted /\ IsLatest(Q, Len(Q), i)
    BY <1>8, <1>9, <1>10, <2>4
  <2>6. \A i \in DOMAIN more : more[i].session \notin DOMAIN rest
    BY <1>2, <1>4, <1>5, <1>6, <2>2, <2>3
  <2>7. \A i, j \in DOMAIN more : i # j => more[i].session # more[j].session
    <3>1. \A i \in 1..n : more[i].session # more[n + 1].session
      BY <1>4, <1>5, <1>6, <2>2
    <3>. QED
      BY <1>5, <1>7, <2>2, <2>3, <3>1
  <2>8. more \in Seq(X \cup {d})
    <3>1. out \in Seq(X \cup {d})
      OBVIOUS
    <3>. QED
      BY <2>1, <3>1
  <2>9. \A r \in DOMAIN rest : rest[r].session = r
    BY <1>2, <1>4
  <2>10. Flushed(rest, more, Q)
    BY ONLY <2>5, <2>6, <2>7, <2>9 DEF Flushed
  <2>11. \E Y : more \in Seq(Y)
    BY <2>8
  <2>. QED
    BY ONLY <1>1, <2>10, <2>11
<1>11. CASE ~(d.passes /\ d.wanted)
  <2>1. more = out
    BY <1>1, <1>3, <1>11
  <2>2. \A m : (m \in ToSet(more) \/ \E r \in DOMAIN rest : m = rest[r] /\ m.passes /\ m.wanted)
                 <=> \E i \in DOMAIN Q : m = Q[i] /\ m.passes /\ m.wanted /\ IsLatest(Q, Len(Q), i)
    BY <1>8, <1>9, <1>11, <2>1
  <2>3. \A r \in DOMAIN rest : rest[r].session = r
    BY <1>2, <1>4
  <2>4. \A i \in DOMAIN more : more[i].session \notin DOMAIN rest
    BY <1>2, <1>6, <2>1
  <2>5. \A i, j \in DOMAIN more : i # j => more[i].session # more[j].session
    BY <1>7, <2>1
  <2>6. Flushed(rest, more, Q)
    BY ONLY <2>2, <2>3, <2>4, <2>5 DEF Flushed
  <2>7. \E Y : more \in Seq(Y)
    BY <2>1
  <2>. QED
    BY ONLY <1>1, <2>6, <2>7
<1>. QED
  BY <1>10, <1>11

\* Of Trae.
TraeInv ==
    lane = "trae" =>
      /\ FilesInv(lane, file)
      /\ step \in {"idle", "emit", "flush", "done"}
      /\ \E Y : sunk \in Seq(Y)
      /\ step = "idle" => DOMAIN held = {} /\ sunk = <<>>
      /\ step = "emit" =>
           /\ sunk = <<>>
           /\ \E n \in 0..Len(Live) : queue = SubSeq(Live, n + 1, Len(Live)) /\ LatestOf(held, Live, n)
      /\ step \in {"flush", "done"} => Flushed(held, sunk, Live)
      /\ step = "done" => DOMAIN held = {}

\* What the files of Trae hold is a sequence of dumps.
LEMMA LiveDumps ==
    ASSUME lane = "trae", TraeInv
    PROVE  \E X : Live \in Seq(X) /\ \A m \in X : IsDump(m)
<1>1. FilesInv(lane, file)
  BY DEF TraeInv
<1>2. PICK X : Live \in Seq(X) /\ \A m \in X : \E p \in Path : file[p] # NoFile /\ m \in ToSet(file[p])
  BY <1>1, ListedType DEF Live
<1>3. \A m \in X : IsDump(m)
  BY <1>1, <1>2, LaneAssumption DEF FilesInv, IsDump
<1>. QED
  BY <1>2, <1>3

\* One dump.
LEMMA BufferKept ==
    ASSUME lane = "trae", TraeInv, BufferTrae
    PROVE  TraeInv'
<1>1. UNCHANGED <<lane, file, step, sunk>> /\ step = "emit" /\ queue # <<>> /\ queue' = Tail(queue)
  BY DEF BufferTrae
<1>2. held' = KeepLatest(held, Head(queue))
  BY DEF BufferTrae
<1>3. PICK X, Q : Q \in Seq(X) /\ Q = Live /\ \A m \in X : IsDump(m)
  BY LiveDumps
<1>4. PICK n \in 0..Len(Q) : queue = SubSeq(Q, n + 1, Len(Q)) /\ LatestOf(held, Q, n)
  BY <1>1, <1>3 DEF TraeInv
<1>5. /\ n + 1 \in 1..Len(Q) /\ n + 1 \in 0..Len(Q)
      /\ Head(queue) = Q[n + 1]
      /\ Tail(queue) = SubSeq(Q, (n + 1) + 1, Len(Q))
  <2>1. Q \in Seq(X) /\ n \in 0..Len(Q) /\ queue = SubSeq(Q, n + 1, Len(Q)) /\ queue # <<>>
    BY <1>1, <1>3, <1>4
  <2>. QED
    BY ONLY <2>1, OneMore
<1>6. n \in Nat /\ \A i \in 1..(n + 1) : IsDump(Q[i])
  BY <1>3, <1>4, <1>5
<1>7. LatestOf(KeepLatest(held, Q[n + 1]), Q, n + 1)
  BY <1>4, <1>6, KeepLatestOneMore
<1>8. PICK k : k = n + 1
  OBVIOUS
<1>9. Live' = Q
  BY <1>1, <1>3 DEF Live
<1>10. k \in 0..Len(Live') /\ queue' = SubSeq(Live', k + 1, Len(Live')) /\ LatestOf(held', Live', k)
  BY <1>1, <1>2, <1>5, <1>7, <1>8, <1>9
<1>. QED
  BY <1>1, <1>10 DEF TraeInv

\* One of the dumps held.
LEMMA FlushKept ==
    ASSUME lane = "trae", TraeInv, FlushTrae
    PROVE  TraeInv'
<1>1. UNCHANGED <<lane, file, step>> /\ step = "flush"
  BY DEF FlushTrae
<1>2. PICK s \in DOMAIN held : Sink(held[s]) /\ held' = Restrict(held, DOMAIN held \ {s})
  BY DEF FlushTrae
<1>3. sunk' = IF held[s].passes /\ held[s].wanted THEN Append(sunk, held[s]) ELSE sunk
  BY <1>2 DEF Sink
<1>4. PICK Y : sunk \in Seq(Y)
  BY DEF TraeInv
<1>5. Flushed(held, sunk, Live)
  BY <1>1 DEF TraeInv
<1>6. PICK more : more = sunk'
  OBVIOUS
<1>7. PICK Q, latest, out : Q = Live /\ latest = held /\ out = sunk
  OBVIOUS
<1>8. /\ out \in Seq(Y) /\ Flushed(latest, out, Q) /\ s \in DOMAIN latest
      /\ more = MoreSunk(out, latest[s])
  BY <1>2, <1>3, <1>4, <1>5, <1>6, <1>7 DEF MoreSunk
<1>13. PICK rest : rest = WithoutOne(latest, s)
  OBVIOUS
<1>9. Flushed(rest, more, Q) /\ \E Z : more \in Seq(Z)
  BY ONLY <1>8, <1>13, FlushOneMore
<1>10. Live' = Q
  BY <1>1, <1>7 DEF Live
<1>11. held' = rest /\ sunk' = more
  BY <1>2, <1>6, <1>7, <1>13 DEF WithoutOne
<1>12. Flushed(held', sunk', Live') /\ \E Z : sunk' \in Seq(Z)
  BY <1>9, <1>10, <1>11
<1>. QED
  BY <1>1, <1>12 DEF TraeInv

\* Every step of a scan keeps it.
LEMMA NextTrae ==
    ASSUME lane = "trae", TraeInv, Next
    PROVE  TraeInv'
<1>1. CASE \E p \in Path : Write(p)
  <2>1. PICK p \in Path : Write(p)
    BY <1>1
  <2>2. PICK content : content \in Contents[lane][p] \cup {NoFile} /\ file' = [file EXCEPT ![p] = content]
    BY <2>1 DEF Write
  <2>3. FilesInv(lane, file')
    BY <2>2 DEF TraeInv, FilesInv
  <2>. QED
    BY <2>1, <2>3 DEF TraeInv, Write
<1>2. CASE Scan
  <2>1. UNCHANGED <<lane, file, held, sunk>> /\ step = "idle" /\ step' = "emit" /\ queue' = Queue
    BY <1>2 DEF Scan
  <2>2. PICK X, Q : Q \in Seq(X) /\ Q = Live
    BY LiveDumps
  <2>3. queue' = Q /\ Live' = Q
    BY <2>1, <2>2, QueueIsFiles DEF Live
  <2>4. DOMAIN held = {} /\ sunk = <<>>
    BY <2>1 DEF TraeInv
  <2>5. LatestOf(held', Q, 0)
    BY <2>1, <2>4 DEF LatestOf
  <2>6. 0 \in 0..Len(Q) /\ Q = SubSeq(Q, 0 + 1, Len(Q))
    BY <2>2, Ends
  <2>7. \E n \in 0..Len(Live') : queue' = SubSeq(Live', n + 1, Len(Live')) /\ LatestOf(held', Live', n)
    BY <2>3, <2>5, <2>6
  <2>. QED
    BY <2>1, <2>4, <2>7 DEF TraeInv
<1>3. CASE BufferTrae
  BY <1>3, BufferKept
<1>4. CASE FlushTrae
  BY <1>4, FlushKept
<1>5. CASE Emit \/ PutOff \/ EmitKiro \/ EmitAntigravity \/ FinishSource \/ FlushRetained
  BY <1>5 DEF Emit, Gated, PutOff, IsPutOff, EmitKiro, EmitAntigravity, FinishSource, FlushRetained
<1>6. CASE StartFlush
  <2>1. UNCHANGED <<lane, file, held, sunk>> /\ step = "emit" /\ step' = "flush" /\ queue = <<>>
    BY <1>6 DEF StartFlush
  <2>2. PICK X, Q : Q \in Seq(X) /\ Q = Live
    BY LiveDumps
  <2>3. PICK n \in 0..Len(Q) : queue = SubSeq(Q, n + 1, Len(Q)) /\ LatestOf(held, Q, n)
    BY <2>1, <2>2 DEF TraeInv
  <2>4. n = Len(Q)
    BY <2>1, <2>2, <2>3, Ends
  <2>5. sunk = <<>> /\ Flushed(held, <<>>, Q)
    BY <2>1, <2>2, <2>3, <2>4, LatestAreHeld DEF TraeInv
  <2>6. Live' = Q
    BY <2>1, <2>2 DEF Live
  <2>7. Flushed(held', sunk', Live')
    BY <2>1, <2>5, <2>6
  <2>. QED
    BY <2>1, <2>7 DEF TraeInv
<1>7. CASE Finish
  <2>1. UNCHANGED <<lane, file, held, sunk>> /\ step = "flush" /\ step' = "done" /\ DOMAIN held = {}
    BY <1>7 DEF Finish
  <2>2. Live' = Live
    BY <2>1 DEF Live
  <2>3. Flushed(held', sunk', Live')
    BY <2>1, <2>2 DEF TraeInv
  <2>. QED
    BY <2>1, <2>3 DEF TraeInv
<1>8. CASE Rest
  <2>1. UNCHANGED <<lane, file>> /\ step' = "idle" /\ held' = <<>> /\ sunk' = <<>>
    BY <1>8 DEF Rest
  <2>2. DOMAIN held' = {} /\ sunk' \in Seq({})
    BY <2>1
  <2>. QED
    BY <2>1, <2>2 DEF TraeInv
<1>. QED
  BY <1>1, <1>2, <1>3, <1>4, <1>5, <1>6, <1>7, <1>8 DEF Next

\* Before the first scan there is no file.
LEMMA InitTrae == ReportInit => TraeInv
<1>1. SUFFICES ASSUME ReportInit, lane = "trae" PROVE TraeInv
  BY DEF TraeInv
<1>2. lane \in Lanes /\ InitLane(lane)
  BY <1>1, ReportAssumption DEF ReportInit, ScanInit, Init, InitLane
<1>3. FilesInv(lane, file)
  BY <1>2 DEF InitLane, FilesInv
<1>4. step = "idle" /\ DOMAIN held = {} /\ sunk = <<>> /\ sunk \in Seq({})
  BY <1>2 DEF InitLane
<1>. QED
  BY <1>3, <1>4 DEF TraeInv

\* Only the steps of the lane that is looked at change its state.
LEMMA ReportNextTrae ==
    ASSUME TraeInv, [ReportNext]_<<vars, openCodeVars, reportVars>>
    PROVE  TraeInv'
<1>1. lane' = lane
  BY LaneStays
<1>2. SUFFICES ASSUME lane = "trae" PROVE TraeInv'
  BY <1>1 DEF TraeInv
<1>3. CASE Next
  BY <1>2, <1>3, NextTrae
<1>4. CASE UNCHANGED vars
  <2>1. UNCHANGED <<lane, file, step, queue, held, sunk>>
    BY <1>4 DEF vars
  <2>2. Live' = Live
    BY <2>1 DEF Live
  <2>. QED
    BY <2>1, <2>2 DEF TraeInv
<1>5. Next \/ UNCHANGED vars
  BY <1>2, ReportAssumption DEF ReportNext, ScanNext
<1>. QED
  BY <1>3, <1>4, <1>5

\* Of the dumps of a session the latest is reported, once.
LEMMA TraeCounts ==
    ASSUME TraeInv
    PROVE  LatestDumpCounts
<1>1. SUFFICES ASSUME step = "done", lane = "trae" PROVE LatestDumpCounts
  BY DEF LatestDumpCounts
<1>2. PICK X, Q : Q \in Seq(X) /\ Q = Live
  BY <1>1, LiveDumps
<1>3. Flushed(held, sunk, Q) /\ DOMAIN held = {}
  BY <1>1, <1>2 DEF TraeInv
<1>4. \A i, j \in DOMAIN sunk : i # j => sunk[i].session # sunk[j].session
  BY <1>3 DEF Flushed
<1>5. \A m : m \in ToSet(sunk) <=>
               \E i \in DOMAIN Q : m = Q[i] /\ m.passes /\ m.wanted /\ IsLatest(Q, Len(Q), i)
  BY <1>3 DEF Flushed
<1>6. DOMAIN Q = 1..Len(Q)
  BY <1>2
<1>7. PICK best : best = {i \in DOMAIN Q :
             /\ Q[i].passes /\ Q[i].wanted
             /\ \A j \in DOMAIN Q : Q[j].session = Q[i].session =>
                  /\ j < i => Outranks(Q[i], Q[j])
                  /\ j > i => ~Outranks(Q[j], Q[i])}
  OBVIOUS
<1>8. \A i \in DOMAIN Q : i \in best <=> Q[i].passes /\ Q[i].wanted /\ IsLatest(Q, Len(Q), i)
  BY <1>6, <1>7 DEF IsLatest
<1>9. ToSet(sunk) = {Q[i] : i \in best}
  BY <1>5, <1>7, <1>8
<1>. QED
  BY <1>2, <1>4, <1>7, <1>9 DEF LatestDumpCounts

\* What several sources tell is reported from one of them, whatever the files
\* hold: a session of Copilot, Grok or Kiro is told by one kind of source, a response
\* of Antigravity by the earliest client, a session of Trae by its latest dump.
THEOREM OneSourceTells == ReportSpec => []ToldOnce
<1>1. KeptInv => SessionIsToldOnce
  BY KeptTellOnce
<1>2. FamilyInv => EarliestSourceCounts
  BY FamilyCounts
<1>3. TraeInv => LatestDumpCounts
  BY TraeCounts
<1>4. KeptInv /\ FamilyInv /\ TraeInv => ToldOnce
  BY <1>1, <1>2, <1>3 DEF ToldOnce
<1>. QED
  BY <1>4, InitKept, ReportNextKept, InitFamily, ReportNextFamily, InitTrae, ReportNextTrae, PTL DEF ReportSpec
===============================================================================
