------------------------ MODULE ClaudeIncrementalProofs ------------------------
(***************************************************************************)
(* Why a Claude Code transcript that is parsed piece by piece gives what   *)
(* one parse of the whole would: what a parse stands at is a function of   *)
(* the lines and of the name its subagent had at the first of them, and a  *)
(* checkpoint restores all of it.                                          *)
(***************************************************************************)
EXTENDS ClaudeIncremental, GrowingFileProofs

\* A message, or the one a headless run is assembling.
HasTokens(m) ==
    /\ m = [f \in DOMAIN m |-> m[f]] /\ "tokens" \in DOMAIN m
    /\ m.tokens = [f \in DOMAIN m.tokens |-> m.tokens[f]]

IsState(st) == st = [f \in DOMAIN st |-> st[f]] /\ "detected" \in DOMAIN st

IsMessages(messages) ==
    IsSeq(messages) /\ \A i \in 1..Len(messages) : HasTokens(messages[i])

Parts(st, messages, stream, blocked) ==
    [st |-> st, messages |-> messages, stream |-> stream, blocked |-> blocked]

IsParse(p) ==
    /\ p = Parts(p.st, p.messages, p.stream, p.blocked)
    /\ IsState(p.st) /\ IsMessages(p.messages) /\ HasTokens(p.stream)
    /\ p.blocked \in BOOLEAN

\* What a step of the parser may do, once it knows whose file it reads.
Follows(q, p) ==
    /\ IsParse(q) /\ q.st.detected = p.st.detected
    /\ Len(p.messages) <= Len(q.messages)

\* The parts of a parse.
LEMMA PartsOf ==
    ASSUME NEW a, NEW b, NEW c, NEW d
    PROVE  LET p == Parts(a, b, c, d)
           IN  p.st = a /\ p.messages = b /\ p.stream = c /\ p.blocked = d
BY DEF Parts

\* Parts of the right kind make a parse.
LEMMA PartsParse ==
    ASSUME NEW a, IsState(a), NEW b, IsMessages(b), NEW c, HasTokens(c), NEW d \in BOOLEAN
    PROVE  IsParse(Parts(a, b, c, d))
BY PartsOf DEF IsParse

\* The ways in which the parser changes a parse.
LEMMA ChangedParts ==
    ASSUME NEW p, IsParse(p), NEW x
    PROVE  /\ [p EXCEPT !.st = x] = Parts(x, p.messages, p.stream, p.blocked)
           /\ [p EXCEPT !.messages = x] = Parts(p.st, x, p.stream, p.blocked)
           /\ [p EXCEPT !.stream = x] = Parts(p.st, p.messages, x, p.blocked)
           /\ [p EXCEPT !.blocked = x] = Parts(p.st, p.messages, p.stream, x)
<1>1. p = Parts(p.st, p.messages, p.stream, p.blocked)
  BY DEF IsParse
<1>2. PICK a, b, c, d : a = p.st /\ b = p.messages /\ c = p.stream /\ d = p.blocked
  OBVIOUS
<1>3. p = [st |-> a, messages |-> b, stream |-> c, blocked |-> d]
  BY <1>1, <1>2 DEF Parts
<1> QED
  BY <1>2, <1>3 DEF Parts

\* A parse with another state follows, if the first line decided the same.
LEMMA SetState ==
    ASSUME NEW p, IsParse(p), NEW st, IsState(st), st.detected = p.st.detected
    PROVE  LET q == [p EXCEPT !.st = st]
           IN  /\ Follows(q, p) /\ q.st = st /\ q.messages = p.messages
               /\ q.stream = p.stream /\ q.blocked = p.blocked
<1> DEFINE q == Parts(st, p.messages, p.stream, p.blocked)
<1>1. [p EXCEPT !.st = st] = q
  BY ChangedParts
<1>2. IsParse(q)
  BY PartsParse DEF IsParse
<1>3. /\ q.st = st /\ q.messages = p.messages /\ q.stream = p.stream /\ q.blocked = p.blocked
  BY PartsOf
<1>4. Len(p.messages) \in Nat
  BY SeqLength DEF IsParse, IsMessages
<1> HIDE DEF q
<1> QED
  BY <1>1, <1>2, <1>3, <1>4 DEF Follows

\* With other messages, if they are not fewer.
LEMMA SetMessages ==
    ASSUME NEW p, IsParse(p), NEW messages, IsMessages(messages),
           Len(p.messages) <= Len(messages)
    PROVE  LET q == [p EXCEPT !.messages = messages]
           IN  Follows(q, p) /\ q.st = p.st /\ q.messages = messages
<1> DEFINE q == Parts(p.st, messages, p.stream, p.blocked)
<1>1. [p EXCEPT !.messages = messages] = q
  BY ChangedParts
<1>2. IsParse(q)
  BY PartsParse DEF IsParse
<1>3. q.st = p.st /\ q.messages = messages
  BY PartsOf
<1> HIDE DEF q
<1> QED
  BY <1>1, <1>2, <1>3 DEF Follows

\* With another stream.
LEMMA SetStream ==
    ASSUME NEW p, IsParse(p), NEW stream, HasTokens(stream)
    PROVE  LET q == [p EXCEPT !.stream = stream]
           IN  /\ Follows(q, p) /\ q.st = p.st /\ q.messages = p.messages
               /\ q.stream = stream /\ q.blocked = p.blocked
<1> DEFINE q == Parts(p.st, p.messages, stream, p.blocked)
<1>1. [p EXCEPT !.stream = stream] = q
  BY ChangedParts
<1>2. IsParse(q)
  BY PartsParse DEF IsParse
<1>3. q.st = p.st /\ q.messages = p.messages /\ q.stream = stream /\ q.blocked = p.blocked
  BY PartsOf
<1>4. Len(p.messages) \in Nat
  BY SeqLength DEF IsParse, IsMessages
<1> HIDE DEF q
<1> QED
  BY <1>1, <1>2, <1>3, <1>4 DEF Follows

\* With another flag.
LEMMA SetBlocked ==
    ASSUME NEW p, IsParse(p), NEW b \in BOOLEAN
    PROVE  LET q == [p EXCEPT !.blocked = b]
           IN  /\ Follows(q, p) /\ q.st = p.st /\ q.messages = p.messages
               /\ q.stream = p.stream /\ q.blocked = b
<1> DEFINE q == Parts(p.st, p.messages, p.stream, b)
<1>1. [p EXCEPT !.blocked = b] = q
  BY ChangedParts
<1>2. IsParse(q)
  BY PartsParse DEF IsParse
<1>3. q.st = p.st /\ q.messages = p.messages /\ q.stream = p.stream /\ q.blocked = b
  BY PartsOf
<1>4. Len(p.messages) \in Nat
  BY SeqLength DEF IsParse, IsMessages
<1> HIDE DEF q
<1> QED
  BY <1>1, <1>2, <1>3, <1>4 DEF Follows

\* A parse follows itself.
LEMMA FollowsOnce == ASSUME NEW p, IsParse(p) PROVE Follows(p, p)
BY SeqLength DEF Follows, IsParse, IsMessages

\* What follows what follows, follows.
LEMMA FollowsTwice ==
    ASSUME NEW p, IsParse(p), NEW q, Follows(q, p), NEW r, Follows(r, q)
    PROVE  Follows(r, p)
<1>1. Len(p.messages) \in Nat /\ Len(q.messages) \in Nat /\ Len(r.messages) \in Nat
  BY SeqLength DEF Follows, IsParse, IsMessages
<1>2. Len(p.messages) <= Len(q.messages) /\ Len(q.messages) <= Len(r.messages)
  BY DEF Follows
<1> QED
  BY <1>1, <1>2 DEF Follows

\* One message more, or one of them replaced.
LEMMA MoreMessages ==
    ASSUME NEW messages, IsMessages(messages), NEW m, HasTokens(m)
    PROVE  LET all == Append(messages, m)
           IN  IsMessages(all) /\ Len(all) = Len(messages) + 1 /\ Len(messages) \in Nat
<1>1. PICK S : messages \in Seq(S) /\ m \in S
  BY CommonElements DEF IsMessages
<1>2. PICK all : all = Append(messages, m)
  OBVIOUS
<1>3. /\ Len(messages) \in Nat /\ Len(all) = Len(messages) + 1 /\ all \in Seq(S)
      /\ \A i \in 1..Len(messages) : all[i] = messages[i]
      /\ all[Len(messages) + 1] = m
  BY <1>1, <1>2
<1>4. IsSeq(all)
  BY <1>3, AnySeq
<1>5. \A i \in 1..Len(all) : HasTokens(all[i])
  <2> SUFFICES ASSUME NEW i \in 1..Len(all) PROVE HasTokens(all[i])
    OBVIOUS
  <2>1. CASE i <= Len(messages)
    <3>1. i \in 1..Len(messages)
      BY <1>3, <2>1
    <3> QED
      BY <1>3, <3>1 DEF IsMessages
  <2>2. CASE ~(i <= Len(messages))
    <3>1. i = Len(messages) + 1
      BY <1>3, <2>2
    <3> QED
      BY <1>3, <3>1
  <2> QED
    BY <2>1, <2>2
<1> QED
  BY <1>2, <1>3, <1>4, <1>5 DEF IsMessages

\* Messages stay as many when one is replaced.
LEMMA ReplacedMessage ==
    ASSUME NEW messages, IsMessages(messages), NEW i, NEW m, HasTokens(m)
    PROVE  LET all == [messages EXCEPT ![i] = m]
           IN  IsMessages(all) /\ Len(all) = Len(messages) /\ Len(messages) \in Nat
<1>1. PICK S : messages \in Seq(S) /\ m \in S
  BY CommonElements DEF IsMessages
<1>2. PICK all : all = [messages EXCEPT ![i] = m]
  OBVIOUS
<1>3. /\ Len(messages) \in Nat /\ Len(all) = Len(messages) /\ all \in Seq(S)
      /\ \A k \in 1..Len(messages) : all[k] = messages[k] \/ all[k] = m
  <2>1. PICK n \in Nat : n = Len(messages)
    BY <1>1
  <2>2. messages \in [1..n -> S]
    BY <1>1, <2>1
  <2>3. all \in [1..n -> S] /\ \A k \in 1..n : all[k] = messages[k] \/ all[k] = m
    BY <1>1, <1>2, <2>2
  <2>4. all \in Seq(S) /\ Len(all) = n
    BY <2>3
  <2> QED
    BY <2>1, <2>3, <2>4
<1>4. IsSeq(all)
  BY <1>3, AnySeq
<1>5. \A k \in 1..Len(all) : HasTokens(all[k])
  BY <1>3 DEF IsMessages
<1> QED
  BY <1>2, <1>3, <1>4, <1>5 DEF IsMessages

-------------------------------------------------------------------------------
(***************************************************************************)
(* The operations of the parser.                                           *)
(***************************************************************************)
\* The index of a key is 0 or that of a message.
LEMMA IndexInMessages ==
    ASSUME NEW p, IsParse(p), NEW key
    PROVE  IndexOf(p, key) \in 0..Len(p.messages)
<1> DEFINE at == {i \in DOMAIN p.messages : p.messages[i].key = key}
<1>1. Len(p.messages) \in Nat /\ DOMAIN p.messages = 1..Len(p.messages)
  BY SeqLength DEF IsParse, IsMessages
<1>2. CASE key = None \/ at = {}
  BY <1>1, <1>2 DEF IndexOf
<1>3. CASE ~(key = None \/ at = {})
  <2>1. \E i \in at : \A j \in at : i <= j
    <3>1. at \subseteq Nat /\ at # {}
      BY <1>1, <1>3
    <3> HIDE DEF at
    <3> QED
      BY <3>1, LeastNumber
  <2>2. IndexOf(p, key) = CHOOSE i \in at : \A j \in at : i <= j
    BY <1>3 DEF IndexOf
  <2> DEFINE first == CHOOSE i \in at : \A j \in at : i <= j
  <2>3. at \subseteq 1..Len(p.messages)
    BY <1>1
  <2> HIDE DEF at
  <2>4. first \in at
    BY <2>1
  <2> HIDE DEF first
  <2>5. first \in 0..Len(p.messages)
    BY <1>1, <2>3, <2>4
  <2> QED
    BY <2>2, <2>5 DEF first
<1> QED
  BY <1>2, <1>3

\* A message more.
LEMMA PushFollows ==
    ASSUME NEW p, IsParse(p), NEW m, HasTokens(m), NEW confidence
    PROVE  /\ Follows(Push(p, m, confidence), p)
           /\ Len(Push(p, m, confidence).messages) = Len(p.messages) + 1
<1> DEFINE more == Append(p.messages, m)
           q == [p EXCEPT !.messages = more]
           st == [p.st EXCEPT !.confidence = Append(@, confidence)]
<1>1. IsMessages(more) /\ Len(more) = Len(p.messages) + 1 /\ Len(p.messages) \in Nat
  BY MoreMessages DEF IsParse
<1>2. IsState(st) /\ st.detected = p.st.detected
  BY DEF IsParse, IsState
<1>3. Push(p, m, confidence) = [q EXCEPT !.st = st]
  <2>1. Push(p, m, confidence) = [p EXCEPT !.messages = more, !.st.confidence = Append(@, confidence)]
    BY DEF Push
  <2>2. q.st = p.st
    BY DEF IsParse, Parts
  <2> HIDE DEF more
  <2>3. [p EXCEPT !.messages = more, !.st.confidence = Append(@, confidence)]
          = [q EXCEPT !.st = [q.st EXCEPT !.confidence = Append(@, confidence)]]
    OBVIOUS
  <2> QED
    BY <2>1, <2>2, <2>3
<1> HIDE DEF more, st
<1>4. Follows(q, p) /\ q.messages = more /\ q.st = p.st
  BY <1>1, SetMessages
<1> HIDE DEF q
<1>5. Follows([q EXCEPT !.st = st], q) /\ [q EXCEPT !.st = st].messages = q.messages
  BY <1>2, <1>4, SetState DEF Follows
<1>6. Follows([q EXCEPT !.st = st], p)
  BY <1>4, <1>5, FollowsTwice
<1> QED
  BY <1>1, <1>3, <1>4, <1>5, <1>6

\* A request that told how its cache was written leaves the messages.
LEMMA SplitIfFollows ==
    ASSUME NEW p, IsParse(p), NEW u, NEW key
    PROVE  Follows(SplitIf(p, u, key), p) /\ SplitIf(p, u, key).messages = p.messages
<1> DEFINE st == [p.st EXCEPT !.split = @ \cup {key}]
<1>1. IsState(st) /\ st.detected = p.st.detected
  BY DEF IsParse, IsState
<1>2. SplitIf(p, u, key) \in {p, [p EXCEPT !.st = st]}
  BY DEF SplitIf
<1> HIDE DEF st
<1>3. Follows([p EXCEPT !.st = st], p) /\ [p EXCEPT !.st = st].messages = p.messages
  BY <1>1, SetState
<1>4. Follows(p, p)
  BY FollowsOnce
<1> QED
  BY <1>2, <1>3, <1>4

\* A row merged into an earlier one.
LEMMA MergeRowFollows ==
    ASSUME NEW p, IsParse(p), NEW i \in 1..Len(p.messages), NEW u, NEW time, NEW provider
    PROVE  /\ Follows(MergeRow(p, i, u, time, provider), p)
           /\ Len(MergeRow(p, i, u, time, provider).messages) = Len(p.messages)
<1> DEFINE m == p.messages[i]
           better == provider.confidence > p.st.confidence[i]
           tokens == MergedTokens(m.tokens, u, m.key \in p.st.split)
           merged == [m EXCEPT !.tokens = tokens,
                               !.duration = MergedDuration(m, time),
                               !.provider = IF better THEN provider.id ELSE @]
           confidence == IF better THEN provider.confidence ELSE p.st.confidence[i]
           all == [p.messages EXCEPT ![i] = merged]
           q == [p EXCEPT !.messages = all]
           st == [p.st EXCEPT !.confidence[i] = IF better THEN provider.confidence ELSE @]
           r == [q EXCEPT !.st = st]
<1>1. HasTokens(m)
  BY DEF IsParse, IsMessages
<1>2. HasTokens(merged)
  <2>1. tokens = [f \in DOMAIN tokens |-> tokens[f]]
    BY DEF MergedTokens
  <2> HIDE DEF tokens, m, better
  <2> QED
    BY <1>1, <2>1 DEF HasTokens
<1> HIDE DEF merged
<1>3. IsMessages(all) /\ Len(all) = Len(p.messages) /\ Len(p.messages) \in Nat
  BY <1>2, ReplacedMessage DEF IsParse
<1>4. IsState(st) /\ st.detected = p.st.detected
  BY DEF IsParse, IsState
<1>5. MergeRow(p, i, u, time, provider) = SplitIf(r, u, m.key)
  <2>1. MergeRow(p, i, u, time, provider)
          = SplitIf([p EXCEPT !.messages[i] = merged,
                              !.st.confidence[i] = IF better THEN provider.confidence ELSE @],
                    u, m.key)
    BY DEF MergeRow, merged
  <2>2. q.st = p.st
    BY DEF IsParse, Parts
  <2> HIDE DEF better, m
  <2>3. [p EXCEPT !.messages[i] = merged,
                  !.st.confidence[i] = IF better THEN provider.confidence ELSE @]
          = [q EXCEPT !.st = [q.st EXCEPT !.confidence[i] = IF better THEN provider.confidence ELSE @]]
    OBVIOUS
  <2> QED
    BY <2>1, <2>2, <2>3
<1> HIDE DEF all, st, m
<1>6. Follows(q, p) /\ q.messages = all /\ q.st = p.st
  BY <1>3, SetMessages
<1> HIDE DEF q
<1>7. Follows(r, q) /\ r.messages = q.messages
  BY <1>4, <1>6, SetState DEF Follows
<1> HIDE DEF r
<1>8. Follows(r, p)
  BY <1>6, <1>7, FollowsTwice
<1>9. Follows(SplitIf(r, u, m.key), r) /\ SplitIf(r, u, m.key).messages = r.messages
  BY <1>8, SplitIfFollows DEF Follows
<1>10. Follows(SplitIf(r, u, m.key), p)
  BY <1>8, <1>9, FollowsTwice
<1> QED
  BY <1>3, <1>5, <1>6, <1>7, <1>9, <1>10

\* The handlers keep the shape of a parse: one advisor call.
LEMMA AdvisorFollows ==
    ASSUME NEW p, IsParse(p), NEW row \in 1..Len(p.messages), NEW u, NEW n
    PROVE  Follows(ParseAdvisor(p, row, u, n), p)
<1> DEFINE up == p.messages[row]
           key == IF up.key = None THEN None ELSE <<up.key, n>>
           i == IndexOf(p, key)
           m == [up EXCEPT !.key = key, !.tokens = FirstTokens(u), !.turn = FALSE,
                           !.duration = 0, !.model = u.model, !.provider = u.provider.id]
<1>1. HasTokens(up)
  BY DEF IsParse, IsMessages
<1>2. HasTokens(m)
  <2>1. FirstTokens(u) = [f \in DOMAIN FirstTokens(u) |-> FirstTokens(u)[f]]
    BY DEF FirstTokens
  <2> HIDE DEF up, key
  <2> QED
    BY <1>1, <2>1 DEF HasTokens
<1>3. i \in 0..Len(p.messages) /\ Len(p.messages) \in Nat
  BY IndexInMessages, SeqLength DEF IsParse, IsMessages
<1>4. ParseAdvisor(p, row, u, n)
        = IF i # 0 THEN MergeRow(p, i, u, None, u.provider)
          ELSE Push(SplitIf(p, u, key), m, u.provider.confidence)
  BY DEF ParseAdvisor
<1> HIDE DEF m, i, key, up
<1>5. CASE i # 0
  <2>1. i \in 1..Len(p.messages)
    BY <1>3, <1>5
  <2> QED
    BY <1>4, <1>5, <2>1, MergeRowFollows
<1>6. CASE i = 0
  <2>1. Follows(SplitIf(p, u, key), p)
    BY SplitIfFollows
  <2>2. Follows(Push(SplitIf(p, u, key), m, u.provider.confidence), SplitIf(p, u, key))
    BY <1>2, <2>1, PushFollows DEF Follows
  <2> QED
    BY <1>4, <1>6, <2>1, <2>2, FollowsTwice
<1> QED
  BY <1>5, <1>6

\* The advisor calls of a row, one after another.
IsAdvised(g, p, row, advisors, n) ==
    g = [k \in 0..n |-> IF k = 0 THEN p ELSE ParseAdvisor(g[k - 1], row, advisors[k], k)]

\* The advisor calls of a row one by one.
LEMMA AdvisedSteps ==
    ASSUME NEW p, NEW row, NEW advisors, NEW n \in Nat, NEW g, IsAdvised(g, p, row, advisors, n)
    PROVE  g[0] = p /\ \A k \in 1..n : g[k] = ParseAdvisor(g[k - 1], row, advisors[k], k)
<1> DEFINE Step(k) == IF k = 0 THEN p ELSE ParseAdvisor(g[k - 1], row, advisors[k], k)
<1>1. g = [k \in 0..n |-> Step(k)]
  BY DEF IsAdvised
<1> HIDE DEF Step
<1>2. \A k \in 0..n : g[k] = Step(k)
  BY <1>1
<1>3. 0 \in 0..n /\ \A k \in 1..n : k \in 0..n /\ k # 0
  OBVIOUS
<1> QED
  BY <1>2, <1>3 DEF Step

\* There is a parse after any number of them.
LEMMA AdvisedExists ==
    ASSUME NEW p, NEW row, NEW advisors, NEW n \in Nat
    PROVE  \E g : IsAdvised(g, p, row, advisors, n)
<1> DEFINE S == {k \in Nat : ~\E g : IsAdvised(g, p, row, advisors, k)}
<1>1. SUFFICES ASSUME S # {} PROVE FALSE
  OBVIOUS
<1>2. PICK k \in S : \A m \in S : k <= m
  <2>1. S \subseteq Nat
    OBVIOUS
  <2> HIDE DEF S
  <2> QED
    BY <1>1, <2>1, LeastNumber
<1>3. k \in Nat /\ ~\E g : IsAdvised(g, p, row, advisors, k)
  BY <1>2
<1>4. k # 0
  <2>1. IsAdvised([i \in 0..0 |-> p], p, row, advisors, 0)
    BY DEF IsAdvised
  <2> QED
    BY <1>3, <2>1
<1>5. PICK m \in Nat : k = m + 1
  <2>1. k - 1 \in Nat /\ k = (k - 1) + 1
    BY <1>3, <1>4
  <2> QED
    BY <2>1
<1>6. PICK h : IsAdvised(h, p, row, advisors, m)
  <2>1. m \notin S
    BY <1>2, <1>5
  <2> QED
    BY <1>5, <2>1
<1>7. h[0] = p /\ \A i \in 1..m : h[i] = ParseAdvisor(h[i - 1], row, advisors[i], i)
  BY <1>6, AdvisedSteps
<1> DEFINE last == ParseAdvisor(h[m], row, advisors[k], k)
           g == [i \in 0..k |-> IF i = k THEN last ELSE h[i]]
           G(i) == IF i = 0 THEN p ELSE ParseAdvisor(g[i - 1], row, advisors[i], i)
<1>8. \A i \in 0..k : g[i] = G(i)
  <2> SUFFICES ASSUME NEW i \in 0..k PROVE g[i] = G(i)
    OBVIOUS
  <2> HIDE DEF last
  <2>1. CASE i = 0
    BY <1>5, <1>7, <2>1
  <2>2. CASE i # 0 /\ i # k
    <3>1. i \in 1..m /\ i - 1 \in 0..k /\ i - 1 # k
      BY <1>5, <2>2
    <3>2. g[i] = h[i] /\ g[i - 1] = h[i - 1]
      BY <2>2, <3>1
    <3> QED
      BY <1>7, <2>2, <3>1, <3>2
  <2>3. CASE i # 0 /\ i = k
    <3>1. m \in 0..k /\ m # k /\ i - 1 = m
      BY <1>5, <2>3
    <3>2. g[i - 1] = h[m] /\ g[i] = last
      BY <2>3, <3>1
    <3> QED
      BY <2>3, <3>2 DEF last
  <2> QED
    BY <2>1, <2>2, <2>3
<1>9. g = [i \in 0..k |-> G(i)]
  <2>1. g = [i \in 0..k |-> g[i]]
    OBVIOUS
  <2> HIDE DEF g, G
  <2> QED
    BY <1>8, <2>1
<1>10. IsAdvised(g, p, row, advisors, k)
  <2> HIDE DEF g
  <2> QED
    BY <1>9 DEF IsAdvised
<1> QED
  BY <1>3, <1>10

\* All advisor calls of a row.
LEMMA AdvisorsFollow ==
    ASSUME NEW p, IsParse(p), NEW row \in 1..Len(p.messages),
           NEW advisors, Len(advisors) \in Nat
    PROVE  Follows(ParseAdvisors(p, row, advisors), p)
<1>1. PICK n \in Nat : n = Len(advisors)
  OBVIOUS
<1> DEFINE f == CHOOSE g : g = [k \in 0..Len(advisors) |->
                                  IF k = 0 THEN p ELSE ParseAdvisor(g[k - 1], row, advisors[k], k)]
<1>2. ParseAdvisors(p, row, advisors) = f[Len(advisors)]
  BY DEF ParseAdvisors
<1>3. IsAdvised(f, p, row, advisors, Len(advisors))
  BY <1>1, AdvisedExists DEF IsAdvised
<1>4. PICK g : IsAdvised(g, p, row, advisors, n) /\ ParseAdvisors(p, row, advisors) = g[n]
  BY <1>1, <1>2, <1>3
<1>5. g[0] = p /\ \A k \in 1..n : g[k] = ParseAdvisor(g[k - 1], row, advisors[k], k)
  BY <1>4, AdvisedSteps
<1> DEFINE S == {k \in 0..n : ~Follows(g[k], p)}
<1>6. SUFFICES ASSUME S # {} PROVE FALSE
  <2>1. n \in 0..n
    OBVIOUS
  <2> QED
    BY <1>4, <1>6, <2>1
<1>7. PICK k \in S : \A m \in S : k <= m
  <2>1. S \subseteq Nat
    OBVIOUS
  <2> HIDE DEF S
  <2> QED
    BY <1>6, <2>1, LeastNumber
<1>8. k # 0
  BY <1>5, <1>7, FollowsOnce
<1>9. k \in 1..n /\ k - 1 \in 0..n /\ k - 1 < k
  BY <1>7, <1>8
<1>10. PICK q : q = g[k - 1]
  OBVIOUS
<1>11. Follows(q, p)
  BY <1>7, <1>9, <1>10
<1>12. row \in 1..Len(q.messages)
  BY <1>11, SeqLength DEF Follows, IsParse, IsMessages
<1>13. Follows(ParseAdvisor(q, row, advisors[k], k), q)
  BY <1>11, <1>12, AdvisorFollows DEF Follows
<1>14. Follows(ParseAdvisor(q, row, advisors[k], k), p)
  BY <1>11, <1>13, FollowsTwice
<1> QED
  BY <1>5, <1>7, <1>9, <1>10, <1>14

\* The result of a tool.
LEMMA ToolResultFollows ==
    ASSUME NEW p, IsParse(p), NEW line
    PROVE  Follows(ParseToolResult(p, line), p)
<1> DEFINE model == OrElse(p.st.last_model, UnknownModel)
           key == IF line.tool.id = None THEN None ELSE <<"tool_result", p.st.session, line.tool.id>>
           time == OrElse(line.time, FallbackTime)
           i == IndexOf(p, key)
           old == p.messages[i]
           m == [key |-> key, model |-> model, session |-> p.st.session, agent |-> p.st.agent,
                 time |-> time, duration |-> 0, turn |-> FALSE,
                 tokens |-> [NoTokens EXCEPT !.input = line.tool.input],
                 provider |-> Unattributed]
           larger == [old EXCEPT !.tokens.input = Larger(@, line.tool.input),
                                 !.time = Larger(@, time)]
           all == [p.messages EXCEPT ![i] = larger]
<1>1. ParseToolResult(p, line)
        = IF i = 0 THEN Push(p, m, 0)
          ELSE [p EXCEPT !.messages[i] =
                  [old EXCEPT !.tokens.input = Larger(@, line.tool.input),
                              !.time = Larger(@, time)]]
  BY DEF ParseToolResult
<1>2. HasTokens(m)
  <2>1. NoTokens = [f \in DOMAIN NoTokens |-> NoTokens[f]]
    BY DEF NoTokens
  <2> HIDE DEF key, time, model
  <2> QED
    BY <2>1 DEF HasTokens
<1>3. i \in 0..Len(p.messages) /\ Len(p.messages) \in Nat
  BY IndexInMessages, SeqLength DEF IsParse, IsMessages
<1> HIDE DEF i, m, time
<1>4. CASE i = 0
  BY <1>1, <1>2, <1>4, PushFollows
<1>5. CASE i # 0
  <2>1. HasTokens(old)
    BY <1>3, <1>5 DEF IsParse, IsMessages
  <2>2. HasTokens(larger)
    <3> HIDE DEF old
    <3> QED
      BY <2>1 DEF HasTokens
  <2>3. ParseToolResult(p, line) = [p EXCEPT !.messages = all]
    BY <1>1, <1>5
  <2> HIDE DEF larger
  <2>4. IsMessages(all) /\ Len(all) = Len(p.messages)
    BY <2>2, ReplacedMessage DEF IsParse
  <2> HIDE DEF all
  <2>5. Len(p.messages) <= Len(all)
    BY <1>3, <2>4
  <2> QED
    BY <2>3, <2>4, <2>5, SetMessages
<1> QED
  BY <1>4, <1>5

\* A row of the user.
LEMMA UserFollows ==
    ASSUME NEW p, IsParse(p), NEW line
    PROVE  Follows(ParseUser(p, line), p)
<1> DEFINE counts == line.tool # None /\ p.st.last_model # Synthetic
           b == p.blocked \/ (counts /\ line.time = None)
           st == [p.st EXCEPT !.pending_start = OrElse(line.time, @),
                              !.pending_turn = @ \/ line.human]
           q == [p EXCEPT !.blocked = b]
           r == [q EXCEPT !.st = st]
<1>1. b \in BOOLEAN
  BY DEF IsParse
<1>2. IsState(st) /\ st.detected = p.st.detected
  BY DEF IsParse, IsState
<1>3. ParseUser(p, line) = IF counts THEN ParseToolResult(r, line) ELSE r
  <2>1. ParseUser(p, line)
          = LET all == [p EXCEPT !.blocked = b,
                                 !.st.pending_start = OrElse(line.time, @),
                                 !.st.pending_turn = @ \/ line.human]
            IN  IF counts THEN ParseToolResult(all, line) ELSE all
    BY DEF ParseUser
  <2>2. q.st = p.st
    BY DEF IsParse, Parts
  <2> HIDE DEF b, counts
  <2>3. [p EXCEPT !.blocked = b,
                  !.st.pending_start = OrElse(line.time, @),
                  !.st.pending_turn = @ \/ line.human]
          = [q EXCEPT !.st = [q.st EXCEPT !.pending_start = OrElse(line.time, @),
                                          !.pending_turn = @ \/ line.human]]
    OBVIOUS
  <2> QED
    BY <2>1, <2>2, <2>3
<1> HIDE DEF b, st, counts
<1>4. Follows(q, p) /\ q.st = p.st
  BY <1>1, SetBlocked
<1> HIDE DEF q
<1>5. Follows(r, q)
  BY <1>2, <1>4, SetState DEF Follows
<1> HIDE DEF r
<1>6. Follows(r, p)
  BY <1>4, <1>5, FollowsTwice
<1>7. Follows(ParseToolResult(r, line), r)
  BY <1>6, ToolResultFollows DEF Follows
<1>8. Follows(ParseToolResult(r, line), p)
  BY <1>6, <1>7, FollowsTwice
<1> QED
  BY <1>3, <1>6, <1>8

\* A new message, and the advisor calls on its row.
LEMMA AssistantFollows ==
    ASSUME NEW p, IsParse(p), NEW line, Len(line.advisors) \in Nat
    PROVE  Follows(ParseAssistant(p, line), p)
<1> DEFINE st == [p.st EXCEPT !.last_model = OrElse(line.model, @)]
           q == [p EXCEPT !.st.last_model = OrElse(line.model, @)]
           i == IndexOf(q, line.key)
           b == q.blocked \/ (q.st.pending_start = None /\ line.time = None)
           r == [q EXCEPT !.blocked = b]
           split == SplitIf(r, line.usage, line.key)
           m == NewMessage(q, line)
           pushed == Push(split, m, line.provider.confidence)
           merged == MergeRow(q, i, line.usage, line.time, line.provider)
           settled == [pushed EXCEPT !.st = [pushed.st EXCEPT !.pending_turn = FALSE,
                                                              !.pending_start = None]]
           result == ParseAdvisors(settled, Len(pushed.messages), line.advisors)
<1>1. ParseAssistant(p, line) \in {q, result} \/
        (i # 0 /\ ParseAssistant(p, line) = ParseAdvisors(merged, i, line.advisors))
  <2>1. [pushed EXCEPT !.st.pending_turn = FALSE, !.st.pending_start = None] = settled
    <3> HIDE DEF pushed
    <3> QED
      OBVIOUS
  <2> QED
    BY <2>1 DEF ParseAssistant
<1>2. Follows(q, p)
  <2>1. IsState(st) /\ st.detected = p.st.detected
    BY DEF IsParse, IsState
  <2>2. q = [p EXCEPT !.st = st]
    OBVIOUS
  <2> HIDE DEF st
  <2>3. Follows([p EXCEPT !.st = st], p)
    BY <2>1, SetState
  <2> QED
    BY <2>2, <2>3
<1>3. HasTokens(m)
  BY DEF NewMessage, FirstTokens, HasTokens
<1> HIDE DEF q, m
<1>4. IsParse(q) /\ Len(q.messages) \in Nat
  BY <1>2, SeqLength DEF Follows, IsParse, IsMessages
<1>5. i \in 0..Len(q.messages)
  BY <1>4, IndexInMessages
<1>6. ASSUME i # 0 PROVE Follows(ParseAdvisors(merged, i, line.advisors), p)
  <2> HIDE DEF i
  <2>1. i \in 1..Len(q.messages)
    BY <1>4, <1>5, <1>6
  <2>2. Follows(merged, q) /\ Len(merged.messages) = Len(q.messages)
    BY <1>4, <2>1, MergeRowFollows
  <2> HIDE DEF merged
  <2>3. Follows(ParseAdvisors(merged, i, line.advisors), merged)
    BY <2>1, <2>2, AdvisorsFollow DEF Follows
  <2> QED
    BY <1>2, <2>2, <2>3, FollowsTwice DEF Follows
<1>7. Follows(result, p)
  <2>1. b \in BOOLEAN
    BY <1>4 DEF IsParse
  <2> HIDE DEF b
  <2>2. Follows(r, q)
    BY <1>4, <2>1, SetBlocked
  <2> HIDE DEF r
  <2>3. Follows(split, r)
    BY <2>2, SplitIfFollows DEF Follows
  <2> HIDE DEF split
  <2>4. Follows(pushed, split) /\ Len(pushed.messages) = Len(split.messages) + 1
    BY <1>3, <2>3, PushFollows DEF Follows
  <2> HIDE DEF pushed
  <2>5. IsParse(pushed)
    BY <2>4 DEF Follows
  <2> DEFINE done == [pushed.st EXCEPT !.pending_turn = FALSE, !.pending_start = None]
  <2>6. IsState(done) /\ done.detected = pushed.st.detected
    BY <2>5 DEF IsParse, IsState
  <2>7. settled = [pushed EXCEPT !.st = done]
    OBVIOUS
  <2> HIDE DEF done
  <2>8. Follows([pushed EXCEPT !.st = done], pushed)
          /\ [pushed EXCEPT !.st = done].messages = pushed.messages
    BY <2>5, <2>6, SetState
  <2>9. Follows(settled, pushed) /\ settled.messages = pushed.messages
    BY <2>7, <2>8
  <2> HIDE DEF settled
  <2>10. Len(split.messages) \in Nat
    BY <2>3, SeqLength DEF Follows, IsParse, IsMessages
  <2>11. Len(pushed.messages) \in 1..Len(settled.messages)
    BY <2>4, <2>9, <2>10
  <2>12. Follows(result, settled)
    BY <2>9, <2>11, AdvisorsFollow DEF Follows
  <2> HIDE DEF result
  <2>13. Follows(r, p)
    BY <1>2, <2>2, FollowsTwice
  <2>14. Follows(split, p)
    BY <2>3, <2>13, FollowsTwice
  <2>15. Follows(pushed, p)
    BY <2>4, <2>14, FollowsTwice
  <2>16. Follows(settled, p)
    BY <2>9, <2>15, FollowsTwice
  <2> QED
    BY <2>12, <2>16, FollowsTwice
<1> QED
  BY <1>1, <1>2, <1>6, <1>7

\* A message of a headless run.
LEMMA HeadlessFollows ==
    ASSUME NEW p, IsParse(p), NEW model, NEW time,
           NEW tokens, tokens = [f \in DOMAIN tokens |-> tokens[f]]
    PROVE  Follows(Headless(p, model, time, tokens), p)
<1> DEFINE m == [key |-> None, model |-> model, session |-> p.st.session, agent |-> None,
                 time |-> OrElse(time, FallbackTime), duration |-> 0, turn |-> FALSE,
                 tokens |-> tokens, provider |-> Unattributed]
           q == Push(p, m, 0)
<1>1. Headless(p, model, time, tokens) = [q EXCEPT !.blocked = TRUE]
  BY DEF Headless
<1>2. HasTokens(m)
  BY DEF HasTokens
<1> HIDE DEF m
<1>3. Follows(q, p)
  BY <1>2, PushFollows
<1> HIDE DEF q
<1>4. PICK b \in BOOLEAN : b = TRUE
  OBVIOUS
<1>5. Follows([q EXCEPT !.blocked = b], q)
  BY <1>3, SetBlocked DEF Follows
<1>6. Follows([q EXCEPT !.blocked = b], p)
  BY <1>3, <1>5, FollowsTwice
<1> QED
  BY <1>1, <1>4, <1>6

\* Clamped tokens are tokens.
LEMMA ClampedTokens ==
    ASSUME NEW m, HasTokens(m)
    PROVE  LET tokens == Clamped(m).tokens IN tokens = [f \in DOMAIN tokens |-> tokens[f]]
BY DEF HasTokens, Clamped

\* Nothing is left open when a stream was closed.
LEMMA CloseStreamFollows ==
    ASSUME NEW p, IsParse(p)
    PROVE  /\ Follows(CloseStream(p), p)
           /\ p.stream = NoStream => CloseStream(p) = p
<1> DEFINE closed == [p EXCEPT !.stream = NoStream]
           tokens == Clamped(p.stream).tokens
           message == Headless(closed, p.stream.model, p.stream.time, tokens)
<1>1. CloseStream(p) \in {p, closed, message} /\ (p.stream.model = None => CloseStream(p) = p)
  BY DEF CloseStream
<1>2. HasTokens(NoStream) /\ NoStream.model = None
  BY DEF HasTokens, NoStream, NoTokens
<1>3. Follows(closed, p)
  BY <1>2, SetStream
<1>4. tokens = [f \in DOMAIN tokens |-> tokens[f]]
  BY ClampedTokens DEF IsParse
<1> HIDE DEF tokens, closed
<1>5. Follows(message, closed)
  BY <1>3, <1>4, HeadlessFollows DEF Follows
<1> HIDE DEF message
<1>6. Follows(message, p) /\ Follows(p, p)
  BY <1>3, <1>5, FollowsTwice, FollowsOnce
<1> QED
  BY <1>1, <1>2, <1>3, <1>6

\* An event of a stream.
LEMMA StreamFollows ==
    ASSUME NEW p, IsParse(p), NEW line
    PROVE  Follows(ParseStream(p, line), p)
<1> DEFINE q == IF line.event = "message_delta" THEN p ELSE CloseStream(p)
           more == MaxTokens(q.stream.tokens, line.usage)
           first == [model |-> line.model, time |-> OrElse(line.time, q.stream.time),
                     tokens |-> more]
           next == [q.stream EXCEPT !.tokens = more]
<1>1. ParseStream(p, line) \in {[q EXCEPT !.stream = first], [q EXCEPT !.stream.tokens = more], q}
  BY DEF ParseStream
<1>2. [q EXCEPT !.stream.tokens = more] = [q EXCEPT !.stream = next]
  OBVIOUS
<1>3. Follows(q, p)
  BY CloseStreamFollows, FollowsOnce
<1> HIDE DEF q
<1>4. IsParse(q) /\ HasTokens(q.stream)
  BY <1>3 DEF Follows, IsParse
<1>5. more = [f \in DOMAIN more |-> more[f]]
  BY DEF MaxTokens
<1> HIDE DEF more
<1>6. HasTokens(first)
  BY <1>5 DEF HasTokens
<1>7. HasTokens(next)
  BY <1>4, <1>5 DEF HasTokens
<1> HIDE DEF first, next
<1>8. Follows([q EXCEPT !.stream = first], q) /\ Follows([q EXCEPT !.stream = next], q)
  BY <1>4, <1>6, <1>7, SetStream
<1>9. Follows([q EXCEPT !.stream = first], p) /\ Follows([q EXCEPT !.stream = next], p)
  BY <1>3, <1>8, FollowsTwice
<1> QED
  BY <1>1, <1>2, <1>3, <1>9

\* A whole document.
LEMMA DocumentFollows ==
    ASSUME NEW p, IsParse(p), NEW line
    PROVE  Follows(ParseDocument(p, line), p)
<1> DEFINE m == [tokens |-> FirstTokens(line.usage)]
           tokens == Clamped(m).tokens
<1>1. ParseDocument(p, line) \in {p, Headless(p, line.model, line.time, tokens)}
  BY DEF ParseDocument
<1>2. HasTokens(m)
  BY DEF HasTokens, FirstTokens
<1> HIDE DEF m
<1>3. tokens = [f \in DOMAIN tokens |-> tokens[f]]
  BY <1>2, ClampedTokens
<1> HIDE DEF tokens
<1> QED
  BY <1>1, <1>3, HeadlessFollows, FollowsOnce

-------------------------------------------------------------------------------
(***************************************************************************)
(* A line of a transcript.                                                 *)
(***************************************************************************)
IsLine(line) == line.type = "assistant" => Len(line.advisors) \in Nat

AreLines(lines) == IsSeq(lines) /\ \A i \in 1..Len(lines) : IsLine(lines[i])

\* Any line after the one that decides what the transcript is.
LEMMA DetectedFollows ==
    ASSUME NEW p, IsParse(p), NEW line, IsLine(line)
    PROVE  Follows(ParseDetected(p, line), p)
<1>1. CASE line.type = "stream"
  BY <1>1, StreamFollows DEF ParseDetected
<1>2. CASE line.type = "headless"
  BY <1>2, DocumentFollows DEF ParseDetected
<1>3. CASE line.type = "user"
  BY <1>3, UserFollows DEF ParseDetected
<1>4. CASE line.type = "assistant"
  BY <1>4, AssistantFollows DEF ParseDetected, IsLine
<1>5. CASE line.type \notin {"stream", "headless", "user", "assistant"}
  <2>1. ParseDetected(p, line) = p
    BY <1>5 DEF ParseDetected
  <2> QED
    BY <2>1, FollowsOnce
<1> QED
  BY <1>1, <1>2, <1>3, <1>4, <1>5

\* The line that decides it.
LEMMA SidechainIsParse ==
    ASSUME NEW p, IsParse(p), NEW line, NEW name
    PROVE  LET q == DetectSidechain(p, line, name) IN IsParse(q) /\ q.st.detected
<1> DEFINE st == [p.st EXCEPT !.detected = TRUE,
                    !.session = IF line.sidechain # None THEN line.sidechain ELSE @,
                    !.agent = IF line.sidechain = None THEN None ELSE OrElse(name, line.sidechain)]
<1>1. DetectSidechain(p, line, name) = IF p.st.detected THEN p ELSE [p EXCEPT !.st = st]
  BY DEF DetectSidechain
<1>2. IsState(st) /\ st.detected
  <2>1. IsState(st) /\ st.detected = TRUE
    BY DEF IsParse, IsState
  <2> QED
    BY <2>1
<1> HIDE DEF st
<1>3. [p EXCEPT !.st = st] = Parts(st, p.messages, p.stream, p.blocked)
  BY ChangedParts
<1>4. IsParse(Parts(st, p.messages, p.stream, p.blocked))
  BY <1>2, PartsParse DEF IsParse
<1>5. Parts(st, p.messages, p.stream, p.blocked).st = st
  BY PartsOf
<1> QED
  BY <1>1, <1>2, <1>3, <1>4, <1>5

\* A line that parses tells whose the file is, if that was not known yet.
LEMMA LineIsParse ==
    ASSUME NEW p, IsParse(p), NEW line, IsLine(line), NEW name
    PROVE  /\ IsParse(ParseLine(p, line, name))
           /\ line.type = "malformed" => ParseLine(p, line, name) = p
           /\ p.st.detected => ParseLine(p, line, name).st.detected
           /\ line.type # "malformed" => ParseLine(p, line, name).st.detected
<1>1. PICK q : q = DetectSidechain(p, line, name)
  OBVIOUS
<1>2. IsParse(q) /\ q.st.detected
  BY <1>1, SidechainIsParse
<1>3. Follows(ParseDetected(q, line), q)
  BY <1>2, DetectedFollows
<1> QED
  BY <1>1, <1>2, <1>3 DEF ParseLine, Follows

\* The name matters for the first line that parses, and there for a subagent's.
LEMMA NameMatters ==
    ASSUME NEW p, NEW line, p.st.detected \/ line.type = "malformed" \/ line.sidechain = None,
           NEW a, NEW b
    PROVE  ParseLine(p, line, a) = ParseLine(p, line, b)
<1>1. CASE line.type = "malformed"
  BY <1>1 DEF ParseLine
<1>2. CASE p.st.detected
  BY <1>2 DEF ParseLine, DetectSidechain
<1>3. CASE line.sidechain = None
  <2>1. DetectSidechain(p, line, a) = DetectSidechain(p, line, b)
    BY <1>3 DEF DetectSidechain
  <2> QED
    BY <2>1 DEF ParseLine
<1> QED
  BY <1>1, <1>2, <1>3

-------------------------------------------------------------------------------
(***************************************************************************)
(* The parse of a sequence of lines, one line after another.               *)
(***************************************************************************)
IsRun(g, p, lines, name, n) ==
    g = [k \in 0..n |-> IF k = 0 THEN p ELSE ParseLine(g[k - 1], lines[k], name)]

\* A run of the parser line by line.
LEMMA RunSteps ==
    ASSUME NEW p, NEW lines, NEW name, NEW n \in Nat, NEW g, IsRun(g, p, lines, name, n)
    PROVE  g[0] = p /\ \A k \in 1..n : g[k] = ParseLine(g[k - 1], lines[k], name)
<1> DEFINE Step(k) == IF k = 0 THEN p ELSE ParseLine(g[k - 1], lines[k], name)
<1>1. g = [k \in 0..n |-> Step(k)]
  BY DEF IsRun
<1> HIDE DEF Step
<1>2. \A k \in 0..n : g[k] = Step(k)
  BY <1>1
<1>3. 0 \in 0..n /\ \A k \in 1..n : k \in 0..n /\ k # 0
  OBVIOUS
<1> QED
  BY <1>2, <1>3 DEF Step

\* A run can be continued by a line.
LEMMA LongerRun ==
    ASSUME NEW p, NEW lines, NEW name, NEW m \in Nat, NEW h, IsRun(h, p, lines, name, m)
    PROVE  \E g : IsRun(g, p, lines, name, m + 1)
<1>1. PICK k \in Nat : k = m + 1
  OBVIOUS
<1>2. h[0] = p /\ \A i \in 1..m : h[i] = ParseLine(h[i - 1], lines[i], name)
  <2>1. h[0] = p
    BY RunSteps
  <2>2. \A i \in 1..m : h[i] = ParseLine(h[i - 1], lines[i], name)
    BY RunSteps
  <2> QED
    BY <2>1, <2>2
<1> DEFINE last == ParseLine(h[m], lines[k], name)
           g == [i \in 0..k |-> IF i = k THEN last ELSE h[i]]
           G(i) == IF i = 0 THEN p ELSE ParseLine(g[i - 1], lines[i], name)
<1>3. \A i \in 0..k : g[i] = G(i)
  <2> SUFFICES ASSUME NEW i \in 0..k PROVE g[i] = G(i)
    OBVIOUS
  <2> HIDE DEF last
  <2>1. CASE i = 0
    BY <1>1, <1>2, <2>1
  <2>2. CASE i # 0 /\ i # k
    <3>1. i \in 1..m /\ i - 1 \in 0..k /\ i - 1 # k
      BY <1>1, <2>2
    <3>2. g[i] = h[i] /\ g[i - 1] = h[i - 1]
      BY <2>2, <3>1
    <3> QED
      BY <1>2, <2>2, <3>1, <3>2
  <2>3. CASE i # 0 /\ i = k
    <3>1. m \in 0..k /\ m # k /\ i - 1 = m
      BY <1>1, <2>3
    <3>2. g[i - 1] = h[m] /\ g[i] = last
      BY <2>3, <3>1
    <3> QED
      BY <2>3, <3>2 DEF last
  <2> QED
    BY <2>1, <2>2, <2>3
<1>4. g = [i \in 0..k |-> G(i)]
  <2>1. g = [i \in 0..k |-> g[i]]
    OBVIOUS
  <2> HIDE DEF g, G
  <2> QED
    BY <1>3, <2>1
<1>5. IsRun(g, p, lines, name, k)
  <2> HIDE DEF g
  <2> QED
    BY <1>4 DEF IsRun
<1> HIDE DEF g
<1> QED
  BY <1>1, <1>5

\* There is a run over any lines: otherwise there is a least number without.
LEMMA RunExists ==
    ASSUME NEW p, NEW lines, NEW name, NEW n \in Nat
    PROVE  \E g : IsRun(g, p, lines, name, n)
<1> DEFINE S == {k \in Nat : ~\E g : IsRun(g, p, lines, name, k)}
<1>1. SUFFICES ASSUME S # {} PROVE FALSE
  OBVIOUS
<1>2. PICK k \in S : \A m \in S : k <= m
  <2>1. S \subseteq Nat
    OBVIOUS
  <2> HIDE DEF S
  <2> QED
    BY <1>1, <2>1, LeastNumber
<1>3. k # 0
  <2>1. IsRun([i \in 0..0 |-> p], p, lines, name, 0)
    BY DEF IsRun
  <2> QED
    BY <1>2, <2>1
<1>4. PICK m \in Nat : k = m + 1
  <2>1. k - 1 \in Nat /\ k = (k - 1) + 1
    BY <1>2, <1>3
  <2> QED
    BY <2>1
<1>5. m \notin S
  BY <1>2, <1>4
<1>6. \E g : IsRun(g, p, lines, name, m + 1)
  BY <1>5, LongerRun
<1> QED
  BY <1>2, <1>4, <1>6

\* Two runs agree as far as their lines do.
LEMMA RunsAgree ==
    ASSUME NEW p, NEW name, NEW n \in Nat, NEW m \in 0..n,
           NEW lines, NEW g, IsRun(g, p, lines, name, n),
           NEW others, NEW h, IsRun(h, p, others, name, m),
           \A k \in 1..m : lines[k] = others[k]
    PROVE  \A k \in 0..m : g[k] = h[k]
<1> DEFINE S == {k \in 0..m : g[k] # h[k]}
<1>1. SUFFICES ASSUME S # {} PROVE FALSE
  OBVIOUS
<1>2. PICK k \in S : \A i \in S : k <= i
  <2>1. S \subseteq Nat
    OBVIOUS
  <2> HIDE DEF S
  <2> QED
    BY <1>1, <2>1, LeastNumber
<1>3. /\ g[0] = p /\ \A i \in 1..n : g[i] = ParseLine(g[i - 1], lines[i], name)
      /\ h[0] = p /\ \A i \in 1..m : h[i] = ParseLine(h[i - 1], others[i], name)
  BY RunSteps
<1>4. k \in 1..m /\ k \in 1..n /\ k - 1 \in 0..m /\ k - 1 < k
  <2>1. k # 0
    BY <1>2, <1>3
  <2> QED
    BY <1>2, <2>1
<1>5. g[k - 1] = h[k - 1]
  BY <1>2, <1>4
<1> QED
  BY <1>2, <1>3, <1>4, <1>5

\* ParseFrom is the end of such a run.
LEMMA ParseFromRun ==
    ASSUME NEW p, NEW lines, NEW name, NEW n \in Nat, n = Len(lines)
    PROVE  \E g : IsRun(g, p, lines, name, n) /\ ParseFrom(p, lines, name) = g[n]
<1> DEFINE f == CHOOSE g : g = [k \in 0..Len(lines) |->
                                  IF k = 0 THEN p ELSE ParseLine(g[k - 1], lines[k], name)]
<1>1. ParseFrom(p, lines, name) = f[Len(lines)]
  BY DEF ParseFrom
<1>2. IsRun(f, p, lines, name, Len(lines))
  BY RunExists DEF IsRun
<1> QED
  BY <1>1, <1>2

\* One line more is one step more.
LEMMA ParseOneMore ==
    ASSUME NEW p, NEW lines, IsSeq(lines), NEW line, NEW name
    PROVE  ParseFrom(p, Append(lines, line), name)
             = ParseLine(ParseFrom(p, lines, name), line, name)
<1>1. PICK all : all = Append(lines, line)
  OBVIOUS
<1>2. PICK n \in Nat : n = Len(lines)
  BY SeqLength
<1>3. PICK m \in Nat : m = n + 1
  OBVIOUS
<1>4. m = Len(all) /\ all[m] = line /\ \A k \in 1..n : all[k] = lines[k]
  <2>1. PICK S : lines \in Seq(S) /\ line \in S
    BY CommonElements
  <2> QED
    BY <1>1, <1>2, <1>3, <2>1
<1>5. PICK h : IsRun(h, p, lines, name, n) /\ ParseFrom(p, lines, name) = h[n]
  BY <1>2, ParseFromRun
<1>6. PICK g : IsRun(g, p, all, name, m) /\ ParseFrom(p, all, name) = g[m]
  BY <1>4, ParseFromRun
<1>7. n \in 0..m /\ n \in 0..n /\ m \in 1..m /\ m - 1 = n
  BY <1>3
<1>8. g[n] = h[n]
  <2>1. IsRun(h, p, lines, name, n) /\ IsRun(g, p, all, name, m)
    BY <1>5, <1>6
  <2>2. n \in 0..m /\ \A k \in 1..n : all[k] = lines[k]
    BY <1>4, <1>7
  <2>3. \A k \in 0..n : g[k] = h[k]
    BY <2>1, <2>2, RunsAgree
  <2> QED
    BY <1>7, <2>3
<1>9. g[m] = ParseLine(g[m - 1], all[m], name)
  <2>1. IsRun(g, p, all, name, m)
    BY <1>6
  <2>2. \A k \in 1..m : g[k] = ParseLine(g[k - 1], all[k], name)
    BY <2>1, RunSteps
  <2> QED
    BY <1>7, <2>2
<1> QED
  BY <1>1, <1>4, <1>5, <1>6, <1>7, <1>8, <1>9

\* No lines leave the parse as it was.
LEMMA ParseNothing ==
    ASSUME NEW p, NEW name
    PROVE  ParseFrom(p, <<>>, name) = p
<1>1. PICK n \in Nat : n = 0
  OBVIOUS
<1>2. PICK lines : lines = <<>>
  OBVIOUS
<1>3. n = Len(lines)
  BY <1>1, <1>2
<1>4. PICK g : IsRun(g, p, lines, name, n) /\ ParseFrom(p, lines, name) = g[n]
  BY <1>3, ParseFromRun
<1>5. g[0] = p
  BY <1>4, RunSteps
<1>6. ParseFrom(p, lines, name) = p
  BY <1>1, <1>4, <1>5
<1> QED
  BY <1>2, <1>6

\* What a parse from the first byte stands at.
Whole(lines, name) == ParseFrom(InitParse(<<>>, InitState), lines, name)

\* The parse of the first lines of a script, by their number.
LEMMA WholeOneMore ==
    ASSUME NEW s, IsSeq(s), NEW name
    PROVE  /\ Whole(SubSeq(s, 1, 0), name) = InitParse(<<>>, InitState)
           /\ \A n \in Nat : n < Len(s) =>
                Whole(SubSeq(s, 1, n + 1), name)
                  = ParseLine(Whole(SubSeq(s, 1, n), name), s[n + 1], name)
<1>1. SubSeq(s, 1, 0) = <<>>
  <2>1. PICK S : s \in Seq(S)
    BY DEF IsSeq
  <2> QED
    BY <2>1
<1>2. ASSUME NEW n \in Nat, n < Len(s)
      PROVE  Whole(SubSeq(s, 1, n + 1), name)
               = ParseLine(Whole(SubSeq(s, 1, n), name), s[n + 1], name)
  <2>1. Len(s) \in Nat /\ n <= Len(s)
    BY <1>2, SeqLength
  <2>2. /\ IsSeq(SubSeq(s, 1, n))
        /\ SubSeq(s, 1, n + 1) = Append(SubSeq(s, 1, n), s[n + 1])
    BY <1>2, <2>1, FirstLines
  <2>3. PICK p : p = InitParse(<<>>, InitState)
    OBVIOUS
  <2>4. PICK first, line : first = SubSeq(s, 1, n) /\ line = s[n + 1]
    OBVIOUS
  <2>5. ParseFrom(p, Append(first, line), name) = ParseLine(ParseFrom(p, first, name), line, name)
    BY <2>2, <2>4, ParseOneMore
  <2> QED
    BY <2>2, <2>3, <2>4, <2>5 DEF Whole
<1> QED
  BY <1>1, <1>2, ParseNothing DEF Whole

\* What a parse begins with is a parse.
LEMMA InitIsParse == IsParse(InitParse(<<>>, InitState))
<1>1. PICK messages : messages = <<>>
  OBVIOUS
<1>2. IsMessages(messages)
  BY <1>1, EmptySeq DEF IsMessages
<1>3. PICK b \in BOOLEAN : b = FALSE
  OBVIOUS
<1>4. PICK st : st = InitState
  OBVIOUS
<1>5. IsState(st)
  BY <1>4 DEF IsState, InitState
<1>6. HasTokens(NoStream)
  BY DEF HasTokens, NoStream, NoTokens
<1>7. InitParse(messages, st) = Parts(st, messages, NoStream, b)
  BY <1>3 DEF InitParse, Parts
<1>8. IsParse(Parts(st, messages, NoStream, b))
  BY <1>2, <1>5, <1>6, PartsParse
<1> QED
  BY <1>1, <1>4, <1>7, <1>8

\* A full parse is a parse.
LEMMA WholeIsParse ==
    ASSUME NEW s, AreLines(s), NEW n \in 0..Len(s), NEW name
    PROVE  IsParse(Whole(SubSeq(s, 1, n), name))
<1>1. Len(s) \in Nat /\ IsSeq(s)
  BY SeqLength DEF AreLines
<1> DEFINE P(k) == Whole(SubSeq(s, 1, k), name)
           S == {k \in 0..Len(s) : ~IsParse(P(k))}
<1>2. SUFFICES ASSUME S # {} PROVE FALSE
  OBVIOUS
<1>3. PICK k \in S : \A m \in S : k <= m
  <2>1. S \subseteq Nat
    OBVIOUS
  <2> HIDE DEF S
  <2> QED
    BY <1>2, <2>1, LeastNumber
<1>4. k # 0
  BY <1>1, <1>3, WholeOneMore, InitIsParse
<1>5. PICK m \in Nat : k = m + 1 /\ m < Len(s) /\ m \in 0..Len(s) /\ m < k /\ k \in 1..Len(s)
  <2>1. /\ k - 1 \in Nat /\ k = (k - 1) + 1 /\ k - 1 < Len(s)
        /\ k - 1 \in 0..Len(s) /\ k - 1 < k /\ k \in 1..Len(s)
    BY <1>1, <1>3, <1>4
  <2> QED
    BY <2>1
<1>6. P(k) = ParseLine(P(m), s[k], name)
  BY <1>1, <1>5, WholeOneMore
<1>7. IsParse(P(m)) /\ IsLine(s[k])
  BY <1>3, <1>5 DEF AreLines
<1> HIDE DEF P
<1>8. IsParse(P(k))
  BY <1>6, <1>7, LineIsParse
<1> QED
  BY <1>3, <1>8

\* A name that was not looked up yet is any name, and so is one that is not
\* looked up: that of a session which is no subagent's.
NoSubagent(lines) == \A i \in 1..Len(lines) : ~IsSubagent(lines[i])

\* A transcript without a subagent parses alike under every name.
LEMMA AnyName ==
    ASSUME NEW s, AreLines(s), NEW n \in 0..Len(s), NEW a, NEW b,
           \/ ~Whole(SubSeq(s, 1, n), a).st.detected
           \/ \A i \in 1..n : ~IsSubagent(s[i])
    PROVE  Whole(SubSeq(s, 1, n), a) = Whole(SubSeq(s, 1, n), b)
<1>1. Len(s) \in Nat /\ IsSeq(s)
  BY SeqLength DEF AreLines
<1> DEFINE P(k) == Whole(SubSeq(s, 1, k), a)
           Q(k) == Whole(SubSeq(s, 1, k), b)
           Free(k) == \A i \in 1..k : ~IsSubagent(s[i])
           S == {k \in 0..Len(s) : (~P(k).st.detected \/ Free(k)) /\ P(k) # Q(k)}
<1>2. SUFFICES ASSUME S # {} PROVE FALSE
  OBVIOUS
<1>3. PICK k \in S : \A m \in S : k <= m
  <2>1. S \subseteq Nat
    OBVIOUS
  <2> HIDE DEF S
  <2> QED
    BY <1>2, <2>1, LeastNumber
<1>4. k # 0
  BY <1>1, <1>3, WholeOneMore
<1>5. PICK m \in Nat : k = m + 1 /\ m < Len(s) /\ m \in 0..Len(s) /\ m < k /\ k \in 1..Len(s)
  <2>1. /\ k - 1 \in Nat /\ k = (k - 1) + 1 /\ k - 1 < Len(s)
        /\ k - 1 \in 0..Len(s) /\ k - 1 < k /\ k \in 1..Len(s)
    BY <1>1, <1>3, <1>4
  <2> QED
    BY <2>1
<1>6. PICK line : line = s[k]
  OBVIOUS
<1>7. P(k) = ParseLine(P(m), line, a) /\ Q(k) = ParseLine(Q(m), line, b)
  BY <1>1, <1>5, <1>6, WholeOneMore
<1>8. IsParse(P(m)) /\ IsLine(line)
  BY <1>5, <1>6, WholeIsParse DEF AreLines
<1>9. Free(k) => Free(m) /\ ~IsSubagent(line)
  BY <1>5, <1>6
<1>10. m \notin S
  BY <1>3, <1>5
<1>11. (~P(m).st.detected \/ Free(m)) => P(m) = Q(m)
  BY <1>5, <1>10
<1>12. (~P(k).st.detected \/ Free(k)) /\ P(k) # Q(k)
  BY <1>3
<1> HIDE DEF P, Q, Free
<1>13. CASE ~P(k).st.detected
  <2>1. line.type = "malformed" /\ ~P(m).st.detected
    BY <1>7, <1>8, <1>13, LineIsParse
  <2>2. P(m) = Q(m)
    BY <1>11, <2>1
  <2> QED
    BY <1>7, <1>12, <2>1, <2>2 DEF ParseLine
<1>14. CASE Free(k)
  <2>1. P(m) = Q(m)
    BY <1>9, <1>11, <1>14
  <2>2. line.type = "malformed" \/ line.sidechain = None
    BY <1>9, <1>14 DEF IsSubagent
  <2>3. PICK q : q = P(m)
    OBVIOUS
  <2>4. ParseLine(q, line, a) = ParseLine(q, line, b)
    BY <2>2, NameMatters
  <2> QED
    BY <1>7, <1>12, <2>1, <2>3, <2>4
<1> QED
  BY <1>12, <1>13, <1>14

-------------------------------------------------------------------------------
(***************************************************************************)
(* The end of a parse, and the parse a checkpoint restores.                *)
(***************************************************************************)
LEMMA EndParts ==
    ASSUME NEW p, IsParse(p)
    PROVE  /\ IsParse(EndOfFile(p))
           /\ ~EndOfFile(p).blocked => EndOfFile(p) = p /\ p.stream = NoStream /\ ~p.blocked
<1> DEFINE q == CloseStream(p)
           b == q.blocked \/ p.stream # NoStream
<1>1. EndOfFile(p) = [q EXCEPT !.blocked = b]
  BY DEF EndOfFile
<1>2. IsParse(q) /\ (p.stream = NoStream => q = p)
  BY CloseStreamFollows DEF Follows
<1> HIDE DEF q
<1>3. b \in BOOLEAN
  BY <1>2 DEF IsParse
<1>4. IsParse([q EXCEPT !.blocked = b]) /\ [q EXCEPT !.blocked = b].blocked = b
  <2> HIDE DEF b
  <2> QED
    BY <1>2, <1>3, SetBlocked DEF Follows
<1>5. ASSUME ~b PROVE [q EXCEPT !.blocked = b] = p /\ p.stream = NoStream /\ ~p.blocked
  <2>1. p.stream = NoStream /\ q = p /\ ~p.blocked
    BY <1>2, <1>5
  <2>2. b = p.blocked
    BY <1>3, <1>5, <2>1 DEF IsParse
  <2> HIDE DEF b
  <2>3. p = Parts(p.st, p.messages, p.stream, p.blocked)
    BY DEF IsParse
  <2>4. [p EXCEPT !.blocked = b] = Parts(p.st, p.messages, p.stream, b)
    BY ChangedParts
  <2> QED
    BY <2>1, <2>2, <2>3, <2>4
<1> HIDE DEF b
<1> QED
  BY <1>1, <1>4, <1>5

\* What a checkpoint keeps of the parse of the first n lines of a session.
CheckpointOf(p, n, lines) ==
    [offset |-> 3 * n, prefix |-> lines, state |-> p.st,
     hours |-> [i \in DOMAIN p.messages |-> p.messages[i].tokens.hour]]

\* A clamped message and its one-hour part make the message.
LEMMA UnclampedAgain ==
    ASSUME NEW m, HasTokens(m)
    PROVE  [Clamped(m) EXCEPT !.tokens.hour = m.tokens.hour] = m
<1>1. PICK t : t = m.tokens
  OBVIOUS
<1>2. t = [f \in DOMAIN t |-> t[f]]
  BY <1>1 DEF HasTokens
<1>3. PICK x : x = Smaller(t.hour, t.write)
  OBVIOUS
<1>4. Clamped(m) = [m EXCEPT !.tokens = [t EXCEPT !.hour = x]]
  BY <1>1, <1>3 DEF Clamped
<1>5. Clamped(m).tokens = [t EXCEPT !.hour = x]
  BY <1>4 DEF HasTokens
<1>6. [Clamped(m) EXCEPT !.tokens.hour = t.hour]
        = [m EXCEPT !.tokens = [[t EXCEPT !.hour = x] EXCEPT !.hour = t.hour]]
  BY <1>4, <1>5 DEF HasTokens
<1>7. [[t EXCEPT !.hour = x] EXCEPT !.hour = t.hour] = t
  BY <1>2
<1>8. [m EXCEPT !.tokens = t] = m
  BY <1>1 DEF HasTokens
<1> QED
  BY <1>1, <1>6, <1>7, <1>8

\* An entry and its checkpoint make the parse they were stored of.
LEMMA RestoredParse ==
    ASSUME NEW p, IsParse(p), p.stream = NoStream, ~p.blocked, NEW n, NEW lines,
           NEW e, e.messages = ClampedAll(p.messages), e.checkpoint = CheckpointOf(p, n, lines)
    PROVE  /\ Restored(e) = p.messages
           /\ InitParse(Restored(e), e.checkpoint.state) = p
<1>1. PICK messages : messages = p.messages
  OBVIOUS
<1>2. messages = [i \in DOMAIN messages |-> messages[i]]
        /\ \A i \in DOMAIN messages : HasTokens(messages[i])
  BY <1>1, SeqLength DEF IsParse, IsMessages
<1>3. e.checkpoint.hours = [i \in DOMAIN messages |-> messages[i].tokens.hour]
        /\ e.checkpoint.state = p.st
  BY <1>1 DEF CheckpointOf
<1>4. e.messages = [i \in DOMAIN messages |-> Clamped(messages[i])]
  BY <1>1 DEF ClampedAll
<1>5. \A i \in DOMAIN messages :
         [e.messages[i] EXCEPT !.tokens.hour = e.checkpoint.hours[i]] = messages[i]
  BY <1>2, <1>3, <1>4, UnclampedAgain
<1>6. Restored(e) = [i \in DOMAIN messages |->
                       [e.messages[i] EXCEPT !.tokens.hour = e.checkpoint.hours[i]]]
  BY <1>3 DEF Restored
<1>7. Restored(e) = messages
  BY <1>2, <1>5, <1>6
<1>8. PICK b \in BOOLEAN : b = FALSE
  OBVIOUS
<1>9. p.blocked = b
  BY <1>8 DEF IsParse
<1>10. p = Parts(p.st, messages, NoStream, b)
  BY <1>1, <1>9 DEF IsParse
<1>11. InitParse(messages, p.st) = Parts(p.st, messages, NoStream, b)
  BY <1>8 DEF InitParse, Parts
<1> QED
  BY <1>1, <1>3, <1>7, <1>10, <1>11

-------------------------------------------------------------------------------
(***************************************************************************)
(* The invariant.  What a fingerprint was taken of and what a parse was    *)
(* made under outlive the moment: they say so much as they still watch.    *)
(***************************************************************************)
\* A fingerprint that watches every file the agent's name comes from.
Watches(f) == f.meta = meta /\ (MetaNames[meta] # None \/ f.parent = parent)

FpInv(f) ==
    /\ f = [content |-> f.content, version |-> f.version, meta |-> f.meta, parent |-> f.parent]
    /\ f.version \in 0..rewrites /\ f.meta \in 1..meta
    /\ \/ f.parent = None
       \/ f.parent \in 1..parent /\ MetaNames[f.meta] = None
    /\ f.version = rewrites =>
         /\ Written(f.content, script) /\ Size(f.content) <= Size(file)
         /\ f.parent = None /\ MetaNames[f.meta] = None => NoSubagent(Visible(f.content, script))

\* An offset between the lines n and n + 1, or behind the written part of the
\* latter, which is skipped, or before the newline of the former.
At(n) == pos = 3 * n \/ pos + 1 = 3 * n \/ pos = 3 * n + 1

ReachedAs(n, name) ==
    /\ At(n) /\ parse = Whole(SubSeq(script, 1, n), name)
    /\ Watches(fp) => name = NameNow
    /\ start # None => parse = Whole(SubSeq(script, 1, n), NameNow)

Reached == \E n \in 0..Len(script) : \E name \in Names : ReachedAs(n, name)

ScanInv ==
    /\ pc \in {"idle", "prefix", "read"}
    /\ pc # "idle" => FpInv(fp)
    /\ pc = "prefix" =>
         HasCheckpoint /\ entry.fp.meta = fp.meta /\ entry.fp.parent = fp.parent
    /\ pc = "read" => pos \in Nat /\ Reached
    /\ pc = "read" /\ fp.version = rewrites =>
         pos <= Size(file) /\ (fp.content = file /\ pos % 3 = 1 => pos = Size(file))

StartInv ==
    pc # "idle" /\ start # None =>
        /\ start = fp.content /\ fp.version = rewrites
        /\ fp.meta = meta /\ fp.parent \in {None, parent}
        /\ pc = "read" => pos % 3 # 1

EntryOf(e, s, n, name) ==
    LET lines == SubSeq(s, 1, n)
        p == ParseFile(lines, name)
    IN  /\ e = [fp |-> e.fp, messages |-> ClampedAll(p.messages), checkpoint |-> e.checkpoint]
        /\ e.checkpoint # NoCheckpoint =>
             ~p.blocked /\ e.checkpoint = CheckpointOf(p, n, lines)
        /\ Watches(e.fp) => name = NameNow
        /\ e.fp.version = rewrites /\ e.fp.content = file => lines = Visible(file, script)

IsEntry(e) == \E s \in Scripts : \E n \in 0..Len(s) : \E name \in Names : EntryOf(e, s, n, name)

EntryInv == entry # NoEntry => FpInv(entry.fp) /\ IsEntry(entry)

TypeInv ==
    rewrites \in Nat /\ meta \in 1..Len(MetaNames) /\ parent \in 1..Len(ParentNames)

ClaudeInv == TypeInv /\ FileInv /\ ScanInv /\ StartInv /\ EntryInv

-------------------------------------------------------------------------------
\* A script is a sequence of lines.
LEMMA ScriptLines == ASSUME NEW s \in Scripts PROVE AreLines(s) /\ Len(s) \in Nat
<1>1. IsSeq(s) /\ Len(s) \in Nat
  BY ScriptIsSeq
<1>2. ASSUME NEW i \in 1..Len(s), s[i].type = "assistant" PROVE Len(s[i].advisors) \in Nat
  <2>1. PICK advisors : advisors = s[i].advisors
    OBVIOUS
  <2>2. IsSeq(advisors)
    BY <1>2, <2>1, AdvisorsAssumption DEF IsSeq
  <2> QED
    BY <2>1, <2>2, SeqLength
<1> QED
  BY <1>1, <1>2 DEF AreLines, IsLine

\* The name of the agent is one of the names.
LEMMA NameIsName == ASSUME TypeInv PROVE NameNow \in Names
<1>1. DOMAIN MetaNames = 1..Len(MetaNames) /\ DOMAIN ParentNames = 1..Len(ParentNames)
  <2>1. IsSeq(MetaNames) /\ IsSeq(ParentNames)
    BY NamesAssumption DEF IsSeq
  <2> QED
    BY <2>1, SeqLength
<1>2. meta \in DOMAIN MetaNames /\ parent \in DOMAIN ParentNames
  BY <1>1 DEF TypeInv
<1> QED
  BY <1>2 DEF NameNow, Names

\* Initially there is no entry.
LEMMA InitClaudeInv == Init => ClaudeInv
<1> SUFFICES ASSUME Init PROVE ClaudeInv
  OBVIOUS
<1>1. FileInv /\ rewrites \in Nat
  BY InitFileInv DEF Init, InitFile
<1>2. TypeInv
  <2>1. Len(MetaNames) >= 1 /\ Len(ParentNames) >= 1
        /\ Len(MetaNames) \in Nat /\ Len(ParentNames) \in Nat
    <3>1. IsSeq(MetaNames) /\ MetaNames # <<>> /\ IsSeq(ParentNames) /\ ParentNames # <<>>
      BY NamesAssumption DEF IsSeq
    <3>2. ASSUME NEW s, IsSeq(s), s # <<>> PROVE Len(s) \in Nat /\ Len(s) >= 1
      BY <3>2 DEF IsSeq
    <3> QED
      BY <3>1, <3>2
  <2> QED
    BY <1>1, <2>1 DEF TypeInv, Init
<1> QED
  BY <1>1, <1>2 DEF ClaudeInv, Init, ScanInv, StartInv, EntryInv

\* What a fingerprint says is kept while the file grows and its script stays,
\* and nothing is asked of it once the file was replaced.
LEMMA FpKept ==
    ASSUME TypeInv, TypeInv', FileInv, meta <= meta', parent <= parent', NEW f, FpInv(f),
           \/ rewrites' = rewrites + 1
           \/ /\ rewrites' = rewrites /\ script' = script
              /\ Size(file) \in Nat /\ Size(file)' \in Nat /\ Size(file) <= Size(file)'
    PROVE  FpInv(f)'
<1>1. /\ f.version \in 0..rewrites' /\ f.meta \in 1..meta'
      /\ f.parent = None \/ (f.parent \in 1..parent' /\ MetaNames[f.meta] = None)
  BY DEF TypeInv, FpInv
<1>2. CASE rewrites' = rewrites + 1
  <2>1. f.version # rewrites'
    BY <1>2 DEF TypeInv, FpInv
  <2> QED
    BY <1>1, <2>1 DEF FpInv
<1>3. CASE rewrites' = rewrites /\ script' = script
  <2>1. CASE f.version # rewrites
    BY <1>1, <1>3, <2>1 DEF FpInv
  <2>2. CASE f.version = rewrites
    <3>1. /\ Written(f.content, script) /\ Size(f.content) <= Size(file)
          /\ f.parent = None /\ MetaNames[f.meta] = None
               => NoSubagent(Visible(f.content, script))
      BY <2>2 DEF FpInv
    <3>2. Size(f.content) \in Nat
      BY <3>1, WrittenForm DEF FileInv
    <3>3. Size(f.content) <= Size(file)'
      <4>1. rewrites' # rewrites + 1
        BY <1>3 DEF TypeInv
      <4>2. Size(file) \in Nat /\ Size(file)' \in Nat /\ Size(file) <= Size(file)'
        BY <4>1
      <4> QED
        BY <3>1, <3>2, <4>2
    <3> QED
      BY <1>1, <1>3, <3>1, <3>3 DEF FpInv, Written, Visible, NoSubagent
  <2> QED
    BY <2>1, <2>2
<1> QED
  BY <1>2, <1>3

\* The name of the agent is the one a fingerprint was taken under, if that
\* watches it.
LEMMA NameKept ==
    ASSUME TypeInv, TypeInv', NEW f, FpInv(f), meta <= meta', parent <= parent',
           \/ UNCHANGED related
           \/ meta' = meta + 1 /\ parent' = parent
           \/ meta' = meta /\ parent' = parent + 1
    PROVE  Watches(f)' => Watches(f) /\ NameNow' = NameNow
<1> SUFFICES ASSUME Watches(f)' PROVE Watches(f) /\ NameNow' = NameNow
  OBVIOUS
<1>1. f.meta = meta' /\ (MetaNames[meta'] # None \/ f.parent = parent')
  BY DEF Watches
<1>2. meta' = meta
  <2>1. f.meta <= meta
    BY DEF FpInv, TypeInv
  <2> QED
    BY <1>1, <2>1 DEF TypeInv, related
<1>3. CASE parent' = parent
  BY <1>1, <1>2, <1>3 DEF Watches, NameNow
<1>4. CASE parent' = parent + 1
  <2>1. f.parent # parent'
    <3>1. f.parent = None \/ f.parent \in 1..parent
      BY DEF FpInv
    <3>2. parent' \in 1..Len(ParentNames)
      BY DEF TypeInv
    <3> QED
      BY <1>4, <3>1, <3>2, NoneAssumption DEF TypeInv
  <2>2. MetaNames[meta'] # None
    BY <1>1, <2>1
  <2> QED
    BY <1>1, <1>2, <2>2 DEF Watches, NameNow, OrElse
<1> QED
  BY <1>2, <1>3, <1>4 DEF related

\* An entry says the same as long as its name does.
LEMMA EntryKept ==
    ASSUME TypeInv, TypeInv', FileInv, EntryInv, entry' = entry,
           meta <= meta', parent <= parent',
           \/ UNCHANGED related
           \/ meta' = meta + 1 /\ parent' = parent
           \/ meta' = meta /\ parent' = parent + 1,
           \/ rewrites' = rewrites + 1
           \/ /\ rewrites' = rewrites /\ script' = script
              /\ Size(file) \in Nat /\ Size(file)' \in Nat
              /\ file' = file \/ Size(file) < Size(file)'
    PROVE  EntryInv'
<1> SUFFICES ASSUME entry # NoEntry PROVE FpInv(entry.fp)' /\ IsEntry(entry)'
  BY DEF EntryInv
<1>1. PICK e : e = entry
  OBVIOUS
<1>2. FpInv(e.fp)
  BY <1>1 DEF EntryInv
<1>3. FpInv(e.fp)'
  <2>1. \/ rewrites' = rewrites + 1
        \/ /\ rewrites' = rewrites /\ script' = script
           /\ Size(file) \in Nat /\ Size(file)' \in Nat /\ Size(file) <= Size(file)'
    OBVIOUS
  <2> QED
    BY <1>2, <2>1, FpKept
<1>4. Watches(e.fp)' => Watches(e.fp) /\ NameNow' = NameNow
  BY <1>2, NameKept
<1>0. PICK s \in Scripts : \E n \in 0..Len(s) : \E name \in Names : EntryOf(e, s, n, name)
  BY <1>1 DEF EntryInv, IsEntry
<1>5. PICK n \in 0..Len(s), name \in Names : EntryOf(e, s, n, name)
  BY <1>0
<1>6. e.fp.version = rewrites' /\ e.fp.content = file' =>
        e.fp.version = rewrites /\ e.fp.content = file /\ script' = script /\ file' = file
  <2> SUFFICES ASSUME e.fp.version = rewrites', e.fp.content = file'
               PROVE  e.fp.version = rewrites /\ script' = script /\ file' = file
    OBVIOUS
  <2>1. rewrites' = rewrites /\ script' = script
    BY <1>2 DEF FpInv, TypeInv
  <2>2. Size(e.fp.content) <= Size(file)
    BY <1>2, <2>1 DEF FpInv
  <2>3. Size(file)' = Size(e.fp.content)
    OBVIOUS
  <2> QED
    BY <2>1, <2>2, <2>3 DEF TypeInv
<1>7. EntryOf(e, s, n, name)'
  <2> DEFINE lines == SubSeq(s, 1, n)
             p == ParseFile(lines, name)
  <2>1. /\ e = [fp |-> e.fp, messages |-> ClampedAll(p.messages), checkpoint |-> e.checkpoint]
        /\ e.checkpoint # NoCheckpoint => ~p.blocked /\ e.checkpoint = CheckpointOf(p, n, lines)
    BY <1>5 DEF EntryOf
  <2>2. Watches(e.fp)' => name = NameNow'
    BY <1>4, <1>5 DEF EntryOf
  <2>3. e.fp.version = rewrites' /\ e.fp.content = file' => lines = Visible(file', script')
    BY <1>5, <1>6 DEF EntryOf
  <2> QED
    BY <2>1, <2>2, <2>3 DEF EntryOf
<1> QED
  BY <1>1, <1>3, <1>5, <1>7 DEF IsEntry

-------------------------------------------------------------------------------
(***************************************************************************)
(* Claude Code.                                                            *)
(***************************************************************************)
LEMMA WriteInv == ASSUME ClaudeInv, Write PROVE ClaudeInv'
<1>1. PICK part \in {"none", "cut", "bare"} : WritePart(part, pc # "idle")
  BY DEF Write
<1>2. /\ FileInv' /\ script' = script /\ rewrites' = rewrites
      /\ Size(file) \in Nat /\ Size(file)' \in Nat /\ Size(file) < Size(file)'
  <2>1. FileInv
    BY DEF ClaudeInv
  <2>2. rewrites' = rewrites
    BY <1>1 DEF WritePart
  <2> QED
    BY <1>1, <2>1, <2>2, WritePartInv, WritePartGrows
<1>3. /\ UNCHANGED related /\ meta' = meta /\ parent' = parent
      /\ pc' = pc /\ fp' = fp /\ pos' = pos /\ parse' = parse /\ start' = start /\ entry' = entry
  BY DEF Write, related, scanVars
<1>4. TypeInv /\ TypeInv' /\ meta <= meta' /\ parent <= parent'
  BY <1>2, <1>3 DEF ClaudeInv, TypeInv
<1>5. EntryInv'
  BY <1>2, <1>3, <1>4, EntryKept DEF ClaudeInv
<1>6. ScanInv'
  <2>1. ASSUME pc' # "idle" PROVE FpInv(fp)'
    <3>1. PICK f : f = fp
      OBVIOUS
    <3>2. FpInv(f) /\ Size(file) <= Size(file)'
      BY <1>2, <1>3, <2>1, <3>1 DEF ClaudeInv, ScanInv
    <3>3. FpInv(f)'
      BY <1>2, <1>4, <3>2, FpKept DEF ClaudeInv
    <3> QED
      BY <1>3, <3>1, <3>3
  <2>2. pc' = "prefix" => HasCheckpoint' /\ entry'.fp.meta = fp'.meta /\ entry'.fp.parent = fp'.parent
    BY <1>3 DEF ClaudeInv, ScanInv, HasCheckpoint
  <2>3. pc' = "read" => pos' \in Nat /\ Reached'
    <3> SUFFICES ASSUME pc' = "read" PROVE pos' \in Nat /\ Reached'
      OBVIOUS
    <3>1. pos \in Nat /\ Reached
      BY <1>3 DEF ClaudeInv, ScanInv
    <3> QED
      BY <1>2, <1>3, <3>1 DEF Reached, ReachedAs, At, Watches, NameNow
  <2>4. ASSUME pc' = "read", fp'.version = rewrites'
        PROVE  pos' <= Size(file)' /\ (fp'.content = file' /\ pos' % 3 = 1 => pos' = Size(file)')
    <3>1. pos \in Nat /\ pos <= Size(file)
      BY <1>2, <1>3, <2>4 DEF ClaudeInv, ScanInv
    <3>2. Size(fp.content) <= Size(file)
      BY <1>2, <1>3, <2>4 DEF ClaudeInv, ScanInv, FpInv
    <3>3. fp'.content # file'
      <4> SUFFICES ASSUME fp'.content = file' PROVE FALSE
        OBVIOUS
      <4>1. Size(file)' = Size(fp.content)
        BY <1>3
      <4> QED
        BY <1>2, <3>2, <4>1
    <3> QED
      BY <1>2, <1>3, <3>1, <3>3
  <2>5. pc' \in {"idle", "prefix", "read"}
    BY <1>3 DEF ClaudeInv, ScanInv
  <2> QED
    BY <2>1, <2>2, <2>3, <2>4, <2>5 DEF ScanInv
<1>7. StartInv'
  BY <1>2, <1>3 DEF ClaudeInv, StartInv
<1> QED
  BY <1>2, <1>4, <1>5, <1>6, <1>7 DEF ClaudeInv

\* What ends the undisturbed part of a scan: a file that is cut back, a name
\* that is given.
LEMMA DisturbedInv ==
    ASSUME ClaudeInv, TypeInv', FileInv', start' = None,
           pc' = pc, fp' = fp, pos' = pos, parse' = parse, entry' = entry,
           meta <= meta', parent <= parent',
           pc # "idle" => script' = script,
           \/ UNCHANGED related
           \/ meta' = meta + 1 /\ parent' = parent
           \/ meta' = meta /\ parent' = parent + 1,
           \/ rewrites' = rewrites + 1
           \/ rewrites' = rewrites /\ script' = script /\ file' = file
    PROVE  ClaudeInv'
<1>1. TypeInv /\ FileInv
  BY DEF ClaudeInv
<1>2. Size(file) \in Nat /\ (file' = file => Size(file)' = Size(file))
  BY <1>1, WrittenForm DEF FileInv
<1>3. EntryInv'
  BY <1>1, <1>2, EntryKept DEF ClaudeInv
<1>4. ScanInv'
  <2>1. ASSUME pc' # "idle" PROVE FpInv(fp) /\ FpInv(fp)' /\ (Watches(fp)' => Watches(fp) /\ NameNow' = NameNow)
    <3>1. PICK f : f = fp
      OBVIOUS
    <3>2. FpInv(f)
      BY <2>1, <3>1 DEF ClaudeInv, ScanInv
    <3>3. FpInv(f)'
      BY <1>1, <1>2, <3>2, FpKept
    <3>4. Watches(f)' => Watches(f) /\ NameNow' = NameNow
      BY <1>1, <3>2, NameKept
    <3> QED
      BY <3>1, <3>2, <3>3, <3>4
  <2>2. pc' = "prefix" => HasCheckpoint' /\ entry'.fp.meta = fp'.meta /\ entry'.fp.parent = fp'.parent
    BY DEF ClaudeInv, ScanInv, HasCheckpoint
  <2>3. ASSUME pc' = "read" PROVE pos' \in Nat /\ Reached'
    <3>1. pos \in Nat /\ Reached
      BY <2>3 DEF ClaudeInv, ScanInv
    <3>2. PICK n \in 0..Len(script), name \in Names : ReachedAs(n, name)
      BY <3>1 DEF Reached
    <3>3. script' = script /\ (Watches(fp)' => Watches(fp) /\ NameNow' = NameNow)
      BY <2>1, <2>3
    <3>4. ReachedAs(n, name)'
      BY <3>2, <3>3 DEF ReachedAs, At
    <3> QED
      BY <3>1, <3>2, <3>3, <3>4 DEF Reached
  <2>4. ASSUME pc' = "read", fp'.version = rewrites'
        PROVE  pos' <= Size(file)' /\ (fp'.content = file' /\ pos' % 3 = 1 => pos' = Size(file)')
    <3>1. rewrites' = rewrites /\ file' = file
      BY <1>1, <2>1, <2>4 DEF FpInv, TypeInv
    <3> QED
      BY <2>4, <3>1 DEF ClaudeInv, ScanInv
  <2>5. pc' \in {"idle", "prefix", "read"}
    BY DEF ClaudeInv, ScanInv
  <2> QED
    BY <2>1, <2>2, <2>3, <2>4, <2>5 DEF ScanInv
<1> QED
  BY <1>3, <1>4 DEF ClaudeInv, StartInv

\* The file is cut back or, between scans, replaced.
LEMMA CutBackInv == ASSUME ClaudeInv, CutBack PROVE ClaudeInv'
<1>1. Rewrite(pc # "idle") /\ start' = None
      /\ UNCHANGED related /\ meta' = meta /\ parent' = parent
      /\ pc' = pc /\ fp' = fp /\ pos' = pos /\ parse' = parse /\ entry' = entry
  BY DEF CutBack, related
<1>2. FileInv' /\ (pc # "idle" => script' = script)
  BY <1>1, RewriteInv DEF ClaudeInv
<1>3. rewrites' = rewrites + 1
  BY <1>1 DEF Rewrite
<1>4. TypeInv' /\ meta <= meta' /\ parent <= parent'
  BY <1>1, <1>3 DEF ClaudeInv, TypeInv
<1> QED
  BY <1>1, <1>2, <1>3, <1>4, DisturbedInv

\* A file beside the transcript names the agent anew.
LEMMA NameAgentInv == ASSUME ClaudeInv, NameAgent PROVE ClaudeInv'
<1>1. /\ start' = None
      /\ pc' = pc /\ fp' = fp /\ pos' = pos /\ parse' = parse /\ entry' = entry
      /\ script' = script /\ file' = file /\ rewrites' = rewrites
  BY DEF NameAgent, fileVars
<1>2. \/ meta < Len(MetaNames) /\ meta' = meta + 1 /\ parent' = parent
      \/ parent < Len(ParentNames) /\ parent' = parent + 1 /\ meta' = meta
  BY DEF NameAgent
<1>3. FileInv'
  BY <1>1 DEF ClaudeInv, FileInv, Written
<1>4. TypeInv' /\ meta <= meta' /\ parent <= parent'
  <2>1. IsSeq(MetaNames) /\ IsSeq(ParentNames)
    BY NamesAssumption DEF IsSeq
  <2>2. Len(MetaNames) \in Nat /\ Len(ParentNames) \in Nat
    BY <2>1, SeqLength
  <2> QED
    BY <1>1, <1>2, <2>2 DEF ClaudeInv, TypeInv
<1> QED
  BY <1>1, <1>2, <1>3, <1>4, DisturbedInv

-------------------------------------------------------------------------------
(***************************************************************************)
(* The scan.                                                               *)
(***************************************************************************)
\* The lines of a content and, if all of the next one is there, that one.
LEMMA VisibleForm ==
    ASSUME NEW s \in Scripts, NEW f, Written(f, s)
    PROVE  LET n == IF f.part = "bare" THEN Len(f.lines) + 1 ELSE Len(f.lines)
           IN  n \in 0..Len(s) /\ Visible(f, s) = SubSeq(s, 1, n)
<1>1. IsSeq(s) /\ Len(s) \in Nat
  BY ScriptIsSeq
<1>2. PICK k : k = Len(f.lines)
  OBVIOUS
<1>3. k \in Nat /\ k <= Len(s) /\ f.lines = SubSeq(s, 1, k) /\ (f.part # "none" => k < Len(s))
  BY <1>1, <1>2, WrittenForm
<1>4. CASE f.part = "bare"
  <2>1. k < Len(s) /\ k + 1 \in 0..Len(s)
    BY <1>1, <1>3, <1>4
  <2>2. SubSeq(s, 1, k + 1) = Append(SubSeq(s, 1, k), s[k + 1])
    BY <1>1, <1>3, <2>1, FirstLines
  <2>3. Visible(f, s) = Append(f.lines, s[k + 1])
    BY <1>2, <1>4 DEF Visible
  <2> QED
    BY <1>2, <1>3, <1>4, <2>1, <2>2, <2>3
<1>5. CASE f.part # "bare"
  BY <1>1, <1>2, <1>3, <1>5 DEF Visible
<1> QED
  BY <1>4, <1>5

\* None of the lines of a session that is no subagent's names an agent.
LEMMA VisibleLines ==
    ASSUME NEW s \in Scripts, NEW f, Written(f, s)
    PROVE  /\ IsSeq(Visible(f, s)) /\ DOMAIN Visible(f, s) = 1..Len(Visible(f, s))
           /\ Len(Visible(f, s)) \in Nat /\ Len(f.lines) <= Len(Visible(f, s))
           /\ \A i \in 1..Len(Visible(f, s)) : Visible(f, s)[i] = s[i]
<1>1. IsSeq(s) /\ Len(s) \in Nat /\ Len(f.lines) \in Nat
  BY ScriptIsSeq, WrittenForm
<1>2. PICK n \in 0..Len(s) : Visible(f, s) = SubSeq(s, 1, n) /\ Len(f.lines) <= n
  <2>1. \A k \in Nat : k <= k /\ k <= k + 1
    OBVIOUS
  <2> QED
    BY <1>1, <2>1, VisibleForm
<1>3. PICK lines : lines = SubSeq(s, 1, n)
  OBVIOUS
<1>4. IsSeq(lines) /\ Len(lines) = n
  BY <1>1, <1>3, FirstLines
<1>5. DOMAIN lines = 1..n
  BY <1>4, SeqLength
<1>6. \A i \in 1..n : lines[i] = s[i]
  <2>1. PICK S : s \in Seq(S)
    BY <1>1 DEF IsSeq
  <2> QED
    BY <1>1, <1>3, <2>1
<1> QED
  BY <1>1, <1>2, <1>3, <1>4, <1>5, <1>6

\* A fingerprint says what the files are as it is taken.
LEMMA NewFingerprintInv ==
    ASSUME TypeInv, FileInv, NEW f, f = NewFingerprint(entry)
    PROVE  /\ FpInv(f)
           /\ f.content = file /\ f.version = rewrites /\ f.meta = meta /\ f.parent \in {None, parent}
<1>1. PICK watched \in BOOLEAN :
          /\ f = Snapshot(watched)
          /\ watched => MetaNames[meta] = None
          /\ MetaNames[meta] = None /\ ~watched => ~HasParent
  <2>1. CASE entry # NoEntry /\ PrimaryMatches(entry) /\ entry.fp.parent # None
    <3>1. f = Snapshot(Warm(entry))
      BY <2>1 DEF NewFingerprint
    <3>2. Warm(entry) <=> MetaNames[meta] = None
      BY <2>1 DEF Warm, Tier1
    <3>3. PICK watched : watched = Warm(entry)
      OBVIOUS
    <3>4. watched \in BOOLEAN
      BY <3>3 DEF Warm
    <3> QED
      BY <3>1, <3>2, <3>3, <3>4
  <2>2. CASE ~(entry # NoEntry /\ PrimaryMatches(entry) /\ entry.fp.parent # None)
    <3>1. f = Snapshot(~Tier1 /\ HasParent)
      BY <2>2 DEF NewFingerprint
    <3>2. (~Tier1 /\ HasParent) \in BOOLEAN
      OBVIOUS
    <3> QED
      BY <3>1, <3>2 DEF Tier1
  <2> QED
    BY <2>1, <2>2
<1>2. PICK p : p = IF watched THEN parent ELSE None
  OBVIOUS
<1>3. f = [content |-> file, version |-> rewrites, meta |-> meta, parent |-> p]
  BY <1>1, <1>2 DEF Snapshot
<1>4. f.content = file /\ f.version = rewrites /\ f.meta = meta /\ f.parent = p
  BY <1>3
<1>5. Written(file, script) /\ script \in Scripts /\ Size(file) \in Nat
  BY WrittenForm DEF FileInv
<1>6. p = None /\ MetaNames[meta] = None => NoSubagent(Visible(file, script))
  <2> SUFFICES ASSUME p = None, MetaNames[meta] = None PROVE NoSubagent(Visible(file, script))
    OBVIOUS
  <2>1. ~watched
    BY <1>2, NoneAssumption DEF TypeInv
  <2>2. ~HasParent
    BY <1>1, <2>1
  <2> QED
    BY <1>5, <2>2, VisibleLines DEF HasParent, NoSubagent
<1>7. \/ p = None
      \/ p \in 1..parent /\ MetaNames[meta] = None
  BY <1>1, <1>2 DEF TypeInv
<1>8. rewrites \in 0..rewrites /\ meta \in 1..meta /\ Size(file) <= Size(file)
  BY <1>5 DEF TypeInv
<1>9. FpInv(f)
  BY <1>3, <1>4, <1>5, <1>6, <1>7, <1>8 DEF FpInv
<1> QED
  BY <1>2, <1>4, <1>9

\* A step of the scan leaves the file and the files beside it as they are.
LEMMA ScanKeeps ==
    ASSUME ClaudeInv, UNCHANGED <<script, file, rewrites, related>>
    PROVE  /\ TypeInv' /\ FileInv'
           /\ meta' = meta /\ parent' = parent /\ NameNow' = NameNow
           /\ script' = script /\ file' = file /\ rewrites' = rewrites /\ Size(file)' = Size(file)
           /\ \A f : (FpInv(f) <=> FpInv(f)') /\ (Watches(f) <=> Watches(f)')
           /\ \A e : IsEntry(e) <=> IsEntry(e)'
           /\ entry' = entry => EntryInv'
<1>1. meta' = meta /\ parent' = parent /\ script' = script /\ file' = file /\ rewrites' = rewrites
  BY DEF related
<1>2. TypeInv' /\ FileInv' /\ NameNow' = NameNow
  BY <1>1 DEF ClaudeInv, TypeInv, FileInv, Written, NameNow
<1>3. \A f : (FpInv(f) <=> FpInv(f)') /\ (Watches(f) <=> Watches(f)')
  BY <1>1 DEF FpInv, Watches, Written, Visible, NoSubagent
<1>4. \A e, s, n, name : EntryOf(e, s, n, name) <=> EntryOf(e, s, n, name)'
  <2> SUFFICES ASSUME NEW e, NEW s, NEW n, NEW name
               PROVE  EntryOf(e, s, n, name) <=> EntryOf(e, s, n, name)'
    OBVIOUS
  <2>1. Visible(file, script)' = Visible(file, script)
    BY <1>1
  <2>2. Watches(e.fp) <=> Watches(e.fp)'
    BY <1>3
  <2>3. e.fp.version = rewrites' /\ e.fp.content = file' <=> e.fp.version = rewrites /\ e.fp.content = file
    BY <1>1
  <2> QED
    BY <1>2, <2>1, <2>2, <2>3 DEF EntryOf
<1>5. \A e : IsEntry(e) <=> IsEntry(e)'
  BY <1>4 DEF IsEntry
<1>6. entry' = entry => EntryInv'
  <2> SUFFICES ASSUME entry' = entry PROVE EntryInv'
    OBVIOUS
  <2>1. PICK e : e = entry
    OBVIOUS
  <2>2. e # NoEntry => FpInv(e.fp) /\ IsEntry(e)
    BY <2>1 DEF ClaudeInv, EntryInv
  <2>3. e # NoEntry => FpInv(e.fp)' /\ IsEntry(e)'
    BY <1>3, <1>5, <2>2
  <2> QED
    BY <2>1, <2>3 DEF EntryInv
<1> QED
  BY <1>1, <1>2, <1>3, <1>5, <1>6

\* A full parse starts where the parse of no lines stands.
LEMMA StartFullReached ==
    ASSUME ClaudeInv, UNCHANGED <<script, file, rewrites, related>>,
           pos' = 0, parse' = InitParse(<<>>, InitState)
    PROVE  pos' \in Nat /\ Reached' /\ pos' % 3 # 1 /\ pos' <= Size(file)'
<1>1. IsSeq(script) /\ Len(script) \in Nat /\ Size(file) \in Nat
  BY ScriptIsSeq, WrittenForm DEF ClaudeInv, FileInv
<1>2. PICK n \in 0..Len(script) : n = 0
  BY <1>1
<1>3. parse' = Whole(SubSeq(script, 1, n), NameNow)
  BY <1>1, <1>2, WholeOneMore
<1>4. script' = script /\ NameNow' = NameNow /\ Size(file)' = Size(file)
  BY ScanKeeps
<1>5. PICK name \in Names : name = NameNow
  BY NameIsName DEF ClaudeInv
<1>6. ReachedAs(n, name)'
  BY <1>2, <1>3, <1>4, <1>5 DEF ReachedAs, At
<1>7. Reached'
  BY <1>4, <1>6 DEF Reached
<1>8. 0 % 3 # 1 /\ 0 \in Nat /\ 0 <= Size(file)
  BY <1>1
<1> QED
  BY <1>4, <1>7, <1>8

\* A scan compares the fingerprint.
LEMMA CheckInv == ASSUME ClaudeInv, Check PROVE ClaudeInv'
<1>1. UNCHANGED <<script, file, rewrites, related>> /\ entry' = entry
  BY DEF Check, fileVars
<1>2. PICK f : f = NewFingerprint(entry)
  OBVIOUS
<1>3. /\ FpInv(f) /\ f.content = file /\ f.version = rewrites
      /\ f.meta = meta /\ f.parent \in {None, parent}
  BY <1>2, NewFingerprintInv DEF ClaudeInv
<1>4. fp' = f /\ start' = file
  BY <1>2 DEF Check
<1>5. FpInv(fp)'
  <2>1. FpInv(f)'
    BY <1>1, <1>3, ScanKeeps
  <2> QED
    BY <1>4, <2>1
<1>6. /\ TypeInv' /\ FileInv' /\ EntryInv'
      /\ meta' = meta /\ parent' = parent /\ file' = file /\ rewrites' = rewrites
  BY <1>1, ScanKeeps
<1>7. start' = fp'.content /\ fp'.version = rewrites' /\ fp'.meta = meta' /\ fp'.parent \in {None, parent'}
  BY <1>3, <1>4, <1>6
<1>8. CASE CanResume /\ pc' = "prefix"
  <2>1. HasCheckpoint' /\ entry'.fp.meta = fp'.meta /\ entry'.fp.parent = fp'.parent
    BY <1>1, <1>2, <1>4, <1>8 DEF CanResume, HasCheckpoint
  <2>2. ScanInv'
    BY <1>5, <1>8, <2>1 DEF ScanInv
  <2>3. StartInv'
    BY <1>7, <1>8 DEF StartInv
  <2> QED
    BY <1>6, <2>2, <2>3 DEF ClaudeInv
<1>9. CASE StartFull
  <2>1. pc' = "read" /\ pos' = 0 /\ parse' = InitParse(<<>>, InitState)
    BY <1>9 DEF StartFull
  <2>2. pos' \in Nat /\ Reached' /\ pos' % 3 # 1 /\ pos' <= Size(file)'
    BY <1>1, <2>1, StartFullReached
  <2>3. ScanInv'
    BY <1>5, <2>1, <2>2 DEF ScanInv
  <2>4. StartInv'
    BY <1>7, <2>1, <2>2 DEF StartInv
  <2> QED
    BY <1>6, <2>3, <2>4 DEF ClaudeInv
<1> QED
  BY <1>8, <1>9 DEF Check

\* A step that touches neither the scan nor the cache.
LEMMA StayInv ==
    ASSUME ClaudeInv, UNCHANGED <<script, file, rewrites, related, scanVars, entry>>
    PROVE  ClaudeInv'
<1>1. /\ pc' = pc /\ fp' = fp /\ pos' = pos /\ parse' = parse /\ start' = start /\ entry' = entry
      /\ UNCHANGED <<script, file, rewrites, related>>
  BY DEF scanVars
<1>2. /\ TypeInv' /\ FileInv' /\ EntryInv' /\ NameNow' = NameNow
      /\ meta' = meta /\ parent' = parent /\ script' = script /\ file' = file /\ rewrites' = rewrites
      /\ \A f : (FpInv(f) <=> FpInv(f)') /\ (Watches(f) <=> Watches(f)')
  BY <1>1, ScanKeeps
<1>3. PICK f : f = fp
  OBVIOUS
<1>4. (FpInv(fp) <=> FpInv(fp)') /\ (Watches(fp) <=> Watches(fp)')
  <2>1. (FpInv(f) <=> FpInv(f)') /\ (Watches(f) <=> Watches(f)')
    BY <1>2
  <2> QED
    BY <1>1, <1>3, <2>1
<1>5. Reached => Reached'
  BY <1>1, <1>2, <1>4 DEF Reached, ReachedAs, At
<1>6. ScanInv'
  BY <1>1, <1>2, <1>4, <1>5 DEF ClaudeInv, ScanInv, HasCheckpoint
<1>7. StartInv'
  BY <1>1, <1>2 DEF ClaudeInv, StartInv
<1> QED
  BY <1>2, <1>6, <1>7 DEF ClaudeInv

\* A scan takes the entry.
LEMMA HitInv == ASSUME ClaudeInv, Hit PROVE ClaudeInv'
<1>1. UNCHANGED <<script, file, rewrites, related, scanVars, entry>>
  BY DEF Hit, fileVars
<1> QED
  BY <1>1, StayInv

\* What a checkpoint restores stands at its offset, and an undisturbed scan
\* continues under the name it would begin with: a fingerprint that does not
\* watch all that can name the agent is that of a session with no agent to
\* name, as far as the scan found it, and the checkpoint reaches no farther.
LEMMA ResumedParse ==
    ASSUME ClaudeInv, pc = "prefix", PrefixMatches(entry.checkpoint)
    PROVE  LET p == InitParse(Restored(entry), entry.checkpoint.state)
           IN  \E n \in 0..Len(script) : \E name \in Names :
                 /\ entry.checkpoint.offset = 3 * n
                 /\ p = Whole(SubSeq(script, 1, n), name)
                 /\ Watches(fp) => name = NameNow
                 /\ start # None /\ ~Regrown => p = Whole(SubSeq(script, 1, n), NameNow)
<1>1. /\ TypeInv /\ FileInv /\ FpInv(fp) /\ IsEntry(entry)
      /\ entry.checkpoint # NoCheckpoint
      /\ entry.fp.meta = fp.meta /\ entry.fp.parent = fp.parent
  BY DEF ClaudeInv, ScanInv, EntryInv, HasCheckpoint
<1>2. PICK e : e = entry
  OBVIOUS
<1>3. PICK s \in Scripts : \E n \in 0..Len(s) : \E name \in Names : EntryOf(e, s, n, name)
  BY <1>1, <1>2 DEF IsEntry
<1>4. PICK n \in 0..Len(s), name \in Names : EntryOf(e, s, n, name)
  BY <1>3
<1>5. PICK lines : lines = SubSeq(s, 1, n)
  OBVIOUS
<1>6. PICK p : p = ParseFile(lines, name)
  OBVIOUS
<1>7. /\ e.messages = ClampedAll(p.messages) /\ ~p.blocked
      /\ e.checkpoint = CheckpointOf(p, n, lines)
      /\ Watches(e.fp) => name = NameNow
  BY <1>1, <1>2, <1>4, <1>5, <1>6 DEF EntryOf
<1>8. p = Whole(lines, name) /\ IsParse(p) /\ p.stream = NoStream
  <2>1. p = EndOfFile(Whole(lines, name))
    BY <1>6 DEF ParseFile, Whole
  <2>2. IsParse(Whole(lines, name))
    BY <1>5, ScriptLines, WholeIsParse
  <2> QED
    BY <1>7, <2>1, <2>2, EndParts
<1>9. InitParse(Restored(e), e.checkpoint.state) = p
  BY <1>7, <1>8, RestoredParse
<1>10. e.checkpoint.offset = 3 * n /\ e.checkpoint.prefix = lines /\ n \in Nat
  BY <1>7, ScriptIsSeq DEF CheckpointOf
<1>11. n \in 0..Len(script) /\ lines = SubSeq(script, 1, n)
  <2>0. /\ Len(file.lines) \in 0..Len(script) /\ Len(script) \in Nat
        /\ PartSize(file.part) \in 0..2 /\ Size(file) = 3 * Len(file.lines) + PartSize(file.part)
        /\ \A m \in 0..Len(file.lines) : SubSeq(file.lines, 1, m) = SubSeq(script, 1, m)
    BY <1>1, WrittenForm, ScriptIsSeq DEF FileInv
  <2>1. PICK k \in Nat, c \in 0..2 :
            /\ k = Len(file.lines) /\ Size(file) = 3 * k + c /\ k <= Len(script)
            /\ \A m \in 0..k : SubSeq(file.lines, 1, m) = SubSeq(script, 1, m)
    <3>1. Len(file.lines) \in Nat /\ Len(file.lines) <= Len(script)
      BY <2>0
    <3> QED
      BY <2>0, <3>1
  <2>2. Size(file) > 3 * n /\ SubSeq(file.lines, 1, (3 * n) \div 3) = lines
    BY <1>2, <1>10 DEF PrefixMatches
  <2>3. (3 * n) \div 3 = n /\ n \in 0..k
    BY <1>10, <2>1, <2>2
  <2>4. Len(script) \in Nat
    BY <1>1, ScriptIsSeq DEF FileInv
  <2> QED
    BY <2>1, <2>2, <2>3, <2>4
<1>12. Watches(fp) <=> Watches(e.fp)
  BY <1>1, <1>2 DEF Watches
<1>13. ASSUME start # None, ~Regrown PROVE p = Whole(SubSeq(script, 1, n), NameNow)
  <2>1. CASE Watches(fp)
    BY <1>7, <1>8, <1>11, <1>12, <2>1
  <2>2. CASE ~Watches(fp)
    <3>1. /\ start = fp.content /\ fp.version = rewrites
          /\ fp.meta = meta /\ fp.parent \in {None, parent}
      BY <1>13 DEF ClaudeInv, StartInv
    <3>2. fp.parent = None /\ MetaNames[fp.meta] = None
      BY <2>2, <3>1 DEF Watches
    <3>3. Written(start, script) /\ NoSubagent(Visible(start, script))
      BY <1>1, <3>1, <3>2 DEF FpInv
    <3>4. PICK k \in Nat, c \in 0..2 : k = Len(start.lines) /\ Size(start) = 3 * k + c
      BY <1>1, <3>3, WrittenForm, ScriptIsSeq DEF FileInv
    <3>5. ~(Size(start) < 3 * n)
      BY <1>2, <1>10, <1>13 DEF Regrown
    <3>6. n <= k
      BY <1>10, <3>4, <3>5
    <3>7. \A i \in 1..n : ~IsSubagent(script[i])
      <4>1. PICK all : all = Visible(start, script)
        OBVIOUS
      <4>2. k <= Len(all) /\ Len(all) \in Nat /\ \A i \in 1..Len(all) : all[i] = script[i]
        BY <1>1, <3>3, <3>4, <4>1, VisibleLines DEF FileInv
      <4>3. \A i \in 1..n : i \in 1..Len(all)
        BY <1>10, <3>6, <4>2
      <4> QED
        BY <3>3, <4>1, <4>2, <4>3 DEF NoSubagent
    <3>8. AreLines(script)
      BY <1>1, ScriptLines DEF FileInv
    <3>9. Whole(SubSeq(script, 1, n), name) = Whole(SubSeq(script, 1, n), NameNow)
      BY <1>11, <3>7, <3>8, AnyName
    <3> QED
      BY <1>8, <1>11, <3>9
  <2> QED
    BY <2>1, <2>2
<1> QED
  BY <1>2, <1>7, <1>8, <1>9, <1>10, <1>11, <1>12, <1>13

\* A scan finds the checkpoint in the file, or starts afresh.
LEMMA CheckPrefixInv == ASSUME ClaudeInv, CheckPrefix PROVE ClaudeInv'
<1>1. UNCHANGED <<script, file, rewrites, related>> /\ entry' = entry /\ fp' = fp /\ pc = "prefix"
  BY DEF CheckPrefix, fileVars
<1>2. /\ TypeInv' /\ FileInv' /\ EntryInv' /\ NameNow' = NameNow
      /\ meta' = meta /\ parent' = parent /\ file' = file /\ rewrites' = rewrites /\ script' = script
      /\ Size(file)' = Size(file)
  BY <1>1, ScanKeeps
<1>3. PICK f : f = fp
  OBVIOUS
<1>4. FpInv(f) /\ FpInv(fp)' /\ (Watches(fp)' <=> Watches(fp))
  <2>1. FpInv(f)
    BY <1>1, <1>3 DEF ClaudeInv, ScanInv
  <2>2. FpInv(f)' /\ (Watches(f) <=> Watches(f)')
    BY <1>1, <2>1, ScanKeeps
  <2> QED
    BY <1>1, <1>3, <2>1, <2>2
<1>5. start # None =>
        /\ start = fp.content /\ fp.version = rewrites
        /\ fp.meta = meta /\ fp.parent \in {None, parent}
  BY <1>1 DEF ClaudeInv, StartInv
<1>6. CASE PrefixMatches(entry.checkpoint)
  <2>1. /\ pc' = "read" /\ pos' = entry.checkpoint.offset
        /\ parse' = InitParse(Restored(entry), entry.checkpoint.state)
        /\ start' = IF Regrown THEN None ELSE start
    BY <1>6 DEF CheckPrefix
  <2>2. PICK n \in 0..Len(script), name \in Names :
            /\ pos' = 3 * n /\ parse' = Whole(SubSeq(script, 1, n), name)
            /\ Watches(fp) => name = NameNow
            /\ start # None /\ ~Regrown => parse' = Whole(SubSeq(script, 1, n), NameNow)
    BY <1>1, <1>6, <2>1, ResumedParse
  <2>3. Len(script) \in Nat /\ n \in Nat
    BY ScriptIsSeq DEF ClaudeInv, FileInv
  <2>4. pos' \in Nat /\ pos' % 3 = 0
    BY <2>2, <2>3
  <2>5. ReachedAs(n, name)'
    BY <1>2, <1>4, <2>1, <2>2 DEF ReachedAs, At
  <2>6. Reached'
    BY <1>2, <2>2, <2>5 DEF Reached
  <2>7. pos' <= Size(file)'
    <3>1. Size(file) \in Nat
      BY WrittenForm DEF ClaudeInv, FileInv
    <3>2. Size(file) > pos'
      BY <1>6, <2>1 DEF PrefixMatches
    <3> QED
      BY <1>2, <2>4, <3>1, <3>2
  <2>8. ScanInv'
    BY <1>4, <2>1, <2>4, <2>6, <2>7 DEF ScanInv
  <2>9. StartInv'
    BY <1>1, <1>2, <1>5, <2>1, <2>4 DEF StartInv
  <2> QED
    BY <1>2, <2>8, <2>9 DEF ClaudeInv
<1>7. CASE ~PrefixMatches(entry.checkpoint)
  <2>1. pc' = "read" /\ pos' = 0 /\ parse' = InitParse(<<>>, InitState) /\ start' = start
    BY <1>7 DEF CheckPrefix, StartFull
  <2>2. pos' \in Nat /\ Reached' /\ pos' % 3 # 1 /\ pos' <= Size(file)'
    BY <1>1, <2>1, StartFullReached
  <2>3. ScanInv'
    BY <1>4, <2>1, <2>2 DEF ScanInv
  <2>4. StartInv'
    BY <1>1, <1>2, <1>5, <2>1, <2>2 DEF StartInv
  <2> QED
    BY <1>2, <2>3, <2>4 DEF ClaudeInv
<1> QED
  BY <1>6, <1>7

\* One line more, under the name its agent has now if it was not asked for
\* before.
LEMMA NextReached ==
    ASSUME TypeInv, script \in Scripts, NEW n \in Nat, n < Len(script), NEW name \in Names,
           parse = Whole(SubSeq(script, 1, n), name)
    PROVE  \E next \in Names :
             /\ ParseLine(parse, script[n + 1], NameNow) = Whole(SubSeq(script, 1, n + 1), next)
             /\ next = name \/ next = NameNow
<1>1. AreLines(script) /\ IsSeq(script) /\ Len(script) \in Nat
  BY ScriptLines DEF AreLines
<1>2. n \in 0..Len(script)
  BY <1>1
<1>3. PICK line : line = script[n + 1]
  OBVIOUS
<1>4. /\ Whole(SubSeq(script, 1, n + 1), name) = ParseLine(Whole(SubSeq(script, 1, n), name), line, name)
      /\ Whole(SubSeq(script, 1, n + 1), NameNow)
           = ParseLine(Whole(SubSeq(script, 1, n), NameNow), line, NameNow)
  BY <1>1, <1>3, WholeOneMore
<1>5. CASE parse.st.detected
  <2>1. ParseLine(parse, line, NameNow) = ParseLine(parse, line, name)
    BY <1>5, NameMatters
  <2> QED
    BY <1>3, <1>4, <2>1
<1>6. CASE ~parse.st.detected
  <2>1. Whole(SubSeq(script, 1, n), name) = Whole(SubSeq(script, 1, n), NameNow)
    BY <1>1, <1>2, <1>6, AnyName
  <2>2. PICK next \in Names : next = NameNow
    BY NameIsName
  <2> QED
    BY <1>3, <1>4, <2>1, <2>2
<1> QED
  BY <1>5, <1>6

\* What reading a line does to the parse and to the offset.
LEMMA LineReached ==
    ASSUME ClaudeInv, ReadLine, "torn" \notin Faults
    PROVE  /\ \E n \in 0..Len(script) : \E name \in Names :
                /\ pos' = 3 * n \/ pos' + 1 = 3 * n \/ pos' = 3 * n + 1
                /\ parse' = Whole(SubSeq(script, 1, n), name)
                /\ Watches(fp) => name = NameNow
                /\ start' # None => parse' = Whole(SubSeq(script, 1, n), NameNow)
           /\ pos' \in Nat /\ pos' <= Size(file)
           /\ pos' % 3 = 1 => pos' = Size(file) /\ start' = None
           /\ start' \in {start, None}
<1>1. /\ TypeInv /\ FileInv /\ script \in Scripts /\ Len(script) \in Nat
      /\ pos \in Nat /\ Reached /\ pos < Size(file) /\ pos % 3 # 1
  <2>1. pc = "read" /\ pos < Size(file) /\ pos % 3 # 1
    BY DEF ReadLine, MetEnd
  <2> QED
    BY <2>1, ScriptIsSeq DEF ClaudeInv, ScanInv, FileInv
<1>2. PICK line : line = Read(pos).line
  OBVIOUS
<1>3. PICK to : to = Read(pos).to
  OBVIOUS
<1>4. PICK k \in Nat : k = pos \div 3
  BY <1>1
<1>5. PICK r \in {0, 2} : r = pos % 3 /\ pos = 3 * k + r
  BY <1>1, <1>4
<1>6. /\ to \in Nat /\ to <= Size(file)
      /\ r = 0 => \/ line = Malformed /\ to = pos + 1 /\ to = Size(file)
                  \/ /\ k < Len(script) /\ line = script[k + 1]
                     /\ to % 3 = 0 /\ to \div 3 = k + 1
                  \/ /\ k < Len(script) /\ line = script[k + 1]
                     /\ to % 3 = 2 /\ to \div 3 = k
      /\ r = 2 => line = NoLine /\ to % 3 = 0 /\ to \div 3 = k + 1
  BY <1>1, <1>2, <1>3, <1>4, <1>5, WhatIsRead
<1>7. /\ pos' = to
      /\ parse' = IF line = NoLine THEN parse ELSE ParseLine(parse, line, NameNow)
      /\ start' = IF line = Malformed THEN None ELSE start
  BY <1>2, <1>3 DEF ReadLine
<1>8. PICK n \in 0..Len(script), name \in Names : ReachedAs(n, name)
  BY <1>1 DEF Reached
<1>9. /\ n \in Nat /\ parse = Whole(SubSeq(script, 1, n), name)
      /\ Watches(fp) => name = NameNow
      /\ start # None => parse = Whole(SubSeq(script, 1, n), NameNow)
  BY <1>1, <1>8 DEF ReachedAs
<1>10. (r = 0 => n = k) /\ (r = 2 => n = k + 1)
  <2>1. pos = 3 * n \/ pos + 1 = 3 * n \/ pos = 3 * n + 1
    BY <1>8 DEF ReachedAs, At
  <2> QED
    BY <1>5, <1>9, <2>1
<1>11. line # NoLine \/ r = 2
  <2>1. CASE line = Malformed
    BY <2>1 DEF Malformed, NoLine
  <2>2. CASE k < Len(script) /\ line = script[k + 1]
    <3>1. k + 1 \in 1..Len(script)
      BY <1>1, <2>2
    <3> QED
      BY <1>1, <2>2, <3>1, ScriptsAssumption
  <2> QED
    BY <1>5, <1>6, <2>1, <2>2
<1> DEFINE Goal ==
      /\ \E m \in 0..Len(script) : \E next \in Names :
           /\ to = 3 * m \/ to + 1 = 3 * m \/ to = 3 * m + 1
           /\ parse' = Whole(SubSeq(script, 1, m), next)
           /\ Watches(fp) => next = NameNow
           /\ start' # None => parse' = Whole(SubSeq(script, 1, m), NameNow)
      /\ to % 3 = 1 => to = Size(file) /\ start' = None
<1> SUFFICES Goal
  BY <1>6, <1>7
<1>12. CASE r = 2
  <2>1. parse' = parse /\ to % 3 = 0 /\ to = 3 * n
    <3>1. line = NoLine /\ to % 3 = 0 /\ to \div 3 = n
      BY <1>6, <1>10, <1>12
    <3> QED
      BY <1>6, <1>7, <3>1
  <2>2. start' # None => start # None
    BY <1>7
  <2>3. /\ to = 3 * n
        /\ parse' = Whole(SubSeq(script, 1, n), name)
        /\ Watches(fp) => name = NameNow
        /\ start' # None => parse' = Whole(SubSeq(script, 1, n), NameNow)
    BY <1>9, <2>1, <2>2
  <2> QED
    BY <2>1, <2>3
<1>13. CASE r = 0 /\ line = Malformed /\ to = pos + 1 /\ to = Size(file)
  <2>1. start' = None /\ to = 3 * n + 1
    BY <1>5, <1>7, <1>10, <1>13
  <2>2. parse' = parse
    <3>1. line # NoLine /\ line.type = "malformed"
      BY <1>13 DEF Malformed, NoLine
    <3> QED
      BY <1>7, <3>1 DEF ParseLine
  <2>3. /\ to = 3 * n + 1
        /\ parse' = Whole(SubSeq(script, 1, n), name)
        /\ Watches(fp) => name = NameNow
        /\ start' # None => parse' = Whole(SubSeq(script, 1, n), NameNow)
    BY <1>9, <2>1, <2>2
  <2> QED
    BY <1>13, <2>1, <2>3
<1>14. CASE r = 0 /\ k < Len(script) /\ line = script[k + 1] /\ (to = 3 * (k + 1) \/ to + 1 = 3 * (k + 1))
  <2>1. PICK m \in 0..Len(script) : m = n + 1 /\ n < Len(script) /\ line = script[n + 1]
    BY <1>1, <1>9, <1>10, <1>14
  <2>2. parse' = ParseLine(parse, line, NameNow) /\ (start' # None => start # None)
    BY <1>7, <1>11, <1>14
  <2>3. PICK next \in Names :
            /\ ParseLine(parse, script[n + 1], NameNow) = Whole(SubSeq(script, 1, n + 1), next)
            /\ next = name \/ next = NameNow
    BY <1>1, <1>9, <2>1, NextReached
  <2>4. start' # None => parse' = Whole(SubSeq(script, 1, m), NameNow)
    <3> SUFFICES ASSUME start' # None PROVE parse' = Whole(SubSeq(script, 1, m), NameNow)
      OBVIOUS
    <3>1. parse = Whole(SubSeq(script, 1, n), NameNow)
      BY <1>9, <2>2
    <3>2. IsSeq(script)
      BY <1>1, ScriptIsSeq
    <3>3. Whole(SubSeq(script, 1, n + 1), NameNow)
            = ParseLine(Whole(SubSeq(script, 1, n), NameNow), script[n + 1], NameNow)
      BY <1>9, <2>1, <3>2, WholeOneMore
    <3> QED
      BY <2>1, <2>2, <3>1, <3>3
  <2>5. to = 3 * m \/ to + 1 = 3 * m
    BY <1>10, <1>14, <2>1
  <2>6. to % 3 # 1
    BY <1>6, <2>1, <2>5
  <2>7. parse' = Whole(SubSeq(script, 1, m), next) /\ (Watches(fp) => next = NameNow)
    BY <1>9, <2>1, <2>2, <2>3
  <2> QED
    BY <2>4, <2>5, <2>6, <2>7
<1> HIDE DEF Goal
<1>15. \A a, b \in Nat : /\ a % 3 = 0 /\ a \div 3 = b + 1 => a = 3 * (b + 1)
                         /\ a % 3 = 2 /\ a \div 3 = b => a + 1 = 3 * (b + 1)
  OBVIOUS
<1>16. /\ to % 3 = 0 /\ to \div 3 = k + 1 => to = 3 * (k + 1)
       /\ to % 3 = 2 /\ to \div 3 = k => to + 1 = 3 * (k + 1)
  BY <1>6, <1>15
<1> QED
  BY <1>5, <1>6, <1>12, <1>13, <1>14, <1>16, Zenon

\* A scan reads a line.
LEMMA ReadLineInv == ASSUME ClaudeInv, ReadLine, "torn" \notin Faults PROVE ClaudeInv'
<1>1. /\ UNCHANGED <<script, file, rewrites, related>> /\ entry' = entry /\ fp' = fp
      /\ pc = "read" /\ pc' = "read"
  BY DEF ReadLine, fileVars
<1>2. /\ TypeInv' /\ FileInv' /\ EntryInv' /\ NameNow' = NameNow
      /\ meta' = meta /\ parent' = parent /\ file' = file /\ rewrites' = rewrites /\ script' = script
      /\ Size(file)' = Size(file)
  BY <1>1, ScanKeeps
<1>3. PICK f : f = fp
  OBVIOUS
<1>4. FpInv(fp)' /\ (Watches(fp)' <=> Watches(fp))
  <2>1. FpInv(f)
    BY <1>1, <1>3 DEF ClaudeInv, ScanInv
  <2>2. FpInv(f)' /\ (Watches(f) <=> Watches(f)')
    BY <1>1, <2>1, ScanKeeps
  <2> QED
    BY <1>1, <1>3, <2>2
<1>5. /\ pos' \in Nat /\ pos' <= Size(file)
      /\ pos' % 3 = 1 => pos' = Size(file) /\ start' = None
      /\ start' \in {start, None}
  BY LineReached
<1>6. PICK n \in 0..Len(script), name \in Names :
          /\ pos' = 3 * n \/ pos' + 1 = 3 * n \/ pos' = 3 * n + 1
          /\ parse' = Whole(SubSeq(script, 1, n), name)
          /\ Watches(fp) => name = NameNow
          /\ start' # None => parse' = Whole(SubSeq(script, 1, n), NameNow)
  BY LineReached
<1>7. ReachedAs(n, name)'
  BY <1>2, <1>4, <1>6 DEF ReachedAs, At
<1>8. Reached'
  BY <1>2, <1>6, <1>7 DEF Reached
<1>9. ScanInv'
  BY <1>1, <1>2, <1>4, <1>5, <1>8 DEF ScanInv
<1>10. StartInv'
  BY <1>1, <1>2, <1>5 DEF ClaudeInv, StartInv
<1> QED
  BY <1>2, <1>9, <1>10 DEF ClaudeInv

\* What a scan has read when it stops, of a file that is as its fingerprint
\* says: every line a reader of the whole would parse.
LEMMA AllRead ==
    ASSUME ClaudeInv, pc = "read", MetEnd, "torn" \notin Faults,
           fp.version = rewrites, fp.content = file, NEW n \in Nat, At(n)
    PROVE  SubSeq(script, 1, n) = Visible(file, script)
<1>1. Written(file, script) /\ script \in Scripts
  BY DEF ClaudeInv, FileInv
<1>2. PICK k \in Nat : k = Len(file.lines)
  BY <1>1, WrittenForm, ScriptIsSeq
<1>3. PICK c \in 0..2 : c = PartSize(file.part)
  BY <1>1, WrittenForm
<1>4. Size(file) = 3 * k + c
  BY <1>2, <1>3 DEF Size
<1>5. pos \in Nat /\ pos <= Size(file) /\ (pos % 3 = 1 => pos = Size(file))
  BY DEF ClaudeInv, ScanInv
<1>6. pos = 3 * k + c
  <2>1. pos >= Size(file) \/ pos % 3 = 1
    BY DEF MetEnd
  <2>2. pos = Size(file)
    BY <1>4, <1>5, <2>1
  <2> QED
    BY <1>4, <2>2
<1>7. n = IF c = 2 THEN k + 1 ELSE k
  <2>1. pos = 3 * n \/ pos + 1 = 3 * n \/ pos = 3 * n + 1
    BY DEF At
  <2> QED
    BY <1>5, <1>6, <2>1
<1>8. c = 2 <=> file.part = "bare"
  <2>1. file.part \in {"none", "cut", "bare"}
    BY <1>1, WrittenForm
  <2> QED
    BY <1>3, <2>1 DEF PartSize
<1> QED
  BY <1>1, <1>2, <1>7, <1>8, VisibleForm

\* The entry made at the end of a file says of the parse what it may say.
LEMMA NewEntryInv ==
    ASSUME ClaudeInv, pc = "read", MetEnd, "torn" \notin Faults,
           NEW e, e = NewEntry(EndOfFile(parse))
    PROVE  FpInv(e.fp) /\ IsEntry(e)
<1>1. FpInv(fp) /\ pos \in Nat /\ Reached /\ script \in Scripts /\ Len(script) \in Nat
  BY ScriptIsSeq DEF ClaudeInv, ScanInv, FileInv
<1>2. PICK n \in 0..Len(script), name \in Names : ReachedAs(n, name)
  BY <1>1 DEF Reached
<1>3. n \in Nat /\ At(n) /\ parse = Whole(SubSeq(script, 1, n), name) /\ (Watches(fp) => name = NameNow)
  BY <1>1, <1>2 DEF ReachedAs
<1>4. PICK lines : lines = SubSeq(script, 1, n)
  OBVIOUS
<1>5. PICK p : p = ParseFile(lines, name)
  OBVIOUS
<1>6. p = EndOfFile(parse)
  BY <1>3, <1>4, <1>5 DEF ParseFile, Whole
<1>7. /\ e = [fp |-> fp, messages |-> ClampedAll(p.messages), checkpoint |-> Checkpoint(p)]
      /\ e.fp = fp /\ e.checkpoint = Checkpoint(p)
  BY <1>6 DEF NewEntry
<1>8. e.checkpoint # NoCheckpoint => ~p.blocked /\ e.checkpoint = CheckpointOf(p, n, lines)
  <2> SUFFICES ASSUME e.checkpoint # NoCheckpoint
               PROVE  ~p.blocked /\ e.checkpoint = CheckpointOf(p, n, lines)
    OBVIOUS
  <2>1. ~p.blocked /\ pos % 3 = 0
    BY <1>7 DEF Checkpoint
  <2>2. Checkpoint(p) = [offset |-> pos, prefix |-> SubSeq(script, 1, pos \div 3), state |-> p.st,
                         hours |-> [i \in DOMAIN p.messages |-> p.messages[i].tokens.hour]]
    BY <1>7 DEF Checkpoint
  <2>3. pos = 3 * n /\ pos \div 3 = n
    <3>1. pos = 3 * n \/ pos + 1 = 3 * n \/ pos = 3 * n + 1
      BY <1>3 DEF At
    <3> QED
      BY <1>1, <1>3, <2>1, <3>1
  <2> QED
    BY <1>4, <1>7, <2>1, <2>2, <2>3 DEF CheckpointOf
<1>9. e.fp.version = rewrites /\ e.fp.content = file => lines = Visible(file, script)
  BY <1>3, <1>4, <1>7, AllRead
<1>10. EntryOf(e, script, n, name)
  <2>1. e = [fp |-> e.fp, messages |-> ClampedAll(p.messages), checkpoint |-> e.checkpoint]
    BY <1>7
  <2> QED
    BY <1>3, <1>4, <1>5, <1>7, <1>8, <1>9, <2>1 DEF EntryOf
<1> QED
  BY <1>1, <1>2, <1>7, <1>10 DEF IsEntry

\* The end of a scan, with the entry it leaves.
LEMMA IdleInv ==
    ASSUME ClaudeInv, Idle, ScanEnds, UNCHANGED related,
           \/ entry' = entry
           \/ entry' # NoEntry => FpInv(entry'.fp) /\ IsEntry(entry')
    PROVE  ClaudeInv'
<1>1. UNCHANGED <<script, file, rewrites, related>>
  BY DEF ScanEnds
<1>2. /\ TypeInv' /\ FileInv' /\ (entry' = entry => EntryInv')
      /\ \A f : FpInv(f) <=> FpInv(f)'
      /\ \A e : IsEntry(e) <=> IsEntry(e)'
  BY <1>1, ScanKeeps
<1>3. EntryInv'
  <2> SUFFICES ASSUME entry' # NoEntry => FpInv(entry'.fp) /\ IsEntry(entry') PROVE EntryInv'
    BY <1>2
  <2>1. PICK e : e = entry'
    OBVIOUS
  <2>2. PICK f : f = e.fp
    OBVIOUS
  <2>3. entry' # NoEntry => FpInv(f)' /\ IsEntry(e)'
    BY <1>2, <2>1, <2>2
  <2> QED
    BY <2>1, <2>2, <2>3 DEF EntryInv
<1>4. ScanInv' /\ StartInv'
  BY DEF Idle, ScanInv, StartInv
<1> QED
  BY <1>2, <1>3, <1>4 DEF ClaudeInv

\* A scan meets the end of the file.
LEMMA EndReadInv == ASSUME ClaudeInv, EndRead, "torn" \notin Faults PROVE ClaudeInv'
<1>1. /\ pc = "read" /\ MetEnd /\ Idle /\ ScanEnds /\ UNCHANGED related
      /\ entry' = entry \/ entry' = NewEntry(EndOfFile(parse))
  BY DEF EndRead
<1>2. PICK e : e = NewEntry(EndOfFile(parse))
  OBVIOUS
<1>3. FpInv(e.fp) /\ IsEntry(e)
  BY <1>1, <1>2, NewEntryInv
<1>4. entry' = entry \/ (FpInv(entry'.fp) /\ IsEntry(entry'))
  BY <1>1, <1>2, <1>3
<1> QED
  BY <1>1, <1>4, IdleInv

\* A read fails.
LEMMA FailReadInv == ASSUME ClaudeInv, FailRead PROVE ClaudeInv'
<1>1. Idle /\ ScanEnds /\ UNCHANGED related /\ entry' = entry
  BY DEF FailRead
<1> QED
  BY <1>1, IdleInv

\* Every step keeps the invariant, where no line is read in two parts.
LEMMA NextClaudeInv ==
    ASSUME "torn" \notin Faults
    PROVE  ClaudeInv /\ [Next]_vars => ClaudeInv'
<1> SUFFICES ASSUME ClaudeInv, [Next]_vars PROVE ClaudeInv'
  OBVIOUS
<1>1. CASE Write
  BY <1>1, WriteInv
<1>2. CASE CutBack
  BY <1>2, CutBackInv
<1>3. CASE NameAgent
  BY <1>3, NameAgentInv
<1>4. CASE Check
  BY <1>4, CheckInv
<1>5. CASE Hit
  BY <1>5, HitInv
<1>6. CASE CheckPrefix
  BY <1>6, CheckPrefixInv
<1>7. CASE ReadLine
  BY <1>7, ReadLineInv
<1>8. CASE EndRead
  BY <1>8, EndReadInv
<1>9. CASE FailRead
  BY <1>9, FailReadInv
<1>10. CASE UNCHANGED vars
  <2>1. UNCHANGED <<script, file, rewrites, related, scanVars, entry>>
    BY <1>10 DEF vars, fileVars
  <2> QED
    BY <2>1, StayInv
<1> QED
  BY <1>1, <1>2, <1>3, <1>4, <1>5, <1>6, <1>7, <1>8, <1>9, <1>10 DEF Next, Scan

\* While no line is read in two parts, whatever else happens to a transcript
\* and the files beside it: what a scan has parsed is the parse of the lines
\* before its offset, and an entry is that of some of the lines of a session,
\* under the name its fingerprint watches.
THEOREM ClaudeScansAreSound == "torn" \notin Faults /\ Spec => []ClaudeInv
<1> SUFFICES ASSUME "torn" \notin Faults PROVE Spec => []ClaudeInv
  OBVIOUS
<1>1. Init => ClaudeInv
  BY InitClaudeInv
<1>2. ClaudeInv /\ [Next]_vars => ClaudeInv'
  BY NextClaudeInv
<1> QED
  BY <1>1, <1>2, PTL DEF Spec

-------------------------------------------------------------------------------
(***************************************************************************)
(* The properties.                                                         *)
(***************************************************************************)
LEMMA ParseOfIsParseFile ==
    ASSUME NEW s \in Scripts, NEW n \in 0..Len(s), NEW name \in Names
    PROVE  LET lines == SubSeq(s, 1, n)
           IN  /\ ParseOf[lines][name] = ParseFile(lines, name)
               /\ MessagesOf(lines, name) = ClampedAll(ParseFile(lines, name).messages)
<1>1. PICK lines : lines = SubSeq(s, 1, n)
  OBVIOUS
<1>2. lines \in Prefixes
  <2>1. lines \in {SubSeq(s, 1, m) : m \in 0..Len(s)}
    BY <1>1
  <2> QED
    BY <2>1 DEF Prefixes
<1>3. ParseOf[lines][name] = ParseFile(lines, name)
  BY <1>2 DEF ParseOf
<1> QED
  BY <1>1, <1>3 DEF MessagesOf

\* An entry that would be hit is the parse of what the file holds, the line
\* whose newline is missing included.
LEMMA HitIsParse ==
    ASSUME ClaudeInv, IsHit
    PROVE  /\ entry.messages = MessagesOf(Visible(file, script), NameNow)
           /\ \E n \in Len(file.lines)..Len(script) : Visible(file, script) = SubSeq(script, 1, n)
<1>1. /\ TypeInv /\ FileInv /\ FpInv(entry.fp) /\ IsEntry(entry)
      /\ script \in Scripts /\ Written(file, script)
  BY DEF ClaudeInv, EntryInv, IsHit, FileInv
<1>2. PICK e : e = entry
  OBVIOUS
<1>3. /\ e.fp.content = file /\ e.fp.version = rewrites /\ e.fp.meta = meta
      /\ e.fp.parent \in {None, parent}
  <2>1. e.fp = Snapshot(Warm(entry))
    BY <1>2 DEF IsHit, Unchanged
  <2> QED
    BY <2>1 DEF Snapshot
<1>4. PICK s \in Scripts : \E n \in 0..Len(s) : \E name \in Names : EntryOf(e, s, n, name)
  BY <1>1, <1>2 DEF IsEntry
<1>5. PICK k \in 0..Len(s), name \in Names : EntryOf(e, s, k, name)
  BY <1>4
<1>6. PICK lines : lines = Visible(file, script)
  OBVIOUS
<1>7. SubSeq(s, 1, k) = lines /\ e.messages = ClampedAll(ParseFile(lines, name).messages)
  <2>1. SubSeq(s, 1, k) = lines
    BY <1>3, <1>5, <1>6 DEF EntryOf
  <2>2. e.messages = ClampedAll(ParseFile(SubSeq(s, 1, k), name).messages)
    BY <1>5 DEF EntryOf
  <2> QED
    BY <2>1, <2>2
<1>8. PICK n \in 0..Len(script) : lines = SubSeq(script, 1, n) /\ Len(file.lines) <= n
  <2>1. Len(file.lines) \in Nat /\ \A m \in Nat : m <= m /\ m <= m + 1
    BY <1>1, WrittenForm, ScriptIsSeq
  <2> QED
    BY <1>1, <1>6, <2>1, VisibleForm
<1>9. ParseFile(lines, name) = ParseFile(lines, NameNow)
  <2>1. CASE Watches(e.fp)
    BY <1>5, <2>1 DEF EntryOf
  <2>2. CASE ~Watches(e.fp)
    <3>1. e.fp.parent = None /\ MetaNames[e.fp.meta] = None
      BY <1>3, <2>2 DEF Watches
    <3>2. NoSubagent(lines)
      BY <1>1, <1>2, <1>3, <1>6, <3>1 DEF FpInv
    <3>3. \A i \in 1..n : ~IsSubagent(script[i])
      <4>1. /\ Len(lines) \in Nat /\ \A i \in 1..Len(lines) : lines[i] = script[i]
        BY <1>1, <1>6, VisibleLines
      <4>2. Len(lines) = n
        <5>1. IsSeq(script) /\ Len(script) \in Nat
          BY <1>1, ScriptIsSeq
        <5>2. n \in Nat /\ n <= Len(script)
          BY <5>1
        <5> QED
          BY <1>8, <5>1, <5>2, FirstLines
      <4> QED
        BY <3>2, <4>1, <4>2 DEF NoSubagent
    <3>4. AreLines(script)
      BY <1>1, ScriptLines
    <3>5. Whole(SubSeq(script, 1, n), name) = Whole(SubSeq(script, 1, n), NameNow)
      BY <3>3, <3>4, AnyName
    <3> QED
      BY <1>8, <3>5 DEF ParseFile, Whole
  <2> QED
    BY <2>1, <2>2
<1>10. MessagesOf(lines, NameNow) = ClampedAll(ParseFile(lines, NameNow).messages)
  BY <1>1, <1>8, NameIsName, ParseOfIsParseFile
<1>11. n \in Len(file.lines)..Len(script)
  <2>1. Len(file.lines) \in Nat /\ Len(script) \in Nat
    BY <1>1, WrittenForm, ScriptIsSeq
  <2> QED
    BY <1>8, <2>1
<1> QED
  BY <1>2, <1>6, <1>7, <1>8, <1>9, <1>10, <1>11

\* A checkpoint is where the full parse of the lines before it stands.
LEMMA CheckpointIsParse == ASSUME ClaudeInv PROVE CheckpointIsFullParse
<1> SUFFICES ASSUME HasCheckpoint
             PROVE  \E name \in Names :
                      /\ ParseOf[entry.checkpoint.prefix][name].st = entry.checkpoint.state
                      /\ ParseOf[entry.checkpoint.prefix][name].messages = Restored(entry)
                      /\ MessagesOf(entry.checkpoint.prefix, name) = entry.messages
  BY DEF CheckpointIsFullParse
<1>1. IsEntry(entry) /\ entry.checkpoint # NoCheckpoint
  BY DEF ClaudeInv, EntryInv, HasCheckpoint
<1>2. PICK e : e = entry
  OBVIOUS
<1>3. PICK s \in Scripts : \E n \in 0..Len(s) : \E name \in Names : EntryOf(e, s, n, name)
  BY <1>1, <1>2 DEF IsEntry
<1>4. PICK n \in 0..Len(s), name \in Names : EntryOf(e, s, n, name)
  BY <1>3
<1>5. PICK lines : lines = SubSeq(s, 1, n)
  OBVIOUS
<1>6. PICK p : p = ParseFile(lines, name)
  OBVIOUS
<1>7. /\ e.messages = ClampedAll(p.messages) /\ ~p.blocked
      /\ e.checkpoint = CheckpointOf(p, n, lines)
  BY <1>1, <1>2, <1>4, <1>5, <1>6 DEF EntryOf
<1>8. IsParse(p) /\ p.stream = NoStream
  <2>1. p = EndOfFile(Whole(lines, name))
    BY <1>6 DEF ParseFile, Whole
  <2>2. IsParse(Whole(lines, name))
    BY <1>5, ScriptLines, WholeIsParse
  <2> QED
    BY <1>7, <2>1, <2>2, EndParts
<1>9. Restored(e) = p.messages
  BY <1>7, <1>8, RestoredParse
<1>10. e.checkpoint.prefix = lines /\ e.checkpoint.state = p.st
  BY <1>7 DEF CheckpointOf
<1>11. ParseOf[lines][name] = p /\ MessagesOf(lines, name) = ClampedAll(p.messages)
  BY <1>5, <1>6, ParseOfIsParseFile
<1> QED
  BY <1>2, <1>7, <1>9, <1>10, <1>11

\* What the cache holds of a transcript is a full parse: an entry that would be
\* hit that of the file as it is, under the name its agent has now, and a
\* checkpoint that of the lines it stands for.
THEOREM ClaudeEntriesAreFullParses ==
    "torn" \notin Faults /\ Spec => []EntryIsFullParse
<1>1. ClaudeInv => EntryIsFullParse
  BY HitIsParse, CheckpointIsParse DEF EntryIsFullParse, HitIsExact
<1>2. "torn" \notin Faults /\ Spec => []ClaudeInv
  BY ClaudeScansAreSound
<1> QED
  BY <1>1, <1>2, PTL

\* An undisturbed scan that meets the end of the file has read all that was
\* there when it began, under the name the agent has now.
LEMMA UndisturbedEnd ==
    ASSUME ClaudeInv, EndRead, start # None, "torn" \notin Faults
    PROVE  \E n \in Len(start.lines)..Len(script) :
              /\ EndOfFile(parse) = ParseFile(SubSeq(script, 1, n), NameNow)
              /\ start = file /\ file.part = "none" =>
                   n = Len(file.lines) /\ pos = 3 * n /\ SubSeq(script, 1, n) = file.lines
<1>1. /\ pc = "read" /\ MetEnd /\ TypeInv /\ FileInv /\ script \in Scripts /\ Len(script) \in Nat
      /\ FpInv(fp) /\ pos \in Nat /\ Reached
      /\ start = fp.content /\ fp.version = rewrites /\ pos % 3 # 1 /\ pos <= Size(file)
  <2>1. pc = "read" /\ MetEnd
    BY DEF EndRead
  <2> QED
    BY <2>1, ScriptIsSeq DEF ClaudeInv, ScanInv, StartInv, FileInv
<1>2. pos >= Size(file)
  BY <1>1 DEF MetEnd
<1>3. Written(start, script) /\ Size(start) <= Size(file)
  BY <1>1 DEF FpInv
<1>4. PICK k \in Nat : k = Len(start.lines)
  BY <1>1, <1>3, WrittenForm
<1>5. PICK c \in 0..2 : c = PartSize(start.part) /\ (start.part = "none" => c = 0)
  BY <1>1, <1>3, WrittenForm
<1>6. Size(start) = 3 * k + c /\ Size(file) \in Nat
  BY <1>1, <1>4, <1>5, WrittenForm DEF Size, FileInv
<1>7. PICK n \in 0..Len(script), name \in Names : ReachedAs(n, name)
  BY <1>1 DEF Reached
<1>8. n \in Nat /\ n <= Len(script) /\ At(n) /\ parse = Whole(SubSeq(script, 1, n), NameNow)
  BY <1>1, <1>7 DEF ReachedAs
<1>9. pos = 3 * n \/ pos + 1 = 3 * n
  <2>1. pos = 3 * n \/ pos + 1 = 3 * n \/ pos = 3 * n + 1
    BY <1>8 DEF At
  <2> QED
    BY <1>1, <1>8, <2>1
<1>10. k <= n
  BY <1>2, <1>3, <1>6, <1>8, <1>9, <1>1
<1>11. n \in k..Len(script)
  BY <1>1, <1>8, <1>10
<1>12. EndOfFile(parse) = ParseFile(SubSeq(script, 1, n), NameNow)
  BY <1>8 DEF ParseFile, Whole
<1>13. ASSUME start = file, file.part = "none"
       PROVE  n = Len(file.lines) /\ pos = 3 * n /\ SubSeq(script, 1, n) = file.lines
  <2>1. pos = 3 * k
    BY <1>1, <1>2, <1>5, <1>6, <1>13
  <2>2. n = k
    BY <1>8, <1>9, <2>1
  <2>3. file.lines = SubSeq(script, 1, Len(file.lines))
    BY <1>1, WrittenForm DEF FileInv
  <2> QED
    BY <1>4, <1>13, <2>1, <2>2, <2>3
<1> QED
  BY <1>4, <1>11, <1>12, <1>13

\* What was written is not None.
LEMMA NoneIsNoFile == ASSUME NEW s \in Scripts, NEW f, Written(f, s) PROVE f # None
<1>1. PICK n \in 0..Len(s), part \in {"none", "cut", "bare"} :
          f = [lines |-> SubSeq(s, 1, n), part |-> part]
  BY DEF Written
<1> QED
  BY <1>1, NoneAssumption

\* What an undisturbed scan reports is the parse of a content the file had
\* while the scan ran, whatever was added meanwhile.
THEOREM ClaudeScansServeAState == "torn" \notin Faults /\ Spec => ServesAState
<1> SUFFICES ASSUME "torn" \notin Faults PROVE Spec => ServesAState
  OBVIOUS
<1>1. ASSUME ClaudeInv, [Next]_vars, served' # served, served'.of # None
      PROVE  \E n \in Len(served'.of.lines)..Len(script) :
                served'.messages = MessagesOf(SubSeq(script, 1, n), NameNow)
  <2>1. NothingServed.of = None
    BY DEF NothingServed
  <2>2. CASE Hit
    <3>1. IsHit /\ served' = [messages |-> entry.messages, of |-> file]
      BY <2>2 DEF Hit
    <3>2. PICK n \in Len(file.lines)..Len(script) : Visible(file, script) = SubSeq(script, 1, n)
      BY <1>1, <3>1, HitIsParse
    <3>3. served'.messages = MessagesOf(SubSeq(script, 1, n), NameNow)
      BY <1>1, <3>1, <3>2, HitIsParse
    <3> QED
      BY <3>1, <3>2, <3>3
  <2>3. CASE EndRead
    <3>1. start # None
          /\ served' = [messages |-> ClampedAll(EndOfFile(parse).messages), of |-> start]
      BY <1>1, <2>1, <2>3 DEF EndRead
    <3>2. PICK n \in Len(start.lines)..Len(script) :
              EndOfFile(parse) = ParseFile(SubSeq(script, 1, n), NameNow)
      BY <1>1, <2>3, <3>1, UndisturbedEnd
    <3>3. script \in Scripts /\ n \in 0..Len(script) /\ TypeInv
      <4>1. Written(start, script) /\ script \in Scripts
        BY <1>1, <2>3, <3>1 DEF EndRead, ClaudeInv, ScanInv, StartInv, FpInv, FileInv
      <4>2. Len(start.lines) \in Nat /\ Len(script) \in Nat
        BY <4>1, WrittenForm, ScriptIsSeq
      <4> QED
        BY <1>1, <4>1, <4>2 DEF ClaudeInv
    <3>4. served'.messages = MessagesOf(SubSeq(script, 1, n), NameNow)
      BY <3>1, <3>2, <3>3, NameIsName, ParseOfIsParseFile
    <3> QED
      BY <3>1, <3>2, <3>4
  <2>4. CASE ~Hit /\ ~EndRead
    <3>1. served' = served \/ served' = NothingServed
      BY <1>1, <2>4 DEF Next, Scan, Write, CutBack, NameAgent, Check, CheckPrefix, ReadLine,
                        FailRead, vars
    <3> QED
      BY <1>1, <2>1, <3>1
  <2> QED
    BY <2>2, <2>3, <2>4
<1>2. Spec => []ClaudeInv
  BY ClaudeScansAreSound
<1> QED
  BY <1>1, <1>2, PTL DEF Spec, ServesAState

\* The entry such a scan leaves of a complete transcript.
LEMMA QuietEnd ==
    ASSUME ClaudeInv, EndRead, start = file, file.part = "none", "torn" \notin Faults,
           ParseOf[file.lines][NameNow].messages # <<>>
    PROVE  /\ IsHit'
           /\ ParseOf[file.lines][NameNow].blocked \/ entry'.checkpoint # NoCheckpoint
<1>1. /\ script \in Scripts /\ Written(file, script) /\ Len(script) \in Nat /\ TypeInv
  BY ScriptIsSeq DEF ClaudeInv, FileInv
<1>2. start # None
  BY <1>1, NoneIsNoFile
<1>3. PICK n \in Len(start.lines)..Len(script) :
          /\ EndOfFile(parse) = ParseFile(SubSeq(script, 1, n), NameNow)
          /\ n = Len(file.lines) /\ pos = 3 * n /\ SubSeq(script, 1, n) = file.lines
  BY <1>2, UndisturbedEnd
<1>4. n \in 0..Len(script) /\ n \in Nat
  BY <1>1, <1>3, WrittenForm
<1>5. PICK p : p = EndOfFile(parse)
  OBVIOUS
<1>6. p = ParseOf[file.lines][NameNow]
  BY <1>1, <1>3, <1>4, <1>5, NameIsName, ParseOfIsParseFile
<1>7. /\ entry' = [fp |-> fp, messages |-> ClampedAll(p.messages), checkpoint |-> Checkpoint(p)]
      /\ UNCHANGED <<script, file, rewrites, related>>
  BY <1>5, <1>6 DEF EndRead, NewEntry, ScanEnds
<1>8. IsHit'
  <2>1. entry' # NoEntry
    BY <1>7 DEF NoEntry
  <2>2. /\ fp = [content |-> file, version |-> rewrites, meta |-> meta, parent |-> fp.parent]
        /\ fp.parent = None \/ (fp.parent = parent /\ MetaNames[meta] = None)
    <3>1. /\ FpInv(fp) /\ fp.content = file /\ fp.version = rewrites /\ fp.meta = meta
          /\ fp.parent \in {None, parent}
      BY <1>2 DEF EndRead, ClaudeInv, ScanInv, StartInv
    <3> QED
      BY <3>1 DEF FpInv
  <2>3. entry'.fp = fp /\ meta' = meta /\ parent' = parent /\ file' = file /\ rewrites' = rewrites
    BY <1>7 DEF related
  <2>4. Warm(entry)' <=> (MetaNames[meta] = None /\ fp.parent # None)
    BY <2>3 DEF Warm, Tier1
  <2>5. Snapshot(Warm(entry))' =
          [content |-> file, version |-> rewrites, meta |-> meta,
           parent |-> IF Warm(entry)' THEN parent ELSE None]
    BY <2>3 DEF Snapshot
  <2>6. (IF Warm(entry)' THEN parent ELSE None) = fp.parent
    BY <2>2, <2>4
  <2>7. Unchanged(entry)'
    <3>1. Snapshot(Warm(entry))' = fp
      BY <2>2, <2>5, <2>6
    <3> QED
      BY <2>3, <3>1 DEF Unchanged
  <2> QED
    BY <2>1, <2>7 DEF IsHit
<1>9. p.blocked \/ entry'.checkpoint # NoCheckpoint
  <2> SUFFICES ASSUME ~p.blocked PROVE entry'.checkpoint # NoCheckpoint
    OBVIOUS
  <2>1. n # 0
    <3> SUFFICES ASSUME n = 0 PROVE FALSE
      OBVIOUS
    <3>1. IsSeq(script) /\ AreLines(script)
      BY <1>1, ScriptLines DEF AreLines
    <3>2. Whole(SubSeq(script, 1, n), NameNow) = InitParse(<<>>, InitState)
      BY <3>1, WholeOneMore
    <3>3. p = EndOfFile(InitParse(<<>>, InitState))
      BY <1>3, <1>5, <3>2 DEF ParseFile, Whole
    <3>4. p = InitParse(<<>>, InitState)
      BY <3>3, InitIsParse, EndParts
    <3>5. p.messages = <<>>
      BY <3>4 DEF InitParse
    <3> QED
      BY <1>6, <3>5
  <2>2. pos # 0 /\ pos % 3 = 0
    <3>1. \A m \in Nat : (3 * m) % 3 = 0 /\ (m # 0 => 3 * m # 0)
      OBVIOUS
    <3>2. n \in Nat /\ n # 0 /\ pos = 3 * n
      BY <1>3, <1>4, <2>1
    <3> QED
      BY <3>1, <3>2
  <2>3. Checkpoint(p) = [offset |-> pos, prefix |-> SubSeq(script, 1, pos \div 3), state |-> p.st,
                         hours |-> [i \in DOMAIN p.messages |-> p.messages[i].tokens.hour]]
    BY <2>2 DEF Checkpoint
  <2>4. Checkpoint(p) # NoCheckpoint
    BY <2>3 DEF NoCheckpoint
  <2> QED
    BY <1>7, <2>4
<1> QED
  BY <1>6, <1>8, <1>9

\* A scan of a complete transcript nobody touched meanwhile leaves an entry the
\* next scan hits and, unless something in it depends on the whole file, a
\* checkpoint to resume from.
THEOREM ClaudeQuietScansCache == "torn" \notin Faults /\ Spec => QuietScanCaches
<1> SUFFICES ASSUME "torn" \notin Faults PROVE Spec => QuietScanCaches
  OBVIOUS
<1>1. ASSUME ClaudeInv, [Next]_vars,
             pc = "read", pc' = "idle", served'.of = file, file.part = "none",
             ParseOf[file.lines][NameNow].messages # <<>>
      PROVE  /\ IsHit'
             /\ ParseOf[file.lines][NameNow].blocked \/ entry'.checkpoint # NoCheckpoint
  <2>1. EndRead \/ FailRead
    BY <1>1 DEF Next, Scan, Write, CutBack, NameAgent, Check, Hit, CheckPrefix, ReadLine,
                scanVars, vars
  <2>2. file # None
    BY <1>1, NoneIsNoFile DEF ClaudeInv, FileInv
  <2>3. served' # NothingServed
    BY <1>1, <2>2 DEF NothingServed
  <2>4. EndRead /\ start = file
    <3>1. EndRead
      BY <2>1, <2>3 DEF FailRead
    <3>2. start # None
      BY <2>3, <3>1 DEF EndRead
    <3>3. served' = [messages |-> ClampedAll(EndOfFile(parse).messages), of |-> start]
      BY <3>1, <3>2 DEF EndRead
    <3> QED
      BY <1>1, <3>1, <3>3
  <2> QED
    BY <1>1, <2>4, QuietEnd
<1>2. Spec => []ClaudeInv
  BY ClaudeScansAreSound
<1> QED
  BY <1>1, <1>2, PTL DEF Spec, QuietScanCaches

===============================================================================
